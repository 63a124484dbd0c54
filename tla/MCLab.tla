------------------------------- MODULE MCLab -------------------------------
(***************************************************************************)
(* Two clients, a seeder that runs twice and the panel's reset over one    *)
(* conversation of each kind.                                              *)
(***************************************************************************)
EXTENDS LabDatabase, TLC

CONSTANTS seeded, made, c1, c2, seeder, panel

SendsOf == [r \in Clients |-> 1]
=============================================================================
