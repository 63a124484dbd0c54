------------------------------ MODULE MCNaive ------------------------------
(***************************************************************************)
(* Two clients with three requests each: sends, publications and acks.     *)
(***************************************************************************)
EXTENDS NaiveService, TLC

ClientSymmetry == Permutations(Clients)
=============================================================================
