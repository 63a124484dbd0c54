---------------------------- MODULE MCMigrator ----------------------------
(***************************************************************************)
(* The Job, a developer of the same commit and one of a branch that edited *)
(* the second file, added a third that the database refuses and asks for   *)
(* the status first; on an empty database.                                 *)
(***************************************************************************)
EXTENDS Migrator, TLC

CONSTANTS job, dev, branch, status, a, b, edited, broken

MCRunners == {job, dev, branch, status}
MCSqls == {a, b, edited, broken}

At(v, sql) == [version |-> v, sql |-> sql]

MCDirectoryOf ==
    job :> <<At(1, a), At(2, b)>>
    @@ dev :> <<At(1, a), At(2, b)>>
    @@ branch :> <<At(1, a), At(2, edited), At(3, broken)>>
    @@ status :> <<At(1, a)>>
=============================================================================
