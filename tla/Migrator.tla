------------------------------ MODULE Migrator ------------------------------
(***************************************************************************)
(* migrator.ts and scripts/migrate.ts: runners that bring one database to  *)
(* the schema of their directory.  Nothing stops two pods, or a pod and a  *)
(* developer, from running at once, with directories of different commits. *)
(*                                                                         *)
(* A session advisory lock serializes them, but not the creation of the    *)
(* table that records what was applied; and statement_timeout, which the   *)
(* pool gives to every connection, also ends the wait for that lock.       *)
(***************************************************************************)
EXTENDS Integers, Sequences

CONSTANTS
    Runners,
    Sqls,           \* contents of migration files; a checksum names one
    Versions,
    DirectoryOf,    \* [Runners -> Seq([version, sql])], sorted by file name
    StatusOnly,     \* runners started with --status
    Broken,         \* contents the database refuses
    NotApplied,     \* a version without row
    Nobody,
    MaxFaults       \* bound: crashes, timeouts, lost acknowledgements, refusals

Files == [version : Versions, sql : Sqls]

(* One content belongs to one version, and a directory has a file for each *)
(* version at most: the names 0001_... are given once.                     *)
ASSUME MigratorAssumption ==
    /\ StatusOnly \subseteq Runners
    /\ Nobody \notin Runners
    /\ NotApplied \notin Sqls
    /\ MaxFaults \in Nat
    /\ \A r \in Runners :
        /\ DirectoryOf[r] \in Seq(Files)
        /\ \A i, j \in DOMAIN DirectoryOf[r] :
            DirectoryOf[r][i].version = DirectoryOf[r][j].version => i = j
    /\ \A r, s \in Runners : \A i \in DOMAIN DirectoryOf[r], j \in DOMAIN DirectoryOf[s] :
        DirectoryOf[r][i].sql = DirectoryOf[s][j].sql
            => DirectoryOf[r][i].version = DirectoryOf[s][j].version

VARIABLES
    tableExists,    \* schema_migrations is there
    applied,        \* [Versions -> content whose checksum the row has]
    schema,         \* contents the database has executed
    lockHolder,     \* of pg_advisory_lock
    pc,
    known,          \* [Runners -> byVersion, the rows it read]
    position,       \* [Runners -> index of the file in turn]
    reason,         \* [Runners -> why it failed]
    faults

databaseVars == <<tableExists, applied, schema>>
runnerVars == <<known, position, reason>>
vars == <<databaseVars, lockHolder, pc, runnerVars, faults>>

Steps == {"start", "check", "create", "lock", "read", "files", "unlock", "done", "failed"}

Reasons == {"none", "table race", "lock timeout", "changed", "broken", "exists", "fault"}

Rows == [Versions -> Sqls \cup {NotApplied}]

TypeOK ==
    /\ tableExists \in BOOLEAN
    /\ applied \in Rows
    /\ schema \subseteq Sqls
    /\ lockHolder \in Runners \cup {Nobody}
    /\ pc \in [Runners -> Steps]
    /\ known \in [Runners -> Rows]
    /\ position \in [Runners -> Nat \ {0}]
    /\ reason \in [Runners -> Reasons]
    /\ faults \in 0..MaxFaults

NoRows == [v \in Versions |-> NotApplied]

(* The database starts without tables: the first deploy.                   *)
Init ==
    /\ tableExists = FALSE
    /\ applied = NoRows
    /\ schema = {}
    /\ lockHolder = Nobody
    /\ pc = [r \in Runners |-> "start"]
    /\ known = [r \in Runners |-> NoRows]
    /\ position = [r \in Runners |-> 1]
    /\ reason = [r \in Runners |-> "none"]
    /\ faults = 0

-----------------------------------------------------------------------------
Goto(r, step) == pc' = [pc EXCEPT ![r] = step]

Because(r, why) == reason' = [reason EXCEPT ![r] = why]

Throw(r, step, why) == Goto(r, step) /\ Because(r, why)

File(r) == DirectoryOf[r][position[r]]

Pending(r) == position[r] <= Len(DirectoryOf[r])

Fault == faults < MaxFaults /\ faults' = faults + 1

(* main: a run, or the restart of a Job that failed (OnFailure).           *)
Start(r) ==
    /\ pc[r] \in {"start", "failed"}
    /\ Goto(r, "check")
    /\ known' = [known EXCEPT ![r] = NoRows]
    /\ position' = [position EXCEPT ![r] = 1]
    /\ Because(r, "none")
    /\ UNCHANGED <<databaseVars, lockHolder, faults>>

AfterTable(r) == IF r \in StatusOnly THEN "read" ELSE "lock"

(* CREATE TABLE IF NOT EXISTS looks for the table, and creates it in a     *)
(* second step: what another session created in between makes it fail on   *)
(* the catalog's unique index.                                             *)
FindTable(r) ==
    /\ pc[r] = "check"
    /\ Goto(r, IF tableExists THEN AfterTable(r) ELSE "create")
    /\ UNCHANGED <<databaseVars, lockHolder, runnerVars, faults>>

CreateTable(r) ==
    /\ pc[r] = "create"
    /\ ~tableExists
    /\ tableExists' = TRUE
    /\ Goto(r, AfterTable(r))
    /\ UNCHANGED <<applied, schema, lockHolder, runnerVars, faults>>

LoseCreation(r) ==
    /\ pc[r] = "create"
    /\ tableExists
    /\ Throw(r, "failed", "table race")
    /\ UNCHANGED <<databaseVars, lockHolder, known, position, faults>>

(* Mutant of LockIsFree: every runner locks a key of its own.              *)
EveryLockIsFree == TRUE

LockIsFree == lockHolder = Nobody

Lock(r) ==
    /\ pc[r] = "lock"
    /\ LockIsFree
    /\ lockHolder' = r
    /\ Goto(r, "read")
    /\ UNCHANGED <<databaseVars, runnerVars, faults>>

(* The wait for the lock is a statement like any other.  The finally       *)
(* unlocks a lock this session does not have, which only warns.            *)
LockTimeout(r) ==
    /\ pc[r] = "lock"
    /\ ~LockIsFree
    /\ Fault
    /\ Throw(r, "failed", "lock timeout")
    /\ UNCHANGED <<databaseVars, lockHolder, known, position>>

(* byVersion, read once under the lock; --status ends with it.             *)
ReadApplied(r) ==
    /\ pc[r] = "read"
    /\ known' = [known EXCEPT ![r] = applied]
    /\ Goto(r, IF r \in StatusOnly THEN "done" ELSE "files")
    /\ UNCHANGED <<databaseVars, lockHolder, position, reason, faults>>

-----------------------------------------------------------------------------
(* The loop over the files *)

(* Mutant of Skippable: the checksum is not compared.                      *)
KnownVersion(r) == known[r][File(r).version] # NotApplied

Skippable(r) == known[r][File(r).version] = File(r).sql

Skip(r) ==
    /\ pc[r] = "files" /\ Pending(r)
    /\ Skippable(r)
    /\ position' = [position EXCEPT ![r] = position[r] + 1]
    /\ UNCHANGED <<databaseVars, lockHolder, pc, known, reason, faults>>

Changed(r) ==
    /\ pc[r] = "files" /\ Pending(r)
    /\ known[r][File(r).version] \notin {NotApplied, File(r).sql}
    /\ Throw(r, "unlock", "changed")
    /\ UNCHANGED <<databaseVars, lockHolder, known, position, faults>>

IsNew(r) ==
    /\ pc[r] = "files" /\ Pending(r)
    /\ known[r][File(r).version] = NotApplied

(* What exists cannot be created again, nor a row inserted twice.          *)
AlreadyThere(r) ==
    \/ File(r).sql \in schema
    \/ applied[File(r).version] # NotApplied

(* Mutant of Execute: autocommitted DDL, whose row a fault may lose.       *)
ExecuteThenRecord(r) ==
    /\ schema' = schema \cup {File(r).sql}
    /\ \/ applied' = [applied EXCEPT ![File(r).version] = File(r).sql]
       \/ UNCHANGED applied

(* The DDL and the row of one file are one transaction.                    *)
Execute(r) ==
    /\ schema' = schema \cup {File(r).sql}
    /\ applied' = [applied EXCEPT ![File(r).version] = File(r).sql]

CanExecute(r) == IsNew(r) /\ ~AlreadyThere(r) /\ File(r).sql \notin Broken

Apply(r) ==
    /\ CanExecute(r)
    /\ Execute(r)
    /\ position' = [position EXCEPT ![r] = position[r] + 1]
    /\ UNCHANGED <<tableExists, lockHolder, pc, known, reason, faults>>

(* COMMIT reaches the database and its answer is lost: ROLLBACK undoes     *)
(* nothing and the runner fails.                                           *)
ApplyUnacknowledged(r) ==
    /\ CanExecute(r)
    /\ Fault
    /\ Execute(r)
    /\ Throw(r, "unlock", "fault")
    /\ UNCHANGED <<tableExists, lockHolder, known, position>>

RollBack(r) ==
    /\ IsNew(r)
    /\ \/ AlreadyThere(r) /\ Throw(r, "unlock", "exists") /\ UNCHANGED faults
       \/ File(r).sql \in Broken /\ Throw(r, "unlock", "broken") /\ UNCHANGED faults
       \/ Fault /\ Throw(r, "unlock", "fault")
    /\ UNCHANGED <<databaseVars, lockHolder, known, position>>

-----------------------------------------------------------------------------
(* Mutant of Release: no pg_advisory_unlock, and the pool keeps the session. *)
KeepLock(r) == lockHolder' = lockHolder

Release(r) == lockHolder' = IF lockHolder = r THEN Nobody ELSE lockHolder

(* The finally of migrate, after the loop or after an error.               *)
Finish(r) ==
    /\ pc[r] = "files" /\ ~Pending(r)
    /\ Release(r)
    /\ Goto(r, "done")
    /\ UNCHANGED <<databaseVars, runnerVars, faults>>

Unlock(r) ==
    /\ pc[r] = "unlock"
    /\ Release(r)
    /\ Goto(r, "failed")
    /\ UNCHANGED <<databaseVars, runnerVars, faults>>

(* The pod dies or its connection breaks: the open transaction is undone   *)
(* and the session lock falls with the session.                            *)
Crash(r) ==
    /\ pc[r] \notin {"start", "done", "failed"}
    /\ Fault
    /\ Release(r)
    /\ Throw(r, "failed", "fault")
    /\ UNCHANGED <<databaseVars, known, position>>

Step(r) ==
    \/ Start(r) \/ FindTable(r) \/ CreateTable(r) \/ LoseCreation(r)
    \/ Lock(r) \/ LockTimeout(r) \/ ReadApplied(r)
    \/ Skip(r) \/ Changed(r) \/ Apply(r) \/ ApplyUnacknowledged(r) \/ RollBack(r)
    \/ Finish(r) \/ Unlock(r)

Next == \E r \in Runners : Step(r) \/ Crash(r)

Spec == Init /\ [][Next]_vars

(* Runners run, a Job that failed is restarted, and the advisory lock is   *)
(* granted in the order of arrival, hence the strong fairness of Lock.     *)
FairSpec ==
    /\ Spec
    /\ \A r \in Runners : WF_vars(Step(r)) /\ SF_vars(Lock(r))

-----------------------------------------------------------------------------
(* migrator.ts:99, transactional DDL: what the table says was applied is   *)
(* exactly what the database executed, whoever died in the middle.         *)
SchemaIsHistory == schema = {applied[v] : v \in Versions} \ {NotApplied}

(* migrator.ts:123: a run that ends well leaves its reader with exactly    *)
(* the files of its directory: each is applied with the content on disk.   *)
DoneMeansMigrated ==
    \A r \in Runners \ StatusOnly : pc[r] = "done" =>
        \A i \in DOMAIN DirectoryOf[r] :
            applied[DirectoryOf[r][i].version] = DirectoryOf[r][i].sql

(* While a runner works on its files it holds the lock, and the rows are   *)
(* those it read plus those it added.                                      *)
Working(r) == r \notin StatusOnly /\ pc[r] \in {"read", "files", "unlock"}

Done(r, n) ==
    \A i \in 1..(n - 1) : applied[DirectoryOf[r][i].version] = DirectoryOf[r][i].sql

Behind(r) ==
    \A v \in Versions :
        applied[v] # known[r][v] =>
            \E i \in 1..(position[r] - 1) : DirectoryOf[r][i].version = v

WorkersHoldTheLock ==
    \A r \in Runners :
        /\ Working(r) => lockHolder = r
        /\ pc[r] = "read" => position[r] = 1
        /\ pc[r] = "files" =>
            /\ r \notin StatusOnly
            /\ position[r] <= Len(DirectoryOf[r]) + 1
            /\ Done(r, position[r])
            /\ Behind(r)

(* migrator.ts:91: with the lock no runner decides on stale rows, so none  *)
(* ever fails with "relation already exists", whoever runs beside it.      *)
NeverConfused == WorkersHoldTheLock /\ \A r \in Runners : reason[r] # "exists"

-----------------------------------------------------------------------------
(* Nothing on the database contradicts r's directory, now.                 *)
Compatible(r) ==
    \A i \in DOMAIN DirectoryOf[r] :
        /\ DirectoryOf[r][i].sql \notin Broken
        /\ applied[DirectoryOf[r][i].version] \in {NotApplied, DirectoryOf[r][i].sql}

(* A Job that is restarted ends well although it may lose the creation of  *)
(* the table, wait for others and crash, unless somebody applies another   *)
(* content under one of its versions.                                      *)
CompatibleRunnersMigrate ==
    \A r \in Runners : []Compatible(r) => <>(pc[r] = "done")
=============================================================================
