--------------------------- MODULE MigratorProofs ---------------------------
(***************************************************************************)
(* What Migrator promises for any set of runners, directories and faults.  *)
(* A runner that works on its files holds the lock, so nobody else moves   *)
(* the rows it has read; and a row always comes from some runner's file,   *)
(* so no content is executed under two versions.                           *)
(***************************************************************************)
EXTENDS Migrator, TLAPS

RowsComeFromFiles ==
    \A v \in Versions : applied[v] # NotApplied =>
        \E s \in Runners : \E j \in DOMAIN DirectoryOf[s] :
            DirectoryOf[s][j] = [version |-> v, sql |-> applied[v]]

StartsAtFirst ==
    \A r \in Runners : pc[r] \in {"check", "create", "lock", "read"} => position[r] = 1

IInv ==
    /\ TypeOK
    /\ SchemaIsHistory
    /\ RowsComeFromFiles
    /\ StartsAtFirst
    /\ NeverConfused
    /\ DoneMeansMigrated

(* migrator.ts:123, "una migracion aplicada es historia": no step removes  *)
(* or changes the row of a migration.                                      *)
HistoryIsFinal ==
    [][\A v \in Versions : applied[v] # NotApplied => applied'[v] = applied[v]]_vars

USE DEF databaseVars, runnerVars

LEMMA FilesOfDirectory ==
    ASSUME NEW r \in Runners
    PROVE  /\ DirectoryOf[r] \in Seq(Files)
           /\ \A i \in DOMAIN DirectoryOf[r] :
                /\ DirectoryOf[r][i].version \in Versions
                /\ DirectoryOf[r][i].sql \in Sqls
                /\ DirectoryOf[r][i].sql # NotApplied
<1>1. DirectoryOf[r] \in Seq(Files)
  BY MigratorAssumption
<1>2. \A i \in DOMAIN DirectoryOf[r] : DirectoryOf[r][i] \in Files
  BY <1>1
<1> QED
  BY <1>1, <1>2, MigratorAssumption DEF Files

(* The file in turn.                                                       *)
LEMMA FileInTurn ==
    ASSUME TypeOK, NEW r \in Runners, Pending(r)
    PROVE  /\ position[r] \in DOMAIN DirectoryOf[r]
           /\ File(r) = DirectoryOf[r][position[r]]
           /\ File(r) = [version |-> File(r).version, sql |-> File(r).sql]
           /\ File(r).version \in Versions
           /\ File(r).sql \in Sqls
           /\ File(r).sql # NotApplied
<1>1. DirectoryOf[r] \in Seq(Files)
  BY FilesOfDirectory
<1>2. position[r] \in Nat \ {0}
  BY DEF TypeOK
<1>3. position[r] \in 1..Len(DirectoryOf[r])
  BY <1>1, <1>2 DEF Pending
<1>4. position[r] \in DOMAIN DirectoryOf[r]
  BY <1>1, <1>3
<1>5. File(r) \in Files
  BY <1>1, <1>4 DEF File
<1> QED
  BY <1>4, <1>5, FilesOfDirectory DEF File, Files

(* A worker is alone.                                                      *)
LEMMA OneWorker ==
    ASSUME WorkersHoldTheLock, NEW r \in Runners, NEW q \in Runners, Working(r), Working(q)
    PROVE  q = r
BY DEF WorkersHoldTheLock

LEMMA FilesMeansWorking ==
    ASSUME WorkersHoldTheLock, NEW r \in Runners, pc[r] = "files"
    PROVE  Working(r)
BY DEF WorkersHoldTheLock, Working

(* Nothing a runner finds new is there already: the rows it has not read   *)
(* are those of its earlier files, and one content has one version.        *)
LEMMA NewIsNotThere ==
    ASSUME IInv, NEW r \in Runners, IsNew(r)
    PROVE  ~AlreadyThere(r) /\ applied[File(r).version] = NotApplied
<1> DEFINE v == File(r).version
<1>1. Pending(r) /\ pc[r] = "files" /\ known[r][v] = NotApplied
  BY DEF IsNew
<1>2. /\ position[r] \in DOMAIN DirectoryOf[r] /\ File(r) = DirectoryOf[r][position[r]]
      /\ File(r).sql # NotApplied /\ v \in Versions
  BY <1>1, FileInTurn DEF IInv
<1>3. position[r] \in Nat \ {0} /\ DirectoryOf[r] \in Seq(Files)
  BY FilesOfDirectory DEF IInv, TypeOK
<1>4. Behind(r)
  BY <1>1 DEF IInv, NeverConfused, WorkersHoldTheLock
<1>5. applied[v] = NotApplied
  <2> SUFFICES ASSUME applied[v] # NotApplied
               PROVE  FALSE
    OBVIOUS
  <2>1. PICK i \in 1..(position[r] - 1) : DirectoryOf[r][i].version = v
    BY <1>1, <1>2, <1>4 DEF Behind
  <2>2. i \in DOMAIN DirectoryOf[r] /\ i # position[r]
    BY <1>2, <1>3, <2>1
  <2> QED
    BY <1>2, <2>1, <2>2, MigratorAssumption
<1>6. File(r).sql \notin schema
  <2> SUFFICES ASSUME File(r).sql \in schema
               PROVE  FALSE
    OBVIOUS
  <2>1. PICK w \in Versions : applied[w] = File(r).sql
    BY DEF IInv, SchemaIsHistory
  <2>2. PICK s \in Runners : \E j \in DOMAIN DirectoryOf[s] :
            DirectoryOf[s][j] = [version |-> w, sql |-> applied[w]]
    BY <1>2, <2>1 DEF IInv, RowsComeFromFiles
  <2>3. PICK j \in DOMAIN DirectoryOf[s] :
            DirectoryOf[s][j] = [version |-> w, sql |-> applied[w]]
    BY <2>2
  <2>4. DirectoryOf[s][j].sql = DirectoryOf[r][position[r]].sql /\ DirectoryOf[s][j].version = w
    BY <1>2, <2>1, <2>3
  <2>5. w = v
    BY <1>2, <2>4, MigratorAssumption
  <2> QED
    BY <1>2, <1>5, <2>1, <2>5
<1> QED
  BY <1>5, <1>6 DEF AlreadyThere

-----------------------------------------------------------------------------
LEMMA InitInv ==
    ASSUME Init
    PROVE  IInv
<1>1. TypeOK
  <2>1. NoRows \in Rows
    BY DEF NoRows, Rows
  <2>2. pc \in [Runners -> Steps] /\ reason \in [Runners -> Reasons]
    BY DEF Init, Steps, Reasons
  <2>3. position \in [Runners -> Nat \ {0}] /\ faults \in 0..MaxFaults
    BY MigratorAssumption DEF Init
  <2> QED
    BY <2>1, <2>2, <2>3 DEF Init, TypeOK
<1>2. SchemaIsHistory /\ RowsComeFromFiles
  BY DEF Init, SchemaIsHistory, RowsComeFromFiles, NoRows
<1>3. StartsAtFirst /\ DoneMeansMigrated
  BY DEF Init, StartsAtFirst, DoneMeansMigrated
<1>4. NeverConfused
  BY DEF Init, NeverConfused, WorkersHoldTheLock, Working
<1> QED
  BY <1>1, <1>2, <1>3, <1>4 DEF IInv

(* Types, variable by variable.                                            *)
LEMMA TypeStep ==
    ASSUME TypeOK, NEW r \in Runners, Step(r) \/ Crash(r)
    PROVE  TypeOK'
<1> USE DEF Goto, Throw, Because
<1>1. tableExists' \in BOOLEAN /\ applied' \in Rows /\ schema' \subseteq Sqls
  <2>1. CASE CanExecute(r) /\ Execute(r) /\ UNCHANGED tableExists
    <3>1. File(r).version \in Versions /\ File(r).sql \in Sqls
      BY <2>1, FileInTurn DEF CanExecute, IsNew
    <3> QED
      BY <2>1, <3>1 DEF TypeOK, Execute, Rows
  <2>2. CASE CreateTable(r) \/ UNCHANGED databaseVars
    BY <2>2 DEF TypeOK, CreateTable
  <2> QED
    BY <2>1, <2>2 DEF Step, Start, FindTable, LoseCreation, Lock, LockTimeout, ReadApplied, Skip,
        Changed, Apply, ApplyUnacknowledged, RollBack, Finish, Unlock, Crash
<1>2. lockHolder' \in Runners \cup {Nobody}
  BY DEF TypeOK, Step, Start, FindTable, CreateTable, LoseCreation, Lock, LockTimeout, ReadApplied,
      Skip, Changed, Apply, ApplyUnacknowledged, RollBack, Finish, Unlock, Crash, Release
<1>3. pc' \in [Runners -> Steps]
  BY DEF TypeOK, Steps, AfterTable, Step, Start, FindTable, CreateTable, LoseCreation, Lock,
      LockTimeout, ReadApplied, Skip, Changed, Apply, ApplyUnacknowledged, RollBack, Finish, Unlock, Crash
<1>4. known' \in [Runners -> Rows]
  <2>1. NoRows \in Rows
    BY DEF NoRows, Rows
  <2> QED
    BY <2>1 DEF TypeOK, Step, Start, FindTable, CreateTable, LoseCreation, Lock, LockTimeout,
        ReadApplied, Skip, Changed, Apply, ApplyUnacknowledged, RollBack, Finish, Unlock, Crash
<1>5. position' \in [Runners -> Nat \ {0}]
  <2>1. CASE position' = [position EXCEPT ![r] = position[r] + 1]
    <3>1. position[r] + 1 \in Nat \ {0}
      BY DEF TypeOK
    <3> QED
      BY <2>1, <3>1 DEF TypeOK
  <2>2. CASE position' = [position EXCEPT ![r] = 1] \/ UNCHANGED position
    BY <2>2 DEF TypeOK
  <2> QED
    BY <2>1, <2>2 DEF Step, Start, FindTable, CreateTable, LoseCreation, Lock, LockTimeout, ReadApplied,
        Skip, Changed, Apply, ApplyUnacknowledged, RollBack, Finish, Unlock, Crash
<1>6. reason' \in [Runners -> Reasons]
  BY DEF TypeOK, Reasons, Step, Start, FindTable, CreateTable, LoseCreation, Lock, LockTimeout,
      ReadApplied, Skip, Changed, Apply, ApplyUnacknowledged, RollBack, Finish, Unlock, Crash
<1>7. faults' \in 0..MaxFaults
  <2>1. faults \in 0..MaxFaults /\ MaxFaults \in Nat
    BY MigratorAssumption DEF TypeOK
  <2>2. Fault => faults' \in 0..MaxFaults
    BY <2>1 DEF Fault
  <2> QED
    BY <2>1, <2>2 DEF Step, Start, FindTable, CreateTable, LoseCreation, Lock, LockTimeout,
        ReadApplied, Skip, Changed, Apply, ApplyUnacknowledged, RollBack, Finish, Unlock, Crash
<1> QED
  BY <1>1, <1>2, <1>3, <1>4, <1>5, <1>6, <1>7 DEF TypeOK

(* The steps that execute a file.                                          *)
LEMMA ExecuteKeepsHistory ==
    ASSUME IInv, NEW r \in Runners, CanExecute(r), Execute(r)
    PROVE  /\ SchemaIsHistory'
           /\ RowsComeFromFiles'
           /\ \A v \in Versions : applied[v] # NotApplied => applied'[v] = applied[v]
<1>1. IsNew(r) /\ Pending(r)
  BY DEF CanExecute, IsNew
<1>2. applied[File(r).version] = NotApplied
  BY <1>1, NewIsNotThere
<1>3. /\ position[r] \in DOMAIN DirectoryOf[r] /\ File(r) = DirectoryOf[r][position[r]]
      /\ File(r) = [version |-> File(r).version, sql |-> File(r).sql]
      /\ File(r).version \in Versions /\ File(r).sql # NotApplied
  BY <1>1, FileInTurn DEF IInv
<1>4. \A v \in Versions :
        applied'[v] = IF v = File(r).version THEN File(r).sql ELSE applied[v]
  BY <1>3 DEF Execute, IInv, TypeOK, Rows
<1>5. SchemaIsHistory'
  <2>1. schema' = schema \cup {File(r).sql}
    BY DEF Execute
  <2>2. schema = {applied[v] : v \in Versions} \ {NotApplied}
    BY DEF IInv, SchemaIsHistory
  <2>3. schema' = {applied'[v] : v \in Versions} \ {NotApplied}
    BY <1>2, <1>3, <1>4, <2>1, <2>2
  <2> QED
    BY <2>3 DEF SchemaIsHistory
<1>6. RowsComeFromFiles'
  <2> SUFFICES ASSUME NEW v \in Versions, applied'[v] # NotApplied
               PROVE  \E s \in Runners : \E j \in DOMAIN DirectoryOf[s] :
                        DirectoryOf[s][j] = [version |-> v, sql |-> applied'[v]]
    BY DEF RowsComeFromFiles
  <2>1. CASE v = File(r).version
    <3>1. DirectoryOf[r][position[r]] = [version |-> v, sql |-> applied'[v]]
      BY <1>3, <1>4, <2>1
    <3> QED
      BY <1>3, <3>1
  <2>2. CASE v # File(r).version
    BY <1>4, <2>2 DEF IInv, RowsComeFromFiles
  <2> QED
    BY <2>1, <2>2
<1> QED
  BY <1>2, <1>4, <1>5, <1>6

(* Every other step leaves the tables alone.                               *)
LEMMA RowsAreFinal ==
    ASSUME IInv, NEW r \in Runners, Step(r) \/ Crash(r)
    PROVE  /\ SchemaIsHistory'
           /\ RowsComeFromFiles'
           /\ \A v \in Versions : applied[v] # NotApplied => applied'[v] = applied[v]
<1>1. CASE Apply(r) \/ ApplyUnacknowledged(r)
  BY <1>1, ExecuteKeepsHistory DEF Apply, ApplyUnacknowledged
<1>2. CASE ~(Apply(r) \/ ApplyUnacknowledged(r))
  <2>1. UNCHANGED <<applied, schema>>
    BY <1>2 DEF Step, Start, FindTable, CreateTable, LoseCreation, Lock, LockTimeout, ReadApplied,
                Skip, Changed, RollBack, Finish, Unlock, Crash
  <2> QED
    BY <2>1 DEF IInv, SchemaIsHistory, RowsComeFromFiles
<1> QED
  BY <1>1, <1>2

LEMMA FirstStep ==
    ASSUME IInv, NEW r \in Runners, Step(r) \/ Crash(r)
    PROVE  StartsAtFirst'
BY DEF IInv, TypeOK, StartsAtFirst, Step, Start, FindTable, CreateTable, LoseCreation, Lock,
       LockTimeout, ReadApplied, Skip, Changed, Apply, ApplyUnacknowledged, CanExecute, IsNew,
       RollBack, Finish, Unlock, Crash, Goto, Throw, Because

(* Only the holder of the lock works.                                      *)
LEMMA LockKept ==
    ASSUME IInv, NEW r \in Runners, Step(r) \/ Crash(r), NEW q \in Runners, Working(q)'
    PROVE  lockHolder' = q
<1> USE DEF Goto, Throw, Because
<1>1. /\ WorkersHoldTheLock /\ TypeOK /\ Nobody \notin Runners
      /\ Working(q) => lockHolder = q
  BY MigratorAssumption DEF IInv, NeverConfused, WorkersHoldTheLock
<1>2. CASE Lock(r)
  BY <1>1, <1>2 DEF Lock, LockIsFree, Working, TypeOK
<1>3. CASE Finish(r) \/ Unlock(r) \/ Crash(r)
  <2>1. q # r
    BY <1>1, <1>3 DEF Finish, Unlock, Crash, Working, TypeOK
  <2> QED
    BY <1>1, <1>3, <2>1 DEF Finish, Unlock, Crash, Release, Working, TypeOK
<1>4. CASE ~(Lock(r) \/ Finish(r) \/ Unlock(r) \/ Crash(r))
  <2>1. UNCHANGED lockHolder
    BY <1>4 DEF Step, Start, FindTable, CreateTable, LoseCreation, LockTimeout, ReadApplied,
        Skip, Changed, Apply, ApplyUnacknowledged, RollBack
  <2>2. Working(q)
    BY <1>1, <1>4 DEF TypeOK, Working, AfterTable, Step, Start, FindTable, CreateTable, LoseCreation,
        LockTimeout, ReadApplied, Skip, Changed, Apply, ApplyUnacknowledged, CanExecute, IsNew, RollBack
  <2> QED
    BY <1>1, <2>1, <2>2
<1> QED
  BY <1>2, <1>3, <1>4

(* What a runner knows of the tables: the rows it read, and its own files. *)
LEMMA OthersKnowledge ==
    ASSUME IInv, NEW r \in Runners, Step(r) \/ Crash(r),
           NEW q \in Runners, q # r, pc'[q] = "files"
    PROVE  pc[q] = "files" /\ UNCHANGED <<applied, position[q], known[q]>>
<1>1. pc[q] = "files" /\ UNCHANGED <<position[q], known[q]>>
  BY DEF IInv, TypeOK, Step, Start, FindTable, CreateTable, LoseCreation, Lock, LockTimeout,
      ReadApplied, Skip, Changed, Apply, ApplyUnacknowledged, RollBack, Finish, Unlock, Crash,
      Goto, Throw, Because
<1>2. pc[r] # "files"
  BY <1>1, OneWorker, FilesMeansWorking DEF IInv, NeverConfused
<1>3. UNCHANGED applied
  BY <1>2 DEF Step, Start, FindTable, CreateTable, LoseCreation, Lock, LockTimeout, ReadApplied,
      Skip, Changed, Apply, ApplyUnacknowledged, CanExecute, IsNew, RollBack, Finish, Unlock, Crash
<1> QED
  BY <1>1, <1>3

(* The file in turn is done, and the next one is in turn.                  *)
LEMMA NextFile ==
    ASSUME IInv, NEW r \in Runners, pc[r] = "files", Pending(r),
           position'[r] = position[r] + 1, known'[r] = known[r],
           \A v \in Versions : v # File(r).version => applied'[v] = applied[v],
           applied'[File(r).version] = File(r).sql
    PROVE  /\ position'[r] <= Len(DirectoryOf[r]) + 1
           /\ Done(r, position[r])' /\ Behind(r)'
<1>1. /\ position[r] \in DOMAIN DirectoryOf[r] /\ position[r] \in Nat \ {0}
      /\ File(r) = DirectoryOf[r][position[r]] /\ DirectoryOf[r] \in Seq(Files)
  BY FileInTurn, FilesOfDirectory DEF IInv, TypeOK
<1>2. Done(r, position[r]) /\ Behind(r)
  BY DEF IInv, NeverConfused, WorkersHoldTheLock
<1>3. position'[r] <= Len(DirectoryOf[r]) + 1
  BY <1>1 DEF Pending
<1>4. Done(r, position[r])'
  <2> SUFFICES ASSUME NEW i \in 1..position[r]
               PROVE  applied'[DirectoryOf[r][i].version] = DirectoryOf[r][i].sql
    BY <1>1 DEF Done
  <2>1. CASE i = position[r]
    BY <1>1, <2>1
  <2>2. CASE i # position[r]
    <3>1. i \in 1..(position[r] - 1) /\ i \in DOMAIN DirectoryOf[r]
      BY <1>1, <2>2
    <3>2. applied[DirectoryOf[r][i].version] = DirectoryOf[r][i].sql
      BY <1>2, <3>1 DEF Done
    <3>3. DirectoryOf[r][i].version # File(r).version /\ DirectoryOf[r][i].version \in Versions
      BY <1>1, <2>2, <3>1, FilesOfDirectory, MigratorAssumption
    <3> QED
      BY <3>2, <3>3
  <2> QED
    BY <2>1, <2>2
<1>5. Behind(r)'
  <2> SUFFICES ASSUME NEW v \in Versions, applied'[v] # known'[r][v]
               PROVE  \E i \in 1..position[r] : DirectoryOf[r][i].version = v
    BY <1>1 DEF Behind
  <2>1. CASE v = File(r).version
    BY <1>1, <2>1
  <2>2. CASE v # File(r).version
    <3>1. PICK i \in 1..(position[r] - 1) : DirectoryOf[r][i].version = v
      BY <1>2, <2>2 DEF Behind
    <3> QED
      BY <1>1, <3>1
  <2> QED
    BY <2>1, <2>2
<1> QED
  BY <1>3, <1>4, <1>5

LEMMA KnowledgeKept ==
    ASSUME IInv, NEW r \in Runners, Step(r) \/ Crash(r), NEW q \in Runners, pc'[q] = "files"
    PROVE  /\ q \notin StatusOnly
           /\ position'[q] <= Len(DirectoryOf[q]) + 1
           /\ Done(q, position[q])' /\ Behind(q)'
<1> DEFINE K(p) == /\ q \notin StatusOnly
                  /\ position[p] <= Len(DirectoryOf[p]) + 1
                  /\ Done(p, position[p]) /\ Behind(p)
<1>1. pc[q] = "files" => K(q)
  BY DEF IInv, NeverConfused, WorkersHoldTheLock
<1>2. CASE q # r
  BY <1>1, <1>2, OthersKnowledge DEF Done, Behind
<1>3. CASE q = r /\ ReadApplied(r)
  <2>1. q \notin StatusOnly /\ position'[q] = 1 /\ known'[q] = applied' /\ DirectoryOf[q] \in Seq(Files)
    BY <1>3, FilesOfDirectory DEF ReadApplied, Goto, IInv, TypeOK, StartsAtFirst
  <2>2. Done(q, position[q])' /\ Behind(q)'
    BY <2>1 DEF Done, Behind
  <2> QED
    BY <2>1, <2>2
<1>4. CASE q = r /\ Skip(r)
  <2>1. /\ pc[r] = "files" /\ Pending(r) /\ known[r][File(r).version] = File(r).sql
        /\ position'[r] = position[r] + 1 /\ known'[r] = known[r] /\ applied' = applied
    BY <1>4 DEF Skip, Skippable, IInv, TypeOK
  <2>2. applied[File(r).version] = File(r).sql
    <3> SUFFICES ASSUME applied[File(r).version] # known[r][File(r).version]
                 PROVE  FALSE
      BY <2>1
    <3>1. /\ position[r] \in DOMAIN DirectoryOf[r] /\ position[r] \in Nat \ {0}
          /\ File(r) = DirectoryOf[r][position[r]] /\ DirectoryOf[r] \in Seq(Files)
          /\ File(r).version \in Versions
      BY <2>1, FileInTurn, FilesOfDirectory DEF IInv, TypeOK
    <3>2. PICK i \in 1..(position[r] - 1) : DirectoryOf[r][i].version = File(r).version
      BY <1>1, <1>4, <2>1, <3>1 DEF Behind
    <3>3. i \in DOMAIN DirectoryOf[r] /\ i # position[r]
      BY <3>1, <3>2
    <3> QED
      BY <3>1, <3>2, <3>3, MigratorAssumption
  <2> QED
    BY <1>1, <1>4, <2>1, <2>2, NextFile
<1>5. CASE q = r /\ Apply(r)
  <2>1. /\ pc[r] = "files" /\ Pending(r)
        /\ position'[r] = position[r] + 1 /\ known'[r] = known[r]
        /\ applied' = [applied EXCEPT ![File(r).version] = File(r).sql]
    BY <1>5 DEF Apply, CanExecute, IsNew, Execute, IInv, TypeOK
  <2>2. /\ \A v \in Versions : v # File(r).version => applied'[v] = applied[v]
        /\ applied'[File(r).version] = File(r).sql
    BY <2>1, FileInTurn DEF IInv, TypeOK, Rows
  <2> QED
    BY <1>1, <1>5, <2>1, <2>2, NextFile
<1>6. q = r => ReadApplied(r) \/ Skip(r) \/ Apply(r)
  BY DEF IInv, TypeOK, AfterTable, Step, Start, FindTable, CreateTable, LoseCreation, Lock, LockTimeout,
      Changed, ApplyUnacknowledged, RollBack, Finish, Unlock, Crash, Goto, Throw, Because
<1> QED
  BY <1>2, <1>3, <1>4, <1>5, <1>6

-----------------------------------------------------------------------------
LEMMA InvStep ==
    ASSUME IInv, NEW r \in Runners, Step(r) \/ Crash(r)
    PROVE  IInv'
<1>1. TypeOK' /\ SchemaIsHistory' /\ RowsComeFromFiles' /\ StartsAtFirst'
  BY TypeStep, RowsAreFinal, FirstStep DEF IInv
<1>2. WorkersHoldTheLock'
  <2>1. \A q \in Runners : pc'[q] = "read" => position'[q] = 1
    BY <1>1 DEF StartsAtFirst
  <2> QED
    BY <2>1, LockKept, KnowledgeKept DEF WorkersHoldTheLock
<1>3. \A q \in Runners : reason'[q] # "exists"
  <2>1. ~AlreadyThere(r) \/ ~IsNew(r)
    BY NewIsNotThere
  <2> QED
    BY <2>1 DEF IInv, TypeOK, NeverConfused, Step, Start, FindTable, CreateTable, LoseCreation, Lock,
        LockTimeout, ReadApplied, Skip, Changed, Apply, ApplyUnacknowledged, RollBack, Finish,
        Unlock, Crash, Goto, Throw, Because
<1>4. DoneMeansMigrated'
  <2> SUFFICES ASSUME NEW q \in Runners \ StatusOnly, pc'[q] = "done", NEW i \in DOMAIN DirectoryOf[q]
               PROVE  applied'[DirectoryOf[q][i].version] = DirectoryOf[q][i].sql
    BY DEF DoneMeansMigrated
  <2>1. CASE pc[q] = "done"
    <3>1. applied[DirectoryOf[q][i].version] = DirectoryOf[q][i].sql
      BY <2>1 DEF IInv, DoneMeansMigrated
    <3> QED
      BY <3>1, FilesOfDirectory, RowsAreFinal
  <2>2. CASE pc[q] # "done"
    <3>1. q = r /\ Finish(r)
      <4>1. pc \in [Runners -> Steps] /\ pc'[q] # pc[q] /\ r \in Runners /\ q \in Runners
        BY <2>2 DEF IInv, TypeOK
      <4>2. q = r
        BY <4>1 DEF Step, Start, FindTable, CreateTable, LoseCreation, Lock, LockTimeout, ReadApplied,
            Skip, Changed, Apply, ApplyUnacknowledged, RollBack, Finish, Unlock, Crash, Goto, Throw
      <4>3. CASE Start(r) \/ FindTable(r) \/ CreateTable(r) \/ LoseCreation(r) \/ Lock(r) \/ LockTimeout(r)
        BY <4>1, <4>2, <4>3 DEF AfterTable, Start, FindTable, CreateTable, LoseCreation, Lock,
            LockTimeout, Goto, Throw
      <4>4. CASE ReadApplied(r)
        BY <4>1, <4>2, <4>4 DEF ReadApplied, Goto
      <4>5. CASE Skip(r) \/ Changed(r) \/ Apply(r) \/ ApplyUnacknowledged(r)
        BY <4>1, <4>2, <4>5 DEF Skip, Changed, Apply, ApplyUnacknowledged, Goto, Throw
      <4>6. CASE RollBack(r) \/ Unlock(r) \/ Crash(r)
        BY <4>1, <4>2, <4>6 DEF RollBack, Unlock, Crash, Goto, Throw
      <4> QED
        BY <4>2, <4>3, <4>4, <4>5, <4>6 DEF Step
    <3>2. Done(q, position[q]) /\ applied' = applied /\ ~Pending(q)
      BY <3>1 DEF Finish, IInv, NeverConfused, WorkersHoldTheLock
    <3>3. i \in 1..(position[q] - 1)
      BY <3>2, FilesOfDirectory DEF Pending, IInv, TypeOK
    <3> QED
      BY <3>2, <3>3 DEF Done
  <2> QED
    BY <2>1, <2>2
<1> QED
  BY <1>1, <1>2, <1>3, <1>4 DEF IInv, NeverConfused

LEMMA StutterKeepsInv == IInv /\ UNCHANGED vars => IInv'
BY DEF IInv, vars, TypeOK, SchemaIsHistory, RowsComeFromFiles, StartsAtFirst, NeverConfused,
       WorkersHoldTheLock, Working, Done, Behind, DoneMeansMigrated

(* The inductive invariant, for any runners, directories and faults.       *)
THEOREM MigratorInvariant == Spec => []IInv
<1>1. Init => IInv
  BY InitInv
<1>2. IInv /\ [Next]_vars => IInv'
  BY InvStep, StutterKeepsInv DEF Next
<1> QED
  BY <1>1, <1>2, PTL DEF Spec

(* The schema is what schema_migrations says (migrator.ts:99).             *)
THEOREM SchemaAlwaysHistory == Spec => []SchemaIsHistory
<1>1. IInv => SchemaIsHistory
  BY DEF IInv
<1> QED
  BY <1>1, MigratorInvariant, PTL

(* The advisory lock serialises the work: nobody decides on stale rows or  *)
(* meets "relation already exists" (migrator.ts:91).                       *)
THEOREM NobodyIsConfused == Spec => []NeverConfused
<1>1. IInv => NeverConfused
  BY DEF IInv
<1> QED
  BY <1>1, MigratorInvariant, PTL

(* Who ends well leaves its whole directory applied (migrator.ts:123).     *)
THEOREM DoneIsMigrated == Spec => []DoneMeansMigrated
<1>1. IInv => DoneMeansMigrated
  BY DEF IInv
<1> QED
  BY <1>1, MigratorInvariant, PTL

(* An applied migration is history: no step takes its row away or changes  *)
(* its content (migrator.ts:123).                                          *)
THEOREM AppliedIsFinal == Spec => HistoryIsFinal
<1> DEFINE Final == \A v \in Versions : applied[v] # NotApplied => applied'[v] = applied[v]
<1>1. IInv /\ [Next]_vars => [Final]_vars
  BY RowsAreFinal DEF Next
<1> QED
  BY <1>1, MigratorInvariant, PTL DEF Spec, HistoryIsFinal
=============================================================================
