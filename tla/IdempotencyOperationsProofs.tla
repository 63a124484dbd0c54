--------------------- MODULE IdempotencyOperationsProofs ---------------------
(***************************************************************************)
(* Proofs about the operations table, for every set of keys, contents and  *)
(* responses and every bound on the attempts; and about what is tried      *)
(* beside it: the audit, for databases of any size, and the parsers, for   *)
(* every body and every range of exact numbers.                            *)
(***************************************************************************)
EXTENDS IdempotencyOperations, Fingerprints, Audit, FiniteSetTheorems, TLAPS

(* Every statement of idempotency-operations.repository.ts leaves rows of  *)
(* the type the table declares.                                            *)
THEOREM OperationsTypeCorrect == Spec => []TypeOK
<1>1. Init => TypeOK
  BY OperationsAssumption DEF Init, TypeOK, Operation, NoOperation
<1>2. TypeOK /\ [Next]_operations => TypeOK'
  <2> SUFFICES ASSUME TypeOK, [Next]_operations PROVE TypeOK'
    OBVIOUS
  <2>0. 1 \in 0..MaxAttempt /\ \A a \in 1..MaxAttempt : a < MaxAttempt => a + 1 \in 0..MaxAttempt
    BY OperationsAssumption
  <2> USE DEF TypeOK, Operation
  <2>1. ASSUME NEW k \in Keys, NEW f \in Fingerprints, ClaimOperation(k, f)
        PROVE  TypeOK'
    BY <2>0, <2>1 DEF ClaimOperation, NoOperation
  <2>2. ASSUME NEW k \in Keys, NEW a \in 1..MaxAttempt, TakeOverExpiredLease(k, a)
        PROVE  TypeOK'
    BY <2>0, <2>2 DEF TakeOverExpiredLease
  <2>3. ASSUME NEW k \in Keys, NEW a \in 1..MaxAttempt, NEW r \in Responses,
               CompleteOperation(k, a, r)
        PROVE  TypeOK'
    BY <2>3 DEF CompleteOperation
  <2>4. ASSUME NEW k \in Keys, NEW a \in 1..MaxAttempt, FailOperation(k, a)
        PROVE  TypeOK'
    BY <2>4 DEF FailOperation
  <2>5. ASSUME NEW k \in Keys, NEW a \in 1..MaxAttempt, RetryFailedOperation(k, a)
        PROVE  TypeOK'
    BY <2>0, <2>5 DEF RetryFailedOperation
  <2>6. ASSUME NEW k \in Keys, LeaseExpires(k)
        PROVE  TypeOK'
    BY <2>6 DEF LeaseExpires
  <2>7. CASE UNCHANGED operations
    BY <2>7
  <2>8. QED
    BY <2>1, <2>2, <2>3, <2>4, <2>5, <2>6, <2>7 DEF Next
<1>3. QED
  BY <1>1, <1>2, PTL DEF Spec

(* Lease, response and attempt never disagree with the status, whatever    *)
(* attempt the callers pass: the CHECKs of migrations/0002 never fire.     *)
THEOREM OperationsRowCoherent == Spec => []RowCoherent
<1>1. Init => RowCoherent
  <2> SUFFICES ASSUME Init, NEW k \in Keys PROVE Coherent(k)
    BY DEF RowCoherent
  <2>1. operations[k] = NoOperation
    BY DEF Init
  <2>2. QED
    BY <2>1 DEF Coherent, NoOperation
<1>2. TypeOK /\ RowCoherent /\ [Next]_operations => RowCoherent'
  <2> SUFFICES ASSUME TypeOK, RowCoherent, [Next]_operations,
                      NEW j \in Keys
               PROVE  Coherent(j)'
    BY DEF RowCoherent
  <2> USE OperationsAssumption DEF TypeOK, Operation, RowCoherent, Coherent, OwnedBy
  <2>1. ASSUME NEW k \in Keys, NEW f \in Fingerprints, ClaimOperation(k, f)
        PROVE  Coherent(j)'
    BY <2>1 DEF ClaimOperation, NoOperation
  <2>2. ASSUME NEW k \in Keys, NEW a \in 1..MaxAttempt, TakeOverExpiredLease(k, a)
        PROVE  Coherent(j)'
    BY <2>2 DEF TakeOverExpiredLease, CanTakeOver
  <2>3. ASSUME NEW k \in Keys, NEW a \in 1..MaxAttempt, NEW r \in Responses,
               CompleteOperation(k, a, r)
        PROVE  Coherent(j)'
    BY <2>3 DEF CompleteOperation, CanComplete
  <2>4. ASSUME NEW k \in Keys, NEW a \in 1..MaxAttempt, FailOperation(k, a)
        PROVE  Coherent(j)'
    BY <2>4 DEF FailOperation, CanFail
  <2>5. ASSUME NEW k \in Keys, NEW a \in 1..MaxAttempt, RetryFailedOperation(k, a)
        PROVE  Coherent(j)'
    BY <2>5 DEF RetryFailedOperation, CanRetry
  <2>6. ASSUME NEW k \in Keys, LeaseExpires(k)
        PROVE  Coherent(j)'
    BY <2>6 DEF LeaseExpires
  <2>7. CASE UNCHANGED operations
    BY <2>7
  <2>8. QED
    BY <2>1, <2>2, <2>3, <2>4, <2>5, <2>6, <2>7 DEF Next
<1>3. QED
  BY <1>1, <1>2, OperationsTypeCorrect, PTL DEF Spec

(* The fence: no statement lowers an attempt, renews a lease without       *)
(* raising it, rewrites the fingerprint of a claimed key or touches a      *)
(* completed row.                                                          *)
THEOREM OperationsOwnershipFenced == Spec => OwnershipIsFenced
<1>1. TypeOK /\ RowCoherent /\ [Next]_operations
        => [\A k \in Keys : Fenced(operations[k], operations'[k])]_operations
  <2> SUFFICES ASSUME TypeOK, RowCoherent, Next, NEW j \in Keys
               PROVE  Fenced(operations[j], operations'[j])
    OBVIOUS
  <2>0. operations[j].attempt \in Int
    BY OperationsAssumption DEF TypeOK, Operation
  <2> USE DEF TypeOK, Operation, Fenced, OwnedBy
  <2>1. ASSUME NEW k \in Keys, NEW f \in Fingerprints, ClaimOperation(k, f)
        PROVE  Fenced(operations[j], operations'[j])
    BY <2>0, <2>1 DEF ClaimOperation, NoOperation, RowCoherent, Coherent
  <2>2. ASSUME NEW k \in Keys, NEW a \in 1..MaxAttempt, TakeOverExpiredLease(k, a)
        PROVE  Fenced(operations[j], operations'[j])
    BY <2>0, <2>2 DEF TakeOverExpiredLease, CanTakeOver
  <2>3. ASSUME NEW k \in Keys, NEW a \in 1..MaxAttempt, NEW r \in Responses,
               CompleteOperation(k, a, r)
        PROVE  Fenced(operations[j], operations'[j])
    BY <2>0, <2>3 DEF CompleteOperation, CanComplete
  <2>4. ASSUME NEW k \in Keys, NEW a \in 1..MaxAttempt, FailOperation(k, a)
        PROVE  Fenced(operations[j], operations'[j])
    BY <2>0, <2>4 DEF FailOperation, CanFail
  <2>5. ASSUME NEW k \in Keys, NEW a \in 1..MaxAttempt, RetryFailedOperation(k, a)
        PROVE  Fenced(operations[j], operations'[j])
    BY <2>0, <2>5 DEF RetryFailedOperation, CanRetry
  <2>6. ASSUME NEW k \in Keys, LeaseExpires(k)
        PROVE  Fenced(operations[j], operations'[j])
    BY <2>0, <2>6 DEF LeaseExpires, RowCoherent, Coherent
  <2>7. QED
    BY <2>1, <2>2, <2>3, <2>4, <2>5, <2>6 DEF Next
<1>2. QED
  BY <1>1, OperationsTypeCorrect, OperationsRowCoherent, PTL DEF Spec, OwnershipIsFenced

-----------------------------------------------------------------------------
(* The audit of the final state *)

(* COUNT above one is two rows.                                            *)
LEMMA TwoRows ==
    ASSUME NEW g, IsFiniteSet(g)
    PROVE  Cardinality(g) > 1 <=> \E x, y \in g : x # y
<1>0. Cardinality(g) \in Nat
  BY FS_CardinalityType
<1>1. ASSUME NEW x \in g, NEW y \in g, x # y PROVE Cardinality(g) > 1
  <2>1. /\ IsFiniteSet(g \ {x}) /\ Cardinality(g \ {x}) = Cardinality(g) - 1
        /\ Cardinality(g \ {x}) \in Nat
    BY FS_RemoveElement, FS_CardinalityType
  <2>2. Cardinality(g \ {x}) # 0
    BY <1>1, <2>1, FS_EmptySet
  <2>3. QED
    BY <1>0, <2>1, <2>2
<1>2. ASSUME Cardinality(g) > 1 PROVE \E x, y \in g : x # y
  <2>1. g # {}
    BY <1>2, FS_EmptySet
  <2>2. PICK x \in g : TRUE
    BY <2>1
  <2>3. g # {x}
    BY <1>2, FS_Singleton
  <2>4. QED
    BY <2>2, <2>3
<1>3. QED
  BY <1>1, <1>2

(* GROUP BY ... HAVING count( * ) > 1 finds something exactly when two rows  *)
(* agree in the columns.                                                   *)
LEMMA RepeatedRows ==
    ASSUME NEW rows, NEW columns, IsFiniteSet(rows)
    PROVE  Repeated(rows, columns) # {} <=>
                \E x, y \in rows : x # y /\ \A c \in columns : x[c] = y[c]
<1>0. \A g \in Groups(rows, columns) : IsFiniteSet(g) /\ g \subseteq rows
  <2>1. \A g \in Groups(rows, columns) : g \in SUBSET rows
    BY DEF Groups
  <2>2. QED
    BY <2>1, FS_Subset
<1>1. Repeated(rows, columns) # {} <=> \E g \in Groups(rows, columns) : \E x, y \in g : x # y
  BY <1>0, TwoRows DEF Repeated
<1>2. ASSUME NEW g \in Groups(rows, columns), NEW x \in g, NEW y \in g, x # y
      PROVE  x \in rows /\ y \in rows /\ \A c \in columns : x[c] = y[c]
  BY <1>2 DEF Groups
<1>3. ASSUME NEW x \in rows, NEW y \in rows, x # y, \A c \in columns : x[c] = y[c]
      PROVE  \E g \in Groups(rows, columns) : x \in g /\ y \in g
  <2> DEFINE g == {r \in rows : \A c \in columns : r[c] = x[c]}
  <2>1. g \in Groups(rows, columns) /\ x \in g /\ y \in g
    BY <1>3 DEF Groups
  <2>2. QED
    BY <2>1
<1>4. QED
  BY <1>1, <1>2, <1>3

LEMMA PositionsAudited ==
    ASSUME NEW db, IsFiniteSet(db.messages)
    PROVE  RepeatedPositions(db) = {} <=> OneMessagePerPosition(db.messages)
BY RepeatedRows DEF RepeatedPositions, OneMessagePerPosition

LEMMA NumbersAudited ==
    ASSUME NEW db, IsFiniteSet(db.messages)
    PROVE  RepeatedNumbers(db) = {} <=>
                \A m, n \in VisibleRows(db) :
                    m.conversation_id = n.conversation_id /\ m.server_sequence = n.server_sequence
                    => m = n
<1>1. IsFiniteSet(VisibleRows(db))
  <2>1. VisibleRows(db) \in SUBSET db.messages
    BY DEF VisibleRows
  <2>2. QED
    BY <2>1, FS_Subset
<1>2. QED
  BY <1>1, RepeatedRows DEF RepeatedNumbers

(* A finite set of numbers has a highest and a lowest.                     *)
LEMMA Extremes ==
    ASSUME NEW S, S \subseteq Nat, IsFiniteSet(S), S # {}
    PROVE  /\ \E x \in S : \A k \in S : x >= k
           /\ \E x \in S : \A k \in S : x <= k
<1> DEFINE R == StrictSubsetOrdering(S)
<1> DEFINE Up == {T \in SUBSET S : T # {} /\ \A x \in T : \A y \in S : y > x => y \in T}
<1> DEFINE Down == {T \in SUBSET S : T # {} /\ \A x \in T : \A y \in S : y < x => y \in T}
<1>1. IsWellFoundedOn(R, SUBSET S)
  BY FS_StrictSubsetOrderingWellFounded, FS_FiniteSubsetsOfFinite
<1>2. S \in Up /\ S \in Down /\ Up \subseteq SUBSET S /\ Down \subseteq SUBSET S
  OBVIOUS
<1>3. ASSUME NEW F, F \in {Up, Down}
      PROVE  \E T \in F : \A U \in F : U \subseteq T => U = T
  <2>1. F # {} /\ F \subseteq SUBSET S
    BY <1>2, <1>3
  <2>2. PICK T \in F : \A U \in F : ~(<<U, T>> \in R)
    BY <1>1, <2>1, WFMin
  <2>3. QED
    BY <2>1, <2>2 DEF StrictSubsetOrdering
<1>4. \E x \in S : \A k \in S : x >= k
  <2>1. PICK T \in Up : \A U \in Up : U \subseteq T => U = T
    BY <1>3
  <2>2. PICK x \in T : TRUE
    BY <2>1
  <2> DEFINE above == {y \in S : y > x}
  <2>a. \A y \in S : y > x => y \in T
    BY <2>1, <2>2
  <2>b. ~(x > x)
    BY <2>1, <2>2
  <2>3. above \subseteq T /\ x \notin above
    BY <2>a, <2>b
  <2>4. above # {} => above \in Up
    BY <2>1, <2>2
  <2>5. above = {}
    BY <2>1, <2>2, <2>3, <2>4
  <2>6. x \in S
    BY <2>1, <2>2
  <2>7. QED
    BY <2>5, <2>6
<1>5. \E x \in S : \A k \in S : x <= k
  <2>1. PICK T \in Down : \A U \in Down : U \subseteq T => U = T
    BY <1>3
  <2>2. PICK x \in T : TRUE
    BY <2>1
  <2> DEFINE below == {y \in S : y < x}
  <2>a. \A y \in S : y < x => y \in T
    BY <2>1, <2>2
  <2>b. ~(x < x)
    BY <2>1, <2>2
  <2>3. below \subseteq T /\ x \notin below
    BY <2>a, <2>b
  <2>4. below # {} => below \in Down
    BY <2>1, <2>2
  <2>5. below = {}
    BY <2>1, <2>2, <2>3, <2>4
  <2>6. x \in S
    BY <2>1, <2>2
  <2>7. QED
    BY <2>5, <2>6
<1>6. QED
  BY <1>4, <1>5

(* Highest, lowest and count say what the numbers are, unless two are one. *)
LEMMA NumbersFromOne ==
    ASSUME NEW g, IsFiniteSet(g), g # {}, \A m \in g : m.server_sequence \in Nat,
           \A m, n \in g : m.server_sequence = n.server_sequence => m = n
    PROVE  Max(Numbers(g)) = Cardinality(g) /\ Min(Numbers(g)) = 1
                <=> Numbers(g) = 1..Cardinality(g)
<1> DEFINE f == [m \in g |-> m.server_sequence]
<1>1. Numbers(g) \subseteq Nat /\ Numbers(g) # {}
  BY DEF Numbers
<1>2. f \in Bijection(g, Numbers(g))
  <2>1. f \in [g -> Numbers(g)] /\ \A m \in g : f[m] = m.server_sequence
    BY DEF Numbers
  <2>2. \A k \in Numbers(g) : \E m \in g : k = m.server_sequence
    BY DEF Numbers
  <2> HIDE DEF f
  <2>3. f \in Injection(g, Numbers(g))
    BY <2>1 DEF Injection, IsInjective
  <2>4. f \in Surjection(g, Numbers(g))
    BY <2>1, <2>2 DEF Surjection
  <2>5. QED
    BY <2>3, <2>4 DEF Bijection
<1>3. IsFiniteSet(Numbers(g)) /\ Cardinality(Numbers(g)) = Cardinality(g)
  BY <1>2, FS_Bijection DEF ExistsBijection
<1>4. PICK n \in Nat : n = Cardinality(g)
  BY FS_CardinalityType
<1>5. n > 0
  BY <1>4, FS_EmptySet
<1>6. /\ Max(Numbers(g)) \in Numbers(g) /\ \A k \in Numbers(g) : Max(Numbers(g)) >= k
      /\ Min(Numbers(g)) \in Numbers(g) /\ \A k \in Numbers(g) : Min(Numbers(g)) <= k
  <2>1. \E x \in Numbers(g) : \A k \in Numbers(g) : x >= k
    BY <1>1, <1>3, Extremes
  <2>2. \E x \in Numbers(g) : \A k \in Numbers(g) : x <= k
    BY <1>1, <1>3, Extremes
  <2>3. QED
    BY <2>1, <2>2 DEF Max, Min
<1>7. ASSUME Max(Numbers(g)) = n, Min(Numbers(g)) = 1
      PROVE  Numbers(g) = 1..n
  <2>1. Numbers(g) \in SUBSET (1..n)
    BY <1>1, <1>6, <1>7
  <2>2. IsFiniteSet(1..n) /\ Cardinality(1..n) = n
    BY <1>5, FS_Interval
  <2>3. QED
    BY <1>3, <1>4, <2>1, <2>2, FS_Subset
<1>8. ASSUME Numbers(g) = 1..n
      PROVE  Max(Numbers(g)) = n /\ Min(Numbers(g)) = 1
  <2>1. PICK x \in 1..n : x = Max(Numbers(g))
    BY <1>6, <1>8
  <2>2. PICK y \in 1..n : y = Min(Numbers(g))
    BY <1>6, <1>8
  <2>3. x >= n /\ y <= 1
    BY <1>5, <1>6, <1>8, <2>1, <2>2
  <2>4. QED
    BY <2>1, <2>2, <2>3
<1>9. QED
  BY <1>4, <1>7, <1>8

LEMMA Listed ==
    ASSUME NEW g, IsFiniteSet(g)
    PROVE  (\E list \in [1..Cardinality(g) -> g] :
                /\ \A i \in DOMAIN list : list[i].server_sequence = i
                /\ \A m \in g : \E i \in DOMAIN list : list[i] = m)
           <=> /\ \A m, n \in g : m.server_sequence = n.server_sequence => m = n
               /\ Numbers(g) = 1..Cardinality(g)
<1>1. ASSUME NEW list \in [1..Cardinality(g) -> g],
             \A i \in DOMAIN list : list[i].server_sequence = i,
             \A m \in g : \E i \in DOMAIN list : list[i] = m
      PROVE  /\ \A m, n \in g : m.server_sequence = n.server_sequence => m = n
             /\ Numbers(g) = 1..Cardinality(g)
  <2>1. \A m \in g : m.server_sequence \in 1..Cardinality(g) /\ m = list[m.server_sequence]
    BY <1>1
  <2>2. \A i \in 1..Cardinality(g) : list[i] \in g /\ list[i].server_sequence = i
    BY <1>1
  <2>3. QED
    BY <2>1, <2>2 DEF Numbers
<1>2. ASSUME \A m, n \in g : m.server_sequence = n.server_sequence => m = n,
             Numbers(g) = 1..Cardinality(g)
      PROVE  \E list \in [1..Cardinality(g) -> g] :
                /\ \A i \in DOMAIN list : list[i].server_sequence = i
                /\ \A m \in g : \E i \in DOMAIN list : list[i] = m
  <2> DEFINE list == [i \in 1..Cardinality(g) |-> CHOOSE m \in g : m.server_sequence = i]
  <2>1. \A i \in 1..Cardinality(g) : list[i] \in g /\ list[i].server_sequence = i
    <3>1. \A i \in 1..Cardinality(g) : \E m \in g : m.server_sequence = i
      BY <1>2 DEF Numbers
    <3>2. QED
      BY <3>1
  <2>2. \A m \in g : m.server_sequence \in 1..Cardinality(g)
    BY <1>2 DEF Numbers
  <2>3. DOMAIN list = 1..Cardinality(g)
    OBVIOUS
  <2>4. list \in [1..Cardinality(g) -> g]
    BY <2>1
  <2> HIDE DEF list
  <2>5. \A m \in g : list[m.server_sequence] = m
    BY <1>2, <2>1, <2>2
  <2>6. QED
    BY <2>1, <2>2, <2>3, <2>4, <2>5
<1>3. QED
  BY <1>1, <1>2

(* I5, both halves: no ties and no holes.                                  *)
LEMMA OrderAudited ==
    ASSUME NEW db, IsDatabase(db)
    PROVE  RepeatedNumbers(db) = {} /\ ConversationsWithHoles(db) = {} <=> IsHistory(db.messages)
<1> DEFINE V(c) == {m \in db.messages : m.conversation_id = c /\ m.server_sequence # Null}
<1> DEFINE NoTies(c) == \A m, n \in V(c) : m.server_sequence = n.server_sequence => m = n
<1> DEFINE Whole(c) == Numbers(V(c)) = 1..Cardinality(V(c))
<1> DEFINE Conversations == {m.conversation_id : m \in db.messages}
<1>0. IsFiniteSet(db.messages) /\ \A m \in db.messages : m.server_sequence \in Nat \cup {Null}
  BY DEF IsDatabase
<1>1. \A c : IsFiniteSet(V(c))
  <2>1. \A c : V(c) \in SUBSET db.messages
    OBVIOUS
  <2>2. QED
    BY <1>0, <2>1, FS_Subset
<1>2. IsHistory(db.messages) <=> \A c \in Conversations : NoTies(c) /\ Whole(c)
  <2>1. IsHistory(db.messages) <=>
            \A c \in Conversations :
                \E list \in [1..Cardinality(V(c)) -> V(c)] :
                    /\ \A i \in DOMAIN list : list[i].server_sequence = i
                    /\ \A m \in V(c) : \E i \in DOMAIN list : list[i] = m
    BY DEF IsHistory
  <2> HIDE DEF V
  <2>2. ASSUME NEW c
        PROVE  (\E list \in [1..Cardinality(V(c)) -> V(c)] :
                    /\ \A i \in DOMAIN list : list[i].server_sequence = i
                    /\ \A m \in V(c) : \E i \in DOMAIN list : list[i] = m)
               <=> NoTies(c) /\ Whole(c)
    BY <1>1, Listed
  <2>3. QED
    BY <2>1, <2>2
<1>3. RepeatedNumbers(db) = {} <=> \A c \in Conversations : NoTies(c)
  <2>1. RepeatedNumbers(db) = {} <=>
            \A m, n \in VisibleRows(db) :
                m.conversation_id = n.conversation_id /\ m.server_sequence = n.server_sequence
                => m = n
    BY <1>0, NumbersAudited
  <2>2. QED
    BY <2>1 DEF VisibleRows
<1>4. ConversationsWithHoles(db) = {} <=>
        \A c \in Conversations :
            V(c) # {} => Max(Numbers(V(c))) = Cardinality(V(c)) /\ Min(Numbers(V(c))) = 1
  <2>1. Groups(VisibleRows(db), {"conversation_id"}) = {V(c) : c \in {d \in Conversations : V(d) # {}}}
    <3>1. ASSUME NEW s \in VisibleRows(db)
          PROVE  {r \in VisibleRows(db) : \A c \in {"conversation_id"} : r[c] = s[c]}
                    = V(s.conversation_id)
      BY DEF VisibleRows
    <3>2. ASSUME NEW s \in VisibleRows(db)
          PROVE  s.conversation_id \in Conversations /\ s \in V(s.conversation_id)
      BY DEF VisibleRows
    <3>3. ASSUME NEW c \in Conversations, V(c) # {}
          PROVE  \E s \in VisibleRows(db) : c = s.conversation_id
      BY <3>3 DEF VisibleRows
    <3>4. Groups(VisibleRows(db), {"conversation_id"}) = {V(s.conversation_id) : s \in VisibleRows(db)}
      BY <3>1 DEF Groups
    <3> HIDE DEF V, Conversations
    <3>5. QED
      BY <3>2, <3>3, <3>4
  <2> HIDE DEF V, Conversations
  <2>2. QED
    BY <2>1 DEF ConversationsWithHoles
<1>5. ASSUME NEW c, NoTies(c), V(c) # {}
      PROVE  Max(Numbers(V(c))) = Cardinality(V(c)) /\ Min(Numbers(V(c))) = 1 <=> Whole(c)
  <2>1. \A m \in V(c) : m.server_sequence \in Nat
    BY <1>0
  <2> HIDE DEF V
  <2>2. QED
    BY <1>1, <1>5, <2>1, NumbersFromOne
<1>6. ASSUME NEW c, V(c) = {} PROVE Whole(c)
  BY <1>6, FS_EmptySet DEF Numbers
<1> HIDE DEF V, Whole, NoTies, Conversations
<1>7. QED
  BY <1>2, <1>3, <1>4, <1>5, <1>6

(* I9; a batch without receipts has none that is pending.                  *)
LEMMA DeliveryAudited ==
    ASSUME NEW db, IsDatabase(db)
    PROVE  PrematureCleanups(db) = {} <=> NobodyWasDropped(db)
<1>1. ASSUME NEW b \in db.batches
      PROVE  (/\ ReceiptsOf(db, b) # {}
              /\ Cardinality({r \in ReceiptsOf(db, b) : r.state \in {"delivered", "read"}})
                    < b.expected_count)
             <=> \E r \in ReceiptsOf(db, b) : r.state = "pending"
  <2> DEFINE all == ReceiptsOf(db, b)
             reached == {r \in all : r.state \in {"delivered", "read"}}
  <2>1. \A r \in all : r.state \in {"pending", "delivered", "read"}
    BY DEF ReceiptsOf, IsDatabase
  <2>2. /\ all \in SUBSET db.receipts /\ IsFiniteSet(db.receipts)
        /\ b.expected_count \in Nat \ {0} /\ Cardinality(all) \in {0, b.expected_count}
    BY DEF ReceiptsOf, IsDatabase
  <2>3. IsFiniteSet(all) /\ Cardinality(all) \in Nat
    BY <2>2, FS_Subset, FS_CardinalityType
  <2>4. reached = all <=> ~\E r \in all : r.state = "pending"
    BY <2>1
  <2>5. reached \in SUBSET all
    OBVIOUS
  <2> HIDE DEF all, reached
  <2>6. /\ Cardinality(reached) \in Nat /\ Cardinality(reached) <= Cardinality(all)
        /\ Cardinality(reached) = Cardinality(all) => reached = all
    BY <2>3, <2>5, FS_Subset, FS_CardinalityType
  <2>7. all # {} => b.expected_count = Cardinality(all)
    BY <2>2, <2>3, FS_EmptySet
  <2>8. Cardinality(reached) < Cardinality(all) <=> reached # all
    BY <2>3, <2>6
  <2>9. (\E r \in all : r.state = "pending") => all # {}
    OBVIOUS
  <2>10. QED
    BY <2>4, <2>7, <2>8, <2>9 DEF all, reached
<1>2. PrematureCleanups(db) = {} <=>
        \A b \in db.batches :
            b.cleanup_reason = "completed" => ~\E r \in ReceiptsOf(db, b) : r.state = "pending"
  BY <1>1 DEF PrematureCleanups
<1>3. QED
  BY <1>2 DEF NobodyWasDropped, ReceiptsOf

(* verify-invariants.ts:42 and lab.service.ts:359: whatever the size of    *)
(* the database, an alarm of I4, I5 or I9 is a broken order, a repeated    *)
(* position or a pending receipt of freed work, and each of these alarms.  *)
THEOREM AuditMeansItsInvariants == database \in Databases => OrderAndDeliveryAudited
<1> SUFFICES ASSUME database \in Databases PROVE OrderAndDeliveryAudited
  OBVIOUS
<1>1. IsDatabase(database)
  BY AuditAssumption
<1>2. IsFiniteSet(database.messages)
  BY <1>1 DEF IsDatabase
<1>3. /\ RepeatedPositions(database) = {} <=> OneMessagePerPosition(database.messages)
      /\ RepeatedNumbers(database) = {} /\ ConversationsWithHoles(database) = {}
            <=> IsHistory(database.messages)
      /\ PrematureCleanups(database) = {} <=> NobodyWasDropped(database)
  BY <1>1, <1>2, PositionsAudited, OrderAudited, DeliveryAudited
<1>4. /\ "I4" \notin auditInvariants(database) <=> RepeatedPositions(database) = {}
      /\ "I5" \notin auditInvariants(database)
            <=> RepeatedNumbers(database) = {} /\ ConversationsWithHoles(database) = {}
      /\ "I9" \notin auditInvariants(database) <=> PrematureCleanups(database) = {}
  BY DEF auditInvariants
<1>5. /\ "I4" \notin invariantViolations(database) <=> RepeatedPositions(database) = {}
      /\ "I5" \notin invariantViolations(database) <=> RepeatedNumbers(database) = {}
      /\ "I9" \notin invariantViolations(database) <=> PrematureCleanups(database) = {}
  BY DEF invariantViolations
<1>6. /\ auditInvariants(database) \cap {"I4", "I5"} = {}
            <=> "I4" \notin auditInvariants(database) /\ "I5" \notin auditInvariants(database)
      /\ invariantViolations(database) \cap {"I4", "I5", "I9"} = {}
            <=> /\ "I4" \notin invariantViolations(database)
                /\ "I5" \notin invariantViolations(database)
                /\ "I9" \notin invariantViolations(database)
  OBVIOUS
<1>7. QED
  BY <1>3, <1>4, <1>5, <1>6 DEF OrderAndDeliveryAudited

-----------------------------------------------------------------------------
(* What a request says *)

(* The number above the last exact one is even, so rounding brings no      *)
(* number back into the range that is accepted.                            *)
LEMMA AcceptedIsUnrounded ==
    ASSUME NEW v, Type(v) = "num" => IsWhole(v),
           Type(Rounded(v)) = "str" \/ IsSequence(Rounded(v))
    PROVE  Rounded(v) = v
<1>1. CASE Type(v) # "num"
  BY <1>1 DEF Rounded
<1>2. CASE Type(v) = "num"
  <2>1. PICK n \in Int : v = Num(n)
    BY <1>2 DEF IsWhole
  <2>2. CASE n > MAX_SAFE_INTEGER
    <3>1. MAX_SAFE_INTEGER \in Int /\ MAX_SAFE_INTEGER % 2 = 1
      BY RequestsAssumption
    <3>2. n - (n % 2) > MAX_SAFE_INTEGER
      BY <2>1, <2>2, <3>1
    <3>3. Rounded(v) = Num(n - (n % 2))
      BY <1>2, <2>1, <2>2 DEF Rounded, Num
    <3>4. Type(Rounded(v)) = "num" /\ Rounded(v)[2] = n - (n % 2)
      BY <3>3 DEF Num, Type
    <3>5. IsSequence(Rounded(v))
      BY <3>4
    <3>6. QED
      BY <3>1, <3>2, <3>4, <3>5 DEF IsSequence
  <2>3. CASE ~(n > MAX_SAFE_INTEGER)
    BY <2>1, <2>3 DEF Rounded, Num
  <2>4. QED
    BY <2>2, <2>3
<1>3. QED
  BY <1>1, <1>2

(* A field that is there is the last one written under its name.           *)
LEMMA FieldIsLast ==
    ASSUME NEW raw, IsObject(raw), IsParsed(raw), NEW name, Field(raw, name) # Undefined
    PROVE  /\ Field(raw, name) = Rounded(Wire(raw, name))
           /\ \E i \in DOMAIN raw[2] : Wire(raw, name) = raw[2][i][2]
<1> DEFINE at == {i \in DOMAIN raw[2] : raw[2][i][1] = name}
<1> DEFINE IsLast(i) == i \in at /\ \A j \in at : j <= i
<1>1. at # {} /\ Field(raw, name) = Rounded(raw[2][CHOOSE i \in at : \A j \in at : j <= i][2])
  BY DEF Field
<1>2. DOMAIN raw[2] = 1..Len(raw[2]) /\ Len(raw[2]) \in Nat
  BY DEF IsParsed
<1>3. IsFiniteSet(1..Len(raw[2]))
  BY <1>2, FS_Interval
<1>4. at \subseteq Nat /\ IsFiniteSet(at)
  BY <1>2, <1>3, FS_Subset
<1>5. \E i \in at : \A j \in at : i >= j
  BY <1>1, <1>4, Extremes
<1>6. PICK i \in at : \A j \in at : j <= i
  BY <1>4, <1>5
<1>7. \A k \in at : (\A j \in at : j <= k) => k = i
  BY <1>4, <1>6
<1>8. (CHOOSE k \in at : \A j \in at : j <= k) = i
  BY <1>6, <1>7
<1>9. (CHOOSE k \in DOMAIN raw[2] :
        raw[2][k][1] = name /\ \A j \in DOMAIN raw[2] : raw[2][j][1] = name => j <= k) = i
  BY <1>6, <1>7
<1>10. Wire(raw, name) = raw[2][i][2]
  BY <1>9 DEF Wire
<1>11. QED
  BY <1>1, <1>6, <1>8, <1>10

LEMMA FieldAsWritten ==
    ASSUME NEW raw, IsObject(raw), IsParsed(raw), NEW name,
           Type(Field(raw, name)) = "str" \/ IsSequence(Field(raw, name))
    PROVE  Field(raw, name) = Wire(raw, name)
<1>1. Field(raw, name) # Undefined
  BY DEF IsSequence, Undefined, Type
<1>2. PICK i \in DOMAIN raw[2] : Wire(raw, name) = raw[2][i][2]
  BY <1>1, FieldIsLast
<1>3. Type(Wire(raw, name)) = "num" => IsWhole(Wire(raw, name))
  BY <1>2 DEF IsParsed
<1>4. QED
  BY <1>1, <1>3, FieldIsLast, AcceptedIsUnrounded

(* messages.controller.ts:26-47: the effect of an accepted request, which  *)
(* is what the fingerprint is made of and what the send works with, is     *)
(* what the client wrote, field by field and digit by digit, whatever else *)
(* the body holds and in whatever order.                                   *)
THEOREM EffectIsIntent == \A r \in SendRequests : Accepts(r) => EffectOf(r) = Intent(r)
<1> SUFFICES ASSUME NEW r \in SendRequests, Accepts(r) PROVE EffectOf(r) = Intent(r)
  OBVIOUS
<1>1. IsObject(r.body) /\ IsParsed(r.body)
  BY RequestsAssumption DEF Accepts, parseSendMessageBody
<1>2. ASSUME NEW f \in {EffectFields[i] : i \in DOMAIN EffectFields}, f # "conversationId"
      PROVE  Type(Field(r.body, f)) = "str" \/ IsSequence(Field(r.body, f))
  <2>1. f \in {"senderId", "senderDeviceId", "clientMessageId", "clientSequence", "body"}
    BY <1>2 DEF EffectFields
  <2>2. QED
    BY <2>1 DEF Accepts, parseSendMessageBody, IsUuid, IsText, IsBody
<1>3. QED
  BY <1>1, <1>2, FieldAsWritten DEF EffectOf, Intent

(* send-message.dto.ts:76-84 and 115-126: for every exact range that ends  *)
(* at an odd number, as 2^53 - 1 is, no position is moved by the edge.     *)
THEOREM PositionsStayExact == RequestArrives => PositionsAreExact
<1> SUFFICES ASSUME RequestArrives PROVE PositionsAreExact
  OBVIOUS
<1>1. ASSUME given[1] = "send", Accepts(given[2])
      PROVE  Field(given[2].body, "clientSequence") = Wire(given[2].body, "clientSequence")
  <2>1. given[2] \in SendRequests
    BY <1>1 DEF RequestArrives
  <2>2. /\ IsObject(given[2].body) /\ IsParsed(given[2].body)
        /\ IsSequence(Field(given[2].body, "clientSequence"))
    BY <1>1, <2>1, RequestsAssumption DEF Accepts, parseSendMessageBody
  <2>3. QED
    BY <2>2, FieldAsWritten
<1>2. ASSUME given[1] = "resync", parseResyncBody(given[2])
      PROVE  Field(given[2], "fromClientSequence") = Wire(given[2], "fromClientSequence")
  <2>1. given[2] \in ResyncBodies
    BY <1>2 DEF RequestArrives
  <2>2. /\ IsObject(given[2]) /\ IsParsed(given[2])
        /\ IsSequence(Field(given[2], "fromClientSequence"))
    BY <1>2, <2>1, RequestsAssumption DEF parseResyncBody
  <2>3. QED
    BY <2>2, FieldAsWritten
<1>3. QED
  BY <1>1, <1>2 DEF PositionsAreExact

(* domain-error.filter.ts:20: every class of errors.ts the endpoints throw *)
(* is in one of the two groups of the filter, so whatever endpoint throws  *)
(* it, the client is not told 500, the status of what nobody foresaw.      *)
THEOREM RefusalsStayExplained == RequestArrives => RefusalsAreExplained
<1> SUFFICES ASSUME RequestArrives, given[1] = "error", given[2] # Unhandled
             PROVE  statusFor(given[2]) \in 400..499
  BY DEF RefusalsAreExplained
<1>1. PICK e \in Endpoints : given[2] \in Thrown(e)
  BY DEF RequestArrives
<1>2. given[2] \in Conflicts \cup Absences
  BY <1>1 DEF Endpoints, Thrown, StreamErrors, Conflicts, Absences
<1>3. QED
  BY <1>2 DEF statusFor

-----------------------------------------------------------------------------
(* FlattenSeq recurses over the sequence; what it makes of six is plain.   *)
LEMMA SixFlattened ==
    ASSUME NEW s, Len(s) = 6
    PROVE  FlattenSeq(s) = ((((s[1] \o s[2]) \o s[3]) \o s[4]) \o s[5]) \o s[6]
<1> DEFINE Join(x, y) == x \o y
<1> DEFINE To(f) == [i \in 1..Len(s) |-> IF i = 1 THEN s[i] ELSE Join(f[i - 1], s[i])]
<1> DEFINE flatten == CHOOSE f : f = To(f)
<1>1. FlattenSeq(s) = flatten[6]
  BY DEF FlattenSeq
<1>2. Join(Join(Join(Join(Join(s[1], s[2]), s[3]), s[4]), s[5]), s[6])
        = ((((s[1] \o s[2]) \o s[3]) \o s[4]) \o s[5]) \o s[6]
  OBVIOUS
<1> HIDE DEF Join
<1>3. \E f : f = To(f)
  <2> DEFINE w == <<s[1], Join(s[1], s[2]), Join(Join(s[1], s[2]), s[3]),
                    Join(Join(Join(s[1], s[2]), s[3]), s[4]),
                    Join(Join(Join(Join(s[1], s[2]), s[3]), s[4]), s[5]),
                    Join(Join(Join(Join(Join(s[1], s[2]), s[3]), s[4]), s[5]), s[6])>>
  <2>1. \A i \in 1..6 : w[i] = IF i = 1 THEN s[i] ELSE Join(w[i - 1], s[i])
    OBVIOUS
  <2>2. w = [i \in 1..6 |-> w[i]]
    OBVIOUS
  <2> HIDE DEF w
  <2>3. w = To(w)
    BY <2>1, <2>2
  <2>4. QED
    BY <2>3
<1>4. flatten = To(flatten)
  <2> HIDE DEF To
  <2> QED BY <1>3
<1> HIDE DEF flatten
<1>5. \A i \in 1..6 : flatten[i] = IF i = 1 THEN s[i] ELSE Join(flatten[i - 1], s[i])
  BY <1>4
<1>6. flatten[6] = Join(Join(Join(Join(Join(s[1], s[2]), s[3]), s[4]), s[5]), s[6])
  BY <1>5
<1>7. QED
  BY <1>1, <1>2, <1>6

(* How many of the six fields come before a field.                         *)
Place == <<4, 6, 5, 2, 3, 1>>

LEMMA FieldPlaces ==
    /\ \A i \in 1..6 : Place[i] \in 1..6 /\ EffectFields[i] = OrderedFields[Place[i]]
    /\ \A i, j \in 1..6 : Rank(EffectFields[j]) < Rank(EffectFields[i]) <=> Place[j] < Place[i]
<1>1. \A i \in 1..6 : Place[i] \in 1..6 /\ EffectFields[i] = OrderedFields[Place[i]]
  BY DEF Place, EffectFields, OrderedFields
<1>2. \A i \in 1..6 : Rank(OrderedFields[i]) \in Nat
  BY FingerprintsAssumption DEF Rank
<1>3. \A i, j \in 1..6 : Rank(OrderedFields[j]) < Rank(OrderedFields[i]) <=> j < i
  BY <1>2, FingerprintsAssumption
<1>4. QED
  BY <1>1, <1>3

(* And that is how many there are.                                         *)
LEMMA PlacesCounted ==
    \A n \in 1..6 : Cardinality({j \in 1..6 : Place[j] < n}) = n - 1
<1> DEFINE Below(n) == {j \in 1..6 : Place[j] < n}
<1>1. \A j \in 1..6 : j = 1 \/ j = 2 \/ j = 3 \/ j = 4 \/ j = 5 \/ j = 6
  OBVIOUS
<1>2. /\ Place[1] = 4 /\ Place[2] = 6 /\ Place[3] = 5
      /\ Place[4] = 2 /\ Place[5] = 3 /\ Place[6] = 1
  BY DEF Place
<1>3. Below(1) = {}
  BY <1>1, <1>2
<1>4. Below(2) = Below(1) \cup {6} /\ 6 \notin Below(1)
  BY <1>1, <1>2
<1>5. Below(3) = Below(2) \cup {4} /\ 4 \notin Below(2)
  BY <1>1, <1>2
<1>6. Below(4) = Below(3) \cup {5} /\ 5 \notin Below(3)
  BY <1>1, <1>2
<1>7. Below(5) = Below(4) \cup {1} /\ 1 \notin Below(4)
  BY <1>1, <1>2
<1>8. Below(6) = Below(5) \cup {3} /\ 3 \notin Below(5)
  BY <1>1, <1>2
<1> HIDE DEF Below
<1>9. IsFiniteSet(Below(1)) /\ Cardinality(Below(1)) = 0
  BY <1>3, FS_EmptySet
<1>10. IsFiniteSet(Below(2)) /\ Cardinality(Below(2)) = 1
  BY <1>4, <1>9, FS_AddElement
<1>11. IsFiniteSet(Below(3)) /\ Cardinality(Below(3)) = 2
  BY <1>5, <1>10, FS_AddElement
<1>12. IsFiniteSet(Below(4)) /\ Cardinality(Below(4)) = 3
  BY <1>6, <1>11, FS_AddElement
<1>13. IsFiniteSet(Below(5)) /\ Cardinality(Below(5)) = 4
  BY <1>7, <1>12, FS_AddElement
<1>14. IsFiniteSet(Below(6)) /\ Cardinality(Below(6)) = 5
  BY <1>8, <1>13, FS_AddElement
<1>15. \A n \in 1..6 : Cardinality(Below(n)) = n - 1
  BY <1>1, <1>9, <1>10, <1>11, <1>12, <1>13, <1>14
<1>16. QED
  BY <1>15 DEF Below

(* The sort puts the six fields into the one order there is.               *)
LEMMA FieldsInOrder ==
    ASSUME NEW effect, \A i \in 1..6 : effect[EffectFields[i]] # Undefined
    PROVE  InOrder(FieldsOf(effect)) = [k \in 1..6 |-> <<OrderedFields[k], effect[OrderedFields[k]]>>]
<1> DEFINE entries == FieldsOf(effect)
<1> DEFINE Before(i) == {j \in Defined(entries) : Rank(entries[j][1]) < Rank(entries[i][1])}
<1>1. entries = [i \in 1..6 |-> <<EffectFields[i], effect[EffectFields[i]]>>]
  BY DEF FieldsOf, FingerprintFields, EffectFields
<1>2. Defined(entries) = 1..6
  BY <1>1 DEF Defined
<1>3. \A i \in 1..6 : Before(i) = {j \in 1..6 : Place[j] < Place[i]}
  BY <1>1, <1>2, FieldPlaces
<1>4. \A i \in 1..6 : Cardinality(Before(i)) = Place[i] - 1
  BY <1>3, FieldPlaces, PlacesCounted
<1>5. Cardinality(Defined(entries)) = 6
  <2> HIDE DEF entries
  <2>0. 1 \in Int /\ 6 \in Int
    OBVIOUS
  <2>1. Cardinality(1..6) = IF 1 > 6 THEN 0 ELSE 6 - 1 + 1
    BY <2>0, FS_Interval, Zenon
  <2>2. QED
    BY <1>2, <2>1
<1>6. InOrder(entries) = [k \in 1..6 |-> entries[CHOOSE i \in 1..6 : Cardinality(Before(i)) = k - 1]]
  BY <1>2, <1>5 DEF InOrder
<1>7. ASSUME NEW k \in 1..6
      PROVE  entries[CHOOSE i \in 1..6 : Cardinality(Before(i)) = k - 1]
                = <<OrderedFields[k], effect[OrderedFields[k]]>>
  <2>1. \E i \in 1..6 : Place[i] = k
    BY DEF Place
  <2> HIDE DEF entries, Before
  <2>2. \E i \in 1..6 : Cardinality(Before(i)) = k - 1
    BY <1>4, <2>1
  <2>3. PICK i \in 1..6 : /\ i = CHOOSE n \in 1..6 : Cardinality(Before(n)) = k - 1
                          /\ Cardinality(Before(i)) = k - 1
    BY <2>2
  <2>4. Place[i] = k
    <3>1. Place[i] \in 1..6 /\ Place[i] - 1 = k - 1
      BY <2>3, <1>4, FieldPlaces
    <3>2. QED
      BY <3>1
  <2>5. QED
    BY <1>1, <2>3, <2>4, FieldPlaces
<1>8. QED
  BY <1>6, <1>7

(* What two joined lists hold, entry by entry.                             *)
LEMMA JoinedEntries ==
    ASSUME NEW T, NEW s \in Seq(T), NEW t \in Seq(T)
    PROVE  /\ s \o t \in Seq(T) /\ Len(s \o t) = Len(s) + Len(t)
           /\ Len(s) \in Nat /\ Len(t) \in Nat
           /\ \A i \in 1..Len(s) : (s \o t)[i] = s[i]
           /\ \A i \in 1..Len(t) : (s \o t)[Len(s) + i] = t[i]
<1>1. /\ s \o t \in Seq(T) /\ Len(s \o t) = Len(s) + Len(t)
      /\ Len(s) \in Nat /\ Len(t) \in Nat
  OBVIOUS
<1>2. \A i \in 1..Len(s) : (s \o t)[i] = s[i]
  OBVIOUS
<1>3. ASSUME NEW i \in 1..Len(t) PROVE (s \o t)[Len(s) + i] = t[i]
  <2> DEFINE n == Len(s) + i
  <2>1. n \in 1..(Len(s) + Len(t)) /\ n > Len(s) /\ n - Len(s) = i
    BY <1>1
  <2> HIDE DEF n
  <2>2. (s \o t)[n] = t[n - Len(s)]
    BY <2>1
  <2>3. QED
    BY <2>1, <2>2 DEF n
<1>4. QED
  BY <1>1, <1>2, <1>3

(* Two lists of one length come apart where they were joined.              *)
Alike(T, s, t) == s \in Seq(T) /\ t \in Seq(T) /\ Len(s) = Len(t)

LEMMA AlikeComeApart ==
    ASSUME NEW T, NEW s, NEW s2, NEW t, NEW t2, Alike(T, s, s2), Alike(T, t, t2),
           s \o t = s2 \o t2
    PROVE  s = s2 /\ t = t2
<1>1. /\ s \in Seq(T) /\ s2 \in Seq(T) /\ t \in Seq(T) /\ t2 \in Seq(T)
      /\ Len(s) = Len(s2) /\ Len(t) = Len(t2)
  BY DEF Alike
<1> DEFINE Starts(w, x) == \A i \in 1..Len(x) : w[i] = x[i]
           Ends(w, x, y) == \A i \in 1..Len(y) : w[Len(x) + i] = y[i]
<1>2. ASSUME NEW x \in Seq(T), NEW y \in Seq(T)
      PROVE  Starts(x \o y, x) /\ Ends(x \o y, x, y)
  BY ONLY <1>2, JoinedEntries
<1> HIDE DEF Starts, Ends
<1>3. Starts(s \o t, s) /\ Ends(s \o t, s, t)
  BY <1>1, <1>2, Zenon
<1>4. Starts(s2 \o t2, s2) /\ Ends(s2 \o t2, s2, t2)
  BY <1>1, <1>2, Zenon
<1>5. PICK w : Starts(w, s) /\ Ends(w, s, t) /\ Starts(w, s2) /\ Ends(w, s2, t2)
  BY <1>3, <1>4, Zenon
<1>6. Len(s) \in Nat /\ Len(t) \in Nat
  BY ONLY <1>1
<1>7. s = s2
  BY ONLY <1>1, <1>5, <1>6 DEF Starts
<1>8. t = t2
  BY ONLY <1>1, <1>5, <1>6 DEF Ends
<1>9. QED
  BY <1>7, <1>8

(* The two joins of tokens that a field is written with.                   *)
LEMMA TokensJoined ==
    ASSUME NEW a, NEW b, NEW c, NEW d
    PROVE  <<a, b>> \o <<c>> = <<a, b, c>> /\ <<a>> \o <<b, c, d>> = <<a, b, c, d>>
<1> DEFINE T == {a, b, c, d}
<1>1. <<a, b>> \o <<c>> = <<a, b, c>>
  <2> DEFINE x == <<a, b>>
             y == <<c>>
             z == x \o y
  <2>1. x \in Seq(T) /\ y \in Seq(T) /\ Len(x) = 2 /\ Len(y) = 1
    OBVIOUS
  <2>2. x[1] = a /\ x[2] = b /\ y[1] = c
    OBVIOUS
  <2> HIDE DEF x, y, T
  <2>3. ASSUME NEW s \in Seq(T), NEW t \in Seq(T)
        PROVE  /\ s \o t \in Seq(T) /\ Len(s \o t) = Len(s) + Len(t)
               /\ \A i \in 1..Len(s) : (s \o t)[i] = s[i]
               /\ \A i \in 1..Len(t) : (s \o t)[Len(s) + i] = t[i]
    BY JoinedEntries
  <2>4. /\ z \in Seq(T) /\ Len(z) = Len(x) + Len(y)
        /\ \A i \in 1..Len(x) : z[i] = x[i]
        /\ \A i \in 1..Len(y) : z[Len(x) + i] = y[i]
    BY <2>1, <2>3, Zenon
  <2> HIDE DEF z
  <2>5. z[1] = a /\ z[2] = b /\ z[3] = c /\ Len(z) = 3
    BY <2>1, <2>2, <2>4
  <2>6. z = <<a, b, c>>
    <3> DEFINE w == <<a, b, c>>
    <3>1. w \in Seq({a, b, c, d}) /\ Len(w) = 3 /\ w[1] = a /\ w[2] = b /\ w[3] = c
      OBVIOUS
    <3> HIDE DEF w
    <3>2. Len(z) = Len(w) /\ \A i \in 1..Len(z) : z[i] = w[i]
      BY <2>5, <3>1
    <3>3. z = w
      BY <2>4, <3>1, <3>2
    <3>4. QED
      BY <3>3 DEF w
  <2>7. QED
    BY <2>6 DEF x, y, z
<1>2. <<a>> \o <<b, c, d>> = <<a, b, c, d>>
  <2> DEFINE x == <<a>>
             y == <<b, c, d>>
             z == x \o y
  <2>1. x \in Seq(T) /\ y \in Seq(T) /\ Len(x) = 1 /\ Len(y) = 3
    OBVIOUS
  <2>2. x[1] = a /\ y[1] = b /\ y[2] = c /\ y[3] = d
    OBVIOUS
  <2> HIDE DEF x, y, T
  <2>3. ASSUME NEW s \in Seq(T), NEW t \in Seq(T)
        PROVE  /\ s \o t \in Seq(T) /\ Len(s \o t) = Len(s) + Len(t)
               /\ \A i \in 1..Len(s) : (s \o t)[i] = s[i]
               /\ \A i \in 1..Len(t) : (s \o t)[Len(s) + i] = t[i]
    BY JoinedEntries
  <2>4. /\ z \in Seq(T) /\ Len(z) = Len(x) + Len(y)
        /\ \A i \in 1..Len(x) : z[i] = x[i]
        /\ \A i \in 1..Len(y) : z[Len(x) + i] = y[i]
    BY <2>1, <2>3, Zenon
  <2> HIDE DEF z
  <2>5. z[1] = a /\ z[2] = b /\ z[3] = c /\ z[4] = d /\ Len(z) = 4
    BY <2>1, <2>2, <2>4
  <2>6. z = <<a, b, c, d>>
    <3> DEFINE w == <<a, b, c, d>>
    <3>1. w \in Seq({a, b, c, d}) /\ Len(w) = 4 /\ w[1] = a /\ w[2] = b /\ w[3] = c /\ w[4] = d
      OBVIOUS
    <3> HIDE DEF w
    <3>2. Len(z) = Len(w) /\ \A i \in 1..Len(z) : z[i] = w[i]
      BY <2>5, <3>1
    <3>3. z = w
      BY <2>4, <3>1, <3>2
    <3>4. QED
      BY <3>3 DEF w
  <2>7. QED
    BY <2>6 DEF x, y, z
<1>3. QED
  BY <1>1, <1>2

LEMMA CommaJoined ==
    ASSUME NEW a, NEW b, NEW c, NEW d
    PROVE  <<a>> \o <<b, c, d>> = <<a, b, c, d>>
BY TokensJoined, Zenon

(* The tokens of a field in the text of an object.                         *)
FieldText(i, v) ==
    IF i = 1 THEN <<Str(OrderedFields[i]), <<":">>, v>>
             ELSE <<<<",">>, Str(OrderedFields[i]), <<":">>, v>>

IsScalar(v) == Type(v) \in {"str", "num"}

(* The text of an effect: its six fields between braces.                   *)
LEMMA EffectText ==
    ASSUME NEW effect, \A i \in 1..6 : IsScalar(effect[EffectFields[i]])
    PROVE  LET text(i) == FieldText(i, effect[OrderedFields[i]])
           IN  fingerprintOf(effect) =
                 (<<<<"{">>>> \o (((((text(1) \o text(2)) \o text(3)) \o text(4)) \o text(5)) \o text(6)))
                    \o <<<<"}">>>>
<1> DEFINE v(i) == effect[OrderedFields[i]]
<1>1. \A i \in 1..6 : effect[EffectFields[i]] # Undefined
  BY DEF IsScalar, Type, Undefined
<1>2. InOrder(FieldsOf(effect)) = [k \in 1..6 |-> <<OrderedFields[k], v(k)>>]
  BY <1>1, FieldsInOrder
<1>3. \A i \in 1..6 : ScalarText(v(i)) = <<v(i)>>
  <2>1. \A i \in 1..6 : \E j \in 1..6 : OrderedFields[i] = EffectFields[j]
    BY DEF OrderedFields, EffectFields
  <2>2. QED
    BY <2>1 DEF ScalarText, IsScalar
<1> DEFINE pairs == [i \in 1..6 |-> <<OrderedFields[i], <<v(i)>>>>]
<1>4. fingerprintOf(effect) = ObjectText(pairs)
  BY <1>2, <1>3 DEF fingerprintOf
<1> DEFINE texts == [i \in 1..6 |-> <<Str(OrderedFields[i]), <<":">>>> \o <<v(i)>>]
<1>5. ObjectText(pairs) = (<<<<"{">>>> \o JoinedWithCommas(texts)) \o <<<<"}">>>>
  BY DEF ObjectText
<1> DEFINE parts == [i \in 1..6 |-> FieldText(i, v(i))]
<1>6. [i \in DOMAIN texts |-> IF i = 1 THEN texts[i] ELSE <<<<",">>>> \o texts[i]] = parts
  <2>1. \A i \in 1..6 : texts[i] = <<Str(OrderedFields[i]), <<":">>, v(i)>>
    <3> TAKE i \in 1..6
    <3> DEFINE colon == <<":">>
               key == Str(OrderedFields[i])
               value == v(i)
    <3>1. texts[i] = <<key, colon>> \o <<value>>
      OBVIOUS
    <3> HIDE DEF v, texts, colon, key, value
    <3>2. <<key, colon>> \o <<value>> = <<key, colon, value>>
      BY ONLY TokensJoined, Zenon
    <3>3. QED
      BY <3>1, <3>2, Zenon DEF colon, key, value
  <2>2. \A i \in 1..6 : <<<<",">>>> \o <<Str(OrderedFields[i]), <<":">>, v(i)>>
                            = <<<<",">>, Str(OrderedFields[i]), <<":">>, v(i)>>
    <3> TAKE i \in 1..6
    <3> DEFINE comma == <<",">>
               colon == <<":">>
               key == Str(OrderedFields[i])
               value == v(i)
    <3> HIDE DEF v, texts, comma, colon, key, value
    <3>1. <<comma>> \o <<key, colon, value>> = <<comma, key, colon, value>>
      BY ONLY CommaJoined, Zenon
    <3>2. QED
      BY <3>1, Zenon DEF comma, colon, key, value
  <2>3. DOMAIN texts = 1..6
    OBVIOUS
  <2> HIDE DEF texts, v
  <2>4. QED
    BY <2>1, <2>2, <2>3 DEF FieldText
<1>7. JoinedWithCommas(texts) = FlattenSeq(parts)
  <2> HIDE DEF texts, parts
  <2> QED BY <1>6 DEF JoinedWithCommas
<1>8. Len(parts) = 6
  OBVIOUS
<1>9. FlattenSeq(parts) =
        ((((parts[1] \o parts[2]) \o parts[3]) \o parts[4]) \o parts[5]) \o parts[6]
  BY <1>8, SixFlattened
<1>10. \A i \in 1..6 : parts[i] = FieldText(i, v(i))
  OBVIOUS
<1> HIDE DEF parts, texts, pairs
<1>11. /\ parts[1] = FieldText(1, v(1)) /\ parts[2] = FieldText(2, v(2)) /\ parts[3] = FieldText(3, v(3))
       /\ parts[4] = FieldText(4, v(4)) /\ parts[5] = FieldText(5, v(5)) /\ parts[6] = FieldText(6, v(6))
  <2> HIDE DEF v
  <2> QED BY <1>10
<1>12. QED
  BY <1>4, <1>5, <1>7, <1>9, <1>11, Zenon

(* Three and four tokens, as lists.                                        *)
LEMMA TokenLists ==
    ASSUME NEW T, NEW a \in T, NEW b \in T, NEW c \in T, NEW d \in T
    PROVE  /\ <<b, c, d>> \in Seq(T) /\ Len(<<b, c, d>>) = 3 /\ <<b, c, d>>[3] = d
           /\ <<a, b, c, d>> \in Seq(T) /\ Len(<<a, b, c, d>>) = 4 /\ <<a, b, c, d>>[4] = d
OBVIOUS

(* One field is as long for any value, and its value can be read off it.   *)
LEMMA FieldTokens ==
    ASSUME NEW T, NEW i \in 1..6, NEW v \in T, NEW w \in T,
           Str(OrderedFields[i]) \in T, <<",">> \in T, <<":">> \in T
    PROVE  /\ Alike(T, FieldText(i, v), FieldText(i, w))
           /\ FieldText(i, v) = FieldText(i, w) => v = w
<1> DEFINE key == Str(OrderedFields[i])
           comma == <<",">>
           colon == <<":">>
<1>1. key \in T /\ comma \in T /\ colon \in T
  OBVIOUS
<1>2. /\ FieldText(i, v) = IF i = 1 THEN <<key, colon, v>> ELSE <<comma, key, colon, v>>
      /\ FieldText(i, w) = IF i = 1 THEN <<key, colon, w>> ELSE <<comma, key, colon, w>>
  BY DEF FieldText
<1> HIDE DEF key, comma, colon
<1>3. CASE i = 1
  <2>1. FieldText(i, v) = <<key, colon, v>> /\ FieldText(i, w) = <<key, colon, w>>
    BY <1>2, <1>3
  <2>2. /\ <<key, colon, v>> \in Seq(T) /\ Len(<<key, colon, v>>) = 3
        /\ <<key, colon, w>> \in Seq(T) /\ Len(<<key, colon, w>>) = 3
    BY <1>1, TokenLists, Zenon
  <2>3. <<key, colon, v>>[3] = v /\ <<key, colon, w>>[3] = w
    OBVIOUS
  <2>4. QED
    BY <1>3, <2>1, <2>2, <2>3, Zenon DEF Alike
<1>4. CASE i # 1
  <2>1. FieldText(i, v) = <<comma, key, colon, v>> /\ FieldText(i, w) = <<comma, key, colon, w>>
    BY <1>2, <1>4
  <2>2. /\ <<comma, key, colon, v>> \in Seq(T) /\ Len(<<comma, key, colon, v>>) = 4
        /\ <<comma, key, colon, w>> \in Seq(T) /\ Len(<<comma, key, colon, w>>) = 4
    BY <1>1, TokenLists, Zenon
  <2>3. <<comma, key, colon, v>>[4] = v /\ <<comma, key, colon, w>>[4] = w
    OBVIOUS
  <2>4. QED
    BY <1>4, <2>1, <2>2, <2>3, Zenon DEF Alike
<1>5. QED
  BY <1>3, <1>4

LEMMA JoinedStayAlike ==
    ASSUME NEW T, NEW s, NEW s2, NEW t, NEW t2, Alike(T, s, s2), Alike(T, t, t2)
    PROVE  Alike(T, s \o t, s2 \o t2)
<1>1. /\ s \in Seq(T) /\ s2 \in Seq(T) /\ t \in Seq(T) /\ t2 \in Seq(T)
      /\ Len(s) = Len(s2) /\ Len(t) = Len(t2)
  BY DEF Alike
<1>2. /\ s \o t \in Seq(T) /\ Len(s \o t) = Len(s) + Len(t)
      /\ s2 \o t2 \in Seq(T) /\ Len(s2 \o t2) = Len(s2) + Len(t2)
  BY <1>1, JoinedEntries
<1>3. QED
  BY <1>1, <1>2 DEF Alike

(* fingerprint.ts:18: the text says where each field begins and ends.      *)
LEMMA TextTellsFields ==
    ASSUME NEW e, NEW f, fingerprintOf(e) = fingerprintOf(f),
           \A i \in 1..6 : IsScalar(e[EffectFields[i]]) /\ IsScalar(f[EffectFields[i]])
    PROVE  \A i \in 1..6 : e[EffectFields[i]] = f[EffectFields[i]]
<1> DEFINE T == {e[OrderedFields[i]] : i \in 1..6} \cup {f[OrderedFields[i]] : i \in 1..6}
                \cup {Str(OrderedFields[i]) : i \in 1..6} \cup {<<",">>, <<":">>, <<"{">>, <<"}">>}
           t(i) == FieldText(i, e[OrderedFields[i]])
           u(i) == FieldText(i, f[OrderedFields[i]])
           open == <<<<"{">>>>
           close == <<<<"}">>>>
<1>1. (open \o (((((t(1) \o t(2)) \o t(3)) \o t(4)) \o t(5)) \o t(6))) \o close
        = (open \o (((((u(1) \o u(2)) \o u(3)) \o u(4)) \o u(5)) \o u(6))) \o close
  BY EffectText, Zenon
<1>2. ASSUME NEW i \in 1..6
      PROVE  Alike(T, t(i), u(i)) /\ (t(i) = u(i) => e[OrderedFields[i]] = f[OrderedFields[i]])
  <2>1. /\ e[OrderedFields[i]] \in T /\ f[OrderedFields[i]] \in T
        /\ Str(OrderedFields[i]) \in T /\ <<",">> \in T /\ <<":">> \in T
    OBVIOUS
  <2> HIDE DEF T
  <2> DEFINE v == e[OrderedFields[i]]
             w == f[OrderedFields[i]]
  <2>2. t(i) = FieldText(i, v) /\ u(i) = FieldText(i, w)
    OBVIOUS
  <2>3. v \in T /\ w \in T
    BY <2>1
  <2> HIDE DEF v, w, t, u
  <2>4. Alike(T, FieldText(i, v), FieldText(i, w))
    BY <2>1, <2>3, FieldTokens, Zenon
  <2>5. FieldText(i, v) = FieldText(i, w) => v = w
    BY <2>1, <2>3, FieldTokens, Zenon
  <2>6. QED
    BY <2>2, <2>4, <2>5 DEF v, w
<1>3. Alike(T, open, open) /\ Alike(T, close, close)
  BY DEF Alike
<1> HIDE DEF T, t, u, open, close
<1>4. /\ Alike(T, t(1), u(1)) /\ Alike(T, t(2), u(2)) /\ Alike(T, t(3), u(3))
      /\ Alike(T, t(4), u(4)) /\ Alike(T, t(5), u(5)) /\ Alike(T, t(6), u(6))
  BY <1>2
<1> DEFINE t2 == t(1) \o t(2)
           t3 == t2 \o t(3)
           t4 == t3 \o t(4)
           t5 == t4 \o t(5)
           t6 == t5 \o t(6)
           u2 == u(1) \o u(2)
           u3 == u2 \o u(3)
           u4 == u3 \o u(4)
           u5 == u4 \o u(5)
           u6 == u5 \o u(6)
<1>5. /\ t2 = t(1) \o t(2) /\ t3 = t2 \o t(3) /\ t4 = t3 \o t(4) /\ t5 = t4 \o t(5) /\ t6 = t5 \o t(6)
      /\ u2 = u(1) \o u(2) /\ u3 = u2 \o u(3) /\ u4 = u3 \o u(4) /\ u5 = u4 \o u(5) /\ u6 = u5 \o u(6)
      /\ (open \o t6) \o close = (open \o u6) \o close
  BY <1>1, Zenon
<1> HIDE DEF t2, t3, t4, t5, t6, u2, u3, u4, u5, u6
<1>6. Alike(T, t2, u2)
  BY <1>4, <1>5, JoinedStayAlike, Zenon
<1>7. Alike(T, t3, u3)
  BY <1>4, <1>5, <1>6, JoinedStayAlike, Zenon
<1>8. Alike(T, t4, u4)
  BY <1>4, <1>5, <1>7, JoinedStayAlike, Zenon
<1>9. Alike(T, t5, u5)
  BY <1>4, <1>5, <1>8, JoinedStayAlike, Zenon
<1>10. Alike(T, t6, u6)
  BY <1>4, <1>5, <1>9, JoinedStayAlike, Zenon
<1>11. Alike(T, open \o t6, open \o u6)
  BY <1>3, <1>10, JoinedStayAlike, Zenon
<1>12. open \o t6 = open \o u6
  BY <1>3, <1>5, <1>11, AlikeComeApart, Zenon
<1>13. t6 = u6
  BY <1>3, <1>10, <1>12, AlikeComeApart, Zenon
<1>14. t5 = u5 /\ t(6) = u(6)
  <2>1. t5 \o t(6) = u5 \o u(6) /\ Alike(T, t(6), u(6))
    BY <1>4, <1>5, <1>13
  <2>2. QED
    BY <1>9, <2>1, AlikeComeApart, Zenon
<1>15. t4 = u4 /\ t(5) = u(5)
  <2>1. t4 \o t(5) = u4 \o u(5) /\ Alike(T, t(5), u(5))
    BY <1>4, <1>5, <1>14
  <2>2. QED
    BY <1>8, <2>1, AlikeComeApart, Zenon
<1>16. t3 = u3 /\ t(4) = u(4)
  <2>1. t3 \o t(4) = u3 \o u(4) /\ Alike(T, t(4), u(4))
    BY <1>4, <1>5, <1>15
  <2>2. QED
    BY <1>7, <2>1, AlikeComeApart, Zenon
<1>17. t2 = u2 /\ t(3) = u(3)
  <2>1. t2 \o t(3) = u2 \o u(3) /\ Alike(T, t(3), u(3))
    BY <1>4, <1>5, <1>16
  <2>2. QED
    BY <1>6, <2>1, AlikeComeApart, Zenon
<1>18. t(1) = u(1) /\ t(2) = u(2)
  BY <1>4, <1>5, <1>17, AlikeComeApart, Zenon
<1>19. \A i \in 1..6 : e[OrderedFields[i]] = f[OrderedFields[i]]
  <2>1. \A i \in 1..6 : i = 1 \/ i = 2 \/ i = 3 \/ i = 4 \/ i = 5 \/ i = 6
    OBVIOUS
  <2>2. QED
    BY <1>2, <1>14, <1>15, <1>16, <1>17, <1>18, <2>1
<1>20. QED
  BY <1>19, FieldPlaces

EffectNames == {EffectFields[i] : i \in DOMAIN EffectFields}

(* The parsers let nothing through but strings and one exact number.       *)
LEMMA AcceptedFields ==
    ASSUME NEW r \in SendRequests, Accepts(r)
    PROVE  /\ IsObject(r.body) /\ IsParsed(r.body)
           /\ \A f \in EffectNames :
                /\ f # "clientSequence" => Type(EffectOf(r)[f]) = "str"
                /\ f = "clientSequence" => IsSequence(EffectOf(r)[f])
           /\ \A i \in 1..6 : EffectFields[i] \in EffectNames /\ IsScalar(EffectOf(r)[EffectFields[i]])
<1>1. IsObject(r.body) /\ IsParsed(r.body)
  BY RequestsAssumption DEF Accepts, parseSendMessageBody
<1>2. \A f \in EffectNames :
        EffectOf(r)[f] = IF f = "conversationId" THEN r.conversationId ELSE Field(r.body, f)
  BY DEF EffectOf, EffectNames
<1>3. ASSUME NEW f \in EffectNames
      PROVE  /\ f # "clientSequence" => Type(EffectOf(r)[f]) = "str"
             /\ f = "clientSequence" => IsSequence(EffectOf(r)[f])
  <2>1. f \in {"conversationId", "senderId", "senderDeviceId", "clientMessageId", "clientSequence", "body"}
    BY DEF EffectFields, EffectNames
  <2>2. /\ Type(r.conversationId) = "str"
        /\ Type(Field(r.body, "senderId")) = "str" /\ Type(Field(r.body, "senderDeviceId")) = "str"
        /\ Type(Field(r.body, "clientMessageId")) = "str" /\ Type(Field(r.body, "body")) = "str"
        /\ IsSequence(Field(r.body, "clientSequence"))
    BY DEF Accepts, parseUuidParam, parseSendMessageBody, IsUuid, IsText, IsBody
  <2>3. QED
    BY <1>2, <2>1, <2>2
<1>4. ASSUME NEW i \in 1..6
      PROVE  EffectFields[i] \in EffectNames /\ IsScalar(EffectOf(r)[EffectFields[i]])
  <2>1. EffectFields[i] \in EffectNames
    BY DEF EffectFields, EffectNames
  <2>2. QED
    BY <1>3, <2>1 DEF IsScalar, IsSequence
<1>5. QED
  BY <1>1, <1>3, <1>4

(* Two accepted requests with one fingerprint were written alike.          *)
LEMMA OneFingerprintOneIntent ==
    ASSUME NEW r \in SendRequests, NEW q \in SendRequests, Accepts(r), Accepts(q)
    PROVE  fingerprintOf(EffectOf(r)) = fingerprintOf(EffectOf(q)) <=> Intent(r) = Intent(q)
<1>1. EffectOf(r) = Intent(r) /\ EffectOf(q) = Intent(q)
  BY EffectIsIntent
<1>2. ASSUME fingerprintOf(EffectOf(r)) = fingerprintOf(EffectOf(q))
      PROVE  EffectOf(r) = EffectOf(q)
  <2>1. \A i \in 1..6 : IsScalar(EffectOf(r)[EffectFields[i]]) /\ IsScalar(EffectOf(q)[EffectFields[i]])
    BY AcceptedFields
  <2>2. \A i \in 1..6 : EffectOf(r)[EffectFields[i]] = EffectOf(q)[EffectFields[i]]
    <3> DEFINE e == EffectOf(r)
               f == EffectOf(q)
    <3>1. fingerprintOf(e) = fingerprintOf(f) /\ \A i \in 1..6 : IsScalar(e[EffectFields[i]]) /\ IsScalar(f[EffectFields[i]])
      BY <1>2, <2>1
    <3> HIDE DEF e, f
    <3>2. \A i \in 1..6 : e[EffectFields[i]] = f[EffectFields[i]]
      BY <3>1, TextTellsFields
    <3>3. QED
      BY <3>2 DEF e, f
  <2>3. DOMAIN EffectFields = 1..6
    BY DEF EffectFields
  <2>4. \A f \in EffectNames : EffectOf(r)[f] = EffectOf(q)[f]
    BY <2>2, <2>3 DEF EffectNames
  <2>5. /\ EffectOf(r) = [f \in EffectNames |-> EffectOf(r)[f]]
        /\ EffectOf(q) = [f \in EffectNames |-> EffectOf(q)[f]]
    BY DEF EffectOf, EffectNames
  <2>6. QED
    BY <2>4, <2>5
<1>3. QED
  BY <1>1, <1>2, Zenon

(* The panel's form is the body with the conversation at its end.          *)
LEMMA FormFields ==
    ASSUME NEW r \in SendRequests, Accepts(r)
    PROVE  LET form == Obj(r.body[2] \o <<<<"conversationId", r.conversationId>>>>)
           IN  \A f \in EffectNames : Field(form, f) = EffectOf(r)[f]
<1> DEFINE body == r.body[2]
           last == <<"conversationId", r.conversationId>>
           fields == body \o <<last>>
           form == Obj(fields)
           T == {body[i] : i \in DOMAIN body} \cup {last}
<1>1. body \in Seq(T) /\ <<last>> \in Seq(T)
  <2>1. body \in Seq({body[i] : i \in DOMAIN body})
    BY AcceptedFields DEF IsParsed
  <2>2. QED
    BY <2>1
<1>2. /\ Len(body) \in Nat /\ DOMAIN body = 1..Len(body)
      /\ DOMAIN fields = 1..(Len(body) + 1)
      /\ \A i \in 1..Len(body) : fields[i] = body[i]
      /\ fields[Len(body) + 1] = last
  <2> HIDE DEF T, last
  <2>1. Len(<<last>>) = 1 /\ <<last>>[1] = last
    OBVIOUS
  <2>2. /\ fields \in Seq(T) /\ Len(fields) = Len(body) + Len(<<last>>)
        /\ Len(body) \in Nat
        /\ \A i \in 1..Len(body) : fields[i] = body[i]
        /\ \A i \in 1..Len(<<last>>) : fields[Len(body) + i] = <<last>>[i]
    BY <1>1, JoinedEntries
  <2> HIDE DEF fields
  <2>3. QED
    BY <1>1, <2>1, <2>2
<1>3. form[2] = fields
  BY DEF Obj
<1> HIDE DEF fields
<1>4. ASSUME NEW f \in EffectNames
      PROVE  Field(form, f) = EffectOf(r)[f]
  <2> DEFINE at(raw) == {i \in DOMAIN raw[2] : raw[2][i][1] = f}
  <2>1. CASE f = "conversationId"
    <3> DEFINE n == Len(body) + 1
    <3>1. n \in at(form) /\ \A j \in at(form) : j <= n
      BY <1>2, <1>3, <2>1
    <3>2. at(form) \subseteq Int
      BY <1>2, <1>3
    <3>3. (CHOOSE i \in at(form) : \A j \in at(form) : j <= i) = n
      BY <3>1, <3>2
    <3>4. Field(form, f) = Rounded(last[2])
      BY <1>2, <1>3, <3>1, <3>3 DEF Field
    <3>5. EffectOf(r)[f] = r.conversationId /\ Type(r.conversationId) = "str"
      BY <2>1, AcceptedFields DEF EffectOf, EffectNames
    <3>6. QED
      BY <3>4, <3>5 DEF Rounded
  <2>2. CASE f # "conversationId"
    <3>1. at(form) = at(r.body)
      BY <1>2, <1>3, <2>2
    <3>2. EffectOf(r)[f] = Field(r.body, f) /\ Field(r.body, f) # Undefined
      <4>1. EffectOf(r)[f] = Field(r.body, f)
        BY <2>2 DEF EffectOf, EffectNames
      <4>2. Type(EffectOf(r)[f]) \in {"str", "num"}
        BY AcceptedFields DEF IsSequence
      <4>3. Type(Undefined) \notin {"str", "num"}
        BY DEF Undefined, Type
      <4>4. QED
        BY <4>1, <4>2, <4>3
    <3>3. at(r.body) # {}
      BY <3>2 DEF Field
    <3> DEFINE n == CHOOSE i \in at(r.body) : \A j \in at(r.body) : j <= i
    <3>4. /\ Field(r.body, f) = Rounded(body[n][2])
          /\ Field(form, f) = Rounded(fields[n][2])
      BY <1>3, <3>1, <3>3 DEF Field
    <3>5. n \in DOMAIN body
      <4>1. at(r.body) \subseteq Nat /\ IsFiniteSet(at(r.body))
        <5>1. IsFiniteSet(1..Len(body)) /\ 1..Len(body) \subseteq Nat
          <6> DEFINE m == Len(body)
          <6>1. m \in Nat
            BY <1>2
          <6> HIDE DEF m
          <6>2. 1 \in Int /\ m \in Int /\ 1..m \subseteq Nat
            BY <6>1
          <6>3. IsFiniteSet(1..m)
            BY <6>2, FS_Interval, Zenon
          <6>4. QED
            BY <6>2, <6>3 DEF m
        <5>2. at(r.body) \subseteq 1..Len(body)
          BY <1>2
        <5> HIDE DEF at
        <5>3. QED
          BY <5>1, <5>2, FS_Subset
      <4>2. \E i \in at(r.body) : \A j \in at(r.body) : i >= j
        BY <3>3, <4>1, Extremes
      <4>3. \E i \in at(r.body) : \A j \in at(r.body) : j <= i
        BY <4>1, <4>2
      <4>4. n \in at(r.body)
        BY <4>3
      <4>5. QED
        BY <4>4
    <3>6. QED
      BY <1>2, <3>2, <3>4, <3>5
  <2>3. QED
    BY <2>1, <2>2
<1>5. QED
  BY <1>4 DEF fields

(* What the panel's form makes of a value that has the type it asks for.   *)
LEMMA TypedAsWritten ==
    ASSUME NEW v
    PROVE  (Type(v) = "str" => AsString(v) = v) /\ (Type(v) = "num" => AsNumber(v) = v)
<1>1. Type(v) = "str" => AsString(v) = v
  BY DEF AsString
<1>2. Type(v) = "num" => AsNumber(v) = v
  <2>1. Str("1")[1] = "str"
    BY DEF Str
  <2>2. Type(v) = "num" => v # Str("1")
    BY <2>1 DEF Type
  <2>3. QED
    BY <2>2 DEF AsNumber
<1>3. QED
  BY <1>1, <1>2

(* fingerprint.ts:9-10 and lab.controller.ts:65.                           *)
THEOREM FingerprintsTellIntents == RequestArrives => FingerprintIffSameIntent
<1> SUFFICES ASSUME RequestArrives, given[1] = "send", Accepts(given[2])
             PROVE  LET r == given[2]
                        form == Obj(r.body[2] \o <<<<"conversationId", r.conversationId>>>>)
                        print == fingerprintOf(EffectOf(r))
                    IN  /\ \A q \in Stored : print = q[1] <=> Intent(r) = q[2]
                        /\ fingerprintOf(LabEffect(form)) = print
  BY DEF FingerprintIffSameIntent
<1> DEFINE r == given[2]
           form == Obj(r.body[2] \o <<<<"conversationId", r.conversationId>>>>)
<1>1. r \in SendRequests
  BY DEF RequestArrives
<1>2. \A q \in Stored : fingerprintOf(EffectOf(r)) = q[1] <=> Intent(r) = q[2]
  BY <1>1, OneFingerprintOneIntent DEF Stored, AcceptedSends
<1>3. LabEffect(form) = EffectOf(r)
  <2>1. \A f \in EffectNames : Field(form, f) = EffectOf(r)[f]
    BY <1>1, FormFields, Zenon
  <2>2. \A f \in EffectNames : /\ f # "clientSequence" => Type(EffectOf(r)[f]) = "str"
                               /\ f = "clientSequence" => IsSequence(EffectOf(r)[f])
    BY <1>1, AcceptedFields
  <2> HIDE DEF form
  <2>3. LabEffect(form) = [f \in EffectNames |-> EffectOf(r)[f]]
    <3>1. LabEffect(form) = [f \in EffectNames |->
                IF f = "clientSequence" THEN AsNumber(Field(form, f)) ELSE AsString(Field(form, f))]
      BY DEF LabEffect, EffectNames
    <3>2. ASSUME NEW f \in EffectNames
          PROVE  (IF f = "clientSequence" THEN AsNumber(Field(form, f)) ELSE AsString(Field(form, f)))
                    = EffectOf(r)[f]
      <4> DEFINE v == EffectOf(r)[f]
      <4>1. /\ Field(form, f) = v
            /\ f # "clientSequence" => Type(v) = "str"
            /\ f = "clientSequence" => Type(v) = "num"
        BY <2>1, <2>2 DEF IsSequence
      <4> HIDE DEF v
      <4>2. f # "clientSequence" => AsString(v) = v
        BY <4>1, TypedAsWritten
      <4>a. f = "clientSequence" => AsNumber(v) = v
        BY <4>1, TypedAsWritten
      <4>3. QED
        BY <4>1, <4>2, <4>a DEF v
    <3>3. QED
      BY <3>1, <3>2
  <2>4. EffectOf(r) = [f \in EffectNames |-> EffectOf(r)[f]]
    BY DEF EffectOf, EffectNames
  <2>5. QED
    BY <2>3, <2>4
<1>4. QED
  BY <1>2, <1>3
=============================================================================
