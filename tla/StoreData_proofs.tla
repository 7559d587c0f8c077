-------------------------- MODULE StoreData_proofs --------------------------
(***************************************************************************)
(* Proofs about the tools that read and create a store's records:          *)
(* TaskCreation, when INSERTs wait for one another; McpScope, for any      *)
(* period, lifetime, margin and clock error that McpAssumption allows;     *)
(* PickupQueue, for any orders, promises and pick time; and StoreQuery,    *)
(* for any table, query and page sizes.                                    *)
(***************************************************************************)
EXTENDS TaskCreation, McpScope, PickupQueue, StoreQuery, Induction

(* ----------------------------- TaskCreation ----------------------------- *)

\* The snapshot of a running statement is still true when it ends.
SnapshotInv ==
  \A c \in Calls : Running(c) =>
    /\ \A d \in Calls : Running(d) => d = c
    /\ statement[c] = "absent" => rows[want[c]] = 0
    /\ statement[c] = "present" => rows[want[c]] > 0

\* The one call that inserted the row has not been told so yet, or has been.
InsertedInv ==
  \A c \in Calls : stage[c] = "inserted" =>
    /\ rows[want[c]] > 0
    /\ created[want[c]] = 0
    /\ \A d \in Calls : stage[d] = "inserted" /\ want[d] = want[c] => d = c

FoundInv ==
  \A c \in Calls :
    stage[c] = "found" \/ reply[c] = "already_created" =>
      want[c] \in Writes /\ rows[want[c]] > 0

CreationInv ==
  /\ TypeOK
  /\ SnapshotInv
  /\ InsertedInv
  /\ FoundInv
  /\ \A w \in Writes : rows[w] <= 1 /\ created[w] <= rows[w]

LEMMA CountOnce ==
  /\ Capped(0) = 1
  /\ \A n \in 0..MaxRows : Capped(n) \in 0..MaxRows /\ Capped(n) >= n
BY CreationAssumption DEF Capped

LEMMA InitCreation == Init => CreationInv
BY CreationAssumption
   DEF Init, CreationInv, TypeOK, SnapshotInv, InsertedInv, FoundInv, Running

\* Submitting a statement, or hearing nothing of it, touches no row.
LEMMA ApproveStep ==
  ASSUME CreationInv, NEW c \in Calls, NEW w \in Writes, Approve(c, w)
  PROVE  CreationInv'
<1> USE DEF CreationInv
<1>1. TypeOK'
  BY CreationAssumption DEF Approve, TypeOK
<1>2. SnapshotInv'
  BY DEF Approve, TypeOK, SnapshotInv, Running
<1>3. InsertedInv'
  BY DEF Approve, TypeOK, InsertedInv
<1>4. FoundInv'
  BY DEF Approve, TypeOK, FoundInv
<1> QED
  BY <1>1, <1>2, <1>3, <1>4 DEF Approve

LEMMA StartStep ==
  ASSUME SerialInserts, CreationInv, NEW c \in Calls, StartInsert(c)
  PROVE  CreationInv'
<1> USE DEF CreationInv
<1>1. want[c] \in Writes /\ rows[want[c]] \in Nat
  BY CreationAssumption DEF StartInsert, TypeOK
<1>2. TypeOK'
  BY DEF StartInsert, Snapshot, TypeOK
<1>3. SnapshotInv'
  BY <1>1 DEF StartInsert, Snapshot, TypeOK, SnapshotInv, Running
<1>4. InsertedInv' /\ FoundInv'
  BY DEF StartInsert, InsertedInv, FoundInv
<1> QED
  BY <1>2, <1>3, <1>4 DEF StartInsert

\* The row appears at most once, and the call that inserted it is the only one.
LEMMA EndStep ==
  ASSUME CreationInv, NEW c \in Calls, EndInsert(c)
  PROVE  CreationInv'
<1> USE DEF CreationInv
<1>1. /\ want[c] \in Writes
      /\ rows \in [Writes -> 0..MaxRows]
      /\ statement[c] \in {"absent", "present"}
  BY CreationAssumption DEF EndInsert, Running, TypeOK
<1>2. rows[want[c]] = IF statement[c] = "absent" THEN 0 ELSE 1
  BY <1>1, CreationAssumption DEF EndInsert, SnapshotInv
<1>3. \A w \in Writes : rows'[w] = IF w = want[c] THEN 1 ELSE rows[w]
  BY <1>1, <1>2, CountOnce DEF EndInsert
<1>4. TypeOK'
  BY <1>1, CountOnce DEF EndInsert, Wake, Running, TypeOK
<1>5. SnapshotInv'
  <2>1. \A d \in Calls : Running(d) => d = c
    BY DEF EndInsert, SnapshotInv
  <2>2. \A d \in Calls : ~Running(d)'
    BY <2>1 DEF EndInsert, Running, TypeOK
  <2> QED
    BY <2>2 DEF SnapshotInv
<1>6. ASSUME NEW d \in Calls, want[d] \in Writes, rows[want[d]] > 0
      PROVE  rows'[want'[d]] > 0
  BY <1>3, <1>6 DEF EndInsert
<1>7. InsertedInv'
  <2>1. CASE stage'[c] = "inserted" /\ stage[c] # "inserted"
    <3>1. rows[want[c]] = 0 /\ created[want[c]] = 0 /\ rows'[want[c]] > 0
      BY <1>1, <1>2, <1>3, <2>1 DEF EndInsert, Wake, TypeOK
    <3>2. \A d \in Calls : stage[d] = "inserted" => want[d] # want[c]
      BY <3>1 DEF InsertedInv, TypeOK
    <3>3. \A d \in Calls \ {c} : stage'[d] = stage[d]
      BY DEF EndInsert, Wake, TypeOK
    <3> QED
      BY <1>6, <3>1, <3>2, <3>3 DEF EndInsert, InsertedInv, TypeOK
  <2>2. CASE ~(stage'[c] = "inserted" /\ stage[c] # "inserted")
    <3>1. \A d \in Calls : stage'[d] = "inserted" => stage[d] = "inserted"
      BY <2>2 DEF EndInsert, Wake, TypeOK
    <3>2. \A d \in Calls : stage[d] = "inserted" => want[d] \in Writes
      BY DEF TypeOK
    <3> QED
      BY <1>6, <3>1, <3>2 DEF EndInsert, InsertedInv
  <2> QED
    BY <2>1, <2>2
<1>8. FoundInv'
  <2>1. ASSUME NEW d \in Calls, stage'[d] = "found" \/ reply'[d] = "already_created"
        PROVE  want'[d] \in Writes /\ rows'[want'[d]] > 0
    <3>1. CASE d = c /\ stage[c] = "inserting"
      BY <1>1, <1>3, <3>1 DEF EndInsert
    <3>2. CASE ~(d = c /\ stage[c] = "inserting")
      <4>1. stage[d] = "found" \/ reply[d] = "already_created"
        BY <2>1, <3>2 DEF EndInsert, Wake, TypeOK
      <4>2. want[d] \in Writes /\ rows[want[d]] > 0
        BY <4>1 DEF FoundInv
      <4> QED
        BY <1>6, <4>2 DEF EndInsert
    <3> QED
      BY <3>1, <3>2
  <2> QED
    BY <2>1 DEF FoundInv
<1>9. \A w \in Writes : rows'[w] <= 1 /\ created'[w] <= rows'[w]
  BY <1>1, <1>3 DEF EndInsert, TypeOK
<1> QED
  BY <1>4, <1>5, <1>7, <1>8, <1>9

LEMMA QuietStep ==
  ASSUME CreationInv, NEW c \in Calls, InsertFails(c) \/ TimeOut(c)
  PROVE  CreationInv'
<1> USE DEF CreationInv
<1>1. TypeOK'
  BY DEF InsertFails, TimeOut, Wake, TypeOK
<1>2. SnapshotInv'
  BY DEF InsertFails, TimeOut, TypeOK, SnapshotInv, Running
<1>3. InsertedInv' /\ FoundInv'
  BY DEF InsertFails, TimeOut, Wake, TypeOK, InsertedInv, FoundInv
<1> QED
  BY <1>1, <1>2, <1>3 DEF InsertFails, TimeOut

\* The call that inserted the row is told so once.
LEMMA ReadStep ==
  ASSUME CreationInv, NEW c \in Calls, ReadBack(c)
  PROVE  CreationInv'
<1> USE DEF CreationInv
<1>1. want[c] \in Writes /\ rows[want[c]] > 0 /\ created \in [Writes -> 0..MaxRows]
  BY DEF ReadBack, TypeOK, InsertedInv, FoundInv
<1>2. \/ UNCHANGED created
      \/ /\ stage[c] = "inserted"
         /\ created' = [created EXCEPT ![want[c]] = 1]
  BY <1>1, CountOnce DEF ReadBack, InsertedInv
<1>3. TypeOK'
  BY <1>1, <1>2, CreationAssumption DEF ReadBack, TypeOK
<1>4. SnapshotInv'
  BY DEF ReadBack, SnapshotInv, Running
<1>5. InsertedInv'
  BY <1>1, <1>2 DEF ReadBack, InsertedInv, TypeOK
<1>6. FoundInv'
  BY <1>1 DEF ReadBack, FoundInv, TypeOK
<1>7. \A w \in Writes : rows'[w] <= 1 /\ created'[w] <= rows'[w]
  BY <1>1, <1>2 DEF ReadBack, TypeOK
<1> QED
  BY <1>3, <1>4, <1>5, <1>6, <1>7

LEMMA NextCreation ==
  ASSUME SerialInserts
  PROVE  CreationInv /\ [Next]_vars => CreationInv'
<1> SUFFICES ASSUME CreationInv, [Next]_vars PROVE CreationInv'
  OBVIOUS
<1>1. ASSUME NEW c \in Calls, NEW w \in Writes, Approve(c, w)
      PROVE  CreationInv'
  BY <1>1, ApproveStep
<1>2. ASSUME NEW c \in Calls,
             StartInsert(c) \/ EndInsert(c) \/ InsertFails(c) \/ TimeOut(c) \/ ReadBack(c)
      PROVE  CreationInv'
  BY <1>2, StartStep, EndStep, QuietStep, ReadStep
<1>3. CASE UNCHANGED vars
  BY <1>3 DEF vars, CreationInv, TypeOK, SnapshotInv, InsertedInv, FoundInv, Running
<1> QED
  BY <1>1, <1>2, <1>3 DEF Next

\* What relates rows, statements and answers in every state.
THEOREM CreationInvariance ==
  ASSUME SerialInserts
  PROVE  Spec => []CreationInv
BY InitCreation, NextCreation, PTL DEF Spec

\* "A retry inserts nothing and reads the original row", as long as INSERTs do
\* not overlap.
THEOREM RowIsUnique ==
  ASSUME SerialInserts
  PROVE  Spec => []OneRowPerKey
<1>1. CreationInv => OneRowPerKey
  BY DEF CreationInv, OneRowPerKey
<1> QED
  BY <1>1, CreationInvariance, PTL

\* One call is told that it created the task, and every other answer is true.
THEOREM AnswersAgree ==
  ASSUME SerialInserts
  PROVE  Spec => []AnsweredOnce
<1>1. CreationInv => AnsweredOnce
  BY CreationAssumption DEF CreationInv, FoundInv, AnsweredOnce, TypeOK
<1> QED
  BY <1>1, CreationInvariance, PTL

\* The statements that saw no row of w and will insert one.
Inserting(w) == {c \in Calls : statement[c] = "absent" /\ want[c] = w}

\* No task gets more rows than there are calls.
NoMoreRowsThanCalls == \A w \in Writes : rows[w] <= Cardinality(Calls)

\* Once a task has a row, the rows to come are those of statements that began before.
OverlapInv ==
  /\ TypeOK
  /\ \A w \in Writes : rows[w] > 0 => rows[w] + Cardinality(Inserting(w)) <= Cardinality(Calls)

\* The statements at work are finitely many, and no more than the calls.
LEMMA InsertingFinite ==
  ASSUME IsFiniteSet(Calls), NEW w
  PROVE  /\ IsFiniteSet(Inserting(w)) /\ Cardinality(Inserting(w)) \in Nat
         /\ Cardinality(Calls) \in Nat /\ Cardinality(Inserting(w)) <= Cardinality(Calls)
<1>1. Inserting(w) \in SUBSET Calls
  BY DEF Inserting
<1> QED
  BY <1>1, FS_Subset, FS_CardinalityType

\* A step that inserts nothing, and lets nobody see an empty table that is not.
LEMMA NoRowStep ==
  ASSUME IsFiniteSet(Calls), OverlapInv, TypeOK', rows' = rows,
         \A w \in Writes : rows[w] > 0 => Inserting(w)' \subseteq Inserting(w)
  PROVE  OverlapInv'
<1> SUFFICES ASSUME NEW w \in Writes, rows[w] > 0
             PROVE  rows[w] + Cardinality(Inserting(w)') <= Cardinality(Calls)
  BY DEF OverlapInv
<1>1. PICK A, B : A = Inserting(w) /\ B = Inserting(w)'
  OBVIOUS
<1>2. IsFiniteSet(A) /\ Cardinality(A) \in Nat /\ B \in SUBSET A /\ Cardinality(Calls) \in Nat
  BY <1>1, InsertingFinite
<1>3. Cardinality(B) <= Cardinality(A) /\ Cardinality(B) \in Nat
  BY <1>2, FS_Subset, FS_CardinalityType
<1>4. rows[w] + Cardinality(A) <= Cardinality(Calls) /\ rows[w] \in Nat
  BY <1>1 DEF OverlapInv, TypeOK
<1> QED
  BY <1>1, <1>2, <1>3, <1>4

\* A statement that ends takes itself off those that will insert.
LEMMA InsertStep ==
  ASSUME IsFiniteSet(Calls), OverlapInv, NEW c \in Calls, EndInsert(c)
  PROVE  OverlapInv'
<1>1. TypeOK /\ want' = want /\ want[c] \in Writes /\ statement[c] \in {"absent", "present"}
  BY CreationAssumption DEF OverlapInv, TypeOK, EndInsert, Running
<1>2. TypeOK'
  BY <1>1, CountOnce DEF EndInsert, Wake, TypeOK
<1>3. statement' = [statement EXCEPT ![c] = "none"]
  BY DEF EndInsert
<1>4. CASE statement[c] = "present"
  <2>1. rows' = rows
    BY <1>1, <1>4 DEF EndInsert, TypeOK
  <2>2. \A w \in Writes : Inserting(w)' \subseteq Inserting(w)
    BY <1>1, <1>3 DEF Inserting, TypeOK
  <2> QED
    BY <1>2, <2>1, <2>2, NoRowStep
<1>5. CASE statement[c] = "absent"
  <2> SUFFICES ASSUME NEW w \in Writes
               PROVE  rows'[w] + Cardinality(Inserting(w)') <= Cardinality(Calls) \/ rows'[w] = 0
    BY <1>2 DEF OverlapInv, TypeOK
  <2>1. PICK A, B, n : A = Inserting(w) /\ B = Inserting(w)' /\ n = Cardinality(Calls)
    OBVIOUS
  <2>2. IsFiniteSet(A) /\ Cardinality(A) \in Nat /\ n \in Nat /\ Cardinality(A) <= n
    BY <2>1, InsertingFinite
  <2>3. rows[w] \in Nat /\ (rows[w] > 0 => rows[w] + Cardinality(A) <= n)
    BY <1>1, <2>1 DEF OverlapInv, TypeOK
  <2>4. CASE w = want[c]
    <3>1. c \in A /\ B = A \ {c}
      BY <1>1, <1>3, <1>5, <2>1, <2>4 DEF Inserting, TypeOK
    <3>2. Cardinality(B) = Cardinality(A) - 1
      BY <2>2, <3>1, FS_RemoveElement
    <3>3. rows'[w] \in Nat /\ rows'[w] <= rows[w] + 1
      BY <1>1, <1>5, <2>4, CreationAssumption DEF EndInsert, Capped, TypeOK
    <3> QED
      BY <2>1, <2>2, <2>3, <3>2, <3>3
  <2>5. CASE w # want[c]
    <3>1. B = A
      BY <1>1, <1>3, <2>1, <2>5 DEF Inserting, TypeOK
    <3>2. rows'[w] = rows[w]
      BY <1>1, <2>5 DEF EndInsert, TypeOK
    <3> QED
      BY <2>1, <2>2, <2>3, <3>1, <3>2
  <2> QED
    BY <2>4, <2>5
<1> QED
  BY <1>1, <1>4, <1>5

\* Even when INSERTs overlap, as task_creation_overlap shows they may, repeats and
\* timeouts give a task at most one row for each call that asks for it at a time:
\* who begins after the first row is there inserts nothing.
THEOREM OverlapIsBounded ==
  ASSUME IsFiniteSet(Calls)
  PROVE  Spec => []NoMoreRowsThanCalls
<1>1. Init => OverlapInv
  BY CreationAssumption DEF Init, OverlapInv, TypeOK
<1>2. OverlapInv /\ [Next]_vars => OverlapInv'
  <2> SUFFICES ASSUME OverlapInv, [Next]_vars
               PROVE  OverlapInv'
    OBVIOUS
  <2>1. TypeOK
    BY DEF OverlapInv
  <2>2. ASSUME NEW c \in Calls, NEW w \in Writes, Approve(c, w)
        PROVE  OverlapInv'
    <3>1. TypeOK' /\ rows' = rows
      BY <2>1, <2>2, CreationAssumption DEF Approve, TypeOK
    <3>2. \A v \in Writes : Inserting(v)' \subseteq Inserting(v)
      BY <2>1, <2>2 DEF Approve, TypeOK, Inserting
    <3> QED
      BY <3>1, <3>2, NoRowStep
  <2>3. ASSUME NEW c \in Calls, StartInsert(c)
        PROVE  OverlapInv'
    <3>1. TypeOK' /\ rows' = rows
      BY <2>1, <2>3 DEF StartInsert, Snapshot, TypeOK
    <3>2. \A v \in Writes : rows[v] > 0 => Inserting(v)' \subseteq Inserting(v)
      BY <2>1, <2>3 DEF StartInsert, Snapshot, TypeOK, Inserting
    <3> QED
      BY <3>1, <3>2, NoRowStep
  <2>4. ASSUME NEW c \in Calls, InsertFails(c)
        PROVE  OverlapInv'
    <3>1. TypeOK' /\ rows' = rows
      BY <2>1, <2>4 DEF InsertFails, Wake, TypeOK
    <3>2. \A v \in Writes : Inserting(v)' \subseteq Inserting(v)
      BY <2>1, <2>4 DEF InsertFails, TypeOK, Inserting
    <3> QED
      BY <3>1, <3>2, NoRowStep
  <2>5. ASSUME NEW c \in Calls, TimeOut(c) \/ ReadBack(c)
        PROVE  OverlapInv'
    <3>1. rows' = rows /\ want' = want /\ statement' = statement
      BY <2>5 DEF TimeOut, ReadBack
    <3>2. TypeOK'
      <4>1. CASE TimeOut(c)
        BY <2>1, <4>1 DEF TimeOut, TypeOK
      <4>2. CASE ReadBack(c)
        BY <2>1, <4>2, CountOnce, CreationAssumption DEF ReadBack, TypeOK
      <4> QED
        BY <2>5, <4>1, <4>2
    <3>3. \A v \in Writes : Inserting(v)' \subseteq Inserting(v)
      BY <3>1 DEF Inserting
    <3> QED
      BY <3>1, <3>2, <3>3, NoRowStep
  <2>6. CASE UNCHANGED vars
    <3>1. TypeOK' /\ rows' = rows
      BY <2>1, <2>6 DEF TypeOK, vars
    <3>2. \A v \in Writes : Inserting(v)' \subseteq Inserting(v)
      BY <2>6 DEF Inserting, vars
    <3> QED
      BY <3>1, <3>2, NoRowStep
  <2> QED
    BY <2>2, <2>3, <2>4, <2>5, <2>6, InsertStep DEF Next
<1>3. OverlapInv => NoMoreRowsThanCalls
  <2> SUFFICES ASSUME OverlapInv, NEW w \in Writes
               PROVE  rows[w] <= Cardinality(Calls)
    BY DEF NoMoreRowsThanCalls
  <2>1. PICK a, n : a = Cardinality(Inserting(w)) /\ n = Cardinality(Calls)
    OBVIOUS
  <2>2. a \in Nat /\ n \in Nat
    BY <2>1, InsertingFinite
  <2>3. rows[w] \in Nat /\ (rows[w] > 0 => rows[w] + a <= n)
    BY <2>1 DEF OverlapInv, TypeOK
  <2> QED
    BY <2>1, <2>2, <2>3
<1> QED
  BY <1>1, <1>2, <1>3, PTL DEF Spec

(* ------------------------------- McpScope ------------------------------- *)

CallRecord ==
  [stage : {"idle", "scoped", "refreshing", "sent", "answered"},
   asked : Nat, issued : Int, token : Nat, at : Nat, accepted : BOOLEAN]

McpTypeOK == clock \in Nat /\ expiry \in Nat /\ mcp \in [McpCalls -> CallRecord]

\* The scope was issued in the period in which the call began.
IssuedInv(c) ==
  mcp[c].stage # "idle" =>
    /\ mcp[c].issued <= mcp[c].asked
    /\ mcp[c].asked < mcp[c].issued + Period
    /\ mcp[c].asked <= clock

\* The token outlives the call's begin by the margin, however long it was waited for.
TokenInv(c) ==
  mcp[c].stage \in {"sent", "answered"} => mcp[c].token > mcp[c].asked + Margin

AnswerInv(c) ==
  mcp[c].stage = "answered" =>
    LET delay == mcp[c].at - mcp[c].asked
    IN /\ /\ delay <= Lifetime - Period - Skew
          /\ TokenIssued(c) + Skew <= mcp[c].at
          => mcp[c].accepted
       /\ delay >= Lifetime + Skew => ~mcp[c].accepted

\* Whoever refreshes the token does so alone, and with reason.
RefreshInv ==
  \A c \in McpCalls : mcp[c].stage = "refreshing" =>
    /\ expiry <= clock + Margin
    /\ \A d \in McpCalls : mcp[d].stage = "refreshing" => d = c

McpInv ==
  /\ McpTypeOK
  /\ \A c \in McpCalls : IssuedInv(c) /\ TokenInv(c) /\ AnswerInv(c)
  /\ RefreshInv

\* The constants are natural numbers.
LEMMA Numbers ==
  /\ Period \in Nat /\ Lifetime \in Nat /\ Early \in Nat /\ Margin \in Nat
  /\ TokenLife \in Nat /\ Skew \in Nat /\ MaxTime \in Nat
BY McpAssumption

\* Rounding down to the period loses less than a period.
LEMMA Rounding ==
  ASSUME NEW n \in Nat
  PROVE  /\ n - (n % Period) \in Int
         /\ n - (n % Period) <= n
         /\ n < n - (n % Period) + Period
<1>1. n % Period \in 0 .. Period - 1
  BY Numbers, McpAssumption
<1> QED
  BY <1>1, Numbers

LEMMA InitMcp == McpInit => McpInv
BY Numbers DEF McpInit, McpInv, McpTypeOK, CallRecord, Unused, IssuedInv, TokenInv, AnswerInv, RefreshInv

\* The invariant of a call depends on its own record and the clock.
LEMMA CallUnchanged ==
  ASSUME NEW c \in McpCalls, McpTypeOK, IssuedInv(c) /\ TokenInv(c) /\ AnswerInv(c),
         mcp'[c] = mcp[c], clock' \in Nat, clock' >= clock
  PROVE  (IssuedInv(c) /\ TokenInv(c) /\ AnswerInv(c))'
<1>1. mcp[c].asked \in Nat
  BY DEF McpTypeOK, CallRecord
<1> QED
  BY <1>1, Numbers DEF McpTypeOK, CallRecord, IssuedInv, TokenInv, AnswerInv, TokenIssued

LEMMA ScopeStep ==
  ASSUME McpInv, NEW c \in McpCalls, MakeScope(c)
  PROVE  McpInv'
<1> USE DEF McpInv
<1>1. McpTypeOK'
  BY Rounding DEF MakeScope, McpTypeOK, CallRecord, Unused
<1>2. (IssuedInv(c) /\ TokenInv(c) /\ AnswerInv(c))'
  BY Rounding, Numbers DEF MakeScope, McpTypeOK, CallRecord, Unused, IssuedInv, TokenInv, AnswerInv
<1>3. ASSUME NEW d \in McpCalls, d # c
      PROVE  (IssuedInv(d) /\ TokenInv(d) /\ AnswerInv(d))'
  <2>1. mcp'[d] = mcp[d] /\ clock' = clock
    BY <1>3 DEF MakeScope, McpTypeOK, CallRecord
  <2> QED
    BY <2>1, CallUnchanged DEF McpTypeOK, CallRecord
<1>4. RefreshInv'
  BY DEF MakeScope, McpTypeOK, CallRecord, Unused, RefreshInv
<1> QED
  BY <1>1, <1>2, <1>3, <1>4

LEMMA TokenStep ==
  ASSUME McpInv, NEW c \in McpCalls, UseToken(c) \/ StartRefresh(c)
  PROVE  McpInv'
<1> USE DEF McpInv
<1>1. McpTypeOK'
  BY DEF UseToken, StartRefresh, McpTypeOK, CallRecord
<1>2. (IssuedInv(c) /\ TokenInv(c) /\ AnswerInv(c))'
  <2>1. mcp[c].asked \in Nat /\ mcp[c].issued \in Int
    BY DEF McpTypeOK, CallRecord
  <2> QED
    BY <2>1, Numbers DEF UseToken, StartRefresh, RefreshDue, McpTypeOK, CallRecord, IssuedInv, TokenInv, AnswerInv
<1>3. ASSUME NEW d \in McpCalls, d # c
      PROVE  (IssuedInv(d) /\ TokenInv(d) /\ AnswerInv(d))'
  <2>1. mcp'[d] = mcp[d] /\ clock' = clock
    BY <1>3 DEF UseToken, StartRefresh, McpTypeOK, CallRecord
  <2> QED
    BY <2>1, CallUnchanged DEF McpTypeOK, CallRecord
<1>4. RefreshInv'
  BY DEF UseToken, StartRefresh, LockFree, RefreshDue, McpTypeOK, CallRecord, RefreshInv
<1> QED
  BY <1>1, <1>2, <1>3, <1>4

LEMMA CallEndStep ==
  ASSUME McpInv, NEW c \in McpCalls, EndRefresh(c) \/ RefreshFails(c) \/ NextCall(c)
  PROVE  McpInv'
<1> USE DEF McpInv
<1>1. McpTypeOK'
  <2>1. Unused \in CallRecord
    BY DEF Unused, CallRecord
  <2>2. CASE EndRefresh(c)
    <3>0. PICK iat \in clock - Skew .. clock + Skew :
            /\ expiry' = iat + TokenLife
            /\ mcp' = [mcp EXCEPT ![c].stage = "sent", ![c].token = iat + TokenLife]
      BY <2>2 DEF EndRefresh
    <3> DEFINE fresh == iat + TokenLife
    <3>1. fresh \in Nat /\ mcp[c] \in CallRecord
      BY Numbers, McpAssumption DEF McpTypeOK
    <3>2. /\ expiry' = fresh /\ clock' = clock
          /\ mcp' = [mcp EXCEPT ![c] = [mcp[c] EXCEPT !.stage = "sent", !.token = fresh]]
      BY <2>2, <3>0 DEF EndRefresh
    <3> HIDE DEF fresh
    <3>3. [mcp[c] EXCEPT !.stage = "sent", !.token = fresh] \in CallRecord
      BY <3>1 DEF CallRecord
    <3> QED
      BY <3>1, <3>2, <3>3 DEF McpTypeOK
  <2>3. CASE RefreshFails(c) \/ NextCall(c)
    BY <2>1, <2>3 DEF RefreshFails, NextCall, McpTypeOK
  <2> QED
    BY <2>2, <2>3
<1>2. (IssuedInv(c) /\ TokenInv(c) /\ AnswerInv(c))'
  <2>1. mcp[c].asked \in Nat /\ mcp[c].issued \in Int
    BY DEF McpTypeOK, CallRecord
  <2>2. CASE EndRefresh(c)
    <3>1. PICK iat \in clock - Skew .. clock + Skew :
            mcp' = [mcp EXCEPT ![c].stage = "sent", ![c].token = iat + TokenLife]
      BY <2>2 DEF EndRefresh
    <3>2. /\ mcp[c] \in CallRecord /\ clock \in Nat /\ clock' = clock
          /\ mcp[c].asked <= clock /\ mcp[c].asked < mcp[c].issued + Period
          /\ mcp[c].issued <= mcp[c].asked
      BY <2>2 DEF EndRefresh, McpTypeOK, IssuedInv
    <3>3. mcp'[c] = [mcp[c] EXCEPT !.stage = "sent", !.token = iat + TokenLife]
      BY <3>1 DEF McpTypeOK
    <3>4. /\ mcp'[c].stage = "sent" /\ mcp'[c].token = iat + TokenLife
          /\ mcp'[c].asked = mcp[c].asked /\ mcp'[c].issued = mcp[c].issued
      BY <3>2, <3>3 DEF CallRecord
    <3>5. mcp[c].asked + Margin < iat + TokenLife
      BY <2>1, <3>2, Numbers, McpAssumption
    <3> QED
      BY <3>2, <3>4, <3>5 DEF IssuedInv, TokenInv, AnswerInv
  <2>3. CASE RefreshFails(c) \/ NextCall(c)
    BY <2>3 DEF RefreshFails, NextCall, McpTypeOK, CallRecord, Unused, IssuedInv, TokenInv, AnswerInv
  <2> QED
    BY <2>2, <2>3
<1>3. ASSUME NEW d \in McpCalls, d # c
      PROVE  (IssuedInv(d) /\ TokenInv(d) /\ AnswerInv(d))'
  <2>1. mcp'[d] = mcp[d] /\ clock' = clock
    BY <1>3 DEF EndRefresh, RefreshFails, NextCall, McpTypeOK, CallRecord
  <2> QED
    BY <2>1, CallUnchanged DEF McpTypeOK, CallRecord
<1>4. RefreshInv'
  BY DEF EndRefresh, RefreshFails, NextCall, McpTypeOK, CallRecord, Unused, RefreshInv
<1> QED
  BY <1>1, <1>2, <1>3, <1>4

\* The answer of the service, by its own clock.
LEMMA VerifyStep ==
  ASSUME McpInv, NEW c \in McpCalls, Verify(c)
  PROVE  McpInv'
<1> USE DEF McpInv
<1>1. PICK now \in clock - Skew .. clock + Skew :
        mcp' = [mcp EXCEPT ![c].stage = "answered", ![c].at = clock,
                  ![c].accepted = TokenValid(c, now) /\ InWindow(mcp[c].issued, now)]
  BY DEF Verify
<1>2. McpTypeOK'
  <2>1. PICK ok \in BOOLEAN :
          mcp' = [mcp EXCEPT ![c].stage = "answered", ![c].at = clock, ![c].accepted = ok]
    BY <1>1, Zenon
  <2>2. [mcp[c] EXCEPT !.stage = "answered", !.at = clock, !.accepted = ok] \in CallRecord
    BY DEF McpTypeOK, CallRecord
  <2>3. mcp' = [mcp EXCEPT ![c] = [mcp[c] EXCEPT !.stage = "answered", !.at = clock, !.accepted = ok]]
    BY <2>1
  <2> QED
    BY <2>2, <2>3 DEF Verify, McpTypeOK
<1>3. (IssuedInv(c) /\ TokenInv(c) /\ AnswerInv(c))'
  <2> DEFINE call == mcp[c]
             ok == TokenValid(c, now) /\ InWindow(call.issued, now)
  <2>1. /\ call.asked \in Nat /\ call.issued \in Int /\ call.token \in Nat /\ clock \in Nat
        /\ now \in Int /\ now >= clock - Skew /\ now <= clock + Skew
    BY Numbers DEF McpTypeOK, CallRecord
  <2>2. /\ call.issued <= call.asked /\ call.asked < call.issued + Period /\ call.asked <= clock
        /\ call.token > call.asked + Margin
    BY DEF Verify, IssuedInv, TokenInv
  <2>3. clock - call.asked <= Lifetime - Period - Skew /\ TokenIssued(c) + Skew <= clock => ok
    BY <2>1, <2>2, Numbers, McpAssumption DEF InWindow, TokenValid, TokenIssued
  <2>4. clock - call.asked >= Lifetime + Skew => ~ok
    BY <2>1, <2>2, Numbers DEF InWindow, TokenValid
  <2>5. /\ mcp'[c] = [call EXCEPT !.stage = "answered", !.at = clock, !.accepted = ok]
        /\ clock' = clock
    BY <1>1 DEF Verify, McpTypeOK, CallRecord
  <2>6. mcp'[c].accepted = ok /\ mcp'[c].at = clock /\ mcp'[c].asked = call.asked
        /\ mcp'[c].issued = call.issued /\ mcp'[c].token = call.token
    BY <2>5 DEF McpTypeOK, CallRecord
  <2>7. TokenIssued(c)' = TokenIssued(c)
    BY <2>6 DEF TokenIssued
  <2> HIDE DEF ok, call
  <2> QED
    BY <2>2, <2>3, <2>4, <2>5, <2>6, <2>7 DEF IssuedInv, TokenInv, AnswerInv
<1>4. ASSUME NEW d \in McpCalls, d # c
      PROVE  (IssuedInv(d) /\ TokenInv(d) /\ AnswerInv(d))'
  <2>1. mcp'[d] = mcp[d] /\ clock' = clock
    BY <1>1, <1>4 DEF Verify, McpTypeOK, CallRecord
  <2> QED
    BY <2>1, CallUnchanged DEF McpTypeOK, CallRecord
<1>5. RefreshInv'
  BY <1>1 DEF Verify, McpTypeOK, CallRecord, RefreshInv
<1> QED
  BY <1>2, <1>3, <1>4, <1>5

LEMMA TickStep ==
  ASSUME McpInv, TickClock
  PROVE  McpInv'
<1> USE DEF McpInv
<1>1. McpTypeOK'
  BY DEF TickClock, McpTypeOK, CallRecord
<1>2. ASSUME NEW d \in McpCalls
      PROVE  (IssuedInv(d) /\ TokenInv(d) /\ AnswerInv(d))'
  <2>1. mcp'[d] = mcp[d] /\ clock' \in Nat /\ clock' >= clock
    BY DEF TickClock, McpTypeOK, CallRecord
  <2> QED
    BY <2>1, CallUnchanged
<1>3. RefreshInv'
  BY Numbers DEF TickClock, McpTypeOK, CallRecord, RefreshInv
<1> QED
  BY <1>1, <1>2, <1>3

LEMMA NextMcp == McpInv /\ [McpNext]_mcpVars => McpInv'
<1> SUFFICES ASSUME McpInv, [McpNext]_mcpVars PROVE McpInv'
  OBVIOUS
<1>1. CASE TickClock
  BY <1>1, TickStep
<1>2. ASSUME NEW c \in McpCalls,
             MakeScope(c) \/ UseToken(c) \/ StartRefresh(c) \/ EndRefresh(c)
               \/ RefreshFails(c) \/ Verify(c) \/ NextCall(c)
      PROVE  McpInv'
  BY <1>2, ScopeStep, TokenStep, CallEndStep, VerifyStep
<1>3. CASE UNCHANGED mcpVars
  BY <1>3 DEF mcpVars, McpInv, McpTypeOK, CallRecord, IssuedInv, TokenInv, AnswerInv, TokenIssued, RefreshInv
<1> QED
  BY <1>1, <1>2, <1>3 DEF McpNext

\* What holds of calls, token and clock in every state.
THEOREM McpInvariance == McpSpec => []McpInv
BY InitMcp, NextMcp, PTL DEF McpSpec

\* Headers that arrive within their window, with a token that is not issued in the
\* verifier's future, are accepted and those that are too old are not, whatever
\* the clocks and the waiting for a token do.
THEOREM ScopeAccepted == McpSpec => []ScopeWindow
<1>1. McpInv => ScopeWindow
  BY DEF McpInv, AnswerInv, ScopeWindow
<1> QED
  BY <1>1, McpInvariance, PTL

\* A token is replaced only when it is about to expire.
THEOREM TokenIsCached == McpSpec => RefreshOnlyWhenDue
<1>1. McpInv /\ [McpNext]_mcpVars => [expiry' # expiry => expiry <= clock + Margin]_mcpVars
  BY DEF McpInv, RefreshInv, McpNext, mcpVars, TickClock, MakeScope, UseToken, StartRefresh,
         EndRefresh, RefreshFails, Verify, NextCall
<1> QED
  BY <1>1, McpInvariance, PTL DEF McpSpec, RefreshOnlyWhenDue

(* ----------------------------- PickupQueue ------------------------------ *)

\* The sequence has every order once, those with the earlier promise first.
LEMMA OrderedIs ==
  ASSUME QueueAssumption, NEW found \in SUBSET Orders, promised \in [Orders -> Promises]
  PROVE  LET s == Ordered(found)
             n == Cardinality(found)
         IN /\ IsFiniteSet(found) /\ n \in Nat
            /\ s \in [1 .. n -> found]
            /\ \A i, j \in 1 .. n : s[i] = s[j] => i = j
            /\ \A o \in found : \E i \in 1 .. n : s[i] = o
            /\ \A i, j \in 1 .. n : i < j => promised[s[i]] <= promised[s[j]]
<1> DEFINE n == Cardinality(found)
           s == Ordered(found)
           R == {r \in found \X found : Earlier(r[1], r[2])}
<1>1. IsFiniteSet(found) /\ n \in Nat
  BY FS_Subset, FS_CardinalityType DEF QueueAssumption
<1>2. \A o \in found : o \in Nat /\ promised[o] \in Nat
  BY DEF QueueAssumption
<1>3. \A o, p \in found : <<o, p>> \in R <=> Earlier(o, p)
  OBVIOUS
<1> HIDE DEF R
<1>4. IsOrder(R, found)
  BY <1>2, <1>3 DEF IsOrder, Earlier
<1>5. PICK f \in Bijection(1 .. n, found) : \A i, j \in 1 .. n : i < j => <<f[i], f[j]>> \in R
  BY <1>1, <1>4, SortedEnumeration
<1>6. f \in [1 .. n -> found] /\ \A i, j \in 1 .. n : i < j => Earlier(f[i], f[j])
  BY <1>3, <1>5 DEF Bijection, Injection
<1>7. s \in [1 .. n -> found] /\ \A i, j \in 1 .. n : i < j => Earlier(s[i], s[j])
  <2> DEFINE InOrder(t) == \A i, j \in DOMAIN t : i < j => Earlier(t[i], t[j])
  <2>1. f \in [1 .. n -> found] /\ InOrder(f)
    BY <1>6
  <2>2. s = CHOOSE t \in [1 .. n -> found] : InOrder(t)
    BY DEF Ordered
  <2> HIDE DEF InOrder, s
  <2>3. s \in [1 .. n -> found] /\ InOrder(s)
    BY <2>1, <2>2
  <2> QED
    BY <2>3 DEF InOrder
<1> HIDE DEF s
<1>8. \A i, j \in 1 .. n : s[i] = s[j] => i = j
  <2> SUFFICES ASSUME NEW i \in 1 .. n, NEW j \in 1 .. n, s[i] = s[j], i < j
               PROVE  FALSE
    BY <1>1
  <2>1. Earlier(s[i], s[i]) /\ s[i] \in found
    BY <1>7
  <2>2. s[i] \in Nat /\ promised[s[i]] \in Nat
    BY <1>2, <2>1
  <2> QED
    BY <2>1, <2>2 DEF Earlier
<1>9. s \in Injection(1 .. n, found)
  BY <1>7, <1>8 DEF Injection, IsInjective
<1>10. Cardinality(1 .. n) = n
  BY <1>1, FS_Interval
<1>11. s \in Surjection(1 .. n, found)
  BY <1>1, <1>9, <1>10, FS_Injection
<1>12. \A o \in found : \E i \in 1 .. n : s[i] = o
  BY <1>11 DEF Surjection
<1>13. \A i, j \in 1 .. n : i < j => promised[s[i]] <= promised[s[j]]
  <2> SUFFICES ASSUME NEW i \in 1 .. n, NEW j \in 1 .. n, i < j
               PROVE  promised[s[i]] <= promised[s[j]]
    OBVIOUS
  <2>1. Earlier(s[i], s[j]) /\ s[i] \in found /\ s[j] \in found
    BY <1>7
  <2>2. promised[s[i]] \in Nat /\ promised[s[j]] \in Nat
    BY <1>2, <2>1
  <2> QED
    BY <2>1, <2>2 DEF Earlier
<1> QED
  BY <1>1, <1>7, <1>8, <1>12, <1>13 DEF s

\* The orders, the clock and the advice are well formed.
QueueTypeOK ==
  /\ promised \in [Orders -> Promises]
  /\ pending \subseteq Orders /\ missed \subseteq Orders \ pending
  /\ minute \in Nat /\ minute >= Now
  /\ advice \in [sequence : Seq(Orders), orders : SUBSET Orders, latest : Int]
  /\ hopeless \subseteq Orders

\* Who keeps to the advice meets the promises that are left in it.
AdviceHolds ==
  /\ missed \cap advice.orders = {}
  /\ \A i \in DOMAIN advice.sequence :
       /\ minute + i * PickTime <= promised[advice.sequence[i]]
       /\ advice.latest + i * PickTime <= promised[advice.sequence[i]]
       /\ advice.sequence[i] \in advice.orders

\* Some of the orders, all promised until d, are more than can be picked by then
\* from the moment b on, whichever of them are picked first; the clock has counted
\* those picked.
TooMany(L, d, b) ==
  /\ \A o \in L : promised[o] <= d
  /\ b + Cardinality(L) * PickTime > d
  /\ b + Cardinality(L \ pending) * PickTime <= minute
  /\ L \cap pending = {} => L \cap missed # {}

\* The orders of a tightest prefix: the latest start leaves them no slack.
Tight(L, d) ==
  /\ L # {} /\ \A o \in L : promised[o] <= d
  /\ advice.latest + Cardinality(L) * PickTime >= d

\* Until the first pick the latest start is what some prefix allows.
LatestIsLast ==
  advice.orders # {} /\ advice.orders \subseteq pending =>
    \E L \in SUBSET advice.orders : \E d \in Promises : Tight(L, d)

\* The advice that stands can be kept, and a queue called hopeless has a reason.
QueueInv ==
  /\ QueueTypeOK
  /\ AdviceHolds
  /\ LatestIsLast
  /\ hopeless # {} => \E L \in SUBSET hopeless : \E d \in Promises : \E b \in Nat : TooMany(L, d, b)

\* No advice has been given in the beginning.
LEMMA QueueStarts == ASSUME QueueAssumption, QueueInit PROVE QueueInv
<1>1. QueueTypeOK
  BY DEF QueueInit, QueueTypeOK, NoAdvice, QueueAssumption
<1>2. AdviceHolds /\ LatestIsLast
  BY DEF QueueInit, AdviceHolds, LatestIsLast, NoAdvice
<1> QED
  BY <1>1, <1>2 DEF QueueInv, QueueInit

\* The latest start is a moment: the one that the tightest prefix allows.
LEMMA LatestIsMoment ==
  ASSUME QueueAssumption, QueueTypeOK, NEW n \in Nat \ {0}, NEW s \in [1 .. n -> Orders]
  PROVE  /\ LatestStart(s) \in Int
         /\ \A i \in 1 .. n : LatestStart(s) <= promised[s[i]] - i * PickTime
         /\ \E i \in 1 .. n : LatestStart(s) = promised[s[i]] - i * PickTime
<1> DEFINE limit(i) == promised[s[i]] - i * PickTime
           S == {limit(i) : i \in 1 .. n}
           T == {limit(i) + n * PickTime : i \in 1 .. n}
<1>1. PickTime \in Nat /\ \A i \in 1 .. n : promised[s[i]] \in Nat
  BY DEF QueueAssumption, QueueTypeOK
<1>2. n * PickTime \in Nat /\ \A i \in 1 .. n : i * PickTime \in Nat /\ i * PickTime <= n * PickTime
  <2>1. n * PickTime \in Nat
    BY <1>1
  <2>2. ASSUME NEW i \in 1 .. n
        PROVE  i * PickTime \in Nat /\ i * PickTime <= n * PickTime
    <3>1. (n - i) * PickTime \in Nat /\ i * PickTime \in Nat
      BY <1>1
    <3>2. (n - i) * PickTime = n * PickTime - i * PickTime
      BY <1>1
    <3> QED
      BY <2>1, <3>1, <3>2
  <2> QED
    BY <2>1, <2>2
<1>3. \A i \in 1 .. n : limit(i) \in Int /\ limit(i) + n * PickTime \in Nat
  BY <1>1, <1>2
<1> HIDE DEF limit
<1>4. T \in SUBSET Nat /\ T # {}
  BY <1>3
<1>5. PICK t \in T : \A k \in T : t <= k
  BY <1>4, LeastNumber
<1>6. PICK i \in 1 .. n : t = limit(i) + n * PickTime
  BY <1>5
<1>7. \A j \in 1 .. n : limit(i) <= limit(j)
  <2> SUFFICES ASSUME NEW j \in 1 .. n
               PROVE  limit(i) <= limit(j)
    OBVIOUS
  <2>1. limit(i) + n * PickTime <= limit(j) + n * PickTime
    BY <1>5, <1>6
  <2> QED
    BY <1>2, <1>3, <2>1
<1>8. \E x \in S : \A y \in S : x <= y
  BY <1>7
<1>9. LatestStart(s) = Min(S)
  BY DEF LatestStart, limit
<1>10. Min(S) \in S /\ \A y \in S : Min(S) <= y
  BY <1>8 DEF Min
<1>11. /\ LatestStart(s) \in Int
       /\ \A j \in 1 .. n : LatestStart(s) <= limit(j)
       /\ \E j \in 1 .. n : LatestStart(s) = limit(j)
  BY <1>3, <1>9, <1>10
<1> QED
  BY <1>11 DEF limit

\* The first i of a sequence sorted by promise are i orders promised until the last's.
LEMMA PrefixOrders ==
  ASSUME QueueAssumption, promised \in [Orders -> Promises], NEW found \in SUBSET Orders,
         NEW n \in Nat, NEW s \in [1 .. n -> found],
         \A j, k \in 1 .. n : s[j] = s[k] => j = k,
         \A j, k \in 1 .. n : j < k => promised[s[j]] <= promised[s[k]],
         NEW i \in 1 .. n
  PROVE  \E L \in SUBSET found :
           /\ L # {} /\ Cardinality(L) = i
           /\ \A o \in L : promised[o] <= promised[s[i]]
<1> DEFINE f == [j \in 1 .. i |-> s[j]]
<1>1. i \in Nat \ {0} /\ 1 .. i \subseteq 1 .. n /\ s[i] \in Orders
  <2> HIDE DEF f
  <2>1. i \in Nat /\ i >= 1 /\ i <= n
    OBVIOUS
  <2>2. s[i] \in found
    OBVIOUS
  <2>3. s[i] \in Orders
    <3>1. \A o \in found : o \in Orders
      OBVIOUS
    <3> QED
      BY <2>2, <3>1
  <2>4. \A j \in 1 .. i : j \in 1 .. n
    BY <2>1
  <2>5. i \in Nat \ {0}
    BY <2>1
  <2> QED
    BY <2>3, <2>4, <2>5
<1>2. promised[s[i]] \in Nat
  BY <1>1 DEF QueueAssumption
<1>3. f \in [1 .. i -> found] /\ \A j, k \in 1 .. i : f[j] = f[k] => j = k
  BY <1>1
<1>4. PICK L : /\ L = {f[j] : j \in 1 .. i} /\ L \in SUBSET found
               /\ IsFiniteSet(L) /\ Cardinality(L) = i
  <2> HIDE DEF f
  <2>1. PICK L : L = {f[j] : j \in 1 .. i}
    OBVIOUS
  <2>2. IsFiniteSet(L) /\ Cardinality(L) = i
    <3>1. i \in Nat
      BY <1>1
    <3>2. f \in [1 .. i -> L] /\ \A x \in L : \E j \in 1 .. i : f[j] = x
      BY <1>3, <2>1
    <3>3. \A j, k \in 1 .. i : f[j] = f[k] => j = k
      BY <1>3
    <3> QED
      BY <3>1, <3>2, <3>3, CountPlaces
  <2> QED
    BY <1>3, <2>1, <2>2
<1>5. \A o \in L : promised[o] <= promised[s[i]]
  <2> SUFFICES ASSUME NEW j \in 1 .. i
               PROVE  promised[s[j]] <= promised[s[i]]
    BY <1>4
  <2>1. j \in 1 .. n /\ (j < i \/ j = i)
    BY <1>1
  <2> QED
    BY <1>2, <2>1
<1>6. f[1] \in L
  BY <1>1, <1>4
<1> QED
  BY <1>4, <1>5, <1>6

\* What the tool says: a sequence that fits, or orders that are too many.
LEMMA EstimateKeeps ==
  ASSUME QueueAssumption, QueueInv, Estimate
  PROVE  QueueInv'
<1>1. QueueTypeOK /\ AdviceHolds
  BY DEF QueueInv
<1>2. PICK until, found, seq :
        /\ until \in Promises /\ found = Demand(until) /\ seq = Ordered(found)
        /\ found # {}
        /\ advice' = IF Feasible(seq, Now) \/ Feasible(seq, LatestStart(seq))
                     THEN [sequence |-> seq, orders |-> found, latest |-> LatestStart(seq)]
                     ELSE NoAdvice
        /\ hopeless' = IF hopeless = {} /\ ~Feasible(seq, Now) THEN found ELSE hopeless
        /\ UNCHANGED <<promised, pending, minute, missed>>
  BY DEF Estimate
<1> DEFINE n == Cardinality(found)
<1>3. found \in SUBSET Orders /\ found \subseteq pending /\ found # {}
  BY <1>1, <1>2 DEF Demand, QueueTypeOK
<1>4. promised \in [Orders -> Promises] /\ \A o \in Orders : promised[o] \in Promises /\ promised[o] \in Nat
  BY <1>1 DEF QueueTypeOK, QueueAssumption
<1>5. /\ IsFiniteSet(found) /\ n \in Nat
      /\ seq \in [1 .. n -> found]
      /\ \A i, j \in 1 .. n : seq[i] = seq[j] => i = j
      /\ \A o \in found : \E i \in 1 .. n : seq[i] = o
      /\ \A i, j \in 1 .. n : i < j => promised[seq[i]] <= promised[seq[j]]
  BY <1>2, <1>3, <1>4, OrderedIs
<1>6. n \in Nat \ {0} /\ seq \in [1 .. n -> Orders]
  BY <1>3, <1>5, FS_EmptySet
<1> HIDE DEF n
<1>7. /\ LatestStart(seq) \in Int
      /\ \A i \in 1 .. n : LatestStart(seq) <= promised[seq[i]] - i * PickTime
      /\ \E i \in 1 .. n : LatestStart(seq) = promised[seq[i]] - i * PickTime
  BY <1>1, <1>6, LatestIsMoment
<1>8. minute = Now /\ UNCHANGED <<promised, pending, minute, missed>> /\ PickTime \in Nat /\ Now \in Nat
  BY <1>2 DEF Estimate, QueueAssumption
<1>9. QueueTypeOK'
  <2>1. hopeless' \subseteq Orders
    BY <1>1, <1>2, <1>3 DEF QueueTypeOK
  <2>2. advice' \in [sequence : Seq(Orders), orders : SUBSET Orders, latest : Int]
    <3>1. seq \in Seq(Orders)
      BY <1>5, <1>6
    <3>2. CASE Feasible(seq, Now) \/ Feasible(seq, LatestStart(seq))
      <4>1. advice' = [sequence |-> seq, orders |-> found, latest |-> LatestStart(seq)]
        BY <1>2, <3>2
      <4> QED
        BY <1>3, <1>7, <3>1, <4>1
    <3>3. CASE ~(Feasible(seq, Now) \/ Feasible(seq, LatestStart(seq)))
      <4>1. advice' = NoAdvice
        BY <1>2, <3>3
      <4> QED
        BY <4>1 DEF NoAdvice
    <3> QED
      BY <3>2, <3>3
  <2> QED
    BY <1>1, <1>8, <2>1, <2>2 DEF QueueTypeOK
<1>10. AdviceHolds' /\ LatestIsLast'
  <2>1. CASE Feasible(seq, Now) \/ Feasible(seq, LatestStart(seq))
    <3>1. advice' = [sequence |-> seq, orders |-> found, latest |-> LatestStart(seq)]
      BY <1>2, <2>1
    <3>2. missed' \cap advice'.orders = {}
      BY <1>1, <1>3, <1>8, <3>1 DEF QueueTypeOK
    <3>3. ASSUME NEW i \in 1 .. n
          PROVE  /\ minute' + i * PickTime <= promised'[seq[i]]
                 /\ LatestStart(seq) + i * PickTime <= promised'[seq[i]]
      <4>1. seq[i] \in Orders /\ i \in Nat
        BY <1>6
      <4>2. promised[seq[i]] \in Nat
        BY <1>4, <4>1
      <4>3. i * PickTime \in Nat
        BY <1>8, <4>1
      <4>4. LatestStart(seq) <= promised[seq[i]] - i * PickTime
        BY <1>7
      <4>5. CASE Feasible(seq, Now)
        <5>1. ~(Now + i * PickTime > promised[seq[i]])
          BY <1>5, <4>5 DEF Feasible, LateFrom
        <5> QED
          BY <1>7, <1>8, <4>2, <4>3, <4>4, <5>1
      <4>6. CASE Feasible(seq, LatestStart(seq))
        <5>1. LatestStart(seq) >= Now
          BY <4>6 DEF Feasible
        <5> QED
          BY <1>7, <1>8, <4>2, <4>3, <4>4, <5>1
      <4> QED
        BY <2>1, <4>5, <4>6
    <3>4. DOMAIN seq = 1 .. n /\ \A i \in 1 .. n : seq[i] \in found
      BY <1>5
    <3>5. AdviceHolds'
      BY <3>1, <3>2, <3>3, <3>4 DEF AdviceHolds
    <3>6. \E L \in SUBSET found : \E d \in Promises : Tight(L, d)'
      <4>1. PICK i \in 1 .. n : LatestStart(seq) = promised[seq[i]] - i * PickTime
        BY <1>7
      <4>2. PICK L \in SUBSET found : /\ L # {} /\ Cardinality(L) = i
                                      /\ \A o \in L : promised[o] <= promised[seq[i]]
        BY <1>4, <1>5, <1>6, <1>3, PrefixOrders
      <4>3. seq[i] \in Orders /\ i \in Nat
        BY <1>6
      <4>4. PICK d \in Promises : d = promised[seq[i]]
        BY <1>4, <4>3
      <4>5. d \in Nat /\ i * PickTime \in Nat
        BY <1>4, <1>8, <4>3, <4>4
      <4>6. advice'.latest + Cardinality(L) * PickTime >= d
        <5>1. advice'.latest = d - i * PickTime /\ Cardinality(L) = i
          BY <3>1, <4>1, <4>2, <4>4
        <5> QED
          BY <4>5, <5>1
      <4>7. Tight(L, d)'
        BY <1>8, <4>2, <4>4, <4>6 DEF Tight
      <4> QED
        BY <4>7
    <3> QED
      BY <3>1, <3>5, <3>6 DEF LatestIsLast
  <2>2. CASE ~(Feasible(seq, Now) \/ Feasible(seq, LatestStart(seq)))
    <3>1. advice' = NoAdvice
      BY <1>2, <2>2
    <3> QED
      BY <3>1 DEF NoAdvice, AdviceHolds, LatestIsLast
  <2> QED
    BY <2>1, <2>2
<1>11. ASSUME hopeless' # {}
       PROVE  \E L \in SUBSET hopeless' : \E d \in Promises : \E b \in Nat : TooMany(L, d, b)'
  <2>1. CASE hopeless = {} /\ ~Feasible(seq, Now)
    <3>1. hopeless' = found
      BY <1>2, <2>1
    <3>2. PICK i \in 1 .. n : Now + i * PickTime > promised[seq[i]]
      BY <1>5, <1>8, <2>1 DEF Feasible, LateFrom
    <3>3. PICK L \in SUBSET found : /\ L # {} /\ Cardinality(L) = i
                                    /\ \A o \in L : promised[o] <= promised[seq[i]]
      BY <1>3, <1>4, <1>5, <1>6, PrefixOrders
    <3>4. promised[seq[i]] \in Promises
      BY <1>4, <1>6
    <3>5. L \ pending = {} /\ L \cap pending # {}
      BY <1>3, <3>3
    <3>6. Cardinality(L \ pending) * PickTime = 0
      <4>1. Cardinality(L \ pending) = 0
        BY <3>5, FS_EmptySet
      <4> QED
        BY <1>8, <4>1
    <3>7. TooMany(L, promised[seq[i]], Now)
      BY <1>8, <3>2, <3>3, <3>5, <3>6 DEF TooMany
    <3>8. TooMany(L, promised[seq[i]], Now)'
      BY <1>8, <3>7 DEF TooMany
    <3> QED
      BY <1>8, <3>1, <3>4, <3>8
  <2>2. CASE ~(hopeless = {} /\ ~Feasible(seq, Now))
    <3>1. hopeless' = hopeless
      BY <1>2, <2>2
    <3>2. PICK L \in SUBSET hopeless, d \in Promises, b \in Nat : TooMany(L, d, b)
      BY <1>11, <3>1 DEF QueueInv
    <3> QED
      BY <1>8, <3>1, <3>2 DEF TooMany
  <2> QED
    BY <2>1, <2>2
<1> QED
  BY <1>9, <1>10, <1>11 DEF QueueInv

\* Waiting until the latest start spoils nothing, and waiting on ends the advice.
LEMMA WaitKeeps ==
  ASSUME QueueAssumption, QueueInv, WaitToPick
  PROVE  QueueInv'
<1>1. /\ QueueTypeOK /\ AdviceHolds /\ minute \in Nat /\ Now \in Nat /\ PickTime \in Nat
      /\ minute' = minute + 1 /\ UNCHANGED <<promised, pending, missed>>
      /\ advice' = IF minute' <= advice.latest THEN advice ELSE NoAdvice
  BY DEF QueueInv, QueueTypeOK, QueueAssumption, WaitToPick
<1>2. QueueTypeOK'
  <2>1. NoAdvice \in [sequence : Seq(Orders), orders : SUBSET Orders, latest : Int]
    BY DEF NoAdvice
  <2>2. hopeless' \subseteq Orders
    BY <1>1 DEF QueueTypeOK, WaitToPick
  <2> QED
    BY <1>1, <2>1, <2>2 DEF QueueTypeOK
<1>3. AdviceHolds'
  <2>1. CASE minute' <= advice.latest
    <3>1. advice' = advice /\ advice.latest \in Int /\ advice.sequence \in Seq(Orders)
      BY <1>1, <2>1 DEF QueueTypeOK
    <3>2. ASSUME NEW i \in DOMAIN advice.sequence
          PROVE  minute' + i * PickTime <= promised[advice.sequence[i]]
      <4>1. i \in Nat /\ advice.sequence[i] \in Orders
        BY <3>1
      <4>2. promised[advice.sequence[i]] \in Nat
        BY <1>1, <4>1 DEF QueueTypeOK, QueueAssumption
      <4>3. i * PickTime \in Nat
        BY <1>1, <4>1
      <4>4. advice.latest + i * PickTime <= promised[advice.sequence[i]]
        BY <1>1 DEF AdviceHolds
      <4> QED
        BY <1>1, <2>1, <3>1, <4>2, <4>3, <4>4
    <3> QED
      BY <1>1, <3>1, <3>2 DEF AdviceHolds
  <2>2. CASE ~(minute' <= advice.latest)
    BY <1>1, <2>2 DEF AdviceHolds, NoAdvice
  <2> QED
    BY <2>1, <2>2
<1>4. LatestIsLast'
  BY <1>1 DEF QueueInv, LatestIsLast, Tight, NoAdvice
<1>5. ASSUME hopeless' # {}, hopeless' = hopeless
      PROVE  \E L \in SUBSET hopeless' : \E d \in Promises : \E b \in Nat : TooMany(L, d, b)'
  <2>1. PICK L \in SUBSET hopeless, d \in Promises, b \in Nat : TooMany(L, d, b)
    BY <1>1, <1>5 DEF QueueInv
  <2>2. IsFiniteSet(L \ pending)
    BY <1>1, FS_Subset DEF QueueTypeOK, QueueAssumption
  <2>3. Cardinality(L \ pending) \in Nat
    BY <2>2, FS_CardinalityType
  <2>4. Cardinality(L \ pending) * PickTime \in Nat
    BY <1>1, <2>3
  <2>5. b + Cardinality(L \ pending) * PickTime <= minute'
    BY <1>1, <2>1, <2>4 DEF TooMany
  <2>6. TooMany(L, d, b)'
    BY <1>1, <2>1, <2>5 DEF TooMany
  <2> QED
    BY <1>5, <2>6
<1>6. ASSUME hopeless' # {}, hopeless' # hopeless
      PROVE  \E L \in SUBSET hopeless' : \E d \in Promises : \E b \in Nat : TooMany(L, d, b)'
  <2>1. hopeless' = advice.orders /\ minute' > advice.latest /\ advice.orders \subseteq pending
    BY <1>6 DEF WaitToPick
  <2>2. PICK L \in SUBSET advice.orders, d \in Promises : Tight(L, d)
    BY <1>6, <2>1 DEF QueueInv, LatestIsLast
  <2>3. L \ pending = {} /\ L \cap pending # {}
    BY <2>1, <2>2 DEF Tight
  <2>4. IsFiniteSet(L) /\ Cardinality(L) \in Nat
    BY <1>1, <2>1, <2>2, FS_Subset, FS_CardinalityType DEF QueueTypeOK, QueueAssumption
  <2>5. Cardinality(L) * PickTime \in Nat /\ Cardinality(L \ pending) * PickTime = 0
    <3>1. Cardinality(L \ pending) = 0
      BY <2>3, FS_EmptySet
    <3> QED
      BY <1>1, <2>4, <3>1
  <2>6. d \in Nat /\ advice.latest \in Int
    BY <1>1, <2>2 DEF QueueTypeOK, QueueAssumption
  <2>7. minute' + Cardinality(L) * PickTime > d
    BY <1>1, <2>1, <2>2, <2>5, <2>6 DEF Tight
  <2>8. PICK b \in Nat : b = minute'
    BY <1>1
  <2>9. b + Cardinality(L \ pending) * PickTime <= minute'
    BY <2>5, <2>8
  <2>10. TooMany(L, d, b)'
    BY <1>1, <2>2, <2>3, <2>7, <2>8, <2>9 DEF TooMany, Tight
  <2> QED
    BY <2>1, <2>2, <2>10
<1> QED
  BY <1>2, <1>3, <1>4, <1>5, <1>6 DEF QueueInv

\* A pick in sequence keeps the advice; any other one ends it.
LEMMA PickKeeps ==
  ASSUME QueueAssumption, QueueInv, NEW o \in Orders, PickOrder(o)
  PROVE  QueueInv'
<1>1. /\ QueueTypeOK /\ AdviceHolds /\ minute \in Nat /\ Now \in Nat /\ PickTime \in Nat
      /\ o \in pending /\ minute' = minute + PickTime /\ pending' = pending \ {o}
      /\ missed' = IF minute' > promised[o] THEN missed \cup {o} ELSE missed
      /\ UNCHANGED <<promised, hopeless>>
  BY DEF QueueInv, QueueTypeOK, QueueAssumption, PickOrder
<1>2. /\ advice.sequence \in Seq(Orders) /\ advice.orders \in SUBSET Orders /\ advice.latest \in Int
      /\ promised[o] \in Nat
  BY <1>1 DEF QueueTypeOK, QueueAssumption
<1>3. ASSUME advice.sequence # <<>> /\ Head(advice.sequence) = o
      PROVE  QueueTypeOK' /\ AdviceHolds' /\ LatestIsLast'
  <2>1. advice' = [[advice EXCEPT !.sequence = Tail(advice.sequence)] EXCEPT !.latest = 0]
    BY <1>3 DEF PickOrder
  <2>2. /\ advice' \in [sequence : Seq(Orders), orders : SUBSET Orders, latest : Int]
        /\ advice'.sequence = Tail(advice.sequence) /\ advice'.orders = advice.orders
        /\ advice'.latest = 0
    <3> DEFINE a == [advice EXCEPT !.sequence = Tail(advice.sequence)]
    <3>1. Tail(advice.sequence) \in Seq(Orders)
      BY <1>2, <1>3
    <3>2. /\ a \in [sequence : Seq(Orders), orders : SUBSET Orders, latest : Int]
          /\ a.sequence = Tail(advice.sequence) /\ a.orders = advice.orders
      BY <1>1, <3>1 DEF QueueTypeOK
    <3>3. advice' = [a EXCEPT !.latest = 0]
      BY <2>1
    <3> HIDE DEF a
    <3>4. advice'.latest = 0 /\ advice'.sequence = a.sequence /\ advice'.orders = a.orders
      BY <3>2, <3>3
    <3>5. advice' \in [sequence : Seq(Orders), orders : SUBSET Orders, latest : Int]
      BY <3>2, <3>3
    <3> QED
      BY <3>2, <3>4, <3>5
  <2>3. /\ 1 \in DOMAIN advice.sequence /\ advice.sequence[1] = o
        /\ o \in advice.orders
        /\ \A i \in DOMAIN Tail(advice.sequence) :
             /\ i \in Nat /\ i + 1 \in DOMAIN advice.sequence
             /\ Tail(advice.sequence)[i] = advice.sequence[i + 1]
             /\ advice.sequence[i + 1] \in Orders
    BY <1>1, <1>2, <1>3 DEF AdviceHolds
  <2>4. minute' <= promised[o]
    <3>1. minute + 1 * PickTime <= promised[o]
      BY <1>1, <2>3 DEF AdviceHolds
    <3> QED
      BY <1>1, <3>1
  <2>5. missed' = missed
    BY <1>1, <1>2, <2>4
  <2>6. ASSUME NEW i \in DOMAIN advice'.sequence
        PROVE  /\ minute' + i * PickTime <= promised[advice'.sequence[i]]
               /\ 0 + i * PickTime <= promised[advice'.sequence[i]]
               /\ advice'.sequence[i] \in advice'.orders
    <3>1. i \in Nat /\ i + 1 \in DOMAIN advice.sequence /\ advice'.sequence[i] = advice.sequence[i + 1]
      BY <2>2, <2>3
    <3>2. promised[advice'.sequence[i]] \in Nat
      BY <1>1, <2>2, <2>3 DEF QueueTypeOK, QueueAssumption
    <3>3. /\ minute + (i + 1) * PickTime <= promised[advice'.sequence[i]]
          /\ advice'.sequence[i] \in advice.orders
      BY <1>1, <3>1 DEF AdviceHolds
    <3>4. (i + 1) * PickTime = i * PickTime + PickTime /\ i * PickTime \in Nat
      BY <1>1, <3>1
    <3> QED
      BY <1>1, <2>2, <3>2, <3>3, <3>4
  <2>7. AdviceHolds'
    BY <1>1, <2>2, <2>5, <2>6 DEF AdviceHolds
  <2>8. QueueTypeOK'
    BY <1>1, <2>2, <2>5 DEF QueueTypeOK
  <2>9. LatestIsLast'
    BY <1>1, <2>2, <2>3 DEF LatestIsLast
  <2> QED
    BY <2>7, <2>8, <2>9
<1>4. ASSUME ~(advice.sequence # <<>> /\ Head(advice.sequence) = o)
      PROVE  QueueTypeOK' /\ AdviceHolds' /\ LatestIsLast'
  <2>1. advice' = NoAdvice
    BY <1>4 DEF PickOrder
  <2>2. NoAdvice \in [sequence : Seq(Orders), orders : SUBSET Orders, latest : Int]
    BY DEF NoAdvice
  <2>3. missed' \subseteq missed \cup {o}
    BY <1>1
  <2>4. QueueTypeOK'
    BY <1>1, <2>1, <2>2, <2>3 DEF QueueTypeOK
  <2>5. AdviceHolds'
    BY <2>1 DEF AdviceHolds, NoAdvice
  <2>6. LatestIsLast'
    BY <2>1 DEF LatestIsLast, NoAdvice
  <2> QED
    BY <2>4, <2>5, <2>6
<1>5. QueueTypeOK' /\ AdviceHolds' /\ LatestIsLast'
  BY <1>3, <1>4
<1>6. ASSUME hopeless' # {}
      PROVE  \E L \in SUBSET hopeless' : \E d \in Promises : \E b \in Nat : TooMany(L, d, b)'
  <2>1. PICK L \in SUBSET hopeless, d \in Promises, b \in Nat : TooMany(L, d, b)
    BY <1>1, <1>6 DEF QueueInv
  <2> DEFINE done == Cardinality(L \ pending)
  <2>2. L \subseteq Orders /\ IsFiniteSet(L) /\ Cardinality(L) \in Nat /\ d \in Nat
    BY <1>1, FS_Subset, FS_CardinalityType DEF QueueTypeOK, QueueAssumption
  <2>3. IsFiniteSet(L \ pending) /\ done \in Nat
    BY <2>2, FS_Difference, FS_CardinalityType
  <2>4. o \notin L \ pending
    BY <1>1
  <2>5. Cardinality((L \ pending) \cup {o}) = done + 1
    BY <2>3, <2>4, FS_AddElement
  <2>6. L \ pending' = IF o \in L THEN (L \ pending) \cup {o} ELSE L \ pending
    BY <1>1
  <2>7. Cardinality(L \ pending') = IF o \in L THEN done + 1 ELSE done
    BY <2>5, <2>6
  <2>8. done * PickTime \in Nat /\ (done + 1) * PickTime = done * PickTime + PickTime
    BY <1>1, <2>3
  <2>9. b + done * PickTime <= minute
    BY <2>1 DEF TooMany
  <2>10. b + Cardinality(L \ pending') * PickTime <= minute'
    <3> HIDE DEF done
    <3>1. CASE o \in L
      <4>1. Cardinality(L \ pending') * PickTime = done * PickTime + PickTime
        BY <2>7, <2>8, <3>1
      <4> QED
        BY <1>1, <2>8, <2>9, <4>1
    <3>2. CASE o \notin L
      <4>1. Cardinality(L \ pending') * PickTime = done * PickTime
        BY <2>7, <3>2
      <4> QED
        BY <1>1, <2>8, <2>9, <4>1
    <3> QED
      BY <3>1, <3>2
  <2>11. ASSUME L \cap pending' = {}
         PROVE  L \cap missed' # {}
    <3>1. missed \subseteq missed'
      BY <1>1
    <3>2. CASE o \in L
      <4>1. L \ pending' = L
        BY <2>11
      <4>2. b + Cardinality(L) * PickTime <= minute'
        BY <2>10, <4>1
      <4>3. promised[o] <= d /\ b + Cardinality(L) * PickTime > d /\ Cardinality(L) * PickTime \in Nat
        BY <1>1, <2>1, <2>2, <3>2 DEF TooMany
      <4>4. minute' > promised[o]
        BY <1>1, <1>2, <2>2, <4>2, <4>3
      <4>5. o \in missed'
        BY <1>1, <4>4
      <4> QED
        BY <3>2, <4>5
    <3>3. CASE o \notin L
      <4>1. L \cap pending = {}
        BY <1>1, <2>11, <3>3
      <4> QED
        BY <2>1, <3>1, <4>1 DEF TooMany
    <3> QED
      BY <3>2, <3>3
  <2>12. TooMany(L, d, b)'
    BY <1>1, <2>1, <2>10, <2>11 DEF TooMany
  <2> QED
    BY <1>1, <2>12
<1> QED
  BY <1>5, <1>6 DEF QueueInv

\* For any orders, promises and pick time the invariant holds, whatever the picker does.
THEOREM QueueInvariance == QueueSpec => []QueueInv
<1>1. QueueInit => QueueInv
  BY QueueStarts, QueueAssumption
<1>2. QueueInv /\ [QueueNext]_queueVars => QueueInv'
  <2> SUFFICES ASSUME QueueInv, [QueueNext]_queueVars
               PROVE  QueueInv'
    OBVIOUS
  <2>1. CASE UNCHANGED queueVars
    <3>1. QueueTypeOK' /\ AdviceHolds' /\ LatestIsLast'
      BY <2>1 DEF queueVars, QueueInv, QueueTypeOK, AdviceHolds, LatestIsLast, Tight
    <3>2. hopeless' # {} => \E L \in SUBSET hopeless' : \E d \in Promises : \E b \in Nat : TooMany(L, d, b)'
      BY <2>1 DEF queueVars, QueueInv, TooMany
    <3> QED
      BY <3>1, <3>2 DEF QueueInv
  <2> QED
    BY <2>1, EstimateKeeps, WaitKeeps, PickKeeps, QueueAssumption DEF QueueNext
<1> QED
  BY <1>1, <1>2, PTL DEF QueueSpec

\* Who keeps to the sequence and the latest start misses no promise, and nobody meets
\* the promises of a queue that the tool called not feasible, or begun later than the
\* latest start, in whatever order they pick.
THEOREM EstimateExact == QueueSpec => []EstimateIsExact
<1>1. ASSUME QueueInv
      PROVE  EstimateIsExact
  <2>1. ASSUME hopeless # {}, hopeless \cap pending = {}
        PROVE  hopeless \cap missed # {}
    <3>1. PICK L \in SUBSET hopeless, d \in Promises, b \in Nat : TooMany(L, d, b)
      BY <1>1, <2>1 DEF QueueInv
    <3>2. L \cap pending = {}
      BY <2>1
    <3> QED
      BY <3>1, <3>2 DEF TooMany
  <2> QED
    BY <1>1, <2>1 DEF QueueInv, AdviceHolds, EstimateIsExact
<1> QED
  BY <1>1, QueueInvariance, PTL

(* ------------------------------ StoreQuery ------------------------------ *)

\* The store's records, present or not.
Table == [Records -> [Fields -> Values] \cup {Absent}]

\* The columns of a query's rows are known, and so are the fields it selects.
LEMMA QueryColumns ==
  ASSUME StoreQueryAssumption, NEW q \in Queries
  PROVE  /\ q.fields \in Seq(Fields)
         /\ Outputs(q) \in Seq(Fields \cup {"count_records"})
         /\ ToSet(q.fields) \subseteq Fields
         /\ ToSet(Outputs(q)) \subseteq ToSet(q.fields) \cup {"count_records"}
         /\ "count_records" \in ToSet(Outputs(q)) => q.counted /\ q.grouped
<1>1. q.fields \in Selections /\ (q.counted => q.grouped)
  BY DEF Queries
<1>2. PICK s \in SUBSET Fields : q.fields \in SetToSeqs(s)
  BY <1>1 DEF Selections, SetToAllKPermutations
<1>3. IsFiniteSet(s) /\ Cardinality(s) \in Nat
  BY FS_Subset, FS_CardinalityType DEF StoreQueryAssumption
<1>4. q.fields \in [1 .. Cardinality(s) -> s]
  BY <1>2 DEF SetToSeqs
<1>5. q.fields \in Seq(Fields)
  BY <1>3, <1>4
<1>6. ToSet(q.fields) \subseteq Fields
  BY <1>4 DEF ToSet
<1>7. CASE q.counted
  <2>1. Outputs(q) = q.fields \o <<"count_records">>
    BY <1>7 DEF Outputs
  <2>2. Outputs(q) \in Seq(Fields \cup {"count_records"})
    BY <1>5, <2>1
  <2>3. \A i \in DOMAIN Outputs(q) :
          Outputs(q)[i] = "count_records" \/ (i \in DOMAIN q.fields /\ Outputs(q)[i] = q.fields[i])
    BY <1>5, <2>1
  <2> QED
    BY <1>1, <1>5, <1>6, <1>7, <2>2, <2>3 DEF ToSet
<1>8. CASE ~q.counted
  <2>1. Outputs(q) = q.fields \o <<>>
    BY <1>8 DEF Outputs
  <2>2. Outputs(q) = q.fields
    BY <1>5, <2>1
  <2>3. "count_records" \notin ToSet(Outputs(q))
    BY <1>6, <2>2 DEF StoreQueryAssumption
  <2> QED
    BY <1>5, <1>6, <2>2, <2>3
<1> QED
  BY <1>7, <1>8

\* The result has finitely many rows, and numbers in their columns.
LEMMA QueryRows ==
  ASSUME StoreQueryAssumption, table \in Table, NEW q \in Queries
  PROVE  /\ IsFiniteSet(Keys(q)) /\ Total(q) \in Nat
         /\ \A k \in Keys(q) : Row(q, k) \in [ToSet(Outputs(q)) -> Int]
<1>1. Present \subseteq Records /\ \A r \in Present : table[r] \in [Fields -> Int]
  BY DEF Present, Table, StoreQueryAssumption
<1>2. IsFiniteSet(Present)
  BY <1>1, FS_Subset DEF StoreQueryAssumption
<1>3. IsFiniteSet(Groups(q))
  <2>1. CASE q.fields = <<>>
    <3>1. Groups(q) = {<<>>}
      BY <2>1 DEF Groups
    <3>2. \A x : IsFiniteSet({x})
      BY FS_Singleton
    <3> QED
      BY <3>1, <3>2, Zenon
  <2>2. CASE q.fields # <<>>
    <3> DEFINE f == [r \in Present |-> Selected(q, r)]
    <3>1. Groups(q) = {Selected(q, r) : r \in Present}
      BY <2>2 DEF Groups
    <3>2. f \in [Present -> Groups(q)] /\ \A g \in Groups(q) : \E r \in Present : f[r] = g
      BY <3>1
    <3>3. f \in Surjection(Present, Groups(q))
      BY <3>2 DEF Surjection
    <3> QED
      BY <1>2, <3>3, FS_Surjection
  <2> QED
    BY <2>1, <2>2
<1>4. IsFiniteSet(Keys(q))
  BY <1>2, <1>3 DEF Keys
<1>5. Total(q) \in Nat
  BY <1>4, FS_CardinalityType DEF Total
<1>6. ASSUME NEW k \in Keys(q), NEW f \in ToSet(Outputs(q))
      PROVE  Row(q, k)[f] \in Int
  <2>1. CASE f = "count_records"
    <3> DEFINE C == {r \in Present : Selected(q, r) = k}
    <3>1. Row(q, k)[f] = Cardinality(C)
      BY <2>1 DEF Row
    <3>2. IsFiniteSet(C)
      BY <1>2, FS_Subset
    <3>3. Cardinality(C) \in Nat
      BY <3>2, FS_CardinalityType
    <3> QED
      BY <3>1, <3>3
  <2>2. CASE f # "count_records" /\ q.grouped
    <3>1. f \in ToSet(q.fields) /\ f \in Fields /\ Row(q, k)[f] = k[f]
      BY <2>2, QueryColumns DEF Row
    <3>2. k \in Groups(q) /\ q.fields # <<>>
      BY <2>2, <3>1 DEF Keys, ToSet
    <3>3. PICK r \in Present : k = Selected(q, r)
      BY <3>2 DEF Groups
    <3>4. k[f] = table[r][f]
      BY <3>1, <3>3 DEF Selected
    <3> QED
      BY <1>1, <3>1, <3>4
  <2>3. CASE f # "count_records" /\ ~q.grouped
    <3>1. f \in Fields /\ Row(q, k)[f] = table[k][f] /\ k \in Present
      BY <2>3, QueryColumns DEF Row, Keys
    <3> QED
      BY <1>1, <3>1
  <2> QED
    BY <2>1, <2>2, <2>3
<1>7. ASSUME NEW k \in Keys(q)
      PROVE  Row(q, k) \in [ToSet(Outputs(q)) -> Int]
  <2> DEFINE row == Row(q, k)
  <2>1. row = [f \in ToSet(Outputs(q)) |-> row[f]]
    BY DEF Row
  <2>2. \A f \in ToSet(Outputs(q)) : row[f] \in Int
    BY <1>6
  <2> HIDE DEF row
  <2>3. row \in [ToSet(Outputs(q)) -> Int]
    BY <2>1, <2>2
  <2> QED
    BY <2>3 DEF row
<1> QED
  BY <1>4, <1>5, <1>7

\* Rows that are not the same differ in a column, and every column is a tie-breaker:
\* of two different rows one comes before the other, and never both.
LEMMA OrderingColumns ==
  ASSUME StoreQueryAssumption, NEW q \in Queries
  PROVE  /\ Ordering(q) \in Seq([field : ToSet(Outputs(q)), desc : BOOLEAN])
         /\ \A f \in ToSet(Outputs(q)) : \E i \in DOMAIN Ordering(q) : Ordering(q)[i].field = f
<1> DEFINE Columns == [field : ToSet(Outputs(q)), desc : BOOLEAN]
<1>0. PICK outs : outs = Outputs(q)
  OBVIOUS
<1> DEFINE rest == [i \in DOMAIN outs |-> [field |-> outs[i], desc |-> FALSE]]
<1>1. outs \in Seq(Fields \cup {"count_records"})
  BY <1>0, QueryColumns
<1>2. rest \in Seq(Columns) /\ Len(rest) = Len(outs)
  <2>1. DOMAIN outs = 1 .. Len(outs) /\ Len(outs) \in Nat
    BY <1>1
  <2>2. \A i \in 1 .. Len(outs) : outs[i] \in ToSet(Outputs(q))
    BY <1>0, <2>1 DEF ToSet
  <2>3. \A i \in 1 .. Len(outs) : [field |-> outs[i], desc |-> FALSE] \in Columns
    BY <2>2
  <2> HIDE DEF Columns
  <2>4. rest \in [1 .. Len(outs) -> Columns]
    BY <2>1, <2>3
  <2> QED
    BY <2>1, <2>4
<1>3. q.order \in Seq(Columns)
  <2>1. /\ q.order \in {<<>>} \cup {<<[field |-> f, desc |-> d]>> : f \in Fields \cup {"count_records"}, d \in BOOLEAN}
        /\ \A i \in DOMAIN q.order : q.order[i].field \in ToSet(Outputs(q))
    BY DEF Queries
  <2>2. CASE q.order = <<>>
    BY <2>2
  <2>3. ASSUME NEW f, NEW d \in BOOLEAN, q.order = <<[field |-> f, desc |-> d]>>
        PROVE  q.order \in Seq(Columns)
    <3>1. f \in ToSet(Outputs(q))
      BY <2>1, <2>3
    <3> QED
      BY <2>3, <3>1
  <2>4. q.order = <<>> \/ \E f \in Fields \cup {"count_records"} : \E d \in BOOLEAN : q.order = <<[field |-> f, desc |-> d]>>
    BY <2>1
  <2> QED
    BY <2>2, <2>3, <2>4
<1>4. Ordering(q) = q.order \o rest
  BY <1>0 DEF Ordering
<1>5. ASSUME NEW f \in ToSet(Outputs(q))
      PROVE  \E i \in DOMAIN Ordering(q) : Ordering(q)[i].field = f
  <2>1. PICK j \in DOMAIN outs : f = outs[j]
    BY <1>0 DEF ToSet
  <2>2. j \in 1 .. Len(rest) /\ rest[j].field = f
    BY <1>1, <1>2, <2>1
  <2> HIDE DEF rest
  <2>3. Len(q.order) + j \in DOMAIN (q.order \o rest) /\ (q.order \o rest)[Len(q.order) + j] = rest[j]
    BY <1>2, <1>3, <2>2
  <2> QED
    BY <1>4, <2>2, <2>3
<1> HIDE DEF rest, Columns
<1>6. Ordering(q) \in Seq(Columns)
  BY <1>2, <1>3, <1>4
<1> QED
  BY <1>5, <1>6 DEF Columns

\* Of two rows at most one comes before the other, and no row before itself.
LEMMA BeforeOneWay ==
  ASSUME StoreQueryAssumption, NEW q \in Queries,
         NEW x \in [ToSet(Outputs(q)) -> Int], NEW y \in [ToSet(Outputs(q)) -> Int],
         Before(q, x, y)
  PROVE  ~Before(q, y, x) /\ x # y
<1> DEFINE Less(by, u, v) == IF by.desc THEN u[by.field] > v[by.field] ELSE u[by.field] < v[by.field]
<1>1. PICK O, C : O = Ordering(q) /\ C = ToSet(Outputs(q))
  OBVIOUS
<1>2. PICK i \in DOMAIN O : Less(O[i], x, y) /\ \A j \in 1 .. i - 1 : x[O[j].field] = y[O[j].field]
  BY <1>1 DEF Before
<1>3. /\ Len(O) \in Nat /\ DOMAIN O = 1 .. Len(O)
      /\ \A j \in 1 .. Len(O) : x[O[j].field] \in Int /\ y[O[j].field] \in Int
  <2>1. O \in Seq([field : C, desc : BOOLEAN])
    BY <1>1, OrderingColumns
  <2>2. Len(O) \in Nat /\ DOMAIN O = 1 .. Len(O) /\ \A j \in 1 .. Len(O) : O[j] \in [field : C, desc : BOOLEAN]
    <3> DEFINE Columns == [field : C, desc : BOOLEAN]
    <3>1. O \in Seq(Columns)
      BY <2>1
    <3> HIDE DEF Columns
    <3>2. Len(O) \in Nat /\ DOMAIN O = 1 .. Len(O) /\ \A j \in 1 .. Len(O) : O[j] \in Columns
      BY <3>1
    <3> QED
      BY <3>2 DEF Columns
  <2>3. x \in [C -> Int] /\ y \in [C -> Int]
    BY <1>1
  <2> QED
    BY <2>2, <2>3
<1>4. i \in 1 .. Len(O) /\ x[O[i].field] # y[O[i].field]
  BY <1>2, <1>3
<1>5. ASSUME Before(q, y, x)
      PROVE  FALSE
  <2>1. PICK k \in DOMAIN O : Less(O[k], y, x) /\ \A j \in 1 .. k - 1 : y[O[j].field] = x[O[j].field]
    BY <1>1, <1>5 DEF Before
  <2>2. k \in 1 .. Len(O) /\ x[O[k].field] # y[O[k].field]
    BY <1>3, <2>1
  <2>3. k = i
    BY <1>2, <1>3, <1>4, <2>1, <2>2
  <2> QED
    BY <1>2, <1>3, <2>1, <2>2, <2>3
<1> QED
  BY <1>4, <1>5

\* Two rows that differ do so in a column of the order: the first one decides.
LEMMA BeforeSomeWay ==
  ASSUME StoreQueryAssumption, NEW q \in Queries,
         NEW x \in [ToSet(Outputs(q)) -> Int], NEW y \in [ToSet(Outputs(q)) -> Int], x # y
  PROVE  Before(q, x, y) \/ Before(q, y, x)
<1>1. PICK O, C : O = Ordering(q) /\ C = ToSet(Outputs(q))
  OBVIOUS
<1>2. PICK f \in C : x[f] # y[f]
  BY <1>1
<1>3. PICK k \in DOMAIN O : O[k].field = f
  BY <1>1, <1>2, OrderingColumns
<1>4. /\ Len(O) \in Nat /\ DOMAIN O = 1 .. Len(O)
      /\ \A j \in 1 .. Len(O) : x[O[j].field] \in Int /\ y[O[j].field] \in Int /\ O[j].desc \in BOOLEAN
  <2> DEFINE Columns == [field : C, desc : BOOLEAN]
  <2>1. O \in Seq(Columns)
    BY <1>1, OrderingColumns
  <2> HIDE DEF Columns
  <2>2. Len(O) \in Nat /\ DOMAIN O = 1 .. Len(O) /\ \A j \in 1 .. Len(O) : O[j] \in Columns
    BY <2>1
  <2>3. x \in [C -> Int] /\ y \in [C -> Int]
    BY <1>1
  <2> QED
    BY <2>2, <2>3 DEF Columns
<1> DEFINE D == {j \in 1 .. Len(O) : x[O[j].field] # y[O[j].field]}
<1>5. D \in SUBSET Nat /\ D # {}
  BY <1>2, <1>3, <1>4
<1>6. PICK i \in D : \A j \in D : i <= j
  BY <1>5, LeastNumber
<1>7. i \in 1 .. Len(O) /\ x[O[i].field] # y[O[i].field]
  OBVIOUS
<1>8. \A j \in 1 .. i - 1 : x[O[j].field] = y[O[j].field]
  BY <1>4, <1>6, <1>7
<1>9. x[O[i].field] < y[O[i].field] \/ x[O[i].field] > y[O[i].field]
  BY <1>4, <1>7
<1> QED
  BY <1>1, <1>4, <1>7, <1>8, <1>9 DEF Before

\* A sorted result lists every row as often as it is there.
LEMMA SortedLists ==
  ASSUME StoreQueryAssumption, table \in Table, NEW q \in Queries, NEW s \in Sorted(q)
  PROVE  /\ s \in [1 .. Total(q) -> Keys(q)]
         /\ \A i, j \in 1 .. Total(q) : s[i] = s[j] => i = j
         /\ \A k \in Keys(q) : \E i \in 1 .. Total(q) : s[i] = k
         /\ \A i, j \in 1 .. Total(q) : i < j => ~Before(q, Row(q, s[j]), Row(q, s[i]))
<1>1. IsFiniteSet(Keys(q)) /\ Total(q) \in Nat /\ Total(q) = Cardinality(Keys(q))
  BY QueryRows DEF Total
<1>2. s \in SetToSeqs(Keys(q)) /\ \A i, j \in DOMAIN s : i < j => ~Before(q, Row(q, s[j]), Row(q, s[i]))
  BY DEF Sorted
<1>3. /\ s \in [1 .. Total(q) -> Keys(q)]
      /\ \A i, j \in 1 .. Total(q) : i # j => s[i] # s[j]
  BY <1>1, <1>2 DEF SetToSeqs
<1>4. s \in Injection(1 .. Total(q), Keys(q))
  BY <1>3 DEF Injection, IsInjective
<1>5. Cardinality(1 .. Total(q)) = Total(q)
  BY <1>1, FS_Interval
<1>6. s \in Surjection(1 .. Total(q), Keys(q))
  BY <1>1, <1>4, <1>5, FS_Injection
<1> QED
  BY <1>2, <1>3, <1>6 DEF Surjection

\* Where a sorted result has the row x, and what it comes from.
Places(q, s, x) == {i \in 1 .. Total(q) : Row(q, s[i]) = x}

\* The records or groups that have the row x.
Origins(q, x) == {m \in Keys(q) : Row(q, m) = x}

\* A sorted result has a row at as many places as it has origins.
LEMMA CountRows ==
  ASSUME StoreQueryAssumption, table \in Table, NEW q \in Queries, NEW s \in Sorted(q), NEW x
  PROVE  Cardinality(Places(q, s, x)) = Cardinality(Origins(q, x))
<1> DEFINE A == {i \in 1 .. Total(q) : Row(q, s[i]) = x}
           B == {m \in Keys(q) : Row(q, m) = x}
           f == [i \in A |-> s[i]]
<1>1. /\ s \in [1 .. Total(q) -> Keys(q)] /\ \A i, j \in 1 .. Total(q) : s[i] = s[j] => i = j
      /\ \A k \in Keys(q) : \E i \in 1 .. Total(q) : s[i] = k
  BY SortedLists
<1>2. IsFiniteSet(A)
  <2>1. IsFiniteSet(1 .. Total(q))
    BY QueryRows, FS_Interval
  <2> QED
    BY <2>1, FS_Subset
<1>3. f \in [A -> B] /\ (\A i, j \in A : f[i] = f[j] => i = j) /\ \A m \in B : \E i \in A : f[i] = m
  BY <1>1
<1> HIDE DEF f, A, B
<1>4. f \in Injection(A, B) /\ f \in Surjection(A, B)
  BY <1>3 DEF Injection, IsInjective, Surjection
<1>5. Cardinality(A) = Cardinality(B)
  BY <1>2, <1>4, FS_Surjection
<1>6. A = Places(q, s, x) /\ B = Origins(q, x)
  BY DEF A, B, Places, Origins
<1> QED
  BY <1>5, <1>6

\* Two sorted results agree on the first row where they could differ.
LEMMA NoFirstDifference ==
  ASSUME StoreQueryAssumption, table \in Table, NEW q \in Queries,
         NEW s \in Sorted(q), NEW t \in Sorted(q), NEW p \in 1 .. Total(q),
         \A j \in 1 .. p - 1 : Row(q, s[j]) = Row(q, t[j])
  PROVE  ~Before(q, Row(q, s[p]), Row(q, t[p]))
<1> SUFFICES ASSUME Before(q, Row(q, s[p]), Row(q, t[p]))
             PROVE  FALSE
  OBVIOUS
<1>1. PICK n, x : n \in Nat /\ n = Total(q) /\ x = Row(q, s[p])
  BY QueryRows
<1> DEFINE A == {i \in 1 .. n : Row(q, s[i]) = x}
           B == {i \in 1 .. n : Row(q, t[i]) = x}
<1>2. Cardinality(A) = Cardinality(B)
  <2>1. A = Places(q, s, x) /\ B = Places(q, t, x)
    BY <1>1 DEF Places
  <2>2. Cardinality(Places(q, s, x)) = Cardinality(Places(q, t, x))
    BY CountRows
  <2> QED
    BY <2>1, <2>2
<1>3. /\ \A i \in 1 .. n : s[i] \in Keys(q) /\ t[i] \in Keys(q)
      /\ \A i, j \in 1 .. n : i < j => ~Before(q, Row(q, t[j]), Row(q, t[i]))
  BY <1>1, SortedLists
<1>4. Row(q, s[p]) # Row(q, t[p])
  <2>1. s[p] \in Keys(q) /\ t[p] \in Keys(q)
    BY <1>1, <1>3
  <2>2. Row(q, s[p]) \in [ToSet(Outputs(q)) -> Int] /\ Row(q, t[p]) \in [ToSet(Outputs(q)) -> Int]
    BY <2>1, QueryRows
  <2> QED
    BY <2>2, BeforeOneWay
<1>5. B \in SUBSET A
  <2> SUFFICES ASSUME NEW i \in 1 .. n, Row(q, t[i]) = x
               PROVE  Row(q, s[i]) = x
    OBVIOUS
  <2>1. i # p
    BY <1>1, <1>4
  <2>2. ~(p < i)
    BY <1>1, <1>3
  <2> QED
    BY <1>1, <2>1, <2>2
<1>6. p \in A /\ p \notin B
  BY <1>1, <1>4
<1>7. IsFiniteSet(A)
  <2>1. IsFiniteSet(1 .. n)
    BY <1>1, FS_Interval
  <2> QED
    BY <2>1, FS_Subset
<1> HIDE DEF A, B
<1> QED
  BY <1>2, <1>5, <1>6, <1>7, FS_Subset

\* However rows that sort alike are placed, the rows come out the same.
LEMMA SortedRowsAreUnique ==
  ASSUME StoreQueryAssumption, table \in Table, NEW q \in Queries,
         NEW s \in Sorted(q), NEW t \in Sorted(q)
  PROVE  \A p \in 1 .. Total(q) : Row(q, s[p]) = Row(q, t[p])
<1>1. PICK n \in Nat : n = Total(q)
  BY QueryRows
<1> DEFINE D == {p \in 1 .. n : Row(q, s[p]) # Row(q, t[p])}
<1> SUFFICES ASSUME D # {}
             PROVE  FALSE
  BY <1>1
<1>2. PICK p \in D : \A j \in D : p <= j
  <2>1. D \in SUBSET Nat
    OBVIOUS
  <2> QED
    BY <2>1, LeastNumber
<1>3. p \in 1 .. n /\ Row(q, s[p]) # Row(q, t[p])
  OBVIOUS
<1>4. \A j \in 1 .. p - 1 : Row(q, s[j]) = Row(q, t[j])
  BY <1>2, <1>3
<1>5. s[p] \in Keys(q) /\ t[p] \in Keys(q)
  BY <1>1, <1>3, SortedLists
<1>6. Row(q, s[p]) \in [ToSet(Outputs(q)) -> Int] /\ Row(q, t[p]) \in [ToSet(Outputs(q)) -> Int]
  BY <1>5, QueryRows
<1>7. Before(q, Row(q, s[p]), Row(q, t[p])) \/ Before(q, Row(q, t[p]), Row(q, s[p]))
  BY <1>3, <1>6, BeforeSomeWay
<1>8. ~Before(q, Row(q, s[p]), Row(q, t[p]))
  BY <1>1, <1>3, <1>4, NoFirstDifference
<1>9. ~Before(q, Row(q, t[p]), Row(q, s[p]))
  BY <1>1, <1>3, <1>4, NoFirstDifference
<1> QED
  BY <1>7, <1>8, <1>9

\* The rows are the first ones of a sorted result.
FirstOf(q, s, soFar) ==
  /\ soFar \in Seq([ToSet(Outputs(q)) -> Int])
  /\ Len(soFar) <= Total(q)
  /\ \A i \in 1 .. Len(soFar) : soFar[i] = Row(q, s[i])

\* What has been read of a table that stayed as it was.
ReadSoFar(q, soFar, complete) ==
  /\ q \in Queries
  /\ \E s \in Sorted(q) : FirstOf(q, s, soFar)
  /\ complete => Len(soFar) = Total(q)

\* The rows so far are the first ones of the result, unless the table changed.
QueryInv ==
  /\ table \in Table
  /\ "changed" \in DOMAIN reading
  /\ reading.query # Absent /\ ~reading.changed =>
       ReadSoFar(reading.query, reading.rows, reading.complete)

\* The page is what the sorted result has from offset on.
CutFrom(q, s, offset, page) ==
  /\ page \in Seq([ToSet(Outputs(q)) -> Int])
  /\ offset + Len(page) <= Total(q)
  /\ \A i \in 1 .. Len(page) : page[i] = Row(q, s[offset + i])

\* LIMIT and OFFSET cut a page out of a sorted result.
LEMMA PageIs ==
  ASSUME StoreQueryAssumption, table \in Table, NEW q \in Queries,
         NEW limit \in Nat, NEW offset \in 0 .. Total(q), NEW page \in Pages(q, limit, offset)
  PROVE  \E s \in Sorted(q) : CutFrom(q, s, offset, page)
<1> DEFINE n == Max({0, Min({limit, Total(q) - offset})})
<1>1. Total(q) \in Nat /\ offset \in Nat /\ Total(q) - offset \in Nat
  BY QueryRows
<1>2. PICK s \in Sorted(q) : page = [i \in 1 .. n |-> Row(q, s[offset + i])]
  BY DEF Pages
<1>3. PICK rest \in Nat : rest = Total(q) - offset
  BY <1>1
<1>4. PICK m : m = Min({limit, rest})
  OBVIOUS
<1>5. m \in {limit, rest} /\ m <= limit /\ m <= rest
  <2> DEFINE P(x) == x \in {limit, rest} /\ \A y \in {limit, rest} : x <= y
  <2>1. m = CHOOSE x \in {limit, rest} : \A y \in {limit, rest} : x <= y
    BY <1>4 DEF Min
  <2>2. \E x \in {limit, rest} : \A y \in {limit, rest} : x <= y
    <3>1. CASE limit <= rest
      BY <3>1
    <3>2. CASE rest <= limit
      BY <3>2
    <3> QED
      BY <3>1, <3>2
  <2> QED
    BY <2>1, <2>2
<1>6. n = m
  <2>1. m \in Nat
    BY <1>5
  <2>2. n = Max({0, m})
    BY <1>3, <1>4
  <2>3. n = CHOOSE x \in {0, m} : \A y \in {0, m} : x >= y
    BY <2>2 DEF Max
  <2> HIDE DEF n
  <2>4. m \in {0, m} /\ \A y \in {0, m} : m >= y
    BY <2>1
  <2>5. n \in {0, m} /\ \A y \in {0, m} : n >= y
    BY <2>3, <2>4
  <2> QED
    BY <2>1, <2>5
<1> HIDE DEF n
<1>7. n \in Nat /\ offset + n <= Total(q)
  BY <1>1, <1>3, <1>5, <1>6
<1>8. \A i \in 1 .. n : Row(q, s[offset + i]) \in [ToSet(Outputs(q)) -> Int]
  <2> SUFFICES ASSUME NEW i \in 1 .. n
               PROVE  Row(q, s[offset + i]) \in [ToSet(Outputs(q)) -> Int]
    OBVIOUS
  <2>1. offset + i \in 1 .. Total(q)
    BY <1>1, <1>7
  <2>2. s \in [1 .. Total(q) -> Keys(q)]
    BY SortedLists
  <2>3. s[offset + i] \in Keys(q)
    BY <2>1, <2>2
  <2> QED
    BY <2>3, QueryRows
<1>9. /\ page \in Seq([ToSet(Outputs(q)) -> Int])
      /\ Len(page) = n
      /\ \A i \in 1 .. n : page[i] = Row(q, s[offset + i])
  <2> DEFINE R == [ToSet(Outputs(q)) -> Int]
  <2>1. \A i \in 1 .. n : Row(q, s[offset + i]) \in R
    BY <1>8
  <2> HIDE DEF R
  <2>2. page \in [1 .. n -> R] /\ \A i \in 1 .. n : page[i] = Row(q, s[offset + i])
    BY <1>2, <2>1
  <2>3. page \in Seq(R) /\ Len(page) = n
    BY <1>7, <2>2
  <2> QED
    BY <2>2, <2>3 DEF R
<1> QED
  BY <1>7, <1>9 DEF CutFrom

\* A page that begins where the rows end takes them further.
LEMMA PageContinues ==
  ASSUME StoreQueryAssumption, table \in Table, NEW q \in Queries,
         NEW t \in Sorted(q), NEW soFar, FirstOf(q, t, soFar),
         NEW limit \in Nat, NEW page \in Pages(q, limit, Len(soFar))
  PROVE  /\ \E s \in Sorted(q) : FirstOf(q, s, soFar \o page)
         /\ Len(soFar) + Len(page) <= Total(q) /\ Len(soFar \o page) = Len(soFar) + Len(page)
<1> DEFINE R == [ToSet(Outputs(q)) -> Int]
<1>1. soFar \in Seq(R) /\ Len(soFar) \in 0 .. Total(q) /\ Len(soFar) \in Nat /\ Total(q) \in Nat
  BY QueryRows DEF FirstOf
<1>2. PICK s \in Sorted(q) :
        /\ page \in Seq(R)
        /\ Len(soFar) + Len(page) <= Total(q)
        /\ \A i \in 1 .. Len(page) : page[i] = Row(q, s[Len(soFar) + i])
  <2>1. PICK offset \in 0 .. Total(q) : offset = Len(soFar)
    BY <1>1
  <2>2. page \in Pages(q, limit, offset)
    BY <2>1
  <2>3. \E s \in Sorted(q) : CutFrom(q, s, offset, page)
    BY <2>2, PageIs
  <2> QED
    BY <2>1, <2>3 DEF CutFrom
<1>3. \A i \in 1 .. Len(soFar) : soFar[i] = Row(q, s[i])
  BY <1>1, SortedRowsAreUnique DEF FirstOf
<1> HIDE DEF R
<1>4. /\ soFar \o page \in Seq(R)
      /\ Len(soFar \o page) = Len(soFar) + Len(page)
      /\ \A i \in 1 .. Len(soFar) : (soFar \o page)[i] = soFar[i]
      /\ \A i \in 1 .. Len(page) : (soFar \o page)[Len(soFar) + i] = page[i]
  BY <1>1, <1>2
<1>5. \A i \in 1 .. Len(soFar \o page) : (soFar \o page)[i] = Row(q, s[i])
  <2> SUFFICES ASSUME NEW i \in 1 .. Len(soFar \o page)
               PROVE  (soFar \o page)[i] = Row(q, s[i])
    OBVIOUS
  <2>0. Len(soFar \o page) \in Nat
    BY <1>4
  <2>1. CASE i <= Len(soFar)
    BY <1>3, <1>4, <2>1
  <2>2. CASE i > Len(soFar)
    <3>0. i \in Int /\ Len(soFar) \in Int
      BY <1>1
    <3>1. PICK j \in Int : j = i - Len(soFar)
      BY <3>0
    <3>2. j \in 1 .. Len(page) /\ i = Len(soFar) + j
      BY <1>1, <1>2, <1>4, <2>2, <3>1
    <3> QED
      BY <1>2, <1>4, <3>2
  <2> QED
    BY <1>1, <2>1, <2>2
<1> QED
  BY <1>2, <1>4, <1>5 DEF FirstOf, R

\* What a query yields depends on the table alone.
LEMMA SameTable ==
  ASSUME table' = table, NEW q, NEW soFar, NEW complete
  PROVE  ReadSoFar(q, soFar, complete)' = ReadSoFar(q, soFar, complete)
<1>1. Present' = Present
  BY DEF Present
<1>2. \A r : Selected(q, r)' = Selected(q, r)
  BY DEF Selected
<1>3. Groups(q)' = Groups(q)
  BY <1>1, <1>2 DEF Groups
<1>4. Keys(q)' = Keys(q) /\ Total(q)' = Total(q)
  BY <1>1, <1>3 DEF Keys, Total
<1>5. \A k : Row(q, k)' = Row(q, k)
  BY <1>1, <1>2 DEF Row
<1>6. Sorted(q)' = Sorted(q)
  BY <1>4, <1>5 DEF Sorted
<1> QED
  BY <1>4, <1>5, <1>6 DEF ReadSoFar, FirstOf

\* A step that leaves the table alone and reads rows of q from the first one on.
LEMMA ReadKeeps ==
  ASSUME StoreQueryAssumption, QueryInv, table' = table,
         NEW q, NEW soFar, NEW complete, NEW changed,
         reading' = [query |-> q, rows |-> soFar, changed |-> changed, complete |-> complete],
         ~changed => ReadSoFar(q, soFar, complete)
  PROVE  QueryInv'
<1>1. /\ reading'.query = q /\ reading'.rows = soFar /\ reading'.complete = complete
      /\ reading'.changed = changed /\ "changed" \in DOMAIN reading'
  OBVIOUS
<1>2. ~changed => ReadSoFar(q, soFar, complete)'
  BY SameTable
<1>3. ReadSoFar(reading.query, reading.rows, reading.complete)' = ReadSoFar(q, soFar, complete)'
  BY <1>1 DEF ReadSoFar, FirstOf
<1>4. Table' = Table
  BY DEF Table
<1> QED
  BY <1>1, <1>2, <1>3, <1>4 DEF QueryInv

\* No rows are the first rows of any result.
LEMMA NothingRead ==
  ASSUME StoreQueryAssumption, table \in Table, NEW q \in Queries, NEW s \in Sorted(q)
  PROVE  FirstOf(q, s, <<>>)
  BY QueryRows DEF FirstOf

\* For any records, fields, queries and limits, changing from page to page, the pages
\* read so far are the first rows of the sorted result, although each statement may
\* sort rows that are alike another way.
THEOREM QueryInvariance == StoreQuerySpec => []QueryInv
<1> USE StoreQueryAssumption
<1>1. StoreQueryInit => QueryInv
  <2> SUFFICES ASSUME StoreQueryInit
               PROVE  QueryInv
    OBVIOUS
  <2>1. table \in Table
    BY DEF StoreQueryInit, Table
  <2>2. reading.query = Absent /\ "changed" \in DOMAIN reading
    BY DEF StoreQueryInit, NotReading
  <2> QED
    BY <2>1, <2>2 DEF QueryInv
<1>2. QueryInv /\ [StoreQueryNext]_storeQueryVars => QueryInv'
  <2> SUFFICES ASSUME QueryInv, [StoreQueryNext]_storeQueryVars
               PROVE  QueryInv'
    OBVIOUS
  <2>0. table \in Table
    BY DEF QueryInv
  <2>1. CASE FirstPage
    <3>0. PICK q \in Queries, limit \in PageSizes : \E page \in Pages(q, limit, 0) :
            reading' = [query |-> q, rows |-> <<>> \o page, changed |-> FALSE,
                        complete |-> 0 + Len(page) >= Total(q)]
      BY <2>1 DEF FirstPage, ReadPage
    <3>1. PICK page \in Pages(q, limit, 0) :
            reading' = [query |-> q, rows |-> <<>> \o page, changed |-> FALSE,
                        complete |-> 0 + Len(page) >= Total(q)]
      BY <3>0
    <3>2. limit \in Nat /\ Total(q) \in Nat
      BY <2>0, QueryRows DEF StoreQueryAssumption
    <3>3. PICK s \in Sorted(q) : TRUE
      BY DEF Pages
    <3>4. PICK soFar : soFar = <<>> /\ Len(soFar) = 0 /\ FirstOf(q, s, soFar) /\ page \in Pages(q, limit, Len(soFar))
      BY <2>0, NothingRead
    <3>10. FirstOf(q, s, soFar) /\ page \in Pages(q, limit, Len(soFar)) /\ limit \in Nat
      BY <3>2, <3>4
    <3>5. /\ \E t \in Sorted(q) : FirstOf(q, t, soFar \o page)
          /\ Len(soFar) + Len(page) <= Total(q) /\ Len(soFar \o page) = Len(soFar) + Len(page)
      BY <2>0, <3>10, PageContinues
    <3>6. Len(soFar \o page) \in Nat
      BY <3>5 DEF FirstOf
    <3>9. ReadSoFar(q, soFar \o page, Len(soFar) + Len(page) >= Total(q))
      BY <3>2, <3>5, <3>6 DEF ReadSoFar
    <3>7. ReadSoFar(q, <<>> \o page, 0 + Len(page) >= Total(q))
      BY <3>4, <3>9, Zenon
    <3>8. table' = table
      BY <2>1 DEF FirstPage
    <3> QED
      BY <3>1, <3>7, <3>8, ReadKeeps
  <2>2. CASE NextPage
    <3>1. PICK q, soFar, changed : q = reading.query /\ soFar = reading.rows /\ changed = reading.changed
      OBVIOUS
    <3>5. PICK limit \in PageSizes : \E page \in Pages(q, limit, Len(soFar)) :
            reading' = [query |-> q, rows |-> soFar \o page, changed |-> changed,
                        complete |-> Len(soFar) + Len(page) >= Total(q)]
      BY <2>2, <3>1 DEF NextPage, ReadPage
    <3>2. PICK page \in Pages(q, limit, Len(soFar)) :
            reading' = [query |-> q, rows |-> soFar \o page, changed |-> changed,
                        complete |-> Len(soFar) + Len(page) >= Total(q)]
      BY <3>5
    <3>3. ASSUME ~changed
          PROVE  ReadSoFar(q, soFar \o page, Len(soFar) + Len(page) >= Total(q))
      <4>1. q \in Queries /\ \E t \in Sorted(q) : FirstOf(q, t, soFar)
        BY <2>2, <3>1, <3>3 DEF NextPage, QueryInv, ReadSoFar
      <4>2. limit \in Nat /\ Total(q) \in Nat
        BY <2>0, <4>1, QueryRows DEF StoreQueryAssumption
      <4>3. /\ \E t \in Sorted(q) : FirstOf(q, t, soFar \o page)
            /\ Len(soFar) + Len(page) <= Total(q) /\ Len(soFar \o page) = Len(soFar) + Len(page)
        BY <2>0, <4>1, <4>2, PageContinues
      <4>4. Len(soFar \o page) \in Nat
        BY <4>3 DEF FirstOf
      <4> QED
        BY <4>1, <4>2, <4>3, <4>4 DEF ReadSoFar
    <3>4. table' = table
      BY <2>2 DEF NextPage
    <3> QED
      BY <3>2, <3>3, <3>4, ReadKeeps
  <2>3. CASE Report
    <3>0. PICK q \in Queries : \E soFar \in Pages(q, ReportRows, 0) :
            reading' = [query |-> q, rows |-> soFar, changed |-> FALSE, complete |-> Len(soFar) = Total(q)]
      BY <2>3 DEF Report
    <3>1. PICK soFar \in Pages(q, ReportRows, 0) :
            reading' = [query |-> q, rows |-> soFar, changed |-> FALSE, complete |-> Len(soFar) = Total(q)]
      BY <3>0
    <3>2. ReportRows \in Nat /\ 0 \in 0 .. Total(q) /\ Total(q) \in Nat
      BY <2>0, QueryRows DEF StoreQueryAssumption
    <3>3. PICK s \in Sorted(q) : CutFrom(q, s, 0, soFar)
      BY <2>0, <3>2, PageIs
    <3>4. FirstOf(q, s, soFar)
      <4>1. Len(soFar) \in Nat
        BY <3>3 DEF CutFrom
      <4>2. \A i \in 1 .. Len(soFar) : 0 + i = i
        BY <4>1
      <4>3. \A i \in 1 .. Len(soFar) : soFar[i] = Row(q, s[i])
        BY <3>3, <4>2 DEF CutFrom
      <4> QED
        BY <3>2, <3>3, <4>1, <4>3 DEF CutFrom, FirstOf
    <3>5. ReadSoFar(q, soFar, Len(soFar) = Total(q))
      BY <3>4 DEF ReadSoFar
    <3>6. table' = table
      BY <2>3 DEF Report
    <3> QED
      BY <3>1, <3>5, <3>6, ReadKeeps
  <2>4. CASE ChangeRecord
    <3>1. table' \in Table
      BY <2>0, <2>4 DEF ChangeRecord, Table
    <3>2. "changed" \in DOMAIN reading' /\ reading'.changed = TRUE
      BY <2>4 DEF ChangeRecord, QueryInv
    <3>3. Table' = Table
      BY DEF Table
    <3> QED
      BY <3>1, <3>2, <3>3 DEF QueryInv
  <2>5. CASE UNCHANGED storeQueryVars
    <3>1. table' = table /\ reading' = reading
      BY <2>5 DEF storeQueryVars
    <3>2. ReadSoFar(reading.query, reading.rows, reading.complete)' = ReadSoFar(reading.query, reading.rows, reading.complete)
      <4>1. PICK q, soFar, complete : q = reading.query /\ soFar = reading.rows /\ complete = reading.complete
        OBVIOUS
      <4>2. ReadSoFar(reading.query, reading.rows, reading.complete)' = ReadSoFar(q, soFar, complete)'
        BY <3>1, <4>1 DEF ReadSoFar, FirstOf
      <4> QED
        BY <3>1, <4>1, <4>2, SameTable
    <3>3. Table' = Table
      BY DEF Table
    <3> QED
      BY <3>1, <3>2, <3>3 DEF QueryInv
  <2> QED
    BY <2>1, <2>2, <2>3, <2>4, <2>5 DEF StoreQueryNext
<1> QED
  BY <1>1, <1>2, PTL DEF StoreQuerySpec

\* Pages that end and a report that says complete have every row as often as it is
\* there, for any table, query and page sizes, unless records changed between.
THEOREM CompleteIsAll == StoreQuerySpec => []CompleteMeansAll
<1> USE StoreQueryAssumption
<1>1. QueryInv => CompleteMeansAll
  <2> SUFFICES ASSUME QueryInv, reading.query # Absent, reading.complete, ~reading.changed
               PROVE  /\ Len(reading.rows) = Total(reading.query)
                      /\ \A k \in Keys(reading.query) :
                           Cardinality({i \in DOMAIN reading.rows : reading.rows[i] = Row(reading.query, k)})
                             = Cardinality({m \in Keys(reading.query) : Row(reading.query, m) = Row(reading.query, k)})
    BY DEF CompleteMeansAll
  <2>1. PICK q, soFar : q = reading.query /\ soFar = reading.rows
    OBVIOUS
  <2>2. table \in Table /\ q \in Queries /\ Len(soFar) = Total(q)
    BY <2>1 DEF QueryInv, ReadSoFar
  <2>3. PICK s \in Sorted(q) : FirstOf(q, s, soFar)
    BY <2>1 DEF QueryInv, ReadSoFar
  <2>4. ASSUME NEW k \in Keys(q)
        PROVE  Cardinality({i \in DOMAIN soFar : soFar[i] = Row(q, k)})
                 = Cardinality({m \in Keys(q) : Row(q, m) = Row(q, k)})
    <3> DEFINE A == {i \in DOMAIN soFar : soFar[i] = Row(q, k)}
    <3>1. DOMAIN soFar = 1 .. Total(q) /\ \A i \in 1 .. Total(q) : soFar[i] = Row(q, s[i])
      BY <2>2, <2>3 DEF FirstOf
    <3>2. A = Places(q, s, Row(q, k))
      BY <3>1 DEF Places
    <3>3. Cardinality(Places(q, s, Row(q, k))) = Cardinality(Origins(q, Row(q, k)))
      BY <2>2, CountRows
    <3> QED
      BY <3>2, <3>3 DEF Origins
  <2> QED
    BY <2>1, <2>2, <2>4
<1> QED
  BY <1>1, QueryInvariance, PTL
=============================================================================
