---------------------------- MODULE TaskCreation ----------------------------
(***************************************************************************)
(* create_store_task: the approved call of domain_tools.py and the INSERT  *)
(* ... WHERE NOT EXISTS (task_key = @k) of backends/bigquery.py.           *)
(*                                                                         *)
(* The key is a hash of what is written, so a retry, a resumed call and    *)
(* the same request in another message aim at the same row.  BigQuery      *)
(* runs a statement on the snapshot it starts from and lets INSERTs into   *)
(* one table run side by side, and it goes on with a statement whose       *)
(* client timed out.  SerialInserts = TRUE is the backend of               *)
(* backends/fake.py, which looks for the key and appends in one step.      *)
(***************************************************************************)
EXTENDS Naturals

CONSTANTS
  Writes,         \* tasks to create: type, product, assignee, note, deadline
  Calls,          \* concurrent approved calls, each able to repeat
  SerialInserts,  \* do INSERTs wait for one another?
  MaxRows,        \* bound: copies of a row counted
  None

ASSUME CreationAssumption ==
  /\ None \notin Writes
  /\ SerialInserts \in BOOLEAN
  /\ MaxRows \in Nat \ {0}

VARIABLES
  rows,       \* rows with the key of each write
  stage, want, reply,
  statement,  \* the INSERT of each call: "none", "queued", "absent" (its
              \* snapshot had no such row) or "present"
  created     \* history: answers "created" for each write

vars == <<rows, stage, want, reply, statement, created>>

Init ==
  /\ rows = [w \in Writes |-> 0]
  /\ stage = [c \in Calls |-> "ready"]
  /\ want = [c \in Calls |-> None]
  /\ reply = [c \in Calls |-> "none"]
  /\ statement = [c \in Calls |-> "none"]
  /\ created = [w \in Writes |-> 0]

Capped(n) == IF n < MaxRows THEN n + 1 ELSE n

\* A confirmed call: the write is counted and the statement submitted.
Approve(c, w) ==
  /\ stage[c] = "ready"
  /\ statement[c] = "none"
  /\ stage' = [stage EXCEPT ![c] = "inserting"]
  /\ want' = [want EXCEPT ![c] = w]
  /\ reply' = [reply EXCEPT ![c] = "none"]
  /\ statement' = [statement EXCEPT ![c] = "queued"]
  /\ UNCHANGED <<rows, created>>

Running(c) == statement[c] \in {"absent", "present"}

NeverLooks(w) == "absent"

\* What the subquery finds in the statement's snapshot.
Snapshot(w) == IF rows[w] = 0 THEN "absent" ELSE "present"

StartInsert(c) ==
  /\ statement[c] = "queued"
  /\ SerialInserts => \A d \in Calls : ~Running(d)
  /\ statement' = [statement EXCEPT ![c] = Snapshot(want[c])]
  /\ UNCHANGED <<rows, stage, want, reply, created>>

\* Only a call that still waits hears of its statement.
Wake(c, s) ==
  stage' = IF stage[c] = "inserting" THEN [stage EXCEPT ![c] = s] ELSE stage

\* The statement ends; the call that waits for it learns the row count.
EndInsert(c) ==
  /\ Running(c)
  /\ rows' = [rows EXCEPT ![want[c]] =
                IF statement[c] = "absent" THEN Capped(@) ELSE @]
  /\ Wake(c, IF statement[c] = "absent" THEN "inserted" ELSE "found")
  /\ statement' = [statement EXCEPT ![c] = "none"]
  /\ UNCHANGED <<want, reply, created>>

\* A submission that BigQuery refused, or a statement it gave up.
InsertFails(c) ==
  /\ statement[c] # "none"
  /\ Wake(c, "ready")
  /\ reply' = IF stage[c] = "inserting" THEN [reply EXCEPT ![c] = "failed"] ELSE reply
  /\ statement' = [statement EXCEPT ![c] = "none"]
  /\ UNCHANGED <<rows, want, created>>

\* job.result timed out: the agent reads an error, the job goes on.
TimeOut(c) ==
  /\ stage[c] = "inserting"
  /\ stage' = [stage EXCEPT ![c] = "ready"]
  /\ reply' = [reply EXCEPT ![c] = "failed"]
  /\ UNCHANGED <<rows, want, statement, created>>

\* The row is read back by its key; the read may fail.
ReadBack(c) ==
  /\ stage[c] \in {"inserted", "found"}
  /\ stage' = [stage EXCEPT ![c] = "ready"]
  /\ \/ /\ reply' = [reply EXCEPT ![c] =
                       IF stage[c] = "inserted" THEN "created" ELSE "already_created"]
        /\ created' = IF stage[c] = "inserted"
                      THEN [created EXCEPT ![want[c]] = Capped(@)] ELSE created
     \/ reply' = [reply EXCEPT ![c] = "failed"] /\ UNCHANGED created
  /\ UNCHANGED <<rows, want, statement>>

Next ==
  \E c \in Calls :
    \/ \E w \in Writes : Approve(c, w)
    \/ StartInsert(c)
    \/ EndInsert(c)
    \/ InsertFails(c)
    \/ TimeOut(c)
    \/ ReadBack(c)

Spec == Init /\ [][Next]_vars

-----------------------------------------------------------------------------
TypeOK ==
  /\ rows \in [Writes -> 0..MaxRows]
  /\ stage \in [Calls -> {"ready", "inserting", "inserted", "found"}]
  /\ want \in [Calls -> Writes \cup {None}]
  /\ reply \in [Calls -> {"none", "created", "already_created", "failed"}]
  /\ statement \in [Calls -> {"none", "queued", "absent", "present"}]
  /\ created \in [Writes -> 0..MaxRows]
  /\ \A c \in Calls :
       /\ stage[c] = "inserting" => statement[c] # "none"
       /\ statement[c] # "none" \/ stage[c] # "ready" => want[c] # None

\* "A retry inserts nothing and reads the original row": a write has one row
\* however often it is approved, repeated or timed out.
OneRowPerKey == \A w \in Writes : rows[w] <= 1

\* Only one of the calls that ask for the same task is told it created it,
\* and whoever is told so, or told it exists, can find it.
AnsweredOnce ==
  /\ \A w \in Writes : created[w] <= rows[w] /\ created[w] <= 1
  /\ \A c \in Calls : reply[c] = "already_created" => rows[want[c]] > 0
=============================================================================
