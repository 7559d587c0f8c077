-------------------------- MODULE StoreTasks_proofs --------------------------
(***************************************************************************)
(* Proofs about StoreTasks, for any number of tasks, associates, managers  *)
(* and reports, and any number of statements that run on without a client. *)
(*                                                                         *)
(* The invariant says what a call knows between two of its statements: the *)
(* count of its UPDATE is worth something later only because a closed task *)
(* never changes again.                                                    *)
(***************************************************************************)
EXTENDS StoreTasks, TLAPS

RowInv ==
  \A t \in Tasks :
    /\ status[t] = "done" => doneBy[t] = assignee[t]
    /\ doneBy[t] # None => status[t] = "done"
    /\ \A b \in Blockers : reports[t][b] <= 1

CallInv ==
  \A u \in Users :
    /\ stage[u] \notin {"ready", "rejected"} => call[u] \in Calls(u)
    /\ stage[u] = "reading" => call[u].tool = "delegate"

AnswerInvOf(u) ==
  LET c == call[u] IN
    /\ stage[u] = "rereading" /\ changed[u] /\ c.tool = "complete" =>
         status[c.task] = "done" /\ doneBy[c.task] = c.who
    /\ stage[u] = "rereading" /\ ~changed[u] /\ c.tool = "delegate" =>
         status[c.task] # "open"
    /\ c.tool = "complete" /\ reply[u] \in {"done", "already"} =>
         status[c.task] = "done" /\ doneBy[c.task] = c.who
    /\ reply[u] # "not_found"

AnswerInv == \A u \in Users : AnswerInvOf(u)

BudgetInv ==
  \A u \in Users :
    /\ issued[u] <= writes[u]
    /\ stage[u] = "reading" => issued[u] < writes[u]
    /\ stage[u] \in {"updating", "rereading"} => issued[u] >= 1

IInv == TypeOK /\ RowInv /\ CallInv /\ AnswerInv /\ BudgetInv

-----------------------------------------------------------------------------
(* What a statement does to the rows.                                      *)

\* The fields of a call, and that an associate's call names the associate.
LEMMA CallFields ==
  ASSUME NEW u \in Users, NEW c \in Calls(u)
  PROVE  /\ c.task \in Tasks
         /\ c.who \in People
         /\ c.tool \in {"delegate", "complete", "report"}
         /\ c.tool = "report" => c.text \in Blockers
         /\ c.tool # "delegate" => c.who = u
         /\ c # NoCall
  <1>1. CASE u \in Managers
    BY <1>1 DEF Calls, DelegateCalls, NoCall
  <1>2. CASE u \notin Managers /\ c \in CompleteCalls(u)
    BY <1>2 DEF CompleteCalls, NoCall, Users
  <1>3. CASE u \notin Managers /\ c \in ReportCalls(u)
    BY <1>3 DEF ReportCalls, NoCall, Users
  <1> QED
    BY <1>1, <1>2, <1>3 DEF Calls

\* "none" is no tool.
LEMMA NoCallFields == NoCall.tool = "none"
  BY DEF NoCall

RowType ==
  /\ status \in [Tasks -> {"open", "done", "cancelled"}]
  /\ assignee \in [Tasks -> People \cup {None}]
  /\ delegation \in [Tasks -> People \cup {None}]
  /\ reports \in [Tasks -> [Blockers -> 0..2]]
  /\ doneBy \in [Tasks -> People \cup {None}]

\* A row that is not open stays as it is.
Frozen ==
  \A t \in Tasks :
    status[t] # "open" =>
      /\ status'[t] = status[t]
      /\ assignee'[t] = assignee[t]
      /\ reports'[t] = reports[t]
      /\ doneBy'[t] = doneBy[t]

\* A statement keeps the row invariant, leaves closed rows alone and tells
\* by its count what became of the task it names.
LEMMA UpdateStep ==
  ASSUME RowType, RowInv, NEW u \in Users, NEW c \in Calls(u), Update(c)
  PROVE  /\ RowType' /\ RowInv' /\ Frozen
         /\ Matches(c) /\ c.tool = "complete" =>
              status'[c.task] = "done" /\ doneBy'[c.task] = c.who
         /\ ~Matches(c) /\ c.tool = "delegate" => status'[c.task] # "open"
  <1> USE CallFields
  <1>1. CASE ~Matches(c)
    <2>1. UNCHANGED rows
      BY <1>1 DEF Update
    <2> QED
      BY <1>1, <2>1 DEF rows, RowType, RowInv, Frozen, Matches
  <1>2. CASE Matches(c) /\ c.tool = "delegate"
    <2>1. /\ assignee' = [assignee EXCEPT ![c.task] = c.who]
          /\ delegation' = [delegation EXCEPT ![c.task] = c.who]
          /\ UNCHANGED <<status, reports, doneBy>>
      BY <1>2 DEF Update, SetColumns
    <2>2. status[c.task] = "open"
      BY <1>2 DEF Matches
    <2> QED
      BY <1>2, <2>1, <2>2 DEF RowType, RowInv, Frozen
  <1>3. CASE Matches(c) /\ c.tool = "complete"
    <2>1. /\ status' = [status EXCEPT ![c.task] = "done"]
          /\ doneBy' = [doneBy EXCEPT ![c.task] = c.who]
          /\ UNCHANGED <<assignee, delegation, reports>>
      BY <1>3 DEF Update, SetColumns
    <2>2. status[c.task] = "open" /\ assignee[c.task] = c.who
      BY <1>3 DEF Matches
    <2> QED
      BY <1>3, <2>1, <2>2 DEF RowType, RowInv, Frozen
  <1>4. CASE Matches(c) /\ c.tool = "report"
    <2>1. /\ reports' = [reports EXCEPT ![c.task][c.text] = IF @ = 0 THEN 1 ELSE 2]
          /\ UNCHANGED <<status, assignee, delegation, doneBy>>
      BY <1>4 DEF Update, SetColumns
    <2>2. status[c.task] = "open" /\ reports[c.task][c.text] = 0 /\ c.text \in Blockers
      BY <1>4 DEF Matches
    <2>3. reports' \in [Tasks -> [Blockers -> 0..2]]
      BY <2>1, <2>2 DEF RowType
    <2>4. \A t \in Tasks, b \in Blockers : reports'[t][b] <= 1
      BY <2>1, <2>2 DEF RowType, RowInv
    <2>5. \A t \in Tasks : t # c.task => reports'[t] = reports[t]
      BY <2>1 DEF RowType
    <2> QED
      BY <1>4, <2>1, <2>2, <2>3, <2>4, <2>5 DEF RowType, RowInv, Frozen
  <1> QED
    BY <1>1, <1>2, <1>3, <1>4

-----------------------------------------------------------------------------
(* The inductive invariant.                                                *)

\* Nothing is written, asked or answered yet.
LEMMA InitIInv == Init => IInv
  BY DEF Init, IInv, TypeOK, RowInv, CallInv, AnswerInv, AnswerInvOf, BudgetInv,
         AnyCall, NoCall, Stages, Replies, WritesPerRequest

\* What a call knows stays true while others change the rows.
LEMMA AnswerKept ==
  ASSUME TypeOK, Frozen, NEW v \in Users, AnswerInvOf(v),
         call'[v] = call[v], stage'[v] = stage[v], reply'[v] = reply[v],
         changed'[v] = changed[v]
  PROVE  AnswerInvOf(v)'
  <1>1. CASE call[v] = NoCall
    BY <1>1, NoCallFields DEF AnswerInvOf
  <1>2. CASE call[v] \in Calls(v)
    <2>1. call[v].task \in Tasks
      BY <1>2, CallFields
    <2> QED
      BY <2>1 DEF AnswerInvOf, Frozen
  <1> QED
    BY <1>1, <1>2 DEF TypeOK

\* The same when the rows stay as they are.
LEMMA RowsKept ==
  ASSUME TypeOK, RowInv, UNCHANGED rows
  PROVE  RowType' /\ RowInv' /\ Frozen
  BY DEF TypeOK, RowType, RowInv, Frozen, rows

\* What Check answers, and that "already" is true of a completion.
LEMMA CheckValue ==
  ASSUME TypeOK, RowInv, NEW u \in Users, NEW c \in Calls(u)
  PROVE  /\ Check(u, c) \in Replies \ {"done", "not_found", "none"}
         /\ c.tool = "complete" /\ Check(u, c) = "already" =>
              status[c.task] = "done" /\ doneBy[c.task] = c.who
         /\ Check(u, c) = "pending" => writes[u] < WritesPerRequest
  BY CallFields DEF Check, Mine, BudgetSpent, TypeOK, RowInv, Replies,
                    WritesPerRequest

\* A call of u is a call.
LEMMA CallIsTyped == \A u \in Users : Calls(u) \cup {NoCall} \subseteq AnyCall
  BY DEF AnyCall

\* A step of u is an answer, another stage or another call of u alone.
LEMMA OthersKept ==
  ASSUME TypeOK, RowType', Frozen, AnswerInv, NEW u \in Users, AnswerInvOf(u)',
         \A v \in Users \ {u} :
           /\ call'[v] = call[v] /\ stage'[v] = stage[v]
           /\ reply'[v] = reply[v] /\ changed'[v] = changed[v]
  PROVE  AnswerInv'
  <1> SUFFICES ASSUME NEW v \in Users PROVE AnswerInvOf(v)'
    BY DEF AnswerInv
  <1>1. CASE v = u
    BY <1>1
  <1>2. CASE v # u
    BY <1>2, AnswerKept DEF AnswerInv
  <1> QED
    BY <1>1, <1>2

\* The agent's call of a tool.
LEMMA CallToolStep ==
  ASSUME IInv, NEW u \in Users, NEW c \in Calls(u), CallTool(u, c)
  PROVE  IInv' /\ Frozen
  <1>1. RowType' /\ RowInv' /\ Frozen
    BY RowsKept DEF IInv, CallTool
  <1>2. /\ call' = [call EXCEPT ![u] = c]
        /\ reply' = [reply EXCEPT ![u] = Check(u, c)]
        /\ \E s \in {"asking", "ready"} : stage' = [stage EXCEPT ![u] = s]
        /\ UNCHANGED <<rows, writes, changed, issued, late>>
    BY DEF CallTool, Say, Goto
  <1>3. TypeOK'
    BY <1>1, <1>2, CheckValue, CallIsTyped DEF IInv, TypeOK, RowType, Stages
  <1>4. CallInv'
    BY <1>2 DEF IInv, CallInv, TypeOK
  <1>5. AnswerInvOf(u)'
    BY <1>2, CheckValue DEF IInv, TypeOK, AnswerInvOf, rows
  <1>6. AnswerInv'
    BY <1>1, <1>2, <1>5, OthersKept DEF IInv, TypeOK
  <1>7. BudgetInv'
    BY <1>2 DEF IInv, BudgetInv, TypeOK
  <1> QED
    BY <1>1, <1>3, <1>4, <1>6, <1>7 DEF IInv

\* A rejection.
LEMMA RejectStep ==
  ASSUME IInv, NEW u \in Users, Reject(u)
  PROVE  IInv' /\ Frozen
  <1>1. RowType' /\ RowInv' /\ Frozen
    BY RowsKept DEF IInv, Reject
  <1>2. /\ stage[u] = "asking"
        /\ stage' = [stage EXCEPT ![u] = "rejected"]
        /\ UNCHANGED <<rows, call, writes, changed, reply, issued, late>>
    BY DEF Reject, Goto
  <1>3. TypeOK'
    BY <1>1, <1>2 DEF IInv, TypeOK, RowType, Stages
  <1>4. CallInv'
    BY <1>2 DEF IInv, CallInv, TypeOK, Calls, CompleteCalls, ReportCalls, DelegateCalls
  <1>5. AnswerInvOf(u)'
    BY <1>2 DEF IInv, TypeOK, AnswerInv, AnswerInvOf, rows
  <1>6. AnswerInv'
    BY <1>1, <1>2, <1>5, OthersKept DEF IInv, TypeOK
  <1>7. BudgetInv'
    BY <1>2 DEF IInv, BudgetInv, TypeOK
  <1> QED
    BY <1>1, <1>3, <1>4, <1>6, <1>7 DEF IInv

\* The next message of a person.
LEMMA NewInvocationStep ==
  ASSUME IInv, NEW u \in Users, NewInvocation(u)
  PROVE  IInv' /\ Frozen
  <1>1. RowType' /\ RowInv' /\ Frozen
    BY RowsKept DEF IInv, NewInvocation
  <1>2. TypeOK'
    BY <1>1, CallIsTyped DEF IInv, TypeOK, RowType, NewInvocation, Stages, Replies, WritesPerRequest
  <1>3. CallInv'
    BY DEF IInv, CallInv, TypeOK, NewInvocation
  <1>4. AnswerInvOf(u)'
    BY NoCallFields DEF IInv, TypeOK, AnswerInvOf, NewInvocation
  <1>5. AnswerInv'
    BY <1>1, <1>4, OthersKept DEF IInv, TypeOK, NewInvocation
  <1>6. BudgetInv'
    BY DEF IInv, BudgetInv, TypeOK, NewInvocation
  <1> QED
    BY <1>1, <1>2, <1>3, <1>5, <1>6 DEF IInv

\* Submitting adds one to a count that is below the budget.
LEMMA SubmitValue ==
  ASSUME TypeOK, NEW u \in Users, issued[u] < WritesPerRequest, Submit(u)
  PROVE  /\ issued' = [issued EXCEPT ![u] = issued[u] + 1]
         /\ stage' = [stage EXCEPT ![u] = "updating"]
  <1>1. ~(issued[u] > WritesPerRequest)
    BY DEF TypeOK, WritesPerRequest
  <1> QED
    BY <1>1 DEF Submit, Goto

\* The confirmed call, run again.
LEMMA ApproveStep ==
  ASSUME IInv, NEW u \in Users, Approve(u)
  PROVE  IInv' /\ Frozen
  <1>1. RowType' /\ RowInv' /\ Frozen
    BY RowsKept DEF IInv, Approve
  <1>2. call[u] \in Calls(u)
    BY DEF IInv, CallInv, Approve
  <1>3. /\ reply' = [reply EXCEPT ![u] = Check(u, call[u])]
        /\ UNCHANGED <<rows, call, changed, late>>
    BY DEF Approve, Say
  <1>4. CASE Check(u, call[u]) # "pending"
    <2>1. stage' = [stage EXCEPT ![u] = "answered"] /\ UNCHANGED <<writes, issued>>
      BY <1>4 DEF Approve, Goto
    <2>2. TypeOK'
      BY <1>1, <1>2, <1>3, <2>1, CheckValue DEF IInv, TypeOK, RowType, Stages
    <2>3. CallInv'
      BY <1>2, <1>3, <2>1 DEF IInv, CallInv, TypeOK
    <2>4. AnswerInvOf(u)'
      BY <1>2, <1>3, <2>1, CheckValue DEF IInv, TypeOK, AnswerInvOf, rows
    <2>5. AnswerInv'
      BY <1>1, <1>3, <2>1, <2>4, OthersKept DEF IInv, TypeOK
    <2>6. BudgetInv'
      BY <2>1 DEF IInv, BudgetInv, TypeOK
    <2> QED
      BY <1>1, <2>2, <2>3, <2>5, <2>6 DEF IInv
  <1>5. CASE Check(u, call[u]) = "pending"
    <2>1. writes[u] < WritesPerRequest /\ issued[u] <= writes[u]
      BY <1>2, <1>5, CheckValue DEF IInv, BudgetInv
    <2>2. writes' = [writes EXCEPT ![u] = @ + 1]
      BY <1>5 DEF Approve, CountWrite
    <2>3. \/ /\ call[u].tool = "delegate"
             /\ stage' = [stage EXCEPT ![u] = "reading"]
             /\ issued' = issued
          \/ /\ stage' = [stage EXCEPT ![u] = "updating"]
             /\ issued' = [issued EXCEPT ![u] = issued[u] + 1]
      <3>1. issued[u] < WritesPerRequest
        BY <2>1 DEF IInv, TypeOK, WritesPerRequest
      <3>2. \/ call[u].tool = "delegate" /\ Goto(u, "reading") /\ UNCHANGED issued
            \/ Submit(u)
        BY <1>5 DEF Approve
      <3> QED
        BY <3>1, <3>2, SubmitValue DEF IInv, Goto
    <2>4. TypeOK'
      <3>1. writes' \in [Users -> 0..WritesPerRequest]
        <4>1. writes \in [Users -> 0..WritesPerRequest] /\ WritesPerRequest \in Nat
          BY DEF IInv, TypeOK, WritesPerRequest
        <4>2. writes[u] + 1 \in 0..WritesPerRequest
          BY <2>1, <4>1
        <4> QED
          BY <2>2, <4>1, <4>2
      <3>2. issued' \in [Users -> Nat] /\ stage' \in [Users -> Stages]
        <4>1. issued \in [Users -> Nat] /\ stage \in [Users -> Stages]
          BY DEF IInv, TypeOK
        <4>2. issued[u] + 1 \in Nat /\ {"reading", "updating"} \subseteq Stages
          BY <4>1 DEF Stages
        <4> QED
          BY <2>3, <4>1, <4>2
      <3>3. reply' \in [Users -> Replies]
        BY <1>3, <1>5 DEF IInv, TypeOK, Replies
      <3> QED
        BY <1>1, <1>3, <3>1, <3>2, <3>3 DEF IInv, TypeOK, RowType
    <2>5. CallInv'
      BY <1>2, <1>3, <2>3 DEF IInv, CallInv, TypeOK
    <2>6. AnswerInvOf(u)'
      BY <1>2, <1>3, <1>5, <2>3 DEF IInv, TypeOK, AnswerInvOf, rows
    <2>7. AnswerInv'
      BY <1>1, <1>3, <2>3, <2>6, OthersKept DEF IInv, TypeOK
    <2>8. BudgetInv'
      BY <2>1, <2>2, <2>3 DEF IInv, BudgetInv, TypeOK, WritesPerRequest
    <2> QED
      BY <1>1, <2>4, <2>5, <2>7, <2>8 DEF IInv
  <1> QED
    BY <1>4, <1>5

\* An answer that says nothing of a completion, with the rows left alone.
LEMMA AnswerStep ==
  ASSUME IInv, NEW u \in Users, NEW r \in {"already", "conflict", "failed"},
         Answer(u, r), r = "already" => call[u].tool # "complete",
         stage[u] \in {"reading", "updating", "rereading"},
         NEW x \in Calls(u) \cup {NoCall}, late' \in {late, [late EXCEPT ![u] = x]},
         UNCHANGED <<rows, call, writes, issued>>
  PROVE  IInv' /\ Frozen
  <1>1. RowType' /\ RowInv' /\ Frozen
    BY RowsKept DEF IInv
  <1>2. /\ reply' = [reply EXCEPT ![u] = r]
        /\ stage' = [stage EXCEPT ![u] = "answered"]
        /\ changed' = [changed EXCEPT ![u] = FALSE]
    BY DEF Answer, Goto, Say
  <1>3. late' \in [Users -> AnyCall] /\ \A v \in Users : late'[v] \in {late[v], IF v = u THEN x ELSE late[v]}
    BY CallIsTyped DEF IInv, TypeOK
  <1>4. TypeOK'
    <2>1. \A v \in Users : {call'[v], late'[v]} \subseteq Calls(v) \cup {NoCall}
      BY <1>3 DEF IInv, TypeOK
    <2>2. /\ stage' \in [Users -> Stages] /\ reply' \in [Users -> Replies]
          /\ changed' \in [Users -> BOOLEAN]
      BY <1>2 DEF IInv, TypeOK, Stages, Replies
    <2> QED
      BY <1>1, <1>3, <2>1, <2>2 DEF IInv, TypeOK, RowType
  <1>5. CallInv'
    BY <1>2 DEF IInv, CallInv, TypeOK
  <1>6. AnswerInvOf(u)'
    BY <1>2 DEF IInv, TypeOK, AnswerInvOf
  <1>7. AnswerInv'
    BY <1>1, <1>2, <1>6, OthersKept DEF IInv, TypeOK
  <1>8. BudgetInv'
    BY <1>2 DEF IInv, BudgetInv, TypeOK
  <1> QED
    BY <1>1, <1>4, <1>5, <1>7, <1>8 DEF IInv

\* A call whose statement raised: its UPDATE and its count go together.
LEMMA RaiseStep ==
  ASSUME IInv, NEW u \in Users, Raise(u), stage[u] \in {"updating", "rereading"},
         NEW x \in Calls(u), late' \in {late, [late EXCEPT ![u] = x]},
         UNCHANGED <<rows, call>>
  PROVE  IInv' /\ Frozen
  <1>1. RowType' /\ RowInv' /\ Frozen
    BY RowsKept DEF IInv
  <1>2. /\ reply' = [reply EXCEPT ![u] = "failed"]
        /\ stage' = [stage EXCEPT ![u] = "raised"]
        /\ changed' = [changed EXCEPT ![u] = FALSE]
        /\ writes' = [writes EXCEPT ![u] = writes[u] - 1]
        /\ issued' = [issued EXCEPT ![u] = issued[u] - 1]
    BY DEF Raise, Goto, Say
  <1>3. late' \in [Users -> AnyCall] /\ \A v \in Users : late'[v] \in {late[v], IF v = u THEN x ELSE late[v]}
    BY CallIsTyped DEF IInv, TypeOK
  <1>4. /\ issued \in [Users -> Nat] /\ writes \in [Users -> 0..WritesPerRequest]
        /\ issued[u] >= 1 /\ issued[u] <= writes[u] /\ WritesPerRequest \in Nat
    BY DEF IInv, TypeOK, BudgetInv, WritesPerRequest
  <1>5. TypeOK'
    <2>1. \A v \in Users : {call'[v], late'[v]} \subseteq Calls(v) \cup {NoCall}
      BY <1>3 DEF IInv, TypeOK
    <2>2. /\ stage' \in [Users -> Stages] /\ reply' \in [Users -> Replies]
          /\ changed' \in [Users -> BOOLEAN]
      BY <1>2 DEF IInv, TypeOK, Stages, Replies
    <2>3. issued[u] - 1 \in Nat /\ writes[u] - 1 \in 0..WritesPerRequest
      BY <1>4
    <2>4. issued' \in [Users -> Nat] /\ writes' \in [Users -> 0..WritesPerRequest]
      BY <1>2, <1>4, <2>3
    <2> QED
      BY <1>1, <1>3, <2>1, <2>2, <2>4 DEF IInv, TypeOK, RowType
  <1>6. CallInv'
    BY <1>2 DEF IInv, CallInv, TypeOK
  <1>7. AnswerInvOf(u)'
    BY <1>2 DEF IInv, TypeOK, AnswerInvOf
  <1>8. AnswerInv'
    BY <1>1, <1>2, <1>7, OthersKept DEF IInv, TypeOK
  <1>9. BudgetInv'
    BY <1>2, <1>4 DEF IInv, BudgetInv, TypeOK
  <1> QED
    BY <1>1, <1>5, <1>6, <1>8, <1>9 DEF IInv

\* A statement that failed or was abandoned.
LEMMA FailStep ==
  ASSUME IInv, NEW u \in Users, StatementFails(u) \/ AbandonUpdate(u)
  PROVE  IInv' /\ Frozen
  <1>1. call[u] \in Calls(u) /\ (stage[u] = "reading" => call[u].tool = "delegate")
    BY DEF IInv, CallInv, StatementFails, AbandonUpdate
  <1>2. /\ stage[u] \in {"reading", "updating", "rereading"}
        /\ late' \in {late, [late EXCEPT ![u] = call[u]]}
        /\ UNCHANGED <<rows, call>>
        /\ Fail(u)
    BY DEF StatementFails, AbandonUpdate
  <1>3. CASE Answer(u, "failed") /\ UNCHANGED <<writes, issued>>
    BY <1>1, <1>2, <1>3, AnswerStep
  <1>4. CASE call[u].tool # "delegate" /\ Raise(u)
    <2>1. stage[u] \in {"updating", "rereading"}
      BY <1>1, <1>2, <1>4
    <2> QED
      BY <1>1, <1>2, <1>4, <2>1, RaiseStep
  <1> QED
    BY <1>2, <1>3, <1>4 DEF Fail

\* delegate_task's first read.
LEMMA ReadTaskStep ==
  ASSUME IInv, NEW u \in Users, ReadTask(u)
  PROVE  IInv' /\ Frozen
  <1>1. call[u] \in Calls(u) /\ call[u].tool = "delegate"
    BY DEF IInv, CallInv, ReadTask
  <1>2. CASE \E r \in {"already", "conflict"} : Answer(u, r) /\ UNCHANGED issued
    <2>1. PICK r \in {"already", "conflict"} : Answer(u, r) /\ UNCHANGED issued
      BY <1>2
    <2>2. UNCHANGED <<rows, call, writes, late>> /\ stage[u] = "reading"
      BY DEF ReadTask
    <2> QED
      BY <1>1, <2>1, <2>2, AnswerStep
  <1>3. CASE Submit(u) /\ UNCHANGED <<reply, changed>>
    <2>1. RowType' /\ RowInv' /\ Frozen
      BY RowsKept DEF IInv, ReadTask
    <2>2. UNCHANGED <<rows, call, writes, late>> /\ stage[u] = "reading"
      BY DEF ReadTask
    <2>3. issued[u] < writes[u] /\ issued[u] < WritesPerRequest
      BY <2>2 DEF IInv, BudgetInv, TypeOK, WritesPerRequest
    <2>4. /\ issued' = [issued EXCEPT ![u] = issued[u] + 1]
          /\ stage' = [stage EXCEPT ![u] = "updating"]
      BY <1>3, <2>3, SubmitValue DEF IInv
    <2>5. TypeOK'
      BY <1>3, <2>1, <2>2, <2>4 DEF IInv, TypeOK, RowType, Stages
    <2>6. CallInv'
      BY <1>1, <2>2, <2>4 DEF IInv, CallInv, TypeOK
    <2>7. AnswerInvOf(u)'
      BY <1>1, <1>3, <2>2, <2>4 DEF IInv, TypeOK, AnswerInv, AnswerInvOf, rows
    <2>8. AnswerInv'
      BY <1>3, <2>1, <2>2, <2>4, <2>7, OthersKept DEF IInv, TypeOK
    <2>9. BudgetInv'
      BY <2>2, <2>3, <2>4 DEF IInv, BudgetInv, TypeOK
    <2> QED
      BY <2>1, <2>5, <2>6, <2>8, <2>9 DEF IInv
  <1> QED
    BY <1>2, <1>3 DEF ReadTask

\* An UPDATE whose client waits for it.
LEMMA RunUpdateStep ==
  ASSUME IInv, NEW u \in Users, RunUpdate(u)
  PROVE  IInv' /\ Frozen
  <1> DEFINE c == call[u]
  <1>1. /\ c \in Calls(u)
        /\ Update(c)
        /\ changed' = [changed EXCEPT ![u] = Matches(c)]
        /\ stage[u] = "updating"
        /\ stage' = [stage EXCEPT ![u] = "rereading"]
        /\ UNCHANGED <<call, writes, reply, issued, late>>
    BY DEF IInv, CallInv, RunUpdate, Goto
  <1>2. /\ RowType' /\ RowInv' /\ Frozen
        /\ Matches(c) /\ c.tool = "complete" =>
             status'[c.task] = "done" /\ doneBy'[c.task] = c.who
        /\ ~Matches(c) /\ c.tool = "delegate" => status'[c.task] # "open"
    <2>1. RowType /\ RowInv
      BY DEF IInv, TypeOK, RowType
    <2> HIDE DEF c
    <2> QED
      BY <1>1, <2>1, UpdateStep
  <1>3. c.task \in Tasks
    BY <1>1, CallFields
  <1>4. Matches(c) \in BOOLEAN
    BY DEF Matches
  <1>5. TypeOK'
    <2>1. changed' \in [Users -> BOOLEAN]
      BY <1>1, <1>4 DEF IInv, TypeOK
    <2> QED
      BY <1>1, <1>2, <2>1 DEF IInv, TypeOK, RowType, Stages
  <1>6. CallInv'
    BY <1>1 DEF IInv, CallInv, TypeOK
  <1>7. AnswerInvOf(u)'
    <2>1. AnswerInvOf(u)
      BY DEF IInv, AnswerInv
    <2>2. call'[u] = c /\ reply'[u] = reply[u] /\ changed'[u] = Matches(c)
      BY <1>1 DEF IInv, TypeOK
    <2> QED
      BY <1>2, <1>3, <2>1, <2>2 DEF AnswerInvOf, Frozen
  <1>8. AnswerInv'
    BY <1>1, <1>2, <1>7, OthersKept DEF IInv, TypeOK
  <1>9. BudgetInv'
    BY <1>1 DEF IInv, BudgetInv, TypeOK
  <1> QED
    BY <1>2, <1>5, <1>6, <1>8, <1>9 DEF IInv

\* An UPDATE nobody waits for.
LEMMA LateUpdateStep ==
  ASSUME IInv, NEW u \in Users, LateUpdate(u)
  PROVE  IInv' /\ Frozen
  <1>1. /\ late[u] \in Calls(u)
        /\ Update(late[u])
        /\ late' = [late EXCEPT ![u] = NoCall]
        /\ UNCHANGED <<stage, call, writes, changed, reply, issued>>
    BY DEF IInv, TypeOK, LateUpdate, Late, invocation
  <1>2. RowType' /\ RowInv' /\ Frozen
    <2>1. RowType /\ RowInv
      BY DEF IInv, TypeOK, RowType
    <2> QED
      BY <1>1, <2>1, UpdateStep
  <1>3. TypeOK'
    BY <1>1, <1>2, CallIsTyped DEF IInv, TypeOK, RowType
  <1>4. CallInv' /\ BudgetInv'
    BY <1>1 DEF IInv, CallInv, BudgetInv
  <1>5. AnswerInv'
    BY <1>1, <1>2, AnswerKept DEF IInv, AnswerInv
  <1> QED
    BY <1>2, <1>3, <1>4, <1>5 DEF IInv

\* The answer taken from the row as it is now.
LEMMA RereadStep ==
  ASSUME IInv, NEW u \in Users, Reread(u)
  PROVE  IInv' /\ Frozen
  <1> DEFINE c == call[u]
  <1>1. /\ c \in Calls(u)
        /\ stage[u] = "rereading"
        /\ reply' = [reply EXCEPT ![u] = Outcome(u)]
        /\ stage' = [stage EXCEPT ![u] = "answered"]
        /\ changed' = [changed EXCEPT ![u] = FALSE]
        /\ UNCHANGED <<rows, call, writes, issued, late>>
    BY DEF IInv, CallInv, Reread, Answer, Goto, Say
  <1>2. RowType' /\ RowInv' /\ Frozen
    BY <1>1, RowsKept DEF IInv
  <1>3. /\ Outcome(u) \in {"done", "already", "conflict"}
        /\ c.tool = "complete" /\ Outcome(u) \in {"done", "already"} =>
             status[c.task] = "done" /\ doneBy[c.task] = c.who
    <2>1. /\ c.tool \in {"delegate", "complete", "report"} /\ c.task \in Tasks
      BY <1>1, CallFields
    <2>2. c.tool = "delegate" /\ ~changed[u] => status[c.task] # "open"
      BY <1>1 DEF IInv, AnswerInv, AnswerInvOf
    <2> QED
      BY <2>1, <2>2 DEF Outcome, Mine, IInv, RowInv
  <1>4. TypeOK'
    BY <1>1, <1>2, <1>3 DEF IInv, TypeOK, RowType, Stages, Replies
  <1>5. CallInv'
    BY <1>1 DEF IInv, CallInv, TypeOK
  <1>6. AnswerInvOf(u)'
    BY <1>1, <1>3 DEF IInv, TypeOK, AnswerInvOf, rows
  <1>7. AnswerInv'
    BY <1>1, <1>2, <1>6, OthersKept DEF IInv, TypeOK
  <1>8. BudgetInv'
    BY <1>1 DEF IInv, BudgetInv, TypeOK
  <1> QED
    BY <1>2, <1>4, <1>5, <1>7, <1>8 DEF IInv

\* Every step keeps the invariant and leaves closed rows alone.
LEMMA EveryStep ==
  ASSUME IInv, [Next]_vars
  PROVE  IInv' /\ Frozen
  <1>1. CASE UNCHANGED vars
    BY <1>1 DEF IInv, TypeOK, RowInv, CallInv, AnswerInv, AnswerInvOf, BudgetInv,
                Frozen, vars, rows, invocation
  <1>2. CASE Next
    <2>1. PICK u \in Users :
            \/ \E c \in Calls(u) : CallTool(u, c)
            \/ Reject(u) \/ Approve(u) \/ NewInvocation(u) \/ ReadTask(u)
            \/ RunUpdate(u) \/ Reread(u) \/ StatementFails(u)
            \/ AbandonUpdate(u) \/ LateUpdate(u)
      BY <1>2 DEF Next
    <2> QED
      BY <2>1, CallToolStep, RejectStep, ApproveStep, NewInvocationStep,
         ReadTaskStep, RunUpdateStep, RereadStep, FailStep, LateUpdateStep
  <1> QED
    BY <1>1, <1>2

\* The strengthened invariant holds in every reachable state.
THEOREM Invariance == Spec => []IInv
  <1>1. IInv /\ [Next]_vars => IInv'
    BY EveryStep
  <1> QED
    BY <1>1, InitIInv, PTL DEF Spec

-----------------------------------------------------------------------------
(* The properties the run checks on a small instance.                      *)

\* Every variable keeps its type.
THEOREM TypeCorrect == Spec => []TypeOK
  <1>1. IInv => TypeOK
    BY DEF IInv
  <1> QED
    BY <1>1, Invariance, PTL

\* Whoever completed a task is its assignee.
THEOREM OwnTasksOnly == Spec => []CompletedByAssignee
  <1>1. IInv => CompletedByAssignee
    BY DEF IInv, RowInv, CompletedByAssignee
  <1> QED
    BY <1>1, Invariance, PTL

\* Retries, repeated approvals and late statements append a report once.
THEOREM NoReportTwice == Spec => []ReportedOnce
  <1>1. IInv => ReportedOnce
    BY DEF IInv, RowInv, ReportedOnce
  <1> QED
    BY <1>1, Invariance, PTL

\* At most two changes of an invocation are answered or under way; those that
\* raised are not counted.
THEOREM BudgetHolds == Spec => []WithinBudget
  <1>1. IInv => WithinBudget
    BY DEF IInv, TypeOK, BudgetInv, WithinBudget, WritesPerRequest
  <1> QED
    BY <1>1, Invariance, PTL

\* What is said of a completion is true.
THEOREM TrueAnswers == Spec => []CompletionAnswerIsTrue
  <1>1. ASSUME IInv PROVE CompletionAnswerIsTrue
    <2> SUFFICES ASSUME NEW u \in People, call[u].tool = "complete"
                 PROVE  /\ reply[u] \in {"done", "already"} =>
                             status[call[u].task] = "done" /\ doneBy[call[u].task] = u
                        /\ stage[u] = "rereading" /\ changed[u] => Outcome(u) = "done"
      BY DEF CompletionAnswerIsTrue
    <2>1. u \in Users /\ call[u] \in Calls(u)
      BY <1>1, NoCallFields DEF IInv, TypeOK, Users
    <2>2. call[u].who = u /\ call[u].task \in Tasks
      BY <2>1, CallFields
    <2> QED
      BY <1>1, <2>1, <2>2 DEF IInv, RowInv, AnswerInv, AnswerInvOf, Outcome, Mine
  <1> QED
    BY <1>1, Invariance, PTL

\* A lost race is never blamed on the associate.
THEOREM RacesAreConflicts == Spec => []RaceIsNotNotFound
  <1>1. IInv => RaceIsNotNotFound
    BY DEF IInv, AnswerInv, AnswerInvOf, RaceIsNotNotFound
  <1> QED
    BY <1>1, Invariance, PTL

\* Answers of completions and of lost races agree with the rows.
THEOREM TrueToTheRow == Spec => []AnswersAreTrue
  BY TrueAnswers, RacesAreConflicts, PTL DEF AnswersAreTrue

\* A closed task never changes again.
THEOREM ClosedStaysClosed == Spec => ClosedTaskIsFrozen
  <1>1. IInv /\ [Next]_vars =>
          [\A t \in Tasks :
             status[t] # "open" =>
               /\ status'[t] = status[t]
               /\ assignee'[t] = assignee[t]
               /\ reports'[t] = reports[t]]_vars
    BY EveryStep DEF Frozen
  <1> QED
    BY <1>1, Invariance, PTL DEF Spec, ClosedTaskIsFrozen
=============================================================================
