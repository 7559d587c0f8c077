----------------------------- MODULE StoreTasks -----------------------------
(***************************************************************************)
(* Confirmed changes to store tasks: delegate_task (domain_tools.py),      *)
(* complete_my_task and report_my_task_blocker (personal_tools.py) over    *)
(* the rows of BigQueryBackend (backends/bigquery.py).                     *)
(*                                                                         *)
(* A tool reads the task, asks the person to confirm and, when resumed,    *)
(* runs again from the top.  Its backend call is a sequence of separate    *)
(* statements, so other people's calls come in between, and a statement    *)
(* whose client stopped waiting may still run later.                       *)
(***************************************************************************)
EXTENDS Naturals, FiniteSets

CONSTANTS
  Tasks,      \* tasks of one store
  People,     \* its associates
  Managers,   \* who may delegate
  Blockers,   \* texts of blocker reports
  MaxLate,    \* bound: statements running without a client at a time
  None

ASSUME RolesAssumption == People \cap Managers = {} /\ None \notin People

VARIABLES
  (* the store_tasks rows *)
  status, assignee,
  delegation,   \* delegation_key: whom the last delegation named
  reports,      \* how often each blocker report stands in the note
  (* one invocation at a time for each person *)
  stage, call,
  writes,       \* the invocation's "writes:<id>" state
  changed,      \* num_dml_affected_rows = 1, until the call has answered
  reply,
  (* BigQuery *)
  late,         \* a statement that runs on after its client gave up
  (* history *)
  issued,       \* UPDATEs of the invocation's calls, but not of those that raised
  doneBy        \* whose call completed the task; its assignee if loaded as done

rows == <<status, assignee, delegation, reports, doneBy>>
invocation == <<stage, call, writes, changed, reply, issued>>
vars == <<rows, invocation, late>>

Users == People \cup Managers
WritesPerRequest == 2

DelegateCalls ==
  [tool: {"delegate"}, task: Tasks, who: People, text: {None}]
CompleteCalls(u) ==
  [tool: {"complete"}, task: Tasks, who: {u}, text: {None}]
ReportCalls(u) ==
  [tool: {"report"}, task: Tasks, who: {u}, text: Blockers]

\* resolve_coaching_person takes the associate from the session alone.
Calls(u) ==
  IF u \in Managers THEN DelegateCalls ELSE CompleteCalls(u) \cup ReportCalls(u)

NoCall == [tool |-> "none", task |-> None, who |-> None, text |-> None]
AnyCall == {NoCall} \cup UNION {Calls(u) : u \in Users}
Stages == {"ready", "asking", "reading", "updating", "rereading", "answered", "raised", "rejected"}
Replies == {"none", "pending", "forbidden", "already", "conflict", "budget",
            "not_found", "done", "failed"}

Init ==
  /\ status \in [Tasks -> {"open", "done", "cancelled"}]
  /\ assignee \in [Tasks -> People \cup {None}]
  /\ delegation = [t \in Tasks |-> None]
  /\ reports = [t \in Tasks |-> [b \in Blockers |-> 0]]
  /\ doneBy = [t \in Tasks |-> IF status[t] = "done" THEN assignee[t] ELSE None]
  /\ stage = [u \in Users |-> "ready"]
  /\ call = [u \in Users |-> NoCall]
  /\ writes = [u \in Users |-> 0]
  /\ changed = [u \in Users |-> FALSE]
  /\ reply = [u \in Users |-> "none"]
  /\ issued = [u \in Users |-> 0]
  /\ late = [u \in Users |-> NoCall]

-----------------------------------------------------------------------------
(* The UPDATE statements.                                                  *)

MatchesAnyStatus(c) ==
  /\ c.tool \in {"complete", "report"} => assignee[c.task] = c.who
  /\ c.tool = "report" => reports[c.task][c.text] = 0
MatchesAnyAssignee(c) ==
  /\ status[c.task] = "open"
  /\ c.tool = "report" => reports[c.task][c.text] = 0
MatchesReported(c) ==
  /\ status[c.task] = "open"
  /\ c.tool \in {"complete", "report"} => assignee[c.task] = c.who

\* The WHERE clause; what was read before plays no part in it.
Matches(c) ==
  /\ status[c.task] = "open"
  /\ c.tool \in {"complete", "report"} => assignee[c.task] = c.who
  /\ c.tool = "report" => reports[c.task][c.text] = 0

SetColumns(c) ==
  \/ /\ c.tool = "delegate"
     /\ assignee' = [assignee EXCEPT ![c.task] = c.who]
     /\ delegation' = [delegation EXCEPT ![c.task] = c.who]
     /\ UNCHANGED <<status, reports, doneBy>>
  \/ /\ c.tool = "complete"
     /\ status' = [status EXCEPT ![c.task] = "done"]
     /\ doneBy' = [doneBy EXCEPT ![c.task] = c.who]
     /\ UNCHANGED <<assignee, delegation, reports>>
  \/ /\ c.tool = "report"
     /\ reports' = [reports EXCEPT ![c.task][c.text] = IF @ = 0 THEN 1 ELSE 2]
     /\ UNCHANGED <<status, assignee, delegation, doneBy>>

Update(c) == IF Matches(c) THEN SetColumns(c) ELSE UNCHANGED rows

-----------------------------------------------------------------------------
(* A tool call up to the confirmation, and again when it is resumed.       *)

Mine(c) == assignee[c.task] = c.who

BudgetSpent(u) == writes[u] >= WritesPerRequest

\* What the tool returns before it asks or writes; "pending" lets it go on.
Check(u, c) ==
  CASE c.tool # "delegate" /\ ~Mine(c) -> "forbidden"
    [] c.tool = "complete" /\ status[c.task] = "done" -> "already"
    [] c.tool # "delegate" /\ status[c.task] # "open" -> "conflict"
    [] BudgetSpent(u) -> "budget"
    [] OTHER -> "pending"

Between(u) == stage[u] \in {"ready", "answered"}

Goto(u, s) == stage' = [stage EXCEPT ![u] = s]
Say(u, r) == reply' = [reply EXCEPT ![u] = r]
Answer(u, r) ==
  /\ Goto(u, "answered")
  /\ Say(u, r)
  /\ changed' = [changed EXCEPT ![u] = FALSE]

\* The agent calls a write tool.
CallTool(u, c) ==
  /\ Between(u)
  /\ call' = [call EXCEPT ![u] = c]
  /\ Say(u, Check(u, c))
  /\ Goto(u, IF Check(u, c) = "pending" THEN "asking" ELSE "ready")
  /\ UNCHANGED <<rows, writes, changed, issued, late>>

\* A rejection writes nothing and ends the work of the invocation.
Reject(u) ==
  /\ stage[u] = "asking"
  /\ Goto(u, "rejected")
  /\ UNCHANGED <<rows, call, writes, changed, reply, issued, late>>

Submit(u) ==
  /\ issued' = [issued EXCEPT ![u] = IF @ > WritesPerRequest THEN @ ELSE @ + 1]
  /\ Goto(u, "updating")

CountNothing(u) == UNCHANGED writes

\* _count_write, before the backend is called and whatever it answers.
CountWrite(u) == writes' = [writes EXCEPT ![u] = @ + 1]

\* The answer "confirmed" resumes the call, or repeats one that was resumed.
Approve(u) ==
  /\ stage[u] \in {"asking", "answered", "raised"}
  /\ Say(u, Check(u, call[u]))
  /\ \/ /\ Check(u, call[u]) # "pending"
        /\ Goto(u, "answered")
        /\ UNCHANGED <<writes, issued>>
     \/ /\ Check(u, call[u]) = "pending"
        /\ CountWrite(u)
        /\ \/ call[u].tool = "delegate" /\ Goto(u, "reading") /\ UNCHANGED issued
           \/ call[u].tool # "delegate" /\ Submit(u)
  /\ UNCHANGED <<rows, call, changed, late>>

\* The person writes a new message: a new invocation with a fresh budget.
NewInvocation(u) ==
  /\ stage[u] \in {"ready", "asking", "answered", "raised", "rejected"}
  /\ stage' = [stage EXCEPT ![u] = "ready"]
  /\ call' = [call EXCEPT ![u] = NoCall]
  /\ writes' = [writes EXCEPT ![u] = 0]
  /\ reply' = [reply EXCEPT ![u] = "none"]
  /\ issued' = [issued EXCEPT ![u] = 0]
  /\ UNCHANGED <<rows, changed, late>>

-----------------------------------------------------------------------------
(* The backend call, one step per statement.                               *)

\* delegate_task reads the row first.
ReadTask(u) ==
  /\ stage[u] = "reading"
  /\ LET c == call[u] IN
       \/ /\ delegation[c.task] = c.who /\ Mine(c)
          /\ Answer(u, "already")
          /\ UNCHANGED issued
       \/ /\ ~(delegation[c.task] = c.who /\ Mine(c))
          /\ status[c.task] # "open"
          /\ Answer(u, "conflict")
          /\ UNCHANGED issued
       \/ /\ ~(delegation[c.task] = c.who /\ Mine(c))
          /\ status[c.task] = "open"
          /\ Submit(u)
          /\ UNCHANGED <<reply, changed>>
  /\ UNCHANGED <<rows, call, writes, late>>

RunUpdate(u) ==
  /\ stage[u] = "updating"
  /\ Update(call[u])
  /\ changed' = [changed EXCEPT ![u] = Matches(call[u])]
  /\ Goto(u, "rereading")
  /\ UNCHANGED <<call, writes, reply, issued, late>>

TrustsCount(u) ==
  IF changed[u] THEN "done"
  ELSE IF call[u].tool = "delegate" THEN "not_found" ELSE "already"

\* The answer is taken from the row as it is now and from the count.
Outcome(u) ==
  LET c == call[u] IN
    CASE c.tool = "complete" ->
           IF ~Mine(c) \/ status[c.task] # "done" THEN "conflict"
           ELSE IF changed[u] THEN "done" ELSE "already"
      [] c.tool = "report" ->
           IF ~Mine(c) \/ status[c.task] # "open" \/ reports[c.task][c.text] = 0
           THEN "conflict" ELSE IF changed[u] THEN "done" ELSE "already"
      [] OTHER ->
           IF changed[u] THEN "done"
           ELSE IF status[c.task] # "open" THEN "conflict" ELSE "not_found"

Reread(u) ==
  /\ stage[u] = "rereading"
  /\ Answer(u, Outcome(u))
  /\ UNCHANGED <<rows, call, writes, issued, late>>

\* The exception ends the run: no response event carries the state delta of
\* _count_write, so the session still has the count from before the call.
Raise(u) ==
  /\ Goto(u, "raised")
  /\ Say(u, "failed")
  /\ changed' = [changed EXCEPT ![u] = FALSE]
  /\ writes' = [writes EXCEPT ![u] = @ - 1]
  /\ issued' = [issued EXCEPT ![u] = @ - 1]

\* delegate_task catches the exception of a statement and answers an error; the
\* other two calls let it through, and no plugin answers for them.
Fail(u) ==
  \/ call[u].tool = "delegate" /\ Answer(u, "failed") /\ UNCHANGED <<writes, issued>>
  \/ call[u].tool # "delegate" /\ Raise(u)

StatementFails(u) ==
  /\ stage[u] \in {"reading", "updating", "rereading"}
  /\ Fail(u)
  /\ UNCHANGED <<rows, call, late>>

Late == {u \in Users : late[u] # NoCall}

\* job.result timed out; the job goes on.
AbandonUpdate(u) ==
  /\ stage[u] = "updating"
  /\ u \notin Late /\ Cardinality(Late) < MaxLate
  /\ late' = [late EXCEPT ![u] = call[u]]
  /\ Fail(u)
  /\ UNCHANGED <<rows, call>>

LateUpdate(u) ==
  /\ u \in Late
  /\ Update(late[u])
  /\ late' = [late EXCEPT ![u] = NoCall]
  /\ UNCHANGED invocation

-----------------------------------------------------------------------------
Next ==
  \E u \in Users :
    \/ \E c \in Calls(u) : CallTool(u, c)
    \/ Reject(u)
    \/ Approve(u)
    \/ NewInvocation(u)
    \/ ReadTask(u)
    \/ RunUpdate(u)
    \/ Reread(u)
    \/ StatementFails(u)
    \/ AbandonUpdate(u)
    \/ LateUpdate(u)

Spec == Init /\ [][Next]_vars

-----------------------------------------------------------------------------
TypeOK ==
  /\ status \in [Tasks -> {"open", "done", "cancelled"}]
  /\ assignee \in [Tasks -> People \cup {None}]
  /\ delegation \in [Tasks -> People \cup {None}]
  /\ reports \in [Tasks -> [Blockers -> 0..2]]
  /\ doneBy \in [Tasks -> People \cup {None}]
  /\ stage \in [Users -> Stages]
  /\ call \in [Users -> AnyCall]
  /\ writes \in [Users -> 0..WritesPerRequest]
  /\ changed \in [Users -> BOOLEAN]
  /\ reply \in [Users -> Replies]
  /\ late \in [Users -> AnyCall]
  /\ \A u \in Users : {call[u], late[u]} \subseteq Calls(u) \cup {NoCall}
  /\ issued \in [Users -> Nat]

\* A closed task keeps its status, its assignee and its reports, whatever
\* was approved, read or submitted while it was still open (delegate_task's
\* status check is one statement, its UPDATE another).
ClosedTaskIsFrozen ==
  [][\A t \in Tasks :
       status[t] # "open" =>
         /\ status'[t] = status[t]
         /\ assignee'[t] = assignee[t]
         /\ reports'[t] = reports[t]]_vars

\* "It never completes another person's task": whoever completed a task is
\* its assignee, then and ever after, also when it was delegated away
\* between the confirmation and the UPDATE (complete_my_task).
CompletedByAssignee ==
  \A t \in Tasks :
    /\ status[t] = "done" => doneBy[t] = assignee[t]
    /\ doneBy[t] # None => status[t] = "done"

\* "Retrying the same report does not append it twice", also when the first
\* attempt timed out and its statement runs later (report_my_task_blocker).
ReportedOnce == \A t \in Tasks, b \in Blockers : reports[t][b] <= 1

\* A request has at most two changes answered or under way (WRITES_PER_REQUEST),
\* counting delegations that failed or timed out and calls that were approved twice.
\* A completion or a report that raised is not among them: its count is lost with
\* the exception, and approving it again is a change like the first.
WithinBudget == \A u \in Users : issued[u] <= WritesPerRequest

\* What an associate is told of a completion is so: "done" and "already"
\* mean that the task is done and theirs, and a call that completed it is
\* never answered "conflict" (complete_assigned_task answers from a re-read).
CompletionAnswerIsTrue ==
  \A u \in People :
    call[u].tool = "complete" =>
      /\ reply[u] \in {"done", "already"} =>
           status[call[u].task] = "done" /\ doneBy[call[u].task] = u
      /\ stage[u] = "rereading" /\ changed[u] => Outcome(u) = "done"

\* A delegation that loses a race is reported as a conflict, never as
\* "is not an associate at this store" (delegate_task's last branch).
RaceIsNotNotFound == \A u \in Users : reply[u] # "not_found"

\* What a person is told agrees with the row, whatever happened between the
\* UPDATE and the re-read: a completion is not denied, and a lost race is a conflict.
AnswersAreTrue == CompletionAnswerIsTrue /\ RaceIsNotNotFound
=============================================================================
