----------------------------- MODULE LoopGuard ------------------------------
(***************************************************************************)
(* One request's work: LoopGuardPlugin (plugins.py) around the model and   *)
(* tool calls of the root and the store_tasks agent, with the pause of a   *)
(* confirmation (domain_tools._needs_confirmation) and the hand-back of    *)
(* callbacks.hand_back_after_model.                                        *)
(*                                                                         *)
(* The counters live in the memory of the process that runs the request;   *)
(* the two terminal markers live in session state, one slot each.  What    *)
(* the model says and which tools it calls is anybody's choice.            *)
(***************************************************************************)
EXTENDS Naturals, Sequences

CONSTANTS
  Requests,       \* invocations of one session
  Processes,      \* agent instances; a resumed request may run on another
  Reads, Writes,  \* tool calls with their arguments; Writes are confirmed
  OwnWrites,      \* the writes of the root: complete, report, remember
  Preferences,    \* of these, remember_work_preference, which cancels by itself
  MaxModelCalls, MaxRepeats,
  Capacity,       \* how many counters the plugin keeps
  MaxTraffic,     \* bound: requests of other sessions on each process
  None

ASSUME LimitsAssumption ==
  /\ MaxModelCalls \in Nat \ {0} /\ MaxRepeats \in Nat \ {0} /\ Capacity \in Nat \ {0}
  /\ MaxTraffic \in Nat
  /\ None \notin Requests

VARIABLES
  counts,            \* _counts of each process, oldest key first
  declined, stopped, \* last_declined_action and request_stop in session state
  phase, agent, use, home,
  confirmed,         \* the answer a resumed tool call carries
  outcome,           \* how a request ended
  traffic,
  modelCalls, runs,  \* history: model calls, and executions of each tool call
  marked             \* history: which markers each request has set

markers == <<declined, stopped>>
vars == <<counts, markers, phase, agent, use, home, confirmed, outcome, traffic,
          modelCalls, runs, marked>>

Delegate == "store_tasks"
HandBacks == {"finish", "finish stopped", "finish cancelled"}
ToolCalls == Reads \cup Writes \cup {Delegate} \cup HandBacks

\* Tool names: no read is also a write, and none is one of the framework's own.
ASSUME NamesAssumption ==
  /\ Reads \cap Writes = {}
  /\ (Reads \cup Writes) \cap ({Delegate} \cup HandBacks) = {}
  /\ OwnWrites \subseteq Writes /\ Preferences \subseteq OwnWrites

Keys(i) == {<<"model", i>>} \cup {<<"tool", i, k>> : k \in ToolCalls}
Phases == {"new", "turn", "thinking", "calling", "paused", "done"}

Init ==
  /\ counts = [p \in Processes |-> <<>>]
  /\ declined = None
  /\ stopped = None
  /\ phase = [i \in Requests |-> "new"]
  /\ agent = [i \in Requests |-> "root"]
  /\ use = [i \in Requests |-> None]
  /\ home \in [Requests -> Processes]
  /\ confirmed = [i \in Requests |-> "unasked"]
  /\ outcome = [i \in Requests |-> "none"]
  /\ traffic = [p \in Processes |-> 0]
  /\ modelCalls = [i \in Requests |-> 0]
  /\ runs = [i \in Requests |-> [k \in Reads \cup Writes |-> 0]]
  /\ marked = [i \in Requests |-> {}]

-----------------------------------------------------------------------------
(* _bump: count a key, drop the oldest keys beyond the capacity.           *)

Count(s, k) ==
  IF \E x \in DOMAIN s : s[x].key = k
  THEN s[CHOOSE x \in DOMAIN s : s[x].key = k].n ELSE 0

CountsNothing(s, k) == s

Bumped(s, k) ==
  LET t == IF Count(s, k) = 0 THEN Append(s, [key |-> k, n |-> 1])
           ELSE [x \in DOMAIN s |->
                   IF s[x].key = k THEN [s[x] EXCEPT !.n = @ + 1] ELSE s[x]]
  IN  IF Len(t) > Capacity THEN Tail(t) ELSE t

Bump(p, k) == counts' = [counts EXCEPT ![p] = Bumped(@, k)]

Goto(i, ph) == phase' = [phase EXCEPT ![i] = ph]

Stop(i) ==
  /\ stopped' = i
  /\ marked' = [marked EXCEPT ![i] = @ \cup {"stopped"}]

\* The tablet sends nothing while a reply streams.
Quiet == \A i \in Requests : phase[i] \in {"new", "paused", "done"}

Start(i) ==
  /\ phase[i] = "new" /\ Quiet
  /\ Goto(i, "turn")
  /\ UNCHANGED <<counts, markers, agent, use, home, confirmed, outcome, traffic,
                 modelCalls, runs, marked>>

\* A request of another session counts a key of its own.
OtherTraffic(p) ==
  /\ traffic[p] < MaxTraffic
  /\ traffic' = [traffic EXCEPT ![p] = @ + 1]
  /\ Bump(p, <<"other", traffic[p]>>)
  /\ UNCHANGED <<markers, phase, agent, use, home, confirmed, outcome, modelCalls, runs, marked>>

-----------------------------------------------------------------------------
(* before_model_callback and the model.                                    *)

IgnoresWhose(i) ==
  IF declined # None THEN "cancelled" ELSE IF stopped # None THEN "stopped" ELSE "none"

\* The marker that ends this request, if any.
Terminal(i) ==
  CASE declined = i -> "cancelled"
    [] declined # i /\ stopped = i -> "stopped"
    [] OTHER -> "none"

\* _terminal_response: store_tasks hands back, any other agent answers.
Terminate(i, o) ==
  \/ /\ agent[i] = "store_tasks"
     /\ use' = [use EXCEPT ![i] = IF o = "cancelled" THEN "finish cancelled" ELSE "finish stopped"]
     /\ Goto(i, "calling")
     /\ UNCHANGED outcome
  \/ /\ agent[i] = "root"
     /\ Goto(i, "done")
     /\ outcome' = [outcome EXCEPT ![i] = o]
     /\ UNCHANGED use

EndedByMarker(i) ==
  /\ phase[i] = "turn"
  /\ Terminal(i) # "none"
  /\ Terminate(i, Terminal(i))
  /\ UNCHANGED <<counts, markers, agent, home, confirmed, traffic, modelCalls, runs, marked>>

NoLimit(n) == TRUE
AllowsModel(n) == n <= MaxModelCalls

CallModel(i) ==
  /\ phase[i] = "turn"
  /\ Terminal(i) = "none"
  /\ LET n == Count(counts[home[i]], <<"model", i>>) + 1 IN
       \/ /\ AllowsModel(n)
          /\ Goto(i, "thinking")
          /\ modelCalls' = [modelCalls EXCEPT ![i] =
               IF @ > MaxModelCalls THEN @ ELSE @ + 1]
          /\ UNCHANGED <<stopped, use, outcome, marked>>
       \/ /\ ~AllowsModel(n)
          /\ Stop(i)
          /\ Terminate(i, "stopped")
          /\ UNCHANGED modelCalls
  /\ Bump(home[i], <<"model", i>>)
  /\ UNCHANGED <<declined, agent, home, confirmed, traffic, runs>>

Offered(a) ==
  IF a = "root" THEN Reads \cup OwnWrites \cup {Delegate}
  ELSE Reads \cup (Writes \ OwnWrites) \cup {"finish"}

\* The model asks for a tool, or store_tasks' plain reply becomes finish_task.
AskTool(i) ==
  /\ phase[i] = "thinking"
  /\ \E k \in Offered(agent[i]) : use' = [use EXCEPT ![i] = k]
  /\ Goto(i, "calling")
  /\ UNCHANGED <<counts, markers, agent, home, confirmed, outcome, traffic, modelCalls, runs, marked>>

\* The root's reply ends the request, and so does an empty reply of either
\* agent: hand_back_after_model leaves it as it is.
Reply(i) ==
  /\ phase[i] = "thinking"
  /\ Goto(i, "done")
  /\ outcome' = [outcome EXCEPT ![i] = IF agent[i] = "root" THEN "answered" ELSE "empty"]
  /\ UNCHANGED <<counts, markers, agent, use, home, confirmed, traffic, modelCalls, runs, marked>>

-----------------------------------------------------------------------------
(* before_tool_callback and the tools.                                     *)

NoRepeatLimit(n) == TRUE
AllowsTool(n) == n <= MaxRepeats

Repeats(i) == Count(counts[home[i]], <<"tool", i, use[i]>>) + 1

BlockTool(i) ==
  /\ phase[i] = "calling"
  /\ ~AllowsTool(Repeats(i))
  /\ Bump(home[i], <<"tool", i, use[i]>>)
  /\ Stop(i)
  /\ Goto(i, "turn")
  /\ confirmed' = [confirmed EXCEPT ![i] = "unasked"]
  /\ UNCHANGED <<declined, agent, use, home, outcome, traffic, modelCalls, runs>>

\* Change of agent: the root calls store_tasks, store_tasks hands back.
SwitchAgent(i) ==
  /\ phase[i] = "calling"
  /\ AllowsTool(Repeats(i))
  /\ Bump(home[i], <<"tool", i, use[i]>>)
  /\ use[i] \in {Delegate} \cup HandBacks
  /\ agent' = [agent EXCEPT ![i] = IF use[i] = Delegate THEN "store_tasks" ELSE "root"]
  /\ Goto(i, "turn")
  /\ UNCHANGED <<markers, use, home, confirmed, outcome, traffic, modelCalls, runs, marked>>

\* A read, or a write whose confirmation came back positive.
RunTool(i) ==
  /\ phase[i] = "calling"
  /\ AllowsTool(Repeats(i))
  /\ Bump(home[i], <<"tool", i, use[i]>>)
  /\ use[i] \in Reads \/ (use[i] \in Writes /\ confirmed[i] = "yes")
  /\ runs' = [runs EXCEPT ![i][use[i]] = IF @ > MaxRepeats THEN @ ELSE @ + 1]
  /\ confirmed' = [confirmed EXCEPT ![i] = "unasked"]
  /\ Goto(i, "turn")
  /\ UNCHANGED <<markers, agent, use, home, outcome, traffic, modelCalls, marked>>

AskPerson(i) ==
  /\ phase[i] = "calling"
  /\ AllowsTool(Repeats(i))
  /\ Bump(home[i], <<"tool", i, use[i]>>)
  /\ use[i] \in Writes /\ confirmed[i] = "unasked"
  /\ Goto(i, "paused")
  /\ UNCHANGED <<markers, agent, use, home, confirmed, outcome, traffic, modelCalls, runs, marked>>

\* The person's answer resumes the request with a second call of the tool.
Resume(i, p, yes) ==
  /\ phase[i] = "paused" /\ Quiet
  /\ home' = [home EXCEPT ![i] = p]
  /\ confirmed' = [confirmed EXCEPT ![i] = IF yes THEN "yes" ELSE "no"]
  /\ Goto(i, "calling")
  /\ UNCHANGED <<counts, markers, agent, use, outcome, traffic, modelCalls, runs, marked>>

\* A declined write ends the request's model work; only a preference that is not to be
\* remembered returns CANCELLED and sets no marker.
DeclineTool(i) ==
  /\ phase[i] = "calling"
  /\ AllowsTool(Repeats(i))
  /\ Bump(home[i], <<"tool", i, use[i]>>)
  /\ use[i] \in Writes /\ confirmed[i] = "no"
  /\ \/ use[i] \in Preferences /\ UNCHANGED <<declined, marked>>
     \/ /\ use[i] \notin Preferences
        /\ declined' = i
        /\ marked' = [marked EXCEPT ![i] = @ \cup {"cancelled"}]
  /\ confirmed' = [confirmed EXCEPT ![i] = "unasked"]
  /\ Goto(i, "turn")
  /\ UNCHANGED <<stopped, agent, use, home, outcome, traffic, modelCalls, runs>>

\* The write's own checks, which come before the confirmation in both of its calls,
\* return an error: an answer that was already given is not looked at.
RefuseTool(i) ==
  /\ phase[i] = "calling"
  /\ AllowsTool(Repeats(i))
  /\ Bump(home[i], <<"tool", i, use[i]>>)
  /\ use[i] \in Writes
  /\ confirmed' = [confirmed EXCEPT ![i] = "unasked"]
  /\ Goto(i, "turn")
  /\ UNCHANGED <<markers, agent, use, home, outcome, traffic, modelCalls, runs, marked>>

-----------------------------------------------------------------------------
Work(i) ==
  \/ EndedByMarker(i)
  \/ CallModel(i)
  \/ AskTool(i)
  \/ Reply(i)
  \/ BlockTool(i)
  \/ SwitchAgent(i)
  \/ RunTool(i)
  \/ AskPerson(i)
  \/ DeclineTool(i)
  \/ RefuseTool(i)

Next ==
  \/ \E i \in Requests :
       \/ Start(i)
       \/ Work(i)
       \/ \E p \in Processes, yes \in BOOLEAN : Resume(i, p, yes)
  \/ \E p \in Processes : OtherTraffic(p)

Spec == Init /\ [][Next]_vars

\* A request that was started is worked on; nobody has to answer a question.
FairSpec == Spec /\ \A i \in Requests : WF_vars(Work(i))

-----------------------------------------------------------------------------
TypeOK ==
  /\ \A p \in Processes :
       /\ Len(counts[p]) <= Capacity
       /\ \A x, y \in DOMAIN counts[p] : counts[p][x].key = counts[p][y].key => x = y
  /\ declined \in Requests \cup {None} /\ stopped \in Requests \cup {None}
  /\ phase \in [Requests -> Phases]
  /\ agent \in [Requests -> {"root", "store_tasks"}]
  /\ \A i \in Requests : use[i] = None \/ use[i] \in ToolCalls
  /\ home \in [Requests -> Processes]
  /\ confirmed \in [Requests -> {"unasked", "yes", "no"}]
  /\ marked \in [Requests -> SUBSET {"cancelled", "stopped"}]

\* "At most max_model_calls model calls per invocation."
ModelCallsBounded == \A i \in Requests : modelCalls[i] <= MaxModelCalls

\* A tool call with the same arguments runs at most max_repeats times, and
\* a confirmed one, which is counted when it asks and when it is resumed, at
\* most half as often.
RepeatsBounded ==
  \A i \in Requests :
    /\ \A k \in Reads : runs[i][k] <= MaxRepeats
    /\ \A k \in Writes : 2 * runs[i][k] <= MaxRepeats

\* "Subsequent explicit user requests remain independent": a request ends as cancelled
\* or stopped only when a write of its own was declined (a preference aside) or it was
\* itself over a limit, and then it does end so, whatever others left in the two slots.
EndsOnItsOwnAccount ==
  \A i \in Requests :
    /\ outcome[i] \in {"cancelled", "stopped"} => outcome[i] \in marked[i]
    /\ phase[i] = "done" /\ "cancelled" \in marked[i] => outcome[i] = "cancelled"
    /\ phase[i] = "done" /\ marked[i] = {"stopped"} => outcome[i] = "stopped"

\* A request that was started ends or waits for a person.
RequestEnds == \A i \in Requests : (phase[i] = "turn") ~> (phase[i] \in {"paused", "done"})
=============================================================================
