----------------------------- MODULE EventGuard -----------------------------
(***************************************************************************)
(* callbacks.py: the analysis of a store event must change nothing, while  *)
(* later turns of a person in the same conversation may.  The events       *)
(* worker leaves the hash of its message in the session's state.  The      *)
(* coordinator's first model call compares the turn's message with it and  *)
(* leaves the outcome in two places: temporary state and a ContextVar.     *)
(* Agents below the coordinator see another message; an AgentTool's child  *)
(* sees another session as well, without the temporary state.              *)
(***************************************************************************)
EXTENDS Naturals

CONSTANTS
  Turns,       \* turns at work at the same time in one process
  Redactable   \* does the analysis message hold what redact() rewrites?

ASSUME GuardAssumption == Redactable \in BOOLEAN

VARIABLE turns   \* turns[t]: who speaks, what the session expects, where the
                 \* turn is, what the coordinator and the agent at work see

\* A message, the temporary flag and the ContextVar.
Blank == [text |-> "other", flag |-> FALSE, var |-> FALSE]

NoTurn ==
  [by |-> "nobody", said |-> "other", expected |-> FALSE, at |-> "off",
   marked |-> FALSE, root |-> Blank, here |-> Blank, answer |-> "none"]

GuardInit == turns = [t \in Turns |-> NoTurn]

\* IngressRedactionPlugin: before any agent sees the message.
Ingress(text) == IF text = "initial" /\ Redactable THEN "redacted" ELSE text

\* The worker opens a conversation with the hash of its message.  A person speaks
\* in one of those or in one of their own, and may repeat that message.
Begin(t) ==
  /\ turns[t].at = "off"
  /\ \E by \in {"worker", "person"}, said \in {"initial", "other"}, expected \in BOOLEAN :
       /\ by = "worker" => said = "initial" /\ expected
       /\ LET seen == [text |-> Ingress(said), flag |-> FALSE, var |-> FALSE]
          IN turns' = [turns EXCEPT ![t] =
               [by |-> by, said |-> said, expected |-> expected, at |-> "start",
                marked |-> FALSE, root |-> seen, here |-> seen, answer |-> "none"]]

\* set_event_read_only_before_model: once in each invocation.
RootModel(t) ==
  /\ turns[t].at \in {"start", "root"}
  /\ LET active == turns[t].expected /\ turns[t].root.text = "initial"
         seen == IF turns[t].marked THEN turns[t].root
                 ELSE [turns[t].root EXCEPT !.flag = active, !.var = active]
     IN turns' = [turns EXCEPT ![t].at = "root", ![t].marked = TRUE,
                    ![t].root = seen, ![t].here = seen]

\* What ContextOf must not be: one variable for the process.
SharedContext(t) == \E u \in Turns : turns[u].root.var

\* Every turn runs in a context of its own, which a child's task copies.
ContextOf(t) == turns[t].root.var

\* A task agent shares the session; an AgentTool's child has a copy of what lasts
\* of its state.  Both see what they were asked to do in place of the message.
Descend(t) ==
  /\ turns[t].at = "root"
  /\ \E child \in {"task", "tool"} :
       turns' = [turns EXCEPT ![t].at = child, ![t].here =
         [text |-> "other", flag |-> child = "task" /\ turns[t].root.flag, var |-> ContextOf(t)]]

Return(t) ==
  /\ turns[t].at \in {"task", "tool"}
  /\ turns' = [turns EXCEPT ![t].at = "root", ![t].here = turns[t].root]

\* The event part of enforce_role_before_tool, for a tool that writes.
ReadOnly(t) ==
  LET see == turns[t].here
  IN \/ see.flag
     \/ turns[t].expected /\ (see.var \/ see.text = "initial")

\* A call that is let through asks the person and waits; what an AgentTool's child
\* asks does not reach anybody.
CallWrite(t) ==
  /\ turns[t].at \in {"root", "task", "tool"}
  /\ turns' = [turns EXCEPT ![t].answer = IF ReadOnly(t) THEN "refused" ELSE "allowed",
                            ![t].at = IF ReadOnly(t) \/ @ = "tool" THEN @ ELSE "waiting"]

\* The answer is a message without text, in a fresh context and without temporary
\* state: the waiting tool is checked again before any model is called.
Resume(t) ==
  /\ turns[t].at = "waiting" /\ turns[t].by = "person"
  /\ \E level \in {"root", "task"} :
       turns' = [turns EXCEPT ![t].at = level, ![t].marked = FALSE, ![t].said = "other",
                   ![t].root = Blank, ![t].here = Blank, ![t].answer = "none"]

EndTurnOf(t) ==
  /\ turns[t].at # "off"
  /\ turns' = [turns EXCEPT ![t] = NoTurn]

GuardNext ==
  \E t \in Turns :
    Begin(t) \/ RootModel(t) \/ Descend(t) \/ Return(t) \/ CallWrite(t) \/ Resume(t) \/ EndTurnOf(t)

GuardSpec == GuardInit /\ [][GuardNext]_turns

(* ------------------------------ properties ------------------------------ *)

\* docs/EVENT_WORKFLOW.md "blocks operational writes throughout its invocation,
\* including nested task and AgentTool calls": the worker's analysis is let through
\* to no write, and what is refused repeats its message in such a conversation; a
\* person's request next to it or after it, and its confirmation, are not held up.
GuardIsExact ==
  \A t \in Turns :
    /\ turns[t].answer = "allowed" => turns[t].by = "person"
    /\ turns[t].answer = "refused" => turns[t].expected /\ turns[t].said = "initial"
=============================================================================
