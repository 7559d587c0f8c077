------------------------------- MODULE History -------------------------------
(***************************************************************************)
(* context_history.py: what the coordinator's model is shown of earlier    *)
(* work.  Each delegation to a consultant leaves the consultant's events   *)
(* and, when it hands back, a result.  On a later turn the framework       *)
(* quotes the events as user messages; a quote names the consultant and    *)
(* what was said or called, not the delegation.                            *)
(*                                                                         *)
(* prune_completed_consultant_history drops the quotes of delegations      *)
(* whose result the request still has.  It finds them by their content.    *)
(***************************************************************************)
EXTENDS Integers, Sequences, FiniteSets

CONSTANTS
  Says,         \* contents a consultant's event can have, besides the next two
  Failure,      \* a tool result with an error
  Question,     \* a request for confirmation
  Asks,         \* messages of the person that are not copies of a quote
  MaxEntries    \* bound on the length of the session

Quotes == Says \cup {Failure, Question}

ASSUME HistoryAssumption == Asks \cap Quotes = {}

VARIABLES
  session,    \* the session's events, in order
  turnOpen,   \* the coordinator is at work on the person's last message
  request     \* places of the events in the last request to its model

historyVars == <<session, turnOpen, request>>

HistoryInit == session = <<>> /\ turnOpen = FALSE /\ request = {}

Places == 1 .. Len(session)
Of(kind) == {i \in Places : session[i].kind = kind}

\* A delegation is known by the place of its call.
QuotesOf(d) == {i \in Of("quote") : session[i].of = d}
ResultOf(d) == {i \in Of("result") : session[i].of = d}

LastAsk == CHOOSE i \in Of("user") : \A k \in Of("user") : k <= i

\* One consultant at a time; a turn can end in the middle of its work.
Working == {d \in Of("call") : d > LastAsk /\ ResultOf(d) = {}}

Grow(entry) ==
  /\ Len(session) < MaxEntries
  /\ session' = Append(session, entry)

\* The person's message, possibly a copy of what a quote says.
Ask(text) ==
  /\ ~turnOpen
  /\ Grow([kind |-> "user", text |-> text])
  /\ turnOpen' = TRUE
  /\ UNCHANGED request

Delegate ==
  /\ turnOpen /\ Working = {}
  /\ Grow([kind |-> "call"])
  /\ UNCHANGED <<turnOpen, request>>

ConsultantEvent(text) ==
  /\ turnOpen
  /\ \E d \in Working : Grow([kind |-> "quote", of |-> d, text |-> text])
  /\ UNCHANGED <<turnOpen, request>>

\* A success has a text and no error.
HandBack(ok) ==
  /\ turnOpen
  /\ \E d \in Working : Grow([kind |-> "result", of |-> d, ok |-> ok])
  /\ UNCHANGED <<turnOpen, request>>

EndTurn ==
  /\ turnOpen
  /\ turnOpen' = FALSE
  /\ UNCHANGED <<session, request>>

\* A delegation whose successful result the request has.
Completed == {d \in Of("call") : \E r \in ResultOf(d) : session[r].ok}

\* What IsUnsafe must not be: blind to confirmations.
IsUnsafeFailed(d) == \E i \in QuotesOf(d) : session[i].text = Failure

IsUnsafe(d) == \E i \in QuotesOf(d) : session[i].text \in {Failure, Question}

\* "Even a byte-for-byte user copy of framework text stays a user message."
Protected == {session[i].text : i \in Of("user")}

Removable ==
  (UNION {{session[i].text : i \in QuotesOf(d)} : d \in {c \in Completed : ~IsUnsafe(c)}}) \ Protected

\* Of the current turn's consultants the request has the results only.
Shown == (Places \ Of("quote")) \cup {i \in Of("quote") : i < LastAsk}
HasText(i) == session[i].kind \in {"user", "quote"}

\* The request of the coordinator's model, pruned.
AskModel ==
  /\ turnOpen /\ Working = {}
  /\ request' = {i \in Shown : ~(HasText(i) /\ session[i].text \in Removable)}
  /\ UNCHANGED <<session, turnOpen>>

HistoryNext ==
  \/ \E t \in Asks \cup Quotes : Ask(t)
  \/ Delegate
  \/ \E t \in Quotes : ConsultantEvent(t)
  \/ \E ok \in BOOLEAN : HandBack(ok)
  \/ EndTurn
  \/ AskModel

HistorySpec == HistoryInit /\ [][HistoryNext]_historyVars

(* ------------------------------ properties ------------------------------ *)

\* Quotes are found by their content, which other delegations and even a person
\* may share.  Still no message of a person, no error and no request for a
\* confirmation leaves the request, and what a consultant did that handed back
\* is not replayed unless a person said the same.
PruningIsSafe ==
  [][AskModel =>
       /\ Of("user") \subseteq request'
       /\ {i \in Of("quote") : i < LastAsk /\ session[i].text \in {Failure, Question}} \subseteq request'
       /\ \A d \in Completed : ~IsUnsafe(d) =>
            \A i \in QuotesOf(d) \cap request' : session[i].text \in Protected]_historyVars

\* context_history.py:82 "Never prune failed/incomplete tool work or any
\* confirmation transcript": the events of such a delegation stay.
FailedWorkStays ==
  [][AskModel =>
       \A d \in Of("call") : (d \notin Completed \/ IsUnsafe(d)) =>
         \A i \in QuotesOf(d) : i < LastAsk => i \in request']_historyVars
=============================================================================
