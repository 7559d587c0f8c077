------------------------------- MODULE Tablet -------------------------------
(***************************************************************************)
(* The store tablet (frontend/static/app.js and workspace.js) and the      *)
(* server it talks to (frontend/server.py).  One person uses one page;     *)
(* what runs concurrently is the page's own requests: the one that makes   *)
(* it busy, the refresh of the conversation list and the alert poll.       *)
(* Every one of them can fail or come back after the person moved on.      *)
(***************************************************************************)
EXTENDS AnswerStream, FiniteSets

CONSTANTS
  Convs,      \* conversations (sessions) that can exist
  Alerts,     \* those the store events workflow has written for the manager
  MaxEvents,  \* bound: events of one request
  MaxCards,   \* bound: confirmations asked in all
  MaxKeys,    \* bound: idempotency keys made
  None

ASSUME TabletAssumption ==
  /\ Alerts \subseteq Convs /\ None \notin Convs \cup {"manager", "associate"}
  /\ MaxEvents \in Nat /\ MaxCards \in Nat /\ MaxKeys \in Nat

VARIABLES
  owner,             \* server: the persona each session belongs to
  role, session,     \* #role and the session global
  op, target,        \* what keeps the page busy, and its conversation
  kinds, cardOf, st, \* the request's events so far, and sse's locals
  live,              \* unlocked cards of each confirmation in the log
  asker, posted,     \* who asked each confirmation; where it was answered
  fetching, past,    \* history fetches under way; the persona listed
  polling, listed,   \* an inbox fetch under way; alerts listed
  read, opened,      \* alerts marked read; history: alerts displayed
  key, unsure, made  \* eventRequest; history: unanswered submissions; keys made

stream == <<kinds, cardOf, st>>
cards == <<live, asker, posted>>
lists == <<fetching, past, polling, listed>>
alerts == <<read, opened>>
events == <<key, unsure, made>>
vars == <<owner, role, session, op, target, stream, cards, lists, alerts, events>>

Roles == {"manager", "associate"}
Cards == 1..MaxCards
Streaming == {"chatting", "deciding"}
Ended == {"chatted", "decided"}
Busy == Streaming \cup Ended \cup {"creating chat", "creating event", "restoring",
         "restoring alert", "posting", "refreshing"}

TypeOK ==
  /\ owner \in [Convs -> Roles \cup {None}]
  /\ role \in Roles /\ session \in Convs \cup {None}
  /\ op \in Busy \cup {"none"} /\ target \in Convs \cup {None}
  /\ kinds \in Seq(Kinds) /\ Len(kinds) <= MaxEvents
  /\ cardOf \in [1..Len(kinds) -> Cards \cup {None}]
  /\ st \in Reducers(Len(kinds))
  /\ live \in [Cards -> 0..1]
  /\ asker \in [Cards -> Convs \cup {None}]
  /\ posted \in [Cards -> Seq(Convs)]
  /\ fetching \subseteq Roles /\ past \in Roles \cup {None}
  /\ polling \in BOOLEAN /\ listed \in BOOLEAN
  /\ read \subseteq Alerts /\ opened \subseteq Alerts
  /\ key \in [id : 1..MaxKeys, conv : Convs] \cup {None}
  /\ unsure \in [Convs -> 0..MaxKeys] /\ made \in 0..MaxKeys

\* A new page of a manager; selectPersona has asked for both lists.
Init ==
  /\ owner = [c \in Convs |-> IF c \in Alerts THEN "manager" ELSE None]
  /\ role = "manager" /\ session = None
  /\ op = "none" /\ target = None
  /\ kinds = <<>> /\ cardOf = <<>> /\ st = Start
  /\ live = [k \in Cards |-> 0]
  /\ asker = [k \in Cards |-> None]
  /\ posted = [k \in Cards |-> <<>>]
  /\ fetching = {"manager"} /\ past = None
  /\ polling = TRUE /\ listed = FALSE
  /\ read = {} /\ opened = {}
  /\ key = None /\ unsure = [c \in Convs |-> 0] /\ made = 0

-----------------------------------------------------------------------------
(* The page's state.                                                       *)

\* busy is set from the start of a handler to its finally.
FreeWhileStreaming == op \in Streaming \cup {"none"}
Free == op = "none"

ClearLog == live' = [k \in Cards |-> 0]

Rest == op' = "none" /\ target' = None

\* #new-session or a scenario button: resetConversation.
NewConversation ==
  /\ Free
  /\ session' = None
  /\ ClearLog
  /\ UNCHANGED <<owner, role, op, target, stream, asker, posted, lists, alerts, events>>

\* #role is disabled while busy.
SelectPersona(r) ==
  /\ Free /\ r # role
  /\ role' = r
  /\ session' = None
  /\ ClearLog
  /\ fetching' = fetching \cup {r}
  /\ polling' = (polling \/ r = "manager")
  /\ listed' = FALSE
  /\ UNCHANGED <<owner, op, target, stream, asker, posted, past, alerts, events>>

-----------------------------------------------------------------------------
(* A question, its stream and its confirmations.                           *)

Request(c, as) ==
  /\ op' = as /\ target' = c
  /\ kinds' = <<>> /\ cardOf' = <<>> /\ st' = Start

Create(next) ==
  /\ \E c \in Convs : owner[c] = None
  /\ op' = next
  /\ UNCHANGED <<target, stream>>

Send ==
  /\ Free
  /\ \/ session = None /\ Create("creating chat")
     \/ session # None /\ Request(session, "chatting")
  /\ UNCHANGED <<owner, role, session, cards, lists, alerts, events>>

\* owned_session: the conversation is this persona's.
Owned(c) == owner[c] = role

Over == IF op = "chatting" THEN "chatted" ELSE "decided"

\* One event of the agent, shaped, reduced and handled by the page at once.
AgentEvent(k) ==
  /\ op \in Streaming /\ Owned(target)
  /\ Len(kinds) < MaxEvents
  /\ op' = IF k = "error" THEN Over ELSE op
  /\ \E card \in Cards \cup {None} :
       /\ (card # None) = (k = "confirm")
       /\ kinds' = Append(kinds, k) /\ cardOf' = Append(cardOf, card)
       /\ st' = Receive(st, Len(kinds'), k)
       /\ IF card = None THEN UNCHANGED <<live, asker>>
          ELSE /\ asker[card] = None
               /\ asker' = [asker EXCEPT ![card] = target]
               /\ live' = [live EXCEPT ![card] = 1]
  /\ UNCHANGED <<owner, role, session, target, posted, lists, alerts, events>>

\* A partial text: streamed, never recorded in the session.
Chunk ==
  /\ op \in Streaming
  /\ st' = Receive(st, Len(kinds) + 1, "chunk")
  /\ UNCHANGED <<owner, role, session, op, target, kinds, cardOf, cards, lists, alerts, events>>

\* The transport delivers an event of this stream again.
Redeliver(n) ==
  /\ op \in Streaming
  /\ st' = Receive(st, n, kinds[n])
  /\ IF cardOf[n] = None \/ Duplicate(st, n) THEN UNCHANGED live
     ELSE live' = [live EXCEPT ![cardOf[n]] = @ + 1]
  /\ UNCHANGED <<owner, role, session, op, target, kinds, cardOf, asker, posted, lists, alerts, events>>

\* The agent is done: the answer and the done frame reach the page.
StreamEnds ==
  /\ op \in Streaming
  /\ op' = Over
  /\ UNCHANGED <<owner, role, session, target, stream, cards, lists, alerts, events>>

\* The finally of send, which also refreshes the history, and of answer.
Settle ==
  /\ Rest
  /\ kinds' = <<>> /\ cardOf' = <<>> /\ st' = Start
  /\ fetching' = IF op \in {"chatting", "chatted"} THEN fetching \cup {role} ELSE fetching

Finish ==
  /\ op \in Ended
  /\ Settle
  /\ UNCHANGED <<owner, role, session, cards, past, polling, listed, alerts, events>>

\* An error frame, a refused request or a lost connection.
StreamBreaks ==
  /\ op \in Streaming
  /\ Settle
  /\ UNCHANGED <<owner, role, session, cards, past, polling, listed, alerts, events>>

LeavesUnlocked(k) == UNCHANGED live

\* Both buttons are locked for good once one of them is pressed.
Lock(k) == live' = [live EXCEPT ![k] = @ - 1]

AnswerCard(k) ==
  /\ Free
  /\ live[k] > 0
  /\ Lock(k)
  /\ posted' = [posted EXCEPT ![k] = Append(@, session)]
  /\ Request(session, "deciding")
  /\ UNCHANGED <<owner, role, session, asker, lists, alerts, events>>

-----------------------------------------------------------------------------
(* Pickup checks: triggerPickupEvent and its idempotency key.              *)

\* A retry for the same conversation keeps the key, another one gets a new one.
PostEvent(c) ==
  /\ IF key # None /\ key.conv = c THEN UNCHANGED <<key, made>>
     ELSE /\ made < MaxKeys
          /\ made' = made + 1
          /\ key' = [id |-> made + 1, conv |-> c]
  /\ unsure' = [unsure EXCEPT ![c] = key'.id]
  /\ op' = "posting" /\ target' = c

Trigger ==
  /\ Free /\ role = "manager"
  /\ \/ session = None /\ Create("creating event") /\ UNCHANGED events
     \/ session # None /\ PostEvent(session) /\ UNCHANGED stream
  /\ UNCHANGED <<owner, role, session, cards, lists, alerts>>

\* The new session comes back and the handler goes on.
Created(c) ==
  /\ owner[c] = None
  /\ owner' = [owner EXCEPT ![c] = role]
  /\ session' = c
  /\ \/ op = "creating chat" /\ Request(c, "chatting") /\ UNCHANGED events
     \/ op = "creating event" /\ PostEvent(c) /\ UNCHANGED stream
  /\ UNCHANGED <<role, cards, lists, alerts>>

\* The session may exist although the answer is lost.
CreateFails ==
  /\ op \in {"creating chat", "creating event"}
  /\ owner' \in {owner} \cup {[owner EXCEPT ![c] = role] : c \in {d \in Convs : owner[d] = None}}
  /\ Rest
  /\ fetching' = IF op = "creating chat" THEN fetching \cup {role} ELSE fetching
  /\ UNCHANGED <<role, session, stream, cards, past, polling, listed, alerts, events>>

EventAccepted ==
  /\ op = "posting"
  /\ key' = None
  /\ unsure' = [unsure EXCEPT ![target] = 0]
  /\ polling' = TRUE
  /\ op' = "refreshing"
  /\ UNCHANGED <<owner, role, session, target, stream, cards, fetching, past, listed, alerts, made>>

\* The server may have accepted it: the key stays for the retry.
EventFails ==
  /\ op = "posting"
  /\ Rest
  /\ UNCHANGED <<owner, role, session, stream, cards, lists, alerts, events>>

-----------------------------------------------------------------------------
(* The conversation list and the inbox.                                    *)

\* refreshHistory drops a list that is no longer the persona's.
HistoryArrives(p) ==
  /\ p \in fetching
  /\ fetching' = fetching \ {p}
  /\ past' = IF p = role THEN p ELSE past
  /\ UNCHANGED <<owner, role, session, op, target, stream, cards, polling, listed, alerts, events>>

HistoryFails(p) ==
  /\ p \in fetching
  /\ fetching' = fetching \ {p}
  /\ UNCHANGED <<owner, role, session, op, target, stream, cards, past, polling, listed, alerts, events>>

\* The timer, or opening the dialog: only a manager's page asks.
Poll ==
  /\ role = "manager"
  /\ polling' = TRUE
  /\ UNCHANGED <<owner, role, session, op, target, stream, cards, fetching, past, listed, alerts, events>>

ListsWhateverArrives == listed' = TRUE

\* refreshNotifications drops a list when the persona has changed meanwhile.
ShowInbox == listed' = (listed \/ role = "manager")

\* triggerPickupEvent waits for this refresh.
AfterPoll ==
  IF op = "refreshing" THEN Rest ELSE UNCHANGED <<op, target>>

PollArrives ==
  /\ polling
  /\ polling' = FALSE
  /\ ShowInbox
  /\ AfterPoll
  /\ UNCHANGED <<owner, role, session, stream, cards, fetching, past, alerts, events>>

PollFails ==
  /\ polling
  /\ polling' = FALSE
  /\ AfterPoll
  /\ UNCHANGED <<owner, role, session, stream, cards, fetching, past, listed, alerts, events>>

AnyPersona(p) == TRUE

\* restoreConversation returns at once for a persona that is no longer selected.
StillSelected(p) == p = role

OpenPast(c) ==
  /\ Free
  /\ owner[c] # None /\ owner[c] = past
  /\ StillSelected(past)
  /\ op' = "restoring" /\ target' = c
  /\ UNCHANGED <<owner, role, session, stream, cards, lists, alerts, events>>

\* The alert's handler marks it read after the restore, whatever that did.
OpenAlert(a) ==
  /\ Free /\ listed
  /\ IF StillSelected("manager")
     THEN op' = "restoring alert" /\ target' = a /\ UNCHANGED read
     ELSE read' = read \cup {a} /\ UNCHANGED <<op, target>>
  /\ UNCHANGED <<owner, role, session, stream, cards, lists, opened, events>>

\* The log is replaced by the history; an alert is then marked read, unless
\* that request fails.
RestoreArrives ==
  /\ op \in {"restoring", "restoring alert"}
  /\ session' = target
  /\ ClearLog
  /\ Rest
  /\ IF op = "restoring" THEN UNCHANGED <<alerts, fetching, polling>>
     ELSE /\ opened' = opened \cup {target}
          /\ \/ read' = read \cup {target} /\ polling' = TRUE /\ fetching' = fetching \cup {role}
             \/ UNCHANGED <<read, polling, fetching>>
  /\ UNCHANGED <<owner, role, stream, asker, posted, past, listed, events>>

RestoreFails ==
  /\ op \in {"restoring", "restoring alert"}
  /\ Rest
  /\ UNCHANGED <<owner, role, session, stream, cards, lists, alerts, events>>

-----------------------------------------------------------------------------

Next ==
  \/ NewConversation \/ \E r \in Roles : SelectPersona(r)
  \/ Send \/ \E k \in Cards : AnswerCard(k)
  \/ \E k \in Kinds : AgentEvent(k)
  \/ Chunk \/ \E n \in 1..Len(kinds) : Redeliver(n)
  \/ StreamEnds \/ StreamBreaks \/ Finish
  \/ Trigger \/ \E c \in Convs : Created(c)
  \/ CreateFails \/ EventAccepted \/ EventFails
  \/ \E p \in Roles : HistoryArrives(p) \/ HistoryFails(p)
  \/ Poll \/ PollArrives \/ PollFails
  \/ \E c \in Convs : OpenPast(c)
  \/ \E a \in Alerts : OpenAlert(a)
  \/ RestoreArrives \/ RestoreFails

Spec == Init /\ [][Next]_vars

-----------------------------------------------------------------------------
(* Properties.                                                             *)

\* What the page publishes as the answer is the agent's last word: the last
\* text for the person after which nobody worked on (sse).
AnswerIsLastWord == op \in Ended => Answer(st) = LastWord(kinds)

\* Reading the conversation later shows the answer that was streamed, although
\* the stream has partial texts and repeated events the session does not have.
ReplayAgrees == op \in Ended => Answer(st) = Replayed(kinds)

\* A stream is handled by the page that still shows its conversation.
StreamStaysOnScreen == op \in Streaming \cup Ended => session = target

\* A confirmation is answered at most once, and in the conversation that asked.
DecidedOnceWhereAsked == \A k \in Cards : posted[k] \in {<<>>, <<asker[k]>>}

\* The conversation on screen belongs to the selected persona, however late
\* the lists and conversations of the other one arrive.
SessionOfPersona == session # None => owner[session] = role

\* An alert counts as read only once its conversation has been displayed.
ReadAfterShown == read \subseteq opened

\* "A retry of the same uncertain submission reuses its idempotency key"
\* (workspace.js): a submission for a conversation whose last one was never
\* acknowledged carries the key of that one.
RetryReusesKey ==
  [][\A c \in Convs :
       op # "posting" /\ op' = "posting" /\ target' = c /\ unsure[c] # 0
         => key'.id = unsure[c]]_vars
=============================================================================
