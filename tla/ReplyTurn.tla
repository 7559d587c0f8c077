------------------------------ MODULE ReplyTurn ------------------------------
(***************************************************************************)
(* How a turn of the coordinator ends: tools/report_delivery.py, the       *)
(* briefing tool, the end-of-day dashboard and chat_reply.py.              *)
(*                                                                         *)
(* The model answers with a structured reply or with a batch of calls that *)
(* run side by side.  Three tools deliver something to the screen and may  *)
(* end the turn themselves, with a reply of their own; a batch whose       *)
(* responses skip the summary gets no further model call.                  *)
(***************************************************************************)
EXTENDS Naturals, Sequences

CONSTANTS
  MaxTurns, MaxBatches,   \* bounds: messages, batches of calls in one turn
  MaxMetrics              \* bound: versions of the day's metrics

VARIABLES
  chat,     \* stage of the turn, whether it resumes after a confirmation, the
            \* replies the person got, and how many turns and batches there were
  batch,    \* the calls under way: tool, state, the metrics it was drafted
            \* from, whether a person confirmed it, whether it completes the reply
  metrics,  \* version of the store's metrics of the day
  pdfs      \* reports saved: version of the prose and of the numbers

replyVars == <<chat, batch, metrics, pdfs>>

Delivering == {"report", "briefing", "dashboard"}
Tools == Delivering \cup {"read", "write"}

ReplyInit ==
  /\ chat = [stage |-> "over", resumed |-> FALSE, replies |-> 1, turns |-> 0, batches |-> 0]
  /\ batch = <<>>
  /\ metrics = 1
  /\ pdfs = {}

\* The person may leave a confirmation unanswered and ask something else.
Message ==
  /\ chat.stage \in {"over", "failed", "waiting"} /\ chat.turns < MaxTurns
  /\ chat' = [stage |-> "model", resumed |-> FALSE, replies |-> 0,
              turns |-> chat.turns + 1, batches |-> 0]
  /\ batch' = <<>>
  /\ UNCHANGED <<metrics, pdfs>>

NewCall(tool, draft) ==
  [tool |-> tool, state |-> "running", draft |-> draft, confirmed |-> FALSE, completed |-> FALSE]

\* One call or two; the prose of a dashboard is drafted from metrics read earlier.
CallTools ==
  /\ chat.stage = "model" /\ chat.batches < MaxBatches
  /\ chat' = [chat EXCEPT !.stage = "calling", !.batches = @ + 1]
  /\ \E a, b \in Tools, d \in 1 .. metrics :
       batch' \in {<<NewCall(a, d)>>, <<NewCall(a, d), NewCall(b, d)>>}
  /\ UNCHANGED <<metrics, pdfs>>

\* ChatReplyPlugin takes the answer apart; an invalid one ends the turn in an error.
Answer ==
  /\ chat.stage = "model"
  /\ chat' \in {[chat EXCEPT !.stage = "over", !.replies = @ + 1], [chat EXCEPT !.stage = "failed"]}
  /\ UNCHANGED <<batch, metrics, pdfs>>

Live(i) == chat.stage = "calling" /\ i \in DOMAIN batch /\ batch[i].state = "running"

\* What SoleCurrentCall must not be: always.
AnyCall(i) == TRUE

\* _sole_current_call
SoleCurrentCall(i) ==
  ~batch[i].confirmed /\ ~chat.resumed /\ Len(batch) = 1

\* A result; a delivery that is the only call completes the reply.
Succeed(i) ==
  batch' = [batch EXCEPT ![i].state = "ok",
              ![i].completed = batch[i].tool \in Delivering /\ SoleCurrentCall(i)]

\* A read, a report, or a write once it is confirmed.
EndOk(i) ==
  /\ Live(i) /\ batch[i].tool # "dashboard"
  /\ batch[i].tool = "write" => batch[i].confirmed
  /\ Succeed(i)
  /\ UNCHANGED <<chat, metrics, pdfs>>

EndError(i) ==
  /\ Live(i) /\ batch[i].tool # "briefing"
  /\ batch' = [batch EXCEPT ![i].state = "error"]
  /\ UNCHANGED <<chat, metrics, pdfs>>

\* BriefingTool raises when the plan of this call is missing or invalid.
BriefingRaises(i) ==
  /\ Live(i) /\ batch[i].tool = "briefing"
  /\ chat' = [chat EXCEPT !.stage = "failed"]
  /\ UNCHANGED <<batch, metrics, pdfs>>

\* request_confirmation
AskPerson(i) ==
  /\ Live(i) /\ batch[i].tool = "write" /\ ~batch[i].confirmed
  /\ batch' = [batch EXCEPT ![i].state = "asks"]
  /\ UNCHANGED <<chat, metrics, pdfs>>

\* metrics_digest of the draft against the metrics just read.
DraftIsFresh(i) == batch[i].draft = metrics

\* create_end_of_day_dashboard; stale metrics, like a failing PDF, are an EndError.
SaveDashboard(i) ==
  /\ Live(i) /\ batch[i].tool = "dashboard" /\ DraftIsFresh(i)
  /\ pdfs' = pdfs \cup {[prose |-> batch[i].draft, numbers |-> metrics]}
  /\ Succeed(i)
  /\ UNCHANGED <<chat, metrics>>

\* The responses become one event.  The plugin turns it into the reply if it is a
\* single one that completes the turn.
Merge ==
  /\ chat.stage = "calling"
  /\ \A i \in DOMAIN batch : batch[i].state # "running"
  /\ LET skips == \E i \in DOMAIN batch : batch[i].completed
         single == skips /\ Len(batch) = 1
     IN chat' = [chat EXCEPT
          !.stage = IF \E i \in DOMAIN batch : batch[i].state = "asks" THEN "waiting"
                    ELSE IF skips THEN "over" ELSE "model",
          !.replies = IF single THEN @ + 1 ELSE @]
  /\ UNCHANGED <<batch, metrics, pdfs>>

\* The person's answer runs the calls that asked again; a refused one is an error.
Confirm ==
  /\ chat.stage = "waiting"
  /\ chat' = [chat EXCEPT !.stage = "calling", !.resumed = TRUE]
  /\ \E state \in {"running", "error"} :
       batch' = [i \in DOMAIN batch |-> IF batch[i].state = "asks"
                   THEN [batch[i] EXCEPT !.confirmed = TRUE, !.state = state] ELSE batch[i]]
  /\ UNCHANGED <<metrics, pdfs>>

MetricsChange ==
  /\ metrics < MaxMetrics
  /\ metrics' = metrics + 1
  /\ UNCHANGED <<chat, batch, pdfs>>

ReplyNext ==
  \/ Message \/ CallTools \/ Answer \/ Merge \/ Confirm \/ MetricsChange
  \/ \E i \in DOMAIN batch :
       EndOk(i) \/ EndError(i) \/ BriefingRaises(i) \/ AskPerson(i) \/ SaveDashboard(i)

ReplySpec == ReplyInit /\ [][ReplyNext]_replyVars

(* ------------------------------ properties ------------------------------ *)

\* A turn that ended has one reply, a turn under way has none yet: a delivery
\* among other calls, or after a confirmation, leaves the answer to the model.
OneReply == chat.replies = IF chat.stage = "over" THEN 1 ELSE 0

\* "Errors never end the turn": a turn that a tool ended had no failed call.
ErrorsGoOn ==
  \A i \in DOMAIN batch : batch[i].completed =>
    \A k \in DOMAIN batch : batch[k].state = "ok"

\* The prose of a saved report was drafted from the numbers it is printed with.
ReportIsConsistent == \A p \in pdfs : p.prose = p.numbers

DeliveredOnce == OneReply /\ ErrorsGoOn /\ ReportIsConsistent
=============================================================================
