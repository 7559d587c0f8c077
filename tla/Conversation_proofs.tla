------------------------ MODULE Conversation_proofs -------------------------
(***************************************************************************)
(* Proofs about the parts of a conversation: ReplyTurn, for any turns,     *)
(* batches and metrics; EventGuard, for any turns side by side, as long    *)
(* as redaction leaves the worker's message as it is; History, for any     *)
(* contents and sessions; and WorkMemory, for any personas, calls and      *)
(* writes.                                                                 *)
(***************************************************************************)
EXTENDS ReplyTurn, EventGuard, History, WorkMemory, Induction

(* ------------------------------ ReplyTurn ------------------------------- *)

ToolCallRecord ==
  [tool : Tools, state : {"running", "ok", "error", "asks"}, draft : Nat,
   confirmed : BOOLEAN, completed : BOOLEAN]

ChatStages == {"model", "calling", "waiting", "over", "failed"}

ChatRecord ==
  [stage : ChatStages, resumed : BOOLEAN, replies : Nat, turns : Nat, batches : Nat]

ReplyTypeOK ==
  /\ chat \in ChatRecord
  /\ batch \in Seq(ToolCallRecord)
  /\ metrics \in Nat

\* A call that completes the reply is alone, and it succeeded.
CompletedAlone ==
  \A i \in DOMAIN batch : batch[i].completed => Len(batch) = 1 /\ batch[i].state = "ok"

ReplyInv ==
  /\ ReplyTypeOK
  /\ CompletedAlone
  /\ OneReply
  /\ ReportIsConsistent

\* The ways a step changes the turn.
LEMMA ChatUpdate ==
  ASSUME chat \in ChatRecord, NEW s \in ChatStages, NEW n \in Nat,
         \/ chat' = [chat EXCEPT !.stage = s] /\ n = chat.replies
         \/ chat' = [chat EXCEPT !.stage = s, !.replies = n]
         \/ chat' = [chat EXCEPT !.stage = s, !.batches = @ + 1] /\ n = chat.replies
  PROVE  chat' \in ChatRecord /\ chat'.stage = s /\ chat'.replies = n
<1>1. CASE chat' = [chat EXCEPT !.stage = s] /\ n = chat.replies
  BY <1>1 DEF ChatRecord
<1>2. CASE chat' = [chat EXCEPT !.stage = s, !.replies = n]
  BY <1>2 DEF ChatRecord
<1>3. CASE chat' = [chat EXCEPT !.stage = s, !.batches = @ + 1] /\ n = chat.replies
  <2> DEFINE m == chat.batches + 1
  <2>1. m \in Nat /\ chat' = [chat EXCEPT !.stage = s, !.batches = m]
    BY <1>3 DEF ChatRecord
  <2> HIDE DEF m
  <2> QED
    BY <1>3, <2>1 DEF ChatRecord
<1> QED
  BY <1>1, <1>2, <1>3

LEMMA InitReply == ReplyInit => ReplyInv
BY DEF ChatRecord, ChatStages, ReplyInit, ReplyInv, ReplyTypeOK, CompletedAlone, OneReply, ReportIsConsistent

\* Whoever answers or asks leaves the calls alone.
LEMMA ChatStep ==
  ASSUME ReplyInv, Message \/ Answer \/ MetricsChange
  PROVE  ReplyInv'
<1> USE DEF ReplyInv
<1>1. CASE Message
  BY <1>1 DEF Message, ChatRecord, ChatStages, ReplyTypeOK, CompletedAlone, OneReply, ReportIsConsistent
<1>2. CASE Answer
  <2>1. UNCHANGED <<batch, metrics, pdfs>>
    BY <1>2 DEF Answer
  <2>2. chat' \in ChatRecord /\ OneReply'
    <3>1. chat.replies = 0 /\ chat \in ChatRecord
      BY <1>2 DEF Answer, OneReply, ReplyTypeOK
    <3>2. CASE chat' = [chat EXCEPT !.stage = "over", !.replies = @ + 1]
      <4>1. chat' = [chat EXCEPT !.stage = "over", !.replies = 1]
        BY <3>1, <3>2
      <4>2. "over" \in ChatStages
        BY DEF ChatStages
      <4>3. chat' \in ChatRecord /\ chat'.stage = "over" /\ chat'.replies = 1
        BY <3>1, <4>1, <4>2, ChatUpdate
      <4> QED
        BY <4>3 DEF OneReply
    <3>3. CASE chat' = [chat EXCEPT !.stage = "failed"]
      <4>1. "failed" \in ChatStages /\ chat.replies \in Nat
        BY <3>1 DEF ChatStages
      <4>2. chat' \in ChatRecord /\ chat'.stage = "failed" /\ chat'.replies = chat.replies
        BY <3>1, <3>3, <4>1, ChatUpdate
      <4> QED
        BY <3>1, <4>2 DEF OneReply
    <3> QED
      BY <1>2, <3>2, <3>3 DEF Answer
  <2> QED
    BY <2>1, <2>2 DEF ReplyTypeOK, CompletedAlone, ReportIsConsistent
<1>3. CASE MetricsChange
  BY <1>3 DEF MetricsChange, ReplyTypeOK, CompletedAlone, OneReply, ReportIsConsistent
<1> QED
  BY <1>1, <1>2, <1>3

LEMMA CallStep ==
  ASSUME ReplyInv, CallTools
  PROVE  ReplyInv'
<1> USE DEF ReplyInv
<1>1. PICK a \in Tools, b \in Tools, d \in 1 .. metrics :
        batch' \in {<<NewCall(a, d)>>, <<NewCall(a, d), NewCall(b, d)>>}
  BY DEF CallTools
<1>2. ASSUME NEW tool \in Tools
      PROVE  NewCall(tool, d) \in ToolCallRecord /\ ~NewCall(tool, d).completed
  BY DEF NewCall, ToolCallRecord, ReplyTypeOK
<1>3. batch' \in Seq(ToolCallRecord) /\ \A i \in DOMAIN batch' : ~batch'[i].completed
  <2>1. CASE batch' = <<NewCall(a, d)>>
    BY <1>2, <2>1
  <2>2. CASE batch' = <<NewCall(a, d), NewCall(b, d)>>
    <3> DEFINE x == NewCall(a, d)
               y == NewCall(b, d)
    <3>1. x \in ToolCallRecord /\ y \in ToolCallRecord /\ ~x.completed /\ ~y.completed
      BY <1>2
    <3> HIDE DEF x, y
    <3>2. batch' = <<x, y>>
      BY <2>2 DEF x, y
    <3> QED
      BY <3>1, <3>2
  <2> QED
    BY <1>1, <2>1, <2>2
<1>4. chat' \in ChatRecord /\ OneReply'
  <2>1. "calling" \in ChatStages /\ chat.replies = 0 /\ chat.replies \in Nat /\ chat \in ChatRecord
    BY DEF CallTools, OneReply, ReplyTypeOK, ChatStages
  <2>2. chat' = [chat EXCEPT !.stage = "calling", !.batches = @ + 1]
    BY DEF CallTools
  <2>3. chat' \in ChatRecord /\ chat'.stage = "calling" /\ chat'.replies = chat.replies
    BY <2>1, <2>2, ChatUpdate
  <2> QED
    BY <2>1, <2>3 DEF OneReply
<1> QED
  BY <1>3, <1>4 DEF CallTools, ReplyTypeOK, CompletedAlone, ReportIsConsistent

\* One call ends; only a sole delivery completes the reply.
LEMMA ResultStep ==
  ASSUME ReplyInv, NEW i \in DOMAIN batch, Live(i), NEW state \in {"ok", "error", "asks"},
         NEW completed \in BOOLEAN, completed => state = "ok" /\ Len(batch) = 1,
         \/ batch' = [batch EXCEPT ![i].state = state, ![i].completed = completed]
         \/ ~completed /\ batch' = [batch EXCEPT ![i].state = state]
  PROVE  batch' \in Seq(ToolCallRecord) /\ CompletedAlone'
<1> USE DEF ReplyInv
<1>1. /\ Len(batch) \in Nat /\ DOMAIN batch = 1 .. Len(batch)
      /\ \A k \in DOMAIN batch : batch[k] \in ToolCallRecord
  BY DEF ReplyTypeOK
<1>2. ~batch[i].completed
  BY DEF Live, CompletedAlone
<1>3. PICK r \in ToolCallRecord : /\ batch' = [batch EXCEPT ![i] = r]
                              /\ r.state = state /\ r.completed = completed
  <2> DEFINE call == batch[i]
             both == [call EXCEPT !.state = state, !.completed = completed]
             one == [call EXCEPT !.state = state]
  <2>1. both \in ToolCallRecord /\ both.state = state /\ both.completed = completed
    BY <1>1 DEF ToolCallRecord
  <2>2. one \in ToolCallRecord /\ one.state = state /\ one.completed = call.completed
    BY <1>1 DEF ToolCallRecord
  <2>3. CASE batch' = [batch EXCEPT ![i].state = state, ![i].completed = completed]
    <3>1. batch' = [batch EXCEPT ![i] = both]
      BY <2>3
    <3> QED
      BY <2>1, <3>1
  <2>4. CASE ~completed /\ batch' = [batch EXCEPT ![i].state = state]
    <3>1. batch' = [batch EXCEPT ![i] = one]
      BY <2>4
    <3>2. one.completed = completed
      BY <1>1, <1>2, <2>2, <2>4 DEF ToolCallRecord
    <3> QED
      BY <2>2, <3>1, <3>2
  <2> QED
    BY <2>3, <2>4
<1>4. batch' \in Seq(ToolCallRecord) /\ Len(batch') = Len(batch) /\ DOMAIN batch' = DOMAIN batch
  BY <1>1, <1>3 DEF ReplyTypeOK
<1>5. \A k \in DOMAIN batch : batch'[k] = IF k = i THEN r ELSE batch[k]
  BY <1>1, <1>3
<1> QED
  BY <1>3, <1>4, <1>5 DEF CompletedAlone

LEMMA ReplyEndStep ==
  ASSUME ReplyInv, NEW i \in DOMAIN batch, EndOk(i) \/ EndError(i) \/ AskPerson(i) \/ SaveDashboard(i)
  PROVE  ReplyInv'
<1> USE DEF ReplyInv
<1>1. batch' \in Seq(ToolCallRecord) /\ CompletedAlone'
  <2>1. CASE EndOk(i) \/ SaveDashboard(i)
    <3> DEFINE done == batch[i].tool \in Delivering /\ SoleCurrentCall(i)
    <3>1. done \in BOOLEAN /\ (done => Len(batch) = 1)
      BY DEF SoleCurrentCall
    <3>2. Live(i) /\ batch' = [batch EXCEPT ![i].state = "ok", ![i].completed = done]
      BY <2>1 DEF EndOk, SaveDashboard, Succeed
    <3> HIDE DEF done
    <3> QED
      BY <3>1, <3>2, ResultStep
  <2>2. CASE EndError(i)
    BY <2>2, ResultStep DEF EndError
  <2>3. CASE AskPerson(i)
    BY <2>3, ResultStep DEF AskPerson
  <2> QED
    BY <2>1, <2>2, <2>3
<1>2. UNCHANGED <<chat, metrics>>
  BY DEF EndOk, EndError, AskPerson, SaveDashboard
<1>3. ReportIsConsistent'
  BY DEF EndOk, EndError, AskPerson, SaveDashboard, DraftIsFresh, ReportIsConsistent
<1> QED
  BY <1>1, <1>2, <1>3 DEF ReplyTypeOK, OneReply

LEMMA RaiseStep ==
  ASSUME ReplyInv, NEW i \in DOMAIN batch, BriefingRaises(i)
  PROVE  ReplyInv'
<1> USE DEF ReplyInv
<1>1. "failed" \in ChatStages /\ chat.replies = 0 /\ chat.replies \in Nat
  BY DEF BriefingRaises, Live, OneReply, ChatStages
<1>2. chat' = [chat EXCEPT !.stage = "failed"] /\ UNCHANGED <<batch, metrics, pdfs>>
  BY DEF BriefingRaises
<1>3. chat' \in ChatRecord /\ chat'.stage = "failed" /\ chat'.replies = chat.replies
  BY <1>1, <1>2, ChatUpdate DEF ReplyTypeOK
<1> QED
  BY <1>1, <1>2, <1>3 DEF ReplyTypeOK, CompletedAlone, OneReply, ReportIsConsistent

\* A call that completes the reply is the whole batch, so nothing else is open and
\* the plugin finds the single response it needs.
LEMMA MergeStep ==
  ASSUME ReplyInv, Merge
  PROVE  ReplyInv'
<1> USE DEF ReplyInv
<1> DEFINE skips == \E i \in DOMAIN batch : batch[i].completed
           asks == \E i \in DOMAIN batch : batch[i].state = "asks"
<1>1. skips => Len(batch) = 1 /\ ~asks
  <2> SUFFICES ASSUME NEW i \in DOMAIN batch, batch[i].completed
               PROVE  Len(batch) = 1 /\ ~asks
    OBVIOUS
  <2>1. Len(batch) = 1 /\ batch[i].state = "ok" /\ DOMAIN batch = 1 .. Len(batch)
    BY DEF CompletedAlone, ReplyTypeOK
  <2> QED
    BY <2>1
<1>2. chat.replies = 0 /\ chat.stage = "calling"
  BY DEF Merge, OneReply
<1>3. \E st \in ChatStages, n \in Nat :
        /\ chat' = [chat EXCEPT !.stage = st, !.replies = n]
        /\ n = IF st = "over" THEN 1 ELSE 0
  <2> DEFINE st == IF asks THEN "waiting" ELSE IF skips THEN "over" ELSE "model"
             n == IF skips /\ Len(batch) = 1 THEN chat.replies + 1 ELSE chat.replies
  <2>1. chat' = [chat EXCEPT !.stage = st, !.replies = n]
    BY DEF Merge
  <2>2. st \in ChatStages
    BY DEF ChatStages
  <2>3. n \in Nat /\ n = IF st = "over" THEN 1 ELSE 0
    <3> HIDE DEF skips, asks
    <3> QED
      BY <1>1, <1>2
  <2> HIDE DEF st, n
  <2> QED
    BY <2>1, <2>2, <2>3
<1>4. UNCHANGED <<batch, metrics, pdfs>>
  BY DEF Merge
<1> HIDE DEF skips, asks
<1>5. ReplyTypeOK' /\ OneReply'
  <2>1. PICK st \in ChatStages, n \in Nat :
          /\ chat' = [chat EXCEPT !.stage = st, !.replies = n]
          /\ n = IF st = "over" THEN 1 ELSE 0
    BY <1>3
  <2>2. chat' \in ChatRecord /\ chat'.stage = st /\ chat'.replies = n
    BY <2>1, ChatUpdate DEF ReplyTypeOK
  <2> QED
    BY <1>4, <2>1, <2>2 DEF ReplyTypeOK, OneReply
<1> QED
  BY <1>4, <1>5 DEF CompletedAlone, ReportIsConsistent

\* The calls that run again completed nothing before.
LEMMA ConfirmStep ==
  ASSUME ReplyInv, Confirm
  PROVE  ReplyInv'
<1> USE DEF ReplyInv
<1>1. PICK state \in {"running", "error"} :
        batch' = [i \in DOMAIN batch |-> IF batch[i].state = "asks"
                    THEN [batch[i] EXCEPT !.confirmed = TRUE, !.state = state] ELSE batch[i]]
  BY DEF Confirm
<1>2. /\ Len(batch) \in Nat /\ DOMAIN batch = 1 .. Len(batch)
      /\ \A k \in DOMAIN batch : batch[k] \in ToolCallRecord
  BY DEF ReplyTypeOK
<1>3. ASSUME NEW r \in ToolCallRecord
      PROVE  /\ [r EXCEPT !.confirmed = TRUE, !.state = state] \in ToolCallRecord
             /\ [r EXCEPT !.confirmed = TRUE, !.state = state].completed = r.completed
  BY DEF ToolCallRecord
<1>4. /\ DOMAIN batch' = 1 .. Len(batch)
      /\ \A k \in DOMAIN batch : batch'[k] \in ToolCallRecord
  BY <1>1, <1>2, <1>3
<1>5. batch' \in Seq(ToolCallRecord) /\ Len(batch') = Len(batch)
  <2>1. batch' = [i \in 1 .. Len(batch) |-> batch'[i]]
    BY <1>1, <1>2
  <2>2. batch' \in [1 .. Len(batch) -> ToolCallRecord]
    BY <1>2, <1>4, <2>1
  <2> QED
    BY <1>2, <2>2, SMT
<1>6. CompletedAlone'
  <2>1. ASSUME NEW k \in DOMAIN batch', batch'[k].completed
        PROVE  Len(batch') = 1 /\ batch'[k].state = "ok"
    <3>1. k \in DOMAIN batch /\ batch[k] \in ToolCallRecord
      BY <1>2, <1>4
    <3>2. batch[k].completed
      BY <1>1, <1>3, <2>1, <3>1
    <3>3. batch[k].state = "ok" /\ Len(batch) = 1
      BY <3>1, <3>2 DEF CompletedAlone
    <3> QED
      BY <1>1, <1>5, <3>1, <3>3
  <2> QED
    BY <2>1 DEF CompletedAlone
<1>7. UNCHANGED <<metrics, pdfs>> /\ chat.stage = "waiting"
      /\ chat' = [chat EXCEPT !.stage = "calling", !.resumed = TRUE]
  BY DEF Confirm
<1>8. chat' \in ChatRecord /\ OneReply'
  BY <1>7 DEF ReplyTypeOK, ChatRecord, ChatStages, OneReply
<1> QED
  BY <1>5, <1>6, <1>7, <1>8 DEF ReplyTypeOK, ReportIsConsistent

LEMMA NextReply == ReplyInv /\ [ReplyNext]_replyVars => ReplyInv'
<1> SUFFICES ASSUME ReplyInv, [ReplyNext]_replyVars PROVE ReplyInv'
  OBVIOUS
<1>1. CASE UNCHANGED replyVars
  BY <1>1 DEF replyVars, ReplyInv, ReplyTypeOK, CompletedAlone, OneReply, ReportIsConsistent
<1> QED
  BY <1>1, ChatStep, CallStep, ReplyEndStep, RaiseStep, MergeStep, ConfirmStep DEF ReplyNext

\* What relates the calls, the replies and the reports in every state.
THEOREM ReplyInvariance == ReplySpec => []ReplyInv
BY InitReply, NextReply, PTL DEF ReplySpec

\* A turn that is over has one reply, errors leave it to the model, and a saved
\* report's prose was drafted from its numbers.
THEOREM TurnsEndWell == ReplySpec => []DeliveredOnce
<1>1. ReplyInv => ErrorsGoOn
  <2> SUFFICES ASSUME ReplyInv, NEW i \in DOMAIN batch, batch[i].completed, NEW k \in DOMAIN batch
               PROVE  batch[k].state = "ok"
    BY DEF ErrorsGoOn
  <2>1. Len(batch) = 1 /\ batch[i].state = "ok" /\ DOMAIN batch = 1 .. Len(batch)
    BY DEF ReplyInv, CompletedAlone, ReplyTypeOK
  <2> QED
    BY <2>1
<1>2. ReplyInv => DeliveredOnce
  BY <1>1 DEF ReplyInv, DeliveredOnce
<1> QED
  BY <1>2, ReplyInvariance, PTL

(* ------------------------------ EventGuard ------------------------------ *)

View == [text : {"initial", "redacted", "other"}, flag : BOOLEAN, var : BOOLEAN]

Turn ==
  [by : {"nobody", "worker", "person"}, said : {"initial", "other"}, expected : BOOLEAN,
   at : {"off", "start", "root", "task", "tool", "waiting"}, marked : BOOLEAN,
   root : View, here : View, answer : {"none", "refused", "allowed"}]

\* What a view carries of the boundary, and the message it repeats, is the turn's.
Grounded(turn, view) ==
  /\ view.flag \/ view.var => turn.expected /\ turn.said = "initial"
  /\ view.text = "initial" => turn.said = "initial"

\* From the first model call on the worker's turn carries the ContextVar everywhere.
WorkerBound(turn) ==
  turn.by = "worker" =>
    /\ turn.expected /\ turn.said = "initial" /\ turn.root.text = "initial"
    /\ turn.at \in {"start", "root", "task", "tool"}
    /\ turn.marked => turn.root.var
    /\ turn.at # "start" => turn.marked /\ turn.here.var

Exact(turn) ==
  /\ turn.by = "nobody" => turn.at = "off"
  /\ turn.answer = "allowed" => turn.by = "person"
  /\ turn.answer = "refused" => turn.expected /\ turn.said = "initial"

GoodTurn(turn) ==
  /\ Grounded(turn, turn.root)
  /\ Grounded(turn, turn.here)
  /\ WorkerBound(turn)
  /\ Exact(turn)

GuardInv ==
  /\ turns \in [Turns -> Turn]
  /\ \A t \in Turns : GoodTurn(turns[t])

LEMMA NoTurnIsGood == NoTurn \in Turn /\ GoodTurn(NoTurn)
BY DEF NoTurn, Blank, View, Turn, GoodTurn, Grounded, WorkerBound, Exact

\* A step replaces the record of one turn.
LEMMA OneTurn ==
  ASSUME GuardInv, NEW t \in Turns, NEW new \in Turn, GoodTurn(new),
         turns' = [turns EXCEPT ![t] = new]
  PROVE  GuardInv'
BY DEF GuardInv

LEMMA BeginStep ==
  ASSUME ~Redactable, GuardInv, NEW t \in Turns, Begin(t)
  PROVE  GuardInv'
<1>1. PICK by \in {"worker", "person"}, said \in {"initial", "other"}, expected \in BOOLEAN :
        /\ by = "worker" => said = "initial" /\ expected
        /\ LET seen == [text |-> Ingress(said), flag |-> FALSE, var |-> FALSE]
           IN turns' = [turns EXCEPT ![t] =
                [by |-> by, said |-> said, expected |-> expected, at |-> "start",
                 marked |-> FALSE, root |-> seen, here |-> seen, answer |-> "none"]]
  BY DEF Begin
<1> DEFINE seen == [text |-> said, flag |-> FALSE, var |-> FALSE]
           new == [by |-> by, said |-> said, expected |-> expected, at |-> "start",
                   marked |-> FALSE, root |-> seen, here |-> seen, answer |-> "none"]
<1>2. turns' = [turns EXCEPT ![t] = new]
  <2>1. Ingress(said) = said
    BY DEF Ingress
  <2> QED
    BY <1>1, <2>1
<1>3. seen \in View
  BY DEF View
<1>4. new \in Turn
  BY <1>3 DEF Turn
<1>5. GoodTurn(new)
  BY <1>1 DEF GoodTurn, Grounded, WorkerBound, Exact
<1> HIDE DEF new
<1> QED
  BY <1>2, <1>4, <1>5, OneTurn

LEMMA RootStep ==
  ASSUME GuardInv, NEW t \in Turns, RootModel(t)
  PROVE  GuardInv'
<1> DEFINE old == turns[t]
           active == old.expected /\ old.root.text = "initial"
           seen == IF old.marked THEN old.root ELSE [old.root EXCEPT !.flag = active, !.var = active]
           new == [old EXCEPT !.at = "root", !.marked = TRUE, !.root = seen, !.here = seen]
<1>1. turns' = [turns EXCEPT ![t] = new]
  BY DEF RootModel
<1>2. old \in Turn /\ GoodTurn(old) /\ old.at \in {"start", "root"}
  BY DEF GuardInv, RootModel
<1>3. active \in BOOLEAN /\ old.root \in View
  BY <1>2 DEF Turn
<1>4. seen \in View
  <2> HIDE DEF active, old
  <2> QED
    BY <1>3 DEF View
<1>5. /\ new \in Turn
      /\ new.by = old.by /\ new.said = old.said /\ new.expected = old.expected
      /\ new.at = "root" /\ new.marked /\ new.root = seen /\ new.here = seen /\ new.answer = old.answer
  <2> HIDE DEF seen, old
  <2> QED
    BY <1>2, <1>4 DEF Turn
<1>6. /\ seen.text = old.root.text
      /\ old.marked => seen = old.root
      /\ ~old.marked => seen.flag = active /\ seen.var = active
  <2> HIDE DEF active, old
  <2> QED
    BY <1>3 DEF View
<1>7. GoodTurn(new)
  <2>1. Grounded(new, seen)
    BY <1>2, <1>5, <1>6 DEF GoodTurn, Grounded
  <2>2. WorkerBound(new)
    <3>1. old.by = "worker" => active /\ seen.text = "initial" /\ seen.var
      <4> HIDE DEF seen
      <4>1. old.by = "worker" => active /\ (old.marked => old.root.var)
        BY <1>2 DEF GoodTurn, WorkerBound
      <4> HIDE DEF active
      <4> QED
        BY <1>2, <1>6, <4>1 DEF GoodTurn, WorkerBound
    <3> HIDE DEF seen, new, old
    <3> QED
      BY <1>2, <1>5, <3>1 DEF GoodTurn, WorkerBound
  <2>3. Exact(new)
    BY <1>2, <1>5 DEF GoodTurn, Exact
  <2> QED
    BY <1>5, <2>1, <2>2, <2>3 DEF GoodTurn
<1> HIDE DEF new
<1> QED
  BY <1>1, <1>5, <1>7, OneTurn

\* A child inherits the ContextVar, whatever it loses of the state.
LEMMA DescendStep ==
  ASSUME GuardInv, NEW t \in Turns, Descend(t)
  PROVE  GuardInv'
<1>1. PICK child \in {"task", "tool"} :
        turns' = [turns EXCEPT ![t].at = child, ![t].here =
          [text |-> "other", flag |-> child = "task" /\ turns[t].root.flag, var |-> ContextOf(t)]]
  BY DEF Descend
<1> DEFINE old == turns[t]
           kept == child = "task" /\ old.root.flag
           seen == [text |-> "other", flag |-> kept, var |-> old.root.var]
           new == [old EXCEPT !.at = child, !.here = seen]
<1>2. turns' = [turns EXCEPT ![t] = new]
  BY <1>1 DEF ContextOf
<1>3. old \in Turn /\ GoodTurn(old) /\ old.at = "root"
  BY DEF GuardInv, Descend
<1>4. old.root \in View /\ old.root.var \in BOOLEAN /\ kept \in BOOLEAN
  BY <1>3 DEF Turn, View
<1>5. seen \in View
  <2> HIDE DEF kept, old
  <2> QED
    BY <1>4 DEF View
<1>6. /\ new \in Turn
      /\ new.by = old.by /\ new.said = old.said /\ new.expected = old.expected
      /\ new.at = child /\ new.marked = old.marked /\ new.root = old.root /\ new.here = seen
      /\ new.answer = old.answer
  <2> HIDE DEF seen, old
  <2> QED
    BY <1>3, <1>5 DEF Turn
<1>7. GoodTurn(new)
  <2>1. Grounded(new, old.root) /\ Grounded(new, seen)
    BY <1>3, <1>6 DEF GoodTurn, Grounded
  <2>2. WorkerBound(new)
    BY <1>3, <1>6 DEF GoodTurn, WorkerBound
  <2>3. Exact(new)
    BY <1>3, <1>6 DEF GoodTurn, Exact
  <2> QED
    BY <1>6, <2>1, <2>2, <2>3 DEF GoodTurn
<1> HIDE DEF new
<1> QED
  BY <1>2, <1>6, <1>7, OneTurn

LEMMA ReturnStep ==
  ASSUME GuardInv, NEW t \in Turns, Return(t)
  PROVE  GuardInv'
<1> DEFINE old == turns[t]
           new == [old EXCEPT !.at = "root", !.here = old.root]
<1>1. turns' = [turns EXCEPT ![t] = new]
  BY DEF Return
<1>2. old \in Turn /\ GoodTurn(old) /\ old.at \in {"task", "tool"}
  BY DEF GuardInv, Return
<1>3. /\ new \in Turn
      /\ new.by = old.by /\ new.said = old.said /\ new.expected = old.expected
      /\ new.at = "root" /\ new.marked = old.marked /\ new.root = old.root /\ new.here = old.root
      /\ new.answer = old.answer
  <2> HIDE DEF old
  <2> QED
    BY <1>2 DEF Turn
<1>4. GoodTurn(new)
  BY <1>2, <1>3 DEF GoodTurn, Grounded, WorkerBound, Exact
<1> HIDE DEF new
<1> QED
  BY <1>1, <1>3, <1>4, OneTurn

\* The check answers for the turn, not for the message that the agent sees.
LEMMA WriteStep ==
  ASSUME GuardInv, NEW t \in Turns, CallWrite(t)
  PROVE  GuardInv'
<1> DEFINE old == turns[t]
           said == IF ReadOnly(t) THEN "refused" ELSE "allowed"
           place == IF ReadOnly(t) \/ old.at = "tool" THEN old.at ELSE "waiting"
           new == [old EXCEPT !.answer = said, !.at = place]
<1>1. turns' = [turns EXCEPT ![t] = new]
  BY DEF CallWrite
<1>2. old \in Turn /\ GoodTurn(old) /\ old.at \in {"root", "task", "tool"}
  BY DEF GuardInv, CallWrite
<1>3. old.by = "worker" => ReadOnly(t)
  BY <1>2 DEF GoodTurn, WorkerBound, ReadOnly
<1>4. ReadOnly(t) => old.expected /\ old.said = "initial"
  BY <1>2 DEF GoodTurn, Grounded, ReadOnly
<1>5. said \in {"refused", "allowed"} /\ place \in {"root", "task", "tool", "waiting"}
  BY <1>2
<1>6. /\ new \in Turn
      /\ new.by = old.by /\ new.said = old.said /\ new.expected = old.expected
      /\ new.at = place /\ new.marked = old.marked /\ new.root = old.root /\ new.here = old.here
      /\ new.answer = said
  <2> HIDE DEF said, place, old
  <2> QED
    BY <1>2, <1>5 DEF Turn
<1>7. GoodTurn(new)
  <2>1. Grounded(new, new.root) /\ Grounded(new, new.here)
    BY <1>2, <1>6 DEF GoodTurn, Grounded
  <2>2. WorkerBound(new)
    BY <1>2, <1>3, <1>6 DEF GoodTurn, WorkerBound
  <2>3. Exact(new)
    <3>1. old.by # "nobody"
      BY <1>2 DEF GoodTurn, Exact
    <3>2. ReadOnly(t) => said = "refused"
      OBVIOUS
    <3>3. ~ReadOnly(t) => said = "allowed"
      OBVIOUS
    <3>4. CASE ReadOnly(t)
      <4> HIDE DEF said, place, new
      <4> QED
        BY <1>4, <1>6, <3>1, <3>2, <3>4 DEF Exact
    <3>5. CASE ~ReadOnly(t)
      <4>1. old.by = "person"
        BY <1>2, <1>3, <3>1, <3>5 DEF Turn
      <4> HIDE DEF said, place, new, old
      <4> QED
        BY <1>6, <3>3, <3>5, <4>1 DEF Exact
    <3> QED
      BY <3>4, <3>5
  <2> QED
    BY <2>1, <2>2, <2>3 DEF GoodTurn
<1> HIDE DEF new
<1> QED
  BY <1>1, <1>6, <1>7, OneTurn

LEMMA ResumeStep ==
  ASSUME GuardInv, NEW t \in Turns, Resume(t)
  PROVE  GuardInv'
<1>1. PICK level \in {"root", "task"} :
        turns' = [turns EXCEPT ![t].at = level, ![t].marked = FALSE, ![t].said = "other",
                    ![t].root = Blank, ![t].here = Blank, ![t].answer = "none"]
  BY DEF Resume
<1> DEFINE old == turns[t]
           new == [old EXCEPT !.at = level, !.marked = FALSE, !.said = "other",
                     !.root = Blank, !.here = Blank, !.answer = "none"]
<1>2. turns' = [turns EXCEPT ![t] = new]
  BY <1>1
<1>3. old \in Turn /\ old.by = "person"
  BY DEF GuardInv, Resume
<1>4. Blank \in View
  BY DEF Blank, View
<1>5. /\ new \in Turn
      /\ new.by = old.by /\ new.at = level /\ new.root = Blank /\ new.here = Blank
      /\ new.answer = "none"
  <2> HIDE DEF old
  <2> QED
    BY <1>3, <1>4 DEF Turn
<1>6. GoodTurn(new)
  BY <1>3, <1>5 DEF GoodTurn, Grounded, WorkerBound, Exact, Blank
<1> HIDE DEF new
<1> QED
  BY <1>2, <1>5, <1>6, OneTurn

LEMMA NextGuard ==
  ASSUME ~Redactable
  PROVE  GuardInv /\ [GuardNext]_turns => GuardInv'
<1> SUFFICES ASSUME GuardInv, [GuardNext]_turns PROVE GuardInv'
  OBVIOUS
<1>1. ASSUME NEW t \in Turns, EndTurnOf(t)
      PROVE  GuardInv'
  BY <1>1, NoTurnIsGood, OneTurn DEF EndTurnOf
<1>2. CASE UNCHANGED turns
  BY <1>2 DEF GuardInv
<1> QED
  BY <1>1, <1>2, BeginStep, RootStep, DescendStep, ReturnStep, WriteStep, ResumeStep DEF GuardNext

\* The worker's analysis never writes, and nobody else is held up for it.
THEOREM GuardHolds ==
  ASSUME ~Redactable
  PROVE  GuardSpec => []GuardIsExact
<1>1. GuardInit => GuardInv
  BY NoTurnIsGood DEF GuardInit, GuardInv
<1>2. GuardInv => GuardIsExact
  BY DEF GuardInv, GoodTurn, Exact, GuardIsExact
<1> QED
  BY <1>1, <1>2, NextGuard, PTL DEF GuardSpec

(* ------------------------------- History -------------------------------- *)

\* Whatever is pruned from a request, the person's messages, failures and questions
\* stay, and the quotes of finished work go unless a protected message says the same.
THEOREM PruningSafe == HistorySpec => PruningIsSafe
<1>1. ASSUME AskModel
      PROVE  /\ Of("user") \subseteq request'
             /\ {i \in Of("quote") : i < LastAsk /\ session[i].text \in {Failure, Question}} \subseteq request'
             /\ \A d \in Completed : ~IsUnsafe(d) =>
                  \A i \in QuotesOf(d) \cap request' : session[i].text \in Protected
  <2>1. request' = {i \in Shown : ~(HasText(i) /\ session[i].text \in Removable)}
    BY <1>1 DEF AskModel
  <2>2. ASSUME NEW i \in Of("user")
        PROVE  i \in request'
    <3>1. i \in Shown /\ session[i].text \in Protected
      BY DEF Of, Shown, Protected
    <3> QED
      BY <2>1, <3>1 DEF Removable
  <2>3. ASSUME NEW i \in Of("quote"), i < LastAsk, session[i].text \in {Failure, Question}
        PROVE  i \in request'
    <3>1. i \in Shown
      BY <2>3 DEF Shown
    <3>2. session[i].text \notin Removable
      BY <2>3 DEF Removable, IsUnsafe
    <3> QED
      BY <2>1, <3>1, <3>2
  <2>4. ASSUME NEW d \in Completed, ~IsUnsafe(d), NEW i \in QuotesOf(d) \cap request'
        PROVE  session[i].text \in Protected
    <3>1. HasText(i) /\ session[i].text \notin Removable
      BY <2>1, <2>4 DEF QuotesOf, Of, HasText
    <3>2. session[i].text \in UNION {{session[j].text : j \in QuotesOf(c)} : c \in {e \in Completed : ~IsUnsafe(e)}}
      BY <2>4
    <3> QED
      BY <3>1, <3>2 DEF Removable
  <2> QED
    BY <2>2, <2>3, <2>4
<1> QED
  BY <1>1, PTL DEF PruningIsSafe, HistorySpec

\* The entries of a session.
HistoryEntries == [kind : {"user"}, text : Asks \cup Quotes] \cup [kind : {"call"}]
  \cup [kind : {"quote"}, of : Nat, text : Quotes] \cup [kind : {"result"}, of : Nat, ok : BOOLEAN]

\* The session and the request are well formed.
HistoryTypeOK ==
  /\ session \in Seq(HistoryEntries)
  /\ turnOpen \in BOOLEAN
  /\ request \subseteq Places

\* A consultant's events are those of a delegation that had been made and was not over.
WhileDelegated ==
  \A i \in Places :
    /\ session[i].kind \in {"quote", "result"} =>
         session[i].of \in 1 .. i - 1 /\ session[session[i].of].kind = "call"
    /\ session[i].kind = "result" =>
         \A k \in Places : session[k].kind \in {"quote", "result"} /\ session[k].of = session[i].of => k <= i

\* The entries are well formed, and quotes and results belong to delegations.
HistoryInv == HistoryTypeOK /\ WhileDelegated

\* An entry that belongs to a delegation which is not over may follow.
LEMMA GrowsTo ==
  ASSUME HistoryInv, NEW e \in HistoryEntries, Grow(e), turnOpen' \in BOOLEAN, UNCHANGED request,
         e.kind \in {"quote", "result"} => e.of \in Of("call") /\ ResultOf(e.of) = {}
  PROVE  HistoryInv'
<1> DEFINE n == Len(session)
<1>1. /\ session \in Seq(HistoryEntries) /\ n \in Nat /\ Places = 1 .. n /\ request \subseteq 1 .. n
  BY DEF HistoryInv, HistoryTypeOK, Places
<1>2. session' \in Seq(HistoryEntries) /\ Len(session') = n + 1 /\ session'[n + 1] = e
      /\ \A i \in 1 .. n : session'[i] = session[i]
  BY <1>1 DEF Grow
<1>3. Places' = 1 .. n + 1
  BY <1>2 DEF Places
<1>4. HistoryTypeOK'
  BY <1>1, <1>2, <1>3 DEF HistoryTypeOK
<1>5. e.kind \in {"quote", "result"} =>
        /\ e.of \in 1 .. n /\ session[e.of].kind = "call"
        /\ \A i \in 1 .. n : session[i].kind = "result" => session[i].of # e.of
  BY <1>1 DEF Of, ResultOf
<1>6. ASSUME NEW i \in 1 .. n + 1
      PROVE  /\ session'[i].kind \in {"quote", "result"} =>
                  session'[i].of \in 1 .. i - 1 /\ session'[session'[i].of].kind = "call"
             /\ session'[i].kind = "result" =>
                  \A k \in 1 .. n + 1 : session'[k].kind \in {"quote", "result"}
                                        /\ session'[k].of = session'[i].of => k <= i
  <2>1. CASE i = n + 1
    BY <1>1, <1>2, <1>5, <2>1
  <2>2. CASE i # n + 1
    <3>1. i \in 1 .. n /\ session'[i] = session[i]
      BY <1>1, <1>2, <2>2
    <3>2. /\ session[i].kind \in {"quote", "result"} =>
               session[i].of \in 1 .. i - 1 /\ session[session[i].of].kind = "call"
          /\ session[i].kind = "result" =>
               \A k \in 1 .. n : session[k].kind \in {"quote", "result"}
                                 /\ session[k].of = session[i].of => k <= i
      BY <1>1, <3>1 DEF HistoryInv, WhileDelegated
    <3>3. ASSUME session[i].kind \in {"quote", "result"}
          PROVE  session'[session[i].of] = session[session[i].of]
      BY <1>1, <1>2, <3>1, <3>2, <3>3
    <3>4. ASSUME session[i].kind = "result", NEW k \in 1 .. n + 1,
                 session'[k].kind \in {"quote", "result"}, session'[k].of = session[i].of
          PROVE  k <= i
      <4>1. k \in 1 .. n
        BY <1>1, <1>2, <1>5, <3>1, <3>4
      <4> QED
        BY <1>2, <3>2, <3>4, <4>1
    <3> QED
      BY <3>1, <3>2, <3>3, <3>4
  <2> QED
    BY <2>1, <2>2
<1> QED
  BY <1>3, <1>4, <1>6 DEF HistoryInv, WhileDelegated

\* In every session a consultant's quotes and result come after its delegation, and
\* nothing of it comes after the result: what pruning decides by is never ambiguous.
THEOREM HistoryInvariance == HistorySpec => []HistoryInv
<1>1. HistoryInit => HistoryInv
  <2> SUFFICES ASSUME HistoryInit
               PROVE  HistoryInv
    OBVIOUS
  <2>1. session = <<>> /\ request = {} /\ turnOpen = FALSE /\ Places = {}
    BY DEF HistoryInit, Places
  <2>2. HistoryTypeOK
    <3>1. session \in Seq(HistoryEntries)
      BY <2>1
    <3>2. turnOpen \in BOOLEAN /\ request \subseteq Places
      BY <2>1
    <3> QED
      BY <3>1, <3>2 DEF HistoryTypeOK
  <2>3. WhileDelegated
    BY <2>1 DEF WhileDelegated
  <2> QED
    BY <2>2, <2>3 DEF HistoryInv
<1>2. ASSUME HistoryInv, [HistoryNext]_historyVars
      PROVE  HistoryInv'
  <2>1. \A d \in Working : d \in Of("call") /\ d \in Nat /\ ResultOf(d) = {}
    BY DEF Working, Of, Places
  <2>2. ASSUME NEW t \in Asks \cup Quotes, Ask(t)
        PROVE  HistoryInv'
    <3> DEFINE e == [kind |-> "user", text |-> t]
    <3>1. e \in HistoryEntries /\ e.kind = "user" /\ Grow(e)
      BY <2>2 DEF HistoryEntries, Ask
    <3> HIDE DEF e
    <3> QED
      BY <1>2, <2>2, <3>1, GrowsTo DEF Ask
  <2>3. ASSUME Delegate
        PROVE  HistoryInv'
    <3> DEFINE e == [kind |-> "call"]
    <3>1. e \in HistoryEntries /\ e.kind = "call" /\ Grow(e)
      BY <2>3 DEF HistoryEntries, Delegate
    <3>2. turnOpen' \in BOOLEAN
      BY <1>2, <2>3 DEF Delegate, HistoryInv, HistoryTypeOK
    <3> HIDE DEF e
    <3> QED
      BY <1>2, <2>3, <3>1, <3>2, GrowsTo DEF Delegate
  <2>4. ASSUME NEW t \in Quotes, ConsultantEvent(t)
        PROVE  HistoryInv'
    <3>1. PICK d \in Working : Grow([kind |-> "quote", of |-> d, text |-> t])
      BY <2>4 DEF ConsultantEvent
    <3> DEFINE e == [kind |-> "quote", of |-> d, text |-> t]
    <3>2. e \in HistoryEntries /\ e.of = d /\ Grow(e)
      BY <2>1, <3>1 DEF HistoryEntries
    <3>3. turnOpen' \in BOOLEAN
      BY <1>2, <2>4 DEF ConsultantEvent, HistoryInv, HistoryTypeOK
    <3> HIDE DEF e
    <3> QED
      BY <1>2, <2>1, <2>4, <3>2, <3>3, GrowsTo DEF ConsultantEvent
  <2>5. ASSUME NEW ok \in BOOLEAN, HandBack(ok)
        PROVE  HistoryInv'
    <3>1. PICK d \in Working : Grow([kind |-> "result", of |-> d, ok |-> ok])
      BY <2>5 DEF HandBack
    <3> DEFINE e == [kind |-> "result", of |-> d, ok |-> ok]
    <3>2. e \in HistoryEntries /\ e.of = d /\ Grow(e)
      BY <2>1, <3>1 DEF HistoryEntries
    <3>3. turnOpen' \in BOOLEAN
      BY <1>2, <2>5 DEF HandBack, HistoryInv, HistoryTypeOK
    <3> HIDE DEF e
    <3> QED
      BY <1>2, <2>1, <2>5, <3>2, <3>3, GrowsTo DEF HandBack
  <2>6. CASE EndTurn \/ UNCHANGED historyVars
    BY <1>2, <2>6 DEF EndTurn, historyVars, HistoryInv, HistoryTypeOK, WhileDelegated, Places
  <2>7. CASE AskModel
    BY <1>2, <2>7 DEF AskModel, HistoryInv, HistoryTypeOK, WhileDelegated, Places, Shown, Of
  <2> QED
    BY <1>2, <2>2, <2>3, <2>4, <2>5, <2>6, <2>7 DEF HistoryNext
<1> QED
  BY <1>1, <1>2, PTL DEF HistorySpec

(* ------------------------------ WorkMemory ------------------------------ *)

\* A call that has not asked for a review, or was refused one.
Idle == [stage : {"new", "refused"}]

\* A call whose preference is or was under review.
Reviews == [stage : {"asked", "waiting", "saved", "failed"}, by : Invocations,
            value : Preferences, reviewed : Personas, write : Nat]

\* What a write carries.
Submits == [scope : Personas, by : Invocations, value : Preferences]

\* Calls, writes and memories are well formed.
MemoryTypeOK ==
  /\ persona \in Personas
  /\ saves \in [Saves -> Idle \cup Reviews]
  /\ submits \in Seq(Submits)
  /\ underway \subseteq DOMAIN submits /\ memories \subseteq DOMAIN submits

\* The last write of a call is what the person reviewed, under the identity
\* that reviewed it; a call that was told so has a memory with the write's id.
SaveIsReviewed(c) ==
  LET n == saves[c].write
  IN saves[c].stage \in {"waiting", "saved", "failed"} =>
       /\ n \in DOMAIN submits
       /\ submits[n].scope = saves[c].reviewed /\ submits[n].value = saves[c].value
       /\ saves[c].stage = "saved" => Exists(n)

\* Memory Bank has no two memories with one id.
IdsDiffer ==
  \A m, k \in memories : MemoryId(submits[m]) = MemoryId(submits[k]) => m = k

\* The invariant: every call keeps what was reviewed with it.
MemoryInv == MemoryTypeOK /\ IdsDiffer /\ \A c \in Saves : SaveIsReviewed(c)

\* Nothing is saved in the beginning.
LEMMA MemoryStarts == MemoryInit => MemoryInv
BY DEF MemoryInit, MemoryInv, MemoryTypeOK, IdsDiffer, SaveIsReviewed, Idle

\* A call that is answered keeps what it reviewed.
LEMMA ToldKeeps ==
  ASSUME MemoryInv, NEW n \in DOMAIN submits, NEW answer \in {"saved", "failed"},
         Told(n, answer)
  PROVE  /\ saves' \in [Saves -> Idle \cup Reviews]
         /\ \A c \in Saves :
              \/ saves'[c] = saves[c]
              \/ /\ saves[c].stage = "waiting" /\ saves[c].write = n
                 /\ saves'[c].stage = answer /\ saves'[c].write = n
                 /\ saves'[c].value = saves[c].value /\ saves'[c].reviewed = saves[c].reviewed
<1>1. ASSUME NEW c \in Saves
      PROVE  /\ saves'[c] \in Idle \cup Reviews
             /\ \/ saves'[c] = saves[c]
                \/ /\ saves[c].stage = "waiting" /\ saves[c].write = n
                   /\ saves'[c].stage = answer /\ saves'[c].write = n
                   /\ saves'[c].value = saves[c].value /\ saves'[c].reviewed = saves[c].reviewed
  <2>1. saves[c] \in Idle \cup Reviews
    BY DEF MemoryInv, MemoryTypeOK
  <2>2. CASE saves[c].stage = "waiting" /\ saves[c].write = n
    <3>1. saves'[c] = [saves[c] EXCEPT !.stage = answer]
      BY <2>2 DEF Told
    <3>2. saves[c] \in Reviews
      BY <2>1, <2>2 DEF Idle
    <3> QED
      BY <2>2, <3>1, <3>2 DEF Reviews
  <2>3. CASE ~(saves[c].stage = "waiting" /\ saves[c].write = n)
    <3>1. saves'[c] = saves[c]
      BY <2>3 DEF Told
    <3> QED
      BY <2>1, <3>1
  <2> QED
    BY <2>2, <2>3
<1>2. DOMAIN saves' = Saves /\ saves' = [c \in Saves |-> saves'[c]]
  BY DEF Told
<1> QED
  BY <1>1, <1>2

\* Every step preserves the invariant, whoever the person is by then.
LEMMA MemoryStep ==
  ASSUME MemoryInv, [MemoryNext]_memoryVars
  PROVE  MemoryInv'
<1>1. MemoryTypeOK /\ IdsDiffer /\ \A c \in Saves : SaveIsReviewed(c)
  BY DEF MemoryInv
<1>2. CASE SwitchPersona \/ UNCHANGED memoryVars
  <2>1. MemoryTypeOK' /\ IdsDiffer'
    BY <1>1, <1>2 DEF SwitchPersona, memoryVars, MemoryTypeOK, IdsDiffer, MemoryId
  <2>2. \A c \in Saves : SaveIsReviewed(c)'
    BY <1>1, <1>2 DEF SwitchPersona, memoryVars, SaveIsReviewed, Exists, MemoryId
  <2> QED
    BY <2>1, <2>2 DEF MemoryInv
<1>3. ASSUME NEW c \in Saves, NEW r \in Idle \cup Reviews, saves' = [saves EXCEPT ![c] = r],
             r.stage \in {"asked", "refused"}, UNCHANGED <<persona, submits, underway, memories>>
      PROVE  MemoryInv'
  <2>1. MemoryTypeOK'
    BY <1>1, <1>3 DEF MemoryTypeOK
  <2>2. ASSUME NEW d \in Saves
        PROVE  SaveIsReviewed(d)'
    <3>1. CASE d = c
      BY <1>1, <1>3, <3>1 DEF MemoryTypeOK, SaveIsReviewed
    <3>2. CASE d # c
      BY <1>1, <1>3, <3>2 DEF MemoryTypeOK, SaveIsReviewed, Exists, MemoryId
    <3> QED
      BY <3>1, <3>2
  <2>3. IdsDiffer'
    BY <1>1, <1>3 DEF IdsDiffer, MemoryId
  <2> QED
    BY <2>1, <2>2, <2>3 DEF MemoryInv
<1>4. ASSUME NEW c \in Saves, AskToRemember(c)
      PROVE  MemoryInv'
  <2>1. PICK by \in Invocations, v \in Preferences :
          saves' = [saves EXCEPT ![c] =
            [stage |-> "asked", by |-> by, value |-> v, reviewed |-> persona, write |-> 0]]
    BY <1>4 DEF AskToRemember
  <2> DEFINE r == [stage |-> "asked", by |-> by, value |-> v, reviewed |-> persona, write |-> 0]
  <2>2. r \in Idle \cup Reviews /\ r.stage = "asked"
    BY <1>1 DEF MemoryTypeOK, Reviews
  <2> HIDE DEF r
  <2> QED
    BY <1>3, <1>4, <2>1, <2>2 DEF AskToRemember, r
<1>5. ASSUME NEW c \in Saves, DeclineToRemember(c)
      PROVE  MemoryInv'
  <2>1. [stage |-> "refused"] \in Idle \cup Reviews
    BY DEF Idle
  <2> QED
    BY <1>3, <1>5, <2>1 DEF DeclineToRemember
<1>6. ASSUME NEW c \in Saves, ConfirmSave(c)
      PROVE  MemoryInv'
  <2>1. CASE ~AsReviewed(c)
    <3>1. [stage |-> "refused"] \in Idle \cup Reviews
      BY DEF Idle
    <3> QED
      BY <1>3, <1>6, <2>1, <3>1 DEF ConfirmSave
  <2>2. CASE AsReviewed(c)
    <3> DEFINE n == Len(submits)
               w == [scope |-> persona, by |-> saves[c].by, value |-> saves[c].value]
    <3>1. saves[c] \in Reviews /\ saves[c].stage \in {"asked", "failed", "saved"}
      BY <1>1, <1>6 DEF ConfirmSave, MemoryTypeOK, Idle
    <3>2. w \in Submits /\ w.scope = saves[c].reviewed /\ w.value = saves[c].value
      BY <1>1, <2>2, <3>1 DEF MemoryTypeOK, Reviews, Submits, AsReviewed
    <3>3. /\ submits' = Append(submits, w)
          /\ underway' = underway \cup {Len(submits')}
          /\ saves' = [saves EXCEPT ![c].stage = "waiting", ![c].write = Len(submits')]
          /\ UNCHANGED <<persona, memories>>
      BY <1>6, <2>2 DEF ConfirmSave
    <3> HIDE DEF w
    <3>4. /\ n \in Nat /\ Len(submits') = n + 1 /\ submits' \in Seq(Submits)
          /\ DOMAIN submits' = 1 .. n + 1 /\ DOMAIN submits = 1 .. n
          /\ submits'[n + 1] = w /\ \A m \in 1 .. n : submits'[m] = submits[m]
      BY <1>1, <3>2, <3>3 DEF MemoryTypeOK
    <3>5. /\ DOMAIN saves' = Saves /\ saves' = [d \in Saves |-> saves'[d]]
          /\ saves'[c] = [[saves[c] EXCEPT !.stage = "waiting"] EXCEPT !.write = n + 1]
          /\ \A d \in Saves \ {c} : saves'[d] = saves[d]
      BY <1>1, <3>3, <3>4 DEF MemoryTypeOK
    <3>6. /\ saves'[c] \in Reviews /\ saves'[c].stage = "waiting" /\ saves'[c].write = n + 1
          /\ saves'[c].value = saves[c].value /\ saves'[c].reviewed = saves[c].reviewed
      <4> DEFINE r == [saves[c] EXCEPT !.stage = "waiting"]
      <4>1. r \in Reviews /\ r.stage = "waiting" /\ r.value = saves[c].value
            /\ r.reviewed = saves[c].reviewed
        BY <3>1 DEF Reviews
      <4>2. saves'[c] = [r EXCEPT !.write = n + 1] /\ n + 1 \in Nat
        BY <3>4, <3>5
      <4> HIDE DEF r, n
      <4> QED
        BY <4>1, <4>2 DEF Reviews
    <3>7. MemoryTypeOK'
      <4>1. saves' \in [Saves -> Idle \cup Reviews]
        BY <1>1, <3>5, <3>6 DEF MemoryTypeOK
      <4> QED
        BY <1>1, <3>3, <3>4, <4>1 DEF MemoryTypeOK
    <3>8. \A m \in 1 .. n : Exists(m) => Exists(m)'
      BY <1>1, <3>3, <3>4 DEF Exists, MemoryId, MemoryTypeOK
    <3>9. ASSUME NEW d \in Saves
          PROVE  SaveIsReviewed(d)'
      <4>1. CASE d = c
        BY <3>2, <3>4, <3>6, <4>1 DEF SaveIsReviewed
      <4>2. CASE d # c
        BY <1>1, <3>4, <3>5, <3>8, <4>2 DEF SaveIsReviewed
      <4> QED
        BY <4>1, <4>2
    <3>10. IdsDiffer'
      <4>1. \A m \in memories : m \in 1 .. n
        BY <1>1, <3>4 DEF MemoryTypeOK
      <4> QED
        BY <1>1, <3>3, <3>4, <4>1 DEF IdsDiffer, MemoryId
    <3> QED
      BY <3>7, <3>9, <3>10 DEF MemoryInv
  <2> QED
    BY <2>1, <2>2
<1>7. ASSUME NEW n \in underway, ApplySave(n)
      PROVE  MemoryInv'
  <2>1. n \in DOMAIN submits /\ Told(n, "saved") /\ UNCHANGED <<persona, submits>>
    BY <1>1, <1>7 DEF ApplySave, MemoryTypeOK
  <2>2. memories \subseteq memories' /\ memories' \subseteq memories \cup {n}
        /\ underway' \subseteq underway
    BY <1>7 DEF ApplySave
  <2>3. Exists(n)'
    BY <1>7, <2>1 DEF ApplySave, Exists, MemoryId
  <2>4. \A m \in DOMAIN submits : Exists(m) => Exists(m)'
    BY <2>1, <2>2 DEF Exists, MemoryId
  <2>5. MemoryTypeOK'
    BY <1>1, <2>1, <2>2, ToldKeeps DEF MemoryInv, MemoryTypeOK
  <2>6. ASSUME NEW d \in Saves
        PROVE  SaveIsReviewed(d)'
    <3>1. CASE saves'[d] = saves[d]
      BY <1>1, <2>1, <2>4, <3>1 DEF SaveIsReviewed
    <3>2. CASE saves'[d] # saves[d]
      <4>1. /\ saves[d].stage = "waiting" /\ saves[d].write = n
            /\ saves'[d].stage = "saved" /\ saves'[d].write = n
            /\ saves'[d].value = saves[d].value /\ saves'[d].reviewed = saves[d].reviewed
        BY <2>1, <3>2, ToldKeeps
      <4> QED
        BY <1>1, <2>1, <2>3, <4>1 DEF SaveIsReviewed
    <3> QED
      BY <3>1, <3>2
  <2>7. IdsDiffer'
    <3>1. CASE Exists(n)
      BY <1>1, <1>7, <2>1, <3>1 DEF ApplySave, IdsDiffer, MemoryId
    <3>2. CASE ~Exists(n)
      <4>1. memories' = memories \cup {n}
        BY <1>7, <3>2 DEF ApplySave
      <4> QED
        BY <1>1, <2>1, <3>2, <4>1 DEF IdsDiffer, Exists, MemoryId
    <3> QED
      BY <3>1, <3>2
  <2> QED
    BY <2>5, <2>6, <2>7 DEF MemoryInv
<1>8. ASSUME NEW n \in underway, GiveUpSave(n)
      PROVE  MemoryInv'
  <2>1. n \in DOMAIN submits /\ Told(n, "failed")
        /\ UNCHANGED <<persona, submits, underway, memories>>
    BY <1>1, <1>8 DEF GiveUpSave, MemoryTypeOK
  <2>2. MemoryTypeOK'
    BY <1>1, <2>1, ToldKeeps DEF MemoryInv, MemoryTypeOK
  <2>3. ASSUME NEW d \in Saves
        PROVE  SaveIsReviewed(d)'
    <3>1. CASE saves'[d] = saves[d]
      BY <1>1, <2>1, <3>1 DEF SaveIsReviewed, Exists, MemoryId
    <3>2. CASE saves'[d] # saves[d]
      <4>1. /\ saves[d].stage = "waiting" /\ saves[d].write = n
            /\ saves'[d].stage = "failed" /\ saves'[d].write = n
            /\ saves'[d].value = saves[d].value /\ saves'[d].reviewed = saves[d].reviewed
        BY <2>1, <3>2, ToldKeeps
      <4> QED
        BY <1>1, <2>1, <4>1 DEF SaveIsReviewed
    <3> QED
      BY <3>1, <3>2
  <2>4. IdsDiffer'
    BY <1>1, <2>1 DEF IdsDiffer, MemoryId
  <2> QED
    BY <2>2, <2>3, <2>4 DEF MemoryInv
<1> QED
  BY <1>2, <1>4, <1>5, <1>6, <1>7, <1>8 DEF MemoryNext

\* A write goes to the identity that reviewed it, with the value reviewed, and a call
\* that was told SUCCESS has a memory with that id, whatever arrives late or is repeated.
THEOREM MemoryInvariance == MemorySpec => []MemoryInv
<1>1. MemoryInit => MemoryInv
  BY MemoryStarts
<1>2. MemoryInv /\ [MemoryNext]_memoryVars => MemoryInv'
  BY MemoryStep
<1> QED
  BY <1>1, <1>2, PTL DEF MemorySpec

\* The newest of the memories that a search finds.
LEMMA NewestFound ==
  ASSUME NEW n \in Nat, NEW found \in SUBSET (1 .. n), found # {}
  PROVE  Newest(found) \in found /\ \A k \in found : k <= Newest(found)
<1>1. \E m \in found : \A k \in found : k <= m
  <2>1. found \in SUBSET (0 .. n)
    OBVIOUS
  <2> QED
    BY <2>1, LargestNumber
<1> QED
  BY <1>1 DEF Newest

\* For any numbers of personas, calls, invocations and writes: what a person confirmed,
\* and was told is saved, is recalled until another preference is written; an older
\* memory does not count again when its call is repeated.
THEOREM ConfirmedRecalled == MemorySpec => []ConfirmedIsRecalled
<1>1. ASSUME MemoryInv
      PROVE  ConfirmedIsRecalled
  <2> SUFFICES ASSUME NEW c \in Saves, saves[c].stage = "saved", ~Overtaken(saves[c].write)
               PROVE  Recalled(saves[c].reviewed) = saves[c].value
    BY DEF ConfirmedIsRecalled
  <2> DEFINE n == saves[c].write
             found == {m \in memories : submits[m].scope = saves[c].reviewed}
  <2>1. /\ n \in DOMAIN submits /\ submits[n].scope = saves[c].reviewed
        /\ submits[n].value = saves[c].value /\ Exists(n)
    BY <1>1 DEF MemoryInv, SaveIsReviewed
  <2>2. /\ submits \in Seq(Submits) /\ DOMAIN submits = 1 .. Len(submits) /\ Len(submits) \in Nat
        /\ memories \subseteq 1 .. Len(submits)
    BY <1>1 DEF MemoryInv, MemoryTypeOK
  <2>3. PICK m \in memories : MemoryId(submits[m]) = MemoryId(submits[n])
    BY <2>1 DEF Exists
  <2>4. submits[m] \in Submits /\ submits[n] \in Submits
    BY <2>1, <2>2
  <2>5. submits[m] = submits[n]
    BY <2>3, <2>4 DEF MemoryId, Submits
  <2>6. m \in found /\ found \in SUBSET (1 .. Len(submits))
    BY <2>1, <2>2, <2>5
  <2> DEFINE k == Newest(found)
  <2>7. k \in found /\ m <= k
    BY <2>2, <2>6, NewestFound
  <2>8. Recalled(saves[c].reviewed) = submits[k].value
    BY <2>6 DEF Recalled
  <2> HIDE DEF k
  <2>9. /\ k \in DOMAIN submits /\ m \in DOMAIN submits /\ m \in Nat /\ k \in Nat
        /\ submits[k].scope = submits[n].scope
    BY <2>1, <2>2, <2>6, <2>7
  <2>10. submits[k].value = submits[n].value
    <3> SUFFICES ASSUME submits[k].value # submits[n].value
                 PROVE  FALSE
      OBVIOUS
    <3>1. m < k
      BY <2>5, <2>7, <2>9
    <3>2. ASSUME NEW older \in memories, older < m, submits[older] = submits[k]
          PROVE  FALSE
      <4>1. older = k
        BY <1>1, <2>6, <2>7, <3>2 DEF MemoryInv, IdsDiffer
      <4> QED
        BY <2>9, <3>1, <3>2, <4>1
    <3>3. Overtaken(n)
      BY <2>5, <2>9, <3>1, <3>2 DEF Overtaken
    <3> QED
      BY <3>3
  <2> QED
    BY <2>1, <2>8, <2>10
<1> QED
  BY <1>1, MemoryInvariance, PTL
=============================================================================
