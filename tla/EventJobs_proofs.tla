-------------------------- MODULE EventJobs_proofs --------------------------
(***************************************************************************)
(* Proofs about EventJobs for any number of jobs, slots, calls and         *)
(* messages, and any timing that satisfies TimingAssumption.               *)
(*                                                                         *)
(* The safety invariants are not inductive on their own.  IInv adds what   *)
(* ties a slot to the document it leased: a request Pub/Sub still waits    *)
(* for has more lease left than any clock error, a slot that may start an  *)
(* analysis holds a job that has none, and an unfinished job has lost no   *)
(* message.                                                                *)
(***************************************************************************)
EXTENDS EventJobs, TLAPS

\* The document: one analysis at most, in the conversation it names.
DocInv ==
  \A j \in Jobs :
    /\ started[j] <=> session[j] # None
    /\ analyses[j] <= 1
    /\ ~started[j] => analyses[j] = 0
    /\ started[j] => status[j] \in {"processing"} \cup Finished
    /\ status[j] = "completed" => analyses[j] = 1 /\ answer[j] = session[j]
    /\ shown[j] # None => status[j] = "completed" /\ shown[j] = answer[j]

\* The subscription: every message of an unfinished job is still in it.
MessageInv ==
  /\ \A j \in Jobs : status[j] \notin Finished =>
       \A k \in 1..pub[j] : <<j, k>> \in sub
  /\ \A m \in sub : status[m[1]] # "absent"
  /\ \A c \in Callers : call[c] # None => status[call[c]] # "absent"

\* A slot and the document of its job, whether or not it kept its lease.
SlotInv ==
  \A w \in Workers :
    /\ stage[w] # "idle" => task[w] \in Messages /\ status[JobOf(w)] # "absent"
    /\ stage[w] # "replying" => reply[w] = "none"
    /\ stage[w] \in {"preparing", "analysing", "failing"} =>
         status[JobOf(w)] # "queued"
    /\ stage[w] = "preparing" /\ Holds(w) => ~started[JobOf(w)]
    /\ stage[w] = "analysing" =>
         /\ started[JobOf(w)]
         /\ analyses[JobOf(w)] = 1
         /\ Holds(w) => session[JobOf(w)] = w

\* The lease outlasts the request by twice the clock error.
Leased(w) == Holds(w) /\ left[JobOf(w)] >= LeaseTime - ClockSkew - age[w]

\* What is true of a slot as long as Pub/Sub waits for it.
OpenInv ==
  \A w \in Workers :
    Open(w) =>
      /\ stage[w] \in {"preparing", "analysing"} => Leased(w)
      /\ stage[w] = "failing" => Leased(w) \/ status[JobOf(w)] \in Finished
      /\ stage[w] = "replying" /\ reply[w] # "busy" =>
           reply[w] # "lease_lost" /\ status[JobOf(w)] \in Finished

IInv == TypeOK /\ DocInv /\ MessageInv /\ SlotInv /\ OpenInv

-----------------------------------------------------------------------------
\* What a lowered lease is, and that the floor lies below every clock reading.
LEMMA LeaseArithmetic ==
  /\ Floor \in Int /\ LeaseTime \in Nat /\ ClockSkew \in Nat /\ AckDeadline \in Nat
  /\ Floor <= 0
  /\ \A n \in Floor..(LeaseTime + ClockSkew) :
       /\ Lower(n) \in Floor..(LeaseTime + ClockSkew)
       /\ Lower(n) >= n - 1
  /\ \A a \in 0..AckDeadline : \A now \in -(a + ClockSkew)..ClockSkew :
       /\ now \in Int
       /\ now + LeaseTime \in Floor..(LeaseTime + ClockSkew)
       /\ now + LeaseTime >= LeaseTime - ClockSkew - a
  BY TimingAssumption, SMT DEF Floor, Lower

\* Updating a function at any point keeps its type.
LEMMA ExceptType ==
  ASSUME NEW S, NEW T, NEW f \in [S -> T], NEW x, NEW v \in T
  PROVE  [f EXCEPT ![x] = v] \in [S -> T]
  OBVIOUS

-----------------------------------------------------------------------------
(* Type correctness.                                                       *)

\* The initial values have their types.
LEMMA InitTypeOK == Init => TypeOK
  BY JobsAssumption, LeaseArithmetic
  DEF Init, TypeOK, Statuses, Stages, Replies, NoTask, Messages

\* Calls, deliveries and the inbox keep the types.
LEMMA FrontendTypeOK ==
  ASSUME TypeOK,
         \/ \E c \in Callers, j \in Jobs : Submit(c, j)
         \/ \E c \in Callers : Publish(c) \/ AbandonCall(c)
         \/ \E j \in Jobs : Refresh(j) \/ OpenNotification(j)
  PROVE  TypeOK'
  <1> USE JobsAssumption DEF TypeOK, doc, queue, slots, inbox
  <1>1. ASSUME NEW c \in Callers, NEW j \in Jobs, Submit(c, j) PROVE TypeOK'
    BY <1>1 DEF Submit, Statuses
  <1>2. ASSUME NEW c \in Callers, Publish(c) PROVE TypeOK'
    <2>1. call[c] \in Jobs
      BY <1>2 DEF Publish
    <2>2. pub[call[c]] + 1 \in 1..MaxPublish
      BY <1>2, <2>1 DEF Publish
    <2>3. sub' \in SUBSET Messages
      BY <1>2, <2>1, <2>2 DEF Publish, Messages
    <2> QED
      BY <1>2, <2>1, <2>2, <2>3 DEF Publish
  <1>3. ASSUME NEW c \in Callers, AbandonCall(c) PROVE TypeOK'
    BY <1>3 DEF AbandonCall
  <1>4. ASSUME NEW j \in Jobs, Refresh(j) PROVE TypeOK'
    BY <1>4 DEF Refresh
  <1>5. ASSUME NEW j \in Jobs, OpenNotification(j) PROVE TypeOK'
    BY <1>5 DEF OpenNotification
  <1> QED
    BY <1>1, <1>2, <1>3, <1>4, <1>5

\* So does every step of a worker slot.
LEMMA SlotTypeOK ==
  ASSUME TypeOK, NEW w \in Workers,
         \/ \E m \in Messages : Deliver(w, m)
         \/ Handle(w)
         \/ Crash(w)
  PROVE  TypeOK'
  <1> USE JobsAssumption, LeaseArithmetic
      DEF TypeOK, doc, queue, slots, inbox, Stages, Replies, Statuses,
          Answer, GoTo, Release, SetOutcome, RecordAnswer, BindSession
  <1>1. ASSUME NEW m \in Messages, Deliver(w, m) PROVE TypeOK'
    BY <1>1 DEF Deliver
  <1>2. CASE ClaimFinished(w)
    BY <1>2 DEF ClaimFinished
  <1>3. CASE ClaimBusy(w)
    BY <1>3 DEF ClaimBusy
  <1>4. CASE ClaimJob(w)
    <2>1. PICK now \in Readings(w) : left' = [left EXCEPT ![JobOf(w)] = now + LeaseTime]
      BY <1>4 DEF ClaimJob
    <2>2. now + LeaseTime \in Floor..(LeaseTime + ClockSkew)
      BY <2>1 DEF Readings
    <2>3. left' \in [Jobs -> Floor..(LeaseTime + ClockSkew)]
      BY <2>1, <2>2
    <2> QED
      BY <1>4, <2>3 DEF ClaimJob, AfterClaim
  <1>5. CASE StartAnalysis(w)
    <2>1. analyses' \in [Jobs -> 0..2]
      <3> DEFINE n == IF analyses[JobOf(w)] = 0 THEN 1 ELSE 2
      <3>1. analyses' = [analyses EXCEPT ![JobOf(w)] = n]
        BY <1>5, Zenon DEF StartAnalysis
      <3>2. n \in 0..2
        OBVIOUS
      <3> HIDE DEF n
      <3> QED
        BY <3>1, <3>2, ExceptType
    <2>2. started' \in [Jobs -> BOOLEAN] /\ session' \in [Jobs -> Workers \cup {None}]
      BY <1>5 DEF StartAnalysis
    <2> QED
      BY <1>5, <2>1, <2>2 DEF StartAnalysis
  <1>6. CASE PrepareFails(w)
    <2>1. ASSUME BindSession(w) PROVE TypeOK'
      <3>1. session' \in [Jobs -> Workers \cup {None}] /\ started' \in [Jobs -> BOOLEAN]
        BY <2>1
      <3> QED
        BY <1>6, <2>1, <3>1 DEF PrepareFails
    <2>2. ASSUME UNCHANGED doc PROVE TypeOK'
      BY <1>6, <2>2 DEF PrepareFails
    <2>3. BindSession(w) \/ UNCHANGED doc
      BY <1>6, Zenon DEF PrepareFails
    <2> QED
      BY <2>1, <2>2, <2>3, Zenon
  <1>7. CASE AnalysisFails(w)
    BY <1>7 DEF AnalysisFails
  <1>8. CASE Commit(w)
    BY <1>8 DEF Commit
  <1>9. CASE CommitRaises(w)
    <2>1. left' \in [Jobs -> Floor..(LeaseTime + ClockSkew)]
      <3>1. Floor \in Floor..(LeaseTime + ClockSkew)
        OBVIOUS
      <3> QED
        BY <1>9, <3>1, ExceptType DEF CommitRaises
    <2>2. answer' \in [Jobs -> Workers \cup {None}] /\ status' \in [Jobs -> Statuses]
      BY <1>9 DEF CommitRaises
    <2> QED
      BY <1>9, <2>1, <2>2 DEF CommitRaises
  <1>10. CASE RecordFailure(w)
    BY <1>10 DEF RecordFailure
  <1>11. CASE Acknowledge(w)
    BY <1>11 DEF Acknowledge
  <1>12. CASE NotAcknowledged(w)
    BY <1>12 DEF NotAcknowledged
  <1>13. CASE Crash(w)
    BY <1>13 DEF Crash
  <1> QED
    BY <1>1, <1>2, <1>3, <1>4, <1>5, <1>6, <1>7, <1>8, <1>9, <1>10, <1>11,
       <1>12, <1>13 DEF Handle

\* And the clock, down to the floor and up to the deadline.
LEMMA TickTypeOK == TypeOK /\ Tick => TypeOK'
  <1> SUFFICES ASSUME TypeOK, Tick PROVE TypeOK'
    OBVIOUS
  <1>1. left' \in [Jobs -> Floor..(LeaseTime + ClockSkew)]
    BY LeaseArithmetic DEF TypeOK, Tick
  <1>2. age' \in [Workers -> 0..AckDeadline]
    BY LeaseArithmetic DEF TypeOK, Tick, Older, Open
  <1> QED
    BY <1>1, <1>2 DEF TypeOK, Tick, queue, inbox

\* Every variable keeps its type.
THEOREM TypeCorrect == Spec => []TypeOK
  <1>1. TypeOK /\ [Next]_vars => TypeOK'
    <2> SUFFICES ASSUME TypeOK, [Next]_vars PROVE TypeOK'
      OBVIOUS
    <2>1. CASE UNCHANGED vars
      BY <2>1 DEF TypeOK, vars, doc, queue, slots, inbox
    <2> QED
      BY <2>1, FrontendTypeOK, SlotTypeOK, TickTypeOK DEF Next
  <1> QED
    BY <1>1, InitTypeOK, PTL DEF Spec

-----------------------------------------------------------------------------
(* The inductive invariant.                                                *)

\* Nothing is published, leased or shown yet.
LEMMA InitIInv == Init => IInv
  BY InitTypeOK, JobsAssumption, LeaseArithmetic
  DEF Init, IInv, DocInv, MessageInv, SlotInv, OpenInv, Finished, NoTask

\* The job of a busy slot is a job.
LEMMA BusySlot ==
  ASSUME TypeOK, SlotInv, NEW w \in Workers, stage[w] # "idle"
  PROVE  JobOf(w) \in Jobs /\ task[w] \in Messages /\ status[JobOf(w)] # "absent"
  BY DEF SlotInv, JobOf, Messages

\* Sessions, answers and analyses of a document agree after every step.
LEMMA DocStep ==
  ASSUME IInv, [Next]_vars
  PROVE  DocInv'
  <1> USE JobsAssumption DEF IInv, DocInv, Finished
  <1>1. ASSUME NEW c \in Callers, NEW j \in Jobs, Submit(c, j) PROVE DocInv'
    BY <1>1 DEF Submit, TypeOK, inbox
  <1>2. ASSUME NEW c \in Callers, Publish(c) \/ AbandonCall(c) PROVE DocInv'
    BY <1>2 DEF Publish, AbandonCall, doc, inbox
  <1>3. ASSUME NEW w \in Workers, NEW m \in Messages, Deliver(w, m) PROVE DocInv'
    BY <1>3 DEF Deliver, doc, inbox
  <1>4. ASSUME NEW w \in Workers, Handle(w) \/ Crash(w) PROVE DocInv'
    <2>1. CASE \/ ClaimFinished(w) \/ ClaimBusy(w) \/ AnalysisFails(w)
               \/ Acknowledge(w) \/ NotAcknowledged(w) \/ Crash(w)
      BY <2>1 DEF ClaimFinished, ClaimBusy, AnalysisFails, Acknowledge,
                  NotAcknowledged, Crash, doc, inbox
    <2>2. CASE ClaimJob(w)
      BY <2>2, BusySlot DEF ClaimJob, Claimable, TypeOK, inbox
    <2>3. CASE StartAnalysis(w)
      <3>1. ~started[JobOf(w)] /\ JobOf(w) \in Jobs /\ status[JobOf(w)] = "processing"
        BY <2>3, BusySlot DEF StartAnalysis, SlotInv, Holds
      <3> QED
        BY <2>3, <3>1 DEF StartAnalysis, BindSession, TypeOK, inbox
    <2>4. CASE PrepareFails(w)
      <3>1. CASE Holds(w) /\ BindSession(w)
        <4>1. ~started[JobOf(w)] /\ JobOf(w) \in Jobs /\ status[JobOf(w)] = "processing"
          BY <2>4, <3>1, BusySlot DEF PrepareFails, SlotInv, Holds
        <4> QED
          BY <2>4, <3>1, <4>1 DEF PrepareFails, BindSession, TypeOK, inbox
      <3>2. CASE UNCHANGED doc
        BY <2>4, <3>2 DEF PrepareFails, doc, inbox
      <3> QED
        BY <2>4, <3>1, <3>2 DEF PrepareFails
    <2>5. CASE stage[w] = "analysing" /\ Holds(w) /\ RecordAnswer(w) /\ UNCHANGED <<inbox, analyses>>
      <3>1. /\ analyses[JobOf(w)] = 1 /\ session[JobOf(w)] = w
            /\ JobOf(w) \in Jobs /\ status[JobOf(w)] = "processing"
        BY <2>5, BusySlot DEF SlotInv, Holds
      <3> QED
        BY <2>5, <3>1 DEF RecordAnswer, SetOutcome, TypeOK, inbox
    <2>6. CASE Commit(w) /\ ~Holds(w)
      BY <2>6 DEF Commit, doc, inbox
    <2>7. CASE RecordFailure(w)
      <3>1. CASE Holds(w)
        <4>1. JobOf(w) \in Jobs /\ status[JobOf(w)] = "processing"
          BY <2>7, <3>1, BusySlot DEF RecordFailure, Holds
        <4> QED
          BY <2>7, <3>1, <4>1 DEF RecordFailure, SetOutcome, TypeOK, inbox
      <3>2. CASE ~Holds(w)
        BY <2>7, <3>2 DEF RecordFailure, doc, inbox
      <3> QED
        BY <3>1, <3>2
    <2> QED
      BY <1>4, <2>1, <2>2, <2>3, <2>4, <2>5, <2>6, <2>7
      DEF Handle, Commit, CommitRaises
  <1>5. ASSUME NEW j \in Jobs, Refresh(j) PROVE DocInv'
    BY <1>5 DEF Refresh, TypeOK, doc
  <1>6. ASSUME NEW j \in Jobs, OpenNotification(j) PROVE DocInv'
    BY <1>6 DEF OpenNotification, doc
  <1>7. CASE Tick
    BY <1>7 DEF Tick, inbox
  <1>8. CASE UNCHANGED vars
    BY <1>8 DEF vars, doc, inbox
  <1> QED
    BY <1>1, <1>2, <1>3, <1>4, <1>5, <1>6, <1>7, <1>8 DEF Next

\* How a step of a slot may change the status of a job: only the job of the
\* slot, never away from a finished one, never back to queued or absent.
LEMMA StatusStep ==
  ASSUME IInv, NEW w \in Workers, Handle(w) \/ Crash(w), NEW j \in Jobs
  PROVE  /\ status[j] \in Finished => status'[j] = status[j]
         /\ status'[j] # status[j] =>
              j = JobOf(w) /\ status'[j] \in {"processing"} \cup Finished
  <1> USE DEF Finished, TypeOK, IInv
  <1>1. CASE ClaimFinished(w) \/ ClaimBusy(w) \/ AnalysisFails(w) \/ StartAnalysis(w)
             \/ PrepareFails(w) \/ Acknowledge(w) \/ NotAcknowledged(w) \/ Crash(w)
    BY <1>1 DEF ClaimFinished, ClaimBusy, AnalysisFails, StartAnalysis, PrepareFails,
                Acknowledge, NotAcknowledged, Crash, BindSession, doc
  <1>2. CASE ClaimJob(w)
    BY <1>2 DEF ClaimJob, Claimable
  <1>3. CASE Commit(w) \/ CommitRaises(w) \/ RecordFailure(w)
    BY <1>3 DEF Commit, CommitRaises, RecordFailure, RecordAnswer, SetOutcome, Holds, doc
  <1> QED
    BY <1>1, <1>2, <1>3 DEF Handle

\* A step leaves an unfinished published job a message.
LEMMA MessageStep ==
  ASSUME IInv, [Next]_vars
  PROVE  MessageInv'
  <1> USE JobsAssumption DEF IInv, MessageInv, Finished
  <1>1. ASSUME NEW c \in Callers, NEW j \in Jobs, Submit(c, j) PROVE MessageInv'
    BY <1>1 DEF Submit, TypeOK, queue
  <1>2. ASSUME NEW c \in Callers, Publish(c) PROVE MessageInv'
    <2> DEFINE j == call[c]
    <2>1. /\ j \in Jobs /\ status[j] # "absent" /\ pub[j] \in Nat
          /\ pub' = [pub EXCEPT ![j] = pub[j] + 1]
          /\ sub' = sub \cup {<<j, pub[j] + 1>>}
          /\ status' = status
      BY <1>2 DEF Publish, TypeOK, doc
    <2>2. \A i \in Jobs : status'[i] \notin Finished =>
            \A k \in 1..pub'[i] : <<i, k>> \in sub'
      BY <2>1 DEF TypeOK
    <2>3. \A m \in sub' : status'[m[1]] # "absent"
      BY <2>1
    <2>4. \A d \in Callers : call'[d] # None => status'[call'[d]] # "absent"
      BY <1>2, <2>1 DEF Publish, TypeOK
    <2> QED
      BY <2>2, <2>3, <2>4
  <1>3. ASSUME NEW c \in Callers, AbandonCall(c) PROVE MessageInv'
    BY <1>3 DEF AbandonCall, TypeOK, doc, queue
  <1>4. ASSUME NEW w \in Workers, NEW m \in Messages, Deliver(w, m) PROVE MessageInv'
    BY <1>4 DEF Deliver, doc, queue
  <1>5. ASSUME NEW w \in Workers, Handle(w) \/ Crash(w) PROVE MessageInv'
    <2>1. \A j \in Jobs :
            /\ status'[j] # "absent" <=> status[j] # "absent" \/ (j = JobOf(w) /\ status'[j] # status[j])
            /\ status'[j] \notin Finished => status[j] \notin Finished
      BY <1>5, StatusStep
    <2>2. \A j \in Jobs : status[j] # "absent" => status'[j] # "absent"
      BY <2>1
    <2>3. call' = call /\ pub' = pub
      BY <1>5 DEF Handle, ClaimFinished, ClaimBusy, ClaimJob, StartAnalysis, PrepareFails,
                  AnalysisFails, Commit, CommitRaises, RecordFailure, Acknowledge,
                  NotAcknowledged, Crash, queue
    <2>4. CASE Acknowledge(w)
      <3>1. status[JobOf(w)] \in Finished
        BY <2>4 DEF Acknowledge, Acknowledges, Refused, OpenInv
      <3>2. sub' = sub \ {task[w]} /\ status' = status
        BY <2>4 DEF Acknowledge, doc
      <3>3. \A j \in Jobs : status[j] \notin Finished =>
              \A k \in 1..pub[j] : <<j, k>> # task[w]
        BY <3>1 DEF JobOf
      <3> QED
        BY <2>3, <3>2, <3>3
    <2>5. CASE ~Acknowledge(w)
      <3>1. sub' = sub
        BY <1>5, <2>5 DEF Handle, ClaimFinished, ClaimBusy, ClaimJob, StartAnalysis,
               PrepareFails, AnalysisFails, Commit, CommitRaises, RecordFailure,
               NotAcknowledged, Crash, queue
      <3>2. \A m \in sub : m[1] \in Jobs
        BY DEF TypeOK, Messages
      <3>3. \A c \in Callers : call[c] # None => call[c] \in Jobs
        BY DEF TypeOK
      <3> QED
        BY <2>1, <2>2, <2>3, <3>1, <3>2, <3>3
    <2> QED
      BY <2>4, <2>5
  <1>6. ASSUME NEW j \in Jobs, Refresh(j) \/ OpenNotification(j) PROVE MessageInv'
    BY <1>6 DEF Refresh, OpenNotification, doc, queue
  <1>7. CASE Tick
    BY <1>7 DEF Tick, queue
  <1>8. CASE UNCHANGED vars
    BY <1>8 DEF vars, doc, queue
  <1> QED
    BY <1>1, <1>2, <1>3, <1>4, <1>5, <1>6, <1>7, <1>8 DEF Next

\* A step of one slot leaves the others where they are.
LEMMA OtherSlots ==
  ASSUME TypeOK, NEW w \in Workers, Handle(w) \/ Crash(w), NEW x \in Workers, x # w
  PROVE  stage'[x] = stage[x] /\ task'[x] = task[x] /\ age'[x] = age[x] /\ reply'[x] = reply[x]
  <1> USE DEF TypeOK, Answer, GoTo, Release, slots
  <1>1. CASE ClaimFinished(w) \/ ClaimBusy(w) \/ ClaimJob(w)
    BY <1>1 DEF ClaimFinished, ClaimBusy, ClaimJob
  <1>2. CASE StartAnalysis(w) \/ PrepareFails(w) \/ AnalysisFails(w)
    BY <1>2 DEF StartAnalysis, PrepareFails, AnalysisFails
  <1>3. CASE Commit(w) \/ CommitRaises(w) \/ RecordFailure(w)
    BY <1>3 DEF Commit, CommitRaises, RecordFailure
  <1>4. CASE Acknowledge(w) \/ NotAcknowledged(w) \/ Crash(w)
    BY <1>4 DEF Acknowledge, NotAcknowledged, Crash
  <1> QED
    BY <1>1, <1>2, <1>3, <1>4 DEF Handle

\* What a step of slot w may do to the document of any job: take the lease
\* of an expired one, or bind and run the first analysis of one it holds.
LEMMA DocumentStep ==
  ASSUME IInv, NEW w \in Workers, Handle(w) \/ Crash(w), NEW j \in Jobs
  PROVE  /\ lease'[j] # lease[j] => lease'[j] = w
         /\ \/ started'[j] = started[j] /\ session'[j] = session[j] /\ analyses'[j] = analyses[j]
            \/ lease[j] = w /\ status[j] = "processing" /\ ~started[j]
  <1> USE DEF TypeOK, IInv
  <1>1. CASE ClaimFinished(w) \/ ClaimBusy(w) \/ AnalysisFails(w)
             \/ Acknowledge(w) \/ NotAcknowledged(w) \/ Crash(w)
    BY <1>1 DEF ClaimFinished, ClaimBusy, AnalysisFails, Acknowledge, NotAcknowledged,
                Crash, doc
  <1>2. CASE ClaimJob(w)
    BY <1>2 DEF ClaimJob
  <1>3. CASE StartAnalysis(w)
    <2>1. ~started[JobOf(w)]
      BY <1>3 DEF StartAnalysis, SlotInv
    <2> QED
      BY <1>3, <2>1 DEF StartAnalysis, BindSession, Holds
  <1>4. CASE PrepareFails(w)
    <2>1. Holds(w) => ~started[JobOf(w)]
      BY <1>4 DEF PrepareFails, SlotInv
    <2> QED
      BY <1>4, <2>1 DEF PrepareFails, BindSession, Holds, doc
  <1>5. CASE Commit(w) \/ CommitRaises(w) \/ RecordFailure(w)
    BY <1>5 DEF Commit, CommitRaises, RecordFailure, RecordAnswer, SetOutcome, doc
  <1> QED
    BY <1>1, <1>2, <1>3, <1>4, <1>5 DEF Handle

\* The invariant of one slot.
SlotInvOf(w) ==
  /\ stage[w] # "idle" => task[w] \in Messages /\ status[JobOf(w)] # "absent"
  /\ stage[w] # "replying" => reply[w] = "none"
  /\ stage[w] \in {"preparing", "analysing", "failing"} => status[JobOf(w)] # "queued"
  /\ stage[w] = "preparing" /\ Holds(w) => ~started[JobOf(w)]
  /\ stage[w] = "analysing" =>
       /\ started[JobOf(w)]
       /\ analyses[JobOf(w)] = 1
       /\ Holds(w) => session[JobOf(w)] = w

\* The invariant of the slots is that of each of them.
LEMMA SlotInvSplit == SlotInv <=> \A w \in Workers : SlotInvOf(w)
  BY DEF SlotInv, SlotInvOf

\* A step of slot w keeps the invariant of every other slot.
LEMMA SlotStepOther ==
  ASSUME IInv, NEW w \in Workers, Handle(w) \/ Crash(w), NEW x \in Workers, x # w
  PROVE  SlotInvOf(x)'
  <1>1. stage'[x] = stage[x] /\ task'[x] = task[x] /\ reply'[x] = reply[x]
    BY OtherSlots DEF IInv
  <1>2. SlotInvOf(x)
    BY SlotInvSplit DEF IInv
  <1> DEFINE j == JobOf(x)
  <1>3. JobOf(x)' = j
    BY <1>1 DEF JobOf
  <1>4. CASE stage[x] = "idle"
    BY <1>1, <1>2, <1>4 DEF SlotInvOf
  <1>5. CASE stage[x] # "idle"
    <2>1. j \in Jobs
      BY <1>5, BusySlot DEF IInv
    <2>2. status'[j] # status[j] => status'[j] \in {"processing"} \cup Finished
      BY <2>1, StatusStep
    <2>3. status[j] \in Finished => status'[j] = status[j]
      BY <2>1, StatusStep
    <2>4. Holds(x)' => Holds(x) \/ status[j] # "processing"
      BY <1>3, <2>1, DocumentStep DEF Holds
    <2>5. stage[x] \in {"preparing", "analysing"} /\ Holds(x)' => Holds(x)
      <3>1. stage[x] \in {"preparing", "analysing"} =>
              status[j] \in {"processing"} \cup Finished
        BY <1>2, <1>5, <2>1 DEF SlotInvOf, IInv, TypeOK, Statuses, Finished
      <3> QED
        BY <1>3, <2>3, <2>4, <3>1 DEF Holds, Finished
    <2>6. \/ started'[j] = started[j] /\ session'[j] = session[j] /\ analyses'[j] = analyses[j]
          \/ lease[j] = w /\ ~started[j]
      BY <2>1, DocumentStep
    <2>7. UNCHANGED j
      BY <1>3
    <2>8. ~Holds(x) \/ lease[j] # w
      BY DEF Holds
    <2> HIDE DEF j
    <2>9. (stage[x] # "idle" => task[x] \in Messages /\ status[j] # "absent")'
      BY <1>1, <1>2, <1>5, <2>2, <2>7 DEF SlotInvOf, Finished, j
    <2>10. (stage[x] \in {"preparing", "analysing", "failing"} => status[j] # "queued")'
      BY <1>1, <1>2, <2>2, <2>7 DEF SlotInvOf, Finished, j
    <2>11. (stage[x] = "preparing" /\ Holds(x) => ~started[j])'
      BY <1>1, <1>2, <2>5, <2>6, <2>7, <2>8 DEF SlotInvOf, j
    <2>12. (stage[x] = "analysing" =>
              started[j] /\ analyses[j] = 1 /\ (Holds(x) => session[j] = x))'
      BY <1>1, <1>2, <2>5, <2>6, <2>7 DEF SlotInvOf, j
    <2> QED
      BY <1>1, <1>2, <2>9, <2>10, <2>11, <2>12 DEF SlotInvOf, j
  <1> QED
    BY <1>4, <1>5

\* A step of slot w keeps its own invariant.
LEMMA SlotStepOwn ==
  ASSUME IInv, NEW w \in Workers, Handle(w) \/ Crash(w)
  PROVE  SlotInvOf(w)'
  <1> USE DEF IInv, TypeOK
  <1>1. SlotInvOf(w)
    BY SlotInvSplit
  <1>2. CASE ClaimFinished(w) \/ ClaimBusy(w)
    BY <1>1, <1>2 DEF ClaimFinished, ClaimBusy, Answer, doc, SlotInvOf, JobOf
  <1>3. CASE ClaimJob(w)
    <2>1. JobOf(w) \in Jobs /\ task[w] \in Messages
      BY <1>3, BusySlot DEF ClaimJob
    <2>2. /\ task' = task /\ reply' = reply /\ JobOf(w)' = JobOf(w)
          /\ stage'[w] = AfterClaim(JobOf(w)) /\ started' = started
          /\ status'[JobOf(w)] = "processing"
      BY <1>3, <2>1 DEF ClaimJob, GoTo, JobOf
    <2> QED
      BY <1>1, <1>3, <2>1, <2>2 DEF SlotInvOf, AfterClaim, ClaimJob
  <1>4. CASE StartAnalysis(w)
    <2>1. /\ JobOf(w) \in Jobs /\ task[w] \in Messages /\ ~started[JobOf(w)]
          /\ analyses[JobOf(w)] = 0 /\ status[JobOf(w)] = "processing"
      BY <1>1, <1>4, BusySlot DEF StartAnalysis, SlotInvOf, Holds, DocInv
    <2>2. /\ task' = task /\ reply' = reply /\ JobOf(w)' = JobOf(w)
          /\ stage'[w] = "analysing" /\ status' = status
          /\ started'[JobOf(w)] /\ session'[JobOf(w)] = w /\ analyses'[JobOf(w)] = 1
      BY <1>4, <2>1 DEF StartAnalysis, BindSession, GoTo, JobOf
    <2> QED
      BY <1>1, <1>4, <2>1, <2>2 DEF SlotInvOf, StartAnalysis
  <1>5. CASE PrepareFails(w) \/ AnalysisFails(w)
    <2>1. /\ task' = task /\ reply' = reply /\ JobOf(w)' = JobOf(w)
          /\ stage'[w] = "failing" /\ status' = status
      BY <1>5 DEF PrepareFails, AnalysisFails, BindSession, GoTo, JobOf, doc
    <2> QED
      BY <1>1, <1>5, <2>1 DEF SlotInvOf, PrepareFails, AnalysisFails
  <1>6. CASE Commit(w) \/ CommitRaises(w) \/ RecordFailure(w)
    <2>1. stage[w] \in {"analysing", "failing"} /\ JobOf(w) \in Jobs
      BY <1>6, BusySlot DEF Commit, CommitRaises, RecordFailure
    <2>2. /\ task' = task /\ JobOf(w)' = JobOf(w)
          /\ stage'[w] \in {"failing", "replying"}
          /\ stage'[w] = "failing" => reply' = reply
      BY <1>6 DEF Commit, CommitRaises, RecordFailure, GoTo, Answer, JobOf
    <2>3. status'[JobOf(w)] # status[JobOf(w)] => status'[JobOf(w)] \in {"processing"} \cup Finished
      BY <1>6, <2>1, StatusStep DEF Handle
    <2> QED
      BY <1>1, <2>1, <2>2, <2>3 DEF SlotInvOf, Finished
  <1>7. CASE Acknowledge(w) \/ NotAcknowledged(w) \/ Crash(w)
    <2>1. stage'[w] = "idle" /\ reply'[w] = "none"
      BY <1>7 DEF Acknowledge, NotAcknowledged, Crash, Release
    <2> QED
      BY <2>1 DEF SlotInvOf
  <1> QED
    BY <1>2, <1>3, <1>4, <1>5, <1>6, <1>7 DEF Handle

\* Every step keeps the invariant of all slots.
LEMMA SlotStep ==
  ASSUME IInv, [Next]_vars
  PROVE  SlotInv'
  <1> SUFFICES ASSUME NEW x \in Workers PROVE SlotInvOf(x)'
    BY SlotInvSplit DEF SlotInv, SlotInvOf
  <1> USE JobsAssumption DEF IInv, TypeOK
  <1>1. SlotInvOf(x)
    BY SlotInvSplit
  <1>2. ASSUME NEW c \in Callers, NEW j \in Jobs, Submit(c, j) PROVE SlotInvOf(x)'
    <2>1. \A i \in Jobs : status[i] \notin {"absent", "queued"} => status'[i] = status[i]
      BY <1>2 DEF Submit
    <2>2. \A i \in Jobs : status[i] # "absent" => status'[i] = status[i]
      BY <1>2 DEF Submit
    <2>3. UNCHANGED <<slots, lease, started, session, analyses>> /\ JobOf(x)' = JobOf(x)
      BY <1>2 DEF Submit, slots, JobOf
    <2>4. CASE stage[x] = "idle"
      BY <1>1, <2>3, <2>4 DEF SlotInvOf, slots
    <2>5. CASE stage[x] # "idle"
      BY <1>1, <2>2, <2>3, <2>5, BusySlot DEF SlotInvOf, Holds, slots
    <2> QED
      BY <2>4, <2>5
  <1>3. ASSUME NEW c \in Callers, Publish(c) \/ AbandonCall(c) PROVE SlotInvOf(x)'
    BY <1>1, <1>3 DEF Publish, AbandonCall, doc, slots, SlotInvOf, Holds, JobOf
  <1>4. ASSUME NEW w \in Workers, NEW m \in Messages, Deliver(w, m) PROVE SlotInvOf(x)'
    <2>1. CASE x = w
      <3>1. /\ stage'[w] = "claiming" /\ task'[w] = m /\ JobOf(w)' = m[1]
            /\ reply' = reply /\ status' = status /\ stage[w] = "idle" /\ m \in sub
        BY <1>4 DEF Deliver, JobOf, doc
      <3>2. status[m[1]] # "absent"
        BY <3>1 DEF MessageInv
      <3> QED
        BY <1>1, <2>1, <3>1, <3>2 DEF SlotInvOf
    <2>2. CASE x # w
      BY <1>1, <1>4, <2>2 DEF Deliver, doc, SlotInvOf, Holds, JobOf
    <2> QED
      BY <2>1, <2>2
  <1>5. ASSUME NEW w \in Workers, Handle(w) \/ Crash(w) PROVE SlotInvOf(x)'
    BY <1>5, SlotStepOwn, SlotStepOther
  <1>6. ASSUME NEW j \in Jobs, Refresh(j) \/ OpenNotification(j) PROVE SlotInvOf(x)'
    BY <1>1, <1>6 DEF Refresh, OpenNotification, doc, slots, SlotInvOf, Holds, JobOf
  <1>7. CASE Tick
    BY <1>1, <1>7 DEF Tick, SlotInvOf, Holds, JobOf
  <1>8. CASE UNCHANGED vars
    BY <1>1, <1>8 DEF vars, doc, slots, SlotInvOf, Holds, JobOf
  <1> QED
    BY <1>2, <1>3, <1>4, <1>5, <1>6, <1>7, <1>8 DEF Next

OpenInvOf(w) ==
  Open(w) =>
    /\ stage[w] \in {"preparing", "analysing"} => Leased(w)
    /\ stage[w] = "failing" => Leased(w) \/ status[JobOf(w)] \in Finished
    /\ stage[w] = "replying" /\ reply[w] # "busy" =>
         reply[w] # "lease_lost" /\ status[JobOf(w)] \in Finished

\* The invariant of the open requests is that of each slot.
LEMMA OpenInvSplit == OpenInv <=> \A w \in Workers : OpenInvOf(w)
  BY DEF OpenInv, OpenInvOf

\* Nobody can take the lease of a request Pub/Sub still waits for: what is
\* left of it is more than any clock can be ahead.
LEMMA LeaseNotTaken ==
  ASSUME IInv, NEW w \in Workers, Handle(w) \/ Crash(w),
         NEW x \in Workers, x # w, Open(x), Leased(x), stage[x] # "idle"
  PROVE  /\ lease'[JobOf(x)] = x
         /\ status'[JobOf(x)] = "processing"
         /\ left'[JobOf(x)] = left[JobOf(x)]
  <1> USE DEF TypeOK, IInv
  <1>1. JobOf(x) \in Jobs /\ lease[JobOf(x)] = x /\ status[JobOf(x)] = "processing"
    BY BusySlot DEF Leased, Holds
  <1>2. left[JobOf(x)] \in Int /\ left[JobOf(x)] > ClockSkew
    <2>1. age[x] \in Nat /\ age[x] < AckDeadline
      BY LeaseArithmetic DEF Open
    <2> QED
      BY <1>1, <2>1, TimingAssumption, LeaseArithmetic DEF Leased
  <1>3. CASE ClaimJob(w)
    <2>1. PICK now \in Readings(w) :
            /\ Claimable(JobOf(w), now)
            /\ status' = [status EXCEPT ![JobOf(w)] = "processing"]
            /\ lease' = [lease EXCEPT ![JobOf(w)] = w]
            /\ left' = [left EXCEPT ![JobOf(w)] = now + LeaseTime]
      BY <1>3 DEF ClaimJob
    <2>2. now \in Int /\ now <= ClockSkew
      BY LeaseArithmetic DEF Readings
    <2>3. JobOf(w) # JobOf(x)
      BY <1>2, <2>1, <2>2, LeaseArithmetic DEF Claimable
    <2> QED
      BY <1>1, <2>1, <2>3
  <1>4. CASE Commit(w) \/ CommitRaises(w) \/ RecordFailure(w)
    BY <1>1, <1>4 DEF Commit, CommitRaises, RecordFailure, RecordAnswer, SetOutcome, Holds, doc
  <1>5. CASE StartAnalysis(w) \/ PrepareFails(w)
    BY <1>1, <1>5 DEF StartAnalysis, PrepareFails, BindSession, doc
  <1>6. CASE ClaimFinished(w) \/ ClaimBusy(w) \/ AnalysisFails(w)
             \/ Acknowledge(w) \/ NotAcknowledged(w) \/ Crash(w)
    BY <1>1, <1>6 DEF ClaimFinished, ClaimBusy, AnalysisFails, Acknowledge, NotAcknowledged,
                Crash, doc
  <1> QED
    BY <1>3, <1>4, <1>5, <1>6 DEF Handle

\* A step of slot w keeps what an open request of another slot relies on.
LEMMA OpenStepOther ==
  ASSUME IInv, NEW w \in Workers, Handle(w) \/ Crash(w), NEW x \in Workers, x # w
  PROVE  OpenInvOf(x)'
  <1>1. stage'[x] = stage[x] /\ task'[x] = task[x] /\ age'[x] = age[x] /\ reply'[x] = reply[x]
    BY OtherSlots DEF IInv
  <1>2. OpenInvOf(x) /\ JobOf(x)' = JobOf(x) /\ Open(x)' = Open(x)
    BY <1>1, OpenInvSplit DEF IInv, JobOf, Open
  <1>3. CASE stage[x] = "idle" \/ ~Open(x)
    BY <1>1, <1>2, <1>3 DEF OpenInvOf
  <1>4. CASE stage[x] # "idle" /\ Open(x)
    <2>1. JobOf(x) \in Jobs
      BY <1>4, BusySlot DEF IInv
    <2>2. status[JobOf(x)] \in Finished => status'[JobOf(x)] \in Finished
      BY <2>1, StatusStep
    <2>3. Leased(x) => Leased(x)'
      BY <1>1, <1>2, <1>4, LeaseNotTaken DEF Leased, Holds
    <2> QED
      BY <1>1, <1>2, <2>2, <2>3 DEF OpenInvOf
  <1> QED
    BY <1>3, <1>4

\* A step of slot w keeps what its own open request relies on.
LEMMA OpenStepOwn ==
  ASSUME IInv, NEW w \in Workers, Handle(w) \/ Crash(w)
  PROVE  OpenInvOf(w)'
  <1> USE DEF IInv, TypeOK
  <1>1. OpenInvOf(w)
    BY OpenInvSplit
  <1>2. CASE ClaimFinished(w)
    <2>1. JobOf(w) \in Jobs /\ status[JobOf(w)] \in Finished
      BY <1>2, BusySlot DEF ClaimFinished
    <2>2. JobOf(w)' = JobOf(w) /\ reply'[w] = "finished" /\ stage'[w] = "replying" /\ status' = status
      BY <1>2 DEF ClaimFinished, Answer, JobOf, doc
    <2> QED
      BY <2>1, <2>2 DEF OpenInvOf
  <1>3. CASE ClaimBusy(w)
    BY <1>3 DEF ClaimBusy, Answer, OpenInvOf
  <1>4. CASE ClaimJob(w)
    <2>1. PICK now \in Readings(w) : left' = [left EXCEPT ![JobOf(w)] = now + LeaseTime]
      BY <1>4 DEF ClaimJob
    <2>2. JobOf(w) \in Jobs
      BY <1>4, BusySlot DEF ClaimJob
    <2>3. now + LeaseTime >= LeaseTime - ClockSkew - age[w]
      BY LeaseArithmetic DEF Readings
    <2>4. /\ lease'[JobOf(w)] = w /\ status'[JobOf(w)] = "processing"
          /\ left'[JobOf(w)] = now + LeaseTime
          /\ age' = age /\ JobOf(w)' = JobOf(w)
          /\ stage'[w] \in {"preparing", "failing"}
      BY <1>4, <2>1, <2>2 DEF ClaimJob, GoTo, AfterClaim, JobOf
    <2> QED
      BY <2>3, <2>4 DEF OpenInvOf, Leased, Holds
  <1>5. CASE StartAnalysis(w) \/ PrepareFails(w) \/ AnalysisFails(w)
    <2>1. /\ stage[w] \in {"preparing", "analysing"} /\ stage'[w] \in {"analysing", "failing"}
          /\ UNCHANGED <<status, lease, left, task, age>>
      BY <1>5 DEF StartAnalysis, PrepareFails, AnalysisFails, BindSession, GoTo, doc
    <2> QED
      BY <1>1, <2>1 DEF OpenInvOf, Leased, Holds, Open, JobOf
  <1>6. CASE Commit(w) \/ CommitRaises(w)
    <2>1. JobOf(w) \in Jobs
      BY <1>6, BusySlot DEF Commit, CommitRaises
    <2>2. stage[w] = "analysing" /\ UNCHANGED <<task, age>>
      BY <1>6 DEF Commit, CommitRaises, GoTo, Answer
    <2>3. CASE Holds(w)
      <3>1. status'[JobOf(w)] = "completed"
        BY <1>6, <2>1, <2>3 DEF Commit, CommitRaises, RecordAnswer, SetOutcome
      <3>2. stage'[w] = "failing" \/ (stage'[w] = "replying" /\ reply'[w] = "completed")
        BY <1>6, <2>3 DEF Commit, CommitRaises, GoTo, Answer
      <3> QED
        BY <2>2, <3>1, <3>2 DEF OpenInvOf, Finished, JobOf
    <2>4. CASE ~Holds(w)
      BY <1>1, <2>2, <2>4 DEF OpenInvOf, Leased, Open
    <2> QED
      BY <2>3, <2>4
  <1>7. CASE RecordFailure(w)
    <2>1. JobOf(w) \in Jobs
      BY <1>7, BusySlot DEF RecordFailure
    <2>2. /\ stage[w] = "failing" /\ UNCHANGED <<task, age>>
          /\ stage'[w] = "replying" /\ reply'[w] = "failed"
      BY <1>7 DEF RecordFailure, Answer
    <2>3. Open(w) => status'[JobOf(w)] \in Finished
      BY <1>1, <1>7, <2>1, <2>2 DEF OpenInvOf, Leased, RecordFailure, SetOutcome, Finished, doc
    <2> QED
      BY <2>2, <2>3 DEF OpenInvOf, JobOf, Open
  <1>8. CASE Acknowledge(w) \/ NotAcknowledged(w) \/ Crash(w)
    <2>1. stage'[w] = "idle"
      BY <1>8 DEF Acknowledge, NotAcknowledged, Crash, Release
    <2> QED
      BY <2>1 DEF OpenInvOf
  <1> QED
    BY <1>2, <1>3, <1>4, <1>5, <1>6, <1>7, <1>8 DEF Handle

\* Time passes for the lease and for the request alike.
LEMMA OpenStepTick ==
  ASSUME IInv, Tick, NEW x \in Workers
  PROVE  OpenInvOf(x)'
  <1> USE DEF IInv, TypeOK
  <1>1. OpenInvOf(x)
    BY OpenInvSplit
  <1>2. /\ UNCHANGED <<status, lease, stage, task, reply>>
        /\ JobOf(x)' = JobOf(x) /\ age'[x] = Older(x)
        /\ left' = [j \in Jobs |-> Lower(left[j])]
    BY DEF Tick, JobOf
  <1>3. CASE stage[x] = "idle"
    BY <1>2, <1>3 DEF OpenInvOf
  <1>4. CASE stage[x] # "idle"
    <2>1. JobOf(x) \in Jobs
      BY <1>4, BusySlot
    <2>2. left'[JobOf(x)] >= left[JobOf(x)] - 1 /\ left'[JobOf(x)] \in Int
      BY <1>2, <2>1, LeaseArithmetic
    <2>3. Open(x)' => Open(x) /\ age'[x] = age[x] + 1
      BY <1>2, <1>4 DEF Older, Open
    <2>4. Open(x)' /\ Leased(x) => Leased(x)'
      BY <1>2, <2>1, <2>2, <2>3, LeaseArithmetic DEF Leased, Holds
    <2> QED
      BY <1>1, <1>2, <2>3, <2>4 DEF OpenInvOf
  <1> QED
    BY <1>3, <1>4

\* Every step keeps what open requests rely on.
LEMMA OpenStep ==
  ASSUME IInv, [Next]_vars
  PROVE  OpenInv'
  <1> SUFFICES ASSUME NEW x \in Workers PROVE OpenInvOf(x)'
    BY OpenInvSplit DEF OpenInv, OpenInvOf
  <1> USE JobsAssumption DEF IInv, TypeOK
  <1>1. OpenInvOf(x)
    BY OpenInvSplit
  <1>2. ASSUME NEW c \in Callers, NEW j \in Jobs, Submit(c, j) PROVE OpenInvOf(x)'
    <2>1. \A i \in Jobs : status[i] # "absent" /\ status[i] # "queued" => status'[i] = status[i]
      BY <1>2 DEF Submit
    <2>2. UNCHANGED <<stage, task, age, reply, lease, left>> /\ JobOf(x)' = JobOf(x)
      BY <1>2 DEF Submit, slots, JobOf
    <2>3. CASE stage[x] = "idle"
      BY <2>2, <2>3 DEF OpenInvOf
    <2>4. CASE stage[x] # "idle"
      <3>1. JobOf(x) \in Jobs
        BY <2>4, BusySlot
      <3>2. /\ Leased(x) => Leased(x)'
            /\ status[JobOf(x)] \in Finished => status'[JobOf(x)] \in Finished
        BY <2>1, <2>2, <3>1 DEF Leased, Holds, Finished
      <3> QED
        BY <1>1, <2>2, <3>2 DEF OpenInvOf, Open
    <2> QED
      BY <2>3, <2>4
  <1>3. ASSUME NEW c \in Callers, Publish(c) \/ AbandonCall(c) PROVE OpenInvOf(x)'
    BY <1>1, <1>3 DEF Publish, AbandonCall, doc, slots, OpenInvOf, Open, Leased, Holds, JobOf
  <1>4. ASSUME NEW w \in Workers, NEW m \in Messages, Deliver(w, m) PROVE OpenInvOf(x)'
    BY <1>1, <1>4 DEF Deliver, doc, OpenInvOf, Open, Leased, Holds, JobOf
  <1>5. ASSUME NEW w \in Workers, Handle(w) \/ Crash(w) PROVE OpenInvOf(x)'
    BY <1>5, OpenStepOwn, OpenStepOther
  <1>6. ASSUME NEW j \in Jobs, Refresh(j) \/ OpenNotification(j) PROVE OpenInvOf(x)'
    BY <1>1, <1>6 DEF Refresh, OpenNotification, doc, slots, OpenInvOf, Open, Leased, Holds, JobOf
  <1>7. CASE Tick
    BY <1>7, OpenStepTick
  <1>8. CASE UNCHANGED vars
    BY <1>1, <1>8 DEF vars, doc, slots, OpenInvOf, Open, Leased, Holds, JobOf
  <1> QED
    BY <1>2, <1>3, <1>4, <1>5, <1>6, <1>7, <1>8 DEF Next

\* The strengthened invariant holds in every reachable state.
THEOREM Invariance == Spec => []IInv
  <1>1. IInv /\ [Next]_vars => IInv'
    <2> SUFFICES ASSUME IInv, [Next]_vars PROVE IInv'
      OBVIOUS
    <2>1. TypeOK'
      <3>1. CASE UNCHANGED vars
        BY <3>1 DEF IInv, TypeOK, vars, doc, queue, slots, inbox
      <3> QED
        BY <3>1, FrontendTypeOK, SlotTypeOK, TickTypeOK DEF IInv, Next
    <2> QED
      BY <2>1, DocStep, MessageStep, SlotStep, OpenStep DEF IInv
  <1> QED
    BY <1>1, InitIInv, PTL DEF Spec

-----------------------------------------------------------------------------
(* The properties the runs check on small instances.                       *)

\* Duplicate deliveries, takeovers and late slots start one analysis at most.
THEOREM AnalysedOnce == Spec => []AtMostOneAnalysis
  <1>1. IInv => AtMostOneAnalysis
    BY DEF IInv, DocInv, AtMostOneAnalysis
  <1> QED
    BY <1>1, Invariance, PTL

\* A completed job names the conversation that answered it.
THEOREM CompletedConversation == Spec => []CompletedFromItsConversation
  <1>1. IInv => CompletedFromItsConversation
    <2> SUFFICES ASSUME IInv, NEW j \in Jobs, status[j] = "completed"
                 PROVE  analyses[j] = 1 /\ session[j] # None /\ answer[j] = session[j]
      BY DEF CompletedFromItsConversation
    <2> QED
      BY DEF IInv, DocInv
  <1> QED
    BY <1>1, Invariance, PTL

\* With AckDeadline + 2 * ClockSkew <= LeaseTime, no request that Pub/Sub
\* still waits for loses its lease.
THEOREM LeaseOutlastsRequest == Spec => []OpenRequestKeepsLease
  <1>1. IInv => OpenRequestKeepsLease
    <2> SUFFICES ASSUME IInv, NEW w \in Workers, Open(w)
                 PROVE  /\ stage[w] \in {"preparing", "analysing"} => Holds(w)
                        /\ stage[w] = "failing" => Holds(w) \/ status[JobOf(w)] \in Finished
                        /\ reply[w] # "lease_lost"
      BY DEF OpenRequestKeepsLease
    <2>1. stage[w] # "replying" => reply[w] = "none"
      BY DEF IInv, SlotInv
    <2> QED
      BY <2>1 DEF IInv, OpenInv, Leased
  <1> QED
    BY <1>1, Invariance, PTL

\* A published job that is not finished still has a message to deliver.
THEOREM NothingOrphaned == Spec => []NoOrphanedJob
  <1>1. IInv => NoOrphanedJob
    <2> SUFFICES ASSUME IInv, NEW j \in Jobs, pub[j] > 0, status[j] \notin Finished
                 PROVE  \E m \in sub : m[1] = j
      BY DEF NoOrphanedJob
    <2>1. 1 \in 1..pub[j]
      BY DEF IInv, TypeOK
    <2>2. <<j, 1>> \in sub
      BY <2>1 DEF IInv, MessageInv
    <2> QED
      BY <2>2
  <1> QED
    BY <1>1, Invariance, PTL

\* The conversation offered by an earlier refresh is the final one.
THEOREM OfferedConversation == Spec => []OfferedConversationIsFinal
  <1>1. IInv => OfferedConversationIsFinal
    BY DEF IInv, DocInv, OfferedConversationIsFinal
  <1> QED
    BY <1>1, Invariance, PTL

\* What any step may do to the outcome of a job.
LEMMA OutcomeStep ==
  ASSUME IInv, [Next]_vars, NEW j \in Jobs, status[j] \in Finished
  PROVE  status'[j] = status[j] /\ session'[j] = session[j] /\ answer'[j] = answer[j]
  <1> USE DEF IInv, TypeOK, Finished
  <1>1. ASSUME NEW w \in Workers, Handle(w) \/ Crash(w)
        PROVE  status'[j] = status[j] /\ session'[j] = session[j] /\ answer'[j] = answer[j]
    <2>1. status'[j] = status[j]
      BY <1>1, StatusStep
    <2>2. session'[j] = session[j]
      BY <1>1, DocumentStep
    <2>3. answer'[j] = answer[j]
      <3>1. CASE ClaimFinished(w) \/ ClaimBusy(w) \/ ClaimJob(w) \/ AnalysisFails(w)
                 \/ StartAnalysis(w) \/ PrepareFails(w) \/ Acknowledge(w)
                 \/ NotAcknowledged(w) \/ Crash(w)
        BY <3>1 DEF ClaimFinished, ClaimBusy, ClaimJob, AnalysisFails, StartAnalysis,
                    PrepareFails, Acknowledge, NotAcknowledged, Crash, BindSession, doc
      <3>2. CASE Commit(w) \/ CommitRaises(w) \/ RecordFailure(w)
        BY <3>2 DEF Commit, CommitRaises, RecordFailure, RecordAnswer, SetOutcome, Holds, doc
      <3> QED
        BY <1>1, <3>1, <3>2 DEF Handle
    <2> QED
      BY <2>1, <2>2, <2>3
  <1>2. ASSUME NEW c \in Callers, NEW i \in Jobs, Submit(c, i)
        PROVE  status'[j] = status[j] /\ session'[j] = session[j] /\ answer'[j] = answer[j]
    BY <1>2 DEF Submit
  <1>3. CASE UNCHANGED doc
    BY <1>3 DEF doc
  <1>4. CASE Tick
    BY <1>4 DEF Tick
  <1>5. ASSUME NEW c \in Callers, Publish(c) \/ AbandonCall(c) PROVE UNCHANGED doc
    BY <1>5 DEF Publish, AbandonCall
  <1>6. ASSUME NEW w \in Workers, NEW m \in Messages, Deliver(w, m) PROVE UNCHANGED doc
    BY <1>6 DEF Deliver
  <1>7. ASSUME NEW i \in Jobs, Refresh(i) \/ OpenNotification(i) PROVE UNCHANGED doc
    BY <1>7 DEF Refresh, OpenNotification
  <1>8. CASE UNCHANGED vars
    BY <1>8 DEF vars, doc
  <1> QED
    BY <1>1, <1>2, <1>3, <1>4, <1>5, <1>6, <1>7, <1>8 DEF Next

\* A finished job keeps its outcome, conversation and answer.
THEOREM OutcomeIsFinal == Spec => FinalOutcome
  <1>1. IInv /\ [Next]_vars =>
          [\A j \in Jobs :
             status[j] \in Finished =>
               /\ status'[j] = status[j]
               /\ session'[j] = session[j]
               /\ answer'[j] = answer[j]]_vars
    BY OutcomeStep
  <1> QED
    BY <1>1, Invariance, PTL DEF Spec, FinalOutcome

-----------------------------------------------------------------------------
(* EventJobs implements EventPromise.                                      *)

\* The initial states are initial states of the promise.
LEMMA InitPromise == Init => Promise!Init
  BY DEF Init, Promise!Init

\* Each transaction of a slot is one step of the promise, or none.
LEMMA SlotPromise ==
  ASSUME IInv, NEW w \in Workers, Handle(w) \/ Crash(w)
  PROVE  [Promise!Next]_(Promise!vars)
  <1> USE DEF TypeOK, IInv
  <1>1. CASE ClaimFinished(w) \/ ClaimBusy(w) \/ AnalysisFails(w)
             \/ Acknowledge(w) \/ NotAcknowledged(w) \/ Crash(w)
    BY <1>1 DEF ClaimFinished, ClaimBusy, AnalysisFails, Acknowledge, NotAcknowledged,
                Crash, doc, Promise!vars
  <1>2. CASE ClaimJob(w)
    <2>1. /\ JobOf(w) \in Jobs
          /\ status' = [status EXCEPT ![JobOf(w)] = "processing"]
          /\ UNCHANGED <<session, analyses>>
      BY <1>2, BusySlot DEF ClaimJob
    <2>2. CASE status[JobOf(w)] = "queued"
      <3>1. Promise!Begin(JobOf(w))
        BY <2>1, <2>2 DEF Promise!Begin
      <3> QED
        BY <2>1, <3>1 DEF Promise!Next
    <2>3. CASE status[JobOf(w)] = "processing"
      BY <2>1, <2>3 DEF Promise!vars
    <2> QED
      BY <1>2, <2>2, <2>3 DEF ClaimJob, Claimable
  <1>3. CASE StartAnalysis(w)
    <2>1. /\ JobOf(w) \in Jobs /\ ~started[JobOf(w)] /\ status[JobOf(w)] = "processing"
          /\ session[JobOf(w)] = None /\ analyses[JobOf(w)] = 0
      BY <1>3, BusySlot DEF StartAnalysis, SlotInv, DocInv, Holds
    <2>2. Promise!OpenConversation(JobOf(w), w, 1)
      BY <1>3, <2>1 DEF StartAnalysis, BindSession, Promise!OpenConversation
    <2> QED
      BY <2>1, <2>2 DEF Promise!Next
  <1>4. CASE PrepareFails(w)
    <2>1. CASE Holds(w) /\ BindSession(w)
      <3>1. /\ JobOf(w) \in Jobs /\ ~started[JobOf(w)] /\ status[JobOf(w)] = "processing"
            /\ session[JobOf(w)] = None /\ analyses[JobOf(w)] = 0
        BY <1>4, <2>1, BusySlot DEF PrepareFails, SlotInv, DocInv, Holds
      <3>2. analyses' = [analyses EXCEPT ![JobOf(w)] = 0]
        BY <1>4, <3>1 DEF PrepareFails
      <3>3. Promise!OpenConversation(JobOf(w), w, 0)
        BY <1>4, <2>1, <3>1, <3>2 DEF BindSession, Promise!OpenConversation
      <3> QED
        BY <3>1, <3>3 DEF Promise!Next
    <2>2. CASE UNCHANGED doc
      BY <1>4, <2>2 DEF PrepareFails, doc, Promise!vars
    <2> QED
      BY <1>4, <2>1, <2>2 DEF PrepareFails
  <1>5. CASE Commit(w) \/ CommitRaises(w)
    <2>1. CASE Holds(w)
      <3>1. JobOf(w) \in Jobs /\ status[JobOf(w)] = "processing" /\ analyses[JobOf(w)] = 1
        BY <1>5, <2>1, BusySlot DEF Commit, CommitRaises, SlotInv, Holds
      <3>2. Promise!Complete(JobOf(w))
        BY <1>5, <2>1, <3>1
        DEF Commit, CommitRaises, RecordAnswer, SetOutcome, Promise!Complete
      <3> QED
        BY <3>1, <3>2 DEF Promise!Next
    <2>2. CASE ~Holds(w)
      BY <1>5, <2>2 DEF Commit, CommitRaises, doc, Promise!vars
    <2> QED
      BY <2>1, <2>2
  <1>6. CASE RecordFailure(w)
    <2>1. CASE Holds(w)
      <3>1. JobOf(w) \in Jobs /\ status[JobOf(w)] = "processing"
        BY <1>6, <2>1, BusySlot DEF RecordFailure, Holds
      <3>2. Promise!Fail(JobOf(w))
        BY <1>6, <2>1, <3>1 DEF RecordFailure, SetOutcome, Promise!Fail
      <3> QED
        BY <3>1, <3>2 DEF Promise!Next
    <2>2. CASE ~Holds(w)
      BY <1>6, <2>2 DEF RecordFailure, doc, Promise!vars
    <2> QED
      BY <2>1, <2>2
  <1> QED
    BY <1>1, <1>2, <1>3, <1>4, <1>5, <1>6 DEF Handle

\* Every step is a step of the promise, or none.
LEMMA PromiseStep ==
  ASSUME IInv, [Next]_vars
  PROVE  [Promise!Next]_(Promise!vars)
  <1>1. ASSUME NEW w \in Workers, Handle(w) \/ Crash(w)
        PROVE  [Promise!Next]_(Promise!vars)
    BY <1>1, SlotPromise
  <1>2. ASSUME NEW c \in Callers, NEW j \in Jobs, Submit(c, j)
        PROVE  [Promise!Next]_(Promise!vars)
    <2>1. CASE status[j] = "absent"
      <3>1. Promise!Request(j)
        BY <1>2, <2>1 DEF Submit, Promise!Request
      <3> QED
        BY <3>1 DEF Promise!Next
    <2>2. CASE status[j] = "queued"
      BY <1>2, <2>2 DEF Submit, IInv, TypeOK, Promise!vars
    <2> QED
      BY <1>2, <2>1, <2>2 DEF Submit
  <1>3. ASSUME NEW c \in Callers, Publish(c) \/ AbandonCall(c)
        PROVE  UNCHANGED Promise!vars
    BY <1>3 DEF Publish, AbandonCall, doc, Promise!vars
  <1>4. ASSUME NEW w \in Workers, NEW m \in Messages, Deliver(w, m)
        PROVE  UNCHANGED Promise!vars
    BY <1>4 DEF Deliver, doc, Promise!vars
  <1>5. ASSUME NEW j \in Jobs, Refresh(j) \/ OpenNotification(j)
        PROVE  UNCHANGED Promise!vars
    BY <1>5 DEF Refresh, OpenNotification, doc, Promise!vars
  <1>6. CASE Tick
    BY <1>6 DEF Tick, Promise!vars
  <1>7. CASE UNCHANGED vars
    BY <1>7 DEF vars, doc, Promise!vars
  <1> QED
    BY <1>1, <1>2, <1>3, <1>4, <1>5, <1>6, <1>7 DEF Next

\* One analysis, one conversation, one outcome per request.
THEOREM PromiseKept == Spec => KeepsPromise
  <1>1. IInv /\ [Next]_vars => [Promise!Next]_(Promise!vars)
    BY PromiseStep
  <1> QED
    BY <1>1, InitPromise, Invariance, PTL DEF Spec, KeepsPromise, Promise!Spec

=============================================================================
