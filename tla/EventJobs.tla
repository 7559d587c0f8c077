----------------------------- MODULE EventJobs ------------------------------
(***************************************************************************)
(* The store-event workflow: agents/cymbal_store_ops/events/{api,store,    *)
(* workflow}.py, services/store_events/worker.py and the timings of        *)
(* deployment/events_deploy.py.                                            *)
(*                                                                         *)
(* A frontend call creates a Firestore job and publishes its id.  Pub/Sub  *)
(* pushes the id to worker slots, at least once and until one delivery is  *)
(* acknowledged within its deadline.  A slot leases the job, opens a       *)
(* conversation, runs the analysis and records the outcome; every write is *)
(* a transaction that re-checks the lease.  Slots crash at any step and    *)
(* may run on after Pub/Sub has given up on their request.                 *)
(*                                                                         *)
(* Time is kept as what is left of a lease and how old a request is, so    *)
(* the state space is finite without a bound on the clock.                 *)
(***************************************************************************)
EXTENDS Integers, FiniteSets

CONSTANTS
  Jobs,         \* job ids
  Workers,      \* concurrent /push handlers; a slot names its lease and session
  Callers,      \* concurrent enqueue_event calls in the frontend
  MaxPublish,   \* bound: messages published per job
  AckDeadline,  \* how long Pub/Sub waits for the answer to a push
  LeaseTime,    \* how long a claim lasts
  ClockSkew,    \* how far a worker's clock may be off
  None

ASSUME JobsAssumption ==
  /\ None \notin Workers
  /\ None \notin Jobs
  /\ MaxPublish \in Nat

\* 300 s, 6 min in the deployment: clocks may differ by up to 30 s each way.
ASSUME TimingAssumption ==
  /\ AckDeadline \in Nat \ {0}
  /\ LeaseTime \in Nat
  /\ ClockSkew \in Nat
  /\ AckDeadline + 2 * ClockSkew <= LeaseTime

VARIABLES
  (* the Firestore document of each job *)
  status, lease, left, started, session, answer, read,
  (* Pub/Sub *)
  pub,          \* messages published for each job
  sub,          \* messages not yet acknowledged
  (* frontend calls *)
  call,         \* the job a call is about to publish, None when idle
  (* worker slots *)
  stage, task, age, reply,
  (* the tablet's inbox *)
  shown,        \* the conversation offered by the last refresh
  (* history *)
  analyses      \* analyze() calls started for each job, counted up to 2

doc == <<status, lease, left, started, session, answer>>
queue == <<pub, sub>>
slots == <<stage, task, age, reply>>
inbox == <<read, shown>>
vars == <<doc, queue, call, slots, inbox, analyses>>

Statuses == {"absent", "queued", "processing", "completed", "failed"}
Finished == {"completed", "failed"}
Stages == {"idle", "claiming", "preparing", "analysing", "failing", "replying"}
Replies == {"none", "busy", "finished", "completed", "lease_lost", "failed"}
Messages == Jobs \X (1..MaxPublish)
NoTask == <<None, 0>>

\* No lease_until, or one that expired longer ago than any worker's reading
\* of the clock can be behind.
Floor == -(AckDeadline + ClockSkew)
Lower(n) == IF n > Floor THEN n - 1 ELSE Floor

JobOf(w) == task[w][1]

\* Pub/Sub still listens to the request.
Open(w) == age[w] < AckDeadline

Init ==
  /\ status = [j \in Jobs |-> "absent"]
  /\ lease = [j \in Jobs |-> None]
  /\ left = [j \in Jobs |-> Floor]
  /\ started = [j \in Jobs |-> FALSE]
  /\ session = [j \in Jobs |-> None]
  /\ answer = [j \in Jobs |-> None]
  /\ read = [j \in Jobs |-> FALSE]
  /\ pub = [j \in Jobs |-> 0]
  /\ sub = {}
  /\ call = [c \in Callers |-> None]
  /\ stage = [w \in Workers |-> "idle"]
  /\ task = [w \in Workers |-> NoTask]
  /\ age = [w \in Workers |-> 0]
  /\ reply = [w \in Workers |-> "none"]
  /\ shown = [j \in Jobs |-> None]
  /\ analyses = [j \in Jobs |-> 0]

-----------------------------------------------------------------------------
(* enqueue_event: create the document or read the existing one, and publish *)
(* when the status seen is "queued".  A repeated request that finds the job *)
(* past "queued" changes nothing.                                           *)

Submit(c, j) ==
  /\ call[c] = None
  /\ status[j] \in {"absent", "queued"}
  /\ status' = [status EXCEPT ![j] = "queued"]
  /\ call' = [call EXCEPT ![c] = j]
  /\ UNCHANGED <<lease, left, started, session, answer, queue, slots, inbox, analyses>>

\* The job may have moved on since its status was read.
Publish(c) ==
  /\ call[c] # None
  /\ LET j == call[c] IN
       /\ pub[j] < MaxPublish
       /\ pub' = [pub EXCEPT ![j] = @ + 1]
       /\ sub' = sub \cup {<<j, pub[j] + 1>>}
  /\ call' = [call EXCEPT ![c] = None]
  /\ UNCHANGED <<doc, slots, inbox, analyses>>

\* Publishing failed, or the frontend died between the two calls.
AbandonCall(c) ==
  /\ call[c] # None
  /\ call' = [call EXCEPT ![c] = None]
  /\ UNCHANGED <<doc, queue, slots, inbox, analyses>>

-----------------------------------------------------------------------------
(* The worker: one step per transaction or awaited call of process_job.    *)

GoTo(w, s) == stage' = [stage EXCEPT ![w] = s] /\ UNCHANGED <<task, age, reply>>

Answer(w, r) ==
  /\ stage' = [stage EXCEPT ![w] = "replying"]
  /\ reply' = [reply EXCEPT ![w] = r]
  /\ UNCHANGED <<task, age>>

Release(w) ==
  /\ stage' = [stage EXCEPT ![w] = "idle"]
  /\ task' = [task EXCEPT ![w] = NoTask]
  /\ age' = [age EXCEPT ![w] = 0]
  /\ reply' = [reply EXCEPT ![w] = "none"]

\* A message can be pushed again while an earlier push of it is outstanding.
Deliver(w, m) ==
  /\ stage[w] = "idle"
  /\ m \in sub
  /\ stage' = [stage EXCEPT ![w] = "claiming"]
  /\ task' = [task EXCEPT ![w] = m]
  /\ UNCHANGED <<age, reply, doc, queue, call, inbox, analyses>>

\* now - clock: the time is read before the transaction, by a skewed clock.
Readings(w) == -(age[w] + ClockSkew)..ClockSkew

\* "missing" is answered like "finished"; nothing deletes a job.
ClaimFinished(w) ==
  /\ stage[w] = "claiming"
  /\ status[JobOf(w)] \in Finished \cup {"absent"}
  /\ Answer(w, "finished")
  /\ UNCHANGED <<doc, queue, call, inbox, analyses>>

IgnoresLease(j, now) == status[j] \in {"queued", "processing"}
NeverExpires(j, now) == status[j] = "queued"

Claimable(j, now) == status[j] \in {"queued", "processing"} /\ ~(left[j] > now)

ClaimBusy(w) ==
  /\ stage[w] = "claiming"
  /\ status[JobOf(w)] \notin Finished \cup {"absent"}
  /\ \E now \in Readings(w) : ~Claimable(JobOf(w), now)
  /\ Answer(w, "busy")
  /\ UNCHANGED <<doc, queue, call, inbox, analyses>>

RerunsInterrupted(j) == "preparing"

\* The claimed copy of the job tells whether an analysis was started before.
AfterClaim(j) == IF started[j] THEN "failing" ELSE "preparing"

ClaimJob(w) ==
  /\ stage[w] = "claiming"
  /\ LET j == JobOf(w) IN
       \E now \in Readings(w) :
         /\ Claimable(j, now)
         /\ status' = [status EXCEPT ![j] = "processing"]
         /\ lease' = [lease EXCEPT ![j] = w]
         /\ left' = [left EXCEPT ![j] = now + LeaseTime]
         /\ GoTo(w, AfterClaim(j))
  /\ UNCHANGED <<started, session, answer, queue, call, inbox, analyses>>

HoldsAnyLease(w) == status[JobOf(w)] = "processing"
HoldsFinished(w) == lease[JobOf(w)] = w

\* What update_claim checks inside its transaction.
Holds(w) == lease[JobOf(w)] = w /\ status[JobOf(w)] = "processing"

BindSession(w) ==
  /\ started' = [started EXCEPT ![JobOf(w)] = TRUE]
  /\ session' = [session EXCEPT ![JobOf(w)] = w]
  /\ UNCHANGED <<status, lease, left, answer>>

\* The source was read and the session created: mark the execution and run it.
StartAnalysis(w) ==
  /\ stage[w] = "preparing"
  /\ Holds(w)
  /\ BindSession(w)
  /\ analyses' = [analyses EXCEPT ![JobOf(w)] = IF @ = 0 THEN 1 ELSE 2]
  /\ GoTo(w, "analysing")
  /\ UNCHANGED <<queue, call, inbox>>

\* The source, the session or the transaction failed, or the lease was lost;
\* a transaction that reports an error may have been applied.
PrepareFails(w) ==
  /\ stage[w] = "preparing"
  /\ (Holds(w) /\ BindSession(w)) \/ UNCHANGED doc
  /\ GoTo(w, "failing")
  /\ UNCHANGED <<queue, call, inbox, analyses>>

\* An error or confirmation frame, an empty answer, or the 240 s limit.
AnalysisFails(w) ==
  /\ stage[w] = "analysing"
  /\ GoTo(w, "failing")
  /\ UNCHANGED <<doc, queue, call, inbox, analyses>>

SetOutcome(w, s) ==
  /\ status' = [status EXCEPT ![JobOf(w)] = s]
  /\ left' = [left EXCEPT ![JobOf(w)] = Floor]
  /\ UNCHANGED <<lease, started, session>>

RecordAnswer(w) ==
  /\ SetOutcome(w, "completed")
  /\ answer' = [answer EXCEPT ![JobOf(w)] = w]

Commit(w) ==
  /\ stage[w] = "analysing"
  /\ \/ Holds(w) /\ RecordAnswer(w) /\ Answer(w, "completed")
     \/ ~Holds(w) /\ UNCHANGED doc /\ Answer(w, "lease_lost")
  /\ UNCHANGED <<queue, call, inbox, analyses>>

\* The commit was applied but its reply was lost: process_job sees an error.
CommitRaises(w) ==
  /\ stage[w] = "analysing"
  /\ Holds(w)
  /\ RecordAnswer(w)
  /\ GoTo(w, "failing")
  /\ UNCHANGED <<queue, call, inbox, analyses>>

\* The exception handler answers "failed" whether or not its write applied.
RecordFailure(w) ==
  /\ stage[w] = "failing"
  /\ \/ Holds(w) /\ SetOutcome(w, "failed") /\ UNCHANGED answer
     \/ ~Holds(w) /\ UNCHANGED doc
  /\ Answer(w, "failed")
  /\ UNCHANGED <<queue, call, inbox, analyses>>

AcksBusy == {"lease_lost"}

\* Replies that push turns into a 503; every other one is a 204.
Refused == {"busy", "lease_lost"}

Acknowledges(w) == reply[w] \notin Refused /\ Open(w)

\* A 204 in time acknowledges the message.
Acknowledge(w) ==
  /\ stage[w] = "replying"
  /\ Acknowledges(w)
  /\ sub' = sub \ {task[w]}
  /\ Release(w)
  /\ UNCHANGED <<doc, pub, call, inbox, analyses>>

\* A 503, a late answer, a crash, or an acknowledgement Pub/Sub loses: it
\* pushes the message again.
NotAcknowledged(w) ==
  /\ stage[w] = "replying"
  /\ Release(w)
  /\ UNCHANGED <<doc, queue, call, inbox, analyses>>

\* The instance dies, or a Firestore error escapes process_job as a 500.
Crash(w) ==
  /\ stage[w] \notin {"idle", "replying"}
  /\ Release(w)
  /\ UNCHANGED <<doc, queue, call, inbox, analyses>>

-----------------------------------------------------------------------------
(* The tablet's inbox and the clock.                                       *)

\* refreshNotifications offers "Open conversation" for a completed job.
Refresh(j) ==
  /\ status[j] = "completed"
  /\ shown[j] # session[j]
  /\ shown' = [shown EXCEPT ![j] = session[j]]
  /\ UNCHANGED <<doc, queue, call, slots, read, analyses>>

OpenNotification(j) ==
  /\ shown[j] # None
  /\ ~read[j]
  /\ read' = [read EXCEPT ![j] = TRUE]
  /\ UNCHANGED <<doc, queue, call, slots, shown, analyses>>

Older(w) ==
  IF stage[w] # "idle" /\ Open(w) THEN age[w] + 1 ELSE age[w]

Tick ==
  /\ left' = [j \in Jobs |-> Lower(left[j])]
  /\ age' = [w \in Workers |-> Older(w)]
  /\ UNCHANGED <<status, lease, started, session, answer, queue, call,
                 stage, task, reply, inbox, analyses>>

-----------------------------------------------------------------------------
Handle(w) ==
  \/ ClaimFinished(w)
  \/ ClaimBusy(w)
  \/ ClaimJob(w)
  \/ StartAnalysis(w)
  \/ PrepareFails(w)
  \/ AnalysisFails(w)
  \/ Commit(w)
  \/ CommitRaises(w)
  \/ RecordFailure(w)
  \/ Acknowledge(w)
  \/ NotAcknowledged(w)

Next ==
  \/ \E c \in Callers, j \in Jobs : Submit(c, j)
  \/ \E c \in Callers : Publish(c) \/ AbandonCall(c)
  \/ \E w \in Workers, m \in Messages : Deliver(w, m)
  \/ \E w \in Workers : Handle(w) \/ Crash(w)
  \/ \E j \in Jobs : Refresh(j) \/ OpenNotification(j)
  \/ Tick

Spec == Init /\ [][Next]_vars

\* Handlers run on and time passes; Pub/Sub keeps pushing what is not
\* acknowledged, also while other messages compete for the slots.
Fairness ==
  /\ \A w \in Workers : WF_vars(Handle(w))
  /\ \A m \in Messages : SF_vars(\E w \in Workers : Deliver(w, m))
  /\ WF_vars(Tick)

\* A handler that dies, or outlives the request that started it.
Overruns(w) == Open(w) /\ age'[w] = AckDeadline
Trouble == \E w \in Workers : Crash(w) \/ Overruns(w)

\* Failures stop at some point, after any number of them.
CalmSpec == Spec /\ Fairness /\ <>[][~Trouble]_vars

-----------------------------------------------------------------------------
TypeOK ==
  /\ status \in [Jobs -> Statuses]
  /\ lease \in [Jobs -> Workers \cup {None}]
  /\ left \in [Jobs -> Floor..(LeaseTime + ClockSkew)]
  /\ started \in [Jobs -> BOOLEAN]
  /\ session \in [Jobs -> Workers \cup {None}]
  /\ answer \in [Jobs -> Workers \cup {None}]
  /\ read \in [Jobs -> BOOLEAN]
  /\ pub \in [Jobs -> 0..MaxPublish]
  /\ sub \in SUBSET Messages
  /\ call \in [Callers -> Jobs \cup {None}]
  /\ stage \in [Workers -> Stages]
  /\ task \in [Workers -> Messages \cup {NoTask}]
  /\ age \in [Workers -> 0..AckDeadline]
  /\ reply \in [Workers -> Replies]
  /\ shown \in [Jobs -> Workers \cup {None}]
  /\ analyses \in [Jobs -> 0..2]

\* Concurrent deliveries, takeovers after a lease expired and slots that run
\* on without a lease together start at most one analysis of a job
\* (process_job's execution_started check and update_claim's fence).
AtMostOneAnalysis == \A j \in Jobs : analyses[j] <= 1

\* A completed job opens the very conversation whose analysis answered it
\* (analysis_session_id and the result are written by different transactions).
CompletedFromItsConversation ==
  \A j \in Jobs :
    status[j] = "completed" =>
      /\ analyses[j] = 1
      /\ session[j] # None
      /\ answer[j] = session[j]

\* While Pub/Sub still waits for a slot's answer the slot cannot lose the
\* lease it claimed, so "lease was lost" and the "lease_lost" answer only
\* happen to requests that were already given up (events_deploy.py's
\* deadline against store.claim's lease).
OpenRequestKeepsLease ==
  \A w \in Workers :
    Open(w) =>
      /\ stage[w] \in {"preparing", "analysing"} => Holds(w)
      /\ stage[w] = "failing" => Holds(w) \/ status[JobOf(w)] \in Finished
      /\ reply[w] # "lease_lost"

\* No answer of the worker drops the last message of an unfinished job, so
\* a crash of whoever holds the lease is always followed by another delivery
\* (worker.push acknowledges "failed" even when the failure was not recorded).
NoOrphanedJob ==
  \A j \in Jobs :
    pub[j] > 0 /\ status[j] \notin Finished => \E m \in sub : m[1] = j

\* The conversation a tablet offers from an earlier refresh is still the
\* answered one when the manager opens it.
OfferedConversationIsFinal ==
  \A j \in Jobs :
    shown[j] # None => status[j] = "completed" /\ shown[j] = answer[j]

\* A finished job keeps its outcome, conversation and answer, whatever late
\* slots, duplicate messages and repeated requests do.
FinalOutcome ==
  [][\A j \in Jobs :
       status[j] \in Finished =>
         /\ status'[j] = status[j]
         /\ session'[j] = session[j]
         /\ answer'[j] = answer[j]]_vars

\* Once its id is published a job ends, as completed or failed, provided
\* failures stop: an analysis interrupted by a crash is marked, not stuck.
PublishedJobFinishes ==
  \A j \in Jobs : (pub[j] > 0) ~> (status[j] \in Finished)

Promise == INSTANCE EventPromise
  WITH Conversations <- Workers,
       phase <- status, conversation <- session, runs <- analyses

\* The workflow implements what EventPromise says of each request.
KeepsPromise == Promise!Spec
=============================================================================
