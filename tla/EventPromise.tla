---------------------------- MODULE EventPromise ----------------------------
(***************************************************************************)
(* What the store-event workflow promises the manager who asked for an     *)
(* analysis, with no queue, lease, worker or clock in it: a request        *)
(* becomes one job, the job opens at most one conversation and runs at     *)
(* most one analysis in it, and it ends once, as completed only after the  *)
(* analysis ran.  EventJobs implements this module.                        *)
(***************************************************************************)
EXTENDS Naturals

CONSTANTS
  Jobs,           \* job ids (a hash of owner, persona, session and request id)
  Conversations,  \* sessions that can be created for an analysis
  None            \* "no conversation yet"

VARIABLES
  phase,          \* what the inbox shows for a job
  conversation,   \* the conversation the notification opens
  runs            \* analyses started for the job

vars == <<phase, conversation, runs>>

Init ==
  /\ phase = [j \in Jobs |-> "absent"]
  /\ conversation = [j \in Jobs |-> None]
  /\ runs = [j \in Jobs |-> 0]

Request(j) ==
  /\ phase[j] = "absent"
  /\ phase' = [phase EXCEPT ![j] = "queued"]
  /\ UNCHANGED <<conversation, runs>>

Begin(j) ==
  /\ phase[j] = "queued"
  /\ phase' = [phase EXCEPT ![j] = "processing"]
  /\ UNCHANGED <<conversation, runs>>

\* A conversation is bound once; it may be abandoned before its analysis runs.
OpenConversation(j, c, n) ==
  /\ phase[j] = "processing"
  /\ conversation[j] = None
  /\ conversation' = [conversation EXCEPT ![j] = c]
  /\ runs' = [runs EXCEPT ![j] = n]
  /\ UNCHANGED phase

Complete(j) ==
  /\ phase[j] = "processing"
  /\ runs[j] = 1
  /\ phase' = [phase EXCEPT ![j] = "completed"]
  /\ UNCHANGED <<conversation, runs>>

Fail(j) ==
  /\ phase[j] = "processing"
  /\ phase' = [phase EXCEPT ![j] = "failed"]
  /\ UNCHANGED <<conversation, runs>>

Next ==
  \E j \in Jobs :
    \/ Request(j)
    \/ Begin(j)
    \/ \E c \in Conversations, n \in {0, 1} : OpenConversation(j, c, n)
    \/ Complete(j)
    \/ Fail(j)

Spec == Init /\ [][Next]_vars
=============================================================================
