----------------------------- MODULE WorkMemory -----------------------------
(***************************************************************************)
(* work_memory.py: a person asks the assistant to remember how answers     *)
(* should look, confirms it, and the tool writes one memory.  A memory is  *)
(* never changed: of several for one setting, the one with the last        *)
(* saved_at counts.  Settings do not meet; the model has one.              *)
(*                                                                         *)
(* The write may fail, or be applied after the tool stopped waiting, and a *)
(* call may be run again.  Memory Bank is modelled from how it is used: it *)
(* refuses a second memory with the same id.                               *)
(***************************************************************************)
EXTENDS Naturals, Sequences

CONSTANTS
  Saves,        \* calls of remember_work_preference
  Invocations,  \* invocations the calls belong to
  Personas,     \* who a session can act as (principal, user, store and role)
  Preferences,  \* values of the setting
  MaxSubmits    \* bound: writes sent to Memory Bank

ASSUME MemoryAssumption == MaxSubmits \in Nat

VARIABLES
  persona,   \* the session's identity
  saves,     \* saves[c]: the call, what was reviewed, and its last write
  submits,   \* history: every write sent, numbered by its saved_at
  underway,  \* numbers of the writes that Memory Bank may yet apply
  memories   \* numbers of the writes that became memories

memoryVars == <<persona, saves, submits, underway, memories>>

MemoryInit ==
  /\ persona \in Personas
  /\ saves = [c \in Saves |-> [stage |-> "new"]]
  /\ submits = <<>>
  /\ underway = {}
  /\ memories = {}

\* What the id of a memory is a hash of.
IdWithoutInvocation(s) == <<s.scope, s.value>>
MemoryId(s) == <<s.scope, s.by, s.value>>

SwitchPersona ==
  /\ \E p \in Personas : persona' = p
  /\ UNCHANGED <<saves, submits, underway, memories>>

\* The first run records what the person will see, and for whom.
AskToRemember(c) ==
  /\ saves[c].stage = "new"
  /\ \E by \in Invocations, v \in Preferences :
       saves' = [saves EXCEPT ![c] =
         [stage |-> "asked", by |-> by, value |-> v, reviewed |-> persona, write |-> 0]]
  /\ UNCHANGED <<persona, submits, underway, memories>>

DeclineToRemember(c) ==
  /\ saves[c].stage = "asked"
  /\ saves' = [saves EXCEPT ![c] = [stage |-> "refused"]]
  /\ UNCHANGED <<persona, submits, underway, memories>>

AsReviewed(c) == saves[c].reviewed = persona

\* A confirmed run, the first one or one again: the record of the review is kept.
ConfirmSave(c) ==
  /\ saves[c].stage \in {"asked", "failed", "saved"}
  /\ Len(submits) < MaxSubmits
  /\ \/ /\ AsReviewed(c)
        /\ submits' = Append(submits, [scope |-> persona, by |-> saves[c].by, value |-> saves[c].value])
        /\ underway' = underway \cup {Len(submits')}
        /\ saves' = [saves EXCEPT ![c].stage = "waiting", ![c].write = Len(submits')]
     \/ /\ ~AsReviewed(c)
        /\ saves' = [saves EXCEPT ![c] = [stage |-> "refused"]]
        /\ UNCHANGED <<submits, underway>>
  /\ UNCHANGED <<persona, memories>>

\* The call that waits for write n is answered.
Told(n, answer) ==
  saves' = [c \in Saves |->
    IF saves[c].stage = "waiting" /\ saves[c].write = n
    THEN [saves[c] EXCEPT !.stage = answer] ELSE saves[c]]

Exists(n) == \E m \in memories : MemoryId(submits[m]) = MemoryId(submits[n])

\* An id that exists already counts as success.
ApplySave(n) ==
  /\ n \in underway
  /\ memories' = IF Exists(n) THEN memories ELSE memories \cup {n}
  /\ underway' = underway \ {n}
  /\ Told(n, "saved")
  /\ UNCHANGED <<persona, submits>>

\* The tool raises, for an error or after its 30 s (asyncio.wait_for); the write is
\* applied later or never.
GiveUpSave(n) ==
  /\ n \in underway
  /\ Told(n, "failed")
  /\ UNCHANGED <<persona, submits, underway, memories>>

MemoryNext ==
  \/ SwitchPersona
  \/ \E c \in Saves : AskToRemember(c) \/ DeclineToRemember(c) \/ ConfirmSave(c)
  \/ \E n \in underway : ApplySave(n) \/ GiveUpSave(n)

MemorySpec == MemoryInit /\ [][MemoryNext]_memoryVars

\* recall_work_preferences, when the search finds every memory of the scope.
Newest(found) == CHOOSE m \in found : \A k \in found : k <= m

Recalled(p) ==
  LET found == {m \in memories : submits[m].scope = p}
  IN IF found = {} THEN "nothing" ELSE submits[Newest(found)].value

(* ------------------------------ properties ------------------------------ *)

\* Another preference has been written after write n, or after an earlier write that is
\* the same as n, and it is not the mere repetition of an older memory.
Overtaken(n) ==
  \E first, k \in DOMAIN submits :
    /\ submits[first] = submits[n] /\ first < k
    /\ submits[k].scope = submits[n].scope /\ submits[k].value # submits[n].value
    /\ ~ \E m \in memories : m < first /\ submits[m] = submits[k]

\* "Save an explicitly requested answer-format preference across sessions": what the
\* person saw, confirmed and was told is saved is recalled for the person who confirmed
\* it until another preference is written.  An older preference does not come back when
\* its write is applied late, nor when its call, once applied, is run again.  As a repeated
\* call keeps its first saved_at, so does a call that goes back to a value which the same
\* invocation has written: both are told SUCCESS and stay overtaken.
ConfirmedIsRecalled ==
  \A c \in Saves :
    saves[c].stage = "saved" /\ ~Overtaken(saves[c].write) =>
      Recalled(saves[c].reviewed) = saves[c].value
=============================================================================
