---------------------------- MODULE AnswerStream ----------------------------
(***************************************************************************)
(* How sse (frontend/server.py) picks the one answer of a request from the *)
(* agent's events, as they stream and again when session_history replays   *)
(* the recorded ones.                                                      *)
(*                                                                         *)
(* An event is what shape and sse tell apart: the text of an agent that    *)
(* speaks to the person ("answer"), the text of store_tasks ("task"), a    *)
(* tool call or transfer, with or without text ("call"), a request for     *)
(* confirmation ("confirm"), a partial text ("chunk"), an error, and       *)
(* everything else ("quiet": results, state, notes of the specialists).    *)
(***************************************************************************)
EXTENDS Naturals, Sequences

Kinds == {"answer", "task", "call", "confirm", "quiet", "error"}
Works(k) == k \in {"call", "confirm"}

\* The locals of one sse call; texts are known by the number of their event.
Start == [reply |-> 0, task |-> 0, confirmed |-> FALSE, failed |-> FALSE, seen |-> 0]
Reducers(n) == [reply : 0..n, task : 0..n, confirmed : BOOLEAN, failed : BOOLEAN, seen : 0..n]

KeepsEarlierReply(s, n, k) ==
  [s EXCEPT !.reply = IF k \in {"answer", "task"} THEN n ELSE @,
            !.task = IF k = "task" THEN n ELSE @,
            !.confirmed = @ \/ k = "confirm",
            !.failed = @ \/ k = "error"]

PublishesChunks(s, n, k) ==
  [s EXCEPT !.reply = IF k \in {"answer", "chunk"} \/ (k = "task" /\ ~s.confirmed) THEN n
                      ELSE IF Works(k) THEN 0 ELSE @,
            !.task = IF k = "task" /\ ~s.confirmed THEN n ELSE @,
            !.confirmed = @ \/ k = "confirm",
            !.failed = @ \/ k = "error"]

\* One event: work turns the candidate into a note, a later text replaces it,
\* and store_tasks has nothing to add once it has asked for a confirmation.
Step(s, n, k) ==
  LET asks == k = "task" /\ ~s.confirmed
  IN  [s EXCEPT !.reply = IF Works(k) THEN 0 ELSE IF k = "answer" \/ asks THEN n ELSE @,
                !.task = IF asks THEN n ELSE @,
                !.confirmed = @ \/ k = "confirm",
                !.failed = @ \/ k = "error"]

\* A delivery of event n that the same stream has had before.
Duplicate(s, n) == n <= s.seen

Receive(s, n, k) ==
  IF Duplicate(s, n) THEN s
  ELSE [Step(s, n, k) EXCEPT !.seen = IF k = "chunk" \/ n < @ THEN @ ELSE n]

\* What is published when the events end: 0 stands for no answer.
Answer(s) ==
  IF s.failed THEN 0
  ELSE IF s.reply = 0 /\ ~s.confirmed THEN s.task ELSE s.reply

\* The answer session_history shows for a request with these recorded events.
Replayed(kinds) ==
  LET upTo[n \in 0..Len(kinds)] == IF n = 0 THEN Start ELSE Receive(upTo[n - 1], n, kinds[n])
  IN  Answer(upTo[Len(kinds)])

\* The same answer said outright: the last text for the person after which
\* nobody worked on, else the last text of store_tasks unless it asked.
Last(S) == IF S = {} THEN 0 ELSE CHOOSE n \in S : \A m \in S : m <= n

LastWord(kinds) ==
  LET All == 1..Len(kinds)
      Asked(n) == \E m \in 1..n : kinds[m] = "confirm"
      Spoken == {n \in All : kinds[n] = "answer" \/ (kinds[n] = "task" /\ ~Asked(n))}
      Final == {n \in Spoken : \A m \in All : m > n => ~Works(kinds[m])}
  IN  IF \E n \in All : kinds[n] = "error" THEN 0
      ELSE IF Final # {} THEN Last(Final)
      ELSE IF Asked(Len(kinds)) THEN 0 ELSE Last({n \in All : kinds[n] = "task"})
=============================================================================
