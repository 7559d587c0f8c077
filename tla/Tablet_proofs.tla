--------------------------- MODULE Tablet_proofs ----------------------------
(***************************************************************************)
(* Proofs about the answer that sse makes of a stream of events            *)
(* (AnswerStream) and about the tablet that shows it (Tablet).             *)
(*                                                                         *)
(* The locals of sse say nothing about the events that led to them.        *)
(* Tracks relates the two, for any sequence of events; the replay and the  *)
(* stream then both give the last word.                                    *)
(***************************************************************************)
EXTENDS Tablet, Induction

\* A confirmation is asked for in the first n events of ks.
AskedBy(ks, n) == \E m \in 1 .. n : ks[m] = "confirm"

\* The texts that are said to the person.
SpokenBy(ks, n) == {m \in 1 .. n : ks[m] = "answer" \/ (ks[m] = "task" /\ ~AskedBy(ks, m))}

\* Those after which nobody worked on.
FinalBy(ks, n) == {m \in SpokenBy(ks, n) : \A j \in 1 .. n : j > m => ~Works(ks[j])}

\* store_tasks' own texts, when no confirmation was asked for before.
TasksBy(ks, n) == {m \in 1 .. n : ks[m] = "task" /\ ~AskedBy(ks, m)}

\* m is the largest number of S, or 0 if there is none.
IsLast(m, S) == IF S = {} THEN m = 0 ELSE m \in S /\ \A k \in S : k <= m

\* The locals of sse after the first n events of ks.
Tracks(s, ks, n) ==
  /\ s \in Reducers(n)
  /\ s.seen = n
  /\ s.confirmed <=> AskedBy(ks, n)
  /\ s.failed <=> \E m \in 1 .. n : ks[m] = "error"
  /\ IsLast(s.reply, FinalBy(ks, n))
  /\ IsLast(s.task, TasksBy(ks, n))

\* Before the first event there is nothing to track.
LEMMA TracksStart ==
  ASSUME NEW ks
  PROVE  Tracks(Start, ks, 0)
<1>1. SpokenBy(ks, 0) = {} /\ TasksBy(ks, 0) = {} /\ FinalBy(ks, 0) = {}
  BY DEF SpokenBy, TasksBy, FinalBy
<1> QED
  BY <1>1 DEF Tracks, Start, Reducers, AskedBy, IsLast

\* The fields that one event leaves behind.
LEMMA StepFields ==
  ASSUME NEW n \in Nat, NEW s \in Reducers(n), NEW k \in Kinds, s.seen = n
  PROVE  LET t == Receive(s, n + 1, k)
             asks == k = "task" /\ ~s.confirmed
         IN /\ t \in Reducers(n + 1)
            /\ t.seen = n + 1
            /\ t.reply = IF Works(k) THEN 0 ELSE IF k = "answer" \/ asks THEN n + 1 ELSE s.reply
            /\ t.task = IF asks THEN n + 1 ELSE s.task
            /\ t.confirmed = (s.confirmed \/ k = "confirm")
            /\ t.failed = (s.failed \/ k = "error")
<1> DEFINE asks == k = "task" /\ ~s.confirmed
<1>1. s \in Reducers(n + 1) /\ \A m \in Nat : m + 1 \in Nat
  BY DEF Reducers
<1>2. PICK N \in Nat : N = n + 1
  BY <1>1
<1>3. PICK reply \in 0 .. N :
        reply = IF Works(k) THEN 0 ELSE IF k = "answer" \/ asks THEN N ELSE s.reply
  BY <1>2 DEF Reducers
<1>4. PICK task \in 0 .. N : task = IF asks THEN N ELSE s.task
  BY <1>2 DEF Reducers
<1>5. PICK confirmed \in BOOLEAN : confirmed = (s.confirmed \/ k = "confirm")
  OBVIOUS
<1>6. PICK failed \in BOOLEAN : failed = (s.failed \/ k = "error")
  OBVIOUS
<1>7. Step(s, N, k) = [s EXCEPT !.reply = reply, !.task = task, !.confirmed = confirmed,
                                !.failed = failed]
  BY <1>3, <1>4, <1>5, <1>6 DEF Step
<1>8. Step(s, N, k).seen = n
  BY <1>1, <1>7 DEF Reducers
<1>9. ~Duplicate(s, N) /\ k # "chunk" /\ ~(N < n)
  BY <1>2 DEF Duplicate, Kinds
<1> DEFINE t == Receive(s, N, k)
<1>10. t = [s EXCEPT !.reply = reply, !.task = task, !.confirmed = confirmed,
                     !.failed = failed, !.seen = N]
  BY <1>7, <1>8, <1>9 DEF Receive
<1> HIDE DEF t
<1> DEFINE a == [s EXCEPT !.reply = reply]
           b == [a EXCEPT !.task = task]
           c == [b EXCEPT !.confirmed = confirmed]
           d == [c EXCEPT !.failed = failed]
<1>11. /\ t \in Reducers(N) /\ t.reply = reply /\ t.task = task /\ t.seen = N
       /\ t.confirmed = confirmed /\ t.failed = failed
  <2>1. a \in Reducers(N) /\ a.reply = reply
    BY <1>1, <1>2 DEF Reducers
  <2>2. t = [d EXCEPT !.seen = N]
    BY <1>10
  <2> HIDE DEF a
  <2>3. b \in Reducers(N) /\ b.reply = reply /\ b.task = task
    BY <2>1 DEF Reducers
  <2> HIDE DEF b
  <2>4. c \in Reducers(N) /\ c.reply = reply /\ c.task = task /\ c.confirmed = confirmed
    BY <2>3 DEF Reducers
  <2> HIDE DEF c
  <2>5. d \in Reducers(N) /\ d.reply = reply /\ d.task = task
    BY <2>4 DEF Reducers
  <2>6. d.confirmed = confirmed /\ d.failed = failed
    BY <2>4 DEF Reducers
  <2> HIDE DEF d
  <2>7. t \in Reducers(N) /\ t.reply = reply /\ t.task = task /\ t.seen = N
    BY <2>2, <2>5 DEF Reducers
  <2>8. t.confirmed = confirmed /\ t.failed = failed
    BY <2>2, <2>5, <2>6 DEF Reducers
  <2> QED
    BY <2>7, <2>8
<1> QED
  BY <1>2, <1>3, <1>4, <1>5, <1>6, <1>11 DEF t

\* One more event moves the last words as Step moves the candidates.
LEMMA TracksNext ==
  ASSUME NEW n \in Nat, NEW ks, NEW s, Tracks(s, ks, n), ks[n + 1] \in Kinds
  PROVE  Tracks(Receive(s, n + 1, ks[n + 1]), ks, n + 1)
<1> DEFINE k == ks[n + 1]
           t == Receive(s, n + 1, k)
           asks == k = "task" /\ ~s.confirmed
<1>1. s \in Reducers(n) /\ s.seen = n /\ k \in Kinds
  BY DEF Tracks
<1>2. /\ t \in Reducers(n + 1)
      /\ t.seen = n + 1
      /\ t.reply = IF Works(k) THEN 0 ELSE IF k = "answer" \/ asks THEN n + 1 ELSE s.reply
      /\ t.task = IF asks THEN n + 1 ELSE s.task
      /\ t.confirmed = (s.confirmed \/ k = "confirm")
      /\ t.failed = (s.failed \/ k = "error")
  BY <1>1, StepFields
<1>3. 1 .. n + 1 = (1 .. n) \cup {n + 1}
  OBVIOUS
<1>4. AskedBy(ks, n + 1) <=> (AskedBy(ks, n) \/ k = "confirm")
  BY <1>3 DEF AskedBy
<1>5. (k = "task" /\ ~AskedBy(ks, n + 1)) <=> asks
  BY <1>4 DEF Tracks
<1>6. TasksBy(ks, n + 1) = TasksBy(ks, n) \cup (IF asks THEN {n + 1} ELSE {})
  BY <1>3, <1>5 DEF TasksBy
<1>7. SpokenBy(ks, n + 1) = SpokenBy(ks, n) \cup (IF k = "answer" \/ asks THEN {n + 1} ELSE {})
  BY <1>3, <1>5 DEF SpokenBy
<1>8. SpokenBy(ks, n) \subseteq 1 .. n /\ TasksBy(ks, n) \subseteq 1 .. n
  BY DEF SpokenBy, TasksBy
<1>9. ASSUME Works(k)
      PROVE  IsLast(t.reply, FinalBy(ks, n + 1))
  <2>1. FinalBy(ks, n + 1) = {}
    <3>1. ~(k = "answer" \/ asks)
      BY <1>9 DEF Works
    <3>2. ASSUME NEW m \in FinalBy(ks, n + 1)
          PROVE  FALSE
      <4>1. m \in 1 .. n
        BY <1>7, <1>8, <3>1, <3>2 DEF FinalBy
      <4>2. n + 1 \in 1 .. n + 1 /\ n + 1 > m
        BY <4>1
      <4> QED
        BY <1>9, <3>2, <4>2 DEF FinalBy
    <3> QED
      BY <3>2
  <2> QED
    BY <1>2, <1>9, <2>1 DEF IsLast
<1>10. ASSUME ~Works(k)
       PROVE  IsLast(t.reply, FinalBy(ks, n + 1))
  <2>1. FinalBy(ks, n + 1) = FinalBy(ks, n) \cup (IF k = "answer" \/ asks THEN {n + 1} ELSE {})
    <3>1. ASSUME NEW m \in FinalBy(ks, n + 1), m # n + 1
          PROVE  m \in FinalBy(ks, n)
      BY <1>3, <1>7, <3>1 DEF FinalBy
    <3>2. ASSUME NEW m \in FinalBy(ks, n)
          PROVE  m \in FinalBy(ks, n + 1)
      BY <1>3, <1>7, <1>10, <3>2 DEF FinalBy
    <3>3. n + 1 \in FinalBy(ks, n + 1) <=> n + 1 \in SpokenBy(ks, n + 1)
      BY <1>3 DEF FinalBy
    <3>4. n + 1 \notin SpokenBy(ks, n)
      BY <1>8
    <3> QED
      BY <1>7, <3>1, <3>2, <3>3, <3>4
  <2>2. FinalBy(ks, n) \subseteq 1 .. n
    BY <1>8 DEF FinalBy
  <2>3. IsLast(s.reply, FinalBy(ks, n))
    BY DEF Tracks
  <2> QED
    BY <1>2, <1>10, <2>1, <2>2, <2>3 DEF IsLast
<1>11. IsLast(t.reply, FinalBy(ks, n + 1))
  BY <1>9, <1>10
<1>12. IsLast(t.task, TasksBy(ks, n + 1))
  <2>1. IsLast(s.task, TasksBy(ks, n))
    BY DEF Tracks
  <2> QED
    BY <1>2, <1>6, <1>8, <2>1 DEF IsLast
<1>13. t.confirmed <=> AskedBy(ks, n + 1)
  BY <1>2, <1>4 DEF Tracks
<1>14. t.failed <=> \E m \in 1 .. n + 1 : ks[m] = "error"
  BY <1>2, <1>3 DEF Tracks
<1> HIDE DEF t
<1> QED
  BY <1>2, <1>11, <1>12, <1>13, <1>14 DEF Tracks, t

\* The largest of a set of numbers.
LEMMA LastIsLast ==
  ASSUME NEW n \in Nat, NEW S \in SUBSET (1 .. n), NEW m, IsLast(m, S)
  PROVE  Last(S) = m
<1>1. CASE S = {}
  BY <1>1 DEF Last, IsLast
<1>2. CASE S # {}
  <2>1. m \in S /\ \A k \in S : k <= m
    BY <1>2 DEF IsLast
  <2>2. Last(S) = CHOOSE x \in S : \A k \in S : k <= x
    BY <1>2 DEF Last
  <2> DEFINE l == CHOOSE x \in S : \A k \in S : k <= x
  <2>3. l \in S /\ \A k \in S : k <= l
    BY <2>1
  <2> HIDE DEF l
  <2>4. l = m
    BY <2>1, <2>3
  <2> QED
    BY <2>2, <2>4 DEF l
<1> QED
  BY <1>1, <1>2

\* What is published from tracked locals is the last word.
LEMMA TrackedAnswer ==
  ASSUME NEW ks \in Seq(Kinds), NEW s, Tracks(s, ks, Len(ks))
  PROVE  Answer(s) = LastWord(ks)
<1> DEFINE n == Len(ks)
           All == 1 .. n
           Final == FinalBy(ks, n)
           Tasks == {m \in All : ks[m] = "task"}
<1>1. n \in Nat
  OBVIOUS
<1>2. LastWord(ks) = IF \E m \in All : ks[m] = "error" THEN 0
                     ELSE IF Final # {} THEN Last(Final)
                     ELSE IF AskedBy(ks, n) THEN 0 ELSE Last(Tasks)
  BY DEF LastWord, FinalBy, SpokenBy, AskedBy
<1>3. Final \in SUBSET (1 .. n) /\ IsLast(s.reply, Final)
  BY DEF Tracks, FinalBy, SpokenBy
<1>4. Last(Final) = s.reply
  BY <1>1, <1>3, LastIsLast
<1>5. CASE ~AskedBy(ks, n)
  <2>1. TasksBy(ks, n) = Tasks
    BY <1>1, <1>5 DEF TasksBy, AskedBy
  <2>2. Tasks \in SUBSET (1 .. n) /\ IsLast(s.task, Tasks)
    BY <2>1 DEF Tracks
  <2>3. Last(Tasks) = s.task
    BY <1>1, <2>2, LastIsLast
  <2>4. 0 \notin Final
    BY DEF FinalBy, SpokenBy
  <2> HIDE DEF Tasks, Final
  <2>5. Final # {} => s.reply # 0
    BY <1>3, <2>4 DEF IsLast
  <2> QED
    BY <1>2, <1>3, <1>4, <1>5, <2>3, <2>5 DEF Tracks, Answer, IsLast
<1>6. CASE AskedBy(ks, n)
  <2> HIDE DEF Final, Tasks
  <2> QED
    BY <1>2, <1>3, <1>4, <1>6 DEF Tracks, Answer, IsLast
<1> QED
  BY <1>5, <1>6

\* The function that session_history computes from the recorded events exists.
LEMMA ReplayExists ==
  ASSUME NEW ks \in Seq(Kinds), NEW n \in Nat
  PROVE  \E g : g = [m \in 0 .. n |-> IF m = 0 THEN Start ELSE Receive(g[m - 1], m, ks[m])]
<1> DEFINE Rec(g, j) == [m \in 0 .. j |-> IF m = 0 THEN Start ELSE Receive(g[m - 1], m, ks[m])]
           S == {j \in 0 .. n : \E g : g = Rec(g, j)}
<1>1. 0 \in S
  <2> DEFINE g == [m \in 0 .. 0 |-> Start]
  <2>1. g = Rec(g, 0)
    OBVIOUS
  <2> HIDE DEF g, Rec
  <2> QED
    BY <2>1
<1>2. ASSUME NEW j \in 0 .. n - 1, j \in S
      PROVE  j + 1 \in S
  <2>1. PICK g : g = Rec(g, j)
    BY <1>2
  <2> DEFINE h == [m \in 0 .. j + 1 |-> IF m = j + 1 THEN Receive(g[j], j + 1, ks[j + 1]) ELSE g[m]]
  <2>2. ASSUME NEW m \in 0 .. j + 1
        PROVE  h[m] = IF m = 0 THEN Start ELSE Receive(h[m - 1], m, ks[m])
    <3>1. CASE m = j + 1
      BY <3>1
    <3>2. CASE m # j + 1
      <4>1. m \in 0 .. j /\ h[m] = g[m]
        BY <3>2
      <4>2. g[m] = IF m = 0 THEN Start ELSE Receive(g[m - 1], m, ks[m])
        BY <2>1, <4>1
      <4>3. m # 0 => h[m - 1] = g[m - 1]
        BY <4>1
      <4> QED
        BY <4>1, <4>2, <4>3
    <3> QED
      BY <3>1, <3>2
  <2>3. h = Rec(h, j + 1) /\ j + 1 \in 0 .. n
    BY <2>2
  <2> HIDE DEF h, Rec
  <2> QED
    BY <2>3
<1> HIDE DEF S
<1>3. \A j \in 0 .. n : j \in S
  BY <1>1, <1>2, UpToInduction
<1>4. PICK g : g = Rec(g, n)
  <2> HIDE DEF Rec
  <2> QED
    BY <1>3 DEF S
<1> QED
  BY <1>4, Zenon

\* For any sequence of events, reading the conversation later shows the last
\* text for the person after which nobody worked on.
THEOREM ReplayIsLastWord == \A ks \in Seq(Kinds) : Replayed(ks) = LastWord(ks)
<1> TAKE ks \in Seq(Kinds)
<1> DEFINE n == Len(ks)
           Rec(g) == [m \in 0 .. n |-> IF m = 0 THEN Start ELSE Receive(g[m - 1], m, ks[m])]
           upTo == CHOOSE g : g = Rec(g)
           S == {m \in 0 .. n : Tracks(upTo[m], ks, m)}
<1>1. n \in Nat /\ \A m \in 1 .. n : ks[m] \in Kinds
  OBVIOUS
<1>2. Replayed(ks) = Answer(upTo[n])
  BY DEF Replayed
<1>3. upTo = Rec(upTo)
  <2>1. \E g : g = Rec(g)
    BY <1>1, ReplayExists
  <2> QED
    BY <2>1
<1> HIDE DEF upTo, n
<1>4. /\ upTo[0] = Start
      /\ \A m \in 0 .. n - 1 : upTo[m + 1] = Receive(upTo[m], m + 1, ks[m + 1])
  BY <1>1, <1>3
<1>5. 0 \in S
  BY <1>1, <1>4, TracksStart
<1>6. ASSUME NEW m \in 0 .. n - 1, m \in S
      PROVE  m + 1 \in S
  <2>1. m \in Nat /\ m + 1 \in 0 .. n /\ Tracks(upTo[m], ks, m) /\ ks[m + 1] \in Kinds
    BY <1>1, <1>6
  <2> QED
    BY <1>4, <2>1, TracksNext
<1> HIDE DEF S
<1>7. \A m \in 0 .. n : m \in S
  BY <1>1, <1>5, <1>6, UpToInduction
<1>8. Tracks(upTo[n], ks, n)
  BY <1>1, <1>7 DEF S
<1> QED
  BY <1>2, <1>8, TrackedAnswer DEF n

-----------------------------------------------------------------------------

\* The locals of sse track the events so far, and each event has its place for a card.
StreamInv ==
  /\ kinds \in Seq(Kinds) /\ Len(kinds) <= MaxEvents
  /\ cardOf \in Seq(Cards \cup {None}) /\ Len(cardOf) = Len(kinds)
  /\ Tracks(st, kinds, Len(kinds))

\* Who owns what is on screen, or about to be: the page is busy with one
\* conversation, and the persona cannot change meanwhile.
ScreenInv ==
  /\ owner \in [Convs -> Roles \cup {None}]
  /\ role \in Roles /\ session \in Convs \cup {None}
  /\ op \in Busy \cup {"none"} /\ target \in Convs \cup {None}
  /\ \A a \in Alerts : owner[a] = "manager"
  /\ session # None => owner[session] = role
  /\ op \in Streaming \cup Ended => session = target /\ target # None
  /\ op \in {"creating chat", "creating event"} => session = None
  /\ op \in {"restoring", "restoring alert"} => target # None /\ owner[target] = role
  /\ op = "restoring alert" => target \in Alerts

\* A card that can still be pressed belongs to the conversation on screen, and
\* was not answered before.
CardInv ==
  /\ live \in [Cards -> 0 .. 1]
  /\ asker \in [Cards -> Convs \cup {None}]
  /\ posted \in [Cards -> Seq(Convs)]
  /\ \A k \in Cards :
       /\ live[k] > 0 => asker[k] = session /\ posted[k] = <<>>
       /\ asker[k] = None => live[k] = 0 /\ posted[k] = <<>>
       /\ posted[k] \in {<<>>, <<asker[k]>>}

\* The alerts that are listed are those of a manager who is still there.
ListInv ==
  /\ fetching \subseteq Roles /\ past \in Roles \cup {None}
  /\ polling \in BOOLEAN /\ listed \in BOOLEAN
  /\ listed => role = "manager"
  /\ read \subseteq Alerts /\ opened \subseteq Alerts
  /\ read \subseteq opened

\* The idempotency key belongs to one conversation.
KeyInv ==
  /\ key \in [id : 1 .. MaxKeys, conv : Convs] \cup {None}
  /\ unsure \in [Convs -> 0 .. MaxKeys] /\ made \in 0 .. MaxKeys

\* The invariant has a part for each group of variables that change together.
TabletInv == StreamInv /\ ScreenInv /\ CardInv /\ ListInv /\ KeyInv

\* What is tracked of the first n events depends on these only.
LEMMA TracksPrefix ==
  ASSUME NEW n \in Nat, NEW s, NEW ks, NEW js, \A m \in 1 .. n : ks[m] = js[m],
         Tracks(s, ks, n)
  PROVE  Tracks(s, js, n)
<1>1. \A m \in 1 .. n : AskedBy(ks, m) <=> AskedBy(js, m)
  BY DEF AskedBy
<1>2. AskedBy(ks, n) <=> AskedBy(js, n)
  BY DEF AskedBy
<1>3. SpokenBy(ks, n) = SpokenBy(js, n) /\ TasksBy(ks, n) = TasksBy(js, n)
  BY <1>1 DEF SpokenBy, TasksBy
<1>4. FinalBy(ks, n) = FinalBy(js, n)
  BY <1>3 DEF FinalBy
<1> QED
  BY <1>2, <1>3, <1>4 DEF Tracks

\* A partial text changes nothing that is kept.
LEMMA ChunkIsIgnored ==
  ASSUME NEW n \in Nat, NEW s \in Reducers(n)
  PROVE  Receive(s, n + 1, "chunk") = s
<1>1. ~Works("chunk") /\ "chunk" # "answer" /\ "chunk" # "task"
  BY DEF Works
<1>2. Step(s, n + 1, "chunk") = [s EXCEPT !.reply = s.reply, !.task = s.task,
                                          !.confirmed = s.confirmed, !.failed = s.failed]
  BY <1>1 DEF Step, Reducers
<1>3. [s EXCEPT !.reply = s.reply] = s
  BY DEF Reducers
<1>4. [s EXCEPT !.task = s.task] = s
  BY DEF Reducers
<1>5. [s EXCEPT !.confirmed = s.confirmed] = s
  BY DEF Reducers
<1>6. [s EXCEPT !.failed = s.failed] = s
  BY DEF Reducers
<1>7. [s EXCEPT !.seen = s.seen] = s
  BY DEF Reducers
<1>8. Step(s, n + 1, "chunk") = s
  BY <1>2, <1>3, <1>4, <1>5, <1>6, Zenon
<1> QED
  BY <1>7, <1>8 DEF Receive

\* An event that the page has seen changes nothing.
LEMMA SeenIsIgnored ==
  ASSUME NEW n \in Nat, NEW s \in Reducers(n), NEW m \in 1 .. n, NEW k, s.seen = n
  PROVE  Duplicate(s, m) /\ Receive(s, m, k) = s
<1>1. Duplicate(s, m)
  BY DEF Duplicate
<1> QED
  BY <1>1 DEF Receive

\* The page is loaded with nothing on it.
LEMMA TabletStarts == Init => TabletInv
<1> SUFFICES ASSUME Init
             PROVE  TabletInv
  OBVIOUS
<1> USE TabletAssumption
<1>1. StreamInv
  <2>1. Tracks(Start, <<>>, 0)
    BY TracksStart
  <2> QED
    BY <2>1 DEF Init, StreamInv
<1>2. ScreenInv
  BY DEF Init, ScreenInv, Roles, Busy, Streaming, Ended
<1>3. CardInv
  BY DEF Init, CardInv
<1>4. ListInv
  BY DEF Init, ListInv, Roles
<1>5. KeyInv
  BY DEF Init, KeyInv
<1> QED
  BY <1>1, <1>2, <1>3, <1>4, <1>5 DEF TabletInv

\* Every step preserves the stream's part.
LEMMA StreamKept ==
  ASSUME TabletInv, [Next]_vars
  PROVE  StreamInv'
<1> USE TabletAssumption
<1> DEFINE n == Len(kinds)
<1>1. /\ kinds \in Seq(Kinds) /\ n \in Nat /\ n <= MaxEvents
      /\ cardOf \in Seq(Cards \cup {None}) /\ Len(cardOf) = n
      /\ Tracks(st, kinds, n) /\ st \in Reducers(n) /\ st.seen = n
  BY DEF TabletInv, StreamInv, Tracks
<1>2. ASSUME kinds' = <<>>, cardOf' = <<>>, st' = Start
      PROVE  StreamInv'
  <2>1. Tracks(Start, <<>>, 0)
    BY TracksStart
  <2> QED
    BY <1>2, <2>1 DEF StreamInv
<1>3. ASSUME UNCHANGED <<kinds, cardOf>>, st' = st
      PROVE  StreamInv'
  BY <1>1, <1>3 DEF StreamInv
<1>4. ASSUME NEW k \in Kinds, AgentEvent(k)
      PROVE  StreamInv'
  <2>1. PICK card \in Cards \cup {None} :
          /\ kinds' = Append(kinds, k) /\ cardOf' = Append(cardOf, card)
          /\ st' = Receive(st, Len(kinds'), k)
    BY <1>4 DEF AgentEvent
  <2>2. Len(kinds') = n + 1 /\ n + 1 <= MaxEvents /\ kinds'[n + 1] = k
    BY <1>1, <1>4, <2>1 DEF AgentEvent
  <2>3. \A m \in 1 .. n : kinds[m] = kinds'[m]
    BY <1>1, <2>1
  <2>4. Tracks(st, kinds', n)
    BY <1>1, <2>3, TracksPrefix
  <2>5. Tracks(st', kinds', n + 1)
    BY <1>1, <2>1, <2>2, <2>4, TracksNext
  <2>6. kinds' \in Seq(Kinds) /\ cardOf' \in Seq(Cards \cup {None}) /\ Len(cardOf') = n + 1
    BY <1>1, <2>1
  <2> QED
    BY <2>2, <2>5, <2>6 DEF StreamInv
<1>5. ASSUME Chunk
      PROVE  StreamInv'
  <2>1. st' = st
    BY <1>1, <1>5, ChunkIsIgnored DEF Chunk
  <2> QED
    BY <1>3, <1>5, <2>1 DEF Chunk
<1>6. ASSUME NEW m \in 1 .. n, Redeliver(m)
      PROVE  StreamInv'
  <2>1. st' = st
    BY <1>1, <1>6, SeenIsIgnored DEF Redeliver
  <2> QED
    BY <1>3, <1>6, <2>1 DEF Redeliver
<1>7. CASE Send
  <2>1. CASE Create("creating chat")
    BY <1>3, <2>1 DEF Create, stream
  <2>2. CASE Request(session, "chatting")
    BY <1>2, <2>2 DEF Request
  <2> QED
    BY <1>7, <2>1, <2>2 DEF Send
<1>8. ASSUME NEW k \in Cards, AnswerCard(k)
      PROVE  StreamInv'
  BY <1>2, <1>8 DEF AnswerCard, Request
<1>9. CASE StreamBreaks \/ Finish
  BY <1>2, <1>9 DEF StreamBreaks, Finish, Settle
<1>10. ASSUME NEW c \in Convs, Created(c)
       PROVE  StreamInv'
  <2>1. CASE Request(c, "chatting")
    BY <1>2, <2>1 DEF Request
  <2>2. CASE UNCHANGED stream
    BY <1>3, <2>2 DEF stream
  <2> QED
    BY <1>10, <2>1, <2>2 DEF Created
<1>11. CASE Trigger
  BY <1>3, <1>11 DEF Trigger, Create, stream
<1>12. CASE NewConversation \/ \E r \in Roles : SelectPersona(r)
  BY <1>3, <1>12 DEF NewConversation, SelectPersona, stream
<1>13. CASE StreamEnds \/ CreateFails \/ EventAccepted \/ EventFails
  BY <1>3, <1>13 DEF StreamEnds, CreateFails, EventAccepted, EventFails, stream
<1>14. CASE \E p \in Roles : HistoryArrives(p) \/ HistoryFails(p)
  BY <1>3, <1>14 DEF HistoryArrives, HistoryFails, stream
<1>15. CASE Poll \/ PollArrives \/ PollFails
  BY <1>3, <1>15 DEF Poll, PollArrives, PollFails, stream
<1>16. CASE (\E c \in Convs : OpenPast(c)) \/ (\E a \in Alerts : OpenAlert(a))
  BY <1>3, <1>16 DEF OpenPast, OpenAlert, stream
<1>17. CASE RestoreArrives \/ RestoreFails
  BY <1>3, <1>17 DEF RestoreArrives, RestoreFails, stream
<1>18. CASE UNCHANGED vars
  BY <1>3, <1>18 DEF vars, stream
<1> QED
  BY <1>4, <1>5, <1>6, <1>7, <1>8, <1>9, <1>10, <1>11, <1>12, <1>13, <1>14, <1>15, <1>16,
     <1>17, <1>18 DEF Next

\* Every step preserves the part about the conversation on screen.
LEMMA ScreenKept ==
  ASSUME TabletInv, [Next]_vars
  PROVE  ScreenInv'
<1> USE TabletAssumption
<1>1. ScreenInv
  BY DEF TabletInv
<1> USE DEF Roles, Busy, Streaming, Ended
<1>2. ASSUME UNCHANGED <<owner, role, session, op, target>>
      PROVE  ScreenInv'
  BY <1>1, <1>2 DEF ScreenInv
<1>3. ASSUME UNCHANGED <<owner, role, session>>, Rest
      PROVE  ScreenInv'
  BY <1>1, <1>3 DEF ScreenInv, Rest
<1>4. CASE NewConversation
  BY <1>1, <1>4 DEF NewConversation, Free, ScreenInv
<1>5. ASSUME NEW r \in Roles, SelectPersona(r)
      PROVE  ScreenInv'
  BY <1>1, <1>5 DEF SelectPersona, Free, ScreenInv
<1>6. CASE Send
  <2>1. CASE session = None /\ Create("creating chat")
    BY <1>1, <1>6, <2>1 DEF Send, Create, Free, ScreenInv
  <2>2. CASE session # None /\ Request(session, "chatting")
    BY <1>1, <1>6, <2>2 DEF Send, Request, Free, ScreenInv
  <2> QED
    BY <1>6, <2>1, <2>2 DEF Send
<1>7. ASSUME NEW k \in Cards, AnswerCard(k)
      PROVE  ScreenInv'
  <2>1. session # None
    BY <1>7 DEF AnswerCard, TabletInv, CardInv
  <2> QED
    BY <1>1, <1>7, <2>1 DEF AnswerCard, Request, Free, ScreenInv
<1>8. ASSUME NEW k \in Kinds, AgentEvent(k)
      PROVE  ScreenInv'
  BY <1>1, <1>8 DEF AgentEvent, Over, ScreenInv
<1>9. CASE Chunk \/ \E n \in 1 .. Len(kinds) : Redeliver(n)
  BY <1>2, <1>9 DEF Chunk, Redeliver
<1>10. CASE StreamEnds
  BY <1>1, <1>10 DEF StreamEnds, Over, ScreenInv
<1>11. CASE StreamBreaks \/ Finish
  BY <1>3, <1>11 DEF StreamBreaks, Finish, Settle
<1>12. CASE Trigger
  <2>1. CASE session = None /\ Create("creating event")
    BY <1>1, <1>12, <2>1 DEF Trigger, Create, Free, ScreenInv
  <2>2. CASE session # None /\ PostEvent(session)
    BY <1>1, <1>12, <2>2 DEF Trigger, PostEvent, Free, ScreenInv
  <2> QED
    BY <1>12, <2>1, <2>2 DEF Trigger
<1>13. ASSUME NEW c \in Convs, Created(c)
       PROVE  ScreenInv'
  <2>1. owner' \in [Convs -> Roles \cup {None}] /\ owner'[c] = role
    BY <1>1, <1>13 DEF Created, ScreenInv
  <2>2. \A a \in Alerts : owner'[a] = "manager"
    BY <1>1, <1>13 DEF Created, ScreenInv
  <2>3. role' = role /\ session' = c
    BY <1>13 DEF Created
  <2>4. op' \in {"chatting", "posting"} /\ target' = c
    BY <1>13 DEF Created, Request, PostEvent
  <2> QED
    BY <1>1, <2>1, <2>2, <2>3, <2>4 DEF ScreenInv
<1>14. CASE CreateFails
  <2>1. session = None /\ UNCHANGED <<role, session>> /\ Rest
    BY <1>1, <1>14 DEF CreateFails, ScreenInv
  <2>2. owner' \in [Convs -> Roles \cup {None}]
    BY <1>1, <1>14 DEF CreateFails, ScreenInv
  <2>3. \A a \in Alerts : owner'[a] = "manager"
    <3>1. CASE owner' = owner
      BY <1>1, <3>1 DEF ScreenInv
    <3>2. ASSUME NEW d \in Convs, owner[d] = None, owner' = [owner EXCEPT ![d] = role]
          PROVE  \A a \in Alerts : owner'[a] = "manager"
      BY <1>1, <3>2 DEF ScreenInv
    <3> QED
      BY <1>14, <3>1, <3>2 DEF CreateFails
  <2> QED
    BY <1>1, <2>1, <2>2, <2>3 DEF ScreenInv, Rest
<1>15. CASE EventAccepted
  BY <1>1, <1>15 DEF EventAccepted, ScreenInv
<1>16. CASE EventFails \/ RestoreFails
  BY <1>3, <1>16 DEF EventFails, RestoreFails
<1>17. CASE \E p \in Roles : HistoryArrives(p) \/ HistoryFails(p)
  BY <1>2, <1>17 DEF HistoryArrives, HistoryFails
<1>18. CASE Poll
  BY <1>2, <1>18 DEF Poll
<1>19. CASE PollArrives \/ PollFails
  BY <1>2, <1>3, <1>19 DEF PollArrives, PollFails, AfterPoll
<1>20. ASSUME NEW c \in Convs, OpenPast(c)
       PROVE  ScreenInv'
  BY <1>1, <1>20 DEF OpenPast, StillSelected, Free, ScreenInv
<1>21. ASSUME NEW a \in Alerts, OpenAlert(a)
       PROVE  ScreenInv'
  <2>1. role = "manager" /\ a \in Convs
    BY <1>21 DEF OpenAlert, TabletInv, ListInv
  <2> QED
    BY <1>1, <1>21, <2>1 DEF OpenAlert, StillSelected, Free, ScreenInv
<1>22. CASE RestoreArrives
  BY <1>1, <1>22 DEF RestoreArrives, Rest, ScreenInv
<1>23. CASE UNCHANGED vars
  BY <1>2, <1>23 DEF vars
<1> QED
  BY <1>4, <1>5, <1>6, <1>7, <1>8, <1>9, <1>10, <1>11, <1>12, <1>13, <1>14, <1>15, <1>16,
     <1>17, <1>18, <1>19, <1>20, <1>21, <1>22, <1>23 DEF Next

\* Every step preserves the part about the cards, given who is on screen.
LEMMA CardsKept ==
  ASSUME TabletInv, [Next]_vars
  PROVE  CardInv'
<1> USE TabletAssumption
<1>1. CardInv /\ ScreenInv
  BY DEF TabletInv
<1>2. ASSUME UNCHANGED <<session, cards>>
      PROVE  CardInv'
  BY <1>1, <1>2 DEF CardInv, cards
<1>3. ASSUME ClearLog, UNCHANGED <<asker, posted>>
      PROVE  CardInv'
  BY <1>1, <1>3 DEF CardInv, ClearLog
<1>4. CASE NewConversation \/ (\E r \in Roles : SelectPersona(r)) \/ RestoreArrives
  BY <1>3, <1>4 DEF NewConversation, SelectPersona, RestoreArrives
<1>5. CASE Send
  BY <1>2, <1>5 DEF Send
<1>6. ASSUME NEW k \in Cards, AnswerCard(k)
      PROVE  CardInv'
  <2>1. /\ asker[k] = session /\ session \in Convs /\ posted[k] = <<>> /\ live[k] = 1
    <3>1. live[k] > 0 /\ live[k] \in 0 .. 1
      BY <1>1, <1>6 DEF AnswerCard, CardInv
    <3>2. asker[k] = session /\ posted[k] = <<>> /\ asker[k] # None
      BY <1>1, <3>1 DEF CardInv
    <3>3. live[k] = 1
      BY <3>1
    <3>4. session \in Convs
      BY <1>1, <3>2 DEF ScreenInv
    <3> QED
      BY <3>2, <3>3, <3>4
  <2>2. live' \in [Cards -> 0 .. 1] /\ live'[k] = 0 /\ \A j \in Cards \ {k} : live'[j] = live[j]
    BY <1>1, <1>6, <2>1 DEF AnswerCard, Lock, CardInv
  <2>3. /\ posted' \in [Cards -> Seq(Convs)] /\ posted'[k] = <<session>>
        /\ \A j \in Cards \ {k} : posted'[j] = posted[j]
    BY <1>1, <1>6, <2>1 DEF AnswerCard, CardInv
  <2>4. UNCHANGED <<session, asker>>
    BY <1>6 DEF AnswerCard
  <2>5. asker[k] # None /\ ~(live'[k] > 0)
    BY <2>1, <2>2
  <2>6. ASSUME NEW j \in Cards
        PROVE  /\ live'[j] > 0 => asker[j] = session /\ posted'[j] = <<>>
               /\ asker[j] = None => live'[j] = 0 /\ posted'[j] = <<>>
               /\ posted'[j] \in {<<>>, <<asker[j]>>}
    <3>1. CASE j = k
      BY <2>1, <2>3, <2>5, <3>1
    <3>2. CASE j # k
      BY <1>1, <2>2, <2>3, <3>2 DEF CardInv
    <3> QED
      BY <3>1, <3>2
  <2> QED
    BY <1>1, <2>2, <2>3, <2>4, <2>6 DEF CardInv
<1>7. ASSUME NEW k \in Kinds, AgentEvent(k)
      PROVE  CardInv'
  <2>1. PICK card \in Cards \cup {None} :
          IF card = None THEN UNCHANGED <<live, asker>>
          ELSE /\ asker[card] = None
               /\ asker' = [asker EXCEPT ![card] = target]
               /\ live' = [live EXCEPT ![card] = 1]
    BY <1>7 DEF AgentEvent
  <2>2. UNCHANGED <<session, posted>> /\ target = session /\ session \in Convs
    BY <1>1, <1>7 DEF AgentEvent, ScreenInv
  <2>3. CASE card = None
    BY <1>2, <2>1, <2>2, <2>3 DEF cards
  <2>4. CASE card # None
    BY <1>1, <2>1, <2>2, <2>4 DEF CardInv
  <2> QED
    BY <2>3, <2>4
<1>8. CASE Chunk
  BY <1>2, <1>8 DEF Chunk
<1>9. ASSUME NEW n \in 1 .. Len(kinds), Redeliver(n)
      PROVE  CardInv'
  <2>1. Duplicate(st, n)
    BY SeenIsIgnored DEF TabletInv, StreamInv, Tracks
  <2> QED
    BY <1>2, <1>9, <2>1 DEF Redeliver, cards
<1>10. CASE StreamEnds \/ StreamBreaks \/ Finish
  BY <1>2, <1>10 DEF StreamEnds, StreamBreaks, Finish
<1>11. CASE Trigger \/ CreateFails \/ EventAccepted \/ EventFails
  BY <1>2, <1>11 DEF Trigger, CreateFails, EventAccepted, EventFails
<1>12. ASSUME NEW c \in Convs, Created(c)
       PROVE  CardInv'
  <2>1. session = None /\ UNCHANGED cards
    BY <1>1, <1>12 DEF Created, ScreenInv
  <2>2. \A k \in Cards : ~(live[k] > 0)
    BY <1>1, <2>1 DEF CardInv
  <2> QED
    BY <1>1, <2>1, <2>2 DEF CardInv, cards
<1>13. CASE \E p \in Roles : HistoryArrives(p) \/ HistoryFails(p)
  BY <1>2, <1>13 DEF HistoryArrives, HistoryFails
<1>14. CASE Poll \/ PollArrives \/ PollFails \/ RestoreFails
  BY <1>2, <1>14 DEF Poll, PollArrives, PollFails, RestoreFails
<1>15. CASE (\E c \in Convs : OpenPast(c)) \/ (\E a \in Alerts : OpenAlert(a))
  BY <1>2, <1>15 DEF OpenPast, OpenAlert
<1>16. CASE UNCHANGED vars
  BY <1>2, <1>16 DEF vars
<1> QED
  BY <1>4, <1>5, <1>6, <1>7, <1>8, <1>9, <1>10, <1>11, <1>12, <1>13, <1>14, <1>15, <1>16
     DEF Next

\* Every step preserves the part about the lists, given who is on screen.
LEMMA ListsKept ==
  ASSUME TabletInv, [Next]_vars
  PROVE  ListInv'
<1> USE TabletAssumption
<1>1. ListInv /\ ScreenInv
  BY DEF TabletInv
<1>2. ASSUME UNCHANGED <<role, lists, alerts>>
      PROVE  ListInv'
  BY <1>1, <1>2 DEF ListInv, lists, alerts
<1>3. CASE NewConversation \/ Send \/ \E k \in Cards : AnswerCard(k)
  BY <1>2, <1>3 DEF NewConversation, Send, AnswerCard
<1>4. ASSUME NEW r \in Roles, SelectPersona(r)
      PROVE  ListInv'
  BY <1>1, <1>4 DEF SelectPersona, ListInv, alerts
<1>5. CASE (\E k \in Kinds : AgentEvent(k)) \/ Chunk \/ \E n \in 1 .. Len(kinds) : Redeliver(n)
  BY <1>2, <1>5 DEF AgentEvent, Chunk, Redeliver
<1>6. CASE StreamEnds \/ Trigger \/ (\E c \in Convs : Created(c)) \/ EventFails
  BY <1>2, <1>6 DEF StreamEnds, Trigger, Created, EventFails
<1>7. CASE StreamBreaks \/ Finish
  <2>1. fetching' \in {fetching, fetching \cup {role}} /\ UNCHANGED <<role, past, polling, listed, read, opened>>
    BY <1>7 DEF StreamBreaks, Finish, Settle, alerts
  <2> QED
    BY <1>1, <2>1 DEF ListInv, ScreenInv
<1>8. CASE CreateFails
  BY <1>1, <1>8 DEF CreateFails, ListInv, ScreenInv, alerts
<1>9. CASE EventAccepted
  BY <1>1, <1>9 DEF EventAccepted, ListInv, alerts
<1>10. CASE \E p \in Roles : HistoryArrives(p) \/ HistoryFails(p)
  BY <1>1, <1>10 DEF HistoryArrives, HistoryFails, ListInv, alerts
<1>11. CASE Poll
  BY <1>1, <1>11 DEF Poll, ListInv, alerts
<1>12. CASE PollArrives \/ PollFails
  <2>1. /\ polling' = FALSE /\ UNCHANGED <<role, fetching, past, read, opened>>
        /\ listed' = listed \/ listed' = (listed \/ role = "manager")
    BY <1>12 DEF PollArrives, PollFails, ShowInbox, alerts
  <2>2. listed' \in BOOLEAN /\ (listed' => role = "manager")
    <3>1. CASE role = "manager"
      BY <1>1, <2>1, <3>1 DEF ListInv
    <3>2. CASE role # "manager"
      <4>1. listed = FALSE
        BY <1>1, <3>2 DEF ListInv
      <4>2. listed' = FALSE
        BY <2>1, <3>2, <4>1
      <4> QED
        BY <4>2
    <3> QED
      BY <3>1, <3>2
  <2> QED
    BY <1>1, <2>1, <2>2 DEF ListInv
<1>13. CASE (\E c \in Convs : OpenPast(c)) \/ RestoreFails
  BY <1>2, <1>13 DEF OpenPast, RestoreFails
<1>14. ASSUME NEW a \in Alerts, OpenAlert(a)
       PROVE  ListInv'
  BY <1>1, <1>2, <1>14 DEF OpenAlert, StillSelected, ListInv, alerts
<1>15. CASE RestoreArrives
  <2>1. op = "restoring alert" => target \in Alerts
    BY <1>1 DEF ScreenInv
  <2> QED
    BY <1>1, <1>15, <2>1 DEF RestoreArrives, ListInv, ScreenInv, alerts
<1>16. CASE UNCHANGED vars
  BY <1>2, <1>16 DEF vars
<1> QED
  BY <1>3, <1>4, <1>5, <1>6, <1>7, <1>8, <1>9, <1>10, <1>11, <1>12, <1>13, <1>14, <1>15, <1>16
     DEF Next

\* Every step preserves the part about the keys.
LEMMA KeysKept ==
  ASSUME TabletInv, [Next]_vars
  PROVE  KeyInv'
<1> USE TabletAssumption
<1>1. KeyInv /\ ScreenInv
  BY DEF TabletInv
<1>2. ASSUME UNCHANGED events
      PROVE  KeyInv'
  BY <1>1, <1>2 DEF KeyInv, events
<1>3. ASSUME NEW c \in Convs, PostEvent(c)
      PROVE  KeyInv'
  <2>1. key' \in [id : 1 .. MaxKeys, conv : Convs] /\ made' \in 0 .. MaxKeys
    <3>1. CASE key # None /\ key.conv = c
      BY <1>1, <1>3, <3>1 DEF PostEvent, KeyInv
    <3>2. CASE ~(key # None /\ key.conv = c)
      BY <1>1, <1>3, <3>2 DEF PostEvent, KeyInv
    <3> QED
      BY <3>1, <3>2
  <2>2. unsure' = [unsure EXCEPT ![c] = key'.id]
    BY <1>3 DEF PostEvent
  <2>3. key'.id \in 0 .. MaxKeys
    BY <2>1
  <2> QED
    BY <1>1, <2>1, <2>2, <2>3 DEF KeyInv
<1>4. CASE Trigger
  BY <1>1, <1>2, <1>3, <1>4 DEF Trigger, ScreenInv
<1>5. ASSUME NEW c \in Convs, Created(c)
      PROVE  KeyInv'
  BY <1>2, <1>3, <1>5 DEF Created
<1>6. CASE EventAccepted
  <2>1. key' = None /\ unsure' = [unsure EXCEPT ![target] = 0] /\ made' = made
    BY <1>6 DEF EventAccepted
  <2> DEFINE Numbers == 0 .. MaxKeys
  <2>2. unsure \in [Convs -> Numbers] /\ 0 \in Numbers
    BY <1>1 DEF KeyInv
  <2>3. unsure' \in [Convs -> 0 .. MaxKeys]
    <3> HIDE DEF Numbers
    <3>1. unsure' \in [Convs -> Numbers]
      BY <2>1, <2>2
    <3> QED
      BY <3>1 DEF Numbers
  <2> QED
    BY <1>1, <2>1, <2>3 DEF KeyInv
<1>7. CASE NewConversation \/ Send \/ \E k \in Cards : AnswerCard(k)
  BY <1>2, <1>7 DEF NewConversation, Send, AnswerCard
<1>8. CASE \E r \in Roles : SelectPersona(r)
  BY <1>2, <1>8 DEF SelectPersona
<1>9. CASE (\E k \in Kinds : AgentEvent(k)) \/ Chunk \/ \E n \in 1 .. Len(kinds) : Redeliver(n)
  BY <1>2, <1>9 DEF AgentEvent, Chunk, Redeliver
<1>10. CASE StreamEnds \/ StreamBreaks \/ Finish \/ CreateFails \/ EventFails
  BY <1>2, <1>10 DEF StreamEnds, StreamBreaks, Finish, CreateFails, EventFails
<1>11. CASE \E p \in Roles : HistoryArrives(p) \/ HistoryFails(p)
  BY <1>2, <1>11 DEF HistoryArrives, HistoryFails
<1>12. CASE Poll \/ PollArrives \/ PollFails
  BY <1>2, <1>12 DEF Poll, PollArrives, PollFails
<1>13. CASE (\E c \in Convs : OpenPast(c)) \/ (\E a \in Alerts : OpenAlert(a))
  BY <1>2, <1>13 DEF OpenPast, OpenAlert
<1>14. CASE RestoreArrives \/ RestoreFails
  BY <1>2, <1>14 DEF RestoreArrives, RestoreFails
<1>15. CASE UNCHANGED vars
  BY <1>2, <1>15 DEF vars
<1> QED
  BY <1>4, <1>5, <1>6, <1>7, <1>8, <1>9, <1>10, <1>11, <1>12, <1>13, <1>14, <1>15 DEF Next

\* For any conversations, alerts, cards and streams, whatever arrives late, is repeated
\* or breaks off, the invariant holds.
THEOREM TabletInvariant == Spec => []TabletInv
<1>1. Init => TabletInv
  BY TabletStarts
<1>2. TabletInv /\ [Next]_vars => TabletInv'
  <2> SUFFICES ASSUME TabletInv, [Next]_vars
               PROVE  TabletInv'
    OBVIOUS
  <2>1. StreamInv' /\ ScreenInv' /\ CardInv' /\ ListInv' /\ KeyInv'
    BY StreamKept, ScreenKept, CardsKept, ListsKept, KeysKept
  <2> QED
    BY <2>1 DEF TabletInv
<1> QED
  BY <1>1, <1>2, PTL DEF Spec

\* Type correctness of the tablet and its streams.
THEOREM TabletTypeOK == Spec => []TypeOK
<1>1. TabletInv => TypeOK
  <2> SUFFICES ASSUME TabletInv
               PROVE  TypeOK
    OBVIOUS
  <2>1. cardOf \in [1 .. Len(kinds) -> Cards \cup {None}]
    BY DEF TabletInv, StreamInv
  <2>2. st \in Reducers(Len(kinds))
    BY DEF TabletInv, StreamInv, Tracks
  <2> QED
    BY <2>1, <2>2 DEF TabletInv, StreamInv, ScreenInv, CardInv, ListInv, KeyInv, TypeOK
<1> QED
  BY <1>1, TabletInvariant, PTL

\* The answer that sse publishes is the agent's last word, however many texts, results,
\* partial texts and repeated events came before.
THEOREM AnswerLastWord == Spec => []AnswerIsLastWord
<1>1. TabletInv => AnswerIsLastWord
  BY TrackedAnswer DEF TabletInv, StreamInv, AnswerIsLastWord
<1> QED
  BY <1>1, TabletInvariant, PTL

\* Reading the conversation later shows the answer that was streamed.
THEOREM StreamAndReplayAgree == Spec => []ReplayAgrees
<1>1. TabletInv => ReplayAgrees
  BY TrackedAnswer, ReplayIsLastWord DEF TabletInv, StreamInv, ReplayAgrees
<1> QED
  BY <1>1, TabletInvariant, PTL

\* While a stream is handled its conversation is the one on screen.
THEOREM StreamOnScreen == Spec => []StreamStaysOnScreen
<1>1. TabletInv => StreamStaysOnScreen
  BY DEF TabletInv, ScreenInv, StreamStaysOnScreen
<1> QED
  BY <1>1, TabletInvariant, PTL

\* A confirmation is answered at most once, and in the conversation that asked.
THEOREM DecidedOnce == Spec => []DecidedOnceWhereAsked
<1>1. TabletInv => DecidedOnceWhereAsked
  BY DEF TabletInv, CardInv, DecidedOnceWhereAsked
<1> QED
  BY <1>1, TabletInvariant, PTL

\* The conversation on screen is the current persona's, whatever arrives after a switch.
THEOREM ScreenIsPersonas == Spec => []SessionOfPersona
<1>1. TabletInv => SessionOfPersona
  BY DEF TabletInv, ScreenInv, SessionOfPersona
<1> QED
  BY <1>1, TabletInvariant, PTL

\* An alert is marked read only after its conversation was opened.
THEOREM ReadOnceShown == Spec => []ReadAfterShown
<1>1. TabletInv => ReadAfterShown
  BY DEF TabletInv, ListInv, ReadAfterShown
<1> QED
  BY <1>1, TabletInvariant, PTL
=============================================================================
