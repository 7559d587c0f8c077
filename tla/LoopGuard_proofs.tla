--------------------------- MODULE LoopGuard_proofs ---------------------------
(* A request ends on its own account, whatever the limits, the processes and   *)
(* the eviction of counters; and the limits hold while one process serves the  *)
(* session and keeps every counter.                                            *)
EXTENDS LoopGuard, FiniteSets, FiniteSetTheorems, SequenceTheorems, TLAPS

TypeInv ==
  /\ phase \in [Requests -> Phases]
  /\ agent \in [Requests -> {"root", "store_tasks"}]
  /\ use \in [Requests -> ToolCalls \cup {None}]
  /\ home \in [Requests -> Processes]
  /\ confirmed \in [Requests -> {"unasked", "yes", "no"}]
  /\ outcome \in [Requests -> {"none", "answered", "empty", "cancelled", "stopped"}]
  /\ marked \in [Requests -> SUBSET {"cancelled", "stopped"}]
  /\ declined \in Requests \cup {None}
  /\ stopped \in Requests \cup {None}

Busy == {"turn", "thinking", "calling"}

\* A marked request at work is on its way out, and its marker is in its slot.
OnTheWayOut(i) ==
  /\ phase[i] \in {"turn", "calling"}
  /\ phase[i] = "calling" => use[i] \in HandBacks
  /\ "cancelled" \in marked[i] => declined = i
  /\ "cancelled" \notin marked[i] => stopped = i /\ declined # i

MarkInv(i) ==
  /\ phase[i] \in {"new", "paused"} => marked[i] = {}
  /\ phase[i] \in Busy /\ marked[i] # {} => OnTheWayOut(i)
  /\ declined = i => "cancelled" \in marked[i]
  /\ stopped = i => "stopped" \in marked[i]
  /\ outcome[i] \in {"cancelled", "stopped"} => outcome[i] \in marked[i]
  /\ phase[i] # "done" => outcome[i] = "none"
  /\ phase[i] = "done" /\ "cancelled" \in marked[i] => outcome[i] = "cancelled"
  /\ phase[i] = "done" /\ marked[i] = {"stopped"} => outcome[i] = "stopped"

OneBusy == \A i, j \in Requests : phase[i] \in Busy /\ phase[j] \in Busy => i = j

AccountInv ==
  /\ TypeInv
  /\ OneBusy
  /\ \A i \in Requests : MarkInv(i)

-----------------------------------------------------------------------------
(* Every action but OtherTraffic moves one request.                         *)

\* What a request at work does leaves the others as they were, except that it may
\* take over a slot of a request that is done.
OnlyMoves(i) ==
  /\ \A j \in Requests \ {i} :
       /\ phase'[j] = phase[j] /\ use'[j] = use[j]
       /\ outcome'[j] = outcome[j] /\ marked'[j] = marked[j]
  /\ declined' \in {declined, i}
  /\ stopped' \in {stopped, i}

LEMMA OthersKeep ==
  ASSUME AccountInv, NEW i \in Requests, OnlyMoves(i), phase'[i] \in Busy \cup {"done", "paused"},
         phase[i] \in Busy \/ Quiet,
         NEW j \in Requests, j # i
  PROVE  /\ MarkInv(j)'
         /\ phase'[j] \notin Busy
<1>1. phase[j] \notin Busy
  BY DEF AccountInv, OneBusy, Quiet, Busy
<1>2. phase'[j] = phase[j] /\ use'[j] = use[j] /\ outcome'[j] = outcome[j] /\ marked'[j] = marked[j]
  BY DEF OnlyMoves
<1>3. declined' = j => declined = j
  BY DEF OnlyMoves
<1>4. stopped' = j => stopped = j
  BY DEF OnlyMoves
<1>5. MarkInv(j)
  BY DEF AccountInv
<1> QED
  BY <1>1, <1>2, <1>3, <1>4, <1>5 DEF MarkInv, OnTheWayOut

LEMMA MoveOne ==
  ASSUME AccountInv, NEW i \in Requests, OnlyMoves(i), phase'[i] \in Busy \cup {"done", "paused"},
         phase[i] \in Busy \/ Quiet,
         TypeInv', MarkInv(i)'
  PROVE  AccountInv'
<1>1. \A j \in Requests : MarkInv(j)'
  BY OthersKeep
<1>2. OneBusy'
  BY OthersKeep DEF OneBusy
<1> QED
  BY <1>1, <1>2 DEF AccountInv

LEMMA StartAccount ==
  ASSUME AccountInv, NEW i \in Requests, Start(i)
  PROVE  AccountInv'
<1>1. TypeInv'
  BY DEF AccountInv, TypeInv, Start, Goto, markers, Phases
<1>2. MarkInv(i)'
  BY DEF AccountInv, TypeInv, MarkInv, OnTheWayOut, Start, Goto, markers, Busy
<1>3. OnlyMoves(i) /\ phase'[i] = "turn" /\ Quiet
  BY DEF AccountInv, TypeInv, OnlyMoves, Start, Goto, markers
<1> QED
  BY <1>1, <1>2, <1>3, MoveOne DEF Busy

LEMMA EndedAccount ==
  ASSUME AccountInv, NEW i \in Requests, EndedByMarker(i)
  PROVE  AccountInv'
<1>1. /\ Terminal(i) \in {"cancelled", "stopped"}
      /\ Terminal(i) = "cancelled" <=> declined = i
      /\ Terminal(i) = "stopped" <=> declined # i /\ stopped = i
  BY DEF EndedByMarker, Terminal
<1>2. TypeInv'
  BY <1>1 DEF AccountInv, TypeInv, EndedByMarker, Terminate, Goto, markers, Phases, ToolCalls, HandBacks
<1>3. MarkInv(i)'
  <2>1. MarkInv(i) /\ phase[i] = "turn" /\ marked'[i] = marked[i] /\ declined' = declined /\ stopped' = stopped
    BY DEF AccountInv, EndedByMarker, markers
  <2>2. marked[i] # {} /\ ("cancelled" \in marked[i] <=> declined = i) /\ Terminal(i) \in marked[i]
    BY <1>1, <2>1 DEF MarkInv, OnTheWayOut, Busy
  <2>3. CASE agent[i] = "store_tasks"
    <3>1. phase'[i] = "calling" /\ use'[i] \in HandBacks /\ outcome'[i] = outcome[i]
      BY <1>1, <2>3 DEF AccountInv, TypeInv, EndedByMarker, Terminate, Goto, HandBacks
    <3> QED
      BY <1>1, <2>1, <2>2, <3>1 DEF MarkInv, OnTheWayOut, Busy
  <2>4. CASE agent[i] = "root"
    <3>1. phase'[i] = "done" /\ outcome'[i] = Terminal(i)
      BY <2>4 DEF AccountInv, TypeInv, EndedByMarker, Terminate, Goto
    <3> QED
      BY <1>1, <2>1, <2>2, <3>1 DEF MarkInv, Busy
  <2> QED
    BY <2>3, <2>4 DEF AccountInv, TypeInv
<1>4. OnlyMoves(i) /\ phase'[i] \in Busy \cup {"done"} /\ phase[i] \in Busy
  BY DEF AccountInv, TypeInv, OnlyMoves, EndedByMarker, Terminate, Goto, markers, Busy
<1> QED
  BY <1>2, <1>3, <1>4, MoveOne

LEMMA CallModelAccount ==
  ASSUME AccountInv, NEW i \in Requests, CallModel(i)
  PROVE  AccountInv'
<1> DEFINE n == Count(counts[home[i]], <<"model", i>>) + 1
           ok == AllowsModel(n)
<1>1. /\ phase[i] = "turn" /\ declined # i /\ stopped # i
      /\ UNCHANGED <<declined, agent, home, confirmed, traffic, runs>>
      /\ \/ ok /\ Goto(i, "thinking") /\ UNCHANGED <<stopped, use, outcome, marked>>
         \/ ~ok /\ Stop(i) /\ Terminate(i, "stopped")
  BY DEF CallModel, Terminal
<1> HIDE DEF ok
<1>2. MarkInv(i) /\ marked[i] = {} /\ outcome[i] = "none"
  BY <1>1 DEF AccountInv, TypeInv, MarkInv, OnTheWayOut, Busy
<1>3. CASE ok
  <2>1. TypeInv'
    BY <1>1, <1>3 DEF AccountInv, TypeInv, Goto, Phases, Stop
  <2>2. phase'[i] = "thinking" /\ UNCHANGED <<stopped, declined, use, outcome, marked>>
    BY <1>1, <1>3 DEF AccountInv, TypeInv, Goto
  <2>3. MarkInv(i)'
    BY <1>1, <1>2, <2>2 DEF MarkInv, OnTheWayOut, Busy
  <2>4. OnlyMoves(i)
    BY <1>1, <1>3, <2>2 DEF AccountInv, TypeInv, OnlyMoves, Goto
  <2> QED
    BY <1>1, <2>1, <2>2, <2>3, <2>4, MoveOne DEF Busy
<1>4. CASE ~ok
  <2>1. /\ stopped' = i /\ marked' = [marked EXCEPT ![i] = @ \cup {"stopped"}]
        /\ Terminate(i, "stopped")
        /\ UNCHANGED <<declined, agent, home, confirmed>>
    BY <1>1, <1>4 DEF Stop
  <2>2. TypeInv'
    <3>1. marked' \in [Requests -> SUBSET {"cancelled", "stopped"}]
      BY <2>1 DEF AccountInv, TypeInv
    <3> QED
      BY <2>1, <3>1 DEF AccountInv, TypeInv, Terminate, Goto, Phases, ToolCalls, HandBacks
  <2>3. marked'[i] = {"stopped"}
    BY <1>2, <2>1 DEF AccountInv, TypeInv
  <2>4. \/ phase'[i] = "calling" /\ use'[i] \in HandBacks /\ outcome'[i] = "none"
        \/ phase'[i] = "done" /\ outcome'[i] = "stopped"
    BY <1>2, <2>1 DEF AccountInv, TypeInv, Terminate, Goto, HandBacks
  <2>5. MarkInv(i)'
    BY <1>1, <2>1, <2>3, <2>4 DEF MarkInv, OnTheWayOut, Busy
  <2>6. OnlyMoves(i)
    BY <1>1, <2>1 DEF AccountInv, TypeInv, OnlyMoves, Terminate, Goto
  <2> QED
    BY <1>1, <2>2, <2>4, <2>5, <2>6, MoveOne DEF Busy
<1> QED
  BY <1>3, <1>4

LEMMA SayAccount ==
  ASSUME AccountInv, NEW i \in Requests, AskTool(i) \/ Reply(i)
  PROVE  AccountInv'
<1>1. phase[i] = "thinking" /\ MarkInv(i) /\ marked[i] = {} /\ outcome[i] = "none"
  BY DEF AccountInv, AskTool, Reply, MarkInv, OnTheWayOut, Busy
<1>2. Offered(agent[i]) \subseteq ToolCalls
  BY NamesAssumption DEF Offered, ToolCalls, HandBacks
<1>3. TypeInv'
  BY <1>2 DEF AccountInv, TypeInv, AskTool, Reply, Goto, markers, Phases
<1>4. /\ marked'[i] = {} /\ declined' = declined /\ stopped' = stopped
      /\ \/ phase'[i] = "calling" /\ outcome'[i] = "none"
         \/ phase'[i] = "done" /\ outcome'[i] \in {"answered", "empty"}
  BY <1>1 DEF AccountInv, TypeInv, AskTool, Reply, Goto, markers
<1>5. MarkInv(i)'
  BY <1>1, <1>4 DEF MarkInv, OnTheWayOut, Busy
<1>6. OnlyMoves(i)
  BY DEF AccountInv, TypeInv, OnlyMoves, AskTool, Reply, Goto, markers
<1> QED
  BY <1>1, <1>3, <1>4, <1>5, <1>6, MoveOne DEF Busy

\* What a tool call leaves behind, apart from the counters.
LEMMA ToolAccount ==
  ASSUME AccountInv, NEW i \in Requests,
         \/ BlockTool(i) \/ SwitchAgent(i) \/ RunTool(i) \/ AskPerson(i)
         \/ DeclineTool(i) \/ RefuseTool(i)
  PROVE  AccountInv'
<1>1. phase[i] = "calling" /\ MarkInv(i) /\ outcome[i] = "none"
  BY DEF AccountInv, MarkInv, BlockTool, SwitchAgent, RunTool, AskPerson, DeclineTool, RefuseTool
<1>2. marked[i] # {} => OnTheWayOut(i) /\ use[i] \in HandBacks
  BY <1>1 DEF MarkInv, OnTheWayOut, Busy
<1>3. CASE BlockTool(i)
  <2>1. /\ stopped' = i /\ marked' = [marked EXCEPT ![i] = @ \cup {"stopped"}]
        /\ phase' = [phase EXCEPT ![i] = "turn"] /\ confirmed' = [confirmed EXCEPT ![i] = "unasked"]
        /\ UNCHANGED <<declined, agent, use, home, outcome>>
    BY <1>3 DEF BlockTool, Stop, Goto
  <2>2. marked' \in [Requests -> SUBSET {"cancelled", "stopped"}]
    BY <2>1 DEF AccountInv, TypeInv
  <2>3. TypeInv'
    BY <2>1, <2>2 DEF AccountInv, TypeInv, Phases
  <2>4. /\ phase'[i] = "turn" /\ outcome'[i] = "none" /\ "stopped" \in marked'[i]
        /\ "cancelled" \in marked'[i] <=> "cancelled" \in marked[i]
    BY <1>1, <2>1 DEF AccountInv, TypeInv
  <2>5. MarkInv(i)'
    BY <1>1, <1>2, <2>1, <2>4 DEF MarkInv, OnTheWayOut, Busy
  <2>6. OnlyMoves(i)
    BY <2>1 DEF AccountInv, TypeInv, OnlyMoves
  <2> QED
    BY <1>1, <2>3, <2>4, <2>5, <2>6, MoveOne DEF Busy
<1>4. CASE SwitchAgent(i)
  <2>1. /\ phase' = [phase EXCEPT ![i] = "turn"]
        /\ UNCHANGED <<declined, stopped, use, home, confirmed, outcome, marked>>
    BY <1>4 DEF SwitchAgent, Goto, markers
  <2>2. TypeInv'
    BY <1>4, <2>1 DEF AccountInv, TypeInv, Phases, SwitchAgent
  <2>3. phase'[i] = "turn"
    BY <2>1 DEF AccountInv, TypeInv
  <2>4. MarkInv(i)'
    BY <1>1, <1>2, <2>1, <2>3 DEF MarkInv, OnTheWayOut, Busy
  <2>5. OnlyMoves(i)
    BY <2>1 DEF AccountInv, TypeInv, OnlyMoves
  <2> QED
    BY <1>1, <2>2, <2>3, <2>4, <2>5, MoveOne DEF Busy
<1>5. CASE \/ RunTool(i) \/ AskPerson(i) \/ RefuseTool(i)
           \/ DeclineTool(i) /\ use[i] \in Preferences
  <2>1. use[i] \notin HandBacks
    BY <1>5, NamesAssumption DEF RunTool, AskPerson, RefuseTool, DeclineTool
  <2>2. marked[i] = {}
    BY <1>2, <2>1
  <2>3. /\ phase' = [phase EXCEPT ![i] = "turn"] \/ phase' = [phase EXCEPT ![i] = "paused"]
        /\ confirmed' = [confirmed EXCEPT ![i] = "unasked"] \/ confirmed' = confirmed
        /\ UNCHANGED <<declined, stopped, agent, use, home, outcome, marked>>
    BY <1>5 DEF RunTool, AskPerson, RefuseTool, DeclineTool, Goto, markers
  <2>4. TypeInv'
    BY <2>3 DEF AccountInv, TypeInv, Phases
  <2>5. phase'[i] \in {"turn", "paused"}
    BY <2>3 DEF AccountInv, TypeInv
  <2>6. MarkInv(i)'
    BY <1>1, <2>2, <2>3, <2>5 DEF MarkInv, OnTheWayOut, Busy
  <2>7. OnlyMoves(i)
    BY <2>3 DEF AccountInv, TypeInv, OnlyMoves
  <2> QED
    BY <1>1, <2>4, <2>5, <2>6, <2>7, MoveOne DEF Busy
<1>6. CASE DeclineTool(i) /\ use[i] \notin Preferences
  <2>1. use[i] \notin HandBacks
    BY <1>6, NamesAssumption DEF DeclineTool
  <2>2. marked[i] = {}
    BY <1>2, <2>1
  <2>3. /\ declined' = i /\ marked' = [marked EXCEPT ![i] = @ \cup {"cancelled"}]
        /\ phase' = [phase EXCEPT ![i] = "turn"] /\ confirmed' = [confirmed EXCEPT ![i] = "unasked"]
        /\ UNCHANGED <<stopped, agent, use, home, outcome>>
    BY <1>6 DEF DeclineTool, Goto
  <2>4. marked' \in [Requests -> SUBSET {"cancelled", "stopped"}]
    BY <2>3 DEF AccountInv, TypeInv
  <2>5. TypeInv'
    BY <2>3, <2>4 DEF AccountInv, TypeInv, Phases
  <2>6. phase'[i] = "turn" /\ outcome'[i] = "none" /\ marked'[i] = {"cancelled"}
    BY <1>1, <2>2, <2>3 DEF AccountInv, TypeInv
  <2>7. MarkInv(i)'
    BY <1>1, <2>2, <2>3, <2>6 DEF MarkInv, OnTheWayOut, Busy
  <2>8. OnlyMoves(i)
    BY <2>3 DEF AccountInv, TypeInv, OnlyMoves
  <2> QED
    BY <1>1, <2>5, <2>6, <2>7, <2>8, MoveOne DEF Busy
<1> QED
  BY <1>3, <1>4, <1>5, <1>6

LEMMA ResumeAccount ==
  ASSUME AccountInv, NEW i \in Requests, NEW p \in Processes, NEW yes \in BOOLEAN, Resume(i, p, yes)
  PROVE  AccountInv'
<1>1. TypeInv'
  BY DEF AccountInv, TypeInv, Resume, Goto, markers, Phases
<1>2. MarkInv(i)'
  BY DEF AccountInv, TypeInv, MarkInv, OnTheWayOut, Resume, Goto, markers, Busy
<1>3. OnlyMoves(i) /\ phase'[i] = "calling" /\ Quiet
  BY DEF AccountInv, TypeInv, OnlyMoves, Resume, Goto, markers
<1> QED
  BY <1>1, <1>2, <1>3, MoveOne DEF Busy

LEMMA IdleAccount ==
  ASSUME AccountInv,
         UNCHANGED <<declined, stopped, phase, agent, use, home, confirmed, outcome, marked>>
  PROVE  AccountInv'
BY DEF AccountInv, TypeInv, OneBusy, MarkInv, OnTheWayOut

LEMMA NextAccount == AccountInv /\ [Next]_vars => AccountInv'
<1> SUFFICES ASSUME AccountInv, [Next]_vars PROVE AccountInv'
  OBVIOUS
<1>1. CASE \E i \in Requests : Work(i)
  BY <1>1, EndedAccount, CallModelAccount, SayAccount, ToolAccount DEF Work
<1>2. ASSUME NEW p \in Processes, OtherTraffic(p)
      PROVE  AccountInv'
  BY <1>2, IdleAccount DEF OtherTraffic, markers
<1>3. CASE UNCHANGED vars
  BY <1>3, IdleAccount DEF vars, markers
<1> QED
  BY <1>1, <1>2, <1>3, StartAccount, ResumeAccount DEF Next

LEMMA InitAccount == Init => AccountInv
<1> SUFFICES ASSUME Init PROVE AccountInv
  OBVIOUS
<1>1. TypeInv
  BY DEF Init, TypeInv, Phases
<1>2. OneBusy
  BY DEF Init, OneBusy, Busy
<1>3. \A i \in Requests : MarkInv(i)
  BY LimitsAssumption DEF Init, MarkInv, Busy
<1> QED
  BY <1>1, <1>2, <1>3 DEF AccountInv

THEOREM AccountInvariance == Spec => []AccountInv
BY InitAccount, NextAccount, PTL DEF Spec

\* A request ends as cancelled or stopped exactly when that happened to it,
\* although one slot of session state remembers the last request only.
THEOREM OwnAccount == Spec => []EndsOnItsOwnAccount
<1>1. AccountInv => EndsOnItsOwnAccount
  BY DEF AccountInv, MarkInv, EndsOnItsOwnAccount
<1> QED
  BY <1>1, AccountInvariance, PTL

-----------------------------------------------------------------------------
(* The counters of one process that never drops one.                        *)

AllKeys == (UNION {Keys(i) : i \in Requests}) \cup {<<"other", n>> : n \in 0 .. MaxTraffic - 1}

Entry == [key : AllKeys, n : Nat \ {0}]

EveryCounterFits == IsFiniteSet(AllKeys) /\ Cardinality(AllKeys) <= Capacity

OneProcess == \A p, q \in Processes : p = q

\* A dictionary: no key twice.
Dictionary(s) ==
  /\ s \in Seq(Entry)
  /\ \A x, y \in DOMAIN s : s[x].key = s[y].key => x = y

\* Different keys bound the length.
LEMMA FewEntries ==
  ASSUME NEW s, Dictionary(s), EveryCounterFits
  PROVE  Len(s) <= Capacity
<1> DEFINE D == 1 .. Len(s)
           f == [x \in D |-> s[x].key]
<1>1. Len(s) \in Nat /\ DOMAIN s = D
  BY DEF Dictionary
<1>2. IsFiniteSet(D) /\ Cardinality(D) = Len(s)
  <2>1. Cardinality(1 .. Len(s)) = IF 1 > Len(s) THEN 0 ELSE Len(s) - 1 + 1
    BY <1>1, FS_Interval
  <2> QED
    BY <1>1, <2>1, FS_Interval
<1>3. f \in [D -> AllKeys]
  <2>1. \A x \in D : s[x] \in Entry
    BY <1>1 DEF Dictionary
  <2>2. \A x \in D : s[x].key \in AllKeys
    BY <2>1 DEF Entry
  <2> QED
    BY <2>2
<1>4. f \in Injection(D, AllKeys)
  <2>1. \A x, y \in D : f[x] = f[y] => x = y
    BY <1>1 DEF Dictionary
  <2> QED
    BY <1>3, <2>1 DEF Injection, IsInjective
<1>5. Cardinality(D) <= Cardinality(AllKeys)
  BY <1>2, <1>4, FS_Injection DEF ExistsInjection, EveryCounterFits
<1>6. Cardinality(AllKeys) \in Nat /\ Capacity \in Nat
  BY FS_CardinalityType, LimitsAssumption DEF EveryCounterFits
<1> QED
  BY <1>1, <1>2, <1>5, <1>6 DEF EveryCounterFits

LEMMA CountHere ==
  ASSUME NEW s, Dictionary(s), NEW x \in DOMAIN s
  PROVE  Count(s, s[x].key) = s[x].n
BY DEF Dictionary, Count

LEMMA CountAbsent ==
  ASSUME NEW s, NEW k, \A x \in DOMAIN s : s[x].key # k
  PROVE  Count(s, k) = 0
BY DEF Count

LEMMA CountType ==
  ASSUME NEW s, Dictionary(s), NEW k
  PROVE  /\ Count(s, k) \in Nat
         /\ Count(s, k) = 0 <=> \A x \in DOMAIN s : s[x].key # k
<1>1. CASE \E x \in DOMAIN s : s[x].key = k
  <2>1. PICK x \in DOMAIN s : s[x].key = k
    BY <1>1
  <2>2. Count(s, k) = s[x].n /\ s[x] \in Entry
    BY <2>1, CountHere DEF Dictionary
  <2> QED
    BY <2>1, <2>2 DEF Entry
<1>2. CASE \A x \in DOMAIN s : s[x].key # k
  BY <1>2, CountAbsent
<1> QED
  BY <1>1, <1>2

\* _bump counts its key, and no other, while nothing is dropped.
LEMMA BumpCounts ==
  ASSUME EveryCounterFits, NEW s, Dictionary(s), NEW k \in AllKeys
  PROVE  /\ Dictionary(Bumped(s, k))
         /\ Count(Bumped(s, k), k) = Count(s, k) + 1
         /\ \A j : j # k => Count(Bumped(s, k), j) = Count(s, j)
<1> DEFINE new == [key |-> k, n |-> 1]
           more == [x \in DOMAIN s |-> IF s[x].key = k THEN [s[x] EXCEPT !.n = @ + 1] ELSE s[x]]
           t == IF Count(s, k) = 0 THEN Append(s, new) ELSE more
<1>1. s \in Seq(Entry) /\ Len(s) \in Nat /\ DOMAIN s = 1 .. Len(s)
  BY DEF Dictionary
<1>2. CASE Count(s, k) = 0
  <2>1. \A x \in DOMAIN s : s[x].key # k
    BY <1>2, CountType
  <2>2. new \in Entry /\ new.key = k /\ new.n = 1
    BY DEF Entry
  <2> DEFINE a == Append(s, new)
  <2>3. /\ a \in Seq(Entry) /\ DOMAIN a = 1 .. Len(s) + 1
        /\ a[Len(s) + 1] = new
        /\ \A x \in DOMAIN s : x \in DOMAIN a /\ a[x] = s[x]
    <3> HIDE DEF new
    <3> QED
      BY <1>1, <2>2
  <2> HIDE DEF a, new
  <2>4. \A x \in DOMAIN a : x = Len(s) + 1 \/ x \in DOMAIN s
    BY <1>1, <2>3
  <2>5. Dictionary(a)
    BY <1>1, <2>1, <2>2, <2>3, <2>4 DEF Dictionary
  <2>6. Count(a, k) = 1
    <3>1. Len(s) + 1 \in DOMAIN a
      BY <1>1, <2>3
    <3> QED
      BY <2>2, <2>3, <2>5, <3>1, CountHere
  <2>7. ASSUME NEW j, j # k
        PROVE  Count(a, j) = Count(s, j)
    <3>1. CASE \E x \in DOMAIN s : s[x].key = j
      <4>1. PICK x \in DOMAIN s : s[x].key = j
        BY <3>1
      <4>2. x \in DOMAIN a /\ a[x] = s[x]
        BY <2>3
      <4>3. Count(s, j) = s[x].n
        BY <4>1, CountHere
      <4>4. Count(a, a[x].key) = a[x].n
        BY <2>5, <4>2, CountHere
      <4> QED
        BY <4>1, <4>2, <4>3, <4>4
    <3>2. CASE \A x \in DOMAIN s : s[x].key # j
      <4>1. \A x \in DOMAIN a : a[x].key # j
        BY <2>2, <2>3, <2>4, <2>7, <3>2
      <4> QED
        BY <3>2, <4>1, CountAbsent
    <3> QED
      BY <3>1, <3>2
  <2>8. Bumped(s, k) = a
    <3>1. Len(a) <= Capacity
      BY <2>5, FewEntries
    <3>2. Len(a) \in Nat /\ Capacity \in Nat
      BY <2>3, LimitsAssumption
    <3>3. ~(Len(a) > Capacity)
      BY <3>1, <3>2
    <3> QED
      BY <1>2, <3>3 DEF Bumped, a, new
  <2> QED
    BY <1>2, <2>5, <2>6, <2>7, <2>8
<1>3. CASE Count(s, k) # 0
  <2>1. PICK z \in DOMAIN s : s[z].key = k
    BY <1>3, CountType
  <2>2. \A x \in DOMAIN s : /\ s[x] \in Entry
                            /\ x # z => s[x].key # k
    BY <2>1 DEF Dictionary
  <2>3. /\ DOMAIN more = DOMAIN s
        /\ \A x \in DOMAIN s : x # z => more[x] = s[x]
        /\ more[z] = [s[z] EXCEPT !.n = @ + 1]
    BY <2>1, <2>2
  <2> HIDE DEF more
  <2>4. more[z].key = k /\ more[z].n = s[z].n + 1 /\ more[z] \in Entry
    BY <2>1, <2>2, <2>3 DEF Entry
  <2>5. \A x \in DOMAIN s : more[x] \in Entry /\ more[x].key = s[x].key
    BY <2>1, <2>2, <2>3, <2>4
  <2>6. more \in Seq(Entry)
    <3>1. more = [x \in 1 .. Len(s) |-> more[x]]
      BY <1>1 DEF more
    <3> QED
      BY <1>1, <2>5, <3>1
  <2>7. Dictionary(more)
    BY <2>3, <2>5, <2>6 DEF Dictionary
  <2>8. Count(more, k) = s[z].n + 1
    BY <2>3, <2>4, <2>7, CountHere
  <2>9. Count(s, k) = s[z].n
    BY <2>1, CountHere
  <2>10. ASSUME NEW j, j # k
         PROVE  Count(more, j) = Count(s, j)
    <3>1. CASE \E x \in DOMAIN s : s[x].key = j
      <4>1. PICK x \in DOMAIN s : s[x].key = j
        BY <3>1
      <4>2. x \in DOMAIN more /\ more[x] = s[x]
        BY <2>1, <2>3, <2>10, <4>1
      <4>3. Count(s, j) = s[x].n
        BY <4>1, CountHere
      <4>4. Count(more, more[x].key) = more[x].n
        BY <2>7, <4>2, CountHere
      <4> QED
        BY <4>1, <4>2, <4>3, <4>4
    <3>2. CASE \A x \in DOMAIN s : s[x].key # j
      <4>1. \A x \in DOMAIN more : more[x].key # j
        BY <2>3, <2>5, <3>2
      <4> QED
        BY <3>2, <4>1, CountAbsent
    <3> QED
      BY <3>1, <3>2
  <2>11. Bumped(s, k) = more
    <3>1. Len(more) <= Capacity
      BY <2>7, FewEntries
    <3>2. Len(more) \in Nat /\ Capacity \in Nat
      BY <2>6, LimitsAssumption
    <3>3. ~(Len(more) > Capacity)
      BY <3>1, <3>2
    <3> QED
      BY <1>3, <3>3 DEF Bumped, more
  <2> QED
    BY <2>7, <2>8, <2>9, <2>10, <2>11
<1> QED
  BY <1>2, <1>3

-----------------------------------------------------------------------------
(* What happened in a request was counted in its process.                   *)

Counter(i, k) == Count(counts[home[i]], k)
ModelKey(i) == <<"model", i>>
ToolKey(i, k) == <<"tool", i, k>>

\* A write that was asked for and not carried out yet has been counted once more.
Asked(i, k) ==
  IF use[i] = k /\ (phase[i] = "paused" \/ confirmed[i] # "unasked") THEN 1 ELSE 0

TallyType ==
  /\ \A p \in Processes : Dictionary(counts[p])
  /\ counts \in [Processes -> Seq(Entry)]
  /\ traffic \in [Processes -> 0 .. MaxTraffic]
  /\ modelCalls \in [Requests -> Nat]
  /\ runs \in [Requests -> [Reads \cup Writes -> Nat]]

CallsTally(i) ==
  /\ modelCalls[i] <= Counter(i, ModelKey(i))
  /\ modelCalls[i] <= MaxModelCalls

RunsTally(i) ==
  /\ \A k \in Reads : runs[i][k] <= Counter(i, ToolKey(i, k)) /\ runs[i][k] <= MaxRepeats
  /\ \A k \in Writes : /\ 2 * runs[i][k] + Asked(i, k) <= Counter(i, ToolKey(i, k))
                        /\ 2 * runs[i][k] <= MaxRepeats

AskedInv(i) ==
  /\ confirmed[i] # "unasked" => phase[i] = "calling" /\ use[i] \in Writes
  /\ phase[i] = "paused" => use[i] \in Writes
  /\ phase[i] = "calling" => use[i] \in ToolCalls

TallyInv ==
  /\ TypeInv
  /\ TallyType
  /\ \A i \in Requests : CallsTally(i) /\ RunsTally(i) /\ AskedInv(i)

\* Keys of different kinds, requests and calls are different keys.
LEMMA KeysDiffer ==
  ASSUME NEW i, NEW j, NEW k, NEW m, NEW n
  PROVE  /\ ModelKey(i) = ModelKey(j) <=> i = j
         /\ ToolKey(i, k) = ToolKey(j, m) <=> i = j /\ k = m
         /\ ModelKey(i) # ToolKey(j, m)
         /\ ModelKey(i) # <<"other", n>>
         /\ ToolKey(i, k) # <<"other", n>>
<1>1. ModelKey(i) = ModelKey(j) <=> i = j
  BY DEF ModelKey
<1>2. ToolKey(i, k) = ToolKey(j, m) <=> i = j /\ k = m
  BY DEF ToolKey
<1>3. ModelKey(i)[1] = "model" /\ ToolKey(i, k)[1] = "tool" /\ ToolKey(j, m)[1] = "tool"
  BY DEF ModelKey, ToolKey
<1>4. <<"other", n>>[1] = "other"
  OBVIOUS
<1>5. "model" # "tool" /\ "model" # "other" /\ "tool" # "other"
  OBVIOUS
<1>6. ModelKey(i) # ToolKey(j, m)
  BY <1>3, <1>5
<1>7. ModelKey(i) # <<"other", n>>
  BY <1>3, <1>4, <1>5
<1>8. ToolKey(i, k) # <<"other", n>>
  BY <1>3, <1>4, <1>5
<1> QED
  BY <1>1, <1>2, <1>6, <1>7, <1>8

LEMMA KeysAreKnown ==
  ASSUME NEW i \in Requests
  PROVE  /\ ModelKey(i) \in AllKeys
         /\ \A k \in ToolCalls : ToolKey(i, k) \in AllKeys
<1>1. Keys(i) \subseteq AllKeys
  BY DEF AllKeys
<1>2. ModelKey(i) \in Keys(i)
  BY DEF Keys, ModelKey
<1>3. ASSUME NEW k \in ToolCalls
      PROVE  ToolKey(i, k) \in Keys(i)
  BY DEF Keys, ToolKey
<1> QED
  BY <1>1, <1>2, <1>3

\* The process counts one key more often, and no other.
Counted(p, k) ==
  /\ counts' = [counts EXCEPT ![p] = Bumped(@, k)]
  /\ k \in AllKeys

LEMMA CountedType ==
  ASSUME EveryCounterFits, OneProcess, TallyInv, NEW p \in Processes, NEW k, Counted(p, k)
  PROVE  /\ counts' \in [Processes -> Seq(Entry)]
         /\ \A q \in Processes : Dictionary(counts'[q])
         /\ \A m : Count(counts'[p], m) = Count(counts[p], m) + (IF m = k THEN 1 ELSE 0)
<1>1. Dictionary(counts[p]) /\ counts \in [Processes -> Seq(Entry)]
  BY DEF TallyInv, TallyType
<1>2. k \in AllKeys /\ counts'[p] = Bumped(counts[p], k)
  BY <1>1 DEF Counted
<1>3. /\ Dictionary(counts'[p])
      /\ Count(counts'[p], k) = Count(counts[p], k) + 1
      /\ \A j : j # k => Count(counts'[p], j) = Count(counts[p], j)
  BY <1>1, <1>2, BumpCounts
<1>4. \A q \in Processes : Dictionary(counts'[q])
  BY <1>3 DEF OneProcess
<1>5. counts' \in [Processes -> Seq(Entry)]
  BY <1>1, <1>2, <1>3 DEF Counted, Dictionary
<1>6. \A m : Count(counts[p], m) \in Nat
  BY <1>1, CountType
<1>7. \A m : Count(counts'[p], m) = Count(counts[p], m) + (IF m = k THEN 1 ELSE 0)
  BY <1>3, <1>6
<1> QED
  BY <1>4, <1>5, <1>7

LEMMA CounterType ==
  ASSUME TallyInv, NEW i \in Requests, NEW k
  PROVE  Counter(i, k) \in Nat
BY CountType DEF TallyInv, TallyType, TypeInv, Counter

LEMMA CountedKeys ==
  ASSUME EveryCounterFits, OneProcess, TallyInv, TypeInv', NEW p \in Processes, NEW k, Counted(p, k),
         NEW i \in Requests, NEW m
  PROVE  /\ Counter(i, m) \in Nat
         /\ Counter(i, m)' = Counter(i, m) + (IF m = k THEN 1 ELSE 0)
<1>1. home[i] = p /\ home'[i] = p
  BY DEF OneProcess, TallyInv, TypeInv
<1>2. Counter(i, m) = Count(counts[p], m) /\ Counter(i, m)' = Count(counts'[p], m)
  BY <1>1 DEF Counter, Count
<1>3. Count(counts'[p], m) = Count(counts[p], m) + (IF m = k THEN 1 ELSE 0)
  BY CountedType
<1>4. Counter(i, m) \in Nat
  BY CounterType
<1> QED
  BY <1>2, <1>3, <1>4

\* A step that counts a key and leaves the executions alone.
LEMMA CountOnly ==
  ASSUME EveryCounterFits, OneProcess, TallyInv, NEW p \in Processes, NEW k, Counted(p, k),
         TypeInv', traffic' \in [Processes -> 0 .. MaxTraffic], UNCHANGED <<home, modelCalls, runs>>,
         \A i \in Requests : AskedInv(i)',
         \A i \in Requests, w \in Writes :
           Asked(i, w)' <= Asked(i, w) + (IF k = ToolKey(i, w) THEN 1 ELSE 0)
  PROVE  TallyInv'
<1>2. TallyType'
  BY CountedType DEF TallyInv, TallyType
<1>3. ASSUME NEW i \in Requests
      PROVE  CallsTally(i)'
  <2>1. /\ Counter(i, ModelKey(i)) \in Nat
        /\ Counter(i, ModelKey(i))' = Counter(i, ModelKey(i)) + (IF ModelKey(i) = k THEN 1 ELSE 0)
    BY CountedKeys
  <2>2. CallsTally(i) /\ modelCalls[i] \in Nat /\ MaxModelCalls \in Nat
    BY LimitsAssumption DEF TallyInv, TallyType
  <2>3. ModelKey(i)' = ModelKey(i)
    BY DEF ModelKey
  <2> QED
    BY <2>1, <2>2, <2>3 DEF CallsTally
<1>4. ASSUME NEW i \in Requests
      PROVE  RunsTally(i)'
  <2>1. ASSUME NEW m
        PROVE  /\ Counter(i, m) \in Nat
               /\ Counter(i, m)' = Counter(i, m) + (IF m = k THEN 1 ELSE 0)
    BY CountedKeys
  <2>2. RunsTally(i) /\ runs[i] \in [Reads \cup Writes -> Nat] /\ runs'[i] = runs[i]
    BY DEF TallyInv, TallyType
  <2>3. ASSUME NEW m \in Reads
        PROVE  runs'[i][m] <= Counter(i, ToolKey(i, m))' /\ runs'[i][m] <= MaxRepeats
    <3>1. runs[i][m] \in Nat /\ runs[i][m] <= Counter(i, ToolKey(i, m)) /\ runs[i][m] <= MaxRepeats
      BY <2>2 DEF RunsTally
    <3> QED
      BY <2>1, <2>2, <3>1
  <2>4. ASSUME NEW m \in Writes
        PROVE  /\ 2 * runs'[i][m] + Asked(i, m)' <= Counter(i, ToolKey(i, m))'
               /\ 2 * runs'[i][m] <= MaxRepeats
    <3>1. /\ runs[i][m] \in Nat /\ 2 * runs[i][m] + Asked(i, m) <= Counter(i, ToolKey(i, m))
          /\ 2 * runs[i][m] <= MaxRepeats
      BY <2>2 DEF RunsTally
    <3>2. Asked(i, m) \in Nat /\ Asked(i, m)' \in Nat
      BY DEF Asked
    <3>3. Asked(i, m)' <= Asked(i, m) + (IF k = ToolKey(i, m) THEN 1 ELSE 0)
      OBVIOUS
    <3>4. /\ Counter(i, ToolKey(i, m)) \in Nat
          /\ Counter(i, ToolKey(i, m))' = Counter(i, ToolKey(i, m)) + (IF k = ToolKey(i, m) THEN 1 ELSE 0)
      BY <2>1
    <3> QED
      BY <2>2, <3>1, <3>2, <3>3, <3>4
  <2> QED
    BY <2>3, <2>4 DEF RunsTally
<1> QED
  BY <1>2, <1>3, <1>4 DEF TallyInv

\* A step that counts nothing and leaves the executions alone.
LEMMA CountNothing ==
  ASSUME TallyInv, TypeInv', UNCHANGED <<counts, traffic, home, modelCalls, runs>>,
         \A i \in Requests : AskedInv(i)',
         \A i \in Requests, w \in Writes : Asked(i, w)' <= Asked(i, w)
  PROVE  TallyInv'
<1>1. TallyType'
  BY DEF TallyInv, TallyType
<1>2. ASSUME NEW i \in Requests
      PROVE  CallsTally(i)' /\ RunsTally(i)'
  <2>1. CallsTally(i) /\ RunsTally(i) /\ runs[i] \in [Reads \cup Writes -> Nat]
    BY DEF TallyInv, TallyType
  <2>2. \A m : Counter(i, m)' = Counter(i, m) /\ Counter(i, m) \in Nat
    BY CounterType DEF Counter, Count
  <2>3. CallsTally(i)'
    BY <2>1, <2>2 DEF CallsTally, ModelKey
  <2>4. ASSUME NEW w \in Writes
        PROVE  2 * runs'[i][w] + Asked(i, w)' <= Counter(i, ToolKey(i, w))'
    <3>1. Asked(i, w) \in Nat /\ Asked(i, w)' \in Nat /\ Asked(i, w)' <= Asked(i, w)
      BY DEF Asked
    <3>2. runs[i][w] \in Nat /\ 2 * runs[i][w] + Asked(i, w) <= Counter(i, ToolKey(i, w))
      BY <2>1 DEF RunsTally
    <3>3. Counter(i, ToolKey(i, w)) \in Nat /\ Counter(i, ToolKey(i, w))' = Counter(i, ToolKey(i, w))
      BY <2>2 DEF ToolKey
    <3> QED
      BY <3>1, <3>2, <3>3
  <2>5. \A k \in Reads : runs'[i][k] <= Counter(i, ToolKey(i, k))'
    BY <2>1, <2>2 DEF RunsTally, ToolKey
  <2> QED
    BY <2>1, <2>3, <2>4, <2>5 DEF RunsTally
<1> QED
  BY <1>1, <1>2 DEF TallyInv

LEMMA ModelTally ==
  ASSUME EveryCounterFits, OneProcess, TallyInv, TypeInv', NEW i \in Requests, CallModel(i)
  PROVE  TallyInv'
<1> DEFINE k == ModelKey(i)
           n == Count(counts[home[i]], <<"model", i>>) + 1
<1>1. home[i] \in Processes /\ Counted(home[i], k)
  BY KeysAreKnown DEF CallModel, Bump, Counted, TallyInv, TypeInv, ModelKey
<1>2. /\ phase[i] = "turn" /\ phase' \in {[phase EXCEPT ![i] = "thinking"],
                                         [phase EXCEPT ![i] = "calling"], [phase EXCEPT ![i] = "done"]}
      /\ UNCHANGED <<home, confirmed, traffic, runs>>
  BY DEF CallModel, Terminate, Goto
<1>3. confirmed[i] = "unasked"
  BY <1>2 DEF TallyInv, TypeInv, AskedInv
<1>4. \A j \in Requests : AskedInv(j)'
  <2>1. ASSUME NEW j \in Requests, j # i
        PROVE  phase'[j] = phase[j] /\ use'[j] = use[j]
    BY <1>2, <2>1 DEF CallModel, Terminate, TallyInv, TypeInv
  <2>2. phase'[i] # "paused" /\ confirmed'[i] = "unasked"
    BY <1>2, <1>3 DEF TallyInv, TypeInv
  <2>3. phase'[i] = "calling" => use'[i] \in ToolCalls
    BY DEF CallModel, Terminate, Goto, TallyInv, TypeInv, ToolCalls, HandBacks
  <2>4. AskedInv(i)'
    BY <2>2, <2>3 DEF AskedInv
  <2>5. ASSUME NEW j \in Requests, j # i
        PROVE  AskedInv(j)'
    BY <1>2, <2>1, <2>5 DEF AskedInv, TallyInv
  <2> QED
    BY <2>4, <2>5
<1>5. ASSUME NEW j \in Requests, NEW w \in Writes
      PROVE  Asked(j, w)' = Asked(j, w)
  <2>1. j # i => phase'[j] = phase[j] /\ use'[j] = use[j]
    BY <1>2 DEF CallModel, Terminate, TallyInv, TypeInv
  <2>2. phase'[i] # "paused" /\ confirmed'[i] = "unasked"
    BY <1>2, <1>3 DEF TallyInv, TypeInv
  <2> QED
    BY <1>2, <1>3, <2>1, <2>2 DEF Asked
<1>6. TallyType'
  <2>1. /\ counts' \in [Processes -> Seq(Entry)]
        /\ \A q \in Processes : Dictionary(counts'[q])
    BY <1>1, CountedType
  <2>2. modelCalls' = modelCalls \/ modelCalls' = [modelCalls EXCEPT ![i] = IF @ > MaxModelCalls THEN @ ELSE @ + 1]
    BY DEF CallModel
  <2>3. modelCalls' \in [Requests -> Nat]
    BY <2>2 DEF TallyInv, TallyType
  <2> QED
    BY <1>2, <2>1, <2>3 DEF TallyInv, TallyType
<1>7. ASSUME NEW j \in Requests, NEW m
      PROVE  /\ Counter(j, m) \in Nat
             /\ Counter(j, m)' = Counter(j, m) + (IF m = k THEN 1 ELSE 0)
  BY <1>1, CountedKeys
<1>8. ASSUME NEW j \in Requests
      PROVE  CallsTally(j)'
  <2>1. CallsTally(j) /\ modelCalls[j] \in Nat /\ MaxModelCalls \in Nat
    BY LimitsAssumption DEF TallyInv, TallyType
  <2>2. ModelKey(j)' = ModelKey(j)
    BY DEF ModelKey
  <2>3. /\ Counter(j, ModelKey(j)) \in Nat
        /\ Counter(j, ModelKey(j))' = Counter(j, ModelKey(j)) + (IF ModelKey(j) = k THEN 1 ELSE 0)
    BY <1>7
  <2>4. CASE modelCalls'[j] = modelCalls[j]
    BY <2>1, <2>2, <2>3, <2>4 DEF CallsTally
  <2>5. CASE modelCalls'[j] # modelCalls[j]
    <3>1. j = i /\ n <= MaxModelCalls /\ modelCalls'[i] = modelCalls[i] + 1
      BY <2>5, <2>1 DEF CallModel, AllowsModel, TallyInv, TallyType
    <3>2. n = Counter(i, k) + 1
      BY DEF Counter, ModelKey
    <3> HIDE DEF n
    <3> QED
      BY <2>1, <2>2, <2>3, <3>1, <3>2 DEF CallsTally
  <2> QED
    BY <2>4, <2>5
<1>9. ASSUME NEW j \in Requests
      PROVE  RunsTally(j)'
  <2>1. RunsTally(j) /\ runs'[j] = runs[j] /\ runs[j] \in [Reads \cup Writes -> Nat]
    BY <1>2 DEF TallyInv, TallyType
  <2>2. \A m : Counter(j, ToolKey(j, m))' >= Counter(j, ToolKey(j, m)) /\ Counter(j, ToolKey(j, m)) \in Nat
               /\ Counter(j, ToolKey(j, m))' \in Nat
    <3> TAKE m
    <3>1. /\ Counter(j, ToolKey(j, m)) \in Nat
          /\ Counter(j, ToolKey(j, m))' = Counter(j, ToolKey(j, m)) + (IF ToolKey(j, m) = k THEN 1 ELSE 0)
      BY <1>7 DEF ToolKey
    <3> HIDE DEF k
    <3> QED
      BY <3>1
  <2>3. \A m \in Reads : runs'[j][m] <= Counter(j, ToolKey(j, m))' /\ runs'[j][m] <= MaxRepeats
    BY <2>1, <2>2 DEF RunsTally
  <2>4. ASSUME NEW m \in Writes
        PROVE  /\ 2 * runs'[j][m] + Asked(j, m)' <= Counter(j, ToolKey(j, m))'
               /\ 2 * runs'[j][m] <= MaxRepeats
    <3>1. Asked(j, m)' = Asked(j, m) /\ Asked(j, m) \in Nat
      BY <1>5 DEF Asked
    <3>2. runs[j][m] \in Nat /\ 2 * runs[j][m] + Asked(j, m) <= Counter(j, ToolKey(j, m)) /\ 2 * runs[j][m] <= MaxRepeats
      BY <2>1 DEF RunsTally
    <3> QED
      BY <2>1, <2>2, <3>1, <3>2
  <2> QED
    BY <2>3, <2>4 DEF RunsTally
<1> QED
  BY <1>4, <1>6, <1>8, <1>9 DEF TallyInv

\* Every tool call is counted before anything else happens to it.
LEMMA ToolCounted ==
  ASSUME TallyInv, NEW i \in Requests,
         \/ BlockTool(i) \/ SwitchAgent(i) \/ RunTool(i) \/ AskPerson(i)
         \/ DeclineTool(i) \/ RefuseTool(i)
  PROVE  Counted(home[i], ToolKey(i, use[i])) /\ home[i] \in Processes
<1>1. phase[i] = "calling" /\ Bump(home[i], <<"tool", i, use[i]>>)
  BY DEF BlockTool, SwitchAgent, RunTool, AskPerson, DeclineTool, RefuseTool
<1>2. use[i] \in ToolCalls
  BY <1>1 DEF TallyInv, AskedInv
<1> QED
  BY <1>1, <1>2, KeysAreKnown DEF Bump, Counted, ToolKey, TallyInv, TypeInv

\* What keeps the counts without an execution.
LEMMA ToolTally ==
  ASSUME EveryCounterFits, OneProcess, TallyInv, TypeInv', NEW i \in Requests,
         \/ BlockTool(i) \/ SwitchAgent(i) \/ AskPerson(i)
         \/ DeclineTool(i) \/ RefuseTool(i)
  PROVE  TallyInv'
<1>1. Counted(home[i], ToolKey(i, use[i])) /\ home[i] \in Processes
  BY ToolCounted
<1>2. /\ UNCHANGED <<use, home, traffic, modelCalls, runs>>
      /\ phase' = [phase EXCEPT ![i] = "turn"] \/ phase' = [phase EXCEPT ![i] = "paused"]
      /\ confirmed' = [confirmed EXCEPT ![i] = "unasked"] \/ confirmed' = confirmed
  BY DEF BlockTool, SwitchAgent, AskPerson, DeclineTool, RefuseTool, Goto
<1>3. confirmed'[i] = "unasked"
  <2>1. CASE BlockTool(i) \/ DeclineTool(i) \/ RefuseTool(i)
    BY <2>1 DEF BlockTool, DeclineTool, RefuseTool, TallyInv, TypeInv
  <2>2. CASE AskPerson(i)
    BY <2>2 DEF AskPerson
  <2>3. CASE SwitchAgent(i)
    BY <2>3, NamesAssumption DEF SwitchAgent, TallyInv, TypeInv, AskedInv
  <2> QED
    BY <2>1, <2>2, <2>3
<1>4. ASSUME NEW j \in Requests, j # i
      PROVE  phase'[j] = phase[j] /\ confirmed'[j] = confirmed[j] /\ use'[j] = use[j]
  BY <1>2, <1>4 DEF TallyInv, TypeInv
<1>5. \A j \in Requests : AskedInv(j)'
  <2>1. phase'[i] = "paused" => use'[i] \in Writes
    BY DEF BlockTool, SwitchAgent, AskPerson, DeclineTool, RefuseTool, Goto, TallyInv, TypeInv
  <2>2. phase'[i] # "calling"
    BY <1>2 DEF TallyInv, TypeInv
  <2>3. AskedInv(i)'
    BY <1>3, <2>1, <2>2 DEF AskedInv
  <2>4. ASSUME NEW j \in Requests, j # i
        PROVE  AskedInv(j)'
    BY <1>4, <2>4 DEF AskedInv, TallyInv
  <2> QED
    BY <2>3, <2>4
<1>6. ASSUME NEW j \in Requests, NEW w \in Writes
      PROVE  Asked(j, w)' <= Asked(j, w) + (IF ToolKey(i, use[i]) = ToolKey(j, w) THEN 1 ELSE 0)
  <2>1. CASE j # i
    BY <1>4, <2>1 DEF Asked
  <2>2. CASE j = i
    <3>1. use[i] = w <=> ToolKey(i, use[i]) = ToolKey(j, w)
      BY <2>2, KeysDiffer
    <3>2. use'[i] = use[i]
      BY <1>2
    <3> QED
      BY <1>3, <2>2, <3>1, <3>2 DEF Asked
  <2> QED
    BY <2>1, <2>2
<1>7. traffic' \in [Processes -> 0 .. MaxTraffic]
  BY <1>2 DEF TallyInv, TallyType
<1> DEFINE k == ToolKey(i, use[i])
<1>8. Counted(home[i], k)
  BY <1>1
<1>9. \A j \in Requests, w \in Writes : Asked(j, w)' <= Asked(j, w) + (IF k = ToolKey(j, w) THEN 1 ELSE 0)
  BY <1>6
<1> HIDE DEF k
<1> QED
  BY <1>1, <1>2, <1>5, <1>7, <1>8, <1>9, CountOnly

\* A write is carried out after it was counted twice, a read after once.
LEMMA RunTally ==
  ASSUME EveryCounterFits, OneProcess, TallyInv, TypeInv', NEW i \in Requests, RunTool(i)
  PROVE  TallyInv'
<1> DEFINE u == use[i]
           k == ToolKey(i, u)
           n == Repeats(i)
<1>1. Counted(home[i], k) /\ home[i] \in Processes
  BY ToolCounted
<1>2. /\ UNCHANGED <<use, home, traffic, modelCalls>>
      /\ phase' = [phase EXCEPT ![i] = "turn"]
      /\ confirmed' = [confirmed EXCEPT ![i] = "unasked"]
      /\ u \in Reads \/ (u \in Writes /\ confirmed[i] = "yes")
      /\ runs' = [runs EXCEPT ![i][u] = IF @ > MaxRepeats THEN @ ELSE @ + 1]
      /\ n <= MaxRepeats
  BY DEF RunTool, Goto, AllowsTool
<1>3. n = Counter(i, k) + 1
  BY DEF Repeats, Counter, ToolKey
<1>4. ASSUME NEW j \in Requests, j # i
      PROVE  /\ phase'[j] = phase[j] /\ confirmed'[j] = confirmed[j] /\ use'[j] = use[j]
             /\ runs'[j] = runs[j]
  BY <1>2, <1>4 DEF TallyInv, TypeInv, TallyType
<1>5. /\ runs'[i] \in [Reads \cup Writes -> Nat] /\ runs' \in [Requests -> [Reads \cup Writes -> Nat]]
      /\ \A m \in Reads \cup Writes : m # u => runs'[i][m] = runs[i][m]
      /\ runs'[i][u] \in {runs[i][u], runs[i][u] + 1}
  <2>1. runs[i] \in [Reads \cup Writes -> Nat] /\ runs \in [Requests -> [Reads \cup Writes -> Nat]]
    BY DEF TallyInv, TallyType
  <2>2. runs'[i] = [runs[i] EXCEPT ![u] = IF @ > MaxRepeats THEN @ ELSE @ + 1]
    BY <1>2, <2>1
  <2>3. u \in Reads \cup Writes
    BY <1>2
  <2> HIDE DEF u
  <2>4. runs'[i] \in [Reads \cup Writes -> Nat]
    BY <2>1, <2>2, <2>3
  <2> QED
    BY <1>2, <2>1, <2>2, <2>3, <2>4
<1> HIDE DEF k, n, u
<1>6. confirmed'[i] = "unasked" /\ phase'[i] = "turn" /\ use'[i] = use[i]
  BY <1>2 DEF TallyInv, TypeInv
<1>7. \A j \in Requests : AskedInv(j)'
  BY <1>4, <1>6 DEF AskedInv, TallyInv
<1>8. TallyType'
  <2>1. /\ counts' \in [Processes -> Seq(Entry)]
        /\ \A q \in Processes : Dictionary(counts'[q])
    BY <1>1, CountedType
  <2> QED
    BY <1>2, <1>5, <2>1 DEF TallyInv, TallyType
<1>9. ASSUME NEW j \in Requests, NEW m
      PROVE  /\ Counter(j, m) \in Nat
             /\ Counter(j, m)' = Counter(j, m) + (IF m = k THEN 1 ELSE 0)
  BY <1>1, CountedKeys
<1>10. ASSUME NEW j \in Requests
       PROVE  CallsTally(j)'
  <2>1. CallsTally(j) /\ modelCalls[j] \in Nat /\ modelCalls' = modelCalls
    BY <1>2 DEF TallyInv, TallyType
  <2>2. /\ Counter(j, ModelKey(j)) \in Nat
        /\ Counter(j, ModelKey(j))' = Counter(j, ModelKey(j)) + (IF ModelKey(j) = k THEN 1 ELSE 0)
    BY <1>9 DEF ModelKey
  <2>3. MaxModelCalls \in Nat
    BY LimitsAssumption
  <2> QED
    BY <2>1, <2>2, <2>3 DEF CallsTally, ModelKey
<1>11. ASSUME NEW j \in Requests
       PROVE  RunsTally(j)'
  <2>1. RunsTally(j) /\ runs[j] \in [Reads \cup Writes -> Nat] /\ MaxRepeats \in Nat
    BY LimitsAssumption DEF TallyInv, TallyType
  <2>2. ASSUME NEW m
        PROVE  /\ Counter(j, ToolKey(j, m)) \in Nat
               /\ Counter(j, ToolKey(j, m))' = Counter(j, ToolKey(j, m)) + (IF ToolKey(j, m) = k THEN 1 ELSE 0)
    BY <1>9 DEF ToolKey
  <2>3. ASSUME NEW m \in Reads \cup Writes, ~(j = i /\ m = u)
        PROVE  runs'[j][m] = runs[j][m]
    BY <1>4, <1>5, <2>3
  <2>4. ASSUME NEW m \in Reads
        PROVE  runs'[j][m] <= Counter(j, ToolKey(j, m))' /\ runs'[j][m] <= MaxRepeats
    <3>1. runs[j][m] \in Nat /\ runs[j][m] <= Counter(j, ToolKey(j, m)) /\ runs[j][m] <= MaxRepeats
      BY <2>1 DEF RunsTally
    <3>2. CASE j = i /\ m = u
      <4>1. ToolKey(j, m) = k
        BY <3>2 DEF k
      <4> QED
        BY <1>2, <1>3, <1>5, <2>1, <2>2, <3>1, <3>2, <4>1
    <3>3. CASE ~(j = i /\ m = u)
      BY <2>2, <2>3, <3>1, <3>3
    <3> QED
      BY <3>2, <3>3
  <2>5. ASSUME NEW m \in Writes
        PROVE  /\ 2 * runs'[j][m] + Asked(j, m)' <= Counter(j, ToolKey(j, m))'
               /\ 2 * runs'[j][m] <= MaxRepeats
    <3>1. /\ runs[j][m] \in Nat /\ 2 * runs[j][m] + Asked(j, m) <= Counter(j, ToolKey(j, m))
          /\ 2 * runs[j][m] <= MaxRepeats
      BY <2>1 DEF RunsTally
    <3>2. CASE j = i /\ m = u
      <4>1. ToolKey(j, m) = k
        BY <3>2 DEF k
      <4>2. u \notin Reads /\ confirmed[i] = "yes"
        BY <1>2, <3>2, NamesAssumption
      <4>3. Asked(j, m) = 1 /\ Asked(j, m)' = 0
        BY <1>6, <3>2, <4>2 DEF Asked, u
      <4>4. 2 * runs[j][m] + 2 <= n /\ Counter(j, ToolKey(j, m))' = n
        <5> DEFINE r == runs[j][m]
                   c == Counter(j, ToolKey(j, m))
                   d == Counter(j, ToolKey(j, m))'
        <5>1. c \in Nat /\ d = c + (IF ToolKey(j, m) = k THEN 1 ELSE 0)
          BY <2>2
        <5>2. n = c + 1
          BY <1>3, <3>2, <4>1
        <5>3. r \in Nat /\ 2 * r + 1 <= c
          BY <3>1, <4>3
        <5> HIDE DEF r, c, d
        <5>4. 2 * r + 2 <= n /\ d = n
          BY <4>1, <5>1, <5>2, <5>3
        <5> QED
          BY <5>4 DEF r, d
      <4>5. runs'[j][m] \in Nat /\ runs'[j][m] <= runs[j][m] + 1
        BY <1>5, <3>1, <3>2
      <4>6. n \in Nat
        BY <1>3, <2>2, <3>2, <4>1
      <4> QED
        BY <1>2, <2>1, <3>1, <4>3, <4>4, <4>5, <4>6
    <3>3. CASE ~(j = i /\ m = u)
      <4>1. runs'[j][m] = runs[j][m]
        BY <2>3, <3>3
      <4>2. Asked(j, m)' \in {0, Asked(j, m)} /\ Asked(j, m) \in Nat
        BY <1>4, <1>6 DEF Asked
      <4>3. /\ Counter(j, ToolKey(j, m)) \in Nat
            /\ Counter(j, ToolKey(j, m))' = Counter(j, ToolKey(j, m)) + (IF ToolKey(j, m) = k THEN 1 ELSE 0)
        BY <2>2
      <4> QED
        BY <3>1, <4>1, <4>2, <4>3
    <3> QED
      BY <3>2, <3>3
  <2> QED
    BY <2>4, <2>5 DEF RunsTally
<1> QED
  BY <1>7, <1>8, <1>10, <1>11 DEF TallyInv

\* Steps between the calls.
LEMMA OtherTally ==
  ASSUME TallyInv, TypeInv', NEW i \in Requests,
         \/ Start(i) \/ EndedByMarker(i) \/ AskTool(i) \/ Reply(i)
         \/ \E p \in Processes, yes \in BOOLEAN : home[i] = p /\ Resume(i, p, yes)
  PROVE  TallyInv'
<1>1. UNCHANGED <<counts, traffic, modelCalls, runs>>
  BY DEF Start, EndedByMarker, AskTool, Reply, Resume
<1>2. home' = home
  BY DEF Start, EndedByMarker, AskTool, Reply, Resume, TallyInv, TypeInv
<1>3. CASE Start(i) \/ EndedByMarker(i) \/ AskTool(i) \/ Reply(i)
  <2>1. /\ phase[i] \in {"new", "turn", "thinking"} /\ confirmed' = confirmed
        /\ \E ph \in {"turn", "calling", "done"} : phase' = [phase EXCEPT ![i] = ph]
        /\ \/ use' = use /\ phase'[i] # "calling"
           \/ \E u \in ToolCalls : use' = [use EXCEPT ![i] = u]
    <3>1. Offered(agent[i]) \subseteq ToolCalls
      BY NamesAssumption DEF Offered, ToolCalls, HandBacks
    <3>2. CASE Start(i) \/ AskTool(i) \/ Reply(i)
      BY <3>1, <3>2 DEF Start, AskTool, Reply, Goto, TallyInv, TypeInv
    <3>3. CASE EndedByMarker(i)
      BY <3>3 DEF EndedByMarker, Terminate, Goto, ToolCalls, HandBacks, TallyInv, TypeInv
    <3> QED
      BY <1>3, <3>2, <3>3
  <2>2. confirmed[i] = "unasked"
    BY <2>1 DEF TallyInv, TypeInv, AskedInv
  <2>3. phase'[i] \in {"turn", "calling", "done"} /\ confirmed'[i] = "unasked"
    BY <2>1, <2>2 DEF TallyInv, TypeInv
  <2>4. ASSUME NEW j \in Requests, j # i
        PROVE  phase'[j] = phase[j] /\ confirmed'[j] = confirmed[j] /\ use'[j] = use[j]
    BY <2>1, <2>4 DEF TallyInv, TypeInv
  <2>7. phase'[i] = "calling" => use'[i] \in ToolCalls
    BY <2>1 DEF TallyInv, TypeInv
  <2>5. \A j \in Requests : AskedInv(j)'
    BY <2>3, <2>4, <2>7 DEF AskedInv, TallyInv
  <2>6. \A j \in Requests, w \in Writes : Asked(j, w)' <= Asked(j, w)
    BY <2>3, <2>4 DEF Asked
  <2> QED
    BY <1>1, <1>2, <2>5, <2>6, CountNothing
<1>4. CASE \E p \in Processes, yes \in BOOLEAN : home[i] = p /\ Resume(i, p, yes)
  <2>1. /\ phase[i] = "paused" /\ phase' = [phase EXCEPT ![i] = "calling"] /\ use' = use
        /\ \E a \in {"yes", "no"} : confirmed' = [confirmed EXCEPT ![i] = a]
    BY <1>4 DEF Resume, Goto
  <2>2. phase'[i] = "calling" /\ use[i] \in Writes
    BY <2>1 DEF TallyInv, TypeInv, AskedInv
  <2>3. ASSUME NEW j \in Requests, j # i
        PROVE  phase'[j] = phase[j] /\ confirmed'[j] = confirmed[j]
    BY <2>1, <2>3 DEF TallyInv, TypeInv
  <2>4. \A j \in Requests : AskedInv(j)'
    BY <2>1, <2>2, <2>3 DEF AskedInv, TallyInv, ToolCalls
  <2>5. \A j \in Requests, w \in Writes : Asked(j, w)' <= Asked(j, w)
    BY <2>1, <2>3 DEF Asked
  <2> QED
    BY <1>1, <1>2, <2>4, <2>5, CountNothing
<1> QED
  BY <1>3, <1>4

LEMMA TrafficTally ==
  ASSUME EveryCounterFits, OneProcess, TallyInv, TypeInv', NEW p \in Processes, OtherTraffic(p)
  PROVE  TallyInv'
<1> DEFINE k == <<"other", traffic[p]>>
<1>1. traffic[p] \in 0 .. MaxTraffic - 1 /\ MaxTraffic \in Nat
  BY LimitsAssumption DEF OtherTraffic, TallyInv, TallyType
<1>2. Counted(p, k)
  <2>1. k \in {<<"other", n>> : n \in 0 .. MaxTraffic - 1}
    BY <1>1
  <2>2. k \in AllKeys
    BY <2>1 DEF AllKeys
  <2> QED
    BY <2>2 DEF OtherTraffic, Bump, Counted
<1>3. traffic' \in [Processes -> 0 .. MaxTraffic]
  BY <1>1 DEF OtherTraffic, TallyInv, TallyType
<1>4. UNCHANGED <<phase, use, home, confirmed, modelCalls, runs>>
  BY DEF OtherTraffic
<1>5. \A j \in Requests : AskedInv(j)'
  BY <1>4 DEF AskedInv, TallyInv
<1>6. \A j \in Requests, w \in Writes : Asked(j, w)' <= Asked(j, w) + (IF k = ToolKey(j, w) THEN 1 ELSE 0)
  BY <1>4 DEF Asked
<1> HIDE DEF k
<1> QED
  BY <1>2, <1>3, <1>4, <1>5, <1>6, CountOnly

LEMMA IdleTally ==
  ASSUME TallyInv, UNCHANGED vars
  PROVE  TallyInv'
BY DEF TallyInv, TypeInv, TallyType, CallsTally, RunsTally, AskedInv, Counter, ModelKey, ToolKey, Asked, vars, markers

LEMMA InitTally == Init => TallyInv
<1> SUFFICES ASSUME Init PROVE TallyInv
  OBVIOUS
<1>1. TypeInv
  BY InitAccount DEF AccountInv
<1>2. TallyType
  <2>1. Dictionary(<<>>)
    BY DEF Dictionary
  <2> QED
    BY <2>1, LimitsAssumption DEF Init, TallyType, Dictionary
<1>3. ASSUME NEW i \in Requests
      PROVE  CallsTally(i) /\ RunsTally(i) /\ AskedInv(i)
  <2>1. \A m : Counter(i, m) = 0
    BY CountAbsent, <1>1 DEF Init, Counter, TypeInv
  <2>2. \A w \in Writes : Asked(i, w) = 0
    BY DEF Init, Asked
  <2> QED
    BY <2>1, <2>2, LimitsAssumption DEF Init, CallsTally, RunsTally, AskedInv
<1> QED
  BY <1>1, <1>2, <1>3 DEF TallyInv

LEMMA NextTally ==
  ASSUME EveryCounterFits, OneProcess
  PROVE  AccountInv /\ AccountInv' /\ TallyInv /\ [Next]_vars => TallyInv'
<1> SUFFICES ASSUME AccountInv, TypeInv', TallyInv, [Next]_vars PROVE TallyInv'
  BY DEF AccountInv
<1>1. ASSUME NEW i \in Requests, Work(i)
      PROVE  TallyInv'
  BY <1>1, ModelTally, OtherTally, ToolTally, RunTally DEF Work
<1>2. ASSUME NEW i \in Requests, NEW p \in Processes, NEW yes \in BOOLEAN, Resume(i, p, yes)
      PROVE  TallyInv'
  <2>1. home[i] = p
    BY DEF OneProcess, TallyInv, TypeInv
  <2> QED
    BY <1>2, <2>1, OtherTally
<1> QED
  BY <1>1, <1>2, OtherTally, TrafficTally, IdleTally DEF Next

\* While one process serves the session and no counter is dropped, the guard keeps
\* exact count of model calls and executions.
THEOREM TallyInvariance ==
  ASSUME EveryCounterFits, OneProcess
  PROVE  Spec => []TallyInv
<1>1. Init => TallyInv
  BY InitTally
<1>2. AccountInv /\ AccountInv' /\ TallyInv /\ [Next]_vars => TallyInv'
  BY NextTally
<1> QED
  BY <1>1, <1>2, AccountInvariance, PTL DEF Spec

\* plugins.py "at most max_model_calls model calls per invocation", for requests
\* of one session in one process that keeps their counters.
THEOREM ModelLimit ==
  ASSUME EveryCounterFits, OneProcess
  PROVE  Spec => []ModelCallsBounded
<1>1. TallyInv => ModelCallsBounded
  BY DEF TallyInv, CallsTally, ModelCallsBounded
<1> QED
  BY <1>1, TallyInvariance, PTL

\* The same call runs at most max_repeats times, a confirmed one half as often.
THEOREM RepeatLimit ==
  ASSUME EveryCounterFits, OneProcess
  PROVE  Spec => []RepeatsBounded
<1>1. TallyInv => RepeatsBounded
  BY DEF TallyInv, RunsTally, RepeatsBounded
<1> QED
  BY <1>1, TallyInvariance, PTL
=============================================================================
