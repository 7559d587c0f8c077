------------------------- MODULE Deployment_proofs --------------------------
(***************************************************************************)
(* Proofs about Release, for any builds, commits, revisions, percentages   *)
(* and settings, and commands that stop after any of their calls, and      *)
(* about Provision, for any operators, apps and failures.                  *)
(*                                                                         *)
(* Both invariants say what somebody in the middle of something may rely   *)
(* on.  In a release it is what was read: a deploy relies on the revisions *)
(* it counted, a traffic command on the split and on the age of the        *)
(* revisions it chose.  In a script it is what was done: the calls behind  *)
(* a run have left their resources, whoever made them.                     *)
(***************************************************************************)
EXTENDS Release, Provision, FiniteSetTheorems, TLAPS

(* ------------------------------- Release -------------------------------- *)

DeployOps == [cmd : {"deploy"}, at : Engines \cup {None}, code : Commits, sha : Commits,
              before : SUBSET Nat, stage : {"create", "read", "bind", "update", "record"}]
ReadOps == [cmd : {"promote"}, at : Engines, target : Nat, percent : Percents,
            revs : SUBSET Nat, stage : {"read"}]
SetOps == [cmd : {"promote"}, at : Engines, target : Nat,
           split : [Revisions -> Nat], stage : {"set", "assert"}]
          \cup [cmd : {"rollback"}, at : Engines, target : Nat, sha : Commits \cup {None},
                split : [Revisions -> Nat], stage : {"set", "assert"}]
ListOps == [cmd : {"prune"}, at : Engines, used : SUBSET Nat, same : BOOLEAN, stage : {"list"}]
DeleteOps == [cmd : {"prune"}, at : Engines, todo : SUBSET Nat, same : BOOLEAN, stage : {"delete"}]
TeardownOps == [cmd : {"teardown"}, at : Engines \cup {None}, stage : {"delete", "unlink"}]
TrafficOps == ReadOps \cup SetOps \cup ListOps \cup DeleteOps \cup TeardownOps
Ops == {Idle} \cup DeployOps \cup TrafficOps

ReleaseTypeOK ==
  /\ engine \in [Engines -> EngineState \cup {None}]
  /\ op \in [Builds -> Ops]

RecordOK == record = None \/ record \in [revision : Nat, sha : Commits \cup {None}]

\* The operator's rule.
Alone ==
  \A b, c \in Builds :
    /\ op[b].cmd = "deploy" /\ op[c].cmd = "deploy" => b = c
    /\ op[b].cmd \in Traffic /\ op[c].cmd \in Traffic => b = c

\* The newest revision of an engine is never one of those that were deleted.
EngineInv ==
  \A e \in Labelled :
    /\ Len(engine[e].revs) <= MaxRevisions
    /\ \A r \in engine[e].gone : r \in 1 .. Len(engine[e].revs) - 1

Shared(e) == {r \in Revisions : engine[e].share[r] > 0}

\* What a deploy has read.  Its engine may be torn down meanwhile.
DeployInv(b) ==
  LET o == op[b] IN
  o.cmd = "deploy" =>
    /\ o.stage = "create" => Labelled = {} /\ o.before = {}
    /\ o.stage # "create" => o.at \in Engines
    /\ Strict => o.code = o.sha
    /\ o.stage \in {"bind", "update"} /\ engine[o.at] # None =>
         o.before \subseteq 1 .. Len(engine[o.at].revs)
    /\ o.stage = "record" /\ engine[o.at] # None =>
         /\ Len(engine[o.at].revs) > 0
         /\ Len(engine[o.at].revs) \notin o.before
         /\ engine[o.at].revs[Len(engine[o.at].revs)] = o.code

\* The rest of a split goes to the largest of the other shares, if there is one.
KeepsLargest(e, t, split) ==
  Shared(e) \ {t} # {} =>
    \A r \in Revisions : split[r] > 0 /\ r # t =>
      /\ r \in Shared(e)
      /\ \A q \in Shared(e) \ {t} : engine[e].share[q] <= engine[e].share[r]

Newer(e, r) == {q \in Alive(e) : q > r}

\* What a traffic command has read of an engine that only it can tear down.
TrafficInv(b) ==
  LET o == op[b] IN
  /\ o \in ReadOps \cup SetOps \cup ListOps \cup DeleteOps => engine[o.at] # None
  /\ o \in SetOps /\ o.stage = "set" /\ engine[o.at].mode = "manual" =>
       KeepsLargest(o.at, o.target, o.split)
  /\ o \in ListOps /\ o.same /\ engine[o.at].mode = "manual" => o.used = Shared(o.at)
  /\ o \in DeleteOps => \A r \in o.todo :
       /\ r \in 1 .. Len(engine[o.at].revs) - 1
       /\ o.same /\ engine[o.at].mode = "manual" => r \notin Shared(o.at)
       /\ Cardinality(Newer(o.at, r)) >= Keep

ReleaseInv ==
  /\ ReleaseTypeOK /\ Alone /\ OneEngine /\ EngineInv
  /\ \A b \in Builds : DeployInv(b) /\ TrafficInv(b)

-----------------------------------------------------------------------------
(* Facts about operations, engines and revisions.                          *)

LEMMA OpKinds ==
  ASSUME NEW o \in Ops
  PROVE  /\ o.cmd = "deploy" => o \in DeployOps
         /\ o.cmd = "promote" /\ o.stage = "read" => o \in ReadOps
         /\ o.cmd \in {"promote", "rollback"} /\ o.stage # "read" => o \in SetOps
         /\ o.cmd = "rollback" => o \in SetOps
         /\ o.cmd = "prune" /\ o.stage = "list" => o \in ListOps
         /\ o.cmd = "prune" /\ o.stage = "delete" => o \in DeleteOps
         /\ o.cmd = "teardown" => o \in TeardownOps
         /\ o.cmd \in Traffic <=> o \in TrafficOps
         /\ o \in DeployOps => o.cmd = "deploy"
  BY DEF Ops, TrafficOps, DeployOps, ReadOps, SetOps, ListOps, DeleteOps, TeardownOps, Idle, Traffic

LEMMA EngineIsState ==
  ASSUME ReleaseTypeOK, NEW e \in Engines, engine[e] # None
  PROVE  /\ engine[e] \in EngineState
         /\ Len(engine[e].revs) \in Nat
         /\ Alive(e) \subseteq 1 .. Len(engine[e].revs)
  BY DEF ReleaseTypeOK, EngineState, Alive

LEMMA Bounds == MaxRevisions \in Nat /\ MaxRevisions >= 1 /\ Keep \in Nat /\ Keep >= 1
  BY ReleaseAssumption

LEMMA StateIsNotNone == \A s \in EngineState : s # None
  BY ReleaseAssumption

\* Lookup finds the one engine there is, or None when there is none.
LEMMA LookupOne ==
  ASSUME NEW e \in Engines \cup {None}, Lookup(e)
  PROVE  /\ e \in Engines => e \in Labelled
         /\ e = None => Labelled = {}
  BY ReleaseAssumption DEF Lookup, Labelled

LEMMA NewestIsLargest ==
  ASSUME NEW n \in Nat, NEW rs \in SUBSET (1 .. n), n \in rs
  PROVE  Newest(rs) = n
  <1>1. \A r \in rs : r \in Nat /\ r <= n
    OBVIOUS
  <1>2. \A r \in rs : (\A q \in rs : q <= r) => r = n
    BY <1>1
  <1> QED
    BY <1>1, <1>2 DEF Newest

\* The newest revision is alive, and it is the one that counts as newest.
LEMMA NewestAlive ==
  ASSUME ReleaseTypeOK, EngineInv, NEW e \in Labelled, Len(engine[e].revs) > 0
  PROVE  /\ Len(engine[e].revs) \in Alive(e)
         /\ Newest(Alive(e)) = Len(engine[e].revs)
  <1> DEFINE n == Len(engine[e].revs)
  <1>1. e \in Engines /\ engine[e] # None /\ n \in Nat /\ Alive(e) \subseteq 1 .. n
    BY EngineIsState DEF Labelled
  <1>2. n \in Alive(e)
    BY <1>1 DEF EngineInv, Alive
  <1> QED
    BY <1>1, <1>2, NewestIsLargest

LEMMA UpToFinite == \A n \in Nat : IsFiniteSet(1 .. n)
  BY FS_Interval

LEMMA NewerFinite ==
  ASSUME ReleaseTypeOK, NEW e \in Labelled, NEW r \in Nat
  PROVE  IsFiniteSet(Newer(e, r))
  <1>1. IsFiniteSet(1 .. Len(engine[e].revs))
    BY EngineIsState, UpToFinite DEF Labelled
  <1>2. Newer(e, r) \subseteq 1 .. Len(engine[e].revs)
    BY EngineIsState DEF Newer, Labelled
  <1> QED
    BY <1>1, <1>2, FS_Subset

-----------------------------------------------------------------------------
(* What a step of one build leaves true of the others.                     *)

\* A build that is idle, or back from its command, has read nothing.
LEMMA IdleInv ==
  ASSUME NEW b \in Builds, op'[b] = Idle
  PROVE  DeployInv(b)' /\ TrafficInv(b)'
  BY DEF DeployInv, TrafficInv, Idle, ReadOps, SetOps, ListOps, DeleteOps

\* A deploy does not mind what a traffic command does to shares and revisions.
LEMMA DeployFrame ==
  ASSUME NEW c \in Builds, op'[c] = op[c], DeployInv(c),
         \A e \in Engines : engine'[e] # None =>
           engine[e] # None /\ engine'[e].revs = engine[e].revs
  PROVE  DeployInv(c)'
  <1>1. Labelled' \subseteq Labelled
    BY DEF Labelled
  <1>2. op[c].cmd = "deploy" /\ op[c].stage # "create" => op[c].at \in Engines
    BY DEF DeployInv
  <1> QED
    BY <1>1, <1>2 DEF DeployInv

\* A traffic command does not mind that a deploy adds a revision or an engine.
LEMMA TrafficFrame ==
  ASSUME ReleaseTypeOK, ReleaseTypeOK', NEW c \in Builds, op'[c] = op[c], TrafficInv(c),
         \A e \in Labelled :
           /\ engine'[e] # None
           /\ Len(engine[e].revs) <= Len(engine'[e].revs)
           /\ engine'[e].gone = engine[e].gone
           /\ engine'[e].mode = "manual" =>
                engine[e].mode = "manual" /\ engine'[e].share = engine[e].share
  PROVE  TrafficInv(c)'
  <1> DEFINE o == op[c]
             e == o.at
  <1>1. o \in ReadOps \cup SetOps \cup ListOps \cup DeleteOps => e \in Labelled
    BY DEF TrafficInv, Labelled, ReadOps, SetOps, ListOps, DeleteOps
  <1>2. (o \in ReadOps \cup SetOps \cup ListOps \cup DeleteOps => engine[e] # None)'
    BY <1>1
  <1>3. ASSUME o \in SetOps, o.stage = "set", engine'[e].mode = "manual"
        PROVE  KeepsLargest(e, o.target, o.split)'
    BY <1>1, <1>3 DEF TrafficInv, KeepsLargest, Shared
  <1>4. ASSUME o \in ListOps, o.same, engine'[e].mode = "manual"
        PROVE  o.used = Shared(e)'
    BY <1>1, <1>4 DEF TrafficInv, Shared
  <1>5. ASSUME o \in DeleteOps, NEW r \in o.todo
        PROVE  /\ r \in 1 .. Len(engine'[e].revs) - 1
               /\ o.same /\ engine'[e].mode = "manual" => r \notin Shared(e)'
               /\ Cardinality(Newer(e, r)') >= Keep
    <2>1. /\ e \in Engines /\ engine[e] # None /\ engine'[e] # None
          /\ Len(engine[e].revs) \in Nat /\ Len(engine'[e].revs) \in Nat
      BY <1>1, <1>5 DEF Labelled, ReleaseTypeOK, EngineState
    <2>2. r \in 1 .. Len(engine[e].revs) - 1 /\ Cardinality(Newer(e, r)) >= Keep
      BY <1>5 DEF TrafficInv
    <2>3. r \in 1 .. Len(engine'[e].revs) - 1
      BY <1>1, <1>5, <2>1, <2>2
    <2>4. o.same /\ engine'[e].mode = "manual" => r \notin Shared(e)'
      BY <1>1, <1>5 DEF TrafficInv, Shared
    <2>5. IsFiniteSet(Newer(e, r)') /\ Newer(e, r) \subseteq Newer(e, r)'
      <3>1. IsFiniteSet(1 .. Len(engine'[e].revs))
        BY <2>1, UpToFinite
      <3>2. Newer(e, r)' \subseteq 1 .. Len(engine'[e].revs)
        BY DEF Newer, Alive
      <3>3. Newer(e, r) \subseteq Newer(e, r)'
        BY <1>1, <1>5, <2>1 DEF Newer, Alive
      <3> QED
        BY <3>1, <3>2, <3>3, FS_Subset
    <2>6. Cardinality(Newer(e, r)) <= Cardinality(Newer(e, r)')
          /\ Cardinality(Newer(e, r)) \in Nat /\ Cardinality(Newer(e, r)') \in Nat
      BY <2>5, FS_Subset, FS_CardinalityType
    <2> QED
      BY <2>2, <2>3, <2>4, <2>6, ReleaseAssumption
  <1> QED
    BY <1>2, <1>3, <1>4, <1>5 DEF TrafficInv

\* A build that does not run a traffic command has nothing to lose.
LEMMA NoTraffic ==
  ASSUME NEW c \in Builds, op'[c] = op[c], op[c].cmd \notin Traffic
  PROVE  TrafficInv(c)'
  BY DEF TrafficInv, Traffic, ReadOps, SetOps, ListOps, DeleteOps

LEMMA NoDeploy ==
  ASSUME NEW c \in Builds, op'[c] = op[c], op[c].cmd # "deploy"
  PROVE  DeployInv(c)'
  BY DEF DeployInv

\* The parts of the invariant a step of build b has to be checked against.
LEMMA BuildStep ==
  ASSUME ReleaseInv, NEW b \in Builds, NEW o \in Ops, op' = [op EXCEPT ![b] = o],
         engine' \in [Engines -> EngineState \cup {None}],
         OneEngine', EngineInv', DeployInv(b)', TrafficInv(b)',
         \A c \in Builds \ {b} :
           /\ o.cmd = "deploy" => op[c].cmd # "deploy"
           /\ o.cmd \in Traffic => op[c].cmd \notin Traffic
           /\ DeployInv(c)' /\ TrafficInv(c)'
  PROVE  ReleaseInv'
  <1>1. /\ op'[b] = o
        /\ \A c \in Builds \ {b} : op'[c] = op[c]
    BY DEF ReleaseInv, ReleaseTypeOK
  <1>2. ReleaseTypeOK'
    BY DEF ReleaseInv, ReleaseTypeOK
  <1>3. Alone'
    BY <1>1 DEF ReleaseInv, Alone
  <1> QED
    BY <1>2, <1>3 DEF ReleaseInv

\* A step that only moves a command of b on, and leaves the engines alone.
LEMMA OpStep ==
  ASSUME ReleaseInv, NEW b \in Builds, NEW o \in Ops, op' = [op EXCEPT ![b] = o],
         engine' = engine,
         o.cmd = "deploy" => op[b].cmd = "deploy" \/ Doing({"deploy"}) = {},
         o.cmd \in Traffic => op[b].cmd \in Traffic \/ Doing(Traffic) = {},
         DeployInv(b)', TrafficInv(b)'
  PROVE  ReleaseInv'
  <1>1. engine' \in [Engines -> EngineState \cup {None}] /\ ReleaseTypeOK'
    BY DEF ReleaseInv, ReleaseTypeOK
  <1>2. OneEngine' /\ EngineInv'
    BY DEF ReleaseInv, OneEngine, EngineInv, Labelled
  <1>3. ASSUME NEW c \in Builds \ {b}
        PROVE  /\ o.cmd = "deploy" => op[c].cmd # "deploy"
               /\ o.cmd \in Traffic => op[c].cmd \notin Traffic
               /\ DeployInv(c)' /\ TrafficInv(c)'
    <2>1. op'[c] = op[c]
      BY DEF ReleaseInv, ReleaseTypeOK
    <2>2. /\ o.cmd = "deploy" => op[c].cmd # "deploy"
          /\ o.cmd \in Traffic => op[c].cmd \notin Traffic
      BY DEF ReleaseInv, Alone, Doing
    <2>3. DeployInv(c)'
      BY <2>1, DeployFrame DEF ReleaseInv
    <2>4. \A e \in Labelled : engine[e] \in EngineState /\ Len(engine[e].revs) \in Nat
      BY EngineIsState DEF ReleaseInv, Labelled
    <2>5. TrafficInv(c)'
      BY <1>1, <2>1, <2>4, TrafficFrame DEF ReleaseInv, Labelled
    <2> QED
      BY <2>2, <2>3, <2>5
  <1> QED
    BY <1>1, <1>2, <1>3, BuildStep

\* The platform changes what it stores of an engine, and of no other.
LEMMA EngineStep ==
  ASSUME ReleaseInv, NEW e \in Labelled, NEW s \in EngineState, engine' = [engine EXCEPT ![e] = s]
  PROVE  /\ engine' \in [Engines -> EngineState \cup {None}]
         /\ engine'[e] = s /\ s # None
         /\ \A f \in Engines \ {e} : engine'[f] = engine[f]
         /\ Labelled' = Labelled /\ Labelled = {e}
         /\ OneEngine'
  <1>1. e \in Engines /\ engine[e] # None /\ s # None
    BY StateIsNotNone DEF Labelled
  <1>2. engine' \in [Engines -> EngineState \cup {None}]
    BY <1>1 DEF ReleaseInv, ReleaseTypeOK
  <1>3. engine'[e] = s /\ \A f \in Engines \ {e} : engine'[f] = engine[f]
    BY <1>1 DEF ReleaseInv, ReleaseTypeOK
  <1>4. Labelled' = Labelled /\ Labelled = {e}
    BY <1>1, <1>3 DEF Labelled, ReleaseInv, OneEngine
  <1> QED
    BY <1>1, <1>2, <1>3, <1>4 DEF OneEngine

-----------------------------------------------------------------------------
(* deploy.py keeps the invariant.                                          *)

LEMMA StartDeployKeeps ==
  ASSUME ReleaseInv, NEW b \in Builds, NEW c \in Commits, NEW r \in Commits, StartDeploy(b, c, r)
  PROVE  ReleaseInv'
  <1>1. PICK e \in Engines \cup {None} :
          /\ Lookup(e)
          /\ Continue(b, [cmd |-> "deploy", at |-> e, code |-> c, sha |-> r, before |-> {},
                          stage |-> IF e = None THEN "create" ELSE "read"])
    BY DEF StartDeploy
  <1> DEFINE o == [cmd |-> "deploy", at |-> e, code |-> c, sha |-> r, before |-> {},
                   stage |-> IF e = None THEN "create" ELSE "read"]
  <1>2. o \in DeployOps /\ o \in Ops /\ o.cmd = "deploy" /\ o.cmd \notin Traffic
    BY DEF DeployOps, Ops, Traffic
  <1>3. op' = [op EXCEPT ![b] = o] /\ op'[b] = o /\ engine' = engine
    BY <1>1 DEF Continue, StartDeploy, ReleaseInv, ReleaseTypeOK
  <1>4. Labelled' = Labelled /\ (e = None => Labelled = {})
    BY <1>1, <1>3, LookupOne DEF Labelled
  <1>5. DeployInv(b)'
    BY <1>3, <1>4 DEF DeployInv, StartDeploy, VerifyRelease
  <1>6. TrafficInv(b)'
    BY <1>2, <1>3 DEF TrafficInv, DeployOps, ReadOps, SetOps, ListOps, DeleteOps
  <1> QED
    BY <1>2, <1>3, <1>5, <1>6, OpStep DEF StartDeploy

\* A deploy that moves on is still the only one, and no traffic command.
LEMMA DeployStep ==
  ASSUME ReleaseInv, NEW b \in Builds, NEW o \in DeployOps, op[b].cmd = "deploy",
         op' = [op EXCEPT ![b] = o]
  PROVE  /\ o \in Ops /\ o.cmd = "deploy" /\ o.cmd \notin Traffic
         /\ op'[b] = o /\ op[b] \in DeployOps
         /\ TrafficInv(b)'
         /\ \A c \in Builds \ {b} : op'[c] = op[c] /\ op[c].cmd # "deploy" /\ DeployInv(c)'
  <1>1. /\ o \in Ops /\ o.cmd = "deploy" /\ o.cmd \notin Traffic
    BY DEF DeployOps, Ops, Traffic
  <1>2. op'[b] = o /\ op[b] \in DeployOps
    BY OpKinds DEF ReleaseInv, ReleaseTypeOK
  <1>3. TrafficInv(b)'
    BY <1>1, <1>2 DEF TrafficInv, ReadOps, SetOps, ListOps, DeleteOps
  <1>4. \A c \in Builds \ {b} : op'[c] = op[c] /\ op[c].cmd # "deploy"
    BY DEF ReleaseInv, ReleaseTypeOK, Alone
  <1> QED
    BY <1>1, <1>2, <1>3, <1>4, NoDeploy

LEMMA ReadBeforeKeeps ==
  ASSUME ReleaseInv, NEW b \in Builds, ReadBefore(b)
  PROVE  ReleaseInv'
  <1> DEFINE e == op[b].at
             o == [op[b] EXCEPT !.before = Alive(e), !.stage = "update"]
  <1>1. op[b] \in DeployOps /\ op[b].cmd = "deploy" /\ op[b].stage = "read"
    BY OpKinds DEF ReadBefore, ReleaseInv, ReleaseTypeOK
  <1>2. e \in Engines /\ engine[e] # None
    BY <1>1 DEF ReadBefore, ReleaseInv, DeployInv
  <1>3. Alive(e) \subseteq 1 .. Len(engine[e].revs) /\ Len(engine[e].revs) \in Nat
    BY <1>2, EngineIsState DEF ReleaseInv
  <1>4. o \in DeployOps
    <2>1. Alive(e) \in SUBSET Nat
      BY <1>3
    <2> QED
      BY <1>1, <2>1 DEF DeployOps
  <1>5. op' = [op EXCEPT ![b] = o] /\ engine' = engine
    BY DEF ReadBefore, Continue
  <1>6. op'[b] = o /\ o \in Ops /\ o.cmd = "deploy" /\ o.cmd \notin Traffic /\ TrafficInv(b)'
    BY <1>1, <1>4, <1>5, DeployStep
  <1>7. DeployInv(b)'
    <2>1. o.stage = "update" /\ o.before = Alive(e) /\ o.at = e /\ o.code = op[b].code /\ o.sha = op[b].sha
      BY <1>1 DEF DeployOps
    <2>2. Strict => o.code = o.sha
      BY <1>1, <2>1 DEF ReleaseInv, DeployInv
    <2> QED
      BY <1>2, <1>3, <1>5, <1>6, <2>1, <2>2 DEF DeployInv
  <1> QED
    BY <1>1, <1>5, <1>6, <1>7, OpStep

LEMMA BoundState ==
  ASSUME NEW s \in EngineState
  PROVE  LET t == [s EXCEPT !.roles = "granted"]
         IN  /\ t \in EngineState /\ t.revs = s.revs /\ t.gone = s.gone
             /\ t.mode = s.mode /\ t.share = s.share /\ Len(t.revs) \in Nat
  BY DEF EngineState

LEMMA BindRolesKeeps ==
  ASSUME ReleaseInv, NEW b \in Builds, BindRoles(b)
  PROVE  ReleaseInv'
  <1> DEFINE e == op[b].at
             o == [op[b] EXCEPT !.stage = "update"]
  <1>1. op[b] \in DeployOps /\ op[b].cmd = "deploy" /\ op[b].stage = "bind"
    BY OpKinds DEF BindRoles, ReleaseInv, ReleaseTypeOK
  <1>2. e \in Engines /\ engine[e] # None /\ engine[e] \in EngineState
    BY <1>1, EngineIsState DEF BindRoles, ReleaseInv, DeployInv
  <1>3. o \in DeployOps
    BY <1>1 DEF DeployOps
  <1>4. op' = [op EXCEPT ![b] = o] /\ engine' = [engine EXCEPT ![e].roles = "granted"]
    BY DEF BindRoles, Continue
  <1>5. /\ op'[b] = o /\ o \in Ops /\ o.cmd = "deploy" /\ o.cmd \notin Traffic /\ TrafficInv(b)'
        /\ \A c \in Builds \ {b} : op'[c] = op[c] /\ op[c].cmd # "deploy" /\ DeployInv(c)'
    BY <1>1, <1>3, <1>4, DeployStep
  <1> DEFINE s == [engine[e] EXCEPT !.roles = "granted"]
  <1>6. /\ s \in EngineState /\ s.revs = engine[e].revs /\ s.gone = engine[e].gone
        /\ s.mode = engine[e].mode /\ s.share = engine[e].share
        /\ e \in Labelled /\ Len(s.revs) \in Nat
    BY <1>2, BoundState DEF Labelled
  <1>11. engine' = [engine EXCEPT ![e] = s]
    BY <1>2, <1>4 DEF ReleaseInv, ReleaseTypeOK
  <1> HIDE DEF s
  <1>7. /\ engine' \in [Engines -> EngineState \cup {None}]
        /\ engine'[e] = s /\ s # None
        /\ Labelled' = Labelled /\ Labelled = {e} /\ OneEngine'
    BY <1>6, <1>11, EngineStep
  <1>8. ReleaseTypeOK' /\ EngineInv'
    BY <1>3, <1>4, <1>5, <1>6, <1>7 DEF ReleaseInv, ReleaseTypeOK, EngineInv
  <1>9. \A c \in Builds \ {b} : TrafficInv(c)'
    BY <1>5, <1>6, <1>7, <1>8, TrafficFrame DEF ReleaseInv
  <1>10. DeployInv(b)'
    <2>1. o.stage = "update" /\ o.before = op[b].before /\ o.at = e /\ o.code = op[b].code /\ o.sha = op[b].sha
      BY <1>1 DEF DeployOps
    <2>2. (Strict => o.code = o.sha) /\ o.before \subseteq 1 .. Len(engine[e].revs)
      BY <1>1, <1>2, <2>1 DEF ReleaseInv, DeployInv
    <2> HIDE DEF o
    <2> QED
      BY <1>2, <1>5, <1>6, <1>7, <2>1, <2>2 DEF DeployInv
  <1> QED
    BY <1>4, <1>5, <1>7, <1>8, <1>9, <1>10, BuildStep

\* The package becomes the newest revision.
LEMMA DeployedRevision ==
  ASSUME NEW s \in EngineState, NEW c \in Commits
  PROVE  /\ Deployed(s, c) \in EngineState
         /\ Len(s.revs) \in Nat
         /\ Len(Deployed(s, c).revs) = Len(s.revs) + 1
         /\ Deployed(s, c).revs[Len(s.revs) + 1] = c
         /\ Deployed(s, c).gone = s.gone /\ Deployed(s, c).share = s.share
         /\ Deployed(s, c).mode = "manual" => s.mode = "manual"
  <1>1. s.revs \in Seq(Commits) /\ Len(s.revs) \in Nat
    BY DEF EngineState
  <1>2. /\ Append(s.revs, c) \in Seq(Commits)
        /\ Len(Append(s.revs, c)) = Len(s.revs) + 1
        /\ Append(s.revs, c)[Len(s.revs) + 1] = c
    BY <1>1
  <1> DEFINE mode == IF AlwaysLatest THEN "latest" ELSE s.mode
             d == [s EXCEPT !.revs = Append(s.revs, c), !.mode = mode]
  <1>3. mode \in {"unset", "latest", "manual"} /\ (mode = "manual" => s.mode = "manual")
    BY DEF EngineState
  <1> HIDE DEF mode
  <1>4. /\ d \in EngineState /\ d.revs = Append(s.revs, c) /\ d.mode = mode
        /\ d.gone = s.gone /\ d.share = s.share
    BY <1>2, <1>3 DEF EngineState
  <1>5. Deployed(s, c) = d
    BY DEF Deployed, mode
  <1> QED
    BY <1>1, <1>2, <1>3, <1>4, <1>5

LEMMA CreateEngineKeeps ==
  ASSUME ReleaseInv, NEW b \in Builds, CreateEngine(b)
  PROVE  ReleaseInv'
  <1> DEFINE e == CHOOSE x \in Engines : x \notin Labelled
             s == IF AgentIdentity THEN Shell ELSE Deployed(Shell, op[b].code)
             o == [op[b] EXCEPT !.at = e, !.stage = IF AgentIdentity THEN "bind" ELSE "record"]
  <1>1. op[b] \in DeployOps /\ op[b].cmd = "deploy" /\ op[b].stage = "create"
    BY OpKinds DEF CreateEngine, ReleaseInv, ReleaseTypeOK
  <1>2. Labelled = {} /\ op[b].before = {} /\ (Strict => op[b].code = op[b].sha)
    BY <1>1 DEF ReleaseInv, DeployInv
  <1>3. e \in Engines
    BY <1>2 DEF CreateEngine
  <1>4. /\ o \in DeployOps /\ o.at = e /\ o.stage = IF AgentIdentity THEN "bind" ELSE "record"
        /\ o.before = {} /\ o.code = op[b].code /\ o.sha = op[b].sha
    BY <1>1, <1>2, <1>3 DEF DeployOps
  <1>5. op' = [op EXCEPT ![b] = o] /\ engine' = [engine EXCEPT ![e] = s]
    BY DEF CreateEngine, Continue
  <1>6. /\ op'[b] = o /\ o \in Ops /\ o.cmd = "deploy" /\ o.cmd \notin Traffic /\ TrafficInv(b)'
        /\ \A c \in Builds \ {b} : op'[c] = op[c] /\ op[c].cmd # "deploy" /\ DeployInv(c)'
    BY <1>1, <1>4, <1>5, DeployStep
  <1>7. /\ s \in EngineState /\ s # None /\ s.gone = {}
        /\ Len(s.revs) \in {0, 1}
        /\ ~AgentIdentity => Len(s.revs) = 1 /\ s.revs[1] = op[b].code
    <2>1. Shell \in EngineState /\ Shell.revs = <<>> /\ Shell.gone = {} /\ Len(Shell.revs) = 0
      BY DEF Shell, EngineState, Nothing
    <2>2. op[b].code \in Commits
      BY <1>1 DEF DeployOps
    <2>3. /\ Deployed(Shell, op[b].code) \in EngineState
          /\ Deployed(Shell, op[b].code).gone = {}
          /\ Len(Deployed(Shell, op[b].code).revs) = 1
          /\ Deployed(Shell, op[b].code).revs[1] = op[b].code
      <3> DEFINE d == Deployed(Shell, op[b].code)
      <3>1. /\ d \in EngineState /\ d.gone = Shell.gone
            /\ Len(d.revs) = Len(Shell.revs) + 1
            /\ d.revs[Len(Shell.revs) + 1] = op[b].code
        BY <2>1, <2>2, DeployedRevision
      <3> QED
        BY <2>1, <3>1
    <2>4. CASE AgentIdentity
      BY <2>1, <2>4, StateIsNotNone
    <2>5. CASE ~AgentIdentity
      BY <2>3, <2>5, StateIsNotNone
    <2> QED
      BY <2>4, <2>5
  <1>8. engine' \in [Engines -> EngineState \cup {None}] /\ engine'[e] = s /\ Labelled' = {e}
    BY <1>2, <1>3, <1>5, <1>7 DEF ReleaseInv, ReleaseTypeOK, Labelled
  <1>9. ReleaseTypeOK' /\ OneEngine'
    BY <1>5, <1>6, <1>8 DEF ReleaseInv, ReleaseTypeOK, OneEngine
  <1>10. EngineInv'
    <2>1. Len(s.revs) <= MaxRevisions
      <3>1. \A n \in {0, 1} : n <= MaxRevisions
        BY Bounds
      <3> QED
        BY <1>7, <3>1, Zenon
    <2> QED
      BY <1>7, <1>8, <2>1 DEF EngineInv
  <1>11. \A c \in Builds \ {b} : TrafficInv(c)'
    BY <1>2, <1>6, <1>9, TrafficFrame DEF ReleaseInv
  <1>12. DeployInv(b)'
    <2>1. AgentIdentity => DeployInv(b)'
      BY <1>2, <1>3, <1>4, <1>6, <1>7, <1>8 DEF DeployInv
    <2>2. ~AgentIdentity => DeployInv(b)'
      BY <1>2, <1>3, <1>4, <1>6, <1>7, <1>8 DEF DeployInv
    <2> QED
      BY <2>1, <2>2
  <1> QED
    BY <1>5, <1>6, <1>8, <1>9, <1>10, <1>11, <1>12, BuildStep

LEMMA UpdateEngineKeeps ==
  ASSUME ReleaseInv, NEW b \in Builds, UpdateEngine(b)
  PROVE  ReleaseInv'
  <1> DEFINE e == op[b].at
             s == Deployed(engine[e], op[b].code)
             n == Len(engine[e].revs)
             o == [op[b] EXCEPT !.stage = "record"]
  <1>1. op[b] \in DeployOps /\ op[b].cmd = "deploy" /\ op[b].stage = "update" /\ op[b].code \in Commits
    BY OpKinds DEF UpdateEngine, ReleaseInv, ReleaseTypeOK, DeployOps
  <1>2. /\ e \in Labelled /\ engine[e] \in EngineState /\ n < MaxRevisions /\ n \in Nat
        /\ op[b].before \subseteq 1 .. n /\ (Strict => op[b].code = op[b].sha)
    BY <1>1, EngineIsState DEF UpdateEngine, ReleaseInv, DeployInv, Labelled
  <1>3. /\ o \in DeployOps /\ o.at = e /\ o.stage = "record"
        /\ o.before = op[b].before /\ o.code = op[b].code /\ o.sha = op[b].sha
    BY <1>1 DEF DeployOps
  <1>4. op' = [op EXCEPT ![b] = o] /\ engine' = [engine EXCEPT ![e] = s]
    BY DEF UpdateEngine, Continue
  <1>5. /\ op'[b] = o /\ o \in Ops /\ o.cmd = "deploy" /\ o.cmd \notin Traffic /\ TrafficInv(b)'
        /\ \A c \in Builds \ {b} : op'[c] = op[c] /\ op[c].cmd # "deploy" /\ DeployInv(c)'
    BY <1>1, <1>3, <1>4, DeployStep
  <1>6. /\ s \in EngineState /\ Len(s.revs) = n + 1 /\ s.revs[n + 1] = op[b].code
        /\ s.gone = engine[e].gone /\ s.share = engine[e].share
        /\ s.mode = "manual" => engine[e].mode = "manual"
    BY <1>1, <1>2, DeployedRevision
  <1> HIDE DEF s, o
  <1>7. /\ engine' \in [Engines -> EngineState \cup {None}]
        /\ engine'[e] = s /\ s # None
        /\ Labelled' = Labelled /\ Labelled = {e} /\ OneEngine'
    BY <1>2, <1>4, <1>6, EngineStep
  <1>8. ReleaseTypeOK'
    BY <1>4, <1>5, <1>7 DEF ReleaseInv, ReleaseTypeOK
  <1>9. EngineInv'
    <2>1. n + 1 <= MaxRevisions
      BY <1>2, ReleaseAssumption
    <2>2. \A r \in engine[e].gone : r \in 1 .. n
      BY <1>2 DEF ReleaseInv, EngineInv
    <2> QED
      BY <1>2, <1>6, <1>7, <2>1, <2>2 DEF EngineInv
  <1>10. \A c \in Builds \ {b} : TrafficInv(c)'
    BY <1>2, <1>5, <1>6, <1>7, <1>8, TrafficFrame DEF ReleaseInv
  <1>11. DeployInv(b)'
    <2>1. n + 1 \notin o.before
      BY <1>2, <1>3
    <2> QED
      BY <1>2, <1>3, <1>5, <1>6, <1>7, <2>1 DEF DeployInv, Labelled
  <1> QED
    BY <1>4, <1>5, <1>7, <1>8, <1>9, <1>10, <1>11, BuildStep

\* Ending a command, or being stopped, loses what was read and nothing else.
LEMMA FinishKeeps ==
  ASSUME ReleaseInv, NEW b \in Builds, Finish(b), engine' = engine
  PROVE  ReleaseInv'
  <1>1. op' = [op EXCEPT ![b] = Idle] /\ op'[b] = Idle
    BY DEF Finish, Continue, ReleaseInv, ReleaseTypeOK
  <1>2. Idle \in Ops /\ Idle.cmd # "deploy" /\ Idle.cmd \notin Traffic
    BY DEF Ops, Idle, Traffic
  <1> QED
    BY <1>1, <1>2, IdleInv, OpStep

-----------------------------------------------------------------------------
(* traffic.py and teardown.py keep the invariant.                          *)

\* A traffic command that starts: nobody else runs one.
LEMMA StartTrafficStep ==
  ASSUME ReleaseInv, NEW b \in Builds, NEW o \in TrafficOps, StartTraffic(b), Continue(b, o),
         engine' = engine, TrafficInv(b)'
  PROVE  ReleaseInv'
  <1>1. o \in Ops /\ o.cmd # "deploy" /\ o.cmd \in Traffic
    BY DEF Ops, TrafficOps, ReadOps, SetOps, ListOps, DeleteOps, TeardownOps, Traffic
  <1>2. op' = [op EXCEPT ![b] = o] /\ op'[b] = o
    BY DEF Continue, ReleaseInv, ReleaseTypeOK
  <1>3. DeployInv(b)'
    BY <1>1, <1>2 DEF DeployInv
  <1> QED
    BY <1>1, <1>2, <1>3, OpStep DEF StartTraffic

\* A traffic command that moves on.
LEMMA TrafficStep ==
  ASSUME ReleaseInv, NEW b \in Builds, NEW o \in TrafficOps, op[b].cmd \in Traffic, Continue(b, o)
  PROVE  /\ o \in Ops /\ o.cmd # "deploy" /\ o.cmd \in Traffic
         /\ op' = [op EXCEPT ![b] = o] /\ op'[b] = o
         /\ DeployInv(b)'
         /\ engine' = engine /\ TrafficInv(b)' => ReleaseInv'
         /\ \A c \in Builds \ {b} : op'[c] = op[c] /\ op[c].cmd \notin Traffic /\ TrafficInv(c)'
  <1>1. o \in Ops /\ o.cmd # "deploy" /\ o.cmd \in Traffic
    BY DEF Ops, TrafficOps, ReadOps, SetOps, ListOps, DeleteOps, TeardownOps, Traffic
  <1>2. op' = [op EXCEPT ![b] = o] /\ op'[b] = o
    BY DEF Continue, ReleaseInv, ReleaseTypeOK
  <1>3. DeployInv(b)'
    BY <1>1, <1>2 DEF DeployInv
  <1>4. engine' = engine /\ TrafficInv(b)' => ReleaseInv'
    BY <1>1, <1>2, <1>3, OpStep
  <1>5. \A c \in Builds \ {b} : op'[c] = op[c] /\ op[c].cmd \notin Traffic
    BY DEF Continue, ReleaseInv, ReleaseTypeOK, Alone
  <1> QED
    BY <1>1, <1>2, <1>3, <1>4, <1>5, NoTraffic

LEMMA SplitIsFunction ==
  ASSUME NEW t, NEW p \in 1 .. 100, NEW k
  PROVE  Split(t, p, k) \in [Revisions -> Nat]
  <1>1. p \in Nat /\ 100 - p \in Nat
    OBVIOUS
  <1>2. \A r \in Revisions : (IF r = t THEN p ELSE 0) + (IF r = k THEN 100 - p ELSE 0) \in Nat
    BY <1>1
  <1> QED
    BY <1>2 DEF Split

LEMMA StartPromoteKeeps ==
  ASSUME ReleaseInv, NEW b \in Builds, NEW t \in Revisions, NEW p \in Percents, StartPromote(b, t, p)
  PROVE  ReleaseInv'
  <1>1. PICK e \in Engines :
          /\ Lookup(e)
          /\ Continue(b, [cmd |-> "promote", at |-> e, target |-> t, percent |-> p,
                          revs |-> Alive(e), stage |-> "read"])
    BY DEF StartPromote
  <1> DEFINE o == [cmd |-> "promote", at |-> e, target |-> t, percent |-> p,
                   revs |-> Alive(e), stage |-> "read"]
  <1>2. e \in Labelled /\ engine[e] # None
    BY <1>1, LookupOne DEF Labelled
  <1>3. Alive(e) \in SUBSET Nat
    BY <1>2, EngineIsState DEF ReleaseInv
  <1>4. o \in ReadOps /\ o \in TrafficOps
    BY <1>3 DEF ReadOps, TrafficOps, Revisions
  <1>5. op'[b] = o /\ engine' = engine
    BY <1>1 DEF Continue, StartPromote, ReleaseInv, ReleaseTypeOK
  <1>6. TrafficInv(b)'
    BY <1>2, <1>4, <1>5 DEF TrafficInv, ReadOps, SetOps, ListOps, DeleteOps
  <1> QED
    BY <1>1, <1>4, <1>5, <1>6, StartTrafficStep DEF StartPromote

LEMMA StartRollbackKeeps ==
  ASSUME ReleaseInv, RecordOK, NEW b \in Builds, NEW t \in Revisions, StartRollback(b, t)
  PROVE  ReleaseInv'
  <1>0. PICK sha \in Commits \cup {None} : sha = RecordedSha
    BY DEF RecordOK, RecordedSha
  <1>1. PICK e \in Engines :
          /\ Lookup(e)
          /\ Continue(b, [cmd |-> "rollback", at |-> e, target |-> t, stage |-> "set",
                          split |-> Split(t, 100, t), sha |-> sha])
    BY <1>0 DEF StartRollback
  <1> DEFINE o == [cmd |-> "rollback", at |-> e, target |-> t, stage |-> "set",
                   split |-> Split(t, 100, t), sha |-> sha]
  <1>2. e \in Labelled /\ engine[e] # None
    BY <1>1, LookupOne DEF Labelled
  <1>3. o.split \in [Revisions -> Nat]
    <2>1. 100 \in 1 .. 100
      OBVIOUS
    <2> QED
      BY <2>1, SplitIsFunction
  <1>4. o \in SetOps /\ o \in TrafficOps
    BY <1>3 DEF SetOps, TrafficOps, Revisions
  <1>5. op'[b] = o /\ engine' = engine
    BY <1>1 DEF Continue, StartRollback, ReleaseInv, ReleaseTypeOK
  <1>6. KeepsLargest(e, t, o.split)'
    BY DEF KeepsLargest, Split
  <1>7. TrafficInv(b)'
    BY <1>2, <1>4, <1>5, <1>6 DEF TrafficInv, ReadOps, SetOps, ListOps, DeleteOps
  <1> QED
    BY <1>1, <1>4, <1>5, <1>7, StartTrafficStep DEF StartRollback

\* The rest of the split goes where KeptOn says.
LEMMA KeptOnKeepsLargest ==
  ASSUME NEW e \in Engines, NEW t \in Nat, NEW p \in 1 .. 100, NEW revs, NEW same \in BOOLEAN,
         NEW k, p = 100 => k = t, p # 100 => k \in KeptOn(e, t, revs, same),
         engine[e].mode = "manual"
  PROVE  KeepsLargest(e, t, Split(t, p, k))
  <1>1. \A r \in Revisions : Split(t, p, k)[r] > 0 /\ r # t => r = k
    BY DEF Split
  <1>2. CASE k = t
    BY <1>1, <1>2 DEF KeepsLargest
  <1>3. CASE k # t
    <2> DEFINE others == IF same THEN Targets(e) \ {t} ELSE Targets(e)
    <2>1. Targets(e) = Shared(e)
      BY DEF Targets, Shared
    <2>2. others # {} => k \in others /\ \A q \in others : engine[e].share[q] <= engine[e].share[k]
      BY <1>3 DEF KeptOn
    <2>3. Shared(e) \ {t} \subseteq others /\ others \subseteq Shared(e)
      BY <2>1
    <2> HIDE DEF others
    <2> QED
      BY <1>1, <2>2, <2>3 DEF KeepsLargest
  <1> QED
    BY <1>2, <1>3

LEMMA ReadTrafficKeeps ==
  ASSUME ReleaseInv, NEW b \in Builds, ReadTraffic(b)
  PROVE  ReleaseInv'
  <1>1. op[b] \in ReadOps /\ op[b].cmd \in Traffic
    BY OpKinds DEF ReadTraffic, ReleaseInv, ReleaseTypeOK, Traffic
  <1>2. PICK e \in Engines, t \in Nat, p \in 1 .. 100 :
          e = op[b].at /\ t = op[b].target /\ p = op[b].percent
    BY <1>1, ReleaseAssumption DEF ReadOps
  <1>3. PICK same \in BOOLEAN :
          \E k \in IF p = 100 THEN {t} ELSE KeptOn(e, t, op[b].revs, same) :
            Continue(b, [cmd |-> "promote", at |-> e, target |-> t, stage |-> "set",
                         split |-> Split(t, p, k)])
    BY <1>2 DEF ReadTraffic, SameNames
  <1>9. PICK k \in IF p = 100 THEN {t} ELSE KeptOn(e, t, op[b].revs, same) :
          Continue(b, [cmd |-> "promote", at |-> e, target |-> t, stage |-> "set",
                       split |-> Split(t, p, k)])
    BY <1>3
  <1> DEFINE o == [cmd |-> "promote", at |-> e, target |-> t, stage |-> "set", split |-> Split(t, p, k)]
  <1>4. engine[e] # None /\ engine' = engine
    BY <1>2 DEF ReadTraffic
  <1>5. o \in SetOps /\ o \in TrafficOps
    <2>1. Split(t, p, k) \in [Revisions -> Nat]
      BY SplitIsFunction
    <2> QED
      BY <2>1 DEF SetOps, TrafficOps
  <1>6. op'[b] = o
    BY <1>1, <1>5, <1>9, TrafficStep
  <1>7. engine[e].mode = "manual" => KeepsLargest(e, t, Split(t, p, k))'
    <2>1. engine[e].mode = "manual" => KeepsLargest(e, t, Split(t, p, k))
      <3>1. (p = 100 => k = t) /\ (p # 100 => k \in KeptOn(e, t, op[b].revs, same))
        BY <1>9
      <3> QED
        BY <3>1, KeptOnKeepsLargest
    <2> QED
      BY <1>4, <2>1 DEF KeepsLargest, Shared, Split
  <1>8. TrafficInv(b)'
    <2>1. o \notin ReadOps /\ o \notin ListOps /\ o \notin DeleteOps
      BY DEF ReadOps, ListOps, DeleteOps
    <2> QED
      BY <1>4, <1>6, <1>7, <2>1 DEF TrafficInv
  <1> QED
    BY <1>1, <1>4, <1>5, <1>8, <1>9, TrafficStep

LEMMA SetTrafficKeeps ==
  ASSUME ReleaseInv, NEW b \in Builds, SetTraffic(b)
  PROVE  ReleaseInv'
  <1>1. op[b] \in SetOps /\ op[b].cmd \in Traffic /\ op[b].stage = "set"
    BY OpKinds DEF SetTraffic, ReleaseInv, ReleaseTypeOK, Traffic
  <1>2. PICK e \in Labelled, split \in [Revisions -> Nat] : e = op[b].at /\ split = op[b].split
    BY <1>1 DEF SetOps, SetTraffic, Labelled
  <1> DEFINE s == [engine[e] EXCEPT !.mode = "manual", !.share = split]
             o == [op[b] EXCEPT !.stage = "assert"]
  <1>3. engine[e] \in EngineState
    BY <1>2, EngineIsState DEF ReleaseInv, Labelled
  <1>4. s \in EngineState /\ s.revs = engine[e].revs /\ s.gone = engine[e].gone
    BY <1>3 DEF EngineState
  <1>5. engine' = [engine EXCEPT ![e] = s]
    BY <1>2, <1>3 DEF SetTraffic, ReleaseInv, ReleaseTypeOK, Labelled, EngineState
  <1> HIDE DEF s
  <1>6. /\ engine' \in [Engines -> EngineState \cup {None}]
        /\ engine'[e] = s /\ s # None
        /\ Labelled' = Labelled /\ Labelled = {e} /\ OneEngine'
    BY <1>4, <1>5, EngineStep
  <1>7. EngineInv'
    BY <1>4, <1>6 DEF ReleaseInv, EngineInv
  <1>8. o \in SetOps /\ o \in TrafficOps /\ o.stage = "assert" /\ o.at = e
    BY <1>1, <1>2 DEF SetOps, TrafficOps
  <1> HIDE DEF o
  <1>9. /\ o \in Ops /\ o.cmd # "deploy" /\ o.cmd \in Traffic
        /\ op' = [op EXCEPT ![b] = o] /\ op'[b] = o
        /\ DeployInv(b)'
        /\ \A c \in Builds \ {b} : op'[c] = op[c] /\ op[c].cmd \notin Traffic /\ TrafficInv(c)'
    BY <1>1, <1>8, TrafficStep DEF SetTraffic, o
  <1>10. \A c \in Builds \ {b} : DeployInv(c)'
    <2>1. \A f \in Engines : engine'[f] # None => engine[f] # None /\ engine'[f].revs = engine[f].revs
      BY <1>4, <1>6 DEF Labelled
    <2> QED
      BY <1>9, <2>1, DeployFrame DEF ReleaseInv
  <1>11. TrafficInv(b)'
    <2>1. o \notin ReadOps /\ o \notin ListOps /\ o \notin DeleteOps
      BY <1>8 DEF ReadOps, ListOps, DeleteOps, SetOps
    <2> QED
      BY <1>6, <1>8, <1>9, <2>1 DEF TrafficInv
  <1> QED
    BY <1>6, <1>7, <1>9, <1>10, <1>11, BuildStep

LEMMA StartPruneKeeps ==
  ASSUME ReleaseInv, NEW b \in Builds, StartPrune(b)
  PROVE  ReleaseInv'
  <1>1. PICK e \in Engines, same \in BOOLEAN :
          /\ Lookup(e)
          /\ Continue(b, [cmd |-> "prune", at |-> e, stage |-> "list", same |-> same,
                          used |-> IF same THEN Targets(e) ELSE {}])
    BY DEF StartPrune, SameNames
  <1>2. PICK u \in SUBSET Nat : u = IF same THEN Targets(e) ELSE {}
    <2> DEFINE w == IF same THEN Targets(e) ELSE {}
    <2>1. w \in SUBSET Nat
      BY DEF Revisions, Targets
    <2> QED
      BY <2>1, Zenon
  <1> DEFINE o == [cmd |-> "prune", at |-> e, stage |-> "list", same |-> same, used |-> u]
  <1>3. e \in Labelled /\ engine[e] # None
    BY <1>1, LookupOne DEF Labelled
  <1>4. o \in ListOps /\ o \in TrafficOps
    BY DEF ListOps, TrafficOps
  <1>5. op'[b] = o /\ engine' = engine
    BY <1>1, <1>2 DEF Continue, StartPrune, ReleaseInv, ReleaseTypeOK
  <1>6. same /\ engine'[e].mode = "manual" => u = Shared(e)'
    BY <1>2, <1>5 DEF Shared, Targets
  <1>7. TrafficInv(b)'
    BY <1>3, <1>4, <1>5, <1>6 DEF TrafficInv, ReadOps, SetOps, ListOps, DeleteOps
  <1> QED
    BY <1>1, <1>2, <1>4, <1>5, <1>7, StartTrafficStep DEF StartPrune

\* A candidate is not the newest, does not serve, and has Keep newer ones.
LEMMA CandidatesAreOld ==
  ASSUME ReleaseTypeOK, NEW e \in Labelled, NEW used, NEW r \in Candidates(e, used)
  PROVE  /\ r \in Alive(e) /\ r \notin used
         /\ r \in 1 .. Len(engine[e].revs) - 1
         /\ Cardinality(Newer(e, r)) >= Keep
  <1> DEFINE n == Len(engine[e].revs)
  <1>1. r \in Alive(e) /\ r \notin used /\ Cardinality(Newer(e, r)) >= Keep
    BY DEF Candidates, Newer
  <1>2. n \in Nat /\ Alive(e) \subseteq 1 .. n
    BY EngineIsState DEF Labelled
  <1>3. Newer(e, r) # {}
    <2>1. Cardinality({}) = 0
      BY FS_EmptySet
    <2> QED
      BY <1>1, <2>1, Bounds
  <1>4. PICK q \in Alive(e) : q > r
    BY <1>3 DEF Newer
  <1> QED
    BY <1>1, <1>2, <1>4

LEMMA ListCandidatesKeeps ==
  ASSUME ReleaseInv, NEW b \in Builds, ListCandidates(b)
  PROVE  ReleaseInv'
  <1>1. op[b] \in ListOps /\ op[b].cmd \in Traffic
    BY OpKinds DEF ListCandidates, ReleaseInv, ReleaseTypeOK, Traffic
  <1>2. PICK e \in Labelled, u \in SUBSET Nat, same \in BOOLEAN :
          e = op[b].at /\ u = op[b].used /\ same = op[b].same
    BY <1>1 DEF ListOps, ListCandidates, Labelled
  <1>3. e \in Engines /\ engine[e] # None /\ Alive(e) \subseteq 1 .. Len(engine[e].revs)
    BY <1>2, EngineIsState DEF Labelled, ReleaseInv
  <1>4. PICK todo \in SUBSET Nat : todo = Candidates(e, u)
    <2>1. Candidates(e, u) \in SUBSET Nat
      BY <1>3 DEF Candidates
    <2> QED
      BY <2>1, Zenon
  <1> DEFINE o == [cmd |-> "prune", at |-> e, stage |-> "delete", same |-> same, todo |-> todo]
  <1>5. o \in DeleteOps /\ o \in TrafficOps
    BY <1>3 DEF DeleteOps, TrafficOps
  <1>6. Continue(b, o) /\ engine' = engine
    BY <1>2, <1>4 DEF ListCandidates
  <1>7. op'[b] = o
    BY <1>1, <1>5, <1>6, TrafficStep
  <1>8. \A r \in todo :
          /\ r \in 1 .. Len(engine[e].revs) - 1
          /\ same /\ engine[e].mode = "manual" => r \notin Shared(e)
          /\ Cardinality(Newer(e, r)) >= Keep
    <2>1. same /\ engine[e].mode = "manual" => u = Shared(e)
      BY <1>1, <1>2 DEF ReleaseInv, TrafficInv
    <2> QED
      BY <1>2, <1>4, <2>1, CandidatesAreOld DEF ReleaseInv
  <1>9. Shared(e)' = Shared(e) /\ \A r \in todo : Newer(e, r)' = Newer(e, r)
    BY <1>6 DEF Shared, Newer, Alive
  <1>10. TrafficInv(b)'
    <2>1. o \notin ReadOps /\ o \notin ListOps /\ o \notin SetOps
      BY DEF ReadOps, ListOps, SetOps
    <2> QED
      BY <1>3, <1>6, <1>7, <1>8, <1>9, <2>1 DEF TrafficInv
  <1> QED
    BY <1>1, <1>5, <1>6, <1>10, TrafficStep

\* The oldest candidate goes; the others have as many newer ones as before.
LEMMA DeleteRevisionKeeps ==
  ASSUME ReleaseInv, NEW b \in Builds, DeleteRevision(b)
  PROVE  ReleaseInv'
  <1>1. op[b] \in DeleteOps /\ op[b].cmd \in Traffic
    BY OpKinds DEF DeleteRevision, ReleaseInv, ReleaseTypeOK, Traffic
  <1>2. PICK e \in Labelled, todo \in SUBSET Nat : e = op[b].at /\ todo = op[b].todo
    BY <1>1 DEF DeleteOps, ReleaseInv, TrafficInv, Labelled
  <1>3. CASE todo = {}
    BY <1>2, <1>3, FinishKeeps DEF DeleteRevision
  <1>4. CASE todo # {}
    <2>1. PICK r \in todo :
            /\ \A q \in todo : r <= q
            /\ engine' = [engine EXCEPT ![e].gone = @ \cup {r}]
            /\ Continue(b, [op[b] EXCEPT !.todo = @ \ {r}])
      BY <1>2, <1>4 DEF DeleteRevision
    <2> DEFINE s == [engine[e] EXCEPT !.gone = @ \cup {r}]
               o == [op[b] EXCEPT !.todo = @ \ {r}]
    <2>2. engine[e] \in EngineState /\ Len(engine[e].revs) \in Nat
      BY <1>2, EngineIsState DEF ReleaseInv, Labelled
    <2>3. /\ s \in EngineState /\ s.revs = engine[e].revs /\ s.gone = engine[e].gone \cup {r}
          /\ s.mode = engine[e].mode /\ s.share = engine[e].share
      BY <2>2 DEF EngineState
    <2>4. engine' = [engine EXCEPT ![e] = s]
      BY <1>2, <2>1 DEF ReleaseInv, ReleaseTypeOK
    <2>5. o \in DeleteOps /\ o \in TrafficOps /\ o.at = e /\ o.todo = todo \ {r} /\ o.same = op[b].same
      BY <1>1, <1>2 DEF DeleteOps, TrafficOps
    <2>6. Continue(b, o)
      BY <2>1
    <2> HIDE DEF s, o
    <2>7. /\ engine' \in [Engines -> EngineState \cup {None}]
          /\ engine'[e] = s /\ s # None
          /\ Labelled' = Labelled /\ Labelled = {e} /\ OneEngine'
      BY <2>3, <2>4, EngineStep
    <2>8. \A q \in todo :
            /\ q \in 1 .. Len(engine[e].revs) - 1
            /\ o.same /\ engine[e].mode = "manual" => q \notin Shared(e)
            /\ Cardinality(Newer(e, q)) >= Keep
      BY <1>1, <1>2, <2>5 DEF ReleaseInv, TrafficInv
    <2>9. EngineInv'
      BY <1>2, <2>3, <2>7, <2>8 DEF ReleaseInv, EngineInv
    <2>10. /\ o \in Ops /\ o.cmd # "deploy" /\ o.cmd \in Traffic
           /\ op' = [op EXCEPT ![b] = o] /\ op'[b] = o
           /\ DeployInv(b)'
           /\ \A c \in Builds \ {b} : op'[c] = op[c] /\ op[c].cmd \notin Traffic /\ TrafficInv(c)'
      BY <1>1, <2>5, <2>6, TrafficStep
    <2>11. \A c \in Builds \ {b} : DeployInv(c)'
      <3>1. \A f \in Engines : engine'[f] # None => engine[f] # None /\ engine'[f].revs = engine[f].revs
        BY <1>2, <2>3, <2>7 DEF Labelled
      <3> QED
        BY <2>10, <3>1, DeployFrame DEF ReleaseInv
    <2>12. TrafficInv(b)'
      <3>1. o \notin ReadOps /\ o \notin ListOps /\ o \notin SetOps
        BY <2>5 DEF ReadOps, ListOps, SetOps, DeleteOps
      <3>2. \A q \in o.todo : Newer(e, q)' = Newer(e, q)
        BY <2>1, <2>2, <2>3, <2>5, <2>7, <2>8 DEF Newer, Alive
      <3>3. Shared(e)' = Shared(e)
        BY <2>3, <2>7 DEF Shared
      <3>4. \A q \in o.todo :
              /\ q \in 1 .. Len(engine'[e].revs) - 1
              /\ o.same /\ engine'[e].mode = "manual" => q \notin Shared(e)'
              /\ Cardinality(Newer(e, q)') >= Keep
        BY <2>3, <2>5, <2>7, <2>8, <3>2, <3>3
      <3> QED
        BY <2>5, <2>7, <2>10, <3>1, <3>4 DEF TrafficInv
    <2> QED
      BY <2>7, <2>9, <2>10, <2>11, <2>12, BuildStep
  <1> QED
    BY <1>3, <1>4

LEMMA StartTeardownKeeps ==
  ASSUME ReleaseInv, NEW b \in Builds, StartTeardown(b)
  PROVE  ReleaseInv'
  <1>1. PICK e \in Engines \cup {None} :
          Continue(b, [cmd |-> "teardown", at |-> e, stage |-> IF e = None THEN "unlink" ELSE "delete"])
    BY DEF StartTeardown
  <1> DEFINE o == [cmd |-> "teardown", at |-> e, stage |-> IF e = None THEN "unlink" ELSE "delete"]
  <1>2. o \in TeardownOps /\ o \in TrafficOps
    BY DEF TeardownOps, TrafficOps
  <1>3. op'[b] = o /\ engine' = engine
    BY <1>1 DEF Continue, StartTeardown, ReleaseInv, ReleaseTypeOK
  <1>4. TrafficInv(b)'
    BY <1>2, <1>3 DEF TrafficInv, TeardownOps, ReadOps, SetOps, ListOps, DeleteOps
  <1> QED
    BY <1>1, <1>2, <1>3, <1>4, StartTrafficStep DEF StartTeardown

\* A deploy to the engine finds it gone.
LEMMA DeleteEngineKeeps ==
  ASSUME ReleaseInv, NEW b \in Builds, DeleteEngine(b)
  PROVE  ReleaseInv'
  <1>1. op[b] \in TeardownOps /\ op[b].cmd \in Traffic
    BY OpKinds DEF DeleteEngine, ReleaseInv, ReleaseTypeOK, Traffic
  <1> DEFINE e == op[b].at
             o == [op[b] EXCEPT !.stage = "unlink"]
  <1>2. o \in TeardownOps /\ o \in TrafficOps
    BY <1>1 DEF TeardownOps, TrafficOps
  <1>3. engine' = [engine EXCEPT ![e] = None] /\ Continue(b, o)
    BY DEF DeleteEngine
  <1>4. /\ engine' \in [Engines -> EngineState \cup {None}]
        /\ \A f \in Engines : engine'[f] # None => engine'[f] = engine[f]
        /\ Labelled' \subseteq Labelled
    BY <1>3 DEF ReleaseInv, ReleaseTypeOK, Labelled
  <1>5. OneEngine' /\ EngineInv'
    BY <1>4 DEF ReleaseInv, OneEngine, EngineInv, Labelled
  <1> HIDE DEF o, e
  <1>6. /\ o \in Ops /\ o.cmd # "deploy" /\ o.cmd \in Traffic
        /\ op' = [op EXCEPT ![b] = o] /\ op'[b] = o
        /\ DeployInv(b)'
        /\ \A c \in Builds \ {b} : op'[c] = op[c] /\ op[c].cmd \notin Traffic /\ TrafficInv(c)'
    BY <1>1, <1>2, <1>3, TrafficStep
  <1>7. \A c \in Builds \ {b} : DeployInv(c)'
    <2>1. \A f \in Engines : engine'[f] # None => engine[f] # None /\ engine'[f].revs = engine[f].revs
      BY <1>4
    <2> QED
      BY <1>6, <2>1, DeployFrame DEF ReleaseInv
  <1>8. TrafficInv(b)'
    BY <1>2, <1>6 DEF TrafficInv, TeardownOps, ReadOps, SetOps, ListOps, DeleteOps
  <1> QED
    BY <1>4, <1>5, <1>6, <1>7, <1>8, BuildStep

-----------------------------------------------------------------------------
(* The inductive invariant, and what follows from it.                      *)

LEMMA ReleaseInitIInv == ReleaseInit => ReleaseInv
  <1> SUFFICES ASSUME ReleaseInit PROVE ReleaseInv
    OBVIOUS
  <1>1. Labelled = {} /\ \A b \in Builds : op[b] = Idle
    BY DEF ReleaseInit, Labelled
  <1>2. ReleaseTypeOK
    BY DEF ReleaseInit, ReleaseTypeOK, Ops
  <1>3. Alone /\ OneEngine /\ EngineInv
    BY <1>1 DEF Alone, OneEngine, EngineInv, Idle, Traffic
  <1>4. \A b \in Builds : DeployInv(b) /\ TrafficInv(b)
    BY <1>1 DEF DeployInv, TrafficInv, Idle, ReadOps, SetOps, ListOps, DeleteOps
  <1> QED
    BY <1>2, <1>3, <1>4 DEF ReleaseInv

\* The record names a revision and a commit, or no commit.
LEMMA RecordStep ==
  ASSUME ReleaseInv, RecordOK, [ReleaseNext]_releaseVars
  PROVE  RecordOK'
  <1>1. ASSUME NEW b \in Builds, WriteRecord(b)
        PROVE  RecordOK'
    <2> DEFINE e == op[b].at
               n == NewRevision(e, op[b].before)
    <2>1. op[b] \in DeployOps /\ op[b].stage = "record" /\ engine[e] # None
      BY <1>1, OpKinds DEF WriteRecord, ReleaseInv, ReleaseTypeOK
    <2>2. e \in Labelled /\ op[b].sha \in Commits
      BY <2>1 DEF ReleaseInv, DeployInv, DeployOps, Labelled
    <2>3. Len(engine[e].revs) \in Nat /\ Alive(e) \subseteq 1 .. Len(engine[e].revs)
      BY <2>2, EngineIsState DEF Labelled, ReleaseInv
    <2>4. n \in Nat
      <3>1. Len(engine[e].revs) \in Alive(e) \ op[b].before
        BY <2>1, <2>2, <2>3, NewestAlive DEF ReleaseInv, DeployInv, DeployOps
      <3>2. n = Len(engine[e].revs)
        BY <2>3, <3>1, NewestIsLargest DEF NewRevision
      <3> QED
        BY <2>3, <3>2
    <2> HIDE DEF n
    <2>5. record' = [revision |-> n, sha |-> op[b].sha]
      BY <1>1 DEF WriteRecord, n
    <2> QED
      BY <2>2, <2>4, <2>5 DEF RecordOK
  <1>2. ASSUME NEW b \in Builds, AssertTraffic(b)
        PROVE  RecordOK'
    <2>1. op[b] \in SetOps
      BY <1>2, OpKinds DEF AssertTraffic, ReleaseInv, ReleaseTypeOK
    <2>2. RecordedSha \in Commits \cup {None}
      BY DEF RecordOK, RecordedSha
    <2>3. PICK sha \in Commits \cup {None} : record' = [revision |-> op[b].target, sha |-> sha]
      BY <1>2, <2>1, <2>2 DEF AssertTraffic, SetOps
    <2>4. op[b].target \in Nat
      BY <2>1 DEF SetOps
    <2> QED
      BY <2>3, <2>4 DEF RecordOK
  <1>3. CASE record' = record
    BY <1>3 DEF RecordOK
  <1>4. CASE record' = None
    BY <1>4 DEF RecordOK
  <1> QED
    BY <1>1, <1>2, <1>3, <1>4
    DEF ReleaseNext, releaseVars, StartDeploy, ReadBefore, CreateEngine, BindRoles, UpdateEngine,
        StartPromote, ReadTraffic, StartRollback, SetTraffic, StartPrune, ListCandidates,
        DeleteRevision, StartTeardown, DeleteEngine, Unlink, Stop

LEMMA ReleaseNextIInv == ReleaseInv /\ RecordOK /\ [ReleaseNext]_releaseVars => ReleaseInv'
  <1> SUFFICES ASSUME ReleaseInv, RecordOK, [ReleaseNext]_releaseVars PROVE ReleaseInv'
    OBVIOUS
  <1>1. CASE UNCHANGED releaseVars
    <2>1. engine' = engine /\ op' = op
      BY <1>1 DEF releaseVars
    <2>2. ReleaseTypeOK' /\ Alone' /\ OneEngine' /\ EngineInv'
      BY <2>1 DEF ReleaseInv, ReleaseTypeOK, Alone, OneEngine, EngineInv, Labelled
    <2>3. \A e \in Labelled : Len(engine[e].revs) \in Nat
      BY EngineIsState DEF ReleaseInv, Labelled
    <2>4. \A b \in Builds : DeployInv(b)' /\ TrafficInv(b)'
      BY <2>1, <2>2, <2>3, DeployFrame, TrafficFrame DEF ReleaseInv, Labelled
    <2> QED
      BY <2>2, <2>4 DEF ReleaseInv
  <1>2. ASSUME NEW b \in Builds, WriteRecord(b) \/ AssertTraffic(b) \/ Unlink(b) \/ Stop(b)
        PROVE  ReleaseInv'
    BY <1>2, FinishKeeps DEF WriteRecord, AssertTraffic, Unlink, Stop
  <1>3. ASSUME NEW b \in Builds, NEW c \in Commits, NEW r \in Commits, StartDeploy(b, c, r)
        PROVE  ReleaseInv'
    BY <1>3, StartDeployKeeps
  <1>4. ASSUME NEW b \in Builds, NEW t \in Revisions, NEW p \in Percents, StartPromote(b, t, p)
        PROVE  ReleaseInv'
    BY <1>4, StartPromoteKeeps
  <1>5. ASSUME NEW b \in Builds, NEW t \in Revisions, StartRollback(b, t)
        PROVE  ReleaseInv'
    BY <1>5, StartRollbackKeeps
  <1> QED
    BY <1>1, <1>2, <1>3, <1>4, <1>5, ReadBeforeKeeps, CreateEngineKeeps, BindRolesKeeps,
       UpdateEngineKeeps, ReadTrafficKeeps, SetTrafficKeeps, StartPruneKeeps, ListCandidatesKeeps,
       DeleteRevisionKeeps, StartTeardownKeeps, DeleteEngineKeeps
    DEF ReleaseNext

\* What every command may rely on, always.
THEOREM ReleaseInvariant == ReleaseSpec => []ReleaseInv
  <1>1. ReleaseInit => RecordOK
    BY DEF ReleaseInit, RecordOK
  <1>2. ReleaseInv /\ RecordOK /\ [ReleaseNext]_releaseVars => RecordOK'
    BY RecordStep
  <1> QED
    BY <1>1, <1>2, ReleaseInitIInv, ReleaseNextIInv, PTL DEF ReleaseSpec

\* Never two engines of one namespace and environment (existing_engine_name).
THEOREM ReleaseOneEngine == ReleaseSpec => []OneEngine
  <1>1. ReleaseInv => OneEngine
    BY DEF ReleaseInv
  <1> QED
    BY <1>1, ReleaseInvariant, PTL

\* The record of a strict deploy names the revision that holds its release.
THEOREM RecordedRelease == ReleaseSpec => RecordNamesItsRelease
  <1> DEFINE Holds == \A b \in Builds :
               (Strict /\ WriteRecord(b)) =>
                 /\ record'.revision \in Alive(op[b].at)
                 /\ engine[op[b].at].revs[record'.revision] = record'.sha
  <1>1. ReleaseInv => [Holds]_releaseVars
    <2> SUFFICES ASSUME ReleaseInv, NEW b \in Builds, Strict, WriteRecord(b)
                 PROVE  /\ record'.revision \in Alive(op[b].at)
                        /\ engine[op[b].at].revs[record'.revision] = record'.sha
      OBVIOUS
    <2> DEFINE e == op[b].at
               n == Len(engine[e].revs)
    <2>1. op[b].cmd = "deploy" /\ op[b].stage = "record" /\ engine[e] # None
      BY DEF WriteRecord
    <2>2. /\ e \in Engines /\ n > 0 /\ n \notin op[b].before
          /\ engine[e].revs[n] = op[b].code /\ op[b].code = op[b].sha
      BY <2>1 DEF ReleaseInv, DeployInv
    <2>3. e \in Labelled /\ n \in Nat /\ Alive(e) \subseteq 1 .. n
      BY <2>1, <2>2, EngineIsState DEF Labelled, ReleaseInv
    <2>4. n \in Alive(e) \ op[b].before
      BY <2>2, <2>3, NewestAlive DEF ReleaseInv
    <2>5. Newest(Alive(e) \ op[b].before) = n
      BY <2>3, <2>4, NewestIsLargest
    <2>6. record' = [revision |-> n, sha |-> op[b].sha]
      BY <2>4, <2>5 DEF WriteRecord, NewRevision
    <2> QED
      BY <2>2, <2>4, <2>6
  <1>2. ReleaseSpec => [][Holds]_releaseVars
    BY <1>1, ReleaseInvariant, PTL DEF ReleaseSpec
  <1> QED
    BY <1>2 DEF RecordNamesItsRelease

\* What SetTraffic sets.
LEMMA SetTrafficSets ==
  ASSUME ReleaseInv, NEW b \in Builds, SetTraffic(b)
  PROVE  LET e == op[b].at IN
         /\ e \in Labelled /\ engine'[e].share = op[b].split
         /\ \A r \in Revisions : op[b].split[r] > 0 => r \in Alive(e)
         /\ engine[e].mode = "manual" => KeepsLargest(e, op[b].target, op[b].split)
  <1> DEFINE e == op[b].at
  <1>1. op[b] \in SetOps /\ op[b].stage = "set"
    BY OpKinds DEF SetTraffic, ReleaseInv, ReleaseTypeOK
  <1>2. e \in Labelled
    BY <1>1 DEF SetOps, SetTraffic, Labelled
  <1>3. engine[e] \in EngineState
    BY <1>2, EngineIsState DEF Labelled, ReleaseInv
  <1>4. engine'[e].share = op[b].split
    BY <1>2, <1>3 DEF SetTraffic, ReleaseInv, ReleaseTypeOK, Labelled, EngineState
  <1>5. engine[e].mode = "manual" => KeepsLargest(e, op[b].target, op[b].split)
    BY <1>1 DEF ReleaseInv, TrafficInv
  <1> QED
    BY <1>2, <1>4, <1>5 DEF SetTraffic

\* A canary starts itself only, and leaves the rest where most of it was.
THEOREM CanaryIsSafe == ReleaseSpec => CanaryKeepsStable
  <1> DEFINE Holds == \A b \in Builds : SetTraffic(b) =>
               LET e == op[b].at
                   t == op[b].target
                   others == Serving(e) \ {t}
               IN (engine[e].mode = "manual" /\ others # {}) =>
                    /\ Starts(e) \subseteq {t}
                    /\ \A r \in others : engine'[e].share[r] > 0 =>
                         \A q \in others : engine[e].share[q] <= engine[e].share[r]
  <1>1. ReleaseInv => [Holds]_releaseVars
    <2> SUFFICES ASSUME ReleaseInv, NEW b \in Builds, SetTraffic(b),
                        engine[op[b].at].mode = "manual", Serving(op[b].at) \ {op[b].target} # {}
                 PROVE  /\ Starts(op[b].at) \subseteq {op[b].target}
                        /\ \A r \in Serving(op[b].at) \ {op[b].target} : engine'[op[b].at].share[r] > 0 =>
                             \A q \in Serving(op[b].at) \ {op[b].target} :
                               engine[op[b].at].share[q] <= engine[op[b].at].share[r]
      OBVIOUS
    <2> DEFINE e == op[b].at
               t == op[b].target
    <2>1. /\ e \in Labelled /\ engine'[e].share = op[b].split
          /\ \A r \in Revisions : op[b].split[r] > 0 => r \in Alive(e)
          /\ KeepsLargest(e, t, op[b].split)
      BY SetTrafficSets
    <2>2. \A r \in Revisions : r \in Serving(e) <=> r \in Alive(e) /\ r \in Shared(e)
      BY DEF Serving, Share, Shared
    <2>3. Serving(e) \subseteq Revisions
      <3>1. Alive(e) \subseteq 1 .. Len(engine[e].revs) /\ Len(engine[e].revs) \in Nat
        BY <2>1, EngineIsState DEF Labelled, ReleaseInv
      <3>2. Len(engine[e].revs) <= MaxRevisions
        BY <2>1 DEF ReleaseInv, EngineInv
      <3> QED
        BY <3>1, <3>2, Bounds DEF Serving, Revisions
    <2>4. Shared(e) \ {t} # {}
      BY <2>2, <2>3
    <2>5. Starts(e) \subseteq {t}
      BY <2>1, <2>2, <2>4 DEF Starts, KeepsLargest
    <2>6. \A r \in Serving(e) \ {t} : engine'[e].share[r] > 0 =>
            \A q \in Serving(e) \ {t} : engine[e].share[q] <= engine[e].share[r]
      BY <2>1, <2>2, <2>3, <2>4 DEF KeepsLargest
    <2> QED
      BY <2>5, <2>6
  <1>2. ReleaseSpec => [][Holds]_releaseVars
    BY <1>1, ReleaseInvariant, PTL DEF ReleaseSpec
  <1> QED
    BY <1>2 DEF CanaryKeepsStable

\* What prune deletes has Keep newer ones beside it, and does not serve, provided that
\* a manual split names its targets as the list does.
THEOREM PruneIsSafe == ReleaseSpec => PruneSparesServing
  <1> DEFINE Holds == \A b \in Builds : DeleteRevision(b) =>
               LET e == op[b].at
                   deleted == engine'[e].gone \ engine[e].gone
               IN /\ \A r \in deleted : Cardinality({q \in Alive(e) : q > r}) >= Keep
                  /\ op[b].same \/ engine[e].mode # "manual" => deleted \cap Serving(e) = {}
  <1>1. ReleaseInv => [Holds]_releaseVars
    <2> SUFFICES ASSUME ReleaseInv, NEW b \in Builds, DeleteRevision(b),
                        NEW r \in engine'[op[b].at].gone \ engine[op[b].at].gone
                 PROVE  /\ Cardinality({q \in Alive(op[b].at) : q > r}) >= Keep
                        /\ op[b].same \/ engine[op[b].at].mode # "manual" => r \notin Serving(op[b].at)
      BY Zenon
    <2> DEFINE e == op[b].at
    <2>1. op[b] \in DeleteOps /\ e \in Labelled /\ r \in op[b].todo
      <3>1. op[b] \in DeleteOps
        BY OpKinds DEF DeleteRevision, ReleaseInv, ReleaseTypeOK
      <3>2. e \in Labelled
        BY <3>1 DEF ReleaseInv, TrafficInv, DeleteOps, Labelled
      <3>3. engine[e] \in EngineState
        BY <3>2, EngineIsState DEF Labelled, ReleaseInv
      <3>4. PICK q \in op[b].todo : engine' = [engine EXCEPT ![e].gone = @ \cup {q}]
        BY DEF DeleteRevision
      <3> QED
        BY <3>1, <3>2, <3>3, <3>4 DEF ReleaseInv, ReleaseTypeOK, EngineState, Labelled
    <2>2. /\ r \in 1 .. Len(engine[e].revs) - 1
          /\ op[b].same /\ engine[e].mode = "manual" => r \notin Shared(e)
          /\ Cardinality(Newer(e, r)) >= Keep
      BY <2>1 DEF ReleaseInv, TrafficInv
    <2>3. Len(engine[e].revs) \in Nat /\ Len(engine[e].revs) <= MaxRevisions
      BY <2>1, EngineIsState DEF Labelled, ReleaseInv, EngineInv
    <2>4. Newest(Alive(e)) = Len(engine[e].revs)
      BY <2>1, <2>2, <2>3, NewestAlive DEF ReleaseInv
    <2>5. r \in Revisions
      BY <2>2, <2>3, Bounds DEF Revisions
    <2>6. op[b].same \/ engine[e].mode # "manual" => r \notin Serving(e)
      BY <2>2, <2>3, <2>4, <2>5 DEF Serving, Share, Shared
    <2> QED
      BY <2>2, <2>6 DEF Newer
  <1>2. ReleaseSpec => [][Holds]_releaseVars
    BY <1>1, ReleaseInvariant, PTL DEF ReleaseSpec
  <1> QED
    BY <1>2 DEF PruneSparesServing

(* ------------------------------ Provision ------------------------------- *)

\* A run of a script: the next call, and what looking before it found.
RunRecord == [at : Nat, looked : BOOLEAN, found : BOOLEAN]
Quickstart == [stage : {"idle", "smoke", "finally", "done"}, engine : BOOLEAN,
               result : {"none", "OK", "FAILED", "error"}]

\* The provisioning state is well formed.
ProvisionTypeOK ==
  /\ script \in Scripts
  /\ public \in BOOLEAN /\ recorded \in BOOLEAN
  /\ run \in [Operators -> RunRecord \cup {NoRun}]
  /\ quick \in [Apps -> Quickstart]

\* The i-th call of a script.
CallOf(s, i) == Script[s][i]

\* What the calls that a run has behind it have left: all their resources, and
\* once the last check is passed a service that was private since the last grant.
Behind(o) ==
  run[o] # NoRun =>
    /\ run[o].at \in 1 .. Len(Script[script])
    /\ \A i \in 1 .. run[o].at - 1 :
         CallOf(script, i).do # "private" => CallOf(script, i).res \in exists
    /\ run[o].found => Current(o).res \in exists
    /\ script = "mcp" /\ run[o].at = 5 => o \in closed

\* What events_deploy makes before the subscription, and Pub/Sub needs to push.
BeforePush == {"topic", "worker", "invoker", "token_creator", "index"}

\* What the calls that are over have left behind, for every run and for the record.
ProvisionInv ==
  /\ ProvisionTypeOK
  /\ \A o \in Operators : Behind(o)
  /\ "subscription" \in exists => BeforePush \subseteq exists
  /\ recorded => Needed(script) \subseteq exists
  /\ public => "mcp_service" \in exists
  /\ ~public => Operators \subseteq closed
  /\ NothingLeftUnreported

\* The scripts: a record is the last call; the subscription is made eleventh of the
\* twelve calls of events_deploy, after what a push needs.
LEMMA Calls ==
  /\ Scripts = {"events", "mcp", "bucket"}
  /\ \A s \in Scripts : Len(Script[s]) \in Nat /\ Len(Script[s]) >= 3
  /\ \A s \in Scripts : \A i \in 1 .. Len(Script[s]) :
       /\ (CallOf(s, i).do = "record") <=> (i = Len(Script[s]))
       /\ CallOf(s, i).do = "private" => s = "mcp" /\ CallOf(s, i).res = "mcp_service"
       /\ CallOf(s, i).res = "subscription" => s = "events" /\ i = 11
  /\ Len(Script["mcp"]) = 5 /\ Script["mcp"][4].do = "private"
  /\ Script["mcp"][2] = Call("put", "mcp_service")
  /\ Len(Script["events"]) = 12
  /\ \A r \in BeforePush : \E i \in 1 .. 10 : CallOf("events", i).res = r
<1>1. Scripts = {"events", "mcp", "bucket"}
  BY DEF Scripts, Script
<1>2. /\ Script["events"] = EventsScript /\ Script["mcp"] = McpScript
      /\ Script["bucket"] = BucketScript
  BY DEF Script
<1>3. /\ Len(EventsScript) = 12
      /\ \A i \in 1 .. 12 :
           /\ (EventsScript[i].do = "record") <=> (i = 12)
           /\ EventsScript[i].do # "private"
           /\ EventsScript[i].res = "subscription" => i = 11
      /\ \A r \in BeforePush : \E i \in 1 .. 10 : EventsScript[i].res = r
  <2>1. \A i \in 1 .. 12 : i = 1 \/ i = 2 \/ i = 3 \/ i = 4 \/ i = 5 \/ i = 6 \/ i = 7 \/ i = 8
                             \/ i = 9 \/ i = 10 \/ i = 11 \/ i = 12
    OBVIOUS
  <2>2. Len(EventsScript) = 12
    BY DEF EventsScript
  <2>3. /\ EventsScript[1] = Call("create", "database") /\ EventsScript[2] = Call("create", "topic")
        /\ EventsScript[3] = Call("create", "push_sa")
        /\ EventsScript[4] = Call("put", "frontend_database_user")
        /\ EventsScript[5] = Call("put", "runtime_database_user")
        /\ EventsScript[6] = Call("put", "publisher")
        /\ EventsScript[7] = Call("put", "token_creator")
        /\ EventsScript[8] = Call("ensure", "index") /\ EventsScript[9] = Call("put", "worker")
        /\ EventsScript[10] = Call("put", "invoker")
        /\ EventsScript[11] = Call("upsert", "subscription")
        /\ EventsScript[12] = Call("record", "events")
    BY DEF EventsScript
  <2> QED
    BY <2>1, <2>2, <2>3 DEF Call, BeforePush
<1>4. /\ Len(McpScript) = 5
      /\ McpScript[4].do = "private" /\ McpScript[2] = Call("put", "mcp_service")
      /\ \A i \in 1 .. 5 :
           /\ (McpScript[i].do = "record") <=> (i = 5)
           /\ McpScript[i].do = "private" => McpScript[i].res = "mcp_service"
           /\ McpScript[i].res # "subscription"
  BY DEF McpScript, Call
<1>5. /\ Len(BucketScript) = 3
      /\ \A i \in 1 .. 3 :
           /\ (BucketScript[i].do = "record") <=> (i = 3)
           /\ BucketScript[i].do # "private"
           /\ BucketScript[i].res # "subscription"
  BY DEF BucketScript, Call
<1>6. ASSUME NEW s \in Scripts, NEW i \in 1 .. Len(Script[s])
      PROVE  /\ (CallOf(s, i).do = "record") <=> (i = Len(Script[s]))
             /\ CallOf(s, i).do = "private" => s = "mcp" /\ CallOf(s, i).res = "mcp_service"
             /\ CallOf(s, i).res = "subscription" => s = "events" /\ i = 11
  <2>1. CASE s = "events"
    BY <2>1, <1>2, <1>3 DEF CallOf
  <2>2. CASE s = "mcp"
    BY <2>2, <1>2, <1>4 DEF CallOf
  <2>3. CASE s = "bucket"
    BY <2>3, <1>2, <1>5 DEF CallOf
  <2> QED
    BY <1>1, <2>1, <2>2, <2>3
<1>7. \A r \in BeforePush : \E i \in 1 .. 10 : CallOf("events", i).res = r
  BY <1>2, <1>3 DEF CallOf
<1>8. \A s \in Scripts : Len(Script[s]) = 12 \/ Len(Script[s]) = 5 \/ Len(Script[s]) = 3
  BY <1>1, <1>2, <1>3, <1>4, <1>5
<1>9. \A s \in Scripts : Len(Script[s]) \in Nat /\ Len(Script[s]) >= 3
  <2>1. \A n : n = 12 \/ n = 5 \/ n = 3 => n \in Nat /\ n >= 3
    OBVIOUS
  <2> QED
    BY <1>8, <2>1, Zenon
<1>10. /\ Len(Script["mcp"]) = 5 /\ Script["mcp"][4].do = "private"
       /\ Script["mcp"][2] = Call("put", "mcp_service")
       /\ Len(Script["events"]) = 12
  BY <1>2, <1>3, <1>4
<1>11. \A s \in Scripts : \A i \in 1 .. Len(Script[s]) :
         /\ (CallOf(s, i).do = "record") <=> (i = Len(Script[s]))
         /\ CallOf(s, i).do = "private" => s = "mcp" /\ CallOf(s, i).res = "mcp_service"
         /\ CallOf(s, i).res = "subscription" => s = "events" /\ i = 11
  BY <1>6
<1> QED
  BY <1>1, <1>7, <1>9, <1>10, <1>11

USE DEF RunRecord

\* In the beginning nothing is there, and nothing was recorded.
LEMMA ProvisionInitInv == ProvisionInit => ProvisionInv
<1> SUFFICES ASSUME ProvisionInit
             PROVE  ProvisionInv
  OBVIOUS
<1>1. ProvisionTypeOK
  BY DEF ProvisionInit, ProvisionTypeOK, Quickstart
<1>2. \A o \in Operators : Behind(o)
  BY DEF ProvisionInit, Behind
<1>3. NothingLeftUnreported
  BY DEF ProvisionInit, NothingLeftUnreported
<1> QED
  BY <1>1, <1>2, <1>3 DEF ProvisionInit, ProvisionInv

\* The state of a run at its next call.
LEMMA NextCall ==
  ASSUME NEW r \in RunRecord
  PROVE  /\ Next1(r) \in RunRecord
         /\ Next1(r).at = r.at + 1 /\ Next1(r).found = FALSE
<1> DEFINE a == [r EXCEPT !.at = r.at + 1]
           b == [a EXCEPT !.looked = FALSE]
           c == [b EXCEPT !.found = FALSE]
<1>1. a \in RunRecord /\ a.at = r.at + 1
  OBVIOUS
<1>2. ASSUME NEW x \in RunRecord
      PROVE  /\ [x EXCEPT !.looked = FALSE] \in RunRecord /\ [x EXCEPT !.looked = FALSE].at = x.at
             /\ [x EXCEPT !.found = FALSE] \in RunRecord /\ [x EXCEPT !.found = FALSE].at = x.at
  OBVIOUS
<1>3. ASSUME NEW x \in RunRecord
      PROVE  [x EXCEPT !.found = FALSE].found = FALSE
  OBVIOUS
<1>4. Next1(r) = c
  BY DEF Next1
<1> HIDE DEF a, c
<1>5. b \in RunRecord /\ b.at = r.at + 1
  BY <1>1, <1>2
<1> HIDE DEF b
<1>6. c \in RunRecord /\ c.at = r.at + 1 /\ c.found = FALSE
  BY <1>2, <1>3, <1>5 DEF c
<1> QED
  BY <1>4, <1>6

\* The runs of the others keep what they rely on when resources are only added
\* and the service is neither opened nor closed.
LEMMA RunStep ==
  ASSUME ProvisionInv, NEW o \in Operators, NEW r \in RunRecord \cup {NoRun},
         run' = [run EXCEPT ![o] = r],
         exists \subseteq exists', UNCHANGED <<script, public, quick>>,
         recorded' \in BOOLEAN,
         \A p \in closed : p # o => p \in closed',
         ~public => Operators \subseteq closed',
         Behind(o)',
         "subscription" \in exists' => BeforePush \subseteq exists',
         recorded' => Needed(script) \subseteq exists'
  PROVE  ProvisionInv'
<1>1. ProvisionTypeOK'
  BY DEF ProvisionInv, ProvisionTypeOK
<1>2. ASSUME NEW p \in Operators, p # o
      PROVE  Behind(p)'
  <2>1. run'[p] = run[p]
    BY <1>2 DEF ProvisionInv, ProvisionTypeOK
  <2> QED
    BY <2>1 DEF ProvisionInv, Behind, Current, CallOf
<1>3. \A p \in Operators : Behind(p)'
  BY <1>2
<1> QED
  BY <1>1, <1>3 DEF ProvisionInv, NothingLeftUnreported

\* What is next after a call that left its resource, or needs none.
LEMMA CallDone ==
  ASSUME ProvisionInv, NEW o \in Operators, run[o] # NoRun, Current(o).do # "record",
         run' = [run EXCEPT ![o] = Next1(@)],
         exists \subseteq exists', UNCHANGED <<script, public>>,
         Current(o).do # "private" => Current(o).res \in exists',
         Current(o).do = "private" => o \in closed'
  PROVE  /\ Next1(run[o]) \in RunRecord
         /\ Behind(o)'
<1>1. run[o] \in RunRecord
  BY DEF ProvisionInv, ProvisionTypeOK
<1>2. /\ Next1(run[o]) \in RunRecord
      /\ Next1(run[o]).at = run[o].at + 1 /\ Next1(run[o]).found = FALSE
  BY <1>1, NextCall
<1>3. run'[o] = Next1(run[o])
  BY DEF ProvisionInv, ProvisionTypeOK
<1>4. /\ run[o].at \in 1 .. Len(Script[script])
      /\ \A i \in 1 .. run[o].at - 1 :
           CallOf(script, i).do # "private" => CallOf(script, i).res \in exists
      /\ Current(o) = CallOf(script, run[o].at)
  BY DEF ProvisionInv, Behind, Current, CallOf
<1>5. script \in Scripts /\ Len(Script[script]) \in Nat
  BY Calls DEF ProvisionInv, ProvisionTypeOK
<1>6. run[o].at + 1 \in 1 .. Len(Script[script])
  BY <1>4, <1>5, Calls
<1>7. \A i \in 1 .. run[o].at :
        CallOf(script, i).do # "private" => CallOf(script, i).res \in exists'
  BY <1>4
<1>8. script = "mcp" /\ run[o].at + 1 = 5 => o \in closed'
  <2>1. run[o].at + 1 = 5 => run[o].at = 4
    BY <1>4, <1>5
  <2> QED
    BY <2>1, <1>4, Calls DEF CallOf
<1>9. run'[o].at \in 1 .. Len(Script[script']) /\ run'[o].at - 1 = run[o].at /\ run'[o].found = FALSE
  BY <1>1, <1>2, <1>3, <1>6
<1>10. /\ \A i \in 1 .. run'[o].at - 1 :
            CallOf(script', i).do # "private" => CallOf(script', i).res \in exists'
       /\ script' = "mcp" /\ run'[o].at = 5 => o \in closed'
  BY <1>2, <1>3, <1>7, <1>8, <1>9
<1> QED
  BY <1>2, <1>9, <1>10 DEF Behind, CallOf

\* Whoever comes to the subscription has made what a push needs.
LEMMA PushReady ==
  ASSUME ProvisionInv, NEW o \in Operators, run[o] # NoRun, Current(o).res = "subscription"
  PROVE  BeforePush \subseteq exists
<1>1. /\ script \in Scripts /\ Behind(o)
      /\ Current(o) = CallOf(script, run[o].at)
  BY DEF ProvisionInv, ProvisionTypeOK, Current, CallOf
<1>2. script = "events" /\ run[o].at = 11
  BY <1>1, Calls DEF Behind
<1> SUFFICES ASSUME NEW r \in BeforePush
             PROVE  r \in exists
  OBVIOUS
<1>3. PICK i \in 1 .. 10 : CallOf("events", i).res = r
  BY Calls
<1>4. CallOf("events", i).do # "private"
  <2>1. "events" \in Scripts /\ i \in 1 .. Len(Script["events"])
    BY Calls
  <2> QED
    BY <2>1, Calls
<1> QED
  BY <1>1, <1>2, <1>3, <1>4 DEF Behind

\* What a call adds leaves the subscription with what it needs.
LEMMA AddedResource ==
  ASSUME ProvisionInv, NEW o \in Operators, run[o] # NoRun,
         exists' = exists \cup {Current(o).res}
  PROVE  /\ exists \subseteq exists' /\ Current(o).res \in exists'
         /\ "subscription" \in exists' => BeforePush \subseteq exists'
         /\ recorded => Needed(script) \subseteq exists'
<1>1. CASE Current(o).res = "subscription"
  BY <1>1, PushReady DEF ProvisionInv
<1>2. CASE Current(o).res # "subscription"
  BY <1>2 DEF ProvisionInv
<1> QED
  BY <1>1, <1>2

\* A script begins at its first call, with nothing behind it.
LEMMA StartKeeps ==
  ASSUME ProvisionInv, NEW o \in Operators, StartScript(o)
  PROVE  ProvisionInv'
<1> DEFINE r == [at |-> 1, looked |-> FALSE, found |-> FALSE]
<1>1. /\ run' = [run EXCEPT ![o] = r] /\ r \in RunRecord
      /\ UNCHANGED <<script, exists, public, recorded, closed, quick>>
  BY DEF StartScript
<1>2. run'[o] = r
  BY <1>1 DEF ProvisionInv, ProvisionTypeOK
<1>3. 1 \in 1 .. Len(Script[script'])
  BY <1>1, Calls DEF ProvisionInv, ProvisionTypeOK
<1>4. Behind(o)'
  BY <1>1, <1>2, <1>3 DEF Behind
<1>5. /\ recorded' \in BOOLEAN
      /\ ~public => Operators \subseteq closed'
      /\ "subscription" \in exists' => BeforePush \subseteq exists'
      /\ recorded' => Needed(script) \subseteq exists'
  BY <1>1 DEF ProvisionInv, ProvisionTypeOK
<1> QED
  BY <1>1, <1>4, <1>5, RunStep

\* Stopping leaves nothing to rely on.
LEMMA StopKeeps ==
  ASSUME ProvisionInv, NEW o \in Operators,
         run' = [run EXCEPT ![o] = NoRun],
         exists \subseteq exists', UNCHANGED <<script, public, closed, quick>>,
         recorded' \in BOOLEAN,
         "subscription" \in exists' => BeforePush \subseteq exists',
         recorded' => Needed(script) \subseteq exists'
  PROVE  ProvisionInv'
<1>1. run'[o] = NoRun
  BY DEF ProvisionInv, ProvisionTypeOK
<1>2. Behind(o)'
  BY <1>1 DEF Behind
<1>3. ~public => Operators \subseteq closed'
  BY DEF ProvisionInv
<1> QED
  BY <1>2, <1>3, RunStep

\* What was looked at and found is there.
LEMMA LookKeeps ==
  ASSUME ProvisionInv, NEW o \in Operators, Look(o)
  PROVE  ProvisionInv'
<1> DEFINE found == Current(o).res \in exists
           a == [run[o] EXCEPT !.looked = TRUE]
           r == [a EXCEPT !.found = found]
<1>1. run[o] \in RunRecord /\ run[o] # NoRun
  BY DEF ProvisionInv, ProvisionTypeOK, Look, Running
<1>2. a \in RunRecord /\ a.at = run[o].at
  BY <1>1
<1>3. found \in BOOLEAN
  OBVIOUS
<1>4. ASSUME NEW x \in RunRecord, NEW y \in BOOLEAN
      PROVE  /\ [x EXCEPT !.found = y] \in RunRecord /\ [x EXCEPT !.found = y].at = x.at
             /\ [x EXCEPT !.found = y].found = y
  OBVIOUS
<1>5. run' = [run EXCEPT ![o] = r]
  BY <1>1 DEF Look, ProvisionInv, ProvisionTypeOK
<1> HIDE DEF a, found
<1>6. r \in RunRecord /\ r.at = run[o].at /\ r.found = found
  BY <1>2, <1>3, <1>4
<1> HIDE DEF r
<1>7. run'[o] = r
  BY <1>5 DEF ProvisionInv, ProvisionTypeOK
<1>8. UNCHANGED <<script, exists, public, recorded, closed, quick>>
  BY DEF Look
<1>9. Behind(o)'
  <2>1. Behind(o) /\ Current(o)' = Current(o)
    BY <1>6, <1>7, <1>8 DEF ProvisionInv, Current
  <2> QED
    BY <2>1, <1>1, <1>6, <1>7, <1>8 DEF Behind, CallOf, found
<1>10. /\ recorded' \in BOOLEAN
       /\ ~public => Operators \subseteq closed'
       /\ "subscription" \in exists' => BeforePush \subseteq exists'
       /\ recorded' => Needed(script) \subseteq exists'
  BY <1>8 DEF ProvisionInv, ProvisionTypeOK
<1> QED
  BY <1>5, <1>6, <1>8, <1>9, <1>10, RunStep

\* Skip, Put and CheckPrivate, and a Create that was not refused.
LEMMA DoneKeeps ==
  ASSUME ProvisionInv, NEW o \in Operators, run[o] # NoRun, Current(o).do # "record",
         run' = [run EXCEPT ![o] = Next1(@)],
         exists' = exists \/ exists' = exists \cup {Current(o).res},
         UNCHANGED <<script, public, recorded, quick>>,
         \A p \in closed : p # o => p \in closed',
         ~public => Operators \subseteq closed',
         Current(o).do # "private" => Current(o).res \in exists',
         Current(o).do = "private" => o \in closed'
  PROVE  ProvisionInv'
<1>1. /\ exists \subseteq exists'
      /\ "subscription" \in exists' => BeforePush \subseteq exists'
      /\ recorded' => Needed(script) \subseteq exists'
  BY AddedResource DEF ProvisionInv
<1>2. Next1(run[o]) \in RunRecord /\ Behind(o)'
  BY <1>1, CallDone
<1>3. recorded' \in BOOLEAN
  BY DEF ProvisionInv, ProvisionTypeOK
<1> QED
  BY <1>1, <1>2, <1>3, RunStep

\* A resource that was found is as good as one that was made.
LEMMA SkipKeeps ==
  ASSUME ProvisionInv, NEW o \in Operators, Skip(o)
  PROVE  ProvisionInv'
<1>1. /\ Current(o).do \in {"create", "ensure", "upsert"} /\ Current(o).res \in exists
      /\ run[o] # NoRun /\ closed' = closed /\ (~public => Operators \subseteq closed)
  BY DEF Skip, Running, ProvisionInv, Behind
<1> QED
  BY <1>1, DoneKeeps DEF Skip

\* What could be created is there, and what could not stops the run.
LEMMA CreateKeeps ==
  ASSUME ProvisionInv, NEW o \in Operators, Create(o)
  PROVE  ProvisionInv'
<1>1. /\ Current(o).do \in {"create", "ensure", "upsert"} /\ run[o] # NoRun
      /\ exists' = exists \cup {Current(o).res}
      /\ UNCHANGED <<script, public, recorded, closed, quick>>
      /\ ~public => Operators \subseteq closed
  BY DEF Create, Running, ProvisionInv
<1>2. CASE run' = [run EXCEPT ![o] = NoRun]
  BY <1>1, <1>2, StopKeeps, AddedResource DEF ProvisionInv, ProvisionTypeOK
<1>3. CASE run' = [run EXCEPT ![o] = Next1(@)]
  BY <1>1, <1>3, DoneKeeps
<1> QED
  BY <1>2, <1>3 DEF Create

\* A call that replaces its resource leaves it there.
LEMMA PutKeeps ==
  ASSUME ProvisionInv, NEW o \in Operators, Put(o)
  PROVE  ProvisionInv'
<1>1. /\ Current(o).do = "put" /\ run[o] # NoRun
      /\ exists' = exists \cup {Current(o).res}
      /\ run' = [run EXCEPT ![o] = Next1(@)]
      /\ UNCHANGED <<script, public, recorded, quick>>
  BY DEF Put, Running
<1>2. /\ \A p \in closed : p # o => p \in closed'
      /\ ~public => Operators \subseteq closed'
  BY DEF Put, ProvisionInv
<1> QED
  BY <1>1, <1>2, DoneKeeps

\* A check that is passed found the service private, or no service, which
\* then nobody can have opened.
LEMMA CheckKeeps ==
  ASSUME ProvisionInv, NEW o \in Operators, CheckPrivate(o)
  PROVE  ProvisionInv'
<1>1. /\ Current(o).do = "private" /\ run[o] # NoRun
      /\ UNCHANGED <<script, exists, public, recorded, closed, quick>>
  BY DEF CheckPrivate, Running
<1>2. CASE public /\ Current(o).res \in exists
  <2>1. run' = [run EXCEPT ![o] = NoRun]
    BY <1>2 DEF CheckPrivate
  <2> QED
    BY <1>1, <2>1, StopKeeps DEF ProvisionInv, ProvisionTypeOK
<1>3. CASE ~(public /\ Current(o).res \in exists)
  <2>1. run' = [run EXCEPT ![o] = Next1(@)]
    BY <1>3 DEF CheckPrivate
  <2>2. Current(o).res = "mcp_service"
    <3>1. script \in Scripts /\ run[o].at \in 1 .. Len(Script[script])
      BY <1>1 DEF ProvisionInv, ProvisionTypeOK, Behind
    <3> QED
      BY <1>1, <3>1, Calls DEF Current, CallOf
  <2>3. ~public /\ Operators \subseteq closed
    BY <1>3, <2>2 DEF ProvisionInv
  <2> QED
    BY <1>1, <2>1, <2>3, DoneKeeps
<1> QED
  BY <1>2, <1>3

\* At its record a run has everything the script is there for, and a service
\* that was private when it was checked.
LEMMA AtRecord ==
  ASSUME ProvisionInv, NEW o \in Operators, run[o] # NoRun, Current(o).do = "record"
  PROVE  /\ Needed(script) \subseteq exists
         /\ script = "mcp" => o \in closed
<1>1. script \in Scripts /\ Behind(o) /\ Current(o) = CallOf(script, run[o].at)
  BY DEF ProvisionInv, ProvisionTypeOK, Current, CallOf
<1>2. run[o].at = Len(Script[script]) /\ Len(Script[script]) \in Nat /\ Len(Script[script]) >= 3
  BY <1>1, Calls DEF Behind
<1>3. ASSUME NEW i \in 1 .. Len(Script[script]) - 1
      PROVE  CallOf(script, i).res \in exists
  <2>1. CASE CallOf(script, i).do # "private"
    BY <2>1, <1>1, <1>2 DEF Behind
  <2>2. CASE CallOf(script, i).do = "private"
    <3>1. script = "mcp" /\ CallOf(script, i).res = "mcp_service"
      BY <2>2, <1>1, <1>2, Calls
    <3>2. 2 \in 1 .. run[o].at - 1
      BY <1>2
    <3>3. CallOf("mcp", 2).do = "put" /\ CallOf("mcp", 2).res = "mcp_service"
      BY Calls DEF CallOf, Call
    <3> QED
      BY <1>1, <3>1, <3>2, <3>3 DEF Behind
  <2> QED
    BY <2>1, <2>2
<1>4. Needed(script) \subseteq exists
  BY <1>3 DEF Needed, CallOf
<1>5. script = "mcp" => o \in closed
  BY <1>1, <1>2, Calls DEF Behind
<1> QED
  BY <1>4, <1>5

\* The record is the last call, so everything before it is there.
LEMMA RecordKeeps ==
  ASSUME ProvisionInv, NEW o \in Operators, Record(o)
  PROVE  ProvisionInv'
<1>1. /\ Current(o).do = "record" /\ run[o] # NoRun
      /\ recorded' = TRUE /\ run' = [run EXCEPT ![o] = NoRun]
      /\ UNCHANGED <<script, exists, public, closed, quick>>
  BY DEF Record, Running
<1>2. Needed(script) \subseteq exists'
  BY <1>1, AtRecord
<1>3. "subscription" \in exists' => BeforePush \subseteq exists'
  BY <1>1 DEF ProvisionInv
<1> QED
  BY <1>1, <1>2, <1>3, StopKeeps

\* A call that fails may have had its effect; the run stops.
LEMMA FailKeeps ==
  ASSUME ProvisionInv, NEW o \in Operators, CallFails(o)
  PROVE  ProvisionInv'
<1>1. /\ run[o] # NoRun /\ run' = [run EXCEPT ![o] = NoRun]
      /\ exists' = exists \/ exists' = exists \cup {Current(o).res}
      /\ UNCHANGED <<script, public, recorded, closed, quick>>
  BY DEF CallFails
<1>2. /\ exists \subseteq exists'
      /\ "subscription" \in exists' => BeforePush \subseteq exists'
      /\ recorded' => Needed(script) \subseteq exists'
  BY <1>1, AddedResource DEF ProvisionInv
<1>3. recorded' \in BOOLEAN
  BY <1>1 DEF ProvisionInv, ProvisionTypeOK
<1> QED
  BY <1>1, <1>2, <1>3, StopKeeps

\* Opening the service takes nothing from what was private before, and closing it
\* makes it private for every run.
LEMMA SetPublicKeeps ==
  ASSUME ProvisionInv, SetPublic
  PROVE  ProvisionInv'
<1>1. /\ UNCHANGED <<script, exists, recorded, run, quick>>
      /\ "mcp_service" \in exists /\ public' = ~public
      /\ closed' = IF public THEN Operators ELSE closed
  BY DEF SetPublic
<1>2. ProvisionTypeOK'
  BY <1>1 DEF ProvisionInv, ProvisionTypeOK
<1>3. \A o \in Operators : o \in closed => o \in closed'
  BY <1>1
<1>4. \A o \in Operators : Behind(o)'
  BY <1>1, <1>3 DEF ProvisionInv, Behind, Current, CallOf
<1>5. ~public' => Operators \subseteq closed'
  BY <1>1 DEF ProvisionInv, ProvisionTypeOK
<1> QED
  BY <1>1, <1>2, <1>4, <1>5 DEF ProvisionInv, NothingLeftUnreported

\* The quickstarts and the scripts do not meet.
LEMMA QuickStep ==
  ASSUME ProvisionInv, UNCHANGED scriptVars,
         quick' \in [Apps -> Quickstart], NothingLeftUnreported'
  PROVE  ProvisionInv'
<1>1. ProvisionTypeOK'
  BY DEF ProvisionInv, ProvisionTypeOK, scriptVars
<1>2. \A o \in Operators : Behind(o)'
  BY DEF ProvisionInv, Behind, Current, CallOf, scriptVars
<1> QED
  BY <1>1, <1>2 DEF ProvisionInv, scriptVars

\* A quickstart deployment that is done with an engine left says error.
LEMMA QuickSet ==
  ASSUME ProvisionInv, NEW a \in Apps, NEW stage \in {"idle", "smoke", "finally", "done"},
         NEW made \in BOOLEAN, NEW result \in {"none", "OK", "FAILED", "error"},
         Quick(a, stage, made, result),
         stage = "done" /\ made => result = "error"
  PROVE  ProvisionInv'
<1> DEFINE q == [stage |-> stage, engine |-> made, result |-> result]
<1>1. q \in Quickstart /\ q.stage = stage /\ q.engine = made /\ q.result = result
  BY DEF Quickstart
<1>2. quick' = [quick EXCEPT ![a] = q] /\ UNCHANGED scriptVars
  BY DEF Quick
<1> HIDE DEF q
<1>3. quick' \in [Apps -> Quickstart]
  BY <1>1, <1>2 DEF ProvisionInv, ProvisionTypeOK
<1>4. NothingLeftUnreported'
  BY <1>1, <1>2 DEF ProvisionInv, ProvisionTypeOK, NothingLeftUnreported
<1> QED
  BY <1>2, <1>3, <1>4, QuickStep

\* The three steps of deploy_one.
LEMMA QuickKeeps ==
  ASSUME ProvisionInv, NEW a \in Apps, CreateQuick(a) \/ SmokeQuick(a) \/ DeleteQuick(a)
  PROVE  ProvisionInv'
<1>1. quick[a] \in Quickstart
  BY DEF ProvisionInv, ProvisionTypeOK
<1>2. quick[a].engine \in BOOLEAN /\ quick[a].result \in {"none", "OK", "FAILED", "error"}
  BY <1>1 DEF Quickstart
<1>3. CASE CreateQuick(a)
  BY <1>3, QuickSet DEF CreateQuick
<1>4. CASE SmokeQuick(a)
  BY <1>2, <1>4, QuickSet DEF SmokeQuick
<1>5. CASE DeleteQuick(a)
  BY <1>2, <1>5, QuickSet DEF DeleteQuick
<1> QED
  BY <1>3, <1>4, <1>5

\* The cleanup of the quickstarts leaves no engine.
LEMMA DeleteAllKeeps ==
  ASSUME ProvisionInv, DeleteAllQuick
  PROVE  ProvisionInv'
<1>1. quick' = [a \in Apps |-> [quick[a] EXCEPT !.engine = FALSE]] /\ UNCHANGED scriptVars
  BY DEF DeleteAllQuick
<1>2. ASSUME NEW q \in Quickstart
      PROVE  [q EXCEPT !.engine = FALSE] \in Quickstart /\ [q EXCEPT !.engine = FALSE].engine = FALSE
  BY DEF Quickstart
<1>3. quick' \in [Apps -> Quickstart] /\ \A a \in Apps : quick'[a].engine = FALSE
  BY <1>1, <1>2 DEF ProvisionInv, ProvisionTypeOK
<1>4. NothingLeftUnreported'
  BY <1>3 DEF NothingLeftUnreported
<1> QED
  BY <1>1, <1>3, <1>4, QuickStep

\* Every step preserves the invariant.
LEMMA ProvisionNextInv == ProvisionInv /\ [ProvisionNext]_provisionVars => ProvisionInv'
<1> SUFFICES ASSUME ProvisionInv, [ProvisionNext]_provisionVars
             PROVE  ProvisionInv'
  OBVIOUS
<1>1. ASSUME NEW o \in Operators, StartScript(o)
      PROVE  ProvisionInv'
  BY <1>1, StartKeeps
<1>2. ASSUME NEW o \in Operators, Look(o)
      PROVE  ProvisionInv'
  BY <1>2, LookKeeps
<1>3. ASSUME NEW o \in Operators, Skip(o)
      PROVE  ProvisionInv'
  BY <1>3, SkipKeeps
<1>4. ASSUME NEW o \in Operators, Create(o)
      PROVE  ProvisionInv'
  BY <1>4, CreateKeeps
<1>5. ASSUME NEW o \in Operators, Put(o)
      PROVE  ProvisionInv'
  BY <1>5, PutKeeps
<1>6. ASSUME NEW o \in Operators, CheckPrivate(o)
      PROVE  ProvisionInv'
  BY <1>6, CheckKeeps
<1>7. ASSUME NEW o \in Operators, Record(o)
      PROVE  ProvisionInv'
  BY <1>7, RecordKeeps
<1>8. ASSUME NEW o \in Operators, CallFails(o)
      PROVE  ProvisionInv'
  BY <1>8, FailKeeps
<1>9. CASE SetPublic
  BY <1>9, SetPublicKeeps
<1>10. ASSUME NEW a \in Apps, CreateQuick(a) \/ SmokeQuick(a) \/ DeleteQuick(a)
       PROVE  ProvisionInv'
  BY <1>10, QuickKeeps
<1>11. CASE DeleteAllQuick
  BY <1>11, DeleteAllKeeps
<1>12. CASE UNCHANGED provisionVars
  BY <1>12, QuickStep DEF provisionVars, ProvisionInv, ProvisionTypeOK, NothingLeftUnreported
<1> QED
  BY <1>1, <1>2, <1>3, <1>4, <1>5, <1>6, <1>7, <1>8, <1>9, <1>10, <1>11, <1>12 DEF ProvisionNext

\* Whatever calls fail and whoever else runs the script, the calls behind a run
\* have left their resources.
THEOREM ProvisionInvariant == ProvisionSpec => []ProvisionInv
<1> QED
  BY ProvisionInitInv, ProvisionNextInv, PTL DEF ProvisionSpec

\* Pub/Sub has a worker to push to, and a frontend that is set up can publish.
THEOREM PushIsReady == ProvisionSpec => []PushFindsWorker
<1>1. ProvisionInv => PushFindsWorker
  <2> SUFFICES ASSUME ProvisionInv, script = "events", recorded
               PROVE  {"publisher", "subscription", "frontend_database_user", "runtime_database_user"}
                        \subseteq exists
    BY DEF ProvisionInv, BeforePush, PushFindsWorker
  <2>1. /\ Len(Script["events"]) = 12
        /\ Script["events"][4].res = "frontend_database_user"
        /\ Script["events"][5].res = "runtime_database_user"
        /\ Script["events"][6].res = "publisher" /\ Script["events"][11].res = "subscription"
    BY DEF Script, EventsScript, Call
  <2>2. \A i \in 1 .. 11 : Script["events"][i].res \in Needed("events")
    BY <2>1 DEF Needed
  <2> QED
    BY <2>1, <2>2 DEF ProvisionInv
<1> QED
  BY <1>1, ProvisionInvariant, PTL

\* No quickstart's engine is left behind unless an error is reported for it.
THEOREM LeftIsReported == ProvisionSpec => []NothingLeftUnreported
<1>1. ProvisionInv => NothingLeftUnreported
  BY DEF ProvisionInv
<1> QED
  BY <1>1, ProvisionInvariant, PTL

\* The outcome of a script is written when everything it is for is there, and a
\* service that is reported as checked was private after the last change to it.
THEOREM RecordIsTrue == ProvisionSpec => RecordedIsReady
<1>1. ProvisionInv /\ [ProvisionNext]_provisionVars =>
        [\A o \in Operators : Record(o) =>
           Needed(script) \subseteq exists /\ (script = "mcp" => o \in closed)]_provisionVars
  BY AtRecord DEF Record, Running
<1> QED
  BY <1>1, ProvisionInvariant, PTL DEF ProvisionSpec, RecordedIsReady
=============================================================================
