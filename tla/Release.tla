------------------------------ MODULE Release ------------------------------
(***************************************************************************)
(* Releases of the agent: deploy.py, traffic.py and teardown.py working on *)
(* the engines of one namespace and environment.  Builds run commands, on  *)
(* a laptop or in a pipeline, and share one deployment record (that of a   *)
(* pipeline goes with its checkout).  Every call to the platform is a      *)
(* step, and a command can stop after any of them.                         *)
(*                                                                         *)
(* Deploys do not overlap, and neither do traffic commands: the one rule   *)
(* that docs/PROMOTION_STRATEGY.md leaves to the operator.  A deploy and a *)
(* traffic command do overlap.                                             *)
(***************************************************************************)
EXTENDS Integers, Sequences, FiniteSets

CONSTANTS
  Builds,         \* what runs commands
  Commits,        \* what a checkout or a release manifest can be at
  Engines,        \* names the platform gives to engines it creates
  MaxRevisions,   \* bound on the revisions of one engine
  Percents,       \* bound on the values of --percent
  Keep,           \* prune: --keep
  AlwaysLatest,   \* agent_engine.traffic is "latest" (else "manual")
  AgentIdentity,  \* agent_engine.identity is "agent"
  Strict,         \* verify_release is strict: every environment but dev
  None

Revisions == 1 .. MaxRevisions

\* What the platform stores of an engine: the commits deployed to it, the
\* revisions deleted since, and how traffic is split.
EngineState == [revs : Seq(Commits), gone : SUBSET Nat, mode : {"unset", "latest", "manual"},
                share : [Revisions -> Nat], roles : {"none", "granted"}]

ASSUME ReleaseAssumption ==
  /\ {AlwaysLatest, AgentIdentity, Strict} \subseteq BOOLEAN
  /\ Percents \subseteq 1 .. 100
  /\ MaxRevisions \in Nat \ {0}
  /\ Keep \in Nat \ {0}
  /\ None \notin Engines \cup Commits \cup EngineState

VARIABLES
  engine,   \* engine[e]: None, or what the platform stores of it
  record,   \* deployment_info.<ns>.<env>.json, or None
  op        \* op[b]: the command of the build and what it has read so far

releaseVars == <<engine, record, op>>

Idle == [cmd |-> "idle"]
Nothing == [r \in Revisions |-> 0]

\* Revision r of an engine is the r-th package deployed to it.
Shell == [revs |-> <<>>, gone |-> {}, mode |-> "unset", share |-> Nothing, roles |-> "none"]

Alive(e) == (1 .. Len(engine[e].revs)) \ engine[e].gone
Newest(rs) == CHOOSE r \in rs : \A q \in rs : q <= r

\* Both engines carry the labels of this namespace and environment.
Labelled == {e \in Engines : engine[e] # None}

\* What Lookup must not be: the engine of the record instead of the labelled one.
LookupInRecord(e) == IF record = None THEN e = None ELSE e \in Labelled

\* existing_engine_name: more than one labelled engine is an error.
Lookup(e) == \/ Labelled = {e}
             \/ Labelled = {} /\ e = None

\* What serves: the platform sends everything to the newest in "latest" mode.
Share(e, r) ==
  IF engine[e].mode = "manual" THEN engine[e].share[r]
  ELSE IF engine[e].mode = "latest" /\ r = Newest(Alive(e)) THEN 100 ELSE 0
Serving(e) == {r \in Alive(e) : Share(e, r) > 0}

Doing(cmds) == {b \in Builds : op[b].cmd \in cmds}
Traffic == {"promote", "rollback", "prune", "teardown"}

ReleaseInit ==
  /\ engine = [e \in Engines |-> None]
  /\ record = None
  /\ op = [b \in Builds |-> Idle]

Continue(b, fields) == op' = [op EXCEPT ![b] = fields]
Finish(b) == Continue(b, Idle)

(* ------------------------------- deploy.py ------------------------------ *)

\* A strict deploy refuses a checkout that is not the release.
VerifyRelease(checkout, release) == Strict => checkout = release

StartDeploy(b, checkout, release) ==
  /\ op[b] = Idle
  /\ Doing({"deploy"}) = {}
  /\ VerifyRelease(checkout, release)
  /\ \E e \in Engines \cup {None} :
       /\ Lookup(e)
       /\ Continue(b, [cmd |-> "deploy", at |-> e, code |-> checkout, sha |-> release,
                       before |-> {}, stage |-> IF e = None THEN "create" ELSE "read"])
  /\ UNCHANGED <<engine, record>>

\* The guard on the owner, and `before`: an engine deleted meanwhile is an error.
ReadBefore(b) ==
  /\ op[b].cmd = "deploy" /\ op[b].stage = "read"
  /\ engine[op[b].at] # None
  /\ Continue(b, [op[b] EXCEPT !.before = Alive(op[b].at), !.stage = "update"])
  /\ UNCHANGED <<engine, record>>

Deployed(e, c) ==
  [e EXCEPT !.revs = Append(@, c), !.mode = IF AlwaysLatest THEN "latest" ELSE @]

\* A first deploy creates the engine; with Agent Identity without its package.
\* The platform names it.
CreateEngine(b) ==
  /\ op[b].cmd = "deploy" /\ op[b].stage = "create"
  /\ Engines # Labelled
  /\ LET e == CHOOSE x \in Engines : x \notin Labelled IN
       /\ engine' = [engine EXCEPT ![e] =
                       IF AgentIdentity THEN Shell ELSE Deployed(Shell, op[b].code)]
       /\ Continue(b, [op[b] EXCEPT !.at = e, !.stage = IF AgentIdentity THEN "bind" ELSE "record"])
  /\ UNCHANGED record

\* agent_identity.bind: the roles of the identity the engine has got.
BindRoles(b) ==
  /\ op[b].cmd = "deploy" /\ op[b].stage = "bind"
  /\ engine[op[b].at] # None
  /\ engine' = [engine EXCEPT ![op[b].at].roles = "granted"]
  /\ Continue(b, [op[b] EXCEPT !.stage = "update"])
  /\ UNCHANGED record

UpdateEngine(b) ==
  LET e == op[b].at IN
  /\ op[b].cmd = "deploy" /\ op[b].stage = "update"
  /\ engine[e] # None
  /\ Len(engine[e].revs) < MaxRevisions
  /\ engine' = [engine EXCEPT ![e] = Deployed(@, op[b].code)]
  /\ Continue(b, [op[b] EXCEPT !.stage = "record"])
  /\ UNCHANGED record

\* What NewRevision must not be: the revisions taken newest first.
FirstRevision(e, before) ==
  IF Alive(e) = {} THEN 0 ELSE CHOOSE r \in Alive(e) : \A q \in Alive(e) : r <= q

\* The revision the deploy made: the newest it had not seen before (0: there is none).
NewRevision(e, before) ==
  IF Alive(e) \ before # {} THEN Newest(Alive(e) \ before)
  ELSE IF Alive(e) # {} THEN Newest(Alive(e)) ELSE 0

WriteRecord(b) ==
  LET e == op[b].at IN
  /\ op[b].cmd = "deploy" /\ op[b].stage = "record"
  /\ engine[e] # None
  /\ record' = [revision |-> NewRevision(e, op[b].before), sha |-> op[b].sha]
  /\ Finish(b)
  /\ UNCHANGED engine

(* ------------------------------- traffic.py ----------------------------- *)

StartTraffic(b) ==
  /\ op[b] = Idle
  /\ Doing(Traffic) = {}

\* promote: the revisions are listed first, the traffic is read after them.
StartPromote(b, target, percent) ==
  /\ StartTraffic(b)
  /\ \E e \in Engines :
       /\ Lookup(e)
       /\ target \in Alive(e)
       /\ Continue(b, [cmd |-> "promote", at |-> e, target |-> target, percent |-> percent,
                       revs |-> Alive(e), stage |-> "read"])
  /\ UNCHANGED <<engine, record>>

\* Who has a part of a manual split (traffic_view).
Targets(e) == {r \in Revisions : engine[e].mode = "manual" /\ engine[e].share[r] > 0}

\* "The API names revisions by project number": a split need not name a revision as the
\* list of revisions does, and promote and prune compare the names as they are.
SameNames == BOOLEAN

\* What KeptOn must not be: the newest other revision, serving or not.
KeptOnNewest(e, target, revs, same) == {r \in revs \ {target} : r = Newest(revs \ {target})}

\* Where the rest of the traffic goes: the largest other share of a manual split, else
\* the newest other revision.  Under another name the target too is among the others.
KeptOn(e, target, revs, same) ==
  LET others == IF same THEN Targets(e) \ {target} ELSE Targets(e)
  IN IF others # {}
     THEN {r \in others : \A q \in others : engine[e].share[q] <= engine[e].share[r]}
     ELSE {r \in revs \ {target} : r = Newest(revs \ {target})}

\* Two names of one revision add up; or the platform refuses them, which is Stop.
Split(target, percent, kept) ==
  [r \in Revisions |-> (IF r = target THEN percent ELSE 0) + (IF r = kept THEN 100 - percent ELSE 0)]

ReadTraffic(b) ==
  LET o == op[b] IN
  /\ o.cmd = "promote" /\ o.stage = "read"
  /\ engine[o.at] # None
  /\ \E same \in SameNames :
     \E kept \in IF o.percent = 100 THEN {o.target} ELSE KeptOn(o.at, o.target, o.revs, same) :
       Continue(b, [cmd |-> "promote", at |-> o.at, target |-> o.target, stage |-> "set",
                    split |-> Split(o.target, o.percent, kept)])
  /\ UNCHANGED <<engine, record>>

RecordedSha == IF record = None THEN None ELSE record.sha

\* rollback reads the record before it sets the traffic.
StartRollback(b, to) ==
  /\ StartTraffic(b)
  /\ \E e \in Engines :
       /\ Lookup(e)
       /\ to \in Alive(e)
       /\ Continue(b, [cmd |-> "rollback", at |-> e, target |-> to, stage |-> "set",
                       split |-> Split(to, 100, to), sha |-> RecordedSha])
  /\ UNCHANGED <<engine, record>>

\* set_traffic; the platform refuses a revision that is gone.
SetTraffic(b) ==
  LET o == op[b] IN
  /\ o.cmd \in {"promote", "rollback"} /\ o.stage = "set"
  /\ engine[o.at] # None
  /\ \A r \in Revisions : o.split[r] > 0 => r \in Alive(o.at)
  /\ engine' = [engine EXCEPT ![o.at].mode = "manual", ![o.at].share = o.split]
  /\ Continue(b, [o EXCEPT !.stage = "assert"])
  /\ UNCHANGED record

\* assert_traffic, then the record, whose commit stays as it was read.
AssertTraffic(b) ==
  LET o == op[b] IN
  /\ o.cmd \in {"promote", "rollback"} /\ o.stage = "assert"
  /\ engine[o.at] # None
  /\ engine[o.at].mode = "manual" /\ engine[o.at].share = o.split
  /\ record' = [revision |-> o.target, sha |-> IF o.cmd = "rollback" THEN o.sha ELSE RecordedSha]
  /\ Finish(b)
  /\ UNCHANGED engine

\* prune reads the split, then lists the revisions, and looks up the names of the list
\* in the split: under another name nothing is found there.
StartPrune(b) ==
  /\ StartTraffic(b)
  /\ \E e \in Engines, same \in SameNames :
       /\ Lookup(e)
       /\ Continue(b, [cmd |-> "prune", at |-> e, stage |-> "list", same |-> same,
                       used |-> IF same THEN Targets(e) ELSE {}])
  /\ UNCHANGED <<engine, record>>

\* What Candidates must not be: everything but the newest ones.
CandidatesByAge(e, used) == {r \in Alive(e) : Cardinality({q \in Alive(e) : q > r}) >= Keep}

\* revs[:-keep] without the targets of the split.
Candidates(e, used) == {r \in Alive(e) : Cardinality({q \in Alive(e) : q > r}) >= Keep} \ used

ListCandidates(b) ==
  /\ op[b].cmd = "prune" /\ op[b].stage = "list"
  /\ engine[op[b].at] # None
  /\ Continue(b, [cmd |-> "prune", at |-> op[b].at, stage |-> "delete", same |-> op[b].same,
                  todo |-> Candidates(op[b].at, op[b].used)])
  /\ UNCHANGED <<engine, record>>

\* One after another, oldest first.
DeleteRevision(b) ==
  LET o == op[b] IN
  /\ o.cmd = "prune" /\ o.stage = "delete"
  /\ IF o.todo = {} THEN Finish(b) /\ UNCHANGED engine
     ELSE \E r \in o.todo :
            /\ \A q \in o.todo : r <= q
            /\ engine[o.at] # None
            /\ engine' = [engine EXCEPT ![o.at].gone = @ \cup {r}]
            /\ Continue(b, [o EXCEPT !.todo = @ \ {r}])
  /\ UNCHANGED record

(* ------------------------------ teardown.py ----------------------------- *)

StartTeardown(b) ==
  /\ StartTraffic(b)
  /\ \E e \in Engines \cup {None} :
       /\ Lookup(e)
       /\ Continue(b, [cmd |-> "teardown", at |-> e, stage |-> IF e = None THEN "unlink" ELSE "delete"])
  /\ UNCHANGED <<engine, record>>

DeleteEngine(b) ==
  /\ op[b].cmd = "teardown" /\ op[b].stage = "delete"
  /\ engine[op[b].at] # None
  /\ engine' = [engine EXCEPT ![op[b].at] = None]
  /\ Continue(b, [op[b] EXCEPT !.stage = "unlink"])
  /\ UNCHANGED record

Unlink(b) ==
  /\ op[b].cmd = "teardown" /\ op[b].stage = "unlink"
  /\ record' = None
  /\ Finish(b)
  /\ UNCHANGED engine

\* A call fails, an assertion does, or the build is stopped: what was done stays.
Stop(b) ==
  /\ op[b] # Idle
  /\ Finish(b)
  /\ UNCHANGED <<engine, record>>

ReleaseNext == \E b \in Builds :
  \/ \E c, r \in Commits : StartDeploy(b, c, r)
  \/ ReadBefore(b)
  \/ CreateEngine(b)
  \/ BindRoles(b)
  \/ UpdateEngine(b)
  \/ WriteRecord(b)
  \/ \E t \in Revisions, p \in Percents : StartPromote(b, t, p)
  \/ ReadTraffic(b)
  \/ \E t \in Revisions : StartRollback(b, t)
  \/ SetTraffic(b)
  \/ AssertTraffic(b)
  \/ StartPrune(b)
  \/ ListCandidates(b)
  \/ DeleteRevision(b)
  \/ StartTeardown(b)
  \/ DeleteEngine(b)
  \/ Unlink(b)
  \/ Stop(b)

ReleaseSpec == ReleaseInit /\ [][ReleaseNext]_releaseVars

(* ------------------------------ properties ------------------------------ *)

\* existing_engine_name: "the labels, not a file, are what make repeated deploys
\* update instead of duplicate", from any checkout and after any command that
\* stopped half way.
OneEngine == \A e, f \in Labelled : e = f

\* A strict deploy records, and the pipeline then evaluates, the revision that
\* holds the code of the release it names: not one that an interrupted deploy
\* left behind, and not one that is being promoted or pruned meanwhile.
RecordNamesItsRelease ==
  [][\A b \in Builds :
       (Strict /\ WriteRecord(b)) =>
         /\ record'.revision \in Alive(op[b].at)
         /\ engine[op[b].at].revs[record'.revision] = record'.sha]_releaseVars

\* prune deletes "revisions with 0 % traffic (keeps newest 3)": the newest ones are
\* spared, and so is what serves, although deploys go on beside it; in a manual split
\* only while the API names its targets as it does the revisions of the list.
PruneSparesServing ==
  [][\A b \in Builds : DeleteRevision(b) =>
       LET e == op[b].at
           deleted == engine'[e].gone \ engine[e].gone
       IN /\ \A r \in deleted : Cardinality({q \in Alive(e) : q > r}) >= Keep
          /\ op[b].same \/ engine[e].mode # "manual" => deleted \cap Serving(e) = {}]_releaseVars

Starts(e) == {r \in Revisions : engine'[e].share[r] > 0} \ Serving(e)

\* While another revision takes traffic, setting a canary's share starts no
\* revision but the canary, and does not shift traffic back to a smaller one.
CanaryKeepsStable ==
  [][\A b \in Builds : SetTraffic(b) =>
       LET e == op[b].at
           t == op[b].target
           others == Serving(e) \ {t}
       IN (engine[e].mode = "manual" /\ others # {}) =>
            /\ Starts(e) \subseteq {t}
            /\ \A r \in others : engine'[e].share[r] > 0 =>
                 \A q \in others : engine[e].share[q] <= engine[e].share[r]]_releaseVars

\* traffic.py:66 "everything not going to the target stays with the revision
\* currently serving the most traffic": setting traffic starts no revision but
\* the one the command names.
OnlyTargetStarts ==
  [][\A b \in Builds :
       (SetTraffic(b) /\ engine[op[b].at].mode = "manual") => Starts(op[b].at) \subseteq {op[b].target}]_releaseVars
=============================================================================
