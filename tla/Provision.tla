----------------------------- MODULE Provision -----------------------------
(***************************************************************************)
(* The scripts that create what the agent runs on: events_deploy.py (the   *)
(* event workflow), mcp_deploy.py (the store data service),                *)
(* setup_artifacts.py (the report bucket), and deploy_quickstart.py.       *)
(*                                                                         *)
(* A script is a list of calls to the platform, run from the top every     *)
(* time; it stops at the first call that fails.  A resource or a grant is  *)
(* known by its name only.  Two operators may run scripts at once, and     *)
(* somebody may open the store data service to the public, or close it, at *)
(* any time.                                                               *)
(***************************************************************************)
EXTENDS Integers, Sequences, FiniteSets

CONSTANTS
  Operators,     \* who runs scripts
  Apps,          \* the quickstarts
  MaxFailures,   \* bound on the calls that fail for no reason of ours
  NoRun

\* "create" looks whether the resource is there and then creates it; "ensure"
\* takes a conflict for success; "upsert" looks, and then creates or updates;
\* "put" has the same effect however often it is done; "private" stops when the
\* service is open to the public; "record" reads and writes the outcome.
Call(do, res) == [do |-> do, res |-> res]

\* What EventsScript must not be: the subscription made with the topic.
EagerEventsScript == <<
  Call("create", "database"), Call("create", "topic"), Call("create", "push_sa"),
  Call("put", "frontend_database_user"), Call("put", "runtime_database_user"),
  Call("put", "publisher"), Call("put", "token_creator"),
  Call("ensure", "index"), Call("upsert", "subscription"), Call("put", "worker"),
  Call("put", "invoker"), Call("record", "events") >>

EventsScript == <<
  Call("create", "database"), Call("create", "topic"), Call("create", "push_sa"),
  Call("put", "frontend_database_user"), Call("put", "runtime_database_user"),
  Call("put", "publisher"), Call("put", "token_creator"),
  Call("ensure", "index"), Call("put", "worker"), Call("put", "invoker"),
  Call("upsert", "subscription"), Call("record", "events") >>

McpScript == <<
  Call("private", "mcp_service"), Call("put", "mcp_service"), Call("put", "mcp_caller"),
  Call("private", "mcp_service"), Call("record", "mcp") >>

\* The bucket's name is that of the namespace and the environment: one with other
\* labels, which the script refuses, is somebody else's and not among the initial states.
BucketScript == << Call("upsert", "bucket"), Call("put", "bucket_grants"), Call("record", "bucket") >>

Script == [events |-> EventsScript, mcp |-> McpScript, bucket |-> BucketScript]
Scripts == DOMAIN Script

\* What a script is there for, without its record.
Needed(s) == {Script[s][i].res : i \in 1 .. Len(Script[s]) - 1}

VARIABLES
  script,     \* the script at hand; different ones share no resource
  exists,     \* the resources and grants the platform has
  public,     \* the store data service is open to everybody
  recorded,   \* the script ran to its end
  run,        \* run[o]: where an operator's run of the script is, or NoRun
  failures,   \* calls that failed for no reason of ours
  closed,     \* history: whose run has, since its last change, had a moment in
              \* which the store data service was private
  quick       \* quick[a]: a quickstart on its way through deploy_one

scriptVars == <<script, exists, public, recorded, run, failures, closed>>
provisionVars == <<scriptVars, quick>>

ProvisionInit ==
  /\ script \in Scripts
  /\ exists = {}
  /\ public = FALSE
  /\ recorded = FALSE
  /\ run = [o \in Operators |-> NoRun]
  /\ failures = 0
  /\ closed = Operators
  /\ quick = [a \in Apps |-> [stage |-> "idle", engine |-> FALSE, result |-> "none"]]

\* An operator runs the script until somebody's run has been through.
StartScript(o) ==
  /\ run[o] = NoRun
  /\ ~recorded
  /\ run' = [run EXCEPT ![o] = [at |-> 1, looked |-> FALSE, found |-> FALSE]]
  /\ UNCHANGED <<script, exists, public, recorded, failures, closed, quick>>

Current(o) == Script[script][run[o].at]
Running(o, kinds) == run[o] # NoRun /\ Current(o).do \in kinds
Next1(r) == [r EXCEPT !.at = @ + 1, !.looked = FALSE, !.found = FALSE]

\* What Look must not be: a script that takes the project to be empty.
LookAtNothing(o) ==
  /\ Running(o, {"create", "ensure", "upsert"})
  /\ ~run[o].looked
  /\ run' = [run EXCEPT ![o].looked = TRUE]
  /\ UNCHANGED <<script, exists, public, recorded, failures, closed, quick>>

\* present, list_indexes, bucket.exists: what the next decision is made on.
Look(o) ==
  /\ Running(o, {"create", "ensure", "upsert"})
  /\ ~run[o].looked
  /\ run' = [run EXCEPT ![o].looked = TRUE, ![o].found = Current(o).res \in exists]
  /\ UNCHANGED <<script, exists, public, recorded, failures, closed, quick>>

\* What is there needs no creating; an upsert then updates it.
Skip(o) ==
  /\ Running(o, {"create", "ensure", "upsert"})
  /\ run[o].looked /\ run[o].found
  /\ run' = [run EXCEPT ![o] = Next1(@)]
  /\ UNCHANGED <<script, exists, public, recorded, failures, closed, quick>>

\* Creating what another run has created since is an error, tolerated for the index.
Create(o) ==
  /\ Running(o, {"create", "ensure", "upsert"})
  /\ run[o].looked /\ ~run[o].found
  /\ exists' = exists \cup {Current(o).res}
  /\ run' = [run EXCEPT ![o] =
               IF Current(o).res \in exists /\ Current(o).do # "ensure" THEN NoRun ELSE Next1(@)]
  /\ UNCHANGED <<script, public, recorded, failures, closed, quick>>

Put(o) ==
  /\ Running(o, {"put"})
  /\ exists' = exists \cup {Current(o).res}
  /\ run' = [run EXCEPT ![o] = Next1(@)]
  /\ closed' = IF public THEN closed \ {o} ELSE closed \cup {o}
  /\ UNCHANGED <<script, public, recorded, failures, quick>>

\* What CheckPrivate must not be: only a note.
NoteWhetherPrivate(o) ==
  /\ Running(o, {"private"})
  /\ run' = [run EXCEPT ![o] = Next1(@)]
  /\ UNCHANGED <<script, exists, public, recorded, failures, closed, quick>>

\* The policy of a service that is not there yet is not read.
CheckPrivate(o) ==
  /\ Running(o, {"private"})
  /\ run' = [run EXCEPT ![o] = IF public /\ Current(o).res \in exists THEN NoRun ELSE Next1(@)]
  /\ UNCHANGED <<script, exists, public, recorded, failures, closed, quick>>

Record(o) ==
  /\ Running(o, {"record"})
  /\ recorded' = TRUE
  /\ run' = [run EXCEPT ![o] = NoRun]
  /\ UNCHANGED <<script, exists, public, failures, closed, quick>>

\* The call fails before it did anything, or after: the script stops either way.
CallFails(o) ==
  /\ run[o] # NoRun
  /\ failures < MaxFailures
  /\ failures' = failures + 1
  /\ run' = [run EXCEPT ![o] = NoRun]
  /\ \/ UNCHANGED exists
     \/ /\ Current(o).do \in {"put", "create", "ensure", "upsert"}
        /\ Current(o).do # "put" => run[o].looked
        /\ exists' = exists \cup {Current(o).res}
  /\ UNCHANGED <<script, public, recorded, closed, quick>>

\* Somebody opens the service, or closes it again, whatever runs.
SetPublic ==
  /\ "mcp_service" \in exists
  /\ public' = ~public
  /\ closed' = IF public THEN Operators ELSE closed
  /\ UNCHANGED <<script, exists, recorded, run, failures, quick>>

(* ------------------------- deploy_quickstart.py ------------------------- *)

Quick(a, stage, engine, result) ==
  /\ quick' = [quick EXCEPT ![a] = [stage |-> stage, engine |-> engine, result |-> result]]
  /\ UNCHANGED scriptVars

\* main's loop: one app after another, each in a try of its own.
QuickIdle == \A a \in Apps : quick[a].stage \in {"idle", "done"}

\* Staging and importing can raise; so can create, with the engine made or not.
CreateQuick(a) ==
  /\ QuickIdle /\ quick[a].stage = "idle"
  /\ \/ Quick(a, "smoke", TRUE, "none")
     \/ \E made \in BOOLEAN : Quick(a, "done", made, "error")

\* The question is answered well, badly or not at all; `finally` follows.
SmokeQuick(a) ==
  /\ quick[a].stage = "smoke"
  /\ \E r \in {"OK", "FAILED", "error"} : Quick(a, "finally", quick[a].engine, r)

\* What DeleteQuick must not be: an error of the deletion only printed.
DeleteQuickQuietly(a) ==
  /\ quick[a].stage = "finally"
  /\ \E gone \in BOOLEAN : Quick(a, "done", ~gone, quick[a].result)

\* Without --keep the engine is deleted; an error there replaces the result.
DeleteQuick(a) ==
  /\ quick[a].stage = "finally"
  /\ \/ Quick(a, "done", FALSE, quick[a].result)
     \/ Quick(a, "done", quick[a].engine, "error")

\* --delete-all, from another shell, finds the engines by their labels.
DeleteAllQuick ==
  /\ \E a \in Apps : quick[a].engine
  /\ quick' = [a \in Apps |-> [quick[a] EXCEPT !.engine = FALSE]]
  /\ UNCHANGED scriptVars

Operate(o) == Look(o) \/ Skip(o) \/ Create(o) \/ Put(o) \/ CheckPrivate(o) \/ Record(o)

ProvisionNext ==
  \/ \E o \in Operators :
       \/ StartScript(o)
       \/ Look(o) \/ Skip(o) \/ Create(o) \/ Put(o) \/ CheckPrivate(o) \/ Record(o)
       \/ CallFails(o)
  \/ SetPublic
  \/ \E a \in Apps : CreateQuick(a) \/ SmokeQuick(a) \/ DeleteQuick(a)
  \/ DeleteAllQuick

\* A script that was started goes on, and the operator runs it again as long as
\* it has not been through.
ProvisionFairness ==
  \A o \in Operators :
    WF_provisionVars(Operate(o)) /\ WF_provisionVars(StartScript(o))

ProvisionSpec == ProvisionInit /\ [][ProvisionNext]_provisionVars /\ ProvisionFairness

(* ------------------------------ properties ------------------------------ *)

\* events_deploy.py writes the settings of the frontend, and mcp_deploy.py its
\* "iam_checked", only when everything the script is there for exists, whatever
\* failed in this run, in an earlier one, or runs beside it.  The store data
\* service has then been private at some time after the run's last grant: one
\* that was opened before, or beside the run, and left open is not reported as
\* checked.  What is opened after the check is, and no script can help that.
RecordedIsReady ==
  [][\A o \in Operators : Record(o) =>
       Needed(script) \subseteq exists /\ (script = "mcp" => o \in closed)]_provisionVars

\* Pub/Sub pushes as soon as the subscription exists: by then the worker is
\* there and may be invoked, and tokens can be made for the push.  A frontend
\* that is set up can publish, and what it publishes has a subscription.
PushFindsWorker ==
  /\ "subscription" \in exists => {"topic", "worker", "invoker", "token_creator", "index"} \subseteq exists
  /\ (script = "events" /\ recorded) =>
       {"publisher", "subscription", "frontend_database_user", "runtime_database_user"} \subseteq exists

\* Running a script again after any failures completes it; somebody has to close
\* a public service first.
RerunCompletes == script # "mcp" => <>recorded

\* A quickstart whose engine is still there when its deployment is over is
\* reported as an error: nothing is left behind under an "OK" or a "FAILED".
NothingLeftUnreported ==
  \A a \in Apps : (quick[a].stage = "done" /\ quick[a].engine) => quick[a].result = "error"
=============================================================================
