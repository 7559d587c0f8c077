# Verification of the store operations agent

TLA+ models of the Cymbal Beauty store operations system: an agent (Google ADK)
that store managers and associates talk to on a tablet, a worker that analyses
store events in the background, and the tools with which both read and change
store tasks. The modules model the parts where several actors, clocks or
failures meet; TLC checks them on small instances and TLAPS proves the most
important results for all instances. Everything is translated from the code
under `src/`; where a property is taken from a comment or docstring the module
quotes it.

## The system

| Component | State it keeps | Operations | Talks to | Hard to get right |
|---|---|---|---|---|
| Store events (`agents/cymbal_store_ops/events`, `services/store_events/worker.py`, `deployment/events_deploy.py`) | one Firestore document per job: status, lease owner, lease end, `execution_started`, analysis session, result, read mark; a Pub/Sub subscription | enqueue, publish, push, claim, run, commit, fail, acknowledge, list, mark read | Firestore transactions, Pub/Sub push, agent sessions, the tablet's inbox | at-least-once delivery, two slots on one job, a worker dying between two writes, three clocks |
| Confirmed task changes (`tools/domain_tools.py`, `tools/personal_tools.py`, `tools/backends/bigquery.py`) | rows of the tasks table; the writes counted in an invocation; a pending confirmation | `delegate_task`, `complete_my_task`, `report_my_task_blocker` | BigQuery statements, the confirmation pause of ADK | check, pause, check, UPDATE and re-read are separate; a statement runs on after its client timed out |
| Task creation (`domain_tools.create_store_task`, the backends) | rows and their `task_key` | `create_store_task` | as above | idempotence without a unique key |
| Loop guard (`plugins.py`, `callbacks.py`) | counters per process; two markers in session state | before model, before tool, hand-back after model | the agent framework | counters and markers have different lifetimes than the request |
| Event read-only guard (`callbacks.py`) | the expected message hash of a session, temporary state, a ContextVar | mark at the first model call, check before each tool | agents and tools nested in the turn | three carriers with different scopes; a resumed turn has none of them |
| Frontend server (`frontend/server.py`, `session_access.py`) | the runtime target; locals of each stream | sessions, chat, confirm, events, notifications, history, artifacts | the agent stream, the tablet | one answer out of a stream of several authors; replay of recorded events |
| Tablet (`frontend/static/*.js`) | conversation, persona, busy flag, cards, lists, event key | send, approve or cancel, restore, switch, poll, trigger | the server | responses that arrive after the person moved on |
| Briefing, reports, chat replies (`chat_reply.py`, `sub_agents/*briefing*`, `tools/report_delivery.py`, `tools/end_of_day.py`) | one turn and its batches of calls | deliver, merge the responses, answer | the tools, the stream | a delivery that ends the turn, in a batch with others or after a pause |
| MCP store service (`services/store_mcp`, `mcp_auth.py`, `mcp_connection.py`) | a cached identity token; signed scopes | sign, verify, read | agent and service clocks | a validity window over two clocks, concurrent refresh |
| Work memory (`tools/work_memory.py`) | memories in Memory Bank; the reviewed preference in session state | remember, confirm, recall | Memory Bank, the confirmation pause | writes that arrive late or twice; a persona switch under a confirmation |
| History and trace (`context_history.py`, `trace.py`) | the events of the session; lists of spans | prune, record | callbacks of the framework | quotes that are told apart by their content only |
| Store reads (`tools/pickup_workload.py`, `store_query.py`, ...) | none | queries and decision rules | BigQuery | boundaries of the rules, rows beyond a limit |
| Release (`deployment/deploy.py`, `traffic.py`, `teardown.py`) | engines and their revisions, the traffic split, a local record | deploy, promote, roll back, prune, tear down | Agent Runtime | a command that stops half way; lists that are read before they are used; several checkouts |
| Provisioning (`events_deploy.py`, `mcp_deploy.py`, `setup_artifacts.py`, `deploy_quickstart.py`) | the resources and grants that exist | run a script from the top | Google Cloud | a script that fails half way, run again or twice at once |
| Governance, evaluation, journeys, data generator, quickstarts | - | - | - | sequential; not modelled |

What makes the components correct:

- *Events*: a job is analysed at most once although it is delivered at least
  once; it ends, as completed or failed, and its outcome is final; the
  conversation it names is the one that answered; a request Pub/Sub still waits
  for cannot lose its lease; no acknowledgement drops the last message of an
  unfinished job.
- *Task changes*: only the assignee completes a task; closed tasks do not
  change; a blocker is not recorded twice; an invocation makes at most two
  changes, apart from those that raised; the answer agrees with the row.
- *Task creation*: one row per key, and every successful answer names it.
- *Loop guard*: bounded model calls and repeats; a request ends, and ends
  because of what happened to itself and not to the request before it.
- *Frontend and tablet*: one answer, the agent's last word, the same one when
  the conversation is read later; a confirmation is answered once and where it
  was asked; nothing late shows up under another conversation or persona.
- *Event guard*: the analysis of an event writes nothing, at any depth of agents,
  and nobody else is held up for it.
- *Replies*: a turn that is over gave one reply; errors are left to the model; a
  report's prose belongs to its numbers.
- *MCP service*: headers the connection just made are accepted within the clock
  error, old ones are not; the token is not fetched more often than it is due.
- *History*: no message of a person, no error and no confirmation leaves the
  coordinator's view, and finished work is not replayed.
- *Work memory*: what a person confirmed last is what they are recalled to want.
- *Pickup queue*: the estimate promises neither too much nor too little.
- *Store queries*: pages that end, and a report that says complete, have every row
  once.
- *Release*: one engine per environment; the record names what was deployed; neither
  the newest revisions nor, if names agree, serving ones are deleted; a canary takes
  traffic from nobody it should not.
- *Provisioning*: a script that records success made everything it is for, a service
  it reports as checked was private after it was set up, and running a script again
  completes it.

## Modules

| Module | Models | Uses |
|---|---|---|
| `EventPromise` | the abstract specification of one event request: asked, begun, run once in one conversation, finished | - |
| `EventJobs` | the workflow with its document, subscription, worker slots and clocks | instantiates `EventPromise` |
| `StoreTasks` | the three confirmed changes over the rows of the tasks table | - |
| `TaskCreation` | the idempotent INSERT of `create_store_task` | - |
| `LoopGuard` | the guard around the model and tool calls of one session | - |
| `EventGuard` | the write boundary of event analyses over the turns of a process | - |
| `ReplyTurn` | how a turn ends: replies, delivering tools, the end-of-day report | - |
| `McpScope` | the scope and the token of calls to the store data service, over two clocks | - |
| `History` | the pruning of finished consultant work from the coordinator's requests | - |
| `WorkMemory` | saving and recalling a preference | - |
| `PickupQueue` | the pickup estimate and a picker who relies on it | - |
| `StoreQuery` | pages and reports of a query over the store's records | - |
| `AnswerStream` | `sse` as a reducer of events, and the replay by `session_history` | - |
| `Tablet` | the page, and the server's handlers behind it | extends `AnswerStream` |
| `Release` | deploy, promote, roll back, prune, tear down, call by call | - |
| `Provision` | the provisioning scripts and the quickstart deployment | - |
| `EventJobs_proofs`, `StoreTasks_proofs`, `LoopGuard_proofs`, `Tablet_proofs` | theorems about the module of that name; `Tablet_proofs` also about `AnswerStream` | TLAPS, `Induction` |
| `StoreData_proofs` | theorems about `TaskCreation`, `McpScope`, `PickupQueue` and `StoreQuery` | extends them and `Induction` |
| `Conversation_proofs` | theorems about `ReplyTurn`, `EventGuard`, `History` and `WorkMemory` | extends them and `Induction` |
| `Deployment_proofs` | theorems about `Release` and `Provision` | extends both |
| `Induction` | least and largest numbers, induction up to a number, sorted enumerations | `WellFoundedInduction` |
| `MCDeployment` | `Release` and `Provision` in one run | extends both |
| `MCAssistant` | eight parts of the assistant in one run | extends `TaskCreation`, `McpScope`, `History`, `EventGuard`, `ReplyTurn`, `WorkMemory`, `PickupQueue`, `StoreQuery` |
| `MCEventJobs`, `MCStoreTasks`, `MCTablet` | the same with symmetry sets | |

The parts in `MCDeployment` and in `MCAssistant` share no state in the code or in the
model. The initial state picks the one that moves, so a run explores the sum of
their states.

### EventJobs

One variable per field of the document that the workflow decides by: `status`,
`lease` and `left` (owner and remaining time of the lease), `started`
(`execution_started`), `session` and `answer`. `sub` is the set of unacknowledged
messages, a message being a job and the number of its publication. A worker slot
is one request of the Cloud Run service (`stage`, `task`, `age`, `reply`). Each
Firestore transaction is one action: `ClaimFinished`, `ClaimBusy` and `ClaimJob`
are the three outcomes of `store.claim`; `StartAnalysis` and `Commit` run
`update_claim` under `Holds`; `CommitRaises` is a commit that reports an error
whether or not it was applied; `RecordFailure` is the handler of `process_job`.
A slot doubles as the uuid of its lease and of the conversation it creates, both
of which the code draws afresh; a slot is reused only after its request ended.

Time passes in `Tick`, 30 s at a time. Pub/Sub stops waiting after `AckDeadline`
and may push the message again while the old handler runs on. A slot reads the
clock before the transaction begins and on another machine, so the lease it
computes may be off by the age of the request and by `ClockSkew` either way.

Abstractions: the 240 s limit of the analysis is an `AnalysisFails` that may
happen at any time; `attempts` is only recorded by the code and left out; jobs are
never deleted, so the "missing" outcome cannot occur. Rejected credentials,
malformed messages, Pub/Sub's seven-day retention and sessions of analyses that
failed are left out.

### StoreTasks

The rows (`status`, `assignee`, `reports`) are shared; each user has one
invocation with one tool call at a time (`call`, `stage`). The actions follow
the code statement by statement: `CallTool` does the read, the checks and the
request for confirmation; `Approve` is the resumed call, which runs the tool
again from the top, counts the write and submits the statement; `ReadTask` is the
read that `delegate_task` makes before its UPDATE; `RunUpdate` is the UPDATE with
its WHERE clause; `Reread` turns the row into the answer. BigQuery serialises
UPDATEs of one table, so a statement is atomic. `_dml` limits the wait of the client
and not the job, so `AbandonUpdate` leaves the statement to a `LateUpdate`.

A statement that raises ends differently in the three tools. `delegate_task` catches the
exception and answers an error. The other two let it through (`bigquery.py:445-466`),
`on_tool_error_callback` (`trace.py:199`) answers nothing for them, and without a response
event the state delta of `_count_write` never reaches the session: `Raise` takes the
increment back, and the call can be approved again as if it were the first. The docstring's
"at most WRITES_PER_REQUEST confirmed writes" is therefore true of changes that are
answered or under way, which is what `WithinBudget` says and `issued` counts, and not of
statements that timed out and ran later.

Two outcomes the code permits: a blocker is reported as a conflict although it was
recorded, when the task changes before the re-read; and repeating an earlier
delegation moves a task back, because the key remembers only the last one.

### TaskCreation

`Snapshot` is where an INSERT ... WHERE NOT EXISTS looks for the key and
`EndInsert` where its rows become visible. With `SerialInserts` a statement waits
for the one before it (the in-memory backend, or calls that do not overlap);
without it they overlap, as BigQuery allows for INSERTs into one table.

### LoopGuard

`counts` is the dictionary of each process with its eviction at `Capacity`,
`declined` and `stopped` the markers in session state. One session handles one
request at a time, as the tablet enforces, with the exception of a request that
pauses for a confirmation: others run before it resumes, possibly in another
process. The model may ask for any tool it is offered, or reply, at every turn.

Writes belong to one of the two agents: `OwnWrites` are the root's (`complete_my_task`,
`report_my_task_blocker` and, with a memory engine, `remember_work_preference`), the others
those of `store_tasks`. `RefuseTool` is a write whose own checks fail before it looks at
the confirmation. Declining `remember_work_preference` (`work_memory.py:78-80`) answers
CANCELLED and sets no marker, unlike `_needs_confirmation`: the request goes on with model
calls, against `plugins.py:58`, "A declined write also ends model work for that
invocation". `EndsOnItsOwnAccount` is about the writes that do leave the marker.

### AnswerStream and Tablet

`Step` is the body of `sse`'s loop for one shaped event: `reply` and `task` are the
candidates `reply` and `task_reply`, texts being known by the number of their
event. Calls and transfers with and without text, and results, state, artifacts
and specialists' notes, are one kind each because `sse` treats them alike.
`Replayed` folds the same step over the recorded events, as `session_history` does.

In `Tablet`, `op` is what set the busy flag; background fetches are `fetching` and
`polling`. A stream's frames are handled as they arrive, and the connection can
break at any point. `Redeliver` and `Chunk` are deliveries that the recorded
session does not have. Lists carry the persona they were fetched for; `past` and
`listed` say which list is on screen. A card is a count of unlocked copies in the
log, emptied when the log is replaced. `key` is `eventRequest`.

Abstractions: conversations of one persona are listed as soon as they exist; the
agent that goes on working after the connection broke is not followed; rendering,
traces, reports and artifacts are left out.

### EventGuard

One record per turn. `root` is what the coordinator sees and `here` what the agent at
work sees: the message, the temporary flag and the ContextVar. A task agent shares
the session with its temporary state, an AgentTool's child does not; both copy the
context and see another message. `Resume` is the answer to a confirmation, which
comes without text, flag and variable.

`Redactable` says whether `IngressRedactionPlugin` (`plugins.py:28-36`) finds something
to rewrite in the analysis message before the coordinator compares its hash.
`docs/EVENT_WORKFLOW.md:34` wants the message recognised before redaction; the ids
the data generator makes hold nothing to redact, so the run and the theorem take
`FALSE`. With `TRUE` the guard would not recognise the worker's turn.

### ReplyTurn

`chat` is the turn, `batch` the calls of one model answer. A call ends in a result, an
error or a question; `Merge` is the one event the framework makes of the responses,
with what `ChatReplyPlugin` does to it. The dashboard re-reads the metrics, whose
version stands for the digest that the draft carries. Two calls in a batch are all
`_sole_current_call` tells apart from one.

### McpScope

Time is in units of 30 s. A call makes its scope first, waits for the shared token
and arrives after any delay, possibly again. Three machines have clocks: the agent's,
which signs the scope; Google's, which stamps the token in `EndRefresh`; and the
verifier's in `Verify`. The latter two differ from the agent's by at most `Skew`. The code
tolerates a scope that is up to 15 s early by the verifier's clock, rounded up to a unit
here. It calls `verify_oauth2_token` without a clock skew, so right after a refresh a
verifier that is behind refuses the token although it would take the scope: `ScopeWindow`
claims acceptance only once the verifier's clock must have passed the token's time of
issue. Signatures and the identity in the scope are left out, and the token's hour of life
is cut to 180 s so that it is refreshed within a run.

### History

The session is the sequence of events: messages of the person, delegations, quotes of
a consultant, results. `Removable` collects contents, as the code does, and `request`
is what the model is given. A person's message may be a copy of a quote.

### WorkMemory

`submits` is every write sent to Memory Bank, in the order of `saved_at`; `underway` those
that may yet be applied; `memories` those that were. `GiveUpSave` is an error or the
30 s limit, after which the write can still be applied. A second memory with one id
is refused and counts as success. `saves[c].reviewed` is the identity stored with the
review. Two assumptions: the `saved_at` of one person come from clocks that agree,
and the search finds every memory of the scope (the code says `exhaustive: False`).

The property holds until another preference is written (`Overtaken`), with two limits of
the code inside it. A write that is identical to an earlier one (the id is a hash of the
scope, the invocation and the value) keeps the `saved_at` of the first. A call that is run
again after another preference was saved, in this invocation or in a later one, and a
call that goes back to a value its invocation has written before, are therefore told
SUCCESS while the other preference is recalled. The other way round there is no
exception: when a call whose memory is there already is repeated, or its write applied
late, what was confirmed after it stays. A retry of a write that was never applied counts
as a write of its own, with its own `saved_at`.

### PickupQueue

`Estimate` is the tool; its clock is the workshop's frozen `NOW`. The picker is outside the
program and may do anything: wait, take any order, stop. `advice` lasts as long as the
picker starts by the latest start and keeps to the sequence without a pause, and
`hopeless` remembers a queue that cannot be met. The property then compares what
was said with what happens.

### StoreQuery

A record is there or not: filters, store and role decide that before, and are not
modelled. A result is a set of keys (records or groups) with a row each; `Sorted` are
the ways in which the database may list it, and every page chooses one anew. Rows
of a page are compared as a bag, because BigQuery does not promise that
`ARRAY(SELECT ... FROM page)` keeps the order of `page`. Limits may differ from page to page.
When records change between pages a row can be missed or shown twice; the code
does not claim otherwise, and the property is silent on it.

### Release

`engine` is what the platform stores, `record` the file that a pipeline loses with its
checkout, `op[b]` the command a build runs with the lists it has read. Every call is an
action and `Stop` ends a command after any of them. `docs/PROMOTION_STRATEGY.md`,
"Concurrency and staleness", asks operators to let neither deploys nor traffic
commands overlap with their like; a deploy beside a traffic command is allowed, and is
where lists become stale. A first deploy that stops before it
binds roles leaves an engine without them; nothing in the code promises to repair it.

The API may name a revision in a split otherwise than in the list of revisions: by project
number instead of id (`_common.py:296`). `list` and `assert_traffic` compare short names,
`promote` (`traffic.py:67`) and `prune` (`traffic.py:104`) the names as they come. `SameNames`
is that choice, made for each reading of the split. Under another name `prune` finds none of its candidates in
the split and takes what serves for unused; `promote` may keep the rest of the traffic on its own
target. `PruneSparesServing` therefore spares the newest `Keep` always, and what serves a
manual split only under one form of names. Which form the API returns is not in the
repository.

Creating and updating an engine are one step each: a build that is stopped leaves the
engine as it was or as it became, and an operation that goes on at the platform after its
client was stopped is not followed. `AGENT_ENGINE_ID`, with which an operator names the
engine by hand (`_common.py:187-189`), is left out.

### Provision

A script is a sequence of calls of six kinds (`create`, `ensure`, `upsert`, `put`, `private`,
`record`), each run with the look that precedes it as a step of its own, so that two
operators can meet between looking and creating. A call that fails may have had
its effect; `services describe`, which `mcp_deploy` needs for its report, is part of
`record` and can fail there. `SetPublic` opens and closes the store data service at any
time, also between the two checks of `mcp_deploy` and between the second one
(`mcp_deploy.py:88-91`) and the record (92-95). `closed` is a history variable: the runs
in which the service was private at some time after their last change to it. That is what
`"iam_checked": true` can mean, and what `RecordedIsReady` says: a service that was
opened before, or beside the run, and left open is not reported as checked. Opening it
after the check is not seen by the script. A bucket with the labels of another namespace, which
`setup_artifacts.py:40` refuses, is not among the initial states. `deploy_one` is
`CreateQuick`, `SmokeQuick` and `DeleteQuick`.

## Runs

| Run | Question | Bounds |
|---|---|---|
| `event_jobs` | Safety of the workflow and refinement of `EventPromise` | one job, two slots, two callers, two publications; the deployed timings: deadline 300 s = 10, lease 360 s = 12, clock error 30 s = 1 |
| `event_jobs_takeover` | Does a published job finish when slots die or overrun and the failures then stop? | one job, two slots, timings 3 and 3 |
| `store_tasks` | Safety of concurrent confirmed changes | one task, two associates, a manager, one abandoned statement |
| `assistant` | Eight parts: one row per key, the scope's window, the token's cache, pruning, the event guard, one reply, recall, the pickup estimate, complete pages | three creations of two tasks; two MCP calls over 300 s; sessions of seven events; two turns; two turns of two batches; three saves and three writes by two personas; four orders, four promises, a limit of three rows; three records of two fields, pages of one or two rows, reports of two |
| `task_creation_overlap` | One row per key with overlapping INSERTs: violated | one key, two calls |
| `loop_guard` | Bounds, markers and termination in one process | two requests, one read, a write of `store_tasks` and a preference of the root, limits 3 and 2, no eviction |
| `loop_guard_elsewhere` | The limit when a request resumes elsewhere: violated | one request, two processes, limits 3 and 3 |
| `tablet` | The answer, its replay, and what may be on screen | two conversations, one of them an alert's; streams of three events; one confirmation |
| `tablet_retry` | The idempotency key of a retried submission: violated | two conversations, three keys |
| `deployment` | Releases and provisioning scripts that stop anywhere | two builds, two commits, two engine names, three revisions with one form of name or two, shares of 10 and 100 %, one revision kept; two operators, a service that is opened and closed, one quickstart, two failures |
| `release_rest` | Where a promotion puts the rest of the traffic: violated | one build, one engine, three revisions |
| `history_identical` | Unfinished work that looks like finished work: violated | one content, sessions of at most eight events |

Jobs do not share state except for the slots, and a job that had two slots, a
duplicate message and a duplicate request has met everything another one could do
to it; slots are interchangeable, hence the symmetry in runs without liveness. Two
associates are enough for a task to change hands under a pending confirmation, and
the manager adds delegation; every change is to one row, so a second task adds
only independent steps. Three events reach every combination of candidate, work
and confirmation that `Step` tells apart, including an answer that is demoted and
replaced. One fresh conversation besides the alert's is enough for a stream, a card
or a list to belong to the wrong one. Three revisions are a serving one, a canary
and one to delete. Estimates over three of the four orders give sequences in which the first, the
middle or the last one is the tightest (promises at 7, 7 and 11 with two minutes each: the
second), and all four are above the row limit. Three writes are an old
one, a late one and a newer one.

`MaxTime`, `MaxEntries`, `MaxTurns`, `MaxBatches`, `MaxMetrics`, `MaxSubmits`, `Closing`,
`MaxFailures`, `MaxRevisions`, `MaxRows`, `MaxLate`, `MaxPublish`, `MaxEvents`, `MaxCards`,
`MaxKeys` and `MaxTraffic` are bounds of the models, not of the code. Where they or
the end of a script leave nothing to do, the run stops: deadlock is not checked in
`loop_guard`, `loop_guard_elsewhere`, `assistant`, `history_identical` and `deployment`.

### Fairness

`EventJobs`: handlers take their next step (a request is cut off by the platform,
which is `Crash`), time passes, and Pub/Sub keeps pushing an unacknowledged message.
The push needs strong fairness: with two messages and one slot, a message is not
deliverable all the time, and Pub/Sub does not prefer one forever. Liveness also
assumes that crashes and overruns stop at some point (`CalmSpec`); a job that dies
in every attempt can never finish. `LoopGuard`: a started request keeps taking
steps; nobody is obliged to answer a confirmation. `Provision`: a script that was
started goes on, and an operator runs it again until it went through, which is what
its looking before creating is for; failures are bounded. That nobody runs it again
is possible, and then nothing completes it. The other modules are checked
for safety only.

### Where code and documentation disagree

- `task_creation_overlap`. `bigquery.py:476` says of `create_store_task` that "a
  retry inserts nothing and reads the original row". Two overlapping INSERTs of
  one key both see no row; the client's timeout does not end the first one.
- `loop_guard_elsewhere`. `plugins.py:53` promises "at most `max_model_calls` model
  calls per invocation", but the counters live in one process and a paused request
  may resume in another (the run), or after its counter was evicted (by reading: no run
  fills a dictionary).
- `tablet_retry`. `workspace.js:123` says "A retry of the same uncertain submission
  reuses its idempotency key". The page remembers one submission; another one,
  in another conversation, overwrites it, and the retry creates a second job.

- `release_rest`. `traffic.py:66` says "everything not going to the target stays with
  the revision currently serving the most traffic". If the target is the only serving
  revision, the rest goes to the newest other one, which nobody promoted.
- `history_identical`. `context_history.py:82` says "Never prune failed/incomplete tool
  work or any confirmation transcript". Quotes are removed by content, so unfinished
  work that says the same as finished work goes with it.
- By reading, without a run of their own: `domain_tools.py:673` on the write budget
  (StoreTasks above), `plugins.py:58` on declined writes (LoopGuard), and `prune`'s
  "any with traffic" (`traffic.py:108`) under a second form of names (Release).

## Proofs

The theorems hold for all values of the constants that the named assumptions of
each module allow; where a theorem needs more, its statement says so. Every safety
property of the passing runs is a theorem.

`EventJobs_proofs` proves, for any numbers of jobs, slots, callers and messages
and any timings with `AckDeadline + 2 * ClockSkew <= LeaseTime`: type correctness,
at most one analysis, that a completed job names the conversation that answered
it, that an open request keeps its lease, that no unfinished job loses its last
message, that an offered conversation stays right, that outcomes are final, and
that the workflow implements `EventPromise`.

None of these is inductive. A second analysis is excluded because `started` is
written with the session under the lease (`DocInv`, `SlotInv`): a slot that
analyses knows `started` and the count, and if it still holds the lease the session
is its own. That an open request holds its lease needs how much of it is left:
`Leased(w)` says at least `LeaseTime - ClockSkew - age[w]`, which the assumption
keeps above the most another clock can be ahead (`LeaseNotTaken`). That in turn
shows that an open request answers neither `lease_lost` nor "failed" for a job that
is unfinished, which is why acknowledging "failed" drops nothing (`OpenInv`,
`MessageInv`). The preservation proof has one step per action; slots other than the
one that moves are dealt with once, in `SlotStepOther` and `OpenStepOther`.

`StoreTasks_proofs` proves for any tasks, people and statements: type correctness,
completion by the assignee only, no blocker recorded twice, the write budget of what is
answered or under way, true
completion answers, races that are reported as conflicts (together `AnswersAreTrue`), and that closed tasks
are frozen. The invariant relates a caller between its UPDATE and its answer to the
row (`AnswerInv`): a row that the caller has just completed is still done, because
no statement of anybody, late ones included, changes a closed row.

`Release` (in `Deployment_proofs`): one engine, the record, canaries and pruning. The invariant says
what a command under way may still rely on. A deploy's list of earlier revisions lacks
the one it is making, whatever is pruned meanwhile; a traffic command's split gives
the rest to the largest share it read (`KeepsLargest`); what prune is about to delete
is not the newest, has `Keep` newer ones, because revisions are only added at the end, and
has no share in a manual split whose names prune could read.

`McpScope` (in `StoreData_proofs`): the window of a scope and the token's cache, for any period, lifetime,
margin, token life and skew with `Skew <= Early`, `Lifetime <= Period + Margin` and
`Margin + Skew < TokenLife`. `IssuedInv` bounds
how old a scope's start is, `TokenInv` that a token taken has `Margin` left, and at most
one call refreshes.

`TaskCreation` (in `StoreData_proofs`): under `SerialInserts`, one row per key and true answers. What the
one running statement saw of the table stays true until it ends; without the
assumption `task_creation_overlap` refutes it. `OverlapIsBounded` says how bad that can get:
no more rows than calls, because a statement that begins once a row is there inserts
nothing, and what the earlier ones may still insert is counted (`OverlapInv`).

`ReplyTurn` (in `Conversation_proofs`): one reply, errors that go on, consistent reports. A call that
completes the reply is alone in its batch and succeeded, so `Merge` sees at most one.

`EventGuard` (in `Conversation_proofs`): under `~Redactable`, the guard is exact for any number of turns. What
a turn's agent sees is a fact about that turn: the flag and the variable are set only
from the comparison, and an AgentTool's child keeps the variable.

`LoopGuard_proofs`: a request ends on its own account, with any `Capacity` and so with
evicted counters too (a marked request is on its way out
and its marker is still in the one slot, because one request is at work at a time);
and, under `EveryCounterFits` and `OneProcess`, the limits of model calls and repeats.
The invariant of the latter says that counters are exact: a counter is the number
of calls made, and for a confirmed write once more while it has been asked for and not
run. `loop_guard_elsewhere` refutes the limit without `OneProcess`.

`Provision` (in `Deployment_proofs`): a push finds its worker, what is recorded is ready,
no engine is left unreported. `Behind` is about each run: the calls it has passed have
left their resources, by its own doing or, where it looked and found, somebody
else's. Nothing in the scripts removes a resource, so this survives other operators; the
subscription is the eleventh call of its script, and the record always the last. While the
service is private every run is in `closed`, so a run that passes the second check is, and
only its own grants, which are behind it, could take it out again.

`AnswerStream` and `Tablet` (in `Tablet_proofs`): the two answers agree with the last word,
and what is on screen belongs there. The locals of `sse` forget the events, so `Tracks`
says what they mean for any prefix of any sequence: the candidate is the last text after
which nobody worked, the fallback the last text of `store_tasks` before a confirmation was
asked for. `ReplayIsLastWord` is the induction over `session_history`'s fold, without a
bound on the length; the same facts, step by step, hold of the stream, where partial
texts and repeated events change nothing that is tracked. `ScreenInv` ties the busy flag to
the conversation, which is why a persona cannot change under a stream, and `CardInv` the
live cards to the conversation on screen, which is why a click posts where it was asked.

`History` (in `Conversation_proofs`): what pruning keeps and drops, from the definition of
`Removable` alone, and that the entries of a delegation are in the order that pruning relies on.

`WorkMemory` (in `Conversation_proofs`): what was confirmed last is recalled. A call that was
told "saved" has a memory with the id of its write (`SaveIsReviewed`), which need not be
its own. If an older, identical write made it, the values are the same (`IdsDiffer`: no
two memories have one id). A newer memory of the scope with another value was written after the
first write that is identical to the call's, and is not the repetition of an older memory,
whose id would have refused it: this is `Overtaken`. Otherwise the newest memory
of the scope has the value too.

`PickupQueue` (in `StoreData_proofs`): the estimate is exact. Advice is inductive as it is
(`AdviceHolds`: from now on, one order after the other, everything is in time). For a queue
that is not feasible the invariant needs a reason that does not depend on the picker: some
of the orders are promised until `d` and are more than can be picked until `d`
(`TooMany`). At the estimate these are the orders up to one that is late, because
the sequence is sorted by promise; later the clock has counted those that were picked.

`StoreQuery` (in `StoreData_proofs`): pages that end have every row. Each statement may sort
rows that are alike another way, so two pages are cut from different sequences of keys.
Every output column is a tie-breaker, so two rows are alike only if they are the same
(`BeforeSomeWay`), and any two sorted results have the same rows at every place
(`SortedRowsAreUnique`, by the first place where they differ and a count of one row before
it). The invariant then says that what was read is a beginning of every sorted result.

The assumptions these add are that the sets of orders, records and fields are finite
(`OverlapIsBounded` needs it of calls), and
that `None` is neither a conversation nor a persona.

`Induction` has what the proofs about sequences and sorted lists rest on. The library's
induction theorems take an operator as parameter, which the provers here cannot
instantiate. Its well-foundedness of finite subsets speaks of sets only, and gives a least
number of every set of numbers (`LeastNumber`), from which follow induction over
`0 .. n` (`UpToInduction`) and that a finite ordered set can be listed in order
(`SortedEnumeration`).

Only model-checked: liveness (`PublishedJobFinishes`, `RequestEnds`, `ScriptsComplete`), which
these provers cannot reason about under fairness, and the five violations. Type
correctness of `EventJobs`, `StoreTasks` and `Tablet` is proved and not part of a run.

## Not modelled, and why

SQL text, rendering, prompts and the wording of answers are not what goes wrong
between actors. What the model says is arbitrary everywhere. Sign-in and access
control are taken as given, except for who owns a conversation. The workshop's
notebooks, which are most of the repository's lines, call the code above cell by
cell and add no behaviour. Evaluation, journeys, quickstarts, governance and the data
generator are sequential programs beside the system; the generator's task rows are
the initial states of `StoreTasks`. The parallel readers of the briefing write one key
each and meet nowhere. Which spans of `trace.py` are closed depends on the order in
which the agent framework calls plugins and callbacks, which is not in the repository.
An event job that was created but not published stays queued until somebody sends the
same request again; nothing in the code retries it.

## Plan

What could follow, in this order:

1. The counterpart of `OverlapIsBounded` for `loop_guard_elsewhere`: with several processes
   at most the limit of model calls in each, as long as no counter is evicted.
2. `trace.py`, once the framework's callback order is part of the sources.
