# AutoOps in TLA+

AutoOps is two programs that share a repository. The *distributed platform*
(`control_plane/`, `agent/`) is a FastAPI server with a relational database and
a stream bus, a fleet of agents that poll it over HTTP, and worker processes
that consume the streams. The *Flask monolith* (`autoops/`) monitors its own
host in a sampler thread and heals it by policy. This directory models the parts
of both that keep state across calls, threads, processes or crashes.

## 1. Inventory

| # | Component | State it keeps | Operations | Talks to |
|---|---|---|---|---|
| 1 | Remediation lifecycle (`remediation_service.py`, `routes/remediation.py`, agent `remediation_runner.py`) | `cp_remediation_actions`, `cp_audit_records`, the tasks an agent holds | create, approve, list and mark, execute, report, audit | agents by HTTP, bus |
| 2 | Telemetry delivery (agent `telemetry.py`, `sqlite_spool.py`; `telemetry_service.py`) | spool file, `cp_telemetry_batches` and events | collect, post, spool, flush, acknowledge; insert, publish, commit | HTTP, bus |
| 3 | Stream bus (`messaging/`) | messages, acknowledgements per group | publish, consume, acknowledge | SQLite file or Redis |
| 4 | Telemetry worker (`workers/telemetry_ingest.py`) | `cp_alerts`, `cp_incidents`, `cp_dependency_edges` | one transaction per message | bus, database |
| 5 | Control-plane incidents (`incident_service.py`) | `cp_incidents.status` | open (by 4), acknowledge | database |
| 6 | Fleet registry (`fleet_service.py`) | nodes, agents, heartbeats | register, heartbeat | agents |
| 7 | Enrollment, heartbeat, policy sync (agent) | state file, token, policy file | register once, send, refresh | 6 |
| 8 | Bootstrap and authentication of the control plane | tenants, users, roles | ensure the demo tenant, create tokens | database |
| 9 | Flask monitoring loop (`monitoring/service.py`) | history, action cache, pending validations, counters, the cache of the live summary | one pass per interval, live summary | 10, 11, 12, 14 |
| 10 | Healing engine (`healing/engine.py`) | `last_action_at`, the host | evaluate (which acts), relabel | host |
| 11 | Decision engine, settings, feedback, analytics | `app_settings`, `feedback_records` | decide, set the mode, record | database |
| 12 | Flask incidents (`services/incidents.py`) | `incidents` (unique key) | upsert, resolve, prune | database |
| 13 | Runtime manager (`services/runtime.py`) | the started services, the lock of the start | start once, by the first requests | 9, 11, 14 |
| 14 | Cluster registry (`distributed/service.py`) | nodes, tasks, dependency map | heartbeat, update the local node, sweep, list, create task | database |
| 15 | Flask authentication | users, lockout counters | login, signup | database |
| 16 | Dashboards, listings, schemas, migrations, collectors, log-only workers | none that another part reads | - | - |

What is hard, and what makes each part correct:

* **Remediation.** Handlers of several agents and operators interleave between
  any two statements; a session writes only the columns that differ from what
  it loaded; agents die at any exception; responses get lost. It is correct if
  nothing unapproved is performed, a final status is the truth, repetition has
  a cause that can be named, and every approved action ends up settled.
* **Telemetry.** At-least-once delivery over a unique batch id, with a client
  that gives up before its server does. Correct if no batch is lost and none is
  published twice without a rollback.
* **Bus and worker.** A commit and an acknowledgement in two systems, an event
  published inside a transaction, two buses with different redelivery. Correct
  if nothing acknowledged is unrecorded and nothing is recorded twice.
* **Monitoring loop.** One thread, but each pass is a chain of commits any of
  which may be its last, and policies act while they are evaluated. Correct if
  the incidents follow the alerts, the host is changed at most once per cooldown
  and only by decision, and feedback is neither lost nor doubled.
* **Enrollment and bootstrap.** Every answer can be lost after its commit, a
  state file is written in place, tokens end, the server seeds its database in
  two transactions. Correct if every agent gets one identity of its own and back
  to work after any failure.
* **Login.** Read-modify-write on a row that several threads share, and times
  compared across a database that may drop their zone. Correct if every attempt
  is answered and a lock stands until it is over.
* **Cluster registry.** Every reader sweeps before it reads, with what a SELECT
  said some time ago, and a heartbeat writes only what differs from what it
  loaded. Correct if a node that reports is not offline, and one that is listed
  online did report.
* **Start and live summary.** The first requests start the sampler, all of them
  answer from a cache that the sampler clears and any loader may fill again with
  what it read before. Correct if one sampler runs and no answer stays out of
  date.

`PROJECT.json` lists the hazards one by one, at the line where each bites.

## 2. Modules

| Module | Models | Notes |
|---|---|---|
| `Remediation` | 1 | request threads, agent processes, operators; `MCRemediation` gives instances |
| `RemediationProofs` | theorems about it | TLAPS |
| `TelemetryDelivery` | 2 | one agent, its spool, the server threads, the tables and the stream |
| `TelemetryDeliveryProofs` | theorems about it | TLAPS |
| `StreamWorker` | 3, 4, 5 | both buses (`Deployments` says which, with which workers), one incident key, one edge |
| `StreamWorkerProofs` | theorems about it | TLAPS |
| `MonitorLoop` | 9, 10, 11, 12 | one sampler, operators that change the mode |
| `MonitorLoopProofs` | theorems about it | TLAPS |
| `AgentEnrollment` | 6, 7, part of 8 | server process and threads, agents with a state file each |
| `AgentEnrollmentProofs` | theorems about it | TLAPS |
| `LoginLockout` | part of 15 | logins to one account on several threads, a clock |
| `LoginLockoutProofs` | theorems about it | TLAPS |
| `ClusterRegistry` | 14 | any threads, any operations, one session each |
| `ClusterRegistryProofs` | theorems about it | TLAPS |
| `LiveSummary` | 13, the cache and the thread of 9, 14 as its callers use it | composes `ClusterRegistry` (EXTENDS) with requests, sampler and restarts |
| `LiveSummaryProofs` | theorems about it | TLAPS, cites `ClusterRegistryProofs` |
| `ActionLifecycle` | what 1 promises about one action | abstract; `Remediation!Lifecycle(t)` is the refinement mapping |
| `AtLeastOnce` | what 2 promises about batches | abstract; `TelemetryDelivery!Channel` is the refinement mapping |

Operators named after a `MUTANT` comment are deliberate mistakes a programmer
could have made; each shows that some property would notice it.

### Remediation

`row` is the committed table. A handler is a record in `req`: what it serves,
the statement it is at, the row it works on and the status *its session loaded*.
SQLAlchemy writes only changed columns, so a commit goes through
`Flush(current, loaded, new)`: assigning a status equal to the loaded one leaves
alone what others have committed meanwhile. `list_agent_tasks` marks the listed
rows one commit at a time; the row it starts with is still in the identity map
(`PollList` loads it), the others are loaded again (`PollRefresh`), in any order
since the query has none. `record_agent_result` compares the target and commits
the status; its route's audit entry reads the status again (`Audit`). An agent
does one thing at a time and goes down at any error; its supervisor restarts it
without memory of its tasks. A lost response is the agent failing while its
handler runs on. The history variables `performed`, `asked`, `faults` and `cut`
exist for the properties only.

`ActionLifecycle` is the same without tables, sessions and polls: the action has
a *stage* that never goes back (unknown, requested, approved, performed), a
status that is open or the outcome, and *holders*, the parties that were handed
it and may act on it however late. Under `Lifecycle(t)` the holders of an action
are the polls that listed it, the agents that have it among their tasks and the
results of it that are not committed. The point of the abstraction is that an
action is handed out only while it is approved and open, is performed or settled
only by a holder, and is settled with one outcome. `ActionsHaveTheirLife` states
the refinement for all actions at once.

### TelemetryDelivery

Batches are numbered in collection order, which is the order of their spool
rows. `Posts` starts a handler; `GiveUp` is the client's timeout, after which
the handler continues without anyone to answer to. `Insert` waits while another
transaction holds the same batch id, refuses a stored one with an error nothing
catches, and otherwise goes on to publish each event before the commit. A
rollback (`HandlerFails`) leaves the published events. `CollectMore` lets the
rounds after the last followed batch flush the spool, so that the bound on
batches is no end of time. Under `Channel` the sender of `AtLeastOnce` holds
what is in the spool or in the agent's hands, listeners have heard of a batch
when all its events are on the stream, and what a crash took is lost, although a
handler may still deliver it.

### StreamWorker

`Init` chooses a deployment: the bus and the workers that use it. `Available`
is the difference between the buses: the SQLite bus hands out the oldest
messages without an acknowledgement, the Redis bus what it never handed out.
`Take`, `QueryIncident`, `Publish` and `Commit` are the statements of
`_process_payload` and `main`: the queries see the committed tables only
(autoflush is off), events go out before the commit, and an edge named twice by
one payload violates `uq_cp_dependency_edge`. Exceptions skip the message,
crashes end the process, operators acknowledge incidents in between.

### MonitorLoop

A pass is a sequence of steps, one per commit or per call that changes
something. `sample` holds what the metrics amount to: the alerts, the policies
over their threshold, and how the scores compare with the thresholds of the
decision. Any combination is allowed, which covers whatever the analytics
compute. An evaluation (`NewEvaluation`) applies the hot policies one by one in
file order. `ApplyPolicy` is one that leaves the host alone; a kill or a removal
is `BeginAction` and `EndAction`, with any amount of time in between, or
`ActionRaises`. The engine takes `now` before the action and stores that in
`last_action_at`, so the cooldown counts from the beginning of the action and
may be over when it returns (`CoolingAfter`, with the time the action has
`spent`). `Decide` takes the decision with what the first evaluation returned and
begins the second one, whose results `Execute` (`execute_candidates`) relabels and
counts. `Tick` may happen at any point and any number of times: no pass and no
action is bounded in time. The clock of the code is `time.time()`, assumed not to
be set back. `enforced` is chosen in `Init`:
PostgreSQL checks foreign keys, SQLite does not unless asked to. Each incident
has rows in `incident_events` that nothing deletes, so retention can delete a
resolved incident on SQLite only (`PruneRetention`); on PostgreSQL the attempt
ends the pass (`PruneConflicts`).

### AgentEnrollment

The first module a deployment goes through: `Boot` is the start of the server,
which serves only after `ensure_demo_tenant`, with the two transactions of
`bootstrap_tenant` as `CreateTenant` and `CreateAdmin` (the script
`bootstrap_demo` is the same start without the serving). An agent is down, calls
(`enroll`, `refresh`, `beat`: the name of the call is its program counter, `req`
the thread it waits for), saves its state file, or works. `After` says which
refusals it survives: a refused refresh is ignored, any other ends the process,
and so does a connection that breaks or is refused, in whatever call
(`Unreachable`, `CrashServer`). `Look` is the first query of a handler or the
check of its token, `Register` the transaction behind it. `Expire` may come at
any time after a registration: a token lasts an hour, and nothing bounds how
long an agent has been running. `Work` stands for the rest of the round. That
agents may share a node, which `Remediation` assumes with an arbitrary `NodeOf`,
is here a consequence of `Register`: the row of the node is looked up by
`node_uid`, and the default of that setting is the same on every host.

### LoginLockout

One account. `Load` is the query, `Checks` the comparison with the clock and
the password, `CommitFailure` and `CommitSuccess` write what the login loaded and
changed: an increment is a write of the loaded count plus one, and a column set
to the value it was loaded with is not written. `NaiveTimes` distinguishes
SQLite, which returns times without a zone, from PostgreSQL.

### ClusterRegistry

`row` is the table: a node's status and the age of its `last_seen_at`. Ages
replace a clock: `Age` makes everything older up to an age from which nothing
changes any more, which keeps the state finite without an end of time. `op` is
the operation each session runs, at the statement it is at. A heartbeat, the
sampler's update of the local node and its creation are one shape: load
(`HeartbeatLoad`, `EnsureLocalNode`), then `Commit`, which inserts, or updates
the status only if it differs from the one loaded; `last_seen_at` is taken in
between. The status is stored as it was sent, "offline" included: the route checks
no status (`Reported` is any set of strings). Readers sweep first: `SweepSelect`
is the SELECT of `_mark_stale_nodes`,
`SweepMark` its commit, which marks whatever was selected, `List` the query of
`get_nodes`; the overview sweeps twice. Any statement may `Raise`. The history
variable `told` remembers the nodes whose last heartbeat reported them offline,
`raced` those whose last heartbeat overlapped a sweep that marks them or another
heartbeat that set them offline (`Overtaken`); `swept` and `lag` in an operation
serve the properties only.

### LiveSummary

Requests and the sampler use the operations of `ClusterRegistry` as sessions of
their own. `Arrive` reads `runtime_manager.started` without the lock, `Acquire`
again under it; `CreateServices` replaces whatever services there are,
`InitializeDefaults` keeps a mode that was set before, `StartSampler` starts a
thread unless the service has one, and `StartFails` is an exception anywhere in
between, after which the next request starts again. Whether there is to be a
thread at all is `background`, chosen for each process (`Init`, `Restart`):
`START_BACKGROUND_SAMPLER` must be set, and in debug mode the process must be the
reloader's child (`WERKZEUG_RUN_MAIN`). Without it `StartSampler` starts none and
marks the services started all the same. `Beat` and `BeatAnswered` are the route
by which anybody reports any node with any status. A request that finds no
entry in the cache takes the last snapshot (`Lookup`), reads the overview and the
mode (`ReadMode`) and stores what it has (`Store`). A value carries two facts: the
mode it shows and whether its snapshot has been superseded. Ages again replace
time, and an entry older than the TTL is no entry, as every lookup ignores it.
A pass of the sampler is the snapshot, the local node, the clearing of the
cache, or fails before that. `Restart` may come at any time.

## 3. Runs

| Run | Instance | What it shows |
|---|---|---|
| `remediation_lone` | 1 agent, 2 actions (one it can perform, one it cannot), 2 threads, 2 approvals per action, 1 failure | all safety properties; `QuietIsFinal`: a settled action of which nobody holds an older view stays settled; `EveryActionIsOver`: a poll whose agent is gone goes on loading and marking rows (`PollRefresh`) that the restarted agent settles meanwhile, and still all are settled for good |
| `remediation_shared` | 2 agents on one node, 1 action, 2 threads, 2 approvals, 1 failure | the refinement of `ActionLifecycle`; the agents may undo each other's status, but that ends and the approved action is settled for good (`EveryActionIsOver`) |
| `telemetry` | 3 batches of 2 events, 2 threads, flush limit 2, 2 timeouts or crashes, 1 rollback | the refinement of `AtLeastOnce`, nothing published twice without a rollback, what a lost answer costs, no starvation beside stuck rows |
| `stream` | 3 messages, 2 per call, 2 failures; 1 worker on SQLite, 2 on Redis | at-least-once processing that leaves no more open alerts and incidents of a key than workers; acknowledged implies recorded; on Redis, failed implies abandoned |
| `monitor` | 1 key, a kill and a removal policy, 3 passes, cooldown of 2 ticks, 1 exception, foreign keys checked or not | no two actions of a pass begin within one cooldown, however long they and the pass take; feedback kept; incidents follow alerts and close only in health |
| `enrollment` | 2 agents, 1 node_uid, 2 threads, 1 fault | one identity per agent, orphans only by faults, the dead ends and that there are no others |
| `lockout` | 3 threads, 3 failures lock for 2 ticks, 6 ticks, PostgreSQL | a running lock stands |
| `registry` | 2 nodes, 2 sessions, statuses online and offline, TTL of 2 ticks, commits wait up to 1 | a node seen within the TTL is offline only if its last heartbeat said so or was overlapped by what did; what a list shows online was seen |
| `live_summary` | 2 requests and the sampler, 1 node, 2 modes, TTLs of 1 tick, processes with and without a sampler | one sampler at most, and one if there is to be one, however the start races or fails; nothing superseded is served for ever |
| `monitor_recurrence` | 1 key, 3 passes | **violated**, see findings |
| `monitor_undecided` | 2 armed policies, 1 pass | **violated**, see findings |
| `lockout_sqlite` | 1 thread, SQLite | **violated**, see findings |

The exact instances are in the `.cfg` files. The bounds are the smallest at
which the cases of interest occur: two approvals re-open a finished action, a
second thread carries a late handler beside its retry, a third row lies behind a
full flush of two, a third pass sees an alert come back after a recovery, the
second action of one pass begins when the first has outlasted the cooldown.
Passes bound the history, not the loop: nothing in `MonitorLoop` depends on their
number but the room for counted actions. One fault is what it takes to lose a
registration and meet its late handler beside the retry, to cut a file short or
the seeding in two; ticks and threads of `lockout` let a lock end, be renewed and
be overtaken by two logins. Two sessions suffice for a sweep to overtake a
heartbeat, or a heartbeat another one; the third session, which sweeps again or joins
the race, is left to the theorems, which hold for any number. Ages above the TTL
differ only up to what an operation may last. What heartbeats report bears on
neither property of `live_summary`: they report `online` there. One incident key is
enough in `monitor`, as keys share only the sample and the pass, which any of them
may end. `live_summary` needs
two requests for the race of the start and for a loader that another one
overtakes, and one node. Only the modes that the decision tells apart are used in
`monitor` (it compares with `autonomous` alone).

Symmetry is used for threads and sessions, in runs without liveness only. `CHECK_DEADLOCK FALSE` is set for the workers: a worker that finds
no message waits for one, and messages are bounded.

**Fairness.** Threads of the server finish what they started (`WF(Serve(r))`),
agents loop and are restarted by whoever runs them (their container or an
operator: the repository leaves that open), so is the server, and workers poll
for ever. No
operator has to act, nothing has to fail and the number of failures is bounded:
with one failure after the other no progress could be promised. `live_summary`
asks for less: time passes (`WF(Tick)`) and a request that was accepted is worked
on. No request has to arrive, no pass of the sampler has to succeed and the
process may be restarted for ever.

`EveryActionIsOver` is promised for an action whose node has one agent, or which is
the only one for its node (`Undisturbed`). With several agents and several actions
on one node it does not hold in general: a poll loads each row again before it
marks it, so an agent may mark dispatched what another one has just settled, and
enough agents that list the same rows in opposite orders can keep reopening them
for each other, each poll under way before the last result is in. One agent needs
failures for that, and they are bounded.

### Findings

* **A resolved incident blocks its key.** `upsert_incidents` looks for an
  unresolved row and inserts otherwise, but `incident_key` is unique in the table.
  When the alert comes back, the insert raises and the rest of the pass is given
  up, healing and retention included, as long as the alert lasts
  (`monitor_recurrence`).
* **Evaluation acts.** `healing.evaluate` performs the action. It is called
  once for the arguments of the decision and once for its result, so the host is
  changed whatever is decided, in every autonomy mode. The second result, which
  is what gets relabelled and recorded, is normally `rate_limited`; if the first
  action outlasted the cooldown, it is done again (`monitor_undecided`).

* **A lock never ends on SQLite.** The stored time comes back without its zone
  and its comparison with the current time raises, so that every attempt after
  the lockout is answered with an internal error, where the test of it expects a
  page or a throttled request (`lockout_sqlite`).

Behaviour that passing properties make precise rather than refute, because no
text of the repository says otherwise: rows of batches that were stored without
the agent's knowing stay in the spool for ever (`StuckIsForever`); failed messages
on Redis are never processed again (`AbandonedIsForever`); an action is performed
again after a second approval or a lost response (`RepetitionNeedsCause`); a node
that reports itself offline, or whose heartbeat was overtaken by a sweep or by
such a report, is offline until its next heartbeat (`OfflineNeedsOverlap`); a
process in debug mode that is not the reloader's child, as under gunicorn, counts
as started and never samples (`OneSampler`); the second evaluation of a pass acts
again once the cooldown of the first is over (`OneActionPerCooldown`); on
PostgreSQL no pass gets past the retention once a
resolved incident is old enough (`PruneConflicts`); an
agent whose token is an hour old, or whose state file was cut short, never works
again, and a server that stopped between the two transactions of its seeding
never serves (`DeadEndsAreForever`).

## 4. Proofs

Every safety property a passing run checks, invariant or action property, and
both refinements are theorems, for every value of the constants that satisfies
the assumptions: any number of agents, threads, workers, messages, policies,
approvals and faults. What is left to TLC is liveness. Where a property is not
inductive, which is nearly always, the module of its proofs defines the
invariant that is; each of them was checked with TLC before it was proved. A
proof goes action by action: a lemma for each, `StepInv` or `StepCarried` to put
them together, and a last temporal step.

| Module | Invariant | Also proved |
|---|---|---|
| `RemediationProofs` | `IInv`; `CInv` adds what handlers and agents carry; `Budget` | `TypeOK`, `OnlyApprovedIsPerformed`, `SettledWasPerformed`, `AuditIsTrue`, `CommitIsAnnounced`, `RepetitionNeedsCause`, `OutcomeIsReported`, `QuietIsFinal`, the refinement of `ActionLifecycle` |
| `TelemetryDeliveryProofs` | `DeliveryInv` | `TypeOK`, `NothingIsLost`, `RepublishNeedsRollback`, `StuckIsForever`, the refinement of `AtLeastOnce` |
| `StreamWorkerProofs` | `SInv` | `TypeOK`, `AckedIsRecorded`, `OneActivePerKey`, `AnnouncedIncidents`, `AbandonedIsForever` |
| `MonitorLoopProofs` | `MonitorInv` | `TypeOK`, `OneActionPerCooldown`, `FeedbackIsKept`, `PassSettlesIncidents`, `ClosedInHealth` |
| `AgentEnrollmentProofs` | `EInv` | `TypeOK`, `OneIdentity`, `OrphansNeedFaults`, `DeadEndsAreForever` |
| `LoginLockoutProofs` | `SeenLocksAreOver` | `TypeOK`, `LockStands` |
| `ClusterRegistryProofs` | `RegistryInv` | `RegistryTypeOK`, `OfflineNeedsOverlap`, `OnlineIsFresh` |
| `LiveSummaryProofs` | `SummaryInv` | `TypeOK`, `OneSampler`, the two properties of the registry in the composition |

**Assumptions.** Each module names one (`RemediationAssumption` and so on) and
TLC evaluates it on every run of the module. They say that null values are
outside their sets, that bounds are natural numbers, and a few things about the
program: a thread is not an agent; a batch has events and a flush a positive
limit; a cooldown is positive, and a commit waits less than the TTL.
Where a proof counts threads, agents, workers or policies they are finite
(`IsFiniteSet`), as a process pool, a fleet and a policy file are. `NodeOf` and
`UidOf` are arbitrary, so agents may share nodes; `Kinds`, `Confirmed` and
`Modes` range over all policies and modes.

**`RemediationProofs`.** What an agent may perform depends on what its poll listed
earlier, and that on rows that must not be taken back in between. `IInv` adds,
for each handler (`HandlerOK`), that it has its row, that what it announces is
approved, that what it lists may be performed by its sender and that a result's
sender performed the action; for each agent (`AgentOK`), that it may perform the
tasks it holds, and that the thread it waits for serves it and nobody else; and
that an action nobody created is not approved (`AbsentIsPending`), without which
a creation could change the target of an approved one. `Grows` collects what no
step takes back (existence, approval, target, performance): every frame lemma
rests on it. The later theorems cite what each step does to its handler and agent
(the `...Effect` lemmas) and `Carried`: which tasks a handler lists and has yet to
mark, that an agent waits for one request at a time and holds no tasks while it
polls, that without faults every poll and result still has its agent waiting.

`QuietActionsStay` goes through the writers of a row (`Writers`): each of them
holds an older view or has just been asked. `LifecycleRefinement` maps each action
to a step of `ActionLifecycle` or to none: the holders of the mapping change at
the answers to polls and at commits of results only. `RepetitionIsPaidFor` is the
long one. `performed <= asked + faults` says nothing about what is still to come,
so `Budget` counts, for an agent alone on its node, the executions it did, the
approvals not committed, the one execution that its task list, the answer it
waits for or the status of the row lets it expect (at most one of these at a
time), and the polls it no longer waits for that may still mark the action
dispatched. No step raises this cost by more than it adds to the approvals and
failures (`Pays`): a failure orphans one poll, or loses one report, never both.
`ReportsAreAudited` follows from where the row can be between the commit of a
result and its audit entry as long as only one of approvals and failures happened.

**`TelemetryDeliveryProofs`.** `DeliveryInv` says of the agent that the batch it
holds while it flushes is stored and so is every row it will delete, of each
handler that between insert and commit it is the only one at its batch
(`OneWriter`, the unique `batch_id`) and has published the events before its
counter, and of each published event that its last publication is committed, under
way or was rolled back (`Accounted`): so a further one needs a further rollback.
`StuckIsForever` follows because the row leaves the spool only through an
acknowledgement that only a handler answering with success gives, and for a
stored batch there is none and none can begin. `ImplementsChannel` maps `Collect`
to sending, `Commit` to delivering, a last publication to being heard, and a crash
to a loss; whatever the agent lets go is stored (`LettingGo`). That a flush takes
no more than `Limit` rows (`FirstFew`) needs a greatest element of a finite set
of numbers, which the well-founded induction theorems give without induction.

**`StreamWorkerProofs`.** A worker decides by what it saw when it took a message
up and writes it down later. `WorkerOK` says what of that still holds (an alert
it saw is still there; the incident it found is still active, the one it opens
is announced before its commit), `PerWorker` bounds the rest: the open alerts and
the workers about to add one are together at most the workers deployed, likewise
active incidents. A worker joins those about to add one only if it finds none,
and then there is nothing else to count. So the property, which was stated for one
worker, holds as "at most as many as workers" for any number, and is now stated
so. `Phantoms` are the announced incidents nobody is about to commit: a failure
makes one. That a consume call that finds messages hands one out needs a least
number (`Least`, by the pigeonhole principle).

**`MonitorLoopProofs`.** `MonitorInv` says what a pass carries from step to step.
Each action begun in it has used up its cooldown, the last one but for what is
left of it, or for what it has yet to take while it lasts (`CooldownHolds`): an
action starts only when nothing is left, and `EndAction` charges the time since
its beginning. An action that raises ends the pass, so that nothing follows it.
An evaluation returns at most one result for each policy that was to come
(`EvaluationFits`, `ReturnedEffect`; that there is a first one to come is
`LeastNumber`). No counted action is forgotten
before its feedback (`NothingForgotten`); after the grouping every alert has its
open incident until the pass ends (`AlertsAreOpen`). `CountFits` keeps the numbers
given to actions within the bound of the model.

**`AgentEnrollmentProofs`.** An identity travels from the row a registration
commits to the handler that answers, the agent that receives it and the file it
writes; `AgentOK` and `HandlerOK` say where it can be. `Counted` bounds, per
agent, the rows nobody uses together with the registrations under way that nobody
waits for: each took a fault, and a commit turns one of the second into one of
the first. `Counted` also shows that the identities of the model suffice: a sequence in
which each agent occurs at most `MaxFaults + 1` times is not longer than the
agents times that (`LengthBound`, by an injection), so the guard on their number
in `Register` never blocks a registration. `DeadEndsStay` goes through the only
ways out: an agent gets to work by a heartbeat whose token was good when it was
checked, an agent with a state file never registers again and one with a torn
file never gets that far, no late handler writes a file, and a server that finds
a tenant without its administrator never gets to serve.

**`LoginLockoutProofs`** proves the type invariant of `LoginLockout` and
`RunningLockStands`, the action property `LockStands`, for any number of
threads, any limits and both databases, from `LockoutAssumption`: the limits are
positive. `LockStands` speaks of steps; only the commit of a right password
clears a lock, and only if it had loaded one. The invariant it needs is
`SeenLocksAreOver`: a login that found its password right has loaded no lock that
still runs. It survives because the check compares the loaded lock with the
clock and time does not go back. `LiftingStep` goes through the actions,
`RunningLockStands` concludes.

**`ClusterRegistryProofs`** proves the type invariant of `ClusterRegistry`,
`OfflineNeedsOverlap` and `OnlineIsFresh`, for any nodes, threads and reported
statuses and any times, from `RegistryAssumption`: a commit waits for the
database less than the TTL (5 s against at least 10 s), and a reported status is
none of the module's own words for no row and no status. Both properties hang on what a session
read before others committed, so `RegistryInv` adds (`OpFine`), for each
operation, what the table still owes it: an update of a node that is
offline has loaded that or knows it was overtaken; a node a sweep has selected
is old, or a heartbeat has raced it since; every other node was seen
at most a TTL before the sweep's SELECT (`Seen`); so were the nodes of a finished list.
`OneOperation` deals with the steps that change one session only, `SweepMarkInv`,
`CommitInv` and `AgeInv` with those that disturb the others. `RegistryTypeOK` is checked as a part of `TypeOK` of
`LiveSummary`. The proofs speak of
`RegistrySpec`, any thread starting any operation at any time. That a
commit waits no longer than `LockWait` after its session's SELECT bounds the age
it writes: without it a heartbeat could commit a last-seen time that is already
older than the TTL.

**`LiveSummaryProofs`** proves the type invariant of `LiveSummary`, `OneSampler`, and
that the two properties of the registry hold in the composition, for any number of
requests, from `RegistryAssumption` and `SummaryAssumption`. That the composition
keeps `RegistryInv` follows action by action from the lemmas of
`ClusterRegistryProofs`. `OneSampler` needs to know (`StartInv`) that a service has a
sampler exactly when the services are marked started and are to have one; that a request past the
lock is alone and the services are not started, so that no earlier attempt's
service is dropped with a sampler running; and what that request's look-up of the
local node has found (`Ensures`): the row, or an insert that succeeds or fails, both of
which survive whatever other sessions sweep and commit (`OperateKeeps`, `AgeKeeps`).

**What the proofs found in the models.** `Look` of `AgentEnrollment` chose its
outcome by a CASE whose arms overlapped: TLC takes the first, but the language
leaves the choice open, and nothing could be proved about it until each arm stated
its whole condition. The type invariant of `StreamWorker` bounded open alerts by
the number of identities, which several workers could have exceeded; the bound is
the number of workers, and `OneActivePerKey` said less than the code guarantees.
`Remediation` did not say that a thread is not an agent, without which the
holders of an action, which are threads and agents in one set, could be confused.
No property of a passing run turned out false.

Only model-checked: liveness, that is `EveryActionIsOver`, `FirstRowsAreStored`,
`HeadIsAcked`, `WorksUnlessDoomed` and `AnswersCatchUp` (fairness and ENABLED are
out of the prover's reach). `AlertHasIncident`, `ActedWasDecided` and
`AttemptsAreAnswered` are false, see the findings.

## 5. Not modelled

The log-only workers, the read-only listings, schemas, migrations, templates and
collectors keep no state another part depends on. Several tenants: every query
is filtered by tenant, so one stands for all. Several samplers: the repository's
README requires `WEB_CONCURRENCY=1`. The numbers of the analytics: they are
inputs here. The rows the sampler writes for the dashboard: nothing of the
program reads them back. Of 14 the dependency map, which is seeded once and then
only read, and `create_task`, an insert into a table that nothing processes. Of
13 the latencies of requests, a statistic. That each open stream
(`/api/v1/stream`) keeps one of the four threads of the process is a count with
nothing to check. Of 8 and 15 the user's own login to the control
plane, signup and logout: they are single inserts or keep no state.

## 6. Plan

In this order, the parts of the system whose failures are worst first.

1. The composition of `TelemetryDelivery` and `StreamWorker`: the stream of the
   one is the input of the other, and the refinements proved for each should
   give that a stored batch is recorded once per worker.
2. What of the liveness properties has a safety core: the steps that bring an
   action nearer to its end (`EveryActionIsOver`), a measure that no step raises.
3. Signup and the seeded administrator (15) beside the logins.
