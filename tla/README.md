# Codex Crew: models and proofs of its agent core

Codex Crew (`src/src/codex_crew/`) is a local gateway that runs coding agents:
it keeps sessions with agent processes, lets an agent start background agents
("subagents"), runs scripted workflows on warm sessions, shares MCP tool servers
between sessions, and relays the results to chat surfaces and a dashboard. All of
the control described here is asyncio code on one event loop, so its hard bugs are
orders of awaits, cancellations and timers that no test wrote down. The TLA+
modules in this directory model that control; TLC checks them on small instances
and TLAPS proves the results listed under *Proofs* for every value of the
constants.

    cd tla
    tlc -workers 2 -config SubagentManager_agent.cfg MCSubagentManager.tla
    tlapm SubagentManagerProofs.tla

## Inventory

Paths are relative to `src/src/codex_crew/`. *M* modelled here, *P* planned,
*-* left out.

| | component | state | operations |
|---|---|---|---|
| M | subagent manager: `subagent.py`, `subagent_manager/{admission,run,terminal,cancellation,monitoring}.py` | `_agents`, `_tasks`, `_queue`, `_running_count`, last start and stagger timer, the flags of each `SubagentInfo`, `_report_tasks`, `_teardown_gates`, tombstones | spawn, drain, approve, run, recover, stop, stop all, reap, report, `cancel_all` |
| M | worker pool: `acp/worker_pool.py`, worker of `workflows/agent_pool.py` | task and start semaphores, `_idle`, `_created`, `_closing` | send (acquire, reset, step, release), shutdown |
| M | waves and digests: `subagent_manager/waves.py`, `slack/gateway.py` (`_subagent_done`), `dashboard/chat_runner.py`, `dashboard/slot_queue_repository.py` | batch counters, the gateway's record of the wave, held results, the parent's turn and queue, delivery debts | count a member, hold, flush, stuck sweep, deadline flush, close, route, consume, replay, settle |
| M | subagent folders, as far as waves go: `subagent_persistence.py`, `subagent_manager/monitoring.py` | folder, `tombstone.json` | tombstone, mark delivered, list orphans after a restart, notify |
| M | MCP gateway breaker: `mcp_gateway/breaker.py` | deaths and trip of each key, the capped table | record death, record healthy, allow, prune |
| M | MCP gateway pool: `mcp_gateway/{pool,backend,prewarm}.py`, its users in `gatewayd.py` | backends by key, spawn locks, reservations, draining and private backends, refcounts | attach, spawn once, respawn, evict, cut over, heartbeat, detach, shut down |
| P | MCP gateway sessions and claims: `mcp_gateway/{gatewayd,stub,claim,transport}.py` | request ids, claims | forward, cancel, claim |
| P | workflow runner, service, registry: `workflows/{runner,service,registry,store}.py` | run states, checkpoints, budget | start, step, ceiling, cancel, resume |
| P | task runner: `taskrunner.py`, `task_executor.py`, `task_planner.py` | task records, step dependencies | run, pause, resume, retry |
| P | follow-up turns: `subagent_manager/continuation.py` | continuation reservation of an ended agent | continue, watch, report |
| P | session manager: `session*.py` | sessions by key, per-key locks, warm pool, leases | get or create, release, reset, recycle, destroy |
| - | surfaces (Slack, Discord, Telegram, Teams, dashboard, apps), security policy and sandbox, knowledge, memory, history, locks of files, ledgers, protocol clients | text, HTTP, files, subprocess streams | pattern matching, formatting and I/O with little control of their own |

`PROJECT.json` lists each component with its files and the reason it is out.

How they interact. A surface or an MCP tool calls `SubagentManager.spawn`; the
manager asks the approval callback, gets a session from the session manager, runs
one turn on it and calls `_on_done`, which injects the result into the parent's
session. The reaper, a periodic task, and the user's stop both act on the same
`SubagentInfo` as the run task. A wave is a batch of submissions whose results are
held and delivered together. A workflow step calls `WorkerPool.send`, whose
workers are sessions too. Only the tombstones and state files of subagents survive
a restart.

What is hard, and what makes each component correct:

- *Subagent manager.* Five actors (the run, its recovery, the reaper, a stop, the
  shutdown) may end the same agent between each other's awaits. Correct means: the
  slot of an agent is counted once and given back once; it is announced to its
  parent at most once and, unless the manager shuts down, at least once; what was
  announced is not rewritten; a stopped agent is not started again; an agent that
  used tools is not run again; the queue never waits on a timer nobody armed.
- *Worker pool.* Every way out of `send`, cancellation included, must give its
  permit back once and leave the worker either idle or on its way out, so that no
  two callers share a worker, no context leaks into the next step, no session is
  left behind and `_created` is right.
- *Waves.* A wave must close although submissions were lost; a result is on its
  way to the parent in exactly one place, although the flush of the deadline, of a
  full chunk and of the close race and turns fail and are replayed; the durable
  delivered mark is only on results the parent has read.
- *Restart.* An agent that has not reached its parent must be found again; one
  that has must not.
- *Breaker.* A key trips exactly when its deaths say so and is refused for exactly
  the cool-down, although the table forgets keys.
- *Gateway pool.* One backend per key, never above the limit, none shut down under
  a user, none with a revoked credential in the pool, none alive in no index; every
  acquisition ends.

`PROJECT.json` "hazards" lists these at their lines with the properties that
cover them, and the ones no run covers, with the reason.

## Modules

| module | what it is |
|---|---|
| `SubagentManager` | the manager: state, actions, specification, properties |
| `MCSubagentManager` | its instances for TLC |
| `SubagentManagerProofs` | its theorems about types and slots |
| `SubagentRecordsProofs` | its theorems about queue, outcomes, reports and recoveries |
| `WorkerPool` | the pool with its semaphores and worker sessions |
| `WorkerLeases` | what the pool promises its callers; `WorkerPool` is checked to implement it |
| `WorkerPoolProofs` | its theorems, and that it implements `WorkerLeases` |
| `MCWorkerPool` | instances of `WorkerPool` |
| `WaveDelivery` | the way of a wave's results from the manager through the gateway, the parent's turns and the disk |
| `MCWaveDelivery` | its instance |
| `WaveDeliveryProofs` | its theorems |
| `SpawnBreaker` | what the circuit breaker promises, without clocks |
| `CircuitBreaker` | the breaker with its clock and its capped table; checked to implement `SpawnBreaker` |
| `CircuitBreakerProofs` | its theorems, and that it implements `SpawnBreaker` |
| `MCCircuitBreaker` | its instance |
| `BackendPool` | the pool of MCP backends and everybody who works on it; it uses the operators of `SpawnBreaker` |
| `BackendPoolProofs` | its theorems about types, refcounts, cutovers and leaks |
| `BackendUseProofs` | its theorem about who may be shut down |
| `MCBackendPool` | its instances |

`SubagentManager` and `WaveDelivery` are two views of the same announcements: the
first has one report per agent and what may happen to it inside the manager, the
second takes the report as a step and follows it to the parent. The teardown gate
and the one-shot claim are modelled in the first only.

The models cut the code at its awaits: everything a task does from one await to
the next is one action, with every helper it calls on the way. `Task.cancel()`
only records the request (`cancelReq`, `recCancel`); the task sees it at its next
step, as in asyncio, and may meanwhile complete.

### SubagentManager

| part | code | actions |
|---|---|---|
| admission | `admission.py` | `Spawn`, `DrainTimerFires`, `StaggerElapses`; `DrainQueue` is the part every release of a slot calls |
| approval | `_spawn_with_approval` | `SpawnApproved`, `SpawnDeclined`, `AnnounceReturns` |
| run | `_run`, `_run_inner` | `RunStarts`, `RunUsesTool`, `RunCompletes`, `RunFails`, `StrayCancel`, `RunCancelled`, `CancelledBeforeRun`, `TeardownEnds`, `RunReturns` |
| report | `_claim_finalize`, `_run_terminal_report` | `ReportInjected`, `ReportPassesGate`, `ReportFails` |
| recovery | `_recover_after_cancel` | `RecoveryStarts`, `RecoveryResumes`, `RecoveryFails`, `RecoveryReturns`, `RecoveryCancelled` |
| stop | `cancel`, `cancel_for_parent`, `_unqueue` | `CancelQueued`, `Cancel`, `CancelForParent`, `GatheredCancel`, `CancelTooLate`, `StopReaps`, `StopReturns` |
| reaper | `_reaper_loop`, `_force_reap` | `ReaperVisits`, `ReaperPasses`, `ReaperExpires`, `ReaperReaps`, `ReaperReturns` |
| shutdown | `cancel_all` | `ShutdownBegins`, `ShutdownCancels`, `ShutdownGathers`, `ShutdownDrains` |

`info[a]` is the `SubagentInfo` with the flags control depends on; `task[a]` says
at which await the submission, approval or run task is; `Holders` is not a
variable of the code: it is the set the counter `_running_count` stands for.

What is abstracted:

- one parent session, so `cancel_for_parent` stops every agent;
- what a run does inside its turn (prompts, model fallback, steering) is one state
  with the outcomes complete, fail, use tools, be cancelled; follow-up turns are
  left out but for the phase of the shutdown that stops their watchers;
- spawn's checks (memory, governance, directory, agent name, approval mechanism)
  are the five `Gates`, told apart by who announces the refusal and whether it
  stamps the stagger clock;
- time is a nondeterministic choice where the code compares clocks: whether the
  last start is `tooSoon`, whether an agent is past its deadline, whether a bounded
  wait ends or times out. The stagger is positive. Where one bound is larger than
  another by construction the model uses it: the wait for the teardown gate
  outlasts the teardown, and a recovery's wait of 90 s the 30 s of a reset, so
  neither times out first;
- `drainTimer` is one flag for the pending timers; a timer that fires for nothing
  is harmless in the code and a stutter here;
- whether the run is inside the drain of its state writes when a cancellation
  arrives, which decides whether it may recover, is chosen freely;
- new submissions arrive only before the shutdown; one `cancel` per agent is under
  way at a time, besides the reaper; `_on_done` is configured;
- a queued stop is done at once. In the code its record has `done = False` until the
  first step of the report task (`cancellation.py:236-251`). What a second stop in
  that window does is left out of `Spec`, about which everything is checked and
  proved, and is added by `QueuedStopTwice` in `SpecStopTwice` (*Findings*);
- the release of a slot in `_force_reap` is `max(0, count - 1)` in the code
  (`terminal.py:469`) and `count - 1` here, so that `TypeOK` shows that the floor is
  never reached under `Spec`;
- `_drain_queue`'s branch for a cancelled queued agent (`admission.py:642-652`)
  is left out: a queued submission is not yet in `_agents`, so it cannot be taken.

### WorkerPool

`pc[t]` is the await at which caller `t` of `send` stands; `wk[t]` the worker in
its hands; `reap[t]` the dead workers it has popped and must retire. No lock is
held over an await and the lock is never contended, so each locked block is part
of the action around it. `asyncio.Semaphore` is modelled with its queue of waiters
and the permits handed to waiters that have not run yet, because a cancellation
can fall between the two. The session of a worker is external: it exists (`up`),
its process may be `dead`, its conversation may be `used`.

`_protected` is left out: it keeps the orphan sweep of the session layer from the
processes of workers that tell their `pid()`, and the only worker of the program,
`_WorkflowSessionWorker` (`agent_pool.py:74-176`), has none, so `_sync_protection`
registers nothing. A worker's `shutdown` is assumed to end its session, as `PoolDrains`
needs; an error of `destroy` is only logged (`agent_pool.py:157-160`).

The pool is used with `reset=True`, as its only caller in `agent_pool.py` does. A
worker name may be reused after its session is gone: keys are never reused in the
code, and nothing in the pool compares a new worker with one that is gone. The
per-identity sub-pools of `agent_pool.py` are pools of this kind side by side; its
named sessions do not use the pool.

`WorkerLeases` is the promise: each worker is out of service, idle, or leased to
one task; it passes between tasks only through idle; at most `MaxWorkers` are in
service. `ImplementsLeases` maps a worker to the call that has it in hand and is
not retiring it.

### WaveDelivery

| part | code | actions |
|---|---|---|
| submissions | `mcp_tools/spawn.py`, `admission.py`, `api_spawn_lost` | `Arrives`, `NeverArrives`, `LostReported`, `Ends` |
| sweeps | `waves.py` | `SweepsStuckWave`, `SweepsHolds` |
| completion consumer | `_subagent_done` of `slack/gateway.py` | `Reports`, `FlushReports`, `RouteWakes`; `Route` is where a chunk goes |
| turns | `_run_chat`, `_start_next_queued_turn` | `UserTurnStarts`, `TurnConsumes`, `TurnCompletes`, `TurnComesUpEmpty`, `TurnFails` |
| settlement | `_arm_queued_delivery_settlement`, `settle_queued_delivery` | `TurnCallsBack`, `Settles` |
| restart | `_reconcile_orphans`, `_notify_orphan` | `Crash`, `Reconciles`, `NotifiesOrphan` |

A chunk is the set of the members it reports; the texts are left out, so a chunk
is its own key in the ledger as its announce text is in the code. `read`, `told`
and `dropped` are history: what the model of the parent has taken in, what a
notification named, what a turn that failed for good carried. A member is "live"
from its admission to its done flag, queued or running. A turn's consumption is the
cell `consumed` of that turn; it goes to `ending` with the turn, because the tail
of a turn starts the next one before its own callback runs.

What is abstracted: one wave and one parent, with a tab throughout or none (a
channel, cron or crew parent, and results collected inline, have routes of their
own and are left out); the synthesis turn; the timeout of a report; users' messages
only as turns that make the slot busy; the consumption of an empty turn that is
taken back is modelled as none, as the two are in one turn; a retry also reports
its consumption to the cell of the turn it replays, which the model leaves to the
retry; the cap of the delivery ledger. The notice of an orphan is taken to arrive;
the code only logs one that fails (`monitoring.py:170-173`). The parent is not a
stopped orchestrator: the report of a member to one returns before the batch
accounting (`slack/gateway.py:7181-7183`), so that the member is neither counted nor
routed, and `WavesClose` and `ResultsDelivered` say nothing of such parents. One
assumption relates two clocks: the grace
period of a stuck wave (30 minutes) is longer than any submission is on its way.

### CircuitBreaker and SpawnBreaker

The methods of the breaker are synchronous, one action each, and the clock ticks
between them. `history` holds all fast deaths since the last clean slate, against
which `TripExact` compares what the code has kept. `_prune` may choose among open
keys of the same age; the model leaves the choice open. `SpawnBreaker` forgets the
clock: a death may leave any number of the earlier ones in the window, and keys may
be forgotten at any time. `BackendPool` uses that breaker.

### BackendPool

| part | code | actions |
|---|---|---|
| acquisition | `get_or_create`, `acquire_exclusive`, `_acquire_backend` | `Connect`, `Warm`, `LockGranted`, `StaleStopped`, `Spawned`, `SpawnFails`, `Add`, `AddPrivate`, `Swapped`, `Discarded`, `Refused` |
| connection | `_handle_connection`, `_respawn_backend_for_stub` | `Primed`, `Respawn`, `Disconnect`, `Closed`, `Reaped`, `Cancel` |
| sweepers | `evict_idle`, `drain_all_to_bluegreen`, `_heartbeat_sweeper`, `reap_draining` | `IdleSweep`, `Swept`, `Rotate`, `Rotated`, `DeadlinePasses`, `BeatStarts`, `BeatProbes`, `BeatPinged`, `BeatEvicts`, `BeatReaps`, `BeatStops` |
| processes | `backend.py` | `Dies`, `Breaks`, `TaskStops` |
| shutdown | `gatewayd.run`, `shutdown_all` | `Stop`, `ConnsGone`, `SweepsCancelled`, `ShutdownAll`, `AllStopped` |

`_lock` of the pool is never held over an await, so its blocks are part of the
actions; the per-key spawn locks are modelled with their waiters, and a lock that
is popped from the table may still have some. `Procs` bounds the processes that
somebody refers to; a process nobody refers to any more leaves the model with its
slot. `Events` names what may happen in an instance. `quarantined` is left out: no
reachable path sets it. The ways in which a respawn fails after its attach are
collapsed into one; no property tells them apart.

## Runs

Every run is exhaustive over its instance. `CHECK_DEADLOCK FALSE` where the system
comes to rest: when every agent has ended, the pool is closed, the wave is
delivered, or the breaker's clock is at its bound. `BackendPool` is checked for
deadlock: it stops only when its daemon has exited, which is a step that repeats.

| run | instance | checks |
|---|---|---|
| `sm_agent` | 1 agent, every gate, every event; 29 385 states | types; delivered mark only after teardown and report; abandoned report recoverable; the claimed outcome is final; no replay after tools; no start after stop; and, with fairness, every agent is reported, its slot returns, a stop is reported, the shutdown ends |
| `sm_admission` | 3 submissions, 1 slot, one in a batch, refusals, stops; 373 787 states | a free slot and a queued submission imply a pending drain; nothing announced twice |
| `sm_queue` | 2 agents, 1 slot, unanswered approvals, reaper, shutdown, fairness | whatever is queued leaves the queue; the counter equals the holders and stays within the limit; live run tasks do not outnumber the slots |
| `wp_pool` | 3 callers, 2 workers at most, 1 cold start at a time, failures, deaths, cancellations, shutdown, fairness; 103 316 states | live sessions bounded; no live worker forgotten; every call is served; after a shutdown no session stays |
| `wp_cancelled` | the same with cancellations inside the retirement of a worker, 4 workers; 80 214 states up to symmetry | types; permits conserved; clean slate; `WorkerPool` implements `WorkerLeases` |
| `breaker` | 3 keys, a table of 1, limit, window and cool-down 2, 6 moments | a key trips exactly by its history; refused exactly while cooling; the table overflows only by active keys; `CircuitBreaker` implements `SpawnBreaker` |
| `pool_capacity` | 1 connection and 1 prewarming pass want 2 keys of a pool of 1; deaths, wedged and private backends, failing spawns, respawns, cancellations, idle sweeps, shutdown | types and the limit; no backend lost; refcounts exact; no healthy backend shut down under its user |
| `pool_cutover` | 2 connections of 1 key, a credential cutover, deaths, heartbeat, retry, fairness | no stale backend in the pool; every acquisition ends; a draining backend is gone at its deadline |
| `delivery` | a wave of 3 in chunks of 2, 1 forced flush at a time, 1 retry, 1 crash, lost and refused submissions, with and without a tab, fairness; 516 623 states | types and the count of held lines; delivered marks only on results that were read; each result in one place; every completed result is delivered, announced again or its turn failed for good; the wave closes |

Three more runs each find one violation, see *Findings*.

Why these bounds. The properties of one agent (reports, outcome, recovery, stop)
relate actors of the same agent: another agent touches it only through the slot
count, the queue, the reaper's and the shutdown's sets. So one agent with every
event covers their interleavings, and the run is small enough for liveness. Slots
and queue need contention: two agents for one slot make each wait for the other;
three submissions make a queue of two, so that one drain leaves work for a timer;
one of them is batched because batches change who announces. For the pool, three
callers of two workers make one wait; one cold start at a time makes another wait
at the second semaphore; a third and fourth worker make replacement of dead ones
possible, with two dead at once. `Workers` bounds the sessions that exist at a
time. `MayLeak` stops cancelling retirements once `_created` exceeds the limit:
the leak of the last finding would otherwise raise it without end.
`Agents` are submitted once each.

The breaker needs a table smaller than its keys to prune, and three keys so that
idle, open and active ones are in it together; six moments let a key trip, cool
down and trip again. For the backend pool, two callers of one place make every
conflict between two of its users; larger instances were checked outside the runs:
two connections of one key with three processes, a cutover, heartbeat, respawns and
cancellations (1.35 million states), and two keys with three processes and every
event but `lateCancel` (9.3 million). A wave of three in chunks of two has a full chunk, a held rest and a missing
member; its safety was also checked with 2 crashes, 2 flushes and 2 retries (1.44
million states).

Every property has a mutant in `PROJECT.json`: a small bug in a definition (a
missing token, an off-by-one, a dropped guard) under which TLC finds the property
violated. The mutated forms stand next to the definitions they replace.

## Fairness

`FairSpec` of `SubagentManager` assumes weak fairness of each agent's run,
report, recovery and stop steps, of the reaper's steps, of the timers and of the
shutdown: asyncio runs every ready task, and the code bounds each of the awaits,
`_run` by `wait_for`, a report by `_ON_DONE_TIMEOUT`, a session reset by
`_RESET_TIMEOUT`, a recovery by its two deadlines. The reaper's visit of an agent
and its verdict that the agent is over its deadline are strongly fair, since they
are enabled in every sweep and not between: the sweep goes over all agents, and an
agent that stays eventually exceeds any deadline. Nothing is assumed of users: no
approval, submission or stop has to come. `FairSpec` of `WorkerPool` assumes weak
fairness of each call under way and of the shutdown's sweep; a step ends by its
timeout at the latest. The semaphore's fairness is not assumed but modelled.

`FairSpec` of `BackendPool` assumes weak fairness of each caller's steps, of
shutdowns, of the heartbeat and of the deadline of a cutover; starting a process is
strongly fair because the bound `Procs` may disable it for a while, which no code
does. `FairSpec` of `WaveDelivery` assumes weak fairness of reports, of the reaper's
sweeps and what they announce, of the parent's turns, which have a ceiling, of
their callbacks and of the reconciliation after a restart. It assumes nothing of
submissions, runs, users or crashes; `WavesClose` has as its premise that
submissions and runs end.

## Findings

1. *A recovery cancelled by the shutdown is lost to orphan recovery*
   (`cancellation.py:185`, run `sm_shutdown_loses_recovery`). It leaves a tombstone
   and no report, against `subagent.md:238`.
2. *A cancelled call forgets a live worker* (`worker_pool.py:231`, run
   `wp_forgets`). `_get_or_create` pops idle workers and counts a new one, then
   retires the dead ones outside the `try` that restores the count. A call
   cancelled there drops the live worker it popped: it stays alive, and no
   shutdown sees it (`worker_pool.py:305`, `:19`). Driving the real class through this
   order leaves three live sessions in a pool of two.
3. *A backend whose shutdown is cut short is lost to `shutdown_all`*
   (`mcp_gateway/pool.py:965`, run `pool_orphans`). It has left the index before its
   shutdown is awaited; when the awaiting task is cancelled nothing refers to the
   process any more, against the docstring of `shutdown_all` (`pool.py:1144`).
   `NoLeak` of `pool_capacity` shows that these (`abandoned`) are the only ones.

Deviations met on the way, without a run of their own; where a property is named,
it is in the module and TLC refutes it on the instance described:

- A second stop of a queued agent gives back another's slot (`terminal.py:468`). The
  record of a queued stop is in `_agents` with `done = False` until its report task
  runs; a `cancel` scheduled before that, such as a stop of the agent right after a
  stop of all, reaps it, and its slot token, which was never spent, lowers
  `_running_count` by a slot another run holds: more than `max_concurrent` agents run
  (`OccupancyBounded` under `SpecStopTwice`, with 3 agents, 1 slot, the gate `auto`
  and the event `stop`; `subagent.md:63`). Driving the real class with two concurrent
  stops of a queued agent leaves a count of 0 beside a running agent.
- A stopped agent may end with an error (`run.py:453`): a stop resets the session
  before it marks the agent reaped, and the run that dies of the reset records an
  error (`StoppedIsNeutral`; `docs/system-specs/modules/subagent.md:201`).
- A queued submission is started during the shutdown (`run.py:509`): a cancelled run
  releases its slot and drains the queue (`NothingRunsAfterShutdown`;
  `subagent.md:151`).
- A refused queued submission is announced twice (`admission.py:554`) when there is
  neither an approval callback nor a hook configuration and it is in no batch, by the
  refusing branch and by the drain (`AnnouncedOnce` with the gate `bareNone`;
  `admission.py:679`). `sm_admission` leaves this gate out.
- A wave may close twice (`slack/gateway.py:7412`): when two members have set their
  done flag before either is accounted for, the first finds no member pending and
  closes the wave with the lines it has, "All results delivered"; the second opens a
  new record and closes that. Every result arrives; the tallies are wrong.
- With no tab, the notification names the member that flushes, and the held ones of
  its chunk are marked delivered with it. `DeliveredMeansRead` and `OnePlace` are
  about parents with a tab.
- The reconciliation writes an orphan's tombstone before its notice
  (`monitoring.py:118`): with two crashes `ResultsDelivered` fails. A failed member
  has its tombstone before its report, so a crash while its line is held loses the
  line; `ResultsDelivered` is about completed members.
- "Clear completed" drops records the hold sweep looks for; the held results then
  wait for the close of the wave.
- The breaker's cap is not one: closed keys with recent deaths stay
  (`TrackedBounded`; `breaker.py:43`).
- An eviction pops a spawn lock although a woken waiter is about to take it, so two
  spawns of a key may overlap and the second fails at `add` with a key collision.
- One death of a backend may be counted twice, by the heartbeat and by an attach;
  and a ping answered before the death is recorded closes the breaker.
- A handler cancelled by the keepalive probe while it tears down never detaches
  (`gatewayd.py:1729`): `RefcountExact` fails with the event `lateCancel`.

`LiveBounded` and `NoneForgotten` therefore hold of calls that are cancelled
anywhere but in a retirement (`wp_pool`); `PermitsConserved`, `CleanSlate` and
`ImplementsLeases` hold everywhere (`wp_cancelled`).

## Proofs

Every safety property the passing runs check, invariant or action property, is a
theorem for all values of the constants, and so are the two refinements. The
constants are assumed to be what the modules that declare them say: sets of
agents, members, tasks, workers, keys, connections and prewarming passes are
finite; limits are positive where the code's are; `None` and the like are no
member of the sets they stand beside; events and gates are among the known kinds.
The bounds of the runs (processes, drains, time, retries, crashes) stay constants
and may be any number.

Four theorems have a hypothesis. Each leaves out one event or gate with which TLC
refutes the property (see *Findings*), and every other one may happen:
`"cancelCleanup" \notin Events` (`NoneForgottenSafe`, `LiveSafe`),
`"lateCancel" \notin Events` (`RefcountsExact`) and `"bareNone" \notin Gates`
(`AnnouncedSafe`).

`SubagentManagerProofs`:

- `TypeInvariant`: `Spec => []TypeOK`, in particular `_running_count` is never
  negative. `TypeOK` alone is not inductive: that a release decrements a positive
  counter needs the exactness of the count, so `TypeStep` assumes it and the two
  are proved together.
- `SlotSafety`: `Spec => []SlotAccounting`: the counter is exactly the number of
  agents holding a slot, and at most `MaxConcurrent`, for any number of agents and
  slots.

The inductive invariant is `IInv == TypeOK /\ SlotInv`. `SlotInv` adds

- `Slots`: the count, and that the queue holds only submissions that wait, each
  once, which have released nothing. Otherwise a drain could count an agent that
  is already counted, or one whose token is spent;
- `Life`: only what was started is stopped or reaped, so that spending the token of
  an agent gives back a slot it had; and a recovery about to take a slot acts for
  a run that has released its own or is still in the teardown that releases it, so
  that arming the token again adds exactly one holder.

The proof is per action: `TypeStep` and `SlotStep` split `Next`; `SlotTaken`,
`SlotGiven` and `SlotsSame` are the three things a step can do to the set of
holders and its cardinality; `DrainSlots`, `RunExitSlots`, `RunFinallySlots` and
`ReapEndsSlots` apply them to the helpers several actions share; `QuietStep`
disposes of the actions that leave the slots alone. `InitIInv` and `NextIInv`
give `[]IInv`.

`SubagentRecordsProofs`, on top of `IInv`:

- `WakeupSafe` (`NoLostWakeup`): every path that frees a slot drains the queue
  (`DrainArms`, `ReleaseArms`), and between drains slots only become fewer.
- `DeliveredSafe`, `AbandonedSafe`, `AnnouncedSafe`, `OccupancySafe`, and the action
  properties `OutcomeSettles`, `NeverReplays` and `StoppedStaysStopped`. All come from
  `RInv == IInv /\ AgentInv /\ RecInv`. `AgentInv` says of each agent by itself how its
  task, record, tombstone, recovery and report go together: a claim is by the
  `finally` of a run, by a reap that has cancelled the run, or by a path without one
  (`Records`); the delivered mark is on a report of a run that has left its teardown
  (`Marks`). `RecInv` says whom recoveries act for. None of the properties is inductive
  alone: that a run in its `except` branch does not write over a reap's outcome rests
  on who may have claimed it, far earlier.
  A step is the step of one agent and admits at most one other from the queue:
  `Right(b)` is shown for the one, for the admitted one and for those aside.

`WorkerPoolProofs` stacks four invariants, each proved from those before:

- `PermitInv` counts the calls at the stages of both semaphores, with a wake-up on
  its way counted as a permit: `PermitsSafe`. It adds that the queue of a semaphore
  is of calls that wait for it, each once, and that a cancelled one has left it;
  otherwise a permit could wake a call that is gone, or one call twice.
- `WorkerInv`: no two places (idle list, a call's hand, its list to retire, the
  shutdown's) hold the same worker, and what session it has there: `CleanSlateSafe`.
- `CountInv`: `_created` is at least the workers in service, which with the permits
  are at most `MaxWorkers`: `TypeSafe`, so no decrement goes below zero.
- `KnownInv`: every live session is some place's worker: `NoneForgottenSafe`,
  `LiveSafe`.

`PoolImplementsLeases` shows `Spec => ImplementsLeases` step by step: who holds a
worker (`WorkerLeases`) is read off the places, and by `WorkerInv` it is one.

`WaveDeliveryProofs`, for any wave, chunk size and number of retries, sweeps and
crashes:

- `DeliveredMarksAreRead`: `Spec => []DeliveredMeansRead`. The mark is written long
  after the turn has read the chunk, so the invariant `DeliveryInv` adds
  `DebtsAreRead`: what the consumption cell of the turn, the callbacks still to come
  and the writer hold has been read, and a debt owes only members of its chunk.
  `RouteKeeps` and `TurnIsOverKeeps` are the two helpers several actions share.
- `TypeSafe`: with the types, that the held lines are `done - flushed`, whichever of
  the deadline, the full chunk and the close flushes. `TypeInv` adds `CountInv`:
  `done` is at most the number of reported members and `submitted` that of those
  submitted, so that neither passes the size of the wave.
- `OnePlaceSafe`: `Spec => []OnePlace`. `PlaceInv` says of every member, reported or
  not, how many places hold its result; `PlaceSum` writes that number as the sum over
  held lines, waiting chunks, queued ones and the turn, so that each move is one
  place less here and one more there.

`CircuitBreakerProofs`:

- `OverflowOnlyByActive`: `Spec => OverflowIsActive`. `PruneBounds` is about `_prune`
  alone: what it leaves is within the cap, or all closed keys with a recent death;
  the invariant is that the table holds keys.
- `TripsExactly` and `RefusesByTrip`, from `BreakerInv`: the record of a key is its
  history without the deaths that have aged out, which are its first ones
  (`AgedIsPrefix`), and the key is open since the first trip of that history
  (`RecordInv`). Hence it does not matter what `_prune` and `record_death` drop, and
  when.
- `BreakerImplements`: `Spec => ImplementsBreaker`, the step simulation of
  `SpawnBreaker` by the breaker with its clock, window and capped table. The backend
  pool uses `SpawnBreaker`.

`BackendPoolProofs` puts every step into one of four kinds (`StepKinds`): nothing
changes; the others act and every call stays (`Stays`); a call acts and neither
starts a process nor pools one (`Quiet`), or pools one (`Adds`), or starts one
(`StartsFor`). `PoolInv` holds what each stage of a call, each lock, table and sweeper
carries. Each theorem is then an argument about the kinds:

- `TypeSafe`, with `SizeInv` (`Size <= MaxBackends`: the room is checked where a
  backend is inserted, without an await between) and with `RefInv`, since a refcount
  that is the number of attached connections is not negative;
- `RefcountsExact`: `RefInv`, where `Shift` says that a call's step moves the refcount
  with its attachment;
- `NoStaleInPool`: `BornInv` adds that a backend waiting to be recorded was born in
  the epoch its call noted before it awaited the process;
- `NoneLeaks`: `LeakInv`; a running backend passes from hand to hand (`Passes`).

`BackendUseProofs`: `ConnectionsKept`, `Spec => NoneYanked`. That a backend with no
refcount and no reservation has no users needs more than `RefInv`, for a respawn that
waits for its handshake is in neither:

- `OwnInv`: a backend belongs to one key, or to one call, at a time. Otherwise the
  respawn could have reserved another key than the one looked at, or use as its own
  what the pool evicts;
- `ResInv`: a key has at least as many reservations as such respawns. Only this
  inequality holds, and only it is needed;
- `BeatInv`: what the heartbeat takes for gone is not running when it is evicted,
  though the verdict is older than the eviction.

`FreeOfUsers` is the consequence the sweepers, the eviction and the reaping of
drained backends share. `Settles` is what the steps of a call do to owners and
reservations, `Aside` what those of the others do.

Only model-checked: the liveness properties (`FairSpec`; fairness and ENABLED are
outside the prover), and what the three violation runs find.

## Not modelled, and the plan

1. `WorkflowRunner` on `WorkerPool`: the ceiling of a run against its completion
   (`workflows/runner.py:888-925`), cancellation, one terminal event, resume from
   checkpoints.
2. The rest of the delivery: parents in channels, results collected inline, the
   synthesis turn, tabs closed and opened while a wave runs.
3. Follow-up turns (`subagent_manager/continuation.py`), which share slot and report
   with the run; an `AgentContract` (submitted, active, settled once) the manager
   refines.
4. Sessions and claims of the MCP gateway; `TaskRunner`; the session manager.

Surfaces, security policy, sandbox, knowledge, memory, history, protocol clients,
file locks and ledgers are pattern matching, formatting and I/O: what the models
above need of them is an outcome (a refusal, a failed turn, a dead process) and is
a choice there.

The theorems to come are those of the modules to come: that the manager implements
`AgentContract`, and that the workflow runner emits one terminal event.
