# TLA+ models of ModelWeaver

ModelWeaver runs language-model agents on a workstation. A *gateway* (REST) and
an *agent daemon* (AFD) share SQLite databases: agents are rows, "hydrated" in
the thread of whichever process serves a call, supervised by a ticker, driven by
a workflow, and told to pause, resume or die through a table of signals. Around
them are a to-do list the agents share, a journal of model calls folded into the
database by a process of its own, a queue of installations, the catalogue of
providers and models, keys, rate limits and locks.

This directory holds TLA+ modules of the parts whose correctness depends on the
order of things, the TLC configurations that check them, and TLAPS proofs.

    tlc -workers 2 -config AL_one.cfg MCAgentLifecycle      # a run
    tlapm AgentLifecycleProofs.tla                          # proofs: any module *Proofs

`PROJECT.json` maps every definition to source lines and lists components, runs,
mutants, findings, hazards and theorems.

## 1. Inventory

| Part | State it keeps | Operations | What is hard | Correct when |
|---|---|---|---|---|
| Agent life cycle (`agent_manager/service.py`, `agent_daemon/service.py`, `ticker.py`) | tables `agents`, `agent_runtime`; pid of each process | create, execute, capability, chat, spawn, handoff, delete, kill, admit, tick, sync | threads of several processes on one row; heartbeats against timeouts; exceptions and deaths between hydrate and dehydrate | rows always supervised and owned; agents settle; live calls are never declared dead; leftovers are reclaimed |
| Memory of agents (same files) | `agents.variables_json` | turn of chat, execution, update, succession, `configure` | read at the start of a call, written back as a whole at its end | what a caller was told is kept |
| AFD and its socket (`afd/service.py`, `afd/ipc.py`, `api/afd_client.py`) | the socket file, the proxy's cached availability | serve, probe, call, fallback, stop | a timeout against calls without limit; two daemons on one path | a call runs at most once |
| Signals (`agent_manager/service.py`, `fsm_interpreter.py`, `router.py`) | table `agent_signals`, `FSMResult` | send, route, check, acknowledge, complete | checks at four places; death between two commits | applied once, in order; pause holds; kill ends; resume wakes |
| Workflows (`fsm_interpreter.py`, `dsl_executor.py`) | `FSMResult`, the loops under way | run, the step handlers, bodies of composite steps | nested control codes, limits, signals | ends; obeys a kill |
| Shared tasks (`dispatcher.py`, `provisioning.py`, `worker.py`, `review_service.py`, `auto_debug_service.py`, `scheduler.py`, `watchdog_service.py`, `watcher_service.py`) | `shared_tasks`, `wakeup_calls`, agents of the older schema | dispatch, execute, review, debug, schedule, watch, reset | services that undo each other; a transaction over several steps | one worker per task, no task forgotten, every task ends |
| Stream bus (`stream_bus.py`) | `stream_events`, sequence counters | publish, poll, reset | two locks; numbers restart; one counter per process | subscribers miss nothing |
| Storage and quotas (`agent_storage.py`) | files, `storage_json` | write, delete, quota request | several objects cache it | quota kept |
| Home and inbox of an agent (`lib/system/file.py`, `_fs.py`, `agent.py`) | files, `index.json`; a file per message | write, move, delete; send, receive | whole-file rewrites without a lock; two listings | aliases lead to files; messages are kept |
| Skills and hooks (`skill_manager.py`, `lifecycle.py`) | the one `SkillManager`, its workspace; subscriptions | call, expand, publish, cleanup | an attribute all threads overwrite | a skill works in its caller's home |
| Usage journal and collector (`usage_log.py`, `usage_collector.py`) | `real_call.log`, `.flush`, `.retry`; call rows, budgets | append_call, run_once | rename under open writers; locked database; death between commit and unlink | counted once, nothing lost |
| LLM access (`resilient.py`, `litellm_bridge.py`, `tarif.py`) | threads, recorded usage | chat with timeout and fallback, stream | late answers, locked keys | every answer paid once |
| Keys (`key_manager.py`, `onboarder.py`) | keyring table, `api_keys`, caches | set, delete, lock, load | two stores, no common transaction | a row has its secret |
| Catalogue (`sql/db.py`, `llm_manager.py`, `catalogue/*.py`, `sync_provider_models.py`) | schema and seeds; links and costs; access rows | open, seed, synchronise, merge, refresh, degrade | cascades, several writers, slow listings, write locks held long | known costs stay; access is true; an open leaves a seeded catalogue |
| Allocation (`organisateur.py`, `local_engines.py`) | engines and keys as read | allocate, start and stop an engine | reads one after the other | what it returns is backed |
| Rate limiter (`ratelimit.py`) | sliding windows | check, sweep | sweeps of another window's lists | limit kept |
| Instance lock (`_common.py`) | pid file, `flock` | acquire, exit | check, kill, remove, create | one instance |
| Installation queue (`installer_worker/jobs.py`, `service.py`, `api/daemon.py`) | `install_jobs` in two databases | enqueue, cancel, clear, two consumers | consumers and producers on different databases; check then insert | served in order, none forgotten |
| Tools (`jobs.py`, `recipe_parser.py`) | `local_installs`, the machine | install, uninstall, scan | long commands between read and write | inventory true |
| Gateway (`api/daemon.py`) | singletons, connection shared by its threads | routes | shared transaction | - |
| Other parts | GUI, CLI, watchers, tester, dashboards, scripts | views, I/O, CRUD | - | - |

How they interact. The gateway calls the AFD through the proxy, or an
`AgentDaemon` of its own when it found no AFD. Both execute agents inline, in
the calling thread, with one SQLite connection per `AgentManager`. The ticker of
the AFD and the start-up sync act on rows written by every process, and signal
processes by the pid found there. Operators write `agent_signals`; the executing
thread reads it. While it runs, an agent streams chunks to the bus, touches its
home, calls skills of the process's one manager and models through the bridge.
Bridges append to the journal from every process; the gateway starts and restarts
the collector, which also degrades the access rows the refresh script wrote.
Allocation reads keys, engines and the catalogue. Routes and the GUI queue jobs
for the gateway's thread and the worker service, which write the inventory.

## 2. Modules

### AgentLifecycle

One agent is `status` (column of `agents`, plus UNBORN and DELETED) and
`rowPid`, `rowAge` (its `agent_runtime` row). A process has a pid, 0 when down.
A thread serves one call: `pc` says in which phase, `agent` which agent, `host`
in which incarnation. A supervisor (the ticker, or a thread that serves `admit`)
has the list it read (`todo`) and the agent it is killing.

One action is one commit, or the work between two of them:

| Code | Actions |
|---|---|
| `create_chat_session` | `Create` (`spawn_agent` inserts its own agent, in `Spawn`) |
| `AgentDaemon.call`, `spawn_agent`, `chat_send` | `Call`, `Spawn` |
| `Agent.hydrate` | `Hydrate`, `HydrateFails` (agent deleted meanwhile) |
| `Agent.execute` / `chat_turn` | `MarkRunning`, `StartWork`, `Beat` (heartbeat thread), `Finish`, `Abort`, `MarkIdle` |
| `Agent.dehydrate`, deletion of a temporary agent | `Dehydrate`, `Discard` |
| exceptions: `_capability_op`'s finally, `spawn_agent`'s except, `_execute_op` and `chat_send` without one | `RaiseDehydrates`, `RaiseDeletes`, `RaiseAbandons` |
| `_signal`, `handoff`, `delete_chat_session` | `SendKill`, `Handoff`, `Delete` |
| `check_heartbeats` + `tick`, `admit` | `TickScan`, `Admit` |
| `kill` | `KillSkips`, `KillInline` (own pid), `KillGone` (dead pid), `KillProcess` (SIGTERM), then `Evict` |
| start and `sync`, death | `Start`, `Crash` |

Time is `TimePasses`: rows age, live calls may not go longer than `Latency`
without a heartbeat. In the code `Latency` is the 8 s interval plus the 5 s busy
timeout, `MaxAge` 30 s; only `Latency < MaxAge` is assumed.

### SignalChannel and SignalMailbox

`signals` is the table of one agent, in order. An execution (`Runs`) is the
thread inside `execute`: `pc`, the place it checks from (`from`), the status,
pause flag, step and iteration of its `FSMResult`, the snapshot it still has to
handle. `Snapshot`, `Ack`, `Complete` are the three accesses of
`_make_signal_check`; `CheckedTop`, `CheckedWait`, `CheckedElsewhere` what
`run`, its waiting loop, `_step_llm_call` and the direct path do next; `Task`,
`Sleep`, `End`, `Generate`/`Chunk`/`Generated`, `Direct` the handlers. The
workflow is a parameter: kinds of steps and possible successors, since variables
and answers decide which one is taken.

`SignalMailbox` is the abstract promise: a queue from which signals leave in
order. `InOrderOnce` says that the table, its statuses and the crashes implement
it, through the refinement mapping `box` = what was sent and not applied yet,
`out` = the order of application.

Exceptions other than `AgentAbort` in a check are left out; steps with bodies
are in `WorkflowRun`.

### UsageJournal

Files are inodes with names, because a writer keeps the inode it opened.
`Open`/`Write`/`GiveUp` is `append_call`; `Poll`, `Swap`, `TakeRetry`,
`TakeFlush`, `Consume`, `Locked`, `Commit`, `Unlink`, `Rotate` is `run_once`;
`Crash` the death of the collector at any step, after which the supervisor's
next one starts anew. `late` records lines written to an inode after the
collector was done with it: they are lost by construction of the protocol, which
the properties except and the hazard list names.

Left out: corrupt lines (`make_record` writes well-formed ones), failing disks
in the collector, power loss, a second collector. The database is locked at the
first INSERT of a transaction or not at all. `Rotate` is the size rotation of
`.flush`, which finds none to rotate at that point of the cycle.

### InstallJobs

`table` maps each of the two databases to its jobs by id. A client writes
through its `Door`; `Look` and `Insert` are the two halves of `enqueue_job`.
The gateway's thread takes from runtime.db, the worker service from
modelweaver.db (`Source`), both report to runtime.db (`Mark`, `Finish`). A
consumer may be cut short (`Cut`: death, or a locked database). "installed",
"removed" and "failed" are one status, `done`.

### SharedTasks

`agents`, `tasks` and `calls` are the rows of three tables, `runs` the calls of
`Worker.execute` under way. All services share one connection, so a tick is one
action per row it handles. Dispatcher and provisioning: `Claim`, `Provision`,
`ProvisionRaises` (the INSERT fails and IN_PROGRESS is committed by whoever
commits next), `DispatchCut` (death after `create_agent` committed). Worker:
`Start`, `StartRefused`, `EndRun`, and `Execute` for `Agent.execute`, which runs
a call nobody claimed. `Reset` is the watchdog, `Review`, `HandleReview` and
`DebugLoop` the services that add tasks or put them back, `Trigger` and `Watch`
the scheduler and the watchers, `Exit` the end of an agent, `Crash` the death of
the process and the `reset_busy` of the next start. The loop that runs the ticks
is not in the repository; its tests give the convention. `lost` records the
tasks left IN_PROGRESS where the code is known to leave them.

Outcomes "sleeping" and "terminated" are left out: `_execute_workflow` is called
without an argument it needs and always ends in the exception.

### WorkflowRun

`stack` is the call stack of the loops: the main loop, and one `_run_body` per
composite step under way, each with the step it is at. `Step` calls the handler
of a step by its type; `Goto`, `Push`, `Pass`, `Return` and `Stop` are what the
handlers and `_run_body` do with the control codes; `Limit` is max_iterations,
`CheckSignals` the check of the main loop. A condition, a model or a skill may
answer anything. The older DSL executor is the same main loop with other steps.
`FlowAssumption` leaves out a while whose body is empty, which counts no iteration
and need not end, and a body entered by `continue`, which does nothing.

### StreamBus

A bus per process: `TakeNumber` under one lock, `InsertRow` under another,
`PublishInMemory` under one and with trimming. `BeginRun` and `EndRun` reset and
delete as the agent manager does, `RestartBus` starts a process anew, `Poll` is a
reader that remembers the highest number. `crossed` records what makes numbers
unreliable: two executions at once, or a process that counts below the reader.

### AgentStorage, AgentHome, AgentInbox, AgentMemory

What several executions or requests of one agent read, change and write back as
a whole, without a lock.

* `AgentStorage`: each object keeps its `copy` of `storage_json`; a write goes to
  the disk (`Write`) and then to the count (`SetUsed`).
* `AgentHome`: `WriteFile`, `MoveFile`, `DeleteFile` and then, in steps of their
  own, the rewriting of `index.json` (`IndexAdd` or `IndexRemove` reads it,
  `OpenIndex` truncates it, `WriteIndex` fills it).
* `AgentInbox`: a message is created and then filled; a receiver lists, reads one
  by one and, when it clears, lists again and removes.
* `AgentMemory`: the memory is a set of facts. `Begin` reads it, `FinishTurn`,
  `FinishRun`, `FinishUpdate` and `FinishHandoff` write the copy back, `Configure`
  adds to the copy of the call that consumes the signal, `Give` is a call that
  ends without writing.

Each has a history variable for the losses the code has by construction; the
properties say that nothing else is lost.

### SkillCalls

`root` is the `workspace_root` of each manager there has been (two threads may
both create one), `at` where a thread is between `_get` and `call`: `Enter` sets
the attribute, `Create` makes a manager, `Load` reads the definitions and then the
instance again, `Run` reads the attribute. Who calls is
a step, a hook or an expansion (`why`); `subs` and `hooks` are the subscriptions
that a hydrated agent has and that `Dehydrate` removes and `Abandon` does not.

### LlmAccess

A caller of `resilient_chat` starts a thread per attempt. `ChatStep` is one step
of a thread in the bridge: budget, key, request, retry on a long context, answer,
record. The caller takes the answer (`Returns`), gives up (`GivesUp`) or goes to
another model (`FallsBack`); a thread that was given up goes on to its end.
Streams are callers without a timeout.

### ApiKeys, RateLimits, ToolInstall

* `ApiKeys`: threads of a process share one connection and so one transaction
  (`txn`); `keyring` is read, changed and written as a whole.
* `RateLimits`: lists of times per window, the checks of the minute and of the day
  as two steps of a request, and the sweep that any request may start. The time is
  read before the lock.
* `ToolInstall`: `machine` is what is installed, `row` the inventory; runners
  install, uninstall and scan, each a read, commands, and a write.

### AfdProxy and InstanceLock

`AfdProxy`: the daemon unlinks and binds the path in two steps, `Probe` fills the
cached answer, `Connect` to `GiveUp` is a remote call, `RunLocally` the fallback.
`InstanceLock`: `LockExists` to `WritePid` is `acquire_instance_lock`, one file
access per step, on inodes; `ExitRead` and `ExitRemove` the atexit handler.

### CatalogueSync, CatalogueOpening, ModelAccess, Allocation

* `CatalogueOpening`: `CatalogueDB.__init__` of several processes. The schema
  script commits statement by statement, the seeds in two transactions; `lock` is
  the write lock of the file, and a part that waits for it too long is skipped
  (`ScriptRefused`, `FillRefused`). `Close` is also the death of a process.
* `CatalogueSync`: links with their cost. `Seed`, `SyncFromUrl` and
  `MergeDuplicate` replace or delete rows; `ReadLinks`/`WriteCosts` is a source of
  prices that reads the rows first.
* `ModelAccess`: the refresh script (`RefreshOne`, `RefreshAll`, `Fetch`,
  `WriteRows`, `CommitRefresh`), whose full refresh holds the write lock while it
  fetches; `Degrade` is the collector, `Replaced` a cascade of the catalogue.
* `Allocation`: `allocate` as a chain of reads (`ReadKeys`, `ChooseWanted`,
  `Recommend`, `AnyEngine`, `LastResort`) while keys and the engine change.

### Composition

The modules of one area share variables where the code shares state: the
life-cycle module composes the threads of all processes, the signal module the
senders and the executions. Between areas little is shared: the life cycle
decides who holds an agent, the others what its holder does. `SignalChannel!Begin`
and `Leave` are `AgentLifecycle!MarkRunning` and `Dehydrate`, a kill that a holder
consumes is `AgentLifecycle!Abort`, a call of `AfdProxy` that is executed is
`AgentLifecycle!Call`.

## 3. Runs

Deadlock is not checked in any run (`CHECK_DEADLOCK FALSE`): pids, calls,
signals and jobs are bounded, and a system to which nobody asks anything may
stop.

| Run | Instance | Shows |
|---|---|---|
| `agents_one_process` (AL_one) | 1 agent, 2 threads, the AFD with two incarnations, Latency 1, MaxAge 2 | all of the life cycle's properties, `Reclaimed` under fairness |
| `agents_two_processes` (AL_two) | 2 agents, 1 calling thread in the gateway, AFD ticking, 1 admitter | `RowSupervised` across processes and preemption |
| `ticker_evicts_worker`, `ticker_terminates_gateway` | as the above | findings |
| `signals_serial` (SC_serial) | 1 execution at a time, 2 starts, 3 signals, 4 steps with a loop, 4 iterations, 1 chunk | mailbox refinement, pause, kill, resume |
| `journal_collect` (UJ_collect) | 2 writers, 4 calls, 2 locks, 2 deaths | accounting and liveness of the journal |
| `journal_lock` (UJ_lock) | 3 calls, 2 locks, no death | finding |
| `jobs_queue` (IJ_queue) | 3 clients, 1 tool, 2 jobs per database, 1 consumer cut short | order, ownership and progress of the queue |
| `jobs_twice` (IJ_twice) | same, nothing cut short | finding |
| `shared_tasks` (ST_ticks) | 3 tasks, 1 request, 1 lock or exception, 2 runs | one run per task, agents freed, no task forgotten, every task ends |
| `agent_work` (AW_work) | seven modules about what an agent does while it runs, see below | their properties, `WorkEnds` under fairness |
| `gateway_services` (GW_services) | ten modules about what the gateway and its neighbours offer, see below | their properties |

The last two runs group modules that share no state. A variable `part`, chosen at
the start, says which module moves; the others keep one initial state. The state
space is the sum of theirs and not the product, and every property is checked
where its module moves.

| Module in `MCAgentWork` | Instance | Property |
|---|---|---|
| WorkflowRun | every step type, composite steps nested three deep, 7 iterations | `KilledSoon`, `WorkEnds` |
| StreamBus | 2 buses, 4 chunks, 2 executions | `NothingSkipped` |
| AgentStorage | 2 objects, 2 files | `QuotaHolds` |
| AgentHome | 2 executions, 2 names | `AliasLeadsToFile` |
| AgentInbox | 2 messages, 2 receivers | `MessageKept` |
| AgentMemory | 2 agents, 2 facts, each used twice | `MemoryKept` |
| SkillCalls | 2 threads | `WorksAtHome` |

| Module in `MCGateway` | Instance | Property |
|---|---|---|
| LlmAccess | 1 caller, 3 offers, 3 retries | `AnswersPaidOnce` |
| ApiKeys | 3 threads in 2 processes, 2 references | `RowHasSecret` |
| RateLimits | 2 clients, 8 units of time | `WithinLimits` |
| AfdProxy | 2 daemons, 2 requests | `ExecutedOnce` |
| InstanceLock | 3 starts | `OneInstance` |
| ToolInstall | 2 runners, 2 package managers | `InventoryTrue` |
| CatalogueSync | 2 providers, 1 model, 2 costs, 2 writers | `KnownCostStays` |
| ModelAccess | 1 refresher, 2 models, 2 keys | `AccessTrue` |
| Allocation | 1 chooser, 2 providers and an engine | `AllocatedIsBacked` |
| CatalogueOpening | 3 openers, 2 endpoints | `OpenedIsSeeded` |

Why the bounds are enough. Two threads on one agent are what it takes for every
race on a row (replace, delete, refresh); a third only repeats the role of one
of them. Two pids allow a death and a restart, hence stale pids and the sync.
MaxAge 2 against Latency 1 gives a fresh, an old but acceptable and a stale row.
In AL_two the latency is 0, so that time stands still while a call is held: the
run is about processes, and AL_one about time. Three signals make pause, resume,
kill in every order, with one of them in a second execution after a crash. Four
calls and two locks fill `.log`, `.flush` and `.retry` at once and overwrite one
of them; two deaths count a call three times at most. Two jobs per database with
one tool already give duplicates, foreign rows with the same id, and a queue
behind a blocked job.

Three tasks are the one somebody asked for, its review or its debugging, and what
these put in its place; two runs let a call that the watchdog gave up run beside its
successor. Wherever a file, a row or an attribute is read, changed and written back,
two actors make every lost update, and a second name or fact shows whether what the
other one did not touch survives. Three starts of a daemon are the one that holds
the lock, the one that takes it away and the one that comes between them; three
openings of a catalogue are one that seeds, one that waits and one that comes late.
Larger instances of five of the modules were checked without an error and are not
among the runs, because they take longer than they are worth each time: `ModelAccess`
with two refreshers (3.2 million states), `AgentHome` with three files of which two
share a stem (2.5), `AgentMemory` with a longer history (2.5), `SkillCalls` (0.26)
and `CatalogueOpening` (0.22) by themselves.

Fairness. `AgentLifecycle`: the ticker thread, the kill it has begun, the
heartbeat thread, the short phases of a live call, the restart of the AFD and
time are weakly fair; the length of the work, operators, exceptions and crashes
are not. `SignalChannel`: a run is a thread and goes on. `UsageJournal`: the
collector loops (`main`) and is restarted when it dies; writers owe nothing.
`InstallJobs`: both consumers loop; clients owe nothing. `SharedTasks`: the
dispatcher ticks, calls are handed out, and a run ends, because its request has a
timeout (120 s) and three attempts. `WorkflowRun`: the thread goes on with its
next step; what a condition or a model answers is free. The other modules state
safety only.

## 4. Proofs

`AgentLifecycleProofs` proves, for every set of agents, threads and processes,
every latency below the accepted age and every bound, from the two assumptions
that `AgentLifecycle` states about its constants:

* `TypeCorrect`: `TypeOK`, with `CallsNamed` (a thread that serves a call knows
  its agent and entry point), which the type of a step's result needs.
* `RowsAreSupervised`: `RowSupervised`, inductive given the type invariant. Every
  commit that sets a status outside RUNNING and IDLE also deletes the row.
* `LiveCallsAreFresh`: `NoLiveZombie`. It is not inductive: that a row is fresh
  follows from who refreshed it. The strengthening is `FreshWhileHeld`: the row of
  an agent is never older than the last heartbeat of *any* call that holds it.
  Another call may replace the row, which only makes it younger.
* `RowsAreOwned` and `AgentsSettle`: `RowsOwned`, `Settled`, from the same type
  invariant; the history variable `abandoned` is what makes them inductive across
  exceptions and deaths.

`SignalChannelProofs`, for every workflow, iteration limit and number of signals,
from the assumptions on the workflow and the limits:

* `TypeCorrect`: `TypeOK`. `Located` says which places an execution can be in given
  the call it checks from: at a step there is a step, below the iteration limit.
* `KillsAreObeyed`: `KillStops`, for any number of executions. `KillStops` alone is
  not inductive: `Doomed` adds that the run stays "aborted" until it leaves, and that
  it is one iteration short of the bound while it may still come to a step. Without
  the first part `Advance` could send it round the loop again.
* `SignalsInOrder`: `InOrderOnce`, when `Runs` is a singleton. `InTurn` is the
  invariant: exactly the signals not applied yet are PENDING, and the snapshot an
  execution works on has no gap at its start, so `Ack` delivers the head of the
  mailbox. Lemmas on the mapped queue (`RestGrows`, `RestShrinks`) give the step
  simulation. Death between `ack_signal` and `complete_signal` leaves a row ACKED
  that no snapshot takes again: at most once, which is what the mailbox says.
* `PausesAreObeyed`: `PauseHolds`, when `Runs` is a singleton. `Flagged`: the flag of
  a run is up exactly when the last thing it was told is to pause, and down where it
  makes a step.

With two executions of one agent both of these fail, since they take snapshots of
the same rows: the premise is needed, and the hazard list names the case.

`UsageJournalProofs`, for any number of calls, locks and deaths:

* `TypeCorrect`, with `Shape`: names are distinct inodes, a call writes one line into
  one inode, a busy collector holds the file it reads.
* `CallsCountedOnce`: `CountedOnce`. A line that may still be counted (in the
  transaction, or in a file that is not about to be unlinked) has been counted no more
  often than the collector died; only a death between commit and unlink leaves a
  counted line countable.
* `LossesAreLeftovers`: `OnlyLeftoversLost`. `Order` is the order in which a cycle
  empties the files, so that the rename can only hit a `.flush` that a lock or a death
  left; `Read` says that what is unlinked was counted, except lines written too late.

`SharedTasksProofs`, for any number of tasks, calls and runs, from `TasksInv`, the
conjunction of the type of the rows (`Rows`), of which task refers to which call and
agent (`Linked`), of `Alone`, of `Reviewed` (a task has one review, and waits for it as
DONE until the review was handled), of `Freed` and of `OnlyKnownLosses`:

* `TasksRunOnce`: `OneRunPerTask`. `Alone` is what it needs: a live call, whether it
  waits, is open or is executed although the watchdog failed it, has its task
  IN_PROGRESS, that task's assignee and one execution, all to itself. `OneRunPerTask`
  by itself does not survive the watchdog, which forgets a call that still runs.
* `BusyAgentsAreFreed`: `BusyIsFreed`.
* `TasksAreKept`: `OnlyKnownLosses`. A task IN_PROGRESS has a live call, or is one of
  the few the code is known to leave there.

The other four modules hold proofs about several components each, which share no
state. Each component has an invariant of its own (`KeysInv`, `HomeInv`, ...), shown
to hold initially, to be kept by every action and to imply the property.

`AgentWorkProofs`: an agent at work.

* `SkillsWorkAtHome`: `WorksAtHome`, for any threads and agents. The strengthening
  `AllowedAll` says it of every thread that holds the manager, before its skill reads
  the attribute.
* `StreamSkipsNothing`: `NothingSkipped`. `Followed` is what holds as long as the
  stream was not `crossed`: one execution publishes, the numbers it has taken and will
  take are after the reader's position (`Ahead`), and the reader has what is before
  it (`Received`). That an execution holds one number at a time (`Counted`) is a
  statement about a cardinality, and what makes a reset between taking a number and
  inserting its row impossible for a lone execution.
* `KillsAreHeeded`: `KilledSoon`, for every workflow that `FlowAssumption` admits,
  however deep its loops. Handlers answer True whatever the status, so that a kill
  that was seen does not stop the handler the main loop calls next: `Killed` says that
  what follows is fewer steps than there are loops, that each loop that is under way
  still has a step to return to, and that a body just entered is at its entry. The
  lemmas say where each handler leaves the stack (`Finishes`, `GoesOn`, `Enters`).
* `WorkflowsAreTyped`, `StreamsAreTyped`: `FlowTypeOK` and `StreamTypeOK`, from the same
  invariants.

`AgentDataProofs`: what an agent keeps.

* `AgentsRemember`: `MemoryKept`. `UpToDate`: a call nobody wrote behind has all that
  is in the memory it will overwrite, so that only stale calls lose anything.
* `InboxKeepsMessages`: `MessageKept`. `KnownRead`: when a receiver goes from reading
  to clearing, all that its first listing had was read or removed by somebody.
* `AliasesLeadToFiles`: `AliasLeadsToFile`. `Undisturbed` says what an execution that
  nobody crossed is about to write: the index as it is now but for its own alias, or
  without the name it removes. `WritesAlone`: while it has truncated the index, any
  other execution nobody crossed is about to move a file and has not begun with the index.
* `QuotasHold`: `QuotaHolds`, for any finite set of files. `DiskCounted`: the one object
  that is alive counts at least what is on the disk, in its copy or in what it is about
  to save. The sum over the files is a fold; `TotalWithout` says that it does not depend
  on the order, by induction on the size of the set.
* `QuotasAreCapped`: `StorageTypeOK`, above all that no quota passes the maximum, also
  when objects race (`StorageRest`): each copy was capped when it was approved.

`CatalogueProofs`: installations and the links of the catalogue.

* `TypeCorrect` of `InstallJobs`; every step changes the tables in one of three ways
  (`TableStep`).
* `JobsServedInOrder`: `ServedInOrder`. `InLine`: the jobs that wait come after those
  that were served, and the job the gateway's thread picked lies between.
* `RunningJobsAreHeld`: `RunningIsHeld`.
* `InventoryFollows`: `InventoryTrue`. `RowFollows`: a tool that is installed has a row
  or a job that will write it (`WillSave`), a row has a tool or a job that will remove
  it, and what a job saw is still there when it saves.
* `MergesAreAdditive`: `KnownCostStays`, an action property. `SnapTrue`: rows that a
  writer has read are links still, and it counts as `missed` those that got a cost since.

`GatewayProofs`: the services of the gateway.

* `CallsRunOnce`: `ExecutedOnce`. `Counted`: how often a request was executed follows
  from where its caller is; in particular a fallback begins only where no daemon took
  the request.
* `ServiceRunsOnce`: `OneInstance`. `HasFile`, `Exclusive` and `AtPath`: who holds a
  lock holds it on the inode it opened, an inode has one holder, and the path leads to
  that inode unless the file was removed under a living process (`stolen`).
* `AnswersArePaid`: `AnswersPaidOnce`. `Accounted` counts answers and records of a
  thread by the place it is at; `Served` says that the thread of a caller's last attempt
  asks the model the caller reports, and that a caller has no other thread's answer.
* `AccessIsTyped`: `LlmTypeOK`. That a fallback is an offer needs that a set of
  candidates has a first one (`AlternativeIsOffer`), that no call passes `max_retries` the
  guard of `FallsBack`.
* `AccessIsTrue`: `AccessTrue`. `Matches` holds of the table and of the transaction
  that is open over it; `Prepared` says that the holder of the lock wrote rows that
  match the lists it fetched.
* `KeysHaveSecrets`: `RowHasSecret`. `TxnBacked` says it of the transaction that is open,
  where a row without a secret has a thread of the same process that is about to store
  it (`Stores`); `Flushed`, that it has one when that thread commits.
* `KeysAreTyped`: `KeysTypeOK`. `Fits` adds that an operation under way has a ref, which
  what it flushes or excuses needs.
* `OpeningSeeds`: `OpenedIsSeeded`, for any set of processes and endpoints. `Progress`
  says what a run of the schema script has written so far, `Passed` what the parts of an
  open that were not skipped leave to the parts after them. Between them stands the one
  state that is not obvious: endpoints are seeded in part only while a script is at work
  (`Under`) or after one was cut short (`cut`).
* `AllocationsAreBacked`: `AllocatedIsBacked`. `Sound` relates what a call has read to
  what it met and to what was there all the time: the keys it read are of providers it
  met, and only the engine can be there and not among them, since each read of the keys
  comes before that of the engines. `FirstFound`: a search through a list returns an
  element of it.
* `LimitsHold`: `WithinLimits`. `Held`: in every period that reaches into the window, as
  many events are in the list as passed, so that the count that decides is never below
  the count that matters; `Recent`: the last of a list is the latest within a unit, which
  is why a list that is old by its last event is old altogether. A thread may read the
  clock before another one and enter its event after it: lists are sorted only that far.
  `SinceScans` and its lemmas say what the filter of a list keeps, by induction on its
  length.

Each step lemma has one case per action of `Next`, or per group of actions that
leave alone what it is about. The invariants that are proved are invariants of a run
too, but for some of the type invariants.

What the proofs take from the code, beyond that sets are sets and numbers are numbers:

* `LimitsAssumption`: the minute's window is at most twice the interval of the sweep (60
  against 2 x 300 seconds in `ratelimit.py`). With a longer window the sweep would forget
  requests that count, and `WithinLimits` would not hold.
* `FlowAssumption`: no while with an empty body and no body entered by `continue`. With
  the latter a killed workflow could enter the body again until the limit is reached.
* `AllocationAssumption`: the engine is one of the providers, recommendations name
  providers, and no provider has the empty name.
* `CatalogueAssumption`, `HomeAssumption`, `BoundsAssumption` and the others say what
  kind of thing a constant is.

Induction: the library's theorems take a predicate as a parameter, which the provers
cannot instantiate. What is proved by induction here (on the length of a list, the size
of a set) goes through `LeastNatural`: the numbers at which a given statement fails have
no least element, so there are none. It is proved from the well-foundedness of < in the
library, in each module that uses it.

Only model-checked: liveness (`Reclaimed`, `KillEnds`, `ResumeWakes`, `Replayed`,
`Collected`, `QueuedServed`, `TasksEnd`, `WorkEnds`), which needs ENABLED. Every
invariant and every action property that a passing run checks is proved.

## 5. Findings

Each is a run that violates one property; `PROJECT.json` quotes the lines.

1. The ticker reads the zombies, then kills them one by one without looking
   again: an agent hydrated in between is evicted at work.
2. `kill` spares its own process only. An agent run inline by the gateway and
   abandoned, or preempted, makes the AFD terminate the gateway.
3. Two locks in a row lose journal lines, though the journal promises no loss.
4. The worker service runs a job of modelweaver.db forever, and marks an
   unrelated job of runtime.db.

Noticed besides, while reading the code for the models. Where a model has to take
account of one of these, a comment of the module says so; none is a run.

* Life cycle: the start-up sync takes every row older than the current second for an
  orphan (`agent_daemon/service.py:367`, docstring `:360`).
* Signals: a kill consumed before an `end` step is overwritten by its status
  (`fsm_interpreter.py:622`, against `docs/VERSIONS.md:273`); the routed resume asks for
  a status PAUSED that nothing stores (`router.py:57`).
* Jobs: cancelling a running job never kills it (`pid` is never written); the gateway
  reports an uninstallation as "installed"; the rotation of archives is unreachable.
* Shared tasks: a task whose review was rejected is never reviewed again; a run that
  ends late makes a STOPPED agent IDLE; provisioning inserts an id of `providers` where
  one of `model_providers` is due, and the task stays IN_PROGRESS although a comment says
  it goes back to TODO; provisioned agents never match a task with a context;
  `signal_relay` calls `send_broadcast` with a keyword it does not have.
* Workflows: break and continue inside an if or a group do not reach the loop around it;
  a while with an empty body counts no iteration; a run that ends exactly at the limit is
  a failure; a kill seen at the top of the loop still calls the handler.
* Storage: nothing in production calls write, delete or request_quota; overwriting a file
  counts its size again; two objects lose each other's count or approved quota.
* LLM access: one locked key makes every fallback raise `KeyLockedError`; an answer
  without `usage` is recorded and then raises, so that it is paid twice; an empty stream is
  never counted; a budget that is reached still lets the call pass.
* Keys: metadata is stored with `str` and read with `json.loads`, so that `api_base` is
  lost; `set_key` on a fresh manager marks a cache with that one key as loaded; the
  keyring file is rewritten without a lock.
* Rate limits: refused attempts count; a first event is accepted whatever its weight; token
  limits are never used; the list of the day is forgotten after ten idle minutes.
* AFD proxy: availability is cached for good; a timeout is reported like an unreachable
  daemon although the daemon goes on; the AFD has no instance lock, a second one takes the
  path and the end of either unlinks it.
* Instance lock: the path of `/proc` is computed from `RUN_DIR` and is wrong for the usual
  homes, so that an older instance is never recognised; a file that is still empty is
  removed under its owner, against the docstring ("Garantit un seul processus par
  `name`"); a second gateway overwrites `api.token` before its bind fails.
* Tools: local recipes are sought under `modules/`; tools outside the scan list never get
  a row; `op_tools_install_all` queues everything again, since it reads fields that
  `list_all` does not return; an uninstallation whose commands fail is a success.
* Catalogue: `INSERT OR REPLACE` with foreign keys on cascades over the links; sync_all
  passes a target whose aliases are never used; "ne ecrase JAMAIS" and "fusion additive"
  do not hold; a known output cost is overwritten when only the input cost was unknown.
* Opening: `provider_endpoints` has no UNIQUE, so that "INSERT OR IGNORE" is not
  idempotent (`catalogue_schema.sql:206`); an open that finds everything seeded returns
  with a write transaction open, and a third one may get "database is locked".
* Access: `list_available_models` ignores `declared`; a degradation during a full refresh
  that holds the lock for more than 5 s is swallowed; rows of a deleted key stay declared
  until the next full refresh.
* Allocation: `_pick_model` looks for a field that `list_models` never returns;
  `(A or B)[0]` may raise; a request is refused although another provider has a model.
* Home: directories that are deleted or moved keep their aliases; a half-written index
  reads as empty and the next writer drops all aliases.
* Inbox: a message that arrives between the two listings of a clearing receiver is deleted
  unread; two receivers that clear raise FileNotFoundError and lose what was read.
* Memory: a `configure` consumed by a turn that fails is reported applied and never kept;
  a successor gets the variables of the row, not those of the run; an agent that succeeded
  another cannot be deleted before it; concurrent calls overwrite each other.
* Skills: every `_get` overwrites the workspace root of the one manager; two threads may
  create it; events published with a string reach no subscriber, since `str(HookType.X)` is
  not its value; calls left by an exception never clean up their subscriptions.

## 6. Limits of the models

The kill's read of the row and the signal that follows are one step; so are the
sync's query and its commit, and hydrate's. The operating system reuses no pid.
The gateway's `AgentManager` has its own connection in the life-cycle module. Chat
histories, recipes and prompts are data that no property looks at. Power loss and
failing disks are left out everywhere.

Not modelled, and why:

* git collaboration (`ProjectRepo`): what it promises is mostly what git promises;
* sums of usage budgets: one SQL statement each;
* watchers and tester, dashboards, resources, plumber, containers: reads of the system
  and of other tools;
* GUI and CLI: views over the gateway's routes; release and test scripts;
* parsing of workflows, recipes and provider pages, prompts and templates: text;
* audit and logs: nothing reads them back;
* the aliases of the catalogue, the RAM and CPU test of `RessourceManager`, and
  `_capability_op` keeping a given provider with the model of another.

Three hazards have no property yet: two executions of one agent on one signal table
(`agent_manager/service.py:386`), two collectors on one journal (`api/daemon.py:1990`),
and routes that share one SQLite connection between threads (`jobs.py:74`).

## 7. Plan

1. `SignalChannel` with two executions: what is left of `InOrderOnce` and
   `PauseHolds` (each signal at most once per snapshot).
2. `UsageJournal` with two collectors: which lines can then be counted twice.
3. The connection the gateway's routes share: which commit ends whose transaction.
4. `AfdProxy` composed with `AgentLifecycle`: a call given up by the caller against the
   agent that still runs it.
