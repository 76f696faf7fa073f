---------------------------- MODULE SharedTasks ----------------------------
(***************************************************************************)
(* The to-do list the agents share, the wakeup calls that make an agent    *)
(* work, and the services that tick over both: dispatcher, provisioning,   *)
(* worker, watchdog, review, auto-debug, scheduler and watchers.           *)
(*                                                                         *)
(* Sources: AgentFrameWork/{dispatcher,provisioning,worker,factory,        *)
(* watchdog_service,review_service,auto_debug_service,scheduler,           *)
(* watcher_service}.py, modules/sql/{agent_repository,                     *)
(* orchestration_repository}.py.                                           *)
(*                                                                         *)
(* All services share one connection. What a tick has not committed when   *)
(* the process dies has not happened, except where create_agent commits in *)
(* the middle of one (DispatchCut), so a tick is one action per row it     *)
(* handles. The loop that runs the ticks and hands calls to workers is not *)
(* in the repository: its convention (list_pending, claim, execute, and    *)
(* reset_busy at the start) is the one of its tests.                       *)
(***************************************************************************)
EXTENDS Naturals, Sequences, FiniteSets

CONSTANTS
  Contexts,    \* do tasks name a context? a set of booleans
  Priorities,  \* priorities of the tasks users add
  MaxTasks,    \* bound: rows of shared_tasks
  MaxRequests, \* bound: those that are nobody's child
  MaxUpsets,   \* bound: calls no task asked for, exits, deaths of the process
  MaxRuns      \* bound: executions at a time

ASSUME BoundsAssumption ==
  /\ Contexts \subseteq BOOLEAN /\ Priorities \subseteq Nat
  /\ MaxTasks \in Nat /\ MaxRequests \in Nat
  /\ MaxUpsets \in Nat /\ MaxRuns \in Nat

VARIABLES
  agents,   \* rows of agents, by id
  tasks,    \* rows of shared_tasks, by id
  calls,    \* rows of wakeup_calls, by id
  runs,     \* calls of Worker.execute under way: [call, agent, by]
  job,      \* the scheduled job: "due", "waiting" or "off"
  handled,  \* reviews whose result was given to handle_review_result
  upsets,   \* those of MaxUpsets so far
  lost      \* history: tasks that something left IN_PROGRESS for good

vars == <<agents, tasks, calls, runs, job, handled, upsets, lost>>

\* The provider of an agent: none, one without endpoint_url, or a complete one.
Providers == {"none", "mute", "ok"}

\* A row create_agent inserts: its config names no context, `fits` says whether
\* the one an administrator created with contexts does.
NewAgent(role, fits, provider) ==
  [role |-> role, fits |-> fits, provider |-> provider, status |-> "IDLE"]

NewTask(role, ctx, prio, parent) ==
  [role |-> role, ctx |-> ctx, prio |-> prio, parent |-> parent,
   status |-> "TODO", assignee |-> 0]

NewCall(a, t) == [agent |-> a, task |-> t, status |-> "TODO"]

\* One agent with contexts, created by hand; whatever its provider.
Init ==
  /\ \E provider \in Providers : agents = <<NewAgent("codeur", TRUE, provider)>>
  /\ tasks = <<>> /\ calls = <<>> /\ runs = {}
  /\ job = "due" /\ handled = {} /\ upsets = 0 /\ lost = {}

Todo(t)     == tasks[t].status = "TODO"
Open(c)     == calls[c].status \in {"TODO", "BUSY"}
Child(t, role) == \E k \in DOMAIN tasks : tasks[k].parent = t /\ tasks[k].role = role

\* Agent.add_task, SharedTaskRepository.create
AddTask(ctx, prio) ==
  /\ Len(tasks) < MaxTasks
  /\ Cardinality({t \in DOMAIN tasks : tasks[t].parent = 0}) < MaxRequests
  /\ tasks' = Append(tasks, NewTask("codeur", ctx, prio, 0))
  /\ UNCHANGED <<agents, calls, runs, job, handled, upsets, lost>>

-----------------------------------------------------------------------------
(* Dispatcher and provisioning *)

\* _find_compatible_agent: the agent stays IDLE until a worker runs its call.
Compatible(t) ==
  {a \in DOMAIN agents : /\ agents[a].status = "IDLE" /\ agents[a].role = tasks[t].role
                         /\ tasks[t].ctx => agents[a].fits}

\* list_pending: by priority, then by age.
First(t) ==
  /\ Todo(t)
  /\ \A u \in DOMAIN tasks \ {t} : Todo(u) =>
       tasks[u].prio < tasks[t].prio \/ (tasks[u].prio = tasks[t].prio /\ u > t)

Assigned(t, a) == [tasks EXCEPT ![t].status = "IN_PROGRESS", ![t].assignee = a]

Claim(t) ==
  /\ First(t)
  /\ \E a \in Compatible(t) :
       /\ tasks' = Assigned(t, a)
       /\ calls' = Append(calls, NewCall(a, t))
  /\ UNCHANGED <<agents, runs, job, handled, upsets, lost>>

\* The `providers` table is not empty; otherwise the task stays TODO.
Provision(t) ==
  /\ First(t) /\ Compatible(t) = {}
  /\ agents' = Append(agents, NewAgent(tasks[t].role, FALSE, "ok"))
  /\ tasks' = Assigned(t, Len(agents) + 1)
  /\ calls' = Append(calls, NewCall(Len(agents) + 1, t))
  /\ UNCHANGED <<runs, job, handled, upsets, lost>>

\* The id taken from `providers` is none of model_providers, or the database is
\* locked: the INSERT raises and IN_PROGRESS stays in the open transaction, which
\* the next commit writes.
ProvisionRaises(t) ==
  /\ First(t) /\ Compatible(t) = {}
  /\ tasks' = [tasks EXCEPT ![t].status = "IN_PROGRESS"]
  /\ lost' = lost \cup {t}
  /\ UNCHANGED <<agents, calls, runs, job, handled, upsets>>

-----------------------------------------------------------------------------
(* Death of the process: its executions end, reset_busy requeues their calls *)

\* Mutants of Requeued: no reset_busy; the calls cut short are failed.
NotRequeued == calls
RequeuedFailed == [c \in DOMAIN calls |->
  IF calls[c].status = "BUSY" THEN [calls[c] EXCEPT !.status = "FAILED"] ELSE calls[c]]

Requeued == [c \in DOMAIN calls |->
               IF calls[c].status = "BUSY" THEN [calls[c] EXCEPT !.status = "TODO"] ELSE calls[c]]

Upset == upsets < MaxUpsets /\ upsets' = upsets + 1

Die == /\ Upset
       /\ runs' = {} /\ calls' = Requeued

Crash == Die /\ UNCHANGED <<agents, tasks, job, handled, lost>>

\* create_agent committed the agent and IN_PROGRESS; the rest was not written.
DispatchCut(t) ==
  /\ First(t) /\ Compatible(t) = {}
  /\ Die
  /\ agents' = Append(agents, NewAgent(tasks[t].role, FALSE, "ok"))
  /\ tasks' = [tasks EXCEPT ![t].status = "IN_PROGRESS"]
  /\ lost' = lost \cup {t}
  /\ UNCHANGED <<job, handled>>

-----------------------------------------------------------------------------
(* Worker *)

StatusOf(a, status) == [agents EXCEPT ![a].status = status]
TasksOf(c, status) ==
  IF calls[c].task = 0 THEN tasks ELSE [tasks EXCEPT ![calls[c].task].status = status]

\* The agent of a shared task is the one the task names, not the one of the call.
Doer(c) == IF calls[c].task = 0 THEN calls[c].agent ELSE tasks[calls[c].task].assignee

\* WakeupCallRepository.list_pending: by the time it was asked for.
NextCall(c) == /\ calls[c].status = "TODO"
               /\ \A d \in 1 .. c - 1 : calls[d].status # "TODO"

\* list_pending and claim, then execute up to the commit of BUSY.
Start(c) ==
  /\ NextCall(c) /\ Cardinality(runs) < MaxRuns
  /\ agents[Doer(c)].provider # "none"
  /\ calls' = [calls EXCEPT ![c].status = "BUSY"]
  /\ agents' = StatusOf(Doer(c), "BUSY")
  /\ runs' = runs \cup {[call |-> c, agent |-> Doer(c), by |-> "loop"]}
  /\ UNCHANGED <<tasks, job, handled, upsets, lost>>

\* No provider: the call fails, the task is not touched.
StartRefused(c) ==
  /\ NextCall(c) /\ agents[Doer(c)].provider = "none"
  /\ calls' = [calls EXCEPT ![c].status = "FAILED"]
  /\ lost' = lost \cup ({calls[c].task} \ {0})
  /\ UNCHANGED <<agents, tasks, runs, job, handled, upsets>>

Answered(r, call, task) ==
  /\ calls' = [calls EXCEPT ![r.call].status = call]
  /\ tasks' = TasksOf(r.call, task)
  /\ UNCHANGED lost

\* The answer came; or an exception (a request that failed three times, a workflow,
\* whose call lacks an argument); or no_endpoint, which ends neither.
Outcome(r) ==
  IF agents[r.agent].provider = "mute"
  THEN lost' = lost \cup ({calls[r.call].task} \ {0}) /\ UNCHANGED <<calls, tasks>>
  ELSE Answered(r, "COMPLETED", "DONE") \/ Answered(r, "FAILED", "FAILED")

\* Mutant of EndRun: the failed execution does not free its agent.
EndRunKeepsBusy(r) ==
  /\ runs' = runs \ {r} /\ Outcome(r)
  /\ agents' = IF calls'[r.call].status = "FAILED" THEN agents ELSE StatusOf(r.agent, "IDLE")
  /\ UNCHANGED <<job, handled, upsets>>

EndRun(r) ==
  /\ runs' = runs \ {r} /\ Outcome(r)
  /\ agents' = StatusOf(r.agent, "IDLE")
  /\ UNCHANGED <<job, handled, upsets>>

-----------------------------------------------------------------------------
(* Calls no task asked for, and the end of agents *)

Extra(a) == Upset /\ calls' = Append(calls, NewCall(a, 0))

\* SchedulerService.tick: the agent of the job is the first one.
Trigger ==
  /\ job = "due" /\ Extra(1)
  /\ job' \in {"waiting", "off"}
  /\ UNCHANGED <<agents, tasks, runs, handled, lost>>

JobDue == /\ job = "waiting" /\ job' = "due"
          /\ UNCHANGED <<agents, tasks, calls, runs, handled, upsets, lost>>

\* WatcherService.tick, watch type "tasks": every tick sees the watcher due.
Watch(a) ==
  /\ agents[a].status = "IDLE"
  /\ \E t \in DOMAIN tasks : Todo(t) /\ tasks[t].role = agents[a].role
  /\ Extra(a)
  /\ UNCHANGED <<agents, tasks, runs, job, handled, lost>>

\* Agent.execute: its call is run without being claimed, whatever the status
\* has become since the object read IDLE.
Execute(a) ==
  /\ agents[a].provider # "none" /\ Cardinality(runs) < MaxRuns
  /\ Extra(a)
  /\ agents' = StatusOf(a, "BUSY")
  /\ runs' = runs \cup {[call |-> Len(calls) + 1, agent |-> a, by |-> "caller"]}
  /\ UNCHANGED <<tasks, job, handled, lost>>

\* Agent.exit, alone or with a successor that gets its provider.
Exit(a) ==
  /\ Upset
  /\ agents[a].status \notin {"STOPPED", "TERMINATED"}
  /\ \/ agents' = StatusOf(a, "STOPPED")
     \/ agents' = Append(StatusOf(a, "TERMINATED"),
                         NewAgent(agents[a].role, FALSE, agents[a].provider))
  /\ UNCHANGED <<tasks, calls, runs, job, handled, lost>>

-----------------------------------------------------------------------------
(* Watchdog: the age is the one of the call's row, not of its execution *)

\* Mutant of Reset: the task is given back to the dispatcher.
ResetReleases(a) ==
  /\ agents[a].status = "BUSY"
  /\ \E c \in DOMAIN calls :
       /\ calls[c].agent = a /\ calls[c].status = "BUSY"
       /\ calls' = [calls EXCEPT ![c].status = "FAILED"]
       /\ tasks' = TasksOf(c, "TODO")
  /\ agents' = StatusOf(a, "IDLE")
  /\ UNCHANGED <<runs, job, handled, upsets, lost>>

Reset(a) ==
  /\ agents[a].status = "BUSY"
  /\ \E c \in DOMAIN calls :
       /\ calls[c].agent = a /\ calls[c].status = "BUSY"
       /\ calls' = [calls EXCEPT ![c].status = "FAILED"]
       /\ lost' = lost \cup ({calls[c].task} \ {0})
  /\ agents' = StatusOf(a, "IDLE")
  /\ UNCHANGED <<tasks, runs, job, handled, upsets>>

-----------------------------------------------------------------------------
(* Review and auto-debug *)

Spawn(t, role, prio) ==
  /\ Len(tasks) < MaxTasks
  /\ ~Child(t, role)
  /\ tasks' = Append(tasks, NewTask(role, tasks[t].ctx, prio, t))
  /\ UNCHANGED <<agents, calls, runs, job, handled, upsets, lost>>

\* process_completed_tasks: a review of high priority is reviewed in turn.
Review(t) ==
  /\ tasks[t].status = "DONE"
  /\ tasks[t].role = "codeur" \/ tasks[t].prio > 5
  /\ Spawn(t, "critique", tasks[t].prio + 1)

\* handle_review_result, FAILED: the parent is to be done again.
HandleReview(r) ==
  /\ tasks[r].role = "critique" /\ tasks[r].status \in {"DONE", "FAILED"} /\ r \notin handled
  /\ handled' = handled \cup {r}
  /\ tasks' = [tasks EXCEPT ![tasks[r].parent].status = "TODO"]
  /\ UNCHANGED <<agents, calls, runs, job, upsets, lost>>

\* AutoDebugService.tick
DebugLoop(t) ==
  \/ tasks[t].status = "DONE" /\ tasks[t].role = "codeur" /\ Spawn(t, "test_runner", 0)
  \/ tasks[t].status = "FAILED" /\ tasks[t].role = "test_runner" /\ Spawn(t, "debugger", 0)
  \/ tasks[t].status = "DONE" /\ tasks[t].role = "debugger" /\ Spawn(t, "codeur", 0)

-----------------------------------------------------------------------------
Next ==
  \/ \E ctx \in Contexts, prio \in Priorities : AddTask(ctx, prio)
  \/ \E t \in DOMAIN tasks :
       Claim(t) \/ Provision(t) \/ ProvisionRaises(t) \/ DispatchCut(t)
         \/ Review(t) \/ HandleReview(t) \/ DebugLoop(t)
  \/ \E c \in DOMAIN calls : Start(c) \/ StartRefused(c)
  \/ \E r \in runs : EndRun(r)
  \/ \E a \in DOMAIN agents : Watch(a) \/ Execute(a) \/ Exit(a) \/ Reset(a)
  \/ Crash \/ Trigger \/ JobDue

Spec == Init /\ [][Next]_vars

\* The loop ticks the dispatcher and hands out the calls; a request ends by its
\* timeout of 120 s and three attempts.
FairSpec ==
  /\ Spec
  /\ WF_vars(\E t \in DOMAIN tasks : Claim(t) \/ Provision(t) \/ ProvisionRaises(t))
  /\ WF_vars(\E c \in DOMAIN calls : Start(c) \/ StartRefused(c))
  /\ WF_vars(\E r \in runs : EndRun(r))

-----------------------------------------------------------------------------
(* Properties *)

\* A shared task is executed by one worker at a time, and by the agent it is
\* assigned to, whatever the watchdog, a restart or a review did meanwhile.
OneRunPerTask ==
  \A r \in runs : calls[r.call].task # 0 =>
    /\ r.agent = tasks[calls[r.call].task].assignee
    /\ \A s \in runs : calls[s.call].task = calls[r.call].task => s = r

\* No agent stays BUSY with nothing left that frees it: an execution under way, or
\* a call that will be executed. The watchdog ignores an agent without a BUSY call.
BusyIsFreed ==
  \A a \in DOMAIN agents : agents[a].status = "BUSY" =>
    \/ \E r \in runs : r.agent = a
    \/ \E c \in DOMAIN calls : calls[c].status = "TODO" /\ Doer(c) = a

\* A task is IN_PROGRESS with nobody to finish it only where the dispatcher raised
\* or was cut short, the agent had no provider or no endpoint, or the watchdog
\* failed its call: no other interleaving forgets a task.
OnlyKnownLosses ==
  \A t \in DOMAIN tasks : tasks[t].status = "IN_PROGRESS" /\ t \notin lost =>
    \E c \in DOMAIN calls : calls[c].task = t /\ Open(c)

\* Once no more requests come, every task of the list ends, its reviews and fixes
\* included, unless it is one of the known losses.
TasksEnd == <>[](\A t \in DOMAIN tasks : tasks[t].status \in {"DONE", "FAILED"} \/ t \in lost)
=============================================================================
