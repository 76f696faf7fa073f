---------------------------- MODULE InstallJobs ----------------------------
(***************************************************************************)
(* The queue of installations, table `install_jobs`, which exists in two   *)
(* databases: the gateway's routes write modelweaver.db, the connection    *)
(* jobs.set_shared_conn gave them; every other process writes runtime.db.  *)
(* Two consumers take jobs: the gateway's thread from runtime.db, and the  *)
(* worker service from modelweaver.db. Both report to runtime.db.          *)
(*                                                                         *)
(* Sources: services/installer_worker/jobs.py and service.py,              *)
(* services/api/daemon.py (_process_install_jobs, serve), the commands     *)
(* install_queue_* of the GUI (main.rs), services/tester/service.py.       *)
(*                                                                         *)
(* "done" stands for installed, removed and failed; "gone" for a deleted   *)
(* row, whose id AUTOINCREMENT never gives again. The pid column is never  *)
(* written, so a cancellation kills nothing.                               *)
(***************************************************************************)
EXTENDS Naturals, Sequences, FiniteSets

CONSTANTS
  Clients,   \* threads and processes that queue jobs
  Door,      \* client -> the database it writes, "mw" or "rt"
  Refs,      \* tools
  Nothing,   \* no tool
  MaxJobs,   \* bound: jobs in each database
  MaxCuts    \* bound: consumers cut short

Databases == {"mw", "rt"}
Consumers == {"gateway", "worker"}
Source    == [gateway |-> "rt", worker |-> "mw"]

ASSUME DoorAssumption == Door \in [Clients -> Databases] /\ Nothing \notin Refs
ASSUME BoundsAssumption == MaxJobs \in Nat /\ MaxCuts \in Nat

VARIABLES
  table,   \* database -> its jobs, by id
  wants,   \* client -> tool it found no active job for, or Nothing
  pc,      \* consumer -> "idle", "picked" or "running"
  job,     \* consumer -> id of its job, 0 for none
  cuts,    \* consumers cut short
  served,  \* history: ids the gateway's thread ran, in that order
  runs     \* history: id -> times the worker ran that job (2: twice or more)

vars == <<table, wants, pc, job, cuts, served, runs>>

Statuses == {"queued", "running", "done", "cancelled", "gone"}
Active   == {"queued", "running"}
Ended    == {"done", "cancelled"}
Ids      == 1 .. MaxJobs

TypeOK ==
  /\ table \in [Databases -> Seq([ref : Refs, status : Statuses])]
  /\ \A db \in Databases : Len(table[db]) <= MaxJobs
  /\ wants \in [Clients -> Refs \cup {Nothing}]
  /\ pc \in [Consumers -> {"idle", "picked", "running"}]
  /\ job \in [Consumers -> 0 .. MaxJobs]
  /\ \A c \in Consumers : job[c] = 0 <=> pc[c] = "idle"
  /\ cuts \in 0 .. MaxCuts
  /\ served \in Seq(Ids)
  /\ runs \in [Ids -> 0 .. 2]

Init ==
  /\ table = [db \in Databases |-> <<>>]
  /\ wants = [cl \in Clients |-> Nothing]
  /\ pc = [c \in Consumers |-> "idle"] /\ job = [c \in Consumers |-> 0]
  /\ cuts = 0 /\ served = <<>>
  /\ runs = [i \in Ids |-> 0]

HasStatus(db, i, statuses) == i \in DOMAIN table[db] /\ table[db][i].status \in statuses

\* UPDATE install_jobs SET status = ... WHERE id = i: no row, no effect.
StatusSet(db, i, status) ==
  IF HasStatus(db, i, Statuses \ {"gone"})
  THEN [table EXCEPT ![db][i].status = status] ELSE table

-----------------------------------------------------------------------------
(* Clients *)

\* enqueue_job: SELECT COUNT of the active jobs of the tool, then INSERT.
Look(cl, ref) ==
  /\ wants[cl] = Nothing
  /\ ~ \E i \in DOMAIN table[Door[cl]] :
         table[Door[cl]][i].ref = ref /\ HasStatus(Door[cl], i, Active)
  /\ wants' = [wants EXCEPT ![cl] = ref]
  /\ UNCHANGED <<table, pc, job, cuts, served, runs>>

Insert(cl) ==
  /\ wants[cl] # Nothing /\ Len(table[Door[cl]]) < MaxJobs
  /\ table' = [table EXCEPT ![Door[cl]] = Append(@, [ref |-> wants[cl], status |-> "queued"])]
  /\ wants' = [wants EXCEPT ![cl] = Nothing]
  /\ UNCHANGED <<pc, job, cuts, served, runs>>

\* cancel_job
Cancel(db, i) ==
  /\ HasStatus(db, i, Active)
  /\ table' = StatusSet(db, i, "cancelled")
  /\ UNCHANGED <<wants, pc, job, cuts, served, runs>>

\* clear_jobs
Clear(db) ==
  /\ \E i \in DOMAIN table[db] : HasStatus(db, i, Ended)
  /\ table' = [table EXCEPT ![db] =
       [i \in DOMAIN @ |-> IF @[i].status \in Ended THEN [@[i] EXCEPT !.status = "gone"] ELSE @[i]]]
  /\ UNCHANGED <<wants, pc, job, cuts, served, runs>>

-----------------------------------------------------------------------------
(* Consumers *)

\* Mutant of FirstQueued: the rows come in no particular order.
AnyQueued(db, i) == HasStatus(db, i, {"queued"})

\* ... WHERE status = 'queued' ORDER BY id LIMIT 1
FirstQueued(db, i) ==
  /\ HasStatus(db, i, {"queued"})
  /\ \A j \in 1 .. i - 1 : ~HasStatus(db, j, {"queued"})

\* Mutant of Select: one job at a time, whoever runs it.
SelectAlone(c) ==
  /\ pc[c] = "idle"
  /\ ~ \E i \in Ids : HasStatus(Source[c], i, {"running"})
  /\ \E i \in Ids :
       /\ FirstQueued(Source[c], i)
       /\ job' = [job EXCEPT ![c] = i]
  /\ pc' = [pc EXCEPT ![c] = "picked"]
  /\ UNCHANGED <<table, wants, cuts, served, runs>>

Select(c) ==
  /\ pc[c] = "idle"
  /\ \E i \in Ids :
       /\ FirstQueued(Source[c], i)
       /\ job' = [job EXCEPT ![c] = i]
  /\ pc' = [pc EXCEPT ![c] = "picked"]
  /\ UNCHANGED <<table, wants, cuts, served, runs>>

\* The row of that id in runtime.db becomes "running", and the recipe runs.
Mark(c) ==
  /\ pc[c] = "picked"
  /\ table' = StatusSet("rt", job[c], "running")
  /\ pc' = [pc EXCEPT ![c] = "running"]
  /\ served' = IF c = "gateway" THEN Append(served, job[c]) ELSE served
  /\ runs' = IF c = "worker" /\ runs[job[c]] < 2 THEN [runs EXCEPT ![job[c]] = @ + 1] ELSE runs
  /\ UNCHANGED <<wants, job, cuts>>

\* Mutant of Finish: only a success is written back.
FinishOnSuccess(c) ==
  /\ pc[c] = "running"
  /\ \E ok \in BOOLEAN : table' = IF ok THEN StatusSet("rt", job[c], "done") ELSE table
  /\ pc' = [pc EXCEPT ![c] = "idle"]
  /\ job' = [job EXCEPT ![c] = 0]
  /\ UNCHANGED <<wants, cuts, served, runs>>

\* Whatever the row has become meanwhile, it takes the outcome.
Finish(c) ==
  /\ pc[c] = "running"
  /\ table' = StatusSet("rt", job[c], "done")
  /\ pc' = [pc EXCEPT ![c] = "idle"]
  /\ job' = [job EXCEPT ![c] = 0]
  /\ UNCHANGED <<wants, cuts, served, runs>>

\* The process dies, or the database is locked when it writes: the job is dropped.
Cut(c) ==
  /\ pc[c] # "idle" /\ cuts < MaxCuts
  /\ cuts' = cuts + 1
  /\ pc' = [pc EXCEPT ![c] = "idle"]
  /\ job' = [job EXCEPT ![c] = 0]
  /\ UNCHANGED <<table, wants, served, runs>>

-----------------------------------------------------------------------------
Consume(c) == Select(c) \/ Mark(c) \/ Finish(c)

Next ==
  \/ \E cl \in Clients : Insert(cl) \/ \E ref \in Refs : Look(cl, ref)
  \/ \E db \in Databases : Clear(db) \/ \E i \in Ids : Cancel(db, i)
  \/ \E c \in Consumers : Consume(c) \/ Cut(c)

Spec == Init /\ [][Next]_vars

\* Both consumers loop. Clients owe nothing.
FairSpec == Spec /\ \A c \in Consumers : WF_vars(Consume(c))

-----------------------------------------------------------------------------
(* Properties *)

\* The gateway's thread runs the jobs of runtime.db in the order they were queued and
\* never one twice, whatever cancellations, deletions, restarts and the worker do.
ServedInOrder == \A m, n \in DOMAIN served : m < n => served[m] < served[n]

\* A row is "running" without a consumer on it only after one was cut short: nobody
\* else leaves a tool blocked by the duplicate check of enqueue_job.
RunningIsHeld ==
  \A i \in Ids : HasStatus("rt", i, {"running"}) =>
    cuts > 0 \/ \E c \in Consumers : pc[c] = "running" /\ job[c] = i

\* No job of runtime.db waits forever, even behind one that was cut short.
QueuedServed == \A i \in Ids : HasStatus("rt", i, {"queued"}) ~> ~HasStatus("rt", i, {"queued"})

\* The worker "consomme la table install_jobs" (service.py:15): a job it takes and
\* runs to its end is not run again.
RunOnce == cuts = 0 => \A i \in Ids : runs[i] <= 1
=============================================================================
