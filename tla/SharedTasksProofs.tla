------------------------- MODULE SharedTasksProofs -------------------------
(***************************************************************************)
(* Proofs about the shared to-do list: one worker per task, no agent left  *)
(* BUSY, no task forgotten but where the code is known to forget it.       *)
(***************************************************************************)
EXTENDS SharedTasks, TLAPS

Roles == {"codeur", "critique", "test_runner", "debugger"}
AgentRow == [role : Roles, fits : BOOLEAN, provider : Providers,
             status : {"IDLE", "BUSY", "STOPPED", "TERMINATED"}]
TaskRow == [role : Roles, ctx : BOOLEAN, prio : Nat, parent : Nat,
            status : {"TODO", "IN_PROGRESS", "DONE", "FAILED"}, assignee : Nat]
CallRow == [agent : Nat, task : Nat, status : {"TODO", "BUSY", "COMPLETED", "FAILED"}]
RunRow == [call : Nat, agent : Nat, by : {"loop", "caller"}]

Rows == /\ agents \in Seq(AgentRow) /\ tasks \in Seq(TaskRow) /\ calls \in Seq(CallRow)
        /\ runs \subseteq RunRow

\* A call and an execution refer to rows that exist, and an execution to the agent
\* of its call.
Linked ==
  /\ \A c \in DOMAIN calls : calls[c].task = 0 \/ calls[c].task \in DOMAIN tasks
  /\ \A c \in DOMAIN calls : calls[c].agent \in DOMAIN agents
  /\ \A r \in runs : r.call \in DOMAIN calls /\ r.agent = calls[r.call].agent
  /\ 1 \in DOMAIN agents

\* A call that is to be executed, or is being executed: the watchdog may have failed
\* it meanwhile, and a run without an endpoint leaves it BUSY.
Live(c) == Open(c) \/ \E r \in runs : r.call = c

\* A live call has its task, and one execution, for itself.
Alone ==
  /\ \A c \in DOMAIN calls : calls[c].task # 0 /\ Live(c) =>
       /\ tasks[calls[c].task].status = "IN_PROGRESS"
       /\ tasks[calls[c].task].assignee = calls[c].agent
  /\ \A c, d \in DOMAIN calls :
       calls[c].task # 0 /\ calls[c].task = calls[d].task /\ Live(c) /\ Live(d) => c = d
  /\ \A r \in runs : calls[r.call].task # 0 =>
       calls[r.call].status # "TODO" /\ \A s \in runs : s.call = r.call => s = r

\* A task has one review, and waits DONE for its result.
Reviewed ==
  \A r \in DOMAIN tasks : tasks[r].role = "critique" =>
    /\ tasks[r].parent \in DOMAIN tasks
    /\ r \notin handled => tasks[tasks[r].parent].status = "DONE"
    /\ \A q \in DOMAIN tasks : tasks[q].role = "critique" /\ tasks[q].parent = tasks[r].parent => q = r

\* What frees a BUSY agent, an execution whose call the watchdog did not fail.
Freed ==
  \A a \in DOMAIN agents : agents[a].status = "BUSY" =>
    /\ agents[a].provider # "none"
    /\ \/ \E r \in runs : r.agent = a /\ Open(r.call)
       \/ \E c \in DOMAIN calls : calls[c].status = "TODO" /\ calls[c].agent = a

TasksInv == Rows /\ Linked /\ Alone /\ Reviewed /\ Freed /\ OnlyKnownLosses

LEMMA Appended ==
  ASSUME NEW S, NEW s \in Seq(S), NEW x \in S
  PROVE  /\ Append(s, x) \in Seq(S) /\ Len(s) + 1 \notin DOMAIN s
         /\ DOMAIN Append(s, x) = DOMAIN s \cup {Len(s) + 1}
         /\ \A i \in DOMAIN s : Append(s, x)[i] = s[i] /\ i \in Nat \ {0}
         /\ Append(s, x)[Len(s) + 1] = x
  OBVIOUS

LEMMA Overwritten ==
  ASSUME NEW S, NEW s \in Seq(S), NEW i \in DOMAIN s, NEW x \in S
  PROVE  /\ [s EXCEPT ![i] = x] \in Seq(S) /\ DOMAIN [s EXCEPT ![i] = x] = DOMAIN s
         /\ \A j \in DOMAIN s \ {i} : [s EXCEPT ![i] = x][j] = s[j]
         /\ [s EXCEPT ![i] = x][i] = x
  OBVIOUS

\* The status of one task, call or agent.
LEMMA TaskMoved ==
  ASSUME Rows, NEW t \in DOMAIN tasks, NEW v \in {"TODO", "IN_PROGRESS", "DONE", "FAILED"},
         tasks' = [tasks EXCEPT ![t].status = v]
  PROVE  /\ tasks' \in Seq(TaskRow) /\ DOMAIN tasks' = DOMAIN tasks /\ t # 0
         /\ \A u \in DOMAIN tasks \ {t} : tasks'[u] = tasks[u]
         /\ tasks'[t].status = v
         /\ \A u \in DOMAIN tasks : /\ tasks'[u].role = tasks[u].role
                                    /\ tasks'[u].parent = tasks[u].parent
                                    /\ tasks'[u].assignee = tasks[u].assignee
<1>1. tasks \in Seq(TaskRow) /\ tasks[t] \in TaskRow /\ t \in Nat \ {0}
  BY DEF Rows
<1> DEFINE new == [tasks[t] EXCEPT !.status = v]
<1>2. /\ new \in TaskRow /\ new.status = v /\ new.role = tasks[t].role
      /\ new.parent = tasks[t].parent /\ new.assignee = tasks[t].assignee
  BY <1>1 DEF TaskRow
<1>3. tasks' = [tasks EXCEPT ![t] = new]
  OBVIOUS
<1> HIDE DEF new
<1> QED
  BY <1>1, <1>2, <1>3, Overwritten

LEMMA CallMoved ==
  ASSUME Rows, NEW c \in DOMAIN calls, NEW v \in {"TODO", "BUSY", "COMPLETED", "FAILED"},
         calls' = [calls EXCEPT ![c].status = v]
  PROVE  /\ calls' \in Seq(CallRow) /\ DOMAIN calls' = DOMAIN calls
         /\ \A d \in DOMAIN calls \ {c} : calls'[d] = calls[d]
         /\ calls'[c].status = v
         /\ \A d \in DOMAIN calls : calls'[d].task = calls[d].task /\ calls'[d].agent = calls[d].agent
<1>1. calls \in Seq(CallRow) /\ calls[c] \in CallRow
  BY DEF Rows
<1> DEFINE new == [calls[c] EXCEPT !.status = v]
<1>2. /\ new \in CallRow /\ new.status = v
      /\ new.task = calls[c].task /\ new.agent = calls[c].agent
  BY <1>1 DEF CallRow
<1>3. calls' = [calls EXCEPT ![c] = new]
  OBVIOUS
<1> HIDE DEF new
<1> QED
  BY <1>1, <1>2, <1>3, Overwritten

LEMMA AgentMoved ==
  ASSUME Rows, NEW a \in DOMAIN agents, NEW v \in {"IDLE", "BUSY", "STOPPED", "TERMINATED"}
  PROVE  /\ StatusOf(a, v) \in Seq(AgentRow) /\ DOMAIN StatusOf(a, v) = DOMAIN agents
         /\ \A b \in DOMAIN agents \ {a} : StatusOf(a, v)[b] = agents[b]
         /\ StatusOf(a, v)[a].status = v /\ StatusOf(a, v)[a].provider = agents[a].provider
<1>1. agents \in Seq(AgentRow) /\ agents[a] \in AgentRow
  BY DEF Rows
<1> DEFINE new == [agents[a] EXCEPT !.status = v]
<1>2. new \in AgentRow /\ new.status = v /\ new.provider = agents[a].provider
  BY <1>1 DEF AgentRow
<1>3. StatusOf(a, v) = [agents EXCEPT ![a] = new]
  BY DEF StatusOf
<1> HIDE DEF new
<1> QED
  BY <1>1, <1>2, <1>3, Overwritten

LEMMA TasksImply == TasksInv => OneRunPerTask /\ BusyIsFreed /\ OnlyKnownLosses
<1> SUFFICES ASSUME TasksInv PROVE OneRunPerTask /\ BusyIsFreed
  BY DEF TasksInv
<1>1. OneRunPerTask
  <2>1. ASSUME NEW r \in runs, calls[r.call].task # 0
        PROVE  r.agent = tasks[calls[r.call].task].assignee
    BY <2>1 DEF TasksInv, Linked, Alone, Live
  <2>2. ASSUME NEW r \in runs, calls[r.call].task # 0,
               NEW s \in runs, calls[s.call].task = calls[r.call].task
        PROVE  s = r
    <3>1. s.call = r.call
      BY <2>2 DEF TasksInv, Linked, Alone, Live
    <3> QED
      BY <2>2, <3>1 DEF TasksInv, Alone
  <2> QED
    BY <2>1, <2>2 DEF OneRunPerTask
<1>2. BusyIsFreed
  <2>1. ASSUME NEW c \in DOMAIN calls, calls[c].status = "TODO" PROVE Doer(c) = calls[c].agent
    BY <2>1 DEF TasksInv, Alone, Live, Open, Doer
  <2> QED
    BY <2>1 DEF TasksInv, Freed, BusyIsFreed
<1> QED
  BY <1>1, <1>2

LEMMA TasksInitial == Init => TasksInv
<1> SUFFICES ASSUME Init PROVE TasksInv
  OBVIOUS
<1>1. PICK provider \in Providers : agents = <<NewAgent("codeur", TRUE, provider)>>
  BY DEF Init
<1>2. tasks = <<>> /\ calls = <<>> /\ runs = {}
  BY DEF Init
<1>4. Rows
  BY <1>1, <1>2 DEF Rows, NewAgent, AgentRow, Roles
<1>5. Freed
  <2>1. DOMAIN agents = {1} /\ agents[1].status = "IDLE"
    BY <1>1 DEF NewAgent
  <2> QED
    BY <2>1 DEF Freed
<1>6. 1 \in DOMAIN agents
  BY <1>1
<1> QED
  BY <1>2, <1>4, <1>5, <1>6 DEF TasksInv, Linked, Alone, Reviewed, OnlyKnownLosses

-----------------------------------------------------------------------------
(* Steps that change the list of tasks only *)

\* A new task: nothing refers to it, and a review is the only one of its parent.
LEMMA TaskAdded ==
  ASSUME TasksInv,
         NEW new \in TaskRow,
         new.status = "TODO", tasks' = Append(tasks, new),
         new.role = "critique" => /\ new.parent \in DOMAIN tasks
                                  /\ tasks[new.parent].status = "DONE"
                                  /\ ~Child(new.parent, "critique"),
         UNCHANGED <<agents, calls, runs, handled, lost>>
  PROVE  TasksInv'
<1>1. /\ DOMAIN tasks' = DOMAIN tasks \cup {Len(tasks) + 1}
      /\ \A t \in DOMAIN tasks : tasks'[t] = tasks[t]
      /\ tasks'[Len(tasks) + 1] = new /\ Len(tasks) + 1 \notin DOMAIN tasks
  BY Appended DEF TasksInv, Rows
<1>2. Rows'
  BY Appended DEF TasksInv, Rows
<1>3. Linked' /\ Freed'
  BY <1>1 DEF TasksInv, Linked, Freed, Open
<1>4. Alone'
  BY <1>1 DEF TasksInv, Linked, Alone, Live, Open
<1>5. Reviewed'
  BY <1>1 DEF TasksInv, Reviewed, Child
<1>6. OnlyKnownLosses'
  BY <1>1 DEF TasksInv, OnlyKnownLosses, Open
<1> QED
  BY <1>2, <1>3, <1>4, <1>5, <1>6 DEF TasksInv

LEMMA SpawnStep == ASSUME TasksInv, NEW t \in DOMAIN tasks, Review(t) \/ DebugLoop(t) PROVE TasksInv'
<1>1. tasks[t].prio \in Nat /\ tasks[t].ctx \in BOOLEAN /\ t \in Nat
  <2>1. tasks[t] \in TaskRow /\ t \in Nat
    BY DEF TasksInv, Rows
  <2> QED
    BY <2>1 DEF TaskRow
<1>2. CASE Review(t)
  <2> DEFINE new == NewTask("critique", tasks[t].ctx, tasks[t].prio + 1, t)
  <2>1. new \in TaskRow
    BY <1>1 DEF NewTask, TaskRow, Roles
  <2>2. new.status = "TODO" /\ new.parent = t
    BY DEF NewTask, TaskRow, Roles
  <2> QED
    BY <1>2, <2>1, <2>2, TaskAdded DEF Review, Spawn
<1>3. CASE DebugLoop(t)
  <2>1. PICK role \in {"test_runner", "debugger", "codeur"} : Spawn(t, role, 0)
    BY <1>3 DEF DebugLoop
  <2> DEFINE new == NewTask(role, tasks[t].ctx, 0, t)
  <2>2. new \in TaskRow
    BY <1>1 DEF NewTask, TaskRow, Roles
  <2>3. new.status = "TODO" /\ new.role # "critique"
    BY DEF NewTask, TaskRow, Roles
  <2> QED
    BY <2>1, <2>2, <2>3, TaskAdded DEF Spawn
<1> QED
  BY <1>2, <1>3

\* A task without a live call that is taken from TODO to IN_PROGRESS, or, once its
\* review was handled, from DONE to TODO.
LEMMA StatusMoved ==
  ASSUME TasksInv, NEW t \in DOMAIN tasks, NEW status \in {"TODO", "IN_PROGRESS"},
         tasks' = [tasks EXCEPT ![t].status = status],
         tasks[t].status # "IN_PROGRESS", status = "IN_PROGRESS" => t \in lost',
         \A r \in DOMAIN tasks : tasks[r].role = "critique" /\ tasks[r].parent = t => r \in handled',
         handled \subseteq handled', lost \subseteq lost',
         UNCHANGED <<agents, calls, runs>>
  PROVE  TasksInv'
<1>1. /\ tasks' \in Seq(TaskRow) /\ DOMAIN tasks' = DOMAIN tasks
      /\ \A u \in DOMAIN tasks \ {t} : tasks'[u] = tasks[u]
      /\ tasks'[t].status = status
      /\ \A u \in DOMAIN tasks : /\ tasks'[u].role = tasks[u].role /\ tasks'[u].parent = tasks[u].parent
                                 /\ tasks'[u].assignee = tasks[u].assignee
  BY TaskMoved DEF TasksInv
<1>2. Rows'
  BY <1>1 DEF TasksInv, Rows
<1>3. Linked' /\ Freed'
  BY <1>1 DEF TasksInv, Linked, Freed, Open
<1>4. Alone'
  BY <1>1 DEF TasksInv, Linked, Alone, Live, Open
<1>5. Reviewed'
  BY <1>1 DEF TasksInv, Reviewed
<1>6. OnlyKnownLosses'
  BY <1>1 DEF TasksInv, OnlyKnownLosses, Open
<1> QED
  BY <1>2, <1>3, <1>4, <1>5, <1>6 DEF TasksInv

LEMMA UnreviewedWait ==
  ASSUME TasksInv, NEW t \in DOMAIN tasks, tasks[t].status = "TODO"
  PROVE  \A r \in DOMAIN tasks : tasks[r].role = "critique" /\ tasks[r].parent = t => r \in handled
  BY DEF TasksInv, Reviewed

LEMMA HandleReviewStep == ASSUME TasksInv, NEW r \in DOMAIN tasks, HandleReview(r) PROVE TasksInv'
<1> DEFINE t == tasks[r].parent
<1>1. t \in DOMAIN tasks /\ tasks[t].status = "DONE" /\ handled' = handled \cup {r}
  BY DEF HandleReview, TasksInv, Reviewed
<1>2. \A q \in DOMAIN tasks : tasks[q].role = "critique" /\ tasks[q].parent = t => q \in handled'
  BY <1>1 DEF HandleReview, TasksInv, Reviewed
<1>3. tasks' = [tasks EXCEPT ![t].status = "TODO"] /\ UNCHANGED <<agents, calls, runs, lost>>
  BY DEF HandleReview
<1> QED
  BY <1>1, <1>2, <1>3, StatusMoved

LEMMA ProvisionRaisesStep == ASSUME TasksInv, NEW t \in DOMAIN tasks, ProvisionRaises(t) PROVE TasksInv'
  BY UnreviewedWait, StatusMoved DEF ProvisionRaises, First, Todo

-----------------------------------------------------------------------------
(* Dispatcher: the task gets its agent and its call *)

LEMMA Dispatched ==
  ASSUME TasksInv, NEW t \in DOMAIN tasks, tasks[t].status = "TODO", NEW a \in Nat,
         tasks' = Assigned(t, a), calls' = Append(calls, NewCall(a, t)), a \in DOMAIN agents',
         \/ agents' = agents
         \/ agents' = Append(agents, NewAgent(tasks[t].role, FALSE, "ok")),
         UNCHANGED <<runs, handled, lost>>
  PROVE  TasksInv'
<1> DEFINE n == Len(calls) + 1
<1>1. NewCall(a, t) \in CallRow /\ NewAgent(tasks[t].role, FALSE, "ok") \in AgentRow
  <2>1. tasks[t] \in TaskRow /\ t \in Nat
    BY DEF TasksInv, Rows
  <2> QED
    BY <2>1 DEF TaskRow, NewCall, CallRow, NewAgent, AgentRow, Providers
<1>2. /\ DOMAIN calls' = DOMAIN calls \cup {n} /\ n \notin DOMAIN calls
      /\ \A c \in DOMAIN calls : calls'[c] = calls[c]
      /\ calls'[n] = NewCall(a, t) /\ calls' \in Seq(CallRow)
  BY <1>1, Appended DEF TasksInv, Rows
<1>3. /\ tasks' \in Seq(TaskRow) /\ DOMAIN tasks' = DOMAIN tasks /\ t # 0
      /\ \A u \in DOMAIN tasks \ {t} : tasks'[u] = tasks[u]
      /\ \A u \in DOMAIN tasks : tasks'[u].role = tasks[u].role /\ tasks'[u].parent = tasks[u].parent
      /\ tasks'[t].status = "IN_PROGRESS" /\ tasks'[t].assignee = a
  <2> DEFINE new == [tasks[t] EXCEPT !.status = "IN_PROGRESS", !.assignee = a]
  <2>1. tasks \in Seq(TaskRow) /\ tasks[t] \in TaskRow /\ t \in Nat \ {0}
    BY DEF TasksInv, Rows
  <2>2. /\ new \in TaskRow /\ new.status = "IN_PROGRESS" /\ new.assignee = a
        /\ new.role = tasks[t].role /\ new.parent = tasks[t].parent
    BY <2>1 DEF TaskRow
  <2>3. tasks' = [tasks EXCEPT ![t] = new]
    BY <2>1 DEF Assigned
  <2> HIDE DEF new
  <2> QED
    BY <2>1, <2>2, <2>3, Overwritten
<1>4. /\ agents' \in Seq(AgentRow)
      /\ \A b \in DOMAIN agents : b \in DOMAIN agents' /\ agents'[b] = agents[b]
      /\ \A b \in DOMAIN agents' \ DOMAIN agents : agents'[b].status = "IDLE"
  <2> DEFINE new == NewAgent(tasks[t].role, FALSE, "ok")
  <2>1. agents \in Seq(AgentRow) /\ new.status = "IDLE" /\ new \in AgentRow
    BY <1>1 DEF TasksInv, Rows, NewAgent
  <2> HIDE DEF new
  <2>2. CASE agents' = agents
    BY <2>1, <2>2
  <2>3. CASE agents' = Append(agents, new)
    BY <2>1, <2>3, Appended
  <2> QED
    BY <2>2, <2>3 DEF new
<1>5. Rows'
  BY <1>2, <1>3, <1>4 DEF TasksInv, Rows
<1>7. calls'[n].task = t /\ calls'[n].agent = a /\ calls'[n].status = "TODO"
  BY <1>2 DEF NewCall
<1>8. ASSUME NEW c \in DOMAIN calls, Live(c) PROVE calls[c].task # t
  BY <1>3, <1>8 DEF TasksInv, Alone
<1>9. \A r \in runs : r.call \in DOMAIN calls
  BY DEF TasksInv, Linked
<1>10. \A c \in DOMAIN calls : Live(c)' <=> Live(c)
  BY <1>2 DEF Live, Open
<1>11. Linked'
  BY <1>2, <1>3, <1>4, <1>7, <1>9 DEF TasksInv, Linked
<1>12. Alone'
  <2>1. ASSUME NEW c \in DOMAIN calls', calls'[c].task # 0, Live(c)'
        PROVE  /\ tasks'[calls'[c].task].status = "IN_PROGRESS"
               /\ tasks'[calls'[c].task].assignee = calls'[c].agent
    <3>1. CASE c = n
      BY <1>3, <1>7, <3>1
    <3>2. CASE c \in DOMAIN calls
      BY <1>2, <1>3, <1>8, <1>10, <2>1, <3>2 DEF TasksInv, Alone, Linked
    <3> QED
      BY <1>2, <3>1, <3>2
  <2>2. ASSUME NEW c \in DOMAIN calls', NEW d \in DOMAIN calls', calls'[c].task # 0,
               calls'[c].task = calls'[d].task, Live(c)', Live(d)'
        PROVE  c = d
    <3>1. CASE c \in DOMAIN calls /\ d \in DOMAIN calls
      BY <1>2, <1>10, <2>2, <3>1 DEF TasksInv, Alone
    <3>2. CASE c = n \/ d = n
      BY <1>2, <1>7, <1>8, <1>10, <2>2, <3>2
    <3> QED
      BY <1>2, <3>1, <3>2
  <2>3. \A r \in runs : calls'[r.call].task # 0 =>
          calls'[r.call].status # "TODO" /\ \A s \in runs : s.call = r.call => s = r
    BY <1>2, <1>9 DEF TasksInv, Alone
  <2> QED
    BY <2>1, <2>2, <2>3 DEF Alone
<1>13. Reviewed'
  <2>1. ASSUME NEW r \in DOMAIN tasks, tasks[r].role = "critique", r \notin handled
        PROVE  tasks'[tasks[r].parent] = tasks[tasks[r].parent]
    BY <1>3, <2>1 DEF TasksInv, Reviewed
  <2> QED
    BY <1>3, <2>1 DEF TasksInv, Reviewed
<1>14. Freed'
  <2>1. \A r \in runs : Open(r.call)' <=> Open(r.call)
    BY <1>2, <1>9 DEF Open
  <2> QED
    BY <1>2, <1>4, <2>1 DEF TasksInv, Freed
<1>15. OnlyKnownLosses'
  BY <1>2, <1>3, <1>7 DEF TasksInv, OnlyKnownLosses, Open
<1> QED
  BY <1>5, <1>11, <1>12, <1>13, <1>14, <1>15 DEF TasksInv

LEMMA DispatchStep ==
  ASSUME TasksInv, NEW t \in DOMAIN tasks, Claim(t) \/ Provision(t) PROVE TasksInv'
<1>1. CASE Claim(t)
  <2>1. PICK a \in Compatible(t) : tasks' = Assigned(t, a) /\ calls' = Append(calls, NewCall(a, t))
    BY <1>1 DEF Claim
  <2>2. a \in Nat /\ a \in DOMAIN agents
    BY DEF Compatible, TasksInv, Rows
  <2> QED
    BY <1>1, <2>1, <2>2, Dispatched DEF Claim, First, Todo
<1>2. CASE Provision(t)
  <2>1. Len(agents) + 1 \in Nat /\ Len(agents) + 1 \in DOMAIN agents'
    BY <1>2 DEF Provision, TasksInv, Rows
  <2> QED
    BY <1>2, <2>1, Dispatched DEF Provision, First, Todo
<1> QED
  BY <1>1, <1>2
-----------------------------------------------------------------------------
(* Executions *)

LEMMA StartStep == ASSUME TasksInv, NEW c \in DOMAIN calls, Start(c) PROVE TasksInv'
<1> DEFINE a == calls[c].agent
           r == [call |-> c, agent |-> Doer(c), by |-> "loop"]
<1>1. calls[c].status = "TODO" /\ Doer(c) = a /\ a \in DOMAIN agents /\ a \in Nat /\ c \in Nat
  <2>1. calls[c].status = "TODO"
    BY DEF Start, NextCall
  <2>2. a \in DOMAIN agents /\ a \in Nat /\ c \in Nat
    BY DEF TasksInv, Linked, Rows
  <2> QED
    BY <2>1, <2>2 DEF TasksInv, Alone, Live, Open, Doer
<1>2. /\ calls' = [calls EXCEPT ![c].status = "BUSY"] /\ agents' = StatusOf(a, "BUSY")
      /\ runs' = runs \cup {r} /\ UNCHANGED <<tasks, handled, lost>> /\ agents[a].provider # "none"
  BY <1>1 DEF Start
<1>3. /\ calls' \in Seq(CallRow) /\ DOMAIN calls' = DOMAIN calls
      /\ \A d \in DOMAIN calls \ {c} : calls'[d] = calls[d]
      /\ calls'[c].status = "BUSY"
      /\ \A d \in DOMAIN calls : calls'[d].task = calls[d].task /\ calls'[d].agent = calls[d].agent
  BY <1>2, CallMoved DEF TasksInv
<1>4. /\ agents' \in Seq(AgentRow) /\ DOMAIN agents' = DOMAIN agents
      /\ \A b \in DOMAIN agents \ {a} : agents'[b] = agents[b]
      /\ agents'[a].status = "BUSY" /\ agents'[a].provider = agents[a].provider
  BY <1>1, <1>2, AgentMoved DEF TasksInv
<1>5. r.call = c /\ r.agent = a /\ r \in RunRow
  BY <1>1 DEF RunRow
<1> HIDE DEF r, a
<1>6. Rows' /\ Linked'
  BY <1>2, <1>3, <1>4, <1>5 DEF TasksInv, Rows, Linked, a
<1>7. \A d \in DOMAIN calls : Live(d)' <=> Live(d)
  BY <1>1, <1>2, <1>3, <1>5 DEF Live, Open
<1>8. Alone'
  <2>1. ASSUME NEW s \in runs', calls'[s.call].task # 0
        PROVE  /\ calls'[s.call].status # "TODO"
               /\ \A q \in runs' : q.call = s.call => q = s
    <3>1. \A q \in runs : q.call \in DOMAIN calls /\ (calls[q.call].task # 0 => q.call # c)
      BY <1>1 DEF TasksInv, Linked, Alone
    <3> QED
      BY <1>2, <1>3, <1>5, <2>1, <3>1 DEF TasksInv, Alone
  <2>2. ASSUME NEW d \in DOMAIN calls', calls'[d].task # 0, Live(d)'
        PROVE  /\ tasks'[calls'[d].task].status = "IN_PROGRESS"
               /\ tasks'[calls'[d].task].assignee = calls'[d].agent
    BY <1>2, <1>3, <1>7, <2>2 DEF TasksInv, Alone
  <2>3. ASSUME NEW d \in DOMAIN calls', NEW e \in DOMAIN calls', calls'[d].task # 0,
               calls'[d].task = calls'[e].task, Live(d)', Live(e)'
        PROVE  d = e
    BY <1>3, <1>7, <2>3 DEF TasksInv, Alone
  <2> QED
    BY <2>1, <2>2, <2>3 DEF Alone
<1>9. Reviewed' /\ OnlyKnownLosses'
  <2>1. \A d \in DOMAIN calls : Open(d)' <=> Open(d)
    BY <1>1, <1>3 DEF Open
  <2> QED
    BY <1>2, <1>3, <2>1 DEF TasksInv, Reviewed, OnlyKnownLosses
<1>10. Freed'
  <2>1. ASSUME NEW b \in DOMAIN agents', agents'[b].status = "BUSY"
        PROVE  /\ agents'[b].provider # "none"
               /\ \/ \E q \in runs' : q.agent = b /\ Open(q.call)'
                  \/ \E d \in DOMAIN calls' : calls'[d].status = "TODO" /\ calls'[d].agent = b
    <3>1. CASE b = a
      BY <1>2, <1>3, <1>4, <1>5, <3>1 DEF Open
    <3>2. CASE b # a
      <4>1. agents[b].status = "BUSY" /\ agents'[b] = agents[b] /\ b \in DOMAIN agents
        BY <1>4, <2>1, <3>2
      <4>2. ASSUME NEW q \in runs, q.agent = b, Open(q.call) PROVE Open(q.call)'
        BY <1>1, <1>3, <4>2 DEF Open, TasksInv, Linked
      <4>3. ASSUME NEW d \in DOMAIN calls, calls[d].agent = b PROVE d # c
        BY <3>2, <4>3 DEF a
      <4> QED
        BY <1>2, <1>3, <4>1, <4>2, <4>3 DEF TasksInv, Freed
    <3> QED
      BY <3>1, <3>2
  <2> QED
    BY <2>1 DEF Freed
<1> QED
  BY <1>6, <1>8, <1>9, <1>10 DEF TasksInv

\* A call ends, or the watchdog fails it, or its execution leaves it as it is: its
\* agent is freed, and its task ends or is lost.
LEMMA CallLeft ==
  ASSUME TasksInv, NEW c \in DOMAIN calls, NEW v \in {"COMPLETED", "FAILED"},
         calls' = calls \/ calls' = [calls EXCEPT ![c].status = v],
         runs' \subseteq runs, \A q \in runs \ runs' : q.agent = calls[c].agent,
         \/ agents' = StatusOf(calls[c].agent, "IDLE")
         \/ agents' = agents /\ agents[calls[c].agent].status # "BUSY",
         \/ tasks' = tasks /\ (calls[c].task # 0 => calls[c].task \in lost')
         \/ /\ calls[c].task # 0 /\ Live(c) /\ ~Open(c)' /\ \A q \in runs' : q.call # c
            /\ \E w \in {"DONE", "FAILED"} : tasks' = [tasks EXCEPT ![calls[c].task].status = w],
         lost \subseteq lost', UNCHANGED handled
  PROVE  TasksInv'
<1> DEFINE a == calls[c].agent
           t == calls[c].task
<1>1. a \in DOMAIN agents /\ (t = 0 \/ t \in DOMAIN tasks) /\ Rows
  BY DEF TasksInv, Linked
<1>2. /\ calls' \in Seq(CallRow) /\ DOMAIN calls' = DOMAIN calls
      /\ \A d \in DOMAIN calls \ {c} : calls'[d] = calls[d]
      /\ calls'[c].status \in {"COMPLETED", "FAILED"} \/ (calls' = calls)
      /\ \A d \in DOMAIN calls : calls'[d].task = calls[d].task /\ calls'[d].agent = calls[d].agent
  <2>1. CASE calls' = calls
    BY <1>1, <2>1 DEF Rows
  <2>2. CASE calls' = [calls EXCEPT ![c].status = v]
    BY <1>1, <2>2, CallMoved
  <2> QED
    BY <2>1, <2>2
<1>3. /\ agents' \in Seq(AgentRow) /\ DOMAIN agents' = DOMAIN agents
      /\ \A b \in DOMAIN agents \ {a} : agents'[b] = agents[b]
      /\ agents'[a].status # "BUSY"
  <2>1. CASE agents' = agents /\ agents[a].status # "BUSY"
    BY <1>1, <2>1 DEF Rows
  <2>2. CASE agents' = StatusOf(a, "IDLE")
    BY <1>1, <2>2, AgentMoved
  <2> QED
    BY <2>1, <2>2
<1>4. /\ tasks' \in Seq(TaskRow) /\ DOMAIN tasks' = DOMAIN tasks
      /\ \A u \in DOMAIN tasks \ {t} : tasks'[u] = tasks[u]
      /\ \A u \in DOMAIN tasks : /\ tasks'[u].role = tasks[u].role /\ tasks'[u].parent = tasks[u].parent
                                 /\ tasks'[u].assignee = tasks[u].assignee
      /\ \/ tasks' = tasks /\ (t # 0 => t \in lost')
         \/ /\ t # 0 /\ Live(c) /\ ~Open(c)' /\ \A q \in runs' : q.call # c
            /\ tasks'[t].status \in {"DONE", "FAILED"}
  <2>1. CASE tasks' = tasks /\ (t # 0 => t \in lost')
    BY <1>1, <2>1 DEF Rows
  <2>2. CASE /\ t # 0 /\ Live(c) /\ ~Open(c)' /\ \A q \in runs' : q.call # c
             /\ \E w \in {"DONE", "FAILED"} : tasks' = [tasks EXCEPT ![t].status = w]
    <3>1. PICK w \in {"DONE", "FAILED"} : tasks' = [tasks EXCEPT ![t].status = w]
      BY <2>2
    <3>2. t \in DOMAIN tasks
      BY <1>1, <2>2
    <3> HIDE DEF t
    <3> QED
      BY <1>1, <2>2, <3>1, <3>2, TaskMoved
  <2> QED
    BY <2>1, <2>2
<1> HIDE DEF a, t
<1>5. Rows' /\ Linked'
  BY <1>2, <1>3, <1>4 DEF TasksInv, Rows, Linked
<1>6. \A d \in DOMAIN calls : (Live(d)' => Live(d)) /\ (Open(d)' => Open(d))
  BY <1>2 DEF Live, Open
<1>7. ASSUME NEW d \in DOMAIN calls, Live(d)', calls[d].task # 0
      PROVE  tasks'[calls[d].task] = tasks[calls[d].task]
  <2>1. calls[d].task \in DOMAIN tasks
    BY <1>7 DEF TasksInv, Linked
  <2>2. CASE calls[d].task = t /\ tasks' # tasks
    <3>1. Live(c) /\ ~Open(c)' /\ \A q \in runs' : q.call # c
      BY <1>4, <2>2
    <3>2. c = d
      BY <1>6, <1>7, <2>2, <3>1 DEF TasksInv, Alone, t
    <3>3. ~Live(c)'
      BY <3>1 DEF Live
    <3> QED
      BY <1>7, <3>2, <3>3
  <2> QED
    BY <1>4, <2>1, <2>2
<1>8. Alone'
  <2>1. ASSUME NEW d \in DOMAIN calls', calls'[d].task # 0, Live(d)'
        PROVE  /\ tasks'[calls'[d].task].status = "IN_PROGRESS"
               /\ tasks'[calls'[d].task].assignee = calls'[d].agent
    BY <1>2, <1>6, <1>7, <2>1 DEF TasksInv, Alone
  <2>2. ASSUME NEW d \in DOMAIN calls', NEW e \in DOMAIN calls', calls'[d].task # 0,
               calls'[d].task = calls'[e].task, Live(d)', Live(e)'
        PROVE  d = e
    BY <1>2, <1>6, <2>2 DEF TasksInv, Alone
  <2>3. ASSUME NEW s \in runs', calls'[s.call].task # 0
        PROVE  calls'[s.call].status # "TODO" /\ \A q \in runs' : q.call = s.call => q = s
    <3>1. s \in runs /\ s.call \in DOMAIN calls /\ calls[s.call].task # 0
      BY <1>2, <2>3 DEF TasksInv, Linked
    <3> QED
      BY <1>2, <3>1 DEF TasksInv, Alone
  <2> QED
    BY <2>1, <2>2, <2>3 DEF Alone
<1>9. Reviewed'
  <2>1. ASSUME NEW u \in DOMAIN tasks, tasks[u].status = "DONE" PROVE tasks'[u].status = "DONE"
    <3>1. CASE tasks' = tasks \/ u # t
      BY <1>4, <2>1, <3>1
    <3>2. CASE tasks' # tasks /\ u = t
      BY <1>4, <2>1, <3>2 DEF TasksInv, Alone, t
    <3> QED
      BY <3>1, <3>2
  <2> QED
    BY <1>4, <2>1 DEF TasksInv, Reviewed
<1>10. OnlyKnownLosses'
  <2>1. ASSUME NEW u \in DOMAIN tasks', tasks'[u].status = "IN_PROGRESS", u \notin lost'
        PROVE  \E d \in DOMAIN calls' : calls'[d].task = u /\ Open(d)'
    <3>1. u # t /\ tasks[u].status = "IN_PROGRESS" /\ u \notin lost /\ u \in DOMAIN tasks
      <4>1. u # 0 /\ u \in DOMAIN tasks
        BY <1>1, <1>4 DEF Rows
      <4> QED
        BY <1>4, <2>1, <4>1
    <3>2. PICK d \in DOMAIN calls : calls[d].task = u /\ Open(d)
      BY <3>1 DEF TasksInv, OnlyKnownLosses
    <3> QED
      BY <1>2, <3>1, <3>2 DEF Open, t
  <2> QED
    BY <2>1 DEF OnlyKnownLosses
<1>11. Freed'
  <2>1. ASSUME NEW b \in DOMAIN agents', agents'[b].status = "BUSY"
        PROVE  /\ agents'[b].provider # "none"
               /\ \/ \E q \in runs' : q.agent = b /\ Open(q.call)'
                  \/ \E d \in DOMAIN calls' : calls'[d].status = "TODO" /\ calls'[d].agent = b
    <3>1. b # a /\ agents[b].status = "BUSY" /\ agents'[b] = agents[b] /\ b \in DOMAIN agents
      BY <1>3, <2>1
    <3>2. ASSUME NEW q \in runs, q.agent = b, Open(q.call) PROVE q \in runs' /\ Open(q.call)'
      BY <1>2, <3>1, <3>2 DEF Open, TasksInv, Linked, a
    <3>3. ASSUME NEW d \in DOMAIN calls, calls[d].agent = b PROVE d # c
      BY <3>1, <3>3 DEF a
    <3> QED
      BY <1>2, <3>1, <3>2, <3>3 DEF TasksInv, Freed
  <2> QED
    BY <2>1 DEF Freed
<1> QED
  BY <1>5, <1>8, <1>9, <1>10, <1>11 DEF TasksInv

LEMMA StartRefusedStep == ASSUME TasksInv, NEW c \in DOMAIN calls, StartRefused(c) PROVE TasksInv'
<1>1. calls[c].status = "TODO" /\ calls[c].agent \in DOMAIN agents
  BY DEF StartRefused, NextCall, TasksInv, Linked
<1>2. Doer(c) = calls[c].agent
  BY <1>1 DEF TasksInv, Alone, Live, Open, Doer
<1>3. agents[calls[c].agent].status # "BUSY"
  BY <1>1, <1>2 DEF StartRefused, TasksInv, Freed
<1>4. calls[c].task # 0 => calls[c].task \in lost'
  BY DEF StartRefused
<1> QED
  BY <1>3, <1>4, CallLeft DEF StartRefused

LEMMA EndRunStep == ASSUME TasksInv, NEW r \in runs, EndRun(r) PROVE TasksInv'
<1> DEFINE c == r.call
<1>1. c \in DOMAIN calls /\ r.agent = calls[c].agent /\ Live(c)
  BY DEF TasksInv, Linked, Live
<1>2. /\ runs' = runs \ {r} /\ agents' = StatusOf(calls[c].agent, "IDLE") /\ UNCHANGED handled
      /\ Outcome(r)
  BY <1>1 DEF EndRun
<1>3. \A q \in runs \ runs' : q.agent = calls[c].agent
  BY <1>1, <1>2
<1>4. CASE lost' = lost \cup ({calls[c].task} \ {0}) /\ UNCHANGED <<calls, tasks>>
  <2>1. calls[c].task # 0 => calls[c].task \in lost'
    BY <1>4
  <2> HIDE DEF c
  <2> QED
    BY <1>1, <1>2, <1>3, <1>4, <2>1, CallLeft
<1>5. ASSUME NEW v \in {"COMPLETED", "FAILED"}, NEW w \in {"DONE", "FAILED"}, Answered(r, v, w)
      PROVE  TasksInv'
  <2>1. calls' = [calls EXCEPT ![c].status = v] /\ tasks' = TasksOf(c, w) /\ UNCHANGED lost
    BY <1>5 DEF Answered
  <2>2. CASE calls[c].task = 0
    <3>1. tasks' = tasks
      BY <2>1, <2>2 DEF TasksOf
    <3> HIDE DEF c
    <3> QED
      BY <1>1, <1>2, <1>3, <2>1, <2>2, <3>1, CallLeft
  <2>3. CASE calls[c].task # 0
    <3>1. tasks' = [tasks EXCEPT ![calls[c].task].status = w]
      BY <2>1, <2>3 DEF TasksOf
    <3>2. calls[c].status # "TODO" /\ \A q \in runs' : q.call # c
      BY <1>2, <2>3 DEF TasksInv, Alone
    <3> HIDE DEF c
    <3>3. ~Open(c)'
      BY <1>1, <2>1, CallMoved DEF TasksInv, Open
    <3> QED
      BY <1>1, <1>2, <1>3, <2>1, <2>3, <3>1, <3>2, <3>3, CallLeft
  <2> QED
    BY <2>2, <2>3
<1> QED
  BY <1>2, <1>4, <1>5 DEF Outcome

LEMMA ResetStep == ASSUME TasksInv, NEW a \in DOMAIN agents, Reset(a) PROVE TasksInv'
<1>1. PICK c \in DOMAIN calls :
        /\ calls[c].agent = a /\ calls' = [calls EXCEPT ![c].status = "FAILED"]
        /\ lost' = lost \cup ({calls[c].task} \ {0})
  BY DEF Reset
<1>2. calls[c].task # 0 => calls[c].task \in lost'
  BY <1>1
<1>3. agents' = StatusOf(calls[c].agent, "IDLE") /\ UNCHANGED <<tasks, runs, handled>>
  BY <1>1 DEF Reset
<1> QED
  BY <1>1, <1>2, <1>3, CallLeft

-----------------------------------------------------------------------------
(* Calls no task asked for *)

LEMMA ExtraStep ==
  ASSUME TasksInv, NEW a \in DOMAIN agents, calls' = Append(calls, NewCall(a, 0)),
         \/ runs' = runs /\ agents' = agents
         \/ /\ runs' = runs \cup {[call |-> Len(calls) + 1, agent |-> a, by |-> "caller"]}
            /\ agents' = StatusOf(a, "BUSY") /\ agents[a].provider # "none",
         UNCHANGED <<tasks, handled, lost>>
  PROVE  TasksInv'
<1> DEFINE n == Len(calls) + 1
           r == [call |-> n, agent |-> a, by |-> "caller"]
<1>1. a \in Nat /\ n \in Nat /\ NewCall(a, 0) \in CallRow /\ Rows
  BY DEF TasksInv, Rows, NewCall, CallRow
<1>2. /\ DOMAIN calls' = DOMAIN calls \cup {n} /\ n \notin DOMAIN calls
      /\ \A c \in DOMAIN calls : calls'[c] = calls[c]
      /\ calls'[n] = NewCall(a, 0) /\ calls' \in Seq(CallRow)
  BY <1>1, Appended DEF Rows
<1>3. calls'[n].task = 0 /\ calls'[n].agent = a /\ calls'[n].status = "TODO"
  BY <1>2 DEF NewCall
<1>4. r \in RunRow /\ r.call = n /\ r.agent = a /\ runs \subseteq runs' /\ runs' \subseteq runs \cup {r}
  BY <1>1 DEF RunRow
<1>5. /\ agents' \in Seq(AgentRow) /\ DOMAIN agents' = DOMAIN agents
      /\ \A b \in DOMAIN agents \ {a} : agents'[b] = agents[b]
      /\ agents'[a] = agents[a] \/ agents'[a].provider # "none"
  <2>1. CASE agents' = agents
    BY <1>1, <2>1 DEF Rows
  <2>2. CASE agents' = StatusOf(a, "BUSY") /\ agents[a].provider # "none"
    BY <1>1, <2>2, AgentMoved
  <2> QED
    BY <2>1, <2>2
<1>6. \A q \in runs : q.call \in DOMAIN calls
  BY DEF TasksInv, Linked
<1> HIDE DEF n, r
<1>7. Rows'
  BY <1>2, <1>4, <1>5 DEF TasksInv, Rows
<1>8. Linked'
  BY <1>2, <1>3, <1>4, <1>5, <1>6 DEF TasksInv, Linked
<1>9. \A c \in DOMAIN calls : (Live(c)' <=> Live(c)) /\ (Open(c)' <=> Open(c))
  BY <1>2, <1>4, <1>6 DEF Live, Open
<1>10. Alone'
  <2>1. ASSUME NEW c \in DOMAIN calls', calls'[c].task # 0, Live(c)'
        PROVE  /\ tasks'[calls'[c].task].status = "IN_PROGRESS"
               /\ tasks'[calls'[c].task].assignee = calls'[c].agent
    BY <1>2, <1>3, <1>9, <2>1 DEF TasksInv, Alone
  <2>2. ASSUME NEW c \in DOMAIN calls', NEW d \in DOMAIN calls', calls'[c].task # 0,
               calls'[c].task = calls'[d].task, Live(c)', Live(d)'
        PROVE  c = d
    BY <1>2, <1>3, <1>9, <2>2 DEF TasksInv, Alone
  <2>3. ASSUME NEW s \in runs', calls'[s.call].task # 0
        PROVE  calls'[s.call].status # "TODO" /\ \A q \in runs' : q.call = s.call => q = s
    BY <1>2, <1>3, <1>4, <1>6, <2>3 DEF TasksInv, Alone
  <2> QED
    BY <2>1, <2>2, <2>3 DEF Alone
<1>11. Reviewed' /\ OnlyKnownLosses'
  BY <1>2, <1>9 DEF TasksInv, Reviewed, OnlyKnownLosses
<1>12. Freed'
  <2>1. ASSUME NEW b \in DOMAIN agents', agents'[b].status = "BUSY"
        PROVE  /\ agents'[b].provider # "none"
               /\ \/ \E q \in runs' : q.agent = b /\ Open(q.call)'
                  \/ \E d \in DOMAIN calls' : calls'[d].status = "TODO" /\ calls'[d].agent = b
    <3>1. CASE b = a
      BY <1>2, <1>3, <1>5, <2>1, <3>1 DEF TasksInv, Freed
    <3>2. CASE b # a
      BY <1>2, <1>4, <1>5, <1>6, <1>9, <2>1, <3>2 DEF TasksInv, Freed
    <3> QED
      BY <3>1, <3>2
  <2> QED
    BY <2>1 DEF Freed
<1> QED
  BY <1>7, <1>8, <1>10, <1>11, <1>12 DEF TasksInv

-----------------------------------------------------------------------------
(* Death of the process, and the end of agents *)

\* A task may have been taken from TODO without a call.
TasksCut ==
  /\ tasks' \in Seq(TaskRow) /\ DOMAIN tasks' = DOMAIN tasks /\ lost \subseteq lost'
  /\ \A u \in DOMAIN tasks :
       /\ tasks'[u].role = tasks[u].role /\ tasks'[u].parent = tasks[u].parent
       /\ tasks'[u].assignee = tasks[u].assignee
       /\ \/ tasks'[u].status = tasks[u].status
          \/ tasks[u].status = "TODO" /\ tasks'[u].status = "IN_PROGRESS" /\ u \in lost'

LEMMA DieStep ==
  ASSUME TasksInv, runs' = {}, calls' = Requeued,
         \/ agents' = agents
         \/ \E new \in AgentRow : new.status = "IDLE" /\ agents' = Append(agents, new),
         TasksCut, UNCHANGED handled
  PROVE  TasksInv'
<1>1. /\ DOMAIN calls' = DOMAIN calls
      /\ \A c \in DOMAIN calls :
           /\ calls[c] \in CallRow /\ calls'[c] \in CallRow
           /\ calls'[c].task = calls[c].task /\ calls'[c].agent = calls[c].agent
           /\ Open(c)' <=> Open(c)
           /\ Open(c) => calls'[c].status = "TODO"
  <2>1. calls' = [c \in DOMAIN calls |->
                    IF calls[c].status = "BUSY" THEN [calls[c] EXCEPT !.status = "TODO"] ELSE calls[c]]
    BY DEF Requeued
  <2>2. ASSUME NEW c \in DOMAIN calls
        PROVE  /\ calls[c] \in CallRow /\ calls'[c] \in CallRow
               /\ calls'[c].task = calls[c].task /\ calls'[c].agent = calls[c].agent
               /\ Open(c)' <=> Open(c)
               /\ Open(c) => calls'[c].status = "TODO"
    <3>1. calls[c] \in CallRow
      BY DEF TasksInv, Rows
    <3>2. CASE calls[c].status = "BUSY"
      <4>1. calls'[c] = [calls[c] EXCEPT !.status = "TODO"]
        BY <2>1, <3>2
      <4> QED
        BY <3>1, <3>2, <4>1 DEF CallRow, Open
    <3>3. CASE calls[c].status # "BUSY"
      <4>1. calls'[c] = calls[c]
        BY <2>1, <3>3
      <4> QED
        BY <3>1, <3>3, <4>1 DEF Open
    <3> QED
      BY <3>2, <3>3
  <2> QED
    BY <2>1, <2>2
<1>2. calls' \in Seq(CallRow)
  <2>1. calls \in Seq(CallRow) /\ calls' = [c \in 1 .. Len(calls) |-> calls'[c]]
    BY DEF TasksInv, Rows, Requeued
  <2> QED
    BY <1>1, <2>1
<1>3. /\ agents' \in Seq(AgentRow) /\ DOMAIN agents \subseteq DOMAIN agents'
      /\ \A b \in DOMAIN agents : agents'[b] = agents[b]
      /\ \A b \in DOMAIN agents' \ DOMAIN agents : agents'[b].status = "IDLE"
  <2>1. CASE agents' = agents
    BY <2>1 DEF TasksInv, Rows
  <2>2. ASSUME NEW new \in AgentRow, new.status = "IDLE", agents' = Append(agents, new)
        PROVE  /\ agents' \in Seq(AgentRow) /\ DOMAIN agents \subseteq DOMAIN agents'
               /\ \A b \in DOMAIN agents : agents'[b] = agents[b]
               /\ \A b \in DOMAIN agents' \ DOMAIN agents : agents'[b].status = "IDLE"
    BY <2>2, Appended DEF TasksInv, Rows
  <2> QED
    BY <2>1, <2>2
<1>4. Rows' /\ Linked'
  BY <1>1, <1>2, <1>3 DEF TasksInv, Rows, Linked, TasksCut
<1>5. \A c \in DOMAIN calls : Live(c)' => Live(c)
  BY <1>1 DEF Live
<1>6. Alone'
  BY <1>1, <1>5 DEF TasksInv, Alone, Linked, TasksCut
<1>7. Reviewed' /\ OnlyKnownLosses'
  BY <1>1 DEF TasksInv, Reviewed, OnlyKnownLosses, TasksCut
<1>8. Freed'
  <2>1. ASSUME NEW b \in DOMAIN agents', agents'[b].status = "BUSY"
        PROVE  /\ agents'[b].provider # "none"
               /\ \E d \in DOMAIN calls' : calls'[d].status = "TODO" /\ calls'[d].agent = b
    <3>1. b \in DOMAIN agents /\ agents'[b] = agents[b]
      BY <1>3, <2>1
    <3>2. ASSUME NEW q \in runs, q.agent = b, Open(q.call)
          PROVE  q.call \in DOMAIN calls /\ calls[q.call].agent = b
      BY <3>2 DEF TasksInv, Linked
    <3>3. ASSUME NEW d \in DOMAIN calls, calls[d].status = "TODO" PROVE Open(d)
      BY <3>3 DEF Open
    <3> QED
      BY <1>1, <2>1, <3>1, <3>2, <3>3 DEF TasksInv, Freed
  <2> QED
    BY <2>1 DEF Freed
<1> QED
  BY <1>4, <1>6, <1>7, <1>8 DEF TasksInv

\* create_agent committed IN_PROGRESS without a call, or nothing happened to the tasks.
LEMMA DeathStep == ASSUME TasksInv, Crash \/ \E t \in DOMAIN tasks : DispatchCut(t) PROVE TasksInv'
<1>1. CASE Crash
  <2>1. runs' = {} /\ calls' = Requeued /\ UNCHANGED <<agents, tasks, handled, lost>>
    BY <1>1 DEF Crash, Die
  <2>2. TasksCut
    BY <2>1 DEF TasksCut, TasksInv, Rows
  <2> QED
    BY <2>1, <2>2, DieStep
<1>2. ASSUME NEW t \in DOMAIN tasks, DispatchCut(t) PROVE TasksInv'
  <2> DEFINE new == NewAgent(tasks[t].role, FALSE, "ok")
  <2>1. /\ runs' = {} /\ calls' = Requeued /\ agents' = Append(agents, new)
        /\ tasks' = [tasks EXCEPT ![t].status = "IN_PROGRESS"] /\ tasks[t].status = "TODO"
        /\ lost' = lost \cup {t} /\ UNCHANGED handled
    BY <1>2 DEF DispatchCut, Die, First, Todo
  <2>2. new \in AgentRow /\ new.status = "IDLE"
    <3>1. tasks[t] \in TaskRow
      BY DEF TasksInv, Rows
    <3> QED
      BY <3>1 DEF TaskRow, NewAgent, AgentRow, Providers
  <2>3. TasksCut
    BY <2>1, TaskMoved DEF TasksCut, TasksInv
  <2> HIDE DEF new
  <2> QED
    BY <2>1, <2>2, <2>3, DieStep
<1> QED
  BY <1>1, <1>2

\* Steps after which no other agent is BUSY.
LEMMA AgentsQuiet ==
  ASSUME TasksInv, agents' \in Seq(AgentRow), DOMAIN agents \subseteq DOMAIN agents',
         \A b \in DOMAIN agents' : agents'[b].status = "BUSY" => b \in DOMAIN agents /\ agents'[b] = agents[b],
         UNCHANGED <<tasks, calls, runs, handled, lost>>
  PROVE  TasksInv'
<1>1. Rows' /\ Linked'
  BY DEF TasksInv, Rows, Linked
<1>2. Freed'
  BY DEF TasksInv, Freed, Open
<1>3. Alone' /\ Reviewed' /\ OnlyKnownLosses'
  BY DEF TasksInv, Alone, Live, Open, Reviewed, OnlyKnownLosses
<1> QED
  BY <1>1, <1>2, <1>3 DEF TasksInv

LEMMA ExitStep == ASSUME TasksInv, NEW a \in DOMAIN agents, Exit(a) PROVE TasksInv'
<1> DEFINE heir == NewAgent(agents[a].role, FALSE, agents[a].provider)
<1>1. heir \in AgentRow /\ heir.status = "IDLE"
  <2>1. agents[a] \in AgentRow
    BY DEF TasksInv, Rows
  <2> QED
    BY <2>1 DEF AgentRow, NewAgent
<1> HIDE DEF heir
<1>2. ASSUME NEW v \in {"STOPPED", "TERMINATED"},
             agents' = StatusOf(a, v) \/ agents' = Append(StatusOf(a, v), heir)
      PROVE  /\ agents' \in Seq(AgentRow) /\ DOMAIN agents \subseteq DOMAIN agents'
             /\ \A b \in DOMAIN agents' :
                  agents'[b].status = "BUSY" => b \in DOMAIN agents /\ agents'[b] = agents[b]
  <2> DEFINE ended == StatusOf(a, v)
  <2>1. /\ ended \in Seq(AgentRow) /\ DOMAIN ended = DOMAIN agents
        /\ \A b \in DOMAIN agents : ended[b].status = "BUSY" => ended[b] = agents[b]
    BY AgentMoved DEF TasksInv
  <2>2. agents' = ended \/ agents' = Append(ended, heir)
    BY <1>2
  <2> HIDE DEF ended
  <2>3. CASE agents' = ended
    BY <2>1, <2>3
  <2>4. CASE agents' = Append(ended, heir)
    BY <1>1, <2>1, <2>4, Appended
  <2> QED
    BY <2>2, <2>3, <2>4
<1>3. UNCHANGED <<tasks, calls, runs, handled, lost>>
  BY DEF Exit
<1>4. \/ agents' = StatusOf(a, "STOPPED")
      \/ agents' = Append(StatusOf(a, "TERMINATED"), heir)
  BY DEF Exit, heir
<1> QED
  BY <1>2, <1>3, <1>4, AgentsQuiet

LEMMA AddTaskStep ==
  ASSUME TasksInv, NEW ctx \in Contexts, NEW prio \in Priorities, AddTask(ctx, prio) PROVE TasksInv'
<1> DEFINE new == NewTask("codeur", ctx, prio, 0)
<1>1. new \in TaskRow /\ new.status = "TODO" /\ new.role # "critique"
  BY BoundsAssumption DEF NewTask, TaskRow, Roles
<1>2. tasks' = Append(tasks, new) /\ UNCHANGED <<agents, calls, runs, handled, lost>>
  BY DEF AddTask
<1> HIDE DEF new
<1> QED
  BY <1>1, <1>2, TaskAdded

-----------------------------------------------------------------------------
LEMMA TasksInductive == TasksInv /\ [Next]_vars => TasksInv'
<1> SUFFICES ASSUME TasksInv, [Next]_vars PROVE TasksInv'
  OBVIOUS
<1>1. CASE UNCHANGED vars \/ JobDue
  <2>1. UNCHANGED <<agents, tasks, calls, runs, handled, lost>>
    BY <1>1 DEF vars, JobDue
  <2> QED
    BY <2>1, AgentsQuiet DEF TasksInv, Rows
<1>2. ASSUME NEW ctx \in Contexts, NEW prio \in Priorities, AddTask(ctx, prio) PROVE TasksInv'
  BY <1>2, AddTaskStep
<1>3. ASSUME NEW t \in DOMAIN tasks,
             Claim(t) \/ Provision(t) \/ ProvisionRaises(t) \/ DispatchCut(t)
               \/ Review(t) \/ HandleReview(t) \/ DebugLoop(t)
      PROVE  TasksInv'
  BY <1>3, DispatchStep, ProvisionRaisesStep, DeathStep, SpawnStep, HandleReviewStep
<1>4. ASSUME NEW c \in DOMAIN calls, Start(c) \/ StartRefused(c) PROVE TasksInv'
  BY <1>4, StartStep, StartRefusedStep
<1>5. ASSUME NEW r \in runs, EndRun(r) PROVE TasksInv'
  BY <1>5, EndRunStep
<1>6. ASSUME NEW a \in DOMAIN agents, Watch(a) \/ Execute(a) PROVE TasksInv'
  BY <1>6, ExtraStep DEF Watch, Execute, Extra
<1>7. ASSUME NEW a \in DOMAIN agents, Exit(a) \/ Reset(a) PROVE TasksInv'
  BY <1>7, ExitStep, ResetStep
<1>8. CASE Crash
  BY <1>8, DeathStep
<1>9. CASE Trigger
  <2>1. 1 \in DOMAIN agents
    BY DEF TasksInv, Linked
  <2> QED
    BY <1>9, <2>1, ExtraStep DEF Trigger, Extra
<1> QED
  BY <1>1, <1>2, <1>3, <1>4, <1>5, <1>6, <1>7, <1>8, <1>9 DEF Next

LEMMA TasksAlways == Spec => []TasksInv
BY TasksInitial, TasksInductive, PTL DEF Spec

\* A shared task is executed by one worker at a time, its assignee, although the
\* watchdog fails calls that are being executed, a restart requeues them and a
\* rejected review puts the task back (Worker.execute, WatchdogService.tick,
\* handle_review_result), for any number of tasks, agents and executions.
THEOREM TasksRunOnce == Spec => []OneRunPerTask
<1>1. TasksInv => OneRunPerTask
  BY TasksImply
<1> QED
  BY <1>1, TasksAlways, PTL

\* An agent that is BUSY has something left that frees it, although the watchdog
\* passes over an agent none of whose calls is BUSY.
THEOREM BusyAgentsAreFreed == Spec => []BusyIsFreed
<1>1. TasksInv => BusyIsFreed
  BY TasksImply
<1> QED
  BY <1>1, TasksAlways, PTL

\* No interleaving forgets a task but at the places the code is known to.
THEOREM TasksAreKept == Spec => []OnlyKnownLosses
<1>1. TasksInv => OnlyKnownLosses
  BY TasksImply
<1> QED
  BY <1>1, TasksAlways, PTL
=============================================================================
