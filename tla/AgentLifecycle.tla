--------------------------- MODULE AgentLifecycle ---------------------------
(***************************************************************************)
(* The life of the agents of agents.db: the row of table `agents`, the row *)
(* of table `agent_runtime`, the calls that hydrate, run and dehydrate     *)
(* them in the threads of several processes, and the supervision (tick,    *)
(* admission, start-up sync) that declares them dead and evicts them.      *)
(*                                                                         *)
(* Sources: services/agent_manager/service.py (Agent, AgentManager),       *)
(* services/agent_daemon/service.py (AgentDaemon), services/afd/service.py *)
(* and AgentFrameWork/ticker.py.                                           *)
(*                                                                         *)
(* Every thread opens its own SQLite connection, so that one commit is one *)
(* step of the model; the work of an agent (FSM or bridge call) is a phase *)
(* that lasts as long as the language model does.                          *)
(***************************************************************************)
EXTENDS Integers, FiniteSets

CONSTANTS
  Agents,      \* identifiers of table agents (AUTOINCREMENT: never reused)
  NoAgent,     \* "no agent"
  Existing,    \* the agents that are in the table at start, the others are created
  Threads,     \* threads that serve calls (IPC threads, REST threads, spawn steps)
  Admitters,   \* threads that serve `admit`
  Procs,       \* operating-system processes
  CallProcs,   \* those that serve calls (the AFD, the gateway in local fallback)
  TickProcs,   \* those that run AgentManager.tick (the AFD, the agent_manager service)
  SyncProcs,   \* those that run AgentDaemon.sync when they start (the AFD)
  Priority,    \* resources.priority of each agent
  Preemptible, \* the agents with resources.preemptible
  MaxPid,      \* bound: process incarnations
  MaxKills,    \* bound: PENDING kill signals of an agent that are told apart
  Latency,     \* longest time between two heartbeats of a live call
  MaxAge       \* check_heartbeats: a row older than this is a zombie

ASSUME SetsAssumption ==
  /\ NoAgent \notin Agents
  /\ Existing \subseteq Agents
  /\ CallProcs \subseteq Procs /\ TickProcs \subseteq Procs /\ SyncProcs \subseteq Procs
  /\ Admitters \cap TickProcs = {}
  /\ Preemptible \subseteq Agents
  /\ Priority \in [Agents -> Int]

\* HEARTBEAT_INTERVAL_SECONDS = 8, plus a busy_timeout of 5 s, against 30 s.
ASSUME BoundsAssumption ==
  /\ MaxPid \in Nat /\ MaxKills \in Nat \ {0}
  /\ Latency \in Nat /\ MaxAge \in Nat
  /\ Latency < MaxAge

VARIABLES
  status,   \* agents.status, or "UNBORN" / "DELETED" for an agent not in the table
  rowPid,   \* agent_runtime.pid, 0 when there is no row
  rowAge,   \* age of agent_runtime.heartbeat_at, saturating at MaxAge + 1
  kills,    \* number of PENDING kill signals (saturating at MaxKills)
  pid,      \* process -> current pid, 0 when it is down
  nextPid,  \* the next pid the system hands out
  pc,       \* thread -> where its call is
  agent,    \* thread -> the agent its call is about
  host,     \* thread -> pid of the process that runs it
  op,       \* thread -> the entry point it serves
  beat,     \* thread -> time since it last refreshed the runtime row
  supPc,    \* supervisor -> where its sweep is
  supHost,  \* supervisor -> pid of the process that runs it
  todo,     \* supervisor -> agents still to kill
  victim,   \* supervisor -> the agent it is killing
  abandoned \* history: agents some call left without dehydrating them

table   == <<status, rowPid, rowAge, kills>>
procs   == <<pid, nextPid>>
calls   == <<pc, agent, host, op, beat>>
sups    == <<supPc, supHost, todo, victim>>
vars    == <<table, procs, calls, sups, abandoned>>

Supervisors == TickProcs \cup Admitters
Pids        == 1 .. MaxPid
States      == {"UNBORN", "INIT", "IDLE", "RUNNING", "STOPPED", "DELETED"}

\* execute: _execute_op; capability: _capability_op; chat: chat_send;
\* spawn, spawnTemp: spawn_agent with keep_sleeping True, False.
Ops     == {"execute", "capability", "chat", "spawn", "spawnTemp"}
\* Phases in which the call holds the agent, between hydrate and dehydrate.
Holding == {"hydrated", "prelude", "working", "ending", "leaving"}
Phases  == {"free", "resolved"} \cup Holding

InTable(a) == status[a] \notin {"UNBORN", "DELETED"}
HasRow(a)  == rowPid[a] # 0
Holds(t, a) == agent[t] = a /\ pc[t] \in Holding
Held(a)    == \E t \in Threads : Holds(t, a)
Alive(n)   == n # 0 /\ \E p \in Procs : pid[p] = n

\* UPDATE agents SET status = s WHERE agent_id = a: no row, no effect.
StatusSet(a, s) == [status EXCEPT ![a] = IF InTable(a) THEN s ELSE @]
\* UPDATE agent_runtime SET heartbeat_at = now WHERE agent_id = a.
Refreshed(a)    == [rowAge EXCEPT ![a] = 0]
\* DELETE FROM agent_runtime for the agents of S.
RowsGone(S)     == /\ rowPid' = [a \in Agents |-> IF a \in S THEN 0 ELSE rowPid[a]]
                   /\ rowAge' = [a \in Agents |-> IF a \in S THEN 0 ELSE rowAge[a]]
KillSent(a)     == [kills EXCEPT ![a] = IF @ < MaxKills THEN @ + 1 ELSE @]

\* Table agents without the agent: its runtime row and its signals go with it.
Removed(a) ==
  /\ status' = [status EXCEPT ![a] = IF InTable(a) THEN "DELETED" ELSE @]
  /\ RowsGone({a})
  /\ kills' = [kills EXCEPT ![a] = 0]
  /\ abandoned' = abandoned \ {a}

\* The threads of T stop serving their call.
Released(T) ==
  /\ pc'    = [t \in Threads |-> IF t \in T THEN "free"  ELSE pc[t]]
  /\ agent' = [t \in Threads |-> IF t \in T THEN NoAgent ELSE agent[t]]
  /\ host'  = [t \in Threads |-> IF t \in T THEN 0       ELSE host[t]]
  /\ op'    = [t \in Threads |-> IF t \in T THEN "none"  ELSE op[t]]
  /\ beat'  = [t \in Threads |-> IF t \in T THEN 0       ELSE beat[t]]

Goto(t, phase) == pc' = [pc EXCEPT ![t] = phase] /\ beat' = [beat EXCEPT ![t] = 0]

TypeOK ==
  /\ status \in [Agents -> States]
  /\ rowPid \in [Agents -> 0 .. MaxPid]
  /\ rowAge \in [Agents -> 0 .. MaxAge + 1]
  /\ kills \in [Agents -> 0 .. MaxKills]
  /\ pid \in [Procs -> 0 .. MaxPid]
  /\ nextPid \in 1 .. MaxPid + 1
  /\ pc \in [Threads -> Phases]
  /\ agent \in [Threads -> Agents \cup {NoAgent}]
  /\ host \in [Threads -> 0 .. MaxPid]
  /\ op \in [Threads -> Ops \cup {"none"}]
  /\ beat \in [Threads -> 0 .. Latency]
  /\ supPc \in [Supervisors -> {"idle", "kill", "evict"}]
  /\ supHost \in [Supervisors -> 0 .. MaxPid]
  /\ todo \in [Supervisors -> SUBSET Agents]
  /\ victim \in [Supervisors -> Agents \cup {NoAgent}]
  /\ abandoned \subseteq Agents

Init ==
  /\ status = [a \in Agents |-> IF a \in Existing THEN "INIT" ELSE "UNBORN"]
  /\ rowPid = [a \in Agents |-> 0]
  /\ rowAge = [a \in Agents |-> 0]
  /\ kills = [a \in Agents |-> 0]
  /\ pid = [p \in Procs |-> 0]
  /\ nextPid = 1
  /\ pc = [t \in Threads |-> "free"]
  /\ agent = [t \in Threads |-> NoAgent]
  /\ host = [t \in Threads |-> 0]
  /\ op = [t \in Threads |-> "none"]
  /\ beat = [t \in Threads |-> 0]
  /\ supPc = [s \in Supervisors |-> "idle"]
  /\ supHost = [s \in Supervisors |-> 0]
  /\ todo = [s \in Supervisors |-> {}]
  /\ victim = [s \in Supervisors |-> NoAgent]
  /\ abandoned = {}

-----------------------------------------------------------------------------
(* Calls *)

\* op_agent_create, create_chat_session and the first half of spawn_agent.
Create(a) ==
  /\ status[a] = "UNBORN"
  /\ status' = [status EXCEPT ![a] = "INIT"]
  /\ UNCHANGED <<rowPid, rowAge, kills, procs, calls, sups, abandoned>>

Accept(t, p, a, o) ==
  /\ pc[t] = "free" /\ p \in CallProcs /\ pid[p] # 0
  /\ pc' = [pc EXCEPT ![t] = "resolved"]
  /\ agent' = [agent EXCEPT ![t] = a]
  /\ host' = [host EXCEPT ![t] = pid[p]]
  /\ op' = [op EXCEPT ![t] = o]
  /\ beat' = [beat EXCEPT ![t] = 0]
  /\ UNCHANGED <<rowPid, rowAge, kills, procs, sups, abandoned>>

\* AgentDaemon.call or chat_send resolves the agent; nothing looks at its status.
Call(t, p, a, o) ==
  /\ o \in {"execute", "capability", "chat"}
  /\ InTable(a)
  /\ Accept(t, p, a, o)
  /\ UNCHANGED status

\* spawn_agent: INSERT the agent, then hydrate it in the same thread.
Spawn(t, p, a, o) ==
  /\ o \in {"spawn", "spawnTemp"}
  /\ status[a] = "UNBORN"
  /\ Accept(t, p, a, o)
  /\ status' = [status EXCEPT ![a] = "INIT"]

\* Agent.hydrate: whoever held the agent before, its runtime row is replaced.
Hydrate(t) ==
  /\ pc[t] = "resolved" /\ InTable(agent[t])
  /\ status' = [status EXCEPT ![agent[t]] = "IDLE"]
  /\ rowPid' = [rowPid EXCEPT ![agent[t]] = host[t]]
  /\ rowAge' = Refreshed(agent[t])
  /\ abandoned' = abandoned \ {agent[t]}
  /\ Goto(t, "hydrated")
  /\ UNCHANGED <<kills, procs, agent, host, op, sups>>

\* The agent was deleted since the call resolved it: ValueError.
HydrateFails(t) ==
  /\ pc[t] = "resolved" /\ ~InTable(agent[t])
  /\ Released({t})
  /\ UNCHANGED <<table, procs, sups, abandoned>>

\* _mark_running, first statement of execute and of chat_turn.
MarkRunning(t) ==
  /\ pc[t] = "hydrated"
  /\ status' = StatusSet(agent[t], "RUNNING")
  /\ rowAge' = Refreshed(agent[t])
  /\ Goto(t, "prelude")
  /\ UNCHANGED <<rowPid, kills, procs, agent, host, op, sups, abandoned>>

\* The bridge, the workflow and the messages are ready: _spawn_heartbeat.
StartWork(t) ==
  /\ pc[t] = "prelude"
  /\ rowAge' = Refreshed(agent[t])
  /\ Goto(t, "working")
  /\ UNCHANGED <<status, rowPid, kills, procs, agent, host, op, sups, abandoned>>

\* Mutant of Beat: the heartbeat thread keeps quiet (its UPDATE matches no row).
BeatInVain(t) ==
  /\ pc[t] = "working"
  /\ beat' = [beat EXCEPT ![t] = 0]
  /\ UNCHANGED <<status, rowPid, rowAge, kills, procs, pc, agent, host, op, sups, abandoned>>

\* One round of the heartbeat thread.
Beat(t) ==
  /\ pc[t] = "working"
  /\ rowAge' = Refreshed(agent[t])
  /\ beat' = [beat EXCEPT ![t] = 0]
  /\ UNCHANGED <<status, rowPid, kills, procs, pc, agent, host, op, sups, abandoned>>

\* The agent answers, or its work fails inside the try block.
Finish(t) ==
  /\ pc[t] = "working"
  /\ pc' = [pc EXCEPT ![t] = "ending"]
  /\ UNCHANGED <<table, procs, agent, host, op, beat, sups, abandoned>>

\* signal_check consumes one PENDING kill: AgentAbort.
Abort(t) ==
  /\ pc[t] = "working" /\ kills[agent[t]] > 0
  /\ kills' = [kills EXCEPT ![agent[t]] = @ - 1]
  /\ pc' = [pc EXCEPT ![t] = "ending"]
  /\ UNCHANGED <<status, rowPid, rowAge, procs, agent, host, op, beat, sups, abandoned>>

\* _mark_idle, in the finally of execute and of chat_turn.
MarkIdle(t) ==
  /\ pc[t] = "ending"
  /\ status' = StatusSet(agent[t], "IDLE")
  /\ rowAge' = Refreshed(agent[t])
  /\ Goto(t, "leaving")
  /\ UNCHANGED <<rowPid, kills, procs, agent, host, op, sups, abandoned>>

\* Mutant of Dehydrate: the UPDATE of agents is forgotten.
DehydrateKeepsStatus(t) ==
  /\ pc[t] = "leaving" /\ op[t] # "spawnTemp"
  /\ RowsGone({agent[t]})
  /\ abandoned' = abandoned \ {agent[t]}
  /\ Released({t})
  /\ UNCHANGED <<status, kills, procs, sups>>

\* Agent.dehydrate.
Dehydrate(t) ==
  /\ pc[t] = "leaving" /\ op[t] # "spawnTemp"
  /\ status' = StatusSet(agent[t], "INIT")
  /\ RowsGone({agent[t]})
  /\ abandoned' = abandoned \ {agent[t]}
  /\ Released({t})
  /\ UNCHANGED <<kills, procs, sups>>

\* spawn_agent with keep_sleeping = False deletes the agent it created.
Discard(t) ==
  /\ pc[t] = "leaving" /\ op[t] = "spawnTemp"
  /\ Removed(agent[t])
  /\ Released({t})
  /\ UNCHANGED <<procs, sups>>

\* An exception escapes execute or chat_turn: before the try block (bridge,
\* workflow, stream reset) or from _mark_idle (database locked). Only
\* _capability_op dehydrates in a finally; spawn_agent deletes the agent.
Escapes(t) == pc[t] \in {"hydrated", "prelude", "ending"}

\* Mutant of RaiseDehydrates: no finally around the execution of _capability_op.
RaiseSkipsFinally(t) ==
  /\ Escapes(t) /\ op[t] = "capability"
  /\ Released({t})
  /\ UNCHANGED <<table, procs, sups, abandoned>>

RaiseDehydrates(t) ==
  /\ Escapes(t) /\ op[t] = "capability"
  /\ status' = StatusSet(agent[t], "INIT")
  /\ RowsGone({agent[t]})
  /\ abandoned' = abandoned \ {agent[t]}
  /\ Released({t})
  /\ UNCHANGED <<kills, procs, sups>>

RaiseDeletes(t) ==
  /\ Escapes(t) /\ op[t] \in {"spawn", "spawnTemp"}
  /\ Removed(agent[t])
  /\ Released({t})
  /\ UNCHANGED <<procs, sups>>

RaiseAbandons(t) ==
  /\ Escapes(t) /\ op[t] \in {"execute", "chat"}
  /\ abandoned' = IF InTable(agent[t]) THEN abandoned \cup {agent[t]} ELSE abandoned
  /\ Released({t})
  /\ UNCHANGED <<table, procs, sups>>

-----------------------------------------------------------------------------
(* Operators' requests that touch an agent without holding it *)

\* The raw `signal` operation with type kill; unlike the routed `kill`
\* operation it has no state gate.
SendKill(a) ==
  /\ InTable(a)
  /\ kills' = KillSent(a)
  /\ UNCHANGED <<status, rowPid, rowAge, procs, calls, sups, abandoned>>

\* Mutant of Handoff: the yielding agent keeps its runtime row.
HandoffKeepsRow(from, to) ==
  /\ InTable(from) /\ InTable(to)
  /\ status' = StatusSet(from, "INIT")
  /\ UNCHANGED <<rowPid, rowAge, kills, procs, calls, sups, abandoned>>

\* AgentManager.handoff, from the API or from a handoff step of the agent.
Handoff(from, to) ==
  /\ InTable(from) /\ InTable(to)
  /\ status' = StatusSet(from, "INIT")
  /\ RowsGone({from})
  /\ abandoned' = abandoned \ {from}
  /\ UNCHANGED <<kills, procs, calls, sups>>

\* op_agent_delete and delete_chat_session.
Delete(a) ==
  /\ InTable(a)
  /\ Removed(a)
  /\ UNCHANGED <<procs, calls, sups>>

-----------------------------------------------------------------------------
(* Supervision *)

\* check_heartbeats: only agents with a runtime row can be found.
Supervised(a) == status[a] \in {"RUNNING", "IDLE"} /\ HasRow(a)
\* Mutant of Zombies: only the agents that run are looked at.
RunningZombies == {a \in Agents : status[a] = "RUNNING" /\ HasRow(a) /\ rowAge[a] > MaxAge}
Zombies       == {a \in Agents : Supervised(a) /\ rowAge[a] > MaxAge}

Sweep(s, n, rest) ==
  /\ supPc' = [supPc EXCEPT ![s] = IF rest = {} THEN "idle" ELSE "kill"]
  /\ supHost' = [supHost EXCEPT ![s] = IF rest = {} THEN 0 ELSE n]
  /\ todo' = [todo EXCEPT ![s] = rest]
  /\ victim' = [victim EXCEPT ![s] = NoAgent]

\* AgentManager.tick in process p: the zombies of this instant, killed one by one.
TickScan(p) ==
  /\ p \in TickProcs /\ pid[p] # 0 /\ supPc[p] = "idle"
  /\ Zombies # {}
  /\ Sweep(p, pid[p], Zombies)
  /\ UNCHANGED <<table, procs, calls, abandoned>>

\* AgentManager.admit for a: the verdict is negative, so the active preemptible
\* agents of strictly lower priority become candidates.
Candidates(a) == {c \in Preemptible : InTable(c) /\ HasRow(c) /\ Priority[c] < Priority[a]}

Admit(s, p, a) ==
  /\ s \in Admitters /\ p \in CallProcs /\ pid[p] # 0 /\ supPc[s] = "idle"
  /\ InTable(a) /\ Candidates(a) # {}
  /\ Sweep(s, pid[p], Candidates(a))
  /\ UNCHANGED <<table, procs, calls, abandoned>>

\* kill(zid) takes the zombies in any order, the candidates by priority.
IsNext(s, a) ==
  /\ supPc[s] = "kill" /\ a \in todo[s]
  /\ s \in Admitters => \A c \in todo[s] : Priority[a] <= Priority[c]

\* kill: not_hydrated.
KillSkips(s, a) ==
  /\ IsNext(s, a) /\ ~HasRow(a)
  /\ Sweep(s, supHost[s], todo[s] \ {a})
  /\ UNCHANGED <<table, procs, calls, abandoned>>

Aim(s, a) ==
  /\ supPc' = [supPc EXCEPT ![s] = "evict"]
  /\ todo' = [todo EXCEPT ![s] = @ \ {a}]
  /\ victim' = [victim EXCEPT ![s] = a]

\* kill of an agent hydrated by this very process: a kill signal, committed
\* before the clean-up of the tables.
KillInline(s, a) ==
  /\ IsNext(s, a) /\ HasRow(a) /\ rowPid[a] = supHost[s]
  /\ kills' = KillSent(a)
  /\ Aim(s, a)
  /\ UNCHANGED <<status, rowPid, rowAge, procs, calls, supHost, abandoned>>

\* The threads, the sweeps and the claims of a process that disappears.
ThreadsOf(n) == {t \in Threads : host[t] = n /\ n # 0}
LeftBehind(n) == {a \in Agents : InTable(a) /\ \E t \in ThreadsOf(n) : Holds(t, a)}
Died(p) ==
  /\ pid' = [pid EXCEPT ![p] = 0]
  /\ Released(ThreadsOf(pid[p]))
  /\ abandoned' = abandoned \cup LeftBehind(pid[p])

\* kill of an agent hydrated by a process that is gone: nothing to terminate.
KillGone(s, a) ==
  /\ IsNext(s, a) /\ HasRow(a) /\ rowPid[a] # supHost[s] /\ ~Alive(rowPid[a])
  /\ Aim(s, a)
  /\ UNCHANGED <<table, procs, calls, supHost, abandoned>>

\* kill of an agent hydrated by another live process: SIGTERM, then SIGKILL.
KillProcess(s, a, p) ==
  /\ IsNext(s, a) /\ HasRow(a) /\ rowPid[a] # supHost[s] /\ pid[p] = rowPid[a]
  /\ Died(p)
  /\ LET dead(r) == supHost[r] = pid[p] IN
     /\ supPc' = [r \in Supervisors |->
                    IF r = s THEN "evict" ELSE IF dead(r) THEN "idle" ELSE supPc[r]]
     /\ supHost' = [r \in Supervisors |-> IF dead(r) THEN 0 ELSE supHost[r]]
     /\ todo' = [r \in Supervisors |->
                    IF r = s THEN todo[s] \ {a} ELSE IF dead(r) THEN {} ELSE todo[r]]
     /\ victim' = [r \in Supervisors |->
                    IF r = s THEN a ELSE IF dead(r) THEN NoAgent ELSE victim[r]]
  /\ UNCHANGED <<table, nextPid>>

\* Mutants of Evict: a status no other operation knows; one table of the two.
EvictTerminates(s) ==
  /\ supPc[s] = "evict"
  /\ status' = StatusSet(victim[s], "TERMINATED")
  /\ RowsGone({victim[s]})
  /\ abandoned' = abandoned \ {victim[s]}
  /\ Sweep(s, supHost[s], todo[s])
  /\ UNCHANGED <<kills, procs, calls>>

EvictKeepsRow(s) ==
  /\ supPc[s] = "evict"
  /\ status' = StatusSet(victim[s], "STOPPED")
  /\ Sweep(s, supHost[s], todo[s])
  /\ UNCHANGED <<rowPid, rowAge, kills, procs, calls, abandoned>>

\* The end of kill; admit evaluates again and may stop there.
Evict(s) ==
  /\ supPc[s] = "evict"
  /\ status' = StatusSet(victim[s], "STOPPED")
  /\ RowsGone({victim[s]})
  /\ abandoned' = abandoned \ {victim[s]}
  /\ \/ Sweep(s, supHost[s], todo[s])
     \/ s \in Admitters /\ Sweep(s, supHost[s], {})
  /\ UNCHANGED <<kills, procs, calls>>

-----------------------------------------------------------------------------
(* Processes and time *)

\* sync() takes max_age = 0 and whole seconds: a row refreshed earlier than
\* this second is an orphan, whoever refreshed it.
Start(p) ==
  /\ pid[p] = 0 /\ nextPid <= MaxPid
  /\ pid' = [pid EXCEPT ![p] = nextPid]
  /\ nextPid' = nextPid + 1
  /\ \E now \in SUBSET {a \in Agents : Supervised(a) /\ rowAge[a] = 0} :
       LET cleaned == IF p \in SyncProcs
                      THEN {a \in Agents : Supervised(a)} \ now
                      ELSE {}
       IN /\ status' = [a \in Agents |-> IF a \in cleaned THEN "STOPPED" ELSE status[a]]
          /\ RowsGone(cleaned)
          /\ abandoned' = abandoned \ cleaned
  /\ UNCHANGED <<kills, calls, sups>>

\* The process is killed or crashes; one incarnation is kept for its restart.
Crash(p) ==
  /\ pid[p] # 0 /\ nextPid <= MaxPid
  /\ Died(p)
  /\ LET dead(r) == supHost[r] = pid[p] IN
     /\ supPc' = [r \in Supervisors |-> IF dead(r) THEN "idle" ELSE supPc[r]]
     /\ supHost' = [r \in Supervisors |-> IF dead(r) THEN 0 ELSE supHost[r]]
     /\ todo' = [r \in Supervisors |-> IF dead(r) THEN {} ELSE todo[r]]
     /\ victim' = [r \in Supervisors |-> IF dead(r) THEN NoAgent ELSE victim[r]]
  /\ UNCHANGED <<table, nextPid>>

\* One unit of time. A live call beats, or moves on, within Latency.
TimePasses ==
  /\ \A t \in Threads : pc[t] \in Holding => beat[t] < Latency
  /\ rowAge' = [a \in Agents |-> IF HasRow(a) /\ rowAge[a] <= MaxAge
                                 THEN rowAge[a] + 1 ELSE rowAge[a]]
  /\ beat' = [t \in Threads |-> IF pc[t] \in Holding THEN beat[t] + 1 ELSE beat[t]]
  /\ UNCHANGED <<status, rowPid, kills, procs, pc, agent, host, op, sups, abandoned>>

-----------------------------------------------------------------------------
CallStep(t) ==
  \/ Hydrate(t) \/ HydrateFails(t) \/ MarkRunning(t) \/ StartWork(t) \/ Beat(t)
  \/ Finish(t) \/ Abort(t) \/ MarkIdle(t) \/ Dehydrate(t) \/ Discard(t)
  \/ RaiseDehydrates(t) \/ RaiseDeletes(t) \/ RaiseAbandons(t)

KillStep(s) ==
  \/ \E a \in Agents : KillSkips(s, a) \/ KillInline(s, a) \/ KillGone(s, a)
  \/ \E a \in Agents, p \in Procs : KillProcess(s, a, p)
  \/ Evict(s)

Request ==
  \/ \E a \in Agents : Create(a) \/ SendKill(a) \/ Delete(a)
  \/ \E from, to \in Agents : Handoff(from, to)
  \/ \E t \in Threads, p \in Procs, a \in Agents, o \in Ops :
       Call(t, p, a, o) \/ Spawn(t, p, a, o)
  \/ \E s \in Supervisors, p \in Procs, a \in Agents : Admit(s, p, a)

Next ==
  \/ Request
  \/ \E t \in Threads : CallStep(t)
  \/ \E p \in Procs : TickScan(p) \/ Start(p) \/ Crash(p)
  \/ \E s \in Supervisors : KillStep(s)
  \/ TimePasses

Spec == Init /\ [][Next]_vars

\* The ticker thread sweeps, time goes on, a live call keeps beating and leaves
\* its short phases, the AFD is restarted. Nothing is assumed of the operators,
\* of the length of the work, or of the absence of exceptions.
Brief(t) == Hydrate(t) \/ HydrateFails(t) \/ MarkRunning(t) \/ StartWork(t)
            \/ MarkIdle(t) \/ Dehydrate(t) \/ Discard(t)
Fairness ==
  /\ \A t \in Threads : WF_vars(Beat(t)) /\ WF_vars(Brief(t))
  /\ \A p \in TickProcs : WF_vars(TickScan(p)) /\ WF_vars(Start(p))
  /\ \A s \in Supervisors : WF_vars(KillStep(s))
  /\ WF_vars(TimePasses)
FairSpec == Spec /\ Fairness
-----------------------------------------------------------------------------
(* Properties *)

\* Every runtime row belongs to an agent that check_heartbeats looks at: no
\* sequence of hydrations, hand-offs, evictions and deletions leaves a row whose
\* agent is INIT, STOPPED or gone, which neither tick nor sync would ever clean.
RowSupervised == \A a \in Agents : HasRow(a) => Supervised(a)

\* The pid in a runtime row is that of a call still holding the agent, unless a
\* call was cut short (crash, or an exception past execute and chat_send): the
\* pid that `kill` sends SIGTERM to is never that of a call that returned.
RowsOwned ==
  \A a \in Agents : HasRow(a) =>
    \/ a \in abandoned
    \/ \E t \in Threads : Holds(t, a) /\ host[t] = rowPid[a]

\* When the last call on an agent has returned, however calls, kills, hand-offs
\* and evictions interleaved, the agent sleeps (INIT or STOPPED, no runtime row)
\* unless some call was cut short.
Settled ==
  \A a \in Agents : InTable(a) /\ ~Held(a) /\ a \notin abandoned =>
    status[a] \in {"INIT", "STOPPED"} /\ ~HasRow(a)

\* check_heartbeats never returns an agent that a live call holds, whatever the
\* other calls on the same agent do to its runtime row: the heartbeat thread and
\* the refreshes of _mark_running and _mark_idle keep the row fresh.
NoLiveZombie == \A a \in Zombies : ~Held(a)

\* A runtime row left by a call that was cut short is eventually removed by the
\* supervision, or taken over by a new call.
Reclaimed ==
  \A a \in Agents : (HasRow(a) /\ ~Held(a)) ~> (~HasRow(a) \/ Held(a))

\* The comment on HEARTBEAT_INTERVAL_SECONDS: the ticker must not kill an agent
\* that is at work. Stated of the eviction itself, not of the scan before it.
TickEvictsOnlyDead ==
  [][\A s \in TickProcs : Evict(s) => ~Held(victim[s])]_vars

\* The note of AgentManager.kill: agents run inline in the process that serves
\* the calls, which must not receive SIGTERM.
SparesCallServers ==
  [][\A s \in Supervisors, a \in Agents, p \in Procs :
       KillProcess(s, a, p) => p \notin CallProcs]_vars

=============================================================================
