------------------------ MODULE AgentLifecycleProofs ------------------------
(***************************************************************************)
(* Safety of AgentLifecycle for every set of agents, threads and processes *)
(* and every admissible latency and age.                                   *)
(***************************************************************************)
EXTENDS AgentLifecycle, TLAPS

\* A thread that serves a call knows its agent and its entry point.
CallsNamed == \A t \in Threads : pc[t] # "free" => agent[t] \in Agents /\ op[t] \in Ops

\* The row of an agent is never older than the last heartbeat of any call on it:
\* what NoLiveZombie needs to be inductive.
FreshWhileHeld ==
  \A t \in Threads, a \in Agents : Holds(t, a) /\ HasRow(a) => rowAge[a] <= beat[t]

\* A step of the processes that serve, one action each.
ProcStep(p) == TickScan(p) \/ Start(p) \/ Crash(p)

-----------------------------------------------------------------------------
(* The types of what the helper operators write. *)

\* The type of the four variables of a call.
CallsType ==
  /\ pc \in [Threads -> Phases]
  /\ agent \in [Threads -> Agents \cup {NoAgent}]
  /\ host \in [Threads -> 0 .. MaxPid]
  /\ op \in [Threads -> Ops \cup {"none"}]
  /\ beat \in [Threads -> 0 .. Latency]

\* The type of the two tables.
TableType ==
  /\ status \in [Agents -> States]
  /\ rowPid \in [Agents -> 0 .. MaxPid]
  /\ rowAge \in [Agents -> 0 .. MaxAge + 1]
  /\ kills \in [Agents -> 0 .. MaxKills]

\* The type of the sweeps.
SupsType ==
  /\ supPc \in [Supervisors -> {"idle", "kill", "evict"}]
  /\ supHost \in [Supervisors -> 0 .. MaxPid]
  /\ todo \in [Supervisors -> SUBSET Agents]
  /\ victim \in [Supervisors -> Agents \cup {NoAgent}]

\* The type of the processes.
ProcsType ==
  /\ pid \in [Procs -> 0 .. MaxPid]
  /\ nextPid \in 1 .. MaxPid + 1

\* TypeOK by variable group.
LEMMA TypeSplit ==
  TypeOK <=> TableType /\ ProcsType /\ CallsType /\ SupsType /\ abandoned \subseteq Agents
BY DEF TypeOK, TableType, ProcsType, CallsType, SupsType

\* Threads that stop serving leave well-typed call variables.
LEMMA ReleasedType ==
  ASSUME CallsType, NEW T, Released(T)
  PROVE  CallsType'
BY BoundsAssumption DEF CallsType, Released, Phases

\* Entering a phase.
LEMMA GotoType ==
  ASSUME CallsType, NEW t \in Threads, NEW phase \in Phases, Goto(t, phase)
  PROVE  pc' \in [Threads -> Phases] /\ beat' \in [Threads -> 0 .. Latency]
BY BoundsAssumption DEF CallsType, Goto

\* Deleted runtime rows.
LEMMA RowsGoneType ==
  ASSUME TableType, NEW S, RowsGone(S)
  PROVE  rowPid' \in [Agents -> 0 .. MaxPid] /\ rowAge' \in [Agents -> 0 .. MaxAge + 1]
BY BoundsAssumption DEF TableType, RowsGone

\* An UPDATE of agents.status.
LEMMA StatusSetType ==
  ASSUME TableType, NEW a \in Agents, NEW s \in States
  PROVE  StatusSet(a, s) \in [Agents -> States]
BY DEF TableType, StatusSet

\* A refreshed heartbeat.
LEMMA RefreshedType ==
  ASSUME TableType, NEW a \in Agents
  PROVE  Refreshed(a) \in [Agents -> 0 .. MaxAge + 1]
BY BoundsAssumption DEF TableType, Refreshed

\* A kill signal.
LEMMA KillSentType ==
  ASSUME TableType, NEW a \in Agents
  PROVE  KillSent(a) \in [Agents -> 0 .. MaxKills]
BY BoundsAssumption DEF TableType, KillSent

\* An agent taken out of the table.
LEMMA RemovedType ==
  ASSUME TableType, abandoned \subseteq Agents, NEW a \in Agents, Removed(a)
  PROVE  TableType' /\ abandoned' \subseteq Agents
<1>1. status' \in [Agents -> States]
  BY DEF TableType, Removed, States
<1>2. kills' \in [Agents -> 0 .. MaxKills]
  BY BoundsAssumption DEF TableType, Removed
<1>3. rowPid' \in [Agents -> 0 .. MaxPid] /\ rowAge' \in [Agents -> 0 .. MaxAge + 1]
  BY RowsGoneType DEF Removed
<1> QED
  BY <1>1, <1>2, <1>3 DEF TableType, Removed

\* A sweep over a set of agents.
LEMMA SweepType ==
  ASSUME SupsType, NEW s \in Supervisors, NEW n \in 0 .. MaxPid, NEW rest \in SUBSET Agents,
         Sweep(s, n, rest)
  PROVE  SupsType'
BY BoundsAssumption DEF SupsType, Sweep

-----------------------------------------------------------------------------
(* Type correctness. *)

\* The type invariant and the agents of the calls are preserved by every step.
LEMMA TypeStep == TypeOK /\ CallsNamed /\ [Next]_vars => (TypeOK /\ CallsNamed)'
<1> DEFINE T == TableType /\ ProcsType /\ CallsType /\ SupsType /\ abandoned \subseteq Agents
           G == T /\ CallsNamed
<1> SUFFICES ASSUME G, [Next]_vars PROVE G'
  BY TypeSplit, PTL
<1> USE DEF table, procs, calls, sups
<1>1. ASSUME NEW a \in Agents, Create(a) PROVE G'
  BY <1>1 DEF Create, TableType, ProcsType, CallsType, SupsType, CallsNamed, States
<1>2. ASSUME NEW a \in Agents, SendKill(a) PROVE G'
  BY <1>2, KillSentType DEF SendKill, TableType, ProcsType, CallsType, SupsType, CallsNamed
<1>3. ASSUME NEW a \in Agents, Delete(a) PROVE G'
  BY <1>3, RemovedType DEF Delete, ProcsType, CallsType, SupsType, CallsNamed
<1>4. ASSUME NEW from \in Agents, NEW to \in Agents, Handoff(from, to) PROVE G'
  <2>1. TableType'
    BY <1>4, RowsGoneType, StatusSetType DEF Handoff, TableType, States
  <2> QED
    BY <1>4, <2>1 DEF Handoff, ProcsType, CallsType, SupsType, CallsNamed
<1>5. ASSUME NEW t \in Threads, NEW p \in Procs, NEW a \in Agents, NEW o \in Ops,
             Accept(t, p, a, o) PROVE CallsType' /\ CallsNamed'
  BY <1>5, BoundsAssumption DEF Accept, TableType, ProcsType, CallsType, CallsNamed, Phases
<1>6. ASSUME NEW t \in Threads, NEW p \in Procs, NEW a \in Agents, NEW o \in Ops,
             Call(t, p, a, o) \/ Spawn(t, p, a, o) PROVE G'
  <2>1. Accept(t, p, a, o) /\ status' \in [Agents -> States]
    BY <1>6 DEF Call, Spawn, TableType, States
  <2> QED
    BY <1>5, <2>1 DEF Accept, TableType, ProcsType, SupsType
<1>7. ASSUME NEW s \in Supervisors, NEW p \in Procs, NEW a \in Agents, Admit(s, p, a)
      PROVE G'
  <2>1. Candidates(a) \in SUBSET Agents
    BY SetsAssumption DEF Candidates
  <2>2. pid[p] \in 0 .. MaxPid
    BY DEF ProcsType
  <2>3. SupsType'
    BY <1>7, <2>1, <2>2, SweepType DEF Admit
  <2> QED
    BY <1>7, <2>3 DEF Admit, TableType, ProcsType, CallsType, CallsNamed
<1>8. ASSUME NEW t \in Threads, CallStep(t) PROVE G'
  <2> DEFINE a == agent[t]
  <2>0. a \in Agents
    BY <1>8 DEF CallStep, CallsNamed, Hydrate, HydrateFails, MarkRunning, StartWork, Beat,
       Finish, Abort, MarkIdle, Dehydrate, Discard, RaiseDehydrates, RaiseDeletes,
       RaiseAbandons, Escapes
  <2> HIDE DEF a
  <2>1. CASE Hydrate(t)
    <3>1. TableType'
      BY <2>0, <2>1, RefreshedType DEF Hydrate, TableType, CallsType, States, a
    <3>2. CallsType'
      BY <2>1, GotoType DEF Hydrate, CallsType, Phases, Holding
    <3> QED
      BY <2>0, <2>1, <3>1, <3>2 DEF Hydrate, Goto, ProcsType, SupsType, CallsNamed
  <2>2. CASE HydrateFails(t)
    BY <2>2, ReleasedType DEF HydrateFails, TableType, ProcsType, SupsType, CallsNamed, Released
  <2>3. CASE MarkRunning(t)
    <3>1. TableType'
      BY <2>0, <2>3, RefreshedType, StatusSetType DEF MarkRunning, TableType, States, a
    <3>2. CallsType'
      BY <2>3, GotoType DEF MarkRunning, CallsType, Phases, Holding
    <3> QED
      BY <2>3, <3>1, <3>2 DEF MarkRunning, Goto, ProcsType, SupsType, CallsNamed, CallsType
  <2>4. CASE StartWork(t)
    <3>1. TableType'
      BY <2>0, <2>4, RefreshedType DEF StartWork, TableType, a
    <3>2. CallsType'
      BY <2>4, GotoType DEF StartWork, CallsType, Phases, Holding
    <3> QED
      BY <2>4, <3>1, <3>2 DEF StartWork, Goto, ProcsType, SupsType, CallsNamed, CallsType
  <2>5. CASE Beat(t)
    BY <2>0, <2>5, RefreshedType, BoundsAssumption
       DEF Beat, TableType, ProcsType, CallsType, SupsType, CallsNamed, a
  <2>6. CASE Finish(t)
    BY <2>6 DEF Finish, TableType, ProcsType, CallsType, SupsType, CallsNamed, Phases, Holding
  <2>7. CASE Abort(t)
    <3>1. TableType'
      BY <2>0, <2>7, BoundsAssumption DEF Abort, TableType, a
    <3> QED
      BY <2>7, <3>1 DEF Abort, ProcsType, CallsType, SupsType, CallsNamed, Phases, Holding
  <2>8. CASE MarkIdle(t)
    <3>1. TableType'
      BY <2>0, <2>8, RefreshedType, StatusSetType DEF MarkIdle, TableType, States, a
    <3>2. CallsType'
      BY <2>8, GotoType DEF MarkIdle, CallsType, Phases, Holding
    <3> QED
      BY <2>8, <3>1, <3>2 DEF MarkIdle, Goto, ProcsType, SupsType, CallsNamed, CallsType
  <2>9. CASE Dehydrate(t) \/ RaiseDehydrates(t)
    <3>1. TableType'
      BY <2>0, <2>9, RowsGoneType, StatusSetType
         DEF Dehydrate, RaiseDehydrates, TableType, States, a
    <3>2. CallsType'
      BY <2>9, ReleasedType DEF Dehydrate, RaiseDehydrates
    <3> QED
      BY <2>9, <3>1, <3>2
         DEF Dehydrate, RaiseDehydrates, Released, ProcsType, SupsType, CallsNamed
  <2>10. CASE Discard(t) \/ RaiseDeletes(t)
    <3>1. TableType' /\ (abandoned \subseteq Agents)'
      BY <2>0, <2>10, RemovedType DEF Discard, RaiseDeletes, a
    <3>2. CallsType'
      BY <2>10, ReleasedType DEF Discard, RaiseDeletes
    <3> QED
      BY <2>10, <3>1, <3>2
         DEF Discard, RaiseDeletes, Released, ProcsType, SupsType, CallsNamed
  <2>11. CASE RaiseAbandons(t)
    BY <2>0, <2>11, ReleasedType
       DEF RaiseAbandons, Released, TableType, ProcsType, SupsType, CallsNamed, a
  <2> QED
    BY <1>8, <2>1, <2>2, <2>3, <2>4, <2>5, <2>6, <2>7, <2>8, <2>9, <2>10, <2>11 DEF CallStep
<1>9. ASSUME NEW p \in Procs, Died(p)
      PROVE  /\ CallsType' /\ CallsNamed' /\ (abandoned \subseteq Agents)'
             /\ pid' \in [Procs -> 0 .. MaxPid]
  BY <1>9, ReleasedType, BoundsAssumption
     DEF Died, LeftBehind, Released, ProcsType, CallsType, CallsNamed
<1>10. ASSUME NEW p \in Procs, ProcStep(p) PROVE G'
  <2>1. CASE TickScan(p)
    <3>1. p \in Supervisors /\ pid[p] \in 0 .. MaxPid /\ Zombies \in SUBSET Agents
      BY <2>1 DEF TickScan, Supervisors, Zombies, ProcsType
    <3>2. SupsType'
      BY <2>1, <3>1, SweepType DEF TickScan
    <3> QED
      BY <2>1, <3>2 DEF TickScan, TableType, ProcsType, CallsType, CallsNamed
  <2>2. CASE Start(p)
    <3>1. pid' \in [Procs -> 0 .. MaxPid] /\ nextPid' \in 1 .. MaxPid + 1
      BY <2>2, BoundsAssumption DEF Start, ProcsType
    <3>2. TableType' /\ (abandoned \subseteq Agents)'
      <4>1. PICK cleaned :
              /\ status' = [a \in Agents |-> IF a \in cleaned THEN "STOPPED" ELSE status[a]]
              /\ RowsGone(cleaned)
              /\ abandoned' = abandoned \ cleaned
        BY <2>2 DEF Start
      <4>2. status' \in [Agents -> States]
        BY <4>1 DEF TableType, States
      <4> QED
        BY <2>2, <4>1, <4>2, RowsGoneType DEF Start, TableType
    <3> QED
      BY <2>2, <3>1, <3>2 DEF Start, ProcsType, CallsType, SupsType, CallsNamed
  <2>3. CASE Crash(p)
    <3>1. SupsType'
      BY <2>3, BoundsAssumption DEF Crash, SupsType
    <3> QED
      BY <1>9, <2>3, <3>1 DEF Crash, TableType, ProcsType
  <2> QED
    BY <1>10, <2>1, <2>2, <2>3 DEF ProcStep
<1>11. ASSUME NEW s \in Supervisors, KillStep(s) PROVE G'
  <2>1. ASSUME NEW a \in Agents, KillSkips(s, a) PROVE G'
    <3>1. SupsType'
      BY <2>1, SweepType DEF KillSkips, SupsType
    <3> QED
      BY <2>1, <3>1 DEF KillSkips, TableType, ProcsType, CallsType, CallsNamed
  <2>2. ASSUME NEW a \in Agents, Aim(s, a), UNCHANGED supHost PROVE SupsType'
    BY <2>2 DEF Aim, SupsType
  <2>3. ASSUME NEW a \in Agents, KillInline(s, a) PROVE G'
    <3>1. TableType'
      BY <2>3, KillSentType DEF KillInline, TableType
    <3> QED
      BY <2>2, <2>3, <3>1 DEF KillInline, ProcsType, CallsType, CallsNamed
  <2>4. ASSUME NEW a \in Agents, KillGone(s, a) PROVE G'
    BY <2>2, <2>4 DEF KillGone, TableType, ProcsType, CallsType, CallsNamed
  <2>5. ASSUME NEW a \in Agents, NEW p \in Procs, KillProcess(s, a, p) PROVE G'
    <3>1. SupsType'
      BY <2>5, BoundsAssumption DEF KillProcess, SupsType
    <3> QED
      BY <1>9, <2>5, <3>1 DEF KillProcess, TableType, ProcsType
  <2>6. CASE Evict(s)
    <3>1. SupsType'
      <4>1. supHost[s] \in 0 .. MaxPid /\ todo[s] \in SUBSET Agents /\ {} \in SUBSET Agents
        BY DEF SupsType
      <4> QED
        BY <2>6, <4>1, SweepType DEF Evict
    <3>2. status' \in [Agents -> States]
      BY <2>6 DEF Evict, StatusSet, TableType, States
    <3>3. TableType'
      BY <2>6, <3>2, RowsGoneType DEF Evict, TableType
    <3> QED
      BY <2>6, <3>1, <3>3 DEF Evict, ProcsType, CallsType, CallsNamed
  <2> QED
    BY <1>11, <2>1, <2>3, <2>4, <2>5, <2>6 DEF KillStep
<1>12. CASE TimePasses
  <2>1. rowAge' \in [Agents -> 0 .. MaxAge + 1]
    BY <1>12, BoundsAssumption DEF TimePasses, TableType
  <2>2. beat' \in [Threads -> 0 .. Latency]
    BY <1>12, BoundsAssumption DEF TimePasses, CallsType
  <2> QED
    BY <1>12, <2>1, <2>2 DEF TimePasses, TableType, ProcsType, CallsType, SupsType, CallsNamed
<1>13. CASE UNCHANGED vars
  BY <1>13 DEF vars, TableType, ProcsType, CallsType, SupsType, CallsNamed
<1> QED
  BY <1>1, <1>2, <1>3, <1>4, <1>6, <1>7, <1>8, <1>10, <1>11, <1>12, <1>13
     DEF Next, Request, ProcStep

\* The initial states are well typed.
LEMMA TypeInit == Init => TypeOK /\ CallsNamed
BY SetsAssumption, BoundsAssumption DEF Init, TypeOK, CallsNamed, States, Phases

\* Every variable keeps its type: agents.status one of the values the schema
\* admits, ages, pids and pending kills within their bounds.
THEOREM TypeCorrect == Spec => [](TypeOK /\ CallsNamed)
<1>1. Init => TypeOK /\ CallsNamed
  BY TypeInit
<1>2. TypeOK /\ CallsNamed /\ [Next]_vars => (TypeOK /\ CallsNamed)'
  BY TypeStep
<1> QED
  BY <1>1, <1>2, PTL DEF Spec

-----------------------------------------------------------------------------
(* Rows and statuses. *)

\* No step leaves a runtime row whose agent is not supervised: the writers of
\* agents.status that make an agent sleep delete its row in the same commit.
LEMMA RowStep ==
  TypeOK /\ CallsNamed /\ RowSupervised /\ [Next]_vars => RowSupervised'
<1> SUFFICES ASSUME TypeOK, CallsNamed, RowSupervised, [Next]_vars, NEW b \in Agents,
                    rowPid'[b] # 0
             PROVE  status'[b] \in {"RUNNING", "IDLE"}
  BY DEF RowSupervised, Supervised, HasRow
<1> DEFINE Goal == status'[b] \in {"RUNNING", "IDLE"}
<1> USE DEF table, procs, calls, sups
<1>1. /\ status \in [Agents -> States] /\ rowPid \in [Agents -> 0 .. MaxPid]
      /\ rowPid[b] # 0 => status[b] \in {"RUNNING", "IDLE"}
  BY DEF TypeOK, RowSupervised, Supervised, HasRow
<1>2. ASSUME UNCHANGED <<status, rowPid>> PROVE Goal
  BY <1>1, <1>2
<1>3. ASSUME NEW a \in Agents, Removed(a) PROVE Goal
  BY <1>1, <1>3 DEF Removed, RowsGone
<1>4. ASSUME NEW a \in Agents, RowsGone({a}), status' = StatusSet(a, "INIT")
                                           \/ status' = StatusSet(a, "STOPPED")
      PROVE  Goal
  BY <1>1, <1>4 DEF RowsGone, StatusSet
<1>5. ASSUME NEW a \in Agents, NEW s \in {"RUNNING", "IDLE"}, status' = StatusSet(a, s),
             UNCHANGED rowPid
      PROVE  Goal
  BY <1>1, <1>5 DEF StatusSet, InTable
<1>6. ASSUME NEW a \in Agents, status[a] = "UNBORN", UNCHANGED rowPid,
             status' = [status EXCEPT ![a] = "INIT"]
      PROVE  Goal
  BY <1>1, <1>6
<1>7. CASE Request
  <2>1. ASSUME NEW a \in Agents, Create(a) \/ SendKill(a) \/ Delete(a) PROVE Goal
    BY <1>2, <1>3, <1>6, <2>1 DEF Create, SendKill, Delete
  <2>2. ASSUME NEW from \in Agents, NEW to \in Agents, Handoff(from, to) PROVE Goal
    BY <1>4, <2>2 DEF Handoff
  <2>3. ASSUME NEW t \in Threads, NEW p \in Procs, NEW a \in Agents, NEW o \in Ops,
               Call(t, p, a, o) \/ Spawn(t, p, a, o) PROVE Goal
    BY <1>2, <1>6, <2>3 DEF Call, Spawn, Accept
  <2>4. ASSUME NEW s \in Supervisors, NEW p \in Procs, NEW a \in Agents, Admit(s, p, a)
        PROVE Goal
    BY <1>2, <2>4 DEF Admit
  <2> QED
    BY <1>7, <2>1, <2>2, <2>3, <2>4 DEF Request
<1>8. ASSUME NEW t \in Threads, CallStep(t) PROVE Goal
  <2>1. pc[t] # "free" => agent[t] \in Agents
    BY DEF CallsNamed
  <2>2. CASE Hydrate(t)
    BY <1>1, <2>1, <2>2 DEF Hydrate
  <2>3. CASE MarkRunning(t) \/ MarkIdle(t)
    BY <1>5, <2>1, <2>3 DEF MarkRunning, MarkIdle
  <2>4. CASE Dehydrate(t) \/ RaiseDehydrates(t)
    BY <1>4, <2>1, <2>4 DEF Dehydrate, RaiseDehydrates, Escapes
  <2>5. CASE Discard(t) \/ RaiseDeletes(t)
    BY <1>3, <2>1, <2>5 DEF Discard, RaiseDeletes, Escapes
  <2>6. CASE HydrateFails(t) \/ StartWork(t) \/ Beat(t) \/ Finish(t) \/ Abort(t)
             \/ RaiseAbandons(t)
    BY <1>2, <2>6 DEF HydrateFails, StartWork, Beat, Finish, Abort, RaiseAbandons
  <2> QED
    BY <1>8, <2>2, <2>3, <2>4, <2>5, <2>6 DEF CallStep
<1>9. ASSUME NEW p \in Procs, ProcStep(p) PROVE Goal
  <2>1. CASE Start(p)
    BY <1>1, <2>1 DEF Start, RowsGone
  <2>2. CASE TickScan(p) \/ Crash(p)
    BY <1>2, <2>2 DEF TickScan, Crash
  <2> QED
    BY <1>9, <2>1, <2>2 DEF ProcStep
<1>10. ASSUME NEW s \in Supervisors, KillStep(s) PROVE Goal
  <2>1. CASE Evict(s)
    BY <1>1, <2>1 DEF Evict, RowsGone, StatusSet
  <2>2. CASE ~Evict(s)
    BY <1>2, <1>10, <2>2 DEF KillStep, KillSkips, KillInline, KillGone, KillProcess
  <2> QED
    BY <2>1, <2>2
<1>11. CASE TimePasses \/ UNCHANGED vars
  BY <1>2, <1>11 DEF TimePasses, vars
<1> QED
  BY <1>7, <1>8, <1>9, <1>10, <1>11 DEF Next, ProcStep

\* Every runtime row belongs to an agent that the supervision looks at, however
\* many calls, sweeps and processes there are.
THEOREM RowsAreSupervised == Spec => []RowSupervised
<1>1. Init => RowSupervised
  BY DEF Init, RowSupervised, HasRow
<1> QED
  BY <1>1, RowStep, TypeCorrect, PTL DEF Spec

-----------------------------------------------------------------------------
(* Heartbeats. *)

\* The row of an agent stays as fresh as the last heartbeat of each of its calls.
LEMMA FreshStep ==
  TypeOK /\ CallsNamed /\ FreshWhileHeld /\ [Next]_vars => FreshWhileHeld'
<1> SUFFICES ASSUME TypeOK, CallsNamed, FreshWhileHeld, [Next]_vars,
                    NEW u \in Threads, NEW b \in Agents,
                    agent'[u] = b, pc'[u] \in Holding, rowPid'[b] # 0
             PROVE  rowAge'[b] <= beat'[u]
  BY DEF FreshWhileHeld, Holds, HasRow
<1> DEFINE Goal == rowAge'[b] <= beat'[u]
<1> USE DEF table, procs, calls, sups
<1>1. /\ rowAge \in [Agents -> 0 .. MaxAge + 1] /\ rowPid \in [Agents -> 0 .. MaxPid]
      /\ pc \in [Threads -> Phases] /\ agent \in [Threads -> Agents \cup {NoAgent}]
      /\ beat \in [Threads -> 0 .. Latency]
      /\ agent[u] = b /\ pc[u] \in Holding /\ rowPid[b] # 0 => rowAge[b] <= beat[u]
  BY DEF TypeOK, FreshWhileHeld, Holds, HasRow
<1>2. ASSUME UNCHANGED <<rowPid, rowAge, pc, agent, beat>> PROVE Goal
  BY <1>1, <1>2
<1>3. ASSUME NEW S, RowsGone(S), UNCHANGED <<pc, agent, beat>> PROVE Goal
  BY <1>1, <1>3 DEF RowsGone
<1>4. ASSUME NEW T, Released(T), \/ UNCHANGED <<rowPid, rowAge>>
                               \/ \E S : RowsGone(S)
      PROVE  Goal
  BY <1>1, <1>4 DEF Released, RowsGone, Holding
<1>5. ASSUME NEW t \in Threads, agent[t] \in Agents, rowAge' = Refreshed(agent[t]),
             UNCHANGED agent,
             \/ UNCHANGED rowPid
             \/ \E n : rowPid' = [rowPid EXCEPT ![agent[t]] = n],
             \/ \E phase : Goto(t, phase)
             \/ beat' = [beat EXCEPT ![t] = 0] /\ UNCHANGED pc
      PROVE  Goal
  <2>1. CASE agent[t] = b
    BY <1>1, <1>5, <2>1 DEF Refreshed, Goto
  <2>2. CASE agent[t] # b
    BY <1>1, <1>5, <2>2 DEF Refreshed, Goto
  <2> QED
    BY <2>1, <2>2
<1>6. CASE Request
  <2>1. ASSUME NEW a \in Agents, Create(a) \/ SendKill(a) \/ Delete(a) PROVE Goal
    BY <1>2, <1>3, <2>1 DEF Create, SendKill, Delete, Removed
  <2>2. ASSUME NEW from \in Agents, NEW to \in Agents, Handoff(from, to) PROVE Goal
    BY <1>3, <2>2 DEF Handoff
  <2>3. ASSUME NEW t \in Threads, NEW p \in Procs, NEW a \in Agents, NEW o \in Ops,
               Call(t, p, a, o) \/ Spawn(t, p, a, o) PROVE Goal
    BY <1>1, <2>3 DEF Call, Spawn, Accept, Holding
  <2>4. ASSUME NEW s \in Supervisors, NEW p \in Procs, NEW a \in Agents, Admit(s, p, a)
        PROVE Goal
    BY <1>2, <2>4 DEF Admit
  <2> QED
    BY <1>6, <2>1, <2>2, <2>3, <2>4 DEF Request
<1>7. ASSUME NEW t \in Threads, CallStep(t) PROVE Goal
  <2>1. pc[t] # "free" => agent[t] \in Agents
    BY DEF CallsNamed
  <2>2. CASE Hydrate(t) \/ MarkRunning(t) \/ StartWork(t) \/ Beat(t) \/ MarkIdle(t)
    BY <1>5, <2>1, <2>2 DEF Hydrate, MarkRunning, StartWork, Beat, MarkIdle
  <2>3. CASE HydrateFails(t) \/ RaiseAbandons(t)
    BY <1>4, <2>3 DEF HydrateFails, RaiseAbandons
  <2>4. CASE Dehydrate(t) \/ RaiseDehydrates(t) \/ Discard(t) \/ RaiseDeletes(t)
    BY <1>4, <2>4 DEF Dehydrate, RaiseDehydrates, Discard, RaiseDeletes, Removed
  <2>5. CASE Finish(t) \/ Abort(t)
    BY <1>1, <2>5 DEF Finish, Abort, Holding
  <2> QED
    BY <1>7, <2>2, <2>3, <2>4, <2>5 DEF CallStep
<1>8. ASSUME NEW p \in Procs, ProcStep(p) PROVE Goal
  <2>1. CASE Start(p)
    BY <1>3, <2>1 DEF Start
  <2>2. CASE TickScan(p)
    BY <1>2, <2>2 DEF TickScan
  <2>3. CASE Crash(p)
    BY <1>4, <2>3 DEF Crash, Died
  <2> QED
    BY <1>8, <2>1, <2>2, <2>3 DEF ProcStep
<1>9. ASSUME NEW s \in Supervisors, KillStep(s) PROVE Goal
  <2>1. CASE Evict(s)
    BY <1>3, <2>1 DEF Evict
  <2>2. ASSUME NEW a \in Agents, NEW p \in Procs, KillProcess(s, a, p) PROVE Goal
    BY <1>4, <2>2 DEF KillProcess, Died
  <2>3. ASSUME NEW a \in Agents, KillSkips(s, a) \/ KillInline(s, a) \/ KillGone(s, a)
        PROVE Goal
    BY <1>2, <2>3 DEF KillSkips, KillInline, KillGone
  <2> QED
    BY <1>9, <2>1, <2>2, <2>3 DEF KillStep
<1>10. CASE TimePasses
  BY <1>1, <1>10 DEF TimePasses, HasRow
<1>11. CASE UNCHANGED vars
  BY <1>2, <1>11 DEF vars
<1> QED
  BY <1>6, <1>7, <1>8, <1>9, <1>10, <1>11 DEF Next, ProcStep

\* check_heartbeats never finds an agent that a live call holds, for every
\* latency below the age it accepts.
THEOREM LiveCallsAreFresh == Spec => []NoLiveZombie
<1>1. Init => FreshWhileHeld
  BY DEF Init, FreshWhileHeld, HasRow
<1>2. TypeOK /\ FreshWhileHeld => NoLiveZombie
  <2> SUFFICES ASSUME TypeOK, FreshWhileHeld, NEW a \in Zombies, NEW t \in Threads, Holds(t, a)
               PROVE  FALSE
    BY DEF NoLiveZombie, Held
  <2>1. a \in Agents /\ HasRow(a) /\ rowAge[a] > MaxAge
    BY DEF Zombies, Supervised
  <2>2. rowAge[a] <= beat[t]
    BY <2>1 DEF FreshWhileHeld
  <2>3. rowAge[a] \in Int /\ beat[t] \in 0 .. Latency
    BY <2>1 DEF TypeOK
  <2> QED
    BY <2>1, <2>2, <2>3, BoundsAssumption
<1> QED
  BY <1>1, <1>2, FreshStep, TypeCorrect, PTL DEF Spec

-----------------------------------------------------------------------------
(* Who owns a row, and what the last call leaves behind. *)

\* What the steps do to the calls that hold an agent, as seen from agent b.
CallsKept(b)  == \A t \in Threads : Holds(t, b) => Holds(t, b)' /\ host'[t] = host[t]
HeldKept(b)   == Held(b) => Held(b)'

\* A call that ends only releases the agent it holds.
LEMMA ReleasedKeeps ==
  ASSUME NEW t \in Threads, NEW b \in Agents, pc \in [Threads -> Phases], Released({t})
  PROVE  agent[t] # b \/ pc[t] \notin Holding => CallsKept(b) /\ HeldKept(b)
BY DEF CallsKept, HeldKept, Held, Holds, Released, Holding

\* A process that disappears leaves abandoned what its calls held.
LEMMA DiedKeeps ==
  ASSUME NEW p \in Procs, NEW b \in Agents, pc \in [Threads -> Phases], Died(p), InTable(b)
  PROVE  b \in abandoned' \/ (CallsKept(b) /\ HeldKept(b) /\ b \notin abandoned)
BY DEF CallsKept, HeldKept, Held, Holds, Died, Released, LeftBehind, ThreadsOf, Holding

\* The pid of a runtime row stays that of a call on its agent, or the agent is
\* counted as abandoned.
LEMMA OwnedStep ==
  TypeOK /\ CallsNamed /\ RowSupervised /\ RowsOwned /\ [Next]_vars => RowsOwned'
<1> SUFFICES ASSUME TypeOK, CallsNamed, RowSupervised, RowsOwned, [Next]_vars,
                    NEW b \in Agents, rowPid'[b] # 0, b \notin abandoned'
             PROVE  \E t \in Threads : Holds(t, b)' /\ host'[t] = rowPid'[b]
  BY DEF RowsOwned, HasRow
<1> DEFINE Goal == \E t \in Threads : Holds(t, b)' /\ host'[t] = rowPid'[b]
<1> USE DEF table, procs, calls, sups
<1>1. /\ rowPid \in [Agents -> 0 .. MaxPid] /\ pc \in [Threads -> Phases]
      /\ agent \in [Threads -> Agents \cup {NoAgent}] /\ host \in [Threads -> 0 .. MaxPid]
      /\ rowPid[b] # 0 => InTable(b)
      /\ rowPid[b] # 0 /\ b \notin abandoned =>
           \E t \in Threads : Holds(t, b) /\ host[t] = rowPid[b]
  BY DEF TypeOK, RowsOwned, RowSupervised, Supervised, HasRow, InTable
<1>2. ASSUME CallsKept(b), rowPid'[b] = rowPid[b], b \notin abandoned PROVE Goal
  BY <1>1, <1>2 DEF CallsKept
<1>3. ASSUME UNCHANGED <<pc, agent, host>> PROVE CallsKept(b)
  BY <1>3 DEF CallsKept, Holds
<1>4. ASSUME NEW S, RowsGone(S) PROVE b \notin S /\ rowPid'[b] = rowPid[b]
  BY <1>4 DEF RowsGone
<1>5. CASE Request
  <2>1. ASSUME NEW a \in Agents, Create(a) \/ SendKill(a) \/ Delete(a) PROVE Goal
    BY <1>2, <1>3, <1>4, <2>1 DEF Create, SendKill, Delete, Removed
  <2>2. ASSUME NEW from \in Agents, NEW to \in Agents, Handoff(from, to) PROVE Goal
    BY <1>2, <1>3, <1>4, <2>2 DEF Handoff
  <2>3. ASSUME NEW t \in Threads, NEW p \in Procs, NEW a \in Agents, NEW o \in Ops,
               Call(t, p, a, o) \/ Spawn(t, p, a, o) PROVE Goal
    <3>1. Accept(t, p, a, o)
      BY <2>3 DEF Call, Spawn
    <3>2. CallsKept(b)
      BY <1>1, <3>1 DEF Accept, CallsKept, Holds, Holding
    <3> QED
      BY <1>2, <3>1, <3>2 DEF Accept
  <2>4. ASSUME NEW s \in Supervisors, NEW p \in Procs, NEW a \in Agents, Admit(s, p, a)
        PROVE Goal
    BY <1>2, <1>3, <2>4 DEF Admit
  <2> QED
    BY <1>5, <2>1, <2>2, <2>3, <2>4 DEF Request
<1>6. ASSUME NEW t \in Threads, CallStep(t) PROVE Goal
  <2>1. pc[t] # "free" => agent[t] \in Agents
    BY DEF CallsNamed
  <2>2. CASE Hydrate(t)
    <3>1. CASE agent[t] = b
      BY <1>1, <2>2, <3>1 DEF Hydrate, Goto, Holds, Holding
    <3>2. CASE agent[t] # b
      <4>1. CallsKept(b)
        BY <1>1, <2>2, <3>2 DEF Hydrate, Goto, CallsKept, Holds
      <4> QED
        BY <1>1, <1>2, <2>2, <3>2, <4>1 DEF Hydrate
    <3> QED
      BY <3>1, <3>2
  <2>3. CASE MarkRunning(t) \/ StartWork(t) \/ Beat(t) \/ Finish(t) \/ Abort(t) \/ MarkIdle(t)
    <3>1. CallsKept(b)
      BY <1>1, <2>3 DEF MarkRunning, StartWork, Beat, Finish, Abort, MarkIdle, Goto, CallsKept,
         Holds, Holding
    <3> QED
      BY <1>2, <2>3, <3>1 DEF MarkRunning, StartWork, Beat, Finish, Abort, MarkIdle
  <2>4. CASE HydrateFails(t)
    BY <1>1, <1>2, <2>4, ReleasedKeeps DEF HydrateFails, Holding
  <2>5. CASE Dehydrate(t) \/ RaiseDehydrates(t) \/ Discard(t) \/ RaiseDeletes(t)
    <3>1. /\ RowsGone({agent[t]}) /\ Released({t}) /\ abandoned' = abandoned \ {agent[t]}
      BY <2>5 DEF Dehydrate, RaiseDehydrates, Discard, RaiseDeletes, Removed
    <3> QED
      BY <1>1, <1>2, <1>4, <3>1, ReleasedKeeps
  <2>6. CASE RaiseAbandons(t)
    <3>1. Released({t}) /\ UNCHANGED rowPid
      BY <2>6 DEF RaiseAbandons
    <3>2. agent[t] # b /\ b \notin abandoned
      BY <1>1, <2>6 DEF RaiseAbandons
    <3> QED
      BY <1>1, <1>2, <3>1, <3>2, ReleasedKeeps
  <2> QED
    BY <1>6, <2>2, <2>3, <2>4, <2>5, <2>6 DEF CallStep
<1>7. ASSUME NEW p \in Procs, Died(p), UNCHANGED rowPid PROVE Goal
  BY <1>1, <1>2, <1>7, DiedKeeps
<1>8. ASSUME NEW p \in Procs, ProcStep(p) PROVE Goal
  <2>1. CASE Start(p)
    BY <1>2, <1>3, <1>4, <2>1 DEF Start
  <2>2. CASE TickScan(p)
    BY <1>2, <1>3, <2>2 DEF TickScan
  <2>3. CASE Crash(p)
    BY <1>7, <2>3 DEF Crash
  <2> QED
    BY <1>8, <2>1, <2>2, <2>3 DEF ProcStep
<1>9. ASSUME NEW s \in Supervisors, KillStep(s) PROVE Goal
  <2>1. CASE Evict(s)
    BY <1>2, <1>3, <1>4, <2>1 DEF Evict
  <2>2. ASSUME NEW a \in Agents, NEW p \in Procs, KillProcess(s, a, p) PROVE Goal
    BY <1>7, <2>2 DEF KillProcess
  <2>3. ASSUME NEW a \in Agents, KillSkips(s, a) \/ KillInline(s, a) \/ KillGone(s, a)
        PROVE Goal
    BY <1>2, <1>3, <2>3 DEF KillSkips, KillInline, KillGone
  <2> QED
    BY <1>9, <2>1, <2>2, <2>3 DEF KillStep
<1>10. CASE TimePasses \/ UNCHANGED vars
  BY <1>2, <1>3, <1>10 DEF TimePasses, vars
<1> QED
  BY <1>5, <1>6, <1>8, <1>9, <1>10 DEF Next, ProcStep

\* The pid that `kill` signals is that of a call still on the agent, unless a
\* call on it was cut short.
THEOREM RowsAreOwned == Spec => []RowsOwned
<1>1. Init => RowsOwned
  BY DEF Init, RowsOwned, HasRow
<1> QED
  BY <1>1, OwnedStep, RowsAreSupervised, TypeCorrect, PTL DEF Spec

\* Once no call holds an agent and none was cut short, the agent sleeps.
LEMMA SettledStep ==
  /\ TypeOK /\ CallsNamed /\ Settled /\ [Next]_vars
  /\ RowsOwned'
  => Settled'
<1> SUFFICES ASSUME TypeOK, CallsNamed, Settled, [Next]_vars, RowsOwned',
                    NEW b \in Agents, InTable(b)', ~Held(b)', b \notin abandoned'
             PROVE  status'[b] \in {"INIT", "STOPPED"}
  BY DEF Settled, RowsOwned, Held, HasRow
<1> DEFINE Goal == status'[b] \in {"INIT", "STOPPED"}
<1> USE DEF table, procs, calls, sups
<1>1. /\ status \in [Agents -> States] /\ pc \in [Threads -> Phases]
      /\ agent \in [Threads -> Agents \cup {NoAgent}]
      /\ InTable(b) /\ ~Held(b) /\ b \notin abandoned => status[b] \in {"INIT", "STOPPED"}
      /\ status'[b] \notin {"UNBORN", "DELETED"}
  BY DEF TypeOK, Settled, InTable
<1>2. ASSUME status'[b] = status[b], HeldKept(b), b \notin abandoned PROVE Goal
  BY <1>1, <1>2 DEF InTable, HeldKept
<1>3. ASSUME UNCHANGED <<pc, agent>> PROVE HeldKept(b)
  BY <1>3 DEF HeldKept, Held, Holds
<1>4. ASSUME NEW a \in Agents, Removed(a)
      PROVE  a # b /\ status'[b] = status[b] /\ b \notin abandoned
  BY <1>1, <1>4 DEF Removed, InTable
<1>5. ASSUME NEW a \in Agents, NEW s \in {"INIT", "STOPPED"}, status' = StatusSet(a, s),
             a # b => HeldKept(b) /\ b \notin abandoned
      PROVE  Goal
  BY <1>1, <1>2, <1>5 DEF StatusSet, InTable
<1>6. CASE Request
  <2>1. ASSUME NEW a \in Agents, Create(a) \/ SendKill(a) PROVE Goal
    BY <1>1, <1>2, <1>3, <2>1 DEF Create, SendKill
  <2>2. ASSUME NEW a \in Agents, Delete(a) PROVE Goal
    BY <1>2, <1>3, <1>4, <2>2 DEF Delete
  <2>3. ASSUME NEW from \in Agents, NEW to \in Agents, Handoff(from, to) PROVE Goal
    BY <1>3, <1>5, <2>3 DEF Handoff
  <2>4. ASSUME NEW t \in Threads, NEW p \in Procs, NEW a \in Agents, NEW o \in Ops,
               Call(t, p, a, o) \/ Spawn(t, p, a, o) PROVE Goal
    <3>1. Accept(t, p, a, o) /\ (status' = status \/ status' = [status EXCEPT ![a] = "INIT"])
      BY <2>4 DEF Call, Spawn
    <3>2. HeldKept(b)
      BY <1>1, <3>1 DEF Accept, HeldKept, Held, Holds, Holding
    <3> QED
      BY <1>1, <1>2, <3>1, <3>2 DEF Accept
  <2>5. ASSUME NEW s \in Supervisors, NEW p \in Procs, NEW a \in Agents, Admit(s, p, a)
        PROVE Goal
    BY <1>2, <1>3, <2>5 DEF Admit
  <2> QED
    BY <1>6, <2>1, <2>2, <2>3, <2>4, <2>5 DEF Request
<1>7. ASSUME NEW t \in Threads, CallStep(t) PROVE Goal
  <2>1. pc[t] # "free" => agent[t] \in Agents
    BY DEF CallsNamed
  <2>2. CASE Hydrate(t) \/ MarkRunning(t) \/ MarkIdle(t)
    <3>1. agent[t] # b
      BY <1>1, <2>2 DEF Hydrate, MarkRunning, MarkIdle, Goto, Held, Holds, Holding
    <3>2. HeldKept(b)
      BY <1>1, <2>2, <3>1 DEF Hydrate, MarkRunning, MarkIdle, Goto, HeldKept, Held, Holds
    <3>3. status'[b] = status[b] /\ b \notin abandoned
      BY <1>1, <2>1, <2>2, <3>1 DEF Hydrate, MarkRunning, MarkIdle, StatusSet
    <3> QED
      BY <1>2, <3>2, <3>3
  <2>3. CASE StartWork(t) \/ Beat(t) \/ Finish(t) \/ Abort(t)
    <3>1. HeldKept(b)
      BY <1>1, <2>3 DEF StartWork, Beat, Finish, Abort, Goto, HeldKept, Held, Holds, Holding
    <3> QED
      BY <1>2, <2>3, <3>1 DEF StartWork, Beat, Finish, Abort
  <2>4. CASE HydrateFails(t)
    BY <1>1, <1>2, <2>4, ReleasedKeeps DEF HydrateFails, Holding
  <2>5. CASE Dehydrate(t) \/ RaiseDehydrates(t)
    <3>1. /\ status' = StatusSet(agent[t], "INIT") /\ Released({t})
          /\ abandoned' = abandoned \ {agent[t]} /\ agent[t] \in Agents
      BY <2>1, <2>5 DEF Dehydrate, RaiseDehydrates, Escapes
    <3> QED
      BY <1>1, <1>5, <3>1, ReleasedKeeps
  <2>6. CASE Discard(t) \/ RaiseDeletes(t)
    <3>1. Removed(agent[t]) /\ Released({t}) /\ agent[t] \in Agents
      BY <2>1, <2>6 DEF Discard, RaiseDeletes, Escapes
    <3> QED
      BY <1>1, <1>2, <1>4, <3>1, ReleasedKeeps
  <2>7. CASE RaiseAbandons(t)
    <3>1. Released({t}) /\ UNCHANGED status
      BY <2>7 DEF RaiseAbandons
    <3>2. agent[t] # b /\ b \notin abandoned
      BY <1>1, <2>7 DEF RaiseAbandons, InTable
    <3> QED
      BY <1>1, <1>2, <3>1, <3>2, ReleasedKeeps
  <2> QED
    BY <1>7, <2>2, <2>3, <2>4, <2>5, <2>6, <2>7 DEF CallStep
<1>8. ASSUME NEW p \in Procs, Died(p), UNCHANGED status PROVE Goal
  <2>1. InTable(b)
    BY <1>1, <1>8 DEF InTable
  <2> QED
    BY <1>1, <1>2, <1>8, <2>1, DiedKeeps
<1>9. ASSUME NEW p \in Procs, ProcStep(p) PROVE Goal
  <2>1. CASE Start(p)
    <3>1. PICK cleaned :
            /\ status' = [a \in Agents |-> IF a \in cleaned THEN "STOPPED" ELSE status[a]]
            /\ abandoned' = abandoned \ cleaned
      BY <2>1 DEF Start
    <3> QED
      BY <1>2, <1>3, <2>1, <3>1 DEF Start
  <2>2. CASE TickScan(p)
    BY <1>2, <1>3, <2>2 DEF TickScan
  <2>3. CASE Crash(p)
    BY <1>8, <2>3 DEF Crash
  <2> QED
    BY <1>9, <2>1, <2>2, <2>3 DEF ProcStep
<1>10. ASSUME NEW s \in Supervisors, KillStep(s) PROVE Goal
  <2>1. CASE Evict(s)
    <3>1. /\ status' = StatusSet(victim[s], "STOPPED") /\ abandoned' = abandoned \ {victim[s]}
          /\ UNCHANGED <<pc, agent>>
      BY <2>1 DEF Evict
    <3> QED
      BY <1>1, <1>2, <1>3, <3>1 DEF StatusSet, InTable
  <2>2. ASSUME NEW a \in Agents, NEW p \in Procs, KillProcess(s, a, p) PROVE Goal
    BY <1>8, <2>2 DEF KillProcess
  <2>3. ASSUME NEW a \in Agents, KillSkips(s, a) \/ KillInline(s, a) \/ KillGone(s, a)
        PROVE Goal
    BY <1>2, <1>3, <2>3 DEF KillSkips, KillInline, KillGone
  <2> QED
    BY <1>10, <2>1, <2>2, <2>3 DEF KillStep
<1>11. CASE TimePasses \/ UNCHANGED vars
  BY <1>2, <1>3, <1>11 DEF TimePasses, vars
<1> QED
  BY <1>6, <1>7, <1>9, <1>10, <1>11 DEF Next, ProcStep

\* Whatever calls, kills, hand-offs and evictions interleave, an agent that no
\* call holds is asleep unless a call on it was cut short.
THEOREM AgentsSettle == Spec => []Settled
<1>1. Init => Settled
  BY DEF Init, Settled, InTable, HasRow
<1> QED
  BY <1>1, SettledStep, RowsAreOwned, TypeCorrect, PTL DEF Spec

=============================================================================
