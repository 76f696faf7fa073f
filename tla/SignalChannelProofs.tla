------------------------ MODULE SignalChannelProofs ------------------------
(***************************************************************************)
(* Safety of SignalChannel for any workflow, any limits and any number of  *)
(* signals and executions.                                                 *)
(***************************************************************************)
EXTENDS SignalChannel, SequenceTheorems, TLAPS

\* Where an execution may be, given what it executes: what the types of a step's
\* successor and of the iteration counter rest on.
Where(r) ==
  /\ mode[r] = "direct" <=> from[r] = "direct"
  /\ pc[r] = "step" => from[r] \in {"top", "direct"}
  /\ pc[r] = "stream" => mode[r] = "fsm"
  /\ pc[r] \notin {"off", "leave"} => step[r] # 0
  /\ pc[r] \in {"check", "consume", "acked", "step"} /\ from[r] \in {"top", "wait"} =>
       iter[r] < MaxIter
  /\ todo[r] \subseteq 1 .. Len(signals)
Located == \A r \in Runs : Where(r)

Signal == [type : Types, status : Statuses]

-----------------------------------------------------------------------------
(* The type invariant *)

\* A row changes status and nothing else.
LEMMA StatusEffect ==
  ASSUME TypeOK, NEW i \in 1 .. Len(signals), NEW s \in Statuses,
         signals' = [signals EXCEPT ![i].status = s]
  PROVE  /\ signals' \in Seq(Signal) /\ Len(signals') = Len(signals)
         /\ \A j \in 1 .. Len(signals) :
              /\ signals'[j].type = signals[j].type
              /\ signals'[j].status = IF j = i THEN s ELSE signals[j].status
<1>1. signals \in Seq(Signal)
  BY DEF TypeOK, Signal
<1> DEFINE row == [signals[i] EXCEPT !.status = s]
<1>2. signals[i] \in Signal
  BY <1>1
<1>3. row \in Signal /\ row.type = signals[i].type /\ row.status = s
  BY <1>2 DEF Signal
<1>4. signals' = [signals EXCEPT ![i] = row]
  OBVIOUS
<1> HIDE DEF row
<1>5. /\ signals' \in Seq(Signal) /\ Len(signals') = Len(signals)
      /\ \A j \in 1 .. Len(signals) : signals'[j] = IF j = i THEN row ELSE signals[j]
  BY <1>1, <1>3, <1>4, ExceptSeq
<1> QED
  BY <1>3, <1>5

LEMMA SentType ==
  ASSUME TypeOK, NEW type \in Types, Enqueue(type)
  PROVE  /\ signals' \in Seq(Signal) /\ Len(signals') = Len(signals) + 1
         /\ Len(signals') <= MaxSignals
         /\ \A j \in 1 .. Len(signals) : signals'[j] = signals[j]
         /\ signals'[Len(signals) + 1] = [type |-> type, status |-> "PENDING"]
<1> DEFINE row == [type |-> type, status |-> "PENDING"]
<1>1. signals \in Seq(Signal) /\ row \in Signal
  BY DEF TypeOK, Signal, Statuses
<1>2. signals' = Append(signals, row) /\ Len(signals) < MaxSignals
  BY DEF Enqueue
<1> HIDE DEF row
<1>3. /\ signals' \in Seq(Signal) /\ Len(signals') = Len(signals) + 1
      /\ \A j \in 1 .. Len(signals) : signals'[j] = signals[j]
      /\ signals'[Len(signals) + 1] = row
  BY <1>1, <1>2, AppendProperties
<1> QED
  BY <1>1, <1>2, <1>3, SizesAssumption DEF row

\* A handler that returned leaves a typed result, and the run where Where wants it.
LEMMA HandlerType ==
  ASSUME TypeOK, NEW r \in Runs, iter' \in [Runs -> 0 .. MaxIter],
         \/ \E n \in 0 .. NSteps : Advance(r, n)
         \/ \E s \in {"success", "failed", "sleeping"} : Stop(r, s)
  PROVE  /\ pc' \in [Runs -> Places] /\ from' \in [Runs -> {"top", "wait", "chunk", "direct"}]
         /\ step' \in [Runs -> 0 .. NSteps] /\ result' \in [Runs -> Results]
<1>1. ASSUME NEW n \in 0 .. NSteps, Advance(r, n)
      PROVE  /\ step' \in [Runs -> 0 .. NSteps]
             /\ pc' \in [Runs -> Places]
             /\ from' \in [Runs -> {"top", "wait", "chunk", "direct"}]
             /\ result' \in [Runs -> Results]
  <2>1. step' \in [Runs -> 0 .. NSteps]
    BY <1>1 DEF TypeOK, Advance
  <2>2. CASE result[r] = "running" /\ n # 0 /\ iter'[r] < MaxIter
    BY <1>1, <2>1, <2>2 DEF TypeOK, Advance, Go, Places
  <2>3. CASE ~(result[r] = "running" /\ n # 0 /\ iter'[r] < MaxIter)
    BY <1>1, <2>1, <2>3 DEF TypeOK, Advance, Go, Places, Results
  <2> QED
    BY <2>2, <2>3
<1>2. ASSUME NEW s \in {"success", "failed", "sleeping"}, Stop(r, s)
      PROVE  /\ step' \in [Runs -> 0 .. NSteps]
             /\ pc' \in [Runs -> Places]
             /\ from' \in [Runs -> {"top", "wait", "chunk", "direct"}]
             /\ result' \in [Runs -> Results]
  BY <1>2 DEF TypeOK, Stop, Go, Places, Results
<1> QED
  BY <1>1, <1>2

\* Where a step is made there is one, and its successors are steps or the end.
LEMMA StepIsOne ==
  ASSUME TypeOK, Located, NEW r \in Runs, pc[r] \in {"step", "stream"}
  PROVE  step[r] \in Steps /\ Targets[step[r]] \subseteq 0 .. NSteps
<1>1. step[r] \in 0 .. NSteps
  BY DEF TypeOK
<1>2. step[r] # 0
  BY DEF Located, Where
<1>3. step[r] \in Steps
  BY <1>1, <1>2, WorkflowAssumption DEF Steps
<1> QED
  BY <1>3, WorkflowAssumption

\* A step of the workflow is counted within the limit.
LEMMA CountedType ==
  ASSUME TypeOK, Located, NEW r \in Runs, NEW k, AtStep(r, k), Counted(r)
  PROVE  iter' \in [Runs -> 0 .. MaxIter] /\ Targets[step[r]] \subseteq 0 .. NSteps
<1>1. iter[r] < MaxIter
  BY DEF TypeOK, Located, Where, AtStep
<1>2. iter \in [Runs -> 0 .. MaxIter] /\ iter[r] + 1 \in 0 .. MaxIter
  BY <1>1, SizesAssumption DEF TypeOK
<1> QED
  BY <1>2, StepIsOne DEF Counted, AtStep

LEMMA TypeStep == TypeOK /\ Located /\ [Next]_vars => TypeOK'
<1> SUFFICES ASSUME TypeOK, Located, [Next]_vars PROVE TypeOK'
  OBVIOUS
<1> USE SizesAssumption, WorkflowAssumption
<1>1. ASSUME NEW type \in Types, Send(type) \/ Route(type) PROVE TypeOK'
  BY <1>1, SentType DEF TypeOK, Send, Route, Enqueue, runVars, history, Signal
<1>2. ASSUME NEW r \in Runs, NEW m \in {"fsm", "direct"}, Begin(r, m) PROVE TypeOK'
  BY <1>2 DEF TypeOK, Begin, Go, Places, Results, Steps
<1>3. ASSUME NEW r \in Runs, Leave(r) \/ Crash(r) PROVE TypeOK'
  BY <1>3 DEF TypeOK, Leave, Crash, Go, Places, history
<1>4. ASSUME NEW r \in Runs, Snapshot(r) PROVE TypeOK'
  <2>1. Len(signals) \in Nat /\ Len(signals) <= MaxSignals
    BY DEF TypeOK
  <2>2. Pending \in SUBSET (1 .. MaxSignals)
    BY <2>1 DEF Pending
  <2> QED
    BY <1>4, <2>2 DEF TypeOK, Snapshot, Go, Places, history
<1>5. ASSUME NEW r \in Runs, NEW i \in todo[r], Ack(r, i) PROVE TypeOK'
  <2>1. i \in 1 .. Len(signals) /\ i \in 1 .. MaxSignals
    BY DEF TypeOK, Located, Where
  <2>2. signals' \in Seq(Signal) /\ Len(signals') = Len(signals)
    BY <1>5, <2>1, StatusEffect DEF Ack, Statuses
  <2>3. applied' \in Seq(1 .. MaxSignals)
    BY <1>5, <2>1, AppendProperties DEF TypeOK, Ack
  <2>4. paused' \in [Runs -> BOOLEAN]
    BY <1>5, Zenon DEF TypeOK, Ack
  <2> QED
    BY <1>5, <2>2, <2>3, <2>4 DEF TypeOK, Ack, Go, Places, Signal
<1>6. ASSUME NEW r \in Runs, NEW i \in todo[r], Complete(r, i) PROVE TypeOK'
  <2>1. i \in 1 .. Len(signals) /\ i \in 1 .. MaxSignals
    BY DEF TypeOK, Located, Where
  <2>2. signals' \in Seq(Signal) /\ Len(signals') = Len(signals)
    BY <1>6, <2>1, StatusEffect DEF Complete, Statuses
  <2>3. iter[r] + 1 \in 0 .. MaxIter + 1
    BY DEF TypeOK
  <2>4. CASE signals[i].type = "kill"
    BY <1>6, <2>2, <2>3, <2>4 DEF TypeOK, Complete, Go, Places, Results, Signal
  <2>5. CASE signals[i].type # "kill"
    <3>1. todo[r] \ {i} \in SUBSET (1 .. MaxSignals)
      BY DEF TypeOK
    <3>2. todo' \in [Runs -> SUBSET (1 .. MaxSignals)]
      BY <1>6, <2>5, <3>1 DEF TypeOK, Complete
    <3> QED
      BY <1>6, <2>2, <2>5, <3>2 DEF TypeOK, Complete, Go, Places, Signal
  <2> QED
    BY <2>4, <2>5
<1>7. ASSUME NEW r \in Runs, CheckedTop(r) \/ CheckedWait(r) \/ CheckedElsewhere(r) PROVE TypeOK'
  BY <1>7 DEF TypeOK, CheckedTop, CheckedWait, CheckedElsewhere, Checked, Go, Places, history
<1>8. ASSUME NEW r \in Runs, Task(r) \/ Sleep(r) \/ End(r) PROVE TypeOK'
  <2>1. iter' \in [Runs -> 0 .. MaxIter] /\ Targets[step[r]] \subseteq 0 .. NSteps
    BY <1>8, CountedType DEF Task, Sleep, End
  <2>2. \/ \E n \in 0 .. NSteps : Advance(r, n)
        \/ \E s \in {"success", "failed", "sleeping"} : Stop(r, s)
    BY <1>8, <2>1 DEF Task, Sleep, End
  <2>3. /\ pc' \in [Runs -> Places] /\ from' \in [Runs -> {"top", "wait", "chunk", "direct"}]
        /\ step' \in [Runs -> 0 .. NSteps] /\ result' \in [Runs -> Results]
    BY <2>1, <2>2, HandlerType
  <2> QED
    BY <1>8, <2>1, <2>3 DEF TypeOK, Task, Sleep, End, history
<1>9. ASSUME NEW r \in Runs, Generate(r) PROVE TypeOK'
  <2>1. iter' \in [Runs -> 0 .. MaxIter]
    BY <1>9, CountedType DEF Generate
  <2>2. chunk' \in [Runs -> 0 .. MaxChunks]
    BY <1>9 DEF TypeOK, Generate
  <2> QED
    BY <1>9, <2>1, <2>2 DEF TypeOK, Generate, Go, Places, history
<1>10. ASSUME NEW r \in Runs, Chunk(r) PROVE TypeOK'
  <2>1. chunk' \in [Runs -> 0 .. MaxChunks]
    BY <1>10 DEF TypeOK, Chunk
  <2> QED
    BY <1>10, <2>1 DEF TypeOK, Chunk, Go, Places, history
<1>11. ASSUME NEW r \in Runs, Generated(r) \/ Direct(r) PROVE TypeOK'
  <2>1. iter' \in [Runs -> 0 .. MaxIter]
    BY <1>11 DEF TypeOK, Generated, Direct
  <2>2. ASSUME Generated(r) PROVE Targets[step[r]] \subseteq 0 .. NSteps
    BY <2>2, StepIsOne DEF Generated
  <2>3. \/ \E n \in 0 .. NSteps : Advance(r, n)
        \/ \E s \in {"success", "failed", "sleeping"} : Stop(r, s)
    BY <1>11, <2>2 DEF Generated, Direct
  <2>4. /\ pc' \in [Runs -> Places] /\ from' \in [Runs -> {"top", "wait", "chunk", "direct"}]
        /\ step' \in [Runs -> 0 .. NSteps] /\ result' \in [Runs -> Results]
    BY <2>1, <2>3, HandlerType
  <2> QED
    BY <1>11, <2>1, <2>4 DEF TypeOK, Generated, Direct, history
<1>12. CASE UNCHANGED vars
  BY <1>12 DEF TypeOK, vars, runVars, history
<1> QED
  BY <1>1, <1>2, <1>3, <1>4, <1>5, <1>6, <1>7, <1>8, <1>9, <1>10, <1>11, <1>12
     DEF Next, RunStep, Handle

LEMMA TypeInit == Init => TypeOK /\ Located
BY SizesAssumption, WorkflowAssumption
   DEF Init, TypeOK, Located, Where, Places, Results, Pending

LEMMA LocatedStep == TypeOK /\ Located /\ [Next]_vars => Located'
<1> SUFFICES ASSUME TypeOK, Located, [Next]_vars, NEW q \in Runs PROVE Where(q)'
  BY DEF Located
<1> USE SizesAssumption, WorkflowAssumption
<1>0. Where(q) /\ Len(signals) \in Nat
  BY DEF Located, TypeOK
<1>1. ASSUME NEW type \in Types, Send(type) \/ Route(type) PROVE Where(q)'
  <2>1. Len(signals') = Len(signals) + 1
    BY <1>1, SentType DEF Send, Route
  <2> QED
    BY <1>0, <1>1, <2>1 DEF Where, Send, Route, Enqueue, runVars
<1>2. ASSUME NEW r \in Runs, NEW m \in {"fsm", "direct"}, Begin(r, m) PROVE Where(q)'
  BY <1>0, <1>2 DEF TypeOK, Where, Begin, Go
<1>3. ASSUME NEW r \in Runs, Leave(r) \/ Crash(r) PROVE Where(q)'
  BY <1>0, <1>3 DEF TypeOK, Where, Leave, Crash, Go
<1>4. ASSUME NEW r \in Runs, Snapshot(r) PROVE Where(q)'
  BY <1>0, <1>4 DEF TypeOK, Where, Snapshot, Go, Pending
<1>5. ASSUME NEW r \in Runs, NEW i \in todo[r], Ack(r, i) PROVE Where(q)'
  <2>1. Len(signals') = Len(signals)
    BY <1>5, StatusEffect DEF Ack, Statuses, Located, Where
  <2>2. pc'[q] = pc[q] \/ (pc[q] = "consume" /\ pc'[q] = "acked")
    BY <1>5 DEF TypeOK, Ack, Go
  <2>3. UNCHANGED <<from, mode, step, iter, todo>>
    BY <1>5 DEF Ack
  <2> QED
    BY <1>0, <2>1, <2>2, <2>3 DEF Where
<1>6. ASSUME NEW r \in Runs, NEW i \in todo[r], Complete(r, i) PROVE Where(q)'
  <2>1. Len(signals') = Len(signals)
    BY <1>6, StatusEffect DEF Complete, Statuses, Located, Where
  <2>2. todo'[q] \subseteq todo[q]
    BY <1>6 DEF TypeOK, Complete
  <2>3. pc'[q] \in {pc[q], "leave", "consume"} /\ (pc'[q] # pc[q] => pc[q] = "acked")
    BY <1>6 DEF TypeOK, Complete, Go
  <2>4. UNCHANGED <<from, mode, step, iter>>
    BY <1>6 DEF Complete
  <2> QED
    BY <1>0, <2>1, <2>2, <2>3, <2>4 DEF Where
<1>7. ASSUME NEW r \in Runs, CheckedTop(r) \/ CheckedWait(r) \/ CheckedElsewhere(r) PROVE Where(q)'
  BY <1>0, <1>7 DEF TypeOK, Where, CheckedTop, CheckedWait, CheckedElsewhere, Checked, Go
<1>8. ASSUME NEW r \in Runs, NEW n \in 0 .. NSteps, Advance(r, n), mode[r] = "fsm",
             UNCHANGED <<signals, mode, todo>>, iter' \in [Runs -> 0 .. MaxIter],
             \A p \in Runs : p # r => iter'[p] = iter[p]
      PROVE  Where(q)'
  <2>1. CASE q # r
    BY <1>0, <1>8, <2>1 DEF TypeOK, Where, Advance, Go
  <2>2. CASE q = r
    BY <1>0, <1>8, <2>2 DEF TypeOK, Where, Advance, Go
  <2> QED
    BY <2>1, <2>2
<1>9. ASSUME NEW r \in Runs, NEW s, Stop(r, s), UNCHANGED <<signals, mode, todo>>,
             \A p \in Runs : p # r => iter'[p] = iter[p]
      PROVE  Where(q)'
  BY <1>0, <1>9 DEF TypeOK, Where, Stop, Go
<1>10. ASSUME NEW r \in Runs, Task(r) \/ Sleep(r) \/ End(r) PROVE Where(q)'
  <2>1. iter' \in [Runs -> 0 .. MaxIter] /\ Targets[step[r]] \subseteq 0 .. NSteps
    BY <1>10, CountedType DEF Task, Sleep, End
  <2>2. mode[r] = "fsm" /\ UNCHANGED <<signals, mode, todo>>
    BY <1>10 DEF Task, Sleep, End, AtStep
  <2>3. \A p \in Runs : p # r => iter'[p] = iter[p]
    BY <1>10 DEF TypeOK, Task, Sleep, End, Counted
  <2>4. (\E n \in 0 .. NSteps : Advance(r, n)) \/ \E s \in Results : Stop(r, s)
    BY <1>10, <2>1 DEF Task, Sleep, End, Results
  <2> QED
    BY <2>1, <2>2, <2>3, <2>4, <1>8, <1>9
<1>11. ASSUME NEW r \in Runs, Generate(r) \/ Chunk(r) PROVE Where(q)'
  BY <1>0, <1>11 DEF TypeOK, Where, Generate, Chunk, AtStep, Counted, Go
<1>12. ASSUME NEW r \in Runs, Generated(r) \/ Direct(r) PROVE Where(q)'
  <2>1. UNCHANGED <<signals, mode, todo, iter>>
    BY <1>12 DEF Generated, Direct
  <2>2. ASSUME Generated(r) PROVE mode[r] = "fsm" /\ Targets[step[r]] \subseteq 0 .. NSteps
    BY <2>2, StepIsOne DEF Generated, Located, Where
  <2>3. \/ mode[r] = "fsm" /\ \E n \in 0 .. NSteps : Advance(r, n)
        \/ \E s \in Results : Stop(r, s)
    BY <1>12, <2>2 DEF Generated, Direct, Results
  <2>4. iter' \in [Runs -> 0 .. MaxIter]
    BY <2>1 DEF TypeOK
  <2> QED
    BY <2>1, <2>3, <2>4, <1>8, <1>9
<1>13. CASE UNCHANGED vars
  BY <1>0, <1>13 DEF Where, vars, runVars
<1> QED
  BY <1>1, <1>2, <1>3, <1>4, <1>5, <1>6, <1>7, <1>10, <1>11, <1>12, <1>13
     DEF Next, RunStep, Handle

\* Every variable of the channel and of its executions keeps its type: no run counts
\* past the iteration limit, goes to a step its workflow has not, or holds a signal
\* that was not sent.
THEOREM TypeCorrect == Spec => []TypeOK
<1> QED
  BY TypeInit, TypeStep, LocatedStep, PTL DEF Spec

-----------------------------------------------------------------------------
(* Kill *)

\* What makes KillStops inductive: a run that consumed a kill is aborted until it
\* leaves, and while it still may come to a step it has not made the one it is allowed.
Doomed(r) ==
  killedAt[r] # 0 =>
    /\ iter[r] <= killedAt[r]
    /\ pc[r] \notin {"off", "leave"} => result[r] = "aborted"
    /\ pc[r] \in {"check", "consume", "acked", "step"} /\ from[r] \in {"top", "wait"} =>
         iter[r] < killedAt[r]
AllDoomed == \A r \in Runs : Doomed(r)

LEMMA DoomedStep == TypeOK /\ Located /\ AllDoomed /\ [Next]_vars => AllDoomed'
<1> SUFFICES ASSUME TypeOK, Located, AllDoomed, [Next]_vars, NEW q \in Runs PROVE Doomed(q)'
  BY DEF AllDoomed
<1> USE SizesAssumption, WorkflowAssumption
<1>0. Doomed(q) /\ Where(q)
  BY DEF AllDoomed, Located
<1>1. ASSUME NEW type \in Types, Send(type) \/ Route(type) PROVE Doomed(q)'
  BY <1>0, <1>1 DEF Doomed, Send, Route, Enqueue, runVars, history
<1>2. ASSUME NEW r \in Runs, NEW m \in {"fsm", "direct"}, Begin(r, m) PROVE Doomed(q)'
  BY <1>0, <1>2 DEF TypeOK, Doomed, Begin, Go
<1>3. ASSUME NEW r \in Runs, Leave(r) \/ Crash(r) \/ Snapshot(r) PROVE Doomed(q)'
  BY <1>0, <1>3 DEF TypeOK, Doomed, Leave, Crash, Snapshot, Go, history
<1>4. ASSUME NEW r \in Runs, NEW i \in todo[r], Ack(r, i) PROVE Doomed(q)'
  <2>1. pc'[q] = pc[q] \/ (pc[q] = "consume" /\ pc'[q] = "acked")
    BY <1>4 DEF TypeOK, Ack, Go
  <2>2. UNCHANGED <<from, result, iter, killedAt>>
    BY <1>4 DEF Ack
  <2> QED
    BY <1>0, <2>1, <2>2 DEF Doomed
<1>5. ASSUME NEW r \in Runs, NEW i \in todo[r], Complete(r, i) PROVE Doomed(q)'
  <2>1. UNCHANGED <<from, iter>> /\ iter[q] \in Nat
    BY <1>5 DEF TypeOK, Complete
  <2>2. CASE q = r /\ signals[i].type = "kill"
    BY <1>5, <2>1, <2>2 DEF TypeOK, Doomed, Complete, Go
  <2>3. CASE ~(q = r /\ signals[i].type = "kill")
    <3>1. killedAt'[q] = killedAt[q] /\ result'[q] = result[q]
      BY <1>5, <2>3 DEF TypeOK, Complete
    <3>2. pc'[q] = pc[q] \/ (pc[q] = "acked" /\ pc'[q] = "consume")
      BY <1>5, <2>3 DEF TypeOK, Complete, Go
    <3> QED
      BY <1>0, <2>1, <3>1, <3>2 DEF Doomed
  <2> QED
    BY <2>2, <2>3
<1>6. ASSUME NEW r \in Runs, CheckedTop(r) \/ CheckedWait(r) \/ CheckedElsewhere(r) PROVE Doomed(q)'
  BY <1>0, <1>6 DEF TypeOK, Where, Doomed, CheckedTop, CheckedWait, CheckedElsewhere, Checked, Go,
                    history
\* A handler returns: aborted, the run leaves.
<1>7. ASSUME NEW r \in Runs, pc[r] \notin {"off", "leave"}, UNCHANGED killedAt,
             \A p \in Runs : p # r => iter'[p] = iter[p],
             killedAt[r] # 0 => iter'[r] <= killedAt[r],
             (\E n : Advance(r, n)) \/ \E s : Stop(r, s)
      PROVE  Doomed(q)'
  <2>1. CASE q # r
    BY <1>0, <1>7, <2>1 DEF TypeOK, Doomed, Advance, Stop, Go
  <2>2. CASE q = r
    BY <1>0, <1>7, <2>2 DEF TypeOK, Doomed, Advance, Stop, Go
  <2> QED
    BY <2>1, <2>2
\* The step that is allowed.
<1>8. ASSUME NEW r \in Runs, NEW k, AtStep(r, k), Counted(r)
      PROVE  /\ killedAt[r] # 0 => iter'[r] <= killedAt[r]
             /\ \A p \in Runs : p # r => iter'[p] = iter[p]
  <2>1. from[r] = "top" /\ pc[r] = "step"
    BY <1>8 DEF Located, Where, AtStep
  <2>2. killedAt[r] # 0 => iter[r] < killedAt[r]
    BY <2>1 DEF AllDoomed, Doomed
  <2> QED
    BY <1>8, <2>2 DEF TypeOK, Counted
<1>9. ASSUME NEW r \in Runs, Task(r) \/ Sleep(r) \/ End(r) PROVE Doomed(q)'
  <2>1. pc[r] \notin {"off", "leave"} /\ UNCHANGED killedAt
    BY <1>9 DEF Task, Sleep, End, AtStep, history
  <2>2. (\E n : Advance(r, n)) \/ \E s : Stop(r, s)
    BY <1>9 DEF Task, Sleep, End
  <2> QED
    BY <1>7, <1>8, <1>9, <2>1, <2>2 DEF Task, Sleep, End
<1>10. ASSUME NEW r \in Runs, Generate(r) PROVE Doomed(q)'
  <2>1. /\ killedAt[r] # 0 => iter'[r] <= killedAt[r]
        /\ \A p \in Runs : p # r => iter'[p] = iter[p]
    BY <1>8, <1>10 DEF Generate
  <2>2. /\ UNCHANGED <<from, result, killedAt>> /\ pc[r] = "step"
        /\ pc' = [pc EXCEPT ![r] = "stream"]
    BY <1>10 DEF Generate, AtStep, Go, history
  <2>3. CASE q # r
    BY <1>0, <2>1, <2>2, <2>3 DEF TypeOK, Doomed
  <2>4. CASE q = r
    BY <1>0, <2>1, <2>2, <2>4 DEF TypeOK, Doomed
  <2> QED
    BY <2>3, <2>4
<1>11. ASSUME NEW r \in Runs, Chunk(r) PROVE Doomed(q)'
  BY <1>0, <1>11 DEF TypeOK, Doomed, Chunk, Go, history
<1>12. ASSUME NEW r \in Runs, Generated(r) \/ Direct(r) PROVE Doomed(q)'
  <2>1. pc[r] \notin {"off", "leave"} /\ UNCHANGED <<iter, killedAt>>
    BY <1>12 DEF Generated, Direct, history
  <2>2. (\E n : Advance(r, n)) \/ \E s : Stop(r, s)
    BY <1>12 DEF Generated, Direct
  <2>3. killedAt[r] # 0 => iter[r] <= killedAt[r]
    BY DEF AllDoomed, Doomed
  <2> QED
    BY <1>7, <2>1, <2>2, <2>3
<1>13. CASE UNCHANGED vars
  BY <1>0, <1>13 DEF Doomed, vars, runVars, history
<1> QED
  BY <1>1, <1>2, <1>3, <1>4, <1>5, <1>6, <1>9, <1>10, <1>11, <1>12, <1>13
     DEF Next, RunStep, Handle

\* A run makes at most one step after it consumed a kill, whatever the workflow, the
\* place where it looked at its signals and the other signals there are.
THEOREM KillsAreObeyed == Spec => []KillStops
<1>1. Init => AllDoomed
  BY DEF Init, AllDoomed, Doomed
<1>2. AllDoomed => KillStops
  BY DEF AllDoomed, Doomed, KillStops
<1> QED
  BY TypeInit, TypeStep, LocatedStep, DoomedStep, <1>1, <1>2, PTL DEF Spec

-----------------------------------------------------------------------------
(* The mailbox *)

\* The signals that wait when m of the n sent took effect: what InOrderOnce
\* substitutes for box.
Rest(n, m) == [k \in 1 .. (n - m) |-> m + k]

LEMMA RestIsSeq ==
  ASSUME NEW n \in Nat, NEW m \in 0 .. n
  PROVE  /\ Rest(n, m) \in Seq(Nat) /\ Len(Rest(n, m)) = n - m
         /\ \A k \in 1 .. (n - m) : Rest(n, m)[k] = m + k
<1>1. n - m \in Nat /\ Rest(n, m) \in [1 .. (n - m) -> Nat]
  BY DEF Rest
<1>2. Rest(n, m) \in Seq(Nat) /\ DOMAIN Rest(n, m) = 1 .. (n - m)
  BY <1>1, SeqDef
<1>3. Len(Rest(n, m)) = n - m
  BY <1>1, <1>2, LenProperties
<1> QED
  BY <1>2, <1>3 DEF Rest

LEMMA RestGrows ==
  ASSUME NEW n \in Nat, NEW m \in 0 .. n
  PROVE  Rest(n + 1, m) = Append(Rest(n, m), n + 1)
<1> DEFINE box == Rest(n, m)
           longer == Append(box, n + 1)
           grown == Rest(n + 1, m)
<1>1. /\ box \in Seq(Nat) /\ Len(box) = n - m
      /\ \A k \in 1 .. (n - m) : box[k] = m + k
  BY RestIsSeq
<1>2. /\ grown \in Seq(Nat) /\ Len(grown) = n + 1 - m
      /\ \A k \in 1 .. (n + 1 - m) : grown[k] = m + k
  <2>1. n + 1 \in Nat /\ m \in 0 .. n + 1
    OBVIOUS
  <2> QED
    BY <2>1, RestIsSeq
<1> HIDE DEF box
<1>3. /\ longer \in Seq(Nat) /\ Len(longer) = Len(box) + 1 /\ longer[Len(box) + 1] = n + 1
      /\ \A k \in 1 .. Len(box) : longer[k] = box[k]
  BY <1>1, AppendProperties
<1> HIDE DEF longer, grown
<1>4. ASSUME NEW k \in 1 .. (n + 1 - m) PROVE longer[k] = grown[k]
  <2>1. CASE k <= n - m
    BY <1>1, <1>2, <1>3, <2>1
  <2>2. CASE k = n + 1 - m
    BY <1>1, <1>2, <1>3, <2>2
  <2> QED
    BY <2>1, <2>2
<1>5. grown = longer
  BY <1>1, <1>2, <1>3, <1>4, SeqEqual
<1> QED
  BY <1>5 DEF longer, grown, box

LEMMA RestShrinks ==
  ASSUME NEW n \in Nat, NEW m \in 0 .. n, m < n
  PROVE  Rest(n, m) # <<>> /\ Head(Rest(n, m)) = m + 1 /\ Rest(n, m + 1) = Tail(Rest(n, m))
<1> DEFINE box == Rest(n, m)
           shorter == Tail(box)
           shrunk == Rest(n, m + 1)
<1>1. /\ box \in Seq(Nat) /\ Len(box) = n - m
      /\ \A k \in 1 .. (n - m) : box[k] = m + k
  BY RestIsSeq
<1>2. /\ shrunk \in Seq(Nat) /\ Len(shrunk) = n - (m + 1)
      /\ \A k \in 1 .. (n - (m + 1)) : shrunk[k] = (m + 1) + k
  <2>1. m + 1 \in 0 .. n
    OBVIOUS
  <2> QED
    BY <2>1, RestIsSeq
<1> HIDE DEF box
<1>3. box # <<>> /\ Head(box) = m + 1
  BY <1>1
<1>4. /\ shorter \in Seq(Nat) /\ Len(shorter) = Len(box) - 1
      /\ \A k \in 1 .. Len(shorter) : shorter[k] = box[k + 1]
  BY <1>1, <1>3, HeadTailProperties
<1> HIDE DEF shorter, shrunk
<1>5. ASSUME NEW k \in 1 .. Len(shorter) PROVE shorter[k] = shrunk[k]
  <2>1. k \in Nat /\ k + 1 \in 1 .. (n - m) /\ k \in 1 .. (n - (m + 1))
    BY <1>1, <1>4
  <2> QED
    BY <1>1, <1>2, <1>4, <2>1
<1>6. Len(shorter) = Len(shrunk)
  BY <1>1, <1>2, <1>4
<1>7. shrunk = shorter
  BY <1>2, <1>4, <1>5, <1>6, SeqEqual
<1> QED
  BY <1>3, <1>7 DEF box, shorter, shrunk

\* One execution at a time: what took effect is a prefix of what was sent, only the
\* rest is PENDING, and the snapshot the execution works on is a run of the rest.
Served ==
  /\ Len(applied) <= Len(signals)
  /\ \A i \in 1 .. Len(signals) : signals[i].status = "PENDING" <=> i > Len(applied)
Snapped(r) ==
  /\ pc[r] \notin {"consume", "acked"} => todo[r] = {}
  /\ pc[r] = "consume" => \A i \in todo[r] : i > Len(applied)
  /\ pc[r] = "acked" => \A i \in todo[r] : i >= Len(applied) /\ Len(applied) \in todo[r]
  /\ \A i \in todo[r], j \in Nat : Len(applied) < j /\ j <= i => j \in todo[r]
InTurn == Served /\ \A r \in Runs : Snapped(r)

\* The signal that takes effect is the one that follows those that did.
LEMMA AckIsNext ==
  ASSUME TypeOK, Located, InTurn, NEW r \in Runs, NEW i \in todo[r], Ack(r, i)
  PROVE  /\ i = Len(applied) + 1 /\ i \in 1 .. Len(signals)
         /\ applied' = Append(applied, i) /\ Len(applied') = i
         /\ Len(signals') = Len(signals)
         /\ \A j \in 1 .. Len(signals) :
              signals'[j].status = IF j = i THEN "ACKED" ELSE signals[j].status
<1>1. Len(applied) \in Nat /\ i \in 1 .. Len(signals)
  BY DEF TypeOK, Located, Where
<1>2. i > Len(applied)
  BY DEF InTurn, Snapped, Ack
<1>3. Len(applied) + 1 \in todo[r]
  BY <1>1, <1>2 DEF InTurn, Snapped
<1>4. i <= Len(applied) + 1
  BY <1>3 DEF Ack, IsFirst
<1>5. Len(applied') = Len(applied) + 1
  BY AppendProperties DEF TypeOK, Ack
<1>6. i = Len(applied) + 1
  BY <1>1, <1>2, <1>4
<1>7. /\ Len(signals') = Len(signals)
      /\ \A j \in 1 .. Len(signals) :
           signals'[j].status = IF j = i THEN "ACKED" ELSE signals[j].status
  BY <1>1, StatusEffect DEF Ack, Statuses
<1> QED
  BY <1>1, <1>5, <1>6, <1>7 DEF Ack

LEMMA InTurnStep ==
  ASSUME NEW one, Runs = {one}, TypeOK, Located, InTurn, [Next]_vars
  PROVE  InTurn'
<1>0. Snapped(one) /\ Len(signals) \in Nat /\ Len(applied) \in Nat /\ todo[one] \subseteq Nat
  BY DEF InTurn, TypeOK
<1>1. ASSUME NEW type \in Types, Send(type) \/ Route(type) PROVE InTurn'
  <2>1. /\ Len(signals') = Len(signals) + 1
        /\ \A j \in 1 .. Len(signals) : signals'[j] = signals[j]
        /\ signals'[Len(signals) + 1] = [type |-> type, status |-> "PENDING"]
    BY <1>1, SentType DEF Send, Route
  <2>2. UNCHANGED <<applied, pc, todo>>
    BY <1>1 DEF Send, Route, Enqueue, runVars, history
  <2> QED
    BY <1>0, <2>1, <2>2 DEF InTurn, Served, Snapped
<1>2. ASSUME NEW m \in {"fsm", "direct"}, Begin(one, m) PROVE InTurn'
  BY <1>0, <1>2 DEF TypeOK, InTurn, Served, Snapped, Begin, Go
<1>3. ASSUME Leave(one) \/ Crash(one) PROVE InTurn'
  BY <1>0, <1>3 DEF TypeOK, InTurn, Served, Snapped, Leave, Crash, Go, history
<1>4. ASSUME Snapshot(one) PROVE InTurn'
  <2>1. /\ UNCHANGED <<signals, applied>> /\ pc'[one] = "consume"
        /\ todo'[one] = {i \in 1 .. Len(signals) : i > Len(applied)}
    BY <1>4 DEF TypeOK, InTurn, Served, Snapshot, Go, Pending, history
  <2>2. \A i \in todo'[one], j \in Nat : Len(applied) < j /\ j <= i => j \in todo'[one]
    BY <1>0, <2>1
  <2> QED
    BY <2>1, <2>2 DEF InTurn, Served, Snapped
<1>5. ASSUME NEW i \in todo[one], Ack(one, i) PROVE InTurn'
  <2>1. /\ i = Len(applied) + 1 /\ i \in 1 .. Len(signals) /\ Len(applied') = i
        /\ Len(signals') = Len(signals)
        /\ \A j \in 1 .. Len(signals) :
             signals'[j].status = IF j = i THEN "ACKED" ELSE signals[j].status
    BY <1>5, AckIsNext
  <2>2. pc'[one] = "acked" /\ pc[one] = "consume" /\ UNCHANGED todo
    BY <1>5 DEF TypeOK, Ack, Go
  <2>3. Served'
    BY <1>0, <2>1 DEF InTurn, Served
  <2>4. Snapped(one)'
    BY <1>0, <2>1, <2>2 DEF Snapped
  <2> QED
    BY <2>3, <2>4 DEF InTurn
<1>6. ASSUME NEW i \in todo[one], Complete(one, i) PROVE InTurn'
  <2>1. /\ pc[one] = "acked" /\ pc'[one] \in {"consume", "leave"}
        /\ todo'[one] = {} \/ (pc'[one] = "consume" /\ todo'[one] = todo[one] \ {i})
        /\ UNCHANGED applied
    BY <1>6 DEF TypeOK, Complete, Go
  <2>2. i = Len(applied) /\ i \in 1 .. Len(signals)
    BY <1>0, <1>6, <2>1 DEF Snapped, Complete, IsFirst, Located, Where
  <2>3. /\ Len(signals') = Len(signals)
        /\ \A j \in 1 .. Len(signals) :
             signals'[j].status = IF j = i THEN "COMPLETED" ELSE signals[j].status
    BY <1>6, <2>2, StatusEffect DEF Complete, Statuses
  <2>4. Served'
    BY <2>1, <2>2, <2>3 DEF InTurn, Served
  <2>5. Snapped(one)'
    BY <1>0, <2>1, <2>2 DEF Snapped
  <2> QED
    BY <2>4, <2>5 DEF InTurn
\* The rest happens between two checks.
<1>7. ASSUME pc'[one] \notin {"consume", "acked"}, todo[one] = {}, UNCHANGED <<signals, applied, todo>>
      PROVE  InTurn'
  BY <1>7 DEF InTurn, Served, Snapped
<1>8. ASSUME CheckedTop(one) \/ CheckedWait(one) \/ CheckedElsewhere(one) PROVE InTurn'
  <2>1. pc'[one] \notin {"consume", "acked"} /\ todo[one] = {} /\ UNCHANGED <<signals, applied, todo>>
    BY <1>8 DEF TypeOK, CheckedTop, CheckedWait, CheckedElsewhere, Checked, Go, history
  <2> QED
    BY <1>7, <2>1
<1>9. ASSUME Handle(one) \/ Chunk(one) \/ Generated(one) PROVE InTurn'
  <2>1. pc[one] \in {"step", "stream"} /\ UNCHANGED <<signals, applied, todo>>
    BY <1>9 DEF Handle, Task, Sleep, End, Generate, Direct, Chunk, Generated, AtStep, history
  <2>2. pc'[one] \notin {"consume", "acked"}
    BY <1>9 DEF TypeOK, Handle, Task, Sleep, End, Generate, Direct, Chunk, Generated, Advance, Stop,
                Go
  <2> QED
    BY <1>0, <1>7, <2>1, <2>2 DEF Snapped
<1>10. CASE UNCHANGED vars
  BY <1>10 DEF InTurn, Served, Snapped, vars, runVars, history
<1> QED
  BY <1>1, <1>2, <1>3, <1>4, <1>5, <1>6, <1>8, <1>9, <1>10 DEF Next, RunStep

\* Every step of the channel is a step of the mailbox, or changes nothing there.
LEMMA MailboxStep ==
  ASSUME NEW one, Runs = {one}, TypeOK, Located, InTurn, [Next]_vars
  PROVE  [Mailbox!Next]_(Mailbox!vars)
<1> DEFINE n == Len(signals)
           m == Len(applied)
<1>0. n \in Nat /\ m \in 0 .. n
  BY DEF TypeOK, InTurn, Served
<1>1. ASSUME NEW type \in Types, Send(type) \/ Route(type) 
      PROVE  \A s : s = n + 1 => Mailbox!Send(s)
  <2>1. Len(signals') = n + 1 /\ UNCHANGED applied
    BY <1>1, SentType DEF Send, Route, Enqueue, history
  <2>2. Rest(Len(signals'), Len(applied')) = Append(Rest(n, m), n + 1)
    BY <1>0, <2>1, RestGrows
  <2> QED
    BY <2>1, <2>2 DEF Mailbox!Send, Rest
<1>2. ASSUME NEW type \in Types, Send(type) \/ Route(type) PROVE n + 1 \in 1 .. MaxSignals
  BY <1>0, <1>2, SizesAssumption DEF Send, Route, Enqueue
<1>3. ASSUME NEW i \in todo[one], Ack(one, i) PROVE Mailbox!Deliver
  <2>1. i = m + 1 /\ m < n /\ applied' = Append(applied, i) /\ Len(applied') = m + 1
        /\ Len(signals') = n
    BY <1>0, <1>3, AckIsNext
  <2>2. /\ Rest(n, m) # <<>> /\ Head(Rest(n, m)) = m + 1
        /\ Rest(Len(signals'), Len(applied')) = Tail(Rest(n, m))
    BY <1>0, <2>1, RestShrinks
  <2> QED
    BY <2>1, <2>2 DEF Mailbox!Deliver, Rest
<1>4. ASSUME Len(signals') = n, UNCHANGED applied PROVE UNCHANGED Mailbox!vars
  BY <1>4 DEF Mailbox!vars
<1>5. ASSUME NEW i \in todo[one], Complete(one, i) PROVE Len(signals') = n /\ UNCHANGED applied
  BY <1>5, StatusEffect DEF Complete, Statuses, Located, Where
<1>6. ASSUME NEW m1, Begin(one, m1) PROVE Len(signals') = n /\ UNCHANGED applied
  BY <1>6 DEF Begin
<1>7. ASSUME \/ Leave(one) \/ Crash(one) \/ Snapshot(one)
             \/ CheckedTop(one) \/ CheckedWait(one) \/ CheckedElsewhere(one)
             \/ Handle(one) \/ Chunk(one) \/ Generated(one)
      PROVE  Len(signals') = n /\ UNCHANGED applied
  BY <1>7 DEF Leave, Crash, Snapshot, CheckedTop, CheckedWait, CheckedElsewhere, Handle, Task, Sleep,
              End, Generate, Direct, Chunk, Generated, history
<1>8. CASE UNCHANGED vars
  BY <1>8, <1>4 DEF vars, history
<1> HIDE DEF n, m
<1>9. ASSUME NEW type \in Types, Send(type) \/ Route(type) PROVE Mailbox!Next
  <2>1. PICK s \in 1 .. MaxSignals : s = n + 1
    BY <1>2, <1>9
  <2>2. Mailbox!Send(s)
    BY <1>1, <1>9, <2>1
  <2> QED
    BY <2>2 DEF Mailbox!Next
<1>10. ASSUME NEW i \in todo[one], Ack(one, i) \/ Complete(one, i)
       PROVE  Mailbox!Next \/ UNCHANGED Mailbox!vars
  BY <1>3, <1>4, <1>5, <1>10 DEF Mailbox!Next
<1>11. ASSUME RunStep(one) \/ Crash(one) PROVE Mailbox!Next \/ UNCHANGED Mailbox!vars
  BY <1>4, <1>7, <1>10, <1>11 DEF RunStep
<1>12. ASSUME NEW m1, Begin(one, m1) PROVE UNCHANGED Mailbox!vars
  BY <1>4, <1>6, <1>12
<1> QED
  BY <1>8, <1>9, <1>11, <1>12 DEF Next

\* With one execution at a time, the protocol of the table implements the mailbox:
\* signals take effect once each and in the order they were sent, for any number of
\* signals, executions and crashes between two commits.
THEOREM SignalsInOrder == ASSUME NEW one, Runs = {one} PROVE Spec => InOrderOnce
<1>1. Init => InTurn
  BY DEF Init, InTurn, Served, Snapped
<1>2. Init => Mailbox!Init
  <2>1. ASSUME Init PROVE Rest(Len(signals), Len(applied)) = <<>> /\ applied = <<>>
    BY <2>1 DEF Init, Rest
  <2> QED
    BY <2>1 DEF Mailbox!Init, Rest
<1>3. TypeOK /\ Located /\ InTurn /\ [Next]_vars => InTurn'
  BY InTurnStep
<1>4. TypeOK /\ Located /\ InTurn /\ [Next]_vars => [Mailbox!Next]_(Mailbox!vars)
  BY MailboxStep
<1> QED
  BY TypeInit, TypeStep, LocatedStep, <1>1, <1>2, <1>3, <1>4, PTL
     DEF Spec, InOrderOnce, Mailbox!Spec

-----------------------------------------------------------------------------
(* Pause *)

\* What took effect was sent.
Known == \A k \in 1 .. Len(applied) : applied[k] \in 1 .. Len(signals)

\* The last thing run r was told is of this type.
LastTold(r, type) ==
  \E k \in Told(r) : signals[applied[k]].type = type /\ \A j \in Told(r) : j <= k

\* What makes PauseHolds inductive: the flag of a run says what it was told last, and
\* where it makes a step of its workflow the flag is down.
Flagged(r) ==
  /\ since[r] \in Nat /\ since[r] <= Len(applied)
  /\ mode[r] = "fsm" /\ pc[r] # "off" => (paused[r] = TRUE <=> LastTold(r, "pause"))
  /\ mode[r] = "fsm" /\ pc[r] = "step" => paused[r] = FALSE
Heard == Known /\ \A r \in Runs : Flagged(r)

\* Nothing new takes effect: what a run was told stays as it is.
LEMMA ToldSame ==
  ASSUME TypeOK, Known, NEW r \in Runs, UNCHANGED applied, since'[r] = since[r],
         Len(signals') >= Len(signals), Len(signals') \in Nat,
         \A j \in 1 .. Len(signals) : signals'[j].type = signals[j].type
  PROVE  Known' /\ (LastTold(r, "pause")' <=> LastTold(r, "pause"))
<1>1. Len(signals) \in Nat /\ Len(applied) \in Nat /\ since[r] \in Nat
  BY DEF TypeOK
<1>2. Known'
  BY <1>1 DEF Known
<1>3. \A k \in 1 .. Len(applied) : signals'[applied'[k]].type = signals[applied[k]].type
  BY DEF Known
<1>4. \A k \in since[r] + 1 .. Len(applied) : k \in 1 .. Len(applied)
  BY <1>1
<1>5. Told(r)' = Told(r)
  BY <1>3, <1>4 DEF Told
<1>6. \A k \in Told(r) : k \in 1 .. Len(applied)
  BY <1>4 DEF Told
<1> QED
  BY <1>2, <1>3, <1>5, <1>6 DEF LastTold

\* A signal takes effect: the run was last told to pause by this one, or as before.
LEMMA ToldMore ==
  ASSUME TypeOK, Known, NEW r \in Runs, since[r] <= Len(applied), UNCHANGED since,
         NEW i \in 1 .. Len(signals), applied' = Append(applied, i), Len(signals') = Len(signals),
         \A j \in 1 .. Len(signals) : signals'[j].type = signals[j].type
  PROVE  /\ Known' /\ since[r] <= Len(applied')
         /\ LastTold(r, "pause")' <=>
              \/ signals[i].type = "pause"
              \/ signals[i].type \notin {"pause", "resume"} /\ LastTold(r, "pause")
<1> DEFINE n == Len(applied)
<1>1. Len(signals) \in Nat /\ n \in Nat /\ since[r] \in Nat
  BY DEF TypeOK
<1>2. /\ Len(applied') = n + 1 /\ applied'[n + 1] = i
      /\ \A k \in 1 .. n : applied'[k] = applied[k]
  BY AppendProperties DEF TypeOK
<1> HIDE DEF n
<1>3. Known'
  BY <1>1, <1>2 DEF Known, n
<1>4. \A k \in 1 .. n : signals'[applied'[k]].type = signals[applied[k]].type
  BY <1>2 DEF Known, n
<1>5. signals'[applied'[n + 1]].type = signals[i].type
  BY <1>2
<1>6. /\ since[r] + 1 .. n + 1 = (since[r] + 1 .. n) \cup {n + 1}
      /\ \A k \in since[r] + 1 .. n : k \in 1 .. n
  BY <1>1 DEF n
<1>7. /\ Told(r) = {k \in since[r] + 1 .. n : signals[applied[k]].type \in {"pause", "resume"}}
      /\ Told(r)' =
           {k \in since[r] + 1 .. n + 1 : signals'[applied'[k]].type \in {"pause", "resume"}}
  BY <1>2 DEF Told, n
<1>8. \A k \in Told(r) : k \in 1 .. n
  BY <1>6, <1>7
<1>9. CASE signals[i].type \in {"pause", "resume"}
  <2>1. Told(r)' = Told(r) \cup {n + 1}
    BY <1>4, <1>5, <1>6, <1>7, <1>9
  <2>2. \A j \in Told(r)' : j <= n + 1
    BY <1>1, <1>8, <2>1
  <2>3. \A k \in Told(r)' : (\A j \in Told(r)' : j <= k) => k = n + 1
    BY <1>1, <1>8, <2>1
  <2>4. LastTold(r, "pause")' <=> signals[i].type = "pause"
    BY <1>5, <2>1, <2>2, <2>3 DEF LastTold
  <2> QED
    BY <1>1, <1>2, <1>3, <1>9, <2>4 DEF n
<1>10. CASE signals[i].type \notin {"pause", "resume"}
  <2>1. Told(r)' = Told(r)
    BY <1>4, <1>5, <1>6, <1>7, <1>10
  <2>2. LastTold(r, "pause")' <=> LastTold(r, "pause")
    BY <1>4, <1>8, <2>1 DEF LastTold
  <2> QED
    BY <1>1, <1>2, <1>3, <1>10, <2>2 DEF n
<1> QED
  BY <1>9, <1>10

LEMMA HeardStep ==
  ASSUME NEW one, Runs = {one}, TypeOK, Located, Heard, [Next]_vars
  PROVE  Heard'
<1>0. /\ Known /\ Flagged(one) /\ one \in Runs
      /\ Len(signals) \in Nat /\ Len(applied) \in Nat /\ since[one] \in Nat
      /\ mode[one] = "direct" <=> from[one] = "direct"
      /\ mode[one] \in {"fsm", "direct"}
  BY DEF Heard, Known, TypeOK, Located, Where
<1>1. SUFFICES Known' /\ Flagged(one)'
  BY DEF Heard
\* What leaves the flag alone, and starts no step.
<1>2. ASSUME UNCHANGED <<applied, since, mode, paused>>,
             Len(signals') \in Nat, Len(signals') >= Len(signals),
             \A j \in 1 .. Len(signals) : signals'[j].type = signals[j].type,
             pc'[one] # "off" => pc[one] # "off",
             pc'[one] = "step" => pc[one] = "step" \/ mode[one] = "direct" \/ paused[one] = FALSE
      PROVE  Known' /\ Flagged(one)'
  <2>1. Known' /\ (LastTold(one, "pause")' <=> LastTold(one, "pause"))
    BY <1>0, <1>2, ToldSame
  <2> QED
    BY <1>0, <1>2, <2>1 DEF Flagged
<1>3. ASSUME UNCHANGED <<signals, applied, since, mode, paused>>,
             pc'[one] # "off" => pc[one] # "off",
             pc'[one] = "step" => pc[one] = "step" \/ mode[one] = "direct" \/ paused[one] = FALSE
      PROVE  Known' /\ Flagged(one)'
  <2>1. /\ Len(signals') \in Nat /\ Len(signals') >= Len(signals)
        /\ \A j \in 1 .. Len(signals) : signals'[j].type = signals[j].type
    BY <1>0, <1>3
  <2> QED
    BY <1>2, <1>3, <2>1
<1>4. ASSUME NEW type \in Types, Send(type) \/ Route(type) PROVE Known' /\ Flagged(one)'
  <2>1. Len(signals') = Len(signals) + 1 /\ \A j \in 1 .. Len(signals) : signals'[j] = signals[j]
    BY <1>4, SentType DEF Send, Route
  <2>2. UNCHANGED <<applied, since, mode, paused, pc>>
    BY <1>4 DEF Send, Route, Enqueue, runVars, history
  <2> QED
    <3>1. /\ Len(signals') \in Nat /\ Len(signals') >= Len(signals)
          /\ \A j \in 1 .. Len(signals) : signals'[j].type = signals[j].type
      BY <1>0, <2>1
    <3>2. pc' = pc
      BY <2>2
    <3> QED
      BY <1>2, <2>2, <3>1, <3>2
<1>5. ASSUME NEW m \in {"fsm", "direct"}, Begin(one, m) PROVE Known' /\ Flagged(one)'
  <2>1. /\ UNCHANGED <<signals, applied>> /\ since'[one] = Len(applied)
        /\ paused'[one] = FALSE /\ pc'[one] = "check"
    BY <1>0, <1>5 DEF TypeOK, Begin, Go
  <2>2. Told(one)' = {}
    BY <1>0, <2>1 DEF Told
  <2> QED
    BY <1>0, <2>1, <2>2 DEF Known, Flagged, LastTold
<1>6. ASSUME Leave(one) \/ Crash(one) \/ Snapshot(one) PROVE Known' /\ Flagged(one)'
  <2>1. UNCHANGED <<signals, applied, since, mode, paused>> /\ pc[one] # "off" /\ pc'[one] # "step"
    BY <1>0, <1>6 DEF TypeOK, Leave, Crash, Snapshot, Active, Go, history
  <2> QED
    BY <1>3, <2>1
<1>7. ASSUME NEW i \in todo[one], Ack(one, i) PROVE Known' /\ Flagged(one)'
  <2>1. i \in 1 .. Len(signals) /\ signals[i].type \in Types
    <3>1. i \in 1 .. Len(signals) /\ signals \in Seq(Signal)
      BY <1>0 DEF TypeOK, Located, Where, Signal
    <3>2. signals[i] \in Signal
      BY <3>1, ElementOfSeq
    <3> QED
      BY <3>1, <3>2 DEF Signal
  <2>2. /\ Len(signals') = Len(signals) /\ applied' = Append(applied, i)
        /\ \A j \in 1 .. Len(signals) : signals'[j].type = signals[j].type
    BY <1>7, <2>1, StatusEffect DEF Ack, Statuses
  <2>3. /\ pc[one] = "consume" /\ pc'[one] = "acked" /\ UNCHANGED <<since, mode>>
        /\ paused'[one] = IF mode[one] = "direct" \/ signals[i].type \in {"kill", "info"}
                          THEN paused[one] ELSE signals[i].type = "pause"
    BY <1>0, <1>7 DEF TypeOK, Ack, Go
  <2>4. /\ Known' /\ since[one] <= Len(applied')
        /\ LastTold(one, "pause")' <=>
             \/ signals[i].type = "pause"
             \/ signals[i].type \notin {"pause", "resume"} /\ LastTold(one, "pause")
    BY <1>0, <2>1, <2>2, <2>3, ToldMore DEF Flagged
  <2>5. mode[one] = "fsm" => (paused'[one] = TRUE <=> LastTold(one, "pause")')
    <3>1. CASE signals[i].type \in {"kill", "info"}
      BY <1>0, <2>3, <2>4, <3>1 DEF Flagged
    <3>2. CASE signals[i].type \in {"pause", "resume"}
      BY <1>0, <2>3, <2>4, <3>2
    <3> QED
      BY <2>1, <3>1, <3>2 DEF Types
  <2> QED
    BY <1>0, <2>3, <2>4, <2>5 DEF Flagged
<1>8. ASSUME NEW i \in todo[one], Complete(one, i) PROVE Known' /\ Flagged(one)'
  <2>1. i \in 1 .. Len(signals)
    BY <1>0 DEF Located, Where
  <2>2. /\ Len(signals') = Len(signals)
        /\ \A j \in 1 .. Len(signals) : signals'[j].type = signals[j].type
    BY <1>8, <2>1, StatusEffect DEF Complete, Statuses
  <2>3. UNCHANGED <<applied, since, mode, paused>> /\ pc[one] # "off" /\ pc'[one] # "step"
    BY <1>0, <1>8 DEF TypeOK, Complete, Go
  <2> QED
    <3>1. /\ Len(signals') \in Nat /\ Len(signals') >= Len(signals)
          /\ \A j \in 1 .. Len(signals) : signals'[j].type = signals[j].type
      BY <1>0, <2>2
    <3> QED
      BY <1>2, <2>3, <3>1
<1>9. ASSUME CheckedTop(one) \/ CheckedWait(one) \/ CheckedElsewhere(one)
      PROVE  Known' /\ Flagged(one)'
  <2>1. /\ UNCHANGED <<signals, applied, since, mode, paused>> /\ pc[one] # "off"
        /\ pc'[one] = "step" => mode[one] = "direct" \/ paused[one] = FALSE
    BY <1>0, <1>9 DEF TypeOK, CheckedTop, CheckedWait, CheckedElsewhere, Checked, Go, history
  <2> QED
    BY <1>3, <2>1
<1>10. ASSUME Handle(one) \/ Chunk(one) \/ Generated(one) PROVE Known' /\ Flagged(one)'
  <2>1. /\ UNCHANGED <<signals, applied, since, mode, paused>> /\ pc[one] \in {"step", "stream"}
    BY <1>10 DEF Handle, Task, Sleep, End, Generate, Direct, Chunk, Generated, AtStep, history
  <2>2. pc'[one] # "step"
    BY <1>0, <1>10 DEF TypeOK, Handle, Task, Sleep, End, Generate, Direct, Chunk, Generated, Advance,
                       Stop, Go
  <2> QED
    BY <1>3, <2>1, <2>2
<1>11. CASE UNCHANGED vars
  BY <1>3, <1>11 DEF vars, runVars, history
<1> QED
  BY <1>4, <1>5, <1>6, <1>7, <1>8, <1>9, <1>10, <1>11 DEF Next, RunStep

\* With one execution at a time, no step of a workflow starts when the last thing its
\* run was told is to pause, wherever the pause reached it.
THEOREM PausesAreObeyed == ASSUME NEW one, Runs = {one} PROVE Spec => PauseHolds
<1> DEFINE Resumed(r) ==
             \A k \in Told(r) : (\A j \in Told(r) : j <= k) => signals[applied[k]].type = "resume"
<1>1. Init => Heard
  BY DEF Init, Heard, Known, Flagged
<1>2. TypeOK /\ Located /\ Heard /\ [Next]_vars => Heard'
  BY HeardStep
<1>3. ASSUME TypeOK, Heard, NEW r \in Runs, Handle(r), mode[r] = "fsm" PROVE Resumed(r)
  <2>1. pc[r] = "step"
    BY <1>3 DEF Handle, Task, Sleep, End, Generate, Direct, AtStep
  <2>2. ~LastTold(r, "pause")
    BY <1>3, <2>1 DEF Heard, Flagged
  <2> QED
    BY <2>2 DEF LastTold, Told
<1>4. TypeOK /\ Heard /\ [Next]_vars =>
        [\A r \in Runs : Handle(r) /\ mode[r] = "fsm" => Resumed(r)]_vars
  BY <1>3
<1> QED
  BY TypeInit, TypeStep, LocatedStep, <1>1, <1>2, <1>4, PTL DEF Spec, PauseHolds
=============================================================================
