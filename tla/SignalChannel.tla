--------------------------- MODULE SignalChannel ---------------------------
(***************************************************************************)
(* Table `agent_signals` of one agent and the executions that read it: the *)
(* operators' signals (pause, resume, kill, ...), the check that consumes  *)
(* them before every step and at every chunk of a generation, the main     *)
(* loop of the FSM with its waiting loop, and the direct bridge call of an *)
(* agent without a workflow.                                               *)
(*                                                                         *)
(* Sources: services/agent_manager/service.py (signal channel, execute),   *)
(* AgentFrameWork/fsm_interpreter.py (run, _check_signals, the handlers),  *)
(* AgentFrameWork/router.py (state gates of the routed operations).        *)
(*                                                                         *)
(* Each commit is one step: acknowledging and completing a signal are two. *)
(***************************************************************************)
EXTENDS Naturals, Sequences, FiniteSets

CONSTANTS
  Runs,        \* executions of the agent that may be under way together
  NSteps,      \* the steps of its workflow are 1 .. NSteps
  Kind,        \* step -> "llm", "task", "sleep" or "end"
  Targets,     \* step -> the steps its next, conditions or on_error may lead to (0: none)
  MaxIter,     \* max_iterations of the workflow
  MaxChunks,   \* chunks a generation is cut in, at most (its max_tokens)
  MaxSignals,  \* bound: signals sent
  MaxStarts    \* bound: executions started

Steps == 1 .. NSteps
Kinds == {"llm", "task", "sleep", "end"}

ASSUME WorkflowAssumption ==
  /\ NSteps \in Nat \ {0}
  /\ Kind \in [Steps -> Kinds]
  /\ Targets \in [Steps -> SUBSET (0 .. NSteps)]
ASSUME SizesAssumption ==
  MaxIter \in Nat \ {0} /\ MaxChunks \in Nat /\ MaxSignals \in Nat /\ MaxStarts \in Nat

VARIABLES
  signals,  \* the rows of agent_signals, by signal_id
  stored,   \* agents.status, as far as the router's gates look at it
  pc,       \* run -> where it is
  from,     \* run -> which call of signal_check is under way
  mode,     \* run -> "fsm", or "direct" for an agent without a workflow
  result,   \* run -> FSMResult.status
  paused,   \* run -> FSMResult._paused
  step,     \* run -> current step, 0 for none
  iter,     \* run -> FSMResult.iterations
  chunk,    \* run -> chunks received from the generation under way
  todo,     \* run -> signal_ids of the snapshot it still has to handle
  starts,   \* executions started
  applied,  \* history: signal_ids in the order they took effect
  since,    \* history: run -> signals that had taken effect when it started
  killedAt  \* history: run -> iterations when it consumed a kill, 0 if none

runVars == <<pc, from, mode, result, paused, step, iter, chunk, todo>>
history == <<applied, since, killedAt>>
vars    == <<signals, stored, runVars, starts, history>>

\* "info" stands for status, health and configure.
Types    == {"pause", "resume", "kill", "info"}
Statuses == {"PENDING", "ACKED", "COMPLETED"}
Results  == {"running", "success", "failed", "sleeping", "aborted"}
Places   == {"off", "check", "consume", "acked", "step", "stream", "leave"}

Pending   == {i \in 1 .. Len(signals) : signals[i].status = "PENDING"}
Active(r) == pc[r] # "off"

TypeOK ==
  /\ signals \in Seq([type : Types, status : Statuses]) /\ Len(signals) <= MaxSignals
  /\ stored \in {"INIT", "RUNNING"}
  /\ pc \in [Runs -> Places]
  /\ from \in [Runs -> {"top", "wait", "chunk", "direct"}]
  /\ mode \in [Runs -> {"fsm", "direct"}]
  /\ result \in [Runs -> Results]
  /\ paused \in [Runs -> BOOLEAN]
  /\ step \in [Runs -> 0 .. NSteps]
  /\ iter \in [Runs -> 0 .. MaxIter]
  /\ chunk \in [Runs -> 0 .. MaxChunks]
  /\ todo \in [Runs -> SUBSET (1 .. MaxSignals)]
  /\ starts \in 0 .. MaxStarts
  /\ applied \in Seq(1 .. MaxSignals)
  /\ since \in [Runs -> Nat]
  /\ killedAt \in [Runs -> 0 .. MaxIter + 1]

Init ==
  /\ signals = <<>>
  /\ stored = "INIT"
  /\ pc = [r \in Runs |-> "off"]
  /\ from = [r \in Runs |-> "top"]
  /\ mode = [r \in Runs |-> "fsm"]
  /\ result = [r \in Runs |-> "running"]
  /\ paused = [r \in Runs |-> FALSE]
  /\ step = [r \in Runs |-> 0]
  /\ iter = [r \in Runs |-> 0]
  /\ chunk = [r \in Runs |-> 0]
  /\ todo = [r \in Runs |-> {}]
  /\ starts = 0
  /\ applied = <<>>
  /\ since = [r \in Runs |-> 0]
  /\ killedAt = [r \in Runs |-> 0]

-----------------------------------------------------------------------------
(* Operators *)

\* AgentManager.send_signal.
Enqueue(type) ==
  /\ Len(signals) < MaxSignals
  /\ signals' = Append(signals, [type |-> type, status |-> "PENDING"])
  /\ UNCHANGED <<stored, runVars, starts, history>>

\* The raw `signal` operation takes any type in any state of the agent.
Send(type) == Enqueue(type)

\* The routed pause, resume and kill pass the router's state gate first.
StateGate == [pause |-> {"RUNNING"}, resume |-> {"PAUSED"}, kill |-> {"RUNNING", "PAUSED"}]
Route(type) ==
  /\ type \in DOMAIN StateGate /\ stored \in StateGate[type]
  /\ Enqueue(type)

-----------------------------------------------------------------------------
(* The life of an execution *)

Go(r, place) == pc' = [pc EXCEPT ![r] = place]

\* Agent.execute: hydrated and marked RUNNING, a fresh FSMResult, the first step.
Begin(r, m) ==
  /\ pc[r] = "off" /\ starts < MaxStarts
  /\ starts' = starts + 1
  /\ stored' = "RUNNING"
  /\ Go(r, "check")
  /\ mode' = [mode EXCEPT ![r] = m]
  /\ from' = [from EXCEPT ![r] = IF m = "fsm" THEN "top" ELSE "direct"]
  /\ result' = [result EXCEPT ![r] = "running"]
  /\ paused' = [paused EXCEPT ![r] = FALSE]
  /\ step' = [step EXCEPT ![r] = 1]
  /\ iter' = [iter EXCEPT ![r] = 0]
  /\ since' = [since EXCEPT ![r] = Len(applied)]
  /\ killedAt' = [killedAt EXCEPT ![r] = 0]
  /\ UNCHANGED <<signals, chunk, todo, applied>>

\* The end of execute: idle, dehydrated.
Leave(r) ==
  /\ pc[r] = "leave"
  /\ Go(r, "off")
  /\ stored' = "INIT"
  /\ UNCHANGED <<signals, from, mode, result, paused, step, iter, chunk, todo, starts, history>>

\* The process dies: agents.status and half-handled signals stay as they are.
Crash(r) ==
  /\ Active(r)
  /\ Go(r, "off")
  /\ todo' = [todo EXCEPT ![r] = {}]
  /\ UNCHANGED <<signals, stored, from, mode, result, paused, step, iter, chunk, starts, history>>

-----------------------------------------------------------------------------
(* signal_check *)

\* pending_signals: the rows that are PENDING now.
Snapshot(r) ==
  /\ pc[r] = "check"
  /\ todo' = [todo EXCEPT ![r] = Pending]
  /\ Go(r, "consume")
  /\ UNCHANGED <<signals, stored, from, mode, result, paused, step, iter, chunk, starts, history>>

\* Mutant of IsFirst: the rows come back newest first.
NewestFirst(r, i) == i \in todo[r] /\ \A j \in todo[r] : i >= j

IsFirst(r, i) == i \in todo[r] /\ \A j \in todo[r] : i <= j

\* Mutant of Ack: a resume is acknowledged without clearing the flag.
AckDeaf(r, i) ==
  /\ pc[r] = "consume" /\ IsFirst(r, i)
  /\ signals' = [signals EXCEPT ![i].status = "ACKED"]
  /\ paused' = [paused EXCEPT ![r] = @ \/ (mode[r] = "fsm" /\ signals[i].type = "pause")]
  /\ applied' = Append(applied, i)
  /\ Go(r, "acked")
  /\ UNCHANGED <<stored, from, mode, result, step, iter, chunk, todo, starts, since, killedAt>>

\* The effect of a signal, then ack_signal. In direct mode the flag is set on an
\* FSMResult nobody reads.
Ack(r, i) ==
  /\ pc[r] = "consume" /\ IsFirst(r, i)
  /\ signals' = [signals EXCEPT ![i].status = "ACKED"]
  /\ paused' = [paused EXCEPT ![r] =
                  IF mode[r] = "direct" \/ signals[i].type \in {"kill", "info"} THEN @
                  ELSE signals[i].type = "pause"]
  /\ applied' = Append(applied, i)
  /\ Go(r, "acked")
  /\ UNCHANGED <<stored, from, mode, result, step, iter, chunk, todo, starts, since, killedAt>>

\* complete_signal, after which a kill raises AgentAbort: _check_signals turns it
\* into the status of the result, llm_call returns at once, a direct call aborts.
Complete(r, i) ==
  /\ pc[r] = "acked" /\ IsFirst(r, i)
  /\ signals' = [signals EXCEPT ![i].status = "COMPLETED"]
  /\ IF signals[i].type = "kill"
     THEN /\ result' = [result EXCEPT ![r] = "aborted"]
          /\ killedAt' = [killedAt EXCEPT ![r] = iter[r] + 1]
          /\ todo' = [todo EXCEPT ![r] = {}]
          /\ Go(r, IF from[r] \in {"chunk", "direct"} THEN "leave" ELSE "consume")
     ELSE /\ todo' = [todo EXCEPT ![r] = @ \ {i}]
          /\ Go(r, "consume")
          /\ UNCHANGED <<result, killedAt>>
  /\ UNCHANGED <<stored, from, mode, paused, step, iter, chunk, starts, applied, since>>

Checked(r, place) == pc[r] = "consume" /\ todo[r] = {} /\ from[r] = place

\* Mutant of CheckedTop: a pause consumed during the last step is forgotten.
CheckedHasty(r) ==
  /\ Checked(r, "top")
  /\ Go(r, "step")
  /\ UNCHANGED <<signals, stored, from, mode, result, paused, step, iter, chunk, todo, starts,
                 history>>

\* Back in the main loop: wait if paused, else run the handler of the step, which
\* nothing prevents when the check has just aborted the run.
CheckedTop(r) ==
  /\ Checked(r, "top")
  /\ IF ~paused[r] THEN Go(r, "step") /\ UNCHANGED from
     ELSE IF result[r] = "running" THEN Go(r, "check") /\ from' = [from EXCEPT ![r] = "wait"]
     ELSE Go(r, "leave") /\ UNCHANGED from
  /\ UNCHANGED <<signals, stored, mode, result, paused, step, iter, chunk, todo, starts, history>>

\* Mutant of CheckedWait: the waiting loop looks at the pause alone.
CheckedBlocked(r) ==
  /\ Checked(r, "wait")
  /\ from' = [from EXCEPT ![r] = IF paused[r] THEN "wait" ELSE "top"]
  /\ Go(r, IF paused[r] \/ result[r] = "running" THEN "check" ELSE "leave")
  /\ UNCHANGED <<signals, stored, mode, result, paused, step, iter, chunk, todo, starts, history>>

\* Back in the waiting loop: another 0.2 s, the end, or the main loop again.
CheckedWait(r) ==
  /\ Checked(r, "wait")
  /\ from' = [from EXCEPT ![r] = IF paused[r] THEN "wait" ELSE "top"]
  /\ Go(r, IF result[r] = "running" THEN "check" ELSE "leave")
  /\ UNCHANGED <<signals, stored, mode, result, paused, step, iter, chunk, todo, starts, history>>

CheckedElsewhere(r) ==
  /\ Checked(r, "chunk") \/ Checked(r, "direct")
  /\ Go(r, IF from[r] = "chunk" THEN "stream" ELSE "step")
  /\ UNCHANGED <<signals, stored, from, mode, result, paused, step, iter, chunk, todo, starts,
                 history>>

-----------------------------------------------------------------------------
(* The steps of a workflow *)

\* Mutant of Advance: the loop goes on whatever the status.
AdvanceAnyway(r, n) ==
  /\ step' = [step EXCEPT ![r] = n]
  /\ Go(r, IF n # 0 /\ iter'[r] < MaxIter THEN "check" ELSE "leave")
  /\ from' = [from EXCEPT ![r] = "top"]
  /\ UNCHANGED result

\* The handler returned True with next_step_id = n: the loop goes on, or stops
\* because of the status, of the end of the graph or of the iteration limit.
Advance(r, n) ==
  /\ step' = [step EXCEPT ![r] = IF result[r] = "running" THEN n ELSE @]
  /\ IF result[r] = "running" /\ n # 0 /\ iter'[r] < MaxIter
     THEN Go(r, "check") /\ from' = [from EXCEPT ![r] = "top"] /\ UNCHANGED result
     ELSE /\ Go(r, "leave") /\ UNCHANGED from
          /\ result' = [result EXCEPT ![r] =
                          IF @ = "running" /\ iter'[r] = MaxIter THEN "failed" ELSE @]

\* The handler set the status and returned False.
Stop(r, status) ==
  /\ result' = [result EXCEPT ![r] = status]
  /\ Go(r, "leave")
  /\ UNCHANGED <<from, step>>

AtStep(r, k) == pc[r] = "step" /\ mode[r] = "fsm" /\ Kind[step[r]] = k
Counted(r)   == iter' = [iter EXCEPT ![r] = @ + 1]

\* call, tool_call, switch, set_variable, spawn, handoff, agent_call.
Task(r) ==
  /\ AtStep(r, "task") /\ Counted(r)
  /\ (\E n \in Targets[step[r]] : Advance(r, n)) \/ Stop(r, "failed")
  /\ UNCHANGED <<signals, stored, mode, paused, chunk, todo, starts, history>>

Sleep(r) ==
  /\ AtStep(r, "sleep") /\ Counted(r)
  /\ Stop(r, "sleeping")
  /\ UNCHANGED <<signals, stored, mode, paused, chunk, todo, starts, history>>

\* _step_end writes the status the step names, whatever it was.
End(r) ==
  /\ AtStep(r, "end") /\ Counted(r)
  /\ \E status \in {"success", "failed"} : Stop(r, status)
  /\ UNCHANGED <<signals, stored, mode, paused, chunk, todo, starts, history>>

\* _step_llm_call: the generation starts, sends chunks, ends or fails.
Generate(r) ==
  /\ AtStep(r, "llm") /\ Counted(r)
  /\ chunk' = [chunk EXCEPT ![r] = 0]
  /\ Go(r, "stream")
  /\ UNCHANGED <<signals, stored, from, mode, result, paused, step, todo, starts, history>>

Chunk(r) ==
  /\ pc[r] = "stream" /\ chunk[r] < MaxChunks
  /\ chunk' = [chunk EXCEPT ![r] = @ + 1]
  /\ from' = [from EXCEPT ![r] = "chunk"]
  /\ Go(r, "check")
  /\ UNCHANGED <<signals, stored, mode, result, paused, step, iter, todo, starts, history>>

Generated(r) ==
  /\ pc[r] = "stream"
  /\ UNCHANGED iter
  /\ (\E n \in Targets[step[r]] : Advance(r, n)) \/ Stop(r, "failed")
  /\ UNCHANGED <<signals, stored, mode, paused, chunk, todo, starts, history>>

\* An agent without a workflow: one bridge call after the only check.
Direct(r) ==
  /\ pc[r] = "step" /\ mode[r] = "direct"
  /\ \E status \in {"success", "failed"} : Stop(r, status)
  /\ UNCHANGED <<signals, stored, mode, paused, iter, chunk, todo, starts, history>>

-----------------------------------------------------------------------------
Handle(r) == Task(r) \/ Sleep(r) \/ End(r) \/ Generate(r) \/ Direct(r)

RunStep(r) ==
  \/ Leave(r) \/ Snapshot(r) \/ CheckedTop(r) \/ CheckedWait(r) \/ CheckedElsewhere(r)
  \/ \E i \in todo[r] : Ack(r, i) \/ Complete(r, i)
  \/ Handle(r) \/ Chunk(r) \/ Generated(r)

Next ==
  \/ \E type \in Types : Send(type) \/ Route(type)
  \/ \E r \in Runs : RunStep(r) \/ Crash(r)
  \/ \E r \in Runs, m \in {"fsm", "direct"} : Begin(r, m)

Spec == Init /\ [][Next]_vars

\* A run is a thread: it goes on. Operators and crashes owe nothing.
FairSpec == Spec /\ \A r \in Runs : WF_vars(RunStep(r))

-----------------------------------------------------------------------------
(* Properties *)

\* With one execution at a time, signals take effect in the order they were sent
\* and once each, crashes and restarts included: the pending_signals / ack /
\* complete protocol implements the mailbox.
Mailbox == INSTANCE SignalMailbox WITH
  Signals <- 1 .. MaxSignals,
  box <- [k \in 1 .. (Len(signals) - Len(applied)) |-> Len(applied) + k],
  out <- applied
InOrderOnce == Mailbox!Spec

\* The pause and resume signals that run r has consumed, by position in applied.
Told(r) == {k \in since[r] + 1 .. Len(applied) : signals[applied[k]].type \in {"pause", "resume"}}

\* A step of a workflow never starts when the last thing its run was told is to
\* pause: the waiting loop, the chunk checks and the main loop agree on the flag.
PauseHolds ==
  [][\A r \in Runs : Handle(r) /\ mode[r] = "fsm" =>
       \A k \in Told(r) : (\A j \in Told(r) : j <= k) => signals[applied[k]].type = "resume"]_vars

\* A kill lets the run finish at most the step it was about to make ("mort immediate
\* ou a la prochaine etape", docs/AGENT_SPEC_COMPLET.md:322).
KillStops == \A r \in Runs : killedAt[r] # 0 => iter[r] <= killedAt[r]

\* A pending kill ends the run, even one that waits in pause: no step, generation
\* or waiting loop goes on forever past it.
KillEnds ==
  \A r \in Runs :
    (Active(r) /\ \E i \in Pending : signals[i].type = "kill") ~> ~Active(r)

\* The last pause, resume or kill that was sent.
Orders    == {i \in 1 .. Len(signals) : signals[i].type # "info"}
LastOrder == IF Orders = {} THEN "none"
             ELSE signals[CHOOSE i \in Orders : \A j \in Orders : j <= i].type
Waiting(r) == Active(r) /\ from[r] = "wait"

\* A run that waits is woken by a resume that nothing countermands.
ResumeWakes ==
  \A r \in Runs :
    (Waiting(r) /\ LastOrder = "resume") ~> (~Waiting(r) \/ LastOrder # "resume")

=============================================================================
