---------------------------- MODULE WorkflowRun ----------------------------
(***************************************************************************)
(* How a workflow is walked through: the main loop, the steps, and the     *)
(* bodies of if, for, while and group, which the FSM interpreter runs in a *)
(* loop of their own, nested as deep as the workflow is. The older DSL     *)
(* executor is the same main loop with other steps and neither bodies nor  *)
(* signals.                                                                *)
(*                                                                         *)
(* Sources: AgentFrameWork/fsm_interpreter.py, dsl_executor.py, and the    *)
(* steps the latter takes from pipeline_executor.py and tool_executor.py.  *)
(*                                                                         *)
(* The call stack of the loops is the sequence `stack`; what a condition,  *)
(* a model or a skill answers is any answer. Pauses are in SignalChannel.  *)
(***************************************************************************)
EXTENDS Naturals, Sequences, FiniteSets

CONSTANTS
  Flows,    \* workflows: [engine : {"fsm", "dsl"}, steps : their steps in order]
  Node,     \* step -> [type, next, alt (other targets), onError]
  Body,     \* compound step -> steps of its body, in order
  Items,    \* for step -> how many values it goes through
  Nil,      \* no step
  MaxIter   \* max_iterations

Compound == {"while", "for", "if", "group"}
Known ==
  [fsm |-> Compound \cup {"llm", "call", "tool", "switch", "sleep", "end", "set", "spawn",
                          "handoff", "agent_call", "break", "continue"},
   dsl |-> {"llm", "tool", "switch", "sleep", "end", "set", "transform", "hook"}]

In(seq) == {seq[i] : i \in DOMAIN seq}

\* _find_entry_point: the first step nobody names as next; on_error is no name.
Entry(seq) ==
  LET named == UNION {{Node[s].next} \cup Node[s].alt : s \in In(seq)}
      free == {i \in DOMAIN seq : seq[i] \notin named}
  IN  IF seq = <<>> THEN Nil
      ELSE IF free = {} THEN seq[1]
      ELSE seq[CHOOSE i \in free : \A j \in free : i <= j]

\* A while whose body is empty never ends while its condition holds, as no iteration
\* is counted, and a body entered by continue does nothing: no flow has them.
ASSUME FlowAssumption ==
  /\ MaxIter \in Nat /\ Nil \notin DOMAIN Node
  /\ \A f \in Flows : f.engine \in {"fsm", "dsl"} /\ f.steps \in Seq(DOMAIN Node)
  /\ \A s \in DOMAIN Body : Body[s] \in Seq(DOMAIN Node)
  /\ \A s \in DOMAIN Node : Node[s].type \in Compound => s \in DOMAIN Body
  /\ \A s \in DOMAIN Node : Node[s].type = "for" => Items[s] \in Nat
  /\ \A s \in DOMAIN Node : Node[s].type = "while" => Body[s] # <<>>
  /\ \A s \in DOMAIN Body : Body[s] # <<>> => Node[Entry(Body[s])].type # "continue"

VARIABLES
  flow,    \* the workflow
  stack,   \* loops under way: [in : compound step or Nil, cur : step or Nil, left : items]
  status,  \* result.status
  iter,    \* result.iterations
  kill,    \* a kill: "none", "sent" or "seen" (by a check)
  since    \* history: handlers called since the kill was seen

flowVars == <<flow, stack, status, iter, kill, since>>

Over == stack = <<>>
Top  == stack[Len(stack)]
Steps(in) == IF in = Nil THEN flow.steps ELSE Body[in]

Frame(in, left) == [in |-> in, cur |-> Entry(Steps(in)), left |-> left]

FlowInit ==
  /\ flow \in Flows
  /\ stack = <<Frame(Nil, 0)>>
  /\ status = "running" /\ iter = 0 /\ kill = "none" /\ since = 0

FlowTypeOK ==
  /\ flow \in Flows
  /\ \A i \in DOMAIN stack : stack[i].in \in DOMAIN Node \cup {Nil} /\ stack[i].left \in Nat
  /\ status \in {"running", "failed", "success", "sleeping", "aborted", "raised"}
  /\ iter \in 0 .. MaxIter /\ kill \in {"none", "sent", "seen"} /\ since \in 0 .. MaxIter

-----------------------------------------------------------------------------
(* Ends and moves *)

\* Every loop on the stack returns at once: "stop", or False to the main loop.
Stop(st) == stack' = <<>> /\ status' = st

\* Mutant of Goto: only an end of the run stops a loop.
GotoAnyway(rest, target) ==
  stack' = [rest EXCEPT ![Len(rest)].cur = target] /\ UNCHANGED status

\* The handler returned True: the loop goes on unless the status has changed.
Goto(rest, target) ==
  IF status = "running"
  THEN stack' = [rest EXCEPT ![Len(rest)].cur = target] /\ UNCHANGED status
  ELSE Stop(status)
Proceed(target) == Goto(stack, target)

Push(s, left) == stack' = Append(stack, Frame(s, left)) /\ UNCHANGED status

\* _branch_on_error
OnError(s) == IF Node[s].onError # Nil THEN Proceed(Node[s].onError) ELSE Stop("failed")

-----------------------------------------------------------------------------
(* Steps *)

\* A kill is seen at each chunk; the DSL executor and spawn, handoff and tool have
\* no on_error.
LlmCall(s) ==
  \/ Proceed(Node[s].next) /\ UNCHANGED kill
  \/ /\ IF flow.engine = "fsm" THEN OnError(s) ELSE Stop("failed")
     /\ UNCHANGED kill
  \/ /\ flow.engine = "fsm" /\ kill = "sent"
     /\ kill' = "seen" /\ Stop("aborted")

\* A failure reported by the skill branches, an exception ends the run.
Call(s)      == Proceed(Node[s].next) \/ OnError(s) \/ Stop("failed")
ToolCall(s)  == Proceed(Node[s].next) \/ Stop("failed")
Spawn(s)     == Proceed(Node[s].next) \/ Stop("failed")
Handoff(s)   == Proceed(Node[s].next) \/ Stop("failed")
AgentCall(s) == Proceed(Node[s].next) \/ OnError(s)
Switch(s)    == \E target \in Node[s].alt : Proceed(target)
SetVariable(s) == Proceed(Node[s].next)
Sleep        == Stop("sleeping")
End          == Stop("success") \/ Stop("failed")

\* DSL only: concat, extract_context, translate_context, and call_function, whose
\* PipelineError nobody catches; then save_state, connect, signal_successor.
Transform(s) == Proceed(Node[s].next) \/ Stop("raised")
Hook(s)      == Proceed(Node[s].next)

-----------------------------------------------------------------------------
(* Bodies *)

Below == SubSeq(stack, 1, Len(stack) - 1)

\* One more pass, unless the limit is reached; with an empty body nothing is left.
Pass(s, frames, left) ==
  IF iter' >= MaxIter THEN Stop("failed")
  ELSE stack' = Append(frames, Frame(s, left)) /\ UNCHANGED status

While(s) == Proceed(Node[s].next) \/ Pass(s, stack, 0)
For(s) ==
  IF Items[s] = 0 \/ Body[s] = <<>> THEN Proceed(Node[s].next) ELSE Pass(s, stack, Items[s] - 1)
If(s) ==
  \/ Proceed(Node[s].next)
  \/ Body[s] # <<>> /\ Push(s, 0)
Group(s) == IF Body[s] = <<>> THEN Proceed(Node[s].next) ELSE Push(s, 0)

\* What _run_body returned to the compound step it is the body of. An `if` or a
\* `group` takes break and continue for itself: the loop around it goes on.
Return(code) ==
  LET s == Top.in IN
    IF Node[s].type = "while" /\ code # "break"
    THEN Goto(Below, Node[s].next) \/ Pass(s, Below, 0)
    ELSE IF Node[s].type = "for" /\ code # "break" /\ Top.left > 0
    THEN Pass(s, Below, Top.left - 1)
    ELSE Goto(Below, Node[s].next)

\* break and continue; outside of any body they end the run, still "running".
LoopControl(code) == IF Len(stack) = 1 THEN Stop(status) ELSE Return(code)

-----------------------------------------------------------------------------
(* The loops *)

SendKill == /\ kill = "none" /\ kill' = "sent" /\ ~Over
            /\ UNCHANGED <<flow, stack, status, iter, since>>

\* The main loop checks before each step, and then calls its handler all the same.
CheckSignals ==
  /\ ~Over /\ flow.engine = "fsm" /\ Len(stack) = 1 /\ Top.cur # Nil /\ iter < MaxIter
  /\ kill = "sent" /\ kill' = "seen" /\ status' = "aborted"
  /\ UNCHANGED <<flow, stack, iter, since>>

Checked == Len(stack) = 1 /\ flow.engine = "fsm" => kill # "sent"

Found == Top.cur \in In(Steps(Top.in)) /\ Node[Top.cur].type \in Known[flow.engine]

Handle(s) ==
  LET t == Node[s].type IN
  IF t = "llm" THEN LlmCall(s) ELSE
    /\ UNCHANGED kill
    /\ CASE t = "call" -> Call(s)
         [] t = "tool" -> ToolCall(s)
         [] t = "spawn" -> Spawn(s)
         [] t = "handoff" -> Handoff(s)
         [] t = "agent_call" -> AgentCall(s)
         [] t = "switch" -> Switch(s)
         [] t = "set" -> SetVariable(s)
         [] t = "sleep" -> Sleep
         [] t = "end" -> End
         [] t = "transform" -> Transform(s)
         [] t = "hook" -> Hook(s)
         [] t = "while" -> While(s)
         [] t = "for" -> For(s)
         [] t = "if" -> If(s)
         [] t = "group" -> Group(s)
         [] OTHER -> LoopControl(t)

Step ==
  /\ ~Over /\ Top.cur # Nil /\ Checked /\ iter < MaxIter /\ Found
  /\ iter' = iter + 1
  /\ since' = IF kill = "seen" THEN since + 1 ELSE since
  /\ Handle(Top.cur)
  /\ UNCHANGED flow

\* The step is unknown, or its id is none of this body.
NotFound ==
  /\ ~Over /\ Top.cur # Nil /\ Checked /\ iter < MaxIter /\ ~Found
  /\ iter' = IF Top.cur \in In(Steps(Top.in)) THEN iter + 1 ELSE iter
  /\ Stop("failed") /\ UNCHANGED <<flow, kill, since>>

\* A loop has no next step; the main loop then returns.
FellOut ==
  /\ ~Over /\ Top.cur = Nil
  /\ UNCHANGED <<flow, iter, kill, since>>
  /\ IF Len(stack) > 1 THEN Return("normal")
     ELSE Stop(IF iter >= MaxIter /\ status = "running" THEN "failed" ELSE status)

\* Mutant of Limit: only the main loop counts.
LimitMain ==
  /\ ~Over /\ Len(stack) = 1 /\ Top.cur # Nil /\ iter >= MaxIter
  /\ Stop(IF status = "running" THEN "failed" ELSE status)
  /\ UNCHANGED <<flow, iter, kill, since>>

Limit ==
  /\ ~Over /\ Top.cur # Nil /\ iter >= MaxIter
  /\ Stop(IF Len(stack) > 1 \/ status = "running" THEN "failed" ELSE status)
  /\ UNCHANGED <<flow, iter, kill, since>>

FlowStep == Step \/ NotFound \/ FellOut \/ Limit \/ CheckSignals
FlowNext == SendKill \/ FlowStep
FlowSpec == FlowInit /\ [][FlowNext]_flowVars /\ WF_flowVars(FlowStep)

-----------------------------------------------------------------------------
(* Properties *)

\* Whatever the nesting, the conditions and the answers, a workflow ends: the
\* limit counts the steps of all the loops together.
FlowEnds == <>Over

\* Once a kill is seen, only the handler that follows is called and, if it enters
\* bodies, the first step of each: no body gets to a second step, no loop to a
\* second pass, and the main loop to no other step.
KilledSoon == kill = "seen" /\ ~Over => since < Len(stack)
=============================================================================
