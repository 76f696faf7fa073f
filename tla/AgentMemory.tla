------------------------------ MODULE AgentMemory ------------------------------
(***************************************************************************)
(* The memory of an agent, agents.variables_json: the turns of its         *)
(* conversation and its variables, here facts that come one by one. It is  *)
(* one column, read when a call starts and written back as a whole when    *)
(* the call ends, by turns of chat, executions, updates of the session and *)
(* successions, in the threads of the gateway and of the AFD, without a    *)
(* lock. A `configure` signal adds to the copy of the execution that       *)
(* consumes it.                                                            *)
(*                                                                         *)
(* Sources: services/agent_manager/service.py (hydrate, chat_turn,         *)
(* _execute_with_fsm, _make_signal_check, handoff, the chat sessions),     *)
(* services/agent_daemon/service.py, the sessions of                       *)
(* services/api/daemon.py, modules/sql/agents_schema.sql.                  *)
(***************************************************************************)
EXTENDS Naturals, FiniteSets

CONSTANTS
  Agents,
  Facts,  \* turns and settings
  Uses,   \* calls under way
  NoAgent

ASSUME MemoryAssumption == NoAgent \notin Agents

VARIABLES
  known,      \* agents in the table. Their ids are never used again.
  used,       \* agents that were ever in it
  successor,  \* agent -> its successor_id
  memory,     \* agent -> the facts in variables_json
  use,        \* call -> [kind, agent, to : of a succession, copy : what it read or made
              \*          of it, stale : was the memory it will write to written since?]
  told        \* history: agent -> facts a caller was told are in its memory, but for
              \*          those dropped since by the ways the code has

memoryVars == <<known, used, successor, memory, use, told>>

NoUse == [kind |-> "none", agent |-> NoAgent, to |-> NoAgent, copy |-> {}, stale |-> FALSE]
Untold == Facts \ (UNION {memory[a] \cup told[a] : a \in Agents} \cup UNION {use[u].copy : u \in Uses})

MemoryInit ==
  /\ known = {} /\ used = {} /\ successor = [a \in Agents |-> NoAgent]
  /\ memory = [a \in Agents |-> {}]
  /\ use = [u \in Uses |-> NoUse]
  /\ told = [a \in Agents |-> {}]

\* create_chat_session, spawn_agent, op_agent_create: an agent that knows nothing.
CreateAgent(a) ==
  /\ a \notin used /\ known' = known \cup {a} /\ used' = used \cup {a}
  /\ UNCHANGED <<successor, memory, use, told>>

\* One that succeeded another cannot be deleted before it.
DeleteAgent(a) ==
  /\ a \in known /\ \A b \in known \ {a} : successor[b] # a
  /\ known' = known \ {a} /\ memory' = [memory EXCEPT ![a] = {}]
  /\ successor' = [successor EXCEPT ![a] = NoAgent] /\ told' = [told EXCEPT ![a] = {}]
  /\ UNCHANGED <<used, use>>

-----------------------------------------------------------------------------
(* Calls *)

\* The row is read: a turn of chat, an execution of a workflow, an update of the
\* session. Without a workflow an execution keeps nothing.
Begin(u, kind, a) ==
  /\ use[u].kind = "none" /\ a \in known
  /\ use' = [use EXCEPT ![u] = [NoUse EXCEPT !.kind = kind, !.agent = a, !.copy = memory[a]]]
  /\ UNCHANGED <<known, used, successor, memory, told>>

\* handoff: the memory of one agent is read, the other one is looked up.
BeginHandoff(u, from, to) ==
  /\ use[u].kind = "none" /\ {from, to} \subseteq known
  /\ use' = [use EXCEPT ![u] = [NoUse EXCEPT !.kind = "handoff", !.agent = from, !.to = to, !.copy = memory[from]]]
  /\ UNCHANGED <<known, used, successor, memory, told>>

\* A configure signal is completed, its variables reported as applied.
Configure(u, f) ==
  LET a == use[u].agent IN
  /\ use[u].kind \in {"turn", "run"} /\ a \in known /\ f \in Untold
  /\ use' = [use EXCEPT ![u].copy = @ \cup {f}] /\ told' = [told EXCEPT ![a] = @ \cup {f}]
  /\ UNCHANGED <<known, used, successor, memory>>

\* What u told the facts of while it held them only in its copy.
Pending(u) == {f \in use[u].copy : f \in told[use[u].agent] \ memory[use[u].agent]}

\* u writes `facts` to the memory of a, tells `new` to its caller and ends. What it did
\* not know is overwritten: what others wrote since it read, or all there was when
\* another agent takes over.
Writes(u, a, facts, new) ==
  LET fact == IF a \in known THEN facts ELSE {}
      over == IF use[u].stale \/ use[u].kind = "handoff" THEN (memory[a] \cup Pending(u)) \ fact ELSE {}
  IN
  /\ memory' = [memory EXCEPT ![a] = fact]
  /\ told' = [told EXCEPT ![a] = (@ \ over) \cup (IF a \in known THEN new ELSE {})]
  /\ use' = [w \in Uses |->
       IF w = u THEN NoUse
       ELSE IF use[w].kind # "none" /\ a \in {use[w].agent, use[w].to} THEN [use[w] EXCEPT !.stale = TRUE]
       ELSE use[w]]

\* Mutant of FinishTurn: the variables of the run are written over the history.
FinishTurnOver(u, f) ==
  /\ use[u].kind = "turn" /\ f \in Untold /\ Writes(u, use[u].agent, use[u].copy, {f})
  /\ UNCHANGED <<known, used, successor>>

\* chat_turn: the history it read, the message and the reply.
FinishTurn(u, f) ==
  /\ use[u].kind = "turn" /\ f \in Untold /\ Writes(u, use[u].agent, use[u].copy \cup {f}, {f})
  /\ UNCHANGED <<known, used, successor>>

\* _execute_with_fsm: its variables, however it ended.
FinishRun(u) ==
  /\ use[u].kind = "run" /\ Writes(u, use[u].agent, use[u].copy, {})
  /\ UNCHANGED <<known, used, successor>>

\* update_chat_session
FinishUpdate(u, f) ==
  /\ use[u].kind = "update" /\ f \in Untold /\ Writes(u, use[u].agent, use[u].copy \cup {f}, {f})
  /\ UNCHANGED <<known, used, successor>>

\* The successor gets the memory of the other agent, not the variables of a run that
\* hands over, and in place of its own.
FinishHandoff(u) ==
  LET from == use[u].agent  to == use[u].to IN
  /\ use[u].kind = "handoff" /\ Writes(u, to, use[u].copy, use[u].copy)
  /\ successor' = IF {from, to} \subseteq known THEN [successor EXCEPT ![from] = to] ELSE successor
  /\ UNCHANGED <<known, used>>

\* A turn that failed, a kill, an error: nothing is written, completed signals included.
Give(u) ==
  /\ use[u].kind # "none" /\ use' = [use EXCEPT ![u] = NoUse]
  /\ told' = [told EXCEPT ![use[u].agent] = @ \ (IF use[u].kind = "handoff" THEN {} ELSE Pending(u))]
  /\ UNCHANGED <<known, used, successor, memory>>

MemoryNext ==
  \/ \E a \in Agents : CreateAgent(a) \/ DeleteAgent(a)
  \/ \E u \in Uses :
       \/ \E a \in Agents, kind \in {"turn", "run", "update"} : Begin(u, kind, a)
       \/ \E from, to \in Agents : BeginHandoff(u, from, to)
       \/ \E f \in Facts : Configure(u, f) \/ FinishTurn(u, f) \/ FinishUpdate(u, f)
       \/ FinishRun(u) \/ FinishHandoff(u) \/ Give(u)

MemorySpec == MemoryInit /\ [][MemoryNext]_memoryVars

-----------------------------------------------------------------------------
\* What a caller was told is in the memory of an agent (the turn that was answered, the
\* setting, the variables a signal changed in a run or a turn, the memory that was
\* handed over) stays there through turns, executions, updates and successions. The exceptions
\* are a write by a call that had read before another one wrote, a succession, and a
\* signal that was consumed by a call that kept nothing.
MemoryKept == \A a \in known : told[a] \subseteq memory[a] \cup
    UNION {use[u].copy : u \in {u \in Uses : use[u].kind \in {"turn", "run"} /\ use[u].agent = a}}
=============================================================================
