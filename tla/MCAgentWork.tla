----------------------------- MODULE MCAgentWork -----------------------------
(***************************************************************************)
(* Seven components of an agent at work, which share no state, checked in  *)
(* one run: in a behaviour only one of them moves, so the states are the   *)
(* sum of theirs and not the product.                                      *)
(***************************************************************************)
EXTENDS WorkflowRun, StreamBus, AgentStorage, AgentHome, AgentInbox, AgentMemory,
        SkillCalls, TLC

VARIABLE part  \* the component that moves

workVars == <<flowVars, streamVars, storageVars, homeVars, inboxVars, memoryVars,
              skillVars, part>>

\* The others are in one initial state.
WorkInit ==
  /\ part \in {"flow", "stream", "storage", "home", "inbox", "memory", "skills"}
  /\ FlowInit /\ StreamInit /\ StorageInit /\ HomeInit /\ InboxInit /\ MemoryInit
  /\ SkillInit
  /\ part # "flow" => flow = CHOOSE f \in Flows : TRUE
  /\ part # "stream" => shared

FlowMoves(A)    == part = "flow" /\ A /\ UNCHANGED <<streamVars, storageVars, homeVars, inboxVars, memoryVars, skillVars, part>>
StreamMoves(A)  == part = "stream" /\ A /\ UNCHANGED <<flowVars, storageVars, homeVars, inboxVars, memoryVars, skillVars, part>>
StorageMoves(A) == part = "storage" /\ A /\ UNCHANGED <<flowVars, streamVars, homeVars, inboxVars, memoryVars, skillVars, part>>
HomeMoves(A)    == part = "home" /\ A /\ UNCHANGED <<flowVars, streamVars, storageVars, inboxVars, memoryVars, skillVars, part>>
InboxMoves(A)   == part = "inbox" /\ A /\ UNCHANGED <<flowVars, streamVars, storageVars, homeVars, memoryVars, skillVars, part>>
MemoryMoves(A)  == part = "memory" /\ A /\ UNCHANGED <<flowVars, streamVars, storageVars, homeVars, inboxVars, skillVars, part>>
SkillMoves(A)   == part = "skills" /\ A /\ UNCHANGED <<flowVars, streamVars, storageVars, homeVars, inboxVars, memoryVars, part>>

WorkNext ==
  \/ FlowMoves(FlowNext) \/ StreamMoves(StreamNext) \/ StorageMoves(StorageNext)
  \/ HomeMoves(HomeNext) \/ InboxMoves(InboxNext) \/ MemoryMoves(MemoryNext)
  \/ SkillMoves(SkillNext)

\* The fairness of FlowSpec.
WorkSpec == WorkInit /\ [][WorkNext]_workVars /\ WF_workVars(FlowMoves(FlowStep))

\* FlowEnds, of the behaviours in which the workflow runs: whatever the nesting, the
\* conditions and the answers, a workflow ends.
WorkEnds == part = "flow" => FlowEnds

-----------------------------------------------------------------------------
(* Workflows with every type of step, loops nested three deep, steps that name *)
(* each other in a circle, a step that is missing, and a body left by break.   *)
CONSTANTS b1, b2, o1, o2, f1, f2, wh, ask, ifs, brk, set, fin, for, grp, cal, cnt, sw, slp, d1, d2, d3, d4, s1, s2, s3, s4, n1, n2, todo, plan

N(type, next, alt, onError) == [type |-> type, next |-> next, alt |-> alt, onError |-> onError]

MCNode ==
  (wh :> N("while", fin, {}, Nil)) @@ (ask :> N("llm", ifs, {}, set)) @@
  (ifs :> N("if", set, {}, Nil)) @@ (brk :> N("break", Nil, {}, Nil)) @@
  (set :> N("set", Nil, {}, Nil)) @@ (fin :> N("end", Nil, {}, Nil)) @@
  (for :> N("for", sw, {}, Nil)) @@ (grp :> N("group", cnt, {}, Nil)) @@
  (cal :> N("call", Nil, {}, fin)) @@ (cnt :> N("continue", Nil, {}, Nil)) @@
  (sw :> N("switch", Nil, {for, slp}, Nil)) @@ (slp :> N("sleep", Nil, {}, Nil)) @@
  (d1 :> N("llm", d2, {}, Nil)) @@ (d2 :> N("transform", d3, {}, Nil)) @@
  (d3 :> N("hook", d4, {}, Nil)) @@ (d4 :> N("switch", Nil, {d1, cal}, Nil)) @@
  (s1 :> N("spawn", s2, {}, Nil)) @@ (s2 :> N("agent_call", s3, {}, Nil)) @@
  (s3 :> N("tool", s4, {}, Nil)) @@ (s4 :> N("handoff", Nil, {}, Nil))

MCBody == (wh :> <<ask, ifs, set>>) @@ (ifs :> <<brk>>) @@ (for :> <<grp, cnt>>) @@ (grp :> <<cal>>)

MCFlows ==
  {[engine |-> "fsm", steps |-> <<wh, fin>>], [engine |-> "fsm", steps |-> <<for, sw, slp>>],
   [engine |-> "dsl", steps |-> <<d1, d2, d3, d4, cal>>],
   [engine |-> "fsm", steps |-> <<s1, s2, s3, s4>>]}

MCItems == (for :> 2)

\* Two files of the home, with an alias each.
MCStem == (n1 :> todo) @@ (n2 :> plan)
=============================================================================
