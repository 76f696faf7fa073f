-------------------------- MODULE MCAgentLifecycle --------------------------
(* Values TLC gives to the functional constants of AgentLifecycle. *)
EXTENDS AgentLifecycle, TLC

CONSTANTS a1, a2, t1, t2, m1, afd, gw

\* a1 is the agent that admission may preempt in favour of a2.
MCPriority == [a \in Agents |-> IF a = a1 THEN 3 ELSE 8]
=============================================================================
