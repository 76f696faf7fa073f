------------------------------ MODULE SkillCalls ------------------------------
(***************************************************************************)
(* The skills that the steps and the hooks of agents call. One             *)
(* SkillManager serves all threads of a process and keeps the directory    *)
(* skills work in as an attribute: every entry point sets it, the call     *)
(* reads it later. Hooks are subscriptions to one event bus: each step of  *)
(* an agent runs the hooks of every call that has the agent hydrated.      *)
(*                                                                         *)
(* Sources: services/skill_manager.py, services/lifecycle.py, the calls of *)
(* AgentFrameWork/fsm_interpreter.py and services/agent_manager/service.py.*)
(***************************************************************************)
EXTENDS Naturals, FiniteSets

CONSTANTS
  Owners,   \* the agents, each the owner of a home
  Threads,
  Common,   \* "/tmp", where hooks and calls without an agent work
  Nobody,
  MaxLeft   \* bound: calls on an agent that are abandoned

ASSUME SkillAssumption == Common \notin Owners /\ Nobody \notin Threads \cup Owners /\ MaxLeft \in Nat

\* A workspace: the home of an agent, or the common one.
Workspaces == Owners \cup {Common}

VARIABLES
  instance,  \* _INSTANCE, named after the thread that made it
  root,      \* manager -> its workspace_root
  at,        \* thread -> "idle", or in a call: "ready" between two skills; in _get: "enter",
             \*           "create", "load"; "called": it has its manager
  serves,    \* thread -> the agent it hydrated, or Nobody
  want,      \* thread -> the workspace it calls a skill with
  why,       \* thread -> who calls: "expand", "step" or "hook"
  manager,   \* thread -> what _get returned
  hooks,     \* thread -> callbacks of its last step still to run
  subs,      \* agent -> threads whose LifecycleManager is subscribed
  left,      \* agent -> subscriptions of calls that were abandoned
  between    \* history: thread -> workspaces others entered with since it set its own

skillVars == <<instance, root, at, serves, want, why, manager, hooks, subs, left, between>>

SkillInit ==
  /\ instance = Nobody /\ root = [t \in Threads |-> Common]
  /\ at = [t \in Threads |-> "idle"]
  /\ serves = [t \in Threads |-> Nobody] /\ want = [t \in Threads |-> Common]
  /\ why = [t \in Threads |-> "step"] /\ manager = [t \in Threads |-> Nobody]
  /\ hooks = [t \in Threads |-> 0]
  /\ subs = [a \in Owners |-> {}] /\ left = [a \in Owners |-> 0]
  /\ between = [t \in Threads |-> {}]

-----------------------------------------------------------------------------
(* The call of an agent *)

\* Agent.__init__ subscribes; execute then expands its workflow, if there is one.
Hydrate(t, a) ==
  /\ at[t] = "idle"
  /\ serves' = [serves EXCEPT ![t] = a] /\ subs' = [subs EXCEPT ![a] = @ \cup {t}]
  /\ want' = [want EXCEPT ![t] = Common]
  /\ \/ at' = [at EXCEPT ![t] = "enter"] /\ why' = [why EXCEPT ![t] = "expand"]
     \/ at' = [at EXCEPT ![t] = "ready"] /\ UNCHANGED why
  /\ UNCHANGED <<instance, root, manager, hooks, left, between>>

\* publish: the callbacks subscribed for the agent of the event, and only they.
Callbacks(t) == Cardinality(subs[serves[t]]) + left[serves[t]]

\* A call or a tool step: its own home if the workflow knows its agent_id.
CallSkill(t) ==
  /\ at[t] = "ready" /\ hooks[t] = 0
  /\ want' \in {[want EXCEPT ![t] = w] : w \in {serves[t], Common}}
  /\ at' = [at EXCEPT ![t] = "enter"] /\ why' = [why EXCEPT ![t] = "step"]
  /\ UNCHANGED <<instance, root, serves, manager, hooks, subs, left, between>>

\* Any other step.
OtherStep(t) ==
  /\ at[t] = "ready" /\ hooks[t] = 0
  /\ hooks' = [hooks EXCEPT ![t] = Callbacks(t)]
  /\ UNCHANGED <<instance, root, at, serves, want, why, manager, subs, left, between>>

RunHook(t) ==
  /\ at[t] = "ready" /\ hooks[t] > 0
  /\ hooks' = [hooks EXCEPT ![t] = @ - 1]
  /\ at' = [at EXCEPT ![t] = "enter"]
  /\ want' = [want EXCEPT ![t] = Common] /\ why' = [why EXCEPT ![t] = "hook"]
  /\ UNCHANGED <<instance, root, serves, manager, subs, left, between>>

Ends(t) == /\ at[t] = "ready" /\ hooks[t] = 0
           /\ at' = [at EXCEPT ![t] = "idle"]
           /\ serves' = [serves EXCEPT ![t] = Nobody]
           /\ subs' = [subs EXCEPT ![serves[t]] = @ \ {t}]
           /\ UNCHANGED <<instance, root, want, why, manager, hooks, between>>

\* dehydrate: cleanup unsubscribes.
Dehydrate(t) == Ends(t) /\ UNCHANGED left

\* An exception on the way to dehydrate: the callbacks stay on the bus.
Abandon(t) == /\ Ends(t) /\ left[serves[t]] < MaxLeft
              /\ left' = [left EXCEPT ![serves[t]] = @ + 1]

-----------------------------------------------------------------------------
(* _get and SkillManager.call *)

\* m works from now on where t wants; the threads that set theirs before note it.
Sets(t, m) ==
  /\ root' = [root EXCEPT ![m] = want[t]]
  /\ between' = [u \in Threads |-> IF u # t /\ at[u] \in {"load", "called"}
                                  THEN between[u] \cup {want[t]} ELSE {}]

\* Mutant of Enter: the workspace is only set when the manager is made.
EnterOnly(t) ==
  /\ at[t] = "enter"
  /\ at' = [at EXCEPT ![t] = IF instance = Nobody THEN "create" ELSE "load"]
  /\ between' = [between EXCEPT ![t] = {}]
  /\ UNCHANGED <<instance, root, serves, want, why, manager, hooks, subs, left>>

\* The test of _INSTANCE; two threads may both find none.
Enter(t) ==
  /\ at[t] = "enter"
  /\ IF instance = Nobody
     THEN at' = [at EXCEPT ![t] = "create"] /\ UNCHANGED <<root, between>>
     ELSE at' = [at EXCEPT ![t] = "load"] /\ Sets(t, instance)
  /\ UNCHANGED <<instance, serves, want, why, manager, hooks, subs, left>>

Create(t) ==
  /\ at[t] = "create"
  /\ instance' = t /\ Sets(t, t)
  /\ at' = [at EXCEPT ![t] = "load"]
  /\ UNCHANGED <<serves, want, why, manager, hooks, subs, left>>

\* The definitions are loaded (under a lock, once); _INSTANCE is read again.
Load(t) ==
  /\ at[t] = "load"
  /\ manager' = [manager EXCEPT ![t] = instance]
  /\ at' = [at EXCEPT ![t] = "called"]
  /\ UNCHANGED <<instance, root, serves, want, why, hooks, subs, left, between>>

\* call reads workspace_root and runs the function. A step that succeeded publishes.
Run(t) ==
  /\ at[t] = "called" /\ at' = [at EXCEPT ![t] = "ready"]
  /\ IF why[t] = "step"
     THEN \E n \in {0, Callbacks(t)} : hooks' = [hooks EXCEPT ![t] = n]
     ELSE UNCHANGED hooks
  /\ want' = [want EXCEPT ![t] = Common] /\ why' = [why EXCEPT ![t] = "step"]
  /\ manager' = [manager EXCEPT ![t] = Nobody] /\ between' = [between EXCEPT ![t] = {}]
  /\ UNCHANGED <<instance, root, serves, subs, left>>

SkillNext == \E t \in Threads :
  \/ \E a \in Owners : Hydrate(t, a)
  \/ CallSkill(t) \/ OtherStep(t) \/ RunHook(t) \/ Dehydrate(t) \/ Abandon(t)
  \/ Enter(t) \/ Create(t) \/ Load(t) \/ Run(t)

SkillSpec == SkillInit /\ [][SkillNext]_skillVars

-----------------------------------------------------------------------------
(* Properties *)

\* A skill works where its caller asked, or where a call, a hook or an expansion of
\* another thread that came in between did. When nobody comes in between, an agent
\* never works in the home of another one.
WorksAtHome ==
  \A t \in Threads : at[t] = "called" => root[manager[t]] \in {want[t]} \cup between[t]

=============================================================================
