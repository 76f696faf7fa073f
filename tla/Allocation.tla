----------------------------- MODULE Allocation -----------------------------
(***************************************************************************)
(* The choice of a provider and a model for an agent that names none or    *)
(* only one of them: among the providers with a key and the local engines  *)
(* that run, both read anew at each step of the choice, while keys come    *)
(* and go and the engine is started and stopped.                           *)
(*                                                                         *)
(* Sources: modules/llm_manager/{organisateur,local_engines}.py, recommend *)
(* and list_models of modules/llm_manager/llm_manager.py, list_providers   *)
(* of modules/key_manager/key_manager.py. Of the engines only Ollama can   *)
(* be started. The models a local engine serves are never taken: the code  *)
(* looks for an "ok" that list_models does not return.                     *)
(***************************************************************************)
EXTENDS Naturals, Sequences, FiniteSets, Functions

CONSTANTS
  Choosers,   \* calls of allocate
  Vendors,    \* refs of providers and of the engine, sorted
  Engine,     \* the ref of the local engine
  Advice,     \* providers of the recommendations that fit, in their order
  Unnamed     \* no provider

ASSUME AllocationAssumption ==
  /\ Vendors \in Seq(Range(Vendors)) /\ Advice \in Seq(Range(Vendors))
  /\ Engine \in Range(Vendors) /\ Unnamed \notin Range(Vendors)

VARIABLES
  keyed,    \* providers with a key
  stocked,  \* providers of which the catalogue links a model
  engine,   \* [serving : "none", "own" or "other", starting : of "own", "other"]
  choice,   \* call -> [pc, wants, model, keys : as read, outcome, provider, by]
  seen,     \* history: call -> providers available at some time since it began
  always    \* history: call -> those available all the time

allocVars == <<keyed, stocked, engine, choice, seen, always>>

Running == IF engine.serving = "none" THEN {} ELSE {Engine}
Available == keyed \cup Running
Unasked == [pc |-> "idle", wants |-> Unnamed, model |-> FALSE, keys |-> {},
            outcome |-> "none", provider |-> Unnamed, by |-> "none"]

AllocInit ==
  /\ keyed = {} /\ stocked \in SUBSET Range(Vendors)
  /\ engine = [serving |-> "none", starting |-> {}]
  /\ choice = [c \in Choosers |-> Unasked]
  /\ seen = [c \in Choosers |-> {}] /\ always = [c \in Choosers |-> {}]

-----------------------------------------------------------------------------
(* allocate *)

\* A model is named only with its provider.
Ask(c, p, model) ==
  /\ choice[c].pc = "idle" /\ (model => p # Unnamed)
  /\ choice' = [choice EXCEPT ![c] = [Unasked EXCEPT !.pc = "keys", !.wants = p, !.model = model]]
  /\ seen' = [seen EXCEPT ![c] = Available] /\ always' = [always EXCEPT ![c] = Available]
  /\ UNCHANGED <<keyed, stocked, engine>>

Decided(c, p, by) == [choice[c] EXCEPT !.pc = "over", !.outcome = "allocated", !.provider = p, !.by = by]
Over(c, outcome)  == [choice[c] EXCEPT !.pc = "over", !.outcome = outcome]
First(list, S) == list[CHOOSE i \in DOMAIN list : list[i] \in S /\ \A j \in 1 .. i - 1 : list[j] \notin S]

\* _pick_model: the first link, whatever the level.
Pick(c, p, otherwise) == IF p \in stocked THEN Decided(c, p, "catalogue") ELSE otherwise

\* available_providers. The last resort asks for the engine only without a key.
ReadKeys(c) ==
  /\ choice[c].pc \in {"keys", "any", "last"}
  /\ choice' = [choice EXCEPT
       ![c].keys = keyed,
       ![c].pc = CASE @ = "keys" -> "engine"
                   [] @ = "any"  -> IF keyed # {} THEN "last" ELSE "any engine"
                   [] OTHER      -> "last engine"]
  /\ UNCHANGED <<keyed, stocked, engine, seen, always>>

\* Mutant of Advised: a recommendation is followed whatever is available.
AdvisedAnyhow(available) == Range(Advice)

\* recommend, the providers that are available.
Advised(available) == Range(Advice) \cap available

\* running_local_engines, and the choice: the wanted provider, a recommendation, the
\* first available one in the order of the names.
ChooseWanted(c) ==
  /\ choice[c].pc = "engine" /\ choice[c].wants # Unnamed
  /\ LET p == choice[c].wants IN
     choice' = [choice EXCEPT ![c] =
       IF p \notin choice[c].keys \cup Running THEN Over(c, "refused")
       ELSE IF choice[c].model THEN Decided(c, p, "named")
       ELSE Pick(c, p, Over(c, "refused"))]
  /\ UNCHANGED <<keyed, stocked, engine, seen, always>>

Recommend(c) ==
  /\ choice[c].pc = "engine" /\ choice[c].wants = Unnamed
  /\ LET available == choice[c].keys \cup Running
         resort    == [choice[c] EXCEPT !.pc = "any"]
     IN  choice' = [choice EXCEPT ![c] =
           IF Advised(available) # {} THEN Decided(c, First(Advice, Advised(available)), "advice")
           ELSE IF available # {} THEN Pick(c, First(Vendors, available), resort)
           ELSE resort]
  /\ UNCHANGED <<keyed, stocked, engine, seen, always>>

\* The last resort, if there is anything.
AnyEngine(c) ==
  /\ choice[c].pc = "any engine"
  /\ choice' = [choice EXCEPT ![c] = IF Running # {} THEN [@ EXCEPT !.pc = "last"] ELSE Over(c, "refused")]
  /\ UNCHANGED <<keyed, stocked, engine, seen, always>>

\* The first of a list that comes from a set; of an empty list it is an IndexError.
LastResort(c) ==
  /\ choice[c].pc = "last engine"
  /\ LET found == IF choice[c].keys # {} THEN choice[c].keys ELSE Running IN
     \/ found = {} /\ choice' = [choice EXCEPT ![c] = Over(c, "error")]
     \/ \E p \in found : choice' = [choice EXCEPT ![c] = Pick(c, p, Over(c, "refused"))]
  /\ UNCHANGED <<keyed, stocked, engine, seen, always>>

Return(c) ==
  /\ choice[c].pc = "over" /\ choice' = [choice EXCEPT ![c] = Unasked]
  /\ UNCHANGED <<keyed, stocked, engine, seen, always>>

-----------------------------------------------------------------------------
(* The keys and LocalEngineManager *)

\* What the calls under way may see after a change.
Noticed ==
  /\ seen' = [c \in Choosers |-> IF choice[c].pc \in {"idle", "over"} THEN seen[c] ELSE seen[c] \cup Available']
  /\ always' = [c \in Choosers |-> IF choice[c].pc \in {"idle", "over"} THEN always[c] ELSE always[c] \cap Available']
  /\ UNCHANGED <<stocked, choice>>

ChangeKeyOf(p) ==
  /\ keyed' = IF p \in keyed THEN keyed \ {p} ELSE keyed \cup {p}
  /\ UNCHANGED engine /\ Noticed

\* start: the port is closed, a process is launched and its handle kept. A second
\* start before the port is open replaces the handle of the first.
StartEngine ==
  /\ engine.serving = "none" /\ "other" \notin engine.starting
  /\ engine' = [engine EXCEPT !.starting = IF @ = {} THEN {"own"} ELSE {"own", "other"}]
  /\ UNCHANGED keyed /\ Noticed

\* One of them takes the port, the other ends.
OpenPort(x) ==
  /\ x \in engine.starting /\ engine' = [serving |-> x, starting |-> {}]
  /\ UNCHANGED keyed /\ Noticed

\* stop: the process of the handle if it lives, otherwise all that bear the name.
StopEngine ==
  LET alive == "own" \in engine.starting \cup {engine.serving} IN
  /\ engine' = IF alive
               THEN [serving |-> IF engine.serving = "own" THEN "none" ELSE engine.serving,
                     starting |-> engine.starting \ {"own"}]
               ELSE [serving |-> "none", starting |-> {}]
  /\ engine' # engine /\ UNCHANGED keyed /\ Noticed

\* The user starts the engine, or it ends.
ChangeEngine ==
  /\ engine' = [serving |-> IF engine.serving = "none" THEN "other" ELSE "none", starting |-> {}]
  /\ UNCHANGED keyed /\ Noticed

AllocNext ==
  \/ \E c \in Choosers :
       \/ \E p \in Range(Vendors) \cup {Unnamed}, model \in BOOLEAN : Ask(c, p, model)
       \/ ReadKeys(c) \/ ChooseWanted(c) \/ Recommend(c) \/ AnyEngine(c) \/ LastResort(c) \/ Return(c)
  \/ \E p \in Range(Vendors) \ {Engine} : ChangeKeyOf(p)
  \/ StartEngine \/ (\E x \in engine.starting : OpenPort(x)) \/ StopEngine \/ ChangeEngine

AllocSpec == AllocInit /\ [][AllocNext]_allocVars

-----------------------------------------------------------------------------
\* Whatever comes and goes between its reads, a call gets a provider that was available
\* since it began, with a model of that provider unless it was named or recommended. It
\* is refused, or raises, only if nothing it wants was available all the time or some
\* provider it may have met has no model in the catalogue.
AllocatedIsBacked ==
  \A c \in Choosers : LET o == choice[c] IN
    /\ o.outcome = "allocated" =>
         o.provider \in seen[c] /\ (o.by = "catalogue" => o.provider \in stocked)
    /\ o.outcome \in {"refused", "error"} =>
         IF o.wants = Unnamed THEN always[c] = {} \/ (o.outcome = "refused" /\ ~(seen[c] \subseteq stocked))
         ELSE o.wants \notin always[c] \/ (~o.model /\ o.wants \notin stocked)
=============================================================================
