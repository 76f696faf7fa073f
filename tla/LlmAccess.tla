------------------------------ MODULE LlmAccess ------------------------------
(***************************************************************************)
(* Calls of a language model: resilient_chat, which runs each attempt in a *)
(* thread of its own, gives up on it after a while and asks for another    *)
(* model, and the bridge under it, which checks the budget, talks to the   *)
(* provider, retries once when the context is too long, and counts what    *)
(* was answered. A thread that was given up goes on to its end.            *)
(*                                                                         *)
(* Sources: modules/llm_manager/{resilient,litellm_bridge,base_bridge,     *)
(* llm_manager}.py, check_budget and record_usage of services/tarif.py.    *)
(***************************************************************************)
EXTENDS Naturals, Sequences, FiniteSets

CONSTANTS
  Callers,
  Offers,      \* [p, m] the catalogue offers, of providers with a key, in its order
  MaxRetries,
  Limit        \* req_per_min of each model; reached is not exceeded

ASSUME AccessAssumption ==
  /\ \A i \in DOMAIN Offers : DOMAIN Offers[i] = {"p", "m"}
  /\ DOMAIN Offers \subseteq Nat /\ 1 \in DOMAIN Offers
  /\ MaxRetries \in Nat \ {0} /\ Limit \in Nat

VARIABLES
  call,     \* caller -> [pc, attempt, llm, fallback, answer : attempt it came from or 0]
  chat,     \* <<caller, attempt>> -> thread [llm, pc, retried, answers, paid], once started
  used,     \* requests recorded in the window, per model
  locked    \* providers whose key is locked

llmVars == <<call, chat, used, locked>>

Llm == {Offers[i] : i \in DOMAIN Offers}
Attempt == 1 .. MaxRetries
CallPc == {"idle", "wait", "stream", "done", "failed"}
ChatPc == {"start", "sent", "answered", "ok", "err"}

LlmTypeOK ==
  /\ call \in [Callers -> [pc : CallPc, attempt : 0 .. MaxRetries, llm : Llm,
                           fallback : BOOLEAN, answer : 0 .. MaxRetries]]
  /\ DOMAIN chat \subseteq Callers \X Attempt
  /\ \A k \in DOMAIN chat :
       chat[k] \in [llm : Llm, pc : ChatPc, retried : BOOLEAN, answers : Nat, paid : Nat]
  /\ used \in [Llm -> Nat] /\ locked \subseteq {l.p : l \in Llm}

LlmInit ==
  /\ call = [c \in Callers |-> [pc |-> "idle", attempt |-> 0, llm |-> Offers[1],
                                fallback |-> TRUE, answer |-> 0]]
  /\ chat = [k \in {} |-> 0] /\ used = [l \in Llm |-> 0]
  /\ locked = {}

\* list_available_providers reads every key and lets KeyLockedError through.
Candidates(l) == {i \in DOMAIN Offers : Offers[i].p # l.p /\ Offers[i].m # l.m}

\* LLMManager.assign_llm: the first other one, which may be one that failed before.
Alternative(l) == Offers[CHOOSE i \in Candidates(l) : \A j \in Candidates(l) : i <= j]

Thread(l) == [llm |-> l, pc |-> "start", retried |-> FALSE, answers |-> 0, paid |-> 0]
Started(k, l) == [j \in DOMAIN chat \cup {k} |-> IF j = k THEN Thread(l) ELSE chat[j]]

-----------------------------------------------------------------------------
(* resilient_chat *)

Begin(c, l, fallback) ==
  /\ call[c].pc = "idle"
  /\ call' = [call EXCEPT ![c] = [@ EXCEPT !.pc = "wait", !.attempt = 1, !.llm = l,
                                           !.fallback = fallback]]
  /\ chat' = Started(<<c, 1>>, l)
  /\ UNCHANGED <<used, locked>>

Own(c) == <<c, call[c].attempt>>

Returns(c) ==
  /\ call[c].pc = "wait" /\ chat[Own(c)].pc = "ok"
  /\ call' = [call EXCEPT ![c].pc = "done", ![c].answer = call[c].attempt]
  /\ UNCHANGED <<chat, used, locked>>

\* The thread raised, or it is still alive after the timeout.
Failed(c) == call[c].pc = "wait" /\ chat[Own(c)].pc # "ok"

GivesUp(c) ==
  /\ Failed(c)
  /\ ~call[c].fallback \/ call[c].attempt = MaxRetries \/ Candidates(call[c].llm) = {}
       \/ locked # {}
  /\ call' = [call EXCEPT ![c].pc = "failed"]
  /\ UNCHANGED <<chat, used, locked>>

FallsBack(c) ==
  /\ Failed(c) /\ call[c].fallback /\ call[c].attempt < MaxRetries
  /\ Candidates(call[c].llm) # {} /\ locked = {}
  /\ LET other == Alternative(call[c].llm)
         next == call[c].attempt + 1
     IN  /\ call' = [call EXCEPT ![c].attempt = next, ![c].llm = other]
         /\ chat' = Started(<<c, next>>, other)
  /\ UNCHANGED <<used, locked>>

-----------------------------------------------------------------------------
(* LiteLLMBridge.chat, chat_stream *)

At(k, pc) == chat' = [chat EXCEPT ![k].pc = pc]

\* A locked key or an exhausted budget: nothing is sent.
Refused(k) ==
  /\ chat[k].pc = "start"
  /\ chat[k].llm.p \in locked \/ used[chat[k].llm] > Limit
  /\ At(k, "err")
  /\ UNCHANGED <<call, used, locked>>

Send(k) ==
  /\ chat[k].pc = "start"
  /\ chat[k].llm.p \notin locked /\ used[chat[k].llm] <= Limit
  /\ At(k, "sent")
  /\ UNCHANGED <<call, used, locked>>

ProviderAnswers(k) ==
  /\ chat[k].pc = "sent"
  /\ chat' = [chat EXCEPT ![k].pc = "answered", ![k].answers = @ + 1]
  /\ UNCHANGED <<call, used, locked>>

ProviderFails(k) ==
  /\ chat[k].pc = "sent" /\ At(k, "err")
  /\ UNCHANGED <<call, used, locked>>

\* A context error that names its limit: the call is sent again once, with that limit.
ContextExceeded(k) ==
  /\ chat[k].pc = "sent" /\ ~chat[k].retried /\ call[k[1]].pc # "stream"
  /\ chat' = [chat EXCEPT ![k].retried = TRUE]
  /\ UNCHANGED <<call, used, locked>>

Paid(k, pc) ==
  /\ chat' = [chat EXCEPT ![k].pc = pc, ![k].paid = @ + 1]
  /\ used' = [used EXCEPT ![chat[k].llm] = @ + 1]

\* Mutant of Record: a thread that was given up records nothing.
RecordIfAwaited(k) ==
  /\ chat[k].pc = "answered"
  /\ IF Own(k[1]) = k THEN Paid(k, "ok") ELSE At(k, "ok") /\ UNCHANGED used
  /\ UNCHANGED <<call, locked>>

\* An answer without `usage` is recorded, then reading its counts raises.
Record(k) ==
  /\ chat[k].pc = "answered"
  /\ Paid(k, "ok") \/ Paid(k, "err")
  /\ UNCHANGED <<call, locked>>

\* A stream whose caller reads it: ends, breaks or is closed, and is counted by
\* what was read, if anything was.
BeginStream(c, l) ==
  /\ call[c].pc = "idle"
  /\ call' = [call EXCEPT ![c] = [@ EXCEPT !.pc = "stream", !.attempt = 1, !.llm = l]]
  /\ chat' = Started(<<c, 1>>, l)
  /\ UNCHANGED <<used, locked>>

StreamOver(c) ==
  /\ call[c].pc = "stream" /\ chat[Own(c)].pc \in {"ok", "err"}
  /\ call' = [call EXCEPT ![c].pc = IF chat[Own(c)].pc = "ok" THEN "done" ELSE "failed",
                          ![c].answer = IF chat[Own(c)].pc = "ok" THEN 1 ELSE 0]
  /\ UNCHANGED <<chat, used, locked>>

EmptyStream(k) ==
  /\ call[k[1]].pc = "stream" /\ chat[k].pc = "sent" /\ At(k, "ok")
  /\ UNCHANGED <<call, used, locked>>

-----------------------------------------------------------------------------
\* The window slides; a user locks and unlocks keys.
WindowPasses ==
  /\ \E l \in Llm : used[l] > 0 /\ used' = [used EXCEPT ![l] = 0]
  /\ UNCHANGED <<call, chat, locked>>

SetLock ==
  /\ \E p \in {l.p : l \in Llm} :
       locked' = IF p \in locked THEN locked \ {p} ELSE locked \cup {p}
  /\ UNCHANGED <<call, chat, used>>

ChatStep(k) ==
  Refused(k) \/ Send(k) \/ ProviderAnswers(k) \/ ProviderFails(k) \/ ContextExceeded(k)
    \/ Record(k) \/ EmptyStream(k)

LlmNext ==
  \/ \E c \in Callers :
       \/ \E l \in Llm : BeginStream(c, l) \/ \E fallback \in BOOLEAN : Begin(c, l, fallback)
       \/ Returns(c) \/ GivesUp(c) \/ FallsBack(c) \/ StreamOver(c)
  \/ \E k \in DOMAIN chat : ChatStep(k)
  \/ WindowPasses \/ SetLock

LlmSpec == LlmInit /\ [][LlmNext]_llmVars

-----------------------------------------------------------------------------
\* Every answer of a provider is counted in the budget exactly once, also when its
\* thread was given up, its context was retried or its caller has long returned;
\* and a caller returns the answer of the model it reports, not a late one.
AnswersPaidOnce ==
  /\ \A k \in DOMAIN chat :
       chat[k].pc \in {"ok", "err"} => chat[k].paid = chat[k].answers /\ chat[k].paid <= 1
  /\ \A c \in Callers : call[c].answer # 0 =>
       chat[<<c, call[c].answer>>].llm = call[c].llm /\ chat[<<c, call[c].answer>>].pc = "ok"
=============================================================================
