------------------------------ MODULE MCGateway ------------------------------
(***************************************************************************)
(* Ten components of the gateway and its services, which share no state,   *)
(* checked in one run: in a behaviour only one of them moves, so the       *)
(* states are the sum of theirs and not the product.                       *)
(***************************************************************************)
EXTENDS LlmAccess, ApiKeys, RateLimits, AfdProxy, InstanceLock, ToolInstall, CatalogueSync,
        ModelAccess, Allocation, CatalogueOpening, TLC

VARIABLE part  \* the component that moves

gatewayVars == <<llmVars, keysVars, limitVars, proxyVars, lockVars, toolVars, catalogueVars,
                 accessVars, allocVars, openVars, part>>

\* The others are in one initial state.
GatewayInit ==
  /\ part \in {"llm", "keys", "limit", "proxy", "lock", "tool", "catalogue", "access", "alloc",
              "open"}
  /\ LlmInit /\ KeysInit /\ LimitInit /\ ProxyInit /\ LockInit /\ ToolInit /\ CatalogueInit
  /\ AccessInit /\ AllocInit /\ OpeningInit
  /\ part # "lock" => recognised
  /\ part # "tool" => scanned /\ machine = {} /\ recipe = [m \in Used |-> "none"]
  /\ part # "alloc" => stocked = {}

GatewayNext ==
  \/ /\ part = "llm" /\ LlmNext
     /\ UNCHANGED <<keysVars, limitVars, proxyVars, lockVars, toolVars, catalogueVars, accessVars, allocVars,
                  openVars, part>>
  \/ /\ part = "keys" /\ KeysNext
     /\ UNCHANGED <<llmVars, limitVars, proxyVars, lockVars, toolVars, catalogueVars, accessVars, allocVars,
                  openVars, part>>
  \/ /\ part = "limit" /\ LimitNext
     /\ UNCHANGED <<llmVars, keysVars, proxyVars, lockVars, toolVars, catalogueVars, accessVars, allocVars,
                  openVars, part>>
  \/ /\ part = "proxy" /\ ProxyNext
     /\ UNCHANGED <<llmVars, keysVars, limitVars, lockVars, toolVars, catalogueVars, accessVars, allocVars,
                  openVars, part>>
  \/ /\ part = "lock" /\ LockNext
     /\ UNCHANGED <<llmVars, keysVars, limitVars, proxyVars, toolVars, catalogueVars, accessVars, allocVars,
                  openVars, part>>
  \/ /\ part = "tool" /\ ToolNext
     /\ UNCHANGED <<llmVars, keysVars, limitVars, proxyVars, lockVars, catalogueVars, accessVars, allocVars,
                  openVars, part>>
  \/ /\ part = "catalogue" /\ CatalogueNext
     /\ UNCHANGED <<llmVars, keysVars, limitVars, proxyVars, lockVars, toolVars, accessVars, allocVars,
                  openVars, part>>
  \/ /\ part = "access" /\ AccessNext
     /\ UNCHANGED <<llmVars, keysVars, limitVars, proxyVars, lockVars, toolVars, catalogueVars, allocVars,
                  openVars, part>>
  \/ /\ part = "alloc" /\ AllocNext
     /\ UNCHANGED <<llmVars, keysVars, limitVars, proxyVars, lockVars, toolVars, catalogueVars, accessVars,
                  openVars, part>>
  \/ /\ part = "open" /\ OpeningNext
     /\ UNCHANGED <<llmVars, keysVars, limitVars, proxyVars, lockVars, toolVars, catalogueVars, accessVars,
                  allocVars, part>>

GatewaySpec == GatewayInit /\ [][GatewayNext]_gatewayVars

-----------------------------------------------------------------------------
CONSTANTS p1, p2, m1, m2, k1, k2, k3, gw, afd, apt, c1, c2, cloud, anthropic, groq, ollama

\* Three offers, two of one model: a fallback asks for the other provider and model.
MCOffers == <<[p |-> p1, m |-> m1], [p |-> p2, m |-> m2], [p |-> p2, m |-> m1]>>

\* Two threads of the gateway and one of another process.
MCProcess == (k1 :> gw) @@ (k2 :> gw) @@ (k3 :> afd)

\* The minute is swept after twice the interval, the day is longer than that.
MCWindow == [minute |-> 2, day |-> 5]
MCMost   == [minute |-> 1, day |-> 2]

MCManagers == <<apt, Pip>>

\* One link without a cost and one with.
MCSeeds == (<<p1, m1>> :> Unknown) @@ (<<p2, m1>> :> c1)

\* One provider with a public list and one key, two models.
MCSuppliers == <<cloud>>
MCShelf     == {<<cloud, m1>>, <<cloud, m2>>}

\* Two providers with keys and the local engine, by name; one is recommended.
MCVendors == <<anthropic, groq, ollama>>
MCAdvice  == <<groq>>
=============================================================================
