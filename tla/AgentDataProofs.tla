-------------------------- MODULE AgentDataProofs ---------------------------
(***************************************************************************)
(* Proofs about what an agent keeps, for every value of the constants: its *)
(* memory, its inbox, its files and aliases, its disk quota. The four      *)
(* share no state; each has an invariant of its own, which its section     *)
(* states and proves inductive.                                            *)
(***************************************************************************)
EXTENDS AgentMemory, AgentInbox, AgentHome, AgentStorage, FiniteSetTheorems,
        WellFoundedInduction, TLAPS

-----------------------------------------------------------------------------
(* AgentMemory *)

UseState ==
  [kind : {"none", "turn", "run", "update", "handoff"}, agent : Agents \cup {NoAgent},
   to : Agents \cup {NoAgent}, copy : SUBSET Facts, stale : BOOLEAN]

MemoryShape ==
  /\ known \subseteq Agents
  /\ memory \in [Agents -> SUBSET Facts] /\ told \in [Agents -> SUBSET Facts]
  /\ use \in [Uses -> UseState]
  /\ \A u \in Uses : use[u].kind # "none" => use[u].agent \in Agents
  /\ \A u \in Uses : use[u].kind = "handoff" => use[u].to \in Agents

\* Nobody is told anything of an agent that is not in the table.
NotInTable == \A a \in Agents \ known : told[a] = {}

\* A call that nobody wrote behind has all that is in the memory it will write to.
UpToDate ==
  \A u \in Uses : use[u].kind \in {"turn", "run", "update"} /\ ~use[u].stale =>
    memory[use[u].agent] \subseteq use[u].copy

\* The calls that may keep a fact for the agent a.
Holds(u, a) == use[u].kind \in {"turn", "run"} /\ use[u].agent = a
Kept(a, f) == f \in memory[a] \/ \E u \in Uses : Holds(u, a) /\ f \in use[u].copy

MemoryInv ==
  /\ MemoryShape /\ NotInTable /\ UpToDate
  /\ \A a \in Agents : \A f \in told[a] : Kept(a, f)

LEMMA MemoryInitial == MemoryInit => MemoryInv
  BY DEF MemoryInit, MemoryInv, MemoryShape, UseState, NotInTable, UpToDate, NoUse

\* The table of agents.
LEMMA MemoryTable ==
  ASSUME MemoryInv, NEW a \in Agents, CreateAgent(a) \/ DeleteAgent(a)
  PROVE  MemoryInv'
<1>1. CASE CreateAgent(a)
  BY <1>1 DEF CreateAgent, MemoryInv, MemoryShape, UseState, NotInTable, UpToDate, Kept, Holds
<1>2. CASE DeleteAgent(a)
  <2>1. /\ memory' = [memory EXCEPT ![a] = {}] /\ told' = [told EXCEPT ![a] = {}]
        /\ known' = known \ {a} /\ use' = use
    BY <1>2 DEF DeleteAgent
  <2>2. MemoryShape' /\ NotInTable'
    BY <2>1 DEF MemoryInv, MemoryShape, UseState, NotInTable
  <2>3. UpToDate'
    BY <2>1 DEF MemoryInv, MemoryShape, UseState, UpToDate
  <2>4. ASSUME NEW b \in Agents, NEW f \in told'[b] PROVE Kept(b, f)'
    BY <2>1, <2>4 DEF MemoryInv, MemoryShape, UseState, Kept, Holds
  <2> QED
    BY <2>2, <2>3, <2>4 DEF MemoryInv
<1> QED
  BY <1>1, <1>2

\* A call begins.
LEMMA MemoryBegins ==
  ASSUME MemoryInv, NEW u \in Uses,
         \/ \E a \in Agents, kind \in {"turn", "run", "update"} : Begin(u, kind, a)
         \/ \E from, to \in Agents : BeginHandoff(u, from, to)
  PROVE  MemoryInv'
<1>1. PICK call \in UseState :
        /\ use[u].kind = "none" /\ use' = [use EXCEPT ![u] = call] /\ UNCHANGED <<known, memory, told>>
        /\ call.agent \in Agents /\ (call.kind = "handoff" => call.to \in Agents)
        /\ call.copy = memory[call.agent]
  <2>1. ASSUME NEW a \in Agents, NEW kind \in {"turn", "run", "update"}, Begin(u, kind, a)
        PROVE  \E call \in UseState :
                 /\ use[u].kind = "none" /\ use' = [use EXCEPT ![u] = call] /\ UNCHANGED <<known, memory, told>>
                 /\ call.agent \in Agents /\ (call.kind = "handoff" => call.to \in Agents)
                 /\ call.copy = memory[call.agent]
    <3> DEFINE call == [NoUse EXCEPT !.kind = kind, !.agent = a, !.copy = memory[a]]
    <3>1. call \in UseState
      BY DEF NoUse, UseState, MemoryInv, MemoryShape
    <3>2. call.kind # "handoff" /\ call.agent = a /\ call.copy = memory[a]
      BY DEF NoUse
    <3>3. use[u].kind = "none" /\ use' = [use EXCEPT ![u] = call] /\ UNCHANGED <<known, memory, told>>
      BY <2>1 DEF Begin
    <3> HIDE DEF call
    <3> QED
      BY <3>1, <3>2, <3>3
  <2>2. ASSUME NEW from \in Agents, NEW to \in Agents, BeginHandoff(u, from, to)
        PROVE  \E call \in UseState :
                 /\ use[u].kind = "none" /\ use' = [use EXCEPT ![u] = call] /\ UNCHANGED <<known, memory, told>>
                 /\ call.agent \in Agents /\ (call.kind = "handoff" => call.to \in Agents)
                 /\ call.copy = memory[call.agent]
    <3> DEFINE call == [NoUse EXCEPT !.kind = "handoff", !.agent = from, !.to = to, !.copy = memory[from]]
    <3>1. call \in UseState
      BY DEF NoUse, UseState, MemoryInv, MemoryShape
    <3>2. call.to = to /\ call.agent = from /\ call.copy = memory[from]
      BY DEF NoUse
    <3>3. use[u].kind = "none" /\ use' = [use EXCEPT ![u] = call] /\ UNCHANGED <<known, memory, told>>
      BY <2>2 DEF BeginHandoff
    <3> HIDE DEF call
    <3> QED
      BY <3>1, <3>2, <3>3
  <2> QED
    BY <2>1, <2>2
<1>2. MemoryShape'
  BY <1>1 DEF MemoryInv, MemoryShape, UseState
<1>3. NotInTable' /\ UpToDate'
  BY <1>1 DEF MemoryInv, MemoryShape, UseState, NotInTable, UpToDate
<1>4. ASSUME NEW b \in Agents, NEW f \in told'[b] PROVE Kept(b, f)'
  BY <1>1, <1>4 DEF MemoryInv, MemoryShape, UseState, Kept, Holds
<1> QED
  BY <1>2, <1>3, <1>4 DEF MemoryInv

LEMMA MemoryConfigured ==
  ASSUME MemoryInv, NEW u \in Uses, NEW f \in Facts, Configure(u, f)
  PROVE  MemoryInv'
<1> DEFINE a == use[u].agent
<1>1. /\ use[u].kind \in {"turn", "run"} /\ a \in Agents /\ a \in known
      /\ use' = [use EXCEPT ![u].copy = @ \cup {f}] /\ told' = [told EXCEPT ![a] = @ \cup {f}]
      /\ UNCHANGED <<known, memory>>
  BY DEF Configure, MemoryInv, MemoryShape, UseState
<1>2. MemoryShape'
  BY <1>1 DEF MemoryInv, MemoryShape, UseState
<1>3. NotInTable' /\ UpToDate'
  BY <1>1 DEF MemoryInv, MemoryShape, UseState, NotInTable, UpToDate
<1>4. ASSUME NEW b \in Agents, NEW g \in told'[b] PROVE Kept(b, g)'
  BY <1>1, <1>4 DEF MemoryInv, MemoryShape, UseState, Kept, Holds
<1> QED
  BY <1>2, <1>3, <1>4 DEF MemoryInv

\* A write keeps what the writer knew, and what it did not know it is not asked for.
LEMMA MemoryWritten ==
  ASSUME MemoryInv, NEW u \in Uses, use[u].kind # "none", UNCHANGED known,
         NEW a \in Agents, a = IF use[u].kind = "handoff" THEN use[u].to ELSE use[u].agent,
         NEW facts \in SUBSET Facts, use[u].copy \subseteq facts,
         NEW new \in SUBSET facts, Writes(u, a, facts, new)
  PROVE  MemoryInv'
<1> DEFINE fact == IF a \in known THEN facts ELSE {}
           over == IF use[u].stale \/ use[u].kind = "handoff" THEN (memory[a] \cup Pending(u)) \ fact ELSE {}
<1>1. /\ memory' = [memory EXCEPT ![a] = fact]
      /\ told' = [told EXCEPT ![a] = (@ \ over) \cup (IF a \in known THEN new ELSE {})]
      /\ use' = [w \in Uses |->
           IF w = u THEN NoUse
           ELSE IF use[w].kind # "none" /\ a \in {use[w].agent, use[w].to} THEN [use[w] EXCEPT !.stale = TRUE]
           ELSE use[w]]
  BY DEF Writes
<1>2. fact \in SUBSET Facts
  OBVIOUS
<1>3. \A w \in Uses \ {u} : /\ use'[w].kind = use[w].kind /\ use'[w].agent = use[w].agent
                            /\ use'[w].to = use[w].to /\ use'[w].copy = use[w].copy
                            /\ ~use'[w].stale => ~use[w].stale /\ (use[w].kind # "none" => use[w].agent # a)
  BY <1>1 DEF MemoryInv, MemoryShape, UseState
<1>4. MemoryShape'
  <2>1. memory' \in [Agents -> SUBSET Facts] /\ told' \in [Agents -> SUBSET Facts]
    BY <1>1, <1>2 DEF MemoryInv, MemoryShape, UseState
  <2>2. use' \in [Uses -> UseState]
    <3>1. NoUse \in UseState
      BY DEF NoUse, UseState
    <3>2. ASSUME NEW w \in Uses PROVE use[w] \in UseState /\ [use[w] EXCEPT !.stale = TRUE] \in UseState
      BY DEF MemoryInv, MemoryShape, UseState
    <3> QED
      BY <1>1, <3>1, <3>2
  <2>3. use'[u].kind = "none"
    BY <1>1 DEF NoUse
  <2> QED
    BY <1>3, <2>1, <2>2, <2>3 DEF MemoryInv, MemoryShape, UseState
<1>5. use'[u].kind = "none"
  BY <1>1 DEF NoUse
<1>6. NotInTable'
  BY <1>1 DEF MemoryInv, MemoryShape, UseState, NotInTable
<1>7. UpToDate'
  BY <1>1, <1>3, <1>5 DEF MemoryInv, MemoryShape, UseState, UpToDate
<1>8. ASSUME NEW b \in Agents, NEW f \in told'[b] PROVE Kept(b, f)'
  <2>1. CASE b # a
    <3>1. f \in told[b] /\ memory'[b] = memory[b]
      BY <1>1, <1>8, <2>1 DEF MemoryInv, MemoryShape, UseState
    <3>2. Kept(b, f)
      BY <3>1 DEF MemoryInv
    <3>3. ~Holds(u, b)
      BY <2>1 DEF Holds
    <3> QED
      BY <1>3, <3>1, <3>2, <3>3 DEF Kept, Holds
  <2>2. CASE b = a
    <3>1. f \in (told[a] \ over) \cup (IF a \in known THEN new ELSE {}) /\ memory'[a] = fact
      BY <1>1, <1>8, <2>2 DEF MemoryInv, MemoryShape, UseState
    <3>2. CASE f \in new /\ a \in known
      BY <2>2, <3>1, <3>2 DEF Kept
    <3>3. CASE f \in told[a] /\ f \notin over
      <4>1. a \in known /\ fact = facts /\ Kept(a, f)
        BY <3>3 DEF MemoryInv, NotInTable
      <4>2. CASE f \in memory[a]
        <5>1. CASE use[u].stale \/ use[u].kind = "handoff"
          BY <3>1, <3>3, <4>2, <5>1, <2>2 DEF Kept
        <5>2. CASE ~use[u].stale /\ use[u].kind # "handoff"
          <6>1. memory[a] \subseteq use[u].copy
            BY <5>2 DEF MemoryInv, MemoryShape, UseState, UpToDate
          <6> QED
            BY <2>2, <3>1, <4>1, <4>2, <6>1 DEF Kept
        <5> QED
          BY <5>1, <5>2
      <4>3. ASSUME NEW w \in Uses, Holds(w, a), f \in use[w].copy PROVE Kept(a, f)'
        <5>1. CASE w = u
          BY <3>1, <4>1, <4>3, <5>1 DEF Kept
        <5>2. CASE w # u
          BY <1>3, <4>3, <5>2 DEF Kept, Holds
        <5> QED
          BY <5>1, <5>2
      <4> QED
        BY <2>2, <4>1, <4>2, <4>3 DEF Kept
    <3> QED
      BY <3>1, <3>2, <3>3
  <2> QED
    BY <2>1, <2>2
<1> QED
  BY <1>4, <1>6, <1>7, <1>8 DEF MemoryInv

LEMMA MemoryFinished ==
  ASSUME MemoryInv, NEW u \in Uses,
         \/ \E f \in Facts : FinishTurn(u, f) \/ FinishUpdate(u, f)
         \/ FinishRun(u) \/ FinishHandoff(u)
  PROVE  MemoryInv'
<1>1. use[u].copy \in SUBSET Facts
  BY DEF MemoryInv, MemoryShape, UseState
<1>2. ASSUME NEW f \in Facts, FinishTurn(u, f) \/ FinishUpdate(u, f) PROVE MemoryInv'
  <2>1. /\ use[u].kind \in {"turn", "update"} /\ use[u].agent \in Agents /\ UNCHANGED known
        /\ Writes(u, use[u].agent, use[u].copy \cup {f}, {f})
    BY <1>2 DEF FinishTurn, FinishUpdate, MemoryInv, MemoryShape, UseState
  <2>2. /\ use[u].copy \cup {f} \in SUBSET Facts /\ {f} \in SUBSET (use[u].copy \cup {f})
        /\ use[u].copy \subseteq use[u].copy \cup {f}
    BY <1>1
  <2> QED
    BY <2>1, <2>2, MemoryWritten
<1>3. CASE FinishRun(u)
  <2>1. /\ use[u].kind = "run" /\ use[u].agent \in Agents /\ UNCHANGED known
        /\ Writes(u, use[u].agent, use[u].copy, {})
    BY <1>3 DEF FinishRun, MemoryInv, MemoryShape, UseState
  <2> QED
    BY <1>1, <2>1, MemoryWritten
<1>4. CASE FinishHandoff(u)
  <2>1. /\ use[u].kind = "handoff" /\ use[u].to \in Agents /\ UNCHANGED known
        /\ Writes(u, use[u].to, use[u].copy, use[u].copy)
    BY <1>4 DEF FinishHandoff, MemoryInv, MemoryShape, UseState
  <2> QED
    BY <1>1, <2>1, MemoryWritten
<1> QED
  BY <1>2, <1>3, <1>4

\* What was told is taken back with the call, or is in the memory.
LEMMA MemoryGiven ==
  ASSUME MemoryInv, NEW u \in Uses, Give(u)
  PROVE  MemoryInv'
<1> DEFINE a == use[u].agent
           gone == IF use[u].kind = "handoff" THEN {} ELSE Pending(u)
<1>1. /\ a \in Agents /\ use' = [use EXCEPT ![u] = NoUse] /\ told' = [told EXCEPT ![a] = @ \ gone]
      /\ UNCHANGED <<known, memory>>
  BY DEF Give, MemoryInv, MemoryShape, UseState
<1>2. MemoryShape' /\ NotInTable' /\ UpToDate'
  BY <1>1 DEF MemoryInv, MemoryShape, UseState, NotInTable, UpToDate, NoUse
<1>3. ASSUME NEW b \in Agents, NEW f \in told'[b] PROVE Kept(b, f)'
  <2>1. f \in told[b] /\ (b = a => f \notin gone)
    BY <1>1, <1>3 DEF MemoryInv, MemoryShape, UseState
  <2>2. Kept(b, f) /\ (Holds(u, b) /\ f \in use[u].copy => f \in memory[b])
    BY <2>1 DEF MemoryInv, Holds, Pending
  <2> QED
    BY <1>1, <2>2 DEF Kept, Holds, MemoryInv, MemoryShape, UseState
<1> QED
  BY <1>2, <1>3 DEF MemoryInv

LEMMA MemoryInductive == MemoryInv /\ [MemoryNext]_memoryVars => MemoryInv'
<1> SUFFICES ASSUME MemoryInv, [MemoryNext]_memoryVars PROVE MemoryInv'
  OBVIOUS
<1>1. CASE UNCHANGED memoryVars
  BY <1>1 DEF memoryVars, MemoryInv, MemoryShape, UseState, NotInTable, UpToDate, Kept, Holds
<1>2. CASE MemoryNext
  BY <1>2, MemoryTable, MemoryBegins, MemoryConfigured, MemoryFinished, MemoryGiven DEF MemoryNext
<1> QED
  BY <1>1, <1>2

\* chat, execute, update, succeed and configure: what a caller was told is in the
\* variables of the agent or in the copy of a call that writes them back, however calls
\* overlap (told loses what the named exceptions lose), for any agents, calls and facts.
THEOREM AgentsRemember == MemorySpec => []MemoryKept
<1>1. MemoryInv => MemoryKept
  <2> SUFFICES ASSUME MemoryInv, NEW a \in known, NEW f \in told[a]
               PROVE  f \in memory[a] \cup UNION {use[u].copy : u \in {u \in Uses : Holds(u, a)}}
    BY DEF MemoryKept, Holds
  <2>1. a \in Agents
    BY DEF MemoryInv, MemoryShape, UseState
  <2> QED
    BY <2>1 DEF MemoryInv, Kept
<1> QED
  BY <1>1, MemoryInitial, MemoryInductive, PTL DEF MemorySpec

-----------------------------------------------------------------------------
(* AgentInbox *)

Hands == [pc : {"idle", "read", "clear"}, clear : BOOLEAN, todo : SUBSET Messages,
          read : SUBSET Messages, knew : SUBSET Messages]
InboxShape ==
  /\ message \in [Messages -> [sent : {"no", "half", "yes"}, file : BOOLEAN]]
  /\ receiver \in [Receivers -> Hands]

\* What a receiver knew when it listed the box it has read, is about to read, or was
\* removed by another one; when it clears it has nothing left to read.
HasRead(r, m) ==
  \/ m \in receiver[r].read \/ ~message[m].file
  \/ receiver[r].pc = "read" /\ m \in receiver[r].todo
KnownRead ==
  \A r \in Receivers : receiver[r].pc # "idle" =>
    \A m \in receiver[r].knew : message[m].sent = "yes" /\ HasRead(r, m)

\* Only a receiver that clears is needed to keep a message, one whose file is there
\* but not filled included.
InHand(m) ==
  \/ message[m].sent = "no" \/ message[m].file \/ m \in delivered \cup dropped
  \/ \E r \in Receivers : receiver[r].pc = "clear" /\ m \in receiver[r].read

InboxInv == InboxShape /\ KnownRead /\ \A m \in Messages : InHand(m)

LEMMA InboxInitial == InboxInit => InboxInv
  BY DEF InboxInit, InboxInv, InboxShape, Hands, KnownRead, InHand, Waiting

\* A message is created, then filled.
LEMMA InboxSent ==
  ASSUME InboxInv, NEW m \in Messages, CreateMessage(m) \/ FillMessage(m)
  PROVE  InboxInv'
<1>1. /\ UNCHANGED <<receiver, delivered, dropped>> /\ message'[m].sent # "no" /\ message[m].sent # "yes"
      /\ message[m].sent = "no" \/ message[m].file => message'[m].file
      /\ message[m].sent # "no" /\ ~message[m].file => ~message'[m].file
      /\ \A k \in Messages \ {m} : message'[k] = message[k]
  <2>1. CASE CreateMessage(m)
    BY <2>1 DEF CreateMessage, InboxInv, InboxShape, Hands
  <2>2. CASE FillMessage(m)
    BY <2>2 DEF FillMessage, InboxInv, InboxShape, Hands
  <2> QED
    BY <2>1, <2>2
<1>2. InboxShape'
  <2>1. CASE CreateMessage(m)
    BY <2>1 DEF CreateMessage, InboxInv, InboxShape
  <2>2. CASE FillMessage(m)
    BY <2>2 DEF FillMessage, InboxInv, InboxShape
  <2> QED
    BY <2>1, <2>2
<1>3. KnownRead'
  BY <1>1 DEF InboxInv, InboxShape, Hands, KnownRead, HasRead
<1>4. ASSUME NEW k \in Messages PROVE InHand(k)'
  BY <1>1 DEF InboxInv, InboxShape, Hands, InHand
<1> QED
  BY <1>2, <1>3, <1>4 DEF InboxInv

\* A receiver lists the box and reads.
LEMMA InboxRead ==
  ASSUME InboxInv, NEW r \in Receivers,
         \/ \E clear \in BOOLEAN : ListInbox(r, clear)
         \/ \E m \in Messages : ReadMessage(r, m)
         \/ ListAgain(r)
  PROVE  InboxInv'
<1>1. CASE \E clear \in BOOLEAN : ListInbox(r, clear)
  <2> PICK clear \in BOOLEAN : ListInbox(r, clear)
    BY <1>1
  <2>1. /\ receiver[r].pc = "idle" /\ UNCHANGED <<message, delivered, dropped>>
        /\ receiver' = [receiver EXCEPT ![r] =
             [Waiting EXCEPT !.pc = "read", !.clear = clear, !.todo = InBox, !.knew = InBox \cap Written]]
    BY DEF ListInbox
  <2>2. InboxShape'
    <3>1. [Waiting EXCEPT !.pc = "read", !.clear = clear, !.todo = InBox, !.knew = InBox \cap Written] \in Hands
      BY DEF Hands, InBox, Waiting
    <3> QED
      BY <2>1, <3>1 DEF InboxInv, InboxShape
  <2>3. KnownRead'
    <3>1. /\ receiver'[r].pc = "read" /\ receiver'[r].todo = InBox /\ receiver'[r].knew = InBox \cap Written
          /\ \A w \in Receivers \ {r} : receiver'[w] = receiver[w]
      BY <2>1 DEF Waiting, InboxInv, InboxShape
    <3> QED
      BY <2>1, <3>1 DEF InboxInv, KnownRead, HasRead, Written
  <2>4. ASSUME NEW k \in Messages PROVE InHand(k)'
    BY <2>1 DEF InboxInv, InboxShape, Hands, InHand
  <2> QED
    BY <2>2, <2>3, <2>4 DEF InboxInv
<1>2. CASE \E m \in Messages : ReadMessage(r, m)
  <2> PICK m \in Messages : ReadMessage(r, m)
    BY <1>2
  <2> DEFINE full == {m} \cap InBox \cap Written
  <2>1. /\ receiver[r].pc = "read" /\ m \in receiver[r].todo /\ UNCHANGED <<message, delivered, dropped>>
        /\ receiver' = [receiver EXCEPT ![r].todo = @ \ {m}, ![r].read = @ \cup full]
    BY DEF ReadMessage
  <2>2. full \in SUBSET Messages /\ (message[m].file => message[m].sent # "yes" \/ m \in full)
    BY DEF InBox, Written
  <2> HIDE DEF full
  <2>3. InboxShape'
    <3>1. receiver \in [Receivers -> Hands]
      BY DEF InboxInv, InboxShape
    <3>2. receiver' = [receiver EXCEPT ![r] = [receiver[r] EXCEPT !.todo = @ \ {m}, !.read = @ \cup full]]
      BY <2>1, <3>1
    <3>3. [receiver[r] EXCEPT !.todo = @ \ {m}, !.read = @ \cup full] \in Hands
      BY <2>2, <3>1 DEF Hands
    <3> QED
      BY <2>1, <3>1, <3>2, <3>3 DEF InboxInv, InboxShape
  <2>4. KnownRead'
    <3>1. /\ receiver'[r].pc = "read" /\ receiver'[r].todo = receiver[r].todo \ {m}
          /\ receiver'[r].knew = receiver[r].knew /\ receiver'[r].read = receiver[r].read \cup full
          /\ \A w \in Receivers \ {r} : receiver'[w] = receiver[w]
      BY <2>1 DEF InboxInv, InboxShape, Hands
    <3>2. \A k \in receiver[r].knew : message[k].sent = "yes" /\ HasRead(r, k)
      BY <2>1 DEF InboxInv, KnownRead
    <3>3. ASSUME NEW k \in receiver'[r].knew PROVE (message[k].sent = "yes" /\ HasRead(r, k))'
      <4>1. CASE k = m
        BY <2>1, <2>2, <3>1, <3>2, <3>3, <4>1 DEF HasRead
      <4>2. CASE k # m
        BY <2>1, <3>1, <3>2, <3>3, <4>2 DEF HasRead
      <4> QED
        BY <4>1, <4>2
    <3>4. ASSUME NEW w \in Receivers \ {r}, receiver'[w].pc # "idle", NEW k \in receiver'[w].knew
          PROVE  (message[k].sent = "yes" /\ HasRead(w, k))'
      BY <2>1, <3>1, <3>4 DEF InboxInv, KnownRead, HasRead
    <3> QED
      BY <3>3, <3>4 DEF KnownRead
  <2>5. ASSUME NEW k \in Messages PROVE InHand(k)'
    BY <2>1 DEF InboxInv, InboxShape, Hands, InHand
  <2> QED
    BY <2>3, <2>4, <2>5 DEF InboxInv
<1>3. CASE ListAgain(r)
  <2>1. /\ receiver[r].pc = "read" /\ receiver[r].todo = {} /\ UNCHANGED <<message, delivered, dropped>>
        /\ receiver' = [receiver EXCEPT ![r].pc = "clear", ![r].todo = InBox]
    BY <1>3 DEF ListAgain
  <2>2. InboxShape'
    <3>1. InBox \in SUBSET Messages
      BY DEF InBox
    <3>2. receiver \in [Receivers -> Hands]
      BY DEF InboxInv, InboxShape
    <3>3. receiver' = [receiver EXCEPT ![r] = [receiver[r] EXCEPT !.pc = "clear", !.todo = InBox]]
      BY <2>1, <3>2
    <3>4. [receiver[r] EXCEPT !.pc = "clear", !.todo = InBox] \in Hands
      BY <3>1, <3>2 DEF Hands
    <3> QED
      BY <2>1, <3>2, <3>3, <3>4 DEF InboxInv, InboxShape
  <2>3. KnownRead'
    BY <2>1 DEF InboxInv, InboxShape, Hands, KnownRead, HasRead
  <2>4. ASSUME NEW k \in Messages PROVE InHand(k)'
    BY <2>1 DEF InboxInv, InboxShape, Hands, InHand
  <2> QED
    BY <2>2, <2>3, <2>4 DEF InboxInv
<1> QED
  BY <1>1, <1>2, <1>3

\* What a receiver removes it has read, or did not know of.
LEMMA InboxRemoved ==
  ASSUME InboxInv, NEW r \in Receivers, NEW m \in Messages, RemoveMessage(r, m)
  PROVE  InboxInv'
<1>1. /\ receiver[r].pc = "clear" /\ m \in receiver[r].todo /\ message[m].file
      /\ message' = [message EXCEPT ![m].file = FALSE]
      /\ receiver' = [receiver EXCEPT ![r].todo = @ \ {m}]
      /\ dropped' = dropped \cup ({m} \ receiver[r].knew) /\ delivered' = delivered
  BY DEF RemoveMessage
<1>2. InboxShape'
  BY <1>1 DEF InboxInv, InboxShape, Hands
<1>3. KnownRead'
  BY <1>1 DEF InboxInv, InboxShape, Hands, KnownRead, HasRead
<1>4. m \in receiver[r].knew => m \in receiver[r].read
  BY <1>1 DEF InboxInv, KnownRead, HasRead
<1>5. ASSUME NEW k \in Messages PROVE InHand(k)'
  <2>1. CASE k = m
    BY <1>1, <1>4, <2>1 DEF InboxInv, InboxShape, Hands, InHand
  <2>2. CASE k # m
    BY <1>1, <2>2 DEF InboxInv, InboxShape, Hands, InHand
  <2> QED
    BY <2>1, <2>2
<1> QED
  BY <1>2, <1>3, <1>5 DEF InboxInv

\* A receiver ends: what it had read is returned, or it was not to clear yet, or is lost.
LEMMA InboxEnded ==
  ASSUME InboxInv, NEW r \in Receivers, RemoveFails(r) \/ ReturnMessages(r) \/ KillReceiver(r)
  PROVE  InboxInv'
<1>1. /\ receiver' = [receiver EXCEPT ![r] = Waiting] /\ message' = message
      /\ delivered \subseteq delivered' /\ dropped \subseteq dropped'
      /\ receiver[r].pc = "clear" => receiver[r].read \subseteq delivered' \cup dropped'
  BY DEF RemoveFails, ReturnMessages, KillReceiver
<1>2. InboxShape'
  BY <1>1 DEF InboxInv, InboxShape, Hands, Waiting
<1>3. KnownRead'
  BY <1>1 DEF InboxInv, InboxShape, Hands, KnownRead, HasRead, Waiting
<1>4. ASSUME NEW k \in Messages PROVE InHand(k)'
  BY <1>1 DEF InboxInv, InboxShape, Hands, InHand
<1> QED
  BY <1>2, <1>3, <1>4 DEF InboxInv

LEMMA InboxInductive == InboxInv /\ [InboxNext]_inboxVars => InboxInv'
<1> SUFFICES ASSUME InboxInv, [InboxNext]_inboxVars PROVE InboxInv'
  OBVIOUS
<1>1. CASE UNCHANGED inboxVars
  BY <1>1 DEF inboxVars, InboxInv, InboxShape, Hands, KnownRead, HasRead, InHand
<1>2. CASE InboxNext
  BY <1>2, InboxSent, InboxRead, InboxRemoved, InboxEnded DEF InboxNext
<1> QED
  BY <1>1, <1>2

\* message_send, message_recv: a message that was sent is in the box, in the hands of a
\* receiver or was returned, whatever other receivers do at the same time, unless a
\* receiver that clears had not seen it in its first listing or ended while it cleared.
THEOREM InboxKeepsMessages == InboxSpec => []MessageKept
<1>1. InboxInv => MessageKept
  BY DEF InboxInv, InHand, MessageKept, Written
<1> QED
  BY <1>1, InboxInitial, InboxInductive, PTL DEF InboxSpec

-----------------------------------------------------------------------------
(* AgentHome *)

\* What an execution does. Any copy will do.
Work(d) ==
  /\ d \in [pc : {"idle", "read", "open", "write", "move"}, phase : {"none", "add", "delete", "move"},
            from : Names \cup {Outside}, to : Names \cup {Outside}, copy : {d.copy}, crossed : BOOLEAN]
  /\ d.pc = "idle" <=> d.phase = "none"
  /\ d.pc = "move" => d.phase = "move"
  /\ d.phase = "add" => d.to \in Names
  /\ d.phase \in {"delete", "move"} => d.from \in Names

\* An alias is the stem of its file.
Aliased(list) == \A a \in DOMAIN list : list[a] \in Names /\ Stem[list[a]] = a

HomeShape ==
  /\ files \subseteq Names /\ Aliased(index)
  /\ doing = [e \in Executions |-> doing[e]]
  /\ \A e \in Executions : Work(doing[e]) /\ Aliased(doing[e].copy)

\* An alias may lead to n, though e be over.
LeadsBut(e, n) ==
  \/ n \in files \cup excused
  \/ \E f \in Executions \ {e} : doing[f].phase = "delete" /\ doing[f].from = n

\* What holds of an execution that nobody crossed: what it adds is there, its copy is the
\* index but for its own alias, and once it removed the alias nothing has it.
Undisturbed(e) ==
  LET d == doing[e] IN
  /\ d.phase = "add" => d.to \in files
  /\ d.pc = "open" => \A a \in DOMAIN d.copy :
       \/ a \in DOMAIN ReadIndex /\ d.copy[a] = ReadIndex[a]
       \/ d.phase = "add" /\ d.copy[a] = d.to
  /\ d.pc \in {"open", "write"} /\ d.phase \in {"delete", "move"} =>
       \A a \in DOMAIN d.copy : d.copy[a] # d.from
  /\ d.pc = "write" => \A a \in DOMAIN d.copy : LeadsBut(e, d.copy[a])
  /\ d.pc = "move" /\ whole => \A a \in DOMAIN index : index[a] # d.from

\* While one that nobody crossed writes the index, others of them are about to move.
WritesAlone ==
  \A e, f \in Executions :
    e # f /\ doing[e].pc = "write" /\ ~doing[e].crossed /\ doing[f].pc # "idle" /\ ~doing[f].crossed =>
      doing[f].phase = "move"

HomeInv ==
  /\ HomeShape /\ WritesAlone /\ AliasLeadsToFile
  /\ \A e \in Executions : ~doing[e].crossed => Undisturbed(e)

LEMMA HomeInitial == HomeInit => HomeInv
<1> SUFFICES ASSUME HomeInit PROVE HomeInv
  OBVIOUS
<1>1. \A e \in Executions : doing[e] = Nothing
  BY DEF HomeInit
<1>2. DOMAIN NoAlias = {}
  BY DEF NoAlias
<1>3. Work(Nothing) /\ Aliased(Nothing.copy) /\ Nothing.pc = "idle" /\ Nothing.phase = "none"
  BY <1>2 DEF Work, Nothing, Aliased
<1>4. HomeShape
  BY <1>1, <1>2, <1>3 DEF HomeInit, HomeShape, Aliased
<1> QED
  BY <1>1, <1>2, <1>3, <1>4 DEF HomeInit, HomeInv, WritesAlone, AliasLeadsToFile, Undisturbed

\* What a step of e does to e and to the others.
LEMMA HomeDoes ==
  ASSUME HomeInv, NEW e \in Executions, NEW d, NEW visible \in BOOLEAN, Does(e, d, visible)
  PROVE  /\ doing'[e] = d /\ doing' = [f \in Executions |-> doing'[f]]
         /\ \A f \in Executions \ {e} :
              /\ doing'[f].pc = doing[f].pc /\ doing'[f].phase = doing[f].phase
              /\ doing'[f].from = doing[f].from /\ doing'[f].to = doing[f].to
              /\ doing'[f].copy = doing[f].copy /\ Work(doing'[f])
              /\ ~doing'[f].crossed => ~doing[f].crossed /\ (visible => doing[f].pc = "idle")
<1>1. doing' = [f \in Executions |->
        IF f = e THEN d
        ELSE IF visible /\ doing[f].pc # "idle" THEN [doing[f] EXCEPT !.crossed = TRUE] ELSE doing[f]]
  BY DEF Does
<1>2. ASSUME NEW f \in Executions \ {e}
      PROVE  /\ doing'[f].pc = doing[f].pc /\ doing'[f].phase = doing[f].phase
             /\ doing'[f].from = doing[f].from /\ doing'[f].to = doing[f].to
             /\ doing'[f].copy = doing[f].copy /\ Work(doing'[f])
             /\ ~doing'[f].crossed => ~doing[f].crossed /\ (visible => doing[f].pc = "idle")
  <2>1. Work(doing[f])
    BY DEF HomeInv, HomeShape
  <2>2. CASE visible /\ doing[f].pc # "idle"
    <3>1. doing'[f] = [doing[f] EXCEPT !.crossed = TRUE]
      BY <1>1, <2>2
    <3> QED
      BY <2>1, <3>1 DEF Work
  <2>3. CASE ~(visible /\ doing[f].pc # "idle")
    <3>1. doing'[f] = doing[f]
      BY <1>1, <2>3
    <3> QED
      BY <2>1, <2>3, <3>1
  <2> QED
    BY <2>2, <2>3
<1> QED
  BY <1>1, <1>2

LEMMA HomeDoesSeen ==
  ASSUME HomeInv, NEW e \in Executions, NEW d, Does(e, d, TRUE)
  PROVE  /\ doing'[e] = d
         /\ \A f \in Executions \ {e} :
              doing'[f].phase = doing[f].phase /\ doing'[f].from = doing[f].from
  BY HomeDoes

\* A step that the others see crosses all that are under way.
LEMMA HomeSeen ==
  ASSUME HomeInv, NEW e \in Executions, NEW d, Does(e, d, TRUE), Work(d), Aliased(d.copy),
         files' \subseteq Names, Aliased(index'), AliasLeadsToFile', ~d.crossed => Undisturbed(e)'
  PROVE  HomeInv'
<1>1. /\ doing'[e] = d /\ doing' = [f \in Executions |-> doing'[f]]
      /\ \A f \in Executions \ {e} :
           /\ Work(doing'[f]) /\ doing'[f].copy = doing[f].copy
           /\ ~doing'[f].crossed => doing'[f].pc = "idle"
  BY HomeDoes
<1>2. HomeShape'
  BY <1>1 DEF HomeInv, HomeShape, Aliased
<1>3. WritesAlone'
  BY <1>1 DEF WritesAlone
<1>4. ASSUME NEW f \in Executions, ~doing'[f].crossed PROVE Undisturbed(f)'
  <2>1. CASE f = e
    BY <1>1, <1>4, <2>1
  <2>2. CASE f # e
    <3>1. doing'[f].pc = "idle" /\ doing'[f].phase = "none"
      BY <1>1, <1>4, <2>2 DEF Work
    <3> QED
      BY <3>1 DEF Undisturbed
  <2> QED
    BY <2>1, <2>2
<1> QED
  BY <1>2, <1>3, <1>4 DEF HomeInv

\* A step of one that deletes nothing leaves the excuses of the others.
LEMMA HomeLeads ==
  ASSUME HomeInv, NEW e \in Executions, NEW d, NEW visible \in BOOLEAN, Does(e, d, visible),
         doing[e].phase # "delete", whole, NEW a \in DOMAIN index,
         index[a] \in files \cup excused => index[a] \in files' \cup excused'
  PROVE  \/ index[a] \in files' \cup excused'
         \/ \E f \in Executions : doing'[f].phase = "delete" /\ doing'[f].from = index[a]
<1>1. \/ index[a] \in files \cup excused
      \/ \E f \in Executions : doing[f].phase = "delete" /\ doing[f].from = index[a]
  BY DEF HomeInv, AliasLeadsToFile
<1>2. ASSUME NEW f \in Executions, doing[f].phase = "delete", doing[f].from = index[a]
      PROVE  doing'[f].phase = "delete" /\ doing'[f].from = index[a]
  <2>1. f \in Executions \ {e}
    BY <1>2
  <2>2. doing'[f].phase = doing[f].phase /\ doing'[f].from = doing[f].from
    BY <2>1, HomeDoes
  <2> QED
    BY <1>2, <2>2
<1> QED
  BY <1>1, <1>2

\* A step that the others do not see changes no file and no alias. What it stops deleting
\* is excused, or e was not crossed and nothing has its alias.
LEMMA HomeUnseen ==
  ASSUME HomeInv, NEW e \in Executions, NEW d, Does(e, d, FALSE), Work(d), Aliased(d.copy),
         UNCHANGED <<files, index, whole>>, excused \subseteq excused', d.pc # "write",
         ~d.crossed => Undisturbed(e)',
         d.pc # "idle" /\ ~d.crossed =>
           d.phase = "move" \/ (doing[e].pc # "idle" /\ ~doing[e].crossed /\ d.phase = doing[e].phase),
         doing[e].phase = "delete" =>
           \/ d.phase = "delete" /\ d.from = doing[e].from
           \/ doing[e].from \in excused'
           \/ ~doing[e].crossed /\ (whole => \A a \in DOMAIN index : index[a] # doing[e].from)
  PROVE  HomeInv'
<1>1. /\ doing'[e] = d /\ doing' = [f \in Executions |-> doing'[f]]
      /\ \A f \in Executions \ {e} :
           /\ doing'[f].pc = doing[f].pc /\ doing'[f].phase = doing[f].phase
           /\ doing'[f].from = doing[f].from /\ doing'[f].to = doing[f].to
           /\ doing'[f].copy = doing[f].copy /\ Work(doing'[f])
           /\ ~doing'[f].crossed => ~doing[f].crossed
  BY HomeDoes
<1>2. HomeShape'
  BY <1>1 DEF HomeInv, HomeShape, Aliased
<1>3. WritesAlone'
  BY <1>1 DEF HomeInv, WritesAlone
<1>4. AliasLeadsToFile'
  BY <1>1 DEF HomeInv, AliasLeadsToFile
<1>5. ReadIndex' = ReadIndex
  BY DEF ReadIndex
<1>6. ASSUME NEW f \in Executions, f # e, ~doing'[f].crossed PROVE Undisturbed(f)'
  <2>1. Undisturbed(f) /\ ~doing[f].crossed
    BY <1>1, <1>6 DEF HomeInv
  <2>2. ASSUME doing[f].pc = "write", NEW a \in DOMAIN doing[f].copy PROVE LeadsBut(f, doing[f].copy[a])'
    <3>1. LeadsBut(f, doing[f].copy[a])
      BY <2>1, <2>2 DEF Undisturbed
    <3>2. doing[e].phase = "delete" => doing[e].crossed
      <4>1. Work(doing[e])
        BY DEF HomeInv, HomeShape
      <4> QED
        BY <1>6, <2>1, <2>2, <4>1 DEF HomeInv, WritesAlone, Work
    <3> QED
      BY <1>1, <1>6, <3>1, <3>2 DEF LeadsBut
  <2> QED
    BY <1>1, <1>5, <1>6, <2>1, <2>2 DEF Undisturbed
<1> QED
  BY <1>1, <1>2, <1>3, <1>4, <1>6 DEF HomeInv

-----------------------------------------------------------------------------
LEMMA HomeWritten ==
  ASSUME HomeInv, NEW e \in Executions, NEW n \in Names, WriteFile(e, n)
  PROVE  HomeInv'
<1> DEFINE d == [Nothing EXCEPT !.pc = "read", !.phase = "add", !.to = n]
<1>1. /\ doing[e].pc = "idle" /\ files' = files \cup {n} /\ excused' = excused \ {n} /\ Does(e, d, TRUE)
      /\ UNCHANGED <<index, whole>>
  BY DEF WriteFile
<1>2. /\ Work(d) /\ d.copy = NoAlias /\ d.pc = "read" /\ d.phase = "add" /\ d.to = n
  BY HomeAssumption DEF Work, Nothing
<1>3. Aliased(d.copy)
  BY <1>2 DEF Aliased, NoAlias
<1> HIDE DEF d
<1>4. AliasLeadsToFile'
  <2> SUFFICES ASSUME whole, NEW a \in DOMAIN index
               PROVE  \/ index[a] \in files' \cup excused'
                      \/ \E f \in Executions : doing'[f].phase = "delete" /\ doing'[f].from = index[a]
    BY <1>1 DEF AliasLeadsToFile
  <2>1. doing[e].phase # "delete"
    BY <1>1 DEF HomeInv, HomeShape, Work
  <2>2. index[a] \in files \cup excused => index[a] \in files' \cup excused'
    BY <1>1
  <2> QED
    BY <1>1, <2>1, <2>2, HomeLeads
<1>5. Undisturbed(e)'
  BY <1>1, <1>2, HomeDoes DEF Undisturbed
<1> QED
  BY <1>1, <1>2, <1>3, <1>4, <1>5, HomeSeen DEF HomeInv, HomeShape

LEMMA HomeDeleted ==
  ASSUME HomeInv, NEW e \in Executions, NEW n \in Names, DeleteFile(e, n)
  PROVE  HomeInv'
<1> DEFINE d == [Nothing EXCEPT !.pc = "read", !.phase = "delete", !.from = n]
<1>1. /\ doing[e].pc = "idle" /\ files' = files \ {n} /\ Does(e, d, TRUE)
      /\ UNCHANGED <<index, whole, excused>>
  BY DEF DeleteFile
<1>2. /\ Work(d) /\ d.copy = NoAlias /\ d.pc = "read" /\ d.phase = "delete" /\ d.from = n
  BY HomeAssumption DEF Work, Nothing
<1>3. Aliased(d.copy)
  BY <1>2 DEF Aliased, NoAlias
<1> HIDE DEF d
<1>4. AliasLeadsToFile'
  <2> SUFFICES ASSUME whole, NEW a \in DOMAIN index
               PROVE  \/ index[a] \in files' \cup excused'
                      \/ \E f \in Executions : doing'[f].phase = "delete" /\ doing'[f].from = index[a]
    BY <1>1 DEF AliasLeadsToFile
  <2>1. doing[e].phase # "delete"
    BY <1>1 DEF HomeInv, HomeShape, Work
  <2>2. doing'[e] = d
    BY <1>1, HomeDoes
  <2>3. CASE index[a] = n
    BY <1>2, <2>2, <2>3
  <2>4. CASE index[a] # n
    <3>1. index[a] \in files \cup excused => index[a] \in files' \cup excused'
      BY <1>1, <2>4
    <3> QED
      BY <1>1, <2>1, <3>1, HomeLeads
  <2> QED
    BY <2>3, <2>4
<1>5. Undisturbed(e)'
  BY <1>1, <1>2, HomeDoes DEF Undisturbed
<1> QED
  BY <1>1, <1>2, <1>3, <1>4, <1>5, HomeSeen DEF HomeInv, HomeShape

LEMMA HomeMoves ==
  ASSUME HomeInv, NEW e \in Executions, NEW n \in Names, NEW to \in Names \cup {Outside}, MoveFile(e, n, to)
  PROVE  HomeInv'
<1> DEFINE d == [Nothing EXCEPT !.pc = "read", !.phase = "move", !.from = n, !.to = to]
<1>1. doing[e].pc = "idle" /\ Does(e, d, FALSE) /\ UNCHANGED <<files, index, whole, excused>>
  BY DEF MoveFile
<1>2. /\ Work(d) /\ d.copy = NoAlias /\ d.pc = "read" /\ d.phase = "move"
  BY DEF Work, Nothing
<1>3. Aliased(d.copy)
  BY <1>2 DEF Aliased, NoAlias
<1> HIDE DEF d
<1>4. Undisturbed(e)'
  BY <1>1, <1>2, HomeDoes DEF Undisturbed
<1>5. doing[e].phase # "delete"
  BY <1>1 DEF HomeInv, HomeShape, Work
<1> QED
  BY <1>1, <1>2, <1>3, <1>4, <1>5, HomeUnseen

LEMMA NothingDone == Work(Nothing) /\ Aliased(Nothing.copy) /\ Nothing.pc = "idle" /\ Nothing.phase = "none"
  BY DEF Work, Nothing, Aliased, NoAlias

LEMMA HomeEmptied ==
  ASSUME HomeInv, NEW e \in Executions, DeleteDirectory(e)
  PROVE  HomeInv'
<1>1. /\ doing[e].pc = "idle" /\ files' = {} /\ excused' = excused \cup files /\ Does(e, Nothing, TRUE)
      /\ UNCHANGED <<index, whole>>
  BY DEF DeleteDirectory
<1>2. AliasLeadsToFile'
  <2> SUFFICES ASSUME whole, NEW a \in DOMAIN index
               PROVE  \/ index[a] \in files' \cup excused'
                      \/ \E f \in Executions : doing'[f].phase = "delete" /\ doing'[f].from = index[a]
    BY <1>1 DEF AliasLeadsToFile
  <2>1. doing[e].phase # "delete"
    BY <1>1 DEF HomeInv, HomeShape, Work
  <2>2. index[a] \in files \cup excused => index[a] \in files' \cup excused'
    BY <1>1
  <2> QED
    BY <1>1, <2>1, <2>2, HomeLeads
<1>3. Undisturbed(e)'
  BY <1>1, NothingDone, HomeDoes DEF Undisturbed
<1> QED
  BY <1>1, <1>2, <1>3, NothingDone, HomeSeen DEF HomeInv, HomeShape

\* The name a move leaves has no alias, or is excused.
LEMMA HomeRenamed ==
  ASSUME HomeInv, NEW e \in Executions, Rename(e)
  PROVE  HomeInv'
<1> DEFINE n == doing[e].from  to == doing[e].to
           d == IF to = Outside THEN Nothing ELSE [Nothing EXCEPT !.pc = "read", !.phase = "add", !.to = to]
<1>1. doing[e].pc = "move" /\ UNCHANGED <<index, whole>>
  BY DEF Rename
<1>2. doing[e].phase = "move" /\ n \in Names /\ to \in Names \cup {Outside}
  BY <1>1 DEF HomeInv, HomeShape, Work
<1>3. CASE n \notin files
  <2>1. Does(e, Nothing, FALSE) /\ UNCHANGED <<files, excused>>
    BY <1>3 DEF Rename
  <2>2. Undisturbed(e)'
    BY <2>1, NothingDone, HomeDoes DEF Undisturbed
  <2> QED
    BY <1>1, <1>2, <2>1, <2>2, NothingDone, HomeUnseen
<1>4. CASE n \in files
  <2>1. /\ files' = (files \ {n}) \cup ({to} \ {Outside})
        /\ excused' = (excused \cup Doubtful(e)) \ {to} /\ Does(e, d, TRUE)
    BY <1>4 DEF Rename
  <2>2. /\ Work(d) /\ d.copy = NoAlias /\ d.pc # "open" /\ d.pc # "write" /\ d.pc # "move"
        /\ d.phase = "add" => d.to = to /\ to # Outside
    <3>1. CASE to = Outside
      BY <3>1 DEF Work, Nothing
    <3>2. CASE to # Outside
      BY <1>2, <3>2 DEF Work, Nothing
    <3> QED
      BY <3>1, <3>2
  <2>3. Aliased(d.copy)
    BY <2>2 DEF Aliased, NoAlias
  <2> HIDE DEF d
  <2>4. AliasLeadsToFile'
    <3> SUFFICES ASSUME whole, NEW a \in DOMAIN index
                 PROVE  \/ index[a] \in files' \cup excused'
                        \/ \E f \in Executions : doing'[f].phase = "delete" /\ doing'[f].from = index[a]
      BY <1>1 DEF AliasLeadsToFile
    <3>1. index[a] \in Names /\ index[a] # Outside
      BY HomeAssumption DEF HomeInv, HomeShape, Aliased
    <3>2. CASE index[a] = n
      <4>1. doing[e].crossed
        BY <1>1, <3>2 DEF HomeInv, Undisturbed
      <4>2. n \in Doubtful(e)
        BY <3>1, <3>2, <4>1 DEF Doubtful
      <4> QED
        BY <2>1, <3>1, <3>2, <4>2
    <3>3. CASE index[a] # n
      <4>1. index[a] \in files \cup excused => index[a] \in files' \cup excused'
        BY <2>1, <3>1, <3>3
      <4>2. doing[e].phase # "delete"
        BY <1>2
      <4> QED
        BY <2>1, <4>1, <4>2, HomeLeads
    <3> QED
      BY <3>2, <3>3
  <2>5. Undisturbed(e)'
    <3>1. doing'[e] = d
      BY <2>1, HomeDoesSeen
    <3> QED
      BY <2>1, <2>2, <3>1 DEF Undisturbed
  <2>6. files' \subseteq Names
    BY <1>2, <2>1 DEF HomeInv, HomeShape
  <2> QED
    BY <1>1, <2>1, <2>2, <2>3, <2>4, <2>5, <2>6, HomeSeen DEF HomeInv, HomeShape
<1> QED
  BY <1>3, <1>4

-----------------------------------------------------------------------------
LEMMA ReadAliased ==
  ASSUME HomeInv
  PROVE  Aliased(ReadIndex)
  BY DEF HomeInv, HomeShape, ReadIndex, Aliased, NoAlias

LEMMA HomeIndexAdd ==
  ASSUME HomeInv, NEW e \in Executions, IndexAdd(e)
  PROVE  HomeInv'
<1> DEFINE n == doing[e].to  a == Stem[n]
           list == [b \in DOMAIN ReadIndex \cup {a} |-> IF b = a THEN n ELSE ReadIndex[b]]
           d == [doing[e] EXCEPT !.pc = "open", !.copy = list]
<1>1. doing[e].pc = "read" /\ doing[e].phase = "add" /\ UNCHANGED <<files, index, whole, excused>>
  BY DEF IndexAdd
<1>2. Work(doing[e]) /\ n \in Names
  BY <1>1 DEF HomeInv, HomeShape, Work
<1>3. CASE Does(e, Nothing, FALSE)
  <2>1. Undisturbed(e)'
    BY <1>3, NothingDone, HomeDoes DEF Undisturbed
  <2> QED
    BY <1>1, <1>3, <2>1, NothingDone, HomeUnseen
<1>4. CASE Does(e, d, FALSE)
  <2>1. Aliased(list)
    BY <1>2, ReadAliased DEF Aliased
  <2>2. /\ \A b \in DOMAIN list : (b \in DOMAIN ReadIndex /\ list[b] = ReadIndex[b]) \/ list[b] = n
    OBVIOUS
  <2> HIDE DEF list
  <2>3. /\ Work(d) /\ d.pc = "open" /\ d.phase = "add" /\ d.to = n /\ d.copy = list
        /\ d.crossed = doing[e].crossed
    BY <1>1, <1>2 DEF Work
  <2> HIDE DEF d
  <2>4. doing'[e] = d /\ ReadIndex' = ReadIndex
    BY <1>1, <1>4, HomeDoes DEF ReadIndex
  <2>5. ASSUME ~d.crossed PROVE Undisturbed(e)'
    <3>1. n \in files
      BY <1>1, <2>3, <2>5 DEF HomeInv, Undisturbed
    <3> QED
      BY <1>1, <2>2, <2>3, <2>4, <3>1 DEF Undisturbed
  <2> QED
    BY <1>1, <1>4, <2>1, <2>3, <2>5, HomeUnseen
<1> QED
  BY <1>3, <1>4 DEF IndexAdd

\* What is left to do when nothing has the alias any more.
LEMMA HomeOnwards ==
  ASSUME HomeInv, NEW e \in Executions, doing[e].phase # "none"
  PROVE  /\ Work(Onwards(e)) /\ Aliased(Onwards(e).copy) /\ Onwards(e).pc \in {"idle", "move"}
         /\ Onwards(e).pc = "move" => /\ doing[e].phase = "move" /\ Onwards(e).phase = "move"
                                      /\ Onwards(e).from = doing[e].from
                                      /\ Onwards(e).crossed = doing[e].crossed
         /\ Onwards(e).pc = "idle" => Onwards(e).phase = "none"
<1>1. CASE doing[e].phase = "move"
  <2>1. Onwards(e) = [doing[e] EXCEPT !.pc = "move", !.copy = NoAlias]
    BY <1>1 DEF Onwards
  <2>2. Work(doing[e])
    BY DEF HomeInv, HomeShape
  <2>3. Aliased(NoAlias)
    BY DEF Aliased, NoAlias
  <2> QED
    BY <1>1, <2>1, <2>2, <2>3 DEF Work
<1>2. CASE doing[e].phase # "move"
  BY <1>2, NothingDone DEF Onwards
<1> QED
  BY <1>1, <1>2

LEMMA HomeIndexRemove ==
  ASSUME HomeInv, NEW e \in Executions, IndexRemove(e)
  PROVE  HomeInv'
<1> DEFINE n == doing[e].from  a == Stem[n]
           mine == a \in DOMAIN ReadIndex /\ ReadIndex[a] = n
           list == Restrict(ReadIndex, DOMAIN ReadIndex \ {a})
           d == [doing[e] EXCEPT !.pc = "open", !.copy = list]
<1>1. doing[e].pc = "read" /\ doing[e].phase \in {"delete", "move"} /\ UNCHANGED <<files, index, whole>>
  BY DEF IndexRemove
<1>2. Work(doing[e]) /\ n \in Names
  BY <1>1 DEF HomeInv, HomeShape, Work
<1>3. CASE mine
  <2>1. Does(e, d, FALSE) /\ excused' = excused
    BY <1>3 DEF IndexRemove
  <2>2. /\ DOMAIN list = DOMAIN ReadIndex \ {a}
        /\ \A b \in DOMAIN list : b \in DOMAIN ReadIndex /\ list[b] = ReadIndex[b]
    BY DEF Restrict
  <2> HIDE DEF list
  <2>3. Aliased(list) /\ \A b \in DOMAIN list : list[b] # n
    BY <2>2, ReadAliased DEF Aliased
  <2>4. /\ Work(d) /\ d.pc = "open" /\ d.phase = doing[e].phase /\ d.from = n /\ d.copy = list
        /\ d.crossed = doing[e].crossed
    BY <1>1, <1>2 DEF Work
  <2> HIDE DEF d
  <2>5. doing'[e] = d /\ ReadIndex' = ReadIndex
    BY <1>1, <2>1, HomeDoes DEF ReadIndex
  <2>6. Undisturbed(e)'
    BY <1>1, <2>2, <2>3, <2>4, <2>5 DEF Undisturbed
  <2> QED
    BY <1>1, <2>1, <2>3, <2>4, <2>6, HomeUnseen
<1>4. CASE ~mine
  <2> DEFINE o == Onwards(e)
  <2>1. Does(e, o, FALSE) /\ excused' = excused \cup Doubtful(e)
    BY <1>4 DEF IndexRemove
  <2>2. /\ Work(o) /\ Aliased(o.copy) /\ o.pc \in {"idle", "move"}
        /\ o.pc = "move" => /\ doing[e].phase = "move" /\ o.phase = "move" /\ o.from = n
                            /\ o.crossed = doing[e].crossed
        /\ o.pc = "idle" => o.phase = "none"
    BY <1>1, HomeOnwards
  <2> HIDE DEF o
  <2>3. whole => \A b \in DOMAIN index : index[b] # n
    <3> SUFFICES ASSUME whole, NEW b \in DOMAIN index, index[b] = n PROVE FALSE
      OBVIOUS
    <3>1. ReadIndex = index /\ b = a
      BY DEF ReadIndex, HomeInv, HomeShape, Aliased
    <3> QED
      BY <1>4, <3>1
  <2>4. doing'[e] = o
    BY <2>1, HomeDoes
  <2>5. Undisturbed(e)'
    BY <1>1, <2>2, <2>3, <2>4 DEF Undisturbed
  <2>6. doing[e].crossed => n \in excused'
    BY <1>2, <2>1, HomeAssumption DEF Doubtful
  <2> QED
    BY <1>1, <2>1, <2>2, <2>3, <2>5, <2>6, HomeUnseen
<1> QED
  BY <1>3, <1>4

\* What an execution nobody crossed is about to write leads to files.
LEMMA HomeOpened ==
  ASSUME HomeInv, NEW e \in Executions, OpenIndex(e)
  PROVE  HomeInv'
<1> DEFINE d == [doing[e] EXCEPT !.pc = "write"]
<1>1. doing[e].pc = "open" /\ whole' = FALSE /\ Does(e, d, TRUE) /\ UNCHANGED <<files, index, excused>>
  BY DEF OpenIndex
<1>2. Work(doing[e]) /\ Aliased(doing[e].copy)
  BY DEF HomeInv, HomeShape
<1>3. /\ Work(d) /\ d.pc = "write" /\ d.phase = doing[e].phase /\ d.from = doing[e].from
      /\ d.to = doing[e].to /\ d.copy = doing[e].copy /\ d.crossed = doing[e].crossed
  BY <1>1, <1>2 DEF Work
<1> HIDE DEF d
<1>4. doing'[e] = d /\ \A f \in Executions \ {e} : /\ doing'[f].phase = doing[f].phase
                                                  /\ doing'[f].from = doing[f].from
  BY <1>1, HomeDoesSeen
<1>5. ASSUME ~d.crossed PROVE Undisturbed(e)'
  <2>1. Undisturbed(e)
    BY <1>3, <1>5 DEF HomeInv
  <2>2. ASSUME NEW b \in DOMAIN d.copy, NEW n, n = d.copy[b] PROVE LeadsBut(e, n)'
    <3>1. CASE b \in DOMAIN ReadIndex /\ d.copy[b] = ReadIndex[b]
      <4>1. whole /\ b \in DOMAIN index /\ n = index[b]
        BY <2>2, <3>1 DEF ReadIndex, NoAlias
      <4>2. \/ index[b] \in files \cup excused
            \/ \E f \in Executions : doing[f].phase = "delete" /\ doing[f].from = index[b]
        BY <4>1 DEF HomeInv, AliasLeadsToFile
      <4>3. ~(doing[e].phase = "delete" /\ doing[e].from = index[b])
        BY <1>1, <1>3, <2>1, <2>2, <4>1 DEF Undisturbed
      <4> QED
        BY <1>1, <1>4, <4>1, <4>2, <4>3 DEF LeadsBut
    <3>2. CASE d.phase = "add" /\ d.copy[b] = d.to
      <4>1. d.to \in files
        BY <1>3, <2>1, <3>2 DEF Undisturbed
      <4> QED
        BY <1>1, <2>2, <3>2, <4>1 DEF LeadsBut
    <3>3. \/ b \in DOMAIN ReadIndex /\ d.copy[b] = ReadIndex[b]
          \/ d.phase = "add" /\ d.copy[b] = d.to
      BY <1>1, <1>3, <2>1, <2>2 DEF Undisturbed
    <3> QED
      BY <3>1, <3>2, <3>3
  <2>3. d.phase = "add" => d.to \in files
    BY <1>3, <2>1 DEF Undisturbed
  <2>4. d.phase \in {"delete", "move"} => \A b \in DOMAIN d.copy : d.copy[b] # d.from
    BY <1>1, <1>3, <2>1 DEF Undisturbed
  <2>5. \A b \in DOMAIN d.copy : \A n : n = d.copy[b] => LeadsBut(e, n)'
    BY <2>2
  <2>6. doing'[e] = d /\ files' = files
    BY <1>1, <1>4
  <2> QED
    BY <1>3, <2>3, <2>4, <2>5, <2>6 DEF Undisturbed
<1>6. AliasLeadsToFile'
  BY <1>1 DEF AliasLeadsToFile
<1> QED
  BY <1>1, <1>2, <1>3, <1>5, <1>6, HomeSeen DEF HomeInv, HomeShape

LEMMA HomeIndexed ==
  ASSUME HomeInv, NEW e \in Executions, WriteIndex(e)
  PROVE  HomeInv'
<1> DEFINE d == Onwards(e)
<1>1. /\ doing[e].pc = "write" /\ index' = doing[e].copy /\ whole' = TRUE
      /\ excused' = excused \cup Doubtful(e) /\ Does(e, d, TRUE) /\ files' = files
  BY DEF WriteIndex
<1>2. Work(doing[e]) /\ Aliased(doing[e].copy) /\ doing[e].phase # "none"
  BY <1>1 DEF HomeInv, HomeShape, Work
<1>3. /\ Work(d) /\ Aliased(d.copy) /\ d.pc \in {"idle", "move"}
      /\ d.pc = "move" => /\ doing[e].phase = "move" /\ d.phase = "move" /\ d.from = doing[e].from
                          /\ d.crossed = doing[e].crossed
      /\ d.pc = "idle" => d.phase = "none"
  BY <1>2, HomeOnwards
<1> HIDE DEF d
<1>4. doing'[e] = d /\ \A f \in Executions \ {e} : /\ doing'[f].phase = doing[f].phase
                                                  /\ doing'[f].from = doing[f].from
  BY <1>1, HomeDoesSeen
<1>5. AliasLeadsToFile'
  <2> SUFFICES ASSUME NEW b \in DOMAIN doing[e].copy
               PROVE  \/ doing[e].copy[b] \in files' \cup excused'
                      \/ \E f \in Executions : doing'[f].phase = "delete" /\ doing'[f].from = doing[e].copy[b]
    BY <1>1 DEF AliasLeadsToFile
  <2>1. CASE doing[e].crossed
    <3>1. doing[e].copy[b] \in Range(doing[e].copy)
      BY DEF Range
    <3> QED
      BY <1>1, <2>1, <3>1 DEF Doubtful
  <2>2. CASE ~doing[e].crossed
    <3>1. LeadsBut(e, doing[e].copy[b])
      BY <1>1, <2>2 DEF HomeInv, Undisturbed
    <3> QED
      BY <1>1, <1>4, <3>1 DEF LeadsBut
  <2> QED
    BY <2>1, <2>2
<1>6. ASSUME ~d.crossed PROVE Undisturbed(e)'
  <2>1. CASE d.pc = "idle"
    BY <1>3, <1>4, <2>1 DEF Undisturbed
  <2>2. CASE d.pc = "move"
    <3>1. \A b \in DOMAIN doing[e].copy : doing[e].copy[b] # doing[e].from
      BY <1>1, <1>3, <1>6, <2>2 DEF HomeInv, Undisturbed
    <3> QED
      BY <1>1, <1>3, <1>4, <2>2, <3>1 DEF Undisturbed
  <2> QED
    BY <1>3, <2>1, <2>2
<1> QED
  BY <1>1, <1>2, <1>3, <1>5, <1>6, HomeSeen DEF HomeInv, HomeShape

LEMMA HomeKilled ==
  ASSUME HomeInv, NEW e \in Executions, KillExecution(e)
  PROVE  HomeInv'
<1>1. /\ Does(e, Nothing, FALSE) /\ UNCHANGED <<files, index, whole>> /\ excused \subseteq excused'
      /\ doing[e].phase = "delete" => doing[e].from \in excused'
  BY DEF KillExecution
<1>2. Undisturbed(e)'
  BY <1>1, NothingDone, HomeDoes DEF Undisturbed
<1> QED
  BY <1>1, <1>2, NothingDone, HomeUnseen

LEMMA HomeInductive == HomeInv /\ [HomeNext]_homeVars => HomeInv'
<1> SUFFICES ASSUME HomeInv, [HomeNext]_homeVars PROVE HomeInv'
  OBVIOUS
<1>1. CASE UNCHANGED homeVars
  BY <1>1 DEF homeVars, HomeInv, HomeShape, WritesAlone, AliasLeadsToFile, Undisturbed, LeadsBut, ReadIndex
<1> QED
  BY <1>1, HomeWritten, HomeDeleted, HomeMoves, HomeEmptied, HomeRenamed, HomeIndexAdd, HomeIndexRemove,
     HomeOpened, HomeIndexed, HomeKilled DEF HomeNext

\* index_add, index_remove and the operations on files: an alias leads to a file, but
\* where executions crossed each other or one was killed, for any executions and names.
THEOREM AliasesLeadToFiles == HomeSpec => []AliasLeadsToFile
<1>1. HomeInv => AliasLeadsToFile
  BY DEF HomeInv
<1> QED
  BY <1>1, HomeInitial, HomeInductive, PTL DEF HomeSpec

-----------------------------------------------------------------------------
(* Induction over numbers, without a predicate as a parameter *)

\* A set of natural numbers has a least element, for the order of a relation.
LEMMA LeastElement ==
  ASSUME NEW R, NEW S, S \subseteq Nat, S # {}, IsWellFoundedOn(R, Nat)
  PROVE  \E n \in S : \A m \in S : ~(<<m, n>> \in R)
  BY WFMin, Zenon

\* A set of natural numbers has a least element.
LEMMA LeastNatural ==
  ASSUME NEW S, S \subseteq Nat, S # {}
  PROVE  \E n \in S : \A m \in S : n <= m
<1>1. PICK R : IsWellFoundedOn(R, Nat) /\ \A x, y \in Nat : <<x, y>> \in R <=> x < y
  <2> DEFINE R == OpToRel(<, Nat)
  <2>1. \A x, y \in Nat : <<x, y>> \in R <=> x < y
    BY DEF OpToRel
  <2>2. IsWellFoundedOn(R, Nat)
    BY NatLessThanWellFounded
  <2> HIDE DEF R
  <2> QED
    BY <2>1, <2>2
<1>2. PICK n \in S : \A m \in S : ~(<<m, n>> \in R)
  BY <1>1, LeastElement
<1>3. \A m \in S : ~(m < n)
  <2>1. S \subseteq Nat
    OBVIOUS
  <2> QED
    BY <1>1, <1>2, <2>1, Zenon
<1> QED
  BY <1>3

-----------------------------------------------------------------------------
(* AgentStorage: the sum of the sizes of files *)

Pick(s) == CHOOSE x \in s : TRUE

\* k sums the sizes of every set of files of D that has at most n.
Sums(k, size, D, n) ==
  k = [s \in {s \in SUBSET D : Cardinality(s) <= n} |->
         IF s = {} THEN 0 ELSE size[Pick(s)] + k[s \ {Pick(s)}]]

LEMMA PickFits ==
  ASSUME NEW s, s # {}, IsFiniteSet(s)
  PROVE  /\ Pick(s) \in s /\ IsFiniteSet(s \ {Pick(s)})
         /\ Cardinality(s) \in Nat /\ Cardinality(s) > 0 /\ Cardinality(s \ {Pick(s)}) = Cardinality(s) - 1
<1>1. Pick(s) \in s
  BY DEF Pick
<1>2. Cardinality(s) \in Nat /\ Cardinality(s) # 0
  BY FS_CardinalityType, FS_EmptySet
<1> QED
  BY <1>1, <1>2, FS_RemoveElement

LEMMA SumsExist ==
  ASSUME NEW D, IsFiniteSet(D), NEW size, NEW n \in Nat
  PROVE  \E k : Sums(k, size, D, n)
<1> DEFINE bad == {m \in Nat : ~ \E k : Sums(k, size, D, m)}
<1> SUFFICES ASSUME bad # {} PROVE FALSE
  OBVIOUS
<1>1. PICK m \in bad : \A j \in bad : m <= j
  <2>1. bad \subseteq Nat
    OBVIOUS
  <2> HIDE DEF bad
  <2> QED
    BY <2>1, LeastNatural
<1>2. \A s \in SUBSET D : IsFiniteSet(s) /\ Cardinality(s) \in Nat
  BY FS_Subset, FS_CardinalityType
<1>3. CASE m = 0
  <2> DEFINE k == [s \in {s \in SUBSET D : Cardinality(s) <= 0} |-> 0]
  <2>1. \A s \in SUBSET D : Cardinality(s) <= 0 => s = {}
    BY <1>2, FS_EmptySet
  <2>2. Sums(k, size, D, 0)
    BY <2>1 DEF Sums
  <2> QED
    BY <1>1, <1>3, <2>2
<1>4. CASE m # 0
  <2>1. m - 1 \in Nat /\ m - 1 \notin bad /\ m \in Nat
    BY <1>1, <1>4
  <2>2. PICK k : Sums(k, size, D, m - 1)
    BY <2>1
  <2> DEFINE part == {s \in SUBSET D : Cardinality(s) <= m}
             j == [s \in part |-> IF Cardinality(s) < m THEN k[s] ELSE size[Pick(s)] + k[s \ {Pick(s)}]]
  <2>3. ASSUME NEW s \in part
        PROVE  j[s] = IF s = {} THEN 0 ELSE size[Pick(s)] + j[s \ {Pick(s)}]
    <3>1. s \in SUBSET D /\ IsFiniteSet(s) /\ Cardinality(s) \in Nat /\ Cardinality(s) <= m
      BY <1>2
    <3>2. CASE s = {}
      <4>1. Cardinality(s) = 0
        BY <3>2, FS_EmptySet
      <4>2. j[s] = k[s]
        BY <2>1, <3>1, <4>1, <1>4
      <4>3. k[s] = 0
        BY <2>1, <2>2, <3>1, <3>2, <4>1 DEF Sums
      <4> QED
        BY <3>2, <4>2, <4>3
    <3>3. CASE s # {}
      <4> DEFINE r == s \ {Pick(s)}
      <4>1. /\ Cardinality(r) \in Nat /\ Cardinality(r) = Cardinality(s) - 1 /\ r \in SUBSET D
        BY <1>2, <3>1, <3>3, PickFits
      <4> HIDE DEF r
      <4>2. j[r] = k[r]
        BY <2>1, <3>1, <4>1
      <4>3. CASE Cardinality(s) < m
        <5>1. j[s] = k[s] /\ Cardinality(s) <= m - 1
          BY <2>1, <3>1, <4>3
        <5>2. k[s] = IF s = {} THEN 0 ELSE size[Pick(s)] + k[s \ {Pick(s)}]
          BY <2>2, <3>1, <5>1 DEF Sums
        <5> QED
          BY <3>3, <4>2, <5>1, <5>2 DEF r
      <4>4. CASE ~(Cardinality(s) < m)
        <5>1. j[s] = size[Pick(s)] + k[s \ {Pick(s)}]
          BY <4>4
        <5> QED
          BY <3>3, <4>2, <5>1 DEF r
      <4> QED
        BY <4>3, <4>4
    <3> QED
      BY <3>2, <3>3
  <2>4. j = [s \in part |-> j[s]]
    OBVIOUS
  <2> HIDE DEF j
  <2>5. Sums(j, size, D, m)
    BY <2>3, <2>4 DEF Sums
  <2> QED
    BY <1>1, <2>5
<1> QED
  BY <1>3, <1>4

Total(size) == MapThenSumSet(LAMBDA f : size[f], DOMAIN size)

LEMMA TotalSums ==
  ASSUME NEW size, IsFiniteSet(DOMAIN size)
  PROVE  \E k : /\ Sums(k, size, DOMAIN size, Cardinality(DOMAIN size))
                /\ Total(size) = k[DOMAIN size]
<1> DEFINE D == DOMAIN size
           all == CHOOSE k : k = [s \in SUBSET D |-> IF s = {} THEN 0 ELSE size[Pick(s)] + k[s \ {Pick(s)}]]
<1>1. Total(size) = all[D]
  BY DEF Total, MapThenSumSet, MapThenFoldSet, Pick
<1>2. {s \in SUBSET D : Cardinality(s) <= Cardinality(D)} = SUBSET D
  BY FS_Subset
<1>3. PICK k : Sums(k, size, D, Cardinality(D))
  BY SumsExist, FS_CardinalityType
<1>4. \E j : j = [s \in SUBSET D |-> IF s = {} THEN 0 ELSE size[Pick(s)] + j[s \ {Pick(s)}]]
  BY <1>2, <1>3 DEF Sums
<1>5. all = [s \in SUBSET D |-> IF s = {} THEN 0 ELSE size[Pick(s)] + all[s \ {Pick(s)}]]
  BY <1>4
<1> HIDE DEF all
<1>6. Sums(all, size, D, Cardinality(D))
  BY <1>2, <1>5 DEF Sums
<1> QED
  BY <1>1, <1>6

\* One set of files at a time.
LEMMA SumsStep ==
  ASSUME NEW D, IsFiniteSet(D), NEW size, NEW k, Sums(k, size, D, Cardinality(D)), NEW s \in SUBSET D
  PROVE  /\ IsFiniteSet(s) /\ Cardinality(s) \in Nat
         /\ s = {} => k[s] = 0
         /\ s # {} => /\ Pick(s) \in s /\ k[s] = size[Pick(s)] + k[s \ {Pick(s)}]
                      /\ s \ {Pick(s)} \in SUBSET D
                      /\ Cardinality(s \ {Pick(s)}) < Cardinality(s)
<1>1. IsFiniteSet(s) /\ Cardinality(s) \in Nat /\ Cardinality(s) <= Cardinality(D)
  BY FS_Subset, FS_CardinalityType
<1>2. k[s] = IF s = {} THEN 0 ELSE size[Pick(s)] + k[s \ {Pick(s)}]
  BY <1>1 DEF Sums
<1>3. s # {} => /\ Pick(s) \in s /\ s \ {Pick(s)} \in SUBSET D
                /\ Cardinality(s \ {Pick(s)}) < Cardinality(s)
  BY <1>1, PickFits
<1> QED
  BY <1>1, <1>2, <1>3

\* A sum does not depend on the order, and is that of the sizes of its files.
SumFits(k, size, s) ==
  k[s] \in Nat /\ \A x \in s : k[s] = size[x] + k[s \ {x}]

LEMMA SumsFit ==
  ASSUME NEW D, IsFiniteSet(D), NEW size \in [D -> Nat], NEW k, Sums(k, size, D, Cardinality(D)),
         NEW t \in SUBSET D
  PROVE  SumFits(k, size, t)
<1> DEFINE bad == {n \in Nat : \E s \in SUBSET D : Cardinality(s) = n /\ ~SumFits(k, size, s)}
<1>0. IsFiniteSet(t) /\ Cardinality(t) \in Nat
  BY SumsStep
<1> SUFFICES ASSUME bad # {} PROVE FALSE
  BY <1>0
<1>a. ASSUME NEW s \in SUBSET D
      PROVE  /\ IsFiniteSet(s) /\ Cardinality(s) \in Nat
             /\ s = {} => k[s] = 0
             /\ s # {} => /\ Pick(s) \in s /\ k[s] = size[Pick(s)] + k[s \ {Pick(s)}]
                          /\ s \ {Pick(s)} \in SUBSET D
                          /\ Cardinality(s \ {Pick(s)}) < Cardinality(s)
  BY SumsStep
<1>1. PICK n \in bad : \A m \in bad : n <= m
  <2>1. bad \subseteq Nat
    OBVIOUS
  <2> HIDE DEF bad
  <2> QED
    BY <2>1, LeastNatural
<1>2. PICK s \in SUBSET D : Cardinality(s) = n /\ ~SumFits(k, size, s)
  BY <1>1
<1>3. ASSUME NEW r \in SUBSET D, Cardinality(r) \in Nat, Cardinality(r) < n PROVE SumFits(k, size, r)
  BY <1>1, <1>3
<1>4. IsFiniteSet(s) /\ n \in Nat
  BY <1>a, <1>2
<1>5. CASE s = {}
  <2>1. k[s] = 0
    BY <1>a, <1>5
  <2> QED
    BY <1>2, <1>5, <2>1 DEF SumFits
<1>6. CASE s # {}
  <2> DEFINE c == Pick(s)  r == s \ {c}
  <2>1. c \in s /\ k[s] = size[c] + k[r] /\ r \in SUBSET D /\ Cardinality(r) < n
    BY <1>a, <1>2, <1>6
  <2>2. Cardinality(r) \in Nat /\ IsFiniteSet(r)
    BY <1>a, <2>1
  <2>3. SumFits(k, size, r)
    BY <1>3, <2>1, <2>2
  <2>4. size[c] \in Nat /\ k[r] \in Nat /\ k[s] \in Nat
    BY <2>1, <2>3 DEF SumFits
  <2> HIDE DEF c
  <2>5. ASSUME NEW x \in s PROVE k[s] = size[x] + k[s \ {x}]
    <3>1. CASE x = c
      BY <2>1, <3>1
    <3>2. CASE x # c
      <4> DEFINE u == s \ {x}
      <4>1. x \in r /\ c \in u /\ r \ {x} = u \ {c} /\ u \in SUBSET D
        BY <2>1, <3>2
      <4>2. Cardinality(u) \in Nat /\ Cardinality(u) = n - 1
        <5>1. IsFiniteSet(s \ {x}) /\ Cardinality(s \ {x}) = Cardinality(s) - 1
          BY <1>4, FS_RemoveElement
        <5> QED
          BY <1>2, <1>a, <4>1, <5>1
      <4>3. SumFits(k, size, u)
        BY <1>3, <1>4, <4>1, <4>2
      <4>4. k[r] = size[x] + k[r \ {x}]
        BY <2>3, <4>1 DEF SumFits
      <4>5. k[u] = size[c] + k[u \ {c}] /\ k[u] \in Nat
        BY <4>1, <4>3 DEF SumFits
      <4>6. size[x] \in Nat
        OBVIOUS
      <4>7. r \ {x} \in SUBSET D /\ Cardinality(r \ {x}) \in Nat /\ Cardinality(r \ {x}) = Cardinality(r) - 1
        <5>1. r \ {x} \in SUBSET D
          BY <2>1
        <5>2. Cardinality(r \ {x}) = Cardinality(r) - 1
          <6> HIDE DEF r
          <6> QED
            BY <2>2, <4>1, FS_RemoveElement
        <5> QED
          BY <1>a, <5>1, <5>2
      <4>8. SumFits(k, size, r \ {x})
        BY <1>3, <1>4, <2>1, <2>2, <4>7
      <4>9. k[r \ {x}] \in Nat
        BY <4>8 DEF SumFits
      <4> DEFINE kr == k[r]  ks == k[s]  ku == k[u]  kx == k[r \ {x}]  a == size[x]  b == size[c]
      <4>10. /\ a \in Nat /\ b \in Nat /\ kx \in Nat
             /\ ks = b + kr /\ kr = a + kx /\ ku = b + kx
        BY <2>1, <2>4, <4>1, <4>4, <4>5, <4>6, <4>9
      <4> HIDE DEF kr, ks, ku, kx, a, b
      <4>11. ks = a + ku
        BY <4>10
      <4> QED
        BY <4>11 DEF ks, ku, a
    <3> QED
      BY <3>1, <3>2
  <2> QED
    BY <1>2, <2>4, <2>5 DEF SumFits
<1> QED
  BY <1>5, <1>6

\* The same files have the same sum.
LEMMA SumsAgree ==
  ASSUME NEW D, IsFiniteSet(D), NEW size, NEW k, Sums(k, size, D, Cardinality(D)),
         NEW E, IsFiniteSet(E), NEW weight, NEW j, Sums(j, weight, E, Cardinality(E)),
         NEW t \in SUBSET D, t \subseteq E, \A f \in t : size[f] = weight[f]
  PROVE  k[t] = j[t]
<1> DEFINE bad == {n \in Nat : \E s \in SUBSET t : Cardinality(s) = n /\ k[s] # j[s]}
<1>0. IsFiniteSet(t) /\ Cardinality(t) \in Nat
  BY SumsStep
<1> SUFFICES ASSUME bad # {} PROVE FALSE
  BY <1>0
<1>a. ASSUME NEW s \in SUBSET D
      PROVE  /\ IsFiniteSet(s) /\ Cardinality(s) \in Nat
             /\ s = {} => k[s] = 0
             /\ s # {} => /\ Pick(s) \in s /\ k[s] = size[Pick(s)] + k[s \ {Pick(s)}]
                          /\ s \ {Pick(s)} \in SUBSET D
                          /\ Cardinality(s \ {Pick(s)}) < Cardinality(s)
  BY SumsStep
<1>b. ASSUME NEW s \in SUBSET E
      PROVE  /\ IsFiniteSet(s) /\ Cardinality(s) \in Nat
             /\ s = {} => j[s] = 0
             /\ s # {} => /\ Pick(s) \in s /\ j[s] = weight[Pick(s)] + j[s \ {Pick(s)}]
                          /\ s \ {Pick(s)} \in SUBSET E
                          /\ Cardinality(s \ {Pick(s)}) < Cardinality(s)
  BY SumsStep
<1>1. PICK n \in bad : \A m \in bad : n <= m
  <2>1. bad \subseteq Nat
    OBVIOUS
  <2> HIDE DEF bad
  <2> QED
    BY <2>1, LeastNatural
<1>2. PICK s \in SUBSET t : Cardinality(s) = n /\ k[s] # j[s]
  BY <1>1
<1>3. /\ s \in SUBSET D /\ s \in SUBSET E
      /\ s = {} => k[s] = 0 /\ j[s] = 0
      /\ s # {} => /\ Pick(s) \in s /\ k[s] = size[Pick(s)] + k[s \ {Pick(s)}]
                   /\ j[s] = weight[Pick(s)] + j[s \ {Pick(s)}]
                   /\ Cardinality(s \ {Pick(s)}) < n
  <2>1. s \in SUBSET D /\ s \in SUBSET E
    OBVIOUS
  <2> QED
    BY <1>a, <1>b, <1>2, <2>1
<1>4. s # {} /\ n \in Nat
  BY <1>2, <1>3
<1> DEFINE r == s \ {Pick(s)}
<1>5. r \in SUBSET t /\ r \in SUBSET D
  BY <1>3
<1>6. Cardinality(r) \in Nat
  BY <1>a, <1>5
<1>7. k[r] = j[r]
  BY <1>1, <1>3, <1>4, <1>5, <1>6
<1>8. size[Pick(s)] = weight[Pick(s)]
  BY <1>3, <1>4
<1> QED
  BY <1>2, <1>3, <1>4, <1>7, <1>8

LEMMA TotalNone == Total(NoFile) = 0
<1>1. DOMAIN NoFile = {} /\ IsFiniteSet({})
  BY FS_EmptySet DEF NoFile
<1>2. PICK k : Sums(k, NoFile, {}, Cardinality({})) /\ Total(NoFile) = k[{}]
  BY <1>1, TotalSums
<1>3. Cardinality({}) = 0
  BY FS_EmptySet
<1>4. k[{}] = 0
  BY <1>1, <1>2, SumsStep
<1> QED
  BY <1>2, <1>4

LEMMA TotalIsNatural ==
  ASSUME NEW D, IsFiniteSet(D), NEW size \in [D -> Nat]
  PROVE  Total(size) \in Nat
<1>1. PICK k : Sums(k, size, D, Cardinality(D)) /\ Total(size) = k[D]
  BY TotalSums
<1>2. SumFits(k, size, D)
  BY <1>1, SumsFit
<1> QED
  BY <1>1, <1>2 DEF SumFits

\* Deleting a file takes its size away.
LEMMA TotalWithout ==
  ASSUME NEW D, IsFiniteSet(D), NEW size \in [D -> Nat], NEW f \in D,
         NEW rest \in [D \ {f} -> Nat], \A g \in D \ {f} : rest[g] = size[g]
  PROVE  Total(size) = size[f] + Total(rest)
<1> DEFINE E == D \ {f}
<1>1. IsFiniteSet(E)
  BY FS_RemoveElement
<1>2. PICK k : Sums(k, size, D, Cardinality(D)) /\ Total(size) = k[D]
  BY TotalSums
<1>3. PICK j : Sums(j, rest, E, Cardinality(E)) /\ Total(rest) = j[E]
  BY <1>1, TotalSums
<1>4. k[D] = size[f] + k[E]
  BY <1>2, SumsFit DEF SumFits
<1>5. k[E] = j[E]
  BY <1>1, <1>2, <1>3, SumsAgree
<1> QED
  BY <1>2, <1>3, <1>4, <1>5

-----------------------------------------------------------------------------
(* AgentStorage: the quota *)

Conf == [max : Nat, used : Nat, request : BOOLEAN]

StorageShape ==
  /\ config \in Conf /\ peak \in Nat /\ config.max <= peak /\ DefaultQuota <= peak
  /\ DOMAIN disk \subseteq Files /\ disk \in [DOMAIN disk -> Nat]
  /\ copy \in [DOMAIN copy -> Conf] /\ \A o \in DOMAIN copy : copy[o].max <= peak
  /\ DOMAIN writing \subseteq DOMAIN copy /\ writing \in [DOMAIN writing -> Nat]

\* One object at most, which counts all that is on the disk.
DiskCounted ==
  /\ \A o, p \in DOMAIN copy : o = p
  /\ Total(disk) <= peak
  /\ \A o \in DOMAIN copy : IF o \in DOMAIN writing THEN Total(disk) <= writing[o]
                             ELSE Total(disk) <= copy[o].used
  /\ DOMAIN writing = {} => Total(disk) <= config.used

StorageInv == StorageShape /\ (~upset => DiskCounted)

LEMMA DiskTotal == ASSUME StorageInv PROVE IsFiniteSet(DOMAIN disk) /\ Total(disk) \in Nat
<1>1. IsFiniteSet(DOMAIN disk)
  BY QuotaAssumption, FS_Subset DEF StorageInv, StorageShape
<1> QED
  BY <1>1, TotalIsNatural DEF StorageInv, StorageShape

LEMMA LesserOf ==
  ASSUME NEW a \in Nat, NEW b \in Nat
  PROVE  /\ Min({a, b}) \in {a, b} /\ Min({a, b}) <= b
         /\ Max({a, b}) \in {a, b} /\ Max({a, b}) \in Nat /\ a <= Max({a, b}) /\ b <= Max({a, b})
<1>1. \E x \in {a, b} : \A y \in {a, b} : x <= y
  OBVIOUS
<1>2. \E x \in {a, b} : \A y \in {a, b} : x >= y
  OBVIOUS
<1>3. Max({a, b}) \in {a, b} /\ \A y \in {a, b} : Max({a, b}) >= y
  BY <1>2 DEF Max
<1>4. Min({a, b}) \in {a, b} /\ \A y \in {a, b} : Min({a, b}) <= y
  BY <1>1 DEF Min
<1> QED
  BY <1>3, <1>4

LEMMA StorageInitial == StorageInit => StorageInv
<1> SUFFICES ASSUME StorageInit PROVE StorageInv
  OBVIOUS
<1>1. Fresh \in Conf /\ Fresh.max = DefaultQuota /\ Fresh.used = 0
  BY QuotaAssumption DEF Fresh, Conf
<1>2. Total(disk) = 0
  BY TotalNone DEF StorageInit
<1>3. DOMAIN disk = {} /\ DOMAIN copy = {} /\ DOMAIN writing = {}
  BY DEF StorageInit, NoFile
<1>4. disk \in [DOMAIN disk -> Nat] /\ copy \in [DOMAIN copy -> Conf] /\ writing \in [DOMAIN writing -> Nat]
  BY DEF StorageInit, NoFile
<1>5. config = Fresh /\ peak = DefaultQuota
  BY DEF StorageInit
<1>6. StorageShape
  BY <1>1, <1>3, <1>4, <1>5, QuotaAssumption DEF StorageShape
<1>7. DiskCounted
  BY <1>1, <1>2, <1>3, <1>5, QuotaAssumption DEF DiskCounted
<1> QED
  BY <1>6, <1>7 DEF StorageInv

\* What a save does, of a configuration with the quota and the count it may have.
LEMMA SaveCounted ==
  ASSUME StorageInv, NEW o \in DOMAIN copy, NEW c \in Conf, Save(o, c),
         peak' \in Nat, peak <= peak', c.max <= peak', UNCHANGED <<disk, upset>>,
         DOMAIN writing' = DOMAIN writing \ {o}, writing' \in [DOMAIN writing' -> Nat],
         ~upset /\ DiskCounted => Total(disk) <= c.used
  PROVE  StorageInv'
<1>1. config' = c /\ copy' = [copy EXCEPT ![o] = c]
  BY DEF Save
<1>2. /\ DOMAIN copy' = DOMAIN copy /\ copy' \in [DOMAIN copy' -> Conf] /\ copy'[o] = c
      /\ \A p \in DOMAIN copy \ {o} : copy'[p] = copy[p]
  BY <1>1 DEF StorageInv, StorageShape
<1>3. \A p \in DOMAIN copy' : copy'[p].max <= peak'
  <2> SUFFICES ASSUME NEW p \in DOMAIN copy PROVE copy'[p].max <= peak'
    BY <1>2
  <2>1. CASE p = o
    BY <1>2, <2>1
  <2>2. CASE p # o
    <3>1. copy[p].max \in Nat /\ copy[p].max <= peak /\ peak \in Nat
      BY DEF StorageInv, StorageShape, Conf
    <3>2. copy'[p].max = copy[p].max
      BY <1>2, <2>2
    <3> QED
      BY <3>1, <3>2
  <2> QED
    BY <2>1, <2>2
<1>4. StorageShape'
  <2>1. DefaultQuota <= peak'
    BY QuotaAssumption DEF StorageInv, StorageShape
  <2> QED
    BY <1>1, <1>2, <1>3, <2>1 DEF StorageInv, StorageShape
<1>5. ASSUME ~upset' PROVE DiskCounted'
  <2>1. ~upset /\ DiskCounted /\ Total(disk) <= c.used /\ Total(disk)' = Total(disk)
    BY <1>5 DEF StorageInv
  <2>2. \A p \in DOMAIN copy : p = o
    BY <2>1 DEF DiskCounted
  <2>3. o \notin DOMAIN writing'
    OBVIOUS
  <2>4. Total(disk) <= peak'
    <3>1. Total(disk) \in Nat /\ peak \in Nat /\ Total(disk) <= peak
      BY <2>1, DiskTotal DEF DiskCounted, StorageInv, StorageShape
    <3> QED
      BY <3>1
  <2> QED
    BY <1>1, <1>2, <2>1, <2>2, <2>3, <2>4 DEF DiskCounted
<1> QED
  BY <1>4, <1>5 DEF StorageInv

\* Of an object whose count is in its copy, which no save is about to change.
LEMMA IdleSave ==
  ASSUME StorageInv, NEW o \in Objects, Idle(o), NEW c \in Conf, Save(o, c),
         UNCHANGED <<disk, writing, upset>>, peak' \in Nat, peak <= peak', c.max <= peak',
         DiskCounted => Total(disk) <= c.used
  PROVE  StorageInv'
<1>1. o \in DOMAIN copy /\ DOMAIN writing = DOMAIN writing \ {o} /\ writing \in [DOMAIN writing -> Nat]
  BY DEF Idle, StorageInv, StorageShape
<1>2. DOMAIN writing' = DOMAIN writing \ {o} /\ writing' \in [DOMAIN writing' -> Nat]
  BY <1>1
<1> QED
  BY <1>1, <1>2, SaveCounted

LEMMA SavesKeep ==
  ASSUME StorageInv, NEW o \in Objects,
         \/ Ensure(o) \/ SetUsed(o) \/ RecalcUsed(o) \/ RequestQuota(o)
         \/ \E max \in Quotas : ApproveQuota(o, max)
  PROVE  StorageInv'
<1>1. ASSUME Idle(o)
      PROVE  /\ o \in DOMAIN copy /\ copy[o] \in Conf /\ copy[o].max <= peak /\ peak \in Nat
             /\ DiskCounted => Total(disk) <= copy[o].used
  BY <1>1 DEF Idle, StorageInv, StorageShape, DiskCounted
<1>2. CASE Ensure(o)
  <2> DEFINE c == copy[o]
  <2>1. Idle(o) /\ Save(o, c) /\ UNCHANGED <<disk, writing, peak, upset>>
    BY <1>2 DEF Ensure
  <2>2. /\ c \in Conf /\ peak' \in Nat /\ peak <= peak' /\ c.max <= peak'
        /\ DiskCounted => Total(disk) <= c.used
    BY <1>1, <2>1
  <2> HIDE DEF c
  <2> QED
    BY <2>1, <2>2, IdleSave
<1>3. CASE RequestQuota(o)
  <2> DEFINE c == [copy[o] EXCEPT !.request = TRUE]
  <2>1. Idle(o) /\ Save(o, c) /\ UNCHANGED <<disk, writing, peak, upset>>
    BY <1>3 DEF RequestQuota
  <2>2. c \in Conf /\ c.max = copy[o].max /\ c.used = copy[o].used
    BY <1>1, <2>1 DEF Conf
  <2> HIDE DEF c
  <2>3. /\ peak' \in Nat /\ peak <= peak' /\ c.max <= peak'
        /\ DiskCounted => Total(disk) <= c.used
    BY <1>1, <2>1, <2>2
  <2> QED
    BY <2>1, <2>2, <2>3, IdleSave
<1>4. CASE RecalcUsed(o)
  <2> DEFINE c == [copy[o] EXCEPT !.used = OnDisk]
  <2>1. Idle(o) /\ Save(o, c) /\ UNCHANGED <<disk, writing, peak, upset>>
    BY <1>4 DEF RecalcUsed
  <2>2. OnDisk = Total(disk) /\ Total(disk) \in Nat
    BY DiskTotal DEF OnDisk, Total
  <2>3. c \in Conf /\ c.max = copy[o].max /\ c.used = Total(disk)
    BY <1>1, <2>1, <2>2 DEF Conf
  <2> HIDE DEF c
  <2>4. /\ peak' \in Nat /\ peak <= peak' /\ c.max <= peak' /\ Total(disk) <= c.used
    BY <1>1, <2>1, <2>2, <2>3
  <2> QED
    BY <2>1, <2>3, <2>4, IdleSave
<1>5. ASSUME NEW max \in Quotas, ApproveQuota(o, max) PROVE StorageInv'
  <2> DEFINE new == Min({max, MaxQuota})
             c == [copy[o] EXCEPT !.max = new, !.request = FALSE]
  <2>1. Idle(o) /\ Save(o, c) /\ peak' = Max({peak, new}) /\ UNCHANGED <<disk, writing, upset>>
    BY <1>5 DEF ApproveQuota
  <2>2. new \in Nat /\ max \in Nat
    BY QuotaAssumption, LesserOf
  <2> HIDE DEF new
  <2>3. peak' \in Nat /\ peak <= peak' /\ new <= peak'
    BY <1>1, <2>1, <2>2, LesserOf
  <2>4. c \in Conf /\ c.max = new /\ c.used = copy[o].used
    BY <1>1, <2>1, <2>2 DEF Conf
  <2> HIDE DEF c
  <2>5. c.max <= peak' /\ (DiskCounted => Total(disk) <= c.used)
    BY <1>1, <2>1, <2>3, <2>4
  <2> QED
    BY <2>1, <2>3, <2>4, <2>5, IdleSave
<1>6. CASE SetUsed(o)
  <2> DEFINE c == [copy[o] EXCEPT !.used = writing[o]]
  <2>1. /\ o \in DOMAIN writing /\ Save(o, c) /\ UNCHANGED <<disk, peak, upset>>
        /\ writing' = Restrict(writing, DOMAIN writing \ {o})
    BY <1>6 DEF SetUsed
  <2>2. o \in DOMAIN copy /\ copy[o] \in Conf /\ copy[o].max <= peak /\ peak \in Nat /\ writing[o] \in Nat
    BY <2>1 DEF StorageInv, StorageShape
  <2>3. c \in Conf /\ c.max = copy[o].max /\ c.used = writing[o]
    BY <2>2 DEF Conf
  <2>4. DOMAIN writing' = DOMAIN writing \ {o} /\ writing' \in [DOMAIN writing' -> Nat]
    BY <2>1 DEF Restrict, StorageInv, StorageShape
  <2>5. DiskCounted => Total(disk) <= writing[o]
    BY <2>1, <2>2 DEF DiskCounted
  <2> HIDE DEF c
  <2> QED
    BY <2>1, <2>2, <2>3, <2>4, <2>5, SaveCounted
<1> QED
  BY <1>2, <1>3, <1>4, <1>5, <1>6

\* The bytes go to the disk, and then to the count.
LEMMA StorageWritten ==
  ASSUME StorageInv, NEW o \in DOMAIN copy, NEW n \in Nat, UNCHANGED <<config, copy, peak, upset>>,
         writing' = [p \in DOMAIN writing \cup {o} |-> IF p = o THEN n ELSE writing[p]],
         DOMAIN disk' \subseteq Files, disk' \in [DOMAIN disk' -> Nat],
         ~upset /\ DiskCounted => Total(disk') <= n /\ Total(disk') <= peak
  PROVE  StorageInv'
<1>1. /\ DOMAIN writing' = DOMAIN writing \cup {o} /\ writing'[o] = n
      /\ writing' \in [DOMAIN writing' -> Nat]
  BY DEF StorageInv, StorageShape
<1>2. StorageShape'
  BY <1>1 DEF StorageInv, StorageShape
<1>3. ASSUME ~upset' PROVE DiskCounted'
  <2>1. ~upset /\ DiskCounted /\ Total(disk') <= n /\ Total(disk') <= peak /\ Total(disk)' = Total(disk')
    BY <1>3 DEF StorageInv
  <2>2. \A p \in DOMAIN copy : p = o
    BY <2>1 DEF DiskCounted
  <2> QED
    BY <1>1, <2>1, <2>2 DEF DiskCounted
<1> QED
  BY <1>2, <1>3 DEF StorageInv

LEMMA WriteKeeps ==
  ASSUME StorageInv, NEW o \in Objects, NEW f \in Files, NEW size \in Sizes, Write(o, f, size)
  PROVE  StorageInv'
<1> DEFINE n == copy[o].used + size
<1>1. /\ o \in DOMAIN copy /\ o \notin DOMAIN writing /\ n <= copy[o].max
      /\ disk' = [g \in DOMAIN disk \cup {f} |-> IF g = f THEN size ELSE disk[g]]
      /\ writing' = [p \in DOMAIN writing \cup {o} |-> IF p = o THEN n ELSE writing[p]]
      /\ UNCHANGED <<config, copy, peak, upset>>
  BY DEF Write, Idle
<1>2. /\ copy[o] \in Conf /\ copy[o].max <= peak /\ peak \in Nat /\ copy[o].used \in Nat
      /\ copy[o].max \in Nat /\ size \in Nat /\ n \in Nat
  BY <1>1, QuotaAssumption DEF StorageInv, StorageShape, Conf
<1>3. DOMAIN disk' = DOMAIN disk \cup {f} /\ disk' \in [DOMAIN disk' -> Nat] /\ DOMAIN disk' \subseteq Files
  BY <1>1, <1>2 DEF StorageInv, StorageShape
<1>4. Total(disk') <= Total(disk) + size /\ Total(disk') \in Nat /\ Total(disk) \in Nat
  <2> DEFINE D == DOMAIN disk  E == DOMAIN disk'  rest == [g \in D \ {f} |-> disk[g]]
  <2>1. IsFiniteSet(D) /\ IsFiniteSet(E) /\ Total(disk) \in Nat
    BY <1>3, DiskTotal, FS_AddElement
  <2>2. rest \in [D \ {f} -> Nat] /\ E \ {f} = D \ {f} /\ f \in E /\ disk \in [D -> Nat]
    BY <1>3 DEF StorageInv, StorageShape
  <2>3. disk'[f] = size /\ \A g \in E \ {f} : rest[g] = disk'[g]
    BY <1>1
  <2>4. \A g \in D \ {f} : rest[g] = disk[g]
    OBVIOUS
  <2>5. rest = disk \/ f \in D
    BY <2>2
  <2> HIDE DEF rest, D, E
  <2>6. Total(disk') = size + Total(rest)
    <3> DEFINE d == disk'
    <3>1. d \in [E -> Nat] /\ rest \in [E \ {f} -> Nat]
      BY <1>3, <2>2 DEF E
    <3>2. d[f] = size /\ \A g \in E \ {f} : rest[g] = d[g]
      BY <2>3
    <3>3. IsFiniteSet(E) /\ f \in E
      BY <2>1, <2>2
    <3> HIDE DEF d
    <3>4. Total(d) = d[f] + Total(rest)
      BY <3>1, <3>2, <3>3, TotalWithout
    <3> QED
      BY <3>2, <3>4 DEF d
  <2>7. Total(rest) \in Nat
    BY <2>1, <2>2, TotalIsNatural, FS_RemoveElement
  <2>8. Total(rest) <= Total(disk)
    <3>1. CASE f \in D
      <4> DEFINE d == disk
      <4>0. IsFiniteSet(D) /\ d \in [D -> Nat] /\ rest \in [D \ {f} -> Nat] /\ \A g \in D \ {f} : rest[g] = d[g]
        BY <2>1, <2>2, <2>4
      <4> HIDE DEF d
      <4>1. Total(d) = d[f] + Total(rest)
        BY <3>1, <4>0, TotalWithout
      <4> USE DEF d
      <4>2. disk[f] \in Nat
        BY <2>2, <3>1
      <4> QED
        BY <2>1, <2>7, <4>1, <4>2
    <3>2. CASE rest = disk
      BY <2>1, <3>2
    <3> QED
      BY <2>5, <3>1, <3>2
  <2> QED
    BY <1>2, <2>1, <2>6, <2>7, <2>8
<1>5. DiskCounted => Total(disk) <= copy[o].used
  BY <1>1 DEF DiskCounted
<1>6. ~upset /\ DiskCounted => Total(disk') <= n /\ Total(disk') <= peak
  BY <1>1, <1>2, <1>4, <1>5
<1> HIDE DEF n
<1> QED
  BY <1>1, <1>2, <1>3, <1>6, StorageWritten

LEMMA DeleteKeeps ==
  ASSUME StorageInv, NEW o \in Objects, NEW f \in Files, Delete(o, f)
  PROVE  StorageInv'
<1> DEFINE n == IF copy[o].used > disk[f] THEN copy[o].used - disk[f] ELSE 0
<1>1. /\ o \in DOMAIN copy /\ o \notin DOMAIN writing /\ f \in DOMAIN disk
      /\ disk' = Restrict(disk, DOMAIN disk \ {f})
      /\ writing' = [p \in DOMAIN writing \cup {o} |-> IF p = o THEN n ELSE writing[p]]
      /\ UNCHANGED <<config, copy, peak, upset>>
  BY DEF Delete, Idle
<1>2. copy[o].used \in Nat /\ disk[f] \in Nat /\ peak \in Nat /\ n \in Nat
  BY <1>1 DEF StorageInv, StorageShape, Conf
<1>3. /\ DOMAIN disk' = DOMAIN disk \ {f} /\ disk' \in [DOMAIN disk \ {f} -> Nat]
      /\ disk' \in [DOMAIN disk' -> Nat] /\ DOMAIN disk' \subseteq Files
      /\ \A g \in DOMAIN disk \ {f} : disk'[g] = disk[g]
  BY <1>1 DEF Restrict, StorageInv, StorageShape
<1>4. IsFiniteSet(DOMAIN disk) /\ Total(disk) \in Nat /\ disk \in [DOMAIN disk -> Nat]
  BY DiskTotal DEF StorageInv, StorageShape
<1>5. Total(disk) = disk[f] + Total(disk')
  <2> DEFINE D == DOMAIN disk  rest == disk'
  <2>1. IsFiniteSet(D) /\ disk \in [D -> Nat] /\ f \in D /\ rest \in [D \ {f} -> Nat]
    BY <1>1, <1>3, <1>4
  <2>2. \A g \in D \ {f} : rest[g] = disk[g]
    BY <1>3
  <2> HIDE DEF D, rest
  <2>3. Total(disk) = disk[f] + Total(rest)
    BY <2>1, <2>2, TotalWithout
  <2> QED
    BY <2>3 DEF rest
<1>6. Total(disk') \in Nat
  BY <1>3, <1>4, TotalIsNatural, FS_RemoveElement
<1>7. DiskCounted => Total(disk) <= copy[o].used /\ Total(disk) <= peak
  BY <1>1 DEF DiskCounted
<1>8. ~upset /\ DiskCounted => Total(disk') <= n /\ Total(disk') <= peak
  BY <1>2, <1>4, <1>5, <1>6, <1>7
<1> HIDE DEF n
<1> QED
  BY <1>1, <1>2, <1>3, <1>8, StorageWritten

LEMMA ObjectsKeep ==
  ASSUME StorageInv, NEW o \in Objects, Construct(o) \/ Drop(o) \/ Destroy(o) \/ Cut(o)
  PROVE  StorageInv'
<1>1. CASE Construct(o)
  <2>1. /\ o \notin DOMAIN copy /\ copy' = [p \in DOMAIN copy \cup {o} |-> IF p = o THEN config ELSE copy[p]]
        /\ upset' = (upset \/ DOMAIN copy # {}) /\ UNCHANGED <<config, disk, writing, peak>>
    BY <1>1 DEF Construct
  <2>2. StorageShape'
    BY <2>1 DEF StorageInv, StorageShape
  <2>3. ASSUME ~upset' PROVE DiskCounted'
    <3>1. ~upset /\ DOMAIN copy = {} /\ DiskCounted /\ Total(disk)' = Total(disk)
      BY <2>1, <2>3 DEF StorageInv
    <3>2. DOMAIN copy' = {o} /\ copy'[o] = config /\ DOMAIN writing = {}
      BY <2>1, <3>1 DEF StorageInv, StorageShape
    <3> QED
      BY <2>1, <3>1, <3>2 DEF DiskCounted
  <2> QED
    BY <2>2, <2>3 DEF StorageInv
<1>2. CASE Drop(o)
  <2>1. Idle(o) /\ copy' = Restrict(copy, DOMAIN copy \ {o}) /\ UNCHANGED <<config, disk, writing, peak, upset>>
    BY <1>2 DEF Drop
  <2>2. DOMAIN copy' = DOMAIN copy \ {o} /\ \A p \in DOMAIN copy' : copy'[p] = copy[p]
    BY <2>1 DEF Restrict
  <2>3. copy' \in [DOMAIN copy' -> Conf]
    BY <2>1, <2>2 DEF Restrict, StorageInv, StorageShape
  <2>4. StorageShape'
    BY <2>1, <2>2, <2>3 DEF Idle, StorageInv, StorageShape
  <2>5. (~upset => DiskCounted)'
    BY <2>1, <2>2 DEF StorageInv, DiskCounted
  <2> QED
    BY <2>4, <2>5 DEF StorageInv
<1>3. CASE Destroy(o)
  <2>1. Idle(o) /\ disk' = NoFile /\ config' = Fresh /\ UNCHANGED <<copy, writing, peak, upset>>
    BY <1>3 DEF Destroy
  <2>2. Fresh \in Conf /\ Fresh.max = DefaultQuota /\ Fresh.used = 0
    BY QuotaAssumption DEF Fresh, Conf
  <2>3. DOMAIN disk' = {} /\ disk' \in [DOMAIN disk' -> Nat] /\ Total(disk') = 0
    BY <2>1, TotalNone DEF NoFile
  <2>4. StorageShape'
    BY <2>1, <2>2, <2>3 DEF StorageInv, StorageShape
  <2>5. (~upset => DiskCounted)'
    <3> SUFFICES ASSUME ~upset' PROVE DiskCounted'
      OBVIOUS
    <3>1. DiskCounted /\ DOMAIN writing = {}
      BY <2>1 DEF Idle, DiskCounted, StorageInv, StorageShape
    <3>2. \A p \in DOMAIN copy : 0 <= copy[p].used
      BY DEF StorageInv, StorageShape, Conf
    <3>3. 0 <= peak /\ 0 <= config'.used
      BY <2>1, <2>2 DEF StorageInv, StorageShape
    <3> QED
      BY <2>1, <2>3, <3>1, <3>2, <3>3 DEF DiskCounted
  <2> QED
    BY <2>4, <2>5 DEF StorageInv
<1>4. CASE Cut(o)
  <2>1. /\ upset' = TRUE /\ copy' = Restrict(copy, DOMAIN copy \ {o})
        /\ writing' = Restrict(writing, DOMAIN writing \ {o}) /\ UNCHANGED <<config, disk, peak>>
    BY <1>4 DEF Cut
  <2>2. /\ DOMAIN copy' = DOMAIN copy \ {o} /\ \A p \in DOMAIN copy' : copy'[p] = copy[p]
        /\ copy' \in [DOMAIN copy' -> Conf] /\ DOMAIN writing' = DOMAIN writing \ {o}
        /\ writing' \in [DOMAIN writing' -> Nat]
    BY <2>1 DEF Restrict, StorageInv, StorageShape
  <2>3. StorageShape'
    BY <2>1, <2>2 DEF StorageInv, StorageShape
  <2> QED
    BY <2>1, <2>3 DEF StorageInv
<1> QED
  BY <1>1, <1>2, <1>3, <1>4

LEMMA StorageInductive == StorageInv /\ [StorageNext]_storageVars => StorageInv'
<1> SUFFICES ASSUME StorageInv, [StorageNext]_storageVars PROVE StorageInv'
  OBVIOUS
<1>1. CASE UNCHANGED storageVars
  BY <1>1 DEF storageVars, StorageInv, StorageShape, DiskCounted, Conf
<1>2. CASE StorageNext
  <2>1. PICK o \in Objects :
          \/ Construct(o) \/ Drop(o) \/ Ensure(o) \/ Destroy(o) \/ SetUsed(o)
          \/ Cut(o) \/ RecalcUsed(o) \/ RequestQuota(o) \/ \E max \in Quotas : ApproveQuota(o, max)
          \/ \E f \in Files : Delete(o, f) \/ \E size \in Sizes : Write(o, f, size)
    BY <1>2 DEF StorageNext
  <2>2. CASE Construct(o) \/ Drop(o) \/ Destroy(o) \/ Cut(o)
    BY <2>2, ObjectsKeep
  <2>3. CASE \/ Ensure(o) \/ SetUsed(o) \/ RecalcUsed(o) \/ RequestQuota(o)
             \/ \E max \in Quotas : ApproveQuota(o, max)
    BY <2>3, SavesKeep
  <2>4. ASSUME NEW f \in Files, Delete(o, f) PROVE StorageInv'
    BY <2>4, DeleteKeeps
  <2>5. ASSUME NEW f \in Files, NEW size \in Sizes, Write(o, f, size) PROVE StorageInv'
    BY <2>5, WriteKeeps
  <2> QED
    BY <2>1, <2>2, <2>3, <2>4, <2>5
<1> QED
  BY <1>1, <1>2

\* AgentStorage: as long as one object at a time is alive over an agent's storage, and
\* none dies between the disk and the count, what the directory holds never exceeds the
\* largest quota there has been, nor the count once it is saved; for any files and sizes.
THEOREM QuotasHold == StorageSpec => []QuotaHolds
<1>1. StorageInv => QuotaHolds
  <2>1. OnDisk = Total(disk)
    BY DEF OnDisk, Total
  <2> QED
    BY <2>1 DEF StorageInv, DiskCounted, QuotaHolds
<1> QED
  BY <1>1, StorageInitial, StorageInductive, PTL DEF StorageSpec

\* What StorageShape leaves out: the quota that no approval passes, and who is who.
Capped(c) == c.max <= MaxQuota
StorageRest ==
  /\ Capped(config) /\ peak <= MaxQuota /\ \A o \in DOMAIN copy : Capped(copy[o])
  /\ exists \in BOOLEAN /\ upset \in BOOLEAN
  /\ \A f \in DOMAIN disk : disk[f] \in Sizes
  /\ DOMAIN copy \subseteq Objects

LEMMA CapsKeep ==
  ASSUME StorageInv, StorageRest, NEW o \in Objects,
         \/ Construct(o) \/ Drop(o) \/ Ensure(o) \/ Destroy(o) \/ SetUsed(o)
         \/ Cut(o) \/ RecalcUsed(o) \/ RequestQuota(o) \/ \E max \in Quotas : ApproveQuota(o, max)
  PROVE  /\ Capped(config') /\ peak' <= MaxQuota /\ \A p \in DOMAIN copy' : Capped(copy'[p])
         /\ DOMAIN copy' \subseteq Objects
<1>1. CASE Construct(o)
  BY <1>1 DEF Construct, StorageRest
<1>2. CASE Drop(o) \/ Cut(o)
  <2>1. copy' = Restrict(copy, DOMAIN copy \ {o}) /\ UNCHANGED <<config, peak>>
    BY <1>2 DEF Drop, Cut
  <2> QED
    BY <2>1 DEF Restrict, StorageRest
<1>3. CASE Destroy(o)
  <2>1. config' = Fresh /\ UNCHANGED <<copy, peak>> /\ Fresh.max = DefaultQuota
    BY <1>3 DEF Destroy, Fresh
  <2> QED
    BY <2>1, QuotaAssumption DEF StorageRest, Capped
<1>4. ASSUME NEW c, Save(o, c), Capped(c), peak' <= MaxQuota
      PROVE  /\ Capped(config') /\ peak' <= MaxQuota /\ \A p \in DOMAIN copy' : Capped(copy'[p])
             /\ DOMAIN copy' \subseteq Objects
  <2>1. config' = c /\ copy' = [copy EXCEPT ![o] = c]
    BY <1>4 DEF Save
  <2> QED
    BY <1>4, <2>1 DEF StorageRest
<1>5. CASE Ensure(o)
  <2>1. Save(o, copy[o]) /\ o \in DOMAIN copy /\ UNCHANGED peak
    BY <1>5 DEF Ensure, Idle
  <2> QED
    BY <1>4, <2>1 DEF StorageRest
<1>6. CASE SetUsed(o) \/ RecalcUsed(o) \/ RequestQuota(o)
  <2>1. PICK c : Save(o, c) /\ c.max = copy[o].max /\ o \in DOMAIN copy /\ UNCHANGED peak
    <3>1. o \in DOMAIN copy
      BY <1>6 DEF SetUsed, RecalcUsed, RequestQuota, Idle, StorageInv, StorageShape
    <3>2. copy[o] \in Conf
      BY <3>1 DEF StorageInv, StorageShape
    <3>3. CASE SetUsed(o)
      BY <3>1, <3>2, <3>3 DEF SetUsed, Conf
    <3>4. CASE RecalcUsed(o)
      BY <3>1, <3>2, <3>4 DEF RecalcUsed, Conf
    <3>5. CASE RequestQuota(o)
      BY <3>1, <3>2, <3>5 DEF RequestQuota, Conf
    <3> QED
      BY <1>6, <3>3, <3>4, <3>5
  <2> QED
    BY <1>4, <2>1 DEF StorageRest, Capped
<1>7. ASSUME NEW max \in Quotas, ApproveQuota(o, max)
      PROVE  /\ Capped(config') /\ peak' <= MaxQuota /\ \A p \in DOMAIN copy' : Capped(copy'[p])
             /\ DOMAIN copy' \subseteq Objects
  <2> DEFINE new == Min({max, MaxQuota})
             c == [copy[o] EXCEPT !.max = new, !.request = FALSE]
  <2>1. o \in DOMAIN copy /\ Save(o, c) /\ peak' = Max({peak, new})
    BY <1>7 DEF ApproveQuota, Idle
  <2>2. copy[o] \in Conf /\ peak \in Nat /\ peak <= MaxQuota
    BY <2>1 DEF StorageInv, StorageShape, StorageRest
  <2>3. new \in Nat /\ new <= MaxQuota
    BY QuotaAssumption, LesserOf
  <2> HIDE DEF new
  <2>4. peak' <= MaxQuota
    BY <2>1, <2>2, <2>3, LesserOf
  <2>5. c.max = new
    BY <2>2 DEF Conf
  <2>6. Capped(c)
    BY <2>3, <2>5 DEF Capped
  <2> HIDE DEF c
  <2> QED
    BY <1>4, <2>1, <2>4, <2>6
<1> QED
  BY <1>1, <1>2, <1>3, <1>5, <1>6, <1>7

LEMMA StorageRestInductive ==
  StorageInv /\ StorageRest /\ [StorageNext]_storageVars => StorageRest'
<1> SUFFICES ASSUME StorageInv, StorageRest, [StorageNext]_storageVars PROVE StorageRest'
  OBVIOUS
<1>1. CASE UNCHANGED storageVars
  BY <1>1 DEF storageVars, StorageRest, Capped
<1>2. CASE StorageNext
  <2>1. PICK o \in Objects :
          \/ \/ Construct(o) \/ Drop(o) \/ Ensure(o) \/ Destroy(o) \/ SetUsed(o)
             \/ Cut(o) \/ RecalcUsed(o) \/ RequestQuota(o) \/ \E max \in Quotas : ApproveQuota(o, max)
          \/ \E f \in Files : Delete(o, f) \/ \E size \in Sizes : Write(o, f, size)
    BY <1>2 DEF StorageNext
  <2>2. /\ Capped(config') /\ peak' <= MaxQuota /\ \A p \in DOMAIN copy' : Capped(copy'[p])
        /\ DOMAIN copy' \subseteq Objects
    <3>1. CASE \E f \in Files : Delete(o, f) \/ \E size \in Sizes : Write(o, f, size)
      BY <3>1 DEF Delete, Write, StorageRest
    <3> QED
      BY <2>1, <3>1, CapsKeep
  <2>3. exists' \in BOOLEAN /\ upset' \in BOOLEAN
    BY <2>1 DEF StorageRest, Construct, Drop, Ensure, Destroy, SetUsed, Cut, RecalcUsed,
                RequestQuota, ApproveQuota, Delete, Write
  <2>4. ASSUME NEW f \in DOMAIN disk' PROVE disk'[f] \in Sizes
    <3>1. CASE UNCHANGED disk
      BY <3>1 DEF StorageRest
    <3>2. CASE disk' = NoFile
      BY <3>2 DEF NoFile
    <3>3. ASSUME NEW g \in Files, Delete(o, g) PROVE disk'[f] \in Sizes
      BY <3>3 DEF Delete, Restrict, StorageRest
    <3>4. ASSUME NEW g \in Files, NEW size \in Sizes, Write(o, g, size) PROVE disk'[f] \in Sizes
      BY <3>4 DEF Write, StorageRest
    <3> QED
      BY <2>1, <3>1, <3>2, <3>3, <3>4
      DEF Construct, Drop, Ensure, Destroy, SetUsed, Cut, RecalcUsed, RequestQuota, ApproveQuota
  <2> QED
    BY <2>2, <2>3, <2>4 DEF StorageRest
<1> QED
  BY <1>1, <1>2

\* approve_quota and what writes storage_json: no quota passes MEMAGENT_MAX_QUOTA, in the
\* configuration, in the copies of the objects or ever before, also when objects race.
THEOREM QuotasAreCapped == StorageSpec => []StorageTypeOK
<1>1. StorageInit => StorageRest
  <2> SUFFICES ASSUME StorageInit PROVE StorageRest
    OBVIOUS
  <2>1. Capped(config) /\ peak <= MaxQuota
    BY QuotaAssumption DEF StorageInit, Fresh, Capped
  <2> QED
    BY <2>1 DEF StorageInit, StorageRest, NoFile
<1>2. StorageInv /\ StorageRest => StorageTypeOK
  <2> SUFFICES ASSUME StorageInv, StorageRest PROVE StorageTypeOK
    OBVIOUS
  <2>1. ASSUME NEW c \in Conf, Capped(c) PROVE c \in Config
    BY <2>1, QuotaAssumption DEF Conf, Config, Capped
  <2>2. config \in Config /\ \A o \in DOMAIN copy : copy[o] \in Config
    BY <2>1 DEF StorageInv, StorageShape, StorageRest
  <2>3. peak \in 0 .. MaxQuota
    BY QuotaAssumption DEF StorageInv, StorageShape, StorageRest
  <2>4. \A o \in DOMAIN writing : writing[o] \in Nat
    BY DEF StorageInv, StorageShape
  <2> QED
    BY <2>2, <2>3, <2>4 DEF StorageInv, StorageShape, StorageRest, StorageTypeOK
<1> QED
  BY <1>1, <1>2, StorageInitial, StorageInductive, StorageRestInductive, PTL DEF StorageSpec
=============================================================================
