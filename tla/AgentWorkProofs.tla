-------------------------- MODULE AgentWorkProofs ---------------------------
(***************************************************************************)
(* Proofs about an agent at work, for every value of the constants: the    *)
(* skills it calls, the workflow it follows and the stream it publishes.   *)
(* The three share no state; each has an invariant of its own, which its   *)
(* section states and proves inductive.                                    *)
(***************************************************************************)
EXTENDS SkillCalls, WorkflowRun, StreamBus, FiniteSetTheorems, WellFoundedInduction,
        TLAPS

-----------------------------------------------------------------------------
(* SkillCalls *)

\* What makes WorksAtHome inductive: a thread that is about to read _INSTANCE finds
\* there a manager whose directory was set by itself or by someone who came after.

SkillTypeOK ==
  /\ instance \in Threads \cup {Nobody}
  /\ root \in [Threads -> Workspaces]
  /\ at \in [Threads -> {"idle", "ready", "enter", "create", "load", "called"}]
  /\ serves \in [Threads -> Owners \cup {Nobody}]
  /\ want \in [Threads -> Workspaces]
  /\ why \in [Threads -> {"expand", "step", "hook"}]
  /\ manager \in [Threads -> Threads \cup {Nobody}]
  /\ between \in [Threads -> SUBSET Workspaces]
  /\ \A t \in Threads : at[t] # "idle" => serves[t] \in Owners

\* m works where t asked, or where someone who came later did.
Allowed(t, m) == m \in Threads /\ root[m] \in {want[t]} \cup between[t]

AllowedAll ==
  \A t \in Threads : /\ at[t] = "load" => Allowed(t, instance)
                     /\ at[t] = "called" => Allowed(t, manager[t])

SkillInv == SkillTypeOK /\ AllowedAll

LEMMA SkillInitial == SkillInit => SkillInv
BY SkillAssumption DEF SkillInit, SkillInv, SkillTypeOK, AllowedAll, Workspaces

\* Every step that leaves the managers, and what threads in a call rely on, alone.
LEMMA StepsOutside ==
  ASSUME SkillInv, NEW t \in Threads,
         \/ \E a \in Owners : Hydrate(t, a)
         \/ CallSkill(t) \/ OtherStep(t) \/ RunHook(t) \/ Dehydrate(t) \/ Abandon(t)
  PROVE  SkillInv'
<1>1. CASE \E a \in Owners : Hydrate(t, a)
  BY <1>1, SkillAssumption DEF Hydrate, SkillInv, SkillTypeOK, AllowedAll, Allowed, Workspaces
<1>2. CASE CallSkill(t)
  <2>1. PICK w \in {serves[t], Common} : want' = [want EXCEPT ![t] = w]
    BY <1>2 DEF CallSkill
  <2>2. w \in Workspaces
    BY <1>2, <2>1 DEF CallSkill, SkillInv, SkillTypeOK, Workspaces
  <2> QED
    BY <1>2, <2>1, <2>2 DEF CallSkill, SkillInv, SkillTypeOK, AllowedAll, Allowed
<1>3. CASE OtherStep(t)
  BY <1>3 DEF OtherStep, SkillInv, SkillTypeOK, AllowedAll, Allowed
<1>4. CASE RunHook(t)
  BY <1>4 DEF RunHook, SkillInv, SkillTypeOK, AllowedAll, Allowed, Workspaces
<1>5. CASE Dehydrate(t) \/ Abandon(t)
  BY <1>5 DEF Dehydrate, Abandon, Ends, SkillInv, SkillTypeOK, AllowedAll, Allowed
<1> QED
  BY <1>1, <1>2, <1>3, <1>4, <1>5

\* Setting the directory of a manager gives its thread what it asked for, and every
\* thread that relies on that manager has noted the new directory.
LEMMA SetsAllowed ==
  ASSUME SkillInv, NEW t \in Threads, NEW m \in Threads, Sets(t, m),
         at' = [at EXCEPT ![t] = "load"], at[t] \in {"enter", "create"},
         UNCHANGED <<serves, want, why, manager>>,
         instance' = m, instance \in {m, Nobody} \/ m = t
  PROVE  SkillInv'
<1>1. SkillTypeOK'
  BY DEF Sets, SkillInv, SkillTypeOK
<1>2. ASSUME NEW u \in Threads PROVE (at[u] = "load" => Allowed(u, instance))'
  <2>1. CASE u = t
    BY <2>1 DEF Sets, SkillInv, SkillTypeOK, Allowed
  <2>2. CASE u # t
    BY <2>2 DEF Sets, SkillInv, SkillTypeOK, Allowed
  <2> QED
    BY <2>1, <2>2
<1>3. ASSUME NEW u \in Threads PROVE (at[u] = "called" => Allowed(u, manager[u]))'
  <2> SUFFICES ASSUME at'[u] = "called" PROVE Allowed(u, manager[u])'
    OBVIOUS
  <2>1. u # t /\ at[u] = "called" /\ Allowed(u, manager[u])
    BY DEF SkillInv, SkillTypeOK, AllowedAll
  <2> QED
    BY <2>1 DEF Sets, SkillInv, SkillTypeOK, Allowed
<1> QED
  BY <1>1, <1>2, <1>3 DEF SkillInv, AllowedAll

LEMMA StepsInside ==
  ASSUME SkillInv, NEW t \in Threads, Enter(t) \/ Create(t) \/ Load(t) \/ Run(t)
  PROVE  SkillInv'
<1>1. CASE Enter(t) /\ instance = Nobody
  BY <1>1 DEF Enter, SkillInv, SkillTypeOK, AllowedAll, Allowed
<1>2. CASE Enter(t) /\ instance # Nobody
  <2>1. instance \in Threads /\ Sets(t, instance) /\ at' = [at EXCEPT ![t] = "load"]
        /\ UNCHANGED <<serves, want, why, manager, instance>> /\ at[t] = "enter"
    BY <1>2 DEF Enter, SkillInv, SkillTypeOK
  <2> QED
    BY <2>1, SetsAllowed
<1>3. CASE Create(t)
  <2>1. Sets(t, t) /\ at' = [at EXCEPT ![t] = "load"] /\ instance' = t
        /\ UNCHANGED <<serves, want, why, manager>> /\ at[t] = "create"
    BY <1>3 DEF Create
  <2> QED
    BY <2>1, SetsAllowed
<1>4. CASE Load(t)
  BY <1>4 DEF Load, SkillInv, SkillTypeOK, AllowedAll, Allowed
<1>5. CASE Run(t)
  BY <1>5 DEF Run, SkillInv, SkillTypeOK, AllowedAll, Allowed, Workspaces
<1> QED
  BY <1>1, <1>2, <1>3, <1>4, <1>5

LEMMA SkillInductive == SkillInv /\ [SkillNext]_skillVars => SkillInv'
<1> SUFFICES ASSUME SkillInv, [SkillNext]_skillVars PROVE SkillInv'
  OBVIOUS
<1>1. CASE SkillNext
  BY <1>1, StepsOutside, StepsInside DEF SkillNext
<1>2. CASE UNCHANGED skillVars
  BY <1>2 DEF skillVars, SkillInv, SkillTypeOK, AllowedAll, Allowed
<1> QED
  BY <1>1, <1>2

\* A skill works where its caller asked, or where another thread that came in between
\* asked (skill_manager._get sets the directory, SkillManager.call reads it).
THEOREM SkillsWorkAtHome == SkillSpec => []WorksAtHome
<1>1. SkillInv => WorksAtHome
  BY DEF SkillInv, AllowedAll, Allowed, WorksAtHome
<1> QED
  BY <1>1, SkillInitial, SkillInductive, PTL DEF SkillSpec

-----------------------------------------------------------------------------
(* StreamBus *)

TakenBy(b) == {p \in taken : p.bus = b}

\* The flags are left out: it does not matter what they are.
StreamShape ==
  /\ counter \in [Buses -> Nat] /\ running \in [Buses -> Nat]
  /\ rows \subseteq [n : Nat, seq : Nat \ {0}]
  /\ taken \subseteq [n : Nat, seq : Nat \ {0}, bus : Buses] /\ IsFiniteSet(taken)
  /\ last \in Nat /\ chunks \in Nat

\* An execution has one number at a time, and its process has counted it.
Counted ==
  \A b \in Buses : /\ Cardinality(TakenBy(b)) <= running[b]
                   /\ \A p \in TakenBy(b) : p.seq <= counter[b]

\* A stream that a reader can follow: one execution publishes, what it will publish
\* goes behind the rows and behind the reader, who has what is before its position.
Ahead == (\A b \in Running : last <= counter[b]) /\ \A p \in taken : last < p.seq
Received == \A r \in rows : r.seq <= last => r.n \in got
Followed ==
  /\ Running = {} \/ \E b \in Buses : Alone(b)
  /\ ~Behind /\ Ahead /\ Received

StreamInv == StreamShape /\ Counted /\ (~crossed => Followed)

LEMMA TakenFinite ==
  ASSUME StreamInv, NEW b \in Buses
  PROVE  /\ IsFiniteSet(TakenBy(b)) /\ Cardinality(TakenBy(b)) \in Nat
         /\ Cardinality(TakenBy(b)) = 0 <=> TakenBy(b) = {}
<1>1. TakenBy(b) \in SUBSET taken /\ IsFiniteSet(taken)
  BY DEF StreamInv, StreamShape, TakenBy
<1>2. IsFiniteSet(TakenBy(b))
  BY <1>1, FS_Subset
<1> QED
  BY <1>2, FS_CardinalityType, FS_EmptySet

\* What no execution is there for has no number; one execution has at most one.
LEMMA TakenByOthers ==
  ASSUME StreamInv, NEW b \in Buses, running[b] = 0
  PROVE  TakenBy(b) = {}
<1>1. Cardinality(TakenBy(b)) <= 0
  BY DEF StreamInv, Counted
<1> QED
  BY <1>1, TakenFinite

LEMMA TakenAtRest ==
  ASSUME StreamInv, Running = {}
  PROVE  taken = {}
<1> SUFFICES ASSUME NEW p \in taken PROVE FALSE
  OBVIOUS
<1>1. p.bus \in Buses /\ p \in TakenBy(p.bus)
  BY DEF StreamInv, StreamShape, TakenBy
<1>2. running[p.bus] = 0
  BY <1>1 DEF StreamInv, StreamShape, Running
<1> QED
  BY <1>1, <1>2, TakenByOthers

LEMMA TakenAlone ==
  ASSUME StreamInv, NEW b \in Buses, Alone(b)
  PROVE  /\ taken = TakenBy(b) /\ running[b] = 1 /\ Running = {b}
         /\ \A p, q \in taken : p = q
         /\ Cardinality(TakenBy(b)) < running[b] => taken = {}
<1>1. running[b] = 1 /\ Running = {b}
  BY DEF Alone
<1>2. ASSUME NEW p \in taken PROVE p \in TakenBy(b)
  <2>1. p.bus \in Buses /\ p \in TakenBy(p.bus)
    BY DEF StreamInv, StreamShape, TakenBy
  <2>2. p.bus # b => running[p.bus] = 0
    BY <1>1, <2>1 DEF StreamInv, StreamShape, Running
  <2> QED
    BY <2>1, <2>2, TakenByOthers
<1>3. taken = TakenBy(b)
  BY <1>2 DEF TakenBy
<1>4. Cardinality(TakenBy(b)) \in {0, 1}
  BY <1>1, TakenFinite DEF StreamInv, Counted
<1>5. CASE Cardinality(TakenBy(b)) = 0
  BY <1>1, <1>3, <1>5, TakenFinite
<1>6. CASE Cardinality(TakenBy(b)) = 1
  <2>1. \E p : TakenBy(b) = {p}
    BY <1>6, TakenFinite, FS_Singleton
  <2> QED
    BY <1>1, <1>3, <1>6, <2>1
<1> QED
  BY <1>4, <1>5, <1>6

LEMMA StreamInitial == StreamInit => StreamInv
<1> SUFFICES ASSUME StreamInit PROVE StreamInv
  OBVIOUS
<1>1. /\ counter = [b \in Buses |-> 0] /\ running = [b \in Buses |-> 0]
      /\ rows = {} /\ taken = {} /\ last = 0 /\ chunks = 0
  BY DEF StreamInit
<1>2. StreamShape
  BY <1>1, FS_EmptySet DEF StreamShape
<1>3. Counted
  <2> SUFFICES ASSUME NEW b \in Buses
               PROVE  Cardinality(TakenBy(b)) <= running[b] /\ \A p \in TakenBy(b) : p.seq <= counter[b]
    BY DEF Counted
  <2>1. TakenBy(b) = {} /\ running[b] = 0
    BY <1>1 DEF TakenBy
  <2> QED
    BY <2>1, FS_EmptySet
<1>4. Running = {}
  BY <1>1 DEF Running
<1> QED
  BY <1>1, <1>2, <1>3, <1>4 DEF StreamInv, Followed, Behind, Ahead, Received

-----------------------------------------------------------------------------
LEMMA StreamRunBegins ==
  ASSUME StreamInv, NEW b \in Buses, BeginRun(b)
  PROVE  StreamInv'
<1>1. /\ rows' = {} /\ running' = [running EXCEPT ![b] = @ + 1]
      /\ UNCHANGED <<counter, taken, last, got, chunks>>
  BY DEF BeginRun
<1>2. ~crossed' => Running = {} /\ ~(last > counter[b])
  BY DEF BeginRun
<1>3. StreamShape'
  BY <1>1 DEF StreamInv, StreamShape
<1>4. Counted'
  <2> SUFFICES ASSUME NEW c \in Buses
               PROVE  (Cardinality(TakenBy(c)) <= running[c] /\ \A p \in TakenBy(c) : p.seq <= counter[c])'
    BY DEF Counted
  <2>1. TakenBy(c)' = TakenBy(c) /\ counter' = counter
    BY <1>1 DEF TakenBy
  <2>2. running[c] \in Nat /\ running'[c] \in Nat /\ running[c] <= running'[c]
    BY <1>1 DEF StreamInv, StreamShape
  <2>3. Cardinality(TakenBy(c)) <= running[c] /\ \A p \in TakenBy(c) : p.seq <= counter[c]
    BY DEF StreamInv, Counted
  <2> QED
    BY <2>1, <2>2, <2>3, TakenFinite
<1>5. ASSUME Running = {}, ~(last > counter[b]) PROVE Followed'
  <2>1. taken = {}
    BY <1>5, TakenAtRest
  <2>2. running[b] = 0 /\ running'[b] = 1 /\ Running' = {b}
    BY <1>1, <1>5 DEF StreamInv, StreamShape, Running
  <2>3. last' <= counter'[b]
    BY <1>1, <1>5 DEF StreamInv, StreamShape
  <2>4. Alone(b)'
    BY <2>2 DEF Alone
  <2>5. ~Behind' /\ Received'
    BY <1>1 DEF Behind, Received
  <2>6. Ahead'
    BY <1>1, <2>1, <2>2, <2>3 DEF Ahead
  <2> QED
    BY <2>4, <2>5, <2>6 DEF Followed
<1> QED
  BY <1>2, <1>3, <1>4, <1>5 DEF StreamInv

LEMMA StreamPublishedInMemory ==
  ASSUME StreamInv, NEW b \in Buses, PublishInMemory(b)
  PROVE  StreamInv'
<1> DEFINE new == NextChunk(b)
<1>1. /\ Cardinality(TakenBy(b)) < running[b] /\ crossed' = crossed
      /\ counter' = [counter EXCEPT ![b] = @ + 1] /\ chunks' = chunks + 1
      /\ rows' \subseteq rows \cup {new} /\ UNCHANGED <<taken, running, last, got>>
  BY DEF PublishInMemory, Publishes, Count, TakenBy
<1>2. new \in [n : Nat, seq : Nat \ {0}] /\ new.seq = counter[b] + 1 /\ counter'[b] = new.seq
  BY <1>1 DEF NextChunk, StreamInv, StreamShape
<1> HIDE DEF new
<1>3. StreamShape'
  BY <1>1, <1>2 DEF StreamInv, StreamShape
<1>4. Counted'
  <2> SUFFICES ASSUME NEW c \in Buses
               PROVE  (Cardinality(TakenBy(c)) <= running[c] /\ \A p \in TakenBy(c) : p.seq <= counter[c])'
    BY DEF Counted
  <2>1. TakenBy(c)' = TakenBy(c) /\ running' = running /\ \A p \in TakenBy(c) : p.seq \in Nat
    BY <1>1 DEF TakenBy, StreamInv, StreamShape
  <2>2. counter[c] \in Nat /\ counter'[c] \in Nat /\ counter[c] <= counter'[c]
    BY <1>1 DEF StreamInv, StreamShape
  <2>3. Cardinality(TakenBy(c)) <= running[c] /\ \A p \in TakenBy(c) : p.seq <= counter[c]
    BY DEF StreamInv, Counted
  <2> QED
    BY <2>1, <2>2, <2>3
<1>5. ASSUME Followed PROVE Followed'
  <2>1. b \in Running
    BY <1>1, TakenFinite DEF Running, StreamInv, StreamShape
  <2>2. Alone(b) /\ taken = {} /\ Running = {b}
    BY <1>1, <1>5, <2>1, TakenAlone DEF Followed, Alone
  <2>3. Running' = {b} /\ Alone(b)'
    BY <1>1, <2>2 DEF Running, Alone
  <2>4. last \in Nat /\ counter[b] \in Nat /\ last <= counter[b]
    BY <1>5, <2>2 DEF Followed, Ahead, StreamInv, StreamShape
  <2>5. Ahead'
    BY <1>1, <1>2, <2>2, <2>3, <2>4 DEF Ahead
  <2>6. ASSUME NEW r \in rows' PROVE r.seq <= counter'[b] /\ (r.seq <= last => r.n \in got)
    <3>1. CASE r = new
      BY <1>2, <2>4, <3>1
    <3>2. CASE r \in rows
      <4>1. r.seq \in Nat /\ ~(counter[b] < r.seq)
        BY <1>5, <2>1, <3>2 DEF Followed, Behind, StreamInv, StreamShape
      <4>2. r.seq <= last => r.n \in got
        BY <1>5, <3>2 DEF Followed, Received
      <4> QED
        BY <1>2, <2>4, <4>1, <4>2
    <3> QED
      BY <1>1, <2>6, <3>1, <3>2
  <2>7. Received'
    BY <1>1, <2>6 DEF Received
  <2>8. ~Behind'
    <3>1. \A r \in rows' : r.seq \in Nat
      BY <1>3 DEF StreamShape
    <3>2. counter'[b] \in Nat
      BY <1>2
    <3> QED
      BY <1>1, <2>2, <2>3, <2>6, <3>1, <3>2 DEF Behind
  <2> QED
    BY <2>3, <2>5, <2>7, <2>8 DEF Followed
<1> QED
  BY <1>1, <1>3, <1>4, <1>5 DEF StreamInv

LEMMA StreamNumberTaken ==
  ASSUME StreamInv, NEW b \in Buses, TakeNumber(b)
  PROVE  StreamInv'
<1> DEFINE new == [n |-> chunks + 1, seq |-> counter[b] + 1, bus |-> b]
<1>1. /\ Cardinality(TakenBy(b)) < running[b] /\ crossed' = crossed
      /\ counter' = [counter EXCEPT ![b] = @ + 1] /\ chunks' = chunks + 1
      /\ taken' = taken \cup {new} /\ UNCHANGED <<rows, running, last, got>>
  BY DEF TakeNumber, Publishes, Count, TakenBy
<1>2. /\ new \in [n : Nat, seq : Nat \ {0}, bus : Buses] /\ new.bus = b
      /\ new.seq = counter[b] + 1 /\ counter'[b] = new.seq
  BY <1>1 DEF StreamInv, StreamShape
<1> HIDE DEF new
<1>3. StreamShape'
  <2>1. IsFiniteSet(taken')
    BY <1>1, FS_AddElement DEF StreamInv, StreamShape
  <2> QED
    BY <1>1, <1>2, <2>1 DEF StreamInv, StreamShape
<1>4. Counted'
  <2> SUFFICES ASSUME NEW c \in Buses
               PROVE  (Cardinality(TakenBy(c)) <= running[c] /\ \A p \in TakenBy(c) : p.seq <= counter[c])'
    BY DEF Counted
  <2>1. Cardinality(TakenBy(c)) <= running[c] /\ \A p \in TakenBy(c) : p.seq <= counter[c]
    BY DEF StreamInv, Counted
  <2>2. /\ counter[c] \in Nat /\ counter'[c] \in Nat /\ counter[c] <= counter'[c]
        /\ running'[c] = running[c] /\ running[c] \in Nat /\ \A p \in TakenBy(c) : p.seq \in Nat
    BY <1>1 DEF StreamInv, StreamShape, TakenBy
  <2>3. CASE c # b
    <3>1. TakenBy(c)' = TakenBy(c)
      BY <1>1, <1>2, <2>3 DEF TakenBy
    <3> QED
      BY <2>1, <2>2, <3>1
  <2>4. CASE c = b
    <3>1. TakenBy(c)' = TakenBy(c) \cup {new}
      <4>1. taken' = taken \cup {new} /\ new.bus = b
        BY <1>1, <1>2
      <4> QED
        BY <2>4, <4>1 DEF TakenBy
    <3>2. IsFiniteSet(TakenBy(c)) /\ Cardinality(TakenBy(c)) \in Nat
      BY TakenFinite
    <3> DEFINE old == TakenBy(c)
    <3> HIDE DEF old
    <3>3. IsFiniteSet(old) /\ Cardinality(old) \in Nat
      BY <3>2 DEF old
    <3>4. Cardinality(old \cup {new}) \in {Cardinality(old), Cardinality(old) + 1}
      BY <3>3, FS_AddElement
    <3>5. Cardinality(TakenBy(c)') \in {Cardinality(TakenBy(c)), Cardinality(TakenBy(c)) + 1}
      BY <3>1, <3>4 DEF old
    <3>6. Cardinality(TakenBy(c)') <= running'[c]
      BY <1>1, <2>2, <2>4, <3>2, <3>5
    <3>7. \A p \in TakenBy(c)' : p.seq <= counter'[c]
      BY <1>2, <2>1, <2>2, <2>4, <3>1
    <3> QED
      BY <3>6, <3>7
  <2> QED
    BY <2>3, <2>4
<1>5. ASSUME Followed PROVE Followed'
  <2>1. b \in Running
    BY <1>1, TakenFinite DEF Running, StreamInv, StreamShape
  <2>2. Alone(b) /\ taken = {} /\ Running = {b}
    BY <1>1, <1>5, <2>1, TakenAlone DEF Followed, Alone
  <2>3. Running' = {b} /\ Alone(b)' /\ taken' = {new}
    BY <1>1, <2>2 DEF Running, Alone
  <2>4. last \in Nat /\ counter[b] \in Nat /\ last <= counter[b]
    BY <1>5, <2>2 DEF Followed, Ahead, StreamInv, StreamShape
  <2>5. Ahead'
    BY <1>1, <1>2, <2>3, <2>4 DEF Ahead
  <2>6. Received'
    BY <1>1, <1>5 DEF Received, Followed
  <2>7. \A r \in rows' : r.seq \in Nat /\ r.seq <= counter[b]
    BY <1>1, <1>5, <2>1, <2>4 DEF Followed, Behind, StreamInv, StreamShape
  <2>8. ~Behind'
    BY <1>2, <2>3, <2>4, <2>7 DEF Behind
  <2> QED
    BY <2>3, <2>5, <2>6, <2>8 DEF Followed
<1> QED
  BY <1>1, <1>3, <1>4, <1>5 DEF StreamInv

LEMMA StreamRowInserted ==
  ASSUME StreamInv, NEW p \in taken, InsertRow(p)
  PROVE  StreamInv'
<1> DEFINE new == [n |-> p.n, seq |-> p.seq]
<1>1. /\ rows' = rows \cup {new} /\ taken' = taken \ {p}
      /\ UNCHANGED <<counter, running, last, got, chunks, crossed>>
  BY DEF InsertRow
<1>2. /\ new \in [n : Nat, seq : Nat \ {0}] /\ new.seq = p.seq /\ p.bus \in Buses
      /\ p \in TakenBy(p.bus)
  BY DEF StreamInv, StreamShape, TakenBy
<1> HIDE DEF new
<1>3. StreamShape'
  <2>1. IsFiniteSet(taken')
    BY <1>1, FS_RemoveElement DEF StreamInv, StreamShape
  <2> QED
    BY <1>1, <1>2, <2>1 DEF StreamInv, StreamShape
<1>4. Counted'
  <2> SUFFICES ASSUME NEW c \in Buses
               PROVE  (Cardinality(TakenBy(c)) <= running[c] /\ \A q \in TakenBy(c) : q.seq <= counter[c])'
    BY DEF Counted
  <2>1. TakenBy(c)' \in SUBSET TakenBy(c)
    BY <1>1 DEF TakenBy
  <2>2. Cardinality(TakenBy(c)') <= Cardinality(TakenBy(c)) /\ Cardinality(TakenBy(c)) \in Nat
        /\ Cardinality(TakenBy(c)') \in Nat
    BY <2>1, TakenFinite, FS_Subset, FS_CardinalityType
  <2>3. Cardinality(TakenBy(c)) <= running[c] /\ running[c] \in Nat /\ \A q \in TakenBy(c) : q.seq <= counter[c]
    BY DEF StreamInv, Counted, StreamShape
  <2> QED
    BY <1>1, <2>1, <2>2, <2>3
<1>5. ASSUME Followed PROVE Followed'
  <2>1. PICK b \in Buses : Alone(b)
    BY <1>5, TakenAtRest DEF Followed
  <2>2. taken' = {} /\ Running = {b} /\ Running' = {b} /\ Alone(b)' /\ p.bus = b
    BY <1>1, <2>1, TakenAlone DEF Running, Alone, TakenBy
  <2>3. Ahead'
    BY <1>1, <1>5, <2>2 DEF Ahead, Followed
  <2>4. last < new.seq /\ last \in Nat /\ new.seq \in Nat
    BY <1>2, <1>5 DEF Ahead, Followed, StreamInv, StreamShape
  <2>5. Received'
    BY <1>1, <1>5, <2>4 DEF Received, Followed
  <2>6. new.seq <= counter[b] /\ counter[b] \in Nat
    BY <1>2, <2>2 DEF StreamInv, StreamShape, Counted
  <2>7. ~Behind'
    BY <1>1, <1>5, <2>2, <2>4, <2>6 DEF Behind, Followed
  <2> QED
    BY <2>2, <2>3, <2>5, <2>7 DEF Followed
<1> QED
  BY <1>1, <1>3, <1>4, <1>5 DEF StreamInv

LEMMA StreamRunEnds ==
  ASSUME StreamInv, NEW b \in Buses, EndRun(b)
  PROVE  StreamInv'
<1>1. /\ Cardinality(TakenBy(b)) < running[b] /\ running' = [running EXCEPT ![b] = @ - 1]
      /\ UNCHANGED <<counter, rows, taken, last, got, chunks, crossed>>
  BY DEF EndRun, TakenBy
<1>2. running[b] \in Nat \ {0} /\ Cardinality(TakenBy(b)) <= running[b] - 1
  BY <1>1, TakenFinite DEF StreamInv, StreamShape
<1>3. StreamShape'
  BY <1>1, <1>2 DEF StreamInv, StreamShape
<1>4. Counted'
  <2> SUFFICES ASSUME NEW c \in Buses
               PROVE  (Cardinality(TakenBy(c)) <= running[c] /\ \A q \in TakenBy(c) : q.seq <= counter[c])'
    BY DEF Counted
  <2>1. TakenBy(c)' = TakenBy(c)
    BY <1>1 DEF TakenBy
  <2>2. Cardinality(TakenBy(c)) <= running[c] /\ \A q \in TakenBy(c) : q.seq <= counter[c]
    BY DEF StreamInv, Counted
  <2>3. Cardinality(TakenBy(c)) <= running'[c]
    BY <1>1, <1>2, <2>2 DEF StreamInv, StreamShape
  <2> QED
    BY <1>1, <2>1, <2>2, <2>3
<1>5. ASSUME Followed PROVE Followed'
  <2>1. b \in Running
    BY <1>2 DEF Running
  <2>2. Alone(b) /\ taken = {}
    BY <1>1, <1>5, <2>1, TakenAlone DEF Followed, Alone
  <2>3. Running' = {} /\ taken' = {}
    BY <1>1, <2>2 DEF Running, Alone, StreamInv, StreamShape
  <2>4. ~Behind' /\ Ahead'
    BY <2>3 DEF Behind, Ahead
  <2>5. Received'
    BY <1>1, <1>5 DEF Received, Followed
  <2> QED
    BY <2>3, <2>4, <2>5 DEF Followed
<1> QED
  BY <1>1, <1>3, <1>4, <1>5 DEF StreamInv

LEMMA StreamRestarted ==
  ASSUME StreamInv, NEW b \in Buses, RestartBus(b)
  PROVE  StreamInv'
<1>1. /\ counter' = [counter EXCEPT ![b] = 0] /\ running' = [running EXCEPT ![b] = 0]
      /\ taken' = {p \in taken : p.bus # b} /\ rows' \subseteq rows
      /\ UNCHANGED <<last, got, chunks, crossed>>
  BY DEF RestartBus
<1>2. StreamShape'
  <2>1. IsFiniteSet(taken')
    BY <1>1, FS_Subset DEF StreamInv, StreamShape
  <2> QED
    BY <1>1, <2>1 DEF StreamInv, StreamShape
<1>3. Counted'
  <2> SUFFICES ASSUME NEW c \in Buses
               PROVE  (Cardinality(TakenBy(c)) <= running[c] /\ \A q \in TakenBy(c) : q.seq <= counter[c])'
    BY DEF Counted
  <2>1. CASE c = b
    <3>1. TakenBy(c)' = {} /\ running'[c] = 0
      BY <1>1, <2>1 DEF TakenBy, StreamInv, StreamShape
    <3> QED
      BY <3>1, FS_EmptySet
  <2>2. CASE c # b
    <3>1. TakenBy(c)' = TakenBy(c) /\ running'[c] = running[c] /\ counter'[c] = counter[c]
      BY <1>1, <2>2 DEF TakenBy, StreamInv, StreamShape
    <3> QED
      BY <3>1 DEF StreamInv, Counted
  <2> QED
    BY <2>1, <2>2
<1>4. ASSUME Followed PROVE Followed'
  <2>1. Running' = Running \ {b} /\ taken' \subseteq taken
    BY <1>1 DEF Running, StreamInv, StreamShape
  <2>2. \A c \in Running' : counter'[c] = counter[c] /\ running'[c] = running[c]
    BY <1>1 DEF Running, StreamInv, StreamShape
  <2>3. Running' = {} \/ \E c \in Buses : Alone(c)'
    BY <1>4, <2>1, <2>2 DEF Followed, Alone
  <2>4. Ahead' /\ Received'
    BY <1>1, <1>4, <2>1, <2>2 DEF Ahead, Received, Followed
  <2>5. ~Behind'
    BY <1>1, <1>4, <2>1, <2>2 DEF Behind, Followed
  <2> QED
    BY <2>3, <2>4, <2>5 DEF Followed
<1> QED
  BY <1>1, <1>2, <1>3, <1>4 DEF StreamInv

\* What the reader does and the stream that is deleted leave the numbers alone.
LEMMA StreamCountedStill ==
  ASSUME StreamInv, UNCHANGED <<counter, running, taken>>
  PROVE  Counted'
<1>1. \A c \in Buses : TakenBy(c)' = TakenBy(c)
  BY DEF TakenBy
<1> QED
  BY <1>1 DEF StreamInv, Counted

LEMMA StreamPolled ==
  ASSUME StreamInv, Poll
  PROVE  StreamInv'
<1>1. PICK top \in New : /\ \A r \in New : r.seq <= top.seq
                         /\ last' = top.seq
  BY DEF Poll
<1>2. /\ got' = got \cup {r.n : r \in New}
      /\ UNCHANGED <<counter, rows, taken, running, chunks, crossed>>
  BY DEF Poll
<1>3. top \in rows /\ top.seq \in Nat /\ last < top.seq /\ last \in Nat
  BY DEF New, StreamInv, StreamShape
<1>4. StreamShape'
  BY <1>1, <1>2, <1>3 DEF StreamInv, StreamShape
<1>5. Counted'
  BY <1>2, StreamCountedStill
<1>6. ASSUME Followed PROVE Followed'
  <2>1. Running' = Running /\ \A b : Alone(b)' <=> Alone(b)
    BY <1>2 DEF Running, Alone
  <2>2. ~Behind'
    BY <1>2, <1>6, <2>1 DEF Followed, Behind
  <2>3. \A b \in Running : ~(counter[b] < top.seq) /\ counter[b] \in Nat
    BY <1>3, <1>6 DEF Followed, Behind, Running, StreamInv, StreamShape
  <2>4. \A p \in taken : ~(p.seq <= top.seq) /\ p.seq \in Nat
    BY <1>3, <1>6 DEF Followed, Behind, StreamInv, StreamShape
  <2>5. Ahead'
    BY <1>1, <1>2, <1>3, <2>1, <2>3, <2>4 DEF Ahead
  <2>6. ASSUME NEW r \in rows PROVE r.n \in got'
    <3>1. r.seq \in Nat
      BY DEF StreamInv, StreamShape
    <3>2. CASE r.seq <= last
      BY <1>2, <1>6, <3>2 DEF Followed, Received
    <3>3. CASE r.seq > last
      BY <1>2, <3>3 DEF New
    <3> QED
      BY <1>3, <3>1, <3>2, <3>3
  <2>7. Received'
    BY <1>2, <2>6 DEF Received
  <2> QED
    BY <1>6, <2>1, <2>2, <2>5, <2>7 DEF Followed
<1> QED
  BY <1>2, <1>4, <1>5, <1>6 DEF StreamInv

LEMMA StreamSubscribed ==
  ASSUME StreamInv, Subscribe
  PROVE  StreamInv'
<1>1. last' = 0 /\ UNCHANGED <<counter, rows, taken, running, chunks>>
  BY DEF Subscribe
<1>2. ~crossed' => ~Behind /\ (Running = {} \/ \E b \in Buses : Alone(b))
  BY DEF Subscribe
<1>3. StreamShape'
  BY <1>1 DEF StreamInv, StreamShape
<1>4. Counted'
  BY <1>1, StreamCountedStill
<1>5. ASSUME ~Behind, Running = {} \/ \E b \in Buses : Alone(b) PROVE Followed'
  <2>1. Running' = Running /\ \A b : Alone(b)' <=> Alone(b)
    BY <1>1 DEF Running, Alone
  <2>2. ~Behind'
    BY <1>1, <1>5, <2>1 DEF Behind
  <2>3. Ahead'
    BY <1>1, <2>1 DEF Ahead, Running, StreamInv, StreamShape
  <2>4. Received'
    BY <1>1 DEF Received, StreamInv, StreamShape
  <2> QED
    BY <1>5, <2>1, <2>2, <2>3, <2>4 DEF Followed
<1> QED
  BY <1>2, <1>3, <1>4, <1>5 DEF StreamInv

LEMMA StreamDeleted ==
  ASSUME StreamInv, DeleteStream \/ UNCHANGED streamVars
  PROVE  StreamInv'
<1>1. rows' \subseteq rows /\ UNCHANGED <<counter, taken, running, last, got, chunks, crossed>>
  BY DEF DeleteStream, streamVars
<1>2. StreamShape'
  BY <1>1 DEF StreamInv, StreamShape
<1>3. Counted'
  BY <1>1, StreamCountedStill
<1>4. ASSUME Followed PROVE Followed'
  <2>1. Running' = Running /\ \A b : Alone(b)' <=> Alone(b)
    BY <1>1 DEF Running, Alone
  <2> QED
    BY <1>1, <1>4, <2>1 DEF Followed, Behind, Ahead, Received
<1> QED
  BY <1>1, <1>2, <1>3, <1>4 DEF StreamInv

LEMMA StreamInductive == StreamInv /\ [StreamNext]_streamVars => StreamInv'
  BY StreamRunBegins, StreamPublishedInMemory, StreamNumberTaken, StreamRowInserted, StreamRunEnds,
     StreamRestarted, StreamPolled, StreamSubscribed, StreamDeleted DEF StreamNext

\* StreamBus, StreamBusDB, the `stream` operation: a reader that polls by number passes
\* over no chunk, whatever the executions, restarts, resets and polls, unless it met two
\* executions at once or one whose process counts below its position.
THEOREM StreamSkipsNothing == StreamSpec => []NothingSkipped
<1>1. StreamInv => NothingSkipped
  BY DEF StreamInv, Followed, Received, NothingSkipped
<1> QED
  BY <1>1, StreamInitial, StreamInductive, PTL DEF StreamSpec

\* What StreamShape leaves out.
StreamRest == shared \in BOOLEAN /\ crossed \in BOOLEAN /\ got \subseteq Nat

LEMMA StreamRestInductive ==
  StreamInv /\ StreamRest /\ [StreamNext]_streamVars => StreamRest'
<1> SUFFICES ASSUME StreamInv, StreamRest, [StreamNext]_streamVars PROVE StreamRest'
  OBVIOUS
<1>1. shared' \in BOOLEAN
  BY DEF StreamRest, StreamNext, streamVars, BeginRun, PublishInMemory, TakeNumber, InsertRow,
         EndRun, RestartBus, DeleteStream, Poll, Subscribe
<1>2. crossed' \in BOOLEAN
  <2>1. ASSUME NEW b \in Buses, BeginRun(b) PROVE crossed' \in BOOLEAN
    BY <2>1, Zenon DEF BeginRun
  <2>2. CASE Subscribe
    BY <2>2, Zenon DEF Subscribe
  <2>3. CASE UNCHANGED crossed
    BY <2>3 DEF StreamRest
  <2> QED
    BY <2>1, <2>2, <2>3, Zenon
    DEF StreamNext, streamVars, PublishInMemory, TakeNumber, InsertRow, EndRun, RestartBus,
        DeleteStream, Poll
<1>3. got' \subseteq Nat
  <2>1. CASE Poll
    BY <2>1 DEF Poll, StreamInv, StreamShape, StreamRest, New
  <2>2. CASE Subscribe
    BY <2>2 DEF Subscribe
  <2>3. CASE UNCHANGED got
    BY <2>3 DEF StreamRest
  <2> QED
    BY <2>1, <2>2, <2>3, Zenon
    DEF StreamNext, streamVars, BeginRun, PublishInMemory, TakeNumber, InsertRow, EndRun,
        RestartBus, DeleteStream
<1> QED
  BY <1>1, <1>2, <1>3 DEF StreamRest

\* StreamBus: rows, numbers and positions have their types; no process goes below zero
\* executions, whatever ends or restarts (reset, publish, the end of execute).
THEOREM StreamsAreTyped == StreamSpec => []StreamTypeOK
<1>1. StreamInit => StreamRest
  BY DEF StreamInit, StreamRest
<1>2. StreamInv /\ StreamRest => StreamTypeOK
  BY DEF StreamInv, StreamShape, StreamRest, StreamTypeOK
<1> QED
  BY <1>1, <1>2, StreamInitial, StreamInductive, StreamRestInductive, PTL DEF StreamSpec

-----------------------------------------------------------------------------
(* Induction over numbers, without a predicate as a parameter *)

\* A set of natural numbers has a least element, for the order of a relation.
LEMMA LeastElement ==
  ASSUME NEW R, NEW S, S \subseteq Nat, S # {}, IsWellFoundedOn(R, Nat)
  PROVE  \E n \in S : \A m \in S : ~(<<m, n>> \in R)
  BY WFMin, Zenon

\* A set of natural numbers has a least element.
LEMMA LeastNatural ==
  ASSUME NEW S, S \subseteq Nat, S # {}
  PROVE  \E n \in S : \A m \in S : n <= m
<1>1. PICK R : IsWellFoundedOn(R, Nat) /\ \A x, y \in Nat : <<x, y>> \in R <=> x < y
  <2> DEFINE R == OpToRel(<, Nat)
  <2>1. \A x, y \in Nat : <<x, y>> \in R <=> x < y
    BY DEF OpToRel
  <2>2. IsWellFoundedOn(R, Nat)
    BY NatLessThanWellFounded
  <2> HIDE DEF R
  <2> QED
    BY <2>1, <2>2
<1>2. PICK n \in S : \A m \in S : ~(<<m, n>> \in R)
  BY <1>1, LeastElement
<1>3. \A m \in S : ~(m < n)
  <2>1. S \subseteq Nat
    OBVIOUS
  <2> QED
    BY <1>1, <1>2, <2>1, Zenon
<1> QED
  BY <1>3

-----------------------------------------------------------------------------
(* WorkflowRun *)

Statuses == {"running", "failed", "success", "sleeping", "aborted", "raised"}
Targets == DOMAIN Node \cup {Nil} \cup {Node[s].next : s \in DOMAIN Node}
             \cup {Node[s].onError : s \in DOMAIN Node} \cup UNION {Node[s].alt : s \in DOMAIN Node}
Compounds == {s \in DOMAIN Node : Node[s].type \in Compound}
Frames == [in : Compounds \cup {Nil}, cur : Targets, left : Nat]

\* The main loop, then the bodies entered from it.
Nested(st) ==
  st \in Seq(Frames) /\ \A i \in 2 .. Len(st) : st[i].in # Nil /\ Body[st[i].in] # <<>>

FlowShape ==
  /\ flow \in Flows /\ Nested(stack) /\ status \in Statuses
  /\ iter \in 0 .. MaxIter /\ since \in 0 .. iter /\ kill \in {"none", "sent", "seen"}

\* A kill that was seen ends every loop, but for the handler that is called all the
\* same, and the first step of the body it enters.
Killed ==
  kill = "seen" /\ ~Over =>
    /\ status = "aborted" /\ since < Len(stack) /\ Top.cur # Nil
    /\ Len(stack) > 1 => Top.cur = Entry(Body[Top.in])

FlowInv == FlowShape /\ Killed /\ (kill # "seen" => since = 0)

LEMMA EntryFits ==
  ASSUME NEW seq \in Seq(DOMAIN Node)
  PROVE  IF seq = <<>> THEN Entry(seq) = Nil ELSE Entry(seq) \in In(seq) /\ Entry(seq) \in DOMAIN Node
<1> DEFINE named == UNION {{Node[s].next} \cup Node[s].alt : s \in In(seq)}
           free == {i \in DOMAIN seq : seq[i] \notin named}
           first == CHOOSE i \in free : \A j \in free : i <= j
<1>1. CASE seq = <<>>
  BY <1>1 DEF Entry
<1>2. CASE seq # <<>> /\ free = {}
  <2>1. Entry(seq) = seq[1]
    BY <1>2 DEF Entry
  <2>2. 1 \in DOMAIN seq
    BY <1>2
  <2> QED
    BY <1>2, <2>1, <2>2 DEF In
<1>3. CASE seq # <<>> /\ free # {}
  <2>1. Entry(seq) = seq[first]
    BY <1>3 DEF Entry
  <2>2. free \subseteq DOMAIN seq /\ DOMAIN seq \subseteq Nat
    OBVIOUS
  <2> HIDE DEF free
  <2>3. PICK n \in free : \A m \in free : n <= m
    BY <1>3, <2>2, LeastNatural
  <2>4. first \in free
    BY <2>3
  <2> HIDE DEF first
  <2> QED
    BY <1>3, <2>1, <2>2, <2>4 DEF In
<1> QED
  BY <1>1, <1>2, <1>3

LEMMA FrameFits ==
  ASSUME flow \in Flows, NEW s \in Compounds \cup {Nil}, NEW turns \in Nat
  PROVE  /\ Frame(s, turns) \in Frames /\ Frame(s, turns).in = s /\ Frame(s, turns).cur = Entry(Steps(s))
         /\ Steps(s) \in Seq(DOMAIN Node)
<1>1. Steps(s) \in Seq(DOMAIN Node)
  BY FlowAssumption DEF Steps, Compounds
<1>2. Entry(Steps(s)) \in Targets
  BY <1>1, EntryFits DEF Targets
<1> QED
  BY <1>1, <1>2 DEF Frame, Frames

\* What a handler may do to the loops: end them, go on in one of them unless the run is
\* over, or enter a body.
Finishes == stack' = <<>> /\ status' \in Statuses
GoesOn ==
  /\ status = "running" /\ status' = status
  /\ stack' # <<>> /\ Nested(stack')
Enters(frames) ==
  /\ status' = status
  /\ \E s \in Compounds, turns \in Nat : Body[s] # <<>> /\ stack' = Append(frames, Frame(s, turns))

LEMMA GotoFits ==
  ASSUME FlowShape, NEW rest, Nested(rest), rest # <<>>, NEW target \in Targets, Goto(rest, target)
  PROVE  Finishes \/ GoesOn
<1>1. CASE status = "running"
  <2> DEFINE n == Len(rest)  f == [rest[n] EXCEPT !.cur = target]
  <2>1. n \in Nat /\ n > 0 /\ n \in DOMAIN rest /\ rest[n] \in Frames /\ rest \in Seq(Frames)
    BY DEF Nested
  <2>2. f \in Frames /\ f.in = rest[n].in
    BY <2>1 DEF Frames
  <2>3. stack' = [rest EXCEPT ![n] = f] /\ status' = status
    BY <1>1 DEF Goto
  <2> HIDE DEF f
  <2>4. stack' \in Seq(Frames) /\ Len(stack') = n
    BY <2>1, <2>2, <2>3
  <2>5. ASSUME NEW i \in 2 .. n PROVE stack'[i].in # Nil /\ Body[stack'[i].in] # <<>>
    <3>1. rest[i].in # Nil /\ Body[rest[i].in] # <<>>
      BY DEF Nested
    <3>2. i \in DOMAIN rest
      BY <2>1
    <3> QED
      BY <2>2, <2>3, <3>1, <3>2
  <2>6. stack' # <<>>
    BY <2>1, <2>4
  <2>7. Nested(stack')
    BY <2>4, <2>5 DEF Nested
  <2> QED
    BY <1>1, <2>3, <2>6, <2>7 DEF GoesOn
<1>2. CASE status # "running"
  BY <1>2 DEF Goto, Stop, Finishes, FlowShape
<1> QED
  BY <1>1, <1>2

LEMMA PassFits ==
  ASSUME FlowShape, NEW s \in Compounds, Body[s] # <<>>, NEW turns \in Nat, NEW frames, Pass(s, frames, turns)
  PROVE  Finishes \/ Enters(frames)
  BY DEF Pass, Stop, Finishes, Enters, Statuses

LEMMA EntersFits ==
  ASSUME FlowShape, NEW frames, Nested(frames), frames # <<>>, Enters(frames)
  PROVE  /\ Nested(stack') /\ Len(stack') = Len(frames) + 1 /\ Len(stack') > 1 /\ stack' # <<>>
         /\ stack'[Len(stack')].cur = Entry(Body[stack'[Len(stack')].in])
         /\ stack'[Len(stack')].cur # Nil
<1>1. PICK s \in Compounds, turns \in Nat : Body[s] # <<>> /\ stack' = Append(frames, Frame(s, turns))
  BY DEF Enters
<1> DEFINE f == Frame(s, turns)
<1>2. s # Nil
  BY FlowAssumption DEF Compounds
<1>3. f \in Frames /\ f.in = s /\ f.cur = Entry(Body[s]) /\ Body[s] \in Seq(DOMAIN Node)
  BY <1>2, FrameFits DEF FlowShape, Steps
<1>4. f.cur # Nil
  BY <1>1, <1>3, EntryFits, FlowAssumption
<1> HIDE DEF f
<1>5. frames \in Seq(Frames) /\ Len(frames) \in Nat /\ Len(frames) > 0
  BY DEF Nested
<1>6. /\ stack' \in Seq(Frames) /\ Len(stack') = Len(frames) + 1 /\ stack'[Len(stack')] = f
      /\ \A i \in 1 .. Len(frames) : stack'[i] = frames[i]
  BY <1>1, <1>3, <1>5 DEF f
<1>7. \A i \in 2 .. Len(stack') : stack'[i].in # Nil /\ Body[stack'[i].in] # <<>>
  <2> SUFFICES ASSUME NEW i \in 2 .. Len(stack') PROVE stack'[i].in # Nil /\ Body[stack'[i].in] # <<>>
    OBVIOUS
  <2>1. CASE i = Len(stack')
    BY <1>1, <1>2, <1>3, <1>6, <2>1
  <2>2. CASE i # Len(stack')
    <3>1. i \in 2 .. Len(frames) /\ i \in 1 .. Len(frames)
      BY <1>5, <1>6, <2>2
    <3> QED
      BY <1>6, <3>1 DEF Nested
  <2> QED
    BY <2>1, <2>2
<1> QED
  BY <1>1, <1>3, <1>4, <1>5, <1>6, <1>7 DEF Nested

-----------------------------------------------------------------------------
\* What a handler, or the end of a body, does to the loops.

LEMMA ProceedFits ==
  ASSUME FlowShape, ~Over, NEW target \in Targets, Proceed(target)
  PROVE  Finishes \/ GoesOn
  BY GotoFits DEF FlowShape, Over, Proceed

LEMMA StopFits == ASSUME NEW st \in Statuses, Stop(st) PROVE Finishes
  BY DEF Stop, Finishes

LEMMA OnErrorFits ==
  ASSUME FlowShape, ~Over, NEW s \in DOMAIN Node, OnError(s)
  PROVE  Finishes \/ GoesOn
<1>1. CASE Node[s].onError # Nil
  <2>1. Node[s].onError \in Targets
    BY DEF Targets
  <2> QED
    BY <1>1, <2>1, ProceedFits DEF OnError
<1>2. CASE Node[s].onError = Nil
  BY <1>2 DEF OnError, Stop, Finishes, Statuses
<1> QED
  BY <1>1, <1>2

LEMMA BelowFits ==
  ASSUME FlowShape, Len(stack) > 1
  PROVE  /\ Nested(Below) /\ Below # <<>> /\ Len(Below) = Len(stack) - 1
         /\ Top \in Frames /\ Top.in \in Compounds /\ Top.in # Nil /\ Body[Top.in] # <<>>
<1>1. /\ stack \in Seq(Frames) /\ Len(stack) \in Nat
      /\ \A i \in 2 .. Len(stack) : stack[i].in # Nil /\ Body[stack[i].in] # <<>>
  BY DEF FlowShape, Nested
<1>2. Below \in Seq(Frames) /\ Len(Below) = Len(stack) - 1 /\ \A i \in 1 .. Len(stack) - 1 : Below[i] = stack[i]
  BY <1>1 DEF Below
<1>3. Nested(Below)
  <2>1. \A i \in 2 .. Len(Below) : i \in 2 .. Len(stack) /\ i \in 1 .. Len(stack) - 1
    BY <1>1, <1>2
  <2> QED
    BY <1>1, <1>2, <2>1 DEF Nested
<1>4. Top \in Frames /\ Top.in # Nil /\ Body[Top.in] # <<>>
  BY <1>1 DEF Top
<1> QED
  BY <1>1, <1>2, <1>3, <1>4 DEF Frames

\* The end of a body: another pass for the loop it is the body of, or the step after.
LEMMA ReturnFits ==
  ASSUME FlowShape, Len(stack) > 1, NEW code, Return(code)
  PROVE  Finishes \/ GoesOn \/ (code # "break" /\ Enters(Below))
<1> DEFINE s == Top.in
<1>1. Nested(Below) /\ Below # <<>> /\ s \in Compounds /\ Top.left \in Nat /\ Body[s] # <<>>
  BY BelowFits DEF Frames
<1>2. ASSUME Goto(Below, Node[s].next) PROVE Finishes \/ GoesOn
  <2>1. Node[s].next \in Targets
    BY <1>1 DEF Compounds, Targets
  <2> QED
    BY <1>1, <1>2, <2>1, GotoFits
<1>3. CASE Node[s].type = "while" /\ code # "break"
  <2>1. Goto(Below, Node[s].next) \/ Pass(s, Below, 0)
    BY <1>3 DEF Return
  <2> QED
    BY <1>1, <1>2, <1>3, <2>1, PassFits
<1>4. CASE Node[s].type = "for" /\ code # "break" /\ Top.left > 0
  <2>1. Pass(s, Below, Top.left - 1) /\ Top.left - 1 \in Nat
    BY <1>1, <1>4 DEF Return
  <2> HIDE DEF s
  <2> QED
    BY <1>1, <1>4, <2>1, PassFits DEF s
<1>5. CASE ~(Node[s].type = "while" /\ code # "break") /\ ~(Node[s].type = "for" /\ code # "break" /\ Top.left > 0)
  <2>1. Goto(Below, Node[s].next)
    BY <1>5 DEF Return
  <2> QED
    BY <1>2, <2>1
<1> QED
  BY <1>3, <1>4, <1>5

LEMMA LlmFits ==
  ASSUME FlowShape, ~Over, NEW s \in DOMAIN Node, LlmCall(s)
  PROVE  (UNCHANGED kill /\ (Finishes \/ GoesOn)) \/ (kill' = "seen" /\ Finishes)
<1>1. Node[s].next \in Targets
  BY DEF Targets
<1>2. CASE Proceed(Node[s].next) /\ UNCHANGED kill
  BY <1>1, <1>2, ProceedFits
<1>3. CASE OnError(s) /\ UNCHANGED kill
  BY <1>3, OnErrorFits
<1>4. CASE Stop("failed") /\ UNCHANGED kill
  BY <1>4, StopFits DEF Statuses
<1>5. CASE kill' = "seen" /\ Stop("aborted")
  BY <1>5, StopFits DEF Statuses
<1> QED
  BY <1>2, <1>3, <1>4, <1>5 DEF LlmCall

\* Steps with no body.
LEMMA CallsFit ==
  ASSUME FlowShape, ~Over, NEW s \in DOMAIN Node,
         \/ Call(s) \/ ToolCall(s) \/ Spawn(s) \/ Handoff(s) \/ AgentCall(s) \/ Switch(s)
         \/ SetVariable(s) \/ Sleep \/ End \/ Transform(s) \/ Hook(s)
  PROVE  Finishes \/ GoesOn
<1>1. Node[s].next \in Targets /\ Node[s].alt \subseteq Targets
  BY DEF Targets
<1>2. ASSUME NEW target \in Targets, Proceed(target) PROVE Finishes \/ GoesOn
  BY <1>2, ProceedFits
<1>3. ASSUME NEW st \in Statuses, Stop(st) PROVE Finishes \/ GoesOn
  BY <1>3, StopFits
<1>4. ASSUME OnError(s) PROVE Finishes \/ GoesOn
  BY <1>4, OnErrorFits
<1>5. {"failed", "success", "sleeping", "raised"} \subseteq Statuses
  BY DEF Statuses
<1> QED
  BY <1>1, <1>2, <1>3, <1>4, <1>5
  DEF Call, ToolCall, Spawn, Handoff, AgentCall, Switch, SetVariable, Sleep, End, Transform, Hook

\* Steps with a body.
LEMMA BodiesFit ==
  ASSUME FlowShape, ~Over, NEW s \in Compounds,
         \/ Node[s].type = "while" /\ While(s)
         \/ Node[s].type = "for" /\ For(s)
         \/ Node[s].type = "if" /\ If(s)
         \/ Node[s].type = "group" /\ Group(s)
  PROVE  Finishes \/ GoesOn \/ Enters(stack)
<1>1. s \in DOMAIN Node /\ Node[s].next \in Targets
  BY DEF Compounds, Targets
<1>2. ASSUME Proceed(Node[s].next) PROVE Finishes \/ GoesOn \/ Enters(stack)
  BY <1>1, <1>2, ProceedFits
<1>3. ASSUME NEW turns \in Nat, Pass(s, stack, turns), Body[s] # <<>> PROVE Finishes \/ GoesOn \/ Enters(stack)
  BY <1>3, PassFits
<1>4. ASSUME Push(s, 0), Body[s] # <<>> PROVE Finishes \/ GoesOn \/ Enters(stack)
  BY <1>4 DEF Push, Enters
<1>5. CASE Node[s].type = "while" /\ While(s)
  BY <1>1, <1>2, <1>3, <1>5, FlowAssumption DEF While
<1>6. CASE Node[s].type = "for" /\ For(s)
  <2>1. CASE Items[s] = 0 \/ Body[s] = <<>>
    BY <1>2, <1>6, <2>1 DEF For
  <2>2. CASE ~(Items[s] = 0 \/ Body[s] = <<>>)
    <3>1. Items[s] - 1 \in Nat
      BY <1>1, <1>6, <2>2, FlowAssumption
    <3> QED
      BY <1>3, <1>6, <2>2, <3>1 DEF For
  <2> QED
    BY <2>1, <2>2
<1>7. CASE Node[s].type = "if" /\ If(s)
  BY <1>2, <1>4, <1>7 DEF If
<1>8. CASE Node[s].type = "group" /\ Group(s)
  BY <1>2, <1>4, <1>8 DEF Group
<1> QED
  BY <1>5, <1>6, <1>7, <1>8

\* The handler of a step, which a check of the signals may have aborted.
LEMMA HandleFits ==
  ASSUME FlowShape, ~Over, NEW s \in DOMAIN Node, Handle(s), Node[s].type \in Known[flow.engine]
  PROVE  \/ kill' = "seen" /\ Finishes
         \/ UNCHANGED kill /\ (Finishes \/ GoesOn \/ Enters(stack))
         \/ UNCHANGED kill /\ Node[s].type \in {"break", "continue"} /\ LoopControl(Node[s].type)
<1> DEFINE t == Node[s].type
<1>1. CASE t = "llm"
  BY <1>1, LlmFits DEF Handle
<1>2. CASE t \in Compound
  <2>1. s \in Compounds
    BY <1>2 DEF Compounds
  <2>2. UNCHANGED kill
    BY <1>2 DEF Handle, Compound
  <2>3. /\ t = "while" => While(s)
        /\ t = "for" => For(s)
        /\ t = "if" => If(s)
        /\ t = "group" => Group(s)
    <3>1. CASE t = "while"
      BY <3>1 DEF Handle
    <3>2. CASE t = "for"
      BY <3>2 DEF Handle
    <3>3. CASE t = "if"
      BY <3>3 DEF Handle
    <3>4. CASE t = "group"
      BY <3>4 DEF Handle
    <3> QED
      BY <3>1, <3>2, <3>3, <3>4
  <2>4. \/ t = "while" /\ While(s)
        \/ t = "for" /\ For(s)
        \/ t = "if" /\ If(s)
        \/ t = "group" /\ Group(s)
    BY <1>2, <2>3 DEF Compound
  <2> QED
    BY <2>1, <2>2, <2>4, BodiesFit
<1>3. CASE t \in {"break", "continue"}
  BY <1>3 DEF Handle
<1>4. CASE t \notin {"llm", "break", "continue"} \cup Compound
  <2>1. t \in {"call", "tool", "switch", "sleep", "end", "set", "spawn", "handoff", "agent_call", "transform", "hook"}
    BY <1>4, FlowAssumption DEF FlowShape, Known
  <2>2. /\ UNCHANGED kill
        /\ \/ Call(s) \/ ToolCall(s) \/ Spawn(s) \/ Handoff(s) \/ AgentCall(s) \/ Switch(s)
           \/ SetVariable(s) \/ Sleep \/ End \/ Transform(s) \/ Hook(s)
    BY <2>1 DEF Handle
  <2> QED
    BY <2>2, CallsFit
<1> QED
  BY <1>1, <1>2, <1>3, <1>4

-----------------------------------------------------------------------------
(* The steps of the walk *)

\* Once the kill is seen no loop but the ones already entered goes on.
LEMMA FlowStepped ==
  ASSUME FlowInv, Step
  PROVE  FlowInv'
<1> DEFINE s == Top.cur
<1>1. /\ ~Over /\ Checked /\ iter < MaxIter /\ iter' = iter + 1 /\ flow' = flow /\ Handle(s)
      /\ since' = IF kill = "seen" THEN since + 1 ELSE since
      /\ s \in In(Steps(Top.in)) /\ Node[s].type \in Known[flow.engine]
  BY DEF Step, Found
<1>2. stack \in Seq(Frames) /\ Len(stack) \in Nat /\ Len(stack) > 0 /\ Top \in Frames
  BY <1>1 DEF FlowInv, FlowShape, Nested, Over, Top
<1>3. s \in DOMAIN Node
  <2>1. Steps(Top.in) \in Seq(DOMAIN Node)
    BY <1>2, FrameFits DEF FlowInv, FlowShape, Frames
  <2> QED
    BY <1>1, <2>1 DEF In
<1>4. flow' \in Flows /\ iter' \in 0 .. MaxIter /\ since' \in 0 .. iter' /\ iter' \in Nat
  BY <1>1, FlowAssumption DEF FlowInv, FlowShape
<1>5. \/ kill' = "seen" /\ Finishes
      \/ UNCHANGED kill /\ (Finishes \/ GoesOn \/ Enters(stack))
      \/ UNCHANGED kill /\ Node[s].type \in {"break", "continue"} /\ LoopControl(Node[s].type)
  BY <1>1, <1>3, HandleFits DEF FlowInv
<1>6. kill' # "seen" => since' = 0
  BY <1>1, <1>5 DEF FlowInv
<1>7. kill' \in {"none", "sent", "seen"}
  BY <1>5 DEF FlowInv, FlowShape
<1>8. CASE Finishes
  BY <1>4, <1>6, <1>7, <1>8 DEF FlowInv, FlowShape, Killed, Finishes, Over, Nested
<1>9. CASE UNCHANGED kill /\ GoesOn
  <2>1. kill = "seen" => status = "aborted"
    BY <1>1 DEF FlowInv, Killed
  <2>2. kill # "seen"
    BY <1>9, <2>1 DEF GoesOn
  <2> QED
    BY <1>4, <1>6, <1>7, <1>9, <2>2 DEF FlowInv, FlowShape, Killed, GoesOn
<1>10. CASE UNCHANGED kill /\ Enters(stack)
  <2>1. /\ Nested(stack') /\ Len(stack') = Len(stack) + 1 /\ Top'.cur # Nil
        /\ Top'.cur = Entry(Body[Top'.in]) /\ status' = status
    BY <1>1, <1>10, EntersFits DEF FlowInv, FlowShape, Over, Top, Enters
  <2>2. kill = "seen" => status = "aborted" /\ since < Len(stack) /\ since' = since + 1
    BY <1>1 DEF FlowInv, Killed
  <2>3. since \in Nat
    BY <1>4 DEF FlowInv, FlowShape
  <2>4. Killed'
    BY <1>2, <1>10, <2>1, <2>2, <2>3 DEF Killed
  <2> QED
    BY <1>4, <1>6, <1>7, <1>10, <2>1, <2>4 DEF FlowInv, FlowShape
<1>11. CASE UNCHANGED kill /\ Node[s].type \in {"break", "continue"} /\ LoopControl(Node[s].type)
  <2> DEFINE t == Node[s].type
  <2>1. CASE Len(stack) = 1
    <3>1. Finishes
      BY <1>11, <2>1, StopFits DEF LoopControl, FlowInv, FlowShape
    <3> QED
      BY <1>8, <3>1
  <2>2. CASE Len(stack) # 1
    <3>0. Return(t)
      <4>1. LoopControl(t)
        BY <1>11
      <4> HIDE DEF t
      <4> QED
        BY <2>2, <4>1 DEF LoopControl
    <3>1. Len(stack) > 1
      <4> DEFINE n == Len(stack)
      <4>1. n \in Nat /\ n > 0 /\ n # 1
        BY <1>2, <2>2
      <4> HIDE DEF n
      <4>2. n > 1
        BY <4>1
      <4> QED
        BY <4>2 DEF n
    <3>2. Finishes \/ GoesOn \/ (t # "break" /\ Enters(Below))
      BY <3>0, <3>1, ReturnFits DEF FlowInv
    <3>3. CASE t # "break" /\ Enters(Below)
      <4>1. kill # "seen"
        <5>1. Top.in \in DOMAIN Body /\ Body[Top.in] # <<>>
          BY <3>1, BelowFits, FlowAssumption DEF FlowInv, Compounds
        <5> QED
          BY <1>1, <1>11, <3>1, <3>3, <5>1, FlowAssumption DEF FlowInv, Killed
      <4>2. Nested(Below) /\ Below # <<>>
        BY <3>1, BelowFits DEF FlowInv
      <4>3. Nested(stack') /\ status' = status
        BY <3>3, <4>2, EntersFits DEF FlowInv, Enters
      <4> QED
        BY <1>4, <1>6, <1>7, <1>11, <4>1, <4>3 DEF FlowInv, FlowShape, Killed
    <3> QED
      BY <1>8, <1>9, <1>11, <3>2, <3>3
  <2> QED
    BY <2>1, <2>2
<1> QED
  BY <1>5, <1>8, <1>9, <1>10, <1>11

\* A loop that has no next step was not entered after the kill was seen.
LEMMA FlowFell ==
  ASSUME FlowInv, FellOut
  PROVE  FlowInv'
<1>1. ~Over /\ Top.cur = Nil /\ UNCHANGED <<flow, iter, kill, since>>
  BY DEF FellOut
<1>2. stack \in Seq(Frames) /\ Len(stack) \in Nat /\ Len(stack) > 0 /\ kill # "seen"
  BY <1>1 DEF FlowInv, FlowShape, Nested, Over, Killed
<1>3. CASE Len(stack) > 1
  <2>1. Finishes \/ GoesOn \/ Enters(Below)
    BY <1>3, ReturnFits DEF FellOut, FlowInv
  <2>2. Nested(Below) /\ Below # <<>>
    BY <1>3, BelowFits DEF FlowInv
  <2>3. Nested(stack') /\ status' \in Statuses
    <3>1. CASE Finishes
      BY <3>1 DEF Finishes, Nested
    <3>2. CASE GoesOn
      BY <3>2 DEF GoesOn, Statuses
    <3>3. CASE Enters(Below)
      BY <2>2, <3>3, EntersFits DEF FlowInv, FlowShape, Enters
    <3> QED
      BY <2>1, <3>1, <3>2, <3>3
  <2> QED
    BY <1>1, <1>2, <2>3 DEF FlowInv, FlowShape, Killed
<1>4. CASE ~(Len(stack) > 1)
  <2>1. Finishes
    BY <1>4 DEF FellOut, FlowInv, FlowShape, Statuses, Stop, Finishes
  <2> QED
    BY <1>1, <1>2, <2>1 DEF FlowInv, FlowShape, Killed, Finishes, Over, Nested
<1> QED
  BY <1>3, <1>4

LEMMA FlowStopped ==
  ASSUME FlowInv, NotFound \/ Limit
  PROVE  FlowInv'
<1>1. Finishes /\ UNCHANGED <<flow, kill, since>> /\ (iter' = iter \/ (iter < MaxIter /\ iter' = iter + 1))
  BY DEF NotFound, Limit, Stop, Finishes, FlowInv, FlowShape, Statuses
<1>2. iter' \in 0 .. MaxIter /\ since' \in 0 .. iter'
  BY <1>1, FlowAssumption DEF FlowInv, FlowShape
<1> QED
  BY <1>1, <1>2 DEF FlowInv, FlowShape, Killed, Finishes, Over, Nested

LEMMA FlowInitial == FlowInit => FlowInv
<1> SUFFICES ASSUME FlowInit PROVE FlowInv
  OBVIOUS
<1>1. flow \in Flows /\ stack = <<Frame(Nil, 0)>>
  BY DEF FlowInit
<1>2. Frame(Nil, 0) \in Frames
  BY <1>1, FrameFits
<1>3. Nested(stack)
  BY <1>1, <1>2 DEF Nested
<1> QED
  BY <1>1, <1>3, FlowAssumption DEF FlowInit, FlowInv, FlowShape, Killed, Statuses

LEMMA FlowInductive == FlowInv /\ [FlowNext]_flowVars => FlowInv'
<1> SUFFICES ASSUME FlowInv, [FlowNext]_flowVars PROVE FlowInv'
  OBVIOUS
<1>1. CASE SendKill
  BY <1>1 DEF SendKill, FlowInv, FlowShape, Killed, Over
<1>2. CASE CheckSignals
  <2>1. /\ Len(stack) = 1 /\ Top.cur # Nil /\ kill = "sent" /\ kill' = "seen" /\ status' = "aborted"
        /\ UNCHANGED <<flow, stack, iter, since>>
    BY <1>2 DEF CheckSignals
  <2>2. FlowShape'
    BY <2>1 DEF FlowInv, FlowShape, Statuses
  <2>3. since' = 0 /\ Top' = Top
    BY <2>1 DEF FlowInv, Top
  <2>4. Killed'
    <3>1. Top'.cur # Nil
      BY <2>1, <2>3
    <3>2. since' < Len(stack') /\ ~(Len(stack') > 1)
      <4>1. since' = 0 /\ Len(stack') = 1
        BY <2>1, <2>3
      <4> DEFINE n == Len(stack')
      <4> HIDE DEF n
      <4>2. n = 1
        BY <4>1 DEF n
      <4>3. since' < n /\ ~(n > 1)
        BY <4>1, <4>2
      <4> QED
        BY <4>3 DEF n
    <3> QED
      BY <2>1, <3>1, <3>2, Zenon DEF Killed
  <2> QED
    BY <2>1, <2>2, <2>4 DEF FlowInv
<1>3. CASE UNCHANGED flowVars
  BY <1>3 DEF flowVars, FlowInv, FlowShape, Killed, Over, Top
<1> QED
  BY <1>1, <1>2, <1>3, FlowStepped, FlowFell, FlowStopped DEF FlowNext, FlowStep

\* A kill that a check of the main loop has seen ends the workflow before any loop
\* makes a second step: handlers return True whatever the status, and it is the loops
\* that stop (FSMInterpreter.run and _run_body).
THEOREM KillsAreHeeded == FlowSpec => []KilledSoon
<1>1. FlowInv => KilledSoon
  BY DEF FlowInv, Killed, KilledSoon
<1> QED
  BY <1>1, FlowInitial, FlowInductive, PTL DEF FlowSpec

\* WorkflowRun: the loops under way, the status and the counters have their types, and
\* the iterations of all the loops together never pass max_iterations (FSMInterpreter.run,
\* _run_body).
THEOREM WorkflowsAreTyped == FlowSpec => []FlowTypeOK
<1>1. FlowInv => FlowTypeOK
  <2> SUFFICES ASSUME FlowInv PROVE FlowTypeOK
    OBVIOUS
  <2>1. flow \in Flows /\ stack \in Seq(Frames) /\ kill \in {"none", "sent", "seen"}
    BY DEF FlowInv, FlowShape, Nested
  <2>2. ASSUME NEW i \in DOMAIN stack
        PROVE  stack[i].in \in DOMAIN Node \cup {Nil} /\ stack[i].left \in Nat
    <3>1. stack[i] \in Frames
      BY <2>1
    <3> QED
      BY <3>1 DEF Frames, Compounds
  <2>3. status \in {"running", "failed", "success", "sleeping", "aborted", "raised"}
    BY DEF FlowInv, FlowShape, Statuses
  <2>4. iter \in 0 .. MaxIter /\ since \in 0 .. MaxIter
    BY FlowAssumption DEF FlowInv, FlowShape
  <2> QED
    BY <2>1, <2>2, <2>3, <2>4 DEF FlowTypeOK
<1> QED
  BY <1>1, FlowInitial, FlowInductive, PTL DEF FlowSpec
=============================================================================
