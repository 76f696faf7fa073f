--------------------------- MODULE GatewayProofs ----------------------------
(***************************************************************************)
(* Proofs about the services of the gateway, for every value of their      *)
(* constants: the proxy to the agent daemon, the instance lock, the calls  *)
(* of language models, the rows of model access, the keys, the seeding of  *)
(* the catalogue at its opening, the choice of a provider and the limits   *)
(* of requests. They share no state; each has an invariant of its own,     *)
(* which its section states and proves inductive.                          *)
(***************************************************************************)
EXTENDS AfdProxy, InstanceLock, LlmAccess, ModelAccess, ApiKeys, CatalogueOpening,
        Allocation, RateLimits, FiniteSetTheorems, SequenceTheorems,
        WellFoundedInduction, TLAPS

-----------------------------------------------------------------------------
(* AfdProxy *)

ProxyTypeOK ==
  /\ path \in Daemons \cup {NoSocket}
  /\ executed \in [Requests -> Nat]
  /\ asked \in [Requests -> [pc : {"new", "remote", "local", "sent", "late", "over"},
                             to : Daemons \cup {NoSocket},
                             answer : {"none", "result", "unreachable", "unsure"}]]

\* How often a request has been executed, by the place its caller is at.
Counted(q) ==
  /\ asked[q].pc # "over" => executed[q] = 0 /\ asked[q].answer \in {"none", "unsure"}
  /\ asked[q].pc = "over" =>
       \/ asked[q].answer = "result" /\ executed[q] = 1
       \/ asked[q].answer = "unreachable" /\ executed[q] = 0
       \/ asked[q].answer \in {"none", "unsure"} /\ executed[q] \in {0, 1}

ProxyInv == ProxyTypeOK /\ \A q \in Requests : Counted(q)

LEMMA ProxyInitial == ProxyInit => ProxyInv
  BY DEF ProxyInit, ProxyInv, ProxyTypeOK, Counted, NewRequest

\* A daemon changes requests only when it ends or answers one.
LEMMA ProxyDaemonStep ==
  ASSUME ProxyInv, NEW d \in Daemons, ServeUnlink(d) \/ ServeBind(d) \/ StopDaemon(d)
  PROVE  ProxyInv'
<1>1. CASE ServeUnlink(d) \/ ServeBind(d)
  BY <1>1 DEF ServeUnlink, ServeBind, ProxyInv, ProxyTypeOK, Counted
<1>2. CASE StopDaemon(d)
  <2>1. path' \in Daemons \cup {NoSocket} /\ UNCHANGED executed
    BY <1>2 DEF StopDaemon, ProxyInv, ProxyTypeOK
  <2>2. ProxyTypeOK'
    BY <1>2, <2>1 DEF StopDaemon, Closed, ProxyInv, ProxyTypeOK
  <2>3. ASSUME NEW q \in Requests PROVE Counted(q)'
    BY <1>2, <2>1 DEF StopDaemon, Closed, ProxyInv, ProxyTypeOK, Counted
  <2> QED
    BY <2>2, <2>3 DEF ProxyInv
<1> QED
  BY <1>1, <1>2

LEMMA ProxyRequestStep ==
  ASSUME ProxyInv, NEW q \in Requests,
         Handle(q) \/ Probe(q) \/ Connect(q) \/ GiveUp(q) \/ RunLocally(q)
  PROVE  ProxyInv'
<1>1. ProxyTypeOK'
  <2>1. CASE Handle(q)
    <3>1. executed' \in [Requests -> Nat] /\ path' = path
      BY <2>1 DEF Handle, ProxyInv, ProxyTypeOK
    <3>2. PICK a \in {"none", "result", "unreachable", "unsure"} :
            asked' = [asked EXCEPT ![q].pc = "over", ![q].answer = a]
      BY <2>1 DEF Handle, ProxyInv, ProxyTypeOK
    <3> QED
      BY <3>1, <3>2 DEF ProxyInv, ProxyTypeOK
  <2>2. CASE Probe(q)
    BY <2>2 DEF Probe, ProxyInv, ProxyTypeOK
  <2>3. CASE Connect(q)
    BY <2>3 DEF Connect, ProxyInv, ProxyTypeOK
  <2>4. CASE GiveUp(q)
    BY <2>4 DEF GiveUp, ProxyInv, ProxyTypeOK
  <2>5. CASE RunLocally(q)
    <3>1. executed' \in [Requests -> Nat] /\ path' = path
      BY <2>5 DEF RunLocally, ProxyInv, ProxyTypeOK
    <3>2. asked' = [asked EXCEPT ![q].pc = "over", ![q].answer = "result"]
      BY <2>5 DEF RunLocally
    <3> QED
      BY <3>1, <3>2 DEF ProxyInv, ProxyTypeOK
  <2> QED
    BY <2>1, <2>2, <2>3, <2>4, <2>5
<1>2. \A o \in Requests \ {q} : asked'[o] = asked[o] /\ executed'[o] = executed[o]
  BY DEF Handle, Probe, Connect, GiveUp, RunLocally, ProxyInv, ProxyTypeOK
<1>3. Counted(q)'
  <2>1. CASE Handle(q)
    BY <2>1 DEF Handle, ProxyInv, ProxyTypeOK, Counted
  <2>2. CASE Probe(q) \/ Connect(q) \/ GiveUp(q)
    BY <2>2 DEF Probe, Connect, GiveUp, ProxyInv, ProxyTypeOK, Counted
  <2>3. CASE RunLocally(q)
    BY <2>3 DEF RunLocally, ProxyInv, ProxyTypeOK, Counted
  <2> QED
    BY <2>1, <2>2, <2>3
<1>4. ASSUME NEW o \in Requests \ {q} PROVE Counted(o)'
  BY <1>2 DEF ProxyInv, Counted
<1> QED
  BY <1>1, <1>3, <1>4 DEF ProxyInv

LEMMA ProxyInductive == ProxyInv /\ [ProxyNext]_proxyVars => ProxyInv'
<1> SUFFICES ASSUME ProxyInv, [ProxyNext]_proxyVars PROVE ProxyInv'
  OBVIOUS
<1>1. CASE RestartGateway
  BY <1>1 DEF RestartGateway, ProxyInv, ProxyTypeOK, Counted
<1>2. CASE UNCHANGED proxyVars
  BY <1>2 DEF proxyVars, ProxyInv, ProxyTypeOK, Counted
<1> QED
  BY <1>1, <1>2, ProxyDaemonStep, ProxyRequestStep DEF ProxyNext

\* A call is executed at most once, exactly once when its caller got a result, not at
\* all when it was told that nobody listens (AFDSocketClient.send, AFDProxy), for any
\* number of daemons and calls.
THEOREM CallsRunOnce == ProxySpec => []ExecutedOnce
<1>1. ProxyInv => ExecutedOnce
  BY DEF ProxyInv, Counted, ExecutedOnce
<1> QED
  BY <1>1, ProxyInitial, ProxyInductive, PTL DEF ProxySpec

-----------------------------------------------------------------------------
(* InstanceLock *)

Holders == {"write", "run", "exit"}
LockPcs == {"off", "dead", "read", "kill", "remove", "open", "flock"} \cup Holders

LockTypeOK ==
  /\ pidFile \in [ino : Nat, pid : Starts \cup {Nobody}]
  /\ inodes \in Nat /\ stolen \in BOOLEAN
  /\ proc \in [Starts -> [pc : LockPcs, target : Starts \cup {Nobody}, ino : Nat]]

\* A process has a file open from OpenLock to its end.
HasFile(p) == proc[p].ino # 0 <=> proc[p].pc \in {"flock"} \cup Holders

\* A lock has one holder per inode; the inode is the one at the path unless it was
\* removed under a living process.
Exclusive ==
  \A p, q \in Starts :
    (proc[p].pc \in Holders /\ proc[q].pc \in Holders /\ proc[p].ino = proc[q].ino) => p = q
AtPath == ~stolen => \A p \in Starts : proc[p].ino # 0 => proc[p].ino = pidFile.ino

LockInv == LockTypeOK /\ (\A p \in Starts : HasFile(p)) /\ Exclusive /\ AtPath

LEMMA LockInitial == LockInit => LockInv
<1> SUFFICES ASSUME LockInit PROVE LockInv
  OBVIOUS
<1>1. LockTypeOK
  BY DEF LockInit, LockTypeOK, LockPcs, Holders, NoFileThere
<1>2. \A p \in Starts : proc[p].pc = "off" /\ proc[p].ino = 0
  BY DEF LockInit
<1> QED
  BY <1>1, <1>2 DEF LockInv, HasFile, Exclusive, AtPath, Holders

\* Steps in which no process opens a file, none takes the lock and the path stays.
LEMMA LockQuiet ==
  ASSUME LockInv, LockTypeOK', UNCHANGED stolen, pidFile'.ino = pidFile.ino,
         \A p \in Starts : HasFile(p)',
         \A p \in Starts : /\ proc'[p].ino \in {0, proc[p].ino}
                           /\ proc'[p].pc \in Holders => proc[p].pc \in Holders /\ proc'[p].ino = proc[p].ino
  PROVE  LockInv'
<1>1. Exclusive'
  BY DEF LockInv, Exclusive
<1>2. AtPath'
  BY DEF LockInv, AtPath
<1> QED
  BY <1>1, <1>2 DEF LockInv

LEMMA LockInductive == LockInv /\ [LockNext]_lockVars => LockInv'
<1> SUFFICES ASSUME LockInv, [LockNext]_lockVars PROVE LockInv'
  OBVIOUS
<1> USE DEF Holders, LockPcs
<1>1. CASE UNCHANGED lockVars
  BY <1>1 DEF lockVars, LockInv, LockTypeOK, HasFile, Exclusive, AtPath
<1>2. ASSUME NEW p \in Starts, LockExists(p) \/ ReadPid(p) \/ KillOld(p) \/ ExitRead(p) \/ KillProcess(p)
      PROVE  LockInv'
  <2>1. LockTypeOK'
    <3>1. CASE LockExists(p)
      BY <3>1 DEF LockExists, GoesTo, LockInv, LockTypeOK
    <3>2. CASE ReadPid(p)
      <4>1. PICK pc \in LockPcs, target \in Starts \cup {Nobody} :
              proc' = [proc EXCEPT ![p].pc = pc, ![p].target = target]
        BY <3>2 DEF ReadPid, LockInv, LockTypeOK
      <4>2. UNCHANGED <<pidFile, inodes, stolen>>
        BY <3>2 DEF ReadPid
      <4> QED
        BY <4>1, <4>2 DEF LockInv, LockTypeOK
    <3>3. CASE KillOld(p) \/ ExitRead(p) \/ KillProcess(p)
      BY <3>3 DEF KillOld, ExitRead, KillProcess, Dead, LockInv, LockTypeOK
    <3> QED
      BY <1>2, <3>1, <3>2, <3>3
  <2>2. UNCHANGED <<stolen, pidFile>>
    BY <1>2 DEF LockExists, ReadPid, KillOld, ExitRead, KillProcess
  <2>3. ASSUME NEW q \in Starts
        PROVE  /\ HasFile(q)' /\ proc'[q].ino \in {0, proc[q].ino}
               /\ proc'[q].pc \in Holders => proc[q].pc \in Holders /\ proc'[q].ino = proc[q].ino
    <3>1. CASE LockExists(p)
      BY <3>1 DEF LockExists, GoesTo, LockInv, LockTypeOK, HasFile
    <3>2. CASE ReadPid(p)
      BY <3>2 DEF ReadPid, LockInv, LockTypeOK, HasFile
    <3>3. CASE KillOld(p)
      BY <3>3 DEF KillOld, Dead, LockInv, LockTypeOK, HasFile
    <3>4. CASE ExitRead(p) \/ KillProcess(p)
      BY <3>4 DEF ExitRead, KillProcess, Dead, LockInv, LockTypeOK, HasFile
    <3> QED
      BY <1>2, <3>1, <3>2, <3>3, <3>4
  <2> QED
    BY <2>1, <2>2, <2>3, LockQuiet
<1>3. ASSUME NEW p \in Starts, RemoveOld(p) \/ ExitRemove(p) PROVE LockInv'
  <2>1. /\ LockTypeOK'
        /\ pidFile'.ino = 0
        /\ stolen' = (stolen \/ \E q \in Starts \ {p} :
                                   Alive(q) /\ proc[q].ino = pidFile.ino /\ pidFile.ino # 0)
    <3>1. /\ pidFile' = NoFileThere /\ inodes' = inodes
          /\ stolen' = (stolen \/ \E q \in Starts \ {p} :
                                     Alive(q) /\ proc[q].ino = pidFile.ino /\ pidFile.ino # 0)
      BY <1>3 DEF RemoveOld, ExitRemove, Remove
    <3>2. proc' \in [Starts -> [pc : LockPcs, target : Starts \cup {Nobody}, ino : Nat]]
      BY <1>3 DEF RemoveOld, ExitRemove, GoesTo, Dead, LockInv, LockTypeOK
    <3> QED
      BY <3>1, <3>2 DEF NoFileThere, LockInv, LockTypeOK
  <2>2. /\ proc'[p].ino = 0 /\ proc'[p].pc \in {"open", "dead"}
        /\ \A q \in Starts \ {p} : proc'[q] = proc[q]
    BY <1>3 DEF RemoveOld, ExitRemove, GoesTo, Dead, LockInv, LockTypeOK, HasFile
  <2>3. (\A q \in Starts : HasFile(q)') /\ Exclusive'
    BY <2>2 DEF LockInv, HasFile, Exclusive
  <2>4. AtPath'
    <3> SUFFICES ASSUME ~stolen', NEW q \in Starts, proc'[q].ino # 0 PROVE FALSE
      BY DEF AtPath
    <3>1. q # p /\ proc[q].ino # 0 /\ proc[q].ino = pidFile.ino
      BY <2>1, <2>2 DEF LockInv, AtPath
    <3>2. Alive(q)
      BY <3>1 DEF LockInv, HasFile, Alive
    <3> QED
      BY <2>1, <3>1, <3>2
  <2> QED
    BY <2>1, <2>3, <2>4 DEF LockInv
<1>4. ASSUME NEW p \in Starts, OpenLock(p) PROVE LockInv'
  <2>1. /\ pidFile'.ino # 0 /\ (pidFile.ino # 0 => pidFile' = pidFile) /\ UNCHANGED stolen
        /\ LockTypeOK'
    <3>1. /\ inodes' \in Nat /\ pidFile' \in [ino : Nat, pid : Starts \cup {Nobody}]
          /\ pidFile'.ino # 0 /\ UNCHANGED stolen /\ (pidFile.ino # 0 => pidFile' = pidFile)
      BY <1>4 DEF OpenLock, LockInv, LockTypeOK
    <3>2. proc' = [proc EXCEPT ![p].pc = "flock", ![p].ino = pidFile'.ino] /\ pidFile'.ino \in Nat
      BY <1>4, <3>1 DEF OpenLock
    <3>3. proc' \in [Starts -> [pc : LockPcs, target : Starts \cup {Nobody}, ino : Nat]]
      BY <3>2 DEF LockInv, LockTypeOK
    <3> QED
      BY <3>1, <3>3 DEF LockInv, LockTypeOK
  <2>2. /\ proc'[p].ino = pidFile'.ino /\ proc'[p].pc = "flock"
        /\ \A q \in Starts \ {p} : proc'[q] = proc[q]
    BY <1>4 DEF OpenLock, LockInv, LockTypeOK
  <2>3. (\A q \in Starts : HasFile(q)') /\ Exclusive'
    BY <2>1, <2>2 DEF LockInv, HasFile, Exclusive
  <2>4. AtPath'
    BY <2>1, <2>2 DEF LockInv, AtPath
  <2> QED
    BY <2>1, <2>3, <2>4 DEF LockInv
<1>5. ASSUME NEW p \in Starts, TakeFlock(p) PROVE LockInv'
  <2>1. LockTypeOK' /\ UNCHANGED <<pidFile, stolen>>
    BY <1>5 DEF TakeFlock, Dead, LockInv, LockTypeOK
  <2>2. \A q \in Starts \ {p} : proc'[q] = proc[q]
    BY <1>5 DEF TakeFlock, LockInv, LockTypeOK
  <2>3. \/ proc'[p] = Dead
        \/ /\ proc'[p].pc = "write" /\ proc'[p].ino = proc[p].ino /\ proc[p].pc = "flock"
           /\ \A q \in Starts \ {p} : proc[q].pc \in Holders => proc[q].ino # proc[p].ino
    BY <1>5 DEF TakeFlock, LockInv, LockTypeOK
  <2>4. (\A q \in Starts : HasFile(q)') /\ Exclusive' /\ AtPath'
    BY <2>1, <2>2, <2>3 DEF Dead, LockInv, HasFile, Exclusive, AtPath
  <2> QED
    BY <2>1, <2>4 DEF LockInv
<1>6. ASSUME NEW p \in Starts, WritePid(p) PROVE LockInv'
  <2>1. /\ LockTypeOK' /\ UNCHANGED stolen
        /\ pidFile.ino # 0 => pidFile'.ino = pidFile.ino
    BY <1>6 DEF WritePid, GoesTo, LockInv, LockTypeOK
  <2>2. /\ proc[p].pc = "write" /\ proc'[p].pc = "run" /\ proc'[p].ino = proc[p].ino
        /\ \A q \in Starts \ {p} : proc'[q] = proc[q]
    BY <1>6 DEF WritePid, GoesTo, LockInv, LockTypeOK
  <2>3. (\A q \in Starts : HasFile(q)') /\ Exclusive'
    BY <2>2 DEF LockInv, HasFile, Exclusive
  <2>4. ~stolen => pidFile.ino # 0
    BY <2>2 DEF LockInv, HasFile, AtPath
  <2>5. AtPath'
    BY <2>1, <2>2, <2>4 DEF LockInv, AtPath
  <2> QED
    BY <2>1, <2>3, <2>5 DEF LockInv
<1> QED
  BY <1>1, <1>2, <1>3, <1>4, <1>5, <1>6 DEF LockNext

\* Two instances of a service run at once (acquire_instance_lock, _release_pid_file)
\* only when one removed the file the other had open, for any number of starts.
THEOREM ServiceRunsOnce == LockSpec => []OneInstance
<1>1. LockInv => OneInstance
  <2> SUFFICES ASSUME LockInv, ~stolen
               PROVE  Cardinality({p \in Starts : proc[p].pc \in {"run", "exit"}}) <= 1
    BY DEF OneInstance
  <2> DEFINE S == {p \in Starts : proc[p].pc \in {"run", "exit"}}
  <2>1. \A p, q \in S : p = q
    BY DEF LockInv, HasFile, Exclusive, AtPath, Holders
  <2>2. CASE S = {}
    BY <2>2, FS_EmptySet
  <2>3. CASE S # {}
    <3>1. PICK p \in S : TRUE
      BY <2>3
    <3>2. S = {p}
      BY <2>1, <3>1
    <3>3. Cardinality({p}) = 1
      BY FS_Singleton
    <3> HIDE DEF S
    <3>4. Cardinality(S) <= 1
      BY <3>2, <3>3
    <3> QED
      BY <3>4 DEF S
  <2> QED
    BY <2>2, <2>3
<1> QED
  BY <1>1, LockInitial, LockInductive, PTL DEF LockSpec

-----------------------------------------------------------------------------
(* Induction over numbers, without a predicate as a parameter *)

\* A set of natural numbers has a least element, for the order of a relation.
LEMMA LeastElement ==
  ASSUME NEW R, NEW S, S \subseteq Nat, S # {}, IsWellFoundedOn(R, Nat)
  PROVE  \E n \in S : \A m \in S : ~(<<m, n>> \in R)
  BY WFMin, Zenon

\* A set of natural numbers has a least element.
LEMMA LeastNatural ==
  ASSUME NEW S, S \subseteq Nat, S # {}
  PROVE  \E n \in S : \A m \in S : n <= m
<1>1. PICK R : IsWellFoundedOn(R, Nat) /\ \A x, y \in Nat : <<x, y>> \in R <=> x < y
  <2> DEFINE R == OpToRel(<, Nat)
  <2>1. \A x, y \in Nat : <<x, y>> \in R <=> x < y
    BY DEF OpToRel
  <2>2. IsWellFoundedOn(R, Nat)
    BY NatLessThanWellFounded
  <2> HIDE DEF R
  <2> QED
    BY <2>1, <2>2
<1>2. PICK n \in S : \A m \in S : ~(<<m, n>> \in R)
  BY <1>1, LeastElement
<1>3. \A m \in S : ~(m < n)
  <2>1. S \subseteq Nat
    OBVIOUS
  <2> QED
    BY <1>1, <1>2, <2>1, Zenon
<1> QED
  BY <1>3

-----------------------------------------------------------------------------
(* LlmAccess *)

\* Offers, and whatever a CHOOSE of one may be: that it is an offer does not matter here.
Choices == Llm \cup {Offers[CHOOSE i \in C : \A j \in C : i <= j] : C \in SUBSET DOMAIN Offers}

LlmShape ==
  /\ call \in [Callers -> [pc : CallPc, attempt : Nat, llm : Choices, fallback : BOOLEAN, answer : Nat]]
  /\ chat \in [DOMAIN chat -> [llm : Choices, pc : ChatPc, retried : BOOLEAN, answers : Nat, paid : Nat]]

\* What a thread was answered and has counted, by the place it is at.
Accounted(k) ==
  /\ chat[k].pc \in {"start", "sent"} => chat[k].answers = 0 /\ chat[k].paid = 0
  /\ chat[k].pc = "answered" => chat[k].answers = 1 /\ chat[k].paid = 0
  /\ chat[k].pc \in {"ok", "err"} => chat[k].paid = chat[k].answers /\ chat[k].paid \in {0, 1}

\* A caller past its beginning has a thread of the model it reports.
Served(c) ==
  /\ call[c].pc # "idle" => Own(c) \in DOMAIN chat /\ chat[Own(c)].llm = call[c].llm
  /\ call[c].pc = "stream" => call[c].attempt = 1
  /\ call[c].answer # 0 => /\ call[c].pc = "done" /\ call[c].answer = call[c].attempt
                           /\ chat[Own(c)].pc = "ok"

LlmInv == LlmShape /\ (\A k \in DOMAIN chat : Accounted(k)) /\ (\A c \in Callers : Served(c))

LEMMA LlmInitial == LlmInit => LlmInv
<1> SUFFICES ASSUME LlmInit PROVE LlmInv
  OBVIOUS
<1>1. Offers[1] \in Choices
  BY AccessAssumption DEF Choices, Llm
<1>2. LlmShape
  BY <1>1 DEF LlmInit, LlmShape, CallPc
<1> QED
  BY <1>2 DEF LlmInit, LlmInv, Accounted, Served

\* How a caller asks for its n-th attempt, with model l.
Asks(c, n, l) ==
  \/ \E fallback \in BOOLEAN :
       call' = [call EXCEPT ![c] = [@ EXCEPT !.pc = "wait", !.attempt = n, !.llm = l,
                                             !.fallback = fallback]]
  \/ n = 1 /\ call' = [call EXCEPT ![c] = [@ EXCEPT !.pc = "stream", !.attempt = n, !.llm = l]]
  \/ call[c].pc = "wait" /\ call' = [call EXCEPT ![c].attempt = n, ![c].llm = l]

\* It starts a thread for it; the other callers keep theirs.
LEMMA LlmStart ==
  ASSUME LlmInv, NEW c \in Callers, NEW l \in Choices, NEW n \in Nat,
         chat' = Started(<<c, n>>, l), call[c].answer = 0, Asks(c, n, l)
  PROVE  LlmInv'
<1>1. /\ DOMAIN chat' = DOMAIN chat \cup {<<c, n>>} /\ chat'[<<c, n>>] = Thread(l)
      /\ \A k \in DOMAIN chat \ {<<c, n>>} : chat'[k] = chat[k]
      /\ chat' = [k \in DOMAIN chat' |-> chat'[k]]
  BY DEF Started
<1>2. /\ \A d \in Callers \ {c} : call'[d] = call[d]
      /\ call' \in [Callers -> [pc : CallPc, attempt : Nat, llm : Choices, fallback : BOOLEAN, answer : Nat]]
      /\ call'[c].attempt = n /\ call'[c].llm = l /\ call'[c].answer = 0
      /\ call'[c].pc \in {"wait", "stream"} /\ (call'[c].pc = "stream" => n = 1)
  <2>1. CASE \E fallback \in BOOLEAN :
               call' = [call EXCEPT ![c] = [@ EXCEPT !.pc = "wait", !.attempt = n, !.llm = l,
                                                     !.fallback = fallback]]
    <3>1. PICK fallback \in BOOLEAN :
            call' = [call EXCEPT ![c] = [call[c] EXCEPT !.pc = "wait", !.attempt = n, !.llm = l,
                                                        !.fallback = fallback]]
      BY <2>1
    <3> QED
      BY <3>1 DEF LlmInv, LlmShape, CallPc
  <2>2. CASE n = 1 /\ call' = [call EXCEPT ![c] = [@ EXCEPT !.pc = "stream", !.attempt = n, !.llm = l]]
    BY <2>2 DEF LlmInv, LlmShape, CallPc
  <2>3. CASE call[c].pc = "wait" /\ call' = [call EXCEPT ![c].attempt = n, ![c].llm = l]
    BY <2>3 DEF LlmInv, LlmShape
  <2> QED
    BY <2>1, <2>2, <2>3 DEF Asks
<1>3. Thread(l) \in [llm : Choices, pc : ChatPc, retried : BOOLEAN, answers : Nat, paid : Nat]
  BY DEF Thread, ChatPc
<1>4. LlmShape'
  <2>1. ASSUME NEW k \in DOMAIN chat'
        PROVE  chat'[k] \in [llm : Choices, pc : ChatPc, retried : BOOLEAN, answers : Nat, paid : Nat]
    BY <1>1, <1>3 DEF LlmInv, LlmShape
  <2> QED
    BY <1>1, <1>2, <2>1 DEF LlmShape
<1>5. ASSUME NEW k \in DOMAIN chat' PROVE Accounted(k)'
  <2>1. CASE k = <<c, n>>
    BY <1>1, <2>1 DEF Accounted, Thread
  <2>2. CASE k # <<c, n>>
    BY <1>1, <2>2 DEF LlmInv, Accounted
  <2> QED
    BY <2>1, <2>2
<1>6. Served(c)'
  <2>1. Own(c)' = <<c, n>>
    BY <1>2 DEF Own
  <2> QED
    BY <1>1, <1>2, <2>1 DEF Served, Thread
<1>7. ASSUME NEW d \in Callers \ {c} PROVE Served(d)'
  <2>1. call'[d] = call[d]
    BY <1>2
  <2>2. Own(d)' = Own(d) /\ Own(d) # <<c, n>>
    BY <2>1 DEF Own
  <2> QED
    BY <1>1, <2>1, <2>2 DEF LlmInv, Served
<1> QED
  BY <1>4, <1>5, <1>6, <1>7 DEF LlmInv

LEMMA LlmCaller ==
  ASSUME LlmInv, NEW c \in Callers, Returns(c) \/ GivesUp(c) \/ StreamOver(c)
  PROVE  LlmInv'
<1>1. UNCHANGED chat /\ \A d \in Callers \ {c} : call'[d] = call[d]
  BY DEF Returns, GivesUp, StreamOver, LlmInv, LlmShape
<1>2. LlmShape'
  BY <1>1 DEF Returns, GivesUp, StreamOver, LlmInv, LlmShape, CallPc
<1>3. Served(c)'
  <2>1. CASE Returns(c)
    BY <1>1, <2>1 DEF Returns, LlmInv, LlmShape, Served, Own
  <2>2. CASE GivesUp(c)
    BY <1>1, <2>2 DEF GivesUp, Failed, LlmInv, LlmShape, Served, Own
  <2>3. CASE StreamOver(c)
    <3>1. call[c].attempt = 1 /\ Own(c) = <<c, 1>> /\ call[c].answer = 0
      BY <2>3 DEF StreamOver, LlmInv, Served, Own
    <3>2. /\ call'[c].attempt = 1 /\ call'[c].llm = call[c].llm /\ call'[c].pc \in {"done", "failed"}
          /\ call'[c].answer # 0 => /\ call'[c].answer = 1 /\ call'[c].pc = "done"
                                    /\ chat[Own(c)].pc = "ok"
      BY <2>3, <3>1 DEF StreamOver, LlmInv, LlmShape
    <3>3. Own(c) \in DOMAIN chat /\ chat[Own(c)].llm = call[c].llm /\ Own(c)' = Own(c)
      BY <2>3, <3>1, <3>2 DEF StreamOver, LlmInv, Served, Own
    <3> QED
      BY <1>1, <3>2, <3>3 DEF Served
  <2> QED
    BY <2>1, <2>2, <2>3
<1>4. ASSUME NEW d \in Callers \ {c} PROVE Served(d)'
  BY <1>1 DEF LlmInv, Served, Own
<1> QED
  BY <1>1, <1>2, <1>3, <1>4 DEF LlmInv, Accounted

\* A thread keeps its model, and what it returned.
LEMMA LlmThread ==
  ASSUME LlmInv, NEW k \in DOMAIN chat, ChatStep(k)
  PROVE  LlmInv'
<1>1. /\ UNCHANGED call /\ DOMAIN chat' = DOMAIN chat
      /\ \A j \in DOMAIN chat \ {k} : chat'[j] = chat[j]
  BY DEF ChatStep, Refused, Send, ProviderAnswers, ProviderFails, ContextExceeded, Record, Paid,
         EmptyStream, At
<1>2. LlmShape' /\ chat'[k].llm = chat[k].llm /\ (chat[k].pc # "ok") /\ Accounted(k)'
  <2>1. CASE Refused(k) \/ Send(k) \/ ProviderFails(k) \/ EmptyStream(k)
    BY <2>1 DEF Refused, Send, ProviderFails, EmptyStream, At, LlmInv, LlmShape, Accounted, ChatPc
  <2>2. CASE ProviderAnswers(k) \/ ContextExceeded(k)
    <3>1. chat[k].pc = "sent" /\ Accounted(k)
      BY <2>2 DEF ProviderAnswers, ContextExceeded, LlmInv
    <3>2. LlmShape' /\ chat'[k].llm = chat[k].llm
      <4>1. CASE ProviderAnswers(k)
        <5>1. chat' = [chat EXCEPT ![k].pc = "answered", ![k].answers = 1]
          <6>1. chat[k].answers + 1 = 1
            BY <3>1 DEF Accounted
          <6> QED
            BY <4>1, <6>1, Zenon DEF ProviderAnswers
        <5> QED
          BY <1>1, <5>1 DEF LlmInv, LlmShape, ChatPc
      <4>2. CASE ContextExceeded(k)
        <5>1. chat' = [chat EXCEPT ![k].retried = TRUE]
          BY <4>2 DEF ContextExceeded
        <5> QED
          BY <1>1, <5>1 DEF LlmInv, LlmShape
      <4> QED
        BY <2>2, <4>1, <4>2
    <3>3. \/ chat'[k].pc = "answered" /\ chat'[k].answers = chat[k].answers + 1 /\ chat'[k].paid = chat[k].paid
          \/ chat'[k].pc = "sent" /\ chat'[k].answers = chat[k].answers /\ chat'[k].paid = chat[k].paid
      BY <2>2 DEF ProviderAnswers, ContextExceeded, LlmInv, LlmShape, ChatPc
    <3> QED
      BY <3>1, <3>2, <3>3 DEF Accounted
  <2>3. CASE Record(k)
    <3>1. chat[k].pc = "answered" /\ Accounted(k)
      BY <2>3 DEF Record, LlmInv
    <3>2. PICK pc \in {"ok", "err"} : chat' = [chat EXCEPT ![k].pc = pc, ![k].paid = @ + 1]
      BY <2>3 DEF Record, Paid
    <3>3. LlmShape' /\ chat'[k].llm = chat[k].llm
      <4>1. chat' = [chat EXCEPT ![k].pc = pc, ![k].paid = 1]
        <5>1. chat[k].paid + 1 = 1
          BY <3>1 DEF Accounted
        <5> QED
          BY <3>2, <5>1, Zenon
      <4> QED
        BY <1>1, <4>1 DEF LlmInv, LlmShape, ChatPc
    <3>4. chat'[k].pc = pc /\ chat'[k].answers = chat[k].answers /\ chat'[k].paid = chat[k].paid + 1
      BY <3>2 DEF LlmInv, LlmShape, ChatPc
    <3> QED
      BY <3>1, <3>3, <3>4 DEF Accounted
  <2> QED
    BY <2>1, <2>2, <2>3 DEF ChatStep
<1>3. ASSUME NEW j \in DOMAIN chat' PROVE Accounted(j)'
  BY <1>1, <1>2 DEF LlmInv, Accounted
<1>4. ASSUME NEW c \in Callers PROVE Served(c)'
  BY <1>1, <1>2 DEF LlmInv, Served, Own
<1> QED
  BY <1>2, <1>3, <1>4 DEF LlmInv

LEMMA LlmInductive == LlmInv /\ [LlmNext]_llmVars => LlmInv'
<1> SUFFICES ASSUME LlmInv, [LlmNext]_llmVars PROVE LlmInv'
  OBVIOUS
<1>1. CASE UNCHANGED llmVars \/ WindowPasses \/ SetLock
  BY <1>1 DEF llmVars, WindowPasses, SetLock, LlmInv, LlmShape, Accounted, Served, Own
<1>2. ASSUME NEW c \in Callers, NEW l \in Llm, BeginStream(c, l) PROVE LlmInv'
  <2>1. call[c].answer = 0
    BY <1>2 DEF BeginStream, LlmInv, Served
  <2> QED
    <3>1. l \in Choices
      BY DEF Choices
    <3>2. chat' = Started(<<c, 1>>, l) /\ Asks(c, 1, l)
      BY <1>2 DEF BeginStream, Asks
    <3> QED
      BY <2>1, <3>1, <3>2, LlmStart
<1>3. ASSUME NEW c \in Callers, NEW l \in Llm, NEW fallback \in BOOLEAN, Begin(c, l, fallback)
      PROVE  LlmInv'
  <2>1. call[c].answer = 0
    BY <1>3 DEF Begin, LlmInv, Served
  <2> QED
    <3>1. l \in Choices
      BY DEF Choices
    <3>2. chat' = Started(<<c, 1>>, l) /\ Asks(c, 1, l)
      BY <1>3 DEF Begin, Asks
    <3> QED
      BY <2>1, <3>1, <3>2, LlmStart
<1>4. ASSUME NEW c \in Callers, FallsBack(c) PROVE LlmInv'
  <2>1. call[c].answer = 0 /\ call[c].pc = "wait"
    BY <1>4 DEF FallsBack, Failed, LlmInv, Served
  <2> QED
    <3> DEFINE l == Alternative(call[c].llm)
    <3>1. l \in Choices
      BY DEF Alternative, Candidates, Choices
    <3>2. /\ call[c].attempt + 1 \in Nat /\ chat' = Started(<<c, call[c].attempt + 1>>, l)
          /\ Asks(c, call[c].attempt + 1, l)
      BY <1>4, <2>1 DEF FallsBack, Asks, LlmInv, LlmShape
    <3> HIDE DEF l
    <3> QED
      BY <2>1, <3>1, <3>2, LlmStart
<1> QED
  BY <1>1, <1>2, <1>3, <1>4, LlmCaller, LlmThread DEF LlmNext

\* Every answer of a provider is counted once, whoever still waits for it, and a caller
\* returns the answer of the model it reports (resilient_chat, LiteLLMBridge.chat), for
\* any callers, offers, limits and number of attempts.
THEOREM AnswersArePaid == LlmSpec => []AnswersPaidOnce
<1>1. LlmInv => AnswersPaidOnce
  <2> SUFFICES ASSUME LlmInv PROVE AnswersPaidOnce
    OBVIOUS
  <2>1. ASSUME NEW k \in DOMAIN chat, chat[k].pc \in {"ok", "err"}
        PROVE  chat[k].paid = chat[k].answers /\ chat[k].paid <= 1
    BY <2>1 DEF LlmInv, Accounted
  <2>2. ASSUME NEW c \in Callers, call[c].answer # 0
        PROVE  /\ chat[<<c, call[c].answer>>].llm = call[c].llm
               /\ chat[<<c, call[c].answer>>].pc = "ok"
    BY <2>2 DEF LlmInv, Served, Own
  <2> QED
    BY <2>1, <2>2 DEF AnswersPaidOnce
<1> QED
  BY <1>1, LlmInitial, LlmInductive, PTL DEF LlmSpec

\* What LlmShape leaves out: models are offers, attempts are counted, and what is used and
\* locked is theirs.
LlmRest ==
  /\ \A c \in Callers : call[c].llm \in Llm /\ call[c].attempt \in 0 .. MaxRetries /\ call[c].answer \in 0 .. MaxRetries
  /\ DOMAIN chat \subseteq Callers \X Attempt /\ \A k \in DOMAIN chat : chat[k].llm \in Llm
  /\ used \in [Llm -> Nat] /\ locked \subseteq {l.p : l \in Llm}

LEMMA AlternativeIsOffer == ASSUME NEW l, Candidates(l) # {} PROVE Alternative(l) \in Llm
<1>1. Candidates(l) \subseteq Nat /\ Candidates(l) \subseteq DOMAIN Offers
  BY AccessAssumption DEF Candidates
<1> DEFINE first == CHOOSE i \in Candidates(l) : \A j \in Candidates(l) : i <= j
<1>2. first \in Candidates(l)
  <2>1. \E i \in Candidates(l) : \A j \in Candidates(l) : i <= j
    <3> DEFINE S == Candidates(l)
    <3>1. S \subseteq Nat /\ S # {}
      BY <1>1
    <3> HIDE DEF S
    <3>2. \E i \in S : \A j \in S : i <= j
      BY <3>1, LeastNatural
    <3> QED
      BY <3>2 DEF S
  <2> QED
    BY <2>1
<1>3. Alternative(l) = Offers[first]
  BY DEF Alternative
<1> HIDE DEF first
<1> QED
  BY <1>1, <1>2, <1>3 DEF Llm

\* How a caller asks for an attempt: the thread it starts is typed.
LEMMA StartTyped ==
  ASSUME LlmInv, LlmRest, NEW c \in Callers, NEW l \in Llm, NEW n \in Attempt,
         chat' = Started(<<c, n>>, l), Asks(c, n, l), UNCHANGED <<used, locked>>
  PROVE  LlmRest'
<1>1. /\ DOMAIN chat' = DOMAIN chat \cup {<<c, n>>} /\ chat'[<<c, n>>].llm = l
      /\ \A k \in DOMAIN chat \ {<<c, n>>} : chat'[k] = chat[k]
  BY DEF Started, Thread
<1>2. /\ \A d \in Callers \ {c} : call'[d] = call[d]
      /\ call'[c].attempt = n /\ call'[c].llm = l /\ call'[c].answer = call[c].answer
  <2>1. CASE \E fallback \in BOOLEAN :
               call' = [call EXCEPT ![c] = [@ EXCEPT !.pc = "wait", !.attempt = n, !.llm = l,
                                                     !.fallback = fallback]]
    <3>1. PICK fallback \in BOOLEAN :
            call' = [call EXCEPT ![c] = [call[c] EXCEPT !.pc = "wait", !.attempt = n, !.llm = l,
                                                        !.fallback = fallback]]
      BY <2>1
    <3> QED
      BY <3>1 DEF LlmInv, LlmShape
  <2>2. CASE n = 1 /\ call' = [call EXCEPT ![c] = [@ EXCEPT !.pc = "stream", !.attempt = n, !.llm = l]]
    BY <2>2 DEF LlmInv, LlmShape
  <2>3. CASE call[c].pc = "wait" /\ call' = [call EXCEPT ![c].attempt = n, ![c].llm = l]
    BY <2>3 DEF LlmInv, LlmShape
  <2> QED
    BY <2>1, <2>2, <2>3 DEF Asks
<1>3. n \in 0 .. MaxRetries
  BY AccessAssumption DEF Attempt
<1> QED
  BY <1>1, <1>2, <1>3 DEF LlmRest

LEMMA CallerTyped ==
  ASSUME LlmInv, LlmRest, NEW c \in Callers, Returns(c) \/ GivesUp(c) \/ StreamOver(c)
  PROVE  LlmRest'
<1>1. UNCHANGED <<chat, used, locked>>
  BY DEF Returns, GivesUp, StreamOver
<1>2. /\ \A d \in Callers \ {c} : call'[d] = call[d]
      /\ call'[c].attempt = call[c].attempt /\ call'[c].llm = call[c].llm
      /\ call'[c].answer \in {0, 1, call[c].attempt, call[c].answer}
  BY DEF Returns, GivesUp, StreamOver, LlmInv, LlmShape
<1>3. 0 \in 0 .. MaxRetries /\ 1 \in 0 .. MaxRetries
  BY AccessAssumption
<1> QED
  BY <1>1, <1>2, <1>3 DEF LlmRest

LEMMA ThreadTyped ==
  ASSUME LlmInv, LlmRest, NEW k \in DOMAIN chat, ChatStep(k)
  PROVE  LlmRest'
<1>1. UNCHANGED <<call, locked>>
  BY DEF ChatStep, Refused, Send, ProviderAnswers, ProviderFails, ContextExceeded, Record, EmptyStream, At
<1>2. DOMAIN chat' = DOMAIN chat /\ \A j \in DOMAIN chat : chat'[j].llm = chat[j].llm
  <2>1. CASE Refused(k) \/ Send(k) \/ ProviderFails(k) \/ EmptyStream(k)
    BY <2>1 DEF Refused, Send, ProviderFails, EmptyStream, At, LlmInv, LlmShape
  <2>2. CASE ProviderAnswers(k) \/ ContextExceeded(k)
    BY <2>2 DEF ProviderAnswers, ContextExceeded, LlmInv, LlmShape
  <2>3. CASE Record(k)
    BY <2>3 DEF Record, Paid, LlmInv, LlmShape
  <2> QED
    BY <2>1, <2>2, <2>3 DEF ChatStep
<1>3. used' \in [Llm -> Nat]
  <2>1. CASE Record(k)
    BY <2>1 DEF Record, Paid, LlmRest
  <2>2. CASE UNCHANGED used
    BY <2>2 DEF LlmRest
  <2> QED
    BY <2>1, <2>2 DEF ChatStep, Refused, Send, ProviderAnswers, ProviderFails, ContextExceeded, EmptyStream
<1> QED
  BY <1>1, <1>2, <1>3 DEF LlmRest

LEMMA LlmRestInductive == LlmInv /\ LlmRest /\ [LlmNext]_llmVars => LlmRest'
<1> SUFFICES ASSUME LlmInv, LlmRest, [LlmNext]_llmVars PROVE LlmRest'
  OBVIOUS
<1>1. 1 \in Attempt
  BY AccessAssumption DEF Attempt
<1>2. CASE UNCHANGED llmVars
  BY <1>2 DEF llmVars, LlmRest
<1>3. CASE WindowPasses
  <2>1. used' \in [Llm -> Nat] /\ UNCHANGED <<call, chat, locked>>
    BY <1>3 DEF WindowPasses, LlmRest
  <2> QED
    BY <2>1 DEF LlmRest
<1>4. CASE SetLock
  <2>1. locked' \subseteq {l.p : l \in Llm} /\ UNCHANGED <<call, chat, used>>
    BY <1>4 DEF SetLock, LlmRest
  <2> QED
    BY <2>1 DEF LlmRest
<1>5. ASSUME NEW c \in Callers, NEW l \in Llm, BeginStream(c, l) PROVE LlmRest'
  <2>1. chat' = Started(<<c, 1>>, l) /\ Asks(c, 1, l) /\ UNCHANGED <<used, locked>>
    BY <1>5 DEF BeginStream, Asks
  <2> QED
    BY <1>1, <2>1, StartTyped
<1>6. ASSUME NEW c \in Callers, NEW l \in Llm, NEW fallback \in BOOLEAN, Begin(c, l, fallback)
      PROVE  LlmRest'
  <2>1. chat' = Started(<<c, 1>>, l) /\ Asks(c, 1, l) /\ UNCHANGED <<used, locked>>
    BY <1>6 DEF Begin, Asks
  <2> QED
    BY <1>1, <2>1, StartTyped
<1>7. ASSUME NEW c \in Callers, FallsBack(c) PROVE LlmRest'
  <2> DEFINE l == Alternative(call[c].llm)
             n == call[c].attempt + 1
  <2>1. l \in Llm
    BY <1>7, AlternativeIsOffer DEF FallsBack
  <2>2. call[c].attempt < MaxRetries
    BY <1>7 DEF FallsBack
  <2>3. call[c].attempt \in 0 .. MaxRetries
    BY DEF LlmRest
  <2>4. n \in Attempt
    BY <2>2, <2>3, AccessAssumption DEF Attempt
  <2>5. chat' = Started(<<c, n>>, l) /\ Asks(c, n, l) /\ UNCHANGED <<used, locked>>
    BY <1>7 DEF FallsBack, Failed, Asks
  <2> HIDE DEF l, n
  <2> QED
    BY <2>1, <2>4, <2>5, StartTyped
<1> QED
  BY <1>2, <1>3, <1>4, <1>5, <1>6, <1>7, CallerTyped, ThreadTyped DEF LlmNext

\* resilient_chat, LLMManager.assign_llm: models come from the offers, no call passes
\* max_retries attempts, and every thread is an attempt of a caller.
THEOREM AccessIsTyped == LlmSpec => []LlmTypeOK
<1>1. LlmInit => LlmRest
  <2>1. LlmInit => \A c \in Callers : call[c].llm \in Llm /\ call[c].attempt = 0 /\ call[c].answer = 0
    BY AccessAssumption DEF LlmInit, Llm
  <2>2. 0 \in 0 .. MaxRetries
    BY AccessAssumption
  <2>3. LlmInit => DOMAIN chat = {} /\ used \in [Llm -> Nat] /\ locked = {}
    BY DEF LlmInit
  <2> QED
    BY <2>1, <2>2, <2>3 DEF LlmRest
<1>2. LlmInv /\ LlmRest => LlmTypeOK
  <2> SUFFICES ASSUME LlmInv, LlmRest PROVE LlmTypeOK
    OBVIOUS
  <2>1. ASSUME NEW c \in Callers
        PROVE  call[c] \in [pc : CallPc, attempt : 0 .. MaxRetries, llm : Llm,
                            fallback : BOOLEAN, answer : 0 .. MaxRetries]
    <3>1. call[c] \in [pc : CallPc, attempt : Nat, llm : Choices, fallback : BOOLEAN, answer : Nat]
      BY DEF LlmInv, LlmShape
    <3>2. call[c].llm \in Llm /\ call[c].attempt \in 0 .. MaxRetries /\ call[c].answer \in 0 .. MaxRetries
      BY DEF LlmRest
    <3> QED
      BY <3>1, <3>2
  <2>2. ASSUME NEW k \in DOMAIN chat
        PROVE  chat[k] \in [llm : Llm, pc : ChatPc, retried : BOOLEAN, answers : Nat, paid : Nat]
    <3>1. chat[k] \in [llm : Choices, pc : ChatPc, retried : BOOLEAN, answers : Nat, paid : Nat]
      BY DEF LlmInv, LlmShape
    <3>2. chat[k].llm \in Llm
      BY DEF LlmRest
    <3> QED
      BY <3>1, <3>2
  <2>3. call = [c \in Callers |-> call[c]]
    BY DEF LlmInv, LlmShape
  <2> QED
    BY <2>1, <2>2, <2>3 DEF LlmRest, LlmTypeOK
<1> QED
  BY <1>1, <1>2, LlmInitial, LlmInductive, LlmRestInductive, PTL DEF LlmSpec

-----------------------------------------------------------------------------
(* ModelAccess *)

Shelved == {s[2] : s \in Shelf}
Triples == Range(Suppliers) \X KeyRefs \X Shelved
AccessRow == [declared : BOOLEAN, available : BOOLEAN]

\* A function from some of the triples to rows.
IsRows(f) == /\ f = [r \in DOMAIN f |-> f[r]]
             /\ DOMAIN f \subseteq Triples /\ \A r \in DOMAIN f : f[r] \in AccessRow

RowSets == UNION {[D -> AccessRow] : D \in SUBSET Triples}

RefreshState ==
  [pc : {"idle", "fetch", "write"}, todo : Seq(Range(Suppliers)), got : SUBSET Shelved,
   rows : RowSets, lists : [Lists -> SUBSET Shelved]]

AccessTypeOK ==
  /\ access \in RowSets
  /\ keyRef \in [Range(Suppliers) -> KeyRefs]
  /\ listed \in [Lists -> SUBSET Shelved]
  /\ writing \in Refreshers \cup {NoOne}
  /\ refresh \in [Refreshers -> RefreshState]
  /\ \A s \in Refreshers : refresh[s].pc = "write" => refresh[s].todo # <<>>

LEMMA RowSetsAre == \A f : f \in RowSets <=> IsRows(f)
<1>1. ASSUME NEW f, f \in RowSets PROVE IsRows(f)
  BY <1>1 DEF RowSets, IsRows
<1>2. ASSUME NEW f, IsRows(f) PROVE f \in RowSets
  BY <1>2 DEF RowSets, IsRows
<1> QED
  BY <1>1, <1>2

\* The rows declare what the lists hold, in the table and in an open transaction.
Matches(rs, ls) == \A r \in DOMAIN rs : rs[r].declared <=> r[3] \in ls[<<r[1], r[2]>>]
Prepared(s) == refresh[s].pc # "idle" /\ Matches(refresh[s].rows, refresh[s].lists)

AccessInv == AccessTypeOK /\ AccessTrue /\ \A s \in Refreshers : writing = s => Prepared(s)

LEMMA Emptiness == /\ NoRows \in RowSets /\ DOMAIN NoRows = {}
                   /\ NoLists \in [Lists -> SUBSET Shelved] /\ <<>> \in Seq(Range(Suppliers))
<1>1. IsRows(NoRows) /\ DOMAIN NoRows = {}
  BY DEF IsRows, NoRows
<1> QED
  BY <1>1, RowSetsAre DEF NoLists

LEMMA NoRefreshTyped == NoRefresh \in RefreshState
  BY Emptiness DEF NoRefresh, RefreshState

LEMMA AccessInitial == AccessInit => AccessInv
<1> SUFFICES ASSUME AccessInit PROVE AccessInv
  OBVIOUS
<1>1. AccessTypeOK
  BY Emptiness, NoRefreshTyped, AccessRowsAssumption DEF AccessInit, AccessTypeOK, NoRefresh
<1>2. AccessTrue
  BY Emptiness DEF AccessInit, AccessTrue, Reachable
<1>3. writing \notin Refreshers
  BY AccessRowsAssumption DEF AccessInit
<1> QED
  BY <1>1, <1>2, <1>3 DEF AccessInv

\* The refresh of one key leaves rows that match, given that the other keys' do.
LEMMA RefreshedMatches ==
  ASSUME NEW rs, IsRows(rs), NEW ls \in [Lists -> SUBSET Shelved], Matches(rs, ls),
         NEW p \in Range(Suppliers), NEW k \in KeyRefs, NEW list \in SUBSET Shelved,
         NEW good \in SUBSET list
  PROVE  /\ IsRows(Refreshed(rs, p, k, list, good))
         /\ [ls EXCEPT ![<<p, k>>] = list] \in [Lists -> SUBSET Shelved]
         /\ Matches(Refreshed(rs, p, k, list, good), [ls EXCEPT ![<<p, k>>] = list])
<1> DEFINE new == Refreshed(rs, p, k, list, good)
           lists == [ls EXCEPT ![<<p, k>>] = list]
<1>1. DOMAIN new = DOMAIN rs \cup {<<p, k, m>> : m \in list} /\ new = [r \in DOMAIN new |-> new[r]]
  BY DEF Refreshed
<1>2. DOMAIN new \subseteq Triples
  BY <1>1 DEF IsRows, Triples
<1>3. ASSUME NEW r \in DOMAIN new, r[1] = p, r[2] = k, r[3] \in list
      PROVE  new[r] = [declared |-> TRUE, available |-> r[3] \in good]
  BY <1>3 DEF Refreshed
<1>4. ASSUME NEW r \in DOMAIN new, r[1] = p, r[2] = k, r[3] \notin list
      PROVE  r \in DOMAIN rs /\ new[r] = [rs[r] EXCEPT !.declared = FALSE]
  BY <1>4 DEF Refreshed
<1>5. ASSUME NEW r \in DOMAIN new, ~(r[1] = p /\ r[2] = k)
      PROVE  r \in DOMAIN rs /\ new[r] = rs[r]
  BY <1>5 DEF Refreshed
<1>6. ASSUME NEW r \in DOMAIN new PROVE new[r] \in AccessRow
  <2>1. \A o \in DOMAIN rs : rs[o].declared \in BOOLEAN /\ rs[o].available \in BOOLEAN /\ rs[o] \in AccessRow
    BY DEF IsRows, AccessRow
  <2>2. CASE r[1] = p /\ r[2] = k /\ r[3] \in list
    <3>1. CASE r[3] \in good
      <4>1. new[r] = [declared |-> TRUE, available |-> TRUE]
        BY <1>3, <2>2, <3>1
      <4> QED
        BY <4>1 DEF AccessRow
    <3>2. CASE r[3] \notin good
      <4>1. new[r] = [declared |-> TRUE, available |-> FALSE]
        <5>1. (r[3] \in good) = FALSE
          BY <3>2
        <5> QED
          BY <1>3, <2>2, <5>1, Zenon
      <4> QED
        BY <4>1 DEF AccessRow
    <3> QED
      BY <3>1, <3>2
  <2>3. CASE r[1] = p /\ r[2] = k /\ r[3] \notin list
    BY <1>4, <2>1, <2>3 DEF AccessRow
  <2>4. CASE ~(r[1] = p /\ r[2] = k)
    BY <1>5, <2>1, <2>4
  <2> QED
    BY <2>2, <2>3, <2>4
<1>7. <<p, k>> \in Lists /\ lists \in [Lists -> SUBSET Shelved]
  BY DEF Lists
<1>8. ASSUME NEW r \in DOMAIN new PROVE new[r].declared <=> r[3] \in lists[<<r[1], r[2]>>]
  <2>1. <<r[1], r[2]>> \in Lists
    BY <1>2 DEF Triples, Lists
  <2>2. CASE r[1] = p /\ r[2] = k
    <3>1. lists[<<r[1], r[2]>>] = list
      BY <1>7, <2>2
    <3> QED
      BY <1>3, <1>4, <2>2, <3>1 DEF IsRows, AccessRow
  <2>3. CASE ~(r[1] = p /\ r[2] = k)
    <3>1. lists[<<r[1], r[2]>>] = ls[<<r[1], r[2]>>]
      BY <2>1, <2>3
    <3> QED
      BY <1>5, <2>3, <3>1 DEF Matches
  <2> QED
    BY <2>2, <2>3
<1> QED
  BY <1>1, <1>2, <1>6, <1>7, <1>8 DEF IsRows, Matches

\* Steps that leave the table alone, and the transaction of the one that has the lock.
LEMMA AccessQuiet ==
  ASSUME AccessInv, UNCHANGED <<access, listed, failed>>, AccessTypeOK',
         \A s \in Refreshers : writing' = s => Prepared(s)'
  PROVE  AccessInv'
  BY DEF AccessInv, AccessTrue, Reachable

LEMMA AccessRefresher ==
  ASSUME AccessInv, NEW s \in Refreshers,
         \/ \E p \in Range(Suppliers) : RefreshOne(s, p)
         \/ RefreshAll(s) \/ SkipProvider(s) \/ RefreshDies(s)
         \/ refresh[s].todo # <<>> /\ \E list \in SUBSET ShelfOf(Head(refresh[s].todo)) : Fetch(s, list)
  PROVE  AccessInv'
<1>1. CASE \E p \in Range(Suppliers) : RefreshOne(s, p)
  <2>1. PICK p \in Range(Suppliers) : RefreshOne(s, p)
    BY <1>1
  <2>2. <<p>> \in Seq(Range(Suppliers))
    OBVIOUS
  <2>3. /\ refresh' = [refresh EXCEPT ![s] = [NoRefresh EXCEPT !.pc = "fetch", !.todo = <<p>>]]
        /\ refresh[s].pc = "idle" /\ UNCHANGED <<access, keyRef, writing, listed, failed>>
    BY <2>1 DEF RefreshOne
  <2>4. [NoRefresh EXCEPT !.pc = "fetch", !.todo = <<p>>] \in RefreshState
    BY <2>2, NoRefreshTyped DEF RefreshState
  <2>5. AccessTypeOK'
    BY <2>3, <2>4, NoRefreshTyped DEF AccessInv, AccessTypeOK, RefreshState
  <2>6. writing # s
    BY <2>3 DEF AccessInv, Prepared
  <2>7. ASSUME NEW o \in Refreshers, writing' = o PROVE Prepared(o)'
    <3>1. writing = o /\ o # s
      BY <2>3, <2>6, <2>7
    <3>2. refresh'[o] = refresh[o]
      BY <2>3, <3>1 DEF AccessInv, AccessTypeOK
    <3> QED
      BY <3>1, <3>2 DEF AccessInv, Prepared
  <2> QED
    BY <2>3, <2>5, <2>7, AccessQuiet
<1>2. CASE RefreshAll(s)
  <2> DEFINE rs == [r \in DOMAIN access |-> [access[r] EXCEPT !.declared = FALSE]]
             new == [NoRefresh EXCEPT !.pc = "fetch", !.todo = Suppliers, !.rows = rs]
  <2>1. refresh' = [refresh EXCEPT ![s] = new] /\ writing' = s /\ UNCHANGED <<access, keyRef, listed, failed>>
    BY <1>2 DEF RefreshAll
  <2>2. rs \in RowSets
    <3>1. IsRows(access)
      BY RowSetsAre DEF AccessInv, AccessTypeOK
    <3>2. IsRows(rs)
      BY <3>1 DEF IsRows, AccessRow
    <3> QED
      BY <3>2, RowSetsAre
  <2>3. Matches(rs, NoLists)
    <3> SUFFICES ASSUME NEW r \in DOMAIN rs PROVE rs[r].declared <=> r[3] \in NoLists[<<r[1], r[2]>>]
      BY DEF Matches
    <3>1. access[r] \in AccessRow /\ r \in Triples
      BY RowSetsAre DEF AccessInv, AccessTypeOK, IsRows
    <3>2. rs[r].declared = FALSE
      BY <3>1 DEF AccessRow
    <3>3. NoLists[<<r[1], r[2]>>] = {}
      BY <3>1 DEF NoLists, Lists, Triples
    <3> QED
      BY <3>2, <3>3
  <2> HIDE DEF rs
  <2>4. new \in RefreshState /\ new.rows = rs /\ new.lists = NoLists /\ new.pc = "fetch"
    BY <2>2, NoRefreshTyped, AccessRowsAssumption DEF RefreshState, NoRefresh
  <2> HIDE DEF new
  <2>5. AccessTypeOK'
    BY <2>1, <2>4 DEF AccessInv, AccessTypeOK
  <2>6. refresh'[s] = new
    BY <2>1 DEF AccessInv, AccessTypeOK
  <2> QED
    BY <2>1, <2>3, <2>4, <2>5, <2>6, AccessQuiet DEF Prepared
<1>3. CASE SkipProvider(s)
  <2>1. /\ refresh' = [refresh EXCEPT ![s].todo = Tail(refresh[s].todo)]
        /\ refresh[s].pc = "fetch" /\ refresh[s].todo # <<>>
        /\ UNCHANGED <<access, keyRef, writing, listed, failed>>
    BY <1>3 DEF SkipProvider
  <2>2. Tail(refresh[s].todo) \in Seq(Range(Suppliers))
    BY <2>1 DEF AccessInv, AccessTypeOK, RefreshState
  <2>3. AccessTypeOK'
    BY <2>1, <2>2 DEF AccessInv, AccessTypeOK, RefreshState
  <2>4. \A o \in Refreshers : UNCHANGED <<refresh[o].pc, refresh[o].rows, refresh[o].lists>>
    BY <2>1 DEF AccessInv, AccessTypeOK, RefreshState
  <2> QED
    BY <2>1, <2>3, <2>4, AccessQuiet DEF AccessInv, Prepared
<1>4. CASE RefreshDies(s)
  <2>1. /\ refresh' = [refresh EXCEPT ![s] = NoRefresh]
        /\ UNCHANGED <<access, keyRef, listed, failed>>
        /\ writing' = IF writing = s THEN NoOne ELSE writing
    BY <1>4 DEF RefreshDies
  <2>2. AccessTypeOK'
    BY <2>1, NoRefreshTyped DEF AccessInv, AccessTypeOK, NoRefresh
  <2>3. ASSUME NEW o \in Refreshers, writing' = o PROVE Prepared(o)'
    BY <2>1, <2>3, AccessRowsAssumption DEF AccessInv, AccessTypeOK, Prepared
  <2> QED
    BY <2>1, <2>2, <2>3, AccessQuiet
<1>5. CASE refresh[s].todo # <<>> /\ \E list \in SUBSET ShelfOf(Head(refresh[s].todo)) : Fetch(s, list)
  <2>1. PICK list \in SUBSET ShelfOf(Head(refresh[s].todo)) : Fetch(s, list)
    BY <1>5
  <2>2. list \in SUBSET Shelved
    BY DEF ShelfOf, Shelved
  <2>3. /\ refresh' = [refresh EXCEPT ![s].pc = "write", ![s].got = list]
        /\ UNCHANGED <<access, keyRef, writing, listed, failed>>
    BY <2>1 DEF Fetch
  <2>4. AccessTypeOK'
    BY <1>5, <2>2, <2>3 DEF AccessInv, AccessTypeOK, RefreshState
  <2>5. \A o \in Refreshers : /\ UNCHANGED <<refresh[o].rows, refresh[o].lists>>
                              /\ refresh[o].pc # "idle" => refresh'[o].pc # "idle"
    BY <2>3 DEF AccessInv, AccessTypeOK, RefreshState
  <2> QED
    <3>1. ASSUME NEW o \in Refreshers, writing' = o PROVE Prepared(o)'
      <4>1. refresh[o].pc # "idle" /\ Matches(refresh[o].rows, refresh[o].lists)
        BY <2>3, <3>1 DEF AccessInv, Prepared
      <4>2. /\ refresh'[o].rows = refresh[o].rows /\ refresh'[o].lists = refresh[o].lists
            /\ refresh'[o].pc # "idle"
        BY <2>5, <4>1
      <4> QED
        BY <4>1, <4>2 DEF Prepared
    <3> QED
      BY <2>3, <2>4, <3>1, AccessQuiet
<1> QED
  BY <1>1, <1>2, <1>3, <1>4, <1>5

LEMMA AccessWrite ==
  ASSUME AccessInv, NEW s \in Refreshers, NEW good \in SUBSET refresh[s].got, WriteRows(s, good)
  PROVE  AccessInv'
<1> DEFINE p  == Head(refresh[s].todo)
           k  == keyRef[p]
           rs == IF writing = s THEN refresh[s].rows ELSE access
           ls == IF writing = s THEN refresh[s].lists ELSE listed
           newRows  == Refreshed(rs, p, k, refresh[s].got, good)
           newLists == [ls EXCEPT ![<<p, k>>] = refresh[s].got]
<1>1. /\ writing' = s /\ writing \in {NoOne, s} /\ refresh[s].pc = "write"
      /\ refresh' = [refresh EXCEPT ![s].pc = "fetch", ![s].todo = Tail(refresh[s].todo), ![s].got = {},
                                    ![s].rows = newRows, ![s].lists = newLists]
      /\ UNCHANGED <<access, keyRef, listed, failed>>
  BY DEF WriteRows
<1>2. /\ refresh[s] \in RefreshState /\ refresh[s].todo # <<>>
      /\ p \in Range(Suppliers) /\ Tail(refresh[s].todo) \in Seq(Range(Suppliers))
  BY <1>1 DEF AccessInv, AccessTypeOK, RefreshState
<1>3. k \in KeyRefs
  BY <1>2 DEF AccessInv, AccessTypeOK
<1>4. rs \in RowSets /\ ls \in [Lists -> SUBSET Shelved] /\ Matches(rs, ls)
  BY <1>2 DEF AccessInv, AccessTypeOK, RefreshState, Prepared, AccessTrue, Matches
<1>5. refresh[s].got \in SUBSET Shelved
  BY <1>2 DEF RefreshState
<1> HIDE DEF rs, ls, k, p
<1>6. newRows \in RowSets /\ newLists \in [Lists -> SUBSET Shelved] /\ Matches(newRows, newLists)
  BY <1>2, <1>3, <1>4, <1>5, RowSetsAre, RefreshedMatches
<1> HIDE DEF newRows, newLists
<1>7. refresh' \in [Refreshers -> RefreshState]
  BY <1>1, <1>2, <1>6 DEF AccessInv, AccessTypeOK, RefreshState
<1>8. /\ refresh'[s].pc = "fetch" /\ refresh'[s].rows = newRows /\ refresh'[s].lists = newLists
      /\ \A o \in Refreshers \ {s} : refresh'[o] = refresh[o]
  BY <1>1, <1>2 DEF AccessInv, AccessTypeOK, RefreshState
<1>9. AccessTypeOK'
  BY <1>1, <1>7, <1>8 DEF AccessInv, AccessTypeOK
<1> QED
  BY <1>1, <1>6, <1>8, <1>9, AccessQuiet DEF Prepared

LEMMA AccessCommit ==
  ASSUME AccessInv, NEW s \in Refreshers, CommitRefresh(s)
  PROVE  AccessInv'
<1>1. /\ refresh' = [refresh EXCEPT ![s] = NoRefresh] /\ UNCHANGED keyRef
      /\ refresh[s] \in RefreshState
  BY DEF CommitRefresh, AccessInv, AccessTypeOK
<1>2. CASE writing # s
  <2>1. UNCHANGED <<access, listed, writing, failed>>
    BY <1>2 DEF CommitRefresh
  <2>2. AccessTypeOK'
    BY <1>1, <2>1, NoRefreshTyped DEF AccessInv, AccessTypeOK, NoRefresh
  <2>3. ASSUME NEW o \in Refreshers, writing' = o PROVE Prepared(o)'
    BY <1>1, <1>2, <2>1, <2>3 DEF AccessInv, AccessTypeOK, Prepared
  <2> QED
    BY <2>1, <2>2, <2>3, AccessQuiet
<1>3. CASE writing = s
  <2>1. /\ access' = refresh[s].rows /\ listed' = refresh[s].lists /\ writing' = NoOne
        /\ failed' = failed \ {r \in Confirmed(s) : r[3] \in refresh[s].lists[<<r[1], r[2]>>]
                                                    /\ refresh[s].rows[r].available}
    BY <1>3 DEF CommitRefresh
  <2>2. AccessTypeOK'
    BY <1>1, <2>1, NoRefreshTyped DEF AccessInv, AccessTypeOK, NoRefresh, RefreshState
  <2>3. Matches(access', listed')
    BY <1>3, <2>1 DEF AccessInv, Prepared
  <2>4. ASSUME NEW r \in Reachable' PROVE r \notin failed'
    BY <2>1, <2>3 DEF Reachable, Confirmed, Matches
  <2>5. AccessTrue'
    BY <2>3, <2>4 DEF AccessTrue, Matches
  <2>6. writing' \notin Refreshers
    BY <2>1, AccessRowsAssumption
  <2> QED
    BY <2>2, <2>5, <2>6 DEF AccessInv
<1> QED
  BY <1>2, <1>3

\* The collector and the synchronisations of the catalogue, between two transactions.
LEMMA AccessOthers ==
  ASSUME AccessInv,
         \/ \E p, m : Degrade(p, m)
         \/ \E gone \in SUBSET DOMAIN access : Replaced(gone)
  PROVE  AccessInv'
<1>1. writing = NoOne /\ writing' = NoOne /\ UNCHANGED <<keyRef, refresh, listed>>
  BY DEF Degrade, Replaced
<1>2. IsRows(access) /\ Matches(access, listed)
  BY RowSetsAre DEF AccessInv, AccessTypeOK, AccessTrue, Matches
<1>3. IsRows(access') /\ AccessTrue'
  <2>1. ASSUME NEW p, NEW m, Degrade(p, m) PROVE IsRows(access') /\ AccessTrue'
    <3> DEFINE gone == {r \in DOMAIN access : r[1] = p /\ r[3] = m}
    <3>1. /\ access' = [r \in DOMAIN access |->
                          IF r \in gone THEN [access[r] EXCEPT !.available = FALSE] ELSE access[r]]
          /\ failed' = failed \cup gone
      BY <2>1 DEF Degrade
    <3> HIDE DEF gone
    <3>2. ASSUME NEW r \in DOMAIN access
          PROVE  /\ access'[r] \in AccessRow /\ access'[r].declared = access[r].declared
                 /\ access'[r].available => access[r].available /\ r \notin gone
      <4>1. access[r] \in AccessRow
        BY <1>2 DEF IsRows
      <4> QED
        BY <3>1, <4>1 DEF AccessRow
    <3>3. IsRows(access')
      BY <1>2, <3>1, <3>2 DEF IsRows
    <3>4. DOMAIN access' = DOMAIN access
      BY <3>1
    <3> QED
      BY <1>1, <3>1, <3>2, <3>3, <3>4 DEF AccessInv, AccessTrue, Reachable
  <2>2. ASSUME NEW gone \in SUBSET DOMAIN access, Replaced(gone) PROVE IsRows(access') /\ AccessTrue'
    <3>1. /\ DOMAIN access' = DOMAIN access \ gone /\ access' = [r \in DOMAIN access' |-> access'[r]]
          /\ \A r \in DOMAIN access' : access'[r] = access[r]
          /\ failed' = failed \ gone
      BY <2>2 DEF Replaced, Restrict
    <3>2. IsRows(access')
      BY <1>2, <3>1 DEF IsRows
    <3> QED
      BY <1>1, <3>1, <3>2 DEF AccessInv, AccessTrue, Reachable
  <2> QED
    BY <2>1, <2>2
<1>4. AccessTypeOK'
  BY <1>1, <1>3, RowSetsAre DEF AccessInv, AccessTypeOK
<1> QED
  BY <1>1, <1>3, <1>4, AccessRowsAssumption DEF AccessInv

LEMMA AccessInductive == AccessInv /\ [AccessNext]_accessVars => AccessInv'
<1> SUFFICES ASSUME AccessInv, [AccessNext]_accessVars PROVE AccessInv'
  OBVIOUS
<1>1. CASE UNCHANGED accessVars
  BY <1>1 DEF accessVars, AccessInv, AccessTypeOK, AccessTrue, Reachable, Prepared
<1>2. ASSUME NEW p \in Range(Suppliers), NEW k \in KeyRefs, ChangeKey(p, k) PROVE AccessInv'
  BY <1>2 DEF ChangeKey, AccessInv, AccessTypeOK, AccessTrue, Reachable, Prepared
<1>3. ASSUME NEW c \in Shelf,
             \/ Degrade(c[1], c[2])
             \/ Replaced({r \in DOMAIN access : r[3] = c[2]})
             \/ Replaced({r \in DOMAIN access : r[1] = c[1]})
      PROVE  AccessInv'
  <2>1. /\ {r \in DOMAIN access : r[3] = c[2]} \in SUBSET DOMAIN access
        /\ {r \in DOMAIN access : r[1] = c[1]} \in SUBSET DOMAIN access
    OBVIOUS
  <2> QED
    BY <1>3, <2>1, AccessOthers
<1> QED
  BY <1>1, <1>2, <1>3, AccessRefresher, AccessWrite, AccessCommit DEF AccessNext

\* A row of access is declared exactly when the last committed refresh of its key read
\* it in the provider's list, and out of reach once a call failed (sync_provider,
\* _degrade_available), for any number of refreshes at a time, providers and keys.
THEOREM AccessIsTrue == AccessSpec => []AccessTrue
<1>1. AccessInv => AccessTrue
  BY DEF AccessInv
<1> QED
  BY <1>1, AccessInitial, AccessInductive, PTL DEF AccessSpec

-----------------------------------------------------------------------------
(* ApiKeys *)

\* Refs of keys are numbers. The flags are left out: it does not matter what they are.
KeysShape ==
  /\ DOMAIN rows \subseteq Nat /\ DOMAIN txn.rows \subseteq Nat
  /\ keyring \subseteq Nat /\ refs \in Nat
  /\ op \in [Threads -> [pc : {"idle", "load", "flush", "commit"}, kind : {"none", "set", "delete"},
                         ref : Nat, copy : SUBSET Nat]]

\* A key that has its secret, or is known to lack it.
Backed(r) == r \in keyring \/ r \in excused \/ raced

\* The thread t is about to store the secret of r.
Stores(t, r) == op[t].kind = "set" /\ op[t].ref = r /\ op[t].pc \in {"load", "flush"}

\* What a transaction holds is backed, or a thread of its process is at work on it;
\* after the flush a key is backed.
TxnBacked ==
  \A r \in DOMAIN txn.rows :
    Backed(r) \/ \E t \in Threads : Process[t] = txn.by /\ Stores(t, r)
Flushed == \A t \in Threads : op[t].kind = "set" /\ op[t].pc = "commit" => Backed(op[t].ref)

KeysInv == KeysShape /\ RowHasSecret /\ TxnBacked /\ Flushed

LEMMA KeysInitial == KeysInit => KeysInv
<1> SUFFICES ASSUME KeysInit PROVE KeysInv
  OBVIOUS
<1>1. DOMAIN rows = {} /\ DOMAIN txn.rows = {}
  BY DEF KeysInit, NoTxn, NoRow
<1>2. KeysShape
  BY <1>1 DEF KeysInit, KeysShape, IdleOp
<1>3. RowHasSecret /\ TxnBacked
  BY <1>1 DEF RowHasSecret, TxnBacked
<1>4. Flushed
  BY DEF KeysInit, Flushed, IdleOp
<1> QED
  BY <1>2, <1>3, <1>4 DEF KeysInv

\* What the connection of a process reads is backed once its threads are done with it:
\* what the others insert is excused.
LEMMA ViewBacked ==
  ASSUME KeysInv, NEW t \in Threads, ~(op[t].kind = "set" /\ op[t].pc \in {"load", "flush"}),
         NEW r \in DOMAIN View(Process[t])
  PROVE  Backed(r) \/ r \in Stray(t)
<1>1. CASE txn.by # Process[t]
  BY <1>1 DEF View, KeysInv, RowHasSecret, Backed
<1>2. CASE txn.by = Process[t]
  <2>1. Backed(r) \/ \E u \in Threads : Process[u] = Process[t] /\ Stores(u, r)
    BY <1>2 DEF View, KeysInv, TxnBacked
  <2>2. ASSUME NEW u \in Threads, Process[u] = Process[t], Stores(u, r) PROVE r \in Stray(t)
    BY <2>2 DEF Stores, Stray
  <2> QED
    BY <2>1, <2>2
<1> QED
  BY <1>1, <1>2

LEMMA KeysSet ==
  ASSUME KeysInv, NEW t \in Threads, NEW provider \in Providers, SetKey(t, provider)
  PROVE  KeysInv'
<1> DEFINE p == Process[t]
           known == KeysOf(p, provider) # {}
           ref == IF known THEN CHOOSE r \in KeysOf(p, provider) : TRUE ELSE refs + 1
           new == [provider |-> provider, locked |-> FALSE]
<1>1. DOMAIN View(p) \subseteq Nat
  BY DEF View, KeysInv, KeysShape
<1>2. ref \in Nat
  <2>1. known => ref \in KeysOf(p, provider)
    OBVIOUS
  <2>2. KeysOf(p, provider) \subseteq Nat
    BY <1>1 DEF KeysOf
  <2> QED
    BY <2>1, <2>2 DEF KeysInv, KeysShape
<1>3. /\ op[t].pc = "idle"
      /\ op' = [op EXCEPT ![t] = [pc |-> "load", kind |-> "set", ref |-> ref, copy |-> {}]]
      /\ txn' = [by |-> p, rows |-> IF known THEN View(p) ELSE With(View(p), ref, new)]
      /\ refs' = IF known THEN refs ELSE ref
      /\ UNCHANGED <<rows, keyring, excused, raced>>
  BY DEF SetKey
<1> HIDE DEF known, ref
<1>4. txn'.by = p /\ DOMAIN txn'.rows \subseteq DOMAIN View(p) \cup {ref}
  BY <1>3 DEF With
<1>5. /\ op'[t].kind = "set" /\ op'[t].ref = ref /\ op'[t].pc = "load"
      /\ \A u \in Threads \ {t} : op'[u] = op[u]
  BY <1>3 DEF KeysInv, KeysShape
<1>6. KeysShape'
  BY <1>1, <1>2, <1>3, <1>4 DEF KeysInv, KeysShape
<1>7. TxnBacked'
  <2>1. ASSUME NEW r \in DOMAIN View(p)
        PROVE  Backed(r) \/ \E u \in Threads \ {t} : Process[u] = p /\ Stores(u, r)
    BY <1>3 DEF View, KeysInv, RowHasSecret, Backed, TxnBacked, Stores
  <2>2. ASSUME NEW r \in DOMAIN txn'.rows
        PROVE  Backed(r)' \/ \E u \in Threads : Process[u] = p /\ Stores(u, r)'
    <3>1. CASE r = ref
      BY <1>5, <3>1 DEF Stores
    <3>2. CASE r \in DOMAIN View(p)
      BY <1>3, <1>5, <2>1, <3>2 DEF Stores, Backed
    <3> QED
      BY <1>4, <3>1, <3>2
  <2> QED
    BY <1>4, <2>2 DEF TxnBacked
<1>8. Flushed' /\ RowHasSecret'
  BY <1>3, <1>5 DEF KeysInv, Flushed, RowHasSecret, Backed
<1> QED
  BY <1>6, <1>7, <1>8 DEF KeysInv

\* The keyring only loses a key that is deleted, unless a write undoes another.
LEMMA KeysKeyring ==
  ASSUME KeysInv, NEW t \in Threads, LoadAll(t) \/ Flush(t) \/ \E r \in DOMAIN View(Process[t]) : DeleteKey(t, r)
  PROVE  KeysInv'
<1>1. KeysShape'
  <2>1. CASE LoadAll(t)
    BY <2>1 DEF LoadAll, KeysInv, KeysShape
  <2>2. CASE Flush(t)
    BY <2>2 DEF Flush, KeysInv, KeysShape
  <2>3. CASE \E r \in DOMAIN View(Process[t]) : DeleteKey(t, r)
    BY <2>3 DEF DeleteKey, View, KeysInv, KeysShape
  <2> QED
    BY <2>1, <2>2, <2>3
<1>2. UNCHANGED <<rows, txn>> /\ \A u \in Threads \ {t} : op'[u] = op[u]
  <2>1. CASE LoadAll(t)
    BY <2>1 DEF LoadAll, KeysInv, KeysShape
  <2>2. CASE Flush(t)
    BY <2>2 DEF Flush, KeysInv, KeysShape
  <2>3. CASE \E r \in DOMAIN View(Process[t]) : DeleteKey(t, r)
    BY <2>3 DEF DeleteKey, KeysInv, KeysShape
  <2> QED
    BY <2>1, <2>2, <2>3
<1>3. ASSUME NEW r, Backed(r) PROVE Backed(r)'
  <2>1. CASE Flush(t)
    <3>1. (raced => raced') /\ (raced' \/ keyring = op[t].copy)
      BY <2>1, Zenon DEF Flush
    <3>2. \/ keyring' = op[t].copy \ {op[t].ref} /\ excused' = excused \cup {op[t].ref}
          \/ keyring' = op[t].copy \cup {op[t].ref} /\ excused' = excused
      BY <2>1 DEF Flush
    <3> QED
      BY <1>3, <3>1, <3>2 DEF Backed
  <2>2. CASE LoadAll(t) \/ \E s \in DOMAIN View(Process[t]) : DeleteKey(t, s)
    BY <1>3, <2>2 DEF LoadAll, DeleteKey, Backed
  <2> QED
    BY <2>1, <2>2
<1>4. ASSUME NEW r, Stores(t, r) PROVE Backed(r)' \/ Stores(t, r)'
  <2>1. CASE LoadAll(t)
    BY <1>4, <2>1 DEF LoadAll, Stores, KeysInv, KeysShape
  <2>2. CASE Flush(t)
    <3>1. op[t].kind # "delete" /\ keyring' = op[t].copy \cup {r}
      BY <1>4, <2>2 DEF Flush, Stores
    <3> QED
      BY <3>1 DEF Backed
  <2>3. CASE \E s \in DOMAIN View(Process[t]) : DeleteKey(t, s)
    BY <1>4, <2>3 DEF DeleteKey, Stores
  <2> QED
    BY <2>1, <2>2, <2>3
<1>5. op'[t].kind = "set" /\ op'[t].pc = "commit" => Backed(op[t].ref)'
  <2>1. CASE Flush(t)
    <3>1. op'[t].kind = op[t].kind /\ op'[t].ref = op[t].ref
      BY <2>1 DEF Flush, KeysInv, KeysShape
    <3>2. op[t].kind # "delete" => keyring' = op[t].copy \cup {op[t].ref}
      BY <2>1 DEF Flush
    <3> QED
      BY <3>1, <3>2 DEF Backed
  <2>2. CASE LoadAll(t) \/ \E s \in DOMAIN View(Process[t]) : DeleteKey(t, s)
    <3>1. op'[t].pc # "commit"
      <4>1. CASE LoadAll(t)
        BY <4>1 DEF LoadAll, KeysInv, KeysShape
      <4>2. CASE \E s \in DOMAIN View(Process[t]) : DeleteKey(t, s)
        BY <4>2 DEF DeleteKey, KeysInv, KeysShape
      <4> QED
        BY <2>2, <4>1, <4>2
    <3> QED
      BY <3>1
  <2> QED
    BY <2>1, <2>2
<1>6. RowHasSecret'
  BY <1>2, <1>3 DEF KeysInv, RowHasSecret, Backed
<1>7. TxnBacked'
  <2>1. ASSUME NEW r \in DOMAIN txn.rows, NEW u \in Threads, Process[u] = txn.by, Stores(u, r)
        PROVE  Backed(r)' \/ Stores(u, r)'
    BY <1>2, <1>4, <2>1 DEF Stores
  <2> QED
    BY <1>2, <1>3, <2>1 DEF KeysInv, TxnBacked
<1>8. Flushed'
  BY <1>2, <1>3, <1>5 DEF KeysInv, Flushed
<1> QED
  BY <1>1, <1>6, <1>7, <1>8 DEF KeysInv

\* A commit of the connection of t.
LEMMA KeysCommit ==
  ASSUME KeysInv, NEW t \in Threads,
         CommitSet(t) \/ CommitDelete(t) \/ \E r \in DOMAIN View(Process[t]) : SetKeyLock(t, r)
  PROVE  KeysInv'
<1> DEFINE p == Process[t]
<1>1. /\ ~(op[t].kind = "set" /\ op[t].pc \in {"load", "flush"})
      /\ UNCHANGED <<keyring, raced, refs>> /\ excused' = excused \cup Stray(t)
      /\ op' = op \/ op' = [op EXCEPT ![t] = IdleOp]
  BY DEF CommitSet, CommitDelete, SetKeyLock
<1>2. ASSUME NEW r, Backed(r) \/ r \in Stray(t) PROVE Backed(r)'
  BY <1>1, <1>2 DEF Backed
<1>3. DOMAIN rows' \subseteq DOMAIN View(p)
  <2>1. CASE CommitSet(t)
    BY <2>1 DEF CommitSet
  <2>2. CASE CommitDelete(t)
    BY <2>2 DEF CommitDelete, Restrict
  <2>3. ASSUME NEW r \in DOMAIN View(p), SetKeyLock(t, r) PROVE DOMAIN rows' = DOMAIN View(p)
    <3>1. rows' = [View(p) EXCEPT ![r].locked = ~@]
      BY <2>3 DEF SetKeyLock
    <3> QED
      BY <3>1, Zenon
  <2> QED
    BY <2>1, <2>2, <2>3
<1>4. RowHasSecret'
  <2>1. ASSUME NEW r \in DOMAIN rows' PROVE Backed(r)'
    BY <1>1, <1>2, <1>3, ViewBacked
  <2> QED
    BY <2>1 DEF RowHasSecret, Backed
<1>5. (txn' = txn /\ txn.by # p) \/ txn' = NoTxn
  BY DEF CommitSet, CommitDelete, SetKeyLock
<1>6. KeysShape'
  <2>1. DOMAIN rows' \subseteq Nat
    BY <1>3 DEF View, KeysInv, KeysShape
  <2>2. DOMAIN txn'.rows \subseteq Nat
    BY <1>5 DEF KeysInv, KeysShape, NoTxn, NoRow
  <2> QED
    BY <1>1, <2>1, <2>2 DEF KeysInv, KeysShape, IdleOp
<1>7. \A u \in Threads : op'[u] = op[u] \/ (u = t /\ op'[u].pc = "idle")
  BY <1>1 DEF KeysInv, KeysShape, IdleOp
<1>8. TxnBacked'
  <2>1. CASE txn' = txn /\ txn.by # p
    BY <1>1, <1>2, <1>7, <2>1 DEF KeysInv, TxnBacked, Stores
  <2>2. CASE txn' = NoTxn
    <3>1. DOMAIN txn'.rows = {}
      BY <2>2 DEF NoTxn, NoRow
    <3> QED
      BY <3>1 DEF TxnBacked
  <2> QED
    BY <1>5, <2>1, <2>2
<1>9. Flushed'
  BY <1>2, <1>7 DEF KeysInv, Flushed
<1> QED
  BY <1>4, <1>6, <1>8, <1>9 DEF KeysInv

LEMMA KeysDeath ==
  ASSUME KeysInv, NEW p \in Processes, DieWithKeys(p)
  PROVE  KeysInv'
<1>1. /\ UNCHANGED <<rows, keyring, refs, excused, raced>>
      /\ op' = [t \in Threads |-> IF Process[t] = p THEN IdleOp ELSE op[t]]
      /\ txn' = IF txn.by = p THEN NoTxn ELSE txn
  BY DEF DieWithKeys
<1>2. DOMAIN NoTxn.rows = {}
  BY DEF NoTxn, NoRow
<1>3. KeysShape'
  BY <1>1, <1>2 DEF KeysInv, KeysShape, IdleOp
<1>4. RowHasSecret' /\ Flushed'
  BY <1>1 DEF KeysInv, RowHasSecret, Flushed, Backed, IdleOp
<1>5. TxnBacked'
  <2>1. CASE txn.by = p
    BY <1>1, <1>2, <2>1 DEF TxnBacked
  <2>2. CASE txn.by # p
    BY <1>1, <2>2 DEF KeysInv, TxnBacked, Backed, Stores
  <2> QED
    BY <2>1, <2>2
<1> QED
  BY <1>3, <1>4, <1>5 DEF KeysInv

LEMMA KeysInductive == KeysInv /\ [KeysNext]_keysVars => KeysInv'
<1> SUFFICES ASSUME KeysInv, [KeysNext]_keysVars PROVE KeysInv'
  OBVIOUS
<1>1. CASE UNCHANGED keysVars
  BY <1>1 DEF keysVars, KeysInv, KeysShape, RowHasSecret, TxnBacked, Flushed, Backed, Stores
<1>2. CASE KeysNext
  BY <1>2, KeysSet, KeysKeyring, KeysCommit, KeysDeath DEF KeysNext
<1> QED
  BY <1>1, <1>2

\* set_key, delete_key, lock and load: a committed row of api_keys has its secret in the
\* keyring, but for the exceptions of RowHasSecret, for any set of keys, threads and
\* processes, and whoever dies when.
THEOREM KeysHaveSecrets == KeysSpec => []RowHasSecret
<1>1. KeysInv => RowHasSecret
  BY DEF KeysInv
<1> QED
  BY <1>1, KeysInitial, KeysInductive, PTL DEF KeysSpec

\* What a table holds are rows, and an operation under way has a ref. The flag is left out:
\* it does not matter what it is.
Table(f) == DOMAIN f \subseteq Ref /\ \A r \in DOMAIN f : f[r] \in Row
Ops == [pc : {"idle", "load", "flush", "commit"}, kind : {"none", "set", "delete"},
        ref : 0 .. MaxRefs, copy : SUBSET Ref]
Fits(rec) == rec \in Ops /\ ((rec.pc = "idle" /\ rec.kind = "none") \/ rec.ref # 0)

RefsTyped ==
  /\ Table(rows) /\ Table(txn.rows) /\ txn.by \in Processes \cup {None}
  /\ keyring \subseteq Ref /\ refs \in 0 .. MaxRefs /\ excused \subseteq Ref
  /\ op \in [Threads -> Ops] /\ \A t \in Threads : Fits(op[t])

LEMMA NothingFits ==
  Fits(IdleOp) /\ Table(NoRow) /\ Table(NoTxn.rows) /\ NoTxn.by \in Processes \cup {None}
<1>1. Fits(IdleOp)
  BY KeysAssumption DEF IdleOp, Fits, Ops
<1> QED
  BY <1>1 DEF NoTxn, NoRow, Table

LEMMA RefsInitial == KeysInit => RefsTyped
<1> SUFFICES ASSUME KeysInit PROVE RefsTyped
  OBVIOUS
<1>1. refs \in 0 .. MaxRefs
  BY KeysAssumption DEF KeysInit
<1>2. op \in [Threads -> Ops] /\ \A t \in Threads : Fits(op[t])
  BY NothingFits DEF KeysInit, Fits
<1> QED
  BY <1>1, <1>2, NothingFits DEF KeysInit, RefsTyped

LEMMA ViewIsTable == ASSUME RefsTyped, NEW p PROVE Table(View(p))
  BY DEF RefsTyped, View

LEMMA RefIsNamed ==
  ASSUME NEW rec, Fits(rec), rec.pc # "idle" \/ rec.kind # "none"
  PROVE  rec.ref \in Ref /\ rec.ref # 0 /\ rec.copy \subseteq Ref
  BY KeysAssumption DEF Fits, Ops, Ref

LEMMA StrayAreRefs == ASSUME RefsTyped, NEW t \in Threads PROVE Stray(t) \subseteq Ref
<1> SUFFICES ASSUME NEW u \in Threads, op[u].kind = "set" PROVE op[u].ref \in Ref
  BY DEF Stray
<1> QED
  BY RefIsNamed DEF RefsTyped

\* A step that gives one thread a record that fits, and the tables rows.
LEMMA RefsStep ==
  ASSUME RefsTyped, NEW t \in Threads, NEW rec, Fits(rec),
         op' = [op EXCEPT ![t] = rec], Table(rows'), Table(txn'.rows),
         txn'.by \in Processes \cup {None}, keyring' \subseteq Ref,
         refs' \in 0 .. MaxRefs, excused' \subseteq Ref
  PROVE  RefsTyped'
<1>1. rec \in Ops
  BY DEF Fits
<1>2. op' \in [Threads -> Ops] /\ op'[t] = rec /\ \A u \in Threads \ {t} : op'[u] = op[u]
  BY <1>1 DEF RefsTyped
<1>3. \A u \in Threads : Fits(op'[u])
  BY <1>2 DEF RefsTyped
<1> QED
  BY <1>2, <1>3 DEF RefsTyped

LEMMA RefsSet ==
  ASSUME RefsTyped, NEW t \in Threads, NEW provider \in Providers, SetKey(t, provider)
  PROVE  RefsTyped'
<1> DEFINE p == Process[t]
           known == KeysOf(p, provider) # {}
           ref == IF known THEN CHOOSE r \in KeysOf(p, provider) : TRUE ELSE refs + 1
           new == [provider |-> provider, locked |-> FALSE]
           rec == [pc |-> "load", kind |-> "set", ref |-> ref, copy |-> {}]
<1>1. Table(View(p)) /\ p \in Processes
  BY ViewIsTable, KeysAssumption DEF RefsTyped, Processes, Range
<1>2. ref \in Ref /\ (~known => ref = refs + 1)
  <2>1. CASE known
    <3>1. ref \in KeysOf(p, provider)
      BY <2>1
    <3> QED
      BY <1>1, <2>1, <3>1 DEF KeysOf, Table
  <2>2. CASE ~known
    <3>1. ref = refs + 1 /\ refs < MaxRefs /\ refs \in 0 .. MaxRefs
      BY <2>2 DEF SetKey, RefsTyped
    <3> QED
      BY <2>2, <3>1, KeysAssumption DEF Ref
  <2> QED
    BY <2>1, <2>2
<1>3. /\ op' = [op EXCEPT ![t] = rec]
      /\ txn' = [by |-> p, rows |-> IF known THEN View(p) ELSE With(View(p), ref, new)]
      /\ refs' = IF known THEN refs ELSE ref
      /\ UNCHANGED <<rows, keyring, excused, raced>>
  BY DEF SetKey
<1> HIDE DEF known, ref
<1>4. Table(With(View(p), ref, new))
  BY <1>1, <1>2 DEF With, Table, Row
<1>5. Table(txn'.rows) /\ txn'.by \in Processes \cup {None}
  BY <1>1, <1>3, <1>4
<1>6. ref \in 0 .. MaxRefs /\ ref # 0
  BY <1>2, KeysAssumption DEF Ref
<1>7. refs' \in 0 .. MaxRefs
  BY <1>3, <1>6 DEF RefsTyped
<1>8. Table(rows') /\ keyring' \subseteq Ref /\ excused' \subseteq Ref
  BY <1>3 DEF RefsTyped
<1>9. Fits(rec)
  BY <1>6 DEF Fits, Ops
<1> HIDE DEF rec
<1> QED
  BY <1>3, <1>5, <1>7, <1>8, <1>9, RefsStep

LEMMA RefsKeyring ==
  ASSUME RefsTyped, NEW t \in Threads,
         LoadAll(t) \/ Flush(t) \/ \E r \in DOMAIN View(Process[t]) : DeleteKey(t, r)
  PROVE  RefsTyped'
<1>1. UNCHANGED <<rows, txn, refs>>
  BY DEF LoadAll, Flush, DeleteKey
<1>2. Table(rows') /\ Table(txn'.rows) /\ txn'.by \in Processes \cup {None} /\ refs' \in 0 .. MaxRefs
  BY <1>1 DEF RefsTyped
<1>3. op[t] \in Ops /\ Fits(op[t])
  BY DEF RefsTyped
<1>4. CASE LoadAll(t)
  <2> DEFINE rec == [op[t] EXCEPT !.pc = "flush", !.copy = keyring]
  <2>1. op[t].pc = "load" /\ op' = [op EXCEPT ![t] = rec] /\ UNCHANGED <<keyring, excused>>
    BY <1>4 DEF LoadAll
  <2>2. keyring' \subseteq Ref /\ excused' \subseteq Ref
    BY <2>1 DEF RefsTyped
  <2>3. op[t].ref # 0
    BY <1>3, <2>1, RefIsNamed
  <2>4. Fits(rec)
    BY <1>3, <2>1, <2>2, <2>3 DEF Fits, Ops
  <2> HIDE DEF rec
  <2> QED
    BY <1>2, <2>1, <2>2, <2>4, RefsStep
<1>5. CASE \E r \in DOMAIN View(Process[t]) : DeleteKey(t, r)
  <2>1. PICK r \in DOMAIN View(Process[t]) : DeleteKey(t, r)
    BY <1>5
  <2> DEFINE rec == [pc |-> "load", kind |-> "delete", ref |-> r, copy |-> {}]
  <2>2. r \in Ref
    BY ViewIsTable DEF Table
  <2>3. Fits(rec)
    BY <2>2, KeysAssumption DEF Ref, Fits, Ops
  <2>4. op' = [op EXCEPT ![t] = rec] /\ keyring' \subseteq Ref /\ excused' \subseteq Ref
    BY <2>1 DEF DeleteKey, RefsTyped
  <2> HIDE DEF rec
  <2> QED
    BY <1>2, <2>3, <2>4, RefsStep
<1>6. CASE Flush(t)
  <2> DEFINE rec == [op[t] EXCEPT !.pc = "commit"]
  <2>1. op[t].pc = "flush" /\ op' = [op EXCEPT ![t] = rec]
    BY <1>6 DEF Flush
  <2>2. op[t].ref \in Ref /\ op[t].ref # 0 /\ op[t].copy \subseteq Ref
    BY <1>3, <2>1, RefIsNamed
  <2>3. Fits(rec)
    BY <1>3, <2>2 DEF Fits, Ops
  <2>4. keyring' \subseteq Ref /\ excused' \subseteq Ref
    BY <1>6, <2>2 DEF Flush, RefsTyped
  <2> HIDE DEF rec
  <2> QED
    BY <1>2, <2>1, <2>3, <2>4, RefsStep
<1> QED
  BY <1>4, <1>5, <1>6

LEMMA RefsCommit ==
  ASSUME RefsTyped, NEW t \in Threads,
         CommitSet(t) \/ CommitDelete(t) \/ \E r \in DOMAIN View(Process[t]) : SetKeyLock(t, r)
  PROVE  RefsTyped'
<1> DEFINE p == Process[t]
<1>1. UNCHANGED <<keyring, refs>> /\ excused' = excused \cup Stray(t)
  BY DEF CommitSet, CommitDelete, SetKeyLock
<1>2. op' = op \/ op' = [op EXCEPT ![t] = IdleOp]
  BY DEF CommitSet, CommitDelete, SetKeyLock
<1>3. Table(View(p))
  BY ViewIsTable
<1>4. Table(rows')
  <2>1. CASE CommitSet(t)
    BY <1>3, <2>1 DEF CommitSet
  <2>2. CASE CommitDelete(t)
    BY <1>3, <2>2 DEF CommitDelete, Restrict, Table
  <2>3. ASSUME NEW r \in DOMAIN View(p), SetKeyLock(t, r) PROVE Table(rows')
    <3>1. rows' = [View(p) EXCEPT ![r] = [View(p)[r] EXCEPT !.locked = ~View(p)[r].locked]]
      BY <2>3 DEF SetKeyLock
    <3>2. [View(p)[r] EXCEPT !.locked = ~View(p)[r].locked] \in Row
      BY <1>3 DEF Table, Row
    <3> QED
      BY <1>3, <3>1, <3>2 DEF Table
  <2> QED
    BY <2>1, <2>2, <2>3
<1>5. txn' = txn \/ txn' = NoTxn
  BY DEF CommitSet, CommitDelete, SetKeyLock
<1>6. Table(txn'.rows) /\ txn'.by \in Processes \cup {None}
  BY <1>5, NothingFits DEF RefsTyped
<1>7. keyring' \subseteq Ref /\ refs' \in 0 .. MaxRefs /\ excused' \subseteq Ref
  BY <1>1, StrayAreRefs DEF RefsTyped
<1>8. CASE op' = [op EXCEPT ![t] = IdleOp]
  <2> DEFINE rec == IdleOp
  <2>1. Fits(rec) /\ op' = [op EXCEPT ![t] = rec]
    BY <1>8, NothingFits
  <2> HIDE DEF rec
  <2> QED
    BY <1>4, <1>6, <1>7, <2>1, RefsStep
<1>9. CASE op' = op
  BY <1>4, <1>6, <1>7, <1>9 DEF RefsTyped
<1> QED
  BY <1>2, <1>8, <1>9

LEMMA RefsDeath ==
  ASSUME RefsTyped, NEW p \in Processes, DieWithKeys(p)
  PROVE  RefsTyped'
<1>1. /\ UNCHANGED <<rows, keyring, refs, excused>>
      /\ op' = [t \in Threads |-> IF Process[t] = p THEN IdleOp ELSE op[t]]
      /\ txn' = txn \/ txn' = NoTxn
  BY DEF DieWithKeys
<1>2. IdleOp \in Ops /\ Fits(IdleOp)
  BY NothingFits DEF Fits
<1>3. op' \in [Threads -> Ops] /\ \A t \in Threads : Fits(op'[t])
  BY <1>1, <1>2 DEF RefsTyped
<1>4. Table(txn'.rows) /\ txn'.by \in Processes \cup {None}
  BY <1>1, NothingFits DEF RefsTyped
<1> QED
  BY <1>1, <1>3, <1>4 DEF RefsTyped

LEMMA RefsInductive == RefsTyped /\ [KeysNext]_keysVars => RefsTyped'
<1> SUFFICES ASSUME RefsTyped, [KeysNext]_keysVars PROVE RefsTyped'
  OBVIOUS
<1>1. CASE UNCHANGED keysVars
  BY <1>1 DEF keysVars, RefsTyped
<1>2. CASE KeysNext
  BY <1>2, RefsSet, RefsKeyring, RefsCommit, RefsDeath DEF KeysNext
<1> QED
  BY <1>1, <1>2

RaceTyped == raced \in BOOLEAN

LEMMA RaceIsFlag == (KeysInit => RaceTyped) /\ (RaceTyped /\ [KeysNext]_keysVars => RaceTyped')
<1>1. ASSUME raced \in BOOLEAN, KeysNext PROVE raced' \in BOOLEAN
  BY <1>1, Zenon
  DEF KeysNext, SetKey, DeleteKey, LoadAll, Flush, CommitSet, CommitDelete, SetKeyLock, DieWithKeys
<1> QED
  BY <1>1 DEF KeysInit, keysVars, RaceTyped

\* KeyRepository, key_manager: the table, an open transaction, the keyring and the copies of
\* it only name keys that were created, whoever dies, commits for another thread or races.
THEOREM KeysAreTyped == KeysSpec => []KeysTypeOK
<1>1. RefsTyped /\ RaceTyped => KeysTypeOK
  <2>1. RefsTyped => /\ DOMAIN rows \subseteq Ref /\ \A r \in DOMAIN rows : rows[r] \in Row
                     /\ DOMAIN txn.rows \subseteq Ref /\ \A r \in DOMAIN txn.rows : txn.rows[r] \in Row
    BY DEF RefsTyped, Table
  <2>2. RefsTyped => op \in [Threads -> Ops]
    BY DEF RefsTyped
  <2> QED
    BY <2>1, <2>2, Zenon DEF RefsTyped, RaceTyped, Ops, KeysTypeOK
<1> QED
  BY <1>1, RefsInitial, RefsInductive, RaceIsFlag, PTL DEF KeysSpec

-----------------------------------------------------------------------------
(* CatalogueOpening *)

\* Each part of an open relies on what the earlier ones found or wrote; no row ever
\* disappears, and where endpoints are missing although some are there, a run of the
\* script was cut or is past the providers.

Steps == {"closed", "create", "check", "script", "access", "count", "models", "links", "open"}

OpeningTypeOK ==
  /\ table \in BOOLEAN /\ providers \in BOOLEAN /\ models \in BOOLEAN
  /\ links \in BOOLEAN /\ cut \in BOOLEAN
  /\ endpoints \in [1 .. Endpoints -> Nat]
  /\ step \in [Openers -> Steps]
  /\ done \in [Openers -> 0 .. Endpoints + 2]
  /\ skipped \in [Openers -> BOOLEAN] /\ lacks \in [Openers -> BOOLEAN]

\* What a run of the script has written so far.
Progress(p) ==
  /\ ~InScript(p) => done[p] = 0
  /\ InScript(p) => /\ done[p] > 1 => providers
                    /\ \A e \in 1 .. Endpoints : e + 2 <= done[p] => endpoints[e] > 0

Begun == \E e \in 1 .. Endpoints : endpoints[e] > 0
All   == \A e \in 1 .. Endpoints : endpoints[e] > 0
Under == \E q \in Openers : InScript(q) /\ done[q] > 0

\* What the parts of an open that it did not pass over leave to the next ones.
Passed(p) == ~skipped[p] =>
  /\ step[p] \in {"access", "count", "models", "links", "open"} => providers /\ Begun
  /\ step[p] \in {"links", "open"} => models
  /\ step[p] = "open" => links

OpeningInv ==
  /\ OpeningTypeOK
  /\ \A p \in Openers : Progress(p) /\ Passed(p)
  /\ Begun => All \/ cut \/ Under

LEMMA OpeningInitial == OpeningInit => OpeningInv
<1> SUFFICES ASSUME OpeningInit PROVE OpeningInv
  OBVIOUS
<1>1. OpeningTypeOK
  <2>1. 0 \in 0 .. Endpoints + 2
    BY OpeningAssumption
  <2>2. done \in [Openers -> 0 .. Endpoints + 2] /\ endpoints \in [1 .. Endpoints -> Nat]
    BY <2>1 DEF OpeningInit
  <2>3. step \in [Openers -> Steps] /\ skipped \in [Openers -> BOOLEAN] /\ lacks \in [Openers -> BOOLEAN]
    BY DEF OpeningInit, Steps
  <2> QED
    BY <2>2, <2>3 DEF OpeningInit, OpeningTypeOK
<1>2. \A p \in Openers : Progress(p) /\ Passed(p)
  BY DEF OpeningInit, Progress, Passed, InScript
<1>3. ~Begun
  BY DEF OpeningInit, Begun
<1> QED
  BY <1>1, <1>2, <1>3 DEF OpeningInv

\* The steps that leave the rows and the runs of the script alone.
LEMMA StepsAside ==
  ASSUME OpeningInv, NEW p \in Openers,
         OpenCatalogue(p) \/ CheckTables(p) \/ Access(p) \/ Count(p) \/ FillRefused(p) \/ Commit(p)
  PROVE  OpeningInv'
<1>1. UNCHANGED <<tables, done, cut>> /\ OpeningTypeOK'
  BY DEF OpeningInv, OpeningTypeOK, Steps, OpenCatalogue, CheckTables, Access, Count, FillRefused, Commit,
         Goes, Skips, tables
<1>2. \A q \in Openers : InScript(q) => InScript(q)'
  BY DEF OpeningInv, OpeningTypeOK, OpenCatalogue, CheckTables, Access, Count, FillRefused, Commit,
         Goes, Skips, InScript
<1>3. (Begun => All \/ cut \/ Under)'
  BY <1>1, <1>2 DEF OpeningInv, Begun, All, Under, tables
<1>4. ASSUME NEW q \in Openers PROVE Progress(q)'
  BY <1>1, <1>2 DEF OpeningInv, OpeningTypeOK, Progress, tables
<1>5. ASSUME NEW q \in Openers PROVE Passed(q)'
  BY <1>1 DEF OpeningInv, OpeningTypeOK, Passed, Begun, OpenCatalogue, CheckTables, Access, Count, FillRefused,
              Commit, Goes, Skips, tables
<1> QED
  BY <1>1, <1>3, <1>4, <1>5 DEF OpeningInv

\* One more statement: the rows grow, and the run has written what it says.
LEMMA StepsStatement ==
  ASSUME OpeningInv, NEW p \in Openers, Statement(p)
  PROVE  OpeningInv'
<1>1. /\ done' = [done EXCEPT ![p] = done[p] + 1] /\ done[p] \in 0 .. Endpoints + 1
      /\ InScript(p) /\ UNCHANGED <<step, skipped, cut, models, links, lacks>>
  <2>1. done[p] \in 0 .. Endpoints + 2 /\ done[p] < Endpoints + 2
    BY DEF OpeningInv, OpeningTypeOK, Statement
  <2>2. done[p] \in 0 .. Endpoints + 1
    BY <2>1, OpeningAssumption
  <2> QED
    BY <2>2 DEF Statement
<1>2. \A e \in 1 .. Endpoints : endpoints[e] \in Nat /\ endpoints'[e] >= endpoints[e]
                               /\ endpoints'[e] \in Nat
                               /\ (e + 1 = done[p] => endpoints'[e] > 0)
  BY <1>1 DEF OpeningInv, OpeningTypeOK, Statement
<1>3. (providers => providers') /\ (done[p] = 1 => providers')
  BY DEF Statement
<1>4. OpeningTypeOK'
  <2>1. endpoints' \in [1 .. Endpoints -> Nat]
    BY <1>2 DEF Statement
  <2>2. table' \in BOOLEAN /\ providers' \in BOOLEAN
    BY DEF Statement, OpeningInv, OpeningTypeOK
  <2>3. done' \in [Openers -> 0 .. Endpoints + 2]
    BY <1>1, OpeningAssumption DEF OpeningInv, OpeningTypeOK
  <2> QED
    BY <1>1, <2>1, <2>2, <2>3 DEF OpeningInv, OpeningTypeOK
<1>5. (Begun => Begun') /\ Under'
  <2>1. Begun => Begun'
    BY <1>2 DEF Begun
  <2>2. done'[p] = done[p] + 1 /\ done[p] \in Nat
    BY <1>1, OpeningAssumption DEF OpeningInv, OpeningTypeOK
  <2>3. InScript(p)' /\ done'[p] > 0
    BY <1>1, <2>2 DEF InScript
  <2> QED
    BY <2>1, <2>3 DEF Under
<1>6. ASSUME NEW q \in Openers PROVE Progress(q)'
  <2>1. CASE q # p
    BY <1>1, <1>2, <1>3, <2>1 DEF OpeningInv, OpeningTypeOK, Progress, InScript
  <2>2. CASE q = p
    <3>1. done[p] > 1 => providers
      BY <1>1 DEF OpeningInv, Progress
    <3>2. done'[p] > 1 => providers'
      BY <1>1, <1>3, <3>1 DEF OpeningInv, OpeningTypeOK
    <3>3. ASSUME NEW e \in 1 .. Endpoints, e + 2 <= done'[p] PROVE endpoints'[e] > 0
      BY <1>1, <1>2, <3>3 DEF OpeningInv, OpeningTypeOK, Progress
    <3> QED
      BY <1>1, <2>2, <3>2, <3>3 DEF Progress, InScript
  <2> QED
    BY <2>1, <2>2
<1>7. ASSUME NEW q \in Openers PROVE Passed(q)'
  BY <1>1, <1>3, <1>5 DEF OpeningInv, Passed
<1> QED
  BY <1>4, <1>5, <1>6, <1>7 DEF OpeningInv

\* A run that ends has written every endpoint, or is remembered as cut.
LEMMA StepsEnd ==
  ASSUME OpeningInv, NEW p \in Openers,
         ScriptEnds(p) \/ ScriptRefused(p) \/ Close(p)
  PROVE  OpeningInv'
<1>1. UNCHANGED tables /\ OpeningTypeOK'
  <2>1. UNCHANGED tables /\ done' = [done EXCEPT ![p] = 0]
    BY DEF ScriptEnds, ScriptRefused, Close
  <2>2. done' \in [Openers -> 0 .. Endpoints + 2]
    BY <2>1, OpeningAssumption DEF OpeningInv, OpeningTypeOK
  <2>3. /\ step' \in [Openers -> Steps] /\ skipped' \in [Openers -> BOOLEAN]
        /\ lacks' \in [Openers -> BOOLEAN]
    BY DEF OpeningInv, OpeningTypeOK, Steps, ScriptEnds, ScriptRefused, Close, Goes, Skips
  <2>4. cut' \in BOOLEAN
    BY DEF OpeningInv, OpeningTypeOK, ScriptEnds, ScriptRefused, Close
  <2> QED
    BY <2>1, <2>2, <2>3, <2>4 DEF OpeningInv, OpeningTypeOK, tables
<1>2. done' = [done EXCEPT ![p] = 0] /\ ~InScript(p)'
      /\ \A q \in Openers \ {p} : step'[q] = step[q] /\ skipped'[q] = skipped[q]
  BY DEF OpeningInv, OpeningTypeOK, ScriptEnds, ScriptRefused, Close, Goes, Skips, InScript
<1>3. ASSUME NEW q \in Openers PROVE Progress(q)'
  BY <1>1, <1>2 DEF OpeningInv, OpeningTypeOK, Progress, InScript, tables
<1>4. ASSUME ScriptEnds(p) PROVE All /\ providers /\ Begun
  BY <1>4, OpeningAssumption DEF OpeningInv, OpeningTypeOK, ScriptEnds, Progress, All, Begun
<1>5. (Begun => All \/ cut \/ Under)'
  <2>1. CASE ScriptEnds(p)
    BY <1>1, <1>4, <2>1 DEF All, tables
  <2>2. CASE (ScriptRefused(p) \/ Close(p)) /\ InScript(p) /\ done[p] > 0
    BY <2>2 DEF ScriptRefused, Close
  <2>3. CASE (ScriptRefused(p) \/ Close(p)) /\ ~(InScript(p) /\ done[p] > 0)
    <3>1. (cut => cut') /\ (Under => Under')
      BY <1>2, <2>3 DEF OpeningInv, OpeningTypeOK, ScriptRefused, Close, Under, InScript
    <3> QED
      BY <1>1, <3>1 DEF OpeningInv, Begun, All, tables
  <2> QED
    BY <2>1, <2>2, <2>3
<1>6. ASSUME NEW q \in Openers PROVE Passed(q)'
  <2>1. CASE q # p
    BY <1>1, <1>2, <2>1 DEF OpeningInv, Passed, Begun, tables
  <2>2. CASE q = p
    BY <1>1, <1>4, <2>2 DEF OpeningInv, OpeningTypeOK, Passed, Begun, ScriptEnds, ScriptRefused, Close,
       Goes, Skips, tables
  <2> QED
    BY <2>1, <2>2
<1> QED
  BY <1>1, <1>3, <1>5, <1>6 DEF OpeningInv

\* The seeds add models and, where there are providers, links.
LEMMA StepsSeed ==
  ASSUME OpeningInv, NEW p \in Openers, FillModels(p) \/ FillLinks(p)
  PROVE  OpeningInv'
<1>1. UNCHANGED <<table, providers, endpoints, done, cut, skipped>> /\ OpeningTypeOK'
  BY DEF OpeningInv, OpeningTypeOK, Steps, FillModels, FillLinks, Goes
<1>2. \A q \in Openers : InScript(q)' <=> InScript(q)
  BY DEF OpeningInv, OpeningTypeOK, FillModels, FillLinks, Goes, InScript
<1>3. (models => models') /\ (links => links')
  <2>1. CASE FillModels(p)
    BY <2>1 DEF FillModels
  <2>2. CASE FillLinks(p)
    BY <2>2 DEF FillLinks
  <2> QED
    BY <2>1, <2>2
<1>4. ASSUME NEW q \in Openers PROVE Progress(q)'
  BY <1>1, <1>2 DEF OpeningInv, Progress
<1>5. ASSUME NEW q \in Openers PROVE Passed(q)'
  BY <1>1, <1>3 DEF OpeningInv, OpeningTypeOK, Passed, Begun, FillModels, FillLinks, Goes
<1> QED
  BY <1>1, <1>2, <1>4, <1>5 DEF OpeningInv, Begun, All, Under

LEMMA OpeningInductive == OpeningInv /\ [OpeningNext]_openVars => OpeningInv'
<1> SUFFICES ASSUME OpeningInv, [OpeningNext]_openVars PROVE OpeningInv'
  OBVIOUS
<1>1. CASE OpeningNext
  BY <1>1, StepsAside, StepsStatement, StepsEnd, StepsSeed DEF OpeningNext
<1>2. CASE UNCHANGED openVars
  BY <1>2 DEF openVars, OpeningInv, OpeningTypeOK, Progress, Passed, Begun, All, Under, InScript
<1> QED
  BY <1>1, <1>2

\* An open that passed over nothing finds the catalogue seeded when it returns
\* (CatalogueDB._ensure_schema), whoever else opened it, was refused or died.
THEOREM OpeningSeeds == OpeningSpec => []OpenedIsSeeded
<1>1. OpeningInv => OpenedIsSeeded
  BY DEF OpeningInv, Passed, Begun, All, Under, OpenedIsSeeded
<1> QED
  BY <1>1, OpeningInitial, OpeningInductive, PTL DEF OpeningSpec

-----------------------------------------------------------------------------
(* Allocation *)

Calls ==
  [pc : {"idle", "keys", "engine", "any", "any engine", "last", "last engine", "over"},
   wants : Range(Vendors) \cup {Unnamed}, model : BOOLEAN, keys : SUBSET Range(Vendors),
   outcome : {"none", "allocated", "refused", "error"}, provider : Range(Vendors) \cup {Unnamed},
   by : {"none", "named", "advice", "catalogue"}]

\* AllocatedIsBacked for one call.
Justified(o, met, kept) ==
  /\ o.outcome = "allocated" =>
       o.provider \in met /\ (o.by = "catalogue" => o.provider \in stocked)
  /\ o.outcome \in {"refused", "error"} =>
       IF o.wants = Unnamed THEN kept = {} \/ (o.outcome = "refused" /\ ~(met \subseteq stocked))
       ELSE o.wants \notin kept \/ (~o.model /\ o.wants \notin stocked)

\* What a call o holds, of the providers it met and those that were there all the time:
\* the keys it read are of providers it met, and only the engine can be missing.
Sound(o, met, kept) ==
  /\ o \in Calls /\ met \subseteq Range(Vendors)
  /\ o.pc # "over" => o.outcome = "none"
  /\ o.pc \in {"any", "any engine", "last", "last engine"} => o.wants = Unnamed
  /\ o.pc = "any engine" => o.keys = {}
  /\ o.pc \in {"engine", "any engine", "last engine"} => o.keys \subseteq met /\ kept \subseteq o.keys \cup {Engine}
  /\ Justified(o, met, kept)

AllocInv ==
  /\ keyed \subseteq Range(Vendors) \ {Engine}
  /\ choice = [c \in Choosers |-> choice[c]]
  /\ seen = [c \in Choosers |-> seen[c]] /\ always = [c \in Choosers |-> always[c]]
  /\ \A c \in Choosers : Sound(choice[c], seen[c], always[c])
  /\ \A c \in Choosers : choice[c].pc \notin {"idle", "over"} =>
       always[c] \subseteq Available /\ Available \subseteq seen[c]

LEMMA AvailableVendors ==
  ASSUME AllocInv
  PROVE  /\ Available \subseteq Range(Vendors) /\ Running \subseteq {Engine}
         /\ Running = {} => Engine \notin Available
  BY AllocationAssumption DEF AllocInv, Available, Running

\* A search through a list finds an element of the list and of the set.
LEMMA FirstFound ==
  ASSUME NEW V, NEW list \in Seq(V), NEW S, S \cap Range(list) # {}
  PROVE  First(list, S) \in S \cap Range(list)
<1> DEFINE at == {i \in DOMAIN list : list[i] \in S}
<1>1. at \in SUBSET Nat /\ \E i : i \in at
  <2>1. DOMAIN list \subseteq Nat
    OBVIOUS
  <2>2. PICK x \in DOMAIN list : list[x] \in S
    BY DEF Range
  <2> QED
    BY <2>1, <2>2
<1>2. PICK i \in at : \A j \in at : i <= j
  <2>1. at \subseteq Nat /\ at # {}
    BY <1>1
  <2> HIDE DEF at
  <2> QED
    BY <2>1, LeastNatural
<1>3. i \in DOMAIN list /\ list[i] \in S /\ \A j \in 1 .. i - 1 : list[j] \notin S
  BY <1>1, <1>2
<1>4. \E k \in DOMAIN list : list[k] \in S /\ \A j \in 1 .. k - 1 : list[j] \notin S
  BY <1>3
<1> DEFINE k == CHOOSE k \in DOMAIN list : list[k] \in S /\ \A j \in 1 .. k - 1 : list[j] \notin S
<1>5. k \in DOMAIN list /\ list[k] \in S
  BY <1>4
<1>6. First(list, S) = list[k]
  BY DEF First
<1> HIDE DEF k
<1> QED
  BY <1>5, <1>6 DEF Range

LEMMA AllocInitial == AllocInit => AllocInv
<1> SUFFICES ASSUME AllocInit PROVE AllocInv
  OBVIOUS
<1>1. \A c \in Choosers : choice[c] = Unasked /\ seen[c] = {} /\ always[c] = {}
  BY DEF AllocInit
<1>2. Sound(Unasked, {}, {}) /\ Unasked.pc = "idle"
  BY DEF Sound, Justified, Unasked, Calls
<1>3. keyed = {} /\ choice = [c \in Choosers |-> choice[c]]
      /\ seen = [c \in Choosers |-> seen[c]] /\ always = [c \in Choosers |-> always[c]]
  BY DEF AllocInit
<1> QED
  BY <1>1, <1>2, <1>3 DEF AllocInv

\* A step of a call, from what it reads.
LEMMA AllocMoves ==
  ASSUME AllocInv, NEW c \in Choosers, choice[c].pc \notin {"idle", "over"}, NEW new,
         choice' = [choice EXCEPT ![c] = new], UNCHANGED <<keyed, stocked, engine, seen, always>>,
         Sound(new, seen[c], always[c])
  PROVE  AllocInv'
  BY DEF AllocInv, Sound, Justified, Available, Running

LEMMA AllocAsked ==
  ASSUME AllocInv, NEW c \in Choosers, NEW p \in Range(Vendors) \cup {Unnamed}, NEW model \in BOOLEAN,
         Ask(c, p, model)
  PROVE  AllocInv'
<1> DEFINE new == [Unasked EXCEPT !.pc = "keys", !.wants = p, !.model = model]
<1>1. /\ choice' = [choice EXCEPT ![c] = new] /\ UNCHANGED <<keyed, stocked, engine>>
      /\ seen' = [seen EXCEPT ![c] = Available] /\ always' = [always EXCEPT ![c] = Available]
  BY DEF Ask
<1>2. Sound(new, Available, Available)
  BY AvailableVendors DEF Sound, Justified, Unasked, Calls
<1> HIDE DEF new
<1>3. Available' = Available
  BY <1>1 DEF Available, Running
<1>4. \A o, met, kept : Sound(o, met, kept)' <=> Sound(o, met, kept)
  BY <1>1 DEF Sound, Justified
<1>5. \A d \in Choosers \ {c} : choice'[d] = choice[d] /\ seen'[d] = seen[d] /\ always'[d] = always[d]
  BY <1>1 DEF AllocInv
<1>6. choice'[c] = new /\ seen'[c] = Available /\ always'[c] = Available
  BY <1>1 DEF AllocInv
<1> QED
  BY <1>1, <1>2, <1>3, <1>4, <1>5, <1>6 DEF AllocInv

\* Reading the keys, and the answer of the engine.
LEMMA AllocReads ==
  ASSUME AllocInv, NEW c \in Choosers, ReadKeys(c)
  PROVE  AllocInv'
<1> DEFINE pc  == CASE choice[c].pc = "keys" -> "engine"
                    [] choice[c].pc = "any"  -> IF keyed # {} THEN "last" ELSE "any engine"
                    [] OTHER                 -> "last engine"
           new == [choice[c] EXCEPT !.keys = keyed, !.pc = pc]
<1>1. /\ choice[c].pc \in {"keys", "any", "last"} /\ UNCHANGED <<keyed, stocked, engine, seen, always>>
      /\ choice' = [choice EXCEPT ![c] = new]
  BY DEF ReadKeys, AllocInv, Sound, Calls
<1>2. /\ choice[c].pc = "keys" => pc = "engine"
      /\ choice[c].pc = "any" => pc \in {"last", "any engine"} /\ (pc = "any engine" => keyed = {})
      /\ choice[c].pc = "last" => pc = "last engine"
  OBVIOUS
<1>3. Sound(choice[c], seen[c], always[c]) /\ always[c] \subseteq Available /\ Available \subseteq seen[c]
  BY <1>1 DEF AllocInv
<1>4. keyed \in SUBSET Range(Vendors) /\ keyed \subseteq seen[c] /\ always[c] \subseteq keyed \cup {Engine}
  BY <1>3, AvailableVendors DEF AllocInv, Available
<1> HIDE DEF pc
<1>5. Sound(new, seen[c], always[c])
  BY <1>1, <1>2, <1>3, <1>4 DEF Sound, Justified, Calls
<1> HIDE DEF new
<1> QED
  BY <1>1, <1>5, AllocMoves

\* A provider that was met is a sound decision.
LEMMA AllocDecided ==
  ASSUME AllocInv, NEW c \in Choosers, choice[c].pc # "over", NEW p \in seen[c],
         NEW by \in {"named", "advice", "catalogue"}, by = "catalogue" => p \in stocked
  PROVE  Sound(Decided(c, p, by), seen[c], always[c])
<1>1. Sound(choice[c], seen[c], always[c])
  BY DEF AllocInv
<1> QED
  BY <1>1 DEF Decided, Sound, Justified, Calls

LEMMA AllocRefused ==
  ASSUME AllocInv, NEW c \in Choosers, choice[c].pc # "over", NEW outcome \in {"refused", "error"},
         IF choice[c].wants = Unnamed THEN always[c] = {} \/ (outcome = "refused" /\ ~(seen[c] \subseteq stocked))
         ELSE choice[c].wants \notin always[c] \/ (~choice[c].model /\ choice[c].wants \notin stocked)
  PROVE  Sound(Over(c, outcome), seen[c], always[c])
<1>1. Sound(choice[c], seen[c], always[c])
  BY DEF AllocInv
<1> QED
  BY <1>1 DEF Over, Sound, Justified, Calls

\* What a call sees offers it met; if it sees nothing, nothing was there all the time.
LEMMA AllocSeen ==
  ASSUME AllocInv, NEW c \in Choosers, choice[c].pc \in {"engine", "any engine", "last engine"}
  PROVE  /\ choice[c].keys \cup Running \subseteq seen[c]
         /\ always[c] \subseteq choice[c].keys \cup Running
         /\ choice[c].keys \cup Running \subseteq Range(Vendors)
<1>1. /\ Sound(choice[c], seen[c], always[c]) /\ always[c] \subseteq Available /\ Available \subseteq seen[c]
  BY DEF AllocInv
<1>2. choice[c].keys \subseteq seen[c] /\ always[c] \subseteq choice[c].keys \cup {Engine}
      /\ seen[c] \subseteq Range(Vendors)
  BY <1>1 DEF Sound
<1>3. Running \subseteq seen[c] /\ (Engine \in always[c] => Engine \in Running)
  BY <1>1, AvailableVendors DEF Available, Running
<1> QED
  BY <1>2, <1>3

LEMMA AllocWanted ==
  ASSUME AllocInv, NEW c \in Choosers, ChooseWanted(c)
  PROVE  AllocInv'
<1> DEFINE p == choice[c].wants
           new == IF p \notin choice[c].keys \cup Running THEN Over(c, "refused")
                  ELSE IF choice[c].model THEN Decided(c, p, "named")
                  ELSE Pick(c, p, Over(c, "refused"))
<1>1. /\ choice[c].pc = "engine" /\ p # Unnamed /\ choice' = [choice EXCEPT ![c] = new]
      /\ UNCHANGED <<keyed, stocked, engine, seen, always>>
  BY DEF ChooseWanted
<1>2. Sound(new, seen[c], always[c])
  <2>1. CASE p \notin choice[c].keys \cup Running
    <3>1. Sound(Over(c, "refused"), seen[c], always[c])
      BY <1>1, <2>1, AllocSeen, AllocRefused
    <3> QED
      BY <2>1, <3>1
  <2>2. CASE p \in choice[c].keys \cup Running /\ (choice[c].model \/ p \in stocked)
    <3>1. p \in seen[c]
      BY <1>1, <2>2, AllocSeen
    <3>2. Sound(Decided(c, p, "named"), seen[c], always[c])
      BY <1>1, <3>1, AllocDecided
    <3>3. p \in stocked => Sound(Decided(c, p, "catalogue"), seen[c], always[c])
      BY <1>1, <3>1, AllocDecided
    <3> QED
      BY <2>2, <3>2, <3>3 DEF Pick
  <2>3. CASE p \in choice[c].keys \cup Running /\ ~choice[c].model /\ p \notin stocked
    <3>1. Sound(Over(c, "refused"), seen[c], always[c])
      BY <1>1, <2>3, AllocRefused
    <3> QED
      BY <2>3, <3>1 DEF Pick
  <2> QED
    BY <2>1, <2>2, <2>3
<1> HIDE DEF new
<1> QED
  BY <1>1, <1>2, AllocMoves

LEMMA AllocRecommended ==
  ASSUME AllocInv, NEW c \in Choosers, Recommend(c)
  PROVE  AllocInv'
<1> DEFINE offers == choice[c].keys \cup Running
           resort    == [choice[c] EXCEPT !.pc = "any"]
           new       == IF Advised(offers) # {} THEN Decided(c, First(Advice, Advised(offers)), "advice")
                        ELSE IF offers # {} THEN Pick(c, First(Vendors, offers), resort)
                        ELSE resort
<1>1. /\ choice[c].pc = "engine" /\ choice[c].wants = Unnamed /\ choice' = [choice EXCEPT ![c] = new]
      /\ UNCHANGED <<keyed, stocked, engine, seen, always>>
  BY DEF Recommend
<1>2. offers \subseteq seen[c] /\ offers \subseteq Range(Vendors)
  BY <1>1, AllocSeen
<1>3. Sound(resort, seen[c], always[c])
  <2>1. Sound(choice[c], seen[c], always[c])
    BY DEF AllocInv
  <2> QED
    BY <1>1, <2>1 DEF Sound, Justified, Calls
<1> HIDE DEF offers, resort
<1>4. CASE Advised(offers) # {}
  <2>1. Advised(offers) \cap Range(Advice) # {} /\ Advised(offers) \subseteq offers
    BY <1>4 DEF Advised
  <2>2. First(Advice, Advised(offers)) \in seen[c]
    BY <1>2, <2>1, FirstFound, AllocationAssumption
  <2>3. Sound(Decided(c, First(Advice, Advised(offers)), "advice"), seen[c], always[c])
    BY <1>1, <2>2, AllocDecided
  <2>4. Sound(new, seen[c], always[c])
    BY <1>4, <2>3
  <2> HIDE DEF new
  <2> QED
    BY <1>1, <2>4, AllocMoves
<1>5. CASE Advised(offers) = {} /\ offers # {}
  <2> DEFINE p == First(Vendors, offers)
  <2>1. offers \cap Range(Vendors) # {}
    BY <1>2, <1>5
  <2>2. p \in seen[c]
    BY <1>2, <2>1, FirstFound, AllocationAssumption
  <2>3. p \in stocked => Sound(Decided(c, p, "catalogue"), seen[c], always[c])
    BY <1>1, <2>2, AllocDecided
  <2>4. Sound(new, seen[c], always[c])
    BY <1>3, <1>5, <2>3 DEF Pick
  <2> HIDE DEF new
  <2> QED
    BY <1>1, <2>4, AllocMoves
<1>6. CASE Advised(offers) = {} /\ offers = {}
  <2>1. Sound(new, seen[c], always[c])
    BY <1>3, <1>6
  <2> HIDE DEF new
  <2> QED
    BY <1>1, <2>1, AllocMoves
<1> QED
  BY <1>4, <1>5, <1>6

\* The last resort: the engine, then the first provider there is.
LEMMA AllocResorts ==
  ASSUME AllocInv, NEW c \in Choosers, AnyEngine(c) \/ LastResort(c)
  PROVE  AllocInv'
<1>1. choice[c].pc \in {"any engine", "last engine"} /\ UNCHANGED <<keyed, stocked, engine, seen, always>>
  BY DEF AnyEngine, LastResort
<1>2. Sound(choice[c], seen[c], always[c]) /\ choice[c].wants = Unnamed
  BY <1>1 DEF AllocInv, Sound
<1>3. /\ choice[c].keys \cup Running \subseteq seen[c]
      /\ choice[c].keys \cup Running = {} => always[c] = {}
  BY <1>1, AllocSeen
<1>4. CASE AnyEngine(c)
  <2> DEFINE new == IF Running # {} THEN [choice[c] EXCEPT !.pc = "last"] ELSE Over(c, "refused")
  <2>1. choice' = [choice EXCEPT ![c] = new] /\ choice[c].pc = "any engine"
    BY <1>4 DEF AnyEngine
  <2>2. choice[c].keys = {}
    BY <1>2, <2>1 DEF Sound
  <2>3. Sound([choice[c] EXCEPT !.pc = "last"], seen[c], always[c])
    BY <1>2, <2>1 DEF Sound, Justified, Calls
  <2>4. Running = {} => Sound(Over(c, "refused"), seen[c], always[c])
    BY <1>1, <1>2, <1>3, <2>2, AllocRefused
  <2>5. Sound(new, seen[c], always[c])
    BY <2>3, <2>4
  <2> HIDE DEF new
  <2> QED
    BY <1>1, <2>1, <2>5, AllocMoves
<1>5. CASE LastResort(c)
  <2> DEFINE found == IF choice[c].keys # {} THEN choice[c].keys ELSE Running
  <2>1. found \subseteq seen[c] /\ (found = {} => always[c] = {})
    BY <1>3
  <2>2. \/ found = {} /\ choice' = [choice EXCEPT ![c] = Over(c, "error")]
        \/ \E p \in found : choice' = [choice EXCEPT ![c] = Pick(c, p, Over(c, "refused"))]
    BY <1>5 DEF LastResort
  <2> HIDE DEF found
  <2>3. CASE found = {} /\ choice' = [choice EXCEPT ![c] = Over(c, "error")]
    <3>1. Sound(Over(c, "error"), seen[c], always[c])
      BY <1>1, <1>2, <2>1, <2>3, AllocRefused
    <3> QED
      BY <1>1, <2>3, <3>1, AllocMoves
  <2>4. ASSUME NEW p \in found, choice' = [choice EXCEPT ![c] = Pick(c, p, Over(c, "refused"))]
        PROVE  AllocInv'
    <3>1. p \in stocked => Sound(Decided(c, p, "catalogue"), seen[c], always[c])
      BY <1>1, <2>1, AllocDecided
    <3>2. p \notin stocked => Sound(Over(c, "refused"), seen[c], always[c])
      BY <1>1, <1>2, <2>1, AllocRefused
    <3>3. Sound(Pick(c, p, Over(c, "refused")), seen[c], always[c])
      BY <3>1, <3>2 DEF Pick
    <3> QED
      BY <1>1, <2>4, <3>3, AllocMoves
  <2> QED
    BY <2>2, <2>3, <2>4
<1> QED
  BY <1>4, <1>5

LEMMA AllocReturned ==
  ASSUME AllocInv, NEW c \in Choosers, Return(c)
  PROVE  AllocInv'
<1>1. choice' = [choice EXCEPT ![c] = Unasked] /\ UNCHANGED <<keyed, stocked, engine, seen, always>>
  BY DEF Return
<1>2. Sound(choice[c], seen[c], always[c])
  BY DEF AllocInv
<1>3. Sound(Unasked, seen[c], always[c]) /\ Unasked.pc = "idle"
  BY <1>2 DEF Sound, Justified, Unasked, Calls
<1>4. \A o, met, kept : Sound(o, met, kept)' <=> Sound(o, met, kept)
  BY <1>1 DEF Sound, Justified
<1>5. Available' = Available
  BY <1>1 DEF Available, Running
<1> QED
  BY <1>1, <1>3, <1>4, <1>5 DEF AllocInv

\* Keys and the engine come and go under the calls.
LEMMA AllocNoticed ==
  ASSUME AllocInv, Noticed, keyed' \subseteq Range(Vendors) \ {Engine}
  PROVE  AllocInv'
<1>1. /\ UNCHANGED <<stocked, choice>>
      /\ seen' = [c \in Choosers |-> IF choice[c].pc \in {"idle", "over"} THEN seen[c] ELSE seen[c] \cup Available']
      /\ always' = [c \in Choosers |-> IF choice[c].pc \in {"idle", "over"} THEN always[c]
                                       ELSE always[c] \cap Available']
  BY DEF Noticed
<1>2. Available' \subseteq Range(Vendors)
  BY AllocationAssumption DEF Available, Running
<1>3. ASSUME NEW c \in Choosers PROVE Sound(choice[c], seen[c], always[c])'
  <2>1. Sound(choice[c], seen[c], always[c])
    BY DEF AllocInv
  <2>2. CASE choice[c].pc \in {"idle", "over"}
    BY <1>1, <2>1, <2>2 DEF Sound, Justified
  <2>3. CASE choice[c].pc \notin {"idle", "over"}
    <3>1. seen'[c] = seen[c] \cup Available' /\ always'[c] = always[c] \cap Available' /\ choice'[c] = choice[c]
      BY <1>1, <2>3
    <3> HIDE DEF Available
    <3> QED
      BY <1>2, <2>1, <2>3, <3>1 DEF Sound, Justified
  <2> QED
    BY <2>2, <2>3
<1>4. ASSUME NEW c \in Choosers, choice[c].pc \notin {"idle", "over"}
      PROVE  always'[c] \subseteq Available' /\ Available' \subseteq seen'[c]
  BY <1>1, <1>4
<1> QED
  BY <1>1, <1>3, <1>4 DEF AllocInv

LEMMA AllocInductive == AllocInv /\ [AllocNext]_allocVars => AllocInv'
<1> SUFFICES ASSUME AllocInv, [AllocNext]_allocVars PROVE AllocInv'
  OBVIOUS
<1>1. CASE UNCHANGED allocVars
  BY <1>1 DEF allocVars, AllocInv, Sound, Justified, Available, Running
<1>2. ASSUME NEW p \in Range(Vendors) \ {Engine}, ChangeKeyOf(p) PROVE AllocInv'
  BY <1>2, AllocNoticed DEF ChangeKeyOf, AllocInv
<1>3. CASE StartEngine \/ (\E x \in engine.starting : OpenPort(x)) \/ StopEngine \/ ChangeEngine
  <2>1. Noticed /\ keyed' = keyed
    BY <1>3 DEF StartEngine, OpenPort, StopEngine, ChangeEngine
  <2> QED
    BY <2>1, AllocNoticed DEF AllocInv
<1> QED
  BY <1>1, <1>2, <1>3, AllocAsked, AllocReads, AllocWanted, AllocRecommended, AllocResorts, AllocReturned
     DEF AllocNext

\* allocate: whatever keys and engines do between its reads, a provider it returns was
\* available since it began and serves a model, unless named or recommended, and it
\* refuses only for a reason; for any providers, recommendations and calls.
THEOREM AllocationsAreBacked == AllocSpec => []AllocatedIsBacked
<1>1. AllocInv => AllocatedIsBacked
  BY DEF AllocInv, Sound, Justified, AllocatedIsBacked
<1> QED
  BY <1>1, AllocInitial, AllocInductive, PTL DEF AllocSpec

-----------------------------------------------------------------------------
(* RateLimits: the events of a list after a time *)

\* k goes through the first n entries of a list.
Scans(k, times, t, n) ==
  k = [i \in 0 .. n |->
         IF i = 0 THEN <<>>
         ELSE IF times[i] > t THEN Append(k[i - 1], times[i]) ELSE k[i - 1]]

LEMMA ScansOnwards ==
  ASSUME NEW times \in Seq(Int), NEW t \in Int, NEW n \in 0 .. Len(times)
  PROVE  \E k : Scans(k, times, t, n)
<1> DEFINE bad == {m \in 0 .. Len(times) : ~ \E k : Scans(k, times, t, m)}
<1> SUFFICES bad = {}
  OBVIOUS
<1> SUFFICES ASSUME bad # {} PROVE FALSE
  OBVIOUS
<1>1. PICK m \in bad : \A j \in bad : m <= j
  <2>1. bad \subseteq Nat
    OBVIOUS
  <2> HIDE DEF bad
  <2> QED
    BY <2>1, LeastNatural
<1>2. CASE m = 0
  <2> DEFINE k == [i \in 0 .. 0 |-> <<>>]
  <2>1. Scans(k, times, t, 0)
    BY DEF Scans
  <2> QED
    BY <1>1, <1>2, <2>1
<1>3. CASE m # 0
  <2>1. m - 1 \in 0 .. Len(times) /\ m - 1 \notin bad /\ m \in Nat
    BY <1>1, <1>3
  <2>2. PICK k : Scans(k, times, t, m - 1)
    BY <2>1
  <2> DEFINE next == IF times[m] > t THEN Append(k[m - 1], times[m]) ELSE k[m - 1]
             j == [i \in 0 .. m |-> IF i = m THEN next ELSE k[i]]
  <2>3. ASSUME NEW i \in 0 .. m
        PROVE  j[i] = IF i = 0 THEN <<>> ELSE IF times[i] > t THEN Append(j[i - 1], times[i]) ELSE j[i - 1]
    <3>1. CASE i = m
      <4>1. j[i] = next /\ j[i - 1] = k[m - 1] /\ i # 0
        BY <1>3, <2>1, <3>1
      <4> QED
        BY <3>1, <4>1
    <3>2. CASE i # m
      <4>1. i \in 0 .. m - 1 /\ (i # 0 => i - 1 \in 0 .. m /\ i - 1 # m)
        BY <2>1, <3>2
      <4>2. j[i] = k[i] /\ (i # 0 => j[i - 1] = k[i - 1])
        BY <3>2, <4>1
      <4>3. k[i] = IF i = 0 THEN <<>> ELSE IF times[i] > t THEN Append(k[i - 1], times[i]) ELSE k[i - 1]
        BY <2>2, <4>1 DEF Scans
      <4> QED
        BY <4>2, <4>3
    <3> QED
      BY <3>1, <3>2
  <2>4. j = [i \in 0 .. m |-> j[i]]
    OBVIOUS
  <2> HIDE DEF j
  <2>5. Scans(j, times, t, m)
    BY <2>3, <2>4 DEF Scans
  <2> QED
    BY <1>1, <2>5
<1> QED
  BY <1>2, <1>3

Alike(a, b, n) == \A i \in 1 .. n : a[i] = b[i]

\* Two lists that begin alike are gone through alike.
LEMMA ScansAlike ==
  ASSUME NEW t \in Int, NEW n \in Nat, NEW m \in Nat, n <= m, NEW a, NEW b,
         NEW j, NEW k, Alike(a, b, n), Scans(j, a, t, n), Scans(k, b, t, m)
  PROVE  j[n] = k[n]
<1> DEFINE bad == {i \in 0 .. n : j[i] # k[i]}
<1> SUFFICES ASSUME bad # {} PROVE FALSE
  OBVIOUS
<1>1. PICK i \in bad : \A h \in bad : i <= h
  <2>1. bad \subseteq Nat
    OBVIOUS
  <2> HIDE DEF bad
  <2> QED
    BY <2>1, LeastNatural
<1>2. i \in 0 .. n /\ i \in 0 .. m /\ j[i] # k[i]
  BY <1>1
<1>3. /\ j[i] = IF i = 0 THEN <<>> ELSE IF a[i] > t THEN Append(j[i - 1], a[i]) ELSE j[i - 1]
      /\ k[i] = IF i = 0 THEN <<>> ELSE IF b[i] > t THEN Append(k[i - 1], b[i]) ELSE k[i - 1]
  BY <1>2 DEF Scans
<1>4. i # 0
  BY <1>2, <1>3
<1>5. i - 1 \in 0 .. n /\ i \in 1 .. n /\ i - 1 \notin bad
  BY <1>1, <1>2, <1>4
<1>6. j[i - 1] = k[i - 1] /\ a[i] = b[i]
  BY <1>5 DEF Alike
<1> QED
  BY <1>2, <1>3, <1>4, <1>6

LEMMA SinceScans ==
  ASSUME NEW times \in Seq(Int), NEW t \in Int
  PROVE  \E k : Scans(k, times, t, Len(times)) /\ Since(times, t) = k[Len(times)]
<1> DEFINE kept == CHOOSE k : Scans(k, times, t, Len(times))
<1>1. \E k : Scans(k, times, t, Len(times))
  BY ScansOnwards
<1>2. Scans(kept, times, t, Len(times))
  BY <1>1
<1>3. Since(times, t) = kept[Len(times)]
  BY DEF Since, Scans
<1> QED
  BY <1>2, <1>3

LEMMA SinceNone == ASSUME NEW t \in Int PROVE Since(<<>>, t) = <<>>
<1> DEFINE none == <<>>
<1>1. none \in Seq(Int) /\ Len(none) = 0
  OBVIOUS
<1> HIDE DEF none
<1>2. PICK k : Scans(k, none, t, Len(none)) /\ Since(none, t) = k[Len(none)]
  BY <1>1, SinceScans
<1>3. k[0] = <<>>
  BY <1>1, <1>2 DEF Scans
<1> QED
  BY <1>1, <1>2, <1>3 DEF none

LEMMA SinceAppend ==
  ASSUME NEW times \in Seq(Int), NEW e \in Int, NEW t \in Int
  PROVE  Since(Append(times, e), t) = IF e > t THEN Append(Since(times, t), e) ELSE Since(times, t)
<1> DEFINE n == Len(times)  more == Append(times, e)
<1>1. more \in Seq(Int) /\ Len(more) = n + 1 /\ n \in Nat /\ more[n + 1] = e /\ \A i \in 1 .. n : times[i] = more[i]
  OBVIOUS
<1> HIDE DEF more
<1>2. PICK j : Scans(j, times, t, Len(times)) /\ Since(times, t) = j[Len(times)]
  BY SinceScans
<1>3. PICK k : Scans(k, more, t, Len(more)) /\ Since(more, t) = k[Len(more)]
  BY <1>1, SinceScans
<1> DEFINE m == n + 1
<1>4. /\ Scans(j, times, t, n) /\ Scans(k, more, t, m) /\ Since(times, t) = j[n] /\ Since(more, t) = k[m]
      /\ n \in Nat /\ m \in Nat /\ n <= m /\ m \in 0 .. m /\ m # 0 /\ m - 1 = n /\ more[m] = e
  BY <1>1, <1>2, <1>3
<1> HIDE DEF n, m
<1>5. j[n] = k[n]
  <2>1. Alike(times, more, n)
    BY <1>1 DEF Alike
  <2> QED
    BY <1>4, <2>1, ScansAlike
<1>6. k[m] = IF more[m] > t THEN Append(k[m - 1], more[m]) ELSE k[m - 1]
  BY <1>4 DEF Scans
<1> QED
  BY <1>4, <1>5, <1>6 DEF more

Upto(times, u) == \A i \in DOMAIN times : times[i] <= u

\* What Since keeps of a list.
Keeps(times, t) ==
  LET kept == Since(times, t) IN
  /\ kept \in Seq(Int) /\ Len(kept) <= Len(times)
  /\ \A i \in DOMAIN kept : kept[i] > t
  /\ \A u \in Int : Upto(times, u) => Upto(kept, u)
  /\ \A s \in Int : t <= s => Since(kept, s) = Since(times, s)

LEMMA KeepsAppend ==
  ASSUME NEW times \in Seq(Int), NEW e \in Int, NEW t \in Int, Keeps(times, t)
  PROVE  Keeps(Append(times, e), t)
<1> DEFINE more == Append(times, e)  kept == Since(times, t)  last == Since(more, t)
<1>1. /\ kept \in Seq(Int) /\ Len(kept) <= Len(times) /\ \A i \in DOMAIN kept : kept[i] > t
      /\ \A u \in Int : Upto(times, u) => Upto(kept, u)
      /\ \A s \in Int : t <= s => Since(kept, s) = Since(times, s)
  BY DEF Keeps
<1>2. last = IF e > t THEN Append(kept, e) ELSE kept
  BY SinceAppend
<1>3. /\ more \in Seq(Int) /\ Len(more) = Len(times) + 1 /\ DOMAIN more = 1 .. Len(times) + 1
      /\ \A i \in DOMAIN times : i \in DOMAIN more /\ more[i] = times[i]
      /\ Len(times) + 1 \in DOMAIN more /\ more[Len(times) + 1] = e
  OBVIOUS
<1>4. \A u \in Int : Upto(more, u) => Upto(times, u) /\ e <= u
  BY <1>3 DEF Upto
<1>5. \A s \in Int : Since(more, s) = IF e > s THEN Append(Since(times, s), e) ELSE Since(times, s)
  BY SinceAppend
<1> HIDE DEF kept, last, more
<1>6. CASE e > t
  <2>1. /\ last = Append(kept, e) /\ last \in Seq(Int) /\ Len(last) = Len(kept) + 1
        /\ DOMAIN last = 1 .. Len(kept) + 1 /\ last[Len(kept) + 1] = e
        /\ \A i \in 1 .. Len(kept) : last[i] = kept[i]
    BY <1>1, <1>2, <1>6
  <2>2. \A i \in DOMAIN last : i = Len(kept) + 1 \/ (i \in DOMAIN kept /\ i \in 1 .. Len(kept))
    BY <1>1, <2>1
  <2>3. \A i \in DOMAIN last : last[i] > t
    BY <1>1, <1>6, <2>1, <2>2
  <2>4. ASSUME NEW u \in Int, Upto(more, u) PROVE Upto(last, u)
    BY <1>1, <1>4, <2>1, <2>2, <2>4 DEF Upto
  <2>5. ASSUME NEW s \in Int, t <= s PROVE Since(last, s) = Since(more, s)
    <3>1. Since(last, s) = IF e > s THEN Append(Since(kept, s), e) ELSE Since(kept, s)
      BY <1>1, <2>1, SinceAppend
    <3> QED
      BY <1>1, <1>5, <2>5, <3>1
  <2>6. Len(last) <= Len(more)
    BY <1>1, <1>3, <2>1
  <2> QED
    BY <2>1, <2>3, <2>4, <2>5, <2>6 DEF Keeps, last, more
<1>7. CASE ~(e > t)
  <2>1. last = kept
    BY <1>2, <1>7
  <2>2. ASSUME NEW s \in Int, t <= s PROVE Since(last, s) = Since(more, s)
    BY <1>1, <1>5, <1>7, <2>1, <2>2
  <2>3. Len(last) <= Len(more)
    BY <1>1, <1>3, <2>1
  <2> QED
    BY <1>1, <1>4, <2>1, <2>2, <2>3 DEF Keeps, last, more
<1> QED
  BY <1>6, <1>7

LEMMA SinceKeeps ==
  ASSUME NEW l \in Seq(Int), NEW t \in Int
  PROVE  Keeps(l, t)
<1> DEFINE bad == {n \in Nat : \E times \in Seq(Int) : Len(times) = n /\ ~Keeps(times, t)}
<1> SUFFICES ASSUME bad # {} PROVE FALSE
  OBVIOUS
<1>1. PICK n \in bad : \A m \in bad : n <= m
  <2>1. bad \subseteq Nat
    OBVIOUS
  <2> HIDE DEF bad
  <2> QED
    BY <2>1, LeastNatural
<1>2. PICK times \in Seq(Int) : Len(times) = n /\ ~Keeps(times, t)
  BY <1>1
<1>3. CASE times = <<>>
  <2>1. Since(times, t) = times /\ \A s \in Int : Since(times, s) = times
    BY <1>3, SinceNone
  <2>2. DOMAIN times = {} /\ Len(times) = 0
    BY <1>3
  <2>3. \A i \in DOMAIN times : times[i] > t
    BY <2>2
  <2>4. Keeps(times, t)
    BY <2>1, <2>2, <2>3 DEF Keeps
  <2> QED
    BY <1>2, <2>4
<1>4. CASE times # <<>>
  <2>1. PICK front \in Seq(Int), e \in Int : times = Append(front, e)
    BY <1>4, SequenceEmptyOrAppend
  <2>2. Len(front) \in Nat /\ Len(front) < n
    BY <1>2, <2>1
  <2>3. Keeps(front, t)
    BY <1>1, <2>2
  <2>4. Keeps(times, t)
    BY <2>1, <2>3, KeepsAppend
  <2> QED
    BY <1>2, <2>4
<1> QED
  BY <1>3, <1>4

\* How many events of a list come after a time.
After(times, t) == Len(Since(times, t))

LEMMA AfterCounts ==
  ASSUME NEW times \in Seq(Int), NEW t \in Int
  PROVE  /\ After(times, t) \in Nat /\ After(times, t) <= Len(times)
         /\ \A s \in Int : t <= s => /\ After(times, s) \in Nat /\ After(times, s) <= After(times, t)
                                      /\ After(Since(times, t), s) = After(times, s)
         /\ Upto(times, t) => Since(times, t) = <<>> /\ After(times, t) = 0
<1>1. Keeps(times, t) /\ Since(times, t) \in Seq(Int)
  BY SinceKeeps DEF Keeps
<1>2. ASSUME NEW s \in Int, t <= s
      PROVE  /\ After(times, s) \in Nat /\ After(times, s) <= After(times, t)
             /\ After(Since(times, t), s) = After(times, s)
  <2>1. Since(Since(times, t), s) = Since(times, s)
    BY <1>1, <1>2 DEF Keeps
  <2>2. Keeps(Since(times, t), s)
    BY <1>1, SinceKeeps
  <2> QED
    BY <2>1, <2>2 DEF Keeps, After
<1>3. ASSUME Upto(times, t) PROVE Since(times, t) = <<>>
  <2>1. Upto(Since(times, t), t) /\ \A i \in DOMAIN Since(times, t) : Since(times, t)[i] > t
    BY <1>1, <1>3 DEF Keeps
  <2>2. \A i \in DOMAIN Since(times, t) : Since(times, t)[i] \in Int
    BY <1>1
  <2>3. 1 \notin DOMAIN Since(times, t)
    BY <2>1, <2>2 DEF Upto
  <2> DEFINE kept == Since(times, t)
  <2>4. kept \in Seq(Int) /\ 1 \notin DOMAIN kept
    BY <1>1, <2>3
  <2> HIDE DEF kept
  <2>5. kept = <<>>
    BY <2>4
  <2> QED
    BY <2>5 DEF kept
<1>4. After(times, t) \in Nat /\ After(times, t) <= Len(times)
  BY <1>1 DEF Keeps, After
<1>5. Since(times, t) = <<>> => After(times, t) = 0
  BY DEF After
<1> QED
  BY <1>2, <1>3, <1>4, <1>5

LEMMA AfterAppend ==
  ASSUME NEW times \in Seq(Int), NEW e \in Int, NEW t \in Int
  PROVE  After(Append(times, e), t) = After(times, t) + IF e > t THEN 1 ELSE 0
<1>1. Since(times, t) \in Seq(Int)
  BY SinceKeeps DEF Keeps
<1>2. CASE e > t
  <2>1. Since(Append(times, e), t) = Append(Since(times, t), e)
    BY <1>2, SinceAppend
  <2> QED
    BY <1>1, <1>2, <2>1 DEF After
<1>3. CASE ~(e > t)
  <2>1. Since(Append(times, e), t) = Since(times, t)
    BY <1>3, SinceAppend
  <2> QED
    BY <1>1, <1>3, <2>1 DEF After
<1> QED
  BY <1>2, <1>3

-----------------------------------------------------------------------------
(* RateLimits: the two checks *)

LimitShape ==
  /\ now \in Int /\ sweptAt \in Int
  /\ events = [w \in Windows |-> events[w]] /\ admitted = [w \in Windows |-> admitted[w]]
  /\ \A w \in Windows : events[w] \in Seq(Int) /\ admitted[w] \in Seq(Int)

\* The last event of a list is at most a unit older than any.
Recent(list, time) == Upto(list, time) /\ (list # <<>> => Upto(list, LastOf(list) + 1))

\* What passed is still in the list, and does not exceed the limit.
Held(passed, list, from) == \A s \in Int : from <= s => After(passed, s) <= After(list, s)

LimitInv ==
  /\ LimitShape /\ "minute" \notin forgotten
  /\ \A w \in Windows : Recent(events[w], now)
  /\ \A w \in Windows \ forgotten :
       /\ Held(admitted[w], events[w], now - Window[w])
       /\ After(admitted[w], now - Window[w]) <= Most[w]

LEMMA LimitInitial == LimitInit => LimitInv
<1> SUFFICES ASSUME LimitInit PROVE LimitInv
  OBVIOUS
<1> DEFINE none == <<>>
<1>1. /\ now \in Int /\ sweptAt \in Int /\ forgotten = {}
      /\ events = [w \in Windows |-> none] /\ admitted = [w \in Windows |-> none]
  BY LimitsAssumption DEF LimitInit
<1>2. none \in Seq(Int) /\ DOMAIN none = {} /\ Len(none) = 0
  OBVIOUS
<1>3. \A s \in Int : After(none, s) \in Nat /\ After(none, s) <= 0
  BY <1>2, AfterCounts
<1>4. \A w \in Windows : Window[w] \in Nat /\ Most[w] \in Nat /\ now - Window[w] \in Int
  BY <1>1, LimitsAssumption
<1>5. Recent(none, now)
  BY <1>2 DEF Recent, Upto
<1> HIDE DEF none
<1>6. \A w \in Windows : events[w] = none /\ admitted[w] = none
  BY <1>1
<1>7. LimitShape
  BY <1>1, <1>2, <1>6 DEF LimitShape
<1>8. ASSUME NEW w \in Windows
      PROVE  /\ Held(admitted[w], events[w], now - Window[w])
             /\ After(admitted[w], now - Window[w]) <= Most[w]
  <2>1. After(none, now - Window[w]) <= Most[w]
    BY <1>3, <1>4
  <2> QED
    BY <1>3, <1>6, <2>1 DEF Held
<1> QED
  BY <1>1, <1>5, <1>6, <1>7, <1>8 DEF LimitInv

\* What a sweep leaves of a list: all of it, or nothing when the events it drops count no
\* more, or else the list is forgotten. The minute's list never is: what it drops is
\* older than twice the interval.
LEMMA Sweeps ==
  ASSUME LimitInv, NEW t \in {now - 1, now}, Swept(t), NEW w \in Windows
  PROVE  LET list == AfterSweep(t)[w] IN
         /\ sweptAt' \in Int /\ "minute" \notin forgotten' /\ t \in Int /\ t - Window[w] \in Int
         /\ list \in Seq(Int) /\ Recent(list, now)
         /\ w \notin forgotten' =>
              /\ w \notin forgotten
              /\ \A s \in Int : t - Window[w] <= s => After(list, s) = After(events[w], s)
<1> DEFINE list == AfterSweep(t)[w]
<1>1. /\ t \in Int /\ t <= now /\ now \in Int /\ Interval \in Nat
      /\ \A v \in Windows : Window[v] \in Nat /\ t - Window[v] \in Int
  <2>1. now \in Int
    BY DEF LimitInv, LimitShape
  <2>2. t \in Int /\ t <= now
    BY <2>1
  <2> QED
    BY <2>1, <2>2, LimitsAssumption
<1>2. sweptAt' \in Int
  BY <1>1 DEF Swept, LimitInv, LimitShape
<1>3. events[w] \in Seq(Int) /\ Recent(events[w], now)
  BY DEF LimitInv, LimitShape
<1>4. "minute" \notin forgotten'
  <2>1. CASE ~SweepDue(t)
    BY <2>1 DEF Swept, LimitInv
  <2>2. CASE SweepDue(t)
    <3> SUFFICES ASSUME "minute" \in forgotten' PROVE FALSE
      OBVIOUS
    <3> DEFINE l == events["minute"]
    <3>1. l # <<>> /\ LastOf(l) < t - 2 * Interval /\ Since(l, t - Window["minute"]) # <<>>
      BY <2>2 DEF Swept, LimitInv, IdleLists
    <3>2. l \in Seq(Int) /\ Recent(l, now)
      BY DEF LimitInv, LimitShape, Windows
    <3> HIDE DEF l
    <3>3. LastOf(l) \in Int /\ \A i \in DOMAIN l : l[i] \in Int
      BY <3>1, <3>2 DEF LastOf
    <3>4. Window["minute"] \in Nat /\ Window["minute"] <= 2 * Interval /\ t - Window["minute"] \in Int
      BY <1>1, LimitsAssumption DEF Windows
    <3>5. LastOf(l) + 1 <= t - Window["minute"]
      BY <1>1, <3>1, <3>3, <3>4
    <3>6. Upto(l, LastOf(l) + 1)
      BY <3>1, <3>2 DEF Recent
    <3>7. Upto(l, t - Window["minute"])
      BY <3>3, <3>4, <3>5, <3>6 DEF Upto
    <3> QED
      BY <3>1, <3>2, <3>4, <3>7, AfterCounts
  <2> QED
    BY <2>1, <2>2
<1>5. \/ list = events[w] /\ (w \notin forgotten' => w \notin forgotten)
      \/ list = <<>> /\ SweepDue(t) /\ w \in IdleLists(t)
  BY DEF AfterSweep, Swept
<1>6. CASE list = events[w] /\ (w \notin forgotten' => w \notin forgotten)
  BY <1>1, <1>2, <1>3, <1>4, <1>6
<1>7. CASE list = <<>> /\ SweepDue(t) /\ w \in IdleLists(t)
  <2>1. list \in Seq(Int) /\ DOMAIN list = {} /\ Len(list) = 0
    BY <1>7
  <2>2. Recent(list, now)
    BY <1>7, <2>1 DEF Recent, Upto
  <2>3. ASSUME w \notin forgotten'
        PROVE  /\ w \notin forgotten
               /\ \A s \in Int : t - Window[w] <= s => After(list, s) = After(events[w], s)
    <3>1. w \notin forgotten /\ Since(events[w], t - Window[w]) = <<>>
      BY <1>7, <2>3 DEF Swept
    <3>2. After(events[w], t - Window[w]) = 0
      BY <3>1 DEF After
    <3> HIDE DEF list
    <3>3. ASSUME NEW s \in Int, t - Window[w] <= s PROVE After(list, s) = After(events[w], s)
      <4>1. After(list, s) \in Nat /\ After(list, s) <= 0
        BY <2>1, AfterCounts
      <4>2. After(events[w], s) \in Nat /\ After(events[w], s) <= 0
        BY <1>1, <1>3, <3>2, <3>3, AfterCounts
      <4> QED
        BY <4>1, <4>2
    <3> QED
      BY <3>1, <3>3
  <2> QED
    BY <1>1, <1>2, <1>4, <2>1, <2>2, <2>3
<1> QED
  BY <1>5, <1>6, <1>7

\* The events a check counts, and what it adds.
LEMMA Checked ==
  ASSUME LimitInv, NEW t \in Stamps, NEW w \in Windows, Check(w, t)
  PROVE  /\ LimitShape' /\ "minute" \notin forgotten' /\ now' = now
         /\ \A v \in Windows : Recent(events'[v], now)
         /\ \A v \in Windows \ forgotten' : /\ Held(admitted'[v], events'[v], now - Window[v])
                                            /\ After(admitted'[v], now - Window[v]) <= Most[v]
<1> DEFINE list == AfterSweep(t)[w]  cur == Current(w, t)  from == now - Window[w]
           ahead == Append(cur, t)
<1>1. t \in {now - 1, now} /\ Swept(t) /\ now' = now /\ now \in Int
  BY DEF Check, Stamps, LimitInv, LimitShape
<1>2. /\ t \in Int /\ t <= now /\ now <= t + 1 /\ from \in Int /\ t - Window[w] \in Int
      /\ t - Window[w] <= from /\ Most[w] \in Nat /\ 1 <= Most[w]
  <2>1. Window[w] \in Nat /\ Most[w] \in Nat \ {0}
    BY LimitsAssumption
  <2>2. t \in Int /\ t <= now /\ now <= t + 1
    BY <1>1
  <2> QED
    BY <1>1, <2>1, <2>2
<1>3. \A v \in Windows : admitted[v] \in Seq(Int) /\ events[v] \in Seq(Int)
  BY DEF LimitInv, LimitShape
<1>4. \A v \in Windows :
        /\ AfterSweep(t)[v] \in Seq(Int) /\ Recent(AfterSweep(t)[v], now)
        /\ v \notin forgotten' =>
             /\ v \notin forgotten
             /\ \A s \in Int : t - Window[v] <= s => After(AfterSweep(t)[v], s) = After(events[v], s)
  BY <1>1, Sweeps
<1>5. sweptAt' \in Int /\ "minute" \notin forgotten'
  BY <1>1, Sweeps
<1>6. /\ cur \in Seq(Int) /\ Upto(cur, now) /\ \A s \in Int : from <= s => After(cur, s) = After(list, s)
  <2>1. list \in Seq(Int) /\ Upto(list, now)
    BY <1>4 DEF Recent
  <2>2. CASE cur = list
    BY <2>1, <2>2
  <2>3. CASE cur = Since(list, t - Window[w])
    <3> HIDE DEF list, cur, from
    <3>1. Keeps(list, t - Window[w])
      BY <1>2, <2>1, SinceKeeps
    <3>2. cur \in Seq(Int) /\ Upto(cur, now)
      BY <1>1, <2>1, <2>3, <3>1 DEF Keeps
    <3>3. ASSUME NEW s \in Int, from <= s PROVE After(cur, s) = After(list, s)
      <4>1. t - Window[w] <= s
        BY <1>2, <3>3
      <4> QED
        BY <1>2, <2>1, <2>3, <4>1, AfterCounts
    <3> QED
      BY <3>2, <3>3
  <2> QED
    BY <2>2, <2>3 DEF Current
<1>7. events' = [AfterSweep(t) EXCEPT ![w] = ahead]
  BY DEF Check
<1>8. /\ DOMAIN AfterSweep(t) = Windows
      /\ AfterSweep(t) = [v \in Windows |-> AfterSweep(t)[v]]
  BY DEF AfterSweep, LimitInv, LimitShape
<1>9. /\ events'[w] = ahead /\ events' = [v \in Windows |-> events'[v]]
      /\ \A v \in Windows \ {w} : events'[v] = AfterSweep(t)[v]
  BY <1>7, <1>8
<1>10. \/ admitted' = admitted
       \/ /\ Passes(w, t)
          /\ admitted' = [admitted EXCEPT ![w] = Append(Since(admitted[w], from), t)]
  BY DEF Check
<1> DEFINE passed == Append(Since(admitted[w], from), t)
<1>11. passed \in Seq(Int)
  <2>1. Since(admitted[w], from) \in Seq(Int)
    BY <1>2, <1>3, SinceKeeps DEF Keeps
  <2> QED
    BY <1>2, <2>1
<1>12. admitted = [v \in Windows |-> admitted[v]]
  BY DEF LimitInv, LimitShape
<1>13. Passes(w, t) => Len(cur) + 1 <= Most[w]
  <2>1. CASE list = <<>>
    <3>1. cur = <<>>
      BY <2>1 DEF Current
    <3>2. Len(cur) = 0
      BY <3>1
    <3> QED
      BY <1>2, <3>2
  <2>2. CASE list # <<>>
    BY <2>2 DEF Passes
  <2> QED
    BY <2>1, <2>2
<1> HIDE DEF cur, list, from, ahead, passed
<1>14. /\ ahead \in Seq(Int) /\ ahead # <<>> /\ Len(ahead) = Len(cur) + 1 /\ ahead[Len(cur) + 1] = t
       /\ DOMAIN ahead = 1 .. Len(cur) + 1 /\ \A i \in 1 .. Len(cur) : ahead[i] = cur[i]
       /\ LastOf(ahead) = t
  BY <1>2, <1>6 DEF ahead, LastOf
<1>15. Upto(ahead, now)
  <2>1. \A i \in DOMAIN ahead : i = Len(cur) + 1 \/ (i \in DOMAIN cur /\ i \in 1 .. Len(cur))
    BY <1>6, <1>14
  <2> QED
    BY <1>2, <1>6, <1>14, <2>1 DEF Upto
<1>16. Recent(ahead, now)
  <2>1. \A i \in DOMAIN ahead : ahead[i] \in Int
    BY <1>14
  <2>2. Upto(ahead, t + 1)
    BY <1>1, <1>2, <1>15, <2>1 DEF Upto
  <2> QED
    BY <1>14, <1>15, <2>2 DEF Recent
<1>17. \A s \in Int : After(ahead, s) = After(cur, s) + IF t > s THEN 1 ELSE 0
  BY <1>2, <1>6, AfterAppend DEF ahead
<1>18. \A s \in Int : from <= s => After(passed, s) = After(admitted[w], s) + IF t > s THEN 1 ELSE 0
  <2> SUFFICES ASSUME NEW s \in Int, from <= s
               PROVE  After(passed, s) = After(admitted[w], s) + IF t > s THEN 1 ELSE 0
    OBVIOUS
  <2> DEFINE kept == Since(admitted[w], from)
  <2>1. kept \in Seq(Int)
    BY <1>2, <1>3, SinceKeeps DEF Keeps
  <2>2. After(kept, s) = After(admitted[w], s)
    BY <1>2, <1>3, AfterCounts
  <2>3. passed = Append(kept, t)
    BY DEF passed
  <2> HIDE DEF kept
  <2> QED
    BY <1>2, <2>1, <2>2, <2>3, AfterAppend
<1>19. ASSUME NEW v \in Windows \ forgotten'
       PROVE  /\ Held(admitted'[v], events'[v], now - Window[v])
              /\ After(admitted'[v], now - Window[v]) <= Most[v]
  <2>1. /\ Held(admitted[v], events[v], now - Window[v]) /\ After(admitted[v], now - Window[v]) <= Most[v]
        /\ v \in Windows
    BY <1>4 DEF LimitInv
  <2>2. /\ now - Window[v] \in Int /\ t - Window[v] \in Int /\ t - Window[v] <= now - Window[v]
    <3>1. Window[v] \in Nat
      BY LimitsAssumption
    <3> QED
      BY <1>1, <1>2, <3>1
  <2>3. ASSUME NEW s \in Int, now - Window[v] <= s
        PROVE  /\ After(admitted[v], s) <= After(AfterSweep(t)[v], s)
               /\ After(admitted[v], s) \in Nat /\ After(AfterSweep(t)[v], s) \in Nat
    <3>1. After(admitted[v], s) <= After(events[v], s)
      BY <2>1, <2>3 DEF Held
    <3>2. t - Window[v] <= s
      BY <2>2, <2>3
    <3>3. After(AfterSweep(t)[v], s) = After(events[v], s)
      BY <1>4, <3>2
    <3> QED
      BY <1>3, <1>4, <3>1, <3>3, AfterCounts
  <2>4. CASE v # w
    <3>1. events'[v] = AfterSweep(t)[v] /\ admitted'[v] = admitted[v]
      BY <1>9, <1>10, <1>12, <2>4
    <3> QED
      BY <2>1, <2>3, <3>1 DEF Held
  <2>5. CASE v = w
    <3>1. now - Window[v] = from /\ AfterSweep(t)[v] = list
      BY <2>5 DEF from, list
    <3>2. ASSUME NEW s \in Int, from <= s
          PROVE  /\ After(admitted[w], s) \in Nat /\ After(cur, s) \in Nat
                 /\ After(admitted[w], s) <= After(cur, s)
      BY <1>6, <2>3, <2>5, <3>1, <3>2
    <3>3. CASE admitted' = admitted
      <4>1. ASSUME NEW s \in Int, from <= s PROVE After(admitted[w], s) <= After(ahead, s)
        BY <1>17, <3>2, <4>1
      <4> QED
        BY <1>9, <2>1, <2>5, <3>1, <3>3, <4>1 DEF Held
    <3>4. CASE /\ Passes(w, t)
               /\ admitted' = [admitted EXCEPT ![w] = Append(Since(admitted[w], from), t)]
      <4>1. admitted'[w] = passed
        BY <1>12, <3>4 DEF passed
      <4>2. ASSUME NEW s \in Int, from <= s PROVE After(passed, s) <= After(ahead, s)
        BY <1>17, <1>18, <3>2, <4>2
      <4>3. After(ahead, from) <= Len(ahead) /\ After(ahead, from) \in Nat /\ After(passed, from) \in Nat
        BY <1>2, <1>11, <1>14, AfterCounts
      <4>4. Len(ahead) <= Most[w]
        BY <1>13, <1>14, <3>4
      <4>5. After(passed, from) <= Most[w]
        <5>1. Len(ahead) \in Nat /\ After(passed, from) <= After(ahead, from)
          BY <1>2, <1>14, <4>2
        <5> QED
          BY <1>2, <4>3, <4>4, <5>1
      <4> QED
        BY <1>9, <2>5, <3>1, <4>1, <4>2, <4>5 DEF Held
    <3> QED
      BY <1>10, <3>3, <3>4
  <2> QED
    BY <2>4, <2>5
<1>20. admitted' = [v \in Windows |-> admitted'[v]] /\ \A v \in Windows : admitted'[v] \in Seq(Int)
  BY <1>3, <1>10, <1>11, <1>12 DEF passed
<1>21. \A v \in Windows : events'[v] \in Seq(Int) /\ Recent(events'[v], now)
  BY <1>4, <1>9, <1>14, <1>16
<1> QED
  BY <1>1, <1>5, <1>9, <1>19, <1>20, <1>21 DEF LimitShape

LEMMA LimitInductive == LimitInv /\ [LimitNext]_limitVars => LimitInv'
<1> SUFFICES ASSUME LimitInv, [LimitNext]_limitVars PROVE LimitInv'
  OBVIOUS
<1>1. ASSUME NEW t \in Stamps, NEW w \in Windows, Check(w, t) PROVE LimitInv'
  BY <1>1, Checked DEF LimitInv
<1>2. ASSUME NEW c \in Clients, CheckMinute(c) \/ CheckDay(c) PROVE LimitInv'
  <2>1. \E t \in Stamps, w \in Windows : Check(w, t)
    BY <1>2 DEF CheckMinute, CheckDay, Windows
  <2> QED
    BY <1>1, <2>1
<1>3. CASE OtherRoute
  <2>1. /\ SweepDue(now) /\ Swept(now) /\ events' = AfterSweep(now) /\ now' = now /\ admitted' = admitted
        /\ now \in Int /\ now \in {now - 1, now}
    BY <1>3 DEF OtherRoute, LimitInv, LimitShape
  <2>2. \A w \in Windows :
          /\ events'[w] \in Seq(Int) /\ Recent(events'[w], now)
          /\ w \notin forgotten' =>
               /\ w \notin forgotten
               /\ \A s \in Int : now - Window[w] <= s => After(events'[w], s) = After(events[w], s)
    BY <2>1, Sweeps
  <2>3. sweptAt' \in Int /\ "minute" \notin forgotten'
    BY <2>1, Sweeps DEF Windows
  <2>4. events' = [w \in Windows |-> events'[w]]
    BY <2>1 DEF AfterSweep
  <2>5. LimitShape'
    BY <2>1, <2>2, <2>3, <2>4 DEF LimitInv, LimitShape
  <2>6. ASSUME NEW w \in Windows \ forgotten'
        PROVE  /\ Held(admitted[w], events'[w], now - Window[w])
               /\ After(admitted[w], now - Window[w]) <= Most[w]
    BY <2>2 DEF LimitInv, Held
  <2> QED
    BY <2>1, <2>2, <2>3, <2>5, <2>6 DEF LimitInv
<1>4. CASE LimitTick
  <2>1. now \in Int /\ now' = now + 1 /\ UNCHANGED <<sweptAt, events, admitted, forgotten>>
    BY <1>4 DEF LimitTick, LimitInv, LimitShape
  <2>2. \A w \in Windows : events[w] \in Seq(Int) /\ admitted[w] \in Seq(Int) /\ Recent(events[w], now)
    BY DEF LimitInv, LimitShape
  <2>3. ASSUME NEW w \in Windows PROVE Recent(events[w], now + 1)
    <3>1. \A i \in DOMAIN events[w] : events[w][i] \in Int /\ events[w][i] <= now
      BY <2>2 DEF Recent, Upto
    <3>2. Upto(events[w], now + 1)
      BY <2>1, <3>1 DEF Upto
    <3> QED
      BY <2>2, <3>2 DEF Recent
  <2>4. ASSUME NEW w \in Windows \ forgotten
        PROVE  /\ Held(admitted[w], events[w], now' - Window[w])
               /\ After(admitted[w], now' - Window[w]) <= Most[w]
    <3>1. Window[w] \in Nat /\ Most[w] \in Nat
      BY LimitsAssumption
    <3> DEFINE from == now - Window[w]  next == now' - Window[w]
    <3>2. from \in Int /\ next \in Int /\ from <= next
      BY <2>1, <3>1
    <3>3. Held(admitted[w], events[w], from) /\ After(admitted[w], from) <= Most[w]
      BY DEF LimitInv
    <3> HIDE DEF from, next
    <3>4. Held(admitted[w], events[w], next)
      BY <3>2, <3>3 DEF Held
    <3>5. After(admitted[w], next) \in Nat /\ After(admitted[w], next) <= After(admitted[w], from)
          /\ After(admitted[w], from) \in Nat
      BY <2>2, <3>2, AfterCounts
    <3>6. After(admitted[w], next) <= Most[w]
      BY <3>1, <3>3, <3>5
    <3> QED
      BY <3>4, <3>6 DEF next
  <2>5. LimitShape'
    BY <2>1 DEF LimitInv, LimitShape
  <2>6. \A w \in Windows : Recent(events'[w], now')
    BY <2>1, <2>3
  <2>7. "minute" \notin forgotten'
    BY <2>1 DEF LimitInv
  <2>8. ASSUME NEW w \in Windows \ forgotten'
        PROVE  /\ Held(admitted'[w], events'[w], now' - Window[w])
               /\ After(admitted'[w], now' - Window[w]) <= Most[w]
    <3>1. admitted' = admitted /\ events' = events /\ forgotten' = forgotten
      BY <2>1
    <3> QED
      BY <2>4, <3>1
  <2> QED
    BY <2>5, <2>6, <2>7, <2>8 DEF LimitInv
<1>5. CASE UNCHANGED limitVars
  BY <1>5 DEF limitVars, LimitInv, LimitShape
<1> QED
  BY <1>2, <1>3, <1>4, <1>5 DEF LimitNext

\* RateLimiter.check never lets more requests pass in a window than its limit, for every
\* limit, window and interval of the sweep that is at least half a minute's window: not
\* when threads read the clock before they wait for the lock, nor when old events stay in
\* the list, and the sweep (_cleanup) never forgets a list of the minute too early.
THEOREM LimitsHold == LimitSpec => []WithinLimits
<1>1. LimitInv => WithinLimits
  BY DEF LimitInv, WithinLimits, After
<1> QED
  BY <1>1, LimitInitial, LimitInductive, PTL DEF LimitSpec
=============================================================================
