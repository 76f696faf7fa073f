------------------------------ MODULE AfdProxy ------------------------------
(***************************************************************************)
(* How a call for an agent leaves the gateway: through the Unix socket of  *)
(* the agent framework daemon (AFD) when the first probe found one, in the *)
(* gateway's own process otherwise. Nothing keeps two daemons from being   *)
(* started: the second takes the path of the socket, the stop of either    *)
(* removes it.                                                             *)
(*                                                                         *)
(* Sources: services/afd/{ipc,service}.py, services/api/afd_client.py.     *)
(***************************************************************************)
EXTENDS Naturals, FiniteSets

CONSTANTS
  Daemons,   \* processes of the AFD that may be started
  Requests,  \* calls the gateway makes
  NoSocket   \* nothing at the path

ASSUME ProxyAssumption == IsFiniteSet(Requests) /\ NoSocket \notin Daemons

VARIABLES
  path,      \* whose socket is at afd.sock; it may be of a dead daemon
  daemon,    \* daemon -> "off", "starting", "up" or "dead"
  available, \* _available of the proxy: "unknown", "yes" or "no"
  asked,     \* request -> [pc, to : its daemon, answer]
  executed   \* history: request -> executions of it there have been

proxyVars == <<path, daemon, available, asked, executed>>

NewRequest == [pc |-> "new", to |-> NoSocket, answer |-> "none"]

ProxyInit ==
  /\ path = NoSocket /\ daemon = [d \in Daemons |-> "off"] /\ available = "unknown"
  /\ asked = [q \in Requests |-> NewRequest] /\ executed = [q \in Requests |-> 0]

Listening == path # NoSocket /\ daemon[path] = "up"

-----------------------------------------------------------------------------
(* The daemon *)

\* serve: unlink, then bind and listen.
ServeUnlink(d) ==
  /\ daemon[d] = "off" /\ daemon' = [daemon EXCEPT ![d] = "starting"]
  /\ path' = NoSocket /\ UNCHANGED <<available, asked, executed>>

\* A second daemon that bound first makes bind fail: the process ends, and its
\* stop unlinks the path.
ServeBind(d) ==
  /\ daemon[d] = "starting"
  /\ IF path = NoSocket
     THEN path' = d /\ daemon' = [daemon EXCEPT ![d] = "up"]
     ELSE path' = NoSocket /\ daemon' = [daemon EXCEPT ![d] = "dead"]
  /\ UNCHANGED <<available, asked, executed>>

\* The connections of a daemon that ends are closed: connection_closed.
Closed(d) ==
  asked' = [q \in Requests |->
    IF asked[q].to = d /\ asked[q].pc = "sent"
    THEN [asked[q] EXCEPT !.pc = "over", !.answer = "unsure"]
    ELSE IF asked[q].to = d /\ asked[q].pc = "late" THEN [asked[q] EXCEPT !.pc = "over"]
    ELSE asked[q]]

\* stop unlinks the path, whoever bound it; a kill leaves it.
StopDaemon(d) ==
  /\ daemon[d] = "up" /\ daemon' = [daemon EXCEPT ![d] = "dead"]
  /\ path' \in {NoSocket, path}
  /\ Closed(d) /\ UNCHANGED <<available, executed>>

\* _handle_ipc_request, in the thread of the connection; the client may be gone.
Handle(q) ==
  /\ asked[q].pc \in {"sent", "late"}
  /\ executed' = [executed EXCEPT ![q] = @ + 1]
  /\ asked' = [asked EXCEPT ![q].pc = "over",
                            ![q].answer = IF asked[q].pc = "sent" THEN "result" ELSE @]
  /\ UNCHANGED <<path, daemon, available>>

-----------------------------------------------------------------------------
(* The proxy *)

\* _check_available: the outcome of the first ping is kept for good.
Probe(q) ==
  /\ asked[q].pc = "new"
  /\ available' = IF available # "unknown" THEN available
                  ELSE IF Listening THEN "yes" ELSE "no"
  /\ asked' = [asked EXCEPT ![q].pc = IF available' = "yes" THEN "remote" ELSE "local"]
  /\ UNCHANGED <<path, daemon, executed>>

\* AFDSocketClient.send: nobody there is an answer of its own.
Connect(q) ==
  /\ asked[q].pc = "remote"
  /\ asked' = [asked EXCEPT ![q] =
                 IF Listening THEN [@ EXCEPT !.pc = "sent", !.to = path]
                 ELSE [@ EXCEPT !.pc = "over", !.answer = "unreachable"]]
  /\ UNCHANGED <<path, daemon, available, executed>>

\* Mutant of GiveUp: an error of the socket falls back to the local execution.
GiveUpLocally(q) ==
  /\ asked[q].pc = "sent" /\ asked' = [asked EXCEPT ![q].pc = "local"]
  /\ executed' = [executed EXCEPT ![q] = @ + 1]
  /\ UNCHANGED <<path, daemon, available>>

\* The timeout of 60 s is reported like a daemon that is not there, and the daemon
\* goes on with the request.
GiveUp(q) ==
  /\ asked[q].pc = "sent"
  /\ asked' = [asked EXCEPT ![q].pc = "late", ![q].answer = "unsure"]
  /\ UNCHANGED <<path, daemon, available, executed>>

\* AgentDaemon.call in the gateway.
RunLocally(q) ==
  /\ asked[q].pc = "local"
  /\ executed' = [executed EXCEPT ![q] = @ + 1]
  /\ asked' = [asked EXCEPT ![q].pc = "over", ![q].answer = "result"]
  /\ UNCHANGED <<path, daemon, available>>

\* The gateway starts again: a new proxy. What it had sent goes on.
RestartGateway ==
  /\ available' = "unknown"
  /\ asked' = [q \in Requests |->
       CASE asked[q].pc \in {"new", "over", "late"} -> asked[q]
         [] asked[q].pc = "sent" -> [asked[q] EXCEPT !.pc = "late", !.answer = "unsure"]
         [] OTHER -> [asked[q] EXCEPT !.pc = "over", !.answer = "unsure"]]
  /\ UNCHANGED <<path, daemon, executed>>

ProxyNext ==
  \/ \E d \in Daemons : ServeUnlink(d) \/ ServeBind(d) \/ StopDaemon(d)
  \/ \E q \in Requests : Handle(q) \/ Probe(q) \/ Connect(q) \/ GiveUp(q) \/ RunLocally(q)
  \/ RestartGateway

ProxySpec == ProxyInit /\ [][ProxyNext]_proxyVars

-----------------------------------------------------------------------------
\* Whatever dies, is started twice or answers late, a call is executed at most once,
\* by one of the processes: exactly once when the caller got its result, not at all
\* when it was told that nobody listens.
ExecutedOnce ==
  \A q \in Requests :
    /\ executed[q] <= 1
    /\ asked[q].answer = "result" => executed[q] = 1
    /\ asked[q].answer = "unreachable" => executed[q] = 0
=============================================================================
