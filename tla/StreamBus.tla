----------------------------- MODULE StreamBus -----------------------------
(***************************************************************************)
(* The chunks an agent streams while it runs, and a reader that polls them *)
(* by sequence number. Each process that executes agents has a bus of its  *)
(* own over the shared file: it counts from zero when the process starts,  *)
(* takes a number under one lock and inserts the row under another. The    *)
(* bus in memory does both under one lock and keeps the newest rows.       *)
(*                                                                         *)
(* Sources: AgentFrameWork/stream_bus.py, its users in agent_manager and   *)
(* agent_daemon. One agent; the reader keeps the number of its last poll.  *)
(***************************************************************************)
EXTENDS Naturals, FiniteSets

CONSTANTS
  Buses,      \* processes that execute the agent
  Home,       \* the one the reader polls
  MaxKept,    \* max_per_agent of the bus in memory
  MaxChunks,  \* bound: chunks published in all
  MaxRuns     \* bound: executions of the agent at a time

ASSUME StreamAssumption ==
  /\ IsFiniteSet(Buses) /\ Home \in Buses
  /\ MaxKept \in Nat \ {0} /\ MaxChunks \in Nat /\ MaxRuns \in Nat

VARIABLES
  shared,   \* is the bus the file (activate_cross_process)?
  counter,  \* _seq of each process
  rows,     \* rows of the agent: [n : which chunk, seq]
  taken,    \* chunks with a number and no row yet: [n, seq, bus]
  running,  \* executions of the agent in each process
  last,     \* position of the reader
  got,      \* history: chunks the reader received
  chunks,   \* history: chunks published
  crossed   \* history: something the reader's position does not survive

streamVars == <<shared, counter, rows, taken, running, last, got, chunks, crossed>>

StreamTypeOK ==
  /\ shared \in BOOLEAN /\ crossed \in BOOLEAN
  /\ counter \in [Buses -> Nat] /\ running \in [Buses -> Nat]
  /\ rows \subseteq [n : Nat, seq : Nat]
  /\ taken \subseteq [n : Nat, seq : Nat, bus : Buses]
  /\ last \in Nat /\ got \subseteq Nat /\ chunks \in Nat

StreamInit ==
  /\ shared \in BOOLEAN
  /\ counter = [b \in Buses |-> 0] /\ running = [b \in Buses |-> 0]
  /\ rows = {} /\ taken = {} /\ last = 0 /\ got = {} /\ chunks = 0 /\ crossed = FALSE

Running == {b \in Buses : running[b] > 0}
Alone(b) == running[b] = 1 /\ Running = {b}

\* What another process publishes in its memory is not part of the stream.
Seen(b) == shared \/ b = Home

-----------------------------------------------------------------------------
\* Mutant of BeginRun: the numbers start again with each execution.
BeginRunFromZero(b) ==
  /\ running[b] < MaxRuns /\ Seen(b)
  /\ rows' = {} /\ running' = [running EXCEPT ![b] = @ + 1]
  /\ counter' = [counter EXCEPT ![b] = 0]
  /\ crossed' = (crossed \/ Running # {} \/ last > counter[b])
  /\ UNCHANGED <<shared, taken, last, got, chunks>>

\* execute and chat_turn empty the stream, not the counter, before they publish.
BeginRun(b) ==
  /\ running[b] < MaxRuns /\ Seen(b)
  /\ rows' = {} /\ running' = [running EXCEPT ![b] = @ + 1]
  /\ crossed' = (crossed \/ Running # {} \/ last > counter[b])
  /\ UNCHANGED <<shared, counter, taken, last, got, chunks>>

NextChunk(b) == [n |-> chunks + 1, seq |-> counter[b] + 1]
Count(b) == counter' = [counter EXCEPT ![b] = @ + 1] /\ chunks' = chunks + 1

\* An execution publishes its chunks one after the other.
Publishes(b) ==
  chunks < MaxChunks /\ Cardinality({p \in taken : p.bus = b}) < running[b]

\* StreamBus.publish
PublishInMemory(b) ==
  /\ ~shared /\ Publishes(b) /\ Count(b)
  /\ LET all == rows \cup {NextChunk(b)}
     IN  rows' = {r \in all : Cardinality({s \in all : s.n > r.n}) < MaxKept}
  /\ UNCHANGED <<shared, taken, running, last, got, crossed>>

\* StreamBusDB.publish, up to the release of _seq_lock.
TakeNumber(b) ==
  /\ shared /\ Publishes(b) /\ Count(b)
  /\ taken' = taken \cup {[n |-> chunks + 1, seq |-> counter[b] + 1, bus |-> b]}
  /\ UNCHANGED <<shared, rows, running, last, got, crossed>>

InsertRow(p) ==
  /\ rows' = rows \cup {[n |-> p.n, seq |-> p.seq]} /\ taken' = taken \ {p}
  /\ UNCHANGED <<shared, counter, running, last, got, chunks, crossed>>

EndRun(b) ==
  /\ Cardinality({p \in taken : p.bus = b}) < running[b]
  /\ running' = [running EXCEPT ![b] = @ - 1]
  /\ UNCHANGED <<shared, counter, rows, taken, last, got, chunks, crossed>>

\* The process dies and comes back: the file stays, the counter does not.
RestartBus(b) ==
  /\ counter' = [counter EXCEPT ![b] = 0] /\ running' = [running EXCEPT ![b] = 0]
  /\ taken' = {p \in taken : p.bus # b}
  /\ rows' = IF shared \/ b # Home THEN rows ELSE {}
  /\ UNCHANGED <<shared, last, got, chunks, crossed>>

\* delete_chat_session; an execution under way goes on.
DeleteStream ==
  /\ rows' = {}
  /\ UNCHANGED <<shared, counter, taken, running, last, got, chunks, crossed>>

-----------------------------------------------------------------------------
New == {r \in rows : r.seq > last}

\* since and the `stream` operation: the next position is the one of the last row.
Poll ==
  /\ New # {}
  /\ got' = got \cup {r.n : r \in New}
  /\ \E r \in New : (\A s \in New : s.seq <= r.seq) /\ last' = r.seq
  /\ UNCHANGED <<shared, counter, rows, taken, running, chunks, crossed>>

\* Does a chunk still to come go before a row that is there?
Behind ==
  \E r \in rows : \/ \E b \in Running : counter[b] < r.seq
                  \/ \E p \in taken : p.seq <= r.seq

\* A reader comes, or starts again.
Subscribe ==
  /\ last' = 0 /\ got' = {}
  /\ crossed' = (Behind \/ ~(Running = {} \/ \E b \in Buses : Alone(b)))
  /\ UNCHANGED <<shared, counter, rows, taken, running, chunks>>

StreamNext ==
  \/ \E b \in Buses :
       BeginRun(b) \/ PublishInMemory(b) \/ TakeNumber(b) \/ EndRun(b) \/ RestartBus(b)
  \/ \E p \in taken : InsertRow(p)
  \/ DeleteStream \/ Poll \/ Subscribe

StreamSpec == StreamInit /\ [][StreamNext]_streamVars

-----------------------------------------------------------------------------
\* A reader passes over a chunk that is in the stream only after it met two
\* executions of the agent at once, or an execution whose process counts below the
\* reader's position (it restarted, or is another one). Otherwise polling by number
\* gives every chunk that no reset removed.
NothingSkipped == ~crossed => \A r \in rows : r.seq <= last => r.n \in got
=============================================================================
