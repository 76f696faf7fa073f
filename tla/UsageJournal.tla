---------------------------- MODULE UsageJournal ----------------------------
(***************************************************************************)
(* The journal of LLM calls and the collector that folds it into SQLite.   *)
(* Threads append a line per call to real_call.log; the collector, a       *)
(* process of its own, renames it to .flush, counts its lines and deletes  *)
(* it, and keeps it as .retry for a later cycle when the database is       *)
(* locked.                                                                 *)
(*                                                                         *)
(* Sources: modules/usage/usage_log.py, modules/usage/usage_collector.py;  *)
(* the supervisor of services/api/daemon.py restarts the collector.        *)
(*                                                                         *)
(* A file is an inode: a thread that opened real_call.log keeps writing to *)
(* the same inode after the collector has renamed or deleted its name.     *)
(* A line is the call it records; an inode, the call that created it.      *)
(***************************************************************************)
EXTENDS Naturals, FiniteSets

CONSTANTS
  Writers,     \* processes that append (the lock of append_call is per process)
  MaxCalls,    \* bound: calls logged
  MaxLocks,    \* bound: times the database is found locked
  MaxCrashes   \* bound: deaths of the collector

ASSUME JournalAssumption ==
  /\ Writers \in Nat \ {0} /\ MaxCalls \in Nat \ {0}
  /\ MaxLocks \in Nat /\ MaxCrashes \in Nat

VARIABLES
  name,      \* file name -> inode it names, 0 for no such file
  content,   \* inode -> calls whose lines it holds
  opened,    \* call -> inode append_call has open for it, 0 when it has none
  calls,     \* calls begun
  pc,        \* where run_once of the collector is
  file,      \* the name it is consuming
  fd,        \* the inode it has open
  batch,     \* lines inserted in the transaction under way
  ledger,    \* call -> times real_call_models and the budgets count it
  locks,     \* times the database was locked
  crashes,   \* deaths of the collector
  late       \* history: calls written to an inode the collector had done with

journal   == <<name, content, opened, calls>>
collector == <<pc, file, fd, batch>>
vars == <<journal, collector, ledger, locks, crashes, late>>

Calls  == 1 .. MaxCalls
Inodes == Calls
Files  == {"log", "flush", "retry"}
Places == {"idle", "swap", "retry", "flush", "consume", "commit", "unlink", "rotate"}

Named(i)   == \E f \in Files : name[f] = i
Written(k) == \E i \in Inodes : k \in content[i]
InFile(k, f) == name[f] # 0 /\ k \in content[name[f]]

TypeOK ==
  /\ name \in [Files -> {0} \cup Inodes]
  /\ content \in [Inodes -> SUBSET Calls]
  /\ opened \in [Calls -> {0} \cup Inodes]
  /\ calls \in 0 .. MaxCalls
  /\ pc \in Places /\ file \in Files \ {"log"} /\ fd \in {0} \cup Inodes
  /\ batch \in SUBSET Calls
  /\ ledger \in [Calls -> Nat]
  /\ locks \in 0 .. MaxLocks /\ crashes \in 0 .. MaxCrashes
  /\ late \in SUBSET Calls

Init ==
  /\ name = [f \in Files |-> 0]
  /\ content = [i \in Inodes |-> {}]
  /\ opened = [k \in Calls |-> 0]
  /\ calls = 0
  /\ pc = "idle" /\ file = "flush" /\ fd = 0 /\ batch = {}
  /\ ledger = [k \in Calls |-> 0]
  /\ locks = 0 /\ crashes = 0 /\ late = {}

-----------------------------------------------------------------------------
(* append_call *)

\* os.open(O_APPEND | O_CREAT) by name, then os.write.
Open(k) ==
  /\ k = calls + 1 /\ calls' = k
  /\ Cardinality({j \in Calls : opened[j] # 0}) < Writers
  /\ LET i == IF name["log"] = 0 THEN k ELSE name["log"]
     IN name' = [name EXCEPT !["log"] = i] /\ opened' = [opened EXCEPT ![k] = i]
  /\ UNCHANGED <<content, collector, ledger, locks, crashes, late>>

Write(k) ==
  /\ opened[k] # 0
  /\ opened' = [opened EXCEPT ![k] = 0]
  /\ content' = [content EXCEPT ![opened[k]] = @ \cup {k}]
  /\ late' = IF ~Named(opened[k]) \/ (fd = opened[k] /\ pc \in {"commit", "unlink"})
             THEN late \cup {k} ELSE late
  /\ UNCHANGED <<name, calls, collector, ledger, locks, crashes>>

\* A disk error, which append_call returns False for, or the end of the thread.
GiveUp(k) ==
  /\ opened[k] # 0
  /\ opened' = [opened EXCEPT ![k] = 0]
  /\ UNCHANGED <<name, content, calls, collector, ledger, locks, crashes, late>>

-----------------------------------------------------------------------------
(* run_once *)

Goto(place) == pc' = place
Rename(from, to) == [name EXCEPT ![to] = name[from], ![from] = 0]

\* Mutant of Poll: a cycle only begins when something waits for replay.
PollRetry ==
  /\ pc = "idle" /\ name["retry"] # 0
  /\ Goto("swap")
  /\ UNCHANGED <<journal, file, fd, batch, ledger, locks, crashes, late>>

\* A cycle looks for a journal or a file to replay; a .flush alone does not count.
Poll ==
  /\ pc = "idle" /\ (name["log"] # 0 \/ name["retry"] # 0)
  /\ Goto("swap")
  /\ UNCHANGED <<journal, file, fd, batch, ledger, locks, crashes, late>>

\* Mutant of Swap: a file that waits for replay is swapped out too.
SwapOntoRetry ==
  /\ pc = "swap"
  /\ name' = IF name["log"] # 0 /\ content[name["log"]] # {}
             THEN Rename("log", IF name["flush"] = 0 THEN "flush" ELSE "retry") ELSE name
  /\ Goto("retry")
  /\ UNCHANGED <<content, opened, calls, file, fd, batch, ledger, locks, crashes, late>>

\* os.replace(log, flush), whatever .flush was.
Swap ==
  /\ pc = "swap"
  /\ name' = IF name["log"] # 0 /\ content[name["log"]] # {}
             THEN Rename("log", "flush") ELSE name
  /\ Goto("retry")
  /\ UNCHANGED <<content, opened, calls, file, fd, batch, ledger, locks, crashes, late>>

\* The file to replay first, then the fresh one: consume it if it exists.
Take(f, otherwise) ==
  /\ pc = f
  /\ IF name[f] # 0 THEN file' = f /\ fd' = name[f] /\ Goto("consume")
     ELSE Goto(otherwise) /\ UNCHANGED <<file, fd>>
  /\ UNCHANGED <<journal, batch, ledger, locks, crashes, late>>

TakeRetry == Take("retry", "flush")

\* Mutant of TakeFlush: without a .flush, the journal is consumed where it is.
TakeAny ==
  /\ pc = "flush"
  /\ LET f == IF name["flush"] # 0 THEN "flush" ELSE "log" IN
     IF name[f] # 0 THEN file' = f /\ fd' = name[f] /\ Goto("consume")
     ELSE Goto("rotate") /\ UNCHANGED <<file, fd>>
  /\ UNCHANGED <<journal, batch, ledger, locks, crashes, late>>

TakeFlush == Take("flush", "rotate")

\* _consume_file reads to the end of the file; the first INSERT takes the lock that
\* the other inserts and the commit run under.
Consume ==
  /\ pc = "consume"
  /\ batch' = content[fd]
  /\ Goto("commit")
  /\ UNCHANGED <<journal, file, fd, ledger, locks, crashes, late>>

\* Mutant of Locked: the file is deleted as if it had been consumed.
LockedDrops ==
  /\ pc = "consume" /\ content[fd] # {} /\ locks < MaxLocks
  /\ locks' = locks + 1
  /\ name' = [name EXCEPT ![file] = 0]
  /\ Goto(IF file = "retry" THEN "flush" ELSE "rotate")
  /\ UNCHANGED <<content, opened, calls, file, fd, batch, ledger, crashes, late>>

\* The database is locked at the first INSERT. A .retry stays for the next cycle
\* and this one ends there; a .flush becomes the .retry.
Locked ==
  /\ pc = "consume" /\ content[fd] # {} /\ locks < MaxLocks
  /\ locks' = locks + 1
  /\ IF file = "retry" THEN Goto("idle") /\ UNCHANGED name
     ELSE Goto("rotate") /\ name' = Rename("flush", "retry")
  /\ UNCHANGED <<content, opened, calls, file, fd, batch, ledger, crashes, late>>

Commit ==
  /\ pc = "commit"
  /\ ledger' = [k \in Calls |-> IF k \in batch THEN ledger[k] + 1 ELSE ledger[k]]
  /\ batch' = {}
  /\ Goto("unlink")
  /\ UNCHANGED <<journal, file, fd, locks, crashes, late>>

\* Mutant of Unlink: the file consumed is left to the next cycle.
UnlinkForgotten ==
  /\ pc = "unlink"
  /\ Goto(IF file = "retry" THEN "flush" ELSE "rotate")
  /\ UNCHANGED <<journal, file, fd, batch, ledger, locks, crashes, late>>

Unlink ==
  /\ pc = "unlink"
  /\ name' = [name EXCEPT ![file] = 0]
  /\ Goto(IF file = "retry" THEN "flush" ELSE "rotate")
  /\ UNCHANGED <<content, opened, calls, file, fd, batch, ledger, locks, crashes, late>>

\* _rotate_archives takes a .flush that is still there out of the way; the agent_actif
\* sweeps commit what the connection holds; both connections are closed.
Rotate ==
  /\ pc = "rotate"
  /\ \E big \in BOOLEAN :
       name' = IF big THEN [name EXCEPT !["flush"] = 0] ELSE name
  /\ Goto("idle")
  /\ UNCHANGED <<content, opened, calls, file, fd, batch, ledger, locks, crashes, late>>

\* The process dies, its transaction with it; the supervisor starts another.
Crash ==
  /\ pc # "idle" /\ crashes < MaxCrashes
  /\ crashes' = crashes + 1
  /\ batch' = {}
  /\ Goto("idle")
  /\ UNCHANGED <<journal, file, fd, ledger, locks, late>>

-----------------------------------------------------------------------------
Cycle ==
  \/ Poll \/ Swap \/ TakeRetry \/ TakeFlush \/ Consume \/ Locked \/ Commit \/ Unlink \/ Rotate

Next == Cycle \/ Crash \/ \E k \in Calls : Open(k) \/ Write(k) \/ GiveUp(k)

Spec == Init /\ [][Next]_vars

\* The collector is a process in a loop. Threads and faults owe nothing.
FairSpec == Spec /\ WF_vars(Cycle)

-----------------------------------------------------------------------------
(* Properties *)

Kept(k) == ledger[k] > 0 \/ k \in batch \/ \E f \in Files : InFile(k, f)

\* A call is counted once, and once more at most for each death of the collector: the
\* replay of a .retry, the leftover .flush and the deletion after the commit agree.
CountedOnce == \A k \in Calls : ledger[k] <= 1 + crashes

\* Only a .flush that a locked or interrupted cycle left behind is ever lost, and
\* only to the rename of the next one: every other line written in time is still
\* in a file, in the transaction or in the database.
OnlyLeftoversLost ==
  [][\A k \in Calls \ late :
       Kept(k) /\ ~Kept(k)' =>
         pc = "swap" /\ InFile(k, "flush") /\ locks + crashes > 0]_vars

\* The file to replay is never given up: each of its lines ends in the database,
\* locks and crashes included.
Replayed == \A k \in Calls : (InFile(k, "retry") /\ k \notin late) ~> ledger[k] > 0

\* A line of the journal reaches the database as long as no cycle is cut short.
Collected ==
  \A k \in Calls : (InFile(k, "log") /\ k \notin late) ~> (ledger[k] > 0 \/ locks + crashes > 0)

\* "0 perte sur lock SQLite" (usage_log.py:9): as long as the collector lives, every
\* line written in time is kept.
LockLosesNothing == \A k \in Calls \ late : crashes = 0 /\ Written(k) => Kept(k)
=============================================================================
