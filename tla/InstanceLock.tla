---------------------------- MODULE InstanceLock ----------------------------
(***************************************************************************)
(* acquire_instance_lock: a file with the process id of the service, which *)
(* the next instance reads, kills the process of, removes, creates anew    *)
(* and locks. The lock (flock) is on the file's inode, so it binds only    *)
(* those that opened the same file.                                        *)
(*                                                                         *)
(* Sources: services/_common.py; its callers are serve of the gateway and  *)
(* the loops of the other services.                                        *)
(***************************************************************************)
EXTENDS Naturals, FiniteSets

CONSTANTS
  Starts,   \* processes of the service, each started once
  Nobody    \* no process, or an empty file

ASSUME LockAssumption == IsFiniteSet(Starts) /\ Nobody \notin Starts

VARIABLES
  pidFile,    \* the file: [ino, pid], ino = 0 when there is none
  inodes,     \* inodes created so far
  proc,       \* process -> [pc, target, ino : of the file it has open, or 0]
  recognised, \* does _pid_matches_service find /proc from the home directory?
  stolen      \* history: a file was removed that another living process had open

lockVars == <<pidFile, inodes, proc, recognised, stolen>>

NoFileThere == [ino |-> 0, pid |-> Nobody]

LockInit ==
  /\ pidFile = NoFileThere /\ inodes = 0 /\ stolen = FALSE
  /\ proc = [p \in Starts |-> [pc |-> "off", target |-> Nobody, ino |-> 0]]
  /\ recognised \in BOOLEAN

Alive(p) == proc[p].pc \notin {"off", "dead"}
Dead == [pc |-> "dead", target |-> Nobody, ino |-> 0]
GoesTo(p, pc) == proc' = [proc EXCEPT ![p].pc = pc]

Remove(p) ==
  /\ pidFile' = NoFileThere
  /\ stolen' = (stolen \/ \E q \in Starts \ {p} :
                            Alive(q) /\ proc[q].ino = pidFile.ino /\ pidFile.ino # 0)

-----------------------------------------------------------------------------
LockExists(p) ==
  /\ proc[p].pc = "off"
  /\ GoesTo(p, IF pidFile.ino = 0 THEN "open" ELSE "read")
  /\ UNCHANGED <<pidFile, inodes, recognised, stolen>>

\* An empty file is no number: it is removed like a stale one.
ReadPid(p) ==
  /\ proc[p].pc = "read"
  /\ LET pid == pidFile.pid
         kills == pid # Nobody /\ recognised /\ Alive(pid)
     IN  proc' = [proc EXCEPT ![p].pc = IF kills THEN "kill" ELSE "remove",
                              ![p].target = IF kills THEN pid ELSE Nobody]
  /\ UNCHANGED <<pidFile, inodes, recognised, stolen>>

\* SIGTERM, and SIGKILL after five seconds: at the end it is dead.
KillOld(p) ==
  /\ proc[p].pc = "kill"
  /\ proc' = [proc EXCEPT ![p].pc = "remove", ![proc[p].target] = Dead]
  /\ UNCHANGED <<pidFile, inodes, recognised, stolen>>

RemoveOld(p) ==
  /\ proc[p].pc = "remove" /\ Remove(p) /\ GoesTo(p, "open")
  /\ UNCHANGED <<inodes, recognised>>

\* O_CREAT: the file that is there, or a new one.
OpenLock(p) ==
  /\ proc[p].pc = "open"
  /\ inodes' = IF pidFile.ino = 0 THEN inodes + 1 ELSE inodes
  /\ pidFile' = IF pidFile.ino = 0 THEN [ino |-> inodes + 1, pid |-> Nobody] ELSE pidFile
  /\ proc' = [proc EXCEPT ![p].pc = "flock", ![p].ino = pidFile'.ino]
  /\ UNCHANGED <<recognised, stolen>>

\* Mutant of TakeFlock: the file is created and not locked.
NoFlock(p) ==
  /\ proc[p].pc = "flock" /\ GoesTo(p, "write")
  /\ UNCHANGED <<pidFile, inodes, recognised, stolen>>

\* flock, LOCK_NB: the one that loses ends.
TakeFlock(p) ==
  LET held == \E q \in Starts \ {p} : /\ proc[q].ino = proc[p].ino
                                      /\ proc[q].pc \in {"write", "run", "exit"}
  IN  /\ proc[p].pc = "flock"
      /\ proc' = [proc EXCEPT ![p] = IF held THEN Dead ELSE [@ EXCEPT !.pc = "write"]]
      /\ UNCHANGED <<pidFile, inodes, recognised, stolen>>

\* write_text goes by the name: to the file that is at the path by now.
WritePid(p) ==
  /\ proc[p].pc = "write" /\ GoesTo(p, "run")
  /\ inodes' = IF pidFile.ino = 0 THEN inodes + 1 ELSE inodes
  /\ pidFile' = [ino |-> IF pidFile.ino = 0 THEN inodes + 1 ELSE pidFile.ino, pid |-> p]
  /\ UNCHANGED <<recognised, stolen>>

\* _release_pid_file at a normal exit: the file is removed when it names the process.
ExitRead(p) ==
  /\ proc[p].pc = "run"
  /\ proc' = [proc EXCEPT ![p] = IF pidFile.pid = p THEN [@ EXCEPT !.pc = "exit"] ELSE Dead]
  /\ UNCHANGED <<pidFile, inodes, recognised, stolen>>

ExitRemove(p) ==
  /\ proc[p].pc = "exit" /\ Remove(p)
  /\ proc' = [proc EXCEPT ![p] = Dead]
  /\ UNCHANGED <<inodes, recognised>>

\* A crash, or a signal: the lock goes with the process, the file stays.
KillProcess(p) ==
  /\ Alive(p) /\ proc' = [proc EXCEPT ![p] = Dead]
  /\ UNCHANGED <<pidFile, inodes, recognised, stolen>>

LockNext ==
  \E p \in Starts :
    \/ LockExists(p) \/ ReadPid(p) \/ KillOld(p) \/ RemoveOld(p) \/ OpenLock(p)
    \/ TakeFlock(p) \/ WritePid(p) \/ ExitRead(p) \/ ExitRemove(p) \/ KillProcess(p)

LockSpec == LockInit /\ [][LockNext]_lockVars

-----------------------------------------------------------------------------
\* Two instances of a service run at once only when one of them removed the file the
\* other had open. That happens when the home directory hides /proc, when a starter
\* reads the file before its pid is written, or after both have read the same pid.
OneInstance ==
  stolen \/ Cardinality({p \in Starts : proc[p].pc \in {"run", "exit"}}) <= 1
=============================================================================
