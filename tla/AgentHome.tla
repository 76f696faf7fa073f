------------------------------ MODULE AgentHome ------------------------------
(***************************************************************************)
(* The home of an agent: the files in important/ have an alias in          *)
(* index.json, the stem of the first of them that bore it. The index is    *)
(* read and written back as a whole, by whatever execution of the agent    *)
(* touches a file, without a lock, and is empty for whoever reads it while *)
(* it is written. Files outside important/ are not indexed: a move from    *)
(* there is a write, a move to there has no destination here.              *)
(*                                                                         *)
(* Sources: AgentsCatalogue/lib/system/{file,_fs}.py.                      *)
(***************************************************************************)
EXTENDS Naturals, FiniteSets, Functions

CONSTANTS
  Executions, \* of one agent
  Names,      \* names in important/
  Stem,       \* name -> its stem, which is its alias
  Outside     \* no name: elsewhere

ASSUME HomeAssumption == Outside \notin Names /\ Names \subseteq DOMAIN Stem

VARIABLES
  files,    \* names that exist
  index,    \* alias -> name
  whole,    \* is index.json written? Half written, it reads as empty.
  doing,    \* execution -> [pc, phase, from, to, copy : of the index, crossed]
  excused   \* history: names whose alias may outlive them

homeVars == <<files, index, whole, doing, excused>>

NoAlias == [a \in {} |-> 0]
Nothing == [pc |-> "idle", phase |-> "none", from |-> Outside, to |-> Outside,
            copy |-> NoAlias, crossed |-> FALSE]

HomeInit ==
  /\ files = {} /\ index = NoAlias /\ whole = TRUE
  /\ doing = [e \in Executions |-> Nothing] /\ excused = {}

\* e goes on with d. A step that others can see crosses what they are doing.
Does(e, d, visible) ==
  doing' = [f \in Executions |->
    IF f = e THEN d
    ELSE IF visible /\ doing[f].pc # "idle" THEN [doing[f] EXCEPT !.crossed = TRUE] ELSE doing[f]]

\* The names a crossed execution may bring back or leave in the index.
Doubtful(e) ==
  IF doing[e].crossed THEN Range(doing[e].copy) \cup ({doing[e].from, doing[e].to} \ {Outside}) ELSE {}

-----------------------------------------------------------------------------
(* The operations on files *)

\* write_file, append_file, copy_file, and moves from elsewhere.
WriteFile(e, n) ==
  /\ doing[e].pc = "idle" /\ files' = files \cup {n} /\ excused' = excused \ {n}
  /\ Does(e, [Nothing EXCEPT !.pc = "read", !.phase = "add", !.to = n], TRUE)
  /\ UNCHANGED <<index, whole>>

\* delete_file: the file, then its alias.
DeleteFile(e, n) ==
  /\ doing[e].pc = "idle" /\ n \in files /\ files' = files \ {n}
  /\ Does(e, [Nothing EXCEPT !.pc = "read", !.phase = "delete", !.from = n], TRUE)
  /\ UNCHANGED <<index, whole, excused>>

\* Mutant of MoveFile: the alias stays.
MoveKeepsAlias(e, n, to) ==
  /\ doing[e].pc = "idle" /\ n \in files /\ to # n
  /\ Does(e, [Nothing EXCEPT !.pc = "move", !.phase = "move", !.from = n, !.to = to], FALSE)
  /\ UNCHANGED <<files, index, whole, excused>>

\* move_file, upgrade_important and downgrade_important: the alias goes first.
MoveFile(e, n, to) ==
  /\ doing[e].pc = "idle" /\ n \in files /\ to # n
  /\ Does(e, [Nothing EXCEPT !.pc = "read", !.phase = "move", !.from = n, !.to = to], FALSE)
  /\ UNCHANGED <<files, index, whole, excused>>

\* The move overwrites; what is no longer there makes it fail.
Rename(e) ==
  LET n == doing[e].from  to == doing[e].to IN
  /\ doing[e].pc = "move"
  /\ IF n \in files
     THEN /\ files' = (files \ {n}) \cup ({to} \ {Outside})
          /\ excused' = (excused \cup Doubtful(e)) \ {to}
          /\ Does(e, IF to = Outside THEN Nothing
                     ELSE [Nothing EXCEPT !.pc = "read", !.phase = "add", !.to = to], TRUE)
     ELSE /\ Does(e, Nothing, FALSE) /\ UNCHANGED <<files, excused>>
  /\ UNCHANGED <<index, whole>>

\* A directory is deleted or moved: its files keep their aliases.
DeleteDirectory(e) ==
  /\ doing[e].pc = "idle" /\ files # {} /\ files' = {} /\ excused' = excused \cup files
  /\ Does(e, Nothing, TRUE) /\ UNCHANGED <<index, whole>>

-----------------------------------------------------------------------------
(* index_add and index_remove *)

ReadIndex == IF whole THEN index ELSE NoAlias

\* What remains to do once the index is as it should be.
Onwards(e) == IF doing[e].phase = "move" THEN [doing[e] EXCEPT !.pc = "move", !.copy = NoAlias] ELSE Nothing

\* index_add: the first file of a stem keeps the alias.
IndexAdd(e) ==
  LET n == doing[e].to  a == Stem[n] IN
  /\ doing[e].pc = "read" /\ doing[e].phase = "add"
  /\ Does(e, IF a \in DOMAIN ReadIndex THEN Nothing
             ELSE [doing[e] EXCEPT !.pc = "open",
                     !.copy = [b \in DOMAIN ReadIndex \cup {a} |-> IF b = a THEN n ELSE ReadIndex[b]]],
          FALSE)
  /\ UNCHANGED <<files, index, whole, excused>>

\* index_remove: the alias, if it is this file's.
IndexRemove(e) ==
  LET n == doing[e].from  a == Stem[n]
      mine == a \in DOMAIN ReadIndex /\ ReadIndex[a] = n
  IN
  /\ doing[e].pc = "read" /\ doing[e].phase \in {"delete", "move"}
  /\ Does(e, IF mine THEN [doing[e] EXCEPT !.pc = "open", !.copy = Restrict(ReadIndex, DOMAIN ReadIndex \ {a})]
             ELSE Onwards(e),
          FALSE)
  /\ excused' = IF mine THEN excused ELSE excused \cup Doubtful(e)
  /\ UNCHANGED <<files, index, whole>>

\* write_text: the file is emptied, then written.
OpenIndex(e) ==
  /\ doing[e].pc = "open" /\ whole' = FALSE
  /\ Does(e, [doing[e] EXCEPT !.pc = "write"], TRUE)
  /\ UNCHANGED <<files, index, excused>>

WriteIndex(e) ==
  /\ doing[e].pc = "write" /\ index' = doing[e].copy /\ whole' = TRUE
  /\ excused' = excused \cup Doubtful(e)
  /\ Does(e, Onwards(e), TRUE)
  /\ UNCHANGED files

\* The execution is killed. What it was deleting may keep its alias.
KillExecution(e) ==
  /\ doing[e].pc # "idle" /\ Does(e, Nothing, FALSE)
  /\ excused' = IF doing[e].phase = "delete" THEN excused \cup {doing[e].from} ELSE excused
  /\ UNCHANGED <<files, index, whole>>

HomeNext ==
  \E e \in Executions :
    \/ \E n \in Names : \/ WriteFile(e, n) \/ DeleteFile(e, n)
                        \/ \E to \in Names \cup {Outside} : MoveFile(e, n, to)
    \/ DeleteDirectory(e) \/ Rename(e)
    \/ IndexAdd(e) \/ IndexRemove(e) \/ OpenIndex(e) \/ WriteIndex(e) \/ KillExecution(e)

HomeSpec == HomeInit /\ [][HomeNext]_homeVars

-----------------------------------------------------------------------------
\* An alias leads to a file, but for the time of a deletion, and after one that was
\* killed or took a whole directory, or when executions crossed each other on the file
\* or on the index. A name that was moved, overwritten or written again is no exception.
AliasLeadsToFile ==
  whole => \A a \in DOMAIN index :
    \/ index[a] \in files \cup excused
    \/ \E e \in Executions : doing[e].phase = "delete" /\ doing[e].from = index[a]
=============================================================================
