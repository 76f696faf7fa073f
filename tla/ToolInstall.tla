----------------------------- MODULE ToolInstall -----------------------------
(***************************************************************************)
(* Installing and uninstalling one tool of the catalogue by its recipes,   *)
(* and the table of local installs that a scan of the machine fills: the   *)
(* scan adds what it finds and only an uninstall takes a row away.         *)
(*                                                                         *)
(* Sources: services/installer_worker/jobs.py (install_tool,               *)
(* uninstall_tool), modules/installer/recipe_parser.py,                    *)
(* modules/sql/db.py (LocalToolRepository, scan_installed_tools),          *)
(* services/api/daemon.py (seed_recipes, the routes). The recipe directory *)
(* of the parser is never found, so recipes are those of the catalogue,    *)
(* which have no pre_install and no post_install. The queue that keeps a   *)
(* tool from being handled twice does not hold the helper of the GUI,      *)
(* which calls the same functions, nor the scans.                          *)
(***************************************************************************)
EXTENDS Naturals, Sequences, FiniteSets

CONSTANTS
  Managers,  \* package managers, by priority
  Pip,       \* the one of the default uninstall command
  Runners,   \* threads and processes that install, uninstall or scan
  Nil        \* no manager

ASSUME InstallAssumption == Managers # <<>> /\ \A i \in DOMAIN Managers : Managers[i] # Nil

VARIABLES
  recipe,   \* manager -> its block in the catalogue: "none", "empty" or "full"
  machine,  \* managers by which the tool is installed
  scanned,  \* is the tool in the fixed list of the scan?
  row,      \* has it a row in local_installs?
  runner,   \* runner -> [pc, kind, mgr, saw, had : the row an uninstall deleted]
  blurred   \* history: a step went wrong in one of the ways the code swallows

toolVars == <<recipe, machine, scanned, row, runner, blurred>>

Blocks == {"none", "empty", "full"}
Used == {Managers[i] : i \in DOMAIN Managers}
AtRest == [pc |-> "idle", kind |-> "none", mgr |-> Nil, saw |-> FALSE, had |-> FALSE]

\* The gateway scans at its start when the table is empty.
ToolInit ==
  /\ recipe \in [Used -> Blocks] /\ machine \in SUBSET Used /\ scanned \in BOOLEAN
  /\ row = (scanned /\ machine # {})
  /\ runner = [r \in Runners |-> AtRest] /\ blurred = FALSE

\* resolve: the first manager with a block, by its priority.
Resolved ==
  LET found == {i \in DOMAIN Managers : recipe[Managers[i]] # "none"} IN
  IF found = {} THEN Nil ELSE Managers[CHOOSE i \in found : \A j \in found : i <= j]

Becomes(r, pc) == runner' = [runner EXCEPT ![r].pc = pc]
Ends(r) == runner' = [runner EXCEPT ![r] = AtRest]

-----------------------------------------------------------------------------
\* install_tool and uninstall_tool up to the first resolve: without a recipe they end.
BeginJob(r, kind) ==
  /\ runner[r].pc = "idle" /\ Resolved # Nil
  /\ runner' = [runner EXCEPT ![r] = [AtRest EXCEPT !.pc = "resolve", !.kind = kind]]
  /\ UNCHANGED <<recipe, machine, scanned, row, blurred>>

\* The second resolve, of execute_install and execute_uninstall, is the one that counts.
ResolveAgain(r) ==
  /\ runner[r].pc = "resolve"
  /\ IF Resolved = Nil \/ recipe[Resolved] = "empty" THEN Ends(r)
     ELSE runner' = [runner EXCEPT ![r].pc = "commands", ![r].mgr = Resolved]
  /\ UNCHANGED <<recipe, machine, scanned, row, blurred>>

\* Has somebody read the machine for a scan and not saved what it found?
ReadBy(r) == \E s \in Runners \ {r} : runner[s].pc = "save" /\ runner[s].saw

\* A command that fails ends the installation; what the ones before did stays.
RunInstall(r) ==
  /\ runner[r].pc = "commands" /\ runner[r].kind = "install"
  /\ \/ machine' = machine \cup {runner[r].mgr} /\ Becomes(r, "read") /\ UNCHANGED blurred
     \/ /\ machine' \in {machine, machine \cup {runner[r].mgr}} /\ Ends(r)
        /\ blurred' = (blurred \/ machine' # machine)
  /\ UNCHANGED <<recipe, scanned, row>>

\* The result of a command is not looked at: the uninstall always succeeds.
RunUninstall(r) ==
  /\ runner[r].pc = "commands" /\ runner[r].kind = "uninstall"
  /\ machine' \in {machine, machine \ {runner[r].mgr}, machine \ {Pip}}
  /\ blurred' = (blurred \/ (machine' # machine /\ ReadBy(r)))
  /\ Becomes(r, "forget")
  /\ UNCHANGED <<recipe, scanned, row>>

\* Mutant of Forget: the scan is left to do it.
ForgetNothing(r) ==
  /\ runner[r].pc = "forget" /\ Becomes(r, "read")
  /\ UNCHANGED <<recipe, machine, scanned, row, blurred>>

\* LocalToolRepository.remove, committed by the scan or by another thread.
Forget(r) ==
  /\ runner[r].pc = "forget"
  /\ row' = FALSE
  /\ runner' = [runner EXCEPT ![r].pc = "read", ![r].had = row]
  /\ UNCHANGED <<recipe, machine, scanned, blurred>>

-----------------------------------------------------------------------------
(* scan_installed_tools: after a job, from a route or from the GUI *)

BeginScan(r) ==
  /\ runner[r].pc = "idle"
  /\ runner' = [runner EXCEPT ![r] = [AtRest EXCEPT !.pc = "read", !.kind = "scan"]]
  /\ UNCHANGED <<recipe, machine, scanned, row, blurred>>

\* `which`, or one `pip list` for all the modules.
ScanRead(r) ==
  /\ runner[r].pc = "read"
  /\ runner' = [runner EXCEPT ![r].pc = "save", ![r].saw = (scanned /\ machine # {})]
  /\ UNCHANGED <<recipe, machine, scanned, row, blurred>>

ScanSave(r) ==
  /\ runner[r].pc = "save"
  /\ row' = (row \/ runner[r].saw)
  /\ Ends(r)
  /\ UNCHANGED <<recipe, machine, scanned, blurred>>

\* The database is locked, or the process ends: a removal it had not committed is
\* undone. Commands under way go on in their session.
Fails(r) ==
  /\ runner[r].pc \notin {"idle", "resolve"}
  /\ row' \in {row, row \/ runner[r].had}
  /\ \/ UNCHANGED machine
     \/ /\ runner[r].pc = "commands"
        /\ machine' = IF runner[r].kind = "install" THEN machine \cup {runner[r].mgr}
                      ELSE machine \ {runner[r].mgr}
  /\ blurred' = (blurred \/ runner[r].kind # "scan")
  /\ Ends(r)
  /\ UNCHANGED <<recipe, scanned>>

-----------------------------------------------------------------------------
\* seed_recipes or a synchronisation changes a block of the catalogue.
ChangeRecipe ==
  /\ \E m \in Used, b \in Blocks : recipe[m] # b /\ recipe' = [recipe EXCEPT ![m] = b]
  /\ UNCHANGED <<machine, scanned, row, runner, blurred>>

ToolNext ==
  \/ \E r \in Runners :
       \/ \E kind \in {"install", "uninstall"} : BeginJob(r, kind)
       \/ ResolveAgain(r) \/ RunInstall(r) \/ RunUninstall(r) \/ Forget(r)
       \/ BeginScan(r) \/ ScanRead(r) \/ ScanSave(r) \/ Fails(r)
  \/ ChangeRecipe

ToolSpec == ToolInit /\ [][ToolNext]_toolVars

-----------------------------------------------------------------------------
\* When nothing runs, a tool of the scan's list has a row exactly when some manager has
\* it installed, though rows are only added by scans and dropped by uninstalls that
\* look at no result and interleave: unless an installation stopped half way, a step
\* after the commands failed, or a scan saved what an uninstall had taken away since.
InventoryTrue ==
  (\A r \in Runners : runner[r].pc = "idle") => blurred \/ (row <=> scanned /\ machine # {})
=============================================================================
