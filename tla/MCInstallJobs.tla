--------------------------- MODULE MCInstallJobs ---------------------------
(***************************************************************************)
(* A thread of the gateway and two commands of the GUI queue jobs.         *)
(***************************************************************************)
EXTENDS InstallJobs

CONSTANTS route, gui1, gui2

MCClients == {route, gui1, gui2}
MCDoor == [cl \in MCClients |-> IF cl = route THEN "mw" ELSE "rt"]
=============================================================================
