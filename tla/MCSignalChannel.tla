-------------------------- MODULE MCSignalChannel --------------------------
(***************************************************************************)
(* A workflow with a generation, a task that may loop back to it, a nap    *)
(* and an end.                                                             *)
(***************************************************************************)
EXTENDS SignalChannel, TLC

CONSTANT r1

MCKind    == <<"llm", "task", "end", "sleep">>
MCTargets == <<{2}, {1, 3, 4}, {0}, {0}>>
=============================================================================
