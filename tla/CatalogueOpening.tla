--------------------------- MODULE CatalogueOpening ---------------------------
(***************************************************************************)
(* CatalogueDB: every process that opens the catalogue creates, migrates   *)
(* and seeds what it finds missing. The schema script is a line of         *)
(* statements that commit one by one; two opens may run it at once, and    *)
(* one may die in it. The seeds of the models and of their links are two   *)
(* transactions. The insertion of the budget tags opens a transaction that *)
(* only a seed commits: an open that finds nothing to seed returns with    *)
(* the write lock, which others wait for 5 s before they skip a part.      *)
(*                                                                         *)
(* Sources: modules/sql/db.py (CatalogueDB), modules/llm_manager/          *)
(* llm_manager.py (the seeds). A read and the next write of a transaction  *)
(* are two steps only where the write lock is not held between them.       *)
(***************************************************************************)
EXTENDS Naturals

CONSTANTS
  Openers,    \* connections, each of a process of its own
  Endpoints,  \* number of the script's inserts into provider_endpoints
  NoOpener

ASSUME OpeningAssumption == NoOpener \notin Openers /\ Endpoints \in Nat \ {0}

VARIABLES
  table,      \* catalogue_providers exists
  providers,  \* it has its rows
  endpoints,  \* endpoint -> number of its rows in provider_endpoints
  models,     \* catalogue_models has its rows
  links,      \* provider_models has its rows
  lock,       \* the opener in a write transaction, or NoOpener
  step,       \* opener -> "closed", "create", "check", "script", "access", "count",
              \*           "models", "links" or "open"
  done,       \* opener -> statements of the script it has run
  lacks,      \* opener -> it counted no models
  skipped,    \* opener -> it passed over a part it could not write
  cut         \* history: a run of the script ended before its end

openVars == <<table, providers, endpoints, models, links, lock, step, done, lacks, skipped, cut>>
tables   == <<table, providers, endpoints, models, links>>

OpeningInit ==
  /\ table = FALSE /\ providers = FALSE /\ endpoints = [e \in 1 .. Endpoints |-> 0]
  /\ models = FALSE /\ links = FALSE
  /\ lock = NoOpener
  /\ step = [p \in Openers |-> "closed"] /\ done = [p \in Openers |-> 0]
  /\ lacks = [p \in Openers |-> FALSE] /\ skipped = [p \in Openers |-> FALSE]
  /\ cut = FALSE

InScript(p) == step[p] \in {"create", "script"}
Locked(p)   == lock \notin {p, NoOpener}

\* The next part, and whether this one was passed over.
Goes(p, to)  == step' = [step EXCEPT ![p] = to] /\ UNCHANGED skipped
Skips(p, to) == step' = [step EXCEPT ![p] = to] /\ skipped' = [skipped EXCEPT ![p] = TRUE]

-----------------------------------------------------------------------------
(* _ensure_schema *)

OpenCatalogue(p) ==
  /\ step[p] = "closed"
  /\ step' = [step EXCEPT ![p] = IF table THEN "check" ELSE "create"]
  /\ skipped' = [skipped EXCEPT ![p] = FALSE]
  /\ UNCHANGED <<tables, lock, done, lacks, cut>>

\* The tables, the providers, then one insert per endpoint, none of them unique.
Statement(p) ==
  /\ InScript(p) /\ lock = NoOpener /\ done[p] < Endpoints + 2
  /\ done' = [done EXCEPT ![p] = @ + 1]
  /\ table' = TRUE
  /\ providers' = (providers \/ done[p] = 1)
  /\ endpoints' = [e \in 1 .. Endpoints |-> endpoints[e] + (IF e + 1 = done[p] THEN 1 ELSE 0)]
  /\ UNCHANGED <<models, links, lock, step, lacks, skipped, cut>>

ScriptEnds(p) ==
  /\ InScript(p) /\ done[p] = Endpoints + 2
  /\ Goes(p, IF step[p] = "create" THEN "check" ELSE "access")
  /\ done' = [done EXCEPT ![p] = 0]
  /\ UNCHANGED <<tables, lock, lacks, cut>>

\* Refused for 5 s: the constructor raises while it creates, passes over it later.
ScriptRefused(p) ==
  /\ InScript(p) /\ Locked(p) /\ done[p] < Endpoints + 2
  /\ IF step[p] = "create" THEN Goes(p, "closed") ELSE Skips(p, "access")
  /\ cut' = (cut \/ done[p] > 0) /\ done' = [done EXCEPT ![p] = 0]
  /\ UNCHANGED <<tables, lock, lacks>>

\* An empty table of providers or of endpoints: the script is run (again).
CheckTables(p) ==
  /\ step[p] = "check"
  /\ Goes(p, IF providers /\ \E e \in 1 .. Endpoints : endpoints[e] > 0 THEN "access" ELSE "script")
  /\ UNCHANGED <<tables, lock, done, lacks, cut>>

\* The tables of access; the insertion of the budget tags takes the write lock.
Access(p) ==
  /\ step[p] = "access"
  /\ \/ lock = NoOpener /\ lock' = p
     \/ Locked(p) /\ UNCHANGED lock
  /\ Goes(p, "count")
  /\ UNCHANGED <<tables, done, lacks, cut>>

\* Mutant of Count: the links are only seeded with the models.
CountModels(p) ==
  /\ step[p] = "count"
  /\ Goes(p, IF models THEN "open" ELSE "models")
  /\ lacks' = [lacks EXCEPT ![p] = ~models]
  /\ UNCHANGED <<tables, lock, done, cut>>

Count(p) ==
  /\ step[p] = "count"
  /\ Goes(p, IF models /\ links THEN "open" ELSE "models")
  /\ lacks' = [lacks EXCEPT ![p] = ~models]
  /\ UNCHANGED <<tables, lock, done, cut>>

\* Both seeds commit. One that read before another opener committed is refused.
FillModels(p) ==
  /\ step[p] = "models" /\ ~Locked(p) /\ lacks[p] = ~models
  /\ models' = TRUE /\ lock' = IF lacks[p] THEN NoOpener ELSE lock
  /\ lacks' = [lacks EXCEPT ![p] = FALSE]
  /\ Goes(p, "links")
  /\ UNCHANGED <<table, providers, endpoints, links, done, cut>>

\* Only links between a provider and a model that are there.
FillLinks(p) ==
  /\ step[p] = "links" /\ ~Locked(p)
  /\ links' = (links \/ providers) /\ lock' = NoOpener
  /\ Goes(p, "open")
  /\ UNCHANGED <<table, providers, endpoints, models, done, lacks, cut>>

FillRefused(p) ==
  /\ \/ step[p] \in {"models", "links"} /\ Locked(p)
     \/ step[p] = "models" /\ lock # p /\ lacks[p] # ~models
  /\ Skips(p, "open") /\ lacks' = [lacks EXCEPT ![p] = FALSE]
  /\ UNCHANGED <<tables, lock, done, cut>>

-----------------------------------------------------------------------------
(* Afterwards *)

\* The first write of its own that the opener commits.
Commit(p) ==
  /\ step[p] = "open" /\ lock = p /\ lock' = NoOpener
  /\ UNCHANGED <<tables, step, done, lacks, skipped, cut>>

\* close, or the death of the process, at any step: SQLite rolls back.
Close(p) ==
  /\ step[p] # "closed"
  /\ step' = [step EXCEPT ![p] = "closed"] /\ skipped' = [skipped EXCEPT ![p] = FALSE]
  /\ lock' = IF lock = p THEN NoOpener ELSE lock
  /\ cut' = (cut \/ (InScript(p) /\ done[p] > 0))
  /\ done' = [done EXCEPT ![p] = 0] /\ lacks' = [lacks EXCEPT ![p] = FALSE]
  /\ UNCHANGED tables

OpeningNext == \E p \in Openers :
  \/ OpenCatalogue(p) \/ Statement(p) \/ ScriptEnds(p) \/ ScriptRefused(p) \/ CheckTables(p)
  \/ Access(p) \/ Count(p) \/ FillModels(p) \/ FillLinks(p) \/ FillRefused(p)
  \/ Commit(p) \/ Close(p)

OpeningSpec == OpeningInit /\ [][OpeningNext]_openVars

-----------------------------------------------------------------------------
\* An open that passed over nothing finds the catalogue seeded when it returns, whoever
\* else opened it or died at it: models, their links and the providers; and, unless a
\* run of the script was cut short or is still under way, every endpoint.
OpenedIsSeeded ==
  \A p \in Openers : step[p] = "open" /\ ~skipped[p] =>
    /\ providers /\ models /\ links
    /\ \/ \A e \in 1 .. Endpoints : endpoints[e] > 0
       \/ cut \/ \E q \in Openers : InScript(q)
=============================================================================
