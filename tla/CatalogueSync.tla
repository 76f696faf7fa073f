---------------------------- MODULE CatalogueSync ----------------------------
(***************************************************************************)
(* The links of the catalogue (which provider offers which model, at what  *)
(* cost) and all that writes them: the seed, the synchronisation with a    *)
(* remote catalogue, three sources of prices and the fusion of a provider  *)
(* listed twice. INSERT OR REPLACE deletes the row it replaces, and the    *)
(* foreign keys delete the links of that row.                              *)
(*                                                                         *)
(* Sources: modules/sql/db.py (CatalogueDB), modules/llm_manager/          *)
(* llm_manager.py (the seeds), modules/catalogue/{pricing,openrouter,      *)
(* populate}.py, services/api/daemon.py (seed_catalogue,                   *)
(* sync_catalogue_remote). A cost stands for that of the input, which      *)
(* decides in two sources whether both are written.                        *)
(***************************************************************************)
EXTENDS Naturals, FiniteSets

CONSTANTS
  Offering,  \* providers
  Offered,   \* models
  Costs,
  Unknown,   \* the cost of a link without one
  Absent,    \* the "cost" of a link there is not
  Seeds,     \* link -> its cost in provider_models.json, Unknown or Absent
  Writers    \* processes that merge prices

Links == Offering \X Offered

ASSUME CatalogueAssumption ==
  /\ Unknown \notin Costs /\ Absent \notin Costs /\ Unknown # Absent
  /\ Seeds \in [Links -> Costs \cup {Unknown, Absent}]

VARIABLES
  offers,  \* provider_models: link -> cost, Unknown or Absent
  writer   \* writer -> [snap : the rows it read and may write, missed : of those,
           \*            the ones another writer gave a cost since]

catalogueVars == <<offers, writer>>

NoWriter == [active |-> FALSE, snap |-> {}, creates |-> {}, missed |-> {}]

CatalogueInit == /\ offers = Seeds
                 /\ writer = [w \in Writers |-> NoWriter]

Known(l) == offers[l] \in Costs

\* Rows that are deleted are no longer those the writers have read.
Deleted(gone) ==
  writer' = [w \in Writers |-> [writer[w] EXCEPT !.snap = @ \ gone, !.missed = @ \ gone]]

\* The writers other than w whose snapshot a change of these rows makes stale.
Changed(w, priced) ==
  writer' = [v \in Writers |-> IF v = w THEN NoWriter
                               ELSE [writer[v] EXCEPT !.missed = @ \cup (priced \cap writer[v].snap)]]

-----------------------------------------------------------------------------
\* sync_models replaces every model of models.json, seed_provider_models then adds
\* the links that are missing. The route and the GUI run it on a full catalogue.
SeedModels == {l \in Links : \E p \in Offering : Seeds[<<p, l[2]>>] # Absent}

Seed ==
  /\ offers' = [l \in Links |-> IF l \in SeedModels THEN Seeds[l] ELSE offers[l]]
  /\ Deleted({l \in SeedModels : offers[l] # Absent})

\* CatalogueDB opened on a table without links.
Reopen ==
  /\ \A l \in Links : offers[l] = Absent
  /\ offers' = Seeds /\ UNCHANGED writer

\* sync_from_url: the providers and models of the remote catalogue, or of the part
\* of it that answered.
SyncFromUrl(providers, models) ==
  LET gone == {l \in Links : offers[l] # Absent /\ (l[1] \in providers \/ l[2] \in models)} IN
  /\ gone # {}
  /\ offers' = [l \in Links |-> IF l \in gone THEN Absent ELSE offers[l]]
  /\ Deleted(gone)

\* merge_duplicate_provider: a link of the duplicate is folded into the one of the
\* canonical provider, whose cost it overwrites, or becomes it.
MergeDuplicate(dup, canon) ==
  LET dups    == {l \in Links : l[1] = dup /\ offers[l] # Absent}
      Target(l) == <<canon, l[2]>>
      folded  == {l \in dups : offers[Target(l)] # Absent}
      priced  == {Target(l) : l \in {k \in folded : Known(k)}}
      After(seen) == (seen \ dups) \cup {Target(l) : l \in (seen \cap dups) \ folded}
  IN
  /\ dup # canon /\ dups # {}
  /\ offers' = [l \in Links |->
       IF l[1] = dup THEN Absent
       ELSE IF l \in priced \cup {Target(k) : k \in dups \ folded} THEN offers[<<dup, l[2]>>]
       ELSE offers[l]]
  /\ writer' = [w \in Writers |->
       [writer[w] EXCEPT !.snap = After(@),
                         !.missed = After(@) \cup (priced \cap writer[w].snap)]]

-----------------------------------------------------------------------------
(* merge_pricing, merge_openrouter, populate_provider_models *)

\* The rows without a cost are the ones to fill; the last two also create links.
ReadLinks(w) ==
  /\ ~writer[w].active
  /\ \E creates \in {{}, {l \in Links : offers[l] = Absent}} :
       writer' = [writer EXCEPT ![w] = [active |-> TRUE, snap |-> {l \in Links : offers[l] = Unknown},
                                        creates |-> creates, missed |-> {}]]
  /\ UNCHANGED offers

\* What the feed says of a link, when it says anything.
Filled(l, feed) == IF feed[l] = Absent THEN offers[l] ELSE feed[l]

\* Mutant of WriteCosts: the rows that have a cost are written too.
WriteAllCosts(w, feed) ==
  /\ writer[w].active
  /\ offers' = [l \in Links |->
       IF offers[l] # Absent \/ l \in writer[w].creates THEN Filled(l, feed) ELSE offers[l]]
  /\ Changed(w, {l \in Links : offers'[l] # offers[l]})

\* By row id, without looking again; INSERT OR IGNORE for the links to create.
WriteCosts(w, feed) ==
  /\ writer[w].active
  /\ offers' = [l \in Links |->
       IF l \in writer[w].snap /\ feed[l] # Unknown THEN Filled(l, feed)
       ELSE IF l \in writer[w].creates /\ offers[l] = Absent THEN Filled(l, feed)
       ELSE offers[l]]
  /\ Changed(w, {l \in Links : offers'[l] # offers[l]})

CatalogueNext ==
  \/ Seed \/ Reopen
  \/ \E providers \in SUBSET Offering, models \in SUBSET Offered : SyncFromUrl(providers, models)
  \/ \E dup, canon \in Offering : MergeDuplicate(dup, canon)
  \/ \E w \in Writers : \/ ReadLinks(w)
                        \/ \E feed \in [Links -> Costs \cup {Unknown, Absent}] : WriteCosts(w, feed)

CatalogueSpec == CatalogueInit /\ [][CatalogueNext]_catalogueVars

-----------------------------------------------------------------------------
\* The merges are said to be additive: a cost that is known changes only when its row
\* is deleted by a seed or a synchronisation, by the fusion of a duplicate (which does
\* overwrite), or under a merge that read the row before another writer priced it.
KnownCostStays ==
  [][\A l \in Links : Known(l) /\ offers'[l] # offers[l] =>
       \/ Seed
       \/ \E providers \in SUBSET Offering, models \in SUBSET Offered : SyncFromUrl(providers, models)
       \/ \E dup, canon \in Offering : MergeDuplicate(dup, canon)
       \/ \E w \in Writers : writer[w].active /\ ~writer'[w].active /\ l \in writer[w].missed
    ]_catalogueVars
=============================================================================
