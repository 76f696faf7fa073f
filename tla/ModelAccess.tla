----------------------------- MODULE ModelAccess -----------------------------
(***************************************************************************)
(* Which models are within reach: a row per provider, key and model, with  *)
(* what the provider last declared and whether the model last answered.    *)
(* The script refreshes the rows from the lists of the providers, in one   *)
(* transaction; the usage collector takes a model out of reach when a call *)
(* of it failed; a synchronisation of the catalogue deletes rows.          *)
(*                                                                         *)
(* Sources: scripts/sync_provider_models.py, _degrade_available of         *)
(* modules/usage/usage_collector.py, list_available_models of              *)
(* modules/llm_manager/litellm_bridge.py. One endpoint per provider.       *)
(***************************************************************************)
EXTENDS Naturals, Sequences, FiniteSets, Functions

CONSTANTS
  Suppliers,  \* providers, in the order of a full refresh
  Shelf,      \* <<provider, model>> that may be in its list
  KeyRefs,    \* references of keys
  Public,     \* KEY_REF_PUBLIC: no key
  Refreshers, \* processes of the script
  NoOne

ASSUME AccessRowsAssumption ==
  /\ Public \in KeyRefs /\ NoOne \notin Refreshers
  /\ Suppliers \in Seq(Range(Suppliers))
  /\ \A s \in Shelf : s[1] \in Range(Suppliers)

VARIABLES
  access,   \* <<provider, key, model>> -> [declared, available]
  keyRef,   \* provider -> the reference of its key, Public without one
  refresh,  \* process -> [pc, todo : providers, got : a list, rows, lists : to commit]
  writing,  \* the process that holds the write lock of catalogue.db
  listed,   \* history: <<provider, key>> -> the list its last refresh wrote
  failed    \* history: rows a call of which failed since they were written

accessVars == <<access, keyRef, refresh, writing, listed, failed>>

Lists == Range(Suppliers) \X KeyRefs
ShelfOf(p) == {s[2] : s \in {s \in Shelf : s[1] = p}}
NoRows == [r \in {} |-> 0]
NoLists == [l \in Lists |-> {}]
NoRefresh == [pc |-> "idle", todo |-> <<>>, got |-> {}, rows |-> NoRows, lists |-> NoLists]

AccessInit ==
  /\ access = NoRows /\ keyRef = [p \in Range(Suppliers) |-> Public]
  /\ refresh = [s \in Refreshers |-> NoRefresh] /\ writing = NoOne
  /\ listed = NoLists /\ failed = {}

-----------------------------------------------------------------------------
(* main: a refresh of one provider, or of all of them *)

\* The lists come before the first write, so before the lock.
RefreshOne(s, p) ==
  /\ refresh[s].pc = "idle"
  /\ refresh' = [refresh EXCEPT ![s] = [NoRefresh EXCEPT !.pc = "fetch", !.todo = <<p>>]]
  /\ UNCHANGED <<access, keyRef, writing, listed, failed>>

\* The reset takes the lock, which is held while the lists are fetched.
RefreshAll(s) ==
  /\ refresh[s].pc = "idle" /\ writing = NoOne /\ writing' = s
  /\ refresh' = [refresh EXCEPT ![s] =
       [NoRefresh EXCEPT !.pc = "fetch", !.todo = Suppliers,
                         !.rows = [r \in DOMAIN access |-> [access[r] EXCEPT !.declared = FALSE]]]]
  /\ UNCHANGED <<access, keyRef, listed, failed>>

\* sync_provider: no key, no fetcher, an error or an empty list: nothing is written.
SkipProvider(s) ==
  /\ refresh[s].pc = "fetch" /\ refresh[s].todo # <<>>
  /\ refresh' = [refresh EXCEPT ![s].todo = Tail(@)]
  /\ UNCHANGED <<access, keyRef, writing, listed, failed>>

Fetch(s, list) ==
  /\ refresh[s].pc = "fetch" /\ refresh[s].todo # <<>> /\ list # {}
  /\ refresh' = [refresh EXCEPT ![s].pc = "write", ![s].got = list]
  /\ UNCHANGED <<access, keyRef, writing, listed, failed>>

\* Mutant of Refreshed: the rows of the key are not reset.
RefreshedOver(rows, p, k, list, good) ==
  [r \in DOMAIN rows \cup {<<p, k, m>> : m \in list} |->
     IF r[1] = p /\ r[2] = k /\ r[3] \in list
     THEN [declared |-> TRUE, available |-> r[3] \in good] ELSE rows[r]]

\* The rows of the key are reset, those of the list replaced.
Refreshed(rows, p, k, list, good) ==
  [r \in DOMAIN rows \cup {<<p, k, m>> : m \in list} |->
     IF r[1] = p /\ r[2] = k
     THEN IF r[3] \in list THEN [declared |-> TRUE, available |-> r[3] \in good]
          ELSE [rows[r] EXCEPT !.declared = FALSE]
     ELSE rows[r]]

\* `good` answered the ping; without --ping all of the list. The key may be another
\* than the one the list was fetched with.
WriteRows(s, good) ==
  LET p == Head(refresh[s].todo) IN
  /\ refresh[s].pc = "write" /\ writing \in {NoOne, s} /\ writing' = s
  /\ refresh' = [refresh EXCEPT
       ![s].pc = "fetch", ![s].todo = Tail(@), ![s].got = {},
       ![s].rows = Refreshed(IF writing = s THEN @ ELSE access, p, keyRef[p], refresh[s].got, good),
       ![s].lists = [(IF writing = s THEN @ ELSE listed) EXCEPT ![<<p, keyRef[p]>>] = refresh[s].got]]
  /\ UNCHANGED <<access, keyRef, listed, failed>>

Confirmed(s) == {r \in DOMAIN refresh[s].rows : refresh[s].rows[r].declared}

CommitRefresh(s) ==
  /\ refresh[s].pc = "fetch" /\ refresh[s].todo = <<>>
  /\ IF writing = s
     THEN /\ access' = refresh[s].rows /\ listed' = refresh[s].lists /\ writing' = NoOne
          /\ failed' = failed \ {r \in Confirmed(s) : r[3] \in refresh[s].lists[<<r[1], r[2]>>]
                                                      /\ refresh[s].rows[r].available}
     ELSE UNCHANGED <<access, listed, writing, failed>>
  /\ refresh' = [refresh EXCEPT ![s] = NoRefresh] /\ UNCHANGED keyRef

\* A locked key or database, or a kill: the transaction is rolled back.
RefreshDies(s) ==
  /\ refresh[s].pc # "idle" /\ refresh' = [refresh EXCEPT ![s] = NoRefresh]
  /\ writing' = IF writing = s THEN NoOne ELSE writing
  /\ UNCHANGED <<access, keyRef, listed, failed>>

-----------------------------------------------------------------------------
\* _degrade_available, for every key. Under a refresh that holds the lock for more
\* than five seconds the error is swallowed and the failure forgotten.
Degrade(p, m) ==
  LET rows == {r \in DOMAIN access : r[1] = p /\ r[3] = m} IN
  /\ writing = NoOne /\ rows # {}
  /\ access' = [r \in DOMAIN access |->
                  IF r \in rows THEN [access[r] EXCEPT !.available = FALSE] ELSE access[r]]
  /\ failed' = failed \cup rows
  /\ UNCHANGED <<keyRef, refresh, writing, listed>>

\* A key is set, deleted or set anew.
ChangeKey(p, k) ==
  /\ keyRef[p] # k /\ keyRef' = [keyRef EXCEPT ![p] = k]
  /\ UNCHANGED <<access, refresh, writing, listed, failed>>

\* A provider or a model is replaced: its rows go with it.
Replaced(gone) ==
  /\ writing = NoOne /\ gone # {}
  /\ access' = Restrict(access, DOMAIN access \ gone) /\ failed' = failed \ gone
  /\ UNCHANGED <<keyRef, refresh, writing, listed>>

AccessNext ==
  \/ \E s \in Refreshers :
       \/ \E p \in Range(Suppliers) : RefreshOne(s, p)
       \/ RefreshAll(s) \/ SkipProvider(s) \/ CommitRefresh(s) \/ RefreshDies(s)
       \/ refresh[s].todo # <<>> /\ \E list \in SUBSET ShelfOf(Head(refresh[s].todo)) : Fetch(s, list)
       \/ \E good \in SUBSET refresh[s].got : WriteRows(s, good)
  \/ \E s \in Shelf : \/ Degrade(s[1], s[2])
                      \/ Replaced({r \in DOMAIN access : r[3] = s[2]})
                      \/ Replaced({r \in DOMAIN access : r[1] = s[1]})
  \/ \E p \in Range(Suppliers), k \in KeyRefs : ChangeKey(p, k)

AccessSpec == AccessInit /\ [][AccessNext]_accessVars

-----------------------------------------------------------------------------
\* get_available_models; list_available_models of the bridge asks less.
Reachable == {r \in DOMAIN access : access[r].declared /\ access[r].available}

\* However refreshes, failing calls, changes of keys and replaced rows interleave, a
\* row is declared exactly when the last refresh that was committed for its key read
\* it in its provider's list, and it is out of reach when a call failed since then.
AccessTrue ==
  /\ \A r \in DOMAIN access : access[r].declared <=> r[3] \in listed[<<r[1], r[2]>>]
  /\ Reachable \cap failed = {}
=============================================================================
