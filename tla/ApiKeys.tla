------------------------------- MODULE ApiKeys -------------------------------
(***************************************************************************)
(* The API keys: a row per key in modelweaver.db, its secret in one table  *)
(* of the keyring that is read and written back as a whole. The threads of *)
(* a process share one connection. Which value a secret has, and the copy  *)
(* of the table each process keeps in memory, are not told apart.          *)
(*                                                                         *)
(* Sources: modules/key_manager/{key_manager,onboarder}.py, KeyRepository  *)
(* of modules/sql/db.py, op_keys_* of services/api/daemon.py.              *)
(***************************************************************************)
EXTENDS Naturals, FiniteSets, Functions

CONSTANTS
  Providers,
  Threads,
  Process,   \* thread -> process
  None,      \* no process, no key
  MaxRefs    \* bound: keys created in all

ASSUME KeysAssumption == MaxRefs \in Nat /\ Process \in [Threads -> Range(Process)]

VARIABLES
  rows,     \* committed rows of api_keys: ref -> [provider, locked]
  txn,      \* the open transaction: [by : process or None, rows]
  keyring,  \* refs in keys_table
  op,       \* thread -> [pc, kind, ref, copy : the keyring it read]
  refs,     \* keys created so far
  excused,  \* history: refs that may lack a secret, by a delete or a stray commit
  raced     \* history: a write of the keyring undid another

keysVars == <<rows, txn, keyring, op, refs, excused, raced>>

Processes == Range(Process)
Ref == 1 .. MaxRefs
Row == [provider : Providers, locked : BOOLEAN]
IdleOp == [pc |-> "idle", kind |-> "none", ref |-> 0, copy |-> {}]

KeysTypeOK ==
  /\ DOMAIN rows \subseteq Ref /\ \A r \in DOMAIN rows : rows[r] \in Row
  /\ txn.by \in Processes \cup {None}
  /\ DOMAIN txn.rows \subseteq Ref /\ \A r \in DOMAIN txn.rows : txn.rows[r] \in Row
  /\ keyring \subseteq Ref
  /\ op \in [Threads -> [pc : {"idle", "load", "flush", "commit"},
                         kind : {"none", "set", "delete"}, ref : 0 .. MaxRefs,
                         copy : SUBSET Ref]]
  /\ refs \in 0 .. MaxRefs /\ excused \subseteq Ref /\ raced \in BOOLEAN

NoRow == [r \in {} |-> 0]
NoTxn == [by |-> None, rows |-> NoRow]

KeysInit ==
  /\ rows = NoRow /\ txn = NoTxn /\ keyring = {}
  /\ op = [t \in Threads |-> IdleOp]
  /\ refs = 0 /\ excused = {} /\ raced = FALSE

\* What the connection of a process reads; who may write.
View(p)     == IF txn.by = p THEN txn.rows ELSE rows
MayWrite(p) == txn.by \in {p, None}
With(f, r, entry) == [s \in DOMAIN f \cup {r} |-> IF s = r THEN entry ELSE f[s]]

\* get_any_for_provider: the only identity is "default".
KeysOf(p, provider) == {r \in DOMAIN View(p) : View(p)[r].provider = provider}

\* Refs other threads of the process insert in the transaction a commit ends.
Stray(t) == {op[u].ref : u \in {u \in Threads \ {t} : /\ Process[u] = Process[t]
                                                      /\ op[u].kind = "set"}}

-----------------------------------------------------------------------------
\* Mutant of SetKey: the row is committed before the secret is stored.
SetKeyCommitted(t, provider) ==
  LET p == Process[t]
      known == KeysOf(p, provider) # {}
      ref == IF known THEN CHOOSE r \in KeysOf(p, provider) : TRUE ELSE refs + 1
  IN  /\ op[t].pc = "idle" /\ MayWrite(p) /\ (~known => refs < MaxRefs)
      /\ rows' = IF known THEN View(p)
                 ELSE With(View(p), ref, [provider |-> provider, locked |-> FALSE])
      /\ refs' = IF known THEN refs ELSE ref
      /\ op' = [op EXCEPT ![t] = [pc |-> "load", kind |-> "set", ref |-> ref, copy |-> {}]]
      /\ UNCHANGED <<txn, keyring, excused, raced>>

\* set_key, up to the INSERT or UPDATE: the transaction stays open.
SetKey(t, provider) ==
  LET p == Process[t]
      known == KeysOf(p, provider) # {}
      ref == IF known THEN CHOOSE r \in KeysOf(p, provider) : TRUE ELSE refs + 1
  IN  /\ op[t].pc = "idle" /\ MayWrite(p) /\ (~known => refs < MaxRefs)
      /\ txn' = [by |-> p, rows |-> IF known THEN View(p)
                   ELSE With(View(p), ref, [provider |-> provider, locked |-> FALSE])]
      /\ refs' = IF known THEN refs ELSE ref
      /\ op' = [op EXCEPT ![t] = [pc |-> "load", kind |-> "set", ref |-> ref, copy |-> {}]]
      /\ UNCHANGED <<rows, keyring, excused, raced>>

\* delete_key: the secret first, without a transaction.
DeleteKey(t, ref) ==
  /\ op[t].pc = "idle"
  /\ op' = [op EXCEPT ![t] = [pc |-> "load", kind |-> "delete", ref |-> ref, copy |-> {}]]
  /\ UNCHANGED <<rows, txn, keyring, refs, excused, raced>>

\* _KeyStore.set and delete: load_all, then _flush of the whole table.
LoadAll(t) ==
  /\ op[t].pc = "load" /\ op' = [op EXCEPT ![t].pc = "flush", ![t].copy = keyring]
  /\ UNCHANGED <<rows, txn, keyring, refs, excused, raced>>

Flush(t) ==
  LET deletes == op[t].kind = "delete" IN
  /\ op[t].pc = "flush" /\ op' = [op EXCEPT ![t].pc = "commit"]
  /\ keyring' = IF deletes THEN op[t].copy \ {op[t].ref} ELSE op[t].copy \cup {op[t].ref}
  /\ raced' = (raced \/ keyring # op[t].copy)
  /\ excused' = IF deletes THEN excused \cup {op[t].ref} ELSE excused
  /\ UNCHANGED <<rows, txn, refs>>

\* The commit ends whatever transaction the threads of the process share.
CommitSet(t) ==
  LET p == Process[t] IN
  /\ op[t].pc = "commit" /\ op[t].kind = "set"
  /\ rows' = View(p) /\ txn' = IF txn.by = p THEN NoTxn ELSE txn
  /\ op' = [op EXCEPT ![t] = IdleOp] /\ excused' = excused \cup Stray(t)
  /\ UNCHANGED <<keyring, refs, raced>>

CommitDelete(t) ==
  LET p == Process[t] IN
  /\ op[t].pc = "commit" /\ op[t].kind = "delete" /\ MayWrite(p)
  /\ rows' = Restrict(View(p), DOMAIN View(p) \ {op[t].ref}) /\ txn' = NoTxn
  /\ op' = [op EXCEPT ![t] = IdleOp] /\ excused' = excused \cup Stray(t)
  /\ UNCHANGED <<keyring, refs, raced>>

SetKeyLock(t, ref) ==
  LET p == Process[t] IN
  /\ op[t].pc = "idle" /\ MayWrite(p) /\ ref \in DOMAIN View(p)
  /\ rows' = [View(p) EXCEPT ![ref].locked = ~@] /\ txn' = NoTxn
  /\ excused' = excused \cup Stray(t)
  /\ UNCHANGED <<keyring, op, refs, raced>>

\* The process dies: its transaction is rolled back, the keyring is as it is.
DieWithKeys(p) ==
  /\ txn' = IF txn.by = p THEN NoTxn ELSE txn
  /\ op' = [t \in Threads |-> IF Process[t] = p THEN IdleOp ELSE op[t]]
  /\ UNCHANGED <<rows, keyring, refs, excused, raced>>

KeysNext ==
  \/ \E t \in Threads :
       \/ LoadAll(t) \/ Flush(t) \/ CommitSet(t) \/ CommitDelete(t)
       \/ \E provider \in Providers : SetKey(t, provider)
       \/ \E r \in DOMAIN View(Process[t]) : DeleteKey(t, r) \/ SetKeyLock(t, r)
  \/ \E p \in Processes : DieWithKeys(p)

KeysSpec == KeysInit /\ [][KeysNext]_keysVars

-----------------------------------------------------------------------------
\* A committed row has its secret in the keyring, whenever a process dies, unless
\* the key is being deleted or was half deleted, another thread of the process
\* committed the row before its secret was stored, or a write of the keyring undid
\* another (the keyring itself has no lock).
RowHasSecret == \A r \in DOMAIN rows : r \in keyring \/ r \in excused \/ raced
=============================================================================
