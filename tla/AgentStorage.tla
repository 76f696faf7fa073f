---------------------------- MODULE AgentStorage ----------------------------
(***************************************************************************)
(* The disk space of an agent and its quota. Each AgentStorage object      *)
(* reads the configuration (quota, counted bytes, pending request) once,   *)
(* decides on that copy and writes the whole copy back; several may be     *)
(* alive over the same row and the same directory, one per request.        *)
(*                                                                         *)
(* Sources: AgentFrameWork/agent_storage.py, _storage_route and the        *)
(* creation and deletion of agents in services/api/daemon.py.              *)
(***************************************************************************)
EXTENDS Naturals, FiniteSets, Functions, FiniteSetsExt

CONSTANTS
  Objects,      \* AgentStorage objects that may be alive at a time
  Files,        \* paths the agent writes
  Sizes,        \* sizes of what it writes
  Quotas,       \* quotas an approval may set
  DefaultQuota, \* MEMAGENT_DEFAULT_QUOTA
  MaxQuota      \* MEMAGENT_MAX_QUOTA

ASSUME QuotaAssumption ==
  /\ IsFiniteSet(Files) /\ Sizes \subseteq Nat /\ Quotas \subseteq Nat
  /\ DefaultQuota \in Nat /\ MaxQuota \in Nat /\ DefaultQuota <= MaxQuota

VARIABLES
  config,   \* storage_json: [max, used, request], or the default when NULL
  exists,   \* does the directory exist?
  disk,     \* file -> size; absent files have no entry
  copy,     \* object -> its copy of config, for those alive
  writing,  \* objects whose bytes are on the disk and not in config yet: object -> used
  peak,     \* history: the largest quota there has been
  upset     \* history: two objects were alive at once, or one was cut short

storageVars == <<config, exists, disk, copy, writing, peak, upset>>

Config == [max : 0 .. MaxQuota, used : Nat, request : BOOLEAN]
Fresh == [max |-> DefaultQuota, used |-> 0, request |-> FALSE]

StorageTypeOK ==
  /\ config \in Config /\ exists \in BOOLEAN /\ upset \in BOOLEAN /\ peak \in 0 .. MaxQuota
  /\ DOMAIN disk \subseteq Files /\ \A f \in DOMAIN disk : disk[f] \in Sizes
  /\ DOMAIN copy \subseteq Objects /\ \A o \in DOMAIN copy : copy[o] \in Config
  /\ DOMAIN writing \subseteq DOMAIN copy /\ \A o \in DOMAIN writing : writing[o] \in Nat

NoFile == [f \in {} |-> 0]
StorageInit ==
  /\ config = Fresh /\ exists = FALSE /\ disk = NoFile
  /\ copy = [o \in {} |-> Fresh] /\ writing = [o \in {} |-> 0]
  /\ peak = DefaultQuota /\ upset = FALSE

OnDisk == MapThenSumSet(LAMBDA f : disk[f], DOMAIN disk)
Idle(o) == o \in DOMAIN copy /\ o \notin DOMAIN writing

\* _save_config: the whole copy of the object.
Save(o, c) == config' = c /\ copy' = [copy EXCEPT ![o] = c]

-----------------------------------------------------------------------------
\* __init__ reads the configuration; the object is dropped with its request.
Construct(o) ==
  /\ o \notin DOMAIN copy
  /\ copy' = [p \in DOMAIN copy \cup {o} |-> IF p = o THEN config ELSE copy[p]]
  /\ upset' = (upset \/ DOMAIN copy # {})
  /\ UNCHANGED <<config, exists, disk, writing, peak>>

Drop(o) ==
  /\ Idle(o) /\ copy' = Restrict(copy, DOMAIN copy \ {o})
  /\ UNCHANGED <<config, exists, disk, writing, peak, upset>>

\* ensure: of an agent just created.
Ensure(o) ==
  /\ Idle(o) /\ ~exists /\ exists' = TRUE
  /\ Save(o, copy[o])
  /\ UNCHANGED <<disk, writing, peak, upset>>

Destroy(o) ==
  /\ Idle(o) /\ exists' = FALSE /\ disk' = NoFile /\ config' = Fresh
  /\ UNCHANGED <<copy, writing, peak, upset>>

\* Mutant of Write: only what is counted so far is compared with the quota.
WriteThenCheck(o, f, size) ==
  /\ Idle(o) /\ copy[o].used <= copy[o].max
  /\ exists' = TRUE
  /\ disk' = [g \in DOMAIN disk \cup {f} |-> IF g = f THEN size ELSE disk[g]]
  /\ writing' = [p \in DOMAIN writing \cup {o} |->
                   IF p = o THEN copy[o].used + size ELSE writing[p]]
  /\ UNCHANGED <<config, copy, peak, upset>>

\* write: the bytes are counted as new even when the file is written over. The
\* directory is made if it is missing; QuotaExceeded changes nothing.
Write(o, f, size) ==
  /\ Idle(o) /\ copy[o].used + size <= copy[o].max
  /\ exists' = TRUE
  /\ disk' = [g \in DOMAIN disk \cup {f} |-> IF g = f THEN size ELSE disk[g]]
  /\ writing' = [p \in DOMAIN writing \cup {o} |->
                   IF p = o THEN copy[o].used + size ELSE writing[p]]
  /\ UNCHANGED <<config, copy, peak, upset>>

\* delete: the file goes, then the count is saved.
Delete(o, f) ==
  /\ Idle(o) /\ f \in DOMAIN disk
  /\ disk' = Restrict(disk, DOMAIN disk \ {f})
  /\ writing' = [p \in DOMAIN writing \cup {o} |->
                   IF p = o THEN IF copy[o].used > disk[f] THEN copy[o].used - disk[f] ELSE 0
                   ELSE writing[p]]
  /\ UNCHANGED <<config, exists, copy, peak, upset>>

SetUsed(o) ==
  /\ o \in DOMAIN writing
  /\ Save(o, [copy[o] EXCEPT !.used = writing[o]])
  /\ writing' = Restrict(writing, DOMAIN writing \ {o})
  /\ UNCHANGED <<exists, disk, peak, upset>>

\* The process dies before the count is saved.
Cut(o) ==
  /\ o \in DOMAIN writing /\ upset' = TRUE
  /\ copy' = Restrict(copy, DOMAIN copy \ {o})
  /\ writing' = Restrict(writing, DOMAIN writing \ {o})
  /\ UNCHANGED <<config, exists, disk, peak>>

RecalcUsed(o) ==
  /\ Idle(o) /\ Save(o, [copy[o] EXCEPT !.used = OnDisk])
  /\ UNCHANGED <<exists, disk, writing, peak, upset>>

RequestQuota(o) ==
  /\ Idle(o) /\ Save(o, [copy[o] EXCEPT !.request = TRUE])
  /\ UNCHANGED <<exists, disk, writing, peak, upset>>

ApproveQuota(o, max) ==
  /\ Idle(o) /\ copy[o].request
  /\ LET new == Min({max, MaxQuota}) IN
       /\ Save(o, [copy[o] EXCEPT !.max = new, !.request = FALSE])
       /\ peak' = Max({peak, new})
  /\ UNCHANGED <<exists, disk, writing, upset>>

StorageNext ==
  \E o \in Objects :
    \/ Construct(o) \/ Drop(o) \/ Ensure(o) \/ Destroy(o) \/ SetUsed(o)
    \/ Cut(o) \/ RecalcUsed(o) \/ RequestQuota(o) \/ \E max \in Quotas : ApproveQuota(o, max)
    \/ \E f \in Files : Delete(o, f) \/ \E size \in Sizes : Write(o, f, size)

StorageSpec == StorageInit /\ [][StorageNext]_storageVars

-----------------------------------------------------------------------------
\* The count never falls behind the disk, whatever is overwritten, deleted or
\* counted again, and the disk never exceeds the largest quota there has been,
\* unless two objects were alive at once or one died between the disk and the count:
\* the race of the cached count is the only way past the quota.
QuotaHolds ==
  ~upset =>
    /\ OnDisk <= peak
    /\ DOMAIN writing = {} /\ exists => OnDisk <= config.used
=============================================================================
