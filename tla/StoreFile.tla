----------------------------- MODULE StoreFile -----------------------------
(***************************************************************************)
(* One JSON store of the data root changed by several processes: load the  *)
(* file, change the value, write a temporary file, rename it over the      *)
(* store (paths.rs atomic_write, relay.rs atomic_write, memory.rs          *)
(* save_store), with or without the cross-process lock of paths.rs.        *)
(*                                                                         *)
(*   swarm.json               locked, temporary file named after the pid   *)
(*   memory.json              locked, one temporary name for everybody     *)
(*   contracts (relay.rs)     not locked, one temporary name for everybody *)
(*                                                                         *)
(* The value of a store is the set of updates that went into it.  The      *)
(* bytes of an inode are the set of values written into it since it was    *)
(* truncated: one value is a well-formed file, none or several overlaid    *)
(* ones do not parse.  A store that is absent loads like one without       *)
(* updates and is modelled by it.                                          *)
(***************************************************************************)
CONSTANTS
    Procs,          \* processes (CLI, MCP servers) sharing the data root
    Updates,        \* updates, each tried once
    Inodes,         \* bound: files that can exist at a time
    TmpNames,       \* names of temporary files
    TmpNamings,     \* which process uses which name
    Locked          \* whether the cycle runs under lock_store

ASSUME TmpNamingsType == TmpNamings \subseteq [Procs -> TmpNames]
ASSUME LockedType == Locked \in BOOLEAN

VARIABLES
    tmpOf,          \* the naming in use
    lock,           \* processes that hold the lock
    pc,             \* of each process
    upd,            \* the update it is applying
    buf,            \* the value it is about to write
    fd,             \* the inode it has open, {} for none
    tmp,            \* directory: inode of each temporary name, {} for none
    file,           \* directory: inode of the store
    data,           \* bytes of each inode
    used,           \* history: updates that were begun
    acked           \* history: updates whose save returned Ok

vars == <<tmpOf, lock, pc, upd, buf, fd, tmp, file, data, used, acked>>

Bytes == SUBSET SUBSET Updates

IsWhole(bytes) == \E value \in SUBSET Updates : bytes = {value}

\* serde_json::from_slice(..).unwrap_or_default().
Parse(bytes) == IF IsWhole(bytes) THEN UNION bytes ELSE {}

\* What load returns now.
Visible == Parse(data[file])

\* The shape of the state; at most one process holds the lock.
TypeOK ==
    /\ tmpOf \in [Procs -> TmpNames]
    /\ lock \in SUBSET Procs
    /\ \A p, q \in lock : p = q
    /\ pc \in [Procs -> {"idle", "begun", "loaded", "writing", "written"}]
    /\ upd \in [Procs -> SUBSET Updates]
    /\ buf \in [Procs -> SUBSET Updates]
    /\ fd \in [Procs -> SUBSET Inodes]
    /\ tmp \in [TmpNames -> SUBSET Inodes]
    /\ file \in Inodes
    /\ data \in [Inodes -> Bytes]
    /\ used \in SUBSET Updates
    /\ acked \in SUBSET Updates

Init ==
    /\ tmpOf \in TmpNamings
    /\ lock = {}
    /\ pc = [p \in Procs |-> "idle"]
    /\ upd = [p \in Procs |-> {}]
    /\ buf = [p \in Procs |-> {}]
    /\ fd = [p \in Procs |-> {}]
    /\ tmp = [n \in TmpNames |-> {}]
    /\ file \in Inodes
    /\ data = [i \in Inodes |-> {{}}]
    /\ used = {}
    /\ acked = {}

Goto(p, l) == pc' = [pc EXCEPT ![p] = l]

-----------------------------------------------------------------------------

\* Mutant: the lock file is opened, and not locked.
BeginUnlocked(p, u) ==
    /\ pc[p] = "idle"
    /\ u \notin used
    /\ used' = used \cup {u}
    /\ upd' = [upd EXCEPT ![p] = {u}]
    /\ lock' = lock \cup {p}
    /\ Goto(p, "begun")
    /\ UNCHANGED <<tmpOf, buf, fd, tmp, file, data, acked>>

\* lock_store blocks until nobody holds the lock.
Begin(p, u) ==
    /\ pc[p] = "idle"
    /\ u \notin used
    /\ Locked => lock = {}
    /\ used' = used \cup {u}
    /\ upd' = [upd EXCEPT ![p] = {u}]
    /\ lock' = IF Locked THEN {p} ELSE lock
    /\ Goto(p, "begun")
    /\ UNCHANGED <<tmpOf, buf, fd, tmp, file, data, acked>>

\* Mutant: the value kept from this process's last cycle is changed.
LoadCached(p) ==
    /\ pc[p] = "begun"
    /\ buf' = [buf EXCEPT ![p] = @ \cup upd[p]]
    /\ Goto(p, "loaded")
    /\ UNCHANGED <<tmpOf, lock, upd, fd, tmp, file, data, used, acked>>

\* load, then the change of the value.
Load(p) ==
    /\ pc[p] = "begun"
    /\ buf' = [buf EXCEPT ![p] = Visible \cup upd[p]]
    /\ Goto(p, "loaded")
    /\ UNCHANGED <<tmpOf, lock, upd, fd, tmp, file, data, used, acked>>

\* Inodes that no name and no open file refers to.
Free == {i \in Inodes : /\ i # file
                        /\ \A n \in TmpNames : i \notin tmp[n]
                        /\ \A p \in Procs : i \notin fd[p]}

\* Mutant: the store itself is opened for writing.
OpenInPlace(p) ==
    /\ pc[p] = "loaded"
    /\ fd' = [fd EXCEPT ![p] = {file}]
    /\ data' = [data EXCEPT ![file] = {}]
    /\ Goto(p, "writing")
    /\ UNCHANGED <<tmpOf, lock, upd, buf, tmp, file, used, acked>>

\* std::fs::write opens the temporary file: truncated if it exists, else new.
OpenTmp(p) ==
    /\ pc[p] = "loaded"
    /\ \E i \in IF tmp[tmpOf[p]] # {} THEN tmp[tmpOf[p]] ELSE Free :
          /\ tmp' = [tmp EXCEPT ![tmpOf[p]] = {i}]
          /\ fd' = [fd EXCEPT ![p] = {i}]
          /\ data' = [data EXCEPT ![i] = {}]
    /\ Goto(p, "writing")
    /\ UNCHANGED <<tmpOf, lock, upd, buf, file, used, acked>>

\* ... and writes from its start.  Bytes another writer put there since are
\* covered, or partly left over when they are longer.
WriteTmp(p) ==
    /\ pc[p] = "writing"
    /\ \E i \in fd[p] : \E bytes \in {{buf[p]}, data[i] \cup {buf[p]}} :
          data' = [data EXCEPT ![i] = bytes]
    /\ fd' = [fd EXCEPT ![p] = {}]
    /\ Goto(p, "written")
    /\ UNCHANGED <<tmpOf, lock, upd, buf, tmp, file, used, acked>>

\* The process stops its cycle and lets go of the lock.
Leave(p) ==
    /\ Goto(p, "idle")
    /\ lock' = lock \ {p}

\* std::fs::rename succeeds if the temporary name still exists.
Rename(p) ==
    /\ pc[p] = "written"
    /\ \E i \in tmp[tmpOf[p]] : file' = i
    /\ tmp' = [tmp EXCEPT ![tmpOf[p]] = {}]
    /\ acked' = acked \cup upd[p]
    /\ Leave(p)
    /\ UNCHANGED <<tmpOf, upd, buf, fd, data, used>>

\* A step of the cycle fails and its error is returned, or the process ends:
\* the handle is closed, the lock released, a temporary file left behind.  One
\* whose rename failed is removed by paths::atomic_write.
Abandon(p) ==
    /\ pc[p] # "idle"
    /\ fd' = [fd EXCEPT ![p] = {}]
    /\ \/ UNCHANGED tmp
       \/ pc[p] = "written" /\ tmp' = [tmp EXCEPT ![tmpOf[p]] = {}]
    /\ Leave(p)
    /\ UNCHANGED <<tmpOf, upd, buf, file, data, used, acked>>

Next ==
    \E p \in Procs :
        \/ \E u \in Updates : Begin(p, u)
        \/ Load(p)
        \/ OpenTmp(p)
        \/ WriteTmp(p)
        \/ Rename(p)
        \/ Abandon(p)

Spec == Init /\ [][Next]_vars

-----------------------------------------------------------------------------

\* paths.rs, atomic_write: "readers never observe a torn/partial file after a
\* crash", and relay.rs, atomic_write: "Write `bytes` to `path` atomically" -
\* what a reader finds in the store at any moment is one complete value.
StoreIsWhole == IsWhole(data[file])

\* paths.rs, StoreLock: processes "can't silently overwrite each other's
\* updates", and relay.rs, store_contract: "Store or update a durable
\* coordination contract" - an update whose save returned Ok stays in the store.
AcknowledgedUpdatesSurvive == acked \subseteq Visible

Atomic == INSTANCE AtomicStore WITH value <- Visible

\* The whole locked cycle, crashes and errors included, looks like one atomic
\* update of the current value; this is why a handler of Swarm is one step.
ImplementsAtomicStore == Atomic!Spec
=============================================================================
