----------------------------- MODULE LakeCache -----------------------------
(***************************************************************************)
(* The vector cache of the memory tools (substrate/rulake): pointers from  *)
(* (backend, collection) keys to compressed indexes shared by witness, the *)
(* searches that prime and read them, the LRU cap, and the snapshot        *)
(* directory of save_cache_to_dir, publish_bundle, refresh_from_bundle_dir *)
(* and warm_from_dir.                                                      *)
(*                                                                         *)
(* A step is one critical section of the cache mutex, one call of the      *)
(* backend or one file operation.  An index is the generation of the data  *)
(* it was built from; the clock of the TTL is a set of recently checked    *)
(* keys.  Files are renamed into place, and one thread at a time writes    *)
(* the directory: two would share a temporary file.                        *)
(***************************************************************************)
EXTENDS Naturals, FiniteSets

CONSTANTS
    Keys,           \* (backend, collection) pairs
    Threads,        \* callers of a RuLake
    DataRefs,       \* what a bundle names; backends may share one
    DataOf,         \* data_ref of each key
    MaxGen,         \* bound: generations of a data_ref
    MaxEntries,     \* max_entries: the cap of the cache
    None            \* no witness, no key

Gens == 1..MaxGen
Witness == [ref : DataRefs, gen : Gens]

ASSUME KeysFinite == IsFiniteSet(Keys)
ASSUME DataOfType == DataOf \in [Keys -> DataRefs]
ASSUME MaxGenType == MaxGen \in Nat \ {0}
ASSUME NoneType == None \notin Witness /\ None \notin Keys

VARIABLES
    mode,           \* consistency; never changes
    gen,            \* the backend: generation of each data_ref
    pointers,       \* cache: the witness of each key
    entries,        \* cache: the entry of each witness
    checked,        \* cache: keys whose last_checked is within the TTL
    sidecar,        \* directory: witness of table.rulake.json
    snapshot,       \* directory: data of index.rbpx, 0 if missing
    pc,             \* of each thread: the step it takes next
    key,            \* of each thread: its key
    wit,            \* of each thread: the witness it read
    got,            \* of each thread: the data it pulled or loaded
    floor,          \* history: what a search must not fall behind
    reinstalled     \* history: a key was pointed at the witness it had

cache == <<pointers, entries, checked>>
disk == <<sidecar, snapshot>>
local == <<key, wit, got>>
vars == <<mode, gen, cache, disk, pc, local, floor, reinstalled>>

\* An entry without data is a witness that is not cached.  primed: built from
\* the backend (generation_hint is Some), not loaded from the directory.
Entry == [data : 0..MaxGen, refcount : Nat, primed : BOOLEAN]
NoEntry == [data |-> 0, refcount |-> 0, primed |-> FALSE]

Searching == {"bundle", "compare", "touch", "pull", "prime", "build", "lookup"}
Writing == {"index", "rename", "publish", "write"}
Reading == {"refresh", "drop", "load", "install"}

\* The shape of the state.
TypeOK ==
    /\ mode \in {"fresh", "eventual", "frozen"}
    /\ gen \in [DataRefs -> Gens]
    /\ pointers \in [Keys -> Witness \cup {None}]
    /\ entries \in [Witness -> Entry]
    /\ checked \subseteq Keys
    /\ sidecar \in Witness \cup {None}
    /\ snapshot \in 0..MaxGen
    /\ pc \in [Threads -> {"idle"} \cup Searching \cup Writing \cup Reading]
    /\ key \in [Threads -> Keys \cup {None}]
    /\ wit \in [Threads -> Witness \cup {None}]
    /\ got \in [Threads -> 0..MaxGen]
    /\ floor \in [Threads -> 0..MaxGen]
    /\ reinstalled \in BOOLEAN

Init ==
    /\ mode \in {"fresh", "eventual", "frozen"}
    /\ gen = [d \in DataRefs |-> 1]
    /\ pointers = [k \in Keys |-> None]
    /\ entries = [w \in Witness |-> NoEntry]
    /\ checked = {}
    /\ sidecar = None
    /\ snapshot = 0
    /\ pc = [p \in Threads |-> "idle"]
    /\ key = [p \in Threads |-> None]
    /\ wit = [p \in Threads |-> None]
    /\ got = [p \in Threads |-> 0]
    /\ floor = [p \in Threads |-> 0]
    /\ reinstalled = FALSE

Present(es, w) == w \in Witness /\ es[w].data # 0

Current(k) == [ref |-> DataOf[k], gen |-> gen[DataOf[k]]]

Goto(p, s) == pc' = [pc EXCEPT ![p] = s]

\* The call returns; what it held is forgotten.
Return(p) ==
    /\ pc' = [pc EXCEPT ![p] = "idle"]
    /\ key' = [key EXCEPT ![p] = None]
    /\ wit' = [wit EXCEPT ![p] = None]
    /\ got' = [got EXCEPT ![p] = 0]
    /\ floor' = [floor EXCEPT ![p] = 0]

-----------------------------------------------------------------------------
(* The cache's critical sections. *)

\* Mutant: the entry outlives its last pointer.
ReleaseKeeping(es, w) ==
    IF Present(es, w) /\ es[w].refcount > 0
    THEN [es EXCEPT ![w].refcount = @ - 1] ELSE es

\* One pointer to w goes; the entry goes with the last one.
Release(es, w) ==
    IF ~Present(es, w) THEN es
    ELSE IF es[w].refcount <= 1 THEN [es EXCEPT ![w] = NoEntry]
    ELSE [es EXCEPT ![w].refcount = @ - 1]

\* inner_install_pointer_unlocked: leave the old witness, then count the
\* pointer at the new one if it is (still) cached.
Repointed(es, k, w) ==
    LET left == Release(es, pointers[k])
    IN  IF Present(left, w) THEN [left EXCEPT ![w].refcount = @ + 1] ELSE left

Unpinned(es) == {w \in Witness : Present(es, w) /\ es[w].refcount = 0}
Cached(es) == {w \in Witness : Present(es, w)}

\* evict_lru_if_over: unpinned entries go, in the order of their last use,
\* until the cap holds or every entry is pinned.
evict_lru_if_over(es) ==
    {[w \in Witness |-> IF w \in V THEN NoEntry ELSE es[w]] :
        V \in {V \in SUBSET Unpinned(es) :
                 /\ V = Unpinned(es) \/ Cardinality(Cached(es) \ V) <= MaxEntries
                 /\ \A v \in V : Cardinality(Cached(es) \ (V \ {v})) > MaxEntries}}

\* The pointer is installed: at the entry that is there, or at a new one, after
\* which the cap is enforced.
InstallPointer(k, w, entry) ==
    /\ IF Present(entries, w)
       THEN entries' = Repointed(entries, k, w)
       ELSE entries' \in evict_lru_if_over(Repointed([entries EXCEPT ![w] = entry], k, w))
    /\ pointers' = [pointers EXCEPT ![k] = w]
    /\ checked' = checked \cup {k}
    /\ reinstalled' = (reinstalled \/ pointers[k] = w)

\* Mutant: the entry of the dropped pointer is not released.
DropPointerOnly(k) ==
    /\ pointers' = [pointers EXCEPT ![k] = None]
    /\ checked' = checked \ {k}
    /\ UNCHANGED entries

\* invalidate_interned
DropPointer(k) ==
    /\ entries' = Release(entries, pointers[k])
    /\ pointers' = [pointers EXCEPT ![k] = None]
    /\ checked' = checked \ {k}

-----------------------------------------------------------------------------
(* Searches: search_one, search_batch and each target of search_federated. *)

\* Mutant: Fresh trusts an installed pointer, like Frozen.
can_skip_installed(k) == pointers[k] # None

can_skip_check(k) ==
    CASE mode = "fresh" -> FALSE
      [] mode = "eventual" -> k \in checked
      [] mode = "frozen" -> pointers[k] # None

\* What a Fresh search of k that starts now may rely on: the generation of this
\* moment, and the ones that earlier searches of k still have in hand.
Reliable(k) ==
    IF mode # "fresh" THEN {0}
    ELSE {Current(k).gen} \cup
         {wit[q].gen : q \in {q \in Threads :
             key[q] = k /\ pc[q] \in {"compare", "pull", "prime", "build"}}}

\* ensure_fresh begins: may the check be skipped?
Search(p, k) ==
    /\ pc[p] = "idle"
    /\ key' = [key EXCEPT ![p] = k]
    /\ Goto(p, IF can_skip_check(k) THEN "lookup" ELSE "bundle")
    /\ \E g \in Reliable(k) : /\ \A h \in Reliable(k) : g <= h
                             /\ floor' = [floor EXCEPT ![p] = g]
    /\ UNCHANGED <<mode, gen, cache, disk, wit, got, reinstalled>>

\* current_bundle of the backend.
ReadBundle(p) ==
    /\ pc[p] = "bundle"
    /\ wit' = [wit EXCEPT ![p] = Current(key[p])]
    /\ Goto(p, "compare")
    /\ UNCHANGED <<mode, gen, cache, disk, key, got, floor, reinstalled>>

\* witness_of: the pointer is up to date, or the data must be pulled.
Compare(p) ==
    /\ pc[p] = "compare"
    /\ Goto(p, IF pointers[key[p]] = wit[p] THEN "touch" ELSE "pull")
    /\ UNCHANGED <<mode, gen, cache, disk, local, floor, reinstalled>>

Touch(p) ==
    /\ pc[p] = "touch"
    /\ checked' = checked \cup {key[p]}
    /\ wit' = [wit EXCEPT ![p] = None]
    /\ Goto(p, "lookup")
    /\ UNCHANGED <<mode, gen, pointers, entries, disk, key, got, floor, reinstalled>>

\* Mutant: the batch is taken from a replica that lags behind.
PullLagging(p) ==
    /\ pc[p] = "pull"
    /\ \E g \in 1..Current(key[p]).gen : got' = [got EXCEPT ![p] = g]
    /\ Goto(p, "prime")
    /\ UNCHANGED <<mode, gen, cache, disk, key, wit, floor, reinstalled>>

\* pull_vectors: the data of this moment, not of the bundle's.
Pull(p) ==
    /\ pc[p] = "pull"
    /\ got' = [got EXCEPT ![p] = Current(key[p]).gen]
    /\ Goto(p, "prime")
    /\ UNCHANGED <<mode, gen, cache, disk, key, wit, floor, reinstalled>>

\* The pointer is installed and the search goes on to follow it.
Installed(p, entry) ==
    /\ InstallPointer(key[p], wit[p], entry)
    /\ Goto(p, "lookup")
    /\ wit' = [wit EXCEPT ![p] = None]
    /\ got' = [got EXCEPT ![p] = 0]

\* prime_interned, fast path: point at the entry if it is there; otherwise the
\* index is built without the lock.
Prime(p) ==
    /\ pc[p] = "prime"
    /\ IF Present(entries, wit[p])
       THEN Installed(p, NoEntry)
       ELSE Goto(p, "build") /\ UNCHANGED <<cache, wit, got, reinstalled>>
    /\ UNCHANGED <<mode, gen, disk, key, floor>>

\* prime_interned, slow path: the built index, or the one of a faster thread.
Build(p) ==
    /\ pc[p] = "build"
    /\ Installed(p, [data |-> got[p], refcount |-> 0, primed |-> TRUE])
    /\ UNCHANGED <<mode, gen, disk, key, floor>>

\* search_cached_with_rerank_interned: follow the pointer.  The scan runs on a
\* clone of the entry, and there is UnknownCollection when one of them is gone.
Lookup(p) ==
    /\ pc[p] = "lookup"
    /\ Return(p)
    /\ UNCHANGED <<mode, gen, cache, disk, reinstalled>>

-----------------------------------------------------------------------------
(* Snapshots and invalidation. *)

\* save_cache_to_dir: the witness of the key, if it has one ...
Save(p, k) ==
    /\ pc[p] = "idle"
    /\ \A q \in Threads : pc[q] \notin Writing
    /\ pointers[k] # None
    /\ key' = [key EXCEPT ![p] = k]
    /\ wit' = [wit EXCEPT ![p] = pointers[k]]
    /\ Goto(p, "index")
    /\ UNCHANGED <<mode, gen, cache, disk, got, floor, reinstalled>>

\* ... its index, if it is cached ...
SaveIndex(p) ==
    /\ pc[p] = "index"
    /\ IF Present(entries, wit[p])
       THEN /\ got' = [got EXCEPT ![p] = entries[wit[p]].data]
            /\ Goto(p, "rename")
            /\ UNCHANGED <<key, wit, floor>>
       ELSE Return(p)
    /\ UNCHANGED <<mode, gen, cache, disk, reinstalled>>

\* ... written and renamed into place.
SaveRename(p) ==
    /\ pc[p] = "rename"
    /\ snapshot' = got[p]
    /\ Goto(p, "publish")
    /\ UNCHANGED <<mode, gen, cache, sidecar, local, floor, reinstalled>>

\* publish_bundle, alone or at the end of a save: the bundle of this moment ...
Publish(p, k) ==
    /\ \/ pc[p] = "idle" /\ \A q \in Threads : pc[q] \notin Writing
       \/ pc[p] = "publish" /\ key[p] = k
    /\ key' = [key EXCEPT ![p] = k]
    /\ wit' = [wit EXCEPT ![p] = Current(k)]
    /\ got' = [got EXCEPT ![p] = 0]
    /\ Goto(p, "write")
    /\ UNCHANGED <<mode, gen, cache, disk, floor, reinstalled>>

\* ... written and renamed into place.
WriteSidecar(p) ==
    /\ pc[p] = "write"
    /\ sidecar' = wit[p]
    /\ Return(p)
    /\ UNCHANGED <<mode, gen, cache, snapshot, reinstalled>>

\* warm_from_dir reads the sidecar ...
Warm(p, k) ==
    /\ pc[p] = "idle"
    /\ sidecar # None
    /\ key' = [key EXCEPT ![p] = k]
    /\ wit' = [wit EXCEPT ![p] = sidecar]
    /\ Goto(p, "load")
    /\ UNCHANGED <<mode, gen, cache, disk, got, floor, reinstalled>>

\* ... and the index, whose shape is all that is compared with the bundle ...
Load(p) ==
    /\ pc[p] = "load"
    /\ IF snapshot = 0 THEN Return(p)
       ELSE /\ got' = [got EXCEPT ![p] = snapshot]
            /\ Goto(p, "install")
            /\ UNCHANGED <<key, wit, floor>>
    /\ UNCHANGED <<mode, gen, cache, disk, reinstalled>>

\* ... and installs it: install_prebuilt_interned.  Searches of the key that
\* are under way may be served from it.
InstallPrebuilt(p) ==
    /\ pc[p] = "install"
    /\ InstallPointer(key[p], wit[p], [data |-> got[p], refcount |-> 0, primed |-> FALSE])
    /\ pc' = [pc EXCEPT ![p] = "idle"]
    /\ key' = [key EXCEPT ![p] = None]
    /\ wit' = [wit EXCEPT ![p] = None]
    /\ got' = [got EXCEPT ![p] = 0]
    /\ floor' = [q \in Threads |->
          IF key[q] = key[p] /\ pc[q] \in Searching /\ wit[p].gen < floor[q]
          THEN wit[p].gen ELSE floor[q]]
    /\ UNCHANGED <<mode, gen, disk>>

\* refresh_from_bundle_dir reads the sidecar ...
Refresh(p, k) ==
    /\ pc[p] = "idle"
    /\ sidecar # None
    /\ key' = [key EXCEPT ![p] = k]
    /\ wit' = [wit EXCEPT ![p] = sidecar]
    /\ Goto(p, "refresh")
    /\ UNCHANGED <<mode, gen, cache, disk, got, floor, reinstalled>>

\* ... compares it with the key's witness ...
RefreshCompare(p) ==
    /\ pc[p] = "refresh"
    /\ IF pointers[key[p]] \in {None, wit[p]} THEN Return(p)
       ELSE Goto(p, "drop") /\ UNCHANGED <<local, floor>>
    /\ UNCHANGED <<mode, gen, cache, disk, reinstalled>>

\* ... and drops whatever the key points at by now.
RefreshDrop(p) ==
    /\ pc[p] = "drop"
    /\ DropPointer(key[p])
    /\ Return(p)
    /\ UNCHANGED <<mode, gen, disk, reinstalled>>

\* An error of the backend, of the index builder or of a file operation ends
\* the call where it is.
Fail(p) ==
    /\ pc[p] \in {"bundle", "pull", "prime", "build", "rename", "publish", "write", "load"}
    /\ Return(p)
    /\ UNCHANGED <<mode, gen, cache, disk, reinstalled>>

\* invalidate_cache
Invalidate(k) ==
    /\ DropPointer(k)
    /\ UNCHANGED <<mode, gen, disk, pc, local, floor, reinstalled>>

-----------------------------------------------------------------------------
(* The environment. *)

\* put_collection or append on the backend.
Append(d) ==
    /\ gen[d] < MaxGen
    /\ gen' = [gen EXCEPT ![d] = @ + 1]
    /\ UNCHANGED <<mode, cache, disk, pc, local, floor, reinstalled>>

\* The TTL of a key's last check runs out.
Expire(k) ==
    /\ mode = "eventual"
    /\ k \in checked
    /\ checked' = checked \ {k}
    /\ UNCHANGED <<mode, gen, pointers, entries, disk, pc, local, floor, reinstalled>>

\* The process ends, at any point of any call, and starts with an empty cache.
Restart ==
    /\ pointers' = [k \in Keys |-> None]
    /\ entries' = [w \in Witness |-> NoEntry]
    /\ checked' = {}
    /\ pc' = [p \in Threads |-> "idle"]
    /\ key' = [p \in Threads |-> None]
    /\ wit' = [p \in Threads |-> None]
    /\ got' = [p \in Threads |-> 0]
    /\ floor' = [p \in Threads |-> 0]
    /\ reinstalled' = FALSE
    /\ UNCHANGED <<mode, gen, disk>>

SearchStep(p) ==
    \/ \E k \in Keys : Search(p, k)
    \/ ReadBundle(p) \/ Compare(p) \/ Touch(p) \/ Pull(p)
    \/ Prime(p) \/ Build(p) \/ Lookup(p)

SnapshotStep(p) ==
    \/ \E k \in Keys : Save(p, k) \/ Publish(p, k) \/ Warm(p, k) \/ Refresh(p, k)
    \/ SaveIndex(p) \/ SaveRename(p) \/ WriteSidecar(p)
    \/ Load(p) \/ InstallPrebuilt(p)
    \/ RefreshCompare(p) \/ RefreshDrop(p)

Next ==
    \/ \E p \in Threads : SearchStep(p) \/ SnapshotStep(p) \/ Fail(p)
    \/ \E k \in Keys : Invalidate(k) \/ Expire(k)
    \/ \E d \in DataRefs : Append(d)
    \/ Restart

Spec == Init /\ [][Next]_vars

-----------------------------------------------------------------------------

PointersTo(w) == {k \in Keys : pointers[k] = w}

\* Every cached entry has a pointer for each of its references, and has at
\* least one: an index never outlives its keys, whatever threads, warm installs
\* and invalidations do.  (So the cap of max_entries never evicts anything.)
EveryEntryIsReferenced ==
    \A w \in Witness : Present(entries, w) =>
        entries[w].refcount \in 1..Cardinality(PointersTo(w))

\* cache.rs: "live pointers are never orphaned".
PointersResolve ==
    \A k \in Keys : pointers[k] # None => Present(entries, pointers[k])

\* Until some key is pointed at the witness it already has, reference counts
\* are exact and every pointer leads to an entry: that re-installation is the
\* only way to lose one.
ExactUntilReinstall ==
    ~reinstalled =>
        /\ PointersResolve
        /\ \A w \in Witness : entries[w].refcount = Cardinality(PointersTo(w))

\* A primed entry holds data at least as new as the witness it is filed under:
\* the bundle is read before the data.
EntriesHoldWhatTheyName ==
    \A w \in Witness : entries[w].primed => w.gen <= entries[w].data

\* A Fresh search follows a pointer no older than the backend was when it
\* began, except as far as an earlier search of the key, still under way at
\* that moment, or a warm install meanwhile, brings an older one.
FreshAnswers ==
    \A p \in Threads :
        mode = "fresh" /\ pc[p] = "lookup" /\ pointers[key[p]] # None =>
            floor[p] <= pointers[key[p]].gen
=============================================================================
