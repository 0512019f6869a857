-------------------------- MODULE LakeCache_proofs --------------------------
(***************************************************************************)
(* LakeCache for any number of keys, threads, data references and          *)
(* generations: what the reference counts of the cache are worth, what an  *)
(* entry holds, and how old a pointer a Fresh search may follow.           *)
(***************************************************************************)
EXTENDS LakeCache, FiniteSetTheorems, TLAPS

\* A witness that is not cached has an empty entry; a cached one is referenced.
Filed ==
    \A w \in Witness :
        /\ entries[w].data = 0 => entries[w].refcount = 0 /\ ~entries[w].primed
        /\ entries[w].data # 0 => entries[w].refcount # 0

LEMMA EmptyEntry == NoEntry \in Entry /\ NoEntry.data = 0 /\ NoEntry.refcount = 0
                      /\ NoEntry.primed = FALSE
  BY MaxGenType DEF NoEntry, Entry

\* One pointer to u goes.
LEMMA ReleaseEffect ==
  ASSUME NEW es \in [Witness -> Entry], NEW u \in Witness \cup {None}
  PROVE  /\ Release(es, u) \in [Witness -> Entry]
         /\ \A v \in Witness :
              /\ v # u \/ es[v].data = 0 => Release(es, u)[v] = es[v]
              /\ v = u /\ es[v].data # 0 /\ es[v].refcount <= 1 => Release(es, u)[v] = NoEntry
              /\ v = u /\ es[v].data # 0 /\ es[v].refcount > 1 =>
                    /\ Release(es, u)[v].data = es[v].data
                    /\ Release(es, u)[v].primed = es[v].primed
                    /\ Release(es, u)[v].refcount = es[v].refcount - 1
<1>1. CASE ~Present(es, u)
  <2>1. Release(es, u) = es
    BY <1>1 DEF Release
  <2>2. \A v \in Witness : v = u => es[v].data = 0
    BY <1>1 DEF Present
  <2>3. \A v \in Witness : Release(es, u)[v] = es[v]
    BY <2>1
  <2>4. Release(es, u) \in [Witness -> Entry]
    BY <2>1
  <2> QED BY <2>2, <2>3, <2>4
<1>2. CASE Present(es, u) /\ es[u].refcount <= 1
  <2>1. u \in Witness /\ es[u].data # 0
    BY <1>2 DEF Present
  <2>2. Release(es, u) = [es EXCEPT ![u] = NoEntry]
    BY <1>2 DEF Release
  <2>3. Release(es, u) \in [Witness -> Entry]
    BY <2>2, EmptyEntry
  <2>4. Release(es, u)[u] = NoEntry /\ \A v \in Witness \ {u} : Release(es, u)[v] = es[v]
    BY <2>1, <2>2
  <2>5. es[u].refcount \in Nat
    BY <2>1 DEF Entry
  <2> QED BY <1>2, <2>1, <2>3, <2>4, <2>5
<1>3. CASE Present(es, u) /\ ~(es[u].refcount <= 1)
  <2>1. u \in Witness /\ es[u] \in Entry /\ es[u].refcount \in Nat /\ es[u].data # 0
    BY <1>3 DEF Present, Entry
  <2>2. Release(es, u) = [es EXCEPT ![u].refcount = @ - 1]
    BY <1>3 DEF Release
  <2>3. [es[u] EXCEPT !.refcount = @ - 1] \in Entry
    BY <1>3, <2>1 DEF Entry
  <2>4. Release(es, u) = [es EXCEPT ![u] = [es[u] EXCEPT !.refcount = @ - 1]]
    BY <2>1, <2>2
  <2>5. Release(es, u) \in [Witness -> Entry]
    BY <2>1, <2>3, <2>4
  <2>6. /\ [es[u] EXCEPT !.refcount = @ - 1].data = es[u].data
        /\ [es[u] EXCEPT !.refcount = @ - 1].primed = es[u].primed
        /\ [es[u] EXCEPT !.refcount = @ - 1].refcount = es[u].refcount - 1
    BY <2>1 DEF Entry
  <2> QED BY <1>3, <2>1, <2>4, <2>5, <2>6
<1> QED BY <1>1, <1>2, <1>3

\* The pointer of k moves to w.
LEMMA RepointEffect ==
  ASSUME TypeOK, NEW es \in [Witness -> Entry], NEW k \in Keys, NEW w \in Witness,
         es[w].data # 0
  PROVE  /\ Repointed(es, k, w) \in [Witness -> Entry]
         /\ \A v \in Witness \ {w} :
               Repointed(es, k, w)[v] = Release(es, pointers[k])[v]
         /\ pointers[k] # w =>
               /\ Repointed(es, k, w)[w].data = es[w].data
               /\ Repointed(es, k, w)[w].primed = es[w].primed
               /\ Repointed(es, k, w)[w].refcount = es[w].refcount + 1
         /\ pointers[k] = w /\ es[w].refcount <= 1 => Repointed(es, k, w)[w] = NoEntry
         /\ pointers[k] = w /\ es[w].refcount > 1 =>
               /\ Repointed(es, k, w)[w].data = es[w].data
               /\ Repointed(es, k, w)[w].primed = es[w].primed
               /\ Repointed(es, k, w)[w].refcount = es[w].refcount
<1> DEFINE left == Release(es, pointers[k])
<1>1. pointers[k] \in Witness \cup {None}
  BY DEF TypeOK
<1>2. left \in [Witness -> Entry]
  BY <1>1, ReleaseEffect
<1>3. /\ w # pointers[k] => left[w] = es[w]
      /\ w = pointers[k] /\ es[w].refcount <= 1 => left[w] = NoEntry
      /\ w = pointers[k] /\ es[w].refcount > 1 =>
            /\ left[w].data = es[w].data
            /\ left[w].primed = es[w].primed
            /\ left[w].refcount = es[w].refcount - 1
  BY <1>1, ReleaseEffect
<1>4. Repointed(es, k, w) =
         IF left[w].data # 0 THEN [left EXCEPT ![w].refcount = @ + 1] ELSE left
  BY DEF Repointed, Present
<1> HIDE DEF left
<1>5. CASE left[w].data = 0
  <2>1. Repointed(es, k, w) = left
    BY <1>4, <1>5
  <2>2. w = pointers[k] /\ es[w].refcount <= 1
    <3>1. es[w].refcount \in Nat
      BY DEF Entry
    <3> QED BY <1>3, <1>5, <3>1
  <2>3. es[w].refcount \in Nat
    BY DEF Entry
  <2>4. left = Release(es, pointers[k])
    BY DEF left
  <2> QED BY <1>2, <1>3, <2>1, <2>2, <2>3, <2>4
<1>6. CASE left[w].data # 0
  <2>1. left[w] \in Entry /\ left[w].refcount \in Nat /\ es[w].refcount \in Nat
    BY <1>2 DEF Entry
  <2>2. Repointed(es, k, w) = [left EXCEPT ![w] = [left[w] EXCEPT !.refcount = @ + 1]]
    BY <1>2, <1>4, <1>6
  <2>3. [left[w] EXCEPT !.refcount = @ + 1] \in Entry
    BY <2>1 DEF Entry
  <2>4. /\ [left[w] EXCEPT !.refcount = @ + 1].data = left[w].data
        /\ [left[w] EXCEPT !.refcount = @ + 1].primed = left[w].primed
        /\ [left[w] EXCEPT !.refcount = @ + 1].refcount = left[w].refcount + 1
    BY <2>1 DEF Entry
  <2>5. Repointed(es, k, w) \in [Witness -> Entry]
    BY <1>2, <2>2, <2>3
  <2>6. \A v \in Witness \ {w} : Repointed(es, k, w)[v] = left[v]
    BY <1>2, <2>2
  <2>7. Repointed(es, k, w)[w] = [left[w] EXCEPT !.refcount = @ + 1]
    BY <1>2, <2>2
  <2>8. ~(pointers[k] = w /\ es[w].refcount <= 1)
    BY <1>3, <1>6, EmptyEntry
  <2> QED BY <1>3, <2>1, <2>4, <2>5, <2>6, <2>7, <2>8 DEF left
<1> QED BY <1>5, <1>6

\* With every entry referenced the cap evicts nothing.
LEMMA NothingToEvict ==
  ASSUME NEW es \in [Witness -> Entry],
         \A v \in Witness : es[v].data # 0 => es[v].refcount # 0
  PROVE  \A f \in evict_lru_if_over(es) : f = es
<1>1. Unpinned(es) = {}
  BY DEF Unpinned, Present
<1>2. ASSUME NEW f \in evict_lru_if_over(es) PROVE f = es
  <2>1. PICK V \in SUBSET Unpinned(es) : f = [w \in Witness |-> IF w \in V THEN NoEntry ELSE es[w]]
    BY <1>2 DEF evict_lru_if_over
  <2>2. V = {}
    BY <1>1, <2>1
  <2> QED BY <2>1, <2>2
<1> QED BY <1>2

\* What installing a pointer does to each entry.
LEMMA InstallEffect ==
  ASSUME TypeOK, Filed, NEW k \in Keys, NEW w \in Witness, NEW entry \in Entry,
         entries[w].data # 0 \/ (entry.data # 0 /\ entry.refcount = 0),
         InstallPointer(k, w, entry)
  PROVE  /\ entries' \in [Witness -> Entry]
         /\ \A v \in Witness \ {w} :
              /\ v # pointers[k] \/ entries[v].data = 0 => entries'[v] = entries[v]
              /\ v = pointers[k] /\ entries[v].data # 0 /\ entries[v].refcount <= 1 =>
                    entries'[v] = NoEntry
              /\ v = pointers[k] /\ entries[v].data # 0 /\ entries[v].refcount > 1 =>
                    /\ entries'[v].data = entries[v].data
                    /\ entries'[v].primed = entries[v].primed
                    /\ entries'[v].refcount = entries[v].refcount - 1
         /\ pointers[k] # w /\ entries[w].data # 0 =>
              /\ entries'[w].data = entries[w].data
              /\ entries'[w].primed = entries[w].primed
              /\ entries'[w].refcount = entries[w].refcount + 1
         /\ pointers[k] # w /\ entries[w].data = 0 =>
              /\ entries'[w].data = entry.data
              /\ entries'[w].primed = entry.primed
              /\ entries'[w].refcount = 1
         /\ pointers[k] = w /\ entries[w].refcount > 1 =>
              /\ entries'[w].data = entries[w].data
              /\ entries'[w].primed = entries[w].primed
              /\ entries'[w].refcount = entries[w].refcount
         /\ pointers[k] = w /\ entries[w].refcount <= 1 => entries'[w] = NoEntry
<1> DEFINE es == IF entries[w].data # 0 THEN entries ELSE [entries EXCEPT ![w] = entry]
           R == Repointed(es, k, w)
<1>1. entries \in [Witness -> Entry] /\ pointers[k] \in Witness \cup {None}
  BY DEF TypeOK
<1>2. es \in [Witness -> Entry] /\ es[w].data # 0
  BY <1>1
<1>3. /\ \A v \in Witness \ {w} : es[v] = entries[v]
      /\ entries[w].data # 0 => es[w] = entries[w]
      /\ entries[w].data = 0 => es[w] = entry
  BY <1>1
<1>4. \A v \in Witness : entries[v].refcount \in Nat
  BY <1>1 DEF Entry
<1>a. \A v \in Witness : entries[v].data = 0 => entries[v].refcount = 0
  BY DEF Filed
<1>f. \A v \in Witness : entries[v].data # 0 => entries[v].refcount # 0
  BY DEF Filed
<1> HIDE DEF es
<1>b. R \in [Witness -> Entry]
  BY <1>2, RepointEffect
<1>c. \A v \in Witness \ {w} : R[v] = Release(es, pointers[k])[v]
  BY <1>2, RepointEffect
<1>d. /\ pointers[k] # w =>
               /\ R[w].data = es[w].data
               /\ R[w].primed = es[w].primed
               /\ R[w].refcount = es[w].refcount + 1
      /\ pointers[k] = w /\ es[w].refcount <= 1 => R[w] = NoEntry
      /\ pointers[k] = w /\ es[w].refcount > 1 =>
               /\ R[w].data = es[w].data
               /\ R[w].primed = es[w].primed
               /\ R[w].refcount = es[w].refcount
  BY <1>2, RepointEffect
<1>e. \A v \in Witness :
         /\ v # pointers[k] \/ es[v].data = 0 => Release(es, pointers[k])[v] = es[v]
         /\ v = pointers[k] /\ es[v].data # 0 /\ es[v].refcount <= 1 =>
               Release(es, pointers[k])[v] = NoEntry
         /\ v = pointers[k] /\ es[v].data # 0 /\ es[v].refcount > 1 =>
               /\ Release(es, pointers[k])[v].data = es[v].data
               /\ Release(es, pointers[k])[v].primed = es[v].primed
               /\ Release(es, pointers[k])[v].refcount = es[v].refcount - 1
  BY <1>1, <1>2, ReleaseEffect
<1> HIDE DEF R
<1>5. \A v \in Witness : R[v].data # 0 => R[v].refcount # 0
  <2>1. ASSUME NEW v \in Witness \ {w}, R[v].data # 0 PROVE R[v].refcount # 0
    <3>1. es[v] = entries[v] /\ R[v] = Release(es, pointers[k])[v]
      BY <1>3, <1>c
    <3>2. entries[v].refcount \in Nat /\ (entries[v].data # 0 => entries[v].refcount # 0)
      BY <1>4, <1>f
    <3>3. CASE v # pointers[k] \/ entries[v].data = 0
      BY <1>e, <2>1, <3>1, <3>2, <3>3
    <3>4. CASE v = pointers[k] /\ entries[v].data # 0
      <4>1. entries[v].refcount > 1
        BY <1>e, <2>1, <3>1, <3>2, <3>4, EmptyEntry
      <4>2. R[v].refcount = entries[v].refcount - 1
        BY <1>e, <3>1, <3>4, <4>1
      <4> QED BY <3>2, <4>1, <4>2
    <3> QED BY <3>3, <3>4
  <2>2. ASSUME R[w].data # 0 PROVE R[w].refcount # 0
    <3>1. es[w].refcount \in Nat
      BY <1>2 DEF Entry
    <3> QED BY <1>d, <2>2, <3>1, EmptyEntry
  <2> QED BY <2>1, <2>2
<1>6. entries' = R
  <2>1. CASE entries[w].data # 0
    BY <2>1 DEF InstallPointer, Present, R, es
  <2>2. CASE entries[w].data = 0
    <3>1. entries' \in evict_lru_if_over(R)
      BY <2>2 DEF InstallPointer, Present, R, es
    <3> QED BY <1>5, <1>b, <3>1, NothingToEvict
  <2> QED BY <2>1, <2>2
<1>7. \A v \in Witness \ {w} :
              /\ v # pointers[k] \/ entries[v].data = 0 => R[v] = entries[v]
              /\ v = pointers[k] /\ entries[v].data # 0 /\ entries[v].refcount <= 1 =>
                    R[v] = NoEntry
              /\ v = pointers[k] /\ entries[v].data # 0 /\ entries[v].refcount > 1 =>
                    /\ R[v].data = entries[v].data
                    /\ R[v].primed = entries[v].primed
                    /\ R[v].refcount = entries[v].refcount - 1
  BY <1>3, <1>c, <1>e
<1>8. /\ pointers[k] # w /\ entries[w].data # 0 =>
              /\ R[w].data = entries[w].data
              /\ R[w].primed = entries[w].primed
              /\ R[w].refcount = entries[w].refcount + 1
      /\ pointers[k] # w /\ entries[w].data = 0 =>
              /\ R[w].data = entry.data
              /\ R[w].primed = entry.primed
              /\ R[w].refcount = 1
  BY <1>3, <1>d
<1>9. /\ pointers[k] = w /\ entries[w].refcount > 1 =>
              /\ R[w].data = entries[w].data
              /\ R[w].primed = entries[w].primed
              /\ R[w].refcount = entries[w].refcount
      /\ pointers[k] = w /\ entries[w].refcount <= 1 => R[w] = NoEntry
  <2>1. CASE entries[w].data # 0
    BY <1>3, <1>d, <2>1
  <2>2. CASE entries[w].data = 0
    <3>1. entries[w].refcount = 0
      BY <1>a, <2>2
    <3>2. es[w] = entry
      BY <1>3, <2>2
    <3>3. es[w].refcount = 0
      BY <2>2, <3>2
    <3> QED BY <1>d, <3>1, <3>3
  <2> QED BY <2>1, <2>2
<1> QED BY <1>6, <1>7, <1>8, <1>9, <1>b

-----------------------------------------------------------------------------

LEMMA PointersFinite ==
  ASSUME NEW v
  PROVE  IsFiniteSet(PointersTo(v)) /\ Cardinality(PointersTo(v)) \in Nat
<1>1. PointersTo(v) \in SUBSET Keys
  BY DEF PointersTo
<1> QED BY <1>1, KeysFinite, FS_Subset, FS_CardinalityType

\* How the number of pointers to each witness changes when k moves to w.
LEMMA CountMove ==
  ASSUME TypeOK, NEW k \in Keys, NEW w \in Witness \cup {None},
         pointers' = [pointers EXCEPT ![k] = w], NEW v \in Witness
  PROVE  /\ (v = w <=> v = pointers[k]) => Cardinality(PointersTo(v)') = Cardinality(PointersTo(v))
         /\ v = w /\ v # pointers[k] =>
               Cardinality(PointersTo(v)') = Cardinality(PointersTo(v)) + 1
         /\ v # w /\ v = pointers[k] =>
               /\ Cardinality(PointersTo(v)') = Cardinality(PointersTo(v)) - 1
               /\ Cardinality(PointersTo(v)) # 0
<1>1. pointers \in [Keys -> Witness \cup {None}]
  BY DEF TypeOK
<1>2. CASE v = w <=> v = pointers[k]
  <2>1. PointersTo(v)' = PointersTo(v)
    BY <1>1, <1>2 DEF PointersTo
  <2> QED BY <1>2, <2>1
<1>3. CASE v = w /\ v # pointers[k]
  <2>1. PointersTo(v)' = PointersTo(v) \cup {k} /\ k \notin PointersTo(v)
    BY <1>1, <1>3 DEF PointersTo
  <2> QED BY <1>3, <2>1, PointersFinite, FS_AddElement
<1>4. CASE v # w /\ v = pointers[k]
  <2>1. PointersTo(v)' = PointersTo(v) \ {k} /\ k \in PointersTo(v)
    BY <1>1, <1>4 DEF PointersTo
  <2>2. Cardinality(PointersTo(v)) # 0
    BY <2>1, PointersFinite, FS_EmptySet
  <2> QED BY <1>4, <2>1, <2>2, PointersFinite, FS_RemoveElement
<1> QED BY <1>2, <1>3, <1>4

ExactCounts ==
    ~reinstalled => \A w \in Witness : entries[w].refcount = Cardinality(PointersTo(w))

\* What holds of the entries between two critical sections.
Stored ==
    /\ Filed
    /\ EntriesHoldWhatTheyName
    /\ EveryEntryIsReferenced
    /\ ExactCounts

LEMMA InstallKeeps ==
  ASSUME TypeOK, Stored, NEW k \in Keys, NEW w \in Witness, NEW entry \in Entry,
         entries[w].data # 0 \/ (entry.data # 0 /\ entry.refcount = 0),
         entry.primed => w.gen <= entry.data,
         InstallPointer(k, w, entry)
  PROVE  /\ entries' \in [Witness -> Entry]
         /\ pointers' \in [Keys -> Witness \cup {None}]
         /\ checked' \subseteq Keys
         /\ reinstalled' \in BOOLEAN
         /\ Stored'
<1>1. Filed
  BY DEF Stored
<1> DEFINE N(v) == Cardinality(PointersTo(v))
           M(v) == Cardinality(PointersTo(v)')
<1>2. pointers' = [pointers EXCEPT ![k] = w]
  BY DEF InstallPointer
<1>3. \A v \in Witness : N(v) \in Nat
  BY PointersFinite
<1>4. /\ entries \in [Witness -> Entry]
      /\ pointers \in [Keys -> Witness \cup {None}]
  BY DEF TypeOK
<1>5. \A v \in Witness : entries[v].data \in Nat /\ entries[v].refcount \in Nat
  BY <1>4, MaxGenType DEF Entry
<1>6. entries' \in [Witness -> Entry]
  BY <1>1, InstallEffect
<1>7. ASSUME NEW v \in Witness
      PROVE  /\ entries'[v].data = 0 => entries'[v].refcount = 0 /\ ~entries'[v].primed
             /\ entries'[v].data # 0 => entries'[v].refcount \in 1..M(v)
             /\ ~reinstalled' => entries'[v].refcount = M(v)
             /\ entries'[v].primed => v.gen <= entries'[v].data
  <2>1. /\ entries[v].data = 0 => entries[v].refcount = 0 /\ ~entries[v].primed
        /\ entries[v].data # 0 => entries[v].refcount # 0
    BY DEF Stored, Filed
  <2>2. entries[v].data # 0 => entries[v].refcount \in 1..N(v)
    BY DEF Stored, EveryEntryIsReferenced, Present
  <2>0. reinstalled' = (reinstalled \/ pointers[k] = w)
    BY DEF InstallPointer
  <2>3. ~reinstalled' => entries[v].refcount = N(v)
    <3>1. ~reinstalled => entries[v].refcount = N(v)
      BY DEF Stored, ExactCounts
    <3>2. reinstalled => reinstalled'
      BY <2>0, Zenon
    <3> QED BY <3>1, <3>2, Zenon
  <2>4. entries[v].primed => v.gen <= entries[v].data
    BY DEF Stored, EntriesHoldWhatTheyName
  <2>5. v = w /\ v = pointers[k] => reinstalled'
    BY <2>0, Zenon
  <2>6. N(v) \in Nat
    BY <1>3
  <2>7. CASE v # w /\ v # pointers[k]
    <3>1. entries'[v] = entries[v]
      BY <1>1, <2>7, InstallEffect
    <3>2. M(v) = N(v)
      BY <1>2, <2>7, CountMove
    <3> HIDE DEF M, N
    <3> QED BY <2>1, <2>2, <2>3, <2>4, <2>5, <3>1, <3>2
  <2>8. CASE v # w /\ v = pointers[k]
    <3>1. M(v) = N(v) - 1 /\ N(v) # 0
      BY <1>2, <2>8, CountMove
    <3>2. CASE entries[v].data = 0
      <4>1. entries'[v] = entries[v]
        BY <1>1, <2>8, <3>2, InstallEffect
      <4> HIDE DEF M, N
      <4> QED BY <2>1, <2>2, <2>3, <2>4, <2>5, <3>1, <3>2, <4>1
    <3>3. CASE entries[v].data # 0 /\ entries[v].refcount <= 1
      <4>1. entries'[v] = NoEntry
        BY <1>1, <2>8, <3>3, InstallEffect
      <4>2. entries[v].refcount \in Nat
        BY <1>5
      <4> HIDE DEF M, N
      <4> QED BY <2>1, <2>2, <2>3, <2>5, <2>6, <3>1, <3>3, <4>1, <4>2, EmptyEntry
    <3>4. CASE entries[v].data # 0 /\ entries[v].refcount > 1
      <4>1. /\ entries'[v].data = entries[v].data
            /\ entries'[v].primed = entries[v].primed
            /\ entries'[v].refcount = entries[v].refcount - 1
        BY <1>1, <2>8, <3>4, InstallEffect
      <4>2. entries[v].refcount \in Nat
        BY <1>5
      <4> HIDE DEF M, N
      <4> QED BY <2>2, <2>3, <2>4, <2>5, <2>6, <3>1, <3>4, <4>1, <4>2
    <3>5. entries[v].refcount \in Nat
      BY <1>5
    <3> QED BY <3>2, <3>3, <3>4, <3>5
  <2>9. CASE v = w /\ v # pointers[k]
    <3>1. M(v) = N(v) + 1
      BY <1>2, <2>9, CountMove
    <3>2. CASE entries[v].data # 0
      <4>1. /\ entries'[v].data = entries[v].data
            /\ entries'[v].primed = entries[v].primed
            /\ entries'[v].refcount = entries[v].refcount + 1
        BY <1>1, <2>9, <3>2, InstallEffect
      <4>2. entries[v].refcount \in Nat
        BY <1>5
      <4> HIDE DEF M, N
      <4> QED BY <2>2, <2>3, <2>4, <2>5, <2>6, <3>1, <3>2, <4>1, <4>2
    <3>3. CASE entries[v].data = 0
      <4>1. /\ entries'[v].data = entry.data
            /\ entries'[v].primed = entry.primed
            /\ entries'[v].refcount = 1
        BY <1>1, <2>9, <3>3, InstallEffect
      <4>2. entry.data # 0 /\ (entry.primed => v.gen <= entry.data)
        BY <2>9, <3>3
      <4> HIDE DEF M, N
      <4> QED BY <2>1, <2>3, <2>5, <2>6, <3>1, <3>3, <4>1, <4>2
    <3> QED BY <3>2, <3>3
  <2>10. CASE v = w /\ v = pointers[k]
    <3>1. M(v) = N(v)
      BY <1>2, <2>10, CountMove
    <3>2. CASE entries[v].refcount > 1
      <4>1. /\ entries'[v].data = entries[v].data
            /\ entries'[v].primed = entries[v].primed
            /\ entries'[v].refcount = entries[v].refcount
        BY <1>1, <2>10, <3>2, InstallEffect
      <4> HIDE DEF M, N
      <4> QED BY <2>1, <2>2, <2>4, <2>5, <2>10, <3>1, <3>2, <4>1
    <3>3. CASE entries[v].refcount <= 1
      <4>1. entries'[v] = NoEntry
        BY <1>1, <2>10, <3>3, InstallEffect
      <4> HIDE DEF M, N
      <4> QED BY <2>5, <2>10, <4>1, EmptyEntry
    <3>4. entries[v].refcount \in Nat
      BY <1>5
    <3> QED BY <3>2, <3>3, <3>4
  <2> QED BY <2>7, <2>8, <2>9, <2>10
<1>8. Stored'
  <2>1. Filed'
    BY <1>7 DEF Filed
  <2>2. EntriesHoldWhatTheyName'
    BY <1>7 DEF EntriesHoldWhatTheyName
  <2>3. EveryEntryIsReferenced'
    BY <1>7 DEF EveryEntryIsReferenced, Present
  <2>4. ExactCounts'
    BY <1>7 DEF ExactCounts
  <2> QED BY <2>1, <2>2, <2>3, <2>4 DEF Stored
<1>9. pointers' \in [Keys -> Witness \cup {None}]
  BY <1>2, <1>4
<1>10. checked' \subseteq Keys
  BY DEF InstallPointer, TypeOK
<1>11. reinstalled' \in BOOLEAN
  BY Zenon DEF InstallPointer
<1> QED BY <1>6, <1>8, <1>9, <1>10, <1>11

LEMMA DropKeeps ==
  ASSUME TypeOK, Stored, NEW k \in Keys, DropPointer(k), reinstalled' = reinstalled
  PROVE  /\ entries' \in [Witness -> Entry]
         /\ pointers' \in [Keys -> Witness \cup {None}]
         /\ checked' \subseteq Keys
         /\ Stored'
<1> DEFINE N(v) == Cardinality(PointersTo(v))
           M(v) == Cardinality(PointersTo(v)')
<1>1. /\ entries \in [Witness -> Entry]
      /\ pointers \in [Keys -> Witness \cup {None}]
      /\ pointers[k] \in Witness \cup {None}
  BY DEF TypeOK
<1>2. pointers' = [pointers EXCEPT ![k] = None] /\ entries' = Release(entries, pointers[k])
  BY DEF DropPointer
<1>3. entries' \in [Witness -> Entry]
  BY <1>1, <1>2, ReleaseEffect
<1>4. ASSUME NEW v \in Witness
      PROVE  /\ entries'[v].data = 0 => entries'[v].refcount = 0 /\ ~entries'[v].primed
             /\ entries'[v].data # 0 => entries'[v].refcount \in 1..M(v)
             /\ ~reinstalled' => entries'[v].refcount = M(v)
             /\ entries'[v].primed => v.gen <= entries'[v].data
  <2>1. /\ entries[v].data = 0 => entries[v].refcount = 0 /\ ~entries[v].primed
        /\ entries[v].data # 0 => entries[v].refcount # 0
    BY DEF Stored, Filed
  <2>2. entries[v].data # 0 => entries[v].refcount \in 1..N(v)
    BY DEF Stored, EveryEntryIsReferenced, Present
  <2>3. ~reinstalled' => entries[v].refcount = N(v)
    BY DEF Stored, ExactCounts
  <2>4. entries[v].primed => v.gen <= entries[v].data
    BY DEF Stored, EntriesHoldWhatTheyName
  <2>5. N(v) \in Nat /\ entries[v].refcount \in Nat
    BY <1>1, PointersFinite DEF Entry
  <2>6. v # None
    BY NoneType
  <2>7. CASE v # pointers[k]
    <3>1. entries'[v] = entries[v]
      BY <1>1, <1>2, <2>7, ReleaseEffect
    <3>2. M(v) = N(v)
      BY <1>2, <2>6, <2>7, CountMove
    <3> HIDE DEF M, N
    <3> QED BY <2>1, <2>2, <2>3, <2>4, <3>1, <3>2
  <2>8. CASE v = pointers[k]
    <3>1. M(v) = N(v) - 1 /\ N(v) # 0
      BY <1>2, <2>6, <2>8, CountMove
    <3>2. CASE entries[v].data = 0
      <4>1. entries'[v] = entries[v]
        BY <1>1, <1>2, <3>2, ReleaseEffect
      <4> HIDE DEF M, N
      <4> QED BY <2>1, <2>3, <2>4, <3>1, <3>2, <4>1
    <3>3. CASE entries[v].data # 0 /\ entries[v].refcount <= 1
      <4>1. entries'[v] = NoEntry
        BY <1>1, <1>2, <2>8, <3>3, ReleaseEffect
      <4> HIDE DEF M, N
      <4> QED BY <2>1, <2>3, <2>5, <3>1, <3>3, <4>1, EmptyEntry
    <3>4. CASE entries[v].data # 0 /\ entries[v].refcount > 1
      <4>1. /\ entries'[v].data = entries[v].data
            /\ entries'[v].primed = entries[v].primed
            /\ entries'[v].refcount = entries[v].refcount - 1
        BY <1>1, <1>2, <2>8, <3>4, ReleaseEffect
      <4> HIDE DEF M, N
      <4> QED BY <2>2, <2>3, <2>4, <2>5, <3>1, <3>4, <4>1
    <3> QED BY <2>5, <3>2, <3>3, <3>4
  <2> QED BY <2>7, <2>8
<1>5. Stored'
  <2>1. Filed'
    BY <1>4 DEF Filed
  <2>2. EntriesHoldWhatTheyName'
    BY <1>4 DEF EntriesHoldWhatTheyName
  <2>3. EveryEntryIsReferenced'
    BY <1>4 DEF EveryEntryIsReferenced, Present
  <2>4. ExactCounts'
    BY <1>4 DEF ExactCounts
  <2> QED BY <2>1, <2>2, <2>3, <2>4 DEF Stored
<1>6. pointers' \in [Keys -> Witness \cup {None}]
  BY <1>1, <1>2
<1>7. checked' \subseteq Keys
  BY DEF DropPointer, TypeOK
<1> QED BY <1>3, <1>5, <1>6, <1>7

LEMMA SameKeeps ==
  ASSUME Stored, UNCHANGED <<pointers, entries, reinstalled>>
  PROVE  Stored'
  BY DEF Stored, Filed, EntriesHoldWhatTheyName, EveryEntryIsReferenced,
         ExactCounts, Present, PointersTo

-----------------------------------------------------------------------------

\* What a thread has in hand at each point of its call.
HeldBy(p) ==
    /\ pc[p] # "idle" => key[p] \in Keys
    /\ pc[p] \in {"compare", "touch", "pull", "prime", "build", "index", "write",
                  "load", "install", "refresh", "drop"} => wit[p] \in Witness
    /\ pc[p] \in {"prime", "build", "rename", "install"} => got[p] # 0
    /\ pc[p] \in {"compare", "pull"} => wit[p].gen <= gen[DataOf[key[p]]]
    /\ pc[p] \in {"prime", "build"} => wit[p].gen <= got[p]

Held == \A p \in Threads : HeldBy(p)

LEMMA CurrentWitness ==
  ASSUME TypeOK, NEW k \in Keys
  PROVE  Current(k) \in Witness /\ Current(k).gen = gen[DataOf[k]]
  BY DataOfType DEF TypeOK, Current, Witness

\* The cache of a process that starts.
Empty == pointers = [k \in Keys |-> None] /\ entries = [w \in Witness |-> NoEntry]

LEMMA EmptyStored == Empty => Stored
<1> SUFFICES ASSUME Empty PROVE Stored
  OBVIOUS
<1> USE DEF Empty
<1>1. ASSUME NEW w \in Witness PROVE Cardinality(PointersTo(w)) = 0
  <2>1. PointersTo(w) = {}
    BY NoneType DEF PointersTo
  <2> QED BY <2>1, FS_EmptySet
<1>2. \A w \in Witness : entries[w] = NoEntry
  OBVIOUS
<1> QED BY <1>1, <1>2, EmptyEntry
  DEF Stored, Filed, EntriesHoldWhatTheyName, EveryEntryIsReferenced, ExactCounts, Present

LEMMA StepStored == TypeOK /\ Held /\ Stored /\ [Next]_vars => TypeOK' /\ Stored'
<1> SUFFICES ASSUME TypeOK, Held, Stored, [Next]_vars PROVE TypeOK' /\ Stored'
  OBVIOUS
<1>1. ASSUME NEW p \in Threads, NEW k \in Keys, Search(p, k) PROVE TypeOK' /\ Stored'
  <2>1. PICK g \in Reliable(k) : floor' = [floor EXCEPT ![p] = g]
    BY <1>1 DEF Search
  <2>2. g \in 0..MaxGen
    <3>1. \A q \in Threads : pc[q] \in {"compare", "pull", "prime", "build"} =>
             wit[q].gen \in 0..MaxGen
      BY MaxGenType DEF Held, HeldBy, Witness, Gens
    <3>2. Current(k).gen \in 0..MaxGen
      BY CurrentWitness, MaxGenType DEF Witness, Gens
    <3> QED BY <2>1, <3>1, <3>2, MaxGenType DEF Reliable
  <2>3. floor' \in [Threads -> 0..MaxGen]
    BY <2>1, <2>2 DEF TypeOK
  <2>4. UNCHANGED <<mode, gen, pointers, entries, checked, sidecar, snapshot, wit, got, reinstalled>>
    BY <1>1 DEF Search, cache, disk
  <2>5. /\ pc' \in [Threads -> {"idle"} \cup Searching \cup Writing \cup Reading]
        /\ key' \in [Threads -> Keys \cup {None}]
    BY <1>1 DEF Search, Goto, TypeOK, Searching
  <2>6. TypeOK'
    BY <2>3, <2>4, <2>5, Zenon DEF TypeOK
  <2> QED BY <2>4, <2>6, SameKeeps
<1>2. ASSUME NEW p \in Threads, ReadBundle(p) PROVE TypeOK' /\ Stored'
  <2>0. key[p] \in Keys
    BY <1>2 DEF ReadBundle, Held, HeldBy
  <2>1. TypeOK'
    BY <1>2, <2>0, CurrentWitness
    DEF ReadBundle, TypeOK, cache, disk, local, Goto, Return, Searching, Writing, Reading
  <2>2. UNCHANGED <<pointers, entries, reinstalled>>
    BY <1>2 DEF ReadBundle, cache
  <2> QED BY <2>1, <2>2, SameKeeps
<1>3. ASSUME NEW p \in Threads, Compare(p) PROVE TypeOK' /\ Stored'
  <2>1. TypeOK'
    BY <1>3, MaxGenType
    DEF Compare, TypeOK, cache, disk, local, Goto, Return, Searching, Writing, Reading
  <2>2. UNCHANGED <<pointers, entries, reinstalled>>
    BY <1>3 DEF Compare, cache
  <2> QED BY <2>1, <2>2, SameKeeps
<1>4. ASSUME NEW p \in Threads, Touch(p) PROVE TypeOK' /\ Stored'
  <2>0. key[p] \in Keys
    BY <1>4 DEF Touch, Held, HeldBy
  <2>1. TypeOK'
    BY <1>4, <2>0
    DEF Touch, TypeOK, cache, disk, local, Goto, Return, Searching, Writing, Reading
  <2>2. UNCHANGED <<pointers, entries, reinstalled>>
    BY <1>4 DEF Touch, cache
  <2> QED BY <2>1, <2>2, SameKeeps
<1>5. ASSUME NEW p \in Threads, Pull(p) PROVE TypeOK' /\ Stored'
  <2>0. Current(key[p]).gen \in 0..MaxGen
    <3>1. key[p] \in Keys
      BY <1>5 DEF Pull, Held, HeldBy
    <3> QED BY <3>1, CurrentWitness, MaxGenType DEF Witness, Gens
  <2>1. TypeOK'
    BY <1>5, <2>0
    DEF Pull, TypeOK, cache, disk, local, Goto, Return, Searching, Writing, Reading
  <2>2. UNCHANGED <<pointers, entries, reinstalled>>
    BY <1>5 DEF Pull, cache
  <2> QED BY <2>1, <2>2, SameKeeps
<1>6. ASSUME NEW p \in Threads, Prime(p) PROVE TypeOK' /\ Stored'
  <2>1. CASE entries[wit[p]].data # 0
    <3>1. wit[p] \in Witness /\ key[p] \in Keys
      BY <1>6 DEF Held, HeldBy, Prime
    <3>2. InstallPointer(key[p], wit[p], NoEntry)
      BY <1>6, <2>1, <3>1 DEF Prime, Installed, Present
    <3>3. /\ entries' \in [Witness -> Entry]
          /\ pointers' \in [Keys -> Witness \cup {None}]
          /\ checked' \subseteq Keys
          /\ reinstalled' \in BOOLEAN
          /\ Stored'
      BY <2>1, <3>1, <3>2, EmptyEntry, InstallKeeps
    <3>4. UNCHANGED <<mode, gen, sidecar, snapshot, key, floor>>
      BY <1>6 DEF Prime, disk
    <3>5. /\ pc' \in [Threads -> {"idle"} \cup Searching \cup Writing \cup Reading]
          /\ wit' \in [Threads -> Witness \cup {None}]
          /\ got' \in [Threads -> 0..MaxGen]
      BY <1>6, <2>1, <3>1, MaxGenType DEF Prime, Installed, Present, Goto, TypeOK, Searching
    <3>6. TypeOK'
      BY <3>3, <3>4, <3>5, Zenon DEF TypeOK
    <3> QED BY <3>3, <3>6
  <2>2. CASE entries[wit[p]].data = 0
    <3>1. UNCHANGED <<mode, gen, pointers, entries, checked, sidecar, snapshot, key, wit, got,
                      floor, reinstalled>>
      BY <1>6, <2>2 DEF Prime, Present, disk, cache
    <3>2. pc' \in [Threads -> {"idle"} \cup Searching \cup Writing \cup Reading]
      BY <1>6, <2>2 DEF Prime, Present, Goto, TypeOK, Searching
    <3>3. TypeOK'
      BY <3>1, <3>2, Zenon DEF TypeOK
    <3> QED BY <3>1, <3>3, SameKeeps
  <2> QED BY <2>1, <2>2
<1>7. ASSUME NEW p \in Threads, Build(p) PROVE TypeOK' /\ Stored'
  <2>1. wit[p] \in Witness /\ key[p] \in Keys
    BY <1>7 DEF Held, HeldBy, Build
  <2>2. got[p] # 0 /\ got[p] \in 0..MaxGen
    BY <1>7 DEF Held, HeldBy, Build, TypeOK
  <2> DEFINE entry == [data |-> got[p], refcount |-> 0, primed |-> TRUE]
  <2>3. entry \in Entry /\ entry.data # 0 /\ entry.refcount = 0
    BY <2>2 DEF Entry
  <2>4. entry.primed => wit[p].gen <= entry.data
    BY <1>7 DEF Held, HeldBy, Build
  <2>5. InstallPointer(key[p], wit[p], entry)
    BY <1>7 DEF Build, Installed
  <2> HIDE DEF entry
  <2>6. /\ entries' \in [Witness -> Entry]
        /\ pointers' \in [Keys -> Witness \cup {None}]
        /\ checked' \subseteq Keys
        /\ reinstalled' \in BOOLEAN
        /\ Stored'
    BY <2>1, <2>3, <2>4, <2>5, InstallKeeps
  <2>7. UNCHANGED <<mode, gen, sidecar, snapshot, key, floor>>
    BY <1>7 DEF Build, disk
  <2>8. /\ pc' \in [Threads -> {"idle"} \cup Searching \cup Writing \cup Reading]
        /\ wit' \in [Threads -> Witness \cup {None}]
        /\ got' \in [Threads -> 0..MaxGen]
    BY <1>7, MaxGenType DEF Build, Installed, Goto, TypeOK, Searching
  <2>9. TypeOK'
    BY <2>6, <2>7, <2>8, Zenon DEF TypeOK
  <2> QED BY <2>6, <2>9
<1>8. ASSUME NEW p \in Threads, Lookup(p) PROVE TypeOK' /\ Stored'
  <2>1. TypeOK'
    BY <1>8, MaxGenType
    DEF Lookup, TypeOK, cache, disk, local, Goto, Return, Searching, Writing, Reading
  <2>2. UNCHANGED <<pointers, entries, reinstalled>>
    BY <1>8 DEF Lookup, cache
  <2> QED BY <2>1, <2>2, SameKeeps
<1>9. ASSUME NEW p \in Threads, NEW k \in Keys, Save(p, k) PROVE TypeOK' /\ Stored'
  <2>1. TypeOK'
    BY <1>9, MaxGenType
    DEF Save, TypeOK, cache, disk, local, Goto, Return, Searching, Writing, Reading
  <2>2. UNCHANGED <<pointers, entries, reinstalled>>
    BY <1>9 DEF Save, cache
  <2> QED BY <2>1, <2>2, SameKeeps
<1>10. ASSUME NEW p \in Threads, NEW k \in Keys, Publish(p, k) PROVE TypeOK' /\ Stored'
  <2>1. TypeOK'
    BY <1>10, CurrentWitness, MaxGenType
    DEF Publish, TypeOK, cache, disk, local, Goto, Return, Searching, Writing, Reading
  <2>2. UNCHANGED <<pointers, entries, reinstalled>>
    BY <1>10 DEF Publish, cache
  <2> QED BY <2>1, <2>2, SameKeeps
<1>11. ASSUME NEW p \in Threads, NEW k \in Keys, Warm(p, k) PROVE TypeOK' /\ Stored'
  <2>1. TypeOK'
    BY <1>11, MaxGenType
    DEF Warm, TypeOK, cache, disk, local, Goto, Return, Searching, Writing, Reading
  <2>2. UNCHANGED <<pointers, entries, reinstalled>>
    BY <1>11 DEF Warm, cache
  <2> QED BY <2>1, <2>2, SameKeeps
<1>12. ASSUME NEW p \in Threads, NEW k \in Keys, Refresh(p, k) PROVE TypeOK' /\ Stored'
  <2>1. TypeOK'
    BY <1>12, MaxGenType
    DEF Refresh, TypeOK, cache, disk, local, Goto, Return, Searching, Writing, Reading
  <2>2. UNCHANGED <<pointers, entries, reinstalled>>
    BY <1>12 DEF Refresh, cache
  <2> QED BY <2>1, <2>2, SameKeeps
<1>13. ASSUME NEW p \in Threads, SaveIndex(p) PROVE TypeOK' /\ Stored'
  <2>0. Present(entries, wit[p]) => entries[wit[p]].data \in 0..MaxGen
    BY DEF Present, TypeOK, Entry
  <2>1. TypeOK'
    BY <1>13, <2>0, MaxGenType
    DEF SaveIndex, TypeOK, cache, disk, local, Goto, Return, Searching, Writing, Reading
  <2>2. UNCHANGED <<pointers, entries, reinstalled>>
    BY <1>13 DEF SaveIndex, cache
  <2> QED BY <2>1, <2>2, SameKeeps
<1>14. ASSUME NEW p \in Threads, SaveRename(p) PROVE TypeOK' /\ Stored'
  <2>1. TypeOK'
    BY <1>14, MaxGenType
    DEF SaveRename, TypeOK, cache, disk, local, Goto, Return, Searching, Writing, Reading
  <2>2. UNCHANGED <<pointers, entries, reinstalled>>
    BY <1>14 DEF SaveRename, cache
  <2> QED BY <2>1, <2>2, SameKeeps
<1>15. ASSUME NEW p \in Threads, WriteSidecar(p) PROVE TypeOK' /\ Stored'
  <2>1. TypeOK'
    BY <1>15, MaxGenType
    DEF WriteSidecar, TypeOK, cache, disk, local, Goto, Return, Searching, Writing, Reading
  <2>2. UNCHANGED <<pointers, entries, reinstalled>>
    BY <1>15 DEF WriteSidecar, cache
  <2> QED BY <2>1, <2>2, SameKeeps
<1>16. ASSUME NEW p \in Threads, Load(p) PROVE TypeOK' /\ Stored'
  <2>1. TypeOK'
    BY <1>16, MaxGenType
    DEF Load, TypeOK, cache, disk, local, Goto, Return, Searching, Writing, Reading
  <2>2. UNCHANGED <<pointers, entries, reinstalled>>
    BY <1>16 DEF Load, cache
  <2> QED BY <2>1, <2>2, SameKeeps
<1>17. ASSUME NEW p \in Threads, InstallPrebuilt(p) PROVE TypeOK' /\ Stored'
  <2>1. wit[p] \in Witness /\ key[p] \in Keys
    BY <1>17 DEF Held, HeldBy, InstallPrebuilt
  <2>2. got[p] # 0 /\ got[p] \in 0..MaxGen
    BY <1>17 DEF Held, HeldBy, InstallPrebuilt, TypeOK
  <2> DEFINE entry == [data |-> got[p], refcount |-> 0, primed |-> FALSE]
  <2>3. entry \in Entry /\ entry.data # 0 /\ entry.refcount = 0
    BY <2>2 DEF Entry
  <2>4. entry.primed => wit[p].gen <= entry.data
    BY <1>17 DEF Held, HeldBy, InstallPrebuilt
  <2>5. InstallPointer(key[p], wit[p], entry)
    BY <1>17 DEF InstallPrebuilt, Installed
  <2> HIDE DEF entry
  <2>6. /\ entries' \in [Witness -> Entry]
        /\ pointers' \in [Keys -> Witness \cup {None}]
        /\ checked' \subseteq Keys
        /\ reinstalled' \in BOOLEAN
        /\ Stored'
    BY <2>1, <2>3, <2>4, <2>5, InstallKeeps
  <2>7. UNCHANGED <<mode, gen, sidecar, snapshot>>
    BY <1>17 DEF InstallPrebuilt, disk
  <2>8. /\ pc' \in [Threads -> {"idle"} \cup Searching \cup Writing \cup Reading]
        /\ key' \in [Threads -> Keys \cup {None}]
        /\ wit' \in [Threads -> Witness \cup {None}]
        /\ got' \in [Threads -> 0..MaxGen]
    BY <1>17, MaxGenType DEF InstallPrebuilt, TypeOK
  <2>9. floor' \in [Threads -> 0..MaxGen]
    <3>1. wit[p].gen \in 0..MaxGen
      BY <2>1, MaxGenType DEF Witness, Gens
    <3>2. \A q \in Threads : floor'[q] \in 0..MaxGen
      BY <1>17, <3>1 DEF InstallPrebuilt, TypeOK
    <3>3. floor' = [q \in Threads |-> floor'[q]]
      BY <1>17 DEF InstallPrebuilt
    <3> QED BY <3>2, <3>3
  <2>10. TypeOK'
    BY <2>6, <2>7, <2>8, <2>9, Zenon DEF TypeOK
  <2> QED BY <2>6, <2>10
<1>18. ASSUME NEW p \in Threads, RefreshCompare(p) PROVE TypeOK' /\ Stored'
  <2>1. TypeOK'
    BY <1>18, MaxGenType
    DEF RefreshCompare, TypeOK, cache, disk, local, Goto, Return, Searching, Writing, Reading
  <2>2. UNCHANGED <<pointers, entries, reinstalled>>
    BY <1>18 DEF RefreshCompare, cache
  <2> QED BY <2>1, <2>2, SameKeeps
<1>19. ASSUME NEW p \in Threads, RefreshDrop(p) PROVE TypeOK' /\ Stored'
  <2>1. key[p] \in Keys
    BY <1>19 DEF Held, HeldBy, RefreshDrop
  <2>2. DropPointer(key[p]) /\ reinstalled' = reinstalled
    BY <1>19 DEF RefreshDrop
  <2>3. /\ entries' \in [Witness -> Entry]
        /\ pointers' \in [Keys -> Witness \cup {None}]
        /\ checked' \subseteq Keys
        /\ Stored'
    BY <2>1, <2>2, DropKeeps
  <2>4. TypeOK'
    BY <1>19, <2>3, MaxGenType DEF RefreshDrop, TypeOK, disk, local, Return
  <2> QED BY <2>3, <2>4
<1>20. ASSUME NEW p \in Threads, Fail(p) PROVE TypeOK' /\ Stored'
  <2>1. TypeOK'
    BY <1>20, MaxGenType
    DEF Fail, TypeOK, cache, disk, local, Goto, Return, Searching, Writing, Reading
  <2>2. UNCHANGED <<pointers, entries, reinstalled>>
    BY <1>20 DEF Fail, cache
  <2> QED BY <2>1, <2>2, SameKeeps
<1>21. ASSUME NEW k \in Keys, Invalidate(k) PROVE TypeOK' /\ Stored'
  <2>1. k \in Keys
    BY <1>21
  <2>2. DropPointer(k) /\ reinstalled' = reinstalled
    BY <1>21 DEF Invalidate
  <2>3. /\ entries' \in [Witness -> Entry]
        /\ pointers' \in [Keys -> Witness \cup {None}]
        /\ checked' \subseteq Keys
        /\ Stored'
    BY <2>1, <2>2, DropKeeps
  <2>4. TypeOK'
    BY <1>21, <2>3, MaxGenType DEF Invalidate, TypeOK, disk, local, Return
  <2> QED BY <2>3, <2>4
<1>22. ASSUME NEW k \in Keys, Expire(k) PROVE TypeOK' /\ Stored'
  <2>1. TypeOK'
    BY <1>22, MaxGenType
    DEF Expire, TypeOK, cache, disk, local, Goto, Return, Searching, Writing, Reading
  <2>2. UNCHANGED <<pointers, entries, reinstalled>>
    BY <1>22 DEF Expire, cache
  <2> QED BY <2>1, <2>2, SameKeeps
<1>23. ASSUME NEW d \in DataRefs, Append(d) PROVE TypeOK' /\ Stored'
  <2>1. TypeOK'
    BY <1>23, MaxGenType
    DEF Append, Gens, TypeOK, cache, disk, local, Goto, Return, Searching, Writing, Reading
  <2>2. UNCHANGED <<pointers, entries, reinstalled>>
    BY <1>23 DEF Append, cache
  <2> QED BY <2>1, <2>2, SameKeeps
<1>24. ASSUME Restart PROVE TypeOK' /\ Stored'
  <2>1. TypeOK'
    <3>1. /\ pointers' \in [Keys -> Witness \cup {None}]
          /\ entries' \in [Witness -> Entry]
          /\ checked' \subseteq Keys
          /\ pc' \in [Threads -> {"idle"} \cup Searching \cup Writing \cup Reading]
          /\ key' \in [Threads -> Keys \cup {None}]
          /\ wit' \in [Threads -> Witness \cup {None}]
          /\ got' \in [Threads -> 0..MaxGen]
          /\ floor' \in [Threads -> 0..MaxGen]
      BY <1>24, EmptyEntry, MaxGenType DEF Restart
    <3>2. reinstalled' \in BOOLEAN /\ UNCHANGED <<mode, gen, sidecar, snapshot>>
      BY <1>24, Zenon DEF Restart, disk
    <3> QED BY <3>1, <3>2, Zenon DEF TypeOK
  <2>2. Empty'
    BY <1>24 DEF Restart, Empty
  <2>3. Stored'
    BY <2>2, EmptyStored, PTL
  <2> QED BY <2>1, <2>3
<1>99. CASE UNCHANGED vars
  <2>1. TypeOK'
    BY <1>99 DEF vars, cache, disk, local, TypeOK
  <2> QED BY <1>99, <2>1, SameKeeps DEF vars, cache
<1> QED
  BY <1>1, <1>2, <1>3, <1>4, <1>5, <1>6, <1>7, <1>8, <1>9, <1>10, <1>11,
     <1>12, <1>13, <1>14, <1>15, <1>16, <1>17, <1>18, <1>19, <1>20, <1>21,
     <1>22, <1>23, <1>24, <1>99
  DEF Next, SearchStep, SnapshotStep

LEMMA StepHeld == TypeOK /\ Held /\ [Next]_vars => Held'
<1> SUFFICES ASSUME TypeOK, Held, [Next]_vars PROVE Held'
  OBVIOUS
<1>1. ASSUME NEW p \in Threads, NEW k \in Keys, Search(p, k) PROVE Held'
  <2>1. ASSUME NEW q \in Threads PROVE HeldBy(q)'
    <3>1. HeldBy(q) /\ HeldBy(p)
      BY DEF Held
    <3> QED BY <1>1, <3>1 DEF Search, HeldBy, TypeOK, Goto, Return, local, Installed
  <2> QED BY <2>1 DEF Held
<1>2. ASSUME NEW p \in Threads, ReadBundle(p) PROVE Held'
  <2>1. key[p] \in Keys
    BY <1>2 DEF ReadBundle, Held, HeldBy
  <2>2. Current(key[p]) \in Witness /\ Current(key[p]).gen = gen[DataOf[key[p]]]
    BY <2>1, CurrentWitness
  <2>3. gen[DataOf[key[p]]] \in Gens
    BY <2>1, DataOfType DEF TypeOK
  <2>4. gen[DataOf[key[p]]] \in Nat \ {0}
    BY <2>3, MaxGenType DEF Gens
  <2> HIDE DEF Held
  <2>5. ASSUME NEW q \in Threads PROVE HeldBy(q)'
    <3>1. HeldBy(q) /\ HeldBy(p)
      BY DEF Held
    <3> QED BY <1>2, <2>1, <2>2, <2>4, <3>1 DEF ReadBundle, HeldBy, TypeOK, Goto
  <2> QED BY <2>5 DEF Held
<1>3. ASSUME NEW p \in Threads, Compare(p) PROVE Held'
  <2>1. ASSUME NEW q \in Threads PROVE HeldBy(q)'
    <3>1. HeldBy(q) /\ HeldBy(p)
      BY DEF Held
    <3> QED BY <1>3, <3>1 DEF Compare, HeldBy, TypeOK, Goto, Return, local, Installed
  <2> QED BY <2>1 DEF Held
<1>4. ASSUME NEW p \in Threads, Touch(p) PROVE Held'
  <2>1. ASSUME NEW q \in Threads PROVE HeldBy(q)'
    <3>1. HeldBy(q) /\ HeldBy(p)
      BY DEF Held
    <3> QED BY <1>4, <3>1 DEF Touch, HeldBy, TypeOK, Goto, Return, local, Installed
  <2> QED BY <2>1 DEF Held
<1>5. ASSUME NEW p \in Threads, Pull(p) PROVE Held'
  <2>1. key[p] \in Keys
    BY <1>5 DEF Pull, Held, HeldBy
  <2>2. Current(key[p]) \in Witness /\ Current(key[p]).gen = gen[DataOf[key[p]]]
    BY <2>1, CurrentWitness
  <2>3. gen[DataOf[key[p]]] \in Gens
    BY <2>1, DataOfType DEF TypeOK
  <2>4. gen[DataOf[key[p]]] \in Nat \ {0}
    BY <2>3, MaxGenType DEF Gens
  <2> HIDE DEF Held
  <2>5. ASSUME NEW q \in Threads PROVE HeldBy(q)'
    <3>1. HeldBy(q) /\ HeldBy(p)
      BY DEF Held
    <3> QED BY <1>5, <2>1, <2>2, <2>4, <3>1 DEF Pull, HeldBy, TypeOK, Goto
  <2> QED BY <2>5 DEF Held
<1>6. ASSUME NEW p \in Threads, Prime(p) PROVE Held'
  <2>1. ASSUME NEW q \in Threads PROVE HeldBy(q)'
    <3>1. HeldBy(q) /\ HeldBy(p)
      BY DEF Held
    <3> QED BY <1>6, <3>1 DEF Prime, HeldBy, TypeOK, Goto, Return, local, Installed
  <2> QED BY <2>1 DEF Held
<1>7. ASSUME NEW p \in Threads, Build(p) PROVE Held'
  <2>1. ASSUME NEW q \in Threads PROVE HeldBy(q)'
    <3>1. HeldBy(q) /\ HeldBy(p)
      BY DEF Held
    <3> QED BY <1>7, <3>1 DEF Build, HeldBy, TypeOK, Goto, Return, local, Installed
  <2> QED BY <2>1 DEF Held
<1>8. ASSUME NEW p \in Threads, Lookup(p) PROVE Held'
  <2>1. ASSUME NEW q \in Threads PROVE HeldBy(q)'
    <3>1. HeldBy(q) /\ HeldBy(p)
      BY DEF Held
    <3> QED BY <1>8, <3>1 DEF Lookup, HeldBy, TypeOK, Goto, Return, local, Installed
  <2> QED BY <2>1 DEF Held
<1>9. ASSUME NEW p \in Threads, NEW k \in Keys, Save(p, k) PROVE Held'
  <2>1. ASSUME NEW q \in Threads PROVE HeldBy(q)'
    <3>1. HeldBy(q) /\ HeldBy(p)
      BY DEF Held
    <3> QED BY <1>9, <3>1 DEF Save, HeldBy, TypeOK, Goto, Return, local, Installed
  <2> QED BY <2>1 DEF Held
<1>10. ASSUME NEW p \in Threads, NEW k \in Keys, Publish(p, k) PROVE Held'
  <2>1. ASSUME NEW q \in Threads PROVE HeldBy(q)'
    <3>1. HeldBy(q) /\ HeldBy(p)
      BY DEF Held
    <3> QED BY <1>10, <3>1, CurrentWitness DEF Publish, HeldBy, TypeOK, Goto, Return, local, Installed
  <2> QED BY <2>1 DEF Held
<1>11. ASSUME NEW p \in Threads, NEW k \in Keys, Warm(p, k) PROVE Held'
  <2>1. ASSUME NEW q \in Threads PROVE HeldBy(q)'
    <3>1. HeldBy(q) /\ HeldBy(p)
      BY DEF Held
    <3> QED BY <1>11, <3>1 DEF Warm, HeldBy, TypeOK, Goto, Return, local, Installed
  <2> QED BY <2>1 DEF Held
<1>12. ASSUME NEW p \in Threads, NEW k \in Keys, Refresh(p, k) PROVE Held'
  <2>1. ASSUME NEW q \in Threads PROVE HeldBy(q)'
    <3>1. HeldBy(q) /\ HeldBy(p)
      BY DEF Held
    <3> QED BY <1>12, <3>1 DEF Refresh, HeldBy, TypeOK, Goto, Return, local, Installed
  <2> QED BY <2>1 DEF Held
<1>13. ASSUME NEW p \in Threads, SaveIndex(p) PROVE Held'
  <2>1. ASSUME NEW q \in Threads PROVE HeldBy(q)'
    <3>1. HeldBy(q) /\ HeldBy(p)
      BY DEF Held
    <3> QED BY <1>13, <3>1 DEF SaveIndex, HeldBy, Present, TypeOK, Goto, Return, local, Installed
  <2> QED BY <2>1 DEF Held
<1>14. ASSUME NEW p \in Threads, SaveRename(p) PROVE Held'
  <2>1. ASSUME NEW q \in Threads PROVE HeldBy(q)'
    <3>1. HeldBy(q) /\ HeldBy(p)
      BY DEF Held
    <3> QED BY <1>14, <3>1 DEF SaveRename, HeldBy, TypeOK, Goto, Return, local, Installed
  <2> QED BY <2>1 DEF Held
<1>15. ASSUME NEW p \in Threads, WriteSidecar(p) PROVE Held'
  <2>1. ASSUME NEW q \in Threads PROVE HeldBy(q)'
    <3>1. HeldBy(q) /\ HeldBy(p)
      BY DEF Held
    <3> QED BY <1>15, <3>1 DEF WriteSidecar, HeldBy, TypeOK, Goto, Return, local, Installed
  <2> QED BY <2>1 DEF Held
<1>16. ASSUME NEW p \in Threads, Load(p) PROVE Held'
  <2>1. ASSUME NEW q \in Threads PROVE HeldBy(q)'
    <3>1. HeldBy(q) /\ HeldBy(p)
      BY DEF Held
    <3> QED BY <1>16, <3>1 DEF Load, HeldBy, TypeOK, Goto, Return, local, Installed
  <2> QED BY <2>1 DEF Held
<1>17. ASSUME NEW p \in Threads, InstallPrebuilt(p) PROVE Held'
  <2>1. ASSUME NEW q \in Threads PROVE HeldBy(q)'
    <3>1. HeldBy(q) /\ HeldBy(p)
      BY DEF Held
    <3> QED BY <1>17, <3>1 DEF InstallPrebuilt, HeldBy, TypeOK, Goto, Return, local, Installed
  <2> QED BY <2>1 DEF Held
<1>18. ASSUME NEW p \in Threads, RefreshCompare(p) PROVE Held'
  <2>1. ASSUME NEW q \in Threads PROVE HeldBy(q)'
    <3>1. HeldBy(q) /\ HeldBy(p)
      BY DEF Held
    <3> QED BY <1>18, <3>1 DEF RefreshCompare, HeldBy, TypeOK, Goto, Return, local, Installed
  <2> QED BY <2>1 DEF Held
<1>19. ASSUME NEW p \in Threads, RefreshDrop(p) PROVE Held'
  <2>1. ASSUME NEW q \in Threads PROVE HeldBy(q)'
    <3>1. HeldBy(q) /\ HeldBy(p)
      BY DEF Held
    <3> QED BY <1>19, <3>1 DEF RefreshDrop, HeldBy, TypeOK, Goto, Return, local, Installed
  <2> QED BY <2>1 DEF Held
<1>20. ASSUME NEW p \in Threads, Fail(p) PROVE Held'
  <2>1. ASSUME NEW q \in Threads PROVE HeldBy(q)'
    <3>1. HeldBy(q) /\ HeldBy(p)
      BY DEF Held
    <3> QED BY <1>20, <3>1 DEF Fail, HeldBy, TypeOK, Goto, Return, local, Installed
  <2> QED BY <2>1 DEF Held
<1>21. ASSUME NEW k \in Keys, Invalidate(k) PROVE Held'
  <2>1. ASSUME NEW q \in Threads PROVE HeldBy(q)'
    <3>1. HeldBy(q)
      BY DEF Held
    <3> QED BY <1>21, <3>1 DEF Invalidate, HeldBy, TypeOK, local
  <2> QED BY <2>1 DEF Held
<1>22. ASSUME NEW k \in Keys, Expire(k) PROVE Held'
  <2>1. ASSUME NEW q \in Threads PROVE HeldBy(q)'
    <3>1. HeldBy(q)
      BY DEF Held
    <3> QED BY <1>22, <3>1 DEF Expire, HeldBy, TypeOK, local
  <2> QED BY <2>1 DEF Held
<1>23. ASSUME NEW d \in DataRefs, Append(d) PROVE Held'
  <2>1. ASSUME NEW q \in Threads PROVE HeldBy(q)'
    <3>1. HeldBy(q)
      BY DEF Held
    <3>2. \A e \in DataRefs : gen[e] \in Nat /\ gen'[e] \in Nat /\ gen[e] <= gen'[e]
      BY <1>23, MaxGenType DEF Append, TypeOK, Gens
    <3>3. \A w \in Witness : w.gen \in Nat
      BY MaxGenType DEF Witness, Gens
    <3>4. key[q] \in Keys => DataOf[key[q]] \in DataRefs
      BY DataOfType
    <3> QED BY <1>23, <3>1, <3>2, <3>3, <3>4 DEF Append, HeldBy, local
  <2> QED BY <2>1 DEF Held
<1>24. ASSUME Restart PROVE Held'
  <2>1. ASSUME NEW q \in Threads PROVE HeldBy(q)'
    <3>1. HeldBy(q)
      BY DEF Held
    <3> QED BY <1>24, <3>1 DEF Restart, HeldBy, TypeOK, local
  <2> QED BY <2>1 DEF Held
<1>99. CASE UNCHANGED vars
  BY <1>99 DEF vars, local, Held, HeldBy
<1> QED
  BY <1>1, <1>2, <1>3, <1>4, <1>5, <1>6, <1>7, <1>8, <1>9, <1>10, <1>11,
     <1>12, <1>13, <1>14, <1>15, <1>16, <1>17, <1>18, <1>19, <1>20, <1>21,
     <1>22, <1>23, <1>24, <1>99
  DEF Next, SearchStep, SnapshotStep

-----------------------------------------------------------------------------

InHand == {"compare", "pull", "prime", "build"}

\* What makes FreshAnswers inductive: a search is not ahead of the backend, of
\* the pointer it is about to follow, nor of any witness that a search of its
\* key may still install.
FreshFor(p) ==
    pc[p] \in Searching =>
        /\ floor[p] <= gen[DataOf[key[p]]]
        /\ pc[p] \in {"touch", "lookup"} /\ pointers[key[p]] # None =>
              floor[p] <= pointers[key[p]].gen
        /\ \A q \in Threads : key[q] = key[p] /\ pc[q] \in InHand => floor[p] <= wit[q].gen

FreshInv == mode = "fresh" => \A p \in Threads : FreshFor(p)

LEMMA StepFresh == TypeOK /\ Held /\ FreshInv /\ [Next]_vars => FreshInv'
<1> SUFFICES ASSUME TypeOK, Held, FreshInv, [Next]_vars PROVE FreshInv'
  OBVIOUS
<1>1. ASSUME NEW p \in Threads, NEW k \in Keys, Search(p, k) PROVE FreshInv'
  <2>1. ASSUME mode' = "fresh", NEW r \in Threads PROVE FreshFor(r)'
    <3>0. mode = "fresh" /\ FreshFor(r) /\ HeldBy(r)
      BY <1>1, <2>1 DEF Search, FreshInv, Held
    <3>1. PICK g \in Reliable(k) : /\ \A h \in Reliable(k) : g <= h
                                   /\ floor' = [floor EXCEPT ![p] = g]
      BY <1>1 DEF Search
    <3>2. g <= Current(k).gen
      BY <3>0, <3>1 DEF Reliable
    <3>3. \A q \in Threads : key[q] = k /\ pc[q] \in InHand => g <= wit[q].gen
      BY <3>0, <3>1 DEF Reliable, InHand
    <3>4. /\ pc' = [pc EXCEPT ![p] = "bundle"] /\ key' = [key EXCEPT ![p] = k]
          /\ pc[p] = "idle" /\ UNCHANGED <<gen, pointers, wit>>
      BY <1>1, <3>0 DEF Search, Goto, can_skip_check, cache
    <3>5. Current(k).gen = gen[DataOf[k]]
      BY CurrentWitness
    <3>6. \A q \in Threads : pc'[q] \in InHand =>
             q # p /\ pc[q] = pc'[q] /\ key[q] = key'[q] /\ wit'[q] = wit[q]
      BY <3>4 DEF InHand, TypeOK
    <3>7. CASE r = p
      <4>1. /\ pc'[p] = "bundle" /\ key'[p] = k /\ floor'[p] = g
        BY <3>1, <3>4 DEF TypeOK
      <4> QED BY <3>2, <3>3, <3>4, <3>5, <3>6, <3>7, <4>1 DEF FreshFor
    <3>8. CASE r # p
      <4>1. pc'[r] = pc[r] /\ key'[r] = key[r] /\ floor'[r] = floor[r]
        BY <3>1, <3>4, <3>8 DEF TypeOK
      <4> QED BY <3>0, <3>4, <3>6, <4>1 DEF FreshFor
    <3> QED BY <3>7, <3>8
  <2> QED BY <2>1 DEF FreshInv
<1>2. ASSUME NEW p \in Threads, ReadBundle(p) PROVE FreshInv'
  <2>1. ASSUME mode' = "fresh", NEW r \in Threads PROVE FreshFor(r)'
    <3>0. mode = "fresh" /\ FreshFor(r) /\ HeldBy(r)
      BY <1>2, <2>1 DEF ReadBundle, FreshInv, Held
    <3>1. key[p] \in Keys /\ Current(key[p]).gen = gen[DataOf[key[p]]]
      BY <1>2, CurrentWitness DEF ReadBundle, Held, HeldBy
    <3> QED BY <1>2, <3>0, <3>1
      DEF ReadBundle, FreshFor, TypeOK, Goto, Return, local, cache, Searching, InHand
  <2> QED BY <2>1 DEF FreshInv
<1>3. ASSUME NEW p \in Threads, Compare(p) PROVE FreshInv'
  <2>1. ASSUME mode' = "fresh", NEW r \in Threads PROVE FreshFor(r)'
    <3>0. mode = "fresh" /\ FreshFor(r) /\ HeldBy(r)
      BY <1>3, <2>1 DEF Compare, FreshInv, Held
    <3>1. FreshFor(p) /\ HeldBy(p)
      BY <1>3, <3>0 DEF FreshInv, Held
    <3> QED BY <1>3, <3>0, <3>1
      DEF Compare, FreshFor, TypeOK, Goto, Return, local, cache, Searching, InHand
  <2> QED BY <2>1 DEF FreshInv
<1>4. ASSUME NEW p \in Threads, Touch(p) PROVE FreshInv'
  <2>1. ASSUME mode' = "fresh", NEW r \in Threads PROVE FreshFor(r)'
    <3>0. mode = "fresh" /\ FreshFor(r) /\ HeldBy(r)
      BY <1>4, <2>1 DEF Touch, FreshInv, Held
    <3> QED BY <1>4, <3>0
      DEF Touch, FreshFor, TypeOK, Goto, Return, local, cache, Searching, InHand
  <2> QED BY <2>1 DEF FreshInv
<1>5. ASSUME NEW p \in Threads, Pull(p) PROVE FreshInv'
  <2>1. ASSUME mode' = "fresh", NEW r \in Threads PROVE FreshFor(r)'
    <3>0. mode = "fresh" /\ FreshFor(r) /\ HeldBy(r)
      BY <1>5, <2>1 DEF Pull, FreshInv, Held
    <3> QED BY <1>5, <3>0
      DEF Pull, FreshFor, TypeOK, Goto, Return, local, cache, Searching, InHand
  <2> QED BY <2>1 DEF FreshInv
<1>6. ASSUME NEW p \in Threads, Prime(p) PROVE FreshInv'
  <2>1. ASSUME mode' = "fresh", NEW r \in Threads PROVE FreshFor(r)'
    <3>0. mode = "fresh" /\ FreshFor(r) /\ HeldBy(r)
      BY <1>6, <2>1 DEF Prime, FreshInv, Held
    <3>a. CASE entries[wit[p]].data = 0
      <4>1. UNCHANGED <<gen, pointers, key, wit, floor>> /\ pc' = [pc EXCEPT ![p] = "build"]
        BY <1>6, <3>a DEF Prime, Present, Goto, cache
      <4> QED BY <1>6, <3>0, <4>1 DEF Prime, FreshFor, TypeOK, Searching, InHand
    <3>b. CASE entries[wit[p]].data # 0
      <4>1. Installed(p, NoEntry)
        BY <1>6, <3>b DEF Prime, Present, Held, HeldBy
      <4>2. key[p] \in Keys /\ wit[p] \in Witness
        BY <1>6 DEF Prime, Held, HeldBy
      <4>3. pointers' = [pointers EXCEPT ![key[p]] = wit[p]]
        BY <4>1 DEF Installed, InstallPointer
      <4>4. key[r] = key[p] /\ pc[r] \in Searching => floor[r] <= wit[p].gen
        BY <1>6, <3>0 DEF Prime, FreshFor, InHand
      <4>5. pointers \in [Keys -> Witness \cup {None}]
        BY DEF TypeOK
      <4>6. /\ pc' = [pc EXCEPT ![p] = "lookup"] /\ UNCHANGED <<gen, key, floor>>
            /\ wit' = [wit EXCEPT ![p] = None]
        BY <1>6, <4>1 DEF Prime, Installed, Goto
      <4>7. \A q \in Threads : pc'[q] \in InHand => pc[q] \in InHand /\ wit'[q] = wit[q]
        BY <4>6 DEF InHand, TypeOK
      <4>8. pc'[r] \in Searching => pc[r] \in Searching /\ key[r] \in Keys
        BY <1>6, <3>0, <4>6 DEF Searching, Prime, TypeOK, HeldBy
      <4>9. pc'[r] \in {"touch", "lookup"} => r = p \/ pc[r] \in {"touch", "lookup"}
        BY <4>6 DEF TypeOK
      <4>10. ASSUME pc'[r] \in {"touch", "lookup"}, pointers'[key[r]] # None
             PROVE  floor[r] <= pointers'[key[r]].gen
        <5>1. CASE key[r] = key[p]
          BY <4>2, <4>3, <4>4, <4>5, <4>8, <4>10, <5>1 DEF Searching
        <5>2. CASE key[r] # key[p]
          <6>1. pointers'[key[r]] = pointers[key[r]]
            BY <4>3, <4>5, <4>8, <4>10, <5>2 DEF Searching
          <6> QED BY <3>0, <4>8, <4>9, <4>10, <5>2, <6>1 DEF FreshFor, Searching
        <5> QED BY <5>1, <5>2
      <4> QED BY <3>0, <4>6, <4>7, <4>8, <4>10 DEF FreshFor
    <3> QED BY <3>a, <3>b
  <2> QED BY <2>1 DEF FreshInv
<1>7. ASSUME NEW p \in Threads, Build(p) PROVE FreshInv'
  <2>1. ASSUME mode' = "fresh", NEW r \in Threads PROVE FreshFor(r)'
    <3>0. mode = "fresh" /\ FreshFor(r) /\ HeldBy(r)
      BY <1>7, <2>1 DEF Build, FreshInv, Held
    <3>2. key[p] \in Keys /\ wit[p] \in Witness
      BY <1>7 DEF Build, Held, HeldBy
    <3>3. pointers' = [pointers EXCEPT ![key[p]] = wit[p]]
      BY <1>7 DEF Build, Installed, InstallPointer
    <3>4. key[r] = key[p] /\ pc[r] \in Searching => floor[r] <= wit[p].gen
      BY <1>7, <3>0 DEF Build, FreshFor, InHand
    <3>5. pointers \in [Keys -> Witness \cup {None}]
      BY DEF TypeOK
    <3>6. /\ pc' = [pc EXCEPT ![p] = "lookup"] /\ UNCHANGED <<gen, key, floor>>
          /\ wit' = [wit EXCEPT ![p] = None]
      BY <1>7 DEF Build, Installed, Goto
    <3>7. \A q \in Threads : pc'[q] \in InHand => pc[q] \in InHand /\ wit'[q] = wit[q]
      BY <3>6 DEF InHand, TypeOK
    <3>8. pc'[r] \in Searching => pc[r] \in Searching /\ key[r] \in Keys
      BY <1>7, <3>0, <3>6 DEF Searching, Build, TypeOK, HeldBy
    <3>9. pc'[r] \in {"touch", "lookup"} => r = p \/ pc[r] \in {"touch", "lookup"}
      BY <3>6 DEF TypeOK
    <3>10. ASSUME pc'[r] \in {"touch", "lookup"}, pointers'[key[r]] # None
           PROVE  floor[r] <= pointers'[key[r]].gen
      <4>1. CASE key[r] = key[p]
        BY <3>2, <3>3, <3>4, <3>5, <3>8, <3>10, <4>1 DEF Searching
      <4>2. CASE key[r] # key[p]
        <5>1. pointers'[key[r]] = pointers[key[r]]
          BY <3>3, <3>5, <3>8, <3>10, <4>2 DEF Searching
        <5> QED BY <3>0, <3>8, <3>9, <3>10, <4>2, <5>1 DEF FreshFor, Searching
      <4> QED BY <4>1, <4>2
    <3> QED BY <3>0, <3>6, <3>7, <3>8, <3>10 DEF FreshFor
  <2> QED BY <2>1 DEF FreshInv
<1>8. ASSUME NEW p \in Threads, Lookup(p) PROVE FreshInv'
  <2>1. ASSUME mode' = "fresh", NEW r \in Threads PROVE FreshFor(r)'
    <3>0. mode = "fresh" /\ FreshFor(r) /\ HeldBy(r)
      BY <1>8, <2>1 DEF Lookup, FreshInv, Held
    <3> QED BY <1>8, <3>0
      DEF Lookup, FreshFor, TypeOK, Goto, Return, local, cache, Searching, InHand
  <2> QED BY <2>1 DEF FreshInv
<1>9. ASSUME NEW p \in Threads, NEW k \in Keys, Save(p, k) PROVE FreshInv'
  <2>1. ASSUME mode' = "fresh", NEW r \in Threads PROVE FreshFor(r)'
    <3>0. mode = "fresh" /\ FreshFor(r) /\ HeldBy(r)
      BY <1>9, <2>1 DEF Save, FreshInv, Held
    <3> QED BY <1>9, <3>0
      DEF Save, FreshFor, TypeOK, Goto, Return, local, cache, Searching, InHand
  <2> QED BY <2>1 DEF FreshInv
<1>10. ASSUME NEW p \in Threads, NEW k \in Keys, Publish(p, k) PROVE FreshInv'
  <2>1. ASSUME mode' = "fresh", NEW r \in Threads PROVE FreshFor(r)'
    <3>0. mode = "fresh" /\ FreshFor(r) /\ HeldBy(r)
      BY <1>10, <2>1 DEF Publish, FreshInv, Held
    <3> QED BY <1>10, <3>0
      DEF Publish, FreshFor, TypeOK, Goto, Return, local, cache, Searching, InHand
  <2> QED BY <2>1 DEF FreshInv
<1>11. ASSUME NEW p \in Threads, NEW k \in Keys, Warm(p, k) PROVE FreshInv'
  <2>1. ASSUME mode' = "fresh", NEW r \in Threads PROVE FreshFor(r)'
    <3>0. mode = "fresh" /\ FreshFor(r) /\ HeldBy(r)
      BY <1>11, <2>1 DEF Warm, FreshInv, Held
    <3> QED BY <1>11, <3>0
      DEF Warm, FreshFor, TypeOK, Goto, Return, local, cache, Searching, InHand
  <2> QED BY <2>1 DEF FreshInv
<1>12. ASSUME NEW p \in Threads, NEW k \in Keys, Refresh(p, k) PROVE FreshInv'
  <2>1. ASSUME mode' = "fresh", NEW r \in Threads PROVE FreshFor(r)'
    <3>0. mode = "fresh" /\ FreshFor(r) /\ HeldBy(r)
      BY <1>12, <2>1 DEF Refresh, FreshInv, Held
    <3> QED BY <1>12, <3>0
      DEF Refresh, FreshFor, TypeOK, Goto, Return, local, cache, Searching, InHand
  <2> QED BY <2>1 DEF FreshInv
<1>13. ASSUME NEW p \in Threads, SaveIndex(p) PROVE FreshInv'
  <2>1. ASSUME mode' = "fresh", NEW r \in Threads PROVE FreshFor(r)'
    <3>0. mode = "fresh" /\ FreshFor(r) /\ HeldBy(r)
      BY <1>13, <2>1 DEF SaveIndex, FreshInv, Held
    <3> QED BY <1>13, <3>0
      DEF SaveIndex, FreshFor, TypeOK, Goto, Return, local, cache, Searching, InHand
  <2> QED BY <2>1 DEF FreshInv
<1>14. ASSUME NEW p \in Threads, SaveRename(p) PROVE FreshInv'
  <2>1. ASSUME mode' = "fresh", NEW r \in Threads PROVE FreshFor(r)'
    <3>0. mode = "fresh" /\ FreshFor(r) /\ HeldBy(r)
      BY <1>14, <2>1 DEF SaveRename, FreshInv, Held
    <3> QED BY <1>14, <3>0
      DEF SaveRename, FreshFor, TypeOK, Goto, Return, local, cache, Searching, InHand
  <2> QED BY <2>1 DEF FreshInv
<1>15. ASSUME NEW p \in Threads, WriteSidecar(p) PROVE FreshInv'
  <2>1. ASSUME mode' = "fresh", NEW r \in Threads PROVE FreshFor(r)'
    <3>0. mode = "fresh" /\ FreshFor(r) /\ HeldBy(r)
      BY <1>15, <2>1 DEF WriteSidecar, FreshInv, Held
    <3> QED BY <1>15, <3>0
      DEF WriteSidecar, FreshFor, TypeOK, Goto, Return, local, cache, Searching, InHand
  <2> QED BY <2>1 DEF FreshInv
<1>16. ASSUME NEW p \in Threads, Load(p) PROVE FreshInv'
  <2>1. ASSUME mode' = "fresh", NEW r \in Threads PROVE FreshFor(r)'
    <3>0. mode = "fresh" /\ FreshFor(r) /\ HeldBy(r)
      BY <1>16, <2>1 DEF Load, FreshInv, Held
    <3> QED BY <1>16, <3>0
      DEF Load, FreshFor, TypeOK, Goto, Return, local, cache, Searching, InHand
  <2> QED BY <2>1 DEF FreshInv
<1>17. ASSUME NEW p \in Threads, InstallPrebuilt(p) PROVE FreshInv'
  <2>1. ASSUME mode' = "fresh", NEW r \in Threads PROVE FreshFor(r)'
    <3>0. mode = "fresh" /\ FreshFor(r) /\ HeldBy(r)
      BY <1>17, <2>1 DEF InstallPrebuilt, FreshInv, Held
    <3>2. key[p] \in Keys /\ wit[p] \in Witness
      BY <1>17 DEF InstallPrebuilt, Held, HeldBy
    <3>3. pointers' = [pointers EXCEPT ![key[p]] = wit[p]]
      BY <1>17 DEF InstallPrebuilt, InstallPointer
    <3>4. /\ pc' = [pc EXCEPT ![p] = "idle"] /\ UNCHANGED gen
          /\ key' = [key EXCEPT ![p] = None]
          /\ wit' = [wit EXCEPT ![p] = None]
      BY <1>17 DEF InstallPrebuilt
    <3>5. wit[p].gen \in Nat /\ floor[r] \in Nat
      BY <3>2, MaxGenType DEF Witness, Gens, TypeOK
    <3>6. /\ floor'[r] \in Nat /\ floor'[r] <= floor[r]
          /\ key[r] = key[p] /\ pc[r] \in Searching => floor'[r] <= wit[p].gen
      BY <1>17, <3>5 DEF InstallPrebuilt
    <3>7. \A q \in Threads : pc'[q] \in InHand \cup Searching =>
             q # p /\ pc'[q] = pc[q] /\ wit'[q] = wit[q] /\ key'[q] = key[q]
      BY <3>4 DEF InHand, Searching, TypeOK
    <3>8. ASSUME pc'[r] \in Searching PROVE FreshFor(r)'
      <4>1. pc'[r] = pc[r] /\ key'[r] = key[r] /\ key[r] \in Keys
        BY <3>0, <3>7, <3>8 DEF HeldBy, Searching
      <4>2. DataOf[key[r]] \in DataRefs /\ gen[DataOf[key[r]]] \in Nat
        BY <4>1, DataOfType, MaxGenType DEF TypeOK, Gens
      <4>3. floor'[r] <= gen'[DataOf[key'[r]]]
        <5>1. floor[r] <= gen[DataOf[key[r]]]
          BY <3>0, <3>8, <4>1 DEF FreshFor
        <5> QED BY <3>4, <3>5, <3>6, <4>1, <4>2, <5>1
      <4>4. ASSUME pc'[r] \in {"touch", "lookup"}, pointers'[key'[r]] # None
            PROVE  floor'[r] <= pointers'[key'[r]].gen
        <5>1. CASE key[r] = key[p]
          BY <3>2, <3>3, <3>6, <3>8, <4>1, <5>1 DEF TypeOK
        <5>2. CASE key[r] # key[p]
          <6>1. pointers'[key'[r]] = pointers[key[r]] /\ pointers[key[r]] \in Witness
            BY <3>3, <4>1, <4>4, <5>2 DEF TypeOK
          <6>2. pointers[key[r]].gen \in Nat
            BY <6>1, MaxGenType DEF Witness, Gens
          <6>3. floor[r] <= pointers[key[r]].gen
            BY <3>0, <3>8, <4>1, <4>4, <6>1 DEF FreshFor
          <6> QED BY <3>5, <3>6, <6>1, <6>2, <6>3
        <5> QED BY <5>1, <5>2
      <4>5. ASSUME NEW q \in Threads, key'[q] = key'[r], pc'[q] \in InHand
            PROVE  floor'[r] <= wit'[q].gen
        <5>1. key[q] = key[r] /\ pc[q] \in InHand /\ wit'[q] = wit[q]
          BY <3>7, <4>1, <4>5
        <5>2. floor[r] <= wit[q].gen
          BY <3>0, <3>8, <4>1, <5>1 DEF FreshFor
        <5>3. wit[q].gen \in Nat
          BY <5>1, MaxGenType DEF Held, HeldBy, InHand, Witness, Gens
        <5> QED BY <3>5, <3>6, <5>1, <5>2, <5>3
      <4> QED BY <4>3, <4>4, <4>5 DEF FreshFor
    <3> QED BY <3>8 DEF FreshFor
  <2> QED BY <2>1 DEF FreshInv
<1>18. ASSUME NEW p \in Threads, RefreshCompare(p) PROVE FreshInv'
  <2>1. ASSUME mode' = "fresh", NEW r \in Threads PROVE FreshFor(r)'
    <3>0. mode = "fresh" /\ FreshFor(r) /\ HeldBy(r)
      BY <1>18, <2>1 DEF RefreshCompare, FreshInv, Held
    <3> QED BY <1>18, <3>0
      DEF RefreshCompare, FreshFor, TypeOK, Goto, Return, local, cache, Searching, InHand
  <2> QED BY <2>1 DEF FreshInv
<1>19. ASSUME NEW p \in Threads, RefreshDrop(p) PROVE FreshInv'
  <2>1. ASSUME mode' = "fresh", NEW r \in Threads PROVE FreshFor(r)'
    <3>0. mode = "fresh" /\ FreshFor(r) /\ HeldBy(r)
      BY <1>19, <2>1 DEF RefreshDrop, FreshInv, Held
    <3>1. pointers' = [pointers EXCEPT ![key[p]] = None]
      BY <1>19 DEF RefreshDrop, DropPointer
    <3>2. pointers \in [Keys -> Witness \cup {None}] /\ (pc[r] \in Searching => key[r] \in Keys)
      BY <3>0 DEF TypeOK, HeldBy, Searching
    <3>3. \A x \in Keys : pointers'[x] \in {None, pointers[x]}
      BY <3>1, <3>2
    <3> QED BY <1>19, <3>0, <3>2, <3>3
      DEF RefreshDrop, FreshFor, TypeOK, Return, local, Searching, InHand
  <2> QED BY <2>1 DEF FreshInv
<1>20. ASSUME NEW p \in Threads, Fail(p) PROVE FreshInv'
  <2>1. ASSUME mode' = "fresh", NEW r \in Threads PROVE FreshFor(r)'
    <3>0. mode = "fresh" /\ FreshFor(r) /\ HeldBy(r)
      BY <1>20, <2>1 DEF Fail, FreshInv, Held
    <3> QED BY <1>20, <3>0
      DEF Fail, FreshFor, TypeOK, Goto, Return, local, cache, Searching, InHand
  <2> QED BY <2>1 DEF FreshInv
<1>21. ASSUME NEW k \in Keys, Invalidate(k) PROVE FreshInv'
  <2>1. ASSUME mode' = "fresh", NEW r \in Threads PROVE FreshFor(r)'
    <3>0. mode = "fresh" /\ FreshFor(r) /\ HeldBy(r)
      BY <1>21, <2>1 DEF Invalidate, FreshInv, Held
    <3>1. pointers' = [pointers EXCEPT ![k] = None]
      BY <1>21 DEF Invalidate, DropPointer
    <3>2. pointers \in [Keys -> Witness \cup {None}] /\ (pc[r] \in Searching => key[r] \in Keys)
      BY <3>0 DEF TypeOK, HeldBy, Searching
    <3>3. \A x \in Keys : pointers'[x] \in {None, pointers[x]}
      BY <3>1, <3>2
    <3> QED BY <1>21, <3>0, <3>2, <3>3
      DEF Invalidate, FreshFor, TypeOK, Return, local, Searching, InHand
  <2> QED BY <2>1 DEF FreshInv
<1>22. ASSUME NEW k \in Keys, Expire(k) PROVE FreshInv'
  <2>1. ASSUME mode' = "fresh", NEW r \in Threads PROVE FreshFor(r)'
    <3>0. mode = "fresh" /\ FreshFor(r) /\ HeldBy(r)
      BY <1>22, <2>1 DEF Expire, FreshInv, Held
    <3> QED BY <1>22, <3>0
      DEF Expire, FreshFor, TypeOK, Goto, Return, local, cache, Searching, InHand
  <2> QED BY <2>1 DEF FreshInv
<1>23. ASSUME NEW d \in DataRefs, Append(d) PROVE FreshInv'
  <2>1. ASSUME mode' = "fresh", NEW r \in Threads PROVE FreshFor(r)'
    <3>0. mode = "fresh" /\ FreshFor(r) /\ HeldBy(r)
      BY <1>23, <2>1 DEF Append, FreshInv, Held
    <3>2. \A e \in DataRefs : gen[e] \in Nat /\ gen'[e] \in Nat /\ gen[e] <= gen'[e]
      BY <1>23, MaxGenType DEF Append, TypeOK, Gens
    <3>3. key[r] \in Keys => DataOf[key[r]] \in DataRefs
      BY DataOfType
    <3>4. floor[r] \in Nat /\ (pc[r] \in Searching => key[r] \in Keys)
      BY <3>0, MaxGenType DEF TypeOK, HeldBy, Searching
    <3> QED BY <1>23, <3>0, <3>2, <3>3, <3>4 DEF Append, FreshFor, local, cache
  <2> QED BY <2>1 DEF FreshInv
<1>24. ASSUME Restart PROVE FreshInv'
  <2>1. ASSUME mode' = "fresh", NEW r \in Threads PROVE FreshFor(r)'
    <3>0. mode = "fresh" /\ FreshFor(r) /\ HeldBy(r)
      BY <1>24, <2>1 DEF Restart, FreshInv, Held
    <3> QED BY <1>24, <3>0
      DEF Restart, FreshFor, TypeOK, Goto, Return, local, cache, Searching, InHand
  <2> QED BY <2>1 DEF FreshInv
<1>99. CASE UNCHANGED vars
  BY <1>99 DEF vars, local, cache, FreshInv, FreshFor
<1> QED
  BY <1>1, <1>2, <1>3, <1>4, <1>5, <1>6, <1>7, <1>8, <1>9, <1>10, <1>11,
     <1>12, <1>13, <1>14, <1>15, <1>16, <1>17, <1>18, <1>19, <1>20, <1>21,
     <1>22, <1>23, <1>24, <1>99
  DEF Next, SearchStep, SnapshotStep

-----------------------------------------------------------------------------

IInv == TypeOK /\ Held /\ Stored /\ FreshInv

LEMMA InitIInv == Init => IInv
<1> SUFFICES ASSUME Init PROVE IInv
  OBVIOUS
<1>1. TypeOK
  <2>1. /\ gen \in [DataRefs -> Gens]
        /\ pointers \in [Keys -> Witness \cup {None}]
        /\ entries \in [Witness -> Entry]
        /\ checked \subseteq Keys
        /\ sidecar \in Witness \cup {None}
        /\ snapshot \in 0..MaxGen
        /\ pc \in [Threads -> {"idle"} \cup Searching \cup Writing \cup Reading]
        /\ key \in [Threads -> Keys \cup {None}]
        /\ wit \in [Threads -> Witness \cup {None}]
        /\ got \in [Threads -> 0..MaxGen]
        /\ floor \in [Threads -> 0..MaxGen]
    BY EmptyEntry, MaxGenType DEF Init, Gens
  <2>2. mode \in {"fresh", "eventual", "frozen"} /\ reinstalled \in BOOLEAN
    BY Zenon DEF Init
  <2> QED BY <2>1, <2>2, Zenon DEF TypeOK
<1>2. Held
  BY DEF Init, Held, HeldBy
<1>3. Stored
  BY EmptyStored DEF Init, Empty
<1>4. FreshInv
  BY DEF Init, FreshInv, FreshFor, Searching
<1> QED BY <1>1, <1>2, <1>3, <1>4 DEF IInv

LEMMA StepIInv == IInv /\ [Next]_vars => IInv'
  BY StepStored, StepHeld, StepFresh DEF IInv

LEMMA Inductive == Spec => []IInv
  BY InitIInv, StepIInv, PTL DEF Spec

\* Every variable of the cache, the directory and the threads keeps its type.
THEOREM TypeCorrect == Spec => []TypeOK
<1>1. IInv => TypeOK
  BY DEF IInv
<1> QED BY <1>1, Inductive, PTL

\* No critical section of the cache leaves an entry without a pointer, or with
\* more references than pointers; evict_lru_if_over finds nothing to evict.
THEOREM Referenced == Spec => []EveryEntryIsReferenced
<1>1. IInv => EveryEntryIsReferenced
  BY DEF IInv, Stored
<1> QED BY <1>1, Inductive, PTL

\* Only the re-installation of the witness a key already has makes a reference
\* count inexact, and so only it can leave a pointer without its entry.
THEOREM Exact == Spec => []ExactUntilReinstall
<1>1. ASSUME IInv, ~reinstalled, NEW k \in Keys, pointers[k] # None
      PROVE  Present(entries, pointers[k])
  <2>1. pointers[k] \in Witness /\ k \in PointersTo(pointers[k])
    BY <1>1 DEF IInv, TypeOK, PointersTo
  <2>2. Cardinality(PointersTo(pointers[k])) # 0
    BY <2>1, PointersFinite, FS_EmptySet
  <2>3. entries[pointers[k]].refcount # 0
    BY <1>1, <2>1, <2>2 DEF IInv, Stored, ExactCounts
  <2> QED BY <1>1, <2>1, <2>3 DEF IInv, Stored, Filed, Present
<1>2. IInv => ExactUntilReinstall
  BY <1>1 DEF IInv, Stored, ExactCounts, ExactUntilReinstall, PointersResolve
<1> QED BY <1>2, Inductive, PTL

\* ensure_fresh files no data under a witness newer than the data.
THEOREM HoldsWhatItNames == Spec => []EntriesHoldWhatTheyName
<1>1. IInv => EntriesHoldWhatTheyName
  BY DEF IInv, Stored
<1> QED BY <1>1, Inductive, PTL

\* How far behind the backend a Fresh search can fall, with any number of
\* threads searching, warming, refreshing and invalidating.
THEOREM Fresh == Spec => []FreshAnswers
<1>1. IInv => FreshAnswers
  BY DEF IInv, FreshInv, FreshFor, FreshAnswers, Searching
<1> QED BY <1>1, Inductive, PTL

=============================================================================
