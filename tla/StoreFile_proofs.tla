-------------------------- MODULE StoreFile_proofs --------------------------
(***************************************************************************)
(* The locked read-modify-write cycle of StoreFile is atomic: for any      *)
(* number of processes, updates and files, with temporary names shared or  *)
(* not, and with cycles abandoned at any step.                             *)
(***************************************************************************)
EXTENDS StoreFile, TLAPS

\* Where the holder of the lock stands.  Everything it has prepared is out of
\* the readers' sight, and the value it read is still the current one.
Prepared(p) ==
    /\ pc[p] # "idle" => p \in lock
    /\ pc[p] # "writing" => fd[p] = {}
    /\ pc[p] \in {"loaded", "writing", "written"} => buf[p] = Visible \cup upd[p]
    /\ pc[p] = "writing" =>
          \E i \in Inodes : fd[p] = {i} /\ tmp[tmpOf[p]] = {i} /\ data[i] = {}
    /\ pc[p] = "written" =>
          \E i \in Inodes : tmp[tmpOf[p]] = {i} /\ data[i] = {buf[p]}

\* The inductive invariant.
IInv ==
    /\ TypeOK
    /\ \A p \in Procs : Prepared(p) /\ (pc[p] # "idle" => \E u \in Updates : upd[p] = {u})
    /\ \A n \in TmpNames : file \notin tmp[n]
    /\ \A n \in TmpNames : \E i \in Inodes : tmp[n] \subseteq {i}
    /\ \A m, n \in TmpNames : m # n => tmp[m] \cap tmp[n] = {}
    /\ StoreIsWhole
    /\ AcknowledgedUpdatesSurvive

\* A file that holds one value parses to it.
LEMMA ParseWhole ==
    ASSUME NEW v \in SUBSET Updates
    PROVE  IsWhole({v}) /\ Parse({v}) = v
<1>1. IsWhole({v})
  BY DEF IsWhole
<1>2. UNION {v} = v
  OBVIOUS
<1> QED BY <1>1, <1>2 DEF Parse

\* The empty store.
LEMMA EmptyParses == IsWhole({{}}) /\ Parse({{}}) = {}
  BY ParseWhole

LEMMA InitIInv == Init => IInv
<1> SUFFICES ASSUME Init PROVE IInv
  OBVIOUS
<1>1. Visible = {} /\ StoreIsWhole
  BY EmptyParses DEF Init, Visible, StoreIsWhole
<1>2. TypeOK
  BY TmpNamingsType DEF Init, TypeOK, Bytes
<1> QED BY <1>1, <1>2 DEF Init, IInv, Prepared, AcknowledgedUpdatesSurvive

LEMMA BeginStep ==
    ASSUME Locked, IInv, NEW p \in Procs, NEW u \in Updates, Begin(p, u)
    PROVE  IInv' /\ Visible' = Visible
<1> USE DEF IInv, TypeOK
<1>1. Visible' = Visible /\ StoreIsWhole'
  BY DEF Begin, Visible, StoreIsWhole
<1>2. lock = {} /\ lock' = {p}
  BY DEF Begin
<1>3. \A q \in Procs : pc[q] = "idle"
  BY <1>2 DEF Prepared
<1>4. TypeOK'
  BY <1>2 DEF Begin, Goto
<1>5. \A q \in Procs : Prepared(q)'
  BY <1>2, <1>3 DEF Begin, Goto, Prepared
<1>6. \A q \in Procs : pc'[q] # "idle" => \E v \in Updates : upd'[q] = {v}
  BY <1>3 DEF Begin, Goto
<1> QED BY <1>1, <1>4, <1>5, <1>6 DEF Begin, AcknowledgedUpdatesSurvive

\* While p is inside its cycle no other process is.
LEMMA OthersIdle ==
    ASSUME IInv, NEW p \in Procs, pc[p] # "idle"
    PROVE  /\ p \in lock
           /\ \A q \in Procs \ {p} : pc[q] = "idle" /\ fd[q] = {}
  BY DEF IInv, TypeOK, Prepared

LEMMA LoadStep ==
    ASSUME IInv, NEW p \in Procs, Load(p)
    PROVE  IInv' /\ Visible' = Visible
<1> USE DEF IInv, TypeOK
<1>1. Visible' = Visible /\ StoreIsWhole'
  BY DEF Load, Visible, StoreIsWhole
<1>2. Visible \in SUBSET Updates
  BY DEF Visible, Parse, Bytes
<1>3. TypeOK'
  BY <1>2 DEF Load, Goto
<1>4. \A q \in Procs \ {p} : pc[q] = "idle" /\ fd[q] = {}
  BY OthersIdle DEF Load
<1>5. \A q \in Procs : Prepared(q)'
  BY <1>1, <1>4 DEF Load, Goto, Prepared
<1> QED BY <1>1, <1>3, <1>5 DEF Load, Goto, AcknowledgedUpdatesSurvive

LEMMA OpenStep ==
    ASSUME IInv, NEW p \in Procs, OpenTmp(p)
    PROVE  IInv' /\ Visible' = Visible
<1> USE DEF IInv, TypeOK
<1>1. PICK i \in IF tmp[tmpOf[p]] # {} THEN tmp[tmpOf[p]] ELSE Free :
          /\ tmp' = [tmp EXCEPT ![tmpOf[p]] = {i}]
          /\ fd' = [fd EXCEPT ![p] = {i}]
          /\ data' = [data EXCEPT ![i] = {}]
  BY DEF OpenTmp
<1>2. i \in Inodes /\ i # file
  BY <1>1 DEF Free
<1>3. data'[file'] = data[file] /\ file' = file
  BY <1>1, <1>2 DEF OpenTmp
<1>4. Visible' = Visible /\ StoreIsWhole'
  BY <1>3 DEF Visible, StoreIsWhole
<1>5. TypeOK'
  BY <1>1, <1>2 DEF OpenTmp, Goto, Bytes
<1>6. \A q \in Procs \ {p} : pc[q] = "idle" /\ fd[q] = {}
  BY OthersIdle DEF OpenTmp
<1>7. \A q \in Procs : Prepared(q)'
  <2>1. ASSUME NEW q \in Procs \ {p} PROVE Prepared(q)'
    <3>1. pc'[q] = "idle" /\ fd'[q] = {}
      BY <1>1, <1>6 DEF OpenTmp, Goto
    <3> QED BY <3>1 DEF Prepared
  <2>2. pc'[p] = "writing" /\ fd'[p] = {i} /\ tmp'[tmpOf'[p]] = {i} /\ data'[i] = {}
    BY <1>1, <1>2 DEF OpenTmp, Goto
  <2>3. p \in lock' /\ buf'[p] = Visible' \cup upd'[p]
    BY <1>4 DEF OpenTmp, Prepared
  <2>4. Prepared(p)'
    BY <1>2, <2>2, <2>3 DEF Prepared
  <2> QED BY <2>1, <2>4
<1>8. (\A n \in TmpNames : file \notin tmp[n])'
  BY <1>1, <1>2, <1>3
<1>9. (\A n \in TmpNames : \E j \in Inodes : tmp[n] \subseteq {j})'
  BY <1>1, <1>2
<1>10. (\A m, n \in TmpNames : m # n => tmp[m] \cap tmp[n] = {})'
  <2>1. \A n \in TmpNames \ {tmpOf[p]} : i \notin tmp[n]
    BY <1>1 DEF Free
  <2> QED BY <1>1, <2>1
<1> QED BY <1>4, <1>5, <1>7, <1>8, <1>9, <1>10 DEF OpenTmp, Goto, AcknowledgedUpdatesSurvive

LEMMA WriteStep ==
    ASSUME IInv, NEW p \in Procs, WriteTmp(p)
    PROVE  IInv' /\ Visible' = Visible
<1> USE DEF IInv, TypeOK
<1>1. PICK i \in Inodes : fd[p] = {i} /\ tmp[tmpOf[p]] = {i} /\ data[i] = {}
  BY DEF WriteTmp, Prepared
<1>2. data' = [data EXCEPT ![i] = {buf[p]}]
  BY <1>1 DEF WriteTmp
<1>3. i # file
  BY <1>1
<1>4. Visible' = Visible /\ StoreIsWhole'
  BY <1>2, <1>3 DEF WriteTmp, Visible, StoreIsWhole
<1>5. TypeOK'
  BY <1>2 DEF WriteTmp, Goto, Bytes
<1>6. \A q \in Procs \ {p} : pc[q] = "idle" /\ fd[q] = {}
  BY OthersIdle DEF WriteTmp
<1>7. \A q \in Procs : Prepared(q)'
  <2>1. ASSUME NEW q \in Procs \ {p} PROVE Prepared(q)'
    <3>1. pc'[q] = "idle" /\ fd'[q] = {}
      BY <1>6 DEF WriteTmp, Goto
    <3> QED BY <3>1 DEF Prepared
  <2>2. pc'[p] = "written" /\ fd'[p] = {} /\ tmp'[tmpOf'[p]] = {i} /\ data'[i] = {buf'[p]}
    BY <1>1, <1>2 DEF WriteTmp, Goto
  <2>3. p \in lock' /\ buf'[p] = Visible' \cup upd'[p]
    BY <1>4 DEF WriteTmp, Prepared
  <2>4. Prepared(p)'
    BY <2>2, <2>3 DEF Prepared
  <2> QED BY <2>1, <2>4
<1> QED BY <1>4, <1>5, <1>7 DEF WriteTmp, Goto, AcknowledgedUpdatesSurvive

LEMMA RenameStep ==
    ASSUME IInv, NEW p \in Procs, Rename(p)
    PROVE  IInv' /\ \E u \in Updates : Visible' = Visible \cup {u}
<1> USE DEF IInv, TypeOK
<1>1. PICK i \in Inodes : tmp[tmpOf[p]] = {i} /\ data[i] = {buf[p]}
  BY DEF Rename, Prepared
<1>2. PICK u \in Updates : upd[p] = {u}
  BY DEF Rename
<1>3. file' = i /\ data' = data
  BY <1>1 DEF Rename
<1>4. data'[file'] = {buf[p]}
  BY <1>1, <1>3
<1>5. Visible' = buf[p] /\ StoreIsWhole'
  <2>1. buf[p] \in SUBSET Updates
    OBVIOUS
  <2>2. IsWhole({buf[p]}) /\ Parse({buf[p]}) = buf[p]
    BY <2>1, ParseWhole
  <2>3. Visible' = Parse(data'[file']) /\ (StoreIsWhole' <=> IsWhole(data'[file']))
    BY DEF Visible, StoreIsWhole, Parse, IsWhole
  <2> QED BY <1>4, <2>2, <2>3
<1>6. Visible' = Visible \cup {u}
  BY <1>2, <1>5 DEF Rename, Prepared
<1>7. AcknowledgedUpdatesSurvive'
  BY <1>2, <1>6 DEF Rename, AcknowledgedUpdatesSurvive
<1>8. TypeOK'
  BY <1>2, <1>3 DEF Rename, Leave, Goto
<1>9. \A q \in Procs : pc'[q] = "idle" /\ fd'[q] = {}
  BY OthersIdle DEF Rename, Leave, Goto, Prepared
<1>10. \A q \in Procs : Prepared(q)'
  BY <1>9 DEF Prepared
<1>11. (\A n \in TmpNames : file \notin tmp[n])'
  <2> SUFFICES ASSUME NEW n \in TmpNames PROVE i \notin tmp'[n]
    BY <1>3
  <2>1. CASE n = tmpOf[p]
    BY <2>1 DEF Rename
  <2>2. CASE n # tmpOf[p]
    BY <1>1, <2>2 DEF Rename
  <2> QED BY <2>1, <2>2
<1>12. (\A n \in TmpNames : \E j \in Inodes : tmp[n] \subseteq {j})'
  BY DEF Rename
<1>13. (\A m, n \in TmpNames : m # n => tmp[m] \cap tmp[n] = {})'
  BY DEF Rename
<1> QED BY <1>5, <1>6, <1>7, <1>8, <1>9, <1>10, <1>11, <1>12, <1>13

LEMMA AbandonStep ==
    ASSUME IInv, NEW p \in Procs, Abandon(p)
    PROVE  IInv' /\ Visible' = Visible
<1> USE DEF IInv, TypeOK
<1>1. Visible' = Visible /\ StoreIsWhole'
  BY DEF Abandon, Visible, StoreIsWhole
<1>2. TypeOK'
  BY DEF Abandon, Leave, Goto
<1>3. \A q \in Procs : pc'[q] = "idle" /\ fd'[q] = {}
  BY OthersIdle DEF Abandon, Leave, Goto
<1>4. \A q \in Procs : Prepared(q)'
  BY <1>3 DEF Prepared
<1> QED BY <1>1, <1>2, <1>3, <1>4 DEF Abandon, AcknowledgedUpdatesSurvive

-----------------------------------------------------------------------------

\* Under the lock the invariant is kept, and a step either leaves the visible
\* value alone or applies one update to it.
LEMMA StepIInv ==
    ASSUME Locked
    PROVE  IInv /\ [Next]_vars => IInv' /\ [Atomic!Next]_Visible
<1> SUFFICES ASSUME IInv, [Next]_vars
             PROVE  IInv' /\ (Visible' = Visible \/ \E u \in Updates : Visible' = Visible \cup {u})
  BY DEF Atomic!Next, Atomic!Apply
<1>1. ASSUME NEW p \in Procs, NEW u \in Updates, Begin(p, u)
      PROVE  IInv' /\ Visible' = Visible
  BY <1>1, BeginStep
<1>2. ASSUME NEW p \in Procs, Load(p) PROVE IInv' /\ Visible' = Visible
  BY <1>2, LoadStep
<1>3. ASSUME NEW p \in Procs, OpenTmp(p) PROVE IInv' /\ Visible' = Visible
  BY <1>3, OpenStep
<1>4. ASSUME NEW p \in Procs, WriteTmp(p) PROVE IInv' /\ Visible' = Visible
  BY <1>4, WriteStep
<1>5. ASSUME NEW p \in Procs, Rename(p)
      PROVE  IInv' /\ \E u \in Updates : Visible' = Visible \cup {u}
  BY <1>5, RenameStep
<1>6. ASSUME NEW p \in Procs, Abandon(p) PROVE IInv' /\ Visible' = Visible
  BY <1>6, AbandonStep
<1>7. CASE UNCHANGED vars
  BY <1>7
  DEF vars, IInv, TypeOK, Prepared, Visible, StoreIsWhole, AcknowledgedUpdatesSurvive
<1> QED BY <1>1, <1>2, <1>3, <1>4, <1>5, <1>6, <1>7 DEF Next

LEMMA Inductive == ASSUME Locked PROVE Spec => []IInv
<1>1. IInv /\ [Next]_vars => IInv'
  BY StepIInv
<1> QED BY <1>1, InitIInv, PTL DEF Spec

\* lock_store excludes: types, and at most one holder.
THEOREM LockedTypeCorrect == ASSUME Locked PROVE Spec => []TypeOK
<1>1. IInv => TypeOK
  BY DEF IInv
<1> QED BY <1>1, Inductive, PTL

\* Readers of a locked store, who take no lock, always find one complete value,
\* even with one temporary name for all processes.
THEOREM LockedStoreIsWhole == ASSUME Locked PROVE Spec => []StoreIsWhole
<1>1. IInv => StoreIsWhole
  BY DEF IInv
<1> QED BY <1>1, Inductive, PTL

\* No update of a locked store is overwritten.
THEOREM LockedUpdatesSurvive == ASSUME Locked PROVE Spec => []AcknowledgedUpdatesSurvive
<1>1. IInv => AcknowledgedUpdatesSurvive
  BY DEF IInv
<1> QED BY <1>1, Inductive, PTL

\* The locked cycle is an atomic update, whatever the number of processes and
\* wherever a cycle is abandoned.
THEOREM LockedCycleIsAtomic == ASSUME Locked PROVE Spec => ImplementsAtomicStore
<1>1. Init => Atomic!Init
  BY EmptyParses DEF Init, Atomic!Init, Visible
<1>2. IInv /\ [Next]_vars => [Atomic!Next]_Visible
  BY StepIInv
<1> QED BY <1>1, <1>2, Inductive, PTL DEF Spec, ImplementsAtomicStore, Atomic!Spec
=============================================================================
