------------------------ MODULE ToolRegistry_proofs ------------------------
(***************************************************************************)
(* ToolRegistry for any number of concurrent calls, any limit and any      *)
(* number of tries: types, the overrun of the budget, the charge of every  *)
(* admitted call, and the order of the usage reported.                     *)
(***************************************************************************)
EXTENDS ToolRegistry, FiniteSetTheorems, TLAPS

LEMMA InitTyped == Init => TypeOK
  BY MaxTriesType, MaxCallsType DEF Init, TypeOK, Events, Activities

LEMMA StepTyped == TypeOK /\ [Next]_vars => TypeOK'
<1> SUFFICES ASSUME TypeOK, [Next]_vars PROVE TypeOK'
  OBVIOUS
<1> USE MaxTriesType, MaxCallsType DEF TypeOK, Events, Activities, policyVars, Goto
<1>1. ASSUME NEW c \in Slots, NEW t \in Tools, Call(c, t) PROVE TypeOK'
  BY <1>1 DEF Call
<1>2. ASSUME NEW c \in Slots, Open(c) PROVE TypeOK'
  BY <1>2 DEF Open
<1>3. ASSUME NEW c \in Slots, NEW ok \in BOOLEAN, Put(c, ok) PROVE TypeOK'
  BY <1>3 DEF Put, Published, After
<1>4. ASSUME NEW c \in Slots, Retry(c) PROVE TypeOK'
  BY <1>4 DEF Retry
<1>5. ASSUME NEW c \in Slots, Drop(c) PROVE TypeOK'
  BY <1>5 DEF Drop, Published, After
<1>6. ASSUME NEW c \in Slots, Admit(c) PROVE TypeOK'
  BY <1>6 DEF Admit
<1>7. ASSUME NEW c \in Slots, NEW o \in {"completed", "failed"}, Run(c, o) PROVE TypeOK'
  BY <1>7 DEF Run
<1>8. ASSUME NEW c \in Slots, Charge(c) PROVE TypeOK'
  BY <1>8 DEF Charge
<1>9. ASSUME AnotherOpens PROVE TypeOK'
  BY <1>9 DEF AnotherOpens
<1>10. ASSUME AnotherCloses PROVE TypeOK'
  BY <1>10 DEF AnotherCloses
<1>11. CASE UNCHANGED vars
  BY <1>11 DEF vars
<1> QED
  BY <1>1, <1>2, <1>3, <1>4, <1>5, <1>6, <1>7, <1>8, <1>9, <1>10, <1>11 DEF Next, Step

\* Every variable keeps its type: in particular no event is tried more often
\* than STORE_MAX_TRIES.
THEOREM TypeCorrect == Safety => []TypeOK
  BY InitTyped, StepTyped, PTL DEF Safety

-----------------------------------------------------------------------------

\* The store is held by a call that publishes, and the mutex over an event by
\* the call that reports its charge and by no other.
Holders ==
    /\ \A c \in Slots : store = c => stage[c] \in Events
    /\ \A c \in Slots : stage[c] = "recorded" <=> mutex = c

LEMMA StepHolders == TypeOK /\ Holders /\ [Next]_vars => Holders'
<1> SUFFICES ASSUME TypeOK, Holders, [Next]_vars PROVE Holders'
  OBVIOUS
<1> USE SlotsType DEF TypeOK, Events, Activities, policyVars, Goto, Holders, Nobody, Another
<1>1. ASSUME NEW c \in Slots, NEW t \in Tools, Call(c, t) PROVE Holders'
  BY <1>1 DEF Call
<1>2. ASSUME NEW c \in Slots, Open(c) PROVE Holders'
  BY <1>2 DEF Open
<1>3. ASSUME NEW c \in Slots, NEW ok \in BOOLEAN, Put(c, ok) PROVE Holders'
  BY <1>3 DEF Put, Published, After
<1>4. ASSUME NEW c \in Slots, Retry(c) PROVE Holders'
  BY <1>4 DEF Retry
<1>5. ASSUME NEW c \in Slots, Drop(c) PROVE Holders'
  BY <1>5 DEF Drop, Published, After
<1>6. ASSUME NEW c \in Slots, Admit(c) PROVE Holders'
  BY <1>6 DEF Admit
<1>7. ASSUME NEW c \in Slots, NEW o \in {"completed", "failed"}, Run(c, o) PROVE Holders'
  BY <1>7 DEF Run
<1>8. ASSUME NEW c \in Slots, Charge(c) PROVE Holders'
  BY <1>8 DEF Charge
<1>9. ASSUME AnotherOpens PROVE Holders'
  BY <1>9 DEF AnotherOpens
<1>10. ASSUME AnotherCloses PROVE Holders'
  BY <1>10 DEF AnotherCloses
<1>11. CASE UNCHANGED vars
  BY <1>11 DEF vars
<1> QED
  BY <1>1, <1>2, <1>3, <1>4, <1>5, <1>6, <1>7, <1>8, <1>9, <1>10, <1>11 DEF Next, Step

-----------------------------------------------------------------------------

LEMMA InFlightFinite == /\ IsFiniteSet(InFlight)
                        /\ Cardinality(InFlight) \in Nat
                        /\ Cardinality(InFlight) <= Cardinality(Slots)
  BY SlotsType, FS_Subset, FS_CardinalityType DEF InFlight

\* The calls in flight are counted with the used units on both sides of a
\* charge.
Counted ==
    /\ used + Cardinality(InFlight) <= Limit + Cardinality(Slots) - 1
    /\ used + Cardinality(InFlight) = admitted

LEMMA StepCounted == TypeOK /\ Holders /\ Counted /\ [Next]_vars => Counted'
<1> SUFFICES ASSUME TypeOK, Holders, Counted, [Next]_vars PROVE Counted'
  OBVIOUS
<1> USE DEF TypeOK, Events, Activities, policyVars, Goto, Holders, Counted
<1>1. ASSUME NEW c \in Slots, NEW t \in Tools, Call(c, t) PROVE Counted'
  <2>1. InFlight' = InFlight
    BY <1>1 DEF Call, InFlight
  <2>2. UNCHANGED <<used, admitted>>
    BY <1>1 DEF Call
  <2> QED
    BY <2>1, <2>2
<1>2. ASSUME NEW c \in Slots, Open(c) PROVE Counted'
  <2>1. InFlight' = InFlight
    BY <1>2 DEF Open, InFlight
  <2>2. UNCHANGED <<used, admitted>>
    BY <1>2 DEF Open
  <2> QED
    BY <2>1, <2>2
<1>3. ASSUME NEW c \in Slots, NEW ok \in BOOLEAN, Put(c, ok) PROVE Counted'
  <2>1. InFlight' = InFlight
    BY <1>3 DEF Put, Published, After, InFlight
  <2>2. UNCHANGED <<used, admitted>>
    BY <1>3 DEF Put, Published, After
  <2> QED
    BY <2>1, <2>2
<1>4. ASSUME NEW c \in Slots, Retry(c) PROVE Counted'
  <2>1. InFlight' = InFlight
    BY <1>4 DEF Retry, InFlight
  <2>2. UNCHANGED <<used, admitted>>
    BY <1>4 DEF Retry
  <2> QED
    BY <2>1, <2>2
<1>5. ASSUME NEW c \in Slots, Drop(c) PROVE Counted'
  <2>1. InFlight' = InFlight
    BY <1>5 DEF Drop, Published, After, InFlight
  <2>2. UNCHANGED <<used, admitted>>
    BY <1>5 DEF Drop, Published, After
  <2> QED
    BY <2>1, <2>2
<1>6. ASSUME NEW c \in Slots, Admit(c) PROVE Counted'
  <2>1. CASE can_start_tool
    <3>1. InFlight' = InFlight \cup {c} /\ c \notin InFlight
      BY <1>6, <2>1 DEF Admit, InFlight
    <3>2. Cardinality(InFlight') = Cardinality(InFlight) + 1
      BY <3>1, InFlightFinite, FS_AddElement
    <3>3. Cardinality(InFlight') <= Cardinality(Slots)
      BY SlotsType, FS_Subset DEF InFlight
    <3>4. used' = used /\ admitted' = admitted + 1 /\ used < Limit
      BY <1>6, <2>1 DEF Admit, can_start_tool
    <3> QED
      BY <3>2, <3>3, <3>4, InFlightFinite, LimitType, SlotsType, FS_CardinalityType
  <2>2. CASE ~can_start_tool
    <3>1. InFlight' = InFlight
      BY <1>6, <2>2 DEF Admit, InFlight
    <3>2. UNCHANGED <<used, admitted>>
      BY <1>6, <2>2 DEF Admit
    <3> QED
      BY <3>1, <3>2
  <2> QED
    BY <2>1, <2>2
<1>7. ASSUME NEW c \in Slots, NEW o \in {"completed", "failed"}, Run(c, o) PROVE Counted'
  <2>1. InFlight' = InFlight
    BY <1>7 DEF Run, InFlight
  <2>2. UNCHANGED <<used, admitted>>
    BY <1>7 DEF Run
  <2> QED
    BY <2>1, <2>2
<1>8. ASSUME NEW c \in Slots, Charge(c) PROVE Counted'
  <2>1. InFlight' = InFlight \ {c} /\ c \in InFlight
    BY <1>8 DEF Charge, InFlight
  <2>2. Cardinality(InFlight') = Cardinality(InFlight) - 1
    BY <2>1, InFlightFinite, FS_RemoveElement
  <2>3. used' = used + 1 /\ admitted' = admitted
    BY <1>8 DEF Charge
  <2> QED
    BY <2>2, <2>3, InFlightFinite, LimitType, SlotsType, FS_CardinalityType
<1>9. ASSUME AnotherOpens PROVE Counted'
  <2>1. InFlight' = InFlight
    BY <1>9 DEF AnotherOpens, InFlight
  <2>2. UNCHANGED <<used, admitted>>
    BY <1>9 DEF AnotherOpens
  <2> QED
    BY <2>1, <2>2
<1>10. ASSUME AnotherCloses PROVE Counted'
  <2>1. InFlight' = InFlight
    BY <1>10 DEF AnotherCloses, InFlight
  <2>2. UNCHANGED <<used, admitted>>
    BY <1>10 DEF AnotherCloses
  <2> QED
    BY <2>1, <2>2
<1>11. CASE UNCHANGED vars
  <2>1. InFlight' = InFlight
    BY <1>11 DEF vars, InFlight
  <2>2. UNCHANGED <<used, admitted>>
    BY <1>11 DEF vars
  <2> QED
    BY <2>1, <2>2
<1> QED
  BY <1>1, <1>2, <1>3, <1>4, <1>5, <1>6, <1>7, <1>8, <1>9, <1>10, <1>11 DEF Next, Step

-----------------------------------------------------------------------------

\* What has been reported was used; while a charge is being reported, less was.
LogBehindUsage ==
    /\ \A i \in DOMAIN usageLog : usageLog[i] <= used
    /\ mutex # Nobody => \A i \in DOMAIN usageLog : usageLog[i] < used

LogInv == UsageLogIsOrdered /\ LogBehindUsage

LEMMA ChargedLog ==
  ASSUME NEW log \in Seq(Nat), NEW u \in Nat, \A i \in DOMAIN log : log[i] <= u
  PROVE  \A i \in DOMAIN log : log[i] <= u + 1 /\ log[i] < u + 1
<1>1. \A i \in DOMAIN log : log[i] \in Nat
  OBVIOUS
<1> QED
  BY <1>1

LEMMA AppendedLog ==
  ASSUME NEW log \in Seq(Nat), NEW u \in Nat,
         \A i, j \in DOMAIN log : i < j => log[i] < log[j],
         \A i \in DOMAIN log : log[i] < u
  PROVE  /\ \A i, j \in DOMAIN Append(log, u) : i < j => Append(log, u)[i] < Append(log, u)[j]
         /\ \A i \in DOMAIN Append(log, u) : Append(log, u)[i] <= u
<1> DEFINE new == Append(log, u)
<1>1. DOMAIN log = 1..Len(log) /\ DOMAIN new = 1..(Len(log) + 1) /\ Len(log) \in Nat
  OBVIOUS
<1>2. \A i \in 1..Len(log) : new[i] = log[i] /\ log[i] \in Nat
  OBVIOUS
<1>3. new[Len(log) + 1] = u
  OBVIOUS
<1> HIDE DEF new
<1>4. \A i \in DOMAIN new : new[i] <= u
  BY <1>1, <1>2, <1>3
<1>5. \A i, j \in DOMAIN new : i < j => new[i] < new[j]
  BY <1>1, <1>2, <1>3
<1> QED
  BY <1>4, <1>5 DEF new

LEMMA StepLog == TypeOK /\ Holders /\ LogInv /\ [Next]_vars => LogInv'
<1> SUFFICES ASSUME TypeOK, Holders, LogInv, [Next]_vars PROVE LogInv'
  OBVIOUS
<1> USE SlotsType DEF TypeOK, Events, Activities, policyVars, Goto, Holders, LogInv, UsageLogIsOrdered, LogBehindUsage, Nobody, Another
<1>1. ASSUME NEW c \in Slots, NEW t \in Tools, Call(c, t) PROVE LogInv'
  BY <1>1 DEF Call
<1>2. ASSUME NEW c \in Slots, Open(c) PROVE LogInv'
  BY <1>2 DEF Open
<1>3. ASSUME NEW c \in Slots, NEW ok \in BOOLEAN, Put(c, ok) PROVE LogInv'
  <2>1. CASE ok /\ stage[c] = "recorded"
    <3>1. usageLog' = Append(usageLog, used) /\ used' = used /\ mutex' = Nobody
      BY <1>3, <2>1 DEF Put, Published
    <3>2. \A i \in DOMAIN usageLog : usageLog[i] < used
      BY <2>1
    <3> QED
      BY <3>1, <3>2, AppendedLog
  <2>2. CASE ~(ok /\ stage[c] = "recorded")
    BY <1>3, <2>2 DEF Put, Published
  <2> QED
    BY <2>1, <2>2
<1>4. ASSUME NEW c \in Slots, Retry(c) PROVE LogInv'
  BY <1>4 DEF Retry
<1>5. ASSUME NEW c \in Slots, Drop(c) PROVE LogInv'
  BY <1>5 DEF Drop, Published, After
<1>6. ASSUME NEW c \in Slots, Admit(c) PROVE LogInv'
  BY <1>6 DEF Admit
<1>7. ASSUME NEW c \in Slots, NEW o \in {"completed", "failed"}, Run(c, o) PROVE LogInv'
  BY <1>7 DEF Run
<1>8. ASSUME NEW c \in Slots, Charge(c) PROVE LogInv'
  <2>1. used' = used + 1 /\ usageLog' = usageLog
    BY <1>8 DEF Charge
  <2>2. \A i \in DOMAIN usageLog : usageLog[i] <= used + 1 /\ usageLog[i] < used + 1
    BY ChargedLog
  <2> QED
    BY <2>1, <2>2
<1>9. ASSUME AnotherOpens PROVE LogInv'
  BY <1>9 DEF AnotherOpens
<1>10. ASSUME AnotherCloses PROVE LogInv'
  BY <1>10 DEF AnotherCloses
<1>11. CASE UNCHANGED vars
  BY <1>11 DEF vars
<1> QED
  BY <1>1, <1>2, <1>3, <1>4, <1>5, <1>6, <1>7, <1>8, <1>9, <1>10, <1>11 DEF Next, Step

-----------------------------------------------------------------------------

IInv == TypeOK /\ Holders /\ Counted /\ LogInv

LEMMA InitInv == Init => IInv
<1> SUFFICES ASSUME Init PROVE IInv
  OBVIOUS
<1>1. TypeOK
  BY InitTyped
<1>2. Holders
  BY SlotsType DEF Init, Holders, Nobody, Events
<1>3. Counted
  <2>1. InFlight = {}
    BY DEF Init, InFlight
  <2>2. Cardinality(Slots) \in Nat \ {0}
    BY SlotsType, FS_CardinalityType, FS_EmptySet
  <2>3. Cardinality(InFlight) = 0
    BY <2>1, FS_EmptySet
  <2> QED
    BY <2>2, <2>3, LimitType DEF Init, Counted
<1>4. LogInv
  BY DEF Init, LogInv, UsageLogIsOrdered, LogBehindUsage
<1> QED
  BY <1>1, <1>2, <1>3, <1>4 DEF IInv

LEMMA Invariant == Safety => []IInv
<1>1. IInv /\ [Next]_vars => IInv'
  BY StepTyped, StepHolders, StepCounted, StepLog DEF IInv
<1> QED
  BY InitInv, <1>1, PTL DEF Safety

\* However many calls overlap, the budget is overrun by at most one call less
\* than may be in flight at a time.
THEOREM BudgetOverrun == Safety => []OverrunIsBounded
<1>1. IInv => OverrunIsBounded
  BY InFlightFinite, LimitType, SlotsType, FS_CardinalityType
  DEF IInv, TypeOK, Counted, OverrunIsBounded
<1> QED
  BY <1>1, Invariant, PTL

\* Every admitted call is in flight or charged, exactly once.
THEOREM ChargedOnce == Safety => []AdmittedCallsAreCharged
<1>1. IInv => AdmittedCallsAreCharged
  BY DEF IInv, Counted, AdmittedCallsAreCharged
<1> QED
  BY <1>1, Invariant, PTL

\* The stored usage events report a strictly increasing usage.
THEOREM UsageOrdered == Safety => []UsageLogIsOrdered
<1>1. IInv => UsageLogIsOrdered
  BY DEF IInv, LogInv
<1> QED
  BY <1>1, Invariant, PTL
=============================================================================
