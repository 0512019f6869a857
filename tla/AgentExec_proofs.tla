-------------------------- MODULE AgentExec_proofs --------------------------
(***************************************************************************)
(* AgentExec for lists of any length, groups of any size and any number of *)
(* runs and faults: types, what a success stands for, which work may be    *)
(* repeated, and the order of effects.                                     *)
(***************************************************************************)
EXTENDS AgentExec, TLAPS

LEMMA InitTyped == Init => TypeOK
<1> SUFFICES ASSUME Init PROVE TypeOK
  OBVIOUS
<1> USE NumOpsType, BoundsType DEF Init
<1>1. oks \in [Pos -> [Units -> 0..2]]
  <2>1. [u \in Units |-> 0] \in [Units -> 0..2]
    OBVIOUS
  <2> QED
    BY <2>1
<1>2. kind \in [Pos -> Kinds] /\ dir \in {"none", "new", "old"}
  OBVIOUS
<1>3. ckpt \in [Pos -> {"none", "torn", "pending", "failed", "completed"}]
  OBVIOUS
<1>4. /\ pos \in 1..(NumOps + 1) /\ stopped \in 0..NumOps
      /\ runs \in 0..MaxRuns /\ faults \in 0..MaxFaults
  OBVIOUS
<1>5. result \in [Pos -> {"none", "ok", "error"}] /\ todo \in SUBSET Units /\ {excused, outdated} \subseteq SUBSET Pos
  OBVIOUS
<1>6. /\ reported \in {"none", "success", "failure"} /\ resume \in BOOLEAN
      /\ pc \in {"idle", "next", "redo", "run", "ran", "report"}
  OBVIOUS
<1> QED
  BY <1>1, <1>2, <1>3, <1>4, <1>5, <1>6 DEF TypeOK

\* Where a run can be, and what it still owes.
Phases ==
    /\ runs = 0 => pc = "idle" /\ \A i \in Pos : ckpt[i] = "none"
    /\ pc # "idle" => reported = "none"
    /\ pc \in {"redo", "run", "ran"} => pos \in Pos
    /\ pc = "ran" => todo = {}
    /\ pc \in {"run", "ran"} => todo \subseteq UnitsOf(kind[pos]) /\ result[pos] # "none"
    /\ stopped > 0 => /\ pc \in {"report", "idle"}
                      /\ reported # "success"
                      /\ pc = "report" => result[stopped] = "error"

\* execute_op counts at the unit it ran and nowhere else.
LEMMA UnitCounts ==
    ASSUME TypeOK, Phases, NEW u \in Units, NEW ok \in BOOLEAN, RunUnit(u, ok)
    PROVE  /\ oks' \in [Pos -> [Units -> 0..2]]
           /\ \A i \in Pos, v \in Units :
                /\ oks[i][v] > 0 => oks'[i][v] > 0
                /\ ~(i = pos /\ v = u) => oks'[i][v] = oks[i][v]
                /\ oks'[i][v] = 2 => oks[i][v] > 0
           /\ ok => oks'[pos][u] > 0
<1> USE DEF TypeOK, Phases
<1>1. pos \in Pos /\ oks[pos] \in [Units -> 0..2]
  BY DEF RunUnit
<1>2. CASE ok
  <2> DEFINE more == [oks[pos] EXCEPT ![u] = IF @ = 0 THEN 1 ELSE 2]
  <2>1. more \in [Units -> 0..2]
    BY <1>1
  <2>2. /\ more[u] > 0
        /\ \A v \in Units : /\ oks[pos][v] > 0 => more[v] > 0
                            /\ v # u => more[v] = oks[pos][v]
                            /\ more[v] = 2 => v # u \/ oks[pos][v] > 0
    BY <1>1
  <2>3. oks' = [oks EXCEPT ![pos] = more]
    BY <1>2 DEF RunUnit
  <2> HIDE DEF more
  <2>4. oks' \in [Pos -> [Units -> 0..2]] /\ oks'[pos] = more
    BY <1>1, <2>1, <2>3
  <2>5. \A i \in Pos : i # pos => oks'[i] = oks[i]
    BY <1>1, <2>3
  <2>6. \A i \in Pos, v \in Units : oks[i][v] \in 0..2
    OBVIOUS
  <2> QED BY <1>1, <2>2, <2>4, <2>5, <2>6
<1>3. CASE ~ok
  <2>1. oks' = oks
    BY <1>3 DEF RunUnit
  <2> QED BY <1>3, <2>1
<1> QED BY <1>2, <1>3

LEMMA StepTyped == TypeOK /\ Phases /\ [Next]_vars => TypeOK'
<1> SUFFICES ASSUME TypeOK, Phases, [Next]_vars PROVE TypeOK'
  OBVIOUS
<1> USE NumOpsType, BoundsType DEF TypeOK, Phases, journal, local, history
<1>1. ASSUME NEW r \in BOOLEAN, Begin(r) PROVE TypeOK'
  <2>1. oks' \in [Pos -> [Units -> 0..2]]
    BY <1>1 DEF Begin
  <2>2. kind' \in [Pos -> Kinds] /\ ckpt' \in [Pos -> {"none", "torn", "pending", "failed", "completed"}]
    BY <1>1 DEF Begin
  <2>3. dir' \in {"none", "new", "old"} /\ faults' \in 0..MaxFaults /\ runs' \in 0..MaxRuns
    BY <1>1 DEF Begin
  <2>4. pos' \in 1..(NumOps + 1) /\ stopped' \in 0..NumOps
    BY <1>1 DEF Begin, Pos
  <2>5. result' \in [Pos -> {"none", "ok", "error"}]
    BY <1>1 DEF Begin
  <2>6. todo' \in SUBSET Units /\ {excused', outdated'} \subseteq SUBSET Pos
    BY <1>1 DEF Begin, UnitsOf, Units
  <2>7. /\ reported' \in {"none", "success", "failure"} /\ resume' \in BOOLEAN
        /\ pc' \in {"idle", "next", "redo", "run", "ran", "report"}
    BY <1>1 DEF Begin
  <2> QED
    BY <2>1, <2>2, <2>3, <2>4, <2>5, <2>6, <2>7
<1>2. ASSUME Skip PROVE TypeOK'
  <2>1. oks' \in [Pos -> [Units -> 0..2]]
    BY <1>2 DEF Skip
  <2>2. kind' \in [Pos -> Kinds] /\ ckpt' \in [Pos -> {"none", "torn", "pending", "failed", "completed"}]
    BY <1>2 DEF Skip
  <2>3. dir' \in {"none", "new", "old"} /\ faults' \in 0..MaxFaults /\ runs' \in 0..MaxRuns
    BY <1>2 DEF Skip
  <2>4. pos' \in 1..(NumOps + 1) /\ stopped' \in 0..NumOps
    BY <1>2 DEF Skip, Pos
  <2>5. result' \in [Pos -> {"none", "ok", "error"}]
    BY <1>2 DEF Skip
  <2>6. todo' \in SUBSET Units /\ {excused', outdated'} \subseteq SUBSET Pos
    BY <1>2 DEF Skip, UnitsOf, Units
  <2>7. /\ reported' \in {"none", "success", "failure"} /\ resume' \in BOOLEAN
        /\ pc' \in {"idle", "next", "redo", "run", "ran", "report"}
    BY <1>2 DEF Skip
  <2> QED
    BY <2>1, <2>2, <2>3, <2>4, <2>5, <2>6, <2>7
<1>3. ASSUME NEW o \in WriteOutcomes, WritePending(o) PROVE TypeOK'
  <2>1. oks' \in [Pos -> [Units -> 0..2]]
    BY <1>3 DEF WritePending, WriteCheckpoint
  <2>2. kind' \in [Pos -> Kinds] /\ ckpt' \in [Pos -> {"none", "torn", "pending", "failed", "completed"}]
    BY <1>3 DEF WritePending, WriteCheckpoint
  <2>3. dir' \in {"none", "new", "old"} /\ faults' \in 0..MaxFaults /\ runs' \in 0..MaxRuns
    BY <1>3 DEF WritePending, WriteCheckpoint
  <2>4. pos' \in 1..(NumOps + 1) /\ stopped' \in 0..NumOps
    BY <1>3 DEF WritePending, WriteCheckpoint, Pos
  <2>5. result' \in [Pos -> {"none", "ok", "error"}]
    BY <1>3 DEF WritePending, WriteCheckpoint
  <2>6. todo' \in SUBSET Units /\ {excused', outdated'} \subseteq SUBSET Pos
    BY <1>3 DEF WritePending, WriteCheckpoint, UnitsOf, Units
  <2>7. /\ reported' \in {"none", "success", "failure"} /\ resume' \in BOOLEAN
        /\ pc' \in {"idle", "next", "redo", "run", "ran", "report"}
    BY <1>3 DEF WritePending, WriteCheckpoint
  <2> QED
    BY <2>1, <2>2, <2>3, <2>4, <2>5, <2>6, <2>7
<1>4. ASSUME NEW o \in WriteOutcomes, WriteOutcome(o) PROVE TypeOK'
  <2>1. oks' \in [Pos -> [Units -> 0..2]]
    BY <1>4 DEF WriteOutcome, WriteCheckpoint, Status
  <2>2. kind' \in [Pos -> Kinds] /\ ckpt' \in [Pos -> {"none", "torn", "pending", "failed", "completed"}]
    BY <1>4 DEF WriteOutcome, WriteCheckpoint, Status
  <2>3. dir' \in {"none", "new", "old"} /\ faults' \in 0..MaxFaults /\ runs' \in 0..MaxRuns
    BY <1>4 DEF WriteOutcome, WriteCheckpoint, Status
  <2>4. pos' \in 1..(NumOps + 1) /\ stopped' \in 0..NumOps
    BY <1>4 DEF WriteOutcome, WriteCheckpoint, Status, Pos
  <2>5. result' \in [Pos -> {"none", "ok", "error"}]
    BY <1>4 DEF WriteOutcome, WriteCheckpoint, Status
  <2>6. todo' \in SUBSET Units /\ {excused', outdated'} \subseteq SUBSET Pos
    BY <1>4 DEF WriteOutcome, WriteCheckpoint, Status, UnitsOf, Units
  <2>7. /\ reported' \in {"none", "success", "failure"} /\ resume' \in BOOLEAN
        /\ pc' \in {"idle", "next", "redo", "run", "ran", "report"}
    BY <1>4 DEF WriteOutcome, WriteCheckpoint, Status
  <2> QED
    BY <2>1, <2>2, <2>3, <2>4, <2>5, <2>6, <2>7
<1>5. ASSUME NEW u \in Units, NEW ok \in BOOLEAN, RunUnit(u, ok) PROVE TypeOK'
  <2>1. oks' \in [Pos -> [Units -> 0..2]]
    BY <1>5, UnitCounts
  <2>2. kind' \in [Pos -> Kinds] /\ ckpt' \in [Pos -> {"none", "torn", "pending", "failed", "completed"}]
    BY <1>5 DEF RunUnit
  <2>3. dir' \in {"none", "new", "old"} /\ faults' \in 0..MaxFaults /\ runs' \in 0..MaxRuns
    BY <1>5 DEF RunUnit
  <2>4. pos' \in 1..(NumOps + 1) /\ stopped' \in 0..NumOps
    BY <1>5 DEF RunUnit, Pos
  <2>5. result' \in [Pos -> {"none", "ok", "error"}]
    BY <1>5 DEF RunUnit
  <2>6. todo' \in SUBSET Units /\ {excused', outdated'} \subseteq SUBSET Pos
    BY <1>5 DEF RunUnit, UnitsOf, Units
  <2>7. /\ reported' \in {"none", "success", "failure"} /\ resume' \in BOOLEAN
        /\ pc' \in {"idle", "next", "redo", "run", "ran", "report"}
    BY <1>5 DEF RunUnit
  <2> QED
    BY <2>1, <2>2, <2>3, <2>4, <2>5, <2>6, <2>7
<1>6. ASSUME OpEnds PROVE TypeOK'
  BY <1>6 DEF OpEnds
<1>7. ASSUME ListEnds PROVE TypeOK'
  BY <1>7 DEF ListEnds
<1>8. ASSUME Report PROVE TypeOK'
  BY <1>8 DEF Report
<1>9. ASSUME NEW k \in Kinds, Repair(k) PROVE TypeOK'
  <2>1. oks' \in [Pos -> [Units -> 0..2]]
    <3>1. [v \in Units |-> 0] \in [Units -> 0..2]
      OBVIOUS
    <3> QED
      BY <1>9, <3>1 DEF Repair
  <2>2. kind' \in [Pos -> Kinds] /\ ckpt' \in [Pos -> {"none", "torn", "pending", "failed", "completed"}]
    BY <1>9 DEF Repair
  <2>3. dir' \in {"none", "new", "old"} /\ faults' \in 0..MaxFaults /\ runs' \in 0..MaxRuns
    BY <1>9 DEF Repair
  <2>4. pos' \in 1..(NumOps + 1) /\ stopped' \in 0..NumOps
    BY <1>9 DEF Repair, Pos
  <2>5. result' \in [Pos -> {"none", "ok", "error"}]
    BY <1>9 DEF Repair
  <2>6. todo' \in SUBSET Units /\ {excused', outdated'} \subseteq SUBSET Pos
    BY <1>9 DEF Repair, Pos
  <2>7. /\ reported' \in {"none", "success", "failure"} /\ resume' \in BOOLEAN
        /\ pc' \in {"idle", "next", "redo", "run", "ran", "report"}
    BY <1>9 DEF Repair
  <2> QED
    BY <2>1, <2>2, <2>3, <2>4, <2>5, <2>6, <2>7
<1>10. ASSUME Crash PROVE TypeOK'
  <2>1. oks' \in [Pos -> [Units -> 0..2]]
    BY <1>10 DEF Crash
  <2>2. kind' \in [Pos -> Kinds] /\ ckpt' \in [Pos -> {"none", "torn", "pending", "failed", "completed"}]
    BY <1>10 DEF Crash
  <2>3. dir' \in {"none", "new", "old"} /\ faults' \in 0..MaxFaults /\ runs' \in 0..MaxRuns
    BY <1>10 DEF Crash
  <2>4. pos' \in 1..(NumOps + 1) /\ stopped' \in 0..NumOps
    BY <1>10 DEF Crash, Pos
  <2>5. result' \in [Pos -> {"none", "ok", "error"}]
    BY <1>10 DEF Crash
  <2>6. todo' \in SUBSET Units /\ {excused', outdated'} \subseteq SUBSET Pos
    BY <1>10 DEF Crash, UnitsOf, Units
  <2>7. /\ reported' \in {"none", "success", "failure"} /\ resume' \in BOOLEAN
        /\ pc' \in {"idle", "next", "redo", "run", "ran", "report"}
    BY <1>10 DEF Crash
  <2> QED
    BY <2>1, <2>2, <2>3, <2>4, <2>5, <2>6, <2>7
<1>11. ASSUME Age PROVE TypeOK'
  <2>1. oks' \in [Pos -> [Units -> 0..2]]
    BY <1>11 DEF Age
  <2>2. kind' \in [Pos -> Kinds] /\ ckpt' \in [Pos -> {"none", "torn", "pending", "failed", "completed"}]
    BY <1>11 DEF Age
  <2>3. dir' \in {"none", "new", "old"} /\ faults' \in 0..MaxFaults /\ runs' \in 0..MaxRuns
    BY <1>11 DEF Age
  <2>4. pos' \in 1..(NumOps + 1) /\ stopped' \in 0..NumOps
    BY <1>11 DEF Age, Pos
  <2>5. result' \in [Pos -> {"none", "ok", "error"}]
    BY <1>11 DEF Age
  <2>6. todo' \in SUBSET Units /\ {excused', outdated'} \subseteq SUBSET Pos
    BY <1>11 DEF Age, UnitsOf, Units
  <2>7. /\ reported' \in {"none", "success", "failure"} /\ resume' \in BOOLEAN
        /\ pc' \in {"idle", "next", "redo", "run", "ran", "report"}
    BY <1>11 DEF Age
  <2> QED
    BY <2>1, <2>2, <2>3, <2>4, <2>5, <2>6, <2>7
<1>12. ASSUME PurgeByOther PROVE TypeOK'
  <2>1. oks' \in [Pos -> [Units -> 0..2]]
    BY <1>12 DEF PurgeByOther
  <2>2. kind' \in [Pos -> Kinds] /\ ckpt' \in [Pos -> {"none", "torn", "pending", "failed", "completed"}]
    BY <1>12 DEF PurgeByOther
  <2>3. dir' \in {"none", "new", "old"} /\ faults' \in 0..MaxFaults /\ runs' \in 0..MaxRuns
    BY <1>12 DEF PurgeByOther
  <2>4. pos' \in 1..(NumOps + 1) /\ stopped' \in 0..NumOps
    BY <1>12 DEF PurgeByOther, Pos
  <2>5. result' \in [Pos -> {"none", "ok", "error"}]
    BY <1>12 DEF PurgeByOther
  <2>6. todo' \in SUBSET Units /\ {excused', outdated'} \subseteq SUBSET Pos
    BY <1>12 DEF PurgeByOther, UnitsOf, Units
  <2>7. /\ reported' \in {"none", "success", "failure"} /\ resume' \in BOOLEAN
        /\ pc' \in {"idle", "next", "redo", "run", "ran", "report"}
    BY <1>12 DEF PurgeByOther
  <2> QED
    BY <2>1, <2>2, <2>3, <2>4, <2>5, <2>6, <2>7
<1>13. ASSUME Unreadable PROVE TypeOK'
  BY <1>13 DEF Unreadable, MaySkip
<1>14. CASE UNCHANGED vars
  BY <1>14 DEF vars
<1> QED
  BY <1>1, <1>2, <1>3, <1>4, <1>5, <1>6, <1>7, <1>8, <1>9, <1>10, <1>11, <1>12, <1>13, <1>14 DEF Next

LEMMA StepPhases == TypeOK /\ Phases /\ [Next]_vars => Phases'
<1> SUFFICES ASSUME TypeOK, Phases, [Next]_vars PROVE Phases'
  OBVIOUS
<1> USE NumOpsType, BoundsType DEF TypeOK, Phases, Pos, Units, UnitsOf, journal, local, history, Fatal
<1>1. ASSUME NEW r \in BOOLEAN, Begin(r) PROVE Phases'
  BY <1>1 DEF Begin
<1>2. ASSUME Skip PROVE Phases'
  BY <1>2 DEF Skip
<1>3. ASSUME NEW o \in WriteOutcomes, WritePending(o) PROVE Phases'
  BY <1>3 DEF WritePending, WriteCheckpoint
<1>4. ASSUME NEW o \in WriteOutcomes, WriteOutcome(o) PROVE Phases'
  BY <1>4 DEF WriteOutcome, WriteCheckpoint, Status
<1>5. ASSUME NEW u \in Units, NEW ok \in BOOLEAN, RunUnit(u, ok) PROVE Phases'
  BY <1>5 DEF RunUnit
<1>6. ASSUME OpEnds PROVE Phases'
  BY <1>6 DEF OpEnds
<1>7. ASSUME ListEnds PROVE Phases'
  BY <1>7 DEF ListEnds
<1>8. ASSUME Report PROVE Phases'
  BY <1>8 DEF Report
<1>9. ASSUME NEW k \in Kinds, Repair(k) PROVE Phases'
  BY <1>9 DEF Repair
<1>10. ASSUME Crash PROVE Phases'
  BY <1>10 DEF Crash
<1>11. ASSUME Age PROVE Phases'
  BY <1>11 DEF Age
<1>12. ASSUME PurgeByOther PROVE Phases'
  BY <1>12 DEF PurgeByOther
<1>13. ASSUME Unreadable PROVE Phases'
  BY <1>13 DEF Unreadable, MaySkip
<1>14. CASE UNCHANGED vars
  BY <1>14 DEF vars
<1> QED
  BY <1>1, <1>2, <1>3, <1>4, <1>5, <1>6, <1>7, <1>8, <1>9, <1>10, <1>11, <1>12, <1>13, <1>14 DEF Next

-----------------------------------------------------------------------------

\* A checkpoint that says completed is right unless its op was replaced, and one
\* that says so of the op that is running could not be read.  A run that does not
\* resume is the first: nothing is recorded ahead of it.
Recorded ==
    /\ \A i \in Pos : ckpt[i] = "completed" => Done(i) \/ i \in outdated
    /\ pc \in {"redo", "run", "ran"} /\ ckpt[pos] = "completed" => pos \in excused
    /\ pc \in {"next", "run", "ran"} /\ ~resume =>
           \A i \in Pos : i > pos \/ (i = pos /\ pc = "next") => ckpt[i] = "none"
    /\ pc = "redo" => resume

\* The units of the running op that have run have succeeded, unless its result is
\* an error; every op before it was done, or is hidden by an outdated checkpoint,
\* or was a read_file.
Progress ==
    /\ pc \in {"run", "ran"} /\ result[pos] = "ok" =>
           \A u \in UnitsOf(kind[pos]) \ todo : oks[pos][u] > 0
    /\ pc \in {"next", "redo", "run", "ran"} \/ (pc = "report" /\ pos = NumOps + 1) =>
           \A j \in Pos : j < pos =>
               \/ result[j] = "ok" /\ (Done(j) \/ j \in outdated)
               \/ result[j] = "error" /\ kind[j] = "read_file"
    /\ pc = "report" => pos = NumOps + 1 \/ result[pos] = "error"

LEMMA StepRecorded == TypeOK /\ Phases /\ Recorded /\ Progress /\ [Next]_vars => Recorded'
<1> SUFFICES ASSUME TypeOK, Phases, Recorded, Progress, [Next]_vars PROVE Recorded'
  OBVIOUS
<1> USE NumOpsType, BoundsType DEF TypeOK, Phases, Pos, Units, UnitsOf, journal, local, history, Recorded, Progress, Done, MaySkip, Fatal
<1>1. ASSUME NEW r \in BOOLEAN, Begin(r) PROVE Recorded'
  BY <1>1 DEF Begin
<1>2. ASSUME Skip PROVE Recorded'
  BY <1>2 DEF Skip
<1>3. ASSUME NEW o \in WriteOutcomes, WritePending(o) PROVE Recorded'
  BY <1>3 DEF WritePending, WriteCheckpoint
<1>4. ASSUME NEW o \in WriteOutcomes, WriteOutcome(o) PROVE Recorded'
  BY <1>4 DEF WriteOutcome, WriteCheckpoint, Status
<1>5. ASSUME NEW u \in Units, NEW ok \in BOOLEAN, RunUnit(u, ok) PROVE Recorded'
  <2>1. \A i \in Pos : Done(i) => Done(i)'
    BY <1>5, UnitCounts DEF RunUnit
  <2> QED BY <1>5, <2>1 DEF RunUnit
<1>6. ASSUME OpEnds PROVE Recorded'
  BY <1>6 DEF OpEnds
<1>7. ASSUME ListEnds PROVE Recorded'
  BY <1>7 DEF ListEnds
<1>8. ASSUME Report PROVE Recorded'
  BY <1>8 DEF Report
<1>9. ASSUME NEW k \in Kinds, Repair(k) PROVE Recorded'
  BY <1>9 DEF Repair
<1>10. ASSUME Crash PROVE Recorded'
  BY <1>10 DEF Crash
<1>11. ASSUME Age PROVE Recorded'
  BY <1>11 DEF Age
<1>12. ASSUME PurgeByOther PROVE Recorded'
  BY <1>12 DEF PurgeByOther
<1>13. ASSUME Unreadable PROVE Recorded'
  BY <1>13 DEF Unreadable, MaySkip
<1>14. CASE UNCHANGED vars
  BY <1>14 DEF vars
<1> QED
  BY <1>1, <1>2, <1>3, <1>4, <1>5, <1>6, <1>7, <1>8, <1>9, <1>10, <1>11, <1>12, <1>13, <1>14 DEF Next

LEMMA StepProgress == TypeOK /\ Phases /\ Recorded /\ Progress /\ [Next]_vars => Progress'
<1> SUFFICES ASSUME TypeOK, Phases, Recorded, Progress, [Next]_vars PROVE Progress'
  OBVIOUS
<1> USE NumOpsType, BoundsType DEF TypeOK, Phases, Pos, Units, UnitsOf, journal, local, history, Recorded, Progress, Done, MaySkip, Fatal
<1>1. ASSUME NEW r \in BOOLEAN, Begin(r) PROVE Progress'
  BY <1>1 DEF Begin
<1>2. ASSUME Skip PROVE Progress'
  BY <1>2 DEF Skip
<1>3. ASSUME NEW o \in WriteOutcomes, WritePending(o) PROVE Progress'
  BY <1>3 DEF WritePending, WriteCheckpoint
<1>4. ASSUME NEW o \in WriteOutcomes, WriteOutcome(o) PROVE Progress'
  BY <1>4 DEF WriteOutcome, WriteCheckpoint, Status
<1>5. ASSUME NEW u \in Units, NEW ok \in BOOLEAN, RunUnit(u, ok) PROVE Progress'
  BY <1>5 DEF RunUnit
<1>6. ASSUME OpEnds PROVE Progress'
  BY <1>6 DEF OpEnds
<1>7. ASSUME ListEnds PROVE Progress'
  BY <1>7 DEF ListEnds
<1>8. ASSUME Report PROVE Progress'
  BY <1>8 DEF Report
<1>9. ASSUME NEW k \in Kinds, Repair(k) PROVE Progress'
  BY <1>9 DEF Repair
<1>10. ASSUME Crash PROVE Progress'
  BY <1>10 DEF Crash
<1>11. ASSUME Age PROVE Progress'
  BY <1>11 DEF Age
<1>12. ASSUME PurgeByOther PROVE Progress'
  BY <1>12 DEF PurgeByOther
<1>13. ASSUME Unreadable PROVE Progress'
  BY <1>13 DEF Unreadable, MaySkip
<1>14. CASE UNCHANGED vars
  BY <1>14 DEF vars
<1> QED
  BY <1>1, <1>2, <1>3, <1>4, <1>5, <1>6, <1>7, <1>8, <1>9, <1>10, <1>11, <1>12, <1>13, <1>14 DEF Next

-----------------------------------------------------------------------------

\* A success that is not excused is recorded, or is one of the running op's.
Accounted ==
    \A i \in Pos, u \in Units :
        oks[i][u] > 0 /\ i \notin excused =>
            ckpt[i] = "completed" \/ (pc \in {"run", "ran"} /\ i = pos /\ u \notin todo)

Once == Accounted /\ RecordedWorkIsNotRepeated

LEMMA StepOnce == TypeOK /\ Phases /\ Recorded /\ Once /\ [Next]_vars => Once'
<1> SUFFICES ASSUME TypeOK, Phases, Recorded, Once, [Next]_vars PROVE Once'
  OBVIOUS
<1> USE NumOpsType, BoundsType DEF TypeOK, Phases, Pos, Units, UnitsOf, journal, local, history, Recorded, Once, Accounted, RecordedWorkIsNotRepeated, Done, Begun, Purged, MaySkip, Fatal
<1>1. ASSUME NEW r \in BOOLEAN, Begin(r) PROVE Once'
  BY <1>1 DEF Begin
<1>2. ASSUME Skip PROVE Once'
  BY <1>2 DEF Skip
<1>3. ASSUME NEW o \in WriteOutcomes, WritePending(o) PROVE Once'
  BY <1>3 DEF WritePending, WriteCheckpoint
<1>4. ASSUME NEW o \in WriteOutcomes, WriteOutcome(o) PROVE Once'
  BY <1>4 DEF WriteOutcome, WriteCheckpoint, Status
<1>5. ASSUME NEW u \in Units, NEW ok \in BOOLEAN, RunUnit(u, ok) PROVE Once'
  <2>1. \A i \in Pos, v \in Units :
          /\ ~(i = pos /\ v = u) => oks'[i][v] = oks[i][v]
          /\ oks'[i][v] = 2 => oks[i][v] > 0
    <3> HIDE DEF TypeOK, Phases, Recorded, Once
    <3> QED BY <1>5, UnitCounts
  <2>2. Accounted'
    BY <1>5, <2>1 DEF RunUnit
  <2>3. RecordedWorkIsNotRepeated'
    BY <1>5, <2>1 DEF RunUnit
  <2> QED BY <2>2, <2>3
<1>6. ASSUME OpEnds PROVE Once'
  BY <1>6 DEF OpEnds
<1>7. ASSUME ListEnds PROVE Once'
  BY <1>7 DEF ListEnds
<1>8. ASSUME Report PROVE Once'
  BY <1>8 DEF Report
<1>9. ASSUME NEW k \in Kinds, Repair(k) PROVE Once'
  BY <1>9 DEF Repair
<1>10. ASSUME Crash PROVE Once'
  BY <1>10 DEF Crash
<1>11. ASSUME Age PROVE Once'
  BY <1>11 DEF Age
<1>12. ASSUME PurgeByOther PROVE Once'
  BY <1>12 DEF PurgeByOther
<1>13. ASSUME Unreadable PROVE Once'
  BY <1>13 DEF Unreadable, MaySkip
<1>14. CASE UNCHANGED vars
  BY <1>14 DEF vars
<1> QED
  BY <1>1, <1>2, <1>3, <1>4, <1>5, <1>6, <1>7, <1>8, <1>9, <1>10, <1>11, <1>12, <1>13, <1>14 DEF Next

-----------------------------------------------------------------------------

IInv == TypeOK /\ Phases /\ Recorded /\ Progress /\ Once /\ SuccessMeansAllDone

LEMMA StepSuccess == TypeOK /\ Phases /\ Recorded /\ Progress /\ SuccessMeansAllDone /\ [Next]_vars => SuccessMeansAllDone'
<1> SUFFICES ASSUME TypeOK, Phases, Recorded, Progress, SuccessMeansAllDone, [Next]_vars PROVE SuccessMeansAllDone'
  OBVIOUS
<1> USE NumOpsType, BoundsType DEF TypeOK, Phases, Pos, Units, UnitsOf, journal, local, history, Recorded, Progress, Done, MaySkip, Fatal, SuccessMeansAllDone
<1>1. ASSUME NEW r \in BOOLEAN, Begin(r) PROVE SuccessMeansAllDone'
  BY <1>1 DEF Begin
<1>2. ASSUME Skip PROVE SuccessMeansAllDone'
  BY <1>2 DEF Skip
<1>3. ASSUME NEW o \in WriteOutcomes, WritePending(o) PROVE SuccessMeansAllDone'
  BY <1>3 DEF WritePending, WriteCheckpoint
<1>4. ASSUME NEW o \in WriteOutcomes, WriteOutcome(o) PROVE SuccessMeansAllDone'
  BY <1>4 DEF WriteOutcome, WriteCheckpoint, Status
<1>5. ASSUME NEW u \in Units, NEW ok \in BOOLEAN, RunUnit(u, ok) PROVE SuccessMeansAllDone'
  BY <1>5 DEF RunUnit
<1>6. ASSUME OpEnds PROVE SuccessMeansAllDone'
  BY <1>6 DEF OpEnds
<1>7. ASSUME ListEnds PROVE SuccessMeansAllDone'
  BY <1>7 DEF ListEnds
<1>8. ASSUME Report PROVE SuccessMeansAllDone'
  BY <1>8 DEF Report
<1>9. ASSUME NEW k \in Kinds, Repair(k) PROVE SuccessMeansAllDone'
  BY <1>9 DEF Repair
<1>10. ASSUME Crash PROVE SuccessMeansAllDone'
  BY <1>10 DEF Crash
<1>11. ASSUME Age PROVE SuccessMeansAllDone'
  BY <1>11 DEF Age
<1>12. ASSUME PurgeByOther PROVE SuccessMeansAllDone'
  BY <1>12 DEF PurgeByOther
<1>13. ASSUME Unreadable PROVE SuccessMeansAllDone'
  BY <1>13 DEF Unreadable, MaySkip
<1>14. CASE UNCHANGED vars
  BY <1>14 DEF vars
<1> QED
  BY <1>1, <1>2, <1>3, <1>4, <1>5, <1>6, <1>7, <1>8, <1>9, <1>10, <1>11, <1>12, <1>13, <1>14 DEF Next

LEMMA InitInv == Init => IInv
  BY InitTyped, NumOpsType
  DEF Init, IInv, TypeOK, Phases, Recorded, Progress, Once, Accounted, RecordedWorkIsNotRepeated,
      SuccessMeansAllDone, Pos

LEMMA StepInv == IInv /\ [Next]_vars => IInv'
  BY StepTyped, StepPhases, StepRecorded, StepProgress, StepOnce, StepSuccess DEF IInv

LEMMA Invariant == Spec => []IInv
  BY InitInv, StepInv, PTL DEF Spec

\* Every variable keeps its type.
THEOREM TypeCorrect == Spec => []TypeOK
<1>1. IInv => TypeOK
  BY DEF IInv
<1> QED
  BY <1>1, Invariant, PTL

\* A reported success stands for every op of the list, over any number of runs,
\* crashes, lost and torn checkpoints and purges.
THEOREM SuccessIsWhole == Spec => []SuccessMeansAllDone
<1>1. IInv => SuccessMeansAllDone
  BY DEF IInv
<1> QED
  BY <1>1, Invariant, PTL

\* Recorded work is not done again.
THEOREM NoNeedlessRepeat == Spec => []RecordedWorkIsNotRepeated
<1>1. IInv => RecordedWorkIsNotRepeated
  BY DEF IInv, Once
<1> QED
  BY <1>1, Invariant, PTL

\* No op takes effect before the ones it may build on.
THEOREM InOrder == Spec => EffectsFollowOrder
<1>1. IInv => \A u \in Units : RunUnit(u, TRUE) =>
           \A j \in 1..(pos - 1) : kind[j] = "read_file" \/ Done(j) \/ j \in outdated
  BY NumOpsType DEF IInv, TypeOK, Phases, Progress, RunUnit, Pos
<1>2. IInv /\ [Next]_vars =>
        [\A u \in Units : RunUnit(u, TRUE) =>
           \A j \in 1..(pos - 1) : kind[j] = "read_file" \/ Done(j) \/ j \in outdated]_vars
  BY <1>1
<1> QED
  BY <1>2, Invariant, PTL DEF Spec, EffectsFollowOrder
=============================================================================
