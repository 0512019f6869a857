-------------------------- MODULE TaskQueue_proofs --------------------------
(***************************************************************************)
(* TaskQueue for any number of processes, tasks, retries and crashes: its  *)
(* type invariant, rows that stay deleted, and the refinement of           *)
(* DurableWork.                                                            *)
(***************************************************************************)
EXTENDS TaskQueue, TLAPS

LEMMA InitTyped == Init => TypeOK
  BY MaxRetriesType, MaxCrashesType DEF Init, TypeOK, Idle, NoTries, ExecState

LEMMA StepTyped == TypeOK /\ [Next]_vars => TypeOK'
<1> SUFFICES ASSUME TypeOK, [Next]_vars PROVE TypeOK'
  OBVIOUS
<1> USE MaxRetriesType, MaxCrashesType DEF TypeOK, ExecState, history
<1>1. ASSUME NEW p \in Procs, StartRecovery(p) PROVE TypeOK'
  <2>1. todo' = [todo EXCEPT ![p] = Rows("pending")] \/ todo' = todo
    BY <1>1, Zenon DEF StartRecovery
  <2>2. todo' \in [Procs -> SUBSET Tasks]
    BY <2>1 DEF Rows
  <2>3. PICK old \in SUBSET Rows("failed") :
            row' = [t \in Tasks |-> IF t \in old THEN "absent" ELSE row[t]]
    BY <1>1, Zenon DEF StartRecovery
  <2>4. row' \in [Tasks -> {"new", "absent", "pending", "failed"}]
    BY <2>3
  <2>5. phase' = [phase EXCEPT ![p] = "recovering"]
    BY <1>1, Zenon DEF StartRecovery
  <2>6. UNCHANGED <<dbMayFail, exec, tries, crashes, durable, done>>
    BY <1>1, Zenon DEF StartRecovery
  <2> QED BY <2>2, <2>4, <2>5, <2>6
<1>2. ASSUME NEW p \in Procs, Serve(p) PROVE TypeOK'
  BY <1>2 DEF Serve
<1>3. ASSUME NEW p \in Procs, NEW t \in Tasks, Replay(p, t) PROVE TypeOK'
  BY <1>3 DEF Replay, SetExec
<1>4. ASSUME NEW p \in Procs, NEW t \in Tasks, AttemptOk(p, t) PROVE TypeOK'
  BY <1>4 DEF AttemptOk, SetExec
<1>5. ASSUME NEW p \in Procs, NEW t \in Tasks, AttemptErr(p, t) PROVE TypeOK'
  <2>1. CASE exec[p][t] = "live" /\ tries[p][t] + 1 < MaxRetries
    <3>1. exec' = exec /\ tries' = [tries EXCEPT ![p][t] = @ + 1]
      BY <1>5, <2>1 DEF AttemptErr
    <3>2. tries[p][t] + 1 \in 0..(MaxRetries - 1)
      BY <2>1
    <3>3. tries' \in [Procs -> [Tasks -> 0..(MaxRetries - 1)]]
      BY <3>1, <3>2
    <3> QED BY <1>5, <3>1, <3>3 DEF AttemptErr
  <2>2. CASE ~(exec[p][t] = "live" /\ tries[p][t] + 1 < MaxRetries)
    <3>1. exec' = [exec EXCEPT ![p][t] = "err"] /\ tries' = [tries EXCEPT ![p][t] = 0]
      BY <1>5, <2>2 DEF AttemptErr, SetExec
    <3>2. exec' \in [Procs -> [Tasks -> ExecState]]
      BY <3>1
    <3>3. tries' \in [Procs -> [Tasks -> 0..(MaxRetries - 1)]]
      BY <3>1
    <3> QED BY <1>5, <3>2, <3>3 DEF AttemptErr
  <2> QED BY <2>1, <2>2
<1>6. ASSUME NEW p \in Procs, NEW t \in Tasks, Record(p, t) PROVE TypeOK'
  BY <1>6 DEF Record, SetExec, RowOutcome
<1>7. ASSUME NEW p \in Procs, Crash(p) PROVE TypeOK'
  BY <1>7 DEF Crash, Idle, NoTries
<1>8. ASSUME NEW p \in Procs, NEW t \in Tasks, Enqueue(p, t) PROVE TypeOK'
  BY <1>8 DEF Enqueue, SetExec
<1>9. CASE UNCHANGED vars
  BY <1>9 DEF vars
<1> QED
  BY <1>1, <1>2, <1>3, <1>4, <1>5, <1>6, <1>7, <1>8, <1>9 DEF Next, Step

\* run_with_retry counts its attempts correctly: tries stays below MAX_RETRIES,
\* and every other variable keeps its type.
THEOREM TypeCorrect == Safety => []TypeOK
  BY InitTyped, StepTyped, PTL DEF Safety

-----------------------------------------------------------------------------

\* What makes the refinement inductive: a task that was never enqueued has no
\* trace anywhere, a row exists only for a committed task, and an execution
\* that is about to delete its row has succeeded.
Traceable ==
    /\ \A t \in Tasks : row[t] = "new" =>
          /\ t \notin durable
          /\ t \notin done
          /\ \A p \in Procs : exec[p][t] = "none" /\ t \notin todo[p]
    /\ \A t \in Tasks : row[t] \in {"pending", "failed"} => t \in durable
    /\ \A p \in Procs : \A t \in Tasks : exec[p][t] = "ok" => t \in done

LEMMA InitTraceable == Init => Traceable
  BY DEF Init, Traceable, Idle

LEMMA StepTraceable == TypeOK /\ Traceable /\ [Next]_vars => Traceable'
<1> SUFFICES ASSUME TypeOK, Traceable, [Next]_vars PROVE Traceable'
  OBVIOUS
<1> USE DEF TypeOK, ExecState, history, Traceable
<1>1. ASSUME NEW p \in Procs, StartRecovery(p) PROVE Traceable'
  <2>1. \A t \in Tasks : /\ row'[t] = "new" => row[t] = "new"
                         /\ row'[t] \in {"pending", "failed"} => row[t] = row'[t]
    BY <1>1 DEF StartRecovery, Rows
  <2>0. todo' = [todo EXCEPT ![p] = Rows("pending")] \/ todo' = todo
    BY <1>1, Zenon DEF StartRecovery
  <2>2. \A q \in Procs : \A t \in todo'[q] : t \in todo[q] \/ row[t] = "pending"
    BY <2>0 DEF Rows
  <2>3. UNCHANGED <<exec, durable, done>>
    BY <1>1 DEF StartRecovery
  <2> QED BY <2>1, <2>2, <2>3
<1>2. ASSUME NEW p \in Procs, Serve(p) PROVE Traceable'
  BY <1>2 DEF Serve
<1>3. ASSUME NEW p \in Procs, NEW t \in Tasks, Replay(p, t) PROVE Traceable'
  BY <1>3 DEF Replay, SetExec
<1>4. ASSUME NEW p \in Procs, NEW t \in Tasks, AttemptOk(p, t) PROVE Traceable'
  BY <1>4 DEF AttemptOk, SetExec
<1>5. ASSUME NEW p \in Procs, NEW t \in Tasks, AttemptErr(p, t) PROVE Traceable'
  <2>1. exec' = exec \/ exec' = [exec EXCEPT ![p][t] = "err"]
    BY <1>5 DEF AttemptErr, SetExec
  <2>2. exec[p][t] # "none" /\ UNCHANGED <<row, todo, durable, done>>
    BY <1>5 DEF AttemptErr
  <2>3. \A q \in Procs : \A u \in Tasks :
           /\ exec[q][u] = "none" => exec'[q][u] = "none"
           /\ exec'[q][u] = "ok" => exec[q][u] = "ok"
    BY <2>1, <2>2
  <2> QED BY <2>2, <2>3
<1>6. ASSUME NEW p \in Procs, NEW t \in Tasks, Record(p, t) PROVE Traceable'
  BY <1>6 DEF Record, SetExec, RowOutcome
<1>7. ASSUME NEW p \in Procs, Crash(p) PROVE Traceable'
  BY <1>7 DEF Crash, Idle
<1>8. ASSUME NEW p \in Procs, NEW t \in Tasks, Enqueue(p, t) PROVE Traceable'
  BY <1>8 DEF Enqueue, SetExec
<1>9. CASE UNCHANGED vars
  BY <1>9 DEF vars
<1> QED
  BY <1>1, <1>2, <1>3, <1>4, <1>5, <1>6, <1>7, <1>8, <1>9 DEF Next, Step

\* Both parts of the inductive invariant, for the theorems below.
LEMMA Inductive == Safety => [](TypeOK /\ Traceable)
<1>1. Init => TypeOK /\ Traceable
  BY InitTyped, InitTraceable
<1>2. TypeOK /\ Traceable /\ [Next]_vars => (TypeOK /\ Traceable)'
  BY StepTyped, StepTraceable
<1> QED BY <1>1, <1>2, PTL DEF Safety

-----------------------------------------------------------------------------

\* mark_failed never brings a deleted row back: a late failure of one
\* execution cannot undo the success of another.
THEOREM DeletedStaysDeleted == Safety => DeletedRowStaysDeleted
<1>1. TypeOK /\ Traceable /\ [Next]_vars
        => [\A t \in Tasks : row[t] = "absent" => row'[t] = "absent"]_vars
  <2> SUFFICES ASSUME TypeOK, Next, NEW t \in Tasks, row[t] = "absent"
               PROVE row'[t] = "absent"
    BY DEF vars
  <2> USE DEF TypeOK, history
  <2>1. ASSUME NEW p \in Procs, StartRecovery(p) PROVE row'[t] = "absent"
    BY <2>1 DEF StartRecovery
  <2>2. ASSUME NEW p \in Procs, NEW u \in Tasks, Record(p, u) PROVE row'[t] = "absent"
    BY <2>2 DEF Record, RowOutcome
  <2>3. ASSUME NEW p \in Procs, NEW u \in Tasks, Enqueue(p, u) PROVE row'[t] = "absent"
    BY <2>3 DEF Enqueue
  <2> QED
    BY <2>1, <2>2, <2>3
    DEF Next, Step, Serve, Replay, AttemptOk, AttemptErr, Crash
<1> QED BY <1>1, Inductive, PTL DEF Safety, DeletedRowStaysDeleted

-----------------------------------------------------------------------------

LEMMA MapInit == Init => Promise!Init
  BY DEF Init, Promise!Init, Duty

\* One step of the queue is at most one step of the promise.
LEMMA MapStep == TypeOK /\ Traceable /\ [Next]_vars => [Promise!Next]_Duty
<1> SUFFICES ASSUME TypeOK, Traceable, [Next]_vars
             PROVE Promise!Next \/ Duty' = Duty
  OBVIOUS
<1> USE DEF TypeOK, history
<1>1. ASSUME NEW p \in Procs, StartRecovery(p) PROVE Promise!Next
  <2>1. PICK old \in SUBSET Rows("failed") :
           row' = [t \in Tasks |-> IF t \in old THEN "absent" ELSE row[t]]
    BY <1>1 DEF StartRecovery
  <2> DEFINE S == old \ done
  <2>2. S \in SUBSET Tasks
    BY DEF Rows
  <2>3. \A t \in S : Duty[t] = "failed"
    BY DEF Rows, Duty, Traceable
  <2>4. Duty' = [t \in Tasks |-> IF t \in S THEN "forgotten" ELSE Duty[t]]
    BY <1>1, <2>1 DEF StartRecovery, Rows, Duty, Traceable
  <2>5. Promise!Forget(S)
    BY <2>2, <2>3, <2>4 DEF Promise!Forget
  <2> QED BY <2>2, <2>5 DEF Promise!Next
<1>2. ASSUME NEW p \in Procs, NEW t \in Tasks, AttemptOk(p, t)
      PROVE Promise!Next \/ Duty' = Duty
  <2>1. CASE t \notin durable \/ t \in done
    BY <1>2, <2>1 DEF AttemptOk, Duty
  <2>2. CASE t \in durable /\ t \notin done
    <3>1. Duty' = [Duty EXCEPT ![t] = "done"]
      BY <1>2, <2>2 DEF AttemptOk, Duty
    <3>2. Duty[t] \in {"owed", "failed", "forgotten"}
      BY <2>2 DEF Duty
    <3> QED BY <3>1, <3>2 DEF Promise!Next, Promise!Succeed
  <2> QED BY <2>1, <2>2
<1>3. ASSUME NEW p \in Procs, NEW t \in Tasks, Record(p, t)
      PROVE Promise!Next \/ Duty' = Duty
  <2>1. CASE UNCHANGED row
    BY <1>3, <2>1 DEF Record, Duty
  <2>2. CASE t \in durable /\ t \notin done /\ row[t] = "pending" /\ ~UNCHANGED row
    <3>1. row' = [row EXCEPT ![t] = "failed"]
      BY <1>3, <2>2 DEF Record, RowOutcome, Traceable
    <3>2. Duty' = [Duty EXCEPT ![t] = "failed"]
      BY <1>3, <2>2, <3>1 DEF Record, Duty
    <3>3. Duty[t] = "owed"
      BY <2>2 DEF Duty
    <3> QED BY <3>2, <3>3 DEF Promise!Next, Promise!GiveUp
  <2>3. CASE t \notin durable \/ t \in done
    BY <1>3, <2>3 DEF Record, Duty
  <2>4. CASE t \in durable /\ t \notin done /\ row[t] # "pending"
    BY <1>3, <2>4 DEF Record, RowOutcome, Duty, Traceable
  <2> QED BY <2>1, <2>2, <2>3, <2>4
<1>4. ASSUME NEW p \in Procs, NEW t \in Tasks, Enqueue(p, t)
      PROVE Promise!Next \/ Duty' = Duty
  <2>1. t \notin durable /\ t \notin done
    BY <1>4 DEF Enqueue, Traceable
  <2>2. CASE durable' = durable
    BY <1>4, <2>1, <2>2 DEF Enqueue, Duty
  <2>3. CASE durable' # durable
    <3>1. Duty' = [Duty EXCEPT ![t] = "owed"]
      BY <1>4, <2>1, <2>3 DEF Enqueue, Duty
    <3>2. Duty[t] = "none"
      BY <2>1 DEF Duty
    <3> QED BY <3>1, <3>2 DEF Promise!Next, Promise!Accept
  <2> QED BY <2>2, <2>3
<1>5. CASE UNCHANGED <<row, durable, done>>
  BY <1>5 DEF Duty
<1> QED
  BY <1>1, <1>2, <1>3, <1>4, <1>5
  DEF Next, Step, Serve, Replay, AttemptErr, Crash, vars

\* The queue implements DurableWork for any number of servers, tasks, retries and
\* crashes, database failures included: a committed task is never lost.
THEOREM QueueImplementsDurableWork == Safety => ImplementsDurableWork
  BY MapInit, MapStep, Inductive, PTL
  DEF Safety, ImplementsDurableWork, Promise!Spec
=============================================================================
