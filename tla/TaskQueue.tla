----------------------------- MODULE TaskQueue -----------------------------
(***************************************************************************)
(* The durable task queue of the MCP server (task_queue.rs): rows of       *)
(* tasks.db, the detached executions of every server process, crashes, and *)
(* the replay of pending rows when a server starts (server_rmcp.rs).       *)
(*                                                                         *)
(* Every SQLite statement is one step; a statement whose error the code    *)
(* ignores may be lost when dbMayFail.  A step of a process may be         *)
(* followed by its exit: executions are detached and die with it.          *)
(* SELECT orders rows by created_at, in whole seconds; the replay takes    *)
(* them in any order here.  Back-off delays and payloads are left out.     *)
(***************************************************************************)
EXTENDS Naturals

CONSTANTS
    Procs,          \* server processes sharing one data root
    Tasks,          \* task ids
    MaxRetries,     \* MAX_RETRIES
    MaxCrashes      \* bound: process exits in one behaviour

ASSUME MaxRetriesType == MaxRetries \in Nat \ {0}
ASSUME MaxCrashesType == MaxCrashes \in Nat

VARIABLES
    dbMayFail,      \* whether statements may fail in this behaviour; never changes
    row,            \* tasks.db: status of each task's row; "new": never enqueued
    phase,          \* of each process
    todo,           \* rows a starting process still has to replay
    exec,           \* execution of each task in each process
    tries,          \* failed attempts of that execution
    crashes,        \* exits so far
    durable,        \* history: tasks whose row was committed
    done            \* history: tasks some execution of which returned Ok

history  == <<durable, done>>
vars == <<dbMayFail, row, phase, todo, exec, tries, crashes, durable, done>>

\* "live": run_with_retry of the enqueuing process; "replay": a call of the
\* recovery executor; "ok", "err": the execution has returned and the database
\* has not been told; "none": no execution here.
ExecState == {"none", "live", "replay", "ok", "err"}

\* The shape of the state; tries stays below MAX_RETRIES.
TypeOK ==
    /\ dbMayFail \in BOOLEAN
    /\ row \in [Tasks -> {"new", "absent", "pending", "failed"}]
    /\ phase \in [Procs -> {"down", "recovering", "serving"}]
    /\ todo \in [Procs -> SUBSET Tasks]
    /\ exec \in [Procs -> [Tasks -> ExecState]]
    /\ tries \in [Procs -> [Tasks -> 0..(MaxRetries - 1)]]
    /\ crashes \in 0..MaxCrashes
    /\ durable \subseteq Tasks
    /\ done \subseteq Tasks

Idle == [t \in Tasks |-> "none"]
NoTries == [t \in Tasks |-> 0]

Init ==
    /\ dbMayFail \in BOOLEAN
    /\ row = [t \in Tasks |-> "new"]
    /\ phase = [p \in Procs |-> "down"]
    /\ todo = [p \in Procs |-> {}]
    /\ exec = [p \in Procs |-> Idle]
    /\ tries = [p \in Procs |-> NoTries]
    /\ crashes = 0
    /\ durable = {}
    /\ done = {}

Rows(s) == {t \in Tasks : row[t] = s}

SetExec(p, t, s) == exec' = [exec EXCEPT ![p][t] = s]

-----------------------------------------------------------------------------

\* Mutant: the replay starts from what this process enqueued, not from the rows.
RecoverNothing(p) ==
    /\ phase[p] = "down"
    /\ phase' = [phase EXCEPT ![p] = "recovering"]
    /\ UNCHANGED <<dbMayFail, row, todo, exec, tries, crashes, history>>

\* serve(): the process starts, prunes failures past the retention time and
\* reads the pending rows.  When the SELECT fails there is nothing to replay.
\* The two statements are one step: between them a failed row can only go.
StartRecovery(p) ==
    /\ phase[p] = "down"
    /\ phase' = [phase EXCEPT ![p] = "recovering"]
    /\ \E old \in SUBSET Rows("failed") :
          row' = [t \in Tasks |-> IF t \in old THEN "absent" ELSE row[t]]
    /\ \/ todo' = [todo EXCEPT ![p] = Rows("pending")]
       \/ dbMayFail /\ UNCHANGED todo
    /\ UNCHANGED <<dbMayFail, exec, tries, crashes, history>>

\* recover_pending executes the rows it read one after the other.
Replay(p, t) ==
    /\ phase[p] = "recovering"
    /\ exec[p] = Idle
    /\ t \in todo[p]
    /\ todo' = [todo EXCEPT ![p] = @ \ {t}]
    /\ SetExec(p, t, "replay")
    /\ UNCHANGED <<dbMayFail, row, phase, tries, crashes, history>>

\* All rows replayed: the server answers tool calls.
Serve(p) ==
    /\ phase[p] = "recovering"
    /\ todo[p] = {}
    /\ exec[p] = Idle
    /\ phase' = [phase EXCEPT ![p] = "serving"]
    /\ UNCHANGED <<dbMayFail, row, todo, exec, tries, crashes, history>>

\* enqueue: insert the row, then spawn the execution; the execution is spawned
\* even when the insert fails.
Enqueue(p, t) ==
    /\ phase[p] = "serving"
    /\ row[t] = "new"
    /\ \/ /\ row' = [row EXCEPT ![t] = "pending"]
          /\ durable' = durable \cup {t}
       \/ /\ dbMayFail
          /\ row' = [row EXCEPT ![t] = "absent"]
          /\ UNCHANGED durable
    /\ SetExec(p, t, "live")
    /\ UNCHANGED <<dbMayFail, phase, todo, tries, crashes, done>>

\* An attempt of the work, live or replayed, returns Ok.
AttemptOk(p, t) ==
    /\ exec[p][t] \in {"live", "replay"}
    /\ SetExec(p, t, "ok")
    /\ tries' = [tries EXCEPT ![p][t] = 0]
    /\ done' = done \cup {t}
    /\ UNCHANGED <<dbMayFail, row, phase, todo, crashes, durable>>

\* Mutant: the last attempt is not recognised.
AttemptErrUnbounded(p, t) ==
    /\ exec[p][t] \in {"live", "replay"}
    /\ tries' = [tries EXCEPT ![p][t] = @ + 1]
    /\ UNCHANGED <<dbMayFail, row, phase, todo, exec, crashes, history>>

\* An attempt returns Err: a live execution sleeps and tries again until its
\* last attempt; a replayed one is given up at once.
AttemptErr(p, t) ==
    /\ exec[p][t] \in {"live", "replay"}
    /\ IF exec[p][t] = "live" /\ tries[p][t] + 1 < MaxRetries
       THEN /\ tries' = [tries EXCEPT ![p][t] = @ + 1]
            /\ UNCHANGED exec
       ELSE /\ tries' = [tries EXCEPT ![p][t] = 0]
            /\ SetExec(p, t, "err")
    /\ UNCHANGED <<dbMayFail, row, phase, todo, crashes, history>>

\* Mutant: the row is deleted whatever the execution returned.
OutcomeAlwaysDeleted(p, t) == "absent"

\* Mutant: mark_failed inserts or replaces the row instead of updating it.
OutcomeUpsert(p, t) == IF exec[p][t] = "ok" THEN "absent" ELSE "failed"

\* mark_completed deletes the row; mark_failed updates it if it is there.
RowOutcome(p, t) ==
    IF exec[p][t] = "ok" \/ row[t] = "absent" THEN "absent" ELSE "failed"

\* The result is written to the database; an error of the statement is dropped.
Record(p, t) ==
    /\ exec[p][t] \in {"ok", "err"}
    /\ SetExec(p, t, "none")
    /\ \/ row' = [row EXCEPT ![t] = RowOutcome(p, t)]
       \/ dbMayFail /\ UNCHANGED row
    /\ UNCHANGED <<dbMayFail, phase, todo, tries, crashes, history>>

\* The process ends, with every execution it had.
Crash(p) ==
    /\ phase[p] # "down"
    /\ crashes < MaxCrashes
    /\ crashes' = crashes + 1
    /\ phase' = [phase EXCEPT ![p] = "down"]
    /\ todo' = [todo EXCEPT ![p] = {}]
    /\ exec' = [exec EXCEPT ![p] = Idle]
    /\ tries' = [tries EXCEPT ![p] = NoTries]
    /\ UNCHANGED <<dbMayFail, row, history>>

Step(p) ==
    \/ StartRecovery(p)
    \/ Serve(p)
    \/ \E t \in Tasks : Replay(p, t) \/ AttemptOk(p, t) \/ AttemptErr(p, t) \/ Record(p, t)

Next == \E p \in Procs : Step(p) \/ Crash(p) \/ \E t \in Tasks : Enqueue(p, t)

Safety == Init /\ [][Next]_vars

\* A process that can take a step of its own does so: tokio runs its tasks, an
\* awaited attempt returns, and a server that ended is started again.  Callers
\* need not enqueue, processes need not crash.
Fairness ==
    \A p \in Procs :
        /\ WF_vars(StartRecovery(p))
        /\ WF_vars(Serve(p))
        /\ \A t \in Tasks :
              /\ WF_vars(Replay(p, t))
              /\ WF_vars(AttemptOk(p, t) \/ AttemptErr(p, t))
              /\ WF_vars(Record(p, t))

Spec == Safety /\ Fairness

-----------------------------------------------------------------------------

\* A row that is gone stays gone: the failure of a replay that comes after the
\* success of the live execution does not bring the task back.
DeletedRowStaysDeleted ==
    [][\A t \in Tasks : row[t] = "absent" => row'[t] = "absent"]_vars

\* With a working database every pending row is eventually deleted or marked
\* failed, across crashes.
PendingRowIsSettled ==
    ~dbMayFail => \A t \in Tasks : row[t] = "pending" ~> row[t] # "pending"

\* The refinement mapping: what the queue owes for each task.
Duty ==
    [t \in Tasks |->
        IF t \notin durable THEN "none"
        ELSE IF t \in done THEN "done"
        ELSE IF row[t] = "pending" THEN "owed"
        ELSE IF row[t] = "failed" THEN "failed" ELSE "forgotten"]

Promise == INSTANCE DurableWork WITH duty <- Duty

\* The queue implements DurableWork: whatever crashes, replays, second servers
\* and lost statements do, a task whose row was committed leaves the database
\* only because an execution of it returned Ok or because it was recorded as
\* failed and pruned.
ImplementsDurableWork == Promise!Spec
=============================================================================
