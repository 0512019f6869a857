--------------------------- MODULE TaskScheduler ---------------------------
(***************************************************************************)
(* TaskScheduler (runtime.rs): a queue of ready tasks over a TaskGraph,    *)
(* with the workers that take tasks and report on them, and the copy of it *)
(* that save_to_path keeps on disk.  The scheduler is one value behind     *)
(* &mut, so an operation is one step; no tool of this repository drives it *)
(* yet, and callers are taken to report only on tasks they were given, to  *)
(* give a new task its dependencies before anything else, and to reset     *)
(* failed tasks only.                                                      *)
(*                                                                         *)
(* ready_tasks yields a HashMap's order: the tasks that become ready       *)
(* together are queued in any order.                                       *)
(***************************************************************************)
EXTENDS TaskGraph, Naturals, FiniteSets, Sequences, SequencesExt

CONSTANTS
    MaxCrashes,     \* bound: crashes of the process
    MaxResets       \* bound: failed tasks made pending again

ASSUME BoundsAreNat == MaxCrashes \in Nat /\ MaxResets \in Nat

VARIABLES
    state,          \* graph: state of each node
    depends_on,     \* graph: depends_on of each node
    queue,          \* ids
    workers,        \* tasks somebody is working on
    disk,           \* what save_to_path wrote: a copy, or "none" or "torn"
    up,             \* the process runs
    crashes, resets

sched == <<state, depends_on, queue>>
schedulerVars == <<state, depends_on, queue, workers, disk, up, crashes, resets>>

NoCopy == [is |-> "none", state |-> EmptyStates, depends_on |-> EmptyDeps, queue |-> <<>>]

Copies == [is : {"none", "torn", "whole"}, state : [Tasks -> TaskState \cup {"absent"}],
           depends_on : [Tasks -> SUBSET Tasks], queue : Seq(Tasks)]

\* The shape of the state.
SchedulerTypeOK ==
    /\ state \in [Tasks -> TaskState \cup {"absent"}]
    /\ depends_on \in [Tasks -> SUBSET Tasks]
    /\ queue \in Seq(Tasks) /\ Len(queue) <= Cardinality(Tasks)
    /\ workers \in SUBSET Tasks
    /\ disk \in Copies
    /\ up \in BOOLEAN
    /\ crashes \in 0..MaxCrashes /\ resets \in 0..MaxResets

SchedulerInit ==
    /\ state = EmptyStates
    /\ depends_on = EmptyDeps
    /\ queue = <<>>
    /\ workers = {}
    /\ disk = NoCopy
    /\ up = TRUE
    /\ crashes = 0 /\ resets = 0

-----------------------------------------------------------------------------

\* Mutant: only tasks without dependencies.
ready_roots(s, dp) == {t \in Tasks : s[t] = "pending" /\ dp[t] = {}}

\* Mutant: a dependency that has started will do.
ready_started(s, dp) ==
    {t \in Tasks : s[t] = "pending" /\ \A d \in dp[t] : s[d] \in {"running", "completed"}}

ready_tasks(s, dp) == {t \in Tasks : s[t] = "pending" /\ blocked_by(dp, s, t) = {}}

\* Mutant: an id is queued again while it is still in the queue.
refresh_appending(q, s) == {q \o new : new \in SetToSeqs(ready_tasks(s, depends_on))}

\* refresh_queue: the queues it may leave.
refresh_queue(q, s) == {q \o new : new \in SetToSeqs(ready_tasks(s, depends_on) \ ToSet(q))}

\* graph_mut: a new task, with its dependencies.
AddTask(t, D) ==
    /\ up /\ state[t] = "absent"
    /\ D \subseteq Registered(state)
    /\ state' = add_task(state, t)
    /\ depends_on' = add_dependencies(depends_on, t, D)
    /\ UNCHANGED <<queue, workers, disk, up, crashes, resets>>

\* Mutant: the front of the queue is given away as it is.
EligibleAll(q) == DOMAIN q

\* Places of q whose task next_ready may give to the caller: not one that has
\* been failed since it was queued.
Eligible(q) == {i \in DOMAIN q : state[q[i]] = "pending"}

\* next_ready with a task.
Take(i, q) ==
    /\ up
    /\ i \in Eligible(q) /\ \A j \in Eligible(q) : i <= j
    /\ state' = set_state(state, {q[i]}, "running")
    /\ queue' = SubSeq(q, i + 1, Len(q))
    /\ workers' = workers \cup {q[i]}
    /\ UNCHANGED <<depends_on, disk, up, crashes, resets>>

\* next_ready with none: the queue has been emptied.
TakeNone(q) ==
    /\ up /\ queue # <<>>
    /\ Eligible(q) = {}
    /\ queue' = <<>>
    /\ UNCHANGED <<state, depends_on, workers, disk, up, crashes, resets>>

\* queue.retain: the queue without t, one place after the other.
Without(t) ==
    LET kept[i \in 0..Len(queue)] ==
            IF i = 0 THEN <<>>
            ELSE IF queue[i] = t THEN kept[i - 1] ELSE Append(kept[i - 1], queue[i])
    IN  kept[Len(queue)]

\* A worker reports.
mark_completed(t) ==
    /\ up /\ t \in workers
    /\ state' = set_state(state, {t}, "completed")
    /\ queue' \in refresh_queue(Without(t), set_state(state, {t}, "completed"))
    /\ workers' = workers \ {t}
    /\ UNCHANGED <<depends_on, disk, up, crashes, resets>>

\* mark_failed and mark_blocked.
Mark(t, s) ==
    /\ up /\ t \in workers
    /\ state' = set_state(state, {t}, s)
    /\ queue' = Without(t)
    /\ workers' = workers \ {t}
    /\ UNCHANGED <<depends_on, disk, up, crashes, resets>>

\* graph_mut: set_state and propagate_failure on a task that has not started.
\* The queue keeps its id.
Cancel(t) ==
    /\ up /\ state[t] = "pending"
    /\ state' = fail_all(depends_on, state, {t})
    /\ UNCHANGED <<depends_on, queue, workers, disk, up, crashes, resets>>

\* graph_mut: a failed task is to be tried again.
Reset(t) ==
    /\ up /\ state[t] = "failed" /\ resets < MaxResets
    /\ state' = set_state(state, {t}, "pending")
    /\ resets' = resets + 1
    /\ UNCHANGED <<depends_on, queue, workers, disk, up, crashes>>

save_to_path ==
    /\ up
    /\ disk' = [is |-> "whole", state |-> state, depends_on |-> depends_on, queue |-> queue]
    /\ UNCHANGED <<sched, workers, up, crashes, resets>>

\* The process ends, perhaps while the file is being written in place.
Crash(saving) ==
    /\ up /\ crashes < MaxCrashes
    /\ disk' = IF saving THEN [NoCopy EXCEPT !.is = "torn"] ELSE disk
    /\ up' = FALSE
    /\ workers' = {}
    /\ crashes' = crashes + 1
    /\ UNCHANGED <<sched, resets>>

\* Nothing is refreshed or reset on the way in.
load_from_path ==
    /\ ~up /\ disk.is = "whole"
    /\ state' = disk.state /\ depends_on' = disk.depends_on /\ queue' = disk.queue
    /\ up' = TRUE
    /\ UNCHANGED <<workers, disk, crashes, resets>>

next_ready ==
    \E q \in refresh_queue(queue, state) : TakeNone(q) \/ \E i \in DOMAIN q : Take(i, q)

Report(t) == mark_completed(t) \/ \E s \in {"failed", "blocked"} : Mark(t, s)

SchedulerNext ==
    \/ \E t \in Tasks : \/ \E D \in SUBSET Tasks : AddTask(t, D)
                         \/ Report(t) \/ Cancel(t) \/ Reset(t)
    \/ next_ready
    \/ save_to_path
    \/ \E saving \in BOOLEAN : Crash(saving)
    \/ load_from_path

\* Callers go on asking for tasks, and workers report.
SchedulerSpec ==
    /\ SchedulerInit /\ [][SchedulerNext]_schedulerVars
    /\ WF_schedulerVars(next_ready)
    /\ \A t \in Tasks : WF_schedulerVars(Report(t))

-----------------------------------------------------------------------------

\* Whatever has been queued, cancelled, reset, saved and loaded in between, no
\* task has started before everything it depends on was completed.
StartsAfterDependencies ==
    \A t \in Tasks : state[t] \in {"running", "completed"} => blocked_by(depends_on, state, t) = {}

\* A task that was cancelled after it was queued, and one that has ended, is not
\* given to a worker from a queue that still holds its id.
EndedWorkIsNotStarted ==
    [][up => \A t \in Tasks : state[t] \in {"failed", "blocked", "completed"} =>
                                  state'[t] # "running"]_schedulerVars

\* Nobody will report on a task that was running when its copy was saved.
Orphan(t) == state[t] = "running" /\ t \notin workers

\* Every task is completed, or something it depends on (or it itself) failed, is
\* blocked, or was running when a crash took its worker: no ready task is
\* forgotten by a queue that is only refreshed now and then.
WorkEndsOrHasAReason ==
    <>[](up => \A t \in Registered(state) :
                  \/ state[t] = "completed"
                  \/ \E d \in Reachable(depends_on, t) :
                        state[d] \in {"failed", "blocked"} \/ Orphan(d))
=============================================================================
