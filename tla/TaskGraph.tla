----------------------------- MODULE TaskGraph -----------------------------
(***************************************************************************)
(* The task dependency graph of the runtime (TaskGraph in runtime.rs) as   *)
(* pure operators.  A graph is the pair of                                 *)
(*    st   in [Tasks -> TaskState \cup {"absent"}]   the node's state      *)
(*    deps in [Tasks -> SUBSET Tasks]                depends_on            *)
(* "absent" stands for an id with no node.  depends_on is a Vec without    *)
(* duplicates whose order nothing reads, hence a set.                      *)
(*                                                                         *)
(* The two graph walks of the code (the visited-set walk that looks for a  *)
(* cycle and the work list that spreads a failure) are stated by the least *)
(* set they compute; TaskGraphWalks compares them with the loops.          *)
(***************************************************************************)
EXTENDS FiniteSets

CONSTANT Tasks      \* task ids

ASSUME TasksAreFinite == IsFiniteSet(Tasks)

TaskState == {"pending", "running", "blocked", "completed", "failed"}

EmptyStates == [t \in Tasks |-> "absent"]
EmptyDeps   == [t \in Tasks |-> {}]

Registered(st) == {t \in Tasks : st[t] # "absent"}

\* add_task: a node starts Pending, with no dependency.
add_task(st, t) == [st EXCEPT ![t] = "pending"]

\* add_dependency, once for each id of D.
add_dependencies(deps, t, D) == [deps EXCEPT ![t] = @ \cup D]

\* set_state on every id of T; an id with no node is skipped.
set_state(st, T, s) ==
    [t \in Tasks |-> IF t \in T /\ st[t] # "absent" THEN s ELSE st[t]]

-----------------------------------------------------------------------------

\* S contains the dependencies of its members.
DependencyClosed(deps, S) == \A t \in S : deps[t] \subseteq S

\* The ids the walk of would_create_cycle visits when it starts from d.
Reachable(deps, d) ==
    {t \in Tasks : \A S \in SUBSET Tasks :
                       d \in S /\ DependencyClosed(deps, S) => t \in S}

\* Mutant: the walk stops after the direct dependencies of d.
CycleCheckOneHop(deps, t, d) == t = d \/ t \in deps[d]

would_create_cycle(deps, t, d) == t \in Reachable(deps, d)

\* Dependencies of t that are not yet completed.
blocked_by(deps, st, t) == {d \in deps[t] : st[d] # "completed"}

\* Only a task that has not started fails with its dependency.
Waiting(st) == {t \in Tasks : st[t] \in {"pending", "blocked"}}

\* S contains every waiting task that depends on a member of F or of S.
FailureClosed(deps, st, F, S) ==
    \A t \in Waiting(st) : deps[t] \cap (F \cup S) # {} => t \in S

\* Mutant: the tasks that fail are not put on the work list.
CascadeOneLevel(deps, st, F) == {t \in Waiting(st) : deps[t] \cap F # {}}

\* The ids the work list of propagate_failure fails when F has failed.
Cascade(deps, st, F) ==
    {t \in Tasks : \A S \in SUBSET Tasks : FailureClosed(deps, st, F, S) => t \in S}

propagate_failure(deps, st, F) == set_state(st, Cascade(deps, st, F), "failed")

\* "failed" heartbeats: every task of T is failed and its failure spread.  The
\* code does so one task after the other, which gives the same graph.
fail_all(deps, st, T) ==
    propagate_failure(deps, set_state(st, T, "failed"), T)

\* No task reaches itself through depends_on.
Acyclic(deps) == \A t \in Tasks : \A d \in deps[t] : t \notin Reachable(deps, d)
=============================================================================
