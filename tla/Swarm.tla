------------------------------- MODULE Swarm -------------------------------
(***************************************************************************)
(* The swarm control plane: the one SwarmState of a data root              *)
(* (swarm.json), its members and its task graph, and the tool handlers     *)
(* that change it (tools/swarm.rs, tools/auto_swarm.rs).                   *)
(*                                                                         *)
(* Every handler here takes the cross-process lock swarm::state_lock,      *)
(* loads the state, changes it and stores it back, so a handler is one     *)
(* step.  A handler that returns an error stores nothing: error paths are  *)
(* the guards.  Read-only handlers (status, health, report, metrics) and   *)
(* message, which writes agents' inboxes, change no variable here.         *)
(*                                                                         *)
(* Abstractions: members and assigned_tasks are Vecs in the code and sets  *)
(* here.  Handlers add nothing twice, and callers of create are taken to   *)
(* name no member or task twice and to leave the state of members at its   *)
(* default.  Order only decides the round-robin of Rebalance, which        *)
(* therefore tries every order.  A heartbeat timestamp is reduced to       *)
(* whether it is within TTL_SECS of now (fresh).  Policy, history and      *)
(* learning files, which finishing a swarm also updates and which only     *)
(* advise create on a topology, are not part of this state.                *)
(***************************************************************************)
EXTENDS TaskGraph, Naturals, FiniteSets

CONSTANTS
    Agents,         \* agent ids
    CreateLoads,    \* assigned_tasks a caller may pass to create
    MaxSwarms       \* bound: swarms created in one behaviour

ASSUME AgentsFinite == IsFiniteSet(Agents)
ASSUME CreateLoadsType == CreateLoads \subseteq [Agents -> SUBSET Tasks]
ASSUME MaxSwarmsType == MaxSwarms \in Nat

VARIABLES
    id,             \* which swarm is stored, 0 before the first create
    status,         \* SwarmState.status
    coordinator,    \* SwarmState.coordinator
    members,        \* SwarmState.members, by agent_id
    mstate,         \* member.state
    assigned,       \* member.assigned_tasks
    fresh,          \* members whose last_heartbeat is within TTL_SECS
    tstate,         \* task_graph: state of each node
    deps            \* task_graph: depends_on of each node

memberVars == <<members, mstate, assigned, fresh>>
graphVars  == <<tstate, deps>>
vars == <<id, status, coordinator, memberVars, graphVars>>

MemberState == {"idle", "active", "assigned", "stale", "left"}

\* One type invariant: the shape of the stored SwarmState.
TypeOK ==
    /\ id \in 0..MaxSwarms
    /\ status \in {"none", "active", "completed", "failed"}
    /\ coordinator \in Agents
    /\ members \subseteq Agents
    /\ mstate \in [Agents -> MemberState \cup {"none"}]
    /\ assigned \in [Agents -> SUBSET Tasks]
    /\ fresh \subseteq Agents
    /\ tstate \in [Tasks -> TaskState \cup {"absent"}]
    /\ deps \in [Tasks -> SUBSET Tasks]

\* No swarm.json yet.
Init ==
    /\ id = 0
    /\ status = "none"
    /\ coordinator \in Agents
    /\ members = {}
    /\ mstate = [a \in Agents |-> "none"]
    /\ assigned = [a \in Agents |-> {}]
    /\ fresh = {}
    /\ tstate = EmptyStates
    /\ deps = EmptyDeps

\* live_member_indices: not left, and heartbeat within the TTL.
LiveMembers == {a \in members : mstate[a] # "left" /\ a \in fresh}

\* load_active_swarm finds the state file; its status is not looked at.
SwarmExists == id > 0

-----------------------------------------------------------------------------

\* The state create and maybe_create store over whatever swarm.json held: the
\* members passed by the caller are idle, a coordinator not among them is
\* added active and without tasks, the task graph is empty.
StoreNewSwarm(c, M, load) ==
    /\ id < MaxSwarms
    /\ id' = id + 1
    /\ status' = "active"
    /\ coordinator' = c
    /\ members' = M \cup {c}
    /\ mstate' = [a \in Agents |-> IF a \in M THEN "idle"
                                   ELSE IF a = c THEN "active" ELSE "none"]
    /\ assigned' = [a \in Agents |-> IF a \in M THEN load[a] ELSE {}]
    /\ tstate' = EmptyStates
    /\ deps' = EmptyDeps

\* swarm.create: no look at the swarm it replaces.  A caller may pass old
\* heartbeats for members; the coordinator it adds gets the current time.
Create(c, M, load) ==
    /\ StoreNewSwarm(c, M, load)
    /\ \E F \in SUBSET M : fresh' = F \cup ({c} \ M)

\* auto_swarm::maybe_create on a complex task: attach to an active swarm
\* (nothing changes), else create one whose only member is the coordinator.
AutoCreate(c) ==
    /\ status # "active"
    /\ StoreNewSwarm(c, {}, [a \in Agents |-> {}])
    /\ fresh' = {c}

\* Mutant: a dependency is only checked for being registered.
AssignAcceptedUnchecked(t, D) == \A d \in D : d = t \/ tstate[d] # "absent"

\* swarm.assign of task t to agent a, depending on D.  The dependencies are
\* checked one by one while they are added; no edge out of t changes which
\* ids lead back to t, so checking all of them first is the same.
AssignAccepted(t, D) ==
    LET st == IF tstate[t] = "absent" THEN add_task(tstate, t) ELSE tstate
    IN  \A d \in D : st[d] # "absent" /\ ~would_create_cycle(deps, t, d)

Assign(a, t, D) ==
    LET st  == IF tstate[t] = "absent" THEN add_task(tstate, t) ELSE tstate
        dp  == add_dependencies(deps, t, D)
        blk == blocked_by(dp, st, t)
    IN
    /\ SwarmExists
    /\ AssignAccepted(t, D)
    /\ deps' = dp
    /\ \/ /\ \E d \in blk : st[d] = "failed"            \* dependency_failed
          /\ tstate' = fail_all(dp, st, {t})
          /\ UNCHANGED <<mstate, assigned>>
       \/ /\ blk # {}                                   \* queued
          /\ \A d \in blk : st[d] # "failed"
          /\ tstate' = set_state(st, {t}, "blocked")
          /\ UNCHANGED <<mstate, assigned>>
       \/ /\ blk = {}                                   \* assigned
          /\ a \in members
          /\ tstate' = set_state(st, {t}, "running")
          /\ assigned' = [assigned EXCEPT ![a] = @ \cup {t}]
          /\ mstate' = [mstate EXCEPT ![a] = "assigned"]
    /\ UNCHANGED <<id, status, coordinator, members, fresh>>

\* swarm.heartbeat with status "completed": every task ever assigned to the
\* member is completed, and the list is kept.
HeartbeatCompleted(a) ==
    /\ SwarmExists
    /\ a \in members
    /\ fresh' = fresh \cup {a}
    /\ mstate' = [mstate EXCEPT ![a] = "idle"]
    /\ tstate' = set_state(tstate, assigned[a], "completed")
    /\ UNCHANGED <<id, status, coordinator, members, assigned, deps>>

\* swarm.heartbeat with status "failed": each of those tasks fails, and the
\* failure spreads to the tasks that wait for it.
HeartbeatFailed(a) ==
    /\ SwarmExists
    /\ a \in members
    /\ fresh' = fresh \cup {a}
    /\ mstate' = [mstate EXCEPT ![a] = "idle"]
    /\ tstate' = fail_all(deps, tstate, assigned[a])
    /\ UNCHANGED <<id, status, coordinator, members, assigned, deps>>

\* swarm.heartbeat with any other status.
HeartbeatAlive(a) ==
    /\ SwarmExists
    /\ a \in members
    /\ fresh' = fresh \cup {a}
    /\ mstate' = [mstate EXCEPT ![a] = IF @ = "idle" THEN "active" ELSE @]
    /\ UNCHANGED <<id, status, coordinator, members, assigned, graphVars>>

\* swarm.join: reactivate a member, tasks kept, or add a new one.
Join(a) ==
    /\ SwarmExists
    /\ members' = members \cup {a}
    /\ mstate' = [mstate EXCEPT ![a] = "active"]
    /\ fresh' = fresh \cup {a}
    /\ UNCHANGED <<id, status, coordinator, assigned, graphVars>>

\* Mutant: a forced leave also empties the list.
LeaveForgettingTasks(a, force) ==
    /\ SwarmExists
    /\ a \in members
    /\ assigned[a] = {} \/ force
    /\ mstate' = [mstate EXCEPT ![a] = "left"]
    /\ assigned' = [assigned EXCEPT ![a] = {}]
    /\ fresh' = fresh \cup {a}
    /\ UNCHANGED <<id, status, coordinator, members, graphVars>>

\* swarm.leave: refused while tasks are assigned, unless forced; a member that
\* is forced out keeps its list, and the heartbeat is set to now.
Leave(a, force) ==
    /\ SwarmExists
    /\ a \in members
    /\ assigned[a] = {} \/ force
    /\ mstate' = [mstate EXCEPT ![a] = "left"]
    /\ fresh' = fresh \cup {a}
    /\ UNCHANGED <<id, status, coordinator, members, assigned, graphVars>>

\* swarm.rebalance: who may receive the tasks of members that are not live.
RebalanceTargets ==
    LET workers == LiveMembers \ {coordinator}
    IN  IF workers = {} THEN LiveMembers ELSE workers

\* (member, task) pairs taken from the members that are not live.
Orphans == {o \in (members \ LiveMembers) \X Tasks : o[2] \in assigned[o[1]]}

\* Mutant: orphans are paired with targets, those left over go to nobody.
RoundRobinsPaired ==
    {g \in [Orphans -> RebalanceTargets \cup {"nobody"}] :
        /\ \A x, y \in Orphans : g[x] = g[y] => x = y \/ g[x] = "nobody"
        /\ (\E x \in Orphans : g[x] = "nobody") =>
               \A a \in RebalanceTargets : \E x \in Orphans : g[x] = a}

\* The round-robin over the targets, for every order of orphans and targets:
\* cursor numbers the orphans, slot the targets.
RoundRobins ==
    LET k == Cardinality(RebalanceTargets)
        n == Cardinality(Orphans)
        cursors == {f \in [Orphans -> 0..(n - 1)] :
                       \A x, y \in Orphans : f[x] = f[y] => x = y}
        slots == {s \in [0..(k - 1) -> RebalanceTargets] :
                       \A i, j \in 0..(k - 1) : s[i] = s[j] => i = j}
    IN  {[o \in Orphans |-> p[2][p[1][o] % k]] : p \in cursors \X slots}

Rebalance ==
    /\ SwarmExists
    /\ LiveMembers # {}
    /\ \E give \in RoundRobins :
          assigned' = [a \in Agents |->
              IF a \in members \ LiveMembers THEN {}
              ELSE assigned[a] \cup {o[2] : o \in {x \in Orphans : give[x] = a}}]
    /\ mstate' = [a \in Agents |->
              IF a \in members \ LiveMembers THEN "stale"
              ELSE IF mstate[a] = "idle" THEN "active" ELSE mstate[a]]
    /\ UNCHANGED <<id, status, coordinator, members, fresh, graphVars>>

\* finalize_swarm: only the status changes, whatever it was and whatever the
\* tasks are.
Finalize(s) ==
    /\ SwarmExists
    /\ status' = s
    /\ UNCHANGED <<id, coordinator, memberVars, graphVars>>

\* swarm.complete and swarm.fail.
Complete == Finalize("completed")
Fail == Finalize("failed")

\* TTL_SECS pass since the last heartbeat of a.
Expire(a) ==
    /\ a \in fresh
    /\ fresh' = fresh \ {a}
    /\ UNCHANGED <<id, status, coordinator, members, mstate, assigned, graphVars>>

Next ==
    \/ \E c \in Agents, M \in SUBSET Agents, load \in CreateLoads : Create(c, M, load)
    \/ \E c \in Agents : AutoCreate(c)
    \/ \E a \in Agents, t \in Tasks, D \in SUBSET Tasks : Assign(a, t, D)
    \/ \E a \in Agents : HeartbeatCompleted(a)
    \/ \E a \in Agents : HeartbeatFailed(a)
    \/ \E a \in Agents : HeartbeatAlive(a)
    \/ \E a \in Agents : Join(a)
    \/ \E a \in Agents, force \in BOOLEAN : Leave(a, force)
    \/ Rebalance
    \/ Complete
    \/ Fail
    \/ \E a \in Agents : Expire(a)

Spec == Init /\ [][Next]_vars

-----------------------------------------------------------------------------

\* would_create_cycle keeps the dependency graph a DAG whatever sequence of
\* assigns adds edges to new and to existing tasks, and every edge ends in a
\* registered task.
DependenciesFormDAG ==
    /\ Acyclic(deps)
    /\ \A t \in Tasks : deps[t] \subseteq Registered(tstate)
    /\ \A t \in Tasks : deps[t] # {} => t \in Registered(tstate)

\* A task that is Running is on the list of some member: reassignment,
\* rebalancing, leaving and failing never drop the last holder of running work.
RunningTaskIsHeld ==
    \A t \in Tasks : tstate[t] = "running" => \E a \in members : t \in assigned[a]

\* propagate_failure reaches every waiting task: a task queued behind a failed
\* dependency never stays queued.
NoTaskWaitsOnFailure ==
    \A t \in Waiting(tstate) : \A d \in deps[t] : tstate[d] # "failed"

\* Tasks held by some member.
Held == UNION {assigned[a] : a \in members}

\* As long as the swarm is not replaced, a task that some member holds stays
\* held by some member: Rebalance moves work, no handler loses it.
AssignedWorkIsConserved == [][id' = id => Held \subseteq Held']_vars
=============================================================================
