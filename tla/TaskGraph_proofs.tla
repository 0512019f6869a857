-------------------------- MODULE TaskGraph_proofs --------------------------
(***************************************************************************)
(* The task graph and the two state machines over it.  First what the      *)
(* graph operators guarantee for every set of tasks: the walks compute     *)
(* closed sets, edges accepted by the cycle check keep the graph acyclic,  *)
(* and a spread failure leaves no task waiting on a failed one.  Then the  *)
(* safety invariants of Swarm, for every set of agents and tasks and any   *)
(* number of swarms, and those of TaskScheduler, for any number of tasks,  *)
(* crashes and resets.                                                     *)
(***************************************************************************)
EXTENDS TaskGraphWalks, TaskScheduler, FiniteSetTheorems, WellFoundedInduction, TLAPS

DepsType == [Tasks -> SUBSET Tasks]
StateType == [Tasks -> TaskState \cup {"absent"}]

(* The ids the cycle walk visits: it contains its start, is closed under     *)
(* depends_on, and is contained in every closed set with the start.          *)
LEMMA ReachableIsLeast ==
    ASSUME NEW E \in DepsType, NEW d \in Tasks
    PROVE  /\ d \in Reachable(E, d)
           /\ Reachable(E, d) \in SUBSET Tasks
           /\ DependencyClosed(E, Reachable(E, d))
           /\ \A S \in SUBSET Tasks :
                 d \in S /\ DependencyClosed(E, S) => Reachable(E, d) \subseteq S
  BY DEF DepsType, Reachable, DependencyClosed

(* Edges from t to ids that do not lead back to t keep the graph acyclic.    *)
LEMMA AcceptedEdgesKeepAcyclic ==
    ASSUME NEW E \in DepsType, Acyclic(E),
           NEW t \in Tasks, NEW D \in SUBSET Tasks,
           \A d \in D : ~would_create_cycle(E, t, d)
    PROVE  Acyclic(add_dependencies(E, t, D))
<1> DEFINE dp == add_dependencies(E, t, D)
<1>1. /\ dp \in DepsType
      /\ dp[t] = E[t] \cup D
      /\ \A u \in Tasks \ {t} : dp[u] = E[u]
  BY DEF add_dependencies, DepsType
<1>2. \A d \in D : t \notin Reachable(E, d)
  BY DEF would_create_cycle
<1>3. SUFFICES ASSUME NEW u \in Tasks, NEW e \in dp[u]
               PROVE  \E S \in SUBSET Tasks : e \in S /\ DependencyClosed(dp, S) /\ u \notin S
  BY <1>1, <1>3 DEF Acyclic, Reachable, DepsType
<1>4. e \in Tasks
  BY <1>1 DEF DepsType
<1> DEFINE R == Reachable(E, e)
<1>5. /\ e \in R /\ R \in SUBSET Tasks /\ DependencyClosed(E, R)
  BY <1>4, ReachableIsLeast
<1>6. CASE t \notin R /\ u \notin R
  <2>1. DependencyClosed(dp, R)
    BY <1>1, <1>5, <1>6 DEF DependencyClosed
  <2>2. QED BY <1>5, <1>6, <2>1
<1>7. CASE e \notin E[u]
  <2>1. u = t /\ e \in D
    BY <1>1, <1>7
  <2>2. QED BY <1>2, <1>6, <2>1
<1>8. CASE e \in E[u] /\ t \in R
  <2> DEFINE U == UNION {Reachable(E, d) : d \in D}
             S == R \cup U
  <2>1. \A d \in D : /\ d \in Reachable(E, d)
                     /\ Reachable(E, d) \in SUBSET Tasks
                     /\ DependencyClosed(E, Reachable(E, d))
    BY ReachableIsLeast
  <2>2. S \in SUBSET Tasks /\ D \subseteq S /\ e \in S
    BY <1>5, <2>1
  <2>3. DependencyClosed(E, S)
    BY <1>5, <2>1 DEF DependencyClosed
  <2>4. DependencyClosed(dp, S)
    BY <1>1, <2>2, <2>3 DEF DependencyClosed
  <2>5. u \notin R
    BY <1>8 DEF Acyclic
  <2>6. ASSUME NEW d \in D, u \in Reachable(E, d) PROVE FALSE
    <3>1. e \in Reachable(E, d)
      BY <1>8, <2>1, <2>6 DEF DependencyClosed
    <3>2. R \subseteq Reachable(E, d)
      BY <1>4, <2>1, <3>1, ReachableIsLeast
    <3>3. QED BY <1>2, <1>8, <3>2
  <2>7. QED BY <2>2, <2>4, <2>5, <2>6
<1>9. CASE e \in E[u] /\ t \notin R
  <2>1. u \notin R
    BY <1>9 DEF Acyclic
  <2>2. QED BY <1>6, <1>9, <2>1
<1>10. QED BY <1>7, <1>8, <1>9

(* The tasks a failure spreads to: waiting tasks only, and closed under      *)
(* "depends on one of them or on the failed ones".                           *)
LEMMA CascadeIsClosed ==
    ASSUME NEW E \in DepsType, NEW s \in StateType, NEW F \in SUBSET Tasks
    PROVE  /\ FailureClosed(E, s, F, Cascade(E, s, F))
           /\ Cascade(E, s, F) \subseteq Waiting(s)
<1>1. FailureClosed(E, s, F, Cascade(E, s, F))
  BY DEF FailureClosed, Cascade, Waiting, DepsType
<1>2. FailureClosed(E, s, F, Waiting(s)) /\ Waiting(s) \in SUBSET Tasks
  BY DEF FailureClosed, Waiting
<1>3. QED BY <1>1, <1>2 DEF Cascade

(* After fail_all, a task that still waits was waiting before and depends on *)
(* no task that the step failed.                                             *)
LEMMA FailAllSpares ==
    ASSUME NEW E \in DepsType, NEW s \in StateType, NEW T \in SUBSET Tasks
    PROVE  /\ fail_all(E, s, T) \in StateType
           /\ Registered(fail_all(E, s, T)) = Registered(s)
           /\ \A t \in T : s[t] # "absent" => fail_all(E, s, T)[t] = "failed"
           /\ \A t \in Tasks : fail_all(E, s, T)[t] \in {s[t], "failed"}
           /\ \A t \in Tasks : t \notin T /\ t \notin Waiting(s) => fail_all(E, s, T)[t] = s[t]
           /\ \A t \in Waiting(fail_all(E, s, T)) :
                 /\ t \in Waiting(s)
                 /\ \A d \in E[t] :
                       fail_all(E, s, T)[d] = "failed" => s[d] = "failed"
<1> DEFINE s1 == set_state(s, T, "failed")
           C  == Cascade(E, s1, T)
           s2 == fail_all(E, s, T)
<1>1. s1 \in StateType /\ \A t \in Tasks : s1[t] = IF t \in T /\ s[t] # "absent" THEN "failed" ELSE s[t]
  BY DEF set_state, StateType, TaskState
<1>2. FailureClosed(E, s1, T, C) /\ C \subseteq Waiting(s1)
  BY <1>1, CascadeIsClosed
<1>3. s2 = set_state(s1, C, "failed")
  BY DEF fail_all, propagate_failure
<1>4. s2 \in StateType /\ \A t \in Tasks : s2[t] = IF t \in C /\ s1[t] # "absent" THEN "failed" ELSE s1[t]
  BY <1>1, <1>3 DEF set_state, StateType, TaskState
<1> HIDE DEF s1, C, s2
<1>5. Registered(s2) = Registered(s)
  BY <1>1, <1>4 DEF Registered
<1>6. /\ \A t \in T : s[t] # "absent" => s2[t] = "failed"
      /\ \A t \in Tasks : s2[t] \in {s[t], "failed"}
  BY <1>1, <1>4
<1>7. ASSUME NEW t \in Waiting(s2)
      PROVE  /\ t \in Waiting(s)
             /\ \A d \in E[t] : s2[d] = "failed" => s[d] = "failed"
  <2>1. t \in Tasks /\ t \in Waiting(s1) /\ t \notin C /\ t \in Waiting(s)
    BY <1>1, <1>4, <1>7 DEF Waiting
  <2>2. E[t] \cap (T \cup C) = {}
    BY <1>2, <2>1 DEF FailureClosed
  <2>3. QED BY <1>1, <1>4, <2>1, <2>2 DEF DepsType
<1>8. \A t \in Tasks : t \notin T /\ t \notin Waiting(s) => s2[t] = s[t]
  BY <1>1, <1>2, <1>4 DEF Waiting
<1>9. QED BY <1>4, <1>5, <1>6, <1>7, <1>8 DEF s2

(* set_state changes the listed registered nodes and nothing else.           *)
LEMMA SetStateFacts ==
    ASSUME NEW s \in StateType, NEW T \in SUBSET Tasks, NEW x \in TaskState
    PROVE  /\ set_state(s, T, x) \in StateType
           /\ Registered(set_state(s, T, x)) = Registered(s)
           /\ \A t \in Tasks : set_state(s, T, x)[t] =
                  IF t \in T /\ s[t] # "absent" THEN x ELSE s[t]
  BY DEF set_state, StateType, Registered, TaskState

-----------------------------------------------------------------------------
(***************************************************************************)
(* The swarm.                                                              *)
(***************************************************************************)

(* The graph after assign has registered t and added D, before the state of  *)
(* t is decided.                                                             *)
WithTask(t) == IF tstate[t] = "absent" THEN add_task(tstate, t) ELSE tstate

(* Registering the task of an assign touches no other node.                  *)
LEMMA WithTaskFacts ==
    ASSUME TypeOK, NEW t \in Tasks
    PROVE  /\ WithTask(t) \in StateType
           /\ WithTask(t)[t] # "absent"
           /\ \A u \in Tasks \ {t} : WithTask(t)[u] = tstate[u]
           /\ tstate[t] # "absent" => WithTask(t)[t] = tstate[t]
           /\ tstate[t] = "absent" => WithTask(t)[t] = "pending"
  BY DEF TypeOK, WithTask, add_task, StateType, TaskState

(* Every distribution of the round-robin gives each orphan to a target.      *)
LEMMA RoundRobinGivesToTargets ==
    ASSUME TypeOK, LiveMembers # {}, NEW give \in RoundRobins
    PROVE  /\ RebalanceTargets \subseteq LiveMembers
           /\ \A o \in Orphans : give[o] \in RebalanceTargets
<1> DEFINE k == Cardinality(RebalanceTargets)
           n == Cardinality(Orphans)
<1>1. RebalanceTargets \subseteq LiveMembers /\ RebalanceTargets # {}
  BY DEF RebalanceTargets
<1>2. LiveMembers \subseteq Agents
  BY DEF TypeOK, LiveMembers
<1>3. k \in Nat \ {0}
  <2>1. IsFiniteSet(RebalanceTargets)
    BY <1>1, <1>2, AgentsFinite, FS_Subset
  <2>2. k \in Nat /\ k # 0
    BY <1>1, <2>1, FS_CardinalityType, FS_EmptySet
  <2>3. QED BY <2>2
<1>4. PICK f \in [Orphans -> 0..(n - 1)], s \in [0..(k - 1) -> RebalanceTargets] :
         give = [o \in Orphans |-> s[f[o] % k]]
  BY DEF RoundRobins
<1>5. ASSUME NEW o \in Orphans PROVE give[o] \in RebalanceTargets
  <2>1. f[o] \in 0..(n - 1) /\ f[o] \in Int
    BY <1>4, <1>5
  <2>2. f[o] % k \in 0..(k - 1)
    BY <1>3, <2>1
  <2>3. QED BY <1>4, <2>2
<1>6. QED BY <1>1, <1>5

-----------------------------------------------------------------------------

(* What an assign stores: one of its three outcomes, over the graph with the *)
(* task registered and its dependencies added.                               *)
AssignOutcome(a, t, D) ==
    /\ deps' = add_dependencies(deps, t, D)
    /\ \A d \in D : WithTask(t)[d] # "absent" /\ ~would_create_cycle(deps, t, d)
    /\ \/ /\ tstate' = fail_all(deps', WithTask(t), {t})
          /\ UNCHANGED <<mstate, assigned>>
       \/ /\ tstate' = set_state(WithTask(t), {t}, "blocked")
          /\ \A d \in deps'[t] : WithTask(t)[d] # "failed"
          /\ UNCHANGED <<mstate, assigned>>
       \/ /\ tstate' = set_state(WithTask(t), {t}, "running")
          /\ a \in members
          /\ assigned' = [assigned EXCEPT ![a] = @ \cup {t}]
          /\ mstate' = [mstate EXCEPT ![a] = "assigned"]
    /\ UNCHANGED <<id, status, coordinator, members, fresh>>

(* The handler's three branches are those outcomes.                          *)
LEMMA AssignHasOutcome ==
    ASSUME NEW a, NEW t, NEW D, Assign(a, t, D)
    PROVE  AssignOutcome(a, t, D)
  BY DEF Assign, AssignAccepted, AssignOutcome, WithTask, blocked_by

(* The dependency edges after an assign, by node.                            *)
LEMMA AddDependenciesFacts ==
    ASSUME NEW dp \in DepsType, NEW t \in Tasks, NEW D \in SUBSET Tasks
    PROVE  /\ add_dependencies(dp, t, D) \in DepsType
           /\ add_dependencies(dp, t, D)[t] = dp[t] \cup D
           /\ \A u \in Tasks \ {t} : add_dependencies(dp, t, D)[u] = dp[u]
  BY DEF add_dependencies, DepsType

(* The stored SwarmState keeps its shape under every handler, whatever the   *)
(* agents, tasks and loads of the callers.                                   *)
THEOREM TypeCorrect == Spec => []TypeOK
<1>1. Init => TypeOK
  BY MaxSwarmsType DEF Init, TypeOK, EmptyStates, EmptyDeps
<1>2. TypeOK /\ [Next]_vars => TypeOK'
  <2> SUFFICES ASSUME TypeOK, [Next]_vars PROVE TypeOK'
    OBVIOUS
  <2> USE DEF TypeOK, MemberState
  <2>1. ASSUME NEW c \in Agents, NEW M \in SUBSET Agents, NEW load \in CreateLoads,
               Create(c, M, load)
        PROVE  TypeOK'
    BY <2>1, CreateLoadsType, MaxSwarmsType
       DEF Create, StoreNewSwarm, EmptyStates, EmptyDeps
  <2>2. ASSUME NEW c \in Agents, AutoCreate(c) PROVE TypeOK'
    BY <2>2, MaxSwarmsType DEF AutoCreate, StoreNewSwarm, EmptyStates, EmptyDeps
  <2>3. ASSUME NEW a \in Agents, NEW t \in Tasks, NEW D \in SUBSET Tasks, Assign(a, t, D)
        PROVE  TypeOK'
    <3>1. deps \in DepsType /\ WithTask(t) \in StateType
      BY WithTaskFacts DEF DepsType
    <3>2. AssignOutcome(a, t, D)
      BY <2>3, AssignHasOutcome
    <3>3. deps' \in DepsType
      BY <3>1, <3>2, AddDependenciesFacts DEF AssignOutcome
    <3>4. /\ fail_all(deps', WithTask(t), {t}) \in StateType
          /\ \A s \in TaskState : set_state(WithTask(t), {t}, s) \in StateType
      <4>1. {t} \in SUBSET Tasks
        OBVIOUS
      <4>2. fail_all(deps', WithTask(t), {t}) \in StateType
        BY <3>1, <3>3, <4>1, FailAllSpares
      <4>3. \A s \in TaskState : set_state(WithTask(t), {t}, s) \in StateType
        BY <3>1, <4>1, SetStateFacts
      <4>4. QED BY <4>2, <4>3
    <3>5. tstate' \in StateType
      BY <3>2, <3>4 DEF AssignOutcome, TaskState
    <3>6. assigned' \in [Agents -> SUBSET Tasks] /\ mstate' \in [Agents -> MemberState \cup {"none"}]
      BY <3>2 DEF AssignOutcome
    <3>7. QED BY <3>2, <3>3, <3>5, <3>6 DEF AssignOutcome, DepsType, StateType
  <2>4. ASSUME NEW a \in Agents, HeartbeatCompleted(a) PROVE TypeOK'
    BY <2>4, SetStateFacts DEF HeartbeatCompleted, StateType, TaskState
  <2>5. ASSUME NEW a \in Agents, HeartbeatFailed(a) PROVE TypeOK'
    BY <2>5, FailAllSpares DEF HeartbeatFailed, StateType, DepsType
  <2>6. ASSUME NEW a \in Agents, HeartbeatAlive(a) PROVE TypeOK'
    BY <2>6 DEF HeartbeatAlive, graphVars
  <2>7. ASSUME NEW a \in Agents, Join(a) PROVE TypeOK'
    BY <2>7 DEF Join, graphVars
  <2>8. ASSUME NEW a \in Agents, NEW force \in BOOLEAN, Leave(a, force) PROVE TypeOK'
    BY <2>8 DEF Leave, graphVars
  <2>9. ASSUME Rebalance PROVE TypeOK'
    <3>1. PICK give \in RoundRobins :
            assigned' = [a \in Agents |->
              IF a \in members \ LiveMembers THEN {}
              ELSE assigned[a] \cup {o[2] : o \in {x \in Orphans : give[x] = a}}]
      BY <2>9 DEF Rebalance
    <3>2. \A o \in Orphans : o[2] \in Tasks
      BY DEF Orphans
    <3>3. assigned' \in [Agents -> SUBSET Tasks]
      BY <3>1, <3>2
    <3>4. mstate' \in [Agents -> MemberState \cup {"none"}]
      BY <2>9 DEF Rebalance
    <3>5. QED BY <2>9, <3>3, <3>4 DEF Rebalance, graphVars
  <2>10. CASE Complete \/ Fail
    BY <2>10 DEF Complete, Fail, Finalize, memberVars, graphVars
  <2>11. ASSUME NEW a \in Agents, Expire(a) PROVE TypeOK'
    BY <2>11 DEF Expire, graphVars
  <2>12. CASE UNCHANGED vars
    BY <2>12 DEF vars, memberVars, graphVars
  <2>13. QED
    BY <2>1, <2>2, <2>3, <2>4, <2>5, <2>6, <2>7, <2>8, <2>9, <2>10, <2>11, <2>12 DEF Next
<1>3. QED BY <1>1, <1>2, PTL DEF Spec

-----------------------------------------------------------------------------

(* The inductive step of the DAG invariant: only create and assign touch     *)
(* the edges, and no handler unregisters a task of the stored swarm.         *)
LEMMA DAGStep ==
    ASSUME TypeOK, DependenciesFormDAG, [Next]_vars
    PROVE  DependenciesFormDAG'
<1>0. deps \in DepsType /\ tstate \in StateType
  BY DEF TypeOK, DepsType, StateType
<1>1. ASSUME NEW c \in Agents, NEW M \in SUBSET Agents, NEW load, StoreNewSwarm(c, M, load)
      PROVE  DependenciesFormDAG'
  BY <1>1 DEF StoreNewSwarm, DependenciesFormDAG, Acyclic, EmptyDeps, EmptyStates
<1>2. ASSUME NEW a \in Agents, NEW t \in Tasks, NEW D \in SUBSET Tasks, Assign(a, t, D)
      PROVE  DependenciesFormDAG'
  <2>1. AssignOutcome(a, t, D)
    BY <1>2, AssignHasOutcome
  <2>2. /\ WithTask(t) \in StateType /\ t \in Registered(WithTask(t))
        /\ \A u \in Tasks \ {t} : WithTask(t)[u] = tstate[u]
    BY WithTaskFacts DEF Registered
  <2>3. /\ deps' \in DepsType /\ deps'[t] = deps[t] \cup D
        /\ \A u \in Tasks \ {t} : deps'[u] = deps[u]
    BY <1>0, <2>1, AddDependenciesFacts DEF AssignOutcome
  <2>4. Acyclic(deps')
    BY <1>0, <2>1, AcceptedEdgesKeepAcyclic DEF AssignOutcome, DependenciesFormDAG
  <2>5. Registered(tstate') = Registered(WithTask(t))
    <3>1. {t} \in SUBSET Tasks
      OBVIOUS
    <3>2. Registered(fail_all(deps', WithTask(t), {t})) = Registered(WithTask(t))
      BY <2>2, <2>3, <3>1, FailAllSpares
    <3>3. \A s \in TaskState : Registered(set_state(WithTask(t), {t}, s)) = Registered(WithTask(t))
      BY <2>2, <3>1, SetStateFacts
    <3>4. QED BY <2>1, <3>2, <3>3 DEF AssignOutcome, TaskState
  <2>6. Registered(tstate) \subseteq Registered(WithTask(t))
    BY <2>2 DEF Registered
  <2>7. D \subseteq Registered(WithTask(t))
    BY <2>1 DEF AssignOutcome, Registered
  <2>8. QED BY <2>2, <2>3, <2>4, <2>5, <2>6, <2>7 DEF DependenciesFormDAG
<1>3. ASSUME NEW a \in Agents, HeartbeatCompleted(a) PROVE DependenciesFormDAG'
  <2>1. deps' = deps /\ tstate' = set_state(tstate, assigned[a], "completed")
    BY <1>3 DEF HeartbeatCompleted
  <2>2. assigned[a] \in SUBSET Tasks /\ "completed" \in TaskState
    BY DEF TypeOK, TaskState
  <2>3. Registered(tstate') = Registered(tstate)
    BY <1>0, <2>1, <2>2, SetStateFacts
  <2>4. QED BY <2>1, <2>3 DEF DependenciesFormDAG
<1>4. ASSUME NEW a \in Agents, HeartbeatFailed(a) PROVE DependenciesFormDAG'
  <2>1. deps' = deps /\ tstate' = fail_all(deps, tstate, assigned[a])
    BY <1>4 DEF HeartbeatFailed
  <2>2. assigned[a] \in SUBSET Tasks
    BY DEF TypeOK
  <2>3. Registered(tstate') = Registered(tstate)
    BY <1>0, <2>1, <2>2, FailAllSpares
  <2>4. QED BY <2>1, <2>3 DEF DependenciesFormDAG
<1>5. CASE UNCHANGED graphVars
  BY <1>5 DEF graphVars, DependenciesFormDAG
<1>6. QED
  BY <1>1, <1>2, <1>3, <1>4, <1>5
     DEF Next, Create, AutoCreate, HeartbeatAlive, Join, Leave, Rebalance, Complete, Fail,
         Finalize, Expire, vars

(* The dependency graph is a DAG over registered tasks in every reachable    *)
(* state, for any number of tasks and agents.                                *)
THEOREM DependenciesStayDAG == Spec => []DependenciesFormDAG
<1>1. Init => DependenciesFormDAG
  BY DEF Init, DependenciesFormDAG, Acyclic, EmptyDeps
<1>2. TypeOK /\ DependenciesFormDAG /\ [Next]_vars => DependenciesFormDAG'
  BY DAGStep
<1>3. QED BY <1>1, <1>2, TypeCorrect, PTL DEF Spec

(* Rebalance moves work between members: what one held, some member holds.   *)
LEMMA RebalanceKeepsWork ==
    ASSUME TypeOK, Rebalance, NEW a \in members, NEW t \in assigned[a]
    PROVE  \E b \in members : t \in assigned'[b]
<1>1. PICK give \in RoundRobins :
        assigned' = [b \in Agents |->
          IF b \in members \ LiveMembers THEN {}
          ELSE assigned[b] \cup {o[2] : o \in {x \in Orphans : give[x] = b}}]
  BY DEF Rebalance
<1>2. LiveMembers # {} /\ LiveMembers \subseteq members /\ members \subseteq Agents
  BY DEF Rebalance, LiveMembers, TypeOK
<1>3. \A o \in Orphans : give[o] \in LiveMembers
  BY <1>2, RoundRobinGivesToTargets
<1>4. CASE a \in LiveMembers
  BY <1>1, <1>2, <1>4
<1>5. CASE a \notin LiveMembers
  <2>1. <<a, t>> \in Orphans
    BY <1>2, <1>5 DEF Orphans, TypeOK
  <2>2. give[<<a, t>>] \in LiveMembers
    BY <1>3, <2>1
  <2>3. t \in {o[2] : o \in {x \in Orphans : give[x] = give[<<a, t>>]}}
    BY <2>1
  <2>4. t \in assigned'[give[<<a, t>>]]
    BY <1>1, <1>2, <2>2, <2>3
  <2>5. QED BY <1>2, <2>2, <2>4
<1>6. QED BY <1>4, <1>5

(* A handler that leaves the graph and every list alone keeps running work   *)
(* held, provided it drops no member.                                        *)
LEMMA HeldUnchanged ==
    ASSUME RunningTaskIsHeld, members \subseteq members', UNCHANGED <<assigned, tstate>>
    PROVE  RunningTaskIsHeld'
  BY DEF RunningTaskIsHeld

(* The inductive step of RunningTaskIsHeld: assign is the only way to start  *)
(* a task and puts it on a list; rebalance hands every orphan to a member.   *)
LEMMA HeldStep ==
    ASSUME TypeOK, RunningTaskIsHeld, [Next]_vars
    PROVE  RunningTaskIsHeld'
<1>0. deps \in DepsType /\ tstate \in StateType
  BY DEF TypeOK, DepsType, StateType
<1>1. ASSUME NEW c \in Agents, NEW M \in SUBSET Agents, NEW load, StoreNewSwarm(c, M, load)
      PROVE  RunningTaskIsHeld'
  BY <1>1 DEF StoreNewSwarm, RunningTaskIsHeld, EmptyStates
<1>2. ASSUME NEW a \in Agents, NEW t \in Tasks, NEW D \in SUBSET Tasks, Assign(a, t, D)
      PROVE  RunningTaskIsHeld'
  <2>1. AssignOutcome(a, t, D)
    BY <1>2, AssignHasOutcome
  <2>2. /\ WithTask(t) \in StateType /\ WithTask(t)[t] # "absent"
        /\ \A u \in Tasks \ {t} : WithTask(t)[u] = tstate[u]
    BY WithTaskFacts
  <2>3. deps' \in DepsType /\ {t} \in SUBSET Tasks
    BY <1>0, <2>1, AddDependenciesFacts DEF AssignOutcome
  <2>4. members' = members
    BY <2>1 DEF AssignOutcome
  <2>5. CASE tstate' = fail_all(deps', WithTask(t), {t}) /\ UNCHANGED assigned
    <3>1. \A u \in Tasks : tstate'[u] = "running" => u # t /\ tstate[u] = "running"
      BY <2>2, <2>3, <2>5, FailAllSpares
    <3>2. QED BY <2>4, <2>5, <3>1 DEF RunningTaskIsHeld
  <2>6. CASE tstate' = set_state(WithTask(t), {t}, "blocked") /\ UNCHANGED assigned
    <3>1. "blocked" \in TaskState
      BY DEF TaskState
    <3>2. \A u \in Tasks : tstate'[u] = "running" => u # t /\ tstate[u] = "running"
      BY <2>2, <2>3, <2>6, <3>1, SetStateFacts
    <3>3. QED BY <2>4, <2>6, <3>2 DEF RunningTaskIsHeld
  <2>7. CASE /\ tstate' = set_state(WithTask(t), {t}, "running")
             /\ a \in members
             /\ assigned' = [assigned EXCEPT ![a] = @ \cup {t}]
    <3>1. "running" \in TaskState
      BY DEF TaskState
    <3>2. \A u \in Tasks : tstate'[u] = "running" => u = t \/ tstate[u] = "running"
      BY <2>2, <2>3, <2>7, <3>1, SetStateFacts
    <3>3. t \in assigned'[a] /\ \A b \in Agents : assigned[b] \subseteq assigned'[b]
      BY <2>7 DEF TypeOK
    <3>4. members \subseteq Agents
      BY DEF TypeOK
    <3>5. QED BY <2>4, <2>7, <3>2, <3>3, <3>4 DEF RunningTaskIsHeld
  <2>8. QED BY <2>1, <2>5, <2>6, <2>7 DEF AssignOutcome
<1>3. ASSUME NEW a \in Agents, HeartbeatCompleted(a) PROVE RunningTaskIsHeld'
  <2>1. assigned[a] \in SUBSET Tasks /\ "completed" \in TaskState
    BY DEF TypeOK, TaskState
  <2>2. \A u \in Tasks : tstate'[u] = "running" => tstate[u] = "running"
    BY <1>0, <1>3, <2>1, SetStateFacts DEF HeartbeatCompleted
  <2>3. QED BY <1>3, <2>2 DEF HeartbeatCompleted, RunningTaskIsHeld
<1>4. ASSUME NEW a \in Agents, HeartbeatFailed(a) PROVE RunningTaskIsHeld'
  <2>1. assigned[a] \in SUBSET Tasks
    BY DEF TypeOK
  <2>2. \A u \in Tasks : tstate'[u] = "running" => tstate[u] = "running"
    BY <1>0, <1>4, <2>1, FailAllSpares DEF HeartbeatFailed
  <2>3. QED BY <1>4, <2>2 DEF HeartbeatFailed, RunningTaskIsHeld
<1>5. ASSUME Rebalance PROVE RunningTaskIsHeld'
  <2>1. members' = members /\ tstate' = tstate
    BY <1>5 DEF Rebalance, graphVars
  <2>2. QED BY <1>5, <2>1, RebalanceKeepsWork DEF RunningTaskIsHeld
<1>6. CASE members \subseteq members' /\ UNCHANGED <<assigned, tstate>>
  BY <1>6, HeldUnchanged
<1>7. QED
  BY <1>1, <1>2, <1>3, <1>4, <1>5, <1>6
     DEF Next, Create, AutoCreate, HeartbeatAlive, Join, Leave, Complete, Fail, Finalize, Expire,
         vars, memberVars, graphVars

(* No handler drops the last holder of a running task.                       *)
THEOREM RunningWorkStaysHeld == Spec => []RunningTaskIsHeld
<1>1. Init => RunningTaskIsHeld
  BY DEF Init, RunningTaskIsHeld, EmptyStates
<1>2. TypeOK /\ RunningTaskIsHeld /\ [Next]_vars => RunningTaskIsHeld'
  BY HeldStep
<1>3. QED BY <1>1, <1>2, TypeCorrect, PTL DEF Spec

-----------------------------------------------------------------------------

(* The inductive step of NoTaskWaitsOnFailure.  A task may fail by a         *)
(* heartbeat, by an assign, or by the spread of either; the cascade is       *)
(* closed, so whoever still waits depends on nothing that failed in the step.*)
LEMMA WaitStep ==
    ASSUME TypeOK, NoTaskWaitsOnFailure, [Next]_vars
    PROVE  NoTaskWaitsOnFailure'
<1>0. deps \in DepsType /\ tstate \in StateType
  BY DEF TypeOK, DepsType, StateType
<1>1. ASSUME NEW c \in Agents, NEW M \in SUBSET Agents, NEW load, StoreNewSwarm(c, M, load)
      PROVE  NoTaskWaitsOnFailure'
  BY <1>1 DEF StoreNewSwarm, NoTaskWaitsOnFailure, EmptyStates, Waiting
<1>2. ASSUME NEW a \in Agents, NEW t \in Tasks, NEW D \in SUBSET Tasks, Assign(a, t, D)
      PROVE  NoTaskWaitsOnFailure'
  <2>1. AssignOutcome(a, t, D)
    BY <1>2, AssignHasOutcome
  <2>2. /\ WithTask(t) \in StateType /\ WithTask(t)[t] # "absent"
        /\ \A u \in Tasks \ {t} : WithTask(t)[u] = tstate[u]
        /\ WithTask(t)[t] = "failed" => tstate[t] = "failed"
    BY WithTaskFacts
  <2>3. /\ deps' \in DepsType /\ {t} \in SUBSET Tasks
        /\ \A u \in Tasks \ {t} : deps'[u] = deps[u]
    BY <1>0, <2>1, AddDependenciesFacts DEF AssignOutcome
  <2>4. CASE tstate' = fail_all(deps', WithTask(t), {t})
    <3>1. ASSUME NEW u \in Waiting(tstate'), NEW d \in deps'[u], tstate'[d] = "failed"
          PROVE  FALSE
      <4>1. u # t /\ u \in Tasks
        BY <2>2, <2>3, <2>4, FailAllSpares DEF Waiting
      <4>2. u \in Waiting(WithTask(t)) /\ WithTask(t)[d] = "failed"
        BY <2>2, <2>3, <2>4, <3>1, FailAllSpares
      <4>3. u \in Waiting(tstate) /\ d \in deps[u] /\ d \in Tasks
        BY <1>0, <2>2, <2>3, <4>1, <4>2 DEF Waiting, DepsType
      <4>4. tstate[d] = "failed"
        BY <2>2, <4>2, <4>3
      <4>5. QED BY <4>3, <4>4 DEF NoTaskWaitsOnFailure
    <3>2. QED BY <3>1 DEF NoTaskWaitsOnFailure
  <2>5. ASSUME NEW s \in {"blocked", "running"}, tstate' = set_state(WithTask(t), {t}, s),
               s = "blocked" => \A d \in deps'[t] : WithTask(t)[d] # "failed"
        PROVE  NoTaskWaitsOnFailure'
    <3>1. s \in TaskState
      BY DEF TaskState
    <3>2. \A u \in Tasks : tstate'[u] = IF u = t THEN s ELSE tstate[u]
      BY <2>2, <2>3, <2>5, <3>1, SetStateFacts
    <3>3. ASSUME NEW u \in Waiting(tstate'), NEW d \in deps'[u], tstate'[d] = "failed"
          PROVE  FALSE
      <4>1. u \in Tasks /\ d \in Tasks /\ d # t /\ tstate[d] = "failed"
        BY <2>3, <3>2, <3>3 DEF Waiting, DepsType
      <4>2. CASE u = t
        BY <2>2, <2>5, <3>2, <3>3, <4>1, <4>2 DEF Waiting
      <4>3. CASE u # t
        BY <2>3, <3>2, <4>1, <4>3 DEF Waiting, NoTaskWaitsOnFailure
      <4>4. QED BY <4>2, <4>3
    <3>4. QED BY <3>3 DEF NoTaskWaitsOnFailure
  <2>6. QED BY <2>1, <2>4, <2>5 DEF AssignOutcome
<1>3. ASSUME NEW a \in Agents, HeartbeatCompleted(a) PROVE NoTaskWaitsOnFailure'
  <2>1. /\ assigned[a] \in SUBSET Tasks /\ "completed" \in TaskState
        /\ deps' = deps /\ tstate' = set_state(tstate, assigned[a], "completed")
    BY <1>3 DEF TypeOK, TaskState, HeartbeatCompleted
  <2>2. \A u \in Tasks : tstate'[u] \in {"completed", tstate[u]}
    BY <1>0, <2>1, SetStateFacts
  <2>3. QED BY <1>0, <2>1, <2>2 DEF NoTaskWaitsOnFailure, Waiting, DepsType
<1>4. ASSUME NEW a \in Agents, HeartbeatFailed(a) PROVE NoTaskWaitsOnFailure'
  <2>1. /\ assigned[a] \in SUBSET Tasks
        /\ deps' = deps /\ tstate' = fail_all(deps, tstate, assigned[a])
    BY <1>4 DEF TypeOK, HeartbeatFailed
  <2>2. \A u \in Waiting(tstate') :
           u \in Waiting(tstate) /\ \A d \in deps[u] : tstate'[d] = "failed" => tstate[d] = "failed"
    BY <1>0, <2>1, FailAllSpares
  <2>3. QED BY <2>1, <2>2 DEF NoTaskWaitsOnFailure
<1>5. CASE UNCHANGED graphVars
  BY <1>5 DEF graphVars, NoTaskWaitsOnFailure
<1>6. QED
  BY <1>1, <1>2, <1>3, <1>4, <1>5
     DEF Next, Create, AutoCreate, HeartbeatAlive, Join, Leave, Rebalance, Complete, Fail,
         Finalize, Expire, vars

(* A queued task never stays queued behind a failed dependency.              *)
THEOREM FailureReachesWaiters == Spec => []NoTaskWaitsOnFailure
<1>1. Init => NoTaskWaitsOnFailure
  BY DEF Init, NoTaskWaitsOnFailure, Waiting, EmptyStates
<1>2. TypeOK /\ NoTaskWaitsOnFailure /\ [Next]_vars => NoTaskWaitsOnFailure'
  BY WaitStep
<1>3. QED BY <1>1, <1>2, TypeCorrect, PTL DEF Spec

(* Work handed to a member is not lost as long as the swarm is not replaced. *)
THEOREM WorkIsConserved == Spec => AssignedWorkIsConserved
<1>1. TypeOK /\ [Next]_vars => [id' = id => Held \subseteq Held']_vars
  <2> SUFFICES ASSUME TypeOK, Next, id' = id PROVE Held \subseteq Held'
    OBVIOUS
  <2>1. ASSUME NEW c \in Agents, NEW M \in SUBSET Agents, NEW load, StoreNewSwarm(c, M, load)
        PROVE  Held \subseteq Held'
    BY <2>1, MaxSwarmsType DEF StoreNewSwarm, TypeOK
  <2>2. CASE members \subseteq members' /\ UNCHANGED assigned
    BY <2>2 DEF Held
  <2>3. ASSUME NEW a \in Agents, NEW t \in Tasks, NEW D \in SUBSET Tasks, Assign(a, t, D)
        PROVE  Held \subseteq Held'
    <3>1. members' = members /\ \A b \in Agents : assigned[b] \subseteq assigned'[b]
      BY <2>3, AssignHasOutcome DEF AssignOutcome, TypeOK
    <3>2. QED BY <3>1 DEF Held, TypeOK
  <2>4. ASSUME Rebalance PROVE Held \subseteq Held'
    <3>1. members' = members
      BY <2>4 DEF Rebalance
    <3>2. QED BY <2>4, <3>1, RebalanceKeepsWork DEF Held
  <2>5. QED
    BY <2>1, <2>2, <2>3, <2>4
       DEF Next, Create, AutoCreate, HeartbeatCompleted, HeartbeatFailed, HeartbeatAlive,
           Join, Leave, Complete, Fail, Finalize, Expire, memberVars
<1>2. QED BY <1>1, TypeCorrect, PTL DEF Spec, AssignedWorkIsConserved

-----------------------------------------------------------------------------
(***************************************************************************)
(* The scheduler.  A schedule is sound when its queue holds no id twice    *)
(* and only ids whose dependencies are completed, and nothing has started  *)
(* before its dependencies were.  Both the scheduler and its copy on disk  *)
(* are, which is what makes loading it safe.  A queued id may have been    *)
(* failed in the meantime, but it is not running: taking it removed it.    *)
(***************************************************************************)

NoRepeat(q) == \A i, j \in DOMAIN q : q[i] = q[j] => i = j

Queued(s, dp, q) ==
    /\ q \in Seq(Tasks) /\ NoRepeat(q)
    /\ \A i \in DOMAIN q : s[q[i]] \in {"pending", "failed"} /\ blocked_by(dp, s, q[i]) = {}

Sound(s, dp, q) ==
    /\ s \in StateType /\ dp \in DepsType
    /\ Queued(s, dp, q)
    /\ \A t \in Tasks : s[t] \in {"running", "completed"} => blocked_by(dp, s, t) = {}

SchedulerInvariant ==
    /\ Sound(state, depends_on, queue)
    /\ workers \in SUBSET Tasks /\ \A t \in workers : state[t] = "running"
    /\ ~up => workers = {}
    /\ disk \in Copies /\ Sound(disk.state, disk.depends_on, disk.queue)
    /\ up \in BOOLEAN
    /\ crashes \in 0..MaxCrashes /\ resets \in 0..MaxResets

(* As long as what is completed stays completed, nothing waits for more.     *)
LEMMA StaysSound ==
    ASSUME NEW s, NEW dp, NEW q, Sound(s, dp, q),
           NEW z \in StateType, NEW r \in Seq(Tasks), NoRepeat(r),
           \A t \in Tasks : s[t] = "completed" => z[t] = "completed",
           \A t \in Tasks : z[t] \in {"running", "completed"} => blocked_by(dp, s, t) = {},
           \A i \in DOMAIN r : z[r[i]] \in {"pending", "failed"} /\ blocked_by(dp, s, r[i]) = {}
    PROVE  Sound(z, dp, r)
<1>1. dp \in DepsType
  BY DEF Sound
<1>2. \A t \in Tasks : blocked_by(dp, s, t) = {} => blocked_by(dp, z, t) = {}
  BY <1>1 DEF blocked_by, DepsType
<1>3. \A i \in DOMAIN r : r[i] \in Tasks
  OBVIOUS
<1>4. QED BY <1>1, <1>2, <1>3 DEF Sound, Queued

(* Refreshing appends ready tasks that are not queued yet.                   *)
LEMMA RefreshIsQueued ==
    ASSUME NEW s, NEW q, Queued(s, depends_on, q), NEW r \in refresh_queue(q, s)
    PROVE  Queued(s, depends_on, r)
<1> DEFINE S == ready_tasks(s, depends_on) \ ToSet(q)
           k == Cardinality(S)
           n == Len(q)
<1>1. q \in Seq(Tasks) /\ NoRepeat(q) /\ n \in Nat /\ DOMAIN q = 1..n
  BY DEF Queued
<1>2. k \in Nat
  <2>1. S \subseteq Tasks BY DEF ready_tasks
  <2>2. IsFiniteSet(S) BY <2>1, TasksAreFinite, FS_Subset
  <2>3. QED BY <2>2, FS_CardinalityType
<1>3. PICK new \in [1..k -> S] : /\ r = q \o new
                                 /\ \A i, j \in 1..k : i # j => new[i] # new[j]
  BY DEF refresh_queue, SetToSeqs
<1>4. \A t \in S : /\ t \in Tasks /\ s[t] = "pending" /\ blocked_by(depends_on, s, t) = {}
                   /\ \A i \in 1..n : q[i] # t
  BY <1>1 DEF ready_tasks, ToSet
<1> HIDE DEF S, k
<1>5. new \in Seq(Tasks) /\ Len(new) = k /\ DOMAIN new = 1..k
  BY <1>2, <1>4
<1>6. /\ r \in Seq(Tasks) /\ Len(r) = n + k /\ DOMAIN r = 1..(n + k)
      /\ \A i \in 1..n : r[i] = q[i]
      /\ \A i \in (n + 1)..(n + k) : i - n \in 1..k /\ r[i] = new[i - n]
  <2>1. /\ q \o new \in Seq(Tasks) /\ Len(q \o new) = Len(q) + Len(new)
        /\ \A i \in 1..Len(q) : (q \o new)[i] = q[i]
        /\ \A i \in (Len(q) + 1)..(Len(q) + Len(new)) : (q \o new)[i] = new[i - Len(q)]
    BY <1>1, <1>5
  <2>2. \A i \in (n + 1)..(n + k) : i - n \in 1..k BY <1>1, <1>2
  <2>3. DOMAIN r = 1..Len(r) BY <1>3, <2>1
  <2>4. QED BY <1>3, <1>5, <2>1, <2>2, <2>3
<1>7. \A i \in 1..(n + k) : i \in 1..n \/ i \in (n + 1)..(n + k)
  BY <1>1, <1>2
<1>8. \A i \in (n + 1)..(n + k) : r[i] \in S
  BY <1>6
<1>9. ASSUME NEW i \in DOMAIN r, NEW j \in DOMAIN r, r[i] = r[j] PROVE i = j
  <2>1. CASE i \in 1..n /\ j \in 1..n BY <1>1, <1>6, <1>9, <2>1 DEF NoRepeat
  <2>2. CASE i \in (n + 1)..(n + k) /\ j \in (n + 1)..(n + k)
    <3>1. i - n = j - n BY <1>3, <1>6, <1>9, <2>2
    <3>2. QED BY <1>1, <2>2, <3>1
  <2>3. CASE i \in 1..n /\ j \in (n + 1)..(n + k) BY <1>4, <1>6, <1>8, <1>9, <2>3
  <2>4. CASE j \in 1..n /\ i \in (n + 1)..(n + k) BY <1>4, <1>6, <1>8, <1>9, <2>4
  <2>5. QED BY <1>6, <1>7, <2>1, <2>2, <2>3, <2>4
<1>10. ASSUME NEW i \in DOMAIN r
       PROVE  s[r[i]] \in {"pending", "failed"} /\ blocked_by(depends_on, s, r[i]) = {}
  <2>1. CASE i \in 1..n BY <1>1, <1>6, <2>1 DEF Queued
  <2>2. CASE i \in (n + 1)..(n + k) BY <1>4, <1>8, <2>2
  <2>3. QED BY <1>6, <1>7, <2>1, <2>2
<1>11. QED BY <1>6, <1>9, <1>10 DEF Queued, NoRepeat

LEMMA LeastNumber ==
    ASSUME NEW S \in SUBSET Nat, S # {}
    PROVE  \E m \in S : \A k \in S : m <= k
<1> DEFINE R == OpToRel(<, Nat)
<1>1. IsWellFoundedOn(R, Nat)
  BY NatLessThanWellFounded
<1>2. \A x, y \in Nat : x < y => <<x, y>> \in R
  BY DEF OpToRel
<1> HIDE DEF R
<1>3. PICK x \in S : \A y \in S : ~(<<y, x>> \in R)
  BY <1>1, WFMin
<1>4. ASSUME NEW y \in S PROVE x <= y
  <2>1. ~(y < x) BY <1>2, <1>3
  <2>2. QED BY <2>1
<1>5. QED BY <1>4

(* retain leaves a queue alone that does not hold the id.                    *)
LEMMA RetainAll ==
    ASSUME queue \in Seq(Tasks), NEW t, \A i \in DOMAIN queue : queue[i] # t
    PROVE  Without(t) = queue
<1> DEFINE n == Len(queue)
           Good(f) == f = [i \in 0..n |-> IF i = 0 THEN <<>>
                                           ELSE IF queue[i] = t THEN f[i - 1]
                                                ELSE Append(f[i - 1], queue[i])]
           g == [i \in 0..n |-> SubSeq(queue, 1, i)]
<1>1. n \in Nat /\ DOMAIN queue = 1..n
  OBVIOUS
<1>2. \A i \in 0..n : SubSeq(queue, 1, i) \in Seq(Tasks) /\ Len(SubSeq(queue, 1, i)) = i
  OBVIOUS
<1>3. SubSeq(queue, 1, 0) = <<>> /\ SubSeq(queue, 1, n) = queue
  OBVIOUS
<1>4. \A i \in 1..n : SubSeq(queue, 1, i) = Append(SubSeq(queue, 1, i - 1), queue[i])
  OBVIOUS
<1>5. Good(g)
  <2>1. ASSUME NEW i \in 0..n
        PROVE  g[i] = IF i = 0 THEN <<>> ELSE IF queue[i] = t THEN g[i - 1]
                                              ELSE Append(g[i - 1], queue[i])
    <3>1. CASE i = 0 BY <1>3, <3>1
    <3>2. CASE i # 0
      <4>1. i \in 1..n /\ i - 1 \in 0..n /\ queue[i] # t BY <1>1, <3>2
      <4>2. QED BY <1>4, <3>2, <4>1
    <3>3. QED BY <3>1, <3>2
  <2> DEFINE b == [i \in 0..n |-> IF i = 0 THEN <<>> ELSE IF queue[i] = t THEN g[i - 1]
                                              ELSE Append(g[i - 1], queue[i])]
  <2>2. \A i \in 0..n : g[i] = b[i] BY <2>1
  <2>3. g = b BY <2>2
  <2>4. QED BY <2>3
<1>6. PICK f : Good(f) /\ Without(t) = f[n]
  BY <1>5, Zenon DEF Without
<1> HIDE DEF g
<1>7. \A i \in 0..n : f[i] = g[i]
  <2> SUFFICES ASSUME NEW k \in 0..n, f[k] # g[k] PROVE FALSE OBVIOUS
  <2> DEFINE D == {i \in Nat : i <= n /\ f[i] # g[i]}
  <2>1. PICK m \in D : \A i \in D : m <= i
    <3>1. D \in SUBSET Nat /\ k \in D BY <1>1
    <3>2. QED BY <3>1, LeastNumber
  <2>2. m # 0 BY <1>1, <1>5, <1>6
  <2>3. m - 1 \in 0..n /\ m \in 0..n /\ m - 1 \notin D BY <1>1, <2>1, <2>2
  <2>4. f[m - 1] = g[m - 1] BY <1>1, <2>3
  <2>5. f[m] = IF queue[m] = t THEN f[m - 1] ELSE Append(f[m - 1], queue[m])
    BY <1>6, <2>2, <2>3
  <2>6. g[m] = IF queue[m] = t THEN g[m - 1] ELSE Append(g[m - 1], queue[m])
    BY <1>5, <2>2, <2>3
  <2>7. QED BY <2>1, <2>4, <2>5, <2>6
<1>8. n \in 0..n /\ g[n] = SubSeq(queue, 1, n)
  BY <1>1 DEF g
<1>9. QED BY <1>3, <1>6, <1>7, <1>8

LEMMA EmptyIsSound == Sound(EmptyStates, EmptyDeps, <<>>)
<1>1. EmptyStates \in StateType /\ EmptyDeps \in DepsType
  BY DEF EmptyStates, EmptyDeps, StateType, DepsType
<1>2. <<>> \in Seq(Tasks) /\ DOMAIN <<>> = {}
  OBVIOUS
<1>3. \A t \in Tasks : EmptyStates[t] \notin {"running", "completed"}
  BY DEF EmptyStates
<1>4. QED BY <1>1, <1>2, <1>3 DEF Sound, Queued, NoRepeat

LEMMA InitSchedules == SchedulerInit => SchedulerInvariant
<1> SUFFICES ASSUME SchedulerInit PROVE SchedulerInvariant OBVIOUS
<1>1. disk \in Copies
  BY EmptyIsSound DEF SchedulerInit, NoCopy, Copies, Sound, StateType, DepsType, Queued
<1>2. disk.state = EmptyStates /\ disk.depends_on = EmptyDeps /\ disk.queue = <<>>
  BY DEF SchedulerInit, NoCopy
<1>3. QED BY <1>1, <1>2, EmptyIsSound, BoundsAreNat DEF SchedulerInit, SchedulerInvariant

(* A new task is not queued and nothing that has started waits for it.       *)
LEMMA AddTaskSchedules ==
    ASSUME SchedulerInvariant, NEW t \in Tasks, NEW D \in SUBSET Tasks, AddTask(t, D)
    PROVE  SchedulerInvariant'
<1>1. /\ state[t] = "absent" /\ state' = [state EXCEPT ![t] = "pending"]
      /\ depends_on' = [depends_on EXCEPT ![t] = depends_on[t] \cup D]
      /\ UNCHANGED <<queue, workers, disk, up, crashes, resets>>
  BY DEF AddTask, add_task, add_dependencies
<1>2. Sound(state, depends_on, queue) /\ state \in StateType /\ depends_on \in DepsType
  BY DEF SchedulerInvariant, Sound
<1>3. state' \in StateType /\ depends_on' \in DepsType
  BY <1>1, <1>2 DEF StateType, DepsType, TaskState
<1>4. state'[t] = "pending" /\ \A u \in Tasks \ {t} : state'[u] = state[u] /\ depends_on'[u] = depends_on[u]
  BY <1>1, <1>2 DEF StateType, DepsType
<1>5. \A u \in Tasks : state'[u] = "completed" <=> state[u] = "completed"
  BY <1>1, <1>4
<1>6. \A u \in Tasks \ {t} : blocked_by(depends_on', state', u) = blocked_by(depends_on, state, u)
  <2> TAKE u \in Tasks \ {t}
  <2>1. depends_on'[u] = depends_on[u] /\ depends_on[u] \subseteq Tasks BY <1>2, <1>4 DEF DepsType
  <2>2. QED BY <1>5, <2>1 DEF blocked_by
<1>7. \A i \in DOMAIN queue : queue[i] \in Tasks \ {t}
  BY <1>1, <1>2 DEF Sound, Queued
<1>8. Sound(state', depends_on', queue')
  <2>1. Queued(state', depends_on', queue')
    BY <1>1, <1>2, <1>4, <1>6, <1>7 DEF Sound, Queued
  <2>2. \A u \in Tasks : state'[u] \in {"running", "completed"} => blocked_by(depends_on', state', u) = {}
    BY <1>2, <1>4, <1>6 DEF Sound
  <2>3. QED BY <1>3, <2>1, <2>2 DEF Sound
<1>9. \A u \in workers : state'[u] = "running"
  BY <1>1, <1>4 DEF SchedulerInvariant
<1>10. QED BY <1>1, <1>8, <1>9 DEF SchedulerInvariant

(* The task that is taken is gone from the queue, because it was there once. *)
LEMMA TakeSchedules ==
    ASSUME SchedulerInvariant, NEW q \in refresh_queue(queue, state), NEW i \in DOMAIN q, Take(i, q)
    PROVE  SchedulerInvariant'
<1> DEFINE z == set_state(state, {q[i]}, "running")
           r == SubSeq(q, i + 1, Len(q))
<1>1. /\ state' = z /\ queue' = r /\ workers' = workers \cup {q[i]}
      /\ UNCHANGED <<depends_on, disk, up, crashes, resets>> /\ up /\ state[q[i]] = "pending"
  BY DEF Take, Eligible
<1>2. Sound(state, depends_on, queue)
  BY DEF SchedulerInvariant
<1>3. Queued(state, depends_on, q)
  BY <1>2, RefreshIsQueued DEF Sound
<1>4. q \in Seq(Tasks) /\ NoRepeat(q) /\ q[i] \in Tasks /\ i \in 1..Len(q) /\ Len(q) \in Nat
  BY <1>3 DEF Queued
<1>5. /\ z \in StateType
      /\ \A u \in Tasks : z[u] = IF u = q[i] THEN "running" ELSE state[u]
  BY <1>1, <1>2, <1>4, SetStateFacts DEF Sound, TaskState
<1> HIDE DEF z
<1>6. /\ r \in Seq(Tasks) /\ Len(r) = Len(q) - i /\ DOMAIN r = 1..(Len(q) - i)
      /\ \A j \in 1..(Len(q) - i) : r[j] = q[i + j] /\ i + j \in DOMAIN q /\ i + j # i
  BY <1>4
<1> HIDE DEF r
<1>7. NoRepeat(r)
  <2> SUFFICES ASSUME NEW j \in DOMAIN r, NEW k \in DOMAIN r, r[j] = r[k] PROVE j = k
    BY DEF NoRepeat
  <2>1. i + j = i + k BY <1>4, <1>6 DEF NoRepeat
  <2>2. QED BY <1>4, <1>6, <2>1
<1>8. \A j \in DOMAIN r : /\ z[r[j]] \in {"pending", "failed"}
                          /\ blocked_by(depends_on, state, r[j]) = {}
  <2> TAKE j \in DOMAIN r
  <2>1. r[j] = q[i + j] /\ i + j \in DOMAIN q /\ i + j # i BY <1>6
  <2>2. r[j] # q[i] /\ r[j] \in Tasks BY <1>4, <2>1 DEF NoRepeat
  <2>3. QED BY <1>3, <1>5, <2>1, <2>2 DEF Queued
<1>9. \A u \in Tasks : z[u] \in {"running", "completed"} => blocked_by(depends_on, state, u) = {}
  BY <1>2, <1>3, <1>5 DEF Sound, Queued
<1>10. \A u \in Tasks : state[u] = "completed" => z[u] = "completed"
  BY <1>1, <1>5
<1>11. Sound(z, depends_on, r)
  BY <1>2, <1>5, <1>6, <1>7, <1>8, <1>9, <1>10, StaysSound
<1>12. workers' \in SUBSET Tasks /\ \A u \in workers' : state'[u] = "running"
  BY <1>1, <1>4, <1>5 DEF SchedulerInvariant
<1>13. QED BY <1>1, <1>11, <1>12 DEF SchedulerInvariant

(* A change of states that keeps the queue.                                  *)
LEMMA SameQueue ==
    ASSUME SchedulerInvariant, NEW z \in StateType,
           \A t \in Tasks : z[t] = state[t] \/ z[t] \in {"failed", "blocked"} \/
                            (state[t] = "failed" /\ z[t] = "pending") \/
                            (state[t] = "running" /\ z[t] = "completed"),
           \A t \in Tasks : state[t] = "completed" => z[t] = "completed",
           \A i \in DOMAIN queue : z[queue[i]] # "blocked"
    PROVE  Sound(z, depends_on, queue)
<1>1. Sound(state, depends_on, queue) /\ queue \in Seq(Tasks) /\ NoRepeat(queue)
  BY DEF SchedulerInvariant, Sound, Queued
<1>2. \A t \in Tasks : z[t] \in {"running", "completed"} => blocked_by(depends_on, state, t) = {}
  BY <1>1 DEF Sound
<1>3. \A i \in DOMAIN queue : /\ queue[i] \in Tasks /\ state[queue[i]] \in {"pending", "failed"}
                              /\ blocked_by(depends_on, state, queue[i]) = {}
  BY <1>1 DEF Sound, Queued
<1>4. \A i \in DOMAIN queue : z[queue[i]] \in {"pending", "failed"}
  BY <1>3
<1>5. QED BY <1>1, <1>2, <1>3, <1>4, StaysSound

(* A worker's report finds its task off the queue, and its retain has        *)
(* nothing to do.                                                            *)
LEMMA ReportSchedules ==
    ASSUME SchedulerInvariant, NEW t \in Tasks, Report(t)
    PROVE  SchedulerInvariant'
<1>1. PICK s \in {"completed", "failed", "blocked"} :
         /\ up /\ t \in workers /\ state' = set_state(state, {t}, s) /\ workers' = workers \ {t}
         /\ UNCHANGED <<depends_on, disk, up, crashes, resets>>
         /\ queue' = Without(t) \/ queue' \in refresh_queue(Without(t), state')
  BY DEF Report, mark_completed, Mark
<1>2. state[t] = "running" /\ Sound(state, depends_on, queue)
  BY <1>1 DEF SchedulerInvariant
<1>3. queue \in Seq(Tasks) /\ \A i \in DOMAIN queue : queue[i] # t
  BY <1>2 DEF Sound, Queued
<1>4. Without(t) = queue
  BY <1>3, RetainAll
<1>5. state' \in StateType /\ \A u \in Tasks : state'[u] = IF u = t THEN s ELSE state[u]
  BY <1>1, <1>2, SetStateFacts DEF Sound, TaskState
<1>6. \A i \in DOMAIN queue : state'[queue[i]] # "blocked"
  BY <1>2, <1>3, <1>5 DEF Sound, Queued
<1>7. Sound(state', depends_on, queue)
  BY <1>2, <1>5, <1>6, SameQueue
<1>8. Sound(state', depends_on, queue')
  BY <1>1, <1>4, <1>7, RefreshIsQueued DEF Sound
<1>9. workers' \in SUBSET Tasks /\ \A u \in workers' : state'[u] = "running"
  BY <1>1, <1>5 DEF SchedulerInvariant
<1>10. QED BY <1>1, <1>8, <1>9 DEF SchedulerInvariant

LEMMA CancelSchedules ==
    ASSUME SchedulerInvariant, NEW t \in Tasks, Cancel(t) \/ Reset(t)
    PROVE  SchedulerInvariant'
<1>1. /\ UNCHANGED <<depends_on, queue, workers, disk, up, crashes>>
      /\ resets' = resets \/ (resets < MaxResets /\ resets' = resets + 1)
  BY DEF Cancel, Reset
<1>2. Sound(state, depends_on, queue) /\ state \in StateType /\ depends_on \in DepsType
  BY DEF SchedulerInvariant, Sound
<1>3. /\ state' \in StateType
      /\ \A u \in Tasks : state'[u] = state[u] \/ state'[u] = "failed" \/
                           (state[u] = "failed" /\ state'[u] = "pending")
      /\ \A u \in Tasks : state[u] \in {"running", "completed"} => state'[u] = state[u]
  <2>1. CASE Cancel(t)
    <3>1. state[t] = "pending" /\ state' = fail_all(depends_on, state, {t}) BY <2>1 DEF Cancel
    <3>2. /\ state' \in StateType
          /\ \A u \in Tasks : state'[u] \in {state[u], "failed"}
          /\ \A u \in Tasks : u \notin {t} /\ u \notin Waiting(state) => state'[u] = state[u]
      BY <1>2, <3>1, FailAllSpares
    <3>3. QED BY <3>1, <3>2 DEF Waiting
  <2>2. CASE Reset(t)
    <3>1. state[t] = "failed" /\ state' = set_state(state, {t}, "pending") BY <2>2 DEF Reset
    <3>2. state' \in StateType /\ \A u \in Tasks : state'[u] = IF u = t THEN "pending" ELSE state[u]
      BY <1>2, <3>1, SetStateFacts DEF TaskState
    <3>3. QED BY <3>1, <3>2
  <2>3. QED BY <2>1, <2>2
<1>4. \A i \in DOMAIN queue : state'[queue[i]] # "blocked"
  BY <1>2, <1>3 DEF Sound, Queued
<1>5. Sound(state', depends_on, queue)
  BY <1>3, <1>4, SameQueue
<1>6. resets' \in 0..MaxResets
  BY <1>1, BoundsAreNat DEF SchedulerInvariant
<1>7. \A u \in workers : state'[u] = "running"
  BY <1>3 DEF SchedulerInvariant
<1>8. QED BY <1>1, <1>5, <1>6, <1>7 DEF SchedulerInvariant

(* What is saved is sound, and so is what a torn write leaves to be loaded:  *)
(* nothing.                                                                  *)
LEMMA DiskSchedules ==
    ASSUME SchedulerInvariant,
           save_to_path \/ (\E saving \in BOOLEAN : Crash(saving)) \/ load_from_path
    PROVE  SchedulerInvariant'
<1>1. Sound(state, depends_on, queue) /\ disk \in Copies /\ Sound(disk.state, disk.depends_on, disk.queue)
  BY DEF SchedulerInvariant
<1>2. CASE save_to_path
  <2>1. /\ disk' = [is |-> "whole", state |-> state, depends_on |-> depends_on, queue |-> queue]
        /\ UNCHANGED <<state, depends_on, queue, workers, up, crashes, resets>>
    BY <1>2 DEF save_to_path, sched
  <2>2. disk' \in Copies
    BY <1>1, <2>1 DEF Copies, Sound, Queued, StateType, DepsType
  <2>3. disk'.state = state /\ disk'.depends_on = depends_on /\ disk'.queue = queue
    BY <2>1
  <2>4. QED BY <1>1, <2>1, <2>2, <2>3 DEF SchedulerInvariant
<1>3. ASSUME NEW saving \in BOOLEAN, Crash(saving) PROVE SchedulerInvariant'
  <2>1. /\ disk' = IF saving THEN [NoCopy EXCEPT !.is = "torn"] ELSE disk
        /\ up' = FALSE /\ workers' = {} /\ crashes < MaxCrashes /\ crashes' = crashes + 1
        /\ UNCHANGED <<state, depends_on, queue, resets>>
    BY <1>3 DEF Crash, sched
  <2> DEFINE torn == [NoCopy EXCEPT !.is = "torn"]
  <2>2. /\ torn.state = EmptyStates /\ torn.depends_on = EmptyDeps /\ torn.queue = <<>>
        /\ torn \in Copies
    BY EmptyIsSound DEF NoCopy, Copies, Sound, Queued, StateType, DepsType
  <2> HIDE DEF torn
  <2>3. disk' \in Copies /\ Sound(disk'.state, disk'.depends_on, disk'.queue)
    BY <1>1, <2>1, <2>2, EmptyIsSound DEF torn
  <2>4. crashes' \in 0..MaxCrashes
    BY <2>1, BoundsAreNat DEF SchedulerInvariant
  <2>5. QED BY <1>1, <2>1, <2>3, <2>4 DEF SchedulerInvariant
<1>4. CASE load_from_path
  <2>1. /\ ~up /\ state' = disk.state /\ depends_on' = disk.depends_on /\ queue' = disk.queue
        /\ up' = TRUE /\ UNCHANGED <<workers, disk, crashes, resets>>
    BY <1>4 DEF load_from_path
  <2>2. QED BY <1>1, <2>1 DEF SchedulerInvariant
<1>5. QED BY <1>2, <1>3, <1>4

LEMMA SchedulerInvariantHolds == SchedulerSpec => []SchedulerInvariant
<1>1. SchedulerInvariant /\ [SchedulerNext]_schedulerVars => SchedulerInvariant'
  <2> SUFFICES ASSUME SchedulerInvariant, [SchedulerNext]_schedulerVars PROVE SchedulerInvariant'
    OBVIOUS
  <2>1. ASSUME NEW t \in Tasks, NEW D \in SUBSET Tasks, AddTask(t, D) PROVE SchedulerInvariant'
    BY <2>1, AddTaskSchedules
  <2>2. ASSUME NEW t \in Tasks, Report(t) PROVE SchedulerInvariant'
    BY <2>2, ReportSchedules
  <2>3. ASSUME NEW t \in Tasks, Cancel(t) \/ Reset(t) PROVE SchedulerInvariant'
    BY <2>3, CancelSchedules
  <2>4. CASE next_ready
    <3>1. PICK q \in refresh_queue(queue, state) : TakeNone(q) \/ \E i \in DOMAIN q : Take(i, q)
      BY <2>4 DEF next_ready
    <3>2. CASE TakeNone(q)
      <4>1. queue' = <<>> /\ UNCHANGED <<state, depends_on, workers, disk, up, crashes, resets>>
        BY <3>2 DEF TakeNone
      <4>2. <<>> \in Seq(Tasks) /\ DOMAIN <<>> = {} OBVIOUS
      <4>3. Sound(state, depends_on, <<>>) BY <4>2 DEF SchedulerInvariant, Sound, Queued, NoRepeat
      <4>4. QED BY <4>1, <4>3 DEF SchedulerInvariant
    <3>3. QED BY <3>1, <3>2, TakeSchedules
  <2>5. CASE save_to_path \/ (\E saving \in BOOLEAN : Crash(saving)) \/ load_from_path
    BY <2>5, DiskSchedules
  <2>6. CASE UNCHANGED schedulerVars
    BY <2>6 DEF schedulerVars, SchedulerInvariant
  <2>7. QED BY <2>1, <2>2, <2>3, <2>4, <2>5, <2>6 DEF SchedulerNext
<1>2. QED BY <1>1, InitSchedules, PTL DEF SchedulerSpec

(* The queue of TaskScheduler never holds an id twice, however it is         *)
(* refreshed, retained, saved and loaded, and so never outgrows the graph.   *)
THEOREM SchedulerTyped == SchedulerSpec => []SchedulerTypeOK
<1>1. SchedulerInvariant => SchedulerTypeOK
  <2> SUFFICES ASSUME SchedulerInvariant PROVE SchedulerTypeOK OBVIOUS
  <2>1. /\ state \in StateType /\ depends_on \in DepsType
        /\ queue \in Seq(Tasks) /\ NoRepeat(queue)
    BY DEF SchedulerInvariant, Sound, Queued
  <2> DEFINE n == Len(queue)
  <2>2. n \in Nat /\ queue \in [1..n -> Tasks] BY <2>1
  <2>3. queue \in Injection(1..n, Tasks)
    BY <2>1, <2>2 DEF NoRepeat, Injection, IsInjective
  <2>4. IsFiniteSet(1..n) /\ Cardinality(1..n) = n
    <3>1. IsFiniteSet(1..n) /\ Cardinality(1..n) = IF 1 > n THEN 0 ELSE n - 1 + 1
      BY <2>2, FS_Interval
    <3>2. QED BY <2>2, <3>1
  <2>5. n <= Cardinality(Tasks)
    <3>1. Cardinality(1..n) <= Cardinality(Tasks) BY <2>3, TasksAreFinite, FS_Injection
    <3>2. QED BY <2>4, <3>1
  <2>6. QED BY <2>1, <2>5 DEF SchedulerInvariant, SchedulerTypeOK, StateType, DepsType
<1>2. QED BY <1>1, SchedulerInvariantHolds, PTL

(* A task is never taken before everything it depends on is completed, also  *)
(* from a queue that was saved before a crash.                               *)
THEOREM StartedInOrder == SchedulerSpec => []StartsAfterDependencies
<1>1. SchedulerInvariant => StartsAfterDependencies
  BY DEF SchedulerInvariant, Sound, StartsAfterDependencies
<1>2. QED BY <1>1, SchedulerInvariantHolds, PTL

(* next_ready skips ids whose task was failed since it was queued.           *)
THEOREM EndedStaysEnded == SchedulerSpec => EndedWorkIsNotStarted
<1> DEFINE Ended(t) == state[t] \in {"failed", "blocked", "completed"}
           Kept == up => \A t \in Tasks : Ended(t) => state'[t] # "running"
<1>1. SchedulerInvariant /\ [SchedulerNext]_schedulerVars => [Kept]_schedulerVars
  <2> SUFFICES ASSUME SchedulerInvariant, SchedulerNext, up, NEW t \in Tasks, Ended(t)
               PROVE  state'[t] # "running"
    OBVIOUS
  <2>1. state \in StateType /\ depends_on \in DepsType BY DEF SchedulerInvariant, Sound
  <2>2. ASSUME NEW u \in Tasks, NEW D \in SUBSET Tasks, AddTask(u, D) PROVE state'[t] # "running"
    BY <2>1, <2>2 DEF AddTask, add_task, StateType
  <2>3. ASSUME NEW u \in Tasks, Report(u) PROVE state'[t] # "running"
    <3>1. PICK s \in {"completed", "failed", "blocked"} : state' = set_state(state, {u}, s)
      BY <2>3 DEF Report, mark_completed, Mark
    <3>2. QED BY <3>1 DEF set_state
  <2>4. ASSUME NEW u \in Tasks, Cancel(u) PROVE state'[t] # "running"
    <3>1. state' = fail_all(depends_on, state, {u}) BY <2>4 DEF Cancel
    <3>2. state'[t] \in {state[t], "failed"} BY <2>1, <3>1, FailAllSpares
    <3>3. QED BY <3>2
  <2>5. ASSUME NEW u \in Tasks, Reset(u) PROVE state'[t] # "running"
    BY <2>5 DEF Reset, set_state
  <2>6. ASSUME next_ready PROVE state'[t] # "running"
    <3>1. PICK q \in refresh_queue(queue, state) : TakeNone(q) \/ \E i \in DOMAIN q : Take(i, q)
      BY <2>6 DEF next_ready
    <3>2. CASE TakeNone(q) BY <3>2 DEF TakeNone
    <3>3. ASSUME NEW i \in DOMAIN q, Take(i, q) PROVE state'[t] # "running"
      <4>1. state[q[i]] = "pending" /\ state' = set_state(state, {q[i]}, "running")
        BY <3>3 DEF Take, Eligible
      <4>2. QED BY <4>1 DEF set_state
    <3>4. QED BY <3>1, <3>2, <3>3
  <2>7. ASSUME save_to_path \/ (\E saving \in BOOLEAN : Crash(saving)) PROVE state'[t] # "running"
    BY <2>7 DEF save_to_path, Crash, sched
  <2>8. ~load_from_path BY DEF load_from_path
  <2>9. QED BY <2>2, <2>3, <2>4, <2>5, <2>6, <2>7, <2>8 DEF SchedulerNext
<1>2. QED BY <1>1, SchedulerInvariantHolds, PTL DEF SchedulerSpec, EndedWorkIsNotStarted

-----------------------------------------------------------------------------
(***************************************************************************)
(* The walks of the code over the graph.                                   *)
(***************************************************************************)

LEMMA Induction ==
    ASSUME NEW S, 0 \in S, \A n \in Nat : n \in S => n + 1 \in S
    PROVE  Nat \subseteq S
<1> SUFFICES ASSUME Nat \ S # {} PROVE FALSE
  OBVIOUS
<1>1. PICK m \in Nat \ S : \A k \in Nat \ S : m <= k
  BY LeastNumber
<1>2. m # 0 /\ m - 1 \in Nat /\ m - 1 \notin Nat \ S
  BY <1>1
<1>3. QED BY <1>1, <1>2

(* f is the sequence of the iterates of step, which gives the states after   *)
(* one more iteration of a loop from any one of S before it.                 *)
Iterates(f, S, w0, step) ==
    /\ f \in [Nat -> SUBSET S]
    /\ f[0] = {w0}
    /\ \A n \in Nat : f[n + 1] = UNION {step[w] : w \in f[n]}

(* A loop may be iterated: its recursive definition has a meaning.           *)
LEMMA Iteration ==
    ASSUME NEW S, NEW w0 \in S, NEW step \in [S -> SUBSET S]
    PROVE  \E f : Iterates(f, S, w0, step)
<1> DEFINE X == SUBSET S
           Next1(W) == UNION {step[w] : w \in W}
           Upto(h, n) == /\ h \in [0..n -> X] /\ h[0] = {w0}
                         /\ \A i \in 1..n : h[i] = Next1(h[i - 1])
           Some == {n \in Nat : \E h \in [0..n -> X] : Upto(h, n)}
<1>0. \A W \in X : Next1(W) \in X
  OBVIOUS
<1> HIDE DEF Next1
<1>1. 0 \in Some
  <2> DEFINE h == [i \in 0..0 |-> {w0}]
  <2>1. Upto(h, 0) OBVIOUS
  <2>2. QED BY <2>1
<1>2. ASSUME NEW n \in Nat, n \in Some PROVE n + 1 \in Some
  <2>1. PICK h \in [0..n -> X] : Upto(h, n)
    BY <1>2
  <2> HIDE DEF X
  <2> DEFINE k == [i \in 0..(n + 1) |-> IF i = n + 1 THEN Next1(h[n]) ELSE h[i]]
  <2>2. n \in 0..n /\ h[n] \in X /\ Next1(h[n]) \in X
    BY <1>0
  <2>3. k \in [0..(n + 1) -> X] /\ k[0] = {w0} /\ k[n + 1] = Next1(h[n])
    BY <2>1, <2>2
  <2>4. \A i \in 0..n : k[i] = h[i]
    OBVIOUS
  <2> HIDE DEF k
  <2>5. ASSUME NEW i \in 1..(n + 1) PROVE k[i] = Next1(k[i - 1])
    <3>1. CASE i = n + 1
      <4>1. i - 1 = n /\ n \in 0..n BY <3>1
      <4>2. QED BY <2>3, <2>4, <3>1, <4>1
    <3>2. CASE i # n + 1
      <4>1. i \in 1..n /\ i \in 0..n /\ i - 1 \in 0..n BY <3>2
      <4>2. QED BY <2>1, <2>4, <4>1
    <3>3. QED BY <3>1, <3>2
  <2>6. Upto(k, n + 1) BY <2>3, <2>5
  <2>7. QED BY <2>3, <2>6
<1>3. Nat \subseteq Some
  BY <1>1, <1>2, Induction
<1> HIDE DEF X
<1>4. ASSUME NEW n \in Nat, NEW m \in Nat, NEW h, NEW k, Upto(h, n), Upto(k, m)
      PROVE  \A i \in 0..n : i <= m => h[i] = k[i]
  <2> DEFINE Same == {i \in Nat : i <= n /\ i <= m => h[i] = k[i]}
  <2>1. 0 \in Same BY <1>4
  <2>2. ASSUME NEW i \in Nat, i \in Same PROVE i + 1 \in Same
    <3>1. CASE i + 1 <= n /\ i + 1 <= m
      <4>1. i + 1 \in 1..n /\ i + 1 \in 1..m /\ (i + 1) - 1 = i BY <3>1
      <4>2. h[i + 1] = Next1(h[i]) /\ k[i + 1] = Next1(k[i])
        BY <1>4, <4>1
      <4>3. h[i] = k[i] BY <2>2, <3>1
      <4>4. QED BY <4>2, <4>3
    <3>2. QED BY <3>1
  <2>3. Nat \subseteq Same BY <2>1, <2>2, Induction
  <2>4. QED BY <2>3
<1> DEFINE it(n) == CHOOSE h \in [0..n -> X] : Upto(h, n)
           f == [n \in Nat |-> it(n)[n]]
<1>5. ASSUME NEW n \in Nat PROVE it(n) \in [0..n -> X] /\ Upto(it(n), n)
  <2>1. \E h \in [0..n -> X] : Upto(h, n) BY <1>3
  <2>2. QED BY <2>1
<1> HIDE DEF it, Upto
<1>6. f \in [Nat -> X]
  BY <1>5
<1>7. f[0] = {w0}
  BY <1>5 DEF Upto
<1>8. ASSUME NEW n \in Nat PROVE f[n + 1] = Next1(f[n])
  <2>1. n + 1 \in Nat /\ n + 1 \in 1..(n + 1) /\ (n + 1) - 1 = n /\ n \in 0..n /\ n <= n + 1
    OBVIOUS
  <2>2. it(n + 1)[n + 1] = Next1(it(n + 1)[n]) BY <1>5, <2>1 DEF Upto
  <2>3. it(n + 1)[n] = it(n)[n]
    <3>1. Upto(it(n + 1), n + 1) /\ Upto(it(n), n) BY <1>5, <2>1
    <3>2. QED BY <1>4, <2>1, <3>1
  <2>4. QED BY <2>1, <2>2, <2>3
<1>9. Iterates(f, S, w0, step) BY <1>6, <1>7, <1>8 DEF Iterates, X, Next1
<1>10. QED BY <1>9

(* What a stack holds after a pop and after ids were pushed.                 *)
LEMMA Pops ==
    ASSUME NEW q \in Seq(Tasks), q # <<>>
    PROVE  /\ Front(q) \in Seq(Tasks) /\ Len(Front(q)) = Len(q) - 1
           /\ Last(q) \in ToSet(q) /\ Last(q) \in Tasks
           /\ ToSet(q) = ToSet(Front(q)) \cup {Last(q)}
<1> DEFINE n == Len(q)
<1>1. n \in Nat \ {0} /\ DOMAIN q = 1..n /\ \A i \in 1..n : q[i] \in Tasks
  OBVIOUS
<1>2. /\ SubSeq(q, 1, n - 1) \in Seq(Tasks) /\ Len(SubSeq(q, 1, n - 1)) = n - 1
      /\ \A i \in 1..(n - 1) : SubSeq(q, 1, n - 1)[i] = q[i]
  BY <1>1
<1>3. Front(q) \in Seq(Tasks) /\ Len(Front(q)) = n - 1 /\ \A i \in 1..(n - 1) : Front(q)[i] = q[i]
  BY <1>2 DEF Front
<1>4. DOMAIN Front(q) = 1..(n - 1)
  BY <1>3
<1>5. Last(q) = q[n]
  BY DEF Last
<1> HIDE DEF n
<1>6. \A i \in 1..n : i = n \/ i \in 1..(n - 1)
  BY <1>1
<1>7. ToSet(q) = ToSet(Front(q)) \cup {Last(q)}
  <2>1. ASSUME NEW x \in ToSet(q) PROVE x \in ToSet(Front(q)) \cup {Last(q)}
    <3>1. PICK i \in 1..n : x = q[i] BY <1>1, <2>1 DEF ToSet
    <3>2. QED BY <1>3, <1>4, <1>5, <1>6, <3>1 DEF ToSet
  <2>2. ASSUME NEW x \in ToSet(Front(q)) PROVE x \in ToSet(q)
    <3>1. PICK i \in 1..(n - 1) : x = q[i] BY <1>3, <1>4, <2>2 DEF ToSet
    <3>2. i \in 1..n BY <1>1
    <3>3. QED BY <1>1, <3>1, <3>2 DEF ToSet
  <2>3. Last(q) \in ToSet(q) BY <1>1, <1>5 DEF ToSet
  <2>4. QED BY <2>1, <2>2, <2>3
<1>8. QED BY <1>1, <1>3, <1>5, <1>7 DEF n

LEMMA Pushes ==
    ASSUME NEW q \in Seq(Tasks), NEW r \in Seq(Tasks)
    PROVE  /\ q \o r \in Seq(Tasks) /\ Len(q \o r) = Len(q) + Len(r)
           /\ ToSet(q \o r) = ToSet(q) \cup ToSet(r)
<1> DEFINE n == Len(q)
           k == Len(r)
           c == q \o r
<1>1. n \in Nat /\ k \in Nat /\ DOMAIN q = 1..n /\ DOMAIN r = 1..k
  OBVIOUS
<1>2. /\ c \in Seq(Tasks) /\ Len(c) = n + k
      /\ \A i \in 1..n : c[i] = q[i]
      /\ \A i \in (n + 1)..(n + k) : c[i] = r[i - n]
  OBVIOUS
<1>3. DOMAIN c = 1..(n + k)
  BY <1>2
<1> HIDE DEF c, n, k
<1>4. ToSet(c) = ToSet(q) \cup ToSet(r)
  <2>1. ASSUME NEW x \in ToSet(c) PROVE x \in ToSet(q) \cup ToSet(r)
    <3>1. PICK i \in 1..(n + k) : x = c[i] BY <1>3, <2>1 DEF ToSet
    <3>2. CASE i \in 1..n BY <1>1, <1>2, <3>1, <3>2 DEF ToSet
    <3>3. CASE i \in (n + 1)..(n + k)
      <4>1. i - n \in 1..k BY <1>1, <3>3
      <4>2. QED BY <1>1, <1>2, <3>1, <3>3, <4>1 DEF ToSet
    <3>4. QED BY <1>1, <3>2, <3>3
  <2>2. ASSUME NEW x \in ToSet(q) PROVE x \in ToSet(c)
    <3>1. PICK i \in 1..n : x = q[i] BY <1>1, <2>2 DEF ToSet
    <3>2. i \in 1..(n + k) BY <1>1
    <3>3. QED BY <1>2, <1>3, <3>1, <3>2 DEF ToSet
  <2>3. ASSUME NEW x \in ToSet(r) PROVE x \in ToSet(c)
    <3>1. PICK i \in 1..k : x = r[i] BY <1>1, <2>3 DEF ToSet
    <3>2. i + n \in (n + 1)..(n + k) /\ i + n \in 1..(n + k) /\ (i + n) - n = i BY <1>1
    <3>3. c[i + n] = r[i] BY <1>2, <3>2
    <3>4. QED BY <1>3, <3>1, <3>2, <3>3 DEF ToSet
  <2>4. QED BY <2>1, <2>2, <2>3
<1>5. QED BY <1>2, <1>4 DEF c, n, k

(* A set of tasks can be listed, and a listing of it holds its members.      *)
LEMMA Listings ==
    ASSUME NEW S \in SUBSET Tasks
    PROVE  /\ IsFiniteSet(S) /\ Cardinality(S) \in Nat
           /\ Cardinality(S) <= Cardinality(Tasks)
           /\ SetToSeqs(S) # {}
           /\ \A list \in SetToSeqs(S) :
                 list \in Seq(Tasks) /\ Len(list) = Cardinality(S) /\ ToSet(list) = S
<1> DEFINE k == Cardinality(S)
<1>1. IsFiniteSet(S) /\ k \in Nat /\ k <= Cardinality(Tasks)
  BY TasksAreFinite, FS_Subset, FS_CardinalityType
<1>2. ExistsBijection(1..k, S)
  BY <1>1, FS_CardinalityType
<1>3. SetToSeqs(S) # {}
  <2>1. PICK f : f \in Bijection(1..k, S) BY <1>2 DEF ExistsBijection
  <2>2. f \in [1..k -> S] /\ \A i, j \in 1..k : i # j => f[i] # f[j]
    BY <2>1 DEF Bijection, Injection, IsInjective
  <2>3. QED BY <2>2 DEF SetToSeqs
<1>4. ASSUME NEW list \in SetToSeqs(S)
      PROVE  list \in Seq(Tasks) /\ Len(list) = k /\ ToSet(list) = S
  <2>1. list \in [1..k -> S] /\ \A i, j \in 1..k : i # j => list[i] # list[j]
    BY <1>4 DEF SetToSeqs
  <2> HIDE DEF k
  <2>2. list \in Seq(S) /\ Len(list) = k /\ list \in Seq(Tasks) BY <1>1, <2>1
  <2>3. list \in Injection(1..k, S) BY <2>1 DEF Injection, IsInjective
  <2>4. IsFiniteSet(1..k) /\ Cardinality(1..k) = k
    <3>1. IsFiniteSet(1..k) /\ Cardinality(1..k) = IF 1 > k THEN 0 ELSE k - 1 + 1
      BY <1>1, FS_Interval
    <3>2. QED BY <1>1, <3>1
  <2>5. list \in Surjection(1..k, S) BY <1>1, <2>3, <2>4, FS_Injection DEF k
  <2>6. \A x \in S : \E i \in 1..k : list[i] = x BY <2>5 DEF Surjection
  <2>7. ToSet(list) = S BY <2>1, <2>6 DEF ToSet
  <2>8. QED BY <2>2, <2>7
<1>5. QED BY <1>1, <1>3, <1>4

(* The states of the loop of would_create_cycle.                             *)
CycleStates == [is : {"walking", "found", "none"}, stack : Seq(Tasks), visited : SUBSET Tasks]

\* After n iterations of the walk from d for t.
CycleInvariant(E, t, d, n, w) ==
    /\ w \in CycleStates
    /\ w.is = "found" => t \in Reachable(E, d)
    /\ w.is = "none" => t \notin Reachable(E, d)
    /\ w.is = "walking" =>
          /\ ToSet(w.stack) \subseteq Reachable(E, d)
          /\ t \notin w.visited
          /\ d \in w.visited \cup ToSet(w.stack)
          /\ \A v \in w.visited : E[v] \subseteq w.visited \cup ToSet(w.stack)
          /\ n + Len(w.stack) <= 1 + Cardinality(Tasks) * Cardinality(w.visited)

(* One iteration keeps it, whatever the order of depends_on.                 *)
LEMMA CycleStepKeeps ==
    ASSUME NEW E \in DepsType, NEW t \in Tasks, NEW d \in Tasks, NEW n \in Nat,
           NEW w, CycleInvariant(E, t, d, n, w)
    PROVE  /\ CycleStep(E, t, w) # {}
           /\ \A x \in CycleStep(E, t, w) : CycleInvariant(E, t, d, n + 1, x)
<1> DEFINE R == Reachable(E, d)
           N == Cardinality(Tasks)
           V == Cardinality(w.visited)
<1>1. w \in CycleStates
  BY DEF CycleInvariant
<1>2. /\ d \in R /\ R \in SUBSET Tasks /\ DependencyClosed(E, R)
      /\ \A S \in SUBSET Tasks : d \in S /\ DependencyClosed(E, S) => R \subseteq S
  BY ReachableIsLeast
<1>3. N \in Nat /\ V \in Nat /\ IsFiniteSet(w.visited)
  <2>1. w.visited \in SUBSET Tasks BY <1>1 DEF CycleStates
  <2>2. QED BY <2>1, Listings
<1> HIDE DEF R, N, V
<1>4. CASE w.is # "walking"
  <2>1. CycleStep(E, t, w) = {w} BY <1>4 DEF CycleStep
  <2>2. CycleInvariant(E, t, d, n + 1, w) BY <1>4 DEF CycleInvariant
  <2>3. QED BY <2>1, <2>2
<1>5. CASE w.is = "walking" /\ w.stack = <<>>
  <2> DEFINE x == [w EXCEPT !.is = "none"]
  <2>1. CycleStep(E, t, w) = {x} BY <1>5 DEF CycleStep
  <2>2. x \in CycleStates /\ x.is = "none" BY <1>1 DEF CycleStates
  <2>3. ToSet(w.stack) = {} BY <1>5 DEF ToSet
  <2>4. /\ t \notin w.visited /\ d \in w.visited
        /\ \A v \in w.visited : E[v] \subseteq w.visited
    BY <1>5, <2>3 DEF CycleInvariant
  <2>5. w.visited \in SUBSET Tasks /\ DependencyClosed(E, w.visited)
    BY <1>1, <2>4 DEF CycleStates, DependencyClosed
  <2>6. t \notin R BY <1>2, <2>4, <2>5
  <2>7. CycleInvariant(E, t, d, n + 1, x) BY <2>2, <2>6 DEF CycleInvariant, R
  <2>8. QED BY <2>1, <2>7
<1>6. CASE w.is = "walking" /\ w.stack # <<>>
  <2> DEFINE cur  == Last(w.stack)
             rest == Front(w.stack)
  <2>1. w.stack \in Seq(Tasks) /\ w.visited \in SUBSET Tasks /\ Len(w.stack) \in Nat
    BY <1>1 DEF CycleStates
  <2>2. /\ rest \in Seq(Tasks) /\ Len(rest) = Len(w.stack) - 1 /\ Len(rest) \in Nat
        /\ cur \in Tasks /\ ToSet(w.stack) = ToSet(rest) \cup {cur}
    BY <1>6, <2>1, Pops
  <2>3. /\ ToSet(w.stack) \subseteq R /\ t \notin w.visited
        /\ d \in w.visited \cup ToSet(w.stack)
        /\ \A v \in w.visited : E[v] \subseteq w.visited \cup ToSet(w.stack)
        /\ n + Len(w.stack) <= 1 + N * V
    BY <1>6 DEF CycleInvariant, R, N, V
  <2>4. cur \in R BY <2>2, <2>3
  <2> HIDE DEF cur, rest
  <2>5. CASE cur = t
    <3> DEFINE x == [w EXCEPT !.is = "found"]
    <3>1. CycleStep(E, t, w) = {x} BY <1>6, <2>5 DEF CycleStep, cur
    <3>2. x \in CycleStates /\ x.is = "found" BY <1>1 DEF CycleStates
    <3>3. CycleInvariant(E, t, d, n + 1, x) BY <2>4, <2>5, <3>2 DEF CycleInvariant, R
    <3>4. QED BY <3>1, <3>3
  <2>6. CASE cur # t /\ cur \in w.visited
    <3> DEFINE x == [w EXCEPT !.stack = rest]
    <3>1. CycleStep(E, t, w) = {x} BY <1>6, <2>6 DEF CycleStep, cur, rest
    <3>2. /\ x \in CycleStates /\ x.is = "walking" /\ x.stack = rest /\ x.visited = w.visited
      BY <1>1, <1>6, <2>2 DEF CycleStates
    <3>3. n + 1 + Len(rest) <= 1 + N * V
      <4>1. N * V \in Nat BY <1>3
      <4>2. \A a, b, p \in Nat : a + b <= 1 + p => a + 1 + (b - 1) <= 1 + p OBVIOUS
      <4>3. QED BY <2>1, <2>2, <2>3, <4>1, <4>2
    <3> HIDE DEF x
    <3>4. /\ ToSet(x.stack) \subseteq R /\ t \notin x.visited
          /\ d \in x.visited \cup ToSet(x.stack)
          /\ \A v \in x.visited : E[v] \subseteq x.visited \cup ToSet(x.stack)
      BY <2>2, <2>3, <2>6, <3>2
    <3>5. CycleInvariant(E, t, d, n + 1, x) BY <3>2, <3>3, <3>4 DEF CycleInvariant, R, N, V
    <3>6. QED BY <3>1, <3>5
  <2>7. CASE cur # t /\ cur \notin w.visited
    <3> DEFINE Pushed(new) == [w EXCEPT !.stack = rest \o new, !.visited = @ \cup {cur}]
    <3>1. CycleStep(E, t, w) = {Pushed(new) : new \in SetToSeqs(E[cur])}
      BY <1>6, <2>7 DEF CycleStep, cur, rest
    <3>2. E[cur] \in SUBSET Tasks BY <2>2 DEF DepsType
    <3>3. SetToSeqs(E[cur]) # {} BY <3>2, Listings
    <3>4. ASSUME NEW new \in SetToSeqs(E[cur])
          PROVE  CycleInvariant(E, t, d, n + 1, Pushed(new))
      <4> DEFINE x == Pushed(new)
                 K == Cardinality(E[cur])
      <4>1. /\ new \in Seq(Tasks) /\ Len(new) = K /\ ToSet(new) = E[cur]
            /\ K \in Nat /\ K <= N
        BY <3>2, <3>4, Listings DEF N
      <4>2. /\ rest \o new \in Seq(Tasks) /\ Len(rest \o new) = Len(rest) + K
            /\ ToSet(rest \o new) = ToSet(rest) \cup E[cur]
        BY <2>2, <4>1, Pushes
      <4>3. /\ x \in CycleStates /\ x.is = "walking" /\ x.stack = rest \o new
            /\ x.visited = w.visited \cup {cur}
        BY <1>1, <1>6, <2>2, <4>2 DEF CycleStates
      <4> HIDE DEF x, K
      <4>4. Cardinality(x.visited) = V + 1
        BY <1>3, <2>7, <4>3, FS_AddElement DEF V
      <4>5. n + 1 + Len(x.stack) <= 1 + N * Cardinality(x.visited)
        <5>1. N * (V + 1) = N * V + N /\ N * V \in Nat BY <1>3
        <5>2. Len(x.stack) = Len(w.stack) - 1 + K BY <2>2, <4>2, <4>3
        <5> DEFINE P == N * V
        <5>3. P \in Nat /\ n + Len(w.stack) <= 1 + P BY <2>3, <5>1
        <5> HIDE DEF P
        <5>4. \A a, b, p, c, m \in Nat :
                 a + b <= 1 + p /\ c <= m => a + 1 + (b - 1 + c) <= 1 + (p + m)
          OBVIOUS
        <5>5. n + 1 + (Len(w.stack) - 1 + K) <= 1 + (P + N) BY <1>3, <2>1, <4>1, <5>3, <5>4
        <5>6. QED BY <4>4, <5>1, <5>2, <5>5 DEF P
      <4>6. E[cur] \subseteq R BY <1>2, <2>4 DEF DependencyClosed
      <4>7. ToSet(x.stack) \subseteq R BY <2>2, <2>3, <4>2, <4>3, <4>6
      <4>8. t \notin x.visited /\ d \in x.visited \cup ToSet(x.stack)
        BY <2>2, <2>3, <2>7, <4>2, <4>3
      <4>9. \A v \in x.visited : E[v] \subseteq x.visited \cup ToSet(x.stack)
        <5>1. \A v \in w.visited : E[v] \subseteq x.visited \cup ToSet(x.stack)
          BY <2>2, <2>3, <4>2, <4>3
        <5>2. E[cur] \subseteq x.visited \cup ToSet(x.stack) BY <4>2, <4>3
        <5>3. QED BY <4>3, <5>1, <5>2
      <4>10. CycleInvariant(E, t, d, n + 1, x)
        BY <4>3, <4>5, <4>7, <4>8, <4>9 DEF CycleInvariant, R, N
      <4>11. QED BY <4>10 DEF x
    <3>5. QED BY <3>1, <3>3, <3>4
  <2>8. QED BY <2>5, <2>6, <2>7
<1>7. QED BY <1>4, <1>5, <1>6

CycleStart(t, d) ==
    [is |-> IF t = d THEN "found" ELSE "walking", stack |-> <<d>>, visited |-> {}]

(* The loop, iteration by iteration.                                         *)
LEMMA CycleLoopUnfolds ==
    ASSUME NEW E \in DepsType, NEW t \in Tasks, NEW d \in Tasks
    PROVE  /\ CycleLoop(E, t, d)[0] = {CycleStart(t, d)}
           /\ \A n \in Nat :
                 CycleLoop(E, t, d)[n + 1] =
                     UNION {CycleStep(E, t, w) : w \in CycleLoop(E, t, d)[n]}
<1> DEFINE w0 == CycleStart(t, d)
           step == [w \in CycleStates |-> CycleStep(E, t, w)]
<1>1. w0 \in CycleStates
  BY DEF CycleStart, CycleStates
<1>2. ASSUME NEW w \in CycleStates PROVE CycleStep(E, t, w) \in SUBSET CycleStates
  <2>1. CASE w.is # "walking" \/ w.stack = <<>>
    BY <2>1 DEF CycleStep, CycleStates
  <2>2. CASE w.is = "walking" /\ w.stack # <<>>
    <3>1. w.stack \in Seq(Tasks) BY DEF CycleStates
    <3>2. Front(w.stack) \in Seq(Tasks) /\ Last(w.stack) \in Tasks
      BY <2>2, <3>1, Pops
    <3>3. E[Last(w.stack)] \in SUBSET Tasks BY <3>2 DEF DepsType
    <3>4. ASSUME NEW new \in SetToSeqs(E[Last(w.stack)])
          PROVE  Front(w.stack) \o new \in Seq(Tasks)
      <4>1. new \in Seq(Tasks) BY <3>3, Listings
      <4>2. QED BY <3>2, <4>1, Pushes
    <3>5. ASSUME NEW new \in SetToSeqs(E[Last(w.stack)])
          PROVE  [w EXCEPT !.stack = Front(w.stack) \o new,
                           !.visited = @ \cup {Last(w.stack)}] \in CycleStates
      BY <3>2, <3>4 DEF CycleStates
    <3>6. /\ [w EXCEPT !.is = "found"] \in CycleStates
          /\ [w EXCEPT !.stack = Front(w.stack)] \in CycleStates
      BY <3>2 DEF CycleStates
    <3>7. QED BY <2>2, <3>5, <3>6 DEF CycleStep
  <2>3. QED BY <2>1, <2>2
<1>3. step \in [CycleStates -> SUBSET CycleStates] /\ \A w \in CycleStates : step[w] = CycleStep(E, t, w)
  BY <1>2
<1> HIDE DEF step
<1>4. PICK f : Iterates(f, CycleStates, w0, step)
  BY <1>1, <1>3, Iteration
<1>5. /\ f \in [Nat -> SUBSET CycleStates] /\ f[0] = {w0}
      /\ \A n \in Nat : f[n + 1] = UNION {step[w] : w \in f[n]}
  BY <1>4 DEF Iterates
<1>6. \A n \in Nat : f[n + 1] = UNION {CycleStep(E, t, w) : w \in f[n]}
  BY <1>3, <1>5
<1>7. f = [n \in Nat |->
              IF n = 0
              THEN {[is |-> IF t = d THEN "found" ELSE "walking", stack |-> <<d>>, visited |-> {}]}
              ELSE UNION {CycleStep(E, t, w) : w \in f[n - 1]}]
  <2>1. ASSUME NEW n \in Nat, n # 0 PROVE f[n] = UNION {CycleStep(E, t, w) : w \in f[n - 1]}
    <3>1. n - 1 \in Nat /\ (n - 1) + 1 = n BY <2>1
    <3>2. QED BY <1>6, <3>1
  <2>2. QED BY <1>5, <2>1 DEF CycleStart
<1>8. CycleLoop(E, t, d) =
          [n \in Nat |->
              IF n = 0
              THEN {[is |-> IF t = d THEN "found" ELSE "walking", stack |-> <<d>>, visited |-> {}]}
              ELSE UNION {CycleStep(E, t, w) : w \in CycleLoop(E, t, d)[n - 1]}]
  BY <1>7, Zenon DEF CycleLoop
<1> DEFINE L == CycleLoop(E, t, d)
<1> HIDE DEF L
<1>9. L = [n \in Nat |-> IF n = 0 THEN {w0} ELSE UNION {CycleStep(E, t, w) : w \in L[n - 1]}]
  BY <1>8 DEF L, CycleStart
<1>10. L[0] = {w0} BY <1>9
<1>11. ASSUME NEW n \in Nat PROVE L[n + 1] = UNION {CycleStep(E, t, w) : w \in L[n]}
  <2>1. n + 1 \in Nat /\ n + 1 # 0 /\ (n + 1) - 1 = n OBVIOUS
  <2>2. QED BY <1>9, <2>1
<1>12. QED BY <1>10, <1>11 DEF L

(* would_create_cycle decides reachability, on any graph.                    *)
LEMMA CycleWalkDecides ==
    ASSUME NEW E \in DepsType, NEW t \in Tasks, NEW d \in Tasks
    PROVE  CycleWalk(E, t, d) = {IF would_create_cycle(E, t, d) THEN "found" ELSE "none"}
<1> DEFINE L == CycleLoop(E, t, d)
           Kept(n) == L[n] # {} /\ \A w \in L[n] : CycleInvariant(E, t, d, n, w)
           S == {n \in Nat : Kept(n)}
<1>1. 0 \in S
  <2> DEFINE w == CycleStart(t, d)
  <2>1. w \in CycleStates /\ w.stack = <<d>> /\ w.visited = {} /\ w.is = IF t = d THEN "found" ELSE "walking"
    BY DEF CycleStart, CycleStates
  <2> HIDE DEF w
  <2>2. ToSet(w.stack) = {d} /\ Len(w.stack) = 1 BY <2>1 DEF ToSet
  <2>3. Cardinality(w.visited) = 0 BY <2>1, FS_EmptySet
  <2>4. d \in Reachable(E, d) BY ReachableIsLeast
  <2>5. Cardinality(Tasks) \in Nat BY Listings
  <2>6. 0 + Len(w.stack) <= 1 + Cardinality(Tasks) * Cardinality(w.visited)
    BY <2>2, <2>3, <2>5
  <2>7. CycleInvariant(E, t, d, 0, w)
    BY <2>1, <2>2, <2>4, <2>6 DEF CycleInvariant
  <2>8. L[0] = {w} BY CycleLoopUnfolds DEF w
  <2>9. QED BY <2>7, <2>8
<1>2. ASSUME NEW n \in Nat, n \in S PROVE n + 1 \in S
  <2>1. L[n + 1] = UNION {CycleStep(E, t, w) : w \in L[n]} BY CycleLoopUnfolds
  <2> HIDE DEF L
  <2>2. \A w \in L[n] : CycleStep(E, t, w) # {}
                        /\ \A x \in CycleStep(E, t, w) : CycleInvariant(E, t, d, n + 1, x)
    BY <1>2, CycleStepKeeps
  <2>3. L[n] # {} BY <1>2
  <2>4. QED BY <2>1, <2>2, <2>3
<1>3. Nat \subseteq S BY <1>1, <1>2, Induction
<1> DEFINE N == Cardinality(Tasks)
<1>4. N \in Nat /\ N * N \in Nat
  <2>1. N \in Nat BY Listings
  <2>2. QED BY <2>1
<1>5. CycleIterations \in Nat /\ CycleIterations = N * N + 2
  BY <1>4 DEF CycleIterations
<1>6. Kept(CycleIterations) BY <1>3, <1>5
<1> HIDE DEF L, N
<1>7. ASSUME NEW w \in L[CycleIterations]
      PROVE  w.is = IF would_create_cycle(E, t, d) THEN "found" ELSE "none"
  <2>1. CycleInvariant(E, t, d, CycleIterations, w) BY <1>6, <1>7
  <2>2. w.is \in {"walking", "found", "none"} /\ w.visited \in SUBSET Tasks /\ Len(w.stack) \in Nat
    BY <2>1 DEF CycleInvariant, CycleStates
  <2>3. w.is # "walking"
    <3> SUFFICES ASSUME w.is = "walking" PROVE FALSE OBVIOUS
    <3> DEFINE V == Cardinality(w.visited)
    <3>1. V \in Nat /\ V <= N BY <2>2, Listings DEF N
    <3>2. CycleIterations + Len(w.stack) <= 1 + N * V BY <2>1 DEF CycleInvariant, N
    <3> HIDE DEF V
    <3>3. N * V <= N * N
      <4>1. \A a, b, c \in Nat : a <= b => c * a <= c * b OBVIOUS
      <4>2. QED BY <1>4, <3>1, <4>1
    <3>4. N * V \in Nat BY <1>4, <3>1
    <3> DEFINE P == N * V
               Q == N * N
    <3>5. P \in Nat /\ Q \in Nat /\ P <= Q /\ Q + 2 + Len(w.stack) <= 1 + P
      BY <1>4, <1>5, <3>2, <3>3, <3>4
    <3> HIDE DEF P, Q
    <3>6. \A p, q, l \in Nat : p <= q => ~(q + 2 + l <= 1 + p) OBVIOUS
    <3>7. QED BY <2>2, <3>5, <3>6
  <2>4. QED BY <2>1, <2>2, <2>3 DEF CycleInvariant, would_create_cycle
<1>8. CycleWalk(E, t, d) = {w.is : w \in L[CycleIterations]} BY DEF CycleWalk, L
<1>9. QED BY <1>6, <1>7, <1>8

(* The states of the loop of propagate_failure.                              *)
FailStates == [work : Seq(Tasks), graph : StateType]

\* After n iterations, when f failed in a graph with states s.
FailInvariant(E, s, f, n, w) ==
    /\ w \in FailStates
    /\ ToSet(w.work) \subseteq {f} \cup Cascade(E, s, {f})
    /\ \A u \in Tasks :
          \/ w.graph[u] = s[u]
          \/ u \in Cascade(E, s, {f}) /\ w.graph[u] = "failed"
    /\ \A u \in Waiting(w.graph) :
          E[u] \cap ({f} \cup (Waiting(s) \ Waiting(w.graph))) \subseteq ToSet(w.work)
    /\ w.work # <<>> =>
          n + Len(w.work) + Cardinality(Waiting(w.graph)) <= 1 + Cardinality(Waiting(s))

(* One iteration keeps it, whatever the order of the nodes.                  *)
LEMMA FailStepKeeps ==
    ASSUME NEW E \in DepsType, NEW s \in StateType, NEW f \in Tasks, NEW n \in Nat,
           NEW w, FailInvariant(E, s, f, n, w)
    PROVE  /\ FailStep(E, w) # {}
           /\ \A x \in FailStep(E, w) : FailInvariant(E, s, f, n + 1, x)
<1> DEFINE C == Cascade(E, s, {f})
           g == w.graph
<1>1. w \in FailStates /\ g \in StateType /\ w.work \in Seq(Tasks)
  BY DEF FailInvariant, FailStates
<1>2. FailureClosed(E, s, {f}, C) /\ C \subseteq Waiting(s)
  BY CascadeIsClosed
<1>3. CASE w.work = <<>>
  <2>1. FailStep(E, w) = {w} BY <1>3 DEF FailStep
  <2>2. FailInvariant(E, s, f, n + 1, w) BY <1>3 DEF FailInvariant
  <2>3. QED BY <2>1, <2>2
<1>4. CASE w.work # <<>>
  <2> DEFINE src  == Last(w.work)
             rest == Front(w.work)
             hit  == {t \in Waiting(g) : src \in E[t]}
             h    == set_state(g, hit, "failed")
             Pushed(new) == [work |-> rest \o new, graph |-> h]
  <2>1. FailStep(E, w) = {Pushed(new) : new \in SetToSeqs(hit)}
    BY <1>4 DEF FailStep
  <2>2. hit \in SUBSET Tasks /\ hit \subseteq Waiting(g)
    BY DEF Waiting
  <2>3. SetToSeqs(hit) # {} BY <2>2, Listings
  <2>4. /\ rest \in Seq(Tasks) /\ Len(rest) = Len(w.work) - 1 /\ Len(w.work) \in Nat
        /\ src \in Tasks /\ ToSet(w.work) = ToSet(rest) \cup {src}
    BY <1>1, <1>4, Pops
  <2>5. /\ ToSet(w.work) \subseteq {f} \cup C
        /\ \A u \in Tasks : g[u] = s[u] \/ (u \in C /\ g[u] = "failed")
        /\ \A u \in Waiting(g) :
              E[u] \cap ({f} \cup (Waiting(s) \ Waiting(g))) \subseteq ToSet(w.work)
        /\ n + Len(w.work) + Cardinality(Waiting(g)) <= 1 + Cardinality(Waiting(s))
    BY <1>4 DEF FailInvariant
  <2>6. h \in StateType /\ \A u \in Tasks : h[u] = IF u \in hit THEN "failed" ELSE g[u]
    <3>1. "failed" \in TaskState BY DEF TaskState
    <3>2. \A u \in hit : g[u] # "absent" BY <2>2 DEF Waiting
    <3>3. /\ h \in StateType
          /\ \A u \in Tasks : h[u] = IF u \in hit /\ g[u] # "absent" THEN "failed" ELSE g[u]
      <4> HIDE DEF hit, g
      <4>1. QED BY <1>1, <2>2, <3>1, SetStateFacts
    <3> HIDE DEF h, hit
    <3>4. QED BY <3>2, <3>3
  <2>7. Waiting(g) \subseteq Waiting(s)
    BY <2>5 DEF Waiting
  <2>8. hit \subseteq C
    <3> SUFFICES ASSUME NEW u \in hit PROVE u \in C OBVIOUS
    <3>1. u \in Waiting(s) /\ src \in E[u] BY <2>7
    <3>2. src \in {f} \cup C BY <2>4, <2>5
    <3>3. QED BY <1>2, <3>1, <3>2 DEF FailureClosed
  <2>h. \A u \in hit : src \in E[u]
    OBVIOUS
  <2>i. \A u \in Waiting(g) : src \in E[u] => u \in hit
    OBVIOUS
  <2> HIDE DEF src, rest, hit, h
  <2>9. Waiting(h) = Waiting(g) \ hit
    BY <2>6 DEF Waiting
  <2>10. ASSUME NEW new \in SetToSeqs(hit)
         PROVE  FailInvariant(E, s, f, n + 1, Pushed(new))
    <3> DEFINE x == Pushed(new)
               K == Cardinality(hit)
               A == Cardinality(Waiting(g))
    <3>1. new \in Seq(Tasks) /\ Len(new) = K /\ ToSet(new) = hit /\ K \in Nat
      BY <2>2, <2>10, Listings
    <3>2. /\ rest \o new \in Seq(Tasks) /\ Len(rest \o new) = Len(rest) + K
          /\ ToSet(rest \o new) = ToSet(rest) \cup hit
      BY <2>4, <3>1, Pushes
    <3>3. x \in FailStates /\ x.work = rest \o new /\ x.graph = h
      BY <2>6, <3>2 DEF FailStates
    <3>4. Cardinality(Waiting(h)) = A - K /\ A \in Nat
      <4>1. Waiting(g) \in SUBSET Tasks /\ Waiting(h) \in SUBSET Tasks BY DEF Waiting
      <4>2. /\ IsFiniteSet(Waiting(g)) /\ IsFiniteSet(Waiting(h)) /\ IsFiniteSet(hit)
            /\ A \in Nat /\ Cardinality(Waiting(h)) \in Nat
        BY <2>2, <4>1, Listings
      <4>3. Waiting(h) \cup hit = Waiting(g) /\ Waiting(h) \cap hit = {} BY <2>2, <2>9
      <4>4. Cardinality(Waiting(h) \cup hit) =
                Cardinality(Waiting(h)) + K - Cardinality(Waiting(h) \cap hit)
        BY <4>2, FS_Union
      <4>5. Cardinality(Waiting(h) \cap hit) = 0 BY <4>3, FS_EmptySet
      <4>6. A = Cardinality(Waiting(h)) + K - 0 BY <4>3, <4>4, <4>5
      <4>7. \A a, b, c \in Nat : a = b + c - 0 => b = a - c OBVIOUS
      <4> HIDE DEF A, K
      <4>8. QED BY <3>1, <4>2, <4>6, <4>7
    <3> HIDE DEF x, K, A
    <3>5. ToSet(x.work) \subseteq {f} \cup C BY <2>4, <2>5, <2>8, <3>2, <3>3
    <3>6. \A u \in Tasks : x.graph[u] = s[u] \/ (u \in C /\ x.graph[u] = "failed")
      BY <2>5, <2>6, <2>8, <3>3
    <3>7. ASSUME NEW u \in Waiting(h)
          PROVE  E[u] \cap ({f} \cup (Waiting(s) \ Waiting(h))) \subseteq ToSet(x.work)
      <4>1. u \in Waiting(g) /\ u \notin hit BY <2>9, <3>7
      <4>2. src \notin E[u] BY <2>i, <4>1
      <4>3. Waiting(s) \ Waiting(h) \subseteq (Waiting(s) \ Waiting(g)) \cup hit BY <2>9
      <4>4. E[u] \cap ({f} \cup (Waiting(s) \ Waiting(g))) \subseteq ToSet(w.work) BY <2>5, <4>1
      <4>5. QED BY <2>4, <3>2, <3>3, <4>2, <4>3, <4>4
    <3>8. n + 1 + Len(x.work) + Cardinality(Waiting(x.graph)) <= 1 + Cardinality(Waiting(s))
      <4>1. Len(x.work) = Len(w.work) - 1 + K BY <2>4, <3>2, <3>3
      <4>2. Cardinality(Waiting(s)) \in Nat
        <5>1. Waiting(s) \in SUBSET Tasks BY DEF Waiting
        <5>2. QED BY <5>1, Listings
      <4>3. n + Len(w.work) + A <= 1 + Cardinality(Waiting(s)) BY <2>5 DEF A
      <4>4. \A a, l, b, k, m \in Nat :
               a + l + b <= 1 + m => a + 1 + (l - 1 + k) + (b - k) <= 1 + m
        OBVIOUS
      <4>5. n + 1 + (Len(w.work) - 1 + K) + (A - K) <= 1 + Cardinality(Waiting(s))
        BY <2>4, <3>1, <3>4, <4>2, <4>3, <4>4 DEF K
      <4>6. QED BY <3>3, <3>4, <4>1, <4>5
    <3>9. FailInvariant(E, s, f, n + 1, x)
      BY <3>3, <3>5, <3>6, <3>7, <3>8 DEF FailInvariant
    <3>10. QED BY <3>9 DEF x
  <2>11. QED BY <2>1, <2>3, <2>10
<1>5. QED BY <1>3, <1>4

FailStart(s, f) == [work |-> <<f>>, graph |-> set_state(s, {f}, "failed")]

LEMMA FailLoopUnfolds ==
    ASSUME NEW E \in DepsType, NEW s \in StateType, NEW f \in Tasks
    PROVE  /\ FailLoop(E, s, f)[0] = {FailStart(s, f)}
           /\ \A n \in Nat :
                 FailLoop(E, s, f)[n + 1] = UNION {FailStep(E, w) : w \in FailLoop(E, s, f)[n]}
<1> DEFINE w0 == FailStart(s, f)
           step == [w \in FailStates |-> FailStep(E, w)]
<1>0. "failed" \in TaskState
  BY DEF TaskState
<1>1. w0 \in FailStates
  <2>1. set_state(s, {f}, "failed") \in StateType BY <1>0, SetStateFacts
  <2>2. QED BY <2>1 DEF FailStart, FailStates
<1>2. ASSUME NEW w \in FailStates PROVE FailStep(E, w) \in SUBSET FailStates
  <2>1. CASE w.work = <<>> BY <2>1 DEF FailStep
  <2>2. CASE w.work # <<>>
    <3> DEFINE hit == {t \in Waiting(w.graph) : Last(w.work) \in E[t]}
    <3>1. w.work \in Seq(Tasks) /\ w.graph \in StateType BY DEF FailStates
    <3>2. Front(w.work) \in Seq(Tasks) BY <2>2, <3>1, Pops
    <3>3. hit \in SUBSET Tasks BY DEF Waiting
    <3>4. FailStep(E, w) = {[work |-> Front(w.work) \o new,
                             graph |-> set_state(w.graph, hit, "failed")] : new \in SetToSeqs(hit)}
      BY <2>2 DEF FailStep
    <3> HIDE DEF hit
    <3>5. set_state(w.graph, hit, "failed") \in StateType BY <1>0, <3>1, <3>3, SetStateFacts
    <3>6. ASSUME NEW new \in SetToSeqs(hit) PROVE Front(w.work) \o new \in Seq(Tasks)
      <4>1. new \in Seq(Tasks) BY <3>3, Listings
      <4>2. QED BY <3>2, <4>1, Pushes
    <3>7. \A new \in SetToSeqs(hit) :
             [work |-> Front(w.work) \o new, graph |-> set_state(w.graph, hit, "failed")] \in FailStates
      BY <3>5, <3>6 DEF FailStates
    <3>8. QED BY <3>4, <3>7
  <2>3. QED BY <2>1, <2>2
<1>3. step \in [FailStates -> SUBSET FailStates] /\ \A w \in FailStates : step[w] = FailStep(E, w)
  BY <1>2
<1> HIDE DEF step
<1>4. PICK h : Iterates(h, FailStates, w0, step)
  BY <1>1, <1>3, Iteration
<1>5. /\ h \in [Nat -> SUBSET FailStates] /\ h[0] = {w0}
      /\ \A n \in Nat : h[n + 1] = UNION {step[w] : w \in h[n]}
  BY <1>4 DEF Iterates
<1>6. \A n \in Nat : h[n + 1] = UNION {FailStep(E, w) : w \in h[n]}
  BY <1>3, <1>5
<1>7. h = [n \in Nat |-> IF n = 0 THEN {[work |-> <<f>>, graph |-> set_state(s, {f}, "failed")]}
                         ELSE UNION {FailStep(E, w) : w \in h[n - 1]}]
  <2>1. ASSUME NEW n \in Nat, n # 0 PROVE h[n] = UNION {FailStep(E, w) : w \in h[n - 1]}
    <3>1. n - 1 \in Nat /\ (n - 1) + 1 = n BY <2>1
    <3>2. QED BY <1>6, <3>1
  <2>2. QED BY <1>5, <2>1 DEF FailStart
<1>8. FailLoop(E, s, f) =
          [n \in Nat |-> IF n = 0 THEN {[work |-> <<f>>, graph |-> set_state(s, {f}, "failed")]}
                         ELSE UNION {FailStep(E, w) : w \in FailLoop(E, s, f)[n - 1]}]
  BY <1>7, Zenon DEF FailLoop
<1> DEFINE L == FailLoop(E, s, f)
<1> HIDE DEF L
<1>9. L = [n \in Nat |-> IF n = 0 THEN {w0} ELSE UNION {FailStep(E, w) : w \in L[n - 1]}]
  BY <1>8 DEF L, FailStart
<1>10. L[0] = {w0} BY <1>9
<1>11. ASSUME NEW n \in Nat PROVE L[n + 1] = UNION {FailStep(E, w) : w \in L[n]}
  <2>1. n + 1 \in Nat /\ n + 1 # 0 /\ (n + 1) - 1 = n OBVIOUS
  <2>2. QED BY <1>9, <2>1
<1>12. QED BY <1>10, <1>11 DEF L

(* set_state and propagate_failure for one task, on any graph.               *)
LEMMA FailLoopFails ==
    ASSUME NEW E \in DepsType, NEW s \in StateType, NEW f \in Tasks
    PROVE  {w.graph : w \in FailLoop(E, s, f)[FailIterations]} = {fail_all(E, s, {f})}
<1> DEFINE s1 == set_state(s, {f}, "failed")
           C  == Cascade(E, s1, {f})
           L  == FailLoop(E, s, f)
           Kept(n) == L[n] # {} /\ \A w \in L[n] : FailInvariant(E, s1, f, n, w)
           S  == {n \in Nat : Kept(n)}
<1>1. "failed" \in TaskState
  BY DEF TaskState
<1>2. s1 \in StateType /\ f \notin Waiting(s1)
  BY <1>1, SetStateFacts DEF Waiting
<1>3. FailureClosed(E, s1, {f}, C) /\ C \subseteq Waiting(s1) /\ C \in SUBSET Tasks
  BY <1>2, CascadeIsClosed DEF Waiting
<1>4. 0 \in S
  <2> DEFINE w == FailStart(s, f)
  <2>1. w \in FailStates /\ w.work = <<f>> /\ w.graph = s1
    BY <1>2 DEF FailStart, FailStates
  <2>2. L[0] = {w} BY FailLoopUnfolds
  <2> HIDE DEF w, s1
  <2>3. ToSet(w.work) = {f} /\ Len(w.work) = 1 BY <2>1 DEF ToSet
  <2>4. Cardinality(Waiting(s1)) \in Nat
    <3>1. Waiting(s1) \in SUBSET Tasks BY DEF Waiting
    <3>2. QED BY <3>1, Listings
  <2>5. 0 + Len(w.work) + Cardinality(Waiting(w.graph)) <= 1 + Cardinality(Waiting(s1))
    BY <2>1, <2>3, <2>4
  <2>6. FailInvariant(E, s1, f, 0, w) BY <2>1, <2>3, <2>5 DEF FailInvariant
  <2>7. QED BY <2>2, <2>6
<1> HIDE DEF s1, L
<1>5. ASSUME NEW n \in Nat, n \in S PROVE n + 1 \in S
  <2>1. L[n + 1] = UNION {FailStep(E, w) : w \in L[n]} BY FailLoopUnfolds DEF L
  <2>2. \A w \in L[n] : FailStep(E, w) # {} /\ \A x \in FailStep(E, w) : FailInvariant(E, s1, f, n + 1, x)
    BY <1>2, <1>5, FailStepKeeps
  <2>3. L[n] # {} BY <1>5
  <2>4. QED BY <2>1, <2>2, <2>3
<1>6. Nat \subseteq S BY <1>4, <1>5, Induction
<1> DEFINE N == Cardinality(Tasks)
<1>7. N \in Nat BY Listings
<1>8. FailIterations \in Nat /\ FailIterations = N + 1 BY <1>7 DEF FailIterations
<1>9. Kept(FailIterations) BY <1>6, <1>8
<1> HIDE DEF C, N
<1>10. ASSUME NEW w \in L[FailIterations] PROVE w.graph = set_state(s1, C, "failed")
  <2> DEFINE g == w.graph
             P == Waiting(s1) \ Waiting(g)
  <2>1. FailInvariant(E, s1, f, FailIterations, w) BY <1>9, <1>10
  <2>2. g \in StateType /\ w.work \in Seq(Tasks) /\ Len(w.work) \in Nat
    BY <2>1 DEF FailInvariant, FailStates
  <2>3. w.work = <<>>
    <3> SUFFICES ASSUME w.work # <<>> PROVE FALSE OBVIOUS
    <3>1. Waiting(g) \in SUBSET Tasks /\ Waiting(s1) \in SUBSET Tasks BY DEF Waiting
    <3>2. /\ Cardinality(Waiting(g)) \in Nat /\ Cardinality(Waiting(s1)) \in Nat
          /\ Cardinality(Waiting(s1)) <= N
      BY <3>1, Listings DEF N
    <3>3. FailIterations + Len(w.work) + Cardinality(Waiting(g)) <= 1 + Cardinality(Waiting(s1))
      BY <2>1 DEF FailInvariant
    <3>4. Len(w.work) # 0 BY <2>2
    <3>5. \A a, b, c, m \in Nat : b # 0 /\ m <= a => ~(a + 1 + b + c <= 1 + m) OBVIOUS
    <3>6. QED BY <1>7, <1>8, <2>2, <3>2, <3>3, <3>4, <3>5
  <2>4. /\ \A u \in Tasks : g[u] = s1[u] \/ (u \in C /\ g[u] = "failed")
        /\ \A u \in Waiting(g) : E[u] \cap ({f} \cup P) = {}
    <3>1. ToSet(w.work) = {} BY <2>3 DEF ToSet
    <3>2. QED BY <2>1, <3>1 DEF FailInvariant, C
  <2> HIDE DEF g
  <2>5. FailureClosed(E, s1, {f}, P) /\ P \in SUBSET Tasks
    BY <2>4 DEF FailureClosed, Waiting
  <2>6. C \subseteq P BY <2>5 DEF Cascade, C
  <2>7. ASSUME NEW u \in Tasks
        PROVE  g[u] = IF u \in C /\ s1[u] # "absent" THEN "failed" ELSE s1[u]
    <3>1. CASE u \in C
      <4>1. u \in Waiting(s1) /\ u \notin Waiting(g) BY <2>6, <3>1
      <4>2. g[u] # s1[u] /\ s1[u] # "absent" BY <4>1 DEF Waiting
      <4>3. QED BY <2>4, <3>1, <4>2
    <3>2. CASE u \notin C BY <2>4, <3>2
    <3>3. QED BY <3>1, <3>2
  <2>8. g = [u \in Tasks |-> IF u \in C /\ s1[u] # "absent" THEN "failed" ELSE s1[u]]
    BY <2>2, <2>7 DEF StateType
  <2>9. QED BY <2>8 DEF set_state, g
<1>11. fail_all(E, s, {f}) = set_state(s1, C, "failed") BY DEF fail_all, propagate_failure, s1, C
<1>12. QED BY <1>9, <1>10, <1>11 DEF L

(* Failing tasks one after the other is failing them at once.                *)
LEMMA FailAllOneMore ==
    ASSUME NEW E \in DepsType, NEW s \in StateType, NEW A \in SUBSET Tasks, NEW x \in Tasks
    PROVE  fail_all(E, fail_all(E, s, A), {x}) = fail_all(E, s, A \cup {x})
<1> DEFINE s1 == set_state(s, A, "failed")
           C  == Cascade(E, s1, A)
           g  == set_state(s1, C, "failed")
           g1 == set_state(g, {x}, "failed")
           B  == Cascade(E, g1, {x})
           h1 == set_state(s, A \cup {x}, "failed")
           D  == Cascade(E, h1, A \cup {x})
<1>1. /\ fail_all(E, s, A) = g
      /\ fail_all(E, g, {x}) = set_state(g1, B, "failed")
      /\ fail_all(E, s, A \cup {x}) = set_state(h1, D, "failed")
  BY DEF fail_all, propagate_failure
<1>2. "failed" \in TaskState
  BY DEF TaskState
<1>3. /\ s1 \in StateType
      /\ \A u \in Tasks : s1[u] = IF u \in A /\ s[u] # "absent" THEN "failed" ELSE s[u]
  BY <1>2, SetStateFacts
<1>4. /\ h1 \in StateType
      /\ \A u \in Tasks : h1[u] = IF u \in A \cup {x} /\ s[u] # "absent" THEN "failed" ELSE s[u]
  BY <1>2, SetStateFacts
<1> HIDE DEF s1, h1
<1>5. C \subseteq Waiting(s1) /\ FailureClosed(E, s1, A, C) /\ C \in SUBSET Tasks
  BY <1>3, CascadeIsClosed DEF Waiting
<1>6. D \subseteq Waiting(h1) /\ FailureClosed(E, h1, A \cup {x}, D) /\ D \in SUBSET Tasks
  BY <1>4, CascadeIsClosed DEF Waiting
<1>c. \A S \in SUBSET Tasks : FailureClosed(E, s1, A, S) => C \subseteq S
  BY DEF Cascade
<1>d. \A S \in SUBSET Tasks : FailureClosed(E, h1, A \cup {x}, S) => D \subseteq S
  BY DEF Cascade
<1> HIDE DEF C, D
<1>7. /\ g \in StateType
      /\ \A u \in Tasks : g[u] = IF u \in C /\ s1[u] # "absent" THEN "failed" ELSE s1[u]
  BY <1>2, <1>3, <1>5, SetStateFacts
<1> HIDE DEF g
<1>8. /\ g1 \in StateType
      /\ \A u \in Tasks : g1[u] = IF u \in {x} /\ g[u] # "absent" THEN "failed" ELSE g[u]
  <2>1. {x} \in SUBSET Tasks OBVIOUS
  <2> DEFINE X == {x}
  <2> HIDE DEF X
  <2>2. /\ set_state(g, X, "failed") \in StateType
        /\ \A u \in Tasks : set_state(g, X, "failed")[u] =
                                IF u \in X /\ g[u] # "absent" THEN "failed" ELSE g[u]
    BY <1>2, <1>7, <2>1, SetStateFacts DEF X
  <2>3. QED BY <2>2 DEF X
<1> HIDE DEF g1
<1>9. B \subseteq Waiting(g1) /\ FailureClosed(E, g1, {x}, B) /\ B \in SUBSET Tasks
  BY <1>8, CascadeIsClosed DEF Waiting
<1>b. \A S \in SUBSET Tasks : FailureClosed(E, g1, {x}, S) => B \subseteq S
  BY DEF Cascade
<1> HIDE DEF B
<1>10. /\ Waiting(h1) = Waiting(s1) \ {x}
       /\ Waiting(g1) = Waiting(s1) \ (C \cup {x})
  BY <1>3, <1>4, <1>5, <1>7, <1>8 DEF Waiting
<1>11. C \subseteq D \cup {x}
  <2>1. FailureClosed(E, s1, A, D \cup {x})
    <3> SUFFICES ASSUME NEW u \in Waiting(s1), E[u] \cap (A \cup (D \cup {x})) # {}, u # x
                 PROVE  u \in D
      BY DEF FailureClosed
    <3>1. u \in Waiting(h1) /\ E[u] \cap ((A \cup {x}) \cup D) # {} BY <1>10
    <3>2. QED BY <1>6, <3>1 DEF FailureClosed
  <2>2. QED BY <1>6, <1>c, <2>1
<1>12. B \subseteq D
  <2>1. FailureClosed(E, g1, {x}, D)
    <3> SUFFICES ASSUME NEW u \in Waiting(g1), E[u] \cap ({x} \cup D) # {} PROVE u \in D
      BY DEF FailureClosed
    <3>1. u \in Waiting(h1) /\ E[u] \cap ((A \cup {x}) \cup D) # {} BY <1>10
    <3>2. QED BY <1>6, <3>1 DEF FailureClosed
  <2>2. QED BY <1>6, <1>b, <2>1
<1>13. D \subseteq C \cup B
  <2>1. FailureClosed(E, h1, A \cup {x}, C \cup B)
    <3> SUFFICES ASSUME NEW u \in Waiting(h1), E[u] \cap ((A \cup {x}) \cup (C \cup B)) # {},
                        u \notin C
                 PROVE  u \in B
      BY DEF FailureClosed
    <3>1. u \in Waiting(s1) /\ u \in Waiting(g1) BY <1>10
    <3>2. E[u] \cap (A \cup C) = {} BY <1>5, <3>1 DEF FailureClosed
    <3>3. E[u] \cap ({x} \cup B) # {} BY <3>2
    <3>4. QED BY <1>9, <3>1, <3>3 DEF FailureClosed
  <2>2. QED BY <1>5, <1>9, <1>d, <2>1
<1>14. ASSUME NEW u \in Tasks
       PROVE  (IF u \in B /\ g1[u] # "absent" THEN "failed" ELSE g1[u])
              = (IF u \in D /\ h1[u] # "absent" THEN "failed" ELSE h1[u])
  <2>1. CASE s[u] = "absent" BY <1>3, <1>4, <1>7, <1>8, <2>1
  <2>2. CASE s[u] # "absent" /\ u \in A \cup {x} BY <1>3, <1>4, <1>7, <1>8, <2>2
  <2>3. CASE s[u] # "absent" /\ u \notin A \cup {x} /\ u \in D
    BY <1>3, <1>4, <1>7, <1>8, <1>13, <2>3
  <2>4. CASE s[u] # "absent" /\ u \notin A \cup {x} /\ u \notin D
    BY <1>3, <1>4, <1>7, <1>8, <1>11, <1>12, <2>4
  <2>5. QED BY <2>1, <2>2, <2>3, <2>4
<1>15. set_state(g1, B, "failed") = set_state(h1, D, "failed")
  BY <1>14 DEF set_state
<1>16. QED BY <1>1, <1>15

(* The loop of the "failed" heartbeat, on any graph.                         *)
LEMMA FailEachFails ==
    ASSUME NEW E \in DepsType, NEW s \in StateType, NEW list \in Seq(Tasks)
    PROVE  FailEach(E, list, s) = {fail_all(E, s, ToSet(list))}
<1> DEFINE n == Len(list)
           Upto(i) == {list[j] : j \in 1..i}
           Fails(v, W) == UNION {{w.graph : w \in FailLoop(E, v2, v)[FailIterations]} : v2 \in W}
           Good(f) == f = [i \in 0..n |->
                              IF i = 0 THEN {s}
                              ELSE UNION {{w.graph : w \in FailLoop(E, g, list[i])[FailIterations]} :
                                             g \in f[i - 1]}]
           F == [i \in 0..n |-> {fail_all(E, s, Upto(i))}]
<1>1. n \in Nat /\ DOMAIN list = 1..n /\ \A i \in 1..n : list[i] \in Tasks
  OBVIOUS
<1>2. \A i \in 0..n : Upto(i) \in SUBSET Tasks
  <2>1. \A i \in 0..n : \A j \in 1..i : j \in 1..n BY <1>1
  <2>2. QED BY <1>1, <2>1
<1>3. \A i \in 1..n : i - 1 \in 0..n /\ Upto(i) = Upto(i - 1) \cup {list[i]}
  <2> SUFFICES ASSUME NEW i \in 1..n PROVE i - 1 \in 0..n /\ Upto(i) = Upto(i - 1) \cup {list[i]}
    OBVIOUS
  <2>1. i - 1 \in 0..n /\ 1..i = (1..(i - 1)) \cup {i} BY <1>1
  <2>2. QED BY <2>1
<1>4. fail_all(E, s, Upto(0)) = s
  <2>1. Upto(0) = {} BY <1>1
  <2>2. FailureClosed(E, s, {}, {}) BY DEF FailureClosed
  <2>3. Cascade(E, s, {}) = {} BY <2>2 DEF Cascade
  <2>4. set_state(s, {}, "failed") = s BY DEF set_state, StateType
  <2>5. fail_all(E, s, {}) = s BY <2>3, <2>4 DEF fail_all, propagate_failure
  <2>6. QED BY <2>1, <2>5
<1> HIDE DEF Upto
<1>5. ASSUME NEW i \in 1..n
      PROVE  Fails(list[i], {fail_all(E, s, Upto(i - 1))}) = {fail_all(E, s, Upto(i))}
  <2> DEFINE g == fail_all(E, s, Upto(i - 1))
  <2>1. Upto(i - 1) \in SUBSET Tasks /\ list[i] \in Tasks BY <1>1, <1>2, <1>3
  <2>2. g \in StateType BY <2>1, FailAllSpares
  <2>3. fail_all(E, g, {list[i]}) = fail_all(E, s, Upto(i)) BY <1>3, <2>1, FailAllOneMore
  <2> HIDE DEF g
  <2>4. {w.graph : w \in FailLoop(E, g, list[i])[FailIterations]} = {fail_all(E, g, {list[i]})}
    BY <2>1, <2>2, FailLoopFails
  <2>5. Fails(list[i], {g}) = {w.graph : w \in FailLoop(E, g, list[i])[FailIterations]} OBVIOUS
  <2>6. QED BY <2>3, <2>4, <2>5 DEF g
<1>6. Good(F)
  <2> HIDE DEF Fails
  <2>1. ASSUME NEW i \in 0..n
        PROVE  F[i] = IF i = 0 THEN {s} ELSE Fails(list[i], F[i - 1])
    <3>1. CASE i = 0 BY <1>4, <3>1
    <3>2. CASE i # 0
      <4>1. i \in 1..n /\ i - 1 \in 0..n BY <1>1, <3>2
      <4>2. QED BY <1>5, <3>2, <4>1
    <3>3. QED BY <3>1, <3>2
  <2> DEFINE b == [i \in 0..n |-> IF i = 0 THEN {s} ELSE Fails(list[i], F[i - 1])]
  <2>2. \A i \in 0..n : F[i] = b[i] BY <2>1
  <2>3. F = b BY <2>2
  <2>4. QED BY <2>3 DEF Fails
<1>7. PICK f : Good(f) /\ FailEach(E, list, s) = f[n]
  BY <1>6, Zenon DEF FailEach
<1>8. \A i \in 0..n : f[i] = IF i = 0 THEN {s} ELSE Fails(list[i], f[i - 1])
  BY <1>7
<1> HIDE DEF F, Fails
<1>9. \A i \in 0..n : f[i] = {fail_all(E, s, Upto(i))}
  <2> SUFFICES ASSUME NEW k \in 0..n, f[k] # {fail_all(E, s, Upto(k))} PROVE FALSE OBVIOUS
  <2> DEFINE D == {i \in Nat : i <= n /\ f[i] # {fail_all(E, s, Upto(i))}}
  <2>1. PICK m \in D : \A i \in D : m <= i
    <3>1. D \in SUBSET Nat /\ k \in D BY <1>1
    <3>2. QED BY <3>1, LeastNumber
  <2>2. m # 0
    <3>1. f[0] = {s} BY <1>1, <1>8
    <3>2. QED BY <1>4, <2>1, <3>1
  <2>3. m - 1 \in 0..n /\ m \in 1..n /\ m \in 0..n /\ m - 1 \notin D BY <1>1, <2>1, <2>2
  <2>4. f[m - 1] = {fail_all(E, s, Upto(m - 1))} BY <1>1, <2>3
  <2>5. f[m] = Fails(list[m], f[m - 1]) BY <1>8, <2>2, <2>3
  <2>6. QED BY <1>5, <2>1, <2>3, <2>4, <2>5
<1>10. n \in 0..n /\ Upto(n) = ToSet(list)
  BY <1>1 DEF Upto, ToSet
<1>11. QED BY <1>7, <1>9, <1>10

(* Each id of depends_on checked against the graph with the earlier ones     *)
(* added, on any graph.                                                      *)
LEMMA AcceptEachAccepts ==
    ASSUME NEW E \in DepsType, NEW s \in StateType, NEW t \in Tasks, NEW list \in Seq(Tasks)
    PROVE  AcceptEach(E, list, t, s) <=>
               \A d \in ToSet(list) : s[d] # "absent" /\ ~would_create_cycle(E, t, d)
<1> DEFINE n == Len(list)
           Upto(i) == {list[j] : j \in 1..(i - 1)}
           G(i) == add_dependencies(E, t, Upto(i))
<1>1. n \in Nat /\ DOMAIN list = 1..n /\ \A i \in 1..n : list[i] \in Tasks
  OBVIOUS
<1>2. ASSUME NEW i \in 1..n
      PROVE  /\ Upto(i) \in SUBSET Tasks /\ Upto(i) \subseteq ToSet(list)
             /\ G(i) \in DepsType /\ \A u \in Tasks : E[u] \subseteq G(i)[u]
             /\ \A u \in Tasks \ {t} : G(i)[u] = E[u]
  <2>1. \A j \in 1..(i - 1) : j \in 1..n BY <1>1
  <2>2. Upto(i) \in SUBSET Tasks /\ Upto(i) \subseteq ToSet(list) BY <1>1, <2>1 DEF ToSet
  <2> HIDE DEF Upto
  <2>3. QED BY <2>2 DEF add_dependencies, DepsType
<1> HIDE DEF G
<1>3. ASSUME AcceptEach(E, list, t, s), NEW d \in ToSet(list)
      PROVE  s[d] # "absent" /\ ~would_create_cycle(E, t, d)
  <2>1. PICK i \in 1..n : d = list[i] BY <1>1, <1>3 DEF ToSet
  <2>2. s[d] # "absent" /\ ~would_create_cycle(G(i), t, d)
    BY <1>1, <1>3, <2>1 DEF AcceptEach, G
  <2>3. d \in Tasks BY <1>1, <2>1
  <2> DEFINE R == Reachable(G(i), d)
  <2>4. d \in R /\ R \in SUBSET Tasks /\ DependencyClosed(G(i), R)
    BY <1>2, <2>3, ReachableIsLeast
  <2>5. t \notin R BY <2>2 DEF would_create_cycle
  <2>6. DependencyClosed(E, R) BY <1>2, <2>4 DEF DependencyClosed
  <2>7. t \notin Reachable(E, d) BY <2>4, <2>5, <2>6 DEF Reachable
  <2>8. QED BY <2>2, <2>7 DEF would_create_cycle
<1>4. ASSUME \A d \in ToSet(list) : s[d] # "absent" /\ ~would_create_cycle(E, t, d)
      PROVE  AcceptEach(E, list, t, s)
  <2>1. ASSUME NEW i \in 1..n PROVE s[list[i]] # "absent" /\ ~would_create_cycle(G(i), t, list[i])
    <3> DEFINE d == list[i]
               R == Reachable(E, d)
    <3>1. d \in Tasks /\ d \in ToSet(list) BY <1>1 DEF ToSet
    <3>2. s[d] # "absent" /\ t \notin R BY <1>4, <3>1 DEF would_create_cycle
    <3>3. d \in R /\ R \in SUBSET Tasks /\ DependencyClosed(E, R) BY <3>1, ReachableIsLeast
    <3> HIDE DEF R
    <3>4. DependencyClosed(G(i), R)
      <4>1. \A u \in R : u \in Tasks \ {t} BY <3>2, <3>3
      <4>2. QED BY <1>2, <3>3, <4>1 DEF DependencyClosed
    <3>5. t \notin Reachable(G(i), d) BY <3>2, <3>3, <3>4 DEF Reachable
    <3>6. QED BY <3>2, <3>5 DEF would_create_cycle
  <2>2. QED BY <1>1, <2>1 DEF AcceptEach, G
<1>5. QED BY <1>3, <1>4

(* The visited-set walk of would_create_cycle ends and decides reachability, *)
(* for any number of tasks and in any order of depends_on.                   *)
THEOREM CycleWalkDecidesReachability == Spec => []CycleWalkIsReachability
<1>1. TypeOK => CycleWalkIsReachability
  <2> SUFFICES ASSUME TypeOK, NEW t \in Tasks, NEW d \in Tasks
               PROVE  CycleWalk(deps, t, d) =
                          {IF would_create_cycle(deps, t, d) THEN "found" ELSE "none"}
    BY DEF CycleWalkIsReachability
  <2>1. deps \in DepsType BY DEF TypeOK, DepsType
  <2>2. QED BY <2>1, CycleWalkDecides
<1>2. QED BY <1>1, TypeCorrect, PTL

(* The work list of propagate_failure ends with the least cascade, and the   *)
(* loop of a "failed" heartbeat is one failure of all of its tasks.          *)
THEOREM FailureWalkIsLeast == Spec => []FailureWalkIsLeastCascade
<1>1. TypeOK => FailureWalkIsLeastCascade
  <2> SUFFICES ASSUME TypeOK, NEW D \in SUBSET Tasks, NEW list \in SetToSeqs(D)
               PROVE  FailEach(deps, list, tstate) = {fail_all(deps, tstate, D)}
    BY DEF FailureWalkIsLeastCascade
  <2>1. deps \in DepsType /\ tstate \in StateType BY DEF TypeOK, DepsType, StateType
  <2>2. list \in Seq(Tasks) /\ ToSet(list) = D BY Listings
  <2>3. QED BY <2>1, <2>2, FailEachFails
<1>2. QED BY <1>1, TypeCorrect, PTL

(* assign accepts the same depends_on whether it checks them one by one with *)
(* the earlier ones added or all of them beforehand.                         *)
THEOREM AcceptanceIsOrderFree == Spec => []AcceptLoopIsOrderFree
<1>1. TypeOK => AcceptLoopIsOrderFree
  <2> SUFFICES ASSUME TypeOK, NEW t \in Tasks, NEW D \in SUBSET Tasks, NEW list \in SetToSeqs(D)
               PROVE  AcceptEach(deps, list, t, tstate) <=>
                          \A d \in D : tstate[d] # "absent" /\ ~would_create_cycle(deps, t, d)
    BY DEF AcceptLoopIsOrderFree
  <2>1. deps \in DepsType /\ tstate \in StateType BY DEF TypeOK, DepsType, StateType
  <2>2. list \in Seq(Tasks) /\ ToSet(list) = D BY Listings
  <2>3. QED BY <2>1, <2>2, AcceptEachAccepts
<1>2. QED BY <1>1, TypeCorrect, PTL
=============================================================================
