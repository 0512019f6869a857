--------------------------- MODULE TaskGraphWalks ---------------------------
(***************************************************************************)
(* The graph walks of runtime.rs, and the loops of the swarm's handlers    *)
(* over lists of tasks, as the loops they are, to be compared with the     *)
(* sets and the closed forms TaskGraph and Swarm use for them.             *)
(*                                                                         *)
(* A loop is the function from the number of its iterations to the states  *)
(* it can be in: ids that are pushed together are pushed in any order.     *)
(***************************************************************************)
EXTENDS Swarm, SequencesExt

\* would_create_cycle: pop an id from the stack; found, already visited, or
\* push its dependencies.
CycleStep(dp, goal, w) ==
    IF w.is # "walking" THEN {w}
    ELSE IF w.stack = <<>> THEN {[w EXCEPT !.is = "none"]}
    ELSE LET cur  == Last(w.stack)
             rest == Front(w.stack)
         IN  CASE cur = goal -> {[w EXCEPT !.is = "found"]}
               [] cur # goal /\ cur \in w.visited -> {[w EXCEPT !.stack = rest]}
               [] OTHER -> {[w EXCEPT !.stack = rest \o new, !.visited = @ \cup {cur}] :
                               new \in SetToSeqs(dp[cur])}

CycleLoop(dp, t, d) ==
    LET walk[n \in Nat] ==
            IF n = 0
            THEN {[is |-> IF t = d THEN "found" ELSE "walking", stack |-> <<d>>, visited |-> {}]}
            ELSE UNION {CycleStep(dp, t, w) : w \in walk[n - 1]}
    IN  walk

\* By now every task has been visited, and whatever they pushed has been popped.
CycleIterations == Cardinality(Tasks) * Cardinality(Tasks) + 2

CycleWalk(dp, t, d) == {w.is : w \in CycleLoop(dp, t, d)[CycleIterations]}

\* Mutant: the tasks that fail are not put on the work list.
FailStepUnlisted(dp, w) ==
    IF w.work = <<>> THEN {w}
    ELSE {[work  |-> Front(w.work),
           graph |-> set_state(w.graph, {t \in Waiting(w.graph) : Last(w.work) \in dp[t]}, "failed")]}

\* propagate_failure: pop a failed id, fail the waiting tasks that depend on
\* it, push them.
FailStep(dp, w) ==
    IF w.work = <<>> THEN {w}
    ELSE LET hit == {t \in Waiting(w.graph) : Last(w.work) \in dp[t]}
         IN  {[work  |-> Front(w.work) \o new, graph |-> set_state(w.graph, hit, "failed")] :
                 new \in SetToSeqs(hit)}

FailLoop(dp, s, f) ==
    LET walk[n \in Nat] ==
            IF n = 0 THEN {[work |-> <<f>>, graph |-> set_state(s, {f}, "failed")]}
            ELSE UNION {FailStep(dp, w) : w \in walk[n - 1]}
    IN  walk

\* By now every task has been put on the work list, and popped.
FailIterations == Cardinality(Tasks) + 1

\* The "failed" heartbeat: for each task of the list, set_state then
\* propagate_failure.
FailEach(dp, list, s) ==
    LET after[i \in 0..Len(list)] ==
            IF i = 0 THEN {s}
            ELSE UNION {{w.graph : w \in FailLoop(dp, g, list[i])[FailIterations]} : g \in after[i - 1]}
    IN  after[Len(list)]

\* Mutant: the arguments of the cycle check are swapped.
AcceptSwapped(dp, list, t, s) ==
    \A i \in DOMAIN list : s[list[i]] # "absent" /\ ~would_create_cycle(dp, list[i], t)

\* swarm.assign's loop over depends_on: each id is checked against the graph
\* with the earlier ones already added.
AcceptEach(dp, list, t, s) ==
    \A i \in DOMAIN list :
        /\ s[list[i]] # "absent"
        /\ ~would_create_cycle(add_dependencies(dp, t, {list[j] : j \in 1..(i - 1)}), t, list[i])

-----------------------------------------------------------------------------

\* On every graph a swarm can build, the visited-set walk of would_create_cycle
\* ends, and finds a cycle exactly when the task is reachable from its new
\* dependency, in whatever order depends_on is kept.
CycleWalkIsReachability ==
    \A t, d \in Tasks :
        CycleWalk(deps, t, d) = {IF would_create_cycle(deps, t, d) THEN "found" ELSE "none"}

\* The work list of propagate_failure fails exactly the least set closed under
\* "waits for it"; doing so for one task of a "failed" heartbeat after the
\* other, in any order, is doing it at once.
FailureWalkIsLeastCascade ==
    \A D \in SUBSET Tasks : \A list \in SetToSeqs(D) :
        FailEach(deps, list, tstate) = {fail_all(deps, tstate, D)}

\* assign may check all of its depends_on before it adds any, in any order,
\* though the code checks each against the graph with the earlier ones added.
AcceptLoopIsOrderFree ==
    \A t \in Tasks, D \in SUBSET Tasks : \A list \in SetToSeqs(D) :
        AcceptEach(deps, list, t, tstate) <=>
            \A d \in D : tstate[d] # "absent" /\ ~would_create_cycle(deps, t, d)
=============================================================================
