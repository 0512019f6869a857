---------------------------- MODULE Orchestrate ----------------------------
(***************************************************************************)
(* orchestrate.run (tools/orchestrate.rs): plan a pipeline of archetypes   *)
(* with GoapPlanner, then run it, either in a line or over the graph of    *)
(* build_graph, which sends a failed step back to the nearest coder before *)
(* it (ruvos-graphflow; its own driver run_with_observer is this loop).    *)
(*                                                                         *)
(* A step spawns an agent; all that matters of it is whether it succeeds,  *)
(* fails, or cannot be spawned, which ends the call.  Artifacts, prompts,  *)
(* swarm roles, skills and events follow the steps and decide nothing.     *)
(***************************************************************************)
EXTENDS GoapPlanner

CONSTANTS
    Names,          \* every name an action may have
    Retries,        \* max_retries callers give
    Usize           \* 2^64: the loop's bounds are computed modulo this

ASSUME UsizeType == Usize \in Nat \ {0}
ASSUME RetriesType == Retries \subseteq 0..(Usize - 1)
ASSUME NamesAreComplete ==
    /\ \A a \in default_actions : a.name \in Names
    /\ \A C \in Capabilities : \A a \in C : a.name \in Names
    /\ "none" \notin Names

VARIABLES
    pipeline,       \* archetype names in order
    max_retries,
    go_on,          \* continue_on_error
    pc,             \* plan, line, graph or end
    current,        \* the archetype to run next
    steps,          \* steps run
    visits,         \* runs of each archetype
    all_ok,
    status,         \* what the caller gets
    last,           \* history: step number of each archetype's last run
    good            \* history: archetypes whose last run succeeded

runVars == <<pipeline, max_retries, go_on, pc, current, steps, visits, all_ok,
             status, last, good>>
vars == <<plannerVars, runVars>>

NoRuns == [a \in Names |-> 0]

Init ==
    /\ PlannerInit
    /\ pipeline = <<>>
    /\ max_retries = 0
    /\ go_on = FALSE
    /\ pc = "plan"
    /\ current = "none"
    /\ steps = 0
    /\ visits = NoRuns
    /\ all_ok = TRUE
    /\ status = "none"
    /\ last = NoRuns
    /\ good = {}

Plan == PlannerNext /\ UNCHANGED runVars

\* The static pipelines, for a template no plan was found for.
template(kind) ==
    CASE kind = "feature"  -> <<"planner", "coder", "tester", "reviewer">>
      [] kind = "bugfix"   -> <<"researcher", "coder", "tester">>
      [] kind = "refactor" -> <<"architect", "coder", "tester", "reviewer">>
      [] kind = "security" -> <<"security", "coder", "tester">>
      [] kind = "sparc"    -> <<"researcher", "planner", "architect", "coder", "tester", "reviewer">>

\* plan_for_goal gives nothing for an empty plan either.
Planned == outcome = "found" /\ plan # <<>>

ThePipeline ==
    IF Planned THEN [i \in DOMAIN plan |-> plan[i].name]
    ELSE IF request = "goal" THEN <<>> ELSE template(request)

Answer(s) == pc' = "end" /\ status' = s

\* The goal is refused.
Refuse ==
    /\ pc = "plan" /\ outcome # "searching"
    /\ ThePipeline = <<>>
    /\ Answer("invalid")
    /\ UNCHANGED <<plannerVars, pipeline, max_retries, go_on, current, steps, visits, all_ok, last, good>>

\* execute is not set: the plan is the answer.
PlanOnly ==
    /\ pc = "plan" /\ outcome # "searching"
    /\ ThePipeline # <<>>
    /\ pipeline' = ThePipeline
    /\ Answer("plan_only")
    /\ UNCHANGED <<plannerVars, max_retries, go_on, current, steps, visits, all_ok, last, good>>

\* Mutant: a run in a line, too, has failed until it has succeeded.
StartFailed(r, c) ==
    /\ pc = "plan" /\ outcome # "searching"
    /\ ThePipeline # <<>>
    /\ pipeline' = ThePipeline
    /\ current' = ThePipeline[1]
    /\ max_retries' = r
    /\ go_on' = c
    /\ pc' = IF r = 0 THEN "line" ELSE "graph"
    /\ all_ok' = FALSE
    /\ UNCHANGED <<plannerVars, steps, visits, status, last, good>>

\* The pipeline is run; in the graph a run has failed until it has succeeded.
Start(r, c) ==
    /\ pc = "plan" /\ outcome # "searching"
    /\ ThePipeline # <<>>
    /\ pipeline' = ThePipeline
    /\ current' = ThePipeline[1]
    /\ max_retries' = r
    /\ go_on' = c
    /\ pc' = IF r = 0 THEN "line" ELSE "graph"
    /\ all_ok' = (r = 0)
    /\ UNCHANGED <<plannerVars, steps, visits, status, last, good>>

\* run_step of current, with its entry in steps.
run_step(ok) ==
    /\ steps' = steps + 1
    /\ visits' = [visits EXCEPT ![current] = @ + 1]
    /\ last' = [last EXCEPT ![current] = steps + 1]
    /\ good' = IF ok THEN good \cup {current} ELSE good \ {current}

\* The agent cannot be spawned: the error ends the call, with no closing event.
SpawnFails ==
    /\ pc \in {"line", "graph"}
    /\ Answer("error")
    /\ UNCHANGED <<plannerVars, pipeline, max_retries, go_on, current, steps, visits, all_ok, last, good>>

Finish == Answer(IF all_ok' THEN "completed" ELSE "failed")

\* The line: stop at the first failure, unless told to go on.
LineStep(ok) ==
    /\ pc = "line"
    /\ run_step(ok)
    /\ all_ok' = (all_ok /\ ok)
    /\ IF steps + 1 = Len(pipeline) \/ (~ok /\ ~go_on)
       THEN Finish /\ UNCHANGED current
       ELSE current' = pipeline[steps + 2] /\ UNCHANGED <<pc, status>>
    /\ UNCHANGED <<plannerVars, pipeline, max_retries, go_on>>

-----------------------------------------------------------------------------

\* Positions of p that hold a, and the least of a set of positions.
At(p, a) == {i \in DOMAIN p : p[i] = a}
First(S) == CHOOSE i \in S : \A j \in S : i <= j
Latest(S) == CHOOSE i \in S : \A j \in S : j <= i

\* Mutant: rework goes to the first coder of the pipeline, even a later one.
rework_any(p, i) == IF At(p, "coder") = {} THEN p[i] ELSE "coder"

\* Where the OnFailure edge of position i leads.
rework(p, i) ==
    LET before == {j \in At(p, "coder") : j < i}
    IN  IF before = {} THEN p[i] ELSE p[Latest(before)]

\* build_graph and FlowGraph::next: edges go by name, so that the first edge of
\* that name with the right condition counts.  "none" for a terminal node.
next(p, a, ok) ==
    LET edges == IF ok THEN {i \in At(p, a) : i < Len(p)} ELSE At(p, a)
    IN  IF edges = {} THEN "none"
        ELSE IF ok THEN p[First(edges) + 1] ELSE rework(p, First(edges))

max_visits == (max_retries + 1) % Usize

max_steps == (Len(pipeline) * ((max_retries + 1) % Usize) + 2) % Usize

\* Mutant: the cap is looked at one visit too late.
capped_late(a) == visits'[a] > max_visits

\* The next archetype has used up its visits.
capped(a) == visits'[a] >= max_visits

\* One iteration of the graph loop: a terminal node, the visit cap, or on.
GraphStep(ok) ==
    /\ pc = "graph" /\ steps < max_steps
    /\ run_step(ok)
    /\ LET to == next(pipeline, current, ok)
       IN  \/ /\ to = "none"
              /\ all_ok' = ok
              /\ Finish
              /\ UNCHANGED current
           \/ /\ to # "none" /\ capped(to)
              /\ UNCHANGED all_ok
              /\ Finish
              /\ UNCHANGED current
           \/ /\ to # "none" /\ ~capped(to)
              /\ current' = to
              /\ UNCHANGED <<pc, status, all_ok>>
    /\ UNCHANGED <<plannerVars, pipeline, max_retries, go_on>>

\* The for loop is over.
OutOfSteps ==
    /\ pc = "graph" /\ steps = max_steps
    /\ UNCHANGED all_ok
    /\ Finish
    /\ UNCHANGED <<plannerVars, pipeline, max_retries, go_on, current, steps, visits, last, good>>

Next ==
    \/ Plan
    \/ Refuse \/ PlanOnly
    \/ \E r \in Retries, c \in BOOLEAN : Start(r, c)
    \/ SpawnFails
    \/ \E ok \in BOOLEAN : LineStep(ok) \/ GraphStep(ok)
    \/ OutOfSteps

\* The call is one task that is polled until it is done, and agents return.
Spec == Init /\ [][Next]_vars /\ WF_vars(Next)

-----------------------------------------------------------------------------

\* No archetype is planned twice, and the loop's bounds do not wrap around.
Distinct == \A i, j \in DOMAIN pipeline : pipeline[i] = pipeline[j] => i = j
NoOverflow == Len(pipeline) * (max_retries + 1) + 2 < Usize

\* plan's "minimum-cost action sequence reaching `goal`": every step is valid
\* where it stands, the last one meets the goal, the cost is the sum of theirs,
\* and no cheaper sequence does.
\* A* promises the last for a consistent heuristic; the archetype library keeps
\* it although one design step may meet two conditions at a cost of 1.
PlanIsMinimal ==
    pc = "plan" /\ outcome = "found" =>
        /\ \A i \in 1..Len(plan) : is_valid(plan[i], After[i - 1])
        /\ is_satisfied(After[Len(plan)])
        /\ cost = Spent[Len(plan)]
        /\ cost > 0 /\ (DefaultLibrary \/ Consistent) => ~MetWithin(cost - 1)

\* A goal reported unreachable has no plan (of this cost; Orchestrate_proofs shows
\* it of any): skipping worlds already expanded loses none.
UnreachableHasNoPlan ==
    pc = "plan" /\ outcome = "unreachable" => ~MetWithin(2 * Cardinality(library))

\* A run reported completed stands on its last runs: each archetype's last run
\* succeeded and came after the last run of the one before it, so that what was
\* tested and reviewed is the last code, however often rework went round.
CompletedOnLastRuns ==
    status = "completed" /\ Distinct =>
        /\ \A i \in DOMAIN pipeline : pipeline[i] \in good
        /\ \A i \in 2..Len(pipeline) : last[pipeline[i - 1]] < last[pipeline[i]]

\* A run reported failed has an archetype whose last run failed: no cap and no
\* budget turns down a pipeline that is going well.
FailedForAReason ==
    status = "failed" /\ Distinct /\ NoOverflow =>
        \E i \in DOMAIN pipeline : last[pipeline[i]] > 0 /\ pipeline[i] \notin good

\* The visit caps alone end the loop: the step budget is never what stops it,
\* whatever the pipeline (adr-007's "bounded").
BudgetIsSlack == pc = "graph" /\ NoOverflow => steps < max_steps

\* adr-013: "Recovery loops should prove bounded retries and eventual
\* termination".
RunEnds == <>(pc = "end")
=============================================================================
