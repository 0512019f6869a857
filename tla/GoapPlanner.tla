---------------------------- MODULE GoapPlanner ----------------------------
(***************************************************************************)
(* The A* planner of ruvos-goap and the archetype library orchestrate      *)
(* plans with (orchestrate_plan.rs): one search, from the empty world to a *)
(* goal.                                                                   *)
(*                                                                         *)
(* A world state is a partial map from keys to booleans, here the set of   *)
(* its pairs.  A node carries the plan that leads to it, which is its      *)
(* chain of parents.  Costs are naturals (f64 in the code, 1.0 unless a    *)
(* caller says otherwise).  The open set is a binary heap that orders      *)
(* nodes by total cost alone: which of several cheapest nodes it yields is *)
(* left open here.                                                         *)
(***************************************************************************)
EXTENDS Naturals, Sequences, FiniteSets

CONSTANTS
    Archetypes,     \* the archetypes of default_actions in this instance
    Goals,          \* goals callers give
    Templates,      \* templates callers name
    Capabilities,   \* sets of extra actions callers give
    MaxIterations   \* max_iterations, 1000 in the code

ASSUME GoalsAreFinite == \A g \in Goals : IsFiniteSet(g)
ASSUME TemplatesAreKnown ==
    Templates \subseteq {"feature", "bugfix", "refactor", "security", "sparc"}
ASSUME CapabilitiesAreFinite == \A C \in Capabilities : IsFiniteSet(C)
ASSUME CostsAreNatural == \A C \in Capabilities : \A a \in C : a.cost \in Nat

VARIABLES
    request,        \* "goal", or the name of a template
    goal,           \* desired_state
    library,        \* actions
    open, closed,   \* of the search
    iterations,
    outcome,        \* searching, found, unreachable or aborted
    plan, cost      \* the plan found, and its total cost

plannerVars == <<request, goal, library, open, closed, iterations, outcome, plan, cost>>

T(key) == <<key, TRUE>>

Action(name, pre, eff) ==
    [name |-> name, cost |-> 1, pre |-> {T(k) : k \in pre}, eff |-> {T(k) : k \in eff}]

\* default_actions.
default_actions ==
    {Action("researcher", {},         {"spec", "design"}),
     Action("planner",    {},         {"plan", "design"}),
     Action("architect",  {},         {"architecture", "design"}),
     Action("security",   {},         {"secured", "design"}),
     Action("coder",      {"design"}, {"code"}),
     Action("tester",     {"code"},   {"tested"}),
     Action("reviewer",   {"tested"}, {"reviewed"})}

goal_for_template(name) ==
    CASE name = "feature"  -> {T("plan"), T("reviewed")}
      [] name = "bugfix"   -> {T("spec"), T("tested")}
      [] name = "refactor" -> {T("architecture"), T("reviewed")}
      [] name = "security" -> {T("secured"), T("tested")}
      [] name = "sparc"    -> {T("spec"), T("architecture"), T("reviewed")}

\* GoapAction::is_valid and apply, GoapGoal::is_satisfied and heuristic.
is_valid(a, w) == a.pre \subseteq w
apply(a, w) == {l \in w : \A e \in a.eff : e[1] # l[1]} \cup a.eff
is_satisfied(w) == goal \subseteq w

heuristic(w) == Cardinality(goal \ w)

Node(w, c, p) == [world |-> w, cost |-> c, plan |-> p]
Root == Node({}, 0, <<>>)

total_cost(n) == n.cost + heuristic(n.world)

-----------------------------------------------------------------------------

\* A goal the empty world satisfies needs no search.
PlannerInit ==
    /\ \/ request = "goal" /\ goal \in Goals
       \/ request \in Templates /\ goal = goal_for_template(request)
    /\ library \in {{a \in default_actions : a.name \in Archetypes} \cup C : C \in Capabilities}
    /\ open = IF is_satisfied({}) THEN {} ELSE {Root}
    /\ closed = {}
    /\ iterations = 0
    /\ outcome = IF is_satisfied({}) THEN "found" ELSE "searching"
    /\ plan = <<>>
    /\ cost = 0

\* Mutant: the heap's order is not reversed.
Dearest(n) == \A m \in open : total_cost(n) >= total_cost(m)

\* The heap may yield n.
Cheapest(n) == \A m \in open : total_cost(n) <= total_cost(m)

\* What an expanded node pushes.
Successors(n) ==
    {Node(apply(a, n.world), n.cost + a.cost, Append(n.plan, a)) :
        a \in {b \in library : is_valid(b, n.world)}}

Ends(o, n) ==
    /\ outcome' = o
    /\ plan' = n.plan
    /\ cost' = n.cost
    /\ open' = {} /\ closed' = {} /\ iterations' = 0
    /\ UNCHANGED <<request, goal, library>>

\* The popped node is one too many.
Abort ==
    /\ outcome = "searching" /\ open # {}
    /\ iterations = MaxIterations
    /\ Ends("aborted", Root)

\* It satisfies the goal: reconstruct_plan.
Reach(n) ==
    /\ outcome = "searching" /\ Cheapest(n)
    /\ iterations < MaxIterations
    /\ is_satisfied(n.world)
    /\ Ends("found", n)

\* Mutant: worlds are closed when they are pushed.
ExpandClosingEarly(n) ==
    /\ outcome = "searching" /\ Cheapest(n)
    /\ iterations < MaxIterations
    /\ ~is_satisfied(n.world)
    /\ iterations' = iterations + 1
    /\ open' = (open \ {n}) \cup (IF n.world \in closed THEN {} ELSE Successors(n))
    /\ closed' = closed \cup {m.world : m \in Successors(n)}
    /\ UNCHANGED <<request, goal, library, outcome, plan, cost>>

\* Mutant: a node whose world was expanded before stays on the heap.
ExpandPeeking(n) ==
    /\ outcome = "searching" /\ Cheapest(n)
    /\ iterations < MaxIterations
    /\ ~is_satisfied(n.world)
    /\ n.world \notin closed
    /\ iterations' = iterations + 1
    /\ open' = (open \ {n}) \cup Successors(n)
    /\ closed' = closed \cup {n.world}
    /\ UNCHANGED <<request, goal, library, outcome, plan, cost>>

\* Its world was expanded before, or is expanded now.
Expand(n) ==
    /\ outcome = "searching" /\ Cheapest(n)
    /\ iterations < MaxIterations
    /\ ~is_satisfied(n.world)
    /\ iterations' = iterations + 1
    /\ open' = (open \ {n}) \cup (IF n.world \in closed THEN {} ELSE Successors(n))
    /\ closed' = closed \cup {n.world}
    /\ UNCHANGED <<request, goal, library, outcome, plan, cost>>

Exhaust ==
    /\ outcome = "searching" /\ open = {}
    /\ Ends("unreachable", Root)

PlannerNext ==
    \/ Abort \/ Exhaust
    \/ \E n \in open : Reach(n) \/ Expand(n)

-----------------------------------------------------------------------------

\* One more action from each of the known worlds, at a total cost of at most k.
Extend(known, k) ==
    known \cup {<<apply(b[1], b[2][1]), b[2][2] + b[1].cost>> :
                   b \in {b \in library \X known :
                             is_valid(b[1], b[2][1]) /\ b[2][2] + b[1].cost <= k}}

\* The worlds action sequences lead to, with their costs up to k: the reference
\* for what the search should find.  Each unit of cost allows for one action, so
\* that all sequences are counted whose actions cost at least 1, as every action
\* of the library does unless a caller's capability is free.
Costs[k \in Nat] == IF k = 0 THEN {<<{}, 0>>} ELSE Extend(Costs[k - 1], k)

\* The goal can be met at a cost of at most k.
MetWithin(k) == \E p \in Costs[k] : is_satisfied(p[1])

Worlds == SUBSET UNION {a.eff : a \in library}

\* The heuristic never drops by more than an action costs.
Consistent ==
    \A w \in Worlds : \A a \in library :
        is_valid(a, w) => heuristic(w) <= a.cost + heuristic(apply(a, w))

\* The caller added nothing to the library.
DefaultLibrary == library \subseteq default_actions

\* The world after the first i steps of the plan, and what they cost.
After[i \in 0..Len(plan)] == IF i = 0 THEN {} ELSE apply(plan[i], After[i - 1])
Spent[i \in 0..Len(plan)] == IF i = 0 THEN 0 ELSE Spent[i - 1] + plan[i].cost
=============================================================================
