------------------------- MODULE Orchestrate_proofs -------------------------
(***************************************************************************)
(* orchestrate.run for every library, goal and pipeline: the A* search     *)
(* loses no plan and returns a cheapest one, and the run it leads to is    *)
(* reported as it went.                                                    *)
(***************************************************************************)
EXTENDS Orchestrate, FiniteSetTheorems, WellFoundedInduction, TLAPS

(* Induction in the form of the least-number principle, which speaks of sets *)
(* only.                                                                     *)
LEMMA LeastNumber ==
    ASSUME NEW S \in SUBSET Nat, S # {}
    PROVE  \E m \in S : \A k \in S : m <= k
<1> DEFINE R == OpToRel(<, Nat)
<1>1. IsWellFoundedOn(R, Nat)
  BY NatLessThanWellFounded
<1>2. \A x, y \in Nat : x < y => <<x, y>> \in R
  BY DEF OpToRel
<1> HIDE DEF R
<1>3. PICK x \in S : \A y \in S : ~(<<y, x>> \in R)
  BY <1>1, WFMin
<1>4. ASSUME NEW y \in S PROVE x <= y
  <2>1. ~(y < x) BY <1>2, <1>3
  <2>2. QED BY <2>1
<1>5. QED BY <1>4

LEMMA Induction ==
    ASSUME NEW S, 0 \in S, \A n \in Nat : n \in S => n + 1 \in S
    PROVE  Nat \subseteq S
<1> SUFFICES ASSUME Nat \ S # {} PROVE FALSE
  OBVIOUS
<1>1. PICK m \in Nat \ S : \A k \in Nat \ S : m <= k
  BY LeastNumber
<1>2. m # 0 /\ m - 1 \in Nat /\ m - 1 \notin Nat \ S
  BY <1>1
<1>3. QED BY <1>1, <1>2

(* A step function may be iterated: what a definition by recursion needs to  *)
(* have a meaning.                                                           *)
Repeats(f, X, x0, step) ==
    /\ f \in [Nat -> X]
    /\ f[0] = x0
    /\ \A n \in Nat \ {0} : f[n] = step[<<f[n - 1], n>>]

LEMMA Recursion ==
    ASSUME NEW X, NEW x0 \in X, NEW step \in [X \X Nat -> X]
    PROVE  \E f : Repeats(f, X, x0, step)
<1> DEFINE Iterates(h, n) == /\ h \in [0..n -> X] /\ h[0] = x0
                             /\ \A i \in 1..n : h[i] = step[<<h[i - 1], i>>]
           Some == {n \in Nat : \E h \in [0..n -> X] : Iterates(h, n)}
<1>1. 0 \in Some
  <2> DEFINE h == [i \in 0..0 |-> x0]
  <2>1. Iterates(h, 0) OBVIOUS
  <2>2. QED BY <2>1
<1>2. ASSUME NEW n \in Nat, n \in Some PROVE n + 1 \in Some
  <2>1. PICK h \in [0..n -> X] : Iterates(h, n)
    BY <1>2
  <2> DEFINE k == [i \in 0..(n + 1) |-> IF i = n + 1 THEN step[<<h[n], n + 1>>] ELSE h[i]]
  <2>2. step[<<h[n], n + 1>>] \in X
    OBVIOUS
  <2>3. k \in [0..(n + 1) -> X] /\ k[0] = x0 /\ k[n + 1] = step[<<h[n], n + 1>>]
    BY <2>1, <2>2
  <2>4. \A i \in 0..n : k[i] = h[i]
    OBVIOUS
  <2> HIDE DEF k
  <2>5. ASSUME NEW i \in 1..(n + 1) PROVE k[i] = step[<<k[i - 1], i>>]
    <3>1. CASE i = n + 1
      <4>1. i - 1 = n /\ n \in 0..n BY <3>1
      <4>2. QED BY <2>3, <2>4, <3>1, <4>1
    <3>2. CASE i # n + 1
      <4>1. i \in 1..n /\ i \in 0..n /\ i - 1 \in 0..n BY <3>2
      <4>2. QED BY <2>1, <2>4, <4>1
    <3>3. QED BY <3>1, <3>2
  <2>6. Iterates(k, n + 1) BY <2>3, <2>5
  <2>7. QED BY <2>3, <2>6
<1>3. Nat \subseteq Some
  BY <1>1, <1>2, Induction
<1>4. ASSUME NEW n \in Nat, NEW m \in Nat, NEW h, NEW k, Iterates(h, n), Iterates(k, m)
      PROVE  \A i \in 0..n : i <= m => h[i] = k[i]
  <2> DEFINE Same == {i \in Nat : i <= n /\ i <= m => h[i] = k[i]}
  <2>1. 0 \in Same BY <1>4
  <2>2. ASSUME NEW i \in Nat, i \in Same PROVE i + 1 \in Same
    <3>1. CASE i + 1 <= n /\ i + 1 <= m
      <4>1. i + 1 \in 1..n /\ i + 1 \in 1..m /\ (i + 1) - 1 = i BY <3>1
      <4>2. h[i + 1] = step[<<h[i], i + 1>>] /\ k[i + 1] = step[<<k[i], i + 1>>]
        BY <1>4, <4>1
      <4>3. h[i] = k[i] BY <2>2, <3>1
      <4>4. QED BY <4>2, <4>3
    <3>2. QED BY <3>1
  <2>3. Nat \subseteq Same BY <2>1, <2>2, Induction
  <2>4. QED BY <2>3
<1> DEFINE it(n) == CHOOSE h \in [0..n -> X] : Iterates(h, n)
           f == [n \in Nat |-> it(n)[n]]
<1>5. ASSUME NEW n \in Nat PROVE it(n) \in [0..n -> X] /\ Iterates(it(n), n)
  <2>1. \E h \in [0..n -> X] : Iterates(h, n) BY <1>3
  <2>2. QED BY <2>1
<1> HIDE DEF it, Iterates
<1>6. f \in [Nat -> X]
  BY <1>5
<1>7. f[0] = x0
  BY <1>5 DEF Iterates
<1>8. ASSUME NEW n \in Nat \ {0} PROVE f[n] = step[<<f[n - 1], n>>]
  <2>1. n - 1 \in Nat /\ n \in 1..n /\ n - 1 \in 0..n /\ n - 1 \in 0..(n - 1) OBVIOUS
  <2>2. it(n)[n] = step[<<it(n)[n - 1], n>>] BY <1>5, <2>1 DEF Iterates
  <2>3. it(n)[n - 1] = it(n - 1)[n - 1]
    <3>1. Iterates(it(n), n) /\ Iterates(it(n - 1), n - 1) BY <1>5, <2>1
    <3>2. QED BY <1>4, <2>1, <3>1
  <2>4. QED BY <2>1, <2>2, <2>3
<1>9. Repeats(f, X, x0, step) BY <1>6, <1>7, <1>8 DEF Repeats
<1>10. QED BY <1>9

-----------------------------------------------------------------------------
(***************************************************************************)
(* The search.                                                             *)
(***************************************************************************)

Nodes == [world : Worlds, cost : Nat, plan : Seq(library)]

\* The state of the planner has its type.
PlannerTyped ==
    /\ request = "goal" \/ request \in Templates
    /\ IsFiniteSet(goal)
    /\ IsFiniteSet(library)
    /\ \A a \in library : a.cost \in Nat /\ a.name \in Names
    /\ outcome \in {"searching", "found", "unreachable", "aborted"}
    /\ open \subseteq Nodes
    /\ closed \subseteq Worlds
    /\ plan \in Seq(library) /\ cost \in Nat

LEMMA FewAreFinite ==
    ASSUME NEW a, NEW b, NEW c
    PROVE  IsFiniteSet({a, b}) /\ IsFiniteSet({a, b, c})
<1>1. IsFiniteSet({a})
  BY FS_Singleton
<1>2. IsFiniteSet({a} \cup {b})
  BY <1>1, FS_AddElement
<1>3. {a} \cup {b} = {a, b} /\ {a, b} \cup {c} = {a, b, c}
  OBVIOUS
<1>4. IsFiniteSet({a, b})
  BY <1>2, <1>3, Zenon
<1>5. IsFiniteSet({a, b} \cup {c})
  BY <1>4, FS_AddElement
<1>6. QED BY <1>3, <1>4, <1>5, Zenon

LEMMA DefaultActions ==
    /\ IsFiniteSet(default_actions)
    /\ \A a \in default_actions : a.cost = 1
<1>2. ASSUME NEW a, NEW b, NEW c, NEW d, NEW e, NEW f, NEW g
      PROVE  IsFiniteSet({a, b, c, d, e, f, g})
  <2>1. IsFiniteSet({a, b, c}) /\ IsFiniteSet({d, e}) /\ IsFiniteSet({f, g})
    BY FewAreFinite
  <2>2. IsFiniteSet({a, b, c} \cup {d, e})
    BY <2>1, FS_Union
  <2>3. IsFiniteSet(({a, b, c} \cup {d, e}) \cup {f, g})
    BY <2>1, <2>2, FS_Union
  <2>4. ({a, b, c} \cup {d, e}) \cup {f, g} = {a, b, c, d, e, f, g}
    OBVIOUS
  <2>5. QED BY <2>3, <2>4, Zenon
<1>3. IsFiniteSet(default_actions)
  BY <1>2, Zenon DEF default_actions
<1>4. \A a \in default_actions : a.cost = 1
  BY DEF default_actions, Action
<1>5. QED BY <1>3, <1>4

LEMMA TemplateGoals ==
    \A t \in Templates : IsFiniteSet(goal_for_template(t))
<1>1. SUFFICES ASSUME NEW t \in {"feature", "bugfix", "refactor", "security", "sparc"}
               PROVE  IsFiniteSet(goal_for_template(t))
  BY TemplatesAreKnown
<1>2. CASE t = "feature" BY FewAreFinite, <1>2 DEF goal_for_template
<1>3. CASE t = "bugfix" BY FewAreFinite, <1>3 DEF goal_for_template
<1>4. CASE t = "refactor" BY FewAreFinite, <1>4 DEF goal_for_template
<1>5. CASE t = "security" BY FewAreFinite, <1>5 DEF goal_for_template
<1>6. CASE t = "sparc" BY FewAreFinite, <1>6 DEF goal_for_template
<1>7. QED BY <1>2, <1>3, <1>4, <1>5, <1>6

LEMMA InitPlannerTyped == PlannerInit => PlannerTyped
<1> SUFFICES ASSUME PlannerInit PROVE PlannerTyped OBVIOUS
<1>1. (request = "goal" \/ request \in Templates) /\ IsFiniteSet(goal)
  BY TemplateGoals, GoalsAreFinite DEF PlannerInit
<1>2. PICK C \in Capabilities : library = {a \in default_actions : a.name \in Archetypes} \cup C
  BY DEF PlannerInit
<1>3. IsFiniteSet(library)
  BY <1>2, DefaultActions, CapabilitiesAreFinite, FS_Subset, FS_Union
<1>4. \A a \in library : a.cost \in Nat /\ a.name \in Names
  BY <1>2, DefaultActions, CostsAreNatural, NamesAreComplete
<1>5. {} \in Worlds
  BY DEF Worlds
<1>6. Root \in Nodes
  BY <1>5 DEF Root, Node, Nodes
<1>7. QED BY <1>1, <1>3, <1>4, <1>6 DEF PlannerTyped, PlannerInit

LEMMA ApplyIsWorld ==
    ASSUME NEW a \in library, NEW w \in Worlds
    PROVE  apply(a, w) \in Worlds
  BY DEF Worlds, apply

LEMMA SuccessorTyped ==
    ASSUME PlannerTyped, NEW n \in Nodes
    PROVE  Successors(n) \subseteq Nodes
<1> SUFFICES ASSUME NEW a \in library
             PROVE  Node(apply(a, n.world), n.cost + a.cost, Append(n.plan, a)) \in Nodes
  BY DEF Successors
<1>1. n.world \in Worlds /\ n.cost \in Nat /\ n.plan \in Seq(library)
  BY DEF Nodes
<1>2. apply(a, n.world) \in Worlds
  BY <1>1, ApplyIsWorld
<1>3. n.cost + a.cost \in Nat /\ Append(n.plan, a) \in Seq(library)
  BY <1>1 DEF PlannerTyped
<1>4. QED BY <1>2, <1>3 DEF Nodes, Node

LEMMA HeuristicIsNat ==
    ASSUME PlannerTyped, NEW w
    PROVE  heuristic(w) \in Nat /\ (is_satisfied(w) => heuristic(w) = 0)
<1>1. IsFiniteSet(goal \ w)
  BY FS_Difference DEF PlannerTyped
<1>2. heuristic(w) \in Nat
  BY <1>1, FS_CardinalityType DEF heuristic
<1>3. ASSUME is_satisfied(w) PROVE heuristic(w) = 0
  <2>1. goal \ w = {} BY <1>3 DEF is_satisfied
  <2>2. QED BY <2>1, FS_EmptySet DEF heuristic
<1>4. QED BY <1>2, <1>3

(* A step of the search leaves the problem as it is.                         *)
LEMMA ProblemFixed ==
    PlannerNext \/ UNCHANGED plannerVars => UNCHANGED <<request, goal, library>>
  BY DEF PlannerNext, Abort, Exhaust, Reach, Expand, Ends, plannerVars

LEMMA StepPlannerTyped ==
    PlannerTyped /\ (PlannerNext \/ UNCHANGED plannerVars) => PlannerTyped'
<1> SUFFICES ASSUME PlannerTyped, PlannerNext \/ UNCHANGED plannerVars PROVE PlannerTyped'
  OBVIOUS
<1>1. UNCHANGED <<request, goal, library>>
  BY ProblemFixed
<1>2. Worlds' = Worlds /\ Nodes' = Nodes
  BY <1>1 DEF Worlds, Nodes
<1>3. Root \in Nodes
  BY DEF Root, Node, Nodes, Worlds
<1>4. ASSUME NEW o \in {"found", "unreachable", "aborted"}, NEW n \in Nodes, Ends(o, n)
      PROVE  PlannerTyped'
  BY <1>1, <1>2, <1>4 DEF Ends, PlannerTyped, Nodes
<1>5. ASSUME NEW n \in open, Expand(n) PROVE PlannerTyped'
  <2>1. n \in Nodes /\ n.world \in Worlds BY DEF PlannerTyped, Nodes
  <2>2. Successors(n) \subseteq Nodes BY <2>1, SuccessorTyped
  <2>3. open' \subseteq Nodes /\ closed' \subseteq Worlds
    BY <1>5, <2>1, <2>2 DEF Expand, PlannerTyped
  <2>4. UNCHANGED <<outcome, plan, cost>> BY <1>5 DEF Expand
  <2>5. QED BY <1>1, <1>2, <2>3, <2>4 DEF PlannerTyped
<1>6. CASE PlannerNext
  <2>1. ASSUME Abort \/ Exhaust PROVE PlannerTyped'
    BY <1>3, <1>4, <2>1 DEF Abort, Exhaust
  <2>2. ASSUME NEW n \in open, Reach(n) PROVE PlannerTyped'
    <3>1. n \in Nodes BY DEF PlannerTyped
    <3>2. QED BY <1>4, <2>2, <3>1 DEF Reach
  <2>3. QED BY <1>5, <1>6, <2>1, <2>2 DEF PlannerNext
<1>7. CASE UNCHANGED plannerVars
  BY <1>2, <1>7 DEF plannerVars, PlannerTyped
<1>8. QED BY <1>6, <1>7

-----------------------------------------------------------------------------
(***************************************************************************)
(* Plans: a node's plan leads to its world at its cost.                    *)
(***************************************************************************)

\* ws and cs are the worlds and the costs along p.
Along(p, ws, cs) ==
    /\ ws \in [0..Len(p) -> Worlds] /\ cs \in [0..Len(p) -> Nat]
    /\ ws[0] = {} /\ cs[0] = 0
    /\ \A i \in 1..Len(p) : /\ is_valid(p[i], ws[i - 1])
                            /\ ws[i] = apply(p[i], ws[i - 1])
                            /\ cs[i] = cs[i - 1] + p[i].cost

Leads(p, w, c) ==
    \E ws \in [0..Len(p) -> Worlds], cs \in [0..Len(p) -> Nat] :
        Along(p, ws, cs) /\ ws[Len(p)] = w /\ cs[Len(p)] = c

Plans ==
    /\ \A n \in open : Leads(n.plan, n.world, n.cost)
    /\ outcome = "found" => \E w \in Worlds : is_satisfied(w) /\ Leads(plan, w, cost)

LEMMA EmptyLeads == Leads(<<>>, {}, 0)
<1> DEFINE ws == [i \in 0..0 |-> {}]
           cs == [i \in 0..0 |-> 0]
<1>1. Len(<<>>) = 0
  OBVIOUS
<1>2. ws \in [0..0 -> Worlds] /\ cs \in [0..0 -> Nat] /\ ws[0] = {} /\ cs[0] = 0
  BY DEF Worlds
<1>3. 1..0 = {}
  OBVIOUS
<1> HIDE DEF ws, cs
<1>4. QED BY <1>1, <1>2, <1>3 DEF Leads, Along

LEMMA LeadsOn ==
    ASSUME PlannerTyped, NEW p \in Seq(library), NEW w, NEW c, Leads(p, w, c),
           NEW a \in library, is_valid(a, w)
    PROVE  Leads(Append(p, a), apply(a, w), c + a.cost)
<1> DEFINE n == Len(p)
           q == Append(p, a)
<1>1. PICK ws \in [0..n -> Worlds], cs \in [0..n -> Nat] :
          Along(p, ws, cs) /\ ws[n] = w /\ cs[n] = c
  BY DEF Leads
<1>2. n \in Nat /\ Len(q) = n + 1 /\ q[n + 1] = a /\ \A i \in 1..n : q[i] = p[i]
  OBVIOUS
<1>3. n \in 0..n /\ w \in Worlds /\ c \in Nat /\ a.cost \in Nat /\ apply(a, w) \in Worlds
  BY <1>1, <1>2, ApplyIsWorld DEF PlannerTyped
<1> DEFINE vs == [i \in 0..(n + 1) |-> IF i = n + 1 THEN apply(a, w) ELSE ws[i]]
           ds == [i \in 0..(n + 1) |-> IF i = n + 1 THEN c + a.cost ELSE cs[i]]
<1>4. vs \in [0..(n + 1) -> Worlds] /\ ds \in [0..(n + 1) -> Nat]
  BY <1>2, <1>3
<1>5. /\ vs[n + 1] = apply(a, w) /\ ds[n + 1] = c + a.cost
      /\ \A i \in 0..n : vs[i] = ws[i] /\ ds[i] = cs[i]
  BY <1>2
<1> HIDE DEF n, q, vs, ds
<1>6. ASSUME NEW i \in 1..(n + 1)
      PROVE  /\ is_valid(q[i], vs[i - 1])
             /\ vs[i] = apply(q[i], vs[i - 1])
             /\ ds[i] = ds[i - 1] + q[i].cost
  <2>1. CASE i = n + 1
    <3>1. i - 1 = n BY <1>2, <2>1
    <3>2. QED BY <1>1, <1>2, <1>3, <1>5, <2>1, <3>1
  <2>2. CASE i # n + 1
    <3>1. i \in 1..n /\ i \in 0..n /\ i - 1 \in 0..n BY <1>2, <2>2
    <3>2. /\ is_valid(p[i], ws[i - 1])
          /\ ws[i] = apply(p[i], ws[i - 1])
          /\ cs[i] = cs[i - 1] + p[i].cost
      BY <1>1, <3>1 DEF Along, n
    <3>3. QED BY <1>2, <1>5, <3>1, <3>2
  <2>3. QED BY <2>1, <2>2
<1>7. vs[0] = {} /\ ds[0] = 0
  BY <1>1, <1>2, <1>5 DEF Along, n
<1>8. Along(q, vs, ds)
  BY <1>2, <1>4, <1>6, <1>7 DEF Along
<1>9. QED BY <1>2, <1>4, <1>5, <1>8 DEF Leads, q

LEMMA InitPlans == PlannerInit => Plans
<1> SUFFICES ASSUME PlannerInit PROVE Plans
  OBVIOUS
<1>1. \A n \in open : n.plan = <<>> /\ n.world = {} /\ n.cost = 0
  BY DEF PlannerInit, Root, Node
<1>2. outcome = "found" => is_satisfied({}) /\ plan = <<>> /\ cost = 0
  BY DEF PlannerInit
<1>3. {} \in Worlds
  BY DEF Worlds
<1>4. QED BY <1>1, <1>2, <1>3, EmptyLeads DEF Plans

LEMMA StepPlans ==
    PlannerTyped /\ Plans /\ (PlannerNext \/ UNCHANGED plannerVars) => Plans'
<1> SUFFICES ASSUME PlannerTyped, Plans, PlannerNext \/ UNCHANGED plannerVars PROVE Plans'
  OBVIOUS
<1>1. UNCHANGED <<request, goal, library>>
  BY ProblemFixed
<1>2. Worlds' = Worlds
  BY <1>1 DEF Worlds
<1>3. ASSUME NEW n \in open' PROVE Leads(n.plan, n.world, n.cost)
  <2>1. CASE n \in open BY <2>1 DEF Plans
  <2>2. CASE n \notin open
    <3>1. PICK m \in open : n \in Successors(m)
      BY <1>3, <2>2 DEF PlannerNext, plannerVars, Abort, Exhaust, Reach, Expand, Ends
    <3>2. PICK a \in library : /\ is_valid(a, m.world)
                               /\ n = Node(apply(a, m.world), m.cost + a.cost, Append(m.plan, a))
      BY <3>1 DEF Successors
    <3>3. m.plan \in Seq(library) /\ Leads(m.plan, m.world, m.cost)
      BY <3>1 DEF PlannerTyped, Nodes, Plans
    <3>4. /\ n.plan = Append(m.plan, a) /\ n.world = apply(a, m.world)
          /\ n.cost = m.cost + a.cost
      BY <3>2 DEF Node
    <3>5. QED BY <3>2, <3>3, <3>4, LeadsOn
  <2>3. QED BY <2>1, <2>2
<1>4. ASSUME outcome' = "found"
      PROVE  \E w \in Worlds : (goal \subseteq w) /\ Leads(plan', w, cost')
  <2>1. CASE UNCHANGED <<outcome, plan, cost>>
    BY <1>4, <2>1 DEF Plans, is_satisfied
  <2>2. CASE \E n \in open : Reach(n)
    <3>1. PICK n \in open : Reach(n) BY <2>2
    <3>2. n.world \in Worlds /\ Leads(n.plan, n.world, n.cost) BY DEF PlannerTyped, Nodes, Plans
    <3>3. plan' = n.plan /\ cost' = n.cost /\ goal \subseteq n.world
      BY <3>1 DEF Reach, Ends, is_satisfied
    <3>4. QED BY <3>2, <3>3
  <2>3. QED
    BY <1>4, <2>1, <2>2 DEF PlannerNext, plannerVars, Abort, Exhaust, Expand, Ends
<1>5. \A p, w, c : Leads(p, w, c) <=> Leads(p, w, c)'
  BY <1>2 DEF Leads, Along
<1>6. QED BY <1>1, <1>2, <1>3, <1>4, <1>5 DEF Plans, is_satisfied

(* The plan that was found is one: the recursive definitions After and Spent *)
(* follow it.                                                                *)
LEMMA PlanIsAPlan ==
    ASSUME PlannerTyped, Plans, outcome = "found"
    PROVE  /\ \A i \in 1..Len(plan) : is_valid(plan[i], After[i - 1])
           /\ is_satisfied(After[Len(plan)])
           /\ cost = Spent[Len(plan)]
<1> DEFINE n == Len(plan)
<1>1. n \in Nat /\ 0 \in 0..n /\ n \in 0..n
  BY DEF PlannerTyped
<1>2. PICK ws \in [0..n -> Worlds], cs \in [0..n -> Nat] :
          Along(plan, ws, cs) /\ is_satisfied(ws[n]) /\ cs[n] = cost
  BY DEF Plans, Leads
<1>3. ws = [i \in 0..n |-> IF i = 0 THEN {} ELSE apply(plan[i], ws[i - 1])]
  BY <1>1, <1>2 DEF Along
<1>4. cs = [i \in 0..n |-> IF i = 0 THEN 0 ELSE cs[i - 1] + plan[i].cost]
  BY <1>1, <1>2 DEF Along
<1>5. After = [i \in 0..n |-> IF i = 0 THEN {} ELSE apply(plan[i], After[i - 1])]
  BY <1>3 DEF After
<1>6. Spent = [i \in 0..n |-> IF i = 0 THEN 0 ELSE Spent[i - 1] + plan[i].cost]
  BY <1>4 DEF Spent
<1> HIDE DEF n
<1> DEFINE Same == {i \in Nat : i <= n => After[i] = ws[i] /\ Spent[i] = cs[i]}
<1>7. 0 \in Same
  BY <1>1, <1>3, <1>4, <1>5, <1>6
<1>8. ASSUME NEW i \in Nat, i \in Same PROVE i + 1 \in Same
  <2> SUFFICES ASSUME i + 1 <= n
               PROVE  After[i + 1] = ws[i + 1] /\ Spent[i + 1] = cs[i + 1]
    OBVIOUS
  <2>1. i + 1 \in 0..n /\ i + 1 # 0 /\ (i + 1) - 1 = i
    BY <1>1
  <2>2. After[i] = ws[i] /\ Spent[i] = cs[i]
    BY <1>1, <1>8
  <2>3. After[i + 1] = apply(plan[i + 1], After[i]) /\ ws[i + 1] = apply(plan[i + 1], ws[i])
    BY <1>3, <1>5, <2>1
  <2>4. Spent[i + 1] = Spent[i] + plan[i + 1].cost /\ cs[i + 1] = cs[i] + plan[i + 1].cost
    BY <1>4, <1>6, <2>1
  <2>5. QED BY <2>2, <2>3, <2>4
<1>9. Nat \subseteq Same
  BY <1>7, <1>8, Induction
<1>10. \A i \in 0..n : After[i] = ws[i] /\ Spent[i] = cs[i]
  BY <1>1, <1>9
<1>11. \A i \in 1..n : is_valid(plan[i], ws[i - 1]) /\ i - 1 \in 0..n
  BY <1>1, <1>2 DEF Along, n
<1>12. QED BY <1>1, <1>2, <1>10, <1>11 DEF n

-----------------------------------------------------------------------------
(***************************************************************************)
(* What the search has covered.  L covers all action sequences when it     *)
(* holds the world and cost of each of them.                               *)
(***************************************************************************)

Covers(L) ==
    /\ L \in SUBSET (Worlds \X Nat)
    /\ <<{}, 0>> \in L
    /\ \A w \in Worlds, c \in Nat, a \in library :
          <<w, c>> \in L /\ is_valid(a, w) => <<apply(a, w), c + a.cost>> \in L

(* The recursive definition Costs means what it says.                        *)
LEMMA CostsUnfold ==
    ASSUME PlannerTyped
    PROVE  /\ Costs[0] = {<<{}, 0>>}
           /\ \A k \in Nat \ {0} : Costs[k] = Extend(Costs[k - 1], k)
<1> DEFINE X == SUBSET (Worlds \X Nat)
           x0 == {<<{}, 0>>}
           step == [xk \in X \X Nat |-> Extend(xk[1], xk[2])]
<1>1. x0 \in X
  BY DEF Worlds
<1>2. ASSUME NEW x \in X, NEW k \in Nat PROVE Extend(x, k) \in X
  <2> SUFFICES ASSUME NEW b \in library \X x
               PROVE  <<apply(b[1], b[2][1]), b[2][2] + b[1].cost>> \in Worlds \X Nat
    BY DEF Extend
  <2>1. b[1] \in library /\ b[2][1] \in Worlds /\ b[2][2] \in Nat
    OBVIOUS
  <2>2. apply(b[1], b[2][1]) \in Worlds /\ b[1].cost \in Nat
    BY <2>1, ApplyIsWorld DEF PlannerTyped
  <2>3. QED BY <2>1, <2>2
<1>3. \A x \in X, k \in Nat : step[<<x, k>>] = Extend(x, k)
  OBVIOUS
<1> HIDE DEF X
<1>4. step \in [X \X Nat -> X]
  <2>1. \A xk \in X \X Nat : Extend(xk[1], xk[2]) \in X BY <1>2
  <2>2. QED BY <2>1
<1> HIDE DEF step, x0
<1>f. PICK f : Repeats(f, X, x0, step)
  BY <1>1, <1>4, Recursion
<1>5. /\ f \in [Nat -> X] /\ f[0] = x0
      /\ \A k \in Nat \ {0} : f[k] = step[<<f[k - 1], k>>]
  BY <1>f DEF Repeats
<1>6. f = [k \in Nat |-> IF k = 0 THEN {<<{}, 0>>} ELSE Extend(f[k - 1], k)]
  <2>1. ASSUME NEW k \in Nat \ {0} PROVE f[k] = Extend(f[k - 1], k)
    <3>1. k - 1 \in Nat /\ f[k - 1] \in X BY <1>5
    <3>2. QED BY <1>3, <1>5, <3>1
  <2>2. QED BY <1>5, <2>1 DEF x0
<1>7. Costs = [k \in Nat |-> IF k = 0 THEN {<<{}, 0>>} ELSE Extend(Costs[k - 1], k)]
  BY <1>6, Zenon DEF Costs
<1>8. QED BY <1>7

(* Whatever can be reached at a cost of at most k is in every covering set.  *)
LEMMA CostsAreCovered ==
    ASSUME PlannerTyped, NEW L, Covers(L), NEW k \in Nat
    PROVE  \A p \in Costs[k] : p \in L /\ p[1] \in Worlds /\ p[2] \in Nat /\ p[2] <= k
<1> DEFINE In(p, j) == p \in L /\ p[1] \in Worlds /\ p[2] \in Nat /\ p[2] <= j /\ p = <<p[1], p[2]>>
           S == {j \in Nat : \A p \in Costs[j] : In(p, j)}
<1>1. 0 \in S
  <2>1. In(<<{}, 0>>, 0) BY DEF Covers, Worlds
  <2>2. \A p \in Costs[0] : p = <<{}, 0>> BY CostsUnfold
  <2>3. \A p \in Costs[0] : In(p, 0) BY <2>1, <2>2, Zenon
  <2>4. QED BY <2>3
<1>2. ASSUME NEW j \in Nat, j \in S PROVE j + 1 \in S
  <2>1. Costs[j + 1] = Extend(Costs[j], j + 1)
    BY CostsUnfold
  <2>2. SUFFICES ASSUME NEW p \in Extend(Costs[j], j + 1) PROVE In(p, j + 1)
    BY <2>1
  <2>3. CASE p \in Costs[j]
    BY <1>2, <2>3
  <2>4. CASE p \notin Costs[j]
    <3>1. PICK a \in library, q \in Costs[j] :
              /\ is_valid(a, q[1]) /\ q[2] + a.cost <= j + 1
              /\ p = <<apply(a, q[1]), q[2] + a.cost>>
      BY <2>4 DEF Extend
    <3>2. In(q, j) /\ a.cost \in Nat
      BY <1>2 DEF PlannerTyped
    <3>3. p \in L
      BY <3>1, <3>2 DEF Covers
    <3>4. apply(a, q[1]) \in Worlds
      BY <3>2, ApplyIsWorld
    <3>5. QED BY <3>1, <3>2, <3>3, <3>4
  <2>5. QED BY <2>3, <2>4
<1>3. Nat \subseteq S
  BY <1>1, <1>2, Induction
<1>4. QED BY <1>3

-----------------------------------------------------------------------------
(***************************************************************************)
(* Where the heuristic can be trusted.  With the default library it is     *)
(* inconsistent at worlds without a design, of which only the empty one is *)
(* ever met.                                                               *)
(***************************************************************************)

Trusted == DefaultLibrary \/ Consistent

Region == IF Consistent THEN Worlds ELSE {w \in Worlds : T("design") \in w}

(* A default action leaves a design behind, and from a world with a design   *)
(* it meets one new condition only.                                          *)
LEMMA DefaultActionEffect ==
    ASSUME NEW a \in default_actions, NEW w,
           \A l \in w : \E k : l = T(k),
           is_valid(a, w), w = {} \/ T("design") \in w
    PROVE  /\ T("design") \in apply(a, w)
           /\ w \subseteq apply(a, w)
           /\ w # {} => \E x : apply(a, w) \subseteq w \cup {x}
<1> DEFINE D == T("design")
<1>1. \/ \E k : a.pre = {} /\ a.eff = {T(k), D}
      \/ \E j, k : a.pre = {T(j)} /\ a.eff = {T(k)}
  <2>3. \/ \E n, k : a = Action(n, {}, {k, "design"})
        \/ \E n, j, k : a = Action(n, {j}, {k})
    BY Zenon DEF default_actions
  <2>4. CASE \E n, k : a = Action(n, {}, {k, "design"})
    <3>1. PICK n, k : a = Action(n, {}, {k, "design"}) BY <2>4
    <3>2. a.pre = {} /\ a.eff = {T(k), D} BY <3>1 DEF Action
    <3>3. QED BY <3>2
  <2>5. CASE \E n, j, k : a = Action(n, {j}, {k})
    <3>1. PICK n, j, k : a = Action(n, {j}, {k}) BY <2>5
    <3>2. a.pre = {T(j)} /\ a.eff = {T(k)} BY <3>1 DEF Action
    <3>3. QED BY <3>2
  <2>6. QED BY <2>3, <2>4, <2>5
<1>2. w \subseteq apply(a, w)
  <2> SUFFICES ASSUME NEW l \in w, NEW e \in a.eff, e[1] = l[1] PROVE l \in a.eff
    BY DEF apply
  <2>1. PICK k : l = T(k) OBVIOUS
  <2>2. PICK j : e = T(j) BY <1>1
  <2>3. QED BY <2>1, <2>2 DEF T
<1>3. apply(a, w) \subseteq w \cup a.eff /\ a.eff \subseteq apply(a, w)
  BY DEF apply
<1>4. CASE \E k : a.pre = {} /\ a.eff = {T(k), D}
  <2>1. PICK k : a.eff = {T(k), D} BY <1>4
  <2>2. D \in apply(a, w) BY <1>3, <2>1
  <2>3. w # {} => apply(a, w) \subseteq w \cup {T(k)} BY <1>3, <2>1
  <2>4. QED BY <1>2, <2>2, <2>3
<1>5. CASE \E j, k : a.pre = {T(j)} /\ a.eff = {T(k)}
  <2>1. PICK j, k : a.pre = {T(j)} /\ a.eff = {T(k)} BY <1>5
  <2>2. w # {} /\ D \in w BY <2>1 DEF is_valid
  <2>3. QED BY <1>2, <1>3, <2>1, <2>2
<1>6. QED BY <1>1, <1>4, <1>5

LEMMA DefaultWorlds ==
    ASSUME DefaultLibrary, NEW w \in Worlds
    PROVE  \A l \in w : \E k : l = T(k)
<1>1. \A a \in default_actions : \A l \in a.eff : \E k : l = T(k)
  <2>1. \A n, p, e : \A l \in Action(n, p, e).eff : \E k : l = T(k) BY DEF Action
  <2>2. \A a \in default_actions : \E n, p, e : a = Action(n, p, e)
    BY Zenon DEF default_actions
  <2>3. QED
    <3> TAKE a \in default_actions
    <3>1. PICK n, p, e : a = Action(n, p, e) BY <2>2
    <3>2. QED BY <2>1, <3>1
<1>2. QED BY <1>1 DEF DefaultLibrary, Worlds

LEMMA RegionIsSafe ==
    ASSUME PlannerTyped, Trusted
    PROVE  \A w \in Worlds, a \in library : is_valid(a, w) =>
              /\ w \in Region \/ w = {} => apply(a, w) \in Region
              /\ w \in Region => heuristic(w) <= a.cost + heuristic(apply(a, w))
<1> SUFFICES ASSUME NEW w \in Worlds, NEW a \in library, is_valid(a, w)
             PROVE  /\ w \in Region \/ w = {} => apply(a, w) \in Region
                    /\ w \in Region => heuristic(w) <= a.cost + heuristic(apply(a, w))
  OBVIOUS
<1> DEFINE v == apply(a, w)
<1>1. v \in Worlds
  BY ApplyIsWorld
<1>2. CASE Consistent
  BY <1>1, <1>2 DEF Region, Consistent
<1>3. CASE ~Consistent /\ DefaultLibrary
  <2>1. Region = {u \in Worlds : T("design") \in u}
    BY <1>3 DEF Region
  <2>2. a \in default_actions /\ a.cost = 1
    BY <1>3, DefaultActions DEF DefaultLibrary
  <2>3. \A l \in w : \E k : l = T(k)
    BY <1>3, DefaultWorlds
  <2>4. ASSUME w \in Region \/ w = {} PROVE v \in Region
    <3>1. w = {} \/ T("design") \in w BY <2>1, <2>4
    <3>2. T("design") \in v BY <2>2, <2>3, <3>1, DefaultActionEffect
    <3>3. QED BY <1>1, <2>1, <3>2
  <2>5. ASSUME w \in Region PROVE heuristic(w) <= a.cost + heuristic(v)
    <3>1. T("design") \in w /\ w # {} BY <2>1, <2>5
    <3>2. PICK x : v \subseteq w \cup {x} BY <2>2, <2>3, <3>1, DefaultActionEffect
    <3>3. goal \ w \subseteq (goal \ v) \cup {x} BY <3>2
    <3>4. IsFiniteSet(goal \ v) BY FS_Difference DEF PlannerTyped
    <3>5. /\ IsFiniteSet((goal \ v) \cup {x})
          /\ Cardinality((goal \ v) \cup {x}) =
                IF x \in goal \ v THEN Cardinality(goal \ v) ELSE Cardinality(goal \ v) + 1
      BY <3>4, FS_AddElement
    <3>6. Cardinality(goal \ w) <= Cardinality((goal \ v) \cup {x})
      BY <3>3, <3>5, FS_Subset
    <3>7. Cardinality(goal \ v) \in Nat /\ Cardinality(goal \ w) \in Nat
      BY HeuristicIsNat DEF heuristic
    <3>8. Cardinality(goal \ w) <= 1 + Cardinality(goal \ v)
      BY <3>5, <3>6, <3>7
    <3>9. QED BY <2>2, <3>8 DEF heuristic
  <2>6. QED BY <2>4, <2>5
<1>4. QED BY <1>2, <1>3 DEF Trusted

-----------------------------------------------------------------------------
(***************************************************************************)
(* The invariant of the search: for some cost g at which each closed world *)
(* was expanded, whatever can follow a closed world is closed or open, at  *)
(* no more than it costs from there; and no open node is cheaper than a    *)
(* closed one, which is what makes the first visit of a world the cheapest *)
(* one.                                                                    *)
(***************************************************************************)

Frontier(g) ==
    /\ {} \in closed => g[{}] = 0
    /\ \A w \in closed, a \in library : is_valid(a, w) =>
          \/ apply(a, w) \in closed /\ (Trusted => g[apply(a, w)] <= g[w] + a.cost)
          \/ \E n \in open : n.world = apply(a, w) /\ n.cost <= g[w] + a.cost
    /\ Trusted => \A w \in closed \ {{}}, n \in open : g[w] + heuristic(w) <= total_cost(n)

Searching ==
    outcome = "searching" =>
        /\ (closed = {} /\ open = {Root}) \/ {} \in closed
        /\ \A w \in closed : ~is_satisfied(w)
        /\ Trusted => \A n \in open : n.world \in Region \/ n.world = {}
        /\ \E g \in [closed -> Nat] : Frontier(g)

NoneCheaper ==
    outcome = "found" /\ cost > 0 /\ Trusted =>
        \E L : Covers(L) /\ \A p \in L : is_satisfied(p[1]) => cost <= p[2]

NoneAtAll ==
    outcome = "unreachable" =>
        \E L : Covers(L) /\ \A p \in L : ~is_satisfied(p[1])

Search == Searching /\ NoneCheaper /\ NoneAtAll

LEMMA InitSearch == PlannerInit => Search
<1> SUFFICES ASSUME PlannerInit PROVE Search
  OBVIOUS
<1>1. closed = {} /\ cost = 0 /\ outcome \in {"searching", "found"}
  BY DEF PlannerInit
<1>2. outcome = "searching" => open = {Root}
  BY DEF PlannerInit
<1>3. Root.world = {}
  BY DEF Root, Node
<1>4. \E g \in [closed -> Nat] : Frontier(g)
  <2> DEFINE g == [w \in {} |-> 0]
  <2>1. g \in [{} -> Nat] OBVIOUS
  <2>2. Frontier(g) BY <1>1 DEF Frontier
  <2>3. QED BY <1>1, <2>1, <2>2
<1>5. Searching
  <2>1. \A w \in closed : ~is_satisfied(w) BY <1>1
  <2>2. outcome = "searching" => \A n \in open : n.world = {} BY <1>2, <1>3
  <2>3. QED BY <1>1, <1>2, <1>4, <2>1, <2>2, Zenon DEF Searching
<1>6. NoneCheaper
  BY <1>1 DEF NoneCheaper
<1>7. NoneAtAll
  BY <1>1 DEF NoneAtAll
<1>8. QED BY <1>5, <1>6, <1>7 DEF Search

LEMMA SameProblem ==
    ASSUME UNCHANGED <<goal, library>>
    PROVE  /\ Worlds' = Worlds /\ Region' = Region /\ (Trusted' <=> Trusted)
           /\ \A w : (is_satisfied(w)' <=> is_satisfied(w)) /\ heuristic(w)' = heuristic(w)
           /\ \A L : Covers(L)' <=> Covers(L)
<1>1. Worlds' = Worlds
  BY DEF Worlds
<1>2. \A w : (is_satisfied(w)' <=> is_satisfied(w)) /\ heuristic(w)' = heuristic(w)
  BY DEF is_satisfied, heuristic
<1>3. Consistent' <=> Consistent
  BY <1>1, <1>2 DEF Consistent
<1>4. Region' = Region /\ (Trusted' <=> Trusted)
  BY <1>1, <1>3 DEF Region, Trusted, DefaultLibrary
<1>5. \A L : Covers(L)' <=> Covers(L)
  BY <1>1 DEF Covers
<1>6. QED BY <1>1, <1>2, <1>4, <1>5

(* A closed world with an open duplicate was reached at no more than that.   *)
LEMMA ClosedIsCheaper ==
    ASSUME PlannerTyped, Trusted, NEW g \in [closed -> Nat], Frontier(g),
           NEW n \in open, n.world \in closed
    PROVE  g[n.world] <= n.cost
<1>1. n.cost \in Nat /\ g[n.world] \in Nat /\ heuristic(n.world) \in Nat
  BY HeuristicIsNat DEF PlannerTyped, Nodes
<1>2. CASE n.world = {} BY <1>1, <1>2 DEF Frontier
<1>3. CASE n.world # {}
  <2>1. g[n.world] + heuristic(n.world) <= n.cost + heuristic(n.world)
    BY <1>3 DEF Frontier, total_cost
  <2>2. QED BY <1>1, <2>1
<1>4. QED BY <1>2, <1>3

LEMMA ExpandSearches ==
    ASSUME PlannerTyped, Search, NEW n \in open, Expand(n)
    PROVE  Searching'
<1> DEFINE w0 == n.world
           new == w0 \notin closed
<1>1. UNCHANGED <<goal, library>> /\ outcome = "searching"
  BY DEF Expand
<1>2. /\ closed' = closed \cup {w0}
      /\ \A m \in open' : m \in open \/ (new /\ m \in Successors(n))
      /\ \A m \in open : m # n => m \in open'
      /\ new => Successors(n) \subseteq open'
  BY DEF Expand
<1>3. ~is_satisfied(w0) /\ \A m \in open : total_cost(n) <= total_cost(m)
  BY DEF Expand, Cheapest
<1>4. /\ (closed = {} /\ open = {Root}) \/ {} \in closed
      /\ \A w \in closed : ~is_satisfied(w)
      /\ Trusted => \A m \in open : m.world \in Region \/ m.world = {}
  BY <1>1 DEF Search, Searching
<1>5. PICK g \in [closed -> Nat] : Frontier(g)
  BY <1>1 DEF Search, Searching
<1>6. w0 \in Worlds /\ n.cost \in Nat /\ \A m \in open : m.cost \in Nat /\ m.world \in Worlds
  BY DEF PlannerTyped, Nodes
<1>7. ASSUME NEW m \in Successors(n)
      PROVE  \E a \in library : /\ is_valid(a, w0) /\ m.world = apply(a, w0)
                                /\ m.cost = n.cost + a.cost
  BY DEF Successors, Node
<1>8. ASSUME NEW a \in library, is_valid(a, w0)
      PROVE  \E m \in Successors(n) : m.world = apply(a, w0) /\ m.cost = n.cost + a.cost
  <2> DEFINE m == Node(apply(a, w0), n.cost + a.cost, Append(n.plan, a))
  <2>1. m \in Successors(n) BY <1>8 DEF Successors
  <2>2. m.world = apply(a, w0) /\ m.cost = n.cost + a.cost BY DEF Node
  <2>3. QED BY <2>1, <2>2
<1>9. {} \notin closed => closed = {} /\ w0 = {} /\ n.cost = 0
  BY <1>4 DEF Root, Node
<1>10. \A a \in library : a.cost \in Nat
  BY DEF PlannerTyped
<1>11. \A w : heuristic(w) \in Nat
  BY HeuristicIsNat
<1>12. {} \in closed'
  BY <1>2, <1>9
<1>13. \A w \in closed' : ~is_satisfied(w)
  BY <1>2, <1>3, <1>4
<1>14. ASSUME Trusted, NEW m \in open' PROVE m.world \in Region \/ m.world = {}
  <2>1. CASE m \in open BY <1>4, <1>14, <2>1
  <2>2. CASE m \in Successors(n)
    <3>1. PICK a \in library : is_valid(a, w0) /\ m.world = apply(a, w0) BY <1>7, <2>2
    <3>2. w0 \in Region \/ w0 = {} BY <1>4, <1>14
    <3>3. QED BY <1>6, <1>14, <3>1, <3>2, RegionIsSafe
  <2>3. QED BY <1>2, <2>1, <2>2
<1>15. PICK h \in [closed' -> Nat] :
           (\A w \in closed : h[w] = g[w]) /\ (new => h[w0] = n.cost)
  <2> DEFINE f == [w \in closed' |-> IF w \in closed THEN g[w] ELSE n.cost]
  <2>1. f \in [closed' -> Nat] /\ (\A w \in closed : f[w] = g[w]) /\ (new => f[w0] = n.cost)
    BY <1>2, <1>6
  <2>2. QED BY <2>1
<1>16. {} \in closed' => h[{}] = 0
  BY <1>5, <1>9, <1>15 DEF Frontier
<1>17. ASSUME NEW w \in closed', NEW a \in library, is_valid(a, w)
       PROVE  \/ apply(a, w) \in closed' /\ (Trusted => h[apply(a, w)] <= h[w] + a.cost)
              \/ \E m \in open' : m.world = apply(a, w) /\ m.cost <= h[w] + a.cost
  <2> DEFINE v == apply(a, w)
  <2>1. CASE w \in closed
    <3>1. \/ v \in closed /\ (Trusted => g[v] <= g[w] + a.cost)
          \/ \E m \in open : m.world = v /\ m.cost <= g[w] + a.cost
      BY <1>5, <1>17, <2>1 DEF Frontier
    <3>2. CASE v \in closed /\ (Trusted => g[v] <= g[w] + a.cost)
      BY <1>2, <1>15, <2>1, <3>2
    <3>3. CASE \E m \in open : m # n /\ m.world = v /\ m.cost <= g[w] + a.cost
      BY <1>2, <1>15, <2>1, <3>3
    <3>4. CASE w0 = v /\ n.cost <= g[w] + a.cost
      <4>1. v \in closed' BY <1>2, <3>4
      <4>2. ASSUME Trusted PROVE h[v] <= n.cost
        <5>1. CASE new BY <1>6, <1>15, <3>4, <5>1
        <5>2. CASE ~new BY <1>5, <1>15, <3>4, <4>2, <5>2, ClosedIsCheaper
        <5>3. QED BY <5>1, <5>2
      <4>3. h[v] \in Nat /\ h[w] \in Nat /\ h[w] = g[w] BY <1>15, <2>1, <4>1
      <4>4. Trusted => h[v] <= h[w] + a.cost BY <1>6, <1>10, <3>4, <4>2, <4>3
      <4>5. QED BY <4>1, <4>4
    <3>5. QED BY <3>1, <3>2, <3>3, <3>4
  <2>2. CASE w \notin closed
    <3>1. w = w0 /\ new BY <1>2, <2>2
    <3>2. PICK m \in Successors(n) : m.world = v /\ m.cost = n.cost + a.cost
      BY <1>8, <1>17, <3>1
    <3>3. m \in open' /\ m.cost <= h[w] + a.cost BY <1>2, <1>6, <1>10, <1>15, <3>1, <3>2
    <3>4. QED BY <3>2, <3>3
  <2>3. QED BY <2>1, <2>2
<1>18. ASSUME Trusted, NEW w \in closed' \ {{}}, NEW m \in open'
       PROVE  h[w] + heuristic(w) <= total_cost(m)
  <2>1. h[w] + heuristic(w) <= total_cost(n)
    <3>1. CASE w \in closed BY <1>5, <1>15, <1>18, <3>1 DEF Frontier
    <3>2. CASE w \notin closed
      <4>1. w = w0 /\ h[w] = n.cost BY <1>2, <1>15, <3>2
      <4>2. QED BY <1>6, <1>11, <4>1 DEF total_cost
    <3>3. QED BY <3>1, <3>2
  <2>2. total_cost(n) <= total_cost(m)
    <3>1. CASE m \in open BY <1>3, <3>1
    <3>2. CASE new /\ m \in Successors(n)
      <4>1. PICK a \in library : /\ is_valid(a, w0) /\ m.world = apply(a, w0)
                                 /\ m.cost = n.cost + a.cost
        BY <1>7, <3>2
      <4>2. w0 # {} BY <1>2, <1>9, <1>18, <3>2
      <4>3. w0 \in Region BY <1>4, <1>18, <4>2
      <4>4. heuristic(w0) <= a.cost + heuristic(m.world)
        BY <1>6, <1>18, <4>1, <4>3, RegionIsSafe
      <4>5. QED BY <1>6, <1>10, <1>11, <4>1, <4>4 DEF total_cost
    <3>3. QED BY <1>2, <3>1, <3>2
  <2>3. h[w] \in Nat /\ heuristic(w) \in Nat BY <1>11, <1>15
  <2>4. total_cost(n) \in Nat BY <1>6, <1>11 DEF total_cost
  <2>5. m.cost \in Nat /\ total_cost(m) \in Nat
    <3>1. m.cost \in Nat BY <1>2, <1>6, <1>7, <1>10
    <3>2. QED BY <1>11, <3>1 DEF total_cost
  <2>6. QED BY <2>1, <2>2, <2>3, <2>4, <2>5
<1>19. Frontier(h)'
  <2>1. (Trusted' <=> Trusted) /\ \A w : heuristic(w)' = heuristic(w) BY <1>1, SameProblem
  <2>2. \A m : total_cost(m)' = total_cost(m) BY <2>1 DEF total_cost
  <2>3. QED BY <1>1, <1>16, <1>17, <1>18, <2>1, <2>2 DEF Frontier
<1>20. \E f \in [closed' -> Nat] : Frontier(f)'
  BY <1>15, <1>19
<1>21. QED BY <1>1, <1>12, <1>13, <1>14, <1>20, SameProblem DEF Searching

(* The first node that meets the goal is a cheapest one: whatever an action  *)
(* sequence leads to was expanded at no more, or passed the frontier, from   *)
(* where the heuristic says that the goal costs no less.                     *)
LEMMA ReachSearch ==
    ASSUME PlannerTyped, Search, NEW n \in open, Reach(n)
    PROVE  NoneCheaper'
<1>1. UNCHANGED <<goal, library>> /\ outcome = "searching" /\ cost' = n.cost
  BY DEF Reach, Ends
<1>2. is_satisfied(n.world) /\ \A m \in open : total_cost(n) <= total_cost(m)
  BY DEF Reach, Cheapest
<1>3. /\ (closed = {} /\ open = {Root}) \/ {} \in closed
      /\ \A w \in closed : ~is_satisfied(w)
      /\ Trusted => \A m \in open : m.world \in Region \/ m.world = {}
  BY <1>1 DEF Search, Searching
<1>4. PICK g \in [closed -> Nat] : Frontier(g)
  BY <1>1 DEF Search, Searching
<1>5. \A m \in open : m.cost \in Nat /\ m.world \in Worlds
  BY DEF PlannerTyped, Nodes
<1>6. \A w : heuristic(w) \in Nat /\ (is_satisfied(w) => heuristic(w) = 0)
  BY HeuristicIsNat
<1>7. \A m \in open : n.cost <= m.cost + heuristic(m.world)
  <2>1. heuristic(n.world) = 0 BY <1>2, <1>6
  <2>2. total_cost(n) = n.cost BY <1>5, <2>1 DEF total_cost
  <2>3. QED BY <1>2, <2>2 DEF total_cost
<1>8. \A a \in library : a.cost \in Nat
  BY DEF PlannerTyped
<1> SUFFICES ASSUME n.cost > 0, Trusted
             PROVE  \E L : Covers(L) /\ \A p \in L : is_satisfied(p[1]) => n.cost <= p[2]
  BY <1>1, SameProblem DEF NoneCheaper
<1>9. {} \in closed /\ g[{}] = 0
  <2>1. {} \in closed BY <1>3 DEF Root, Node
  <2>2. QED BY <1>4, <2>1 DEF Frontier
<1> DEFINE Known(w, c) == w \in closed /\ g[w] <= c
           Beyond(w, c) == w \in Region /\ n.cost <= c + heuristic(w)
           L == {p \in Worlds \X Nat : Known(p[1], p[2]) \/ Beyond(p[1], p[2])}
<1>10. \A w \in Worlds, c \in Nat : <<w, c>> \in L <=> Known(w, c) \/ Beyond(w, c)
  OBVIOUS
<1>11. ASSUME NEW w \in Worlds, NEW c \in Nat, NEW a \in library,
              Known(w, c) \/ Beyond(w, c), is_valid(a, w)
       PROVE  Known(apply(a, w), c + a.cost) \/ Beyond(apply(a, w), c + a.cost)
  <2> DEFINE v == apply(a, w)
  <2>1. v \in Worlds /\ a.cost \in Nat BY <1>8, ApplyIsWorld
  <2>2. CASE Known(w, c)
    <3>1. \/ v \in closed /\ g[v] <= g[w] + a.cost
          \/ \E m \in open : m.world = v /\ m.cost <= g[w] + a.cost
      BY <1>4, <1>11, <2>2 DEF Frontier
    <3>2. g[w] \in Nat /\ g[w] <= c BY <2>2
    <3>3. CASE v \in closed /\ g[v] <= g[w] + a.cost
      <4>1. g[v] \in Nat BY <3>3
      <4>2. QED BY <2>1, <3>2, <3>3, <4>1
    <3>4. CASE \E m \in open : m.world = v /\ m.cost <= g[w] + a.cost
      <4>1. PICK m \in open : m.world = v /\ m.cost <= g[w] + a.cost BY <3>4
      <4>2. n.cost <= m.cost + heuristic(v) /\ m.cost \in Nat /\ heuristic(v) \in Nat
        BY <1>5, <1>6, <1>7, <4>1
      <4>3. CASE v = {} BY <1>9, <2>1, <4>3
      <4>4. CASE v \in Region BY <1>5, <2>1, <3>2, <4>1, <4>2, <4>4
      <4>5. QED BY <1>3, <4>1, <4>3, <4>4
    <3>5. QED BY <3>1, <3>3, <3>4
  <2>3. CASE Beyond(w, c)
    <3>1. v \in Region /\ heuristic(w) <= a.cost + heuristic(v)
      BY <1>11, <2>3, RegionIsSafe
    <3>2. heuristic(w) \in Nat /\ heuristic(v) \in Nat BY <1>6
    <3>3. QED BY <1>5, <2>1, <2>3, <3>1, <3>2
  <2>4. QED BY <1>11, <2>2, <2>3
<1>12. Covers(L)
  <2>1. <<{}, 0>> \in L BY <1>9 DEF Worlds
  <2>2. ASSUME NEW w \in Worlds, NEW c \in Nat, NEW a \in library,
               <<w, c>> \in L, is_valid(a, w)
        PROVE  <<apply(a, w), c + a.cost>> \in L
    <3>1. Known(apply(a, w), c + a.cost) \/ Beyond(apply(a, w), c + a.cost)
      BY <1>10, <1>11, <2>2
    <3>2. apply(a, w) \in Worlds /\ c + a.cost \in Nat BY <1>8, ApplyIsWorld
    <3>3. QED BY <1>10, <3>1, <3>2
  <2>3. L \in SUBSET (Worlds \X Nat) OBVIOUS
  <2> HIDE DEF L
  <2>4. QED BY <2>1, <2>2, <2>3 DEF Covers
<1>13. ASSUME NEW p \in L, is_satisfied(p[1]) PROVE n.cost <= p[2]
  <2>1. p[2] \in Nat /\ p[1] \notin closed /\ heuristic(p[1]) = 0 BY <1>3, <1>6, <1>13
  <2>2. QED BY <1>5, <2>1
<1> HIDE DEF L
<1>14. QED BY <1>12, <1>13

(* When the heap is empty the closed worlds are all there are.               *)
LEMMA ExhaustSearch ==
    ASSUME PlannerTyped, Search, Exhaust
    PROVE  NoneAtAll'
<1>1. UNCHANGED <<goal, library>> /\ outcome = "searching" /\ open = {}
  BY DEF Exhaust, Ends
<1>2. {} \in closed /\ \A w \in closed : ~is_satisfied(w)
  BY <1>1 DEF Search, Searching
<1>3. PICK g \in [closed -> Nat] : Frontier(g)
  BY <1>1 DEF Search, Searching
<1>4. \A w \in closed, a \in library : is_valid(a, w) => apply(a, w) \in closed
  BY <1>1, <1>3 DEF Frontier
<1> DEFINE L == closed \X Nat
<1>5. Covers(L)
  <2>1. closed \subseteq Worlds /\ \A a \in library : a.cost \in Nat BY DEF PlannerTyped
  <2>2. L \in SUBSET (Worlds \X Nat) /\ <<{}, 0>> \in L BY <1>2, <2>1
  <2>3. ASSUME NEW w \in Worlds, NEW c \in Nat, NEW a \in library,
               <<w, c>> \in L, is_valid(a, w)
        PROVE  <<apply(a, w), c + a.cost>> \in L
    <3>1. w \in closed /\ c + a.cost \in Nat BY <2>1, <2>3
    <3>2. apply(a, w) \in closed BY <1>4, <2>3, <3>1
    <3>3. QED BY <3>1, <3>2
  <2> HIDE DEF L
  <2>4. QED BY <2>2, <2>3 DEF Covers
<1>6. \A p \in L : ~is_satisfied(p[1])
  BY <1>2
<1> HIDE DEF L
<1>7. QED BY <1>1, <1>5, <1>6, SameProblem DEF NoneAtAll

LEMMA StepSearch ==
    PlannerTyped /\ Search /\ (PlannerNext \/ UNCHANGED plannerVars) => Search'
<1> SUFFICES ASSUME PlannerTyped, Search, PlannerNext \/ UNCHANGED plannerVars PROVE Search'
  OBVIOUS
<1>1. UNCHANGED <<request, goal, library>>
  BY ProblemFixed
<1>2. ASSUME UNCHANGED <<outcome, cost>> PROVE NoneCheaper' /\ NoneAtAll'
  BY <1>1, <1>2, SameProblem DEF Search, NoneCheaper, NoneAtAll
<1>3. CASE Abort
  <2>1. outcome' = "aborted" BY <1>3 DEF Abort, Ends
  <2>2. QED BY <2>1 DEF Search, Searching, NoneCheaper, NoneAtAll
<1>4. CASE Exhaust
  <2>1. outcome' = "unreachable" BY <1>4 DEF Exhaust, Ends
  <2>2. QED BY <1>4, <2>1, ExhaustSearch DEF Search, Searching, NoneCheaper
<1>5. ASSUME NEW n \in open, Reach(n) PROVE Search'
  <2>1. outcome' = "found" BY <1>5 DEF Reach, Ends
  <2>2. QED BY <1>5, <2>1, ReachSearch DEF Search, Searching, NoneAtAll
<1>6. ASSUME NEW n \in open, Expand(n) PROVE Search'
  <2>1. UNCHANGED <<outcome, cost>> BY <1>6 DEF Expand
  <2>2. QED BY <1>2, <1>6, <2>1, ExpandSearches DEF Search
<1>7. CASE UNCHANGED plannerVars
  <2>1. UNCHANGED <<outcome, open, closed, cost>> BY <1>7 DEF plannerVars
  <2>2. \A g : Frontier(g)' <=> Frontier(g)
    <3>1. \A m : total_cost(m)' = total_cost(m) BY <1>1, SameProblem DEF total_cost
    <3>2. QED BY <1>1, <2>1, <3>1, SameProblem DEF Frontier
  <2>3. Searching' BY <1>1, <2>1, <2>2, SameProblem DEF Search, Searching, Root, Node
  <2>4. QED BY <1>2, <2>1, <2>3 DEF Search
<1>8. QED BY <1>3, <1>4, <1>5, <1>6, <1>7 DEF PlannerNext

(* Wherever a sequence of actions leads is in every covering set.            *)
LEMMA LeadsIsCovered ==
    ASSUME PlannerTyped, NEW L, Covers(L), NEW p \in Seq(library), NEW w, NEW c, Leads(p, w, c)
    PROVE  <<w, c>> \in L /\ w \in Worlds /\ c \in Nat
<1> DEFINE n == Len(p)
<1>1. n \in Nat /\ n \in 0..n
  OBVIOUS
<1>2. PICK ws \in [0..n -> Worlds], cs \in [0..n -> Nat] :
          Along(p, ws, cs) /\ ws[n] = w /\ cs[n] = c
  BY DEF Leads
<1> DEFINE S == {i \in Nat : i <= n => <<ws[i], cs[i]>> \in L}
<1>3. 0 \in S
  BY <1>2 DEF Along, Covers
<1>4. ASSUME NEW i \in Nat, i \in S PROVE i + 1 \in S
  <2> SUFFICES ASSUME i + 1 <= n PROVE <<ws[i + 1], cs[i + 1]>> \in L
    OBVIOUS
  <2>1. i + 1 \in 1..n /\ (i + 1) - 1 = i /\ i \in 0..n BY <1>1
  <2>2. /\ is_valid(p[i + 1], ws[i])
        /\ ws[i + 1] = apply(p[i + 1], ws[i])
        /\ cs[i + 1] = cs[i] + p[i + 1].cost
    BY <1>2, <2>1 DEF Along
  <2>3. p[i + 1] \in library /\ ws[i] \in Worlds /\ cs[i] \in Nat BY <2>1
  <2>4. <<ws[i], cs[i]>> \in L BY <1>1, <1>4
  <2>5. QED BY <2>2, <2>3, <2>4 DEF Covers
<1>5. Nat \subseteq S
  BY <1>3, <1>4, Induction
<1>6. QED BY <1>1, <1>2, <1>5

-----------------------------------------------------------------------------

PlannerInvariant == PlannerTyped /\ Plans /\ Search

LEMMA PlannerInvariantHolds == Spec => []PlannerInvariant
<1>1. Init => PlannerInvariant
  BY InitPlannerTyped, InitPlans, InitSearch DEF Init, PlannerInvariant
<1>2. [Next]_vars => PlannerNext \/ UNCHANGED plannerVars
  BY DEF Next, vars, Plan, Refuse, PlanOnly, Start, SpawnFails, LineStep, GraphStep, OutOfSteps
<1>3. PlannerInvariant /\ [Next]_vars => PlannerInvariant'
  BY <1>2, StepPlannerTyped, StepPlans, StepSearch DEF PlannerInvariant
<1>4. QED BY <1>1, <1>3, PTL DEF Spec

(* plan returns a "minimum-cost action sequence reaching `goal`", in the     *)
(* terms the model checker evaluates.                                        *)
THEOREM PlanMinimal == Spec => []PlanIsMinimal
<1>1. PlannerInvariant => PlanIsMinimal
  <2> SUFFICES ASSUME PlannerInvariant, outcome = "found" PROVE PlanIsMinimal
    BY DEF PlanIsMinimal
  <2>1. PlannerTyped /\ Plans /\ NoneCheaper BY DEF PlannerInvariant, Search
  <2>2. ASSUME cost > 0, Trusted PROVE ~MetWithin(cost - 1)
    <3>1. PICK L : Covers(L) /\ \A p \in L : is_satisfied(p[1]) => cost <= p[2]
      BY <2>1, <2>2 DEF NoneCheaper
    <3>2. cost \in Nat /\ cost - 1 \in Nat BY <2>1, <2>2 DEF PlannerTyped
    <3>3. \A p \in Costs[cost - 1] : p \in L /\ p[2] \in Nat /\ p[2] <= cost - 1
      BY <2>1, <3>1, <3>2, CostsAreCovered
    <3>4. QED BY <3>1, <3>2, <3>3 DEF MetWithin
  <2>3. QED BY <2>1, <2>2, PlanIsAPlan DEF PlanIsMinimal, Trusted
<1>2. QED BY <1>1, PlannerInvariantHolds, PTL

(* A goal reported unreachable has no plan at any cost.                      *)
THEOREM UnreachableIsHopeless ==
    Spec => [](outcome = "unreachable" => \A k \in Nat : ~MetWithin(k))
<1>1. PlannerInvariant => (outcome = "unreachable" => \A k \in Nat : ~MetWithin(k))
  <2> SUFFICES ASSUME PlannerInvariant, outcome = "unreachable", NEW k \in Nat
               PROVE  ~MetWithin(k)
    OBVIOUS
  <2>1. PICK L : Covers(L) /\ \A p \in L : ~is_satisfied(p[1])
    BY DEF PlannerInvariant, Search, NoneAtAll
  <2>2. \A p \in Costs[k] : p \in L
    BY <2>1, CostsAreCovered DEF PlannerInvariant
  <2>3. QED BY <2>1, <2>2 DEF MetWithin
<1>2. QED BY <1>1, PlannerInvariantHolds, PTL

(* In particular none at the cost a run looks up to.                         *)
THEOREM UnreachableNoPlan == Spec => []UnreachableHasNoPlan
<1>1. PlannerTyped => 2 * Cardinality(library) \in Nat
  <2>1. PlannerTyped => Cardinality(library) \in Nat
    BY FS_CardinalityType DEF PlannerTyped
  <2>2. QED BY <2>1
<1>2. /\ PlannerInvariant
      /\ outcome = "unreachable" => \A k \in Nat : ~MetWithin(k)
      => UnreachableHasNoPlan
  BY <1>1 DEF PlannerInvariant, UnreachableHasNoPlan
<1>3. QED BY <1>2, PlannerInvariantHolds, UnreachableIsHopeless, PTL

(* No sequence of valid actions, of any length, meets the goal at a lower    *)
(* cost than the plan that was found, nor at all when the goal is reported   *)
(* unreachable.                                                              *)
SearchIsExact ==
    \A p \in Seq(library) : \A w, c :
        Leads(p, w, c) /\ is_satisfied(w) =>
            /\ outcome # "unreachable"
            /\ outcome = "found" /\ (DefaultLibrary \/ Consistent) => cost <= c

(* A* of ruvos-goap loses no plan, for every library, goal and set of        *)
(* capabilities, and gives up on no goal that can be met.                    *)
THEOREM ExactSearch == Spec => []SearchIsExact
<1>1. PlannerInvariant => SearchIsExact
  <2> SUFFICES ASSUME PlannerInvariant, NEW p \in Seq(library), NEW w, NEW c,
                      Leads(p, w, c), is_satisfied(w)
               PROVE  /\ outcome # "unreachable"
                      /\ outcome = "found" /\ Trusted => cost <= c
    BY DEF SearchIsExact, Trusted
  <2>1. PlannerTyped /\ NoneCheaper /\ NoneAtAll BY DEF PlannerInvariant, Search
  <2>2. \A L : Covers(L) => <<w, c>> \in L BY <2>1, LeadsIsCovered
  <2>3. outcome # "unreachable" BY <2>1, <2>2 DEF NoneAtAll
  <2>4. c \in Nat /\ cost \in Nat
    <3>1. Len(p) \in 0..Len(p) OBVIOUS
    <3>2. PICK cs \in [0..Len(p) -> Nat] : cs[Len(p)] = c BY DEF Leads
    <3>3. QED BY <2>1, <3>1, <3>2 DEF PlannerTyped
  <2>5. ASSUME outcome = "found", Trusted, cost > 0 PROVE cost <= c
    <3>1. PICK L : Covers(L) /\ \A q \in L : is_satisfied(q[1]) => cost <= q[2]
      BY <2>1, <2>5 DEF NoneCheaper
    <3>2. QED BY <2>2, <3>1
  <2>6. QED BY <2>3, <2>4, <2>5
<1>2. QED BY <1>1, PlannerInvariantHolds, PTL

-----------------------------------------------------------------------------
(***************************************************************************)
(* The run.                                                                *)
(***************************************************************************)

(* Where the edges of build_graph lead: to a step of the pipeline, whatever  *)
(* it is.                                                                    *)
LEMMA LeastPosition ==
    ASSUME NEW S \in SUBSET Nat, S # {}
    PROVE  First(S) \in S /\ \A j \in S : First(S) <= j
  BY LeastNumber DEF First

LEMMA GreatestPosition ==
    ASSUME NEW n \in Nat, NEW S \in SUBSET (0..n), S # {}
    PROVE  Latest(S) \in S /\ \A j \in S : j <= Latest(S)
<1> DEFINE R == {n - i : i \in S}
<1>1. R \in SUBSET Nat /\ R # {}
  <2>1. \A i \in S : n - i \in Nat OBVIOUS
  <2>2. R \in SUBSET Nat BY <2>1
  <2>3. PICK i : i \in S OBVIOUS
  <2>4. n - i \in R BY <2>3
  <2>5. QED BY <2>2, <2>4
<1>2. PICK m \in R : \A k \in R : m <= k
  BY <1>1, LeastNumber
<1>3. PICK i \in S : m = n - i
  OBVIOUS
<1>4. \A j \in S : j <= i
  BY <1>2, <1>3
<1>5. QED BY <1>4 DEF Latest

LEMMA ReworkIsAStep ==
    ASSUME NEW p \in Seq(Names), NEW i \in DOMAIN p
    PROVE  \E b \in 1..i :
              /\ rework(p, i) = p[b]
              /\ \/ b = i /\ \A c \in 1..(i - 1) : p[c] # "coder"
                 \/ b < i /\ p[b] = "coder"
<1> DEFINE before == {j \in At(p, "coder") : j < i}
<1>1. i \in 1..Len(p) /\ i \in Nat /\ Len(p) \in Nat
  OBVIOUS
<1>2. before = {j \in 1..(i - 1) : p[j] = "coder"}
  BY <1>1 DEF At
<1>3. CASE before = {}
  <2>1. \A c \in 1..(i - 1) : p[c] # "coder" BY <1>2, <1>3
  <2>2. rework(p, i) = p[i] BY <1>3 DEF rework
  <2>3. QED BY <1>1, <2>1, <2>2
<1>4. CASE before # {}
  <2>1. before \in SUBSET (0..i) BY <1>1, <1>2
  <2>2. Latest(before) \in before BY <1>1, <1>4, <2>1, GreatestPosition
  <2>3. rework(p, i) = p[Latest(before)] BY <1>4 DEF rework
  <2>4. Latest(before) \in 1..(i - 1) /\ p[Latest(before)] = "coder" BY <1>2, <2>2
  <2>5. QED BY <1>1, <2>3, <2>4
<1>5. QED BY <1>3, <1>4

LEMMA NextIsAStep ==
    ASSUME NEW p \in Seq(Names), NEW a, NEW ok \in BOOLEAN, next(p, a, ok) # "none"
    PROVE  \E b \in DOMAIN p : next(p, a, ok) = p[b]
<1> DEFINE edges == IF ok THEN {i \in At(p, a) : i < Len(p)} ELSE At(p, a)
<1>1. edges # {} /\ next(p, a, ok) = IF ok THEN p[First(edges) + 1] ELSE rework(p, First(edges))
  BY DEF next
<1>2. edges \in SUBSET (1..Len(p)) /\ (ok => \A i \in edges : i < Len(p)) /\ Len(p) \in Nat
  BY DEF At
<1>3. First(edges) \in edges
  <2>1. edges \in SUBSET Nat BY <1>2
  <2>2. QED BY <1>1, <2>1, LeastPosition
<1>4. CASE ok
  <2>1. First(edges) + 1 \in DOMAIN p BY <1>2, <1>3, <1>4
  <2>2. QED BY <1>1, <1>4, <2>1
<1>5. CASE ~ok
  <2>1. First(edges) \in DOMAIN p BY <1>2, <1>3
  <2>2. PICK b \in 1..First(edges) : rework(p, First(edges)) = p[b] BY <2>1, ReworkIsAStep
  <2>3. b \in DOMAIN p BY <1>2, <2>1, <2>2
  <2>4. QED BY <1>1, <1>5, <2>2, <2>3
<1>6. QED BY <1>4, <1>5

(* Without repetition, an edge leads where the pipeline says.                *)
LEMMA NextInDistinct ==
    ASSUME NEW p \in Seq(Names), \A i, j \in DOMAIN p : p[i] = p[j] => i = j,
           NEW i \in DOMAIN p
    PROVE  /\ next(p, p[i], TRUE) = IF i < Len(p) THEN p[i + 1] ELSE "none"
           /\ next(p, p[i], FALSE) = rework(p, i)
<1>1. At(p, p[i]) = {i}
  BY DEF At
<1>2. First({i}) = i
  BY LeastPosition
<1>3. next(p, p[i], FALSE) = rework(p, i)
  <2>1. next(p, p[i], FALSE) =
            IF {i} = {} THEN "none" ELSE rework(p, First({i}))
    BY <1>1 DEF next
  <2>2. QED BY <1>2, <2>1
<1>4. CASE i < Len(p)
  <2>1. {k \in At(p, p[i]) : k < Len(p)} = {i} BY <1>1, <1>4
  <2>2. next(p, p[i], TRUE) = IF {i} = {} THEN "none" ELSE p[First({i}) + 1]
    BY <2>1 DEF next
  <2>3. QED BY <1>2, <1>3, <1>4, <2>2
<1>5. CASE ~(i < Len(p))
  <2>1. {k \in At(p, p[i]) : k < Len(p)} = {} BY <1>1, <1>5
  <2>2. QED BY <1>3, <1>5, <2>1 DEF next
<1>6. QED BY <1>4, <1>5

-----------------------------------------------------------------------------

\* The state of the run has its type, and a step to run is one of the pipeline.
RunTyped ==
    /\ pipeline \in Seq(Names) /\ max_retries \in Nat
    /\ all_ok \in BOOLEAN
    /\ pc \in {"plan", "line", "graph", "end"}
    /\ steps \in Nat
    /\ visits \in [Names -> Nat] /\ last \in [Names -> Nat]
    /\ good \subseteq Names
    /\ pc # "end" => status = "none"
    /\ pc = "plan" => steps = 0 /\ visits = NoRuns /\ last = NoRuns
    /\ pc \in {"line", "graph"} => \E i \in DOMAIN pipeline : current = pipeline[i]
    /\ pc = "graph" => ~all_ok

LEMMA ThePipelineTyped ==
    ASSUME PlannerTyped
    PROVE  /\ ThePipeline \in Seq(Names)
           /\ ThePipeline # <<>> => 1 \in DOMAIN ThePipeline
<1>1. {"researcher", "planner", "architect", "security", "coder", "tester", "reviewer"}
         \subseteq Names
  <2>1. \A n, p, e : Action(n, p, e).name = n BY DEF Action
  <2>2. \A n, p, e : Action(n, p, e) \in default_actions => n \in Names
    BY <2>1, NamesAreComplete
  <2>3. /\ Action("researcher", {}, {"spec", "design"}) \in default_actions
        /\ Action("planner", {}, {"plan", "design"}) \in default_actions
        /\ Action("architect", {}, {"architecture", "design"}) \in default_actions
        /\ Action("security", {}, {"secured", "design"}) \in default_actions
        /\ Action("coder", {"design"}, {"code"}) \in default_actions
        /\ Action("tester", {"code"}, {"tested"}) \in default_actions
        /\ Action("reviewer", {"tested"}, {"reviewed"}) \in default_actions
    BY DEF default_actions
  <2>4. /\ "researcher" \in Names /\ "planner" \in Names /\ "architect" \in Names
        /\ "security" \in Names /\ "coder" \in Names /\ "tester" \in Names
        /\ "reviewer" \in Names
    BY <2>2, <2>3, Zenon
  <2>5. QED BY <2>4
<1>2. \A t \in Templates : template(t) \in Seq(Names)
  <2> SUFFICES ASSUME NEW t \in {"feature", "bugfix", "refactor", "security", "sparc"}
               PROVE  template(t) \in Seq(Names)
    BY TemplatesAreKnown
  <2>1. CASE t = "feature" BY <1>1, <2>1 DEF template
  <2>2. CASE t = "bugfix" BY <1>1, <2>2 DEF template
  <2>3. CASE t = "refactor" BY <1>1, <2>3 DEF template
  <2>4. CASE t = "security" BY <1>1, <2>4 DEF template
  <2>5. CASE t = "sparc" BY <1>1, <2>5 DEF template
  <2>6. QED BY <2>1, <2>2, <2>3, <2>4, <2>5
<1>3. CASE Planned
  <2> DEFINE q == [i \in DOMAIN plan |-> plan[i].name]
  <2>1. plan \in Seq(library) /\ \A a \in library : a.name \in Names BY DEF PlannerTyped
  <2>2. \A i \in DOMAIN plan : plan[i].name \in Names BY <2>1
  <2>3. DOMAIN plan = 1..Len(plan) /\ Len(plan) \in Nat BY <2>1
  <2>4. q \in Seq(Names) BY <2>2, <2>3
  <2>5. ThePipeline = q BY <1>3 DEF ThePipeline
  <2> HIDE DEF q
  <2>6. QED BY <2>4, <2>5
<1>4. CASE ~Planned /\ request = "goal"
  BY <1>4 DEF ThePipeline
<1>5. CASE ~Planned /\ request # "goal"
  <2>1. ThePipeline = template(request) /\ request \in Templates
    BY <1>5 DEF ThePipeline, PlannerTyped
  <2>2. QED BY <1>2, <2>1
<1>6. QED BY <1>3, <1>4, <1>5

\* What a step of the run leaves of its types.
LEMMA RunStepTyped ==
    ASSUME RunTyped, NEW ok, run_step(ok), pc \in {"line", "graph"}
    PROVE  /\ current \in Names
           /\ steps' = steps + 1 /\ steps' \in Nat
           /\ visits' \in [Names -> Nat] /\ last' \in [Names -> Nat]
           /\ good' \subseteq Names
           /\ visits'[current] = visits[current] + 1
           /\ last'[current] = steps + 1
           /\ \A a \in Names : a # current => visits'[a] = visits[a] /\ last'[a] = last[a]
           /\ \A a : a # current => (a \in good' <=> a \in good)
           /\ current \in good' <=> ok
<1>1. current \in Names
  BY DEF RunTyped
<1>2. /\ steps' = steps + 1
      /\ visits' = [visits EXCEPT ![current] = visits[current] + 1]
      /\ last' = [last EXCEPT ![current] = steps + 1]
      /\ good' = IF ok THEN good \cup {current} ELSE good \ {current}
  BY DEF run_step
<1>3. /\ steps \in Nat /\ visits \in [Names -> Nat] /\ last \in [Names -> Nat]
      /\ good \subseteq Names
  BY DEF RunTyped
<1>4. QED BY <1>1, <1>2, <1>3

-----------------------------------------------------------------------------
(***************************************************************************)
(* The bounds of the graph loop.  A visit cap of max_retries + 1 for each  *)
(* step leaves room for Len(pipeline) * (max_retries + 1) runs, which is   *)
(* less than the budget: a run is counted by the first position of its     *)
(* step and the number of its visit.                                       *)
(***************************************************************************)

Runs ==
    {r \in (DOMAIN pipeline) \X (1..(max_retries + 1)) :
        /\ r[1] = First(At(pipeline, pipeline[r[1]]))
        /\ r[2] <= visits[pipeline[r[1]]]}

InBudget ==
    pc = "graph" /\ NoOverflow => visits[current] <= max_retries /\ steps = Cardinality(Runs)

(* The bounds are what they look like when nothing wraps around.             *)
LEMMA NoWrap ==
    ASSUME RunTyped, NoOverflow, NEW i \in DOMAIN pipeline
    PROVE  /\ max_visits = max_retries + 1
           /\ max_steps = Len(pipeline) * (max_retries + 1) + 2
<1>1. \A x \in Nat : x < Usize => x % Usize = x
  BY UsizeType
<1>2. Len(pipeline) \in Nat /\ Len(pipeline) >= 1 /\ max_retries + 1 \in Nat
  BY DEF RunTyped
<1>3. \A a, b \in Nat : a >= 1 => a * b \in Nat /\ b <= a * b
  <2> SUFFICES ASSUME NEW a \in Nat, NEW b \in Nat, a >= 1
               PROVE  a * b \in Nat /\ b <= a * b
    OBVIOUS
  <2>1. a - 1 \in Nat /\ (a - 1) * b \in Nat OBVIOUS
  <2>2. a * b = (a - 1) * b + b OBVIOUS
  <2>3. QED BY <2>1, <2>2
<1> DEFINE m == max_retries + 1
           x == Len(pipeline) * m
<1>4. m \in Nat /\ x \in Nat /\ m <= x /\ x + 2 < Usize
  BY <1>2, <1>3 DEF NoOverflow
<1>5. m < Usize /\ x + 2 \in Nat /\ Usize \in Nat
  BY <1>4, UsizeType
<1>6. m % Usize = m /\ (x + 2) % Usize = x + 2
  BY <1>1, <1>4, <1>5
<1>7. QED BY <1>6 DEF max_visits, max_steps

LEMMA GridSize ==
    ASSUME NEW n \in Nat, NEW m \in Nat
    PROVE  IsFiniteSet((1..n) \X (1..m)) /\ Cardinality((1..n) \X (1..m)) = n * m
<1>1. ASSUME NEW k \in Nat PROVE IsFiniteSet(1..k) /\ Cardinality(1..k) = k
  <2>1. IsFiniteSet(1..k) /\ Cardinality(1..k) = IF 1 > k THEN 0 ELSE k - 1 + 1
    BY FS_Interval
  <2>2. QED BY <2>1
<1>2. /\ IsFiniteSet(1..n) /\ Cardinality(1..n) = n
      /\ IsFiniteSet(1..m) /\ Cardinality(1..m) = m
  BY <1>1
<1>3. PICK A, B : A = 1..n /\ B = 1..m
  OBVIOUS
<1>4. IsFiniteSet(A \X B) /\ Cardinality(A \X B) = Cardinality(A) * Cardinality(B)
  BY <1>2, <1>3, FS_Product
<1>5. QED BY <1>2, <1>3, <1>4

LEMMA RunsBounded ==
    ASSUME RunTyped
    PROVE  /\ IsFiniteSet(Runs)
           /\ Cardinality(Runs) \in Nat
           /\ Cardinality(Runs) <= Len(pipeline) * (max_retries + 1)
<1>1. /\ Len(pipeline) \in Nat /\ max_retries + 1 \in Nat
      /\ DOMAIN pipeline = 1..Len(pipeline)
  BY DEF RunTyped
<1>2. PICK n \in Nat, m \in Nat : n = Len(pipeline) /\ m = max_retries + 1
  BY <1>1
<1>3. Runs \in SUBSET ((1..n) \X (1..m))
  <2>1. Runs = {r \in (1..n) \X (1..m) : /\ r[1] = First(At(pipeline, pipeline[r[1]]))
                                         /\ r[2] <= visits[pipeline[r[1]]]}
    BY <1>1, <1>2, Zenon DEF Runs
  <2>2. QED BY <2>1, Zenon
<1>4. IsFiniteSet((1..n) \X (1..m)) /\ Cardinality((1..n) \X (1..m)) = n * m
  BY GridSize
<1>5. IsFiniteSet(Runs) /\ Cardinality(Runs) <= n * m
  BY <1>3, <1>4, FS_Subset
<1>6. Cardinality(Runs) \in Nat
  BY <1>5, FS_CardinalityType
<1>7. QED BY <1>2, <1>5, <1>6

(* Running a step adds one run.                                              *)
LEMMA RunAddsOne ==
    ASSUME RunTyped, pc = "graph", NEW ok, run_step(ok), UNCHANGED <<pipeline, max_retries>>,
           visits[current] <= max_retries
    PROVE  Cardinality(Runs') = Cardinality(Runs) + 1
<1>1. /\ current \in Names
      /\ visits'[current] = visits[current] + 1
      /\ \A a \in Names : a # current => visits'[a] = visits[a]
  BY RunStepTyped
<1>2. /\ pipeline \in Seq(Names) /\ max_retries \in Nat /\ visits \in [Names -> Nat]
      /\ \E j \in DOMAIN pipeline : current = pipeline[j]
  BY DEF RunTyped
<1> DEFINE i == First(At(pipeline, current))
           new == <<i, visits[current] + 1>>
<1>3. i \in DOMAIN pipeline /\ pipeline[i] = current
  <2>1. At(pipeline, current) \in SUBSET Nat /\ At(pipeline, current) # {}
    BY <1>2 DEF At
  <2>2. i \in At(pipeline, current) BY <2>1, LeastPosition
  <2>3. QED BY <2>2 DEF At
<1> HIDE DEF i
<1>4. visits[current] + 1 \in 1..(max_retries + 1)
  BY <1>1, <1>2
<1>5. new \notin Runs
  <2> SUFFICES ASSUME new \in Runs PROVE FALSE OBVIOUS
  <2>1. visits[current] + 1 <= visits[current] BY <1>3 DEF Runs
  <2>2. QED BY <1>1, <1>2, <2>1
<1>6. Runs' = Runs \cup {new}
  <2> DEFINE D == (DOMAIN pipeline) \X (1..(max_retries + 1))
             F(j) == j = First(At(pipeline, pipeline[j]))
  <2>1. Runs' = {r \in D : F(r[1]) /\ r[2] <= visits'[pipeline[r[1]]]}
    BY DEF Runs
  <2>2. Runs = {r \in D : F(r[1]) /\ r[2] <= visits[pipeline[r[1]]]}
    BY DEF Runs
  <2>3. F(i) BY <1>3 DEF i
  <2>4. new \in D BY <1>3, <1>4
  <2>5. ASSUME NEW j \in DOMAIN pipeline, NEW k \in 1..(max_retries + 1), F(j)
        PROVE  k <= visits'[pipeline[j]] <=>
                  k <= visits[pipeline[j]] \/ <<j, k>> = new
    <3>1. CASE pipeline[j] = current
      <4>1. j = i BY <2>5, <3>1 DEF i
      <4>2. visits[current] \in Nat /\ k \in Nat BY <1>1, <1>2
      <4>3. QED BY <1>1, <3>1, <4>1, <4>2
    <3>2. CASE pipeline[j] # current
      <4>1. j # i /\ pipeline[j] \in Names BY <1>2, <1>3, <3>2
      <4>2. QED BY <1>1, <3>2, <4>1
    <3>3. QED BY <3>1, <3>2
  <2> HIDE DEF F
  <2>6. \A r \in D : r = <<r[1], r[2]>> /\ r[1] \in DOMAIN pipeline /\ r[2] \in 1..(max_retries + 1)
    OBVIOUS
  <2>7. \A r \in D : F(r[1]) => (r[2] <= visits'[pipeline[r[1]]] <=>
                                   r[2] <= visits[pipeline[r[1]]] \/ r = new)
    BY <2>5, <2>6, Zenon
  <2>8. new[1] = i OBVIOUS
  <2> HIDE DEF D, new
  <2>9. ASSUME NEW r PROVE r \in Runs' <=> r \in Runs \cup {new}
    BY <2>1, <2>2, <2>3, <2>4, <2>7, <2>8
  <2>10. QED BY <2>9
<1> HIDE DEF new
<1>7. IsFiniteSet(Runs) /\ Cardinality(Runs) \in Nat
  BY RunsBounded
<1>8. Cardinality(Runs \cup {new}) = Cardinality(Runs) + 1
  BY <1>5, <1>7, FS_AddElement
<1>9. QED BY <1>6, <1>8

-----------------------------------------------------------------------------
(***************************************************************************)
(* The invariant of the run.  In a line, the steps before the current one  *)
(* ran once, in order.  In the graph, with the current step at position i, *)
(* the steps before it stand on good last runs in the order of the         *)
(* pipeline; and a step whose rework may come back to it has run no more   *)
(* often than the one before it, so that a step that goes well never leads *)
(* to one that has used up its visits.                                     *)
(***************************************************************************)

InLine ==
    pc = "line" =>
        /\ steps < Len(pipeline) /\ current = pipeline[steps + 1]
        /\ Distinct => /\ \A j \in 1..steps : last[pipeline[j]] = j
                       /\ all_ok <=> \A j \in 1..steps : pipeline[j] \in good

Charged(j, i) == j >= i \/ \E c \in 1..j : pipeline[c] = "coder"

Stands(i) ==
    /\ current = pipeline[i]
    /\ \A j \in 1..(i - 1) : pipeline[j] \in good
    /\ \A j \in 2..(i - 1) : last[pipeline[j - 1]] < last[pipeline[j]]
    /\ \A a \in Names : last[a] <= steps
    /\ \A j \in 1..(Len(pipeline) - 1) : Charged(j, i) =>
          /\ visits[pipeline[j + 1]] <= visits[pipeline[j]]
          /\ j = i - 1 => visits[pipeline[j + 1]] < visits[pipeline[j]]

InGraph == pc = "graph" /\ Distinct => \E i \in DOMAIN pipeline : Stands(i)

RunInvariant ==
    /\ RunTyped /\ InBudget /\ InLine /\ InGraph
    /\ CompletedOnLastRuns /\ FailedForAReason

(* A call that ends otherwise has nothing to answer for.                     *)
LEMMA EndRuns ==
    ASSUME PlannerTyped, RunInvariant, Refuse \/ PlanOnly \/ SpawnFails
    PROVE  RunInvariant'
<1>1. pc' = "end" /\ status' \in {"invalid", "plan_only", "error"}
  BY DEF Refuse, PlanOnly, SpawnFails, Answer
<1>2. UNCHANGED <<max_retries, steps, visits, all_ok, last, good>>
  BY DEF Refuse, PlanOnly, SpawnFails
<1>3. pipeline' \in Seq(Names)
  BY ThePipelineTyped DEF Refuse, PlanOnly, SpawnFails, RunInvariant, RunTyped
<1>4. RunTyped'
  BY <1>1, <1>2, <1>3 DEF RunInvariant, RunTyped
<1>5. QED BY <1>1, <1>4 DEF RunInvariant, InBudget, InLine, InGraph, CompletedOnLastRuns, FailedForAReason

LEMMA StartRuns ==
    ASSUME PlannerTyped, RunInvariant, NEW r \in Retries, NEW c \in BOOLEAN, Start(r, c)
    PROVE  RunInvariant'
<1>1. /\ pc = "plan" /\ pipeline' = ThePipeline /\ current' = pipeline'[1]
      /\ max_retries' = r /\ pc' = IF r = 0 THEN "line" ELSE "graph"
      /\ all_ok' = (r = 0) /\ UNCHANGED <<steps, visits, status, last, good>>
  BY DEF Start
<1>2. pipeline' \in Seq(Names) /\ 1 \in DOMAIN pipeline' /\ r \in Nat
  BY <1>1, ThePipelineTyped, RetriesType, UsizeType DEF Start
<1>3. /\ RunTyped /\ steps = 0 /\ visits = NoRuns /\ last = NoRuns /\ status = "none"
  BY <1>1 DEF RunInvariant, RunTyped
<1>4. \A a \in Names : NoRuns[a] = 0
  BY DEF NoRuns
<1>5. RunTyped'
  <2>1. \E i \in DOMAIN pipeline' : current' = pipeline'[i] BY <1>1, <1>2
  <2>2. pc' \in {"line", "graph"} /\ (pc' = "graph" => ~all_ok') /\ all_ok' \in BOOLEAN BY <1>1
  <2>3. QED BY <1>1, <1>2, <1>3, <2>1, <2>2 DEF RunTyped
<1>6. Len(pipeline') \in Nat /\ Len(pipeline') >= 1 /\ DOMAIN pipeline' = 1..Len(pipeline')
  BY <1>2
<1>7. \A j \in DOMAIN pipeline' : pipeline'[j] \in Names
  BY <1>2
<1>8. InBudget'
  <2>1. visits'[current'] = 0 BY <1>1, <1>2, <1>3, <1>4, <1>7
  <2>2. Runs' = {}
    <3> SUFFICES ASSUME NEW x \in Runs' PROVE FALSE OBVIOUS
    <3>1. x[1] \in DOMAIN pipeline' /\ x[2] \in 1..(r + 1) /\ x[2] <= visits'[pipeline'[x[1]]]
      BY <1>1 DEF Runs
    <3>2. visits'[pipeline'[x[1]]] = 0 BY <1>1, <1>3, <1>4, <1>7, <3>1
    <3>3. QED BY <3>1, <3>2
  <2>3. Cardinality(Runs') = 0 BY <2>2, FS_EmptySet
  <2>4. QED BY <1>1, <1>2, <1>3, <2>1, <2>3 DEF InBudget
<1>9. InLine'
  <2> SUFFICES ASSUME pc' = "line" PROVE InLine' BY DEF InLine
  <2>0. r = 0 BY <1>1
  <2>1. steps' = 0 /\ 0 + 1 = 1 BY <1>1, <1>3
  <2>10. all_ok' BY <1>1, <2>0, Zenon
  <2>2. \A j \in 1..0 : FALSE OBVIOUS
  <2>3. QED BY <1>1, <1>6, <2>1, <2>10, <2>2 DEF InLine
<1>10. Stands(1)'
  <2>1. \A j \in 1..(1 - 1) : FALSE OBVIOUS
  <2>2. \A j \in 2..(1 - 1) : FALSE OBVIOUS
  <2>3. \A j \in 1..(Len(pipeline') - 1) : j # 1 - 1 /\ j \in DOMAIN pipeline' /\ j + 1 \in DOMAIN pipeline'
    BY <1>6
  <2>4. \A a \in Names : last'[a] <= steps' BY <1>1, <1>3, <1>4
  <2>5. \A j \in 1..(Len(pipeline') - 1) : visits'[pipeline'[j + 1]] <= visits'[pipeline'[j]]
    BY <1>1, <1>3, <1>4, <1>7, <2>3
  <2>6. QED BY <1>1, <2>1, <2>2, <2>3, <2>4, <2>5 DEF Stands
<1>11. InGraph'
  BY <1>2, <1>10 DEF InGraph
<1>12. CompletedOnLastRuns' /\ FailedForAReason'
  BY <1>1, <1>3 DEF CompletedOnLastRuns, FailedForAReason
<1>13. QED BY <1>5, <1>8, <1>9, <1>11, <1>12 DEF RunInvariant

LEMMA LineRuns ==
    ASSUME RunInvariant, NEW ok \in BOOLEAN, LineStep(ok)
    PROVE  RunInvariant'
<1>1. RunTyped /\ pc = "line" /\ run_step(ok) /\ UNCHANGED <<pipeline, max_retries>>
  BY DEF LineStep, RunInvariant
<1>2. /\ pipeline \in Seq(Names) /\ steps \in Nat /\ status = "none" /\ all_ok \in BOOLEAN
      /\ Len(pipeline) \in Nat /\ DOMAIN pipeline = 1..Len(pipeline)
      /\ last \in [Names -> Nat]
  BY <1>1 DEF RunTyped
<1>3. /\ steps' = steps + 1
      /\ visits' \in [Names -> Nat] /\ last' \in [Names -> Nat]
      /\ good' \subseteq Names
      /\ last'[current] = steps + 1
      /\ \A a \in Names : a # current => last'[a] = last[a]
      /\ \A a : a # current => (a \in good' <=> a \in good)
      /\ current \in good' <=> ok
  BY <1>1, RunStepTyped
<1>4. all_ok' = (all_ok /\ ok) /\ all_ok' \in BOOLEAN
  BY <1>2 DEF LineStep
<1>5. /\ steps < Len(pipeline) /\ current = pipeline[steps + 1]
      /\ Distinct => /\ \A j \in 1..steps : last[pipeline[j]] = j
                     /\ all_ok <=> \A j \in 1..steps : pipeline[j] \in good
  BY <1>1 DEF RunInvariant, InLine
<1>6. (Distinct' <=> Distinct) /\ (NoOverflow' <=> NoOverflow)
  BY <1>1 DEF Distinct, NoOverflow
<1>7. steps + 1 \in DOMAIN pipeline
  BY <1>2, <1>5
<1>8. ASSUME Distinct
      PROVE  /\ \A j \in 1..(steps + 1) : last'[pipeline[j]] = j
             /\ all_ok' <=> \A j \in 1..(steps + 1) : pipeline[j] \in good'
  <2>1. ASSUME NEW j \in 1..steps
        PROVE  /\ last'[pipeline[j]] = j
               /\ pipeline[j] \in good' <=> pipeline[j] \in good
    <3>1. j \in DOMAIN pipeline /\ j # steps + 1 BY <1>2, <1>5
    <3>2. pipeline[j] \in Names /\ pipeline[j] # current
      BY <1>2, <1>5, <1>7, <1>8, <3>1 DEF Distinct
    <3>3. QED BY <1>3, <1>5, <1>8, <3>2
  <2>2. \A j \in 1..(steps + 1) : j \in 1..steps \/ j = steps + 1 BY <1>2
  <2>3. steps + 1 \in 1..(steps + 1) /\ 1..steps \subseteq 1..(steps + 1) BY <1>2
  <2>4. \A j \in 1..(steps + 1) : last'[pipeline[j]] = j BY <1>3, <1>5, <2>1, <2>2
  <2>5. all_ok <=> \A j \in 1..steps : pipeline[j] \in good' BY <1>5, <1>8, <2>1
  <2>6. all_ok' <=> (\A j \in 1..steps : pipeline[j] \in good') /\ current \in good'
    BY <1>3, <1>4, <2>5
  <2>7. (\A j \in 1..(steps + 1) : pipeline[j] \in good') <=>
            (\A j \in 1..steps : pipeline[j] \in good') /\ current \in good'
    BY <1>5, <2>2, <2>3
  <2>8. QED BY <2>4, <2>6, <2>7
<1>9. CASE steps + 1 = Len(pipeline) \/ (~ok /\ ~go_on)
  <2>1. pc' = "end" /\ status' = IF all_ok' THEN "completed" ELSE "failed"
    BY <1>9 DEF LineStep, Finish, Answer
  <2>2. RunTyped' BY <1>1, <1>2, <1>3, <1>4, <2>1 DEF RunTyped
  <2>3. ASSUME all_ok', Distinct
        PROVE  /\ \A i \in DOMAIN pipeline : pipeline[i] \in good'
               /\ \A i \in 2..Len(pipeline) : last'[pipeline[i - 1]] < last'[pipeline[i]]
    <3>1. ok BY <1>4, <2>3
    <3>2. DOMAIN pipeline = 1..(steps + 1) /\ Len(pipeline) = steps + 1 BY <1>2, <1>9, <3>1
    <3>3. \A i \in 2..(steps + 1) : i \in 1..(steps + 1) /\ i - 1 \in 1..(steps + 1) /\ i - 1 < i
      BY <1>2
    <3>4. QED BY <1>8, <2>3, <3>2, <3>3
  <2>4. ASSUME ~all_ok', Distinct
        PROVE  \E i \in DOMAIN pipeline : last'[pipeline[i]] > 0 /\ pipeline[i] \notin good'
    <3>1. PICK j \in 1..(steps + 1) : pipeline[j] \notin good' BY <1>8, <2>4
    <3>2. j \in DOMAIN pipeline /\ j > 0 /\ last'[pipeline[j]] = j BY <1>2, <1>5, <1>8, <2>4
    <3>3. QED BY <3>1, <3>2
  <2>5. CompletedOnLastRuns' BY <1>1, <1>6, <2>1, <2>3 DEF CompletedOnLastRuns
  <2>6. FailedForAReason' BY <1>1, <1>6, <2>1, <2>4 DEF FailedForAReason
  <2>7. QED BY <2>1, <2>2, <2>5, <2>6 DEF RunInvariant, InBudget, InLine, InGraph
<1>10. CASE ~(steps + 1 = Len(pipeline) \/ (~ok /\ ~go_on))
  <2>1. pc' = "line" /\ current' = pipeline[steps + 2] /\ status' = "none"
    BY <1>1, <1>2, <1>10 DEF LineStep
  <2>2. steps + 2 \in DOMAIN pipeline /\ steps' < Len(pipeline) /\ steps' + 1 = steps + 2
    <3>1. steps + 1 # Len(pipeline) BY <1>10, Zenon
    <3>2. steps \in Nat /\ Len(pipeline) \in Nat /\ steps < Len(pipeline) BY <1>2, <1>5
    <3>3. steps + 2 \in 1..Len(pipeline) /\ steps + 1 < Len(pipeline) /\ steps + 1 + 1 = steps + 2
      BY <3>1, <3>2
    <3>4. QED BY <1>2, <1>3, <3>3
  <2>3. RunTyped'
    <3>1. \E i \in DOMAIN pipeline' : current' = pipeline'[i] BY <1>1, <2>1, <2>2
    <3>2. QED BY <1>1, <1>2, <1>3, <1>4, <2>1, <3>1 DEF RunTyped
  <2>4. InLine' BY <1>1, <1>3, <1>6, <1>8, <2>1, <2>2 DEF InLine
  <2>5. CompletedOnLastRuns' /\ FailedForAReason'
    BY <2>1 DEF CompletedOnLastRuns, FailedForAReason
  <2>6. QED BY <2>1, <2>3, <2>4, <2>5 DEF RunInvariant, InBudget, InGraph
<1>11. QED BY <1>9, <1>10

(* Where a step of the graph leads, without repetition: on when it went      *)
(* well, back to a coder before it, or to itself when there is none.         *)
LEMMA StandsOn ==
    ASSUME RunTyped, pc = "graph", Distinct, NEW i \in DOMAIN pipeline, Stands(i),
           NEW ok \in BOOLEAN, run_step(ok), UNCHANGED <<pipeline, max_retries>>,
           NEW b \in DOMAIN pipeline, current' = pipeline[b],
           \/ ok /\ b = i + 1
           \/ ~ok /\ b = i /\ \A c \in 1..(i - 1) : pipeline[c] # "coder"
           \/ ~ok /\ b < i /\ pipeline[b] = "coder"
    PROVE  Stands(b)'
<1> DEFINE p == pipeline
           n == Len(p)
<1>1. p \in Seq(Names) /\ n \in Nat /\ DOMAIN p = 1..n
  BY DEF RunTyped
<1>2. /\ current = p[i]
      /\ \A j \in 1..(i - 1) : p[j] \in good
      /\ \A j \in 2..(i - 1) : last[p[j - 1]] < last[p[j]]
      /\ \A a \in Names : last[a] <= steps
      /\ \A j \in 1..(n - 1) : Charged(j, i) =>
            /\ visits[p[j + 1]] <= visits[p[j]]
            /\ j = i - 1 => visits[p[j + 1]] < visits[p[j]]
  BY DEF Stands
<1>3. /\ visits'[p[i]] = visits[p[i]] + 1 /\ last'[p[i]] = steps + 1
      /\ steps' = steps + 1 /\ (p[i] \in good' <=> ok)
  BY <1>2, RunStepTyped
<1>4. ASSUME NEW j \in DOMAIN p, j # i
      PROVE  /\ visits'[p[j]] = visits[p[j]] /\ last'[p[j]] = last[p[j]]
             /\ p[j] \in good' <=> p[j] \in good
  <2>1. p[j] # p[i] /\ p[j] \in Names BY <1>1, <1>4 DEF Distinct
  <2>2. QED BY <1>2, <2>1, RunStepTyped
<1>5. steps \in Nat /\ last \in [Names -> Nat] /\ visits \in [Names -> Nat] /\ i \in 1..n /\ b \in 1..n
  BY <1>1 DEF RunTyped
<1>6. \A j \in DOMAIN p : p[j] \in Names /\ visits[p[j]] \in Nat /\ last[p[j]] \in Nat
  BY <1>1, <1>5
<1>bounds. /\ b \in Nat /\ i \in Nat /\ i >= 1 /\ b <= n /\ b <= i + 1 /\ (b = i + 1 => ok)
      /\ \A j \in Nat : 1 <= j /\ j <= n => j \in DOMAIN p
  BY <1>1, <1>5
<1>7. \A j \in 1..(b - 1) : p[j] \in good'
  <2> TAKE j \in 1..(b - 1)
  <2>1. j \in DOMAIN p /\ j <= i /\ (j = i => ok) /\ (j # i => j \in 1..(i - 1))
    <3> HIDE DEF p, n
    <3>1. QED BY <1>1, <1>bounds
  <2>2. QED BY <1>2, <1>3, <1>4, <2>1
<1>8. \A j \in 2..(b - 1) : last'[p[j - 1]] < last'[p[j]]
  <2> TAKE j \in 2..(b - 1)
  <2>1. j \in DOMAIN p /\ j - 1 \in DOMAIN p /\ j - 1 # i /\ (j # i => j \in 2..(i - 1))
    <3> HIDE DEF p, n
    <3>1. QED BY <1>1, <1>bounds
  <2>2. CASE j = i
    <3>1. last'[p[j - 1]] = last[p[j - 1]] /\ last[p[j - 1]] \in Nat /\ p[j - 1] \in Names
      BY <1>4, <1>6, <2>1
    <3>2. QED BY <1>2, <1>3, <1>5, <2>2, <3>1
  <2>3. CASE j # i
    BY <1>2, <1>4, <2>1, <2>3
  <2>4. QED BY <2>2, <2>3
<1>9. \A a \in Names : last'[a] <= steps'
  <2> TAKE a \in Names
  <2>1. CASE a = p[i] BY <1>3, <1>5, <2>1
  <2>2. CASE a # p[i]
    <3>1. last'[a] = last[a] /\ last[a] <= steps /\ last[a] \in Nat BY <1>2, <1>5, <2>2, RunStepTyped
    <3>2. QED BY <1>3, <1>5, <3>1
  <2>3. QED BY <2>1, <2>2
<1>10. ASSUME NEW j \in 1..(n - 1), Charged(j, b)
       PROVE  /\ visits'[p[j + 1]] <= visits'[p[j]]
              /\ j = b - 1 => visits'[p[j + 1]] < visits'[p[j]]
  <2>1. j \in DOMAIN p /\ j + 1 \in DOMAIN p BY <1>1
  <2>2. visits[p[j]] \in Nat /\ visits[p[j + 1]] \in Nat /\ visits[p[i]] \in Nat
    BY <1>6, <2>1
  <2>3. Charged(j, i)
    <3>1. CASE j >= i BY <3>1 DEF Charged
    <3>2. CASE j < i /\ j >= b
      <4>1. b < i /\ p[b] = "coder" BY <1>5, <3>2
      <4>2. b \in 1..j BY <1>5, <3>2
      <4>3. QED BY <4>1, <4>2 DEF Charged
    <3>3. CASE j < i /\ ~(j >= b) BY <1>10, <3>3 DEF Charged
    <3>4. QED BY <1>5, <3>1, <3>2, <3>3
  <2>4. /\ visits[p[j + 1]] <= visits[p[j]]
        /\ j = i - 1 => visits[p[j + 1]] < visits[p[j]]
    BY <1>2, <2>3
  <2>5. j # i => visits'[p[j]] = visits[p[j]] BY <1>4, <2>1
  <2>6. j + 1 # i => visits'[p[j + 1]] = visits[p[j + 1]] BY <1>4, <2>1
  <2>7. visits'[p[j + 1]] <= visits'[p[j]]
    <3>1. CASE j = i BY <1>3, <1>5, <2>2, <2>4, <2>6, <3>1
    <3>2. CASE j + 1 = i BY <1>3, <1>5, <2>2, <2>4, <2>5, <3>2
    <3>3. CASE j # i /\ j + 1 # i BY <2>4, <2>5, <2>6, <3>3
    <3>4. QED BY <3>1, <3>2, <3>3
  <2>8. ASSUME j = b - 1 PROVE visits'[p[j + 1]] < visits'[p[j]]
    <3>1. ~(j >= b) BY <1>5, <2>8
    <3>2. PICK c \in 1..j : p[c] = "coder" BY <1>10, <3>1 DEF Charged
    <3>3. c \in DOMAIN p /\ c < b
      <4> HIDE DEF p, n
      <4>1. QED BY <1>1, <1>bounds, <2>8
    <3>4. ok
      <4> SUFFICES ASSUME ~ok PROVE FALSE OBVIOUS
      <4>1. CASE b = i /\ \A d \in 1..(i - 1) : pipeline[d] # "coder"
        BY <1>5, <2>8, <3>2, <4>1
      <4>2. CASE b < i /\ pipeline[b] = "coder"
        BY <1>5, <3>2, <3>3, <4>2 DEF Distinct
      <4>3. QED BY <4>1, <4>2
    <3>5. j = i BY <1>5, <2>8, <3>4
    <3>6. QED BY <1>3, <1>5, <2>2, <2>4, <2>6, <3>5
  <2>9. QED BY <2>7, <2>8
<1>11. \A j : Charged(j, b)' <=> Charged(j, b)
  BY DEF Charged
<1>12. QED BY <1>7, <1>8, <1>9, <1>10, <1>11 DEF Stands

LEMMA GraphRuns ==
    ASSUME RunInvariant, NEW ok \in BOOLEAN, GraphStep(ok)
    PROVE  RunInvariant'
<1> DEFINE to == next(pipeline, current, ok)
<1>1. RunTyped /\ pc = "graph" /\ run_step(ok) /\ UNCHANGED <<pipeline, max_retries>>
  BY DEF GraphStep, RunInvariant
<1>2. /\ pipeline \in Seq(Names) /\ steps \in Nat /\ status = "none" /\ ~all_ok
      /\ max_retries \in Nat /\ visits \in [Names -> Nat]
      /\ Len(pipeline) \in Nat /\ DOMAIN pipeline = 1..Len(pipeline)
      /\ \E i \in DOMAIN pipeline : current = pipeline[i]
  BY <1>1 DEF RunTyped
<1>3. /\ current \in Names /\ steps' = steps + 1 /\ steps' \in Nat
      /\ visits' \in [Names -> Nat] /\ last' \in [Names -> Nat]
      /\ good' \subseteq Names
      /\ last'[current] = steps + 1
      /\ \A a \in Names : a # current => visits'[a] = visits[a] /\ last'[a] = last[a]
      /\ \A a : a # current => (a \in good' <=> a \in good)
      /\ current \in good' <=> ok
  BY <1>1, RunStepTyped
<1>4. (Distinct' <=> Distinct) /\ (NoOverflow' <=> NoOverflow)
  BY <1>1 DEF Distinct, NoOverflow
<1>5. \A j \in DOMAIN pipeline : pipeline[j] \in Names /\ pipeline[j] # "none"
  BY <1>2, NamesAreComplete
<1>6. ASSUME NEW i \in DOMAIN pipeline, current = pipeline[i], Distinct
      PROVE  /\ ok => to = IF i < Len(pipeline) THEN pipeline[i + 1] ELSE "none"
             /\ ~ok => to = rework(pipeline, i)
  <2>1. ok = TRUE \/ ok = FALSE OBVIOUS
  <2>2. QED BY <1>2, <1>6, <2>1, NextInDistinct DEF Distinct
<1>7. Distinct => \E i \in DOMAIN pipeline : Stands(i)
  BY <1>1 DEF RunInvariant, InGraph
<1>8. CASE to = "none"
  <2>1. pc' = "end" /\ all_ok' = ok /\ status' = IF all_ok' THEN "completed" ELSE "failed"
    BY <1>8 DEF GraphStep, Finish, Answer
  <2>2. RunTyped' BY <1>1, <1>2, <1>3, <2>1 DEF RunTyped
  <2>3. ASSUME Distinct
        PROVE  /\ ok
               /\ \A j \in DOMAIN pipeline : pipeline[j] \in good'
               /\ \A j \in 2..Len(pipeline) : last'[pipeline[j - 1]] < last'[pipeline[j]]
    <3>1. PICK i \in DOMAIN pipeline : Stands(i) BY <1>7, <2>3
    <3>2. current = pipeline[i] BY <3>1 DEF Stands
    <3>3. ok
      <4> SUFFICES ASSUME ~ok PROVE FALSE OBVIOUS
      <4>1. PICK b \in 1..i : rework(pipeline, i) = pipeline[b] BY <1>2, ReworkIsAStep
      <4>2. b \in DOMAIN pipeline BY <1>2
      <4>3. QED BY <1>5, <1>6, <1>8, <2>3, <3>2, <4>1, <4>2
    <3>4. i = Len(pipeline)
      <4>1. i < Len(pipeline) => i + 1 \in DOMAIN pipeline BY <1>2
      <4>2. ~(i < Len(pipeline)) BY <1>5, <1>6, <1>8, <2>3, <3>2, <3>3, <4>1
      <4>3. QED BY <1>2, <4>2
    <3>5. ASSUME NEW j \in DOMAIN pipeline, j # i
          PROVE  /\ last'[pipeline[j]] = last[pipeline[j]]
                 /\ pipeline[j] \in good'
      <4>1. j \in 1..(i - 1) BY <1>2, <3>4, <3>5
      <4>2. pipeline[j] # current /\ pipeline[j] \in Names
        BY <1>5, <2>3, <3>2, <3>5 DEF Distinct
      <4>3. pipeline[j] \in good BY <3>1, <4>1 DEF Stands
      <4>4. QED BY <1>3, <4>2, <4>3
    <3>6. \A j \in DOMAIN pipeline : pipeline[j] \in good' BY <1>3, <3>2, <3>3, <3>5
    <3>7. ASSUME NEW j \in 2..Len(pipeline) PROVE last'[pipeline[j - 1]] < last'[pipeline[j]]
      <4>1. j \in DOMAIN pipeline /\ j - 1 \in DOMAIN pipeline /\ j - 1 # i BY <1>2, <3>4
      <4>2. last'[pipeline[j - 1]] = last[pipeline[j - 1]] /\ pipeline[j - 1] \in Names
        BY <1>5, <3>5, <4>1
      <4>3. CASE j = i
        <5>1. last[pipeline[j - 1]] <= steps BY <3>1, <4>2 DEF Stands
        <5>2. last[pipeline[j - 1]] \in Nat BY <1>1, <4>2 DEF RunTyped
        <5>3. last'[pipeline[j]] = steps + 1 /\ steps \in Nat BY <1>2, <1>3, <3>2, <4>3
        <5>4. QED BY <4>2, <5>1, <5>2, <5>3
      <4>4. CASE j # i
        <5>1. j \in 2..(i - 1) BY <3>4, <4>4, <1>2
        <5>2. last[pipeline[j - 1]] < last[pipeline[j]] BY <3>1, <5>1 DEF Stands
        <5>3. QED BY <3>5, <4>1, <4>2, <4>4, <5>2
      <4>5. QED BY <4>3, <4>4
    <3>8. QED BY <3>3, <3>6, <3>7
  <2>4. CompletedOnLastRuns' BY <1>1, <1>4, <2>3 DEF CompletedOnLastRuns
  <2>5. FailedForAReason' BY <1>4, <2>1, <2>3 DEF FailedForAReason
  <2>6. QED BY <2>1, <2>2, <2>4, <2>5 DEF RunInvariant, InBudget, InLine, InGraph
<1>9. CASE to # "none" /\ capped(to)
  <2>1. pc' = "end" /\ all_ok' = all_ok /\ status' = "failed"
    <3>1. pc' = "end" /\ all_ok' = all_ok /\ status' = IF all_ok' THEN "completed" ELSE "failed"
      BY <1>9 DEF GraphStep, Finish, Answer
    <3>2. QED BY <1>2, <3>1
  <2>2. RunTyped' BY <1>1, <1>2, <1>3, <2>1 DEF RunTyped
  <2>3. ASSUME Distinct, NoOverflow
        PROVE  \E i \in DOMAIN pipeline : last'[pipeline[i]] > 0 /\ pipeline[i] \notin good'
    <3>1. PICK i \in DOMAIN pipeline : Stands(i) BY <1>7, <2>3
    <3>2. current = pipeline[i] BY <3>1 DEF Stands
    <3>3. CASE ~ok
      <4>1. last'[current] > 0 BY <1>2, <1>3
      <4>2. QED BY <1>3, <3>2, <3>3, <4>1
    <3>4. CASE ok
      <4>1. i < Len(pipeline) /\ to = pipeline[i + 1] BY <1>6, <1>9, <2>3, <3>2, <3>4
      <4>2. i \in 1..(Len(pipeline) - 1) /\ i + 1 \in DOMAIN pipeline /\ i + 1 # i BY <1>2, <4>1
      <4>3. pipeline[i + 1] # current /\ pipeline[i + 1] \in Names
        BY <1>5, <2>3, <3>2, <4>2 DEF Distinct
      <4>4. Charged(i, i) BY <1>2 DEF Charged
      <4>5. visits[pipeline[i + 1]] <= visits[pipeline[i]] BY <3>1, <4>2, <4>4 DEF Stands
      <4>6. visits[current] <= max_retries BY <1>1, <2>3 DEF RunInvariant, InBudget
      <4>7. max_visits = max_retries + 1 BY <1>1, <2>3, NoWrap
      <4>8. visits'[pipeline[i + 1]] = visits[pipeline[i + 1]] BY <1>3, <4>3
      <4>9. visits[pipeline[i + 1]] \in Nat /\ visits[current] \in Nat BY <1>2, <1>3, <4>3
      <4>10. visits'[pipeline[i + 1]] >= max_retries + 1 BY <1>9, <4>1, <4>7 DEF capped
      <4>11. QED BY <1>2, <3>2, <4>5, <4>6, <4>8, <4>9, <4>10
    <3>5. QED BY <3>3, <3>4
  <2>4. FailedForAReason' BY <1>1, <1>4, <2>3 DEF FailedForAReason
  <2>5. CompletedOnLastRuns' BY <2>1 DEF CompletedOnLastRuns
  <2>6. QED BY <2>1, <2>2, <2>4, <2>5 DEF RunInvariant, InBudget, InLine, InGraph
<1>10. CASE to # "none" /\ ~capped(to)
  <2>1. pc' = "graph" /\ current' = to /\ status' = "none" /\ all_ok' = all_ok
    BY <1>1, <1>2, <1>10 DEF GraphStep
  <2>2. PICK b \in DOMAIN pipeline : to = pipeline[b]
    BY <1>2, <1>10, NextIsAStep
  <2>3. RunTyped'
    <3>1. \E i \in DOMAIN pipeline' : current' = pipeline'[i] BY <1>1, <2>1, <2>2
    <3>2. all_ok \in BOOLEAN BY <1>1 DEF RunTyped
    <3>3. QED BY <1>1, <1>2, <1>3, <2>1, <3>1, <3>2 DEF RunTyped
  <2>4. InBudget'
    <3> SUFFICES ASSUME NoOverflow
                 PROVE  visits'[to] <= max_retries /\ steps' = Cardinality(Runs')
      BY <1>1, <1>4, <2>1 DEF InBudget
    <3>1. max_visits = max_retries + 1 BY <1>1, <2>2, NoWrap
    <3>2. visits'[to] \in Nat /\ ~(visits'[to] >= max_retries + 1)
      BY <1>3, <1>5, <1>10, <2>2, <3>1 DEF capped
    <3>3. visits[current] <= max_retries /\ steps = Cardinality(Runs)
      BY <1>1 DEF RunInvariant, InBudget
    <3>4. Cardinality(Runs') = Cardinality(Runs) + 1 BY <1>1, <3>3, RunAddsOne
    <3>5. QED BY <1>2, <1>3, <3>2, <3>3, <3>4
  <2>5. ASSUME Distinct PROVE \E j \in DOMAIN pipeline : Stands(j)'
    <3>1. PICK i \in DOMAIN pipeline : Stands(i) BY <1>7, <2>5
    <3>2. current = pipeline[i] BY <3>1 DEF Stands
    <3>3. CASE ok
      <4>1. i < Len(pipeline) /\ to = pipeline[i + 1] BY <1>6, <1>10, <2>5, <3>2, <3>3
      <4>2. i + 1 \in DOMAIN pipeline BY <1>2, <4>1
      <4>3. Stands(i + 1)' BY <1>1, <2>1, <2>5, <3>1, <3>3, <4>1, <4>2, StandsOn
      <4>4. QED BY <4>2, <4>3
    <3>4. CASE ~ok
      <4>1. PICK d \in 1..i :
               /\ rework(pipeline, i) = pipeline[d]
               /\ \/ d = i /\ \A c \in 1..(i - 1) : pipeline[c] # "coder"
                  \/ d < i /\ pipeline[d] = "coder"
        BY <1>2, ReworkIsAStep
      <4>2. d \in DOMAIN pipeline /\ to = pipeline[d] BY <1>2, <1>6, <2>5, <3>2, <3>4, <4>1
      <4>3. Stands(d)' BY <1>1, <2>1, <2>5, <3>1, <3>4, <4>1, <4>2, StandsOn
      <4>4. QED BY <4>2, <4>3
    <3>5. QED BY <3>3, <3>4
  <2>6. InGraph' BY <1>1, <1>4, <2>5 DEF InGraph
  <2>7. CompletedOnLastRuns' /\ FailedForAReason'
    BY <2>1 DEF CompletedOnLastRuns, FailedForAReason
  <2>8. QED BY <2>1, <2>3, <2>4, <2>6, <2>7 DEF RunInvariant, InLine
<1>11. QED BY <1>8, <1>9, <1>10

(* The visit caps end the loop before the budget does.                       *)
LEMMA Slack == RunInvariant => BudgetIsSlack
<1> SUFFICES ASSUME RunInvariant, pc = "graph", NoOverflow PROVE steps < max_steps
  BY DEF BudgetIsSlack
<1>1. RunTyped /\ steps = Cardinality(Runs)
  BY DEF RunInvariant, InBudget
<1>2. PICK i \in DOMAIN pipeline : current = pipeline[i]
  BY <1>1 DEF RunTyped
<1> DEFINE room == Len(pipeline) * (max_retries + 1)
<1>3. Cardinality(Runs) \in Nat /\ Cardinality(Runs) <= room
  BY <1>1, RunsBounded
<1>4. room \in Nat /\ max_steps = room + 2
  BY <1>1, <1>2, NoWrap DEF RunTyped
<1> HIDE DEF room
<1>5. QED BY <1>1, <1>3, <1>4

LEMMA OutOfStepsRuns ==
    ASSUME RunInvariant, OutOfSteps
    PROVE  RunInvariant'
<1>1. RunTyped /\ pc = "graph" /\ steps = max_steps /\ ~all_ok
  BY DEF OutOfSteps, RunInvariant, RunTyped
<1>2. /\ pc' = "end" /\ all_ok' = all_ok
      /\ UNCHANGED <<pipeline, max_retries, steps, visits, last, good>>
      /\ status' = IF all_ok' THEN "completed" ELSE "failed"
  BY DEF OutOfSteps, Finish, Answer
<1>3. RunTyped'
  BY <1>1, <1>2 DEF RunTyped
<1>4. status' = "failed"
  BY <1>1, <1>2
<1>5. ~NoOverflow
  <2>1. NoOverflow => steps < steps BY <1>1, Slack DEF BudgetIsSlack
  <2>2. QED BY <1>1, <2>1 DEF RunTyped
<1>6. ~NoOverflow'
  BY <1>2, <1>5 DEF NoOverflow
<1>7. CompletedOnLastRuns' /\ FailedForAReason'
  BY <1>4, <1>6 DEF CompletedOnLastRuns, FailedForAReason
<1>8. QED BY <1>2, <1>3, <1>7 DEF RunInvariant, InBudget, InLine, InGraph

LEMMA StillRuns ==
    ASSUME RunInvariant, UNCHANGED runVars
    PROVE  RunInvariant'
<1> USE DEF runVars
<1>1. (Distinct' <=> Distinct) /\ (NoOverflow' <=> NoOverflow)
  BY DEF Distinct, NoOverflow
<1>2. RunTyped'
  BY DEF RunInvariant, RunTyped
<1>3. Runs' = Runs
  BY DEF Runs
<1>4. InBudget' /\ InLine'
  BY <1>1, <1>3 DEF RunInvariant, InBudget, InLine
<1>5. \A i : Stands(i)' <=> Stands(i)
  BY DEF Stands, Charged
<1>6. InGraph'
  BY <1>1, <1>5 DEF RunInvariant, InGraph
<1>7. CompletedOnLastRuns' /\ FailedForAReason'
  BY <1>1 DEF RunInvariant, CompletedOnLastRuns, FailedForAReason
<1>8. QED BY <1>2, <1>4, <1>6, <1>7 DEF RunInvariant

(* Every step of orchestrate.run keeps the invariants of search and run.     *)
THEOREM RunInvariantHolds == Spec => []RunInvariant
<1>1. Init => RunInvariant
  <2> SUFFICES ASSUME Init PROVE RunInvariant OBVIOUS
  <2>1. NoRuns \in [Names -> Nat] BY DEF NoRuns
  <2>2. <<>> \in Seq(Names) OBVIOUS
  <2>3. RunTyped BY <2>1, <2>2 DEF Init, RunTyped
  <2>4. QED BY <2>3 DEF Init, RunInvariant, InBudget, InLine, InGraph, CompletedOnLastRuns,
                        FailedForAReason
<1>2. PlannerInvariant /\ RunInvariant /\ [Next]_vars => RunInvariant'
  <2> SUFFICES ASSUME PlannerTyped, RunInvariant, [Next]_vars PROVE RunInvariant'
    BY DEF PlannerInvariant
  <2>1. CASE Plan \/ UNCHANGED vars BY <2>1, StillRuns DEF Plan, vars
  <2>2. CASE Refuse \/ PlanOnly \/ SpawnFails BY <2>2, EndRuns
  <2>3. ASSUME NEW r \in Retries, NEW c \in BOOLEAN, Start(r, c) PROVE RunInvariant'
    BY <2>3, StartRuns
  <2>4. ASSUME NEW ok \in BOOLEAN, LineStep(ok) PROVE RunInvariant' BY <2>4, LineRuns
  <2>5. ASSUME NEW ok \in BOOLEAN, GraphStep(ok) PROVE RunInvariant' BY <2>5, GraphRuns
  <2>6. CASE OutOfSteps BY <2>6, OutOfStepsRuns
  <2>7. QED BY <2>1, <2>2, <2>3, <2>4, <2>5, <2>6 DEF Next
<1>3. QED BY <1>1, <1>2, PlannerInvariantHolds, PTL DEF Spec

(* A run reported completed stands on good last runs, in the order of the    *)
(* pipeline: what was tested and reviewed is the last code.                  *)
THEOREM CompletedStands == Spec => []CompletedOnLastRuns
<1>1. RunInvariant => CompletedOnLastRuns
  BY DEF RunInvariant
<1>2. QED BY <1>1, RunInvariantHolds, PTL

(* A run reported failed has a step whose last run failed: a step that went  *)
(* well never meets the visit cap, nor the budget.                           *)
THEOREM FailureHasAReason == Spec => []FailedForAReason
<1>1. RunInvariant => FailedForAReason
  BY DEF RunInvariant
<1>2. QED BY <1>1, RunInvariantHolds, PTL

(* The graph loop of orchestrate.run never uses up its step budget, for      *)
(* every pipeline, with repetition too: the visit caps end it before.        *)
THEOREM BudgetSlack == Spec => []BudgetIsSlack
  BY Slack, RunInvariantHolds, PTL
=============================================================================
