--------------------------- MODULE MCOrchestrate ---------------------------
(* Small instances of Orchestrate. *)
EXTENDS Orchestrate

\* Every set of conditions the library knows, with one it does not.
MCGoals ==
    {{T(k) : k \in K} : K \in SUBSET {"spec", "plan", "design", "code", "tested"}} \cup {{T("deployed")}}

\* Callers add nothing; the planner; a second action named coder; or a short cut.
MCCapabilities ==
    {{},
     {Action("planner", {}, {"plan", "design"})},
     {Action("coder", {"tested"}, {"deployed"})},
     {[Action("expert", {}, {"code", "tested"}) EXCEPT !.cost = 2]}}
MCNames == {a.name : a \in default_actions} \cup {"expert"}
=============================================================================
