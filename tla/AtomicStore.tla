---------------------------- MODULE AtomicStore ----------------------------
(***************************************************************************)
(* A store as its users see it: the set of updates it holds, each applied  *)
(* in one step to everything applied before.  Swarm's actions are such     *)
(* steps.                                                                  *)
(***************************************************************************)
CONSTANT Updates
VARIABLE value

Init == value = {}

Apply(u) == value' = value \cup {u}

Next == \E u \in Updates : Apply(u)

Spec == Init /\ [][Next]_value
=============================================================================
