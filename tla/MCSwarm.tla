------------------------------ MODULE MCSwarm ------------------------------
(* Small instances of Swarm, and its graphs put through the code's loops. *)
EXTENDS TaskGraphWalks, TLC

NoLoad == [a \in Agents |-> {}]

\* Created members arrive without tasks, or one of them with every task.
Unloaded == {NoLoad}
Loaded == {NoLoad} \cup {[NoLoad EXCEPT ![a] = Tasks] : a \in Agents}

Symmetry == Permutations(Tasks) \cup Permutations(Agents)
=============================================================================
