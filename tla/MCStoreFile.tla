---------------------------- MODULE MCStoreFile ----------------------------
(* Small instances of StoreFile. *)
EXTENDS StoreFile, TLC

CONSTANTS p1, p2, n1, n2

\* memory.json and the contracts file: one temporary name.
SharedName == {[p \in Procs |-> n1]}
\* swarm.json: one per pid.
EitherNaming == SharedName \cup {[p \in Procs |-> IF p = p1 THEN n1 ELSE n2]}

Symmetry == Permutations(Inodes) \cup Permutations(Updates)
=============================================================================
