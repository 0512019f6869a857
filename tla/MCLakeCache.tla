---------------------------- MODULE MCLakeCache ----------------------------
(* Small instances of LakeCache. *)
EXTENDS LakeCache, TLC

\* Every key names the same data.
SharedData == [k \in Keys |-> CHOOSE d \in DataRefs : TRUE]

Symmetry == Permutations(Keys) \cup Permutations(Threads)
=============================================================================
