------------------------------ MODULE MCRelay ------------------------------
(* Small instances of Relay, with one server. *)
EXTENDS Relay, TLC

TheServer == CHOOSE s \in Servers : TRUE
OneServer == [c \in Calls |-> TheServer]
Symmetry == Permutations(Calls)
=============================================================================
