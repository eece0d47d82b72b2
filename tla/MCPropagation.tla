---------------------------- MODULE MCPropagation ----------------------------
(* Propagation with two keys that have one variable and one that has its own, *)
(* first or last in the context or missing from it.                          *)
EXTENDS Propagation

CONSTANTS a1, a2, a3

MCLowercase == [c \in {"X"} |-> "x"]
Dashed == <<"X", "-", "b">>
Underscored == <<"x", "_", "b">>
Plain == <<"b">>
MCKeyLists == {<<Dashed, Plain>>, <<Plain, Dashed>>, <<Dashed, Underscored>>}
AddrSymmetry == Permutations(Addr)
=============================================================================
