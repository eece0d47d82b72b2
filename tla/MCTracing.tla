------------------------------ MODULE MCTracing ------------------------------
(* TracingContext on a main request, up to two subrequests, and locations    *)
(* that differ in their directives.                                          *)
EXTENDS TracingContext, TLC

CONSTANTS a1, a2, a3, a4, a5

\* Enough addresses for every trace to hold two while one more span is started.
ThreeAddrs == {a1, a2, a3}
FewAddrs == ThreeAddrs \cup {a4}
SomeAddrs == FewAddrs \cup {a5}
AddrSymmetry == Permutations(Addr)
=============================================================================
