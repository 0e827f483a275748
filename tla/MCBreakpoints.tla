--------------------------- MODULE MCBreakpoints ---------------------------
(* Model checking of Breakpoints: tids of one kind are interchangeable.    *)
EXTENDS Breakpoints, TLC

CONSTANTS t1, t2, t3, a1

Symmetry == Permutations(Tids \ {Main}) \cup Permutations(Addrs)
=============================================================================
