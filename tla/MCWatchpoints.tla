--------------------------- MODULE MCWatchpoints ---------------------------
(* Model checking of Watchpoints: two slots, and two numbers, so that a    *)
(* slot is used again with another length beside one that stays.           *)
EXTENDS Watchpoints, TLC

CONSTANTS t1, t2, t3

Symmetry == Permutations(Tids)

At(a, l) == [addr |-> a, len |-> l]

(* One of eight bytes, one of four inside it, and two that are refused.    *)
Overlapping == {At(0, 8), At(4, 4), At(4, 8), At(0, 3)}
=============================================================================
