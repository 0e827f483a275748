----------------------------- MODULE MCSession -----------------------------
(* Model checking of Session on small sets of tids.                        *)
EXTENDS Session, TLC

CONSTANTS t1, t2, t3, t4

Symmetry == Permutations(Tids)

Never         == {}
InWaits       == {"wait", "stepover", "rawstep", "frame"}
NoCommands    == {}
ApplyMix      == {<<"continue", 0>>, <<"lock", 2>>, <<"kill", 0>>, <<"quit", 0>>, <<"run", 0>>}
=============================================================================
