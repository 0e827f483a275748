------------------------------- MODULE MCLeak -------------------------------
(* Model checking of Leak.  With one thread and two blocks, breakpoints of *)
(* the user on a call and on the entry it goes to, so that stepi from one  *)
(* executes the other; with two threads and a heap that is empty, on that  *)
(* entry and on the return address.                                        *)
EXTENDS Leak, TLC

CONSTANTS t1, t2, s1, p1, p2

Symmetry == Permutations(Ptrs)

OnCall  == {CallAt(s1), Entry("realloc")}
OnHooks == {Entry("realloc"), RetAt(s1)}
=============================================================================
