------------------------------ MODULE MCWords ------------------------------
(* Model checking of Words: two words of two bytes of four values, 16      *)
(* numbers; the words before and after them are not mapped.                *)
EXTENDS Words

Sized(n, s) == [kind |-> "Base", byte_size |-> n, signed |-> s]

MCTypes == {Sized(0, FALSE), Sized(1, TRUE), Sized(1, FALSE), Sized(2, TRUE), Sized(3, FALSE),
            [kind |-> "Pointer"], [kind |-> "Struct"]}

E(l, op, r) == [op |-> op, l |-> l, r |-> r]

(* The results are -2 and -8, bytes 2, 3 and 0, 2.                         *)
MCExpressions == {E(7, "Add", 7), E(7, "Sub", -1), E(-8, "Div", -1), E(-5, "Div", 2), E(-6, "Rem", 4),
                  E(3, "Rem", 0), E(5, "Mul", 6), E(1, "Shl", 7), E(-4, "Shr", 1)}

(* Enable at the first reads into the second word, and at the second past  *)
(* what is mapped.                                                         *)
MCBreakAddrs == {3, 5}
=============================================================================
