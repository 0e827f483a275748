------------------------------ MODULE MCLines ------------------------------
(* Model checking of Lines: every program of one or two sequences of up to *)
(* three rows and an end, whose two functions and an alias lie in them; of *)
(* three short sequences; and without any line information.                *)
EXTENDS Lines

Row(a, l, stmt) == [addr |-> a, line |-> l, is_stmt |-> stmt, end_sequence |-> FALSE]
End(a)          == [addr |-> a, line |-> 2, is_stmt |-> TRUE, end_sequence |-> TRUE]

Function(f, a, n) == [name |-> f, addr |-> a, size |-> n]

MCSequences ==
    {<<Row(a, 1, TRUE), Row(b, l, s), End(c)>> :
        <<a, b, c, l, s>> \in {x \in (1 .. Top) \X (1 .. Top) \X (1 .. Top) \X {1, 2} \X BOOLEAN :
                                  x[1] <= x[2] /\ x[2] <= x[3] /\ x[1] < x[3]}}
    \cup {<<Row(1, 1, TRUE), Row(a, 2, TRUE), Row(a, 3, TRUE), End(Top)>> : a \in 1 .. Top}

(* The function begins where the sequence ends, or no sequence tells.      *)
Edges == {[sequences |-> qs, syms |-> <<Function("g", Top, 2)>>, dynsyms |-> <<>>] :
             qs \in {<<>>} \cup {<<q>> : q \in MCSequences}}

Short == {<<Row(a, l, TRUE), End(a + 1)>> : a \in 1 .. Top - 1, l \in {1, 2}}

Threes == {[sequences |-> qs, syms |-> <<>>, dynsyms |-> <<>>] :
              qs \in {x \in Short \X Short \X Short :
                         Apart(x[1], x[2]) /\ Apart(x[1], x[3]) /\ Apart(x[2], x[3])}}

Fits(p) == \A k \in DOMAIN p.sequences : \A s \in Functions(p) : InOneSequence(s, p.sequences[k])

MCPrograms ==
    Threes \cup Edges
    \cup {p \in {[sequences |-> qs, syms |-> <<Function("g", 3, 0), Function("f", 1, m)>>,
             dynsyms |-> <<>>] :
               qs \in {x \in MCSequences \X MCSequences : Apart(x[1], x[2])}, m \in {0, 1, 2}} : Fits(p)}
    \cup {p \in {[sequences |-> <<q>>, syms |-> ss, dynsyms |-> ds] :
                    q \in MCSequences,
                    ss \in {<<>>} \cup {<<Function("f", a, m), Function("g", b, n)>> :
                                          a \in {1, 2}, b \in {2, 3}, m \in {0, 1, 3}, n \in {0, 2}},
                    ds \in {<<>>, <<Function("h", 4, 1)>>,
                            <<Function("h", 3, 2), Function("i", 3, 2), Function("f", 1, 0)>>}} :
              Fits(p) /\ \A s, t \in Functions(p) : s.addr = t.addr => s.size = t.size}
=============================================================================
