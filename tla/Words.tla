------------------------------- MODULE Words -------------------------------
(***************************************************************************)
(* The debuggee's memory as commands change it: set *<addr>, set <name>,   *)
(* break and delete all read a whole word through ptrace, change some of   *)
(* its bytes and write the word back, word by word, while the threads that *)
(* are not stopped go on storing.  Values pass through the arithmetic of   *)
(* src/expr.rs and the sizes and signs of DWARF types.                     *)
(*                                                                         *)
(* A word has W bytes (8 in the code) and a byte Base values (256), so     *)
(* that the numbers of the code are those of Base^W values.  Floating      *)
(* point is left out.                                                      *)
(***************************************************************************)
EXTENDS Integers, Sequences, FiniteSets, Functions

CONSTANTS W, Base,
          Mapped,      \* the mapped words
          Int3,        \* the byte 0xCC
          Contents,    \* bytes the program has in memory and stores
          Shared,      \* addresses to which a running thread stores
          Types,       \* DWARF types of variables
          Expressions, \* records [op, l, r] of a binary operator and integers
          BreakAddrs,  \* where break may be given
          None         \* Rust's None and Err

Byte    == 0 .. Base - 1
Modulus == Base ^ W
Ints    == -(Modulus \div 2) .. Modulus \div 2 - 1

Operators == {"Add", "Sub", "Mul", "Div", "Rem", "Shl", "Shr"}

ASSUME WordsAssumption ==
    /\ W \in Nat \ {0} /\ Base \in {n \in Nat : n > 1 /\ n % 2 = 0}
    /\ Mapped \subseteq Nat /\ Int3 \in Byte /\ Contents \subseteq Byte /\ Shared \subseteq Nat
    /\ BreakAddrs \subseteq Nat
    /\ Types \subseteq [kind : {"Base"}, byte_size : Nat, signed : BOOLEAN] \cup [kind : {"Pointer", "Struct"}]
    /\ Expressions \subseteq [op : Operators, l : Ints, r : Ints]

Aligned(a) == a - (a % W)
From(a, n) == a .. a + n - 1
Readable(S) == \A a \in S : a \div W \in Mapped
Addrs       == UNION {From(w * W, W) : w \in Mapped}

-----------------------------------------------------------------------------
(* Two's complement, and the operators of expr.rs.                         *)

as_i64(x) == LET y == x % Modulus IN IF y < Modulus \div 2 THEN y ELSE y - Modulus

Bits == CHOOSE n \in 1 .. Modulus : 2 ^ n = Modulus

Magnitude(x)   == IF x < 0 THEN -x ELSE x
Quotient(l, r) == LET q == Magnitude(l) \div Magnitude(r) IN
                  IF (l < 0) = (r < 0) THEN q ELSE -q

(* What the operator means, without a width.                               *)
Exact(e) == CASE e.op = "Add" -> e.l + e.r
              [] e.op = "Sub" -> e.l - e.r
              [] e.op = "Mul" -> e.l * e.r
              [] e.op = "Div" -> Quotient(e.l, e.r)
              [] e.op = "Rem" -> e.l - e.r * Quotient(e.l, e.r)
              [] e.op = "Shl" -> e.l * 2 ^ e.r
              [] e.op = "Shr" -> e.l \div 2 ^ e.r

(* wrapping_shl and wrapping_shr take the distance modulo the width.       *)
Masked(e) == IF e.op \in {"Shl", "Shr"} THEN [e EXCEPT !.r = @ % Bits] ELSE e

Fails(e)      == e.op \in {"Div", "Rem"} /\ e.r = 0
eval_binop(e) == as_i64(Exact(Masked(e)))

-----------------------------------------------------------------------------
(* Typed values.                                                           *)

(* Mutant: the size is taken as DWARF gives it.                            *)
unclamped(n) == n

Clamp(n) == IF n < 1 THEN 1 ELSE IF n > W THEN W ELSE n
SizeOf(ty) == IF ty.kind = "Base" THEN Clamp(ty.byte_size) ELSE W

to_ne_bytes(v, n) == [i \in 1 .. n |-> (v \div Base ^ (i - 1)) % Base]
from_ne_bytes(s)  == LET f[n \in 0 .. Len(s)] == IF n = 0 THEN 0 ELSE f[n - 1] + s[n] * Base ^ (n - 1)
                     IN  f[Len(s)]

(* Mutant: the sign of a short integer is not extended.                    *)
zero_extended(raw, n, signed) == as_i64(raw)

Extended(raw, n, signed) == IF signed /\ n < W
                            THEN as_i64(raw * Base ^ (W - n)) \div Base ^ (W - n)
                            ELSE as_i64(raw)

(* The words read begin at the aligned address; a failing one fails all.   *)
read_mem(m, a, n) ==
    LET pad  == a % W
        out  == From(Aligned(a), W * ((pad + n + W - 1) \div W)) IN
    IF ~Readable(out) THEN None
    ELSE SubSeq([i \in 1 .. Cardinality(out) |-> m[Aligned(a) + i - 1]], pad + 1, pad + n)

read_typed_value(m, a, ty) ==
    LET bytes == read_mem(m, a, SizeOf(ty)) IN
    IF bytes = None THEN None
    ELSE Extended(from_ne_bytes(bytes), SizeOf(ty), ty.kind = "Base" /\ ty.signed)

-----------------------------------------------------------------------------
VARIABLES memory,      \* the debuggee's bytes
          breakpoints, \* address |-> orig_byte, of enabled breakpoints
          write,       \* the write under way, or None
          word,        \* the word it has read, or None
          due,         \* ghost: what the set under way is to show, or None
          shown,       \* ghost: what the last set of a variable should show, or None
          truth,       \* ghost: the bytes as the program and the user stored them
          stored,      \* ghost: stored to by the program since the word was read
          lost         \* ghost: where a store has been undone, or will be by delete

vars == <<memory, breakpoints, write, word, due, shown, truth, stored, lost>>

Init == /\ memory \in [Addrs -> Contents] /\ truth = memory
        /\ breakpoints = <<>> /\ write = None /\ word = None
        /\ due = None /\ shown = None /\ stored = {} /\ lost = {}

(* A command: data is to be written from addr on, through words that begin *)
(* at aligned addresses (write_mem) or at addr itself (Breakpoint).        *)
Begin(what, a, data, expected) ==
    /\ write = None
    /\ write' = [what |-> what, addr |-> a, data |-> data, offset |-> 0]
    /\ due' = expected /\ shown' = None
    /\ UNCHANGED <<memory, breakpoints, word, truth, stored, lost>>

(* set *<addr> = <value>: one byte.                                        *)
handle_set == \E a \in Addrs, e \in Expressions :
    ~Fails(e) /\ Begin("set", a, to_ne_bytes(eval_binop(e), 1), None)

(* What C makes of the value: the number of the type's range that is equal *)
(* to it modulo its size; the debugger shows 8 bytes as signed.            *)
Converted(v, ty) ==
    LET n  == SizeOf(ty)
        lo == IF n = W \/ (ty.kind = "Base" /\ ty.signed) THEN -(Base ^ n \div 2) ELSE 0 IN
    CHOOSE x \in lo .. lo + Base ^ n - 1 : (x - v) % Base ^ n = 0

InWidth(e) == e.op \in {"Shl", "Shr"} => e.r \in 0 .. Bits - 1

(* set <name> = <value>: structures are refused.                           *)
write_typed_value == \E a \in Addrs, ty \in Types, e \in Expressions :
    /\ ty.kind # "Struct" /\ ~Fails(e)
    /\ Begin("set", a, to_ne_bytes(eval_binop(e), SizeOf(ty)),
             IF InWidth(e) THEN [addr |-> a, ty |-> ty, value |-> Converted(Exact(e), ty)] ELSE None)

install_breakpoint == \E a \in BreakAddrs :
    a \notin DOMAIN breakpoints /\ Begin("enable", a, <<Int3>>, None)

delete_breakpoint == \E a \in DOMAIN breakpoints :
    Begin("disable", a, <<breakpoints[a]>>, None)

-----------------------------------------------------------------------------
(* The loop of write_mem, and the read and write of enable and disable.    *)

Cur == write.addr + write.offset

WordAddr == IF write.what = "set" THEN Aligned(Cur) ELSE Cur

InWord == From(WordAddr, W)

(* Mutant: as many bytes as a word has, wherever in the word one begins.   *)
whole_word == LET left == Len(write.data) - write.offset IN IF left < W THEN left ELSE W

Count == LET left == Len(write.data) - write.offset
             room == W - (Cur - WordAddr) IN IF left < room THEN left ELSE room

Chunk == From(Cur, Count)

(* Whether it succeeds or fails; the table of breakpoints is kept in any   *)
(* case when one is deleted, and on success when one is installed.         *)
End == write' = None /\ word' = None /\ stored' = {}

Remove(a) == Restrict(breakpoints, DOMAIN breakpoints \ {a})

read_word ==
    /\ write # None /\ word = None
    /\ IF Readable(InWord)
       THEN /\ word' = Restrict(memory, InWord) /\ stored' = {}
            /\ UNCHANGED <<breakpoints, write>>
       ELSE /\ End
            /\ breakpoints' = IF write.what = "disable" THEN Remove(write.addr) ELSE breakpoints
    /\ UNCHANGED <<memory, due, shown, truth, lost>>

New(a) == IF a \in Chunk THEN write.data[a - write.addr + 1] ELSE word[a]

(* The bytes after the word are as they were; and a breakpoint's entry has *)
(* the byte that was read.                                                 *)
write_word ==
    /\ word # None
    /\ memory' = [a \in Addrs |-> IF a \in InWord THEN New(a) ELSE memory[a]]
    /\ breakpoints' = CASE write.what = "enable" ->
                               [a \in DOMAIN breakpoints \cup {write.addr} |->
                                   IF a = write.addr THEN word[a] ELSE breakpoints[a]]
                        [] write.what = "disable" -> Remove(write.addr)
                        [] OTHER -> breakpoints
    /\ truth' = IF write.what = "set"
                THEN [a \in Addrs |-> IF a \in Chunk THEN New(a) ELSE truth[a]] ELSE truth
    /\ lost' = IF write.what = "set"
               THEN (lost \ Chunk) \cup (stored \cap (InWord \ Chunk)) \cup (Chunk \cap DOMAIN breakpoints)
               ELSE lost \cup (stored \cap InWord)
    /\ IF write.offset + Count = Len(write.data)
       THEN End /\ shown' = due
       ELSE /\ write' = [write EXCEPT !.offset = @ + Count]
            /\ word' = None /\ stored' = {} /\ UNCHANGED shown
    /\ UNCHANGED due

(* A thread that runs stores a byte.  What it stores to the variable that  *)
(* is being set, or has been, is what the variable shows.                  *)
Touches(x, a) == x # None /\ a \in From(x.addr, SizeOf(x.ty))

Store == \E a \in Shared \cap Addrs, b \in Contents :
    /\ memory' = [memory EXCEPT ![a] = b] /\ truth' = [truth EXCEPT ![a] = b]
    /\ stored' = IF word = None THEN {} ELSE stored \cup {a}
    /\ lost' = IF a \in DOMAIN breakpoints THEN lost \cup {a} ELSE lost \ {a}
    /\ shown' = IF Touches(shown, a) THEN None ELSE shown
    /\ due' = IF Touches(due, a) THEN None ELSE due
    /\ UNCHANGED <<breakpoints, write, word>>

Next == \/ handle_set \/ write_typed_value \/ install_breakpoint \/ delete_breakpoint
        \/ read_word \/ write_word \/ Store

Spec == Init /\ [][Next]_vars

-----------------------------------------------------------------------------
TypeOK == /\ memory \in [Addrs -> Byte] /\ truth \in [Addrs -> Byte]
          /\ DOMAIN breakpoints \subseteq BreakAddrs
          /\ \A a \in DOMAIN breakpoints : breakpoints[a] \in Byte
          /\ write # None => write.data \in Seq(Byte) /\ write.offset \in 0 .. Len(write.data) - 1
          /\ word # None => write # None /\ DOMAIN word = InWord /\ InWord \subseteq Addrs
          /\ stored \subseteq Addrs /\ lost \subseteq Addrs

(* read_mem_for_display: the byte at a as x and the disassembler show it.  *)
Displayed(a) == IF a \in DOMAIN breakpoints THEN breakpoints[a] ELSE memory[a]

(* Every byte is what the program or the user stored last, with an int3    *)
(* over it where the table has an enabled breakpoint, and what is shown is *)
(* the byte beneath; whatever the widths and the alignment of the writes,  *)
(* and whether one failed half way.  Only two kinds of stores are lost:    *)
(* those of a running thread to a word between its read and its write, and *)
(* those over an int3, which delete undoes.                                *)
BytesKept == \A a \in Addrs \ lost : /\ Displayed(a) = truth[a]
                                     /\ a \in DOMAIN breakpoints => memory[a] = Int3

(* print shows a variable that has been set to <l> <op> <r> as C's value   *)
(* of that expression converted to its type: wrapping, clamped sizes, sign *)
(* extension and the crossing of words lose nothing of it.                 *)
SetThenPrint == shown # None => read_typed_value(memory, shown.addr, shown.ty) = shown.value
=============================================================================
