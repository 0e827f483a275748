------------------------------- MODULE Lines -------------------------------
(***************************************************************************)
(* The tables of addresses: the line table of src/dwarf_info.rs and the    *)
(* function symbols of src/elf_info.rs, as they are put in order when a    *)
(* program is loaded and searched by break, list, step and every stop.     *)
(* What is hard is at the edges: several rows at one address, a sequence   *)
(* that ends where another begins, symbols without a size.                 *)
(*                                                                         *)
(* How ELF and DWARF are parsed is left out: a program is its sequences of *)
(* line rows, in the order of the units that hold them, and its function   *)
(* symbols, of .symtab and of .dynsym.                                     *)
(***************************************************************************)
EXTENDS Integers, Sequences, FiniteSets

CONSTANTS Programs,    \* records [sequences, syms, dynsyms]
          Top,         \* addresses are 1 .. Top
          LineNumbers, \* what the user may name in break <file>:<line>
          FallbackRange, \* UNKNOWN_SIZE_FALLBACK_RANGE: 0x10000 in the code
          None         \* Rust's None

Rows    == [addr : 1 .. Top, line : Nat, is_stmt : BOOLEAN, end_sequence : BOOLEAN]
Symbols == [name : STRING, addr : 1 .. Top, size : 0 .. Top]

(* A line program: addresses never decrease, and its last row ends it.     *)
Sequence(q) == /\ q \in Seq(Rows) /\ q # <<>>
               /\ \A i \in 1 .. Len(q) - 1 : q[i].addr <= q[i + 1].addr
               /\ \A i \in 1 .. Len(q) : q[i].end_sequence <=> i = Len(q)

(* Two sequences share no instruction.                                     *)
Apart(q, r) == \/ q[Len(q)].addr <= r[1].addr
               \/ r[Len(r)].addr <= q[1].addr

(* A function whose size is known is all in a sequence or all out of it.   *)
InOneSequence(s, q) == \/ s.addr + s.size <= q[1].addr \/ q[Len(q)].addr <= s.addr
                       \/ q[1].addr <= s.addr /\ s.addr + s.size <= q[Len(q)].addr

Functions(p) == {p.syms[i] : i \in DOMAIN p.syms} \cup {p.dynsyms[i] : i \in DOMAIN p.dynsyms}

ASSUME LinesAssumption ==
    /\ Top \in Nat /\ LineNumbers \subseteq Nat /\ FallbackRange \in Nat
    /\ None \notin Rows \cup Symbols \cup 1 .. Top
    /\ \A p \in Programs :
          /\ p.sequences \in Seq(Seq(Rows))
          /\ \A k \in DOMAIN p.sequences : Sequence(p.sequences[k])
          /\ \A k, l \in DOMAIN p.sequences :
                k # l => Apart(p.sequences[k], p.sequences[l])
          /\ p.syms \in Seq(Symbols) /\ p.dynsyms \in Seq(Symbols)
          /\ \A k \in DOMAIN p.sequences : \A s \in Functions(p) :
                InOneSequence(s, p.sequences[k])
          /\ \A s, t \in Functions(p) : s.addr = t.addr => s.size = t.size

-----------------------------------------------------------------------------
First(S) == CHOOSE i \in S : \A j \in S : i <= j
Last(S)  == CHOOSE i \in S : \A j \in S : j <= i

(* The elements of S in the order R.                                       *)
Listed(S, R) == [r \in 1 .. Cardinality(S) |->
                    CHOOSE x \in S : Cardinality({y \in S : <<y, x>> \in R}) = r - 1]

(* sort_by_key is stable.                                                  *)
Precedes(s, i, j) == s[i].addr < s[j].addr \/ (s[i].addr = s[j].addr /\ i < j)

(* Mutant: the rows are left as the units give them.                       *)
as_read(s) == s

SortByAddr(s) ==
    LET order == Listed(DOMAIN s, {z \in (DOMAIN s) \X (DOMAIN s) : Precedes(s, z[1], z[2])}) IN
    [r \in 1 .. Len(s) |-> s[order[r]]]

(* The rows of all sequences, one after the other: row x[2] of sequence    *)
(* x[1] is pushed before row y[2] of sequence y[1].                        *)
Positions(qs) == UNION {{k} \X (DOMAIN qs[k]) : k \in DOMAIN qs}
Earlier(x, y) == x[1] < y[1] \/ (x[1] = y[1] /\ x[2] < y[2])

Joined(qs) ==
    LET P == Positions(qs)
        order == Listed(P, {z \in P \X P : Earlier(z[1], z[2])}) IN
    [r \in 1 .. Cardinality(P) |-> qs[order[r][1]][order[r][2]]]

(* Of .dynsym, what is at an address without a symbol so far.              *)
NewAt(p, i) == /\ \A j \in DOMAIN p.syms : p.syms[j].addr # p.dynsyms[i].addr
               /\ \A j \in 1 .. i - 1 : p.dynsyms[j].addr # p.dynsyms[i].addr

NewIn(p) ==
    LET new == {i \in DOMAIN p.dynsyms : NewAt(p, i)}
        order == Listed(new, {z \in new \X new : z[1] < z[2]}) IN
    [r \in 1 .. Cardinality(new) |-> p.dynsyms[order[r]]]

load(p) == [rows    |-> SortByAddr(Joined(p.sequences)),
            symbols |-> SortByAddr(p.syms \o NewIn(p))]

-----------------------------------------------------------------------------
(* dwarf_info.rs                                                           *)

RowsAt(rows, a)     == {i \in DOMAIN rows : rows[i].addr = a}
RowsBefore(rows, a) == {i \in DOMAIN rows : rows[i].addr < a}

(* Mutant: of several rows at an address the first is taken.               *)
first_at(rows, a) == IF RowsAt(rows, a) # {} THEN First(RowsAt(rows, a))
                     ELSE IF RowsBefore(rows, a) # {} THEN Last(RowsBefore(rows, a)) ELSE 0

(* The last row at the address, or else the one before it.                 *)
Nearest(rows, a) == IF RowsAt(rows, a) # {} THEN Last(RowsAt(rows, a))
                    ELSE IF RowsBefore(rows, a) # {} THEN Last(RowsBefore(rows, a)) ELSE 0

lookup(rows, a) == LET i == Nearest(rows, a) IN
                   IF i = 0 \/ (i # 0 /\ rows[i].end_sequence) THEN None ELSE rows[i]

(* Mutant: the end of the sequence, or of the function, is overlooked.     *)
never(row, high) == FALSE

Leaves(row, high) == row.addr >= high \/ row.end_sequence

(* From row i on.                                                          *)
NextLine(rows, i, high) ==
    LET found == {k \in DOMAIN rows :
                     /\ i < k /\ rows[k].is_stmt /\ rows[k].line # rows[i].line
                     /\ \A j \in i + 1 .. k : ~Leaves(rows[j], high)} IN
    IF found = {} THEN None ELSE rows[First(found)].addr

(* binary_search_by_key may return any of the rows at low_pc: a set of     *)
(* results.                                                                *)
skip_prologue(rows, low_pc, high_pc) ==
    IF RowsAt(rows, low_pc) = {} THEN {None}
    ELSE {NextLine(rows, i, high_pc) : i \in RowsAt(rows, low_pc)}

-----------------------------------------------------------------------------
(* debugger.rs                                                             *)

(* Mutant: the end of a sequence may be broken at too.                     *)
end_as_well(row) == row.is_stmt

Breakable(row) == ~row.end_sequence /\ row.is_stmt

(* The least line not before the one named, at its least address.          *)
resolve_file_line(rows, line) ==
    LET candidates == {i \in DOMAIN rows : Breakable(rows[i]) /\ rows[i].line >= line}
        best == CHOOSE i \in candidates : \A j \in candidates :
                   \/ rows[i].line < rows[j].line
                   \/ rows[i].line = rows[j].line /\ rows[i].addr <= rows[j].addr IN
    IF candidates = {} THEN None ELSE rows[best]

(* Where the function of a symbol ends.                                    *)
HighPc(symbols, s) ==
    LET later == {symbols[i].addr : i \in {j \in DOMAIN symbols : symbols[j].addr > s.addr}} IN
    IF s.size > 0 THEN s.addr + s.size
    ELSE IF later = {} THEN s.addr + 4096 ELSE First(later)

(* Without a row the decision is left to skip_prologue_heuristic, which    *)
(* looks at the instructions from the entry on.                            *)
skip_prologue_addr(table, s) ==
    skip_prologue(table.rows, s.addr, HighPc(table.symbols, s)) \ {None}

-----------------------------------------------------------------------------
(* elf_info.rs                                                             *)

Inside(s, a) == s.addr <= a /\ a < s.addr + s.size

(* Mutant: any symbol without a size will do, however far away.            *)
unbounded(s, a) == s.addr <= a /\ s.size = 0

Near(s, a) == s.addr <= a /\ s.size = 0 /\ a - s.addr < FallbackRange

find_by_addr(symbols, a) ==
    LET matches == {i \in DOMAIN symbols : Inside(symbols[i], a) \/ Near(symbols[i], a)} IN
    IF matches = {} THEN None ELSE symbols[Last(matches)]

find_by_name(symbols, name) ==
    LET matches == {i \in DOMAIN symbols : symbols[i].name = name} IN
    IF matches = {} THEN None ELSE symbols[First(matches)]

-----------------------------------------------------------------------------
(* A session at its prompt: a program is loaded, and then asked about.     *)

VARIABLES program, table, asked, answer

vars == <<program, table, asked, answer>>

Init == /\ program \in Programs
        /\ table = load(program)
        /\ asked = <<"nothing">> /\ answer = None

Asks(q, a) == asked' = q /\ answer' = a /\ UNCHANGED <<program, table>>

ListAt       == \E a \in 0 .. Top : Asks(<<"line", a>>, lookup(table.rows, a))
SymbolAt     == \E a \in 0 .. Top : Asks(<<"symbol", a>>, find_by_addr(table.symbols, a))
BreakAtLine  == \E n \in LineNumbers : Asks(<<"break", n>>, resolve_file_line(table.rows, n))
BreakAtFunction ==
    \E i \in DOMAIN table.symbols :
       LET s == find_by_name(table.symbols, table.symbols[i].name) IN
       \E a \in skip_prologue_addr(table, s) : Asks(<<"function", s>>, a)

Next == asked = <<"nothing">> /\ (ListAt \/ SymbolAt \/ BreakAtLine \/ BreakAtFunction)

Spec == Init /\ [][Next]_vars

-----------------------------------------------------------------------------
(* What the tables say, from the sequences and before any sorting.         *)

Ascending(s) == \A i, j \in DOMAIN s : i < j => s[i].addr <= s[j].addr

(* The tables are in the order the binary searches of lookup and           *)
(* skip_prologue, and the early break of find_by_addr, rely on.            *)
TypeOK == /\ table.rows \in Seq(Rows) /\ table.symbols \in Seq(Symbols)
          /\ Ascending(table.rows) /\ Ascending(table.symbols)
          /\ asked[1] \in {"line", "break"} /\ answer # None => answer \in Rows
          /\ asked[1] = "symbol" /\ answer # None => answer \in Symbols
          /\ asked[1] = "function" => answer \in 1 .. Top

(* DWARF: row i of a sequence speaks of the addresses up to the next row.  *)
SpeaksOf(q, i, a) == i < Len(q) /\ q[i].addr <= a /\ a < q[i + 1].addr

RowOf(p, a) == {p.sequences[x[1]][x[2]] :
                   x \in {y \in Positions(p.sequences) : SpeaksOf(p.sequences[y[1]], y[2], a)}}

EndsAt(p, a) == \E k \in DOMAIN p.sequences : LET q == p.sequences[k] IN q[Len(q)].addr = a

(* Every address finds the one row that speaks of it, and an address that  *)
(* none speaks of finds none, whatever the order of the units; except that *)
(* a row may be lost which begins where another sequence ends (the comment *)
(* in lookup means it to look for a row that ends nothing).                *)
LookupFindsRow ==
    asked[1] = "line" =>
        LET rows == RowOf(program, asked[2]) IN
        \/ rows = {} /\ answer = None
        \/ rows = {answer}
        \/ answer = None /\ \E row \in rows : EndsAt(program, row.addr)

(* The instructions a statement begins at, with their lines: no row that   *)
(* ends a sequence is one of them.                                         *)
Statements(p) == {row \in {p.sequences[x[1]][x[2]] :
                              x \in {y \in Positions(p.sequences) :
                                        y[2] < Len(p.sequences[y[1]])}} : row.is_stmt}

(* break <line> finds a statement whenever one is on that line or after    *)
(* it, in whichever sequence: one of the first such line, and of that line *)
(* the one at the lowest address; and otherwise it finds nothing.          *)
BreakFindsLine ==
    asked[1] = "break" =>
        LET after == {row \in Statements(program) : row.line >= asked[2]} IN
        \/ after = {} /\ answer = None
        \/ /\ answer \in after
           /\ \A row \in after : answer.line <= row.line
           /\ \A row \in after : row.line = answer.line => answer.addr <= row.addr

(* break <function> stays in the function, on an instruction that begins a *)
(* statement: never another function, whichever of the rows at its entry   *)
(* is found.  If the symbol says where the function ends, some row speaks  *)
(* of that instruction, except at an entry where another sequence ends.    *)
BreakInFunction ==
    asked[1] = "function" =>
        LET s == asked[2] IN
        /\ s.addr <= answer /\ answer < HighPc(table.symbols, s)
        /\ \E row \in {table.rows[i] : i \in DOMAIN table.rows} :
              row.addr = answer /\ Breakable(row)
        /\ s.size > 0 => \/ RowOf(program, answer) # {}
                         \/ answer = s.addr /\ EndsAt(program, answer)

(* A function that contains the address is found, unless a symbol without  *)
(* a size begins in between; and what is found contains the address or     *)
(* begins near it.                                                         *)
SymbolFound ==
    asked[1] = "symbol" =>
        LET a == asked[2]
            around == {s \in Functions(program) : Inside(s, a)} IN
        /\ answer = None => around = {}
        /\ answer # None => /\ answer.addr <= a
                            /\ Inside(answer, a) \/ a - answer.addr < FallbackRange
        /\ around # {} => /\ \A s \in around : answer.addr >= s.addr
                          /\ Inside(answer, a) \/ answer.size = 0
=============================================================================
