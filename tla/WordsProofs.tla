---------------------------- MODULE WordsProofs ----------------------------
(***************************************************************************)
(* No byte is lost, for words of every size, every mapping, every data and *)
(* any number of breakpoints.  The inductive invariant says what a write   *)
(* that is under way has in hand: the bytes of its word as they are, but   *)
(* for those stored meanwhile, and, for a breakpoint, the one byte that is *)
(* to be exchanged, in a word that can be read.                            *)
(***************************************************************************)
EXTENDS Words, TLAPS

Fields == {"what", "addr", "data", "offset"}

(* The write under way: what it writes, and where it is.                   *)
WriteOK ==
    write # None =>
        /\ DOMAIN write = Fields
        /\ write.what \in {"set", "enable", "disable"}
        /\ write.addr \in Int /\ write.offset \in Int /\ Len(write.data) \in Int
        /\ write.what # "set" => write.offset = 0 /\ Len(write.data) = 1
        /\ write.what = "enable" => /\ write.data[1] = Int3
                                    /\ write.addr \notin DOMAIN breakpoints
        /\ write.what = "disable" => /\ write.addr \in DOMAIN breakpoints
                                     /\ write.data[1] = breakpoints[write.addr]

(* The word it has read is memory's, where the program has not stored.     *)
WordOK ==
    word # None =>
        /\ write # None
        /\ Readable(InWord)
        /\ \A a \in (InWord \cap Addrs) \ stored : word[a] = memory[a]

(* The word of a breakpoint could be read, and always can.                 *)
TableOK == \A a \in DOMAIN breakpoints : a \in Int /\ Readable(From(a, W))

Inv == /\ DOMAIN memory = Addrs /\ DOMAIN truth = Addrs
       /\ WriteOK /\ WordOK /\ TableOK /\ BytesKept

-----------------------------------------------------------------------------
(* Words and the addresses in them.                                        *)

LEMMA Remainder ==
    ASSUME NEW a \in Int
    PROVE  a % W \in 0 .. W - 1 /\ Aligned(a) \in Int /\ Aligned(a) <= a /\ a < Aligned(a) + W
BY WordsAssumption DEF Aligned

LEMMA AddrsAreInts == Addrs \subseteq Int
BY WordsAssumption DEF Addrs, From

LEMMA SelfInWord == ASSUME NEW a \in Int PROVE a \in From(a, W)
BY WordsAssumption DEF From

(* What is written of the data lies in the word.                           *)
LEMMA ChunkInWord ==
    ASSUME write # None, WriteOK
    PROVE  Chunk \subseteq InWord /\ Count \in Int
<1>1. Cur \in Int /\ write.offset \in Int /\ Len(write.data) \in Int
  BY DEF WriteOK, Cur
<1>2. WordAddr \in Int /\ WordAddr <= Cur
  BY <1>1, Remainder DEF WordAddr
<1>3. Count \in Int /\ Count <= W - (Cur - WordAddr)
  BY <1>1, <1>2, WordsAssumption DEF Count
<1>. QED
  BY <1>1, <1>2, <1>3, WordsAssumption DEF Chunk, InWord, From

(* A breakpoint is written in one go: its byte, the first of its word.     *)
LEMMA OneByte ==
    ASSUME write # None, WriteOK, write.what # "set"
    PROVE  /\ Cur = write.addr /\ WordAddr = Cur /\ InWord = From(write.addr, W)
           /\ Count = 1 /\ Chunk = {write.addr} /\ write.offset + Count = Len(write.data)
<1>1. write.addr \in Int /\ write.offset = 0 /\ Len(write.data) = 1
  BY DEF WriteOK
<1>2. Cur = write.addr /\ WordAddr = Cur
  BY <1>1 DEF Cur, WordAddr
<1>3. Count = 1
  BY <1>1, <1>2, WordsAssumption DEF Count
<1>. QED
  BY <1>1, <1>2, <1>3 DEF Chunk, From, InWord

-----------------------------------------------------------------------------
LEMMA InvInit == Init => Inv
<1>. SUFFICES ASSUME Init PROVE Inv
  OBVIOUS
<1>1. breakpoints = <<>> /\ DOMAIN breakpoints = {}
  BY DEF Init
<1>. QED
  BY <1>1 DEF Init, Inv, WriteOK, WordOK, TableOK, BytesKept, Displayed

(* A command begins a write.                                               *)
LEMMA Begins ==
    ASSUME Inv, NEW what, NEW a \in Int, NEW data, NEW expected, Begin(what, a, data, expected),
           what \in {"set", "enable", "disable"}, Len(data) \in Int,
           what # "set" => Len(data) = 1,
           what = "enable" => data[1] = Int3 /\ a \notin DOMAIN breakpoints,
           what = "disable" => a \in DOMAIN breakpoints /\ data[1] = breakpoints[a]
    PROVE  Inv'
<1>1. word' = None
  BY DEF Inv, WordOK, Begin
<1>2. WriteOK'
  BY DEF Begin, WriteOK, Fields
<1>. QED
  BY <1>1, <1>2 DEF Inv, Begin, WordOK, TableOK, BytesKept, Displayed

LEMMA Sets == ASSUME Inv, handle_set \/ write_typed_value PROVE Inv'
<1>1. CASE handle_set
  <2>. PICK a \in Addrs, e \in Expressions : Begin("set", a, to_ne_bytes(eval_binop(e), 1), None)
    BY <1>1 DEF handle_set
  <2>1. Len(to_ne_bytes(eval_binop(e), 1)) \in Int
    BY DEF to_ne_bytes
  <2>. QED
    BY <2>1, Begins, AddrsAreInts
<1>2. CASE write_typed_value
  <2>. PICK a \in Addrs, ty \in Types, e \in Expressions :
               \E x : Begin("set", a, to_ne_bytes(eval_binop(e), SizeOf(ty)), x)
    BY <1>2 DEF write_typed_value
  <2>. PICK x : Begin("set", a, to_ne_bytes(eval_binop(e), SizeOf(ty)), x)
    OBVIOUS
  <2>1. SizeOf(ty) \in Nat
    BY WordsAssumption DEF SizeOf, Clamp
  <2>2. Len(to_ne_bytes(eval_binop(e), SizeOf(ty))) \in Int
    BY <2>1 DEF to_ne_bytes
  <2>. QED
    BY <2>2, Begins, AddrsAreInts
<1>. QED
  BY <1>1, <1>2

LEMMA Installs == ASSUME Inv, install_breakpoint \/ delete_breakpoint PROVE Inv'
<1>1. CASE install_breakpoint
  <2>. PICK a \in BreakAddrs : a \notin DOMAIN breakpoints /\ Begin("enable", a, <<Int3>>, None)
    BY <1>1 DEF install_breakpoint
  <2>. QED
    BY Begins, WordsAssumption
<1>2. CASE delete_breakpoint
  <2>. PICK a \in DOMAIN breakpoints : Begin("disable", a, <<breakpoints[a]>>, None)
    BY <1>2 DEF delete_breakpoint
  <2>1. a \in Int
    BY DEF Inv, TableOK
  <2>. QED
    BY <2>1, Begins
<1>. QED
  BY <1>1, <1>2

(* Reading its word: a breakpoint that is to be taken out can be read.     *)
LEMMA Reads == ASSUME Inv, read_word PROVE Inv'
<1>. USE DEF Inv
<1>0. write # None /\ word = None
  BY DEF read_word
<1>1. CASE Readable(InWord)
  <2>1. word' = Restrict(memory, InWord) /\ UNCHANGED <<breakpoints, write, memory, truth, lost>>
    BY <1>1 DEF read_word
  <2>2. InWord' = InWord
    BY <2>1 DEF InWord, WordAddr, Cur
  <2>3. \A a \in InWord : word'[a] = memory[a]
    BY <2>1 DEF Restrict
  <2>4. WordOK'
    BY <1>0, <1>1, <2>1, <2>2, <2>3 DEF WordOK, Readable
  <2>. QED
    BY <2>1, <2>4 DEF WriteOK, TableOK, BytesKept, Displayed
<1>2. CASE ~Readable(InWord)
  <2>1. write.what # "disable"
    BY <1>0, <1>2, OneByte DEF WriteOK, TableOK
  <2>2. write' = None /\ word' = None /\ UNCHANGED <<breakpoints, memory, truth, lost>>
    BY <1>2, <2>1 DEF read_word, End
  <2>. QED
    BY <2>2 DEF WriteOK, WordOK, TableOK, BytesKept, Displayed
<1>. QED
  BY <1>1, <1>2

(* Writing it back: the bytes after the write, one by one.                 *)
LEMMA Writes == ASSUME Inv, write_word PROVE Inv'
<1>. USE DEF Inv
<1>0. word # None /\ write # None
  BY DEF write_word, WordOK
<1>1. DOMAIN memory' = Addrs /\ DOMAIN truth' = Addrs
  BY DEF write_word
<1>2. \A a \in Addrs : memory'[a] = IF a \in InWord THEN New(a) ELSE memory[a]
  BY DEF write_word
<1>3. \A a \in (InWord \cap Addrs) \ stored : word[a] = memory[a]
  BY <1>0 DEF WordOK
<1>4. Chunk \subseteq InWord /\ Count \in Int
  BY <1>0, ChunkInWord
<1>5. word' = None /\ WordOK'
  BY DEF write_word, End, WordOK
<1>6. CASE write.what = "set"
  <2>1. /\ breakpoints' = breakpoints
        /\ \A a \in Addrs : truth'[a] = IF a \in Chunk THEN New(a) ELSE truth[a]
        /\ lost' = (lost \ Chunk) \cup (stored \cap (InWord \ Chunk)) \cup (Chunk \cap DOMAIN breakpoints)
    BY <1>6 DEF write_word
  <2>2. WriteOK'
    <3>1. write' = None \/ write' = [write EXCEPT !.offset = @ + Count]
      BY DEF write_word, End
    <3>. QED
      BY <1>0, <1>4, <1>6, <2>1, <3>1 DEF WriteOK, Fields
  <2>3. ASSUME NEW a \in Addrs \ lost'
        PROVE  Displayed(a)' = truth'[a] /\ (a \in DOMAIN breakpoints => memory'[a] = Int3)
    <3>1. CASE a \in Chunk
      BY <1>2, <1>4, <2>1, <2>3, <3>1 DEF Displayed
    <3>2. CASE a \notin Chunk
      <4>1. a \notin lost /\ (a \in InWord => a \notin stored)
        BY <2>1, <2>3, <3>2
      <4>2. memory'[a] = memory[a] /\ truth'[a] = truth[a]
        BY <1>2, <1>3, <2>1, <3>2, <4>1 DEF New
      <4>. QED
        BY <2>1, <4>1, <4>2 DEF BytesKept, Displayed
    <3>. QED
      BY <3>1, <3>2
  <2>. QED
    BY <1>1, <1>5, <2>1, <2>2, <2>3 DEF TableOK, BytesKept
<1>7. CASE write.what # "set"
  <2>0. InWord = From(write.addr, W) /\ Chunk = {write.addr} /\ write.offset + Count = Len(write.data)
    BY <1>0, <1>7, OneByte
  <2>1. write' = None /\ truth' = truth /\ lost' = lost \cup (stored \cap InWord)
    BY <1>7, <2>0 DEF write_word, End
  <2>2. write.addr \in Int /\ write.addr \in InWord /\ New(write.addr) = write.data[1]
    <3>1. write.addr \in Int
      BY <1>0 DEF WriteOK
    <3>. QED
      BY <2>0, <3>1, SelfInWord DEF New
  <2>3. ASSUME NEW a \in Addrs \ lost', a # write.addr
        PROVE  a \notin lost /\ memory'[a] = memory[a]
    BY <1>2, <1>3, <2>0, <2>1, <2>3 DEF New
  <2>4. CASE write.what = "enable"
    <3>1. /\ DOMAIN breakpoints' = DOMAIN breakpoints \cup {write.addr}
          /\ breakpoints'[write.addr] = word[write.addr]
          /\ \A a \in DOMAIN breakpoints \ {write.addr} : breakpoints'[a] = breakpoints[a]
      BY <2>4 DEF write_word
    <3>2. TableOK'
      BY <1>0, <2>0, <2>2, <3>1 DEF TableOK, WordOK, Readable
    <3>3. ASSUME NEW a \in Addrs \ lost', a = write.addr
          PROVE  Displayed(a)' = truth'[a] /\ memory'[a] = Int3
      <4>1. a \notin lost /\ word[a] = memory[a] /\ a \notin DOMAIN breakpoints
        BY <1>0, <1>3, <2>1, <2>2, <2>4, <3>3 DEF WriteOK
      <4>2. memory'[a] = Int3
        BY <1>0, <1>2, <2>2, <2>4, <3>3 DEF WriteOK
      <4>. QED
        BY <2>1, <3>1, <3>3, <4>1, <4>2 DEF BytesKept, Displayed
    <3>4. BytesKept'
      BY <2>1, <2>3, <3>1, <3>3 DEF BytesKept, Displayed
    <3>. QED
      BY <1>1, <1>5, <2>1, <3>2, <3>4 DEF WriteOK
  <2>5. CASE write.what = "disable"
    <3>1. /\ DOMAIN breakpoints' = DOMAIN breakpoints \ {write.addr}
          /\ \A a \in DOMAIN breakpoints' : breakpoints'[a] = breakpoints[a]
      BY <2>5 DEF write_word, Remove, Restrict
    <3>2. ASSUME NEW a \in Addrs \ lost', a = write.addr
          PROVE  memory'[a] = truth'[a]
      <4>1. a \notin lost /\ a \in DOMAIN breakpoints /\ memory'[a] = breakpoints[a]
        BY <1>0, <1>2, <2>1, <2>2, <2>5, <3>2 DEF WriteOK
      <4>. QED
        BY <2>1, <4>1 DEF BytesKept, Displayed
    <3>3. BytesKept'
      BY <2>1, <2>3, <3>1, <3>2 DEF BytesKept, Displayed
    <3>4. TableOK'
      BY <3>1 DEF TableOK, Readable
    <3>. QED
      BY <1>1, <1>5, <2>1, <3>3, <3>4 DEF WriteOK
  <2>. QED
    BY <1>0, <1>7, <2>4, <2>5 DEF WriteOK
<1>. QED
  BY <1>6, <1>7

(* A thread stores.                                                        *)
LEMMA Stores == ASSUME Inv, Store PROVE Inv'
<1>. USE DEF Inv
<1>1. PICK b \in Addrs, v \in Contents :
        /\ memory' = [memory EXCEPT ![b] = v] /\ truth' = [truth EXCEPT ![b] = v]
        /\ stored' = IF word = None THEN {} ELSE stored \cup {b}
        /\ lost' = IF b \in DOMAIN breakpoints THEN lost \cup {b} ELSE lost \ {b}
        /\ UNCHANGED <<breakpoints, write, word>>
  BY DEF Store
<1>2. DOMAIN memory' = Addrs /\ DOMAIN truth' = Addrs
  BY <1>1
<1>3. WriteOK' /\ TableOK'
  BY <1>1 DEF WriteOK, TableOK, Readable
<1>4. WordOK'
  <2>1. InWord' = InWord
    BY <1>1 DEF InWord, WordAddr, Cur
  <2>2. word # None => b \in stored' /\ stored \subseteq stored'
    BY <1>1
  <2>. QED
    BY <1>1, <2>1, <2>2 DEF WordOK, Readable
<1>5. ASSUME NEW a \in Addrs \ lost'
      PROVE  Displayed(a)' = truth'[a] /\ (a \in DOMAIN breakpoints => memory'[a] = Int3)
  <2>1. CASE a = b
    BY <1>1, <1>5, <2>1 DEF Displayed
  <2>2. CASE a # b
    BY <1>1, <1>5, <2>2 DEF Displayed, BytesKept
  <2>. QED
    BY <2>1, <2>2
<1>. QED
  BY <1>1, <1>2, <1>3, <1>4, <1>5 DEF BytesKept

-----------------------------------------------------------------------------
LEMMA InvStep == Inv /\ [Next]_vars => Inv'
<1>. SUFFICES ASSUME Inv, [Next]_vars PROVE Inv'
  OBVIOUS
<1>1. CASE Next
  BY <1>1, Sets, Installs, Reads, Writes, Stores DEF Next
<1>2. CASE UNCHANGED vars
  BY <1>2 DEF vars, Inv, WriteOK, WordOK, TableOK, BytesKept, Displayed, Readable, InWord,
              WordAddr, Cur
<1>. QED
  BY <1>1, <1>2

(* write_mem, enable and disable lose no byte but those that BytesKept     *)
(* names, whatever the size of a word, the alignment and length of what is *)
(* written, the memory that is mapped, and the stores of running threads.  *)
THEOREM NoByteLost == Spec => []BytesKept
<1>1. Inv => BytesKept
  BY DEF Inv
<1>. QED
  BY InvInit, InvStep, <1>1, PTL DEF Spec
=============================================================================
