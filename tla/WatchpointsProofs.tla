------------------------- MODULE WatchpointsProofs -------------------------
(***************************************************************************)
(* What holds of Watchpoints for every set of threads, of ranges and of    *)
(* bytes, and for any number of slots up to four.                          *)
(***************************************************************************)
EXTENDS Watchpoints, TLAPS

(* Each slot has an enable bit and a field of its own in DR7.              *)
LEMMA Bits ==
    ASSUME NEW s \in Slots, NEW u \in Slots
    PROVE  /\ Enable(s) \in 0 .. 6 /\ Field(s) \subseteq 16 .. 31
           /\ Enable(s) = Enable(u) => s = u
           /\ s # u => Field(s) \cap Field(u) = {}
           /\ Enable(s) \notin Field(u)
BY WatchpointsAssumption DEF Slots, Enable, Shift, Field

(* Two bits encode the four sizes, one each.                               *)
LEMMA Lengths ==
    /\ \A l \in Sizes : dr7_len_bits(l) \subseteq 0 .. 1
    /\ \A l, m \in Sizes : dr7_len_bits(l) = dr7_len_bits(m) => l = m
    /\ \A B \in SUBSET (0 .. 1) : \E l \in Sizes : dr7_len_bits(l) = B
<1>1. dr7_len_bits(1) = {} /\ dr7_len_bits(2) = {0} /\ dr7_len_bits(8) = {1}
      /\ dr7_len_bits(4) = {0, 1}
  BY DEF dr7_len_bits
<1>2. \A l \in Sizes : l = 1 \/ l = 2 \/ l = 4 \/ l = 8
  BY DEF Sizes
<1>3. \A l \in Sizes : dr7_len_bits(l) \subseteq 0 .. 1
  BY <1>1, <1>2
<1>4. \A l \in Sizes : /\ 0 \in dr7_len_bits(l) <=> l \in {2, 4}
                       /\ 1 \in dr7_len_bits(l) <=> l \in {4, 8}
  BY <1>1, <1>2
<1>5. \A l, m \in Sizes : dr7_len_bits(l) = dr7_len_bits(m) => l = m
  BY <1>2, <1>4
<1>6. ASSUME NEW B \in SUBSET (0 .. 1)
      PROVE  \E l \in Sizes : dr7_len_bits(l) = B
  <2>1. \A b \in B : b = 0 \/ b = 1
    OBVIOUS
  <2>2. CASE 0 \in B /\ 1 \in B
    <3>1. B = {0, 1}
      BY <2>1, <2>2
    <3> QED BY <1>1, <3>1 DEF Sizes
  <2>3. CASE 0 \in B /\ 1 \notin B
    <3>1. B = {0}
      BY <2>1, <2>3
    <3> QED BY <1>1, <3>1 DEF Sizes
  <2>4. CASE 0 \notin B /\ 1 \in B
    <3>1. B = {1}
      BY <2>1, <2>4
    <3> QED BY <1>1, <3>1 DEF Sizes
  <2>5. CASE 0 \notin B /\ 1 \notin B
    <3>1. B = {}
      BY <2>1, <2>5
    <3> QED BY <1>1, <3>1 DEF Sizes
  <2> QED BY <2>2, <2>3, <2>4, <2>5
<1> QED BY <1>3, <1>5, <1>6

(* Whatever DR7 holds, it encodes some length.                             *)
LEMMA LenAtSize ==
    ASSUME NEW regs, NEW s
    PROVE  /\ LenAt(regs, s) \in Sizes
           /\ dr7_len_bits(LenAt(regs, s)) = {b \in 0 .. 1 : Shift(s) + 2 + b \in regs.dr7}
BY Lengths DEF LenAt

(* The slots installed are armed as the table says, the others as before.  *)
LEMMA Installed ==
    ASSUME NEW regs \in Registers, NEW table, NEW S \in SUBSET Slots,
           \A s \in S : table[s] \in Watches
    PROVE  LET new == install_watch_slots(regs, table, S) IN
           /\ new \in Registers /\ new.dr6 = regs.dr6
           /\ \A s \in S : Armed(new, s) /\ OnWrite(new, s) /\ RangeAt(new, s) = table[s]
           /\ \A s \in Slots \ S : /\ Armed(new, s) <=> Armed(regs, s)
                                   /\ OnWrite(new, s) <=> OnWrite(regs, s)
                                   /\ RangeAt(new, s) = RangeAt(regs, s)
<1> DEFINE new == install_watch_slots(regs, table, S)
<1> DEFINE dr7 == (regs.dr7 \ UNION {Field(s) : s \in S})
                      \cup UNION {SlotBits(s, table[s].len) : s \in S}
<1>1. new = [addr |-> [s \in Slots |-> IF s \in S THEN table[s].addr ELSE regs.addr[s]],
             dr7 |-> dr7, dr6 |-> regs.dr6]
  BY DEF install_watch_slots, Registers
<1>2. \A s \in S : table[s].len \in Sizes /\ table[s].addr \in Nat
  BY DEF Watches
<1>3. \A s \in S : SlotBits(s, table[s].len) \subseteq {Enable(s)} \cup Field(s)
  BY <1>2, Lengths DEF SlotBits, Field, Shift, Slots
<1>4. \A s \in Slots : Enable(s) \in dr7 <=> s \in S \/ Enable(s) \in regs.dr7
  <2>1. \A s \in S : Enable(s) \in SlotBits(s, table[s].len)
    BY DEF SlotBits
  <2>2. \A s \in Slots : \A u \in S : Enable(s) \in SlotBits(u, table[u].len) => s = u
    BY <1>3, Bits
  <2>3. \A s \in Slots : Enable(s) \notin UNION {Field(u) : u \in S}
    BY Bits
  <2> QED BY <2>1, <2>2, <2>3
<1>5. \A s \in S : \A b \in Field(s) : b \in dr7 <=> b \in SlotBits(s, table[s].len)
  <2>1. \A s \in S : \A u \in S : \A b \in Field(s) :
            b \in SlotBits(u, table[u].len) => s = u
    BY <1>3, Bits
  <2> QED BY <2>1
<1>6. \A s \in Slots \ S : \A b \in Field(s) : b \in dr7 <=> b \in regs.dr7
  <2>1. \A s \in Slots \ S : \A u \in S : \A b \in Field(s) :
            b \notin SlotBits(u, table[u].len) /\ b \notin Field(u)
    BY <1>3, Bits
  <2> QED BY <2>1
<1>7. \A s \in Slots : /\ Shift(s) \in Field(s) /\ Shift(s) + 1 \in Field(s)
                       /\ \A b \in 0 .. 1 : Shift(s) + 2 + b \in Field(s)
  BY DEF Slots, Shift, Field
<1>8. new \in Registers
  <2>1. dr7 \subseteq 0 .. 31
    <3>1. regs.dr7 \subseteq 0 .. 31
      BY DEF Registers
    <3>2. \A s \in S : SlotBits(s, table[s].len) \subseteq 0 .. 31
      BY <1>3, Bits
    <3> QED BY <3>1, <3>2
  <2>2. [s \in Slots |-> IF s \in S THEN table[s].addr ELSE regs.addr[s]] \in [Slots -> Nat]
    BY <1>2 DEF Registers
  <2>3. regs.dr6 \in SUBSET (Slots \X Watches)
    BY DEF Registers
  <2> QED BY <1>1, <2>1, <2>2, <2>3 DEF Registers
<1>9. ASSUME NEW s \in S
      PROVE  Armed(new, s) /\ OnWrite(new, s) /\ RangeAt(new, s) = table[s]
  <2>1. Shift(s) \in dr7 /\ Shift(s) + 1 \notin dr7
    <3>1. Shift(s) \in SlotBits(s, table[s].len)
      BY DEF SlotBits
    <3>2. Shift(s) + 1 \notin SlotBits(s, table[s].len)
      BY <1>2, Lengths, Bits DEF SlotBits, Slots, Shift, Enable
    <3> QED BY <1>5, <1>7, <3>1, <3>2
  <2>2. \A b \in 0 .. 1 : Shift(s) + 2 + b \in dr7 <=> b \in dr7_len_bits(table[s].len)
    <3>1. \A b \in 0 .. 1 : Shift(s) + 2 + b \in SlotBits(s, table[s].len)
                                <=> b \in dr7_len_bits(table[s].len)
      BY <1>2, Lengths DEF SlotBits, Slots, Shift, Enable
    <3> QED BY <1>5, <1>7, <3>1
  <2>3. LenAt(new, s) = table[s].len
    <3>1. {b \in 0 .. 1 : Shift(s) + 2 + b \in new.dr7} = dr7_len_bits(table[s].len)
      BY <1>1, <1>2, <2>2, Lengths
    <3>2. dr7_len_bits(LenAt(new, s)) = dr7_len_bits(table[s].len) /\ LenAt(new, s) \in Sizes
      BY <3>1, LenAtSize
    <3> QED BY <1>2, <3>2, Lengths
  <2>4. RangeAt(new, s) = table[s]
    BY <1>1, <2>3 DEF RangeAt, Watches
  <2> QED BY <1>1, <1>4, <1>7, <2>1, <2>4 DEF Armed, OnWrite
<1>10. ASSUME NEW s \in Slots \ S
       PROVE  /\ Armed(new, s) <=> Armed(regs, s)
              /\ OnWrite(new, s) <=> OnWrite(regs, s)
              /\ RangeAt(new, s) = RangeAt(regs, s)
  <2>1. \A b \in 0 .. 1 : Shift(s) + 2 + b \in new.dr7 <=> Shift(s) + 2 + b \in regs.dr7
    BY <1>1, <1>6, <1>7
  <2>2. LenAt(new, s) = LenAt(regs, s)
    BY <2>1 DEF LenAt
  <2>3. Field(s) \cap new.dr7 = Field(s) \cap regs.dr7
    BY <1>1, <1>6
  <2>4. new.addr[s] = regs.addr[s]
    BY <1>1
  <2>5. Armed(new, s) <=> Armed(regs, s)
    BY <1>1, <1>4 DEF Armed
  <2>6. OnWrite(new, s) <=> OnWrite(regs, s)
    BY <2>3 DEF OnWrite
  <2>7. RangeAt(new, s) = RangeAt(regs, s)
    BY <2>2, <2>4 DEF RangeAt
  <2> QED BY <2>5, <2>6, <2>7
<1> QED BY <1>1, <1>8, <1>9, <1>10

(* A slot uninstalled is not armed, the others are as before.              *)
LEMMA Uninstalled ==
    ASSUME NEW regs \in Registers, NEW s \in Slots
    PROVE  LET new == uninstall_watch_slot(regs, s) IN
           /\ new \in Registers /\ new.dr6 = regs.dr6
           /\ ~Armed(new, s)
           /\ \A u \in Slots \ {s} : /\ Armed(new, u) <=> Armed(regs, u)
                                     /\ OnWrite(new, u) <=> OnWrite(regs, u)
                                     /\ RangeAt(new, u) = RangeAt(regs, u)
<1> DEFINE new == uninstall_watch_slot(regs, s)
<1>1. new = [addr |-> [regs.addr EXCEPT ![s] = 0], dr7 |-> regs.dr7 \ {Enable(s)},
             dr6 |-> regs.dr6]
  BY DEF uninstall_watch_slot, Registers
<1>2. \A u \in Slots : Enable(s) \notin Field(u)
  BY Bits
<1>3. new \in Registers /\ ~Armed(new, s)
  BY <1>1 DEF Registers, Armed
<1>4. ASSUME NEW u \in Slots \ {s}
      PROVE  /\ Armed(new, u) <=> Armed(regs, u)
             /\ OnWrite(new, u) <=> OnWrite(regs, u)
             /\ RangeAt(new, u) = RangeAt(regs, u)
  <2>1. Enable(u) # Enable(s)
    BY Bits
  <2>2. \A b \in 0 .. 1 : Shift(u) + 2 + b \in Field(u)
    BY DEF Slots, Shift, Field
  <2>3. \A b \in 0 .. 1 : Shift(u) + 2 + b \in new.dr7 <=> Shift(u) + 2 + b \in regs.dr7
    BY <1>1, <1>2, <2>2
  <2>4. LenAt(new, u) = LenAt(regs, u)
    BY <2>3 DEF LenAt
  <2>5. Field(u) \cap new.dr7 = Field(u) \cap regs.dr7
    BY <1>1, <1>2
  <2>6. new.addr[u] = regs.addr[u]
    BY <1>1 DEF Registers
  <2> QED BY <1>1, <2>1, <2>4, <2>5, <2>6 DEF Armed, OnWrite, RangeAt
<1> QED BY <1>1, <1>3, <1>4

-----------------------------------------------------------------------------
(* The inductive invariant.                                                *)

(* Whoever has something to report is stopped or dead, and knows which.    *)
Ready ==
    \A t \in Tids : /\ report[t] = Quiet \/ Stopped(t) \/ run[t] = "zombie"
                    /\ run[t] = "zombie" <=> report[t].kind = "exited"

(* Of a task that is not born nobody knows anything.                       *)
Born ==
    \A t \in Tids : run[t] = "unborn" =>
        /\ t \notin threads
        /\ dr[t] = NoRegisters
        /\ \A u \in Tids : leader[u] # t /\ report[u].child # t

SizesOK == \A s \in Used : watchpoints[s] \in Watches

(* A thread that is still to be registered watches nothing.                *)
UnknownUnarmed ==
    \A t \in Tids \ threads : Debugged(t) => \A s \in Slots : ~Armed(dr[t], s)

Mirrored == UnknownUnarmed /\ RegistersMirrorTable

IInv == TypeOK /\ Ready /\ Born /\ SizesOK /\ Mirrored

(* The start of a session.                                                 *)
LEMMA InitInv == Init => IInv
<1> SUFFICES ASSUME Init PROVE IInv
  OBVIOUS
<1> USE DEF Init, KernelInit
<1>1. NoRegisters \in Registers
  BY DEF NoRegisters, Registers
<1>2. TypeOK
  <2>1. KernelTypeOK
    BY DEF KernelTypeOK, RunStates, Reports
  <2>2. DOMAIN wp_ids = {} /\ wp_ids \in [{} -> Slots]
    BY DEF NoIds
  <2>3. wp_ids \in [DOMAIN wp_ids -> Slots] /\ DOMAIN wp_ids \subseteq 1 .. next_bp_id - 1
    BY <2>2
  <2>4. next_bp_id \in 1 .. MaxId + 1
    BY WatchpointsAssumption
  <2>5. watchpoints \in [Slots -> Ranges \cup {NoWatch}] /\ late \in [Tids -> SUBSET Slots]
    OBVIOUS
  <2> QED BY <1>1, <2>1, <2>3, <2>4, <2>5 DEF TypeOK
<1>3. Ready /\ Born
  BY TraceesAssumption DEF Ready, Born, Quiet
<1>4. SizesOK
  BY DEF SizesOK, Used
<1>5. Mirrored
  BY DEF Mirrored, UnknownUnarmed, RegistersMirrorTable, Debugged, Alive, Running, Stopped
<1> QED BY <1>2, <1>3, <1>4, <1>5 DEF IInv

-----------------------------------------------------------------------------
(* What the kernel's side of a step may do.                                *)

Reported == Stops \cup Ends

KernelStep ==
    /\ run' \in [Tids -> RunStates] /\ report' \in [Tids -> Reports]
    /\ Ready'
    /\ \A u \in Tids : /\ Alive(u)' => Alive(u)
                       /\ run'[u] = "unborn" => run[u] = "unborn"
                       /\ report'[u].child \in {report[u].child, NoTid}

(* A report's kind and child.                                              *)
LEMMA ReportFacts ==
    /\ Quiet \in Reports /\ Quiet.kind = "none" /\ Quiet.child = NoTid
    /\ \A k \in Reported : /\ Report(k) \in Reports
                           /\ Report(k).kind = k /\ Report(k).child = NoTid
    /\ \A c \in Tids : /\ Event("clone", c) \in Reports
                       /\ Event("clone", c).kind = "clone" /\ Event("clone", c).child = c
<1>1. \A c \in Tids : Event("clone", c) \in Reports
  BY DEF Reports, Births0
<1>2. Quiet \in Reports /\ \A k \in Reported : Report(k) \in Reports
  BY DEF Reports, Reported
<1> QED BY <1>1, <1>2 DEF Quiet, Report, Event

(* No change at all.                                                       *)
LEMMA StutterFacts ==
    ASSUME KernelTypeOK, Ready, UNCHANGED <<run, report>>
    PROVE  KernelStep
BY DEF KernelTypeOK, KernelStep, Ready, Alive, Running, Stopped

(* A stopped thread is resumed.                                            *)
LEMMA ResumeFacts ==
    ASSUME KernelTypeOK, Ready, NEW t \in Tids, NEW how \in {"running", "stepping", "stepover"},
           Stopped(t), Resume(t, how)
    PROVE  KernelStep
BY ReportFacts DEF KernelTypeOK, Resume, KernelStep, Ready, Alive, Running, Stopped, RunStates

(* So it is when the error is ignored.                                     *)
LEMMA TryResumeFacts ==
    ASSUME KernelTypeOK, Ready, NEW t \in Tids, TryResume(t)
    PROVE  KernelStep
BY ResumeFacts, StutterFacts DEF TryResume

(* A report is consumed.                                                   *)
LEMMA ConsumeFacts ==
    ASSUME KernelTypeOK, Ready, NEW t \in Tids, Waitable(t), Consume(t)
    PROVE  KernelStep
BY ReportFacts
   DEF KernelTypeOK, Consume, Waitable, KernelStep, Ready, Alive, Running, Stopped, RunStates

(* A live thread stops.                                                    *)
LEMMA StopFacts ==
    ASSUME KernelTypeOK, Ready, NEW t \in Tids, NEW k \in Stops, Alive(t), Stop(t, Report(k))
    PROVE  KernelStep
<1>1. k # "exited" /\ k \in Reported
  BY DEF Stops, Reported
<1> QED
  BY <1>1, ReportFacts
     DEF KernelTypeOK, Stop, KernelStep, Ready, Alive, Running, Stopped, RunStates

(* A set of tasks exits.                                                   *)
LEMMA PerishFacts ==
    ASSUME KernelTypeOK, Ready, NEW dying, Perish(dying, "exited")
    PROVE  KernelStep /\ rip' \in [Tids -> {"off", "at", "past"}]
<1>1. "exited" \in Reported
  BY DEF Ends, Reported
<1> QED
  BY <1>1, ReportFacts
     DEF KernelTypeOK, Perish, KernelStep, Ready, Alive, Running, Stopped, RunStates

(* Such a step tells nobody of a task that is not born, if nobody          *)
(* registers it.                                                           *)
LEMMA BornKept ==
    ASSUME Born, KernelStep, UNCHANGED leader,
           \A t \in threads' : t \in threads \/ run[t] # "unborn",
           \A t \in Tids : run[t] = "unborn" => dr'[t] = dr[t]
    PROVE  Born'
<1>1. \A t \in Tids : NoTid # t
  BY TraceesAssumption
<1> QED BY <1>1 DEF Born, KernelStep

(* Such a step leaves the mirror as it is, if it leaves alone what the     *)
(* registers of the living say.                                            *)
LEMMA MirrorKept ==
    ASSUME Mirrored, KernelStep, UNCHANGED <<exited, leader, processes, threads, watchpoints>>,
           \A t \in Tids : late'[t] = late[t] \/ t \notin threads,
           \A t \in Tids : Alive(t)' => dr'[t].addr = dr[t].addr /\ dr'[t].dr7 = dr[t].dr7,
           threads \subseteq Tids
    PROVE  Mirrored'
<1>1. \A t \in Tids : Debugged(t)' => Debugged(t)
  BY DEF Debugged, KernelStep
<1>2. ASSUME NEW t \in Tids, Alive(t)', NEW s \in Slots
      PROVE  /\ Armed(dr[t], s)' <=> Armed(dr[t], s)
             /\ OnWrite(dr[t], s)' <=> OnWrite(dr[t], s)
             /\ RangeAt(dr[t], s)' = RangeAt(dr[t], s)
  BY <1>2 DEF Armed, OnWrite, RangeAt, LenAt
<1>3. Used' = Used
  BY DEF Used
<1>4. UnknownUnarmed'
  BY <1>1, <1>2 DEF Mirrored, UnknownUnarmed, Debugged
<1>5. RegistersMirrorTable'
  BY <1>1, <1>2, <1>3 DEF Mirrored, RegistersMirrorTable, Mirrors, Debugged
<1> QED BY <1>4, <1>5 DEF Mirrored

(* When the session is over there is nothing to mirror.                    *)
LEMMA MirrorOver ==
    ASSUME exited' PROVE Mirrored'
BY DEF Mirrored, UnknownUnarmed, RegistersMirrorTable, Debugged

-----------------------------------------------------------------------------
(* The mirror where registers are written.                                 *)

(* watch and delete: what is written shows the new entry of slot s and     *)
(* leaves the other slots alone.                                           *)
LEMMA WriteMirrors ==
    ASSUME TypeOK, Mirrored, UNCHANGED <<run, leader, exited, processes, threads>>,
           NEW s \in Slots, NEW registers, Write(s, registers),
           \A u \in Slots \ {s} : watchpoints'[u] = watchpoints[u],
           \A t \in threads : Stopped(t) =>
               /\ IF watchpoints'[s] # NoWatch
                  THEN /\ Armed(registers[t], s) /\ OnWrite(registers[t], s)
                       /\ RangeAt(registers[t], s) = watchpoints'[s]
                  ELSE ~Armed(registers[t], s)
               /\ \A u \in Slots \ {s} : /\ Armed(registers[t], u) <=> Armed(dr[t], u)
                                         /\ OnWrite(registers[t], u) <=> OnWrite(dr[t], u)
                                         /\ RangeAt(registers[t], u) = RangeAt(dr[t], u)
    PROVE  Mirrored'
<1>1. \A t \in Tids : (Debugged(t)' <=> Debugged(t)) /\ (Stopped(t)' <=> Stopped(t))
  BY DEF Debugged, Alive, Running, Stopped
<1>2. \A t \in Tids : dr'[t] = IF t \in threads /\ Stopped(t) THEN registers[t] ELSE dr[t]
  BY DEF Write
<1>3. UnknownUnarmed'
  BY <1>1, <1>2 DEF Mirrored, UnknownUnarmed, Armed
<1>4. ASSUME NEW t \in threads, Debugged(t), NEW u \in Slots, u \notin late'[t]
      PROVE  Mirrors(t, u)'
  <2>1. t \in Tids
    BY DEF TypeOK
  <2>2. CASE Stopped(t)
    <3>1. dr'[t] = registers[t]
      BY <1>2, <2>1, <2>2
    <3>2. CASE u = s
      BY <2>2, <3>1, <3>2 DEF Mirrors, Used, Armed, OnWrite, RangeAt, LenAt
    <3>3. CASE u # s
      <4>1. u \notin late[t]
        BY <1>4, <2>1, <2>2, <3>3 DEF Write
      <4>2. Mirrors(t, u)
        BY <1>4, <4>1 DEF Mirrored, RegistersMirrorTable
      <4>3. /\ Armed(registers[t], u) <=> Armed(dr[t], u)
            /\ OnWrite(registers[t], u) <=> OnWrite(dr[t], u)
            /\ RangeAt(registers[t], u) = RangeAt(dr[t], u)
        BY <2>2, <3>3
      <4>4. watchpoints'[u] = watchpoints[u]
        BY <3>3
      <4> QED
        BY <3>1, <4>2, <4>3, <4>4 DEF Mirrors, Used, Armed, OnWrite, RangeAt, LenAt
    <3> QED BY <3>2, <3>3
  <2>3. CASE ~Stopped(t)
    <3>1. dr'[t] = dr[t] /\ late'[t] = late[t] \cup {s}
      BY <1>2, <2>1, <2>3 DEF Write
    <3>2. u # s /\ Mirrors(t, u)
      BY <1>4, <3>1 DEF Mirrored, RegistersMirrorTable
    <3>3. watchpoints'[u] = watchpoints[u]
      BY <3>2
    <3> QED BY <3>1, <3>2, <3>3 DEF Mirrors, Used, Armed, OnWrite, RangeAt, LenAt
  <2> QED BY <2>2, <2>3
<1>5. RegistersMirrorTable'
  BY <1>1, <1>4 DEF RegistersMirrorTable, TypeOK
<1> QED BY <1>3, <1>5 DEF Mirrored

(* A thread is registered: with the whole table, or late for all of it.    *)
LEMMA JoinMirrors ==
    ASSUME TypeOK, SizesOK, Mirrored, KernelStep, NEW c \in Tids \ threads,
           threads' = threads \cup {c},
           UNCHANGED <<exited, leader, processes, watchpoints>>,
           \/ /\ dr' = [dr EXCEPT ![c] = install_watch_slots(@, watchpoints, Used)]
              /\ UNCHANGED late
           \/ late' = [late EXCEPT ![c] = @ \cup Used] /\ UNCHANGED dr
    PROVE  Mirrored'
<1> DEFINE new == install_watch_slots(dr[c], watchpoints, Used)
<1>1. \A t \in Tids : Debugged(t)' => Debugged(t)
  BY DEF Debugged, KernelStep
<1>2. Used' = Used /\ Used \in SUBSET Slots
  BY DEF Used
<1>3. \A t \in Tids \ {c} : dr'[t] = dr[t] /\ late'[t] = late[t]
  BY DEF TypeOK
<1>4. dr[c] \in Registers
  BY DEF TypeOK
<1>5. UnknownUnarmed'
  BY <1>1, <1>3 DEF Mirrored, UnknownUnarmed, Armed
<1>6. ASSUME NEW t \in threads, Debugged(t), NEW s \in Slots, s \notin late'[t]
      PROVE  Mirrors(t, s)'
  <2>1. t # c /\ t \in Tids
    BY DEF TypeOK
  <2>2. dr'[t] = dr[t] /\ Mirrors(t, s)
    BY <1>3, <1>6, <2>1 DEF Mirrored, RegistersMirrorTable
  <2> QED BY <1>2, <2>2 DEF Mirrors, Armed, OnWrite, RangeAt, LenAt
<1>7. ASSUME Debugged(c), NEW s \in Slots, s \notin late'[c]
      PROVE  Mirrors(c, s)'
  <2>1. ~Armed(dr[c], s)
    BY <1>7 DEF Mirrored, UnknownUnarmed
  <2>2. CASE dr' = [dr EXCEPT ![c] = install_watch_slots(@, watchpoints, Used)]
    <3>1. dr'[c] = new
      BY <2>2 DEF TypeOK
    <3>2. CASE s \in Used
      <4>1. Armed(new, s) /\ OnWrite(new, s) /\ RangeAt(new, s) = watchpoints[s]
        BY <1>2, <1>4, <3>2, Installed DEF SizesOK
      <4> QED BY <1>2, <3>1, <3>2, <4>1 DEF Mirrors, Armed, OnWrite, RangeAt, LenAt
    <3>3. CASE s \notin Used
      <4>1. ~Armed(new, s)
        BY <1>2, <1>4, <2>1, <3>3, Installed DEF SizesOK
      <4> QED BY <1>2, <3>1, <3>3, <4>1 DEF Mirrors, Armed
    <3> QED BY <3>2, <3>3
  <2>3. CASE late' = [late EXCEPT ![c] = @ \cup Used] /\ UNCHANGED dr
    <3>1. s \notin Used
      BY <1>7, <2>3 DEF TypeOK
    <3> QED BY <1>2, <2>1, <2>3, <3>1 DEF Mirrors, Armed
  <2> QED BY <2>2, <2>3
<1>8. RegistersMirrorTable'
  BY <1>1, <1>6, <1>7 DEF RegistersMirrorTable, TypeOK
<1> QED BY <1>5, <1>8 DEF Mirrored

(* So a registered thread keeps its registers well typed.                  *)
LEMMA JoinType ==
    ASSUME TypeOK, SizesOK, NEW c \in Tids
    PROVE  install_watch_slots(dr[c], watchpoints, Used) \in Registers
<1>1. Used \in SUBSET Slots /\ dr[c] \in Registers
  BY DEF Used, TypeOK
<1> QED BY <1>1, Installed DEF SizesOK

(* What the processor and check_watchpoint_hit make of DR6.                *)
LEMMA HitsType ==
    ASSUME TypeOK, NEW t \in Tids
    PROVE  /\ Hits(t) \subseteq [id : DOMAIN wp_ids, watch : Ranges, hit : Watches]
           /\ \A b \in Bytes : HitBy(dr[t], b) \subseteq Slots \X Watches
           /\ \A D \in SUBSET (Slots \X Watches) : [dr EXCEPT ![t].dr6 = D] \in [Tids -> Registers]
<1>1. dr[t] \in Registers
  BY DEF TypeOK
<1>2. \A s \in Slots : RangeAt(dr[t], s) \in Watches
  BY <1>1, LenAtSize DEF RangeAt, Watches, Registers
<1>3. \A h \in dr[t].dr6 : h[2] \in Watches
  BY <1>1 DEF Registers
<1>4. \A i \in DOMAIN wp_ids : wp_ids[i] \in Used => watchpoints[wp_ids[i]] \in Ranges
  BY DEF TypeOK, Used
<1>5. Hits(t) \subseteq [id : DOMAIN wp_ids, watch : Ranges, hit : Watches]
  BY <1>3, <1>4 DEF Hits
<1>6. \A b \in Bytes : HitBy(dr[t], b) \subseteq Slots \X Watches
  BY <1>2 DEF HitBy
<1>7. \A D \in SUBSET (Slots \X Watches) : [dr EXCEPT ![t].dr6 = D] \in [Tids -> Registers]
  <2>1. ASSUME NEW D \in SUBSET (Slots \X Watches)
        PROVE  [dr[t] EXCEPT !.dr6 = D] \in Registers
    BY <1>1, <2>1 DEF Registers
  <2> QED BY <2>1 DEF TypeOK
<1> QED BY <1>5, <1>6, <1>7

-----------------------------------------------------------------------------
(* One lemma per action: it preserves the invariant.                       *)

(* run: a new process, whose only thread has nothing to mirror.            *)
LEMMA StartStep ==
    ASSUME IInv, NEW c \in Tids, start(c)
    PROVE  IInv'
<1> USE DEF IInv, start
<1>1. KernelTypeOK' /\ Ready'
  BY ReportFacts DEF TypeOK, KernelTypeOK, RunStates, Ready, Stopped
<1>2. dr[c] = NoRegisters /\ report'[c] = report[c]
  BY DEF Born
<1>3. Used' = {}
  BY DEF Used
<1>4. TypeOK'
  <2>1. DOMAIN wp_ids' = {} /\ wp_ids' \in [{} -> Slots]
    BY DEF NoIds
  <2>2. watchpoints' \in [Slots -> Ranges \cup {NoWatch}]
    OBVIOUS
  <2> QED BY <1>1, <2>1, <2>2 DEF TypeOK
<1>5. Born'
  BY <1>2 DEF Born, TypeOK, KernelTypeOK
<1>6. SizesOK'
  BY <1>3 DEF SizesOK
<1>7. Mirrored'
  <2>1. \A t \in Tids : Debugged(t)' => t = c
    BY <1>1 DEF Debugged, TypeOK, KernelTypeOK, Born, Alive, Running, Stopped
  <2>2. \A s \in Slots : ~Armed(dr'[c], s)
    BY <1>2 DEF NoRegisters, Armed
  <2> QED
    BY <1>3, <2>1, <2>2 DEF Mirrored, UnknownUnarmed, RegistersMirrorTable, Mirrors, Armed
<1> QED BY <1>1, <1>4, <1>5, <1>6, <1>7

(* watch *)
LEMMA AddStep ==
    ASSUME IInv, NEW w \in Ranges, add_watchpoint(w)
    PROVE  IInv'
<1> USE DEF IInv
<1>1. PICK s \in Slots :
          /\ FirstFree(s)
          /\ watchpoints' = [watchpoints EXCEPT ![s] = w]
          /\ wp_ids' = [i \in DOMAIN wp_ids \cup {next_bp_id} |->
                            IF i = next_bp_id THEN s ELSE wp_ids[i]]
          /\ Write(s, [t \in Tids |-> install_watch_slots(dr[t], watchpoints', {s})])
  BY DEF add_watchpoint
<1>2. w \in Watches /\ w # NoWatch
  BY WatchpointsAssumption DEF add_watchpoint, Watches
<1>3. /\ next_bp_id <= MaxId /\ next_bp_id' = next_bp_id + 1 /\ told' = {}
      /\ UNCHANGED <<run, report, leader, sigs, rip, exited, current_tid, threads,
                     pending_initial_stop, processes, mode, after>>
  BY DEF add_watchpoint, NextId, kernelVars
<1> DEFINE registers == [t \in Tids |-> install_watch_slots(dr[t], watchpoints', {s})]
<1>4. watchpoints'[s] = w /\ \A u \in Slots \ {s} : watchpoints'[u] = watchpoints[u]
  BY <1>1 DEF TypeOK
<1>5. \A t \in Tids :
          /\ registers[t] \in Registers
          /\ Armed(registers[t], s) /\ OnWrite(registers[t], s)
          /\ RangeAt(registers[t], s) = watchpoints'[s]
          /\ \A u \in Slots \ {s} : /\ Armed(registers[t], u) <=> Armed(dr[t], u)
                                    /\ OnWrite(registers[t], u) <=> OnWrite(dr[t], u)
                                    /\ RangeAt(registers[t], u) = RangeAt(dr[t], u)
  <2>1. ASSUME NEW t \in Tids
        PROVE  LET new == install_watch_slots(dr[t], watchpoints', {s}) IN
               /\ new \in Registers /\ new.dr6 = dr[t].dr6
               /\ \A u \in {s} : Armed(new, u) /\ OnWrite(new, u)
                                  /\ RangeAt(new, u) = watchpoints'[u]
               /\ \A u \in Slots \ {s} : /\ Armed(new, u) <=> Armed(dr[t], u)
                                         /\ OnWrite(new, u) <=> OnWrite(dr[t], u)
                                         /\ RangeAt(new, u) = RangeAt(dr[t], u)
    <3>1. dr[t] \in Registers /\ {s} \in SUBSET Slots
      BY DEF TypeOK
    <3>2. \A u \in {s} : watchpoints'[u] \in Watches
      BY <1>2, <1>4
    <3> HIDE DEF IInv
    <3> QED BY <3>1, <3>2, Installed
  <2>2. \A t \in Tids : registers[t] = install_watch_slots(dr[t], watchpoints', {s})
    OBVIOUS
  <2> HIDE DEF registers
  <2> QED BY <2>1, <2>2
<1> HIDE DEF registers
<1>6. TypeOK'
  <2>1. watchpoints' \in [Slots -> Ranges \cup {NoWatch}]
    BY <1>1 DEF TypeOK
  <2>2. next_bp_id' \in 1 .. MaxId + 1 /\ DOMAIN wp_ids' \subseteq 1 .. next_bp_id' - 1
    BY <1>1, <1>3, WatchpointsAssumption DEF TypeOK
  <2>3. wp_ids' \in [DOMAIN wp_ids' -> Slots]
    BY <1>1 DEF TypeOK
  <2>4. dr' \in [Tids -> Registers] /\ late' \in [Tids -> SUBSET Slots]
    BY <1>1, <1>5 DEF TypeOK, Write, registers
  <2> QED BY <1>3, <2>1, <2>2, <2>3, <2>4 DEF TypeOK, KernelTypeOK
<1>7. Ready'
  BY <1>3 DEF Ready, Stopped
<1>8. Born'
  BY <1>1, <1>3 DEF Born, Write, Stopped
<1>9. SizesOK'
  BY <1>2, <1>4 DEF SizesOK, Used
<1>10. Mirrored'
  <2>1. Write(s, registers)
    BY <1>1 DEF registers
  <2>2. \A t \in threads : t \in Tids
    BY DEF TypeOK
  <2> QED BY <1>2, <1>3, <1>4, <1>5, <2>1, <2>2, WriteMirrors
<1> QED BY <1>6, <1>7, <1>8, <1>9, <1>10

(* delete, of a watchpoint *)
LEMMA DeleteStep ==
    ASSUME IInv, NEW id \in DOMAIN wp_ids, delete_watchpoint(id)
    PROVE  IInv'
<1> USE DEF IInv
<1> DEFINE s == wp_ids[id]
<1> DEFINE registers == [t \in Tids |-> uninstall_watch_slot(dr[t], s)]
<1>1. /\ wp_ids' = [i \in DOMAIN wp_ids \ {id} |-> wp_ids[i]]
      /\ watchpoints' = [watchpoints EXCEPT ![s] = NoWatch]
      /\ (exited /\ UNCHANGED <<dr, late>>) \/ Write(s, registers)
      /\ told' = {}
      /\ UNCHANGED <<run, report, leader, sigs, rip, exited, current_tid, threads,
                     pending_initial_stop, processes, next_bp_id, mode, after>>
  BY DEF delete_watchpoint, kernelVars
<1>2. s \in Slots
  BY DEF TypeOK
<1>3. watchpoints'[s] = NoWatch /\ \A u \in Slots \ {s} : watchpoints'[u] = watchpoints[u]
  BY <1>1, <1>2 DEF TypeOK
<1>4. \A t \in Tids :
          /\ registers[t] \in Registers
          /\ ~Armed(registers[t], s)
          /\ \A u \in Slots \ {s} : /\ Armed(registers[t], u) <=> Armed(dr[t], u)
                                    /\ OnWrite(registers[t], u) <=> OnWrite(dr[t], u)
                                    /\ RangeAt(registers[t], u) = RangeAt(dr[t], u)
  <2>1. \A t \in Tids : dr[t] \in Registers
    BY DEF TypeOK
  <2>2. \A t \in Tids : registers[t] = uninstall_watch_slot(dr[t], s)
    OBVIOUS
  <2> HIDE DEF registers, s, IInv
  <2> QED BY <1>2, <2>1, <2>2, Uninstalled
<1> HIDE DEF registers, s
<1>5. TypeOK'
  <2>1. watchpoints' \in [Slots -> Ranges \cup {NoWatch}]
    BY <1>1, <1>2 DEF TypeOK
  <2>2. DOMAIN wp_ids' \subseteq 1 .. next_bp_id' - 1 /\ wp_ids' \in [DOMAIN wp_ids' -> Slots]
    BY <1>1 DEF TypeOK
  <2>3. dr' \in [Tids -> Registers] /\ late' \in [Tids -> SUBSET Slots]
    BY <1>1, <1>2, <1>4 DEF TypeOK, Write
  <2> QED BY <1>1, <2>1, <2>2, <2>3 DEF TypeOK, KernelTypeOK
<1>6. Ready'
  BY <1>1 DEF Ready, Stopped
<1>7. Born'
  BY <1>1 DEF Born, Write, Stopped
<1>8. SizesOK'
  BY <1>2, <1>3 DEF SizesOK, Used
<1>9. Mirrored'
  <2>1. CASE exited
    BY <1>1, <2>1, MirrorOver
  <2>2. CASE Write(s, registers)
    <3>1. \A t \in threads : t \in Tids
      BY DEF TypeOK
    <3> QED BY <1>1, <1>2, <1>3, <1>4, <2>2, <3>1, WriteMirrors
  <2> QED BY <1>1, <2>1, <2>2
<1> QED BY <1>5, <1>6, <1>7, <1>8, <1>9

(* continue and stepi *)
LEMMA ResumeStep ==
    ASSUME IInv, NEW how \in {"running", "stepping"}, resume_command(how)
    PROVE  IInv'
<1> USE DEF IInv
<1>1. current_tid \in Tids /\ Stopped(current_tid)
  BY DEF resume_command, Focused, TypeOK
<1>2. PICK h \in {"running", "stepping", "stepover"} : Resume(current_tid, h)
  BY DEF resume_command, Go
<1>3. KernelStep
  BY <1>1, <1>2, ResumeFacts DEF TypeOK
<1>4. /\ UNCHANGED <<leader, sigs, rip, dr, exited, current_tid, threads, pending_initial_stop,
                     processes, watchpoints, wp_ids, next_bp_id, late>>
      /\ told' = {} /\ mode' \in {"stepover", "wait"} /\ after' \in {"running", "stepping"}
  BY DEF resume_command, Go, fields, tables
<1>5. TypeOK'
  BY <1>1, <1>3, <1>4 DEF TypeOK, KernelTypeOK, KernelStep
<1>6. Ready' /\ Born'
  BY <1>3, <1>4, BornKept DEF KernelStep
<1>7. SizesOK'
  BY <1>4 DEF SizesOK, Used
<1>8. Mirrored'
  BY <1>3, <1>4, MirrorKept DEF TypeOK
<1> QED BY <1>5, <1>6, <1>7, <1>8

(* thread *)
LEMMA SwitchStep ==
    ASSUME IInv, NEW t \in threads, switch_thread(t)
    PROVE  IInv'
<1> USE DEF IInv
<1>1. KernelStep
  BY StutterFacts DEF switch_thread, TypeOK
<1>2. /\ UNCHANGED <<run, report, leader, sigs, dr, exited, threads, pending_initial_stop,
                     processes, watchpoints, wp_ids, next_bp_id, mode, after, late>>
      /\ told' = {} /\ current_tid' \in Tids /\ mode' = "prompt"
  BY DEF switch_thread, tables, TypeOK
<1>3. rip' \in [Tids -> {"off", "at", "past"}]
  BY DEF switch_thread, fixup_breakpoint_rip, TypeOK, KernelTypeOK
<1>4. TypeOK'
  BY <1>2, <1>3 DEF TypeOK, KernelTypeOK
<1>5. Ready' /\ Born'
  BY <1>1, <1>2, BornKept DEF KernelStep
<1>6. SizesOK'
  BY <1>2 DEF SizesOK, Used
<1>7. Mirrored'
  BY <1>1, <1>2, MirrorKept DEF TypeOK
<1> QED BY <1>4, <1>5, <1>6, <1>7

(* The waitpid of the step over a breakpoint.                              *)
LEMMA StepOverStep ==
    ASSUME IInv, step_over_current_breakpoint
    PROVE  IInv'
<1> USE DEF IInv
<1> DEFINE t == current_tid
<1>1. /\ t \in Tids /\ Waitable(t)
      /\ UNCHANGED <<leader, sigs, rip, current_tid, threads, pending_initial_stop, processes,
                     watchpoints, wp_ids, next_bp_id, late>>
  BY DEF step_over_current_breakpoint, TypeOK, tables
<1>2. report[t].kind # "exited" => Stopped(t)
  BY <1>1 DEF Ready, Waitable
<1>3. /\ dr' = dr \/ dr' = ClearStatus(t)
      /\ told' = told \/ told' = Hits(t)
      /\ exited' = exited \/ exited' = TRUE
      /\ \/ Consume(t) /\ Return
         \/ Stopped(t) /\ Go(after)
  BY <1>2 DEF step_over_current_breakpoint, StepOverCheck, check_watchpoint_hit
<1>4. KernelStep
  BY <1>1, <1>3, ConsumeFacts, ResumeFacts DEF TypeOK, Go
<1>5. dr' \in [Tids -> Registers] /\ told' \subseteq [id : DOMAIN wp_ids, watch : Ranges, hit : Watches]
  <2>1. t \in Tids
    BY <1>1
  <2>2. /\ Hits(t) \subseteq [id : DOMAIN wp_ids, watch : Ranges, hit : Watches]
        /\ ClearStatus(t) \in [Tids -> Registers]
    BY <2>1, HitsType DEF ClearStatus
  <2>3. /\ dr \in [Tids -> Registers]
        /\ told \subseteq [id : DOMAIN wp_ids, watch : Ranges, hit : Watches]
    BY DEF TypeOK
  <2> QED BY <1>3, <2>2, <2>3
<1>6. TypeOK'
  BY <1>1, <1>3, <1>4, <1>5 DEF TypeOK, KernelTypeOK, KernelStep, Return, Go
<1>7. Ready'
  BY <1>4 DEF KernelStep
<1>8. Born'
  <2>1. run[t] # "unborn"
    BY <1>1 DEF Ready, Waitable, Stopped
  <2>2. \A u \in Tids : run[u] = "unborn" => dr'[u] = dr[u]
    BY <1>3, <2>1 DEF ClearStatus, TypeOK
  <2> QED BY <1>1, <1>4, <2>2, BornKept
<1>9. SizesOK'
  BY <1>1 DEF SizesOK, Used
<1>10. Mirrored'
  <2>1. CASE exited'
    BY <2>1, MirrorOver
  <2>2. CASE exited' = exited
    <3>1. \A u \in Tids : dr'[u].addr = dr[u].addr /\ dr'[u].dr7 = dr[u].dr7
      BY <1>1, <1>3 DEF ClearStatus, TypeOK, Registers
    <3> QED BY <1>1, <1>4, <2>2, <3>1, MirrorKept DEF TypeOK
  <2> QED BY <1>3, <2>1, <2>2
<1> QED BY <1>6, <1>7, <1>8, <1>9, <1>10

(* wait_and_report, the event of a clone: the new thread is registered.    *)
LEMMA EventStep ==
    ASSUME IInv, NEW t \in Tids, wait_event(t)
    PROVE  IInv'
<1> USE DEF IInv
<1> DEFINE c == report[t].child
<1>1. /\ report[t].kind = "clone" /\ register_thread(c) /\ TryResume(t)
      /\ UNCHANGED <<leader, sigs, rip, exited, current_tid, processes,
                     watchpoints, wp_ids, next_bp_id, mode, after, told>>
  BY DEF wait_event, tables
<1>2. c \in Tids
  <2>1. report[t] \in Reports
    BY DEF TypeOK, KernelTypeOK
  <2>2. \A k \in Stops \cup Ends : k # "clone"
    BY DEF Stops, Ends
  <2> QED BY <1>1, <2>1, <2>2 DEF Reports, Quiet, Report, Event
<1>3. run[c] # "unborn"
  BY <1>2 DEF Born
<1>4. KernelStep
  BY <1>1, TryResumeFacts DEF TypeOK
<1> HIDE DEF c
<1>5. /\ threads' = threads \cup {c}
      /\ pending_initial_stop' \subseteq pending_initial_stop \cup {c}
  BY <1>1 DEF register_thread
<1>6. /\ dr' = dr \/ dr' = [dr EXCEPT ![c] = install_watch_slots(@, watchpoints, Used)]
      /\ late' = late \/ late' = [late EXCEPT ![c] = @ \cup Used]
  BY <1>1 DEF register_thread
<1>7. Used \in SUBSET Slots
  BY DEF Used
<1>8. dr' \in [Tids -> Registers] /\ late' \in [Tids -> SUBSET Slots]
  <2>1. install_watch_slots(dr[c], watchpoints, Used) \in Registers
    BY <1>2, JoinType
  <2> QED BY <1>2, <1>6, <1>7, <2>1 DEF TypeOK
<1>9. TypeOK'
  BY <1>1, <1>2, <1>4, <1>5, <1>8 DEF TypeOK, KernelTypeOK, KernelStep
<1>10. Ready'
  BY <1>4 DEF KernelStep
<1>11. Born'
  <2>1. \A u \in Tids : run[u] = "unborn" => dr'[u] = dr[u]
    BY <1>3, <1>6 DEF TypeOK
  <2> QED BY <1>1, <1>3, <1>4, <1>5, <2>1, BornKept
<1>12. SizesOK'
  BY <1>1 DEF SizesOK, Used
<1>13. Mirrored'
  <2>1. CASE c \in threads
    <3>1. UNCHANGED <<threads, dr, late>>
      BY <1>1, <2>1 DEF register_thread
    <3> QED BY <1>1, <1>4, <3>1, MirrorKept DEF TypeOK
  <2>2. CASE c \notin threads
    <3>1. \/ /\ dr' = [dr EXCEPT ![c] = install_watch_slots(@, watchpoints, Used)]
             /\ UNCHANGED late
          \/ late' = [late EXCEPT ![c] = @ \cup Used] /\ UNCHANGED dr
      BY <1>1, <2>2 DEF register_thread
    <3> QED BY <1>1, <1>2, <1>4, <1>5, <2>2, <3>1, JoinMirrors
  <2> QED BY <2>1, <2>2
<1> QED BY <1>9, <1>10, <1>11, <1>12, <1>13

(* The first stop of a thread.                                             *)
LEMMA InitialStopStep ==
    ASSUME IInv, NEW t \in Tids, wait_initial_stop(t)
    PROVE  IInv'
<1> USE DEF IInv
<1>1. /\ report[t].kind \in Stops /\ Waitable(t) /\ Resume(t, "running")
      /\ threads' = threads \cup {t}
      /\ pending_initial_stop' = pending_initial_stop \ {t}
      /\ IF t \in threads THEN UNCHANGED dr
         ELSE dr' = [dr EXCEPT ![t] = install_watch_slots(@, watchpoints, Used)]
      /\ UNCHANGED <<leader, sigs, rip, exited, current_tid, processes,
                     watchpoints, wp_ids, next_bp_id, mode, after, told, late>>
  BY DEF wait_initial_stop, InWait, tables
<1>2. Stopped(t)
  BY <1>1 DEF Ready, Waitable, Stops
<1>3. KernelStep
  BY <1>1, <1>2, ResumeFacts DEF TypeOK
<1>4. dr' \in [Tids -> Registers]
  <2>1. install_watch_slots(dr[t], watchpoints, Used) \in Registers
    BY JoinType
  <2> QED BY <1>1, <2>1 DEF TypeOK
<1>5. TypeOK'
  BY <1>1, <1>3, <1>4 DEF TypeOK, KernelTypeOK, KernelStep
<1>6. Ready'
  BY <1>3 DEF KernelStep
<1>7. Born'
  <2>1. \A u \in Tids : run[u] = "unborn" => dr'[u] = dr[u]
    BY <1>1, <1>2 DEF TypeOK, Stopped
  <2> QED BY <1>1, <1>2, <1>3, <2>1, BornKept DEF Stopped
<1>8. SizesOK'
  BY <1>1 DEF SizesOK, Used
<1>9. Mirrored'
  <2>1. CASE t \in threads
    <3>1. UNCHANGED <<threads, dr, late>>
      BY <1>1, <2>1
    <3> QED BY <1>1, <1>3, <3>1, MirrorKept DEF TypeOK
  <2>2. CASE t \notin threads
    BY <1>1, <1>3, <2>2, JoinMirrors
  <2> QED BY <2>1, <2>2
<1> QED BY <1>5, <1>6, <1>7, <1>8, <1>9

(* The stop that ends the command.                                         *)
LEMMA StoppedStep ==
    ASSUME IInv, NEW t \in Tids, wait_stopped(t)
    PROVE  IInv'
<1> USE DEF IInv
<1>1. /\ Waitable(t) /\ Consume(t) /\ current_tid' = t /\ mode' = "prompt" /\ after' = "running"
      /\ told' = Hits(t) /\ dr' = ClearStatus(t)
      /\ UNCHANGED <<leader, sigs, exited, threads, pending_initial_stop, processes,
                     watchpoints, wp_ids, next_bp_id, late>>
  BY DEF wait_stopped, InWait, check_watchpoint_hit, Return, tables
<1>2. KernelStep
  BY <1>1, ConsumeFacts DEF TypeOK
<1>3. rip' \in [Tids -> {"off", "at", "past"}]
  BY DEF wait_stopped, fixup_breakpoint_rip, TypeOK, KernelTypeOK
<1>4. dr' \in [Tids -> Registers] /\ told' \subseteq [id : DOMAIN wp_ids, watch : Ranges, hit : Watches]
  BY <1>1, HitsType DEF ClearStatus
<1>5. TypeOK'
  BY <1>1, <1>2, <1>3, <1>4 DEF TypeOK, KernelTypeOK, KernelStep
<1>6. Ready'
  BY <1>2 DEF KernelStep
<1>7. Born'
  <2>1. run[t] # "unborn"
    BY <1>1 DEF Ready, Waitable, Stopped
  <2>2. \A u \in Tids : run[u] = "unborn" => dr'[u] = dr[u]
    BY <1>1, <2>1 DEF ClearStatus, TypeOK
  <2> QED BY <1>1, <1>2, <2>2, BornKept
<1>8. SizesOK'
  BY <1>1 DEF SizesOK, Used
<1>9. Mirrored'
  <2>1. \A u \in Tids : dr'[u].addr = dr[u].addr /\ dr'[u].dr7 = dr[u].dr7
    BY <1>1 DEF ClearStatus, TypeOK, Registers
  <2> QED BY <1>1, <1>2, <2>1, MirrorKept DEF TypeOK
<1> QED BY <1>5, <1>6, <1>7, <1>8, <1>9

(* wait_and_report, the end of a thread.                                   *)
LEMMA ExitedStep ==
    ASSUME IInv, NEW t \in Tids, wait_exited(t)
    PROVE  IInv'
<1> USE DEF IInv
<1>1. /\ report[t].kind = "exited" /\ Waitable(t) /\ Consume(t)
      /\ threads' = threads \ {t} /\ processes' = processes \ {t}
      /\ late' = [late EXCEPT ![t] = {}]
      /\ exited' = exited \/ exited'
      /\ exited' \in BOOLEAN
      /\ current_tid' \in Tids \cup {NoTid}
      /\ mode' \in {"prompt", "wait"} /\ after' \in {"running", "stepping"}
      /\ UNCHANGED <<leader, sigs, rip, dr, pending_initial_stop,
                     watchpoints, wp_ids, next_bp_id, told>>
  BY DEF wait_exited, InWait, Return, tables, TypeOK
<1>2. run[t] = "zombie" /\ run' = [run EXCEPT ![t] = "reaped"]
  BY <1>1 DEF Ready, Consume, TypeOK, KernelTypeOK
<1>3. KernelStep
  BY <1>1, ConsumeFacts DEF TypeOK
<1>4. TypeOK'
  BY <1>1, <1>3 DEF TypeOK, KernelTypeOK, KernelStep
<1>5. Ready'
  BY <1>3 DEF KernelStep
<1>6. Born'
  BY <1>1, <1>3, BornKept
<1>7. Used' = Used
  BY <1>1 DEF Used
<1>8. SizesOK'
  BY <1>1, <1>7 DEF SizesOK
<1>9. Mirrored'
  <2>1. CASE exited'
    BY <2>1, MirrorOver
  <2>2. CASE exited' = exited
    <3>1. \A u \in Tids : Debugged(u)' => Debugged(u) /\ u # t
      BY <1>1, <1>2, <2>2 DEF Debugged, Alive, Running, Stopped, TypeOK, KernelTypeOK
    <3>2. \A u \in Tids \ {t} : late'[u] = late[u]
      BY <1>1 DEF TypeOK
    <3>3. UnknownUnarmed'
      BY <1>1, <3>1 DEF Mirrored, UnknownUnarmed, Armed
    <3>4. ASSUME NEW u \in threads', Debugged(u)', NEW s \in Slots, s \notin late'[u]
          PROVE  Mirrors(u, s)'
      <4>1. u \in threads /\ u # t /\ Debugged(u)
        BY <1>1, <3>1, <3>4 DEF TypeOK
      <4>2. late'[u] = late[u]
        BY <3>2, <4>1 DEF TypeOK
      <4>3. Mirrors(u, s)
        BY <3>4, <4>1, <4>2 DEF Mirrored, RegistersMirrorTable
      <4> QED BY <1>1, <1>7, <4>3 DEF Mirrors, Armed, OnWrite, RangeAt, LenAt
    <3>5. RegistersMirrorTable'
      BY <3>4 DEF RegistersMirrorTable
    <3> QED BY <3>3, <3>5 DEF Mirrored
  <2> QED BY <1>1, <2>1, <2>2
<1> QED BY <1>4, <1>5, <1>6, <1>8, <1>9

(* The program stops at a breakpoint, after a step, or for its store.      *)
LEMMA TrapStep ==
    ASSUME IInv, NEW t \in Tids, UNCHANGED <<fields, mode, after, told, late>>,
           \/ HitsBreakpoint(t) \/ Steps(t)
           \/ \E b \in Bytes : Store(t, b)
    PROVE  IInv'
<1> USE DEF IInv
<1>1. /\ Running(t) /\ Stop(t, Report("trap"))
      /\ rip' \in [Tids -> {"off", "at", "past"}]
      /\ UNCHANGED <<leader, sigs, exited, current_tid, threads, pending_initial_stop, processes,
                     watchpoints, wp_ids, next_bp_id, mode, after, told, late>>
  <2>1. UNCHANGED <<exited, current_tid, threads, pending_initial_stop, processes,
                    watchpoints, wp_ids, next_bp_id, mode, after, told, late>>
    BY DEF fields, tables
  <2>2. rip \in [Tids -> {"off", "at", "past"}]
    BY DEF TypeOK, KernelTypeOK
  <2>3. CASE HitsBreakpoint(t)
    BY <2>1, <2>2, <2>3 DEF HitsBreakpoint, HitBreakpoint, Running
  <2>4. CASE Steps(t)
    BY <2>1, <2>2, <2>4 DEF Steps, StepTrap, MayExecute
  <2>5. CASE \E b \in Bytes : Store(t, b)
    BY <2>1, <2>2, <2>5 DEF Store, MayExecute
  <2> QED BY <2>3, <2>4, <2>5
<1>2. dr' = dr \/ \E D \in SUBSET (Slots \X Watches) : dr' = [dr EXCEPT ![t].dr6 = D]
  <2>1. CASE HitsBreakpoint(t)
    BY <2>1 DEF HitsBreakpoint
  <2>2. CASE Steps(t)
    BY <2>2 DEF Steps
  <2>3. CASE \E b \in Bytes : Store(t, b)
    BY <2>3, HitsType DEF Store
  <2> QED BY <2>1, <2>2, <2>3
<1>3. KernelStep
  BY <1>1, StopFacts DEF TypeOK, Alive, Stops
<1>4. dr' \in [Tids -> Registers]
  <2>1. \A D \in SUBSET (Slots \X Watches) : [dr EXCEPT ![t].dr6 = D] \in [Tids -> Registers]
    BY HitsType
  <2>2. dr \in [Tids -> Registers]
    BY DEF TypeOK
  <2> QED BY <1>2, <2>1, <2>2
<1>5. TypeOK'
  BY <1>1, <1>3, <1>4 DEF TypeOK, KernelTypeOK, KernelStep
<1>6. Ready'
  BY <1>3 DEF KernelStep
<1>7. Born'
  <2>1. \A u \in Tids : run[u] = "unborn" => dr'[u] = dr[u]
    BY <1>1, <1>2 DEF Running, TypeOK
  <2> QED BY <1>1, <1>3, <2>1, BornKept
<1>8. SizesOK'
  BY <1>1 DEF SizesOK, Used
<1>9. Mirrored'
  <2>1. \A u \in Tids : dr'[u].addr = dr[u].addr /\ dr'[u].dr7 = dr[u].dr7
    BY <1>2 DEF TypeOK, Registers
  <2> QED BY <1>1, <1>3, <2>1, MirrorKept DEF TypeOK
<1> QED BY <1>5, <1>6, <1>7, <1>8, <1>9

(* The program creates a thread: its registers are empty, and it stays     *)
(* unknown until it is registered.                                         *)
LEMMA CloneStep ==
    ASSUME IInv, NEW t \in Tids, NEW c \in Tids, Clone(t, c),
           UNCHANGED <<fields, mode, after, told, late>>
    PROVE  IInv'
<1> USE DEF IInv
<1>1. /\ Running(t) /\ run[c] = "unborn" /\ t # c
      /\ run' = [run EXCEPT ![t] = "stopped", ![c] = "starting"]
      /\ report' = [report EXCEPT ![t] = Event("clone", c)]
      /\ leader' = [leader EXCEPT ![c] = leader[t]]
      /\ rip' = [rip EXCEPT ![t] = "off"]
      /\ UNCHANGED <<sigs, dr, exited, current_tid, threads, pending_initial_stop, processes,
                     watchpoints, wp_ids, next_bp_id, mode, after, told, late>>
  BY DEF Clone, MayExecute, Running, fields, tables
<1>2. report[c].kind # "exited" /\ report[c] = Quiet /\ c \notin threads /\ dr[c] = NoRegisters
  BY <1>1 DEF Ready, Born, Stopped
<1>3. TypeOK'
  <2>1. run' \in [Tids -> RunStates] /\ report' \in [Tids -> Reports]
    BY <1>1, ReportFacts DEF TypeOK, KernelTypeOK, RunStates
  <2>2. leader' \in [Tids -> Tids \cup {NoTid}] /\ rip' \in [Tids -> {"off", "at", "past"}]
    BY <1>1 DEF TypeOK, KernelTypeOK
  <2> QED BY <1>1, <2>1, <2>2 DEF TypeOK, KernelTypeOK
<1>4. Ready'
  BY <1>1, <1>2, ReportFacts DEF Ready, TypeOK, KernelTypeOK, Stopped
<1>5. Born'
  <2>1. ASSUME NEW u \in Tids, run'[u] = "unborn"
        PROVE  u # c /\ u # t /\ run[u] = "unborn"
    BY <1>1, <2>1 DEF TypeOK, KernelTypeOK
  <2>2. ASSUME NEW u \in Tids, run'[u] = "unborn", NEW v \in Tids
        PROVE  leader'[v] # u /\ report'[v].child # u
    BY <1>1, <2>1, <2>2, ReportFacts DEF Born, TypeOK, KernelTypeOK
  <2> QED BY <1>1, <2>1, <2>2 DEF Born
<1>6. Used' = Used /\ SizesOK'
  BY <1>1 DEF SizesOK, Used
<1>7. \A u \in Tids \ {c} : Debugged(u)' => Debugged(u)
  BY <1>1 DEF Debugged, Alive, Running, Stopped, TypeOK, KernelTypeOK
<1>8. UnknownUnarmed'
  <2>1. \A s \in Slots : ~Armed(dr[c], s)
    BY <1>2 DEF Armed, NoRegisters
  <2> QED BY <1>1, <1>7, <2>1 DEF Mirrored, UnknownUnarmed, Armed
<1>9. RegistersMirrorTable'
  <2>1. \A u \in threads : u # c /\ u \in Tids
    BY <1>2 DEF TypeOK
  <2> QED
    BY <1>1, <1>6, <1>7, <2>1
       DEF Mirrored, RegistersMirrorTable, Mirrors, Armed, OnWrite, RangeAt, LenAt
<1> QED BY <1>3, <1>4, <1>5, <1>6, <1>8, <1>9 DEF Mirrored

(* A new thread comes to its first stop.                                   *)
LEMMA FirstStopStep ==
    ASSUME IInv, NEW t \in Tids, FirstStop(t), UNCHANGED <<fields, mode, after, told, late>>
    PROVE  IInv'
<1> USE DEF IInv
<1>1. /\ Alive(t) /\ Stop(t, Report("initial"))
      /\ UNCHANGED <<leader, sigs, rip, dr, exited, current_tid, threads, pending_initial_stop,
                     processes, watchpoints, wp_ids, next_bp_id, mode, after, told, late>>
  BY DEF FirstStop, Alive, Running, fields, tables
<1>2. KernelStep
  BY <1>1, StopFacts DEF TypeOK, Stops
<1>3. TypeOK'
  BY <1>1, <1>2 DEF TypeOK, KernelTypeOK, KernelStep
<1>4. Ready' /\ Born'
  BY <1>1, <1>2, BornKept DEF KernelStep
<1>5. SizesOK'
  BY <1>1 DEF SizesOK, Used
<1>6. Mirrored'
  BY <1>1, <1>2, MirrorKept DEF TypeOK
<1> QED BY <1>3, <1>4, <1>5, <1>6

(* A thread or all of them end, and their registers with them.             *)
LEMMA EndingStep ==
    ASSUME IInv, NEW t \in Tids, Ending(t), UNCHANGED <<fields, mode, after, told, late>>
    PROVE  IInv'
<1> USE DEF IInv
<1>1. /\ dr' = [u \in Tids |-> IF run'[u] = "zombie" THEN NoRegisters ELSE dr[u]]
      /\ UNCHANGED <<leader, sigs, exited, current_tid, threads, pending_initial_stop,
                     processes, watchpoints, wp_ids, next_bp_id, mode, after, told, late>>
  BY DEF Ending, ThreadExit, GroupExit, fields, tables
<1>2. PICK dying : Perish(dying, "exited")
  BY DEF Ending, ThreadExit, GroupExit
<1>3. KernelStep /\ rip' \in [Tids -> {"off", "at", "past"}]
  BY <1>2, PerishFacts DEF TypeOK
<1>4. dr' \in [Tids -> Registers]
  <2>1. NoRegisters \in Registers
    BY DEF NoRegisters, Registers
  <2> QED BY <1>1, <2>1 DEF TypeOK
<1>5. TypeOK'
  BY <1>1, <1>3, <1>4 DEF TypeOK, KernelTypeOK, KernelStep
<1>6. Ready'
  BY <1>3 DEF KernelStep
<1>7. Born'
  <2>1. \A u \in Tids : run[u] = "unborn" => dr'[u] = dr[u]
    BY <1>1 DEF Born
  <2> QED BY <1>1, <1>3, <2>1, BornKept
<1>8. SizesOK'
  BY <1>1 DEF SizesOK, Used
<1>9. Mirrored'
  <2>1. \A u \in Tids : Alive(u)' => dr'[u].addr = dr[u].addr /\ dr'[u].dr7 = dr[u].dr7
    BY <1>1 DEF Alive, Running, Stopped
  <2> QED BY <1>1, <1>3, <2>1, MirrorKept DEF TypeOK
<1> QED BY <1>5, <1>6, <1>7, <1>8, <1>9

(* Nothing happens.                                                        *)
LEMMA Stuttering ==
    ASSUME IInv, UNCHANGED vars
    PROVE  IInv'
<1> USE DEF IInv, vars, kernelVars, fields, tables
<1>1. TypeOK' /\ Ready' /\ Born'
  BY DEF TypeOK, KernelTypeOK, Ready, Stopped, Born
<1>2. SizesOK'
  BY DEF SizesOK, Used
<1>3. Mirrored'
  BY DEF Mirrored, UnknownUnarmed, RegistersMirrorTable, Debugged, Alive, Running, Stopped,
         Mirrors, Used, Armed, OnWrite, RangeAt, LenAt
<1> QED BY <1>1, <1>2, <1>3

(* So every step preserves it.                                             *)
LEMMA StepInv == IInv /\ [Next]_vars => IInv'
<1> SUFFICES ASSUME IInv, [Next]_vars PROVE IInv'
  OBVIOUS
<1>1. CASE Command
  <2>1. \A t \in threads : t \in Tids
    BY DEF IInv, TypeOK
  <2> QED
    BY <1>1, StartStep, AddStep, DeleteStep, ResumeStep, SwitchStep
       DEF Command, cont, stepi
<1>2. CASE Wait
  BY <1>2, StepOverStep, EventStep, InitialStopStep, StoppedStep, ExitedStep DEF Wait
<1>3. CASE Program
  BY <1>3, TrapStep, CloneStep, FirstStopStep, EndingStep DEF Program
<1>4. CASE UNCHANGED vars
  BY <1>4, Stuttering
<1> QED BY <1>1, <1>2, <1>3, <1>4 DEF Next

-----------------------------------------------------------------------------
(* Every state is well typed: whatever is watched, hit, reported and       *)
(* deleted, and in whichever order threads are born, stop and end, a       *)
(* number of `info watchpoints` names a slot, and registers and reports    *)
(* name slots and ranges.                                                  *)
THEOREM TypeCorrect == Spec => []TypeOK
<1>1. IInv => TypeOK
  BY DEF IInv
<1> QED BY <1>1, InitInv, StepInv, PTL DEF Spec

(* The registers of every live thread of the session watch what the table  *)
(* says and nothing else, on every slot whose last change could be written *)
(* to the thread: install_watch_slot and uninstall_watch_slot keep apart   *)
(* the bits that four slots share in DR7, a slot used again loses its old  *)
(* length, and a thread born later gets the whole table                    *)
(* (add_watchpoint, delete_watchpoint, register_thread).                   *)
THEOREM MirrorCorrect == Spec => []RegistersMirrorTable
<1>1. IInv => RegistersMirrorTable
  BY DEF IInv, Mirrored
<1> QED BY <1>1, InitInv, StepInv, PTL DEF Spec

(* Numbers and slots in use stay one-to-one, however often slots are used  *)
(* again: a slot is taken only when it is free, a number is never given    *)
(* twice, and delete frees both (add_watchpoint, delete_watchpoint).       *)
THEOREM TableCorrect == Spec => []WatchTable
<1>1. Init => WatchTable
  BY DEF Init, NoIds, WatchTable, Used
<1>2. ASSUME IInv, WatchTable, [Next]_vars PROVE WatchTable'
  <2> USE DEF IInv
  <2>1. CASE UNCHANGED <<watchpoints, wp_ids>>
    BY <1>2, <2>1 DEF WatchTable, Used
  <2>2. CASE \E c \in Tids : start(c)
    BY <2>2 DEF start, NoIds, WatchTable, Used
  <2>3. CASE \E w \in Ranges : add_watchpoint(w)
    <3>1. PICK w \in Ranges, s \in Slots :
              /\ w # NoWatch /\ s \notin Used
              /\ watchpoints' = [watchpoints EXCEPT ![s] = w]
              /\ wp_ids' = [i \in DOMAIN wp_ids \cup {next_bp_id} |->
                                IF i = next_bp_id THEN s ELSE wp_ids[i]]
      BY <2>3, WatchpointsAssumption DEF add_watchpoint, FirstFree
    <3>2. next_bp_id \notin DOMAIN wp_ids
      BY <1>2 DEF TypeOK
    <3>3. Used' = Used \cup {s}
      BY <1>2, <3>1 DEF Used, TypeOK
    <3>4. {wp_ids'[i] : i \in DOMAIN wp_ids'} = {wp_ids[i] : i \in DOMAIN wp_ids} \cup {s}
      BY <3>1, <3>2
    <3>5. \A i \in DOMAIN wp_ids : wp_ids[i] # s
      BY <1>2, <3>1 DEF WatchTable
    <3> QED BY <1>2, <3>1, <3>2, <3>3, <3>4, <3>5 DEF WatchTable
  <2>4. CASE \E id \in DOMAIN wp_ids : delete_watchpoint(id)
    <3>1. PICK id \in DOMAIN wp_ids :
              /\ wp_ids' = [i \in DOMAIN wp_ids \ {id} |-> wp_ids[i]]
              /\ watchpoints' = [watchpoints EXCEPT ![wp_ids[id]] = NoWatch]
      BY <2>4 DEF delete_watchpoint
    <3>2. Used' = Used \ {wp_ids[id]}
      BY <1>2, <3>1 DEF Used, TypeOK
    <3>3. {wp_ids'[i] : i \in DOMAIN wp_ids'} = {wp_ids[i] : i \in DOMAIN wp_ids} \ {wp_ids[id]}
      BY <1>2, <3>1 DEF WatchTable
    <3> QED BY <1>2, <3>1, <3>2, <3>3 DEF WatchTable
  <2>5. CASE cont \/ stepi \/ \E t \in threads : switch_thread(t)
    BY <2>1, <2>5 DEF cont, stepi, resume_command, switch_thread, fields, tables
  <2>6. CASE Wait
    BY <2>1, <2>6
       DEF Wait, step_over_current_breakpoint, wait_event, wait_initial_stop, wait_stopped,
           wait_exited, tables
  <2>7. CASE Program
    BY <2>1, <2>7 DEF Program, fields, tables
  <2>8. CASE UNCHANGED vars
    BY <2>1, <2>8 DEF vars, fields, tables
  <2> QED BY <1>2, <2>2, <2>3, <2>4, <2>5, <2>6, <2>7, <2>8 DEF Next, Command
<1> QED BY <1>1, <1>2, InitInv, StepInv, PTL DEF Spec

-----------------------------------------------------------------------------
(* The statuses of hits.                                                   *)

(* Known or not, a thread has a status to be judged by only while its stop *)
(* waits to be reported, or while it runs on from a stop that was          *)
(* forgotten.                                                              *)
StatusTaken ==
    \A t \in Tids : Stopped(t) /\ report[t] = Quiet => dr[t].dr6 = {}

(* The registers written by watch, delete and register_thread keep DR6.    *)
LEMMA StatusNotWritten ==
    ASSUME NEW regs
    PROVE  /\ \A table, S : install_watch_slots(regs, table, S).dr6 = regs.dr6
           /\ \A s : uninstall_watch_slot(regs, s).dr6 = regs.dr6
BY DEF install_watch_slots, uninstall_watch_slot

(* The status of the thread whose trap was taken is cleared.               *)
LEMMA StatusCleared ==
    ASSUME TypeOK, NEW t \in Tids
    PROVE  /\ ClearStatus(t)[t].dr6 = {}
           /\ \A u \in Tids \ {t} : ClearStatus(t)[u] = dr[u]
<1>1. dr \in [Tids -> Registers] /\ DOMAIN dr[t] = {"addr", "dr7", "dr6"}
  BY DEF TypeOK, Registers
<1> QED BY <1>1 DEF ClearStatus

(* Every step keeps it.                                                    *)
LEMMA StatusStep ==
    ASSUME IInv, StatusTaken, [Next]_vars
    PROVE  StatusTaken'
<1> USE DEF IInv
<1>1. /\ run \in [Tids -> RunStates] /\ report \in [Tids -> Reports]
      /\ dr \in [Tids -> Registers] /\ threads \subseteq Tids
  BY DEF TypeOK, KernelTypeOK
<1>2. CASE UNCHANGED <<run, report>> /\ \A u \in Tids : dr'[u].dr6 = dr[u].dr6
  BY <1>2 DEF StatusTaken, Stopped
<1>3. ASSUME NEW t \in Tids, NEW how \in {"running", "stepping", "stepover"}, Resume(t, how),
             \A u \in Tids \ {t} : dr'[u].dr6 = dr[u].dr6
      PROVE  StatusTaken'
  BY <1>1, <1>3 DEF Resume, StatusTaken, Stopped
<1>4. ASSUME NEW t \in Tids, Consume(t), dr' = ClearStatus(t)
      PROVE  StatusTaken'
  <2>1. dr'[t].dr6 = {} /\ \A u \in Tids \ {t} : dr'[u] = dr[u]
    BY <1>4, StatusCleared
  <2> QED BY <1>1, <1>4, <2>1 DEF Consume, StatusTaken, Stopped
<1>5. ASSUME NEW t \in Tids, Consume(t), report[t].kind = "exited", UNCHANGED dr
      PROVE  StatusTaken'
  BY <1>1, <1>5 DEF Ready, Consume, StatusTaken, Stopped
<1>6. ASSUME NEW t \in Tids, TryResume(t), \A u \in Tids : dr'[u].dr6 = dr[u].dr6
      PROVE  StatusTaken'
  BY <1>2, <1>3, <1>6 DEF TryResume
<1>7. ASSUME NEW t \in Tids, NEW r, r # Quiet, Stop(t, r),
             \A u \in Tids \ {t} : dr'[u] = dr[u]
      PROVE  StatusTaken'
  BY <1>1, <1>7 DEF Stop, StatusTaken, Stopped
<1>8. CASE \E c \in Tids : start(c)
  <2>1. PICK c \in Tids : start(c)
    BY <1>8
  <2>2. dr'[c].dr6 = {} /\ run' = [run EXCEPT ![c] = "stopped"] /\ UNCHANGED <<report, dr>>
    BY <2>1 DEF start, Born, NoRegisters
  <2> QED BY <1>1, <2>2 DEF StatusTaken, Stopped
<1>9. CASE \E w \in Ranges : add_watchpoint(w)
  <2>1. PICK s \in Slots : Write(s, [t \in Tids |-> install_watch_slots(dr[t], watchpoints', {s})])
    BY <1>9 DEF add_watchpoint
  <2>2. \A u \in Tids : install_watch_slots(dr[u], watchpoints', {s}).dr6 = dr[u].dr6
    BY StatusNotWritten
  <2>3. \A u \in Tids : dr'[u].dr6 = dr[u].dr6
    BY <2>1, <2>2 DEF Write
  <2> QED BY <1>2, <1>9, <2>3 DEF add_watchpoint, kernelVars
<1>10. CASE \E id \in DOMAIN wp_ids : delete_watchpoint(id)
  <2>1. PICK id \in DOMAIN wp_ids : delete_watchpoint(id)
    BY <1>10
  <2>2. \A u \in Tids : uninstall_watch_slot(dr[u], wp_ids[id]).dr6 = dr[u].dr6
    BY StatusNotWritten
  <2>3. \A u \in Tids : dr'[u].dr6 = dr[u].dr6
    BY <2>1, <2>2 DEF delete_watchpoint, Write
  <2> QED BY <1>2, <2>1, <2>3 DEF delete_watchpoint, kernelVars
<1>11. CASE cont \/ stepi
  <2>1. current_tid \in Tids
    BY <1>11 DEF cont, stepi, resume_command, Focused, TypeOK
  <2>2. UNCHANGED dr /\ \E h \in {"running", "stepping", "stepover"} : Resume(current_tid, h)
    BY <1>11 DEF cont, stepi, resume_command, Go
  <2> QED BY <1>3, <2>1, <2>2
<1>12. CASE \E t \in threads : switch_thread(t)
  BY <1>2, <1>12 DEF switch_thread
<1>13. CASE step_over_current_breakpoint
  <2> DEFINE t == current_tid
  <2>1. t \in Tids
    BY <1>13 DEF step_over_current_breakpoint, TypeOK
  <2>2. \/ Consume(t) /\ report[t].kind = "exited" /\ UNCHANGED dr
        \/ Consume(t) /\ dr' = ClearStatus(t)
        \/ Go(after) /\ (UNCHANGED dr \/ dr' = ClearStatus(t))
    BY <1>13 DEF step_over_current_breakpoint, StepOverCheck, check_watchpoint_hit
  <2>3. CASE Consume(t) /\ report[t].kind = "exited" /\ UNCHANGED dr
    BY <1>5, <2>1, <2>3
  <2>4. CASE Go(after) /\ (UNCHANGED dr \/ dr' = ClearStatus(t))
    <3>1. \A u \in Tids \ {t} : dr'[u].dr6 = dr[u].dr6
      BY <2>1, <2>4, StatusCleared
    <3>2. Resume(t, after) /\ after \in {"running", "stepping"}
      BY <2>4 DEF Go, TypeOK
    <3> QED BY <1>3, <2>1, <3>1, <3>2
  <2>5. CASE Consume(t) /\ dr' = ClearStatus(t)
    BY <1>4, <2>1, <2>5
  <2> QED BY <2>2, <2>3, <2>4, <2>5
<1>14. ASSUME NEW t \in Tids, wait_event(t) \/ wait_initial_stop(t)
       PROVE  StatusTaken'
  <2>1. \A regs : install_watch_slots(regs, watchpoints, Used).dr6 = regs.dr6
    BY StatusNotWritten
  <2>2. \A u \in Tids : dr'[u].dr6 = dr[u].dr6
    BY <1>1, <1>14, <2>1 DEF wait_event, wait_initial_stop, register_thread
  <2>3. TryResume(t) \/ Resume(t, "running")
    BY <1>14 DEF wait_event, wait_initial_stop
  <2> QED BY <1>3, <1>6, <2>2, <2>3
<1>15. ASSUME NEW t \in Tids, wait_stopped(t)
       PROVE  StatusTaken'
  BY <1>4, <1>15 DEF wait_stopped, check_watchpoint_hit
<1>16. ASSUME NEW t \in Tids, wait_exited(t)
       PROVE  StatusTaken'
  BY <1>5, <1>16 DEF wait_exited, InWait
<1>17. ASSUME NEW t \in Tids,
              \/ HitsBreakpoint(t) \/ Steps(t)
              \/ \E b \in Bytes : Store(t, b)
              \/ FirstStop(t)
       PROVE  StatusTaken'
  <2>1. \E r : r # Quiet /\ Stop(t, r)
    <3>1. Report("trap") # Quiet /\ Report("initial") # Quiet
      BY DEF Report, Quiet
    <3> QED
      BY <1>17, <3>1 DEF HitsBreakpoint, HitBreakpoint, Steps, StepTrap, Store, FirstStop
  <2>2. \A u \in Tids \ {t} : dr'[u] = dr[u]
    BY <1>1, <1>17 DEF HitsBreakpoint, Steps, Store, FirstStop
  <2> QED BY <1>7, <2>1, <2>2
<1>18. ASSUME NEW t \in Tids, NEW c \in Tids, Clone(t, c)
       PROVE  StatusTaken'
  <2>1. Event("clone", c) # Quiet
    BY DEF Event, Quiet
  <2>2. \A u \in Tids : run'[u] = "stopped" /\ report'[u] = Quiet =>
            run[u] = "stopped" /\ report[u] = Quiet
    BY <1>1, <1>18, <2>1 DEF Clone
  <2> QED BY <1>18, <2>2 DEF Clone, StatusTaken, Stopped
<1>19. ASSUME NEW t \in Tids, Ending(t)
       PROVE  StatusTaken'
  <2>1. PICK dying : Perish(dying, "exited")
    BY <1>19 DEF Ending, ThreadExit, GroupExit
  <2>2. \A u \in Tids : run'[u] = "stopped" => run[u] = "stopped" /\ report'[u] = report[u]
    BY <1>1, <2>1 DEF Perish, Alive, Stopped
  <2>3. \A u \in Tids : run'[u] = "stopped" => dr'[u] = dr[u]
    BY <1>19 DEF Ending
  <2> QED BY <2>2, <2>3 DEF StatusTaken, Stopped
<1>20. CASE UNCHANGED vars
  BY <1>2, <1>20 DEF vars, kernelVars
<1>21. CASE Command
  BY <1>8, <1>9, <1>10, <1>11, <1>12, <1>21 DEF Command
<1>22. CASE Wait
  BY <1>13, <1>14, <1>15, <1>16, <1>22 DEF Wait
<1>23. CASE Program
  BY <1>17, <1>18, <1>19, <1>23 DEF Program
<1> QED BY <1>20, <1>21, <1>22, <1>23 DEF Next

(* A thread whose stop tdb has waited for keeps no status of a hit: both   *)
(* waitpids that take a trap clear DR6 in the same step, whatever slots    *)
(* are written meanwhile, and a thread born stops with clean registers     *)
(* (check_watchpoint_hit, step_over_current_breakpoint).                   *)
THEOREM StatusIsRead == Spec => []StatusRead
<1>1. Init => StatusTaken
  BY DEF Init, KernelInit, StatusTaken, Stopped
<1>2. IInv /\ StatusTaken => StatusRead
  BY DEF IInv, TypeOK, StatusTaken, StatusRead
<1>3. IInv /\ StatusTaken /\ [Next]_vars => StatusTaken'
  BY StatusStep
<1> QED BY <1>1, <1>2, <1>3, InitInv, StepInv, PTL DEF Spec

(* The hit of a slot in use is reported under its number.                  *)
LEMMA HitsFound ==
    ASSUME IInv, WatchTable, NEW t \in Tids, NEW h \in dr[t].dr6, watchpoints[h[1]] = h[2]
    PROVE  \E r \in Hits(t) : r.watch = h[2]
<1>1. h[1] \in Slots /\ h[2] \in Watches
  BY DEF IInv, TypeOK, Registers
<1>2. h[2] # NoWatch
  BY <1>1, WatchpointsAssumption DEF Watches, Sizes
<1>3. h[1] \in Used
  BY <1>1, <1>2 DEF Used
<1>4. PICK i \in DOMAIN wp_ids : wp_ids[i] = h[1]
  BY <1>3 DEF WatchTable
<1> DEFINE found == [id |-> i, watch |-> watchpoints[wp_ids[i]], hit |-> h[2]]
<1>5. found \in {[id |-> i, watch |-> watchpoints[wp_ids[i]], hit |-> g[2]] :
                     g \in {f \in dr[t].dr6 : f[1] = wp_ids[i]}}
  BY <1>4
<1>6. found \in Hits(t)
  BY <1>3, <1>4, <1>5 DEF Hits
<1> QED BY <1>4, <1>6

(* Whichever waitpid takes the trap of a thread, the same step reports the *)
(* watchpoint of every range that was hit, if its slot has not changed     *)
(* hands: the step over a breakpoint asks as wait_and_report does, and     *)
(* numbers and slots are one-to-one (step_over_current_breakpoint,         *)
(* check_watchpoint_hit).                                                  *)
THEOREM HitsAreReported == Spec => HitReported
<1> DEFINE Taken(t) == mode # "prompt" /\ report[t].kind = "trap" /\ report'[t] = Quiet
           Told(t)  == \A h \in dr[t].dr6 : watchpoints[h[1]] = h[2]
                           => \E r \in told' : r.watch = h[2]
           Reports1 == \A t \in threads \ pending_initial_stop : Taken(t) => Told(t)
<1>1. ASSUME IInv, WatchTable, [Next]_vars PROVE Reports1
  <2> SUFFICES ASSUME NEW t \in threads \ pending_initial_stop, Taken(t), told' # Hits(t)
               PROVE  FALSE
    BY <1>1, HitsFound DEF IInv, TypeOK
  <2>1. /\ t \in Tids /\ run \in [Tids -> RunStates] /\ report \in [Tids -> Reports]
        /\ report[t] # Quiet /\ mode # "prompt"
    BY <1>1 DEF IInv, TypeOK, KernelTypeOK, Quiet
  <2>2. CASE Command
    BY <2>1, <2>2
       DEF Command, start, add_watchpoint, delete_watchpoint, cont, stepi, resume_command,
           switch_thread
  <2>3. CASE step_over_current_breakpoint
    <3>1. current_tid \in Tids /\ report' = [report EXCEPT ![current_tid] = Quiet]
      BY <1>1, <2>3
         DEF step_over_current_breakpoint, Go, Consume, Resume, IInv, TypeOK
    <3>2. t = current_tid
      BY <2>1, <3>1
    <3> QED BY <2>3, <3>2 DEF step_over_current_breakpoint, StepOverCheck, check_watchpoint_hit
  <2>4. ASSUME NEW u \in Tids, wait_event(u) \/ wait_initial_stop(u) \/ wait_exited(u)
        PROVE  FALSE
    <3>1. report' = report \/ report' = [report EXCEPT ![u] = Quiet]
      BY <2>4 DEF wait_event, TryResume, wait_initial_stop, wait_exited, Consume, Resume
    <3>2. t = u
      BY <2>1, <3>1
    <3> QED BY <2>4, <3>2 DEF wait_event, wait_initial_stop, wait_exited, InWait
  <2>5. ASSUME NEW u \in Tids, wait_stopped(u)
        PROVE  FALSE
    <3>1. told' = Hits(u) /\ report' = [report EXCEPT ![u] = Quiet]
      BY <2>5 DEF wait_stopped, Consume, check_watchpoint_hit
    <3> QED BY <2>1, <3>1
  <2>6. CASE Program
    <3>1. /\ Report("trap") # Quiet /\ Report("initial") # Quiet /\ Report("exited") # Quiet
          /\ \A c : Event("clone", c) # Quiet
      BY DEF Report, Event, Quiet
    <3>2. PICK u \in Tids : \/ HitsBreakpoint(u) \/ Steps(u)
                            \/ \E b \in Bytes : Store(u, b)
                            \/ \E c \in Tids : Clone(u, c)
                            \/ FirstStop(u) \/ Ending(u)
      BY <2>6 DEF Program
    <3>3. CASE Ending(u)
      <4>1. PICK dying : Perish(dying, "exited")
        BY <3>3 DEF Ending, ThreadExit, GroupExit
      <4> QED BY <2>1, <3>1, <4>1 DEF Perish
    <3>4. CASE \E c \in Tids : Clone(u, c)
      BY <2>1, <3>1, <3>4 DEF Clone
    <3>5. CASE HitsBreakpoint(u) \/ Steps(u) \/ (\E b \in Bytes : Store(u, b)) \/ FirstStop(u)
      <4>1. Stop(u, Report("trap")) \/ Stop(u, Report("initial"))
        BY <3>5 DEF HitsBreakpoint, HitBreakpoint, Steps, StepTrap, Store, FirstStop
      <4> QED BY <2>1, <3>1, <4>1 DEF Stop
    <3> QED BY <3>2, <3>3, <3>4, <3>5
  <2>7. CASE UNCHANGED vars
    BY <2>1, <2>7 DEF vars, kernelVars
  <2> QED BY <1>1, <2>2, <2>3, <2>4, <2>5, <2>6, <2>7 DEF Next, Wait
<1>2. IInv /\ WatchTable /\ [Next]_vars => [Reports1]_vars
  BY <1>1
<1> QED BY <1>2, InitInv, StepInv, TableCorrect, PTL DEF Spec, HitReported
=============================================================================
