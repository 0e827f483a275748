------------------------- MODULE BreakpointsProofs -------------------------
(***************************************************************************)
(* The table of breakpoints and the memories of all processes, for any     *)
(* number of threads, processes and addresses.  The inductive invariant    *)
(* adds to the property what the commands rely on: while an int3 is lifted *)
(* its place holds the saved byte, the temporary breakpoint is in the      *)
(* memory it was put in, and a saved byte that is not the program's is one *)
(* of an address that is given up.                                         *)
(***************************************************************************)
EXTENDS Breakpoints, TLAPS

Entries == [enabled : BOOLEAN, orig_byte : Bytes]

(* A table and memories.                                                   *)
Shape(p) == /\ p = [breakpoints |-> p.breakpoints, memory |-> p.memory]
            /\ DOMAIN p.breakpoints \subseteq Addrs
            /\ p.breakpoints \in [DOMAIN p.breakpoints -> Entries]
            /\ p.memory \in [Tids -> [Addrs -> Bytes]]

(* Threads and their processes, and what waitpid has to say of them.       *)
Born(t) == leader[t] # NoTid

ThreadsOK ==
    /\ \A t \in Tids : Born(t) <=> run[t] # "unborn"
    /\ \A t \in Tids : Born(t) => leader[leader[t]] = leader[t]
    /\ \A t \in Tids : report[t].kind \in Stops \cup Births0 => Stopped(t)
    /\ \A t, u \in Tids : report[t].kind = "signaled" /\ leader[u] = leader[t] => ~Alive(u)

FocusOK == /\ exited => mode = "prompt"
           /\ ~exited => current_tid \in Tids

(* Which breakpoint is not as the table says, in which mode.               *)
ModeOK == /\ mode = "prompt" => temp = NoAddr
          /\ mode # "stepover" => lifted = NoAddr

TempOK ==
    temp # NoAddr =>
        /\ Contains(patch, temp) /\ temp \notin user
        /\ through \in Tids /\ Born(through)
        /\ mode = "stepover" => through = current_tid
        /\ temp # lifted => patch.memory[leader[through]][temp] = "int3"

LiftedOK ==
    mode = "stepover" =>
        /\ Born(current_tid) /\ Contains(patch, lifted)
        /\ patch.memory[leader[current_tid]][lifted] = Saved(patch, lifted)

(* A saved byte that is not the program's goes with an address given up.   *)
SavedOK ==
    \A a \in DOMAIN patch.breakpoints :
        Saved(patch, a) # "code" =>
            IF a = temp THEN <<leader[through], a>> \in unreached
                        ELSE \A p \in Processes : <<p, a>> \in unreached

Core == ModeOK /\ TempOK /\ LiftedOK /\ SavedOK /\ MemoriesMirrorTable

Kernel == KernelTypeOK /\ ThreadsOK

(* The rest of TypeOK.                                                     *)
Types ==
    /\ where \in [Tids -> Addrs \cup {NoAddr}]
    /\ \A t \in Tids : rip[t] # "off" => where[t] \in Addrs
    /\ Shape(patch) /\ user \subseteq DOMAIN patch.breakpoints
    /\ exited \in BOOLEAN /\ current_tid \in Tids \cup {NoTid}
    /\ threads \subseteq Tids /\ pending_initial_stop \subseteq Tids /\ processes \subseteq Tids
    /\ mode \in {"prompt", "stepover", "wait", "call"} /\ after \in {"wait", "call"}
    /\ lifted \in Addrs \cup {NoAddr} /\ temp \in Addrs \cup {NoAddr}
    /\ through \in Tids \cup {NoTid}
    /\ unreached \subseteq Tids \X Addrs

Inv == Kernel /\ Types /\ FocusOK /\ (~exited => Core)

-----------------------------------------------------------------------------
(* The operations on a table and the memories.                             *)

LEMMA Puts ==
    ASSUME NEW p, Shape(p), NEW a \in Addrs, NEW bp \in Entries
    PROVE  /\ Shape(Put(p, a, bp)) /\ Put(p, a, bp).memory = p.memory
           /\ DOMAIN Put(p, a, bp).breakpoints = DOMAIN p.breakpoints \cup {a}
           /\ \A x \in DOMAIN p.breakpoints \cup {a} :
                 Put(p, a, bp).breakpoints[x] = IF x = a THEN bp ELSE p.breakpoints[x]
<1>. DEFINE b == [x \in DOMAIN p.breakpoints \cup {a} |-> IF x = a THEN bp ELSE p.breakpoints[x]]
<1>1. Put(p, a, bp) = [breakpoints |-> b, memory |-> p.memory]
  BY DEF Put, Shape
<1>2. b \in [DOMAIN p.breakpoints \cup {a} -> Entries]
  BY DEF Shape
<1>. QED
  BY <1>1, <1>2 DEF Shape

LEMMA Drops ==
    ASSUME NEW p, Shape(p), NEW a
    PROVE  /\ Shape(Drop(p, a)) /\ Drop(p, a).memory = p.memory
           /\ DOMAIN Drop(p, a).breakpoints = DOMAIN p.breakpoints \ {a}
           /\ \A x \in DOMAIN p.breakpoints \ {a} : Drop(p, a).breakpoints[x] = p.breakpoints[x]
<1>. DEFINE b == [x \in DOMAIN p.breakpoints \ {a} |-> p.breakpoints[x]]
<1>1. Drop(p, a) = [breakpoints |-> b, memory |-> p.memory]
  BY DEF Drop, Shape
<1>2. b \in [DOMAIN p.breakpoints \ {a} -> Entries]
  BY DEF Shape
<1>. QED
  BY <1>1, <1>2 DEF Shape

LEMMA Written ==
    ASSUME NEW p, Shape(p), NEW S, NEW a \in Addrs, NEW byte \in Bytes
    PROVE  /\ Shape(Write(p, S, a, byte)) /\ Write(p, S, a, byte).breakpoints = p.breakpoints
           /\ \A q \in Tids, x \in Addrs :
                 Write(p, S, a, byte).memory[q][x] =
                     IF q \in S /\ x = a THEN byte ELSE p.memory[q][x]
<1>. DEFINE m == [q \in Tids |-> IF q \in S THEN [p.memory[q] EXCEPT ![a] = byte] ELSE p.memory[q]]
<1>1. Write(p, S, a, byte) = [breakpoints |-> p.breakpoints, memory |-> m]
  BY DEF Write, Shape
<1>2. m \in [Tids -> [Addrs -> Bytes]]
  BY DEF Shape
<1>3. \A q \in Tids, x \in Addrs : m[q][x] = IF q \in S /\ x = a THEN byte ELSE p.memory[q][x]
  BY DEF Shape
<1>. QED
  BY <1>1, <1>2, <1>3 DEF Shape

LEMMA Saves ==
    ASSUME NEW p, Shape(p), NEW a \in DOMAIN p.breakpoints
    PROVE  a \in Addrs /\ Saved(p, a) \in Bytes /\ p.breakpoints[a] \in Entries
BY DEF Shape, Saved, Entries

(* An entry of that kind, whose byte is that of a memory.                  *)
LEMMA Entered ==
    ASSUME NEW e \in BOOLEAN, NEW byte \in Bytes
    PROVE  Entry(e, byte) \in Entries /\ Entry(e, byte).orig_byte = byte /\ Entry(e, byte).enabled = e
BY DEF Entry, Entries

LEMMA Enables ==
    ASSUME NEW p, Shape(p), NEW a \in Addrs, NEW t, leader[t] \in Tids
    PROVE  /\ Shape(enable(p, t, a))
           /\ DOMAIN enable(p, t, a).breakpoints = DOMAIN p.breakpoints \cup {a}
           /\ Saved(enable(p, t, a), a) = p.memory[leader[t]][a]
           /\ \A x \in DOMAIN p.breakpoints \ {a} : Saved(enable(p, t, a), x) = Saved(p, x)
           /\ \A q \in Tids, x \in Addrs :
                 enable(p, t, a).memory[q][x] =
                     IF q = leader[t] /\ x = a THEN "int3" ELSE p.memory[q][x]
<1>. DEFINE byte == p.memory[leader[t]][a]
            bp == Entry(TRUE, byte)
            r == Put(p, a, bp)
<1>1. byte \in Bytes /\ "int3" \in Bytes
  BY DEF Shape, Bytes
<1>2. bp \in Entries /\ bp.orig_byte = byte
  BY <1>1, Entered
<1>. HIDE DEF bp
<1>3. /\ Shape(r) /\ r.memory = p.memory /\ DOMAIN r.breakpoints = DOMAIN p.breakpoints \cup {a}
      /\ \A x \in DOMAIN p.breakpoints \cup {a} :
            r.breakpoints[x] = IF x = a THEN bp ELSE p.breakpoints[x]
  BY <1>2, Puts
<1>4. enable(p, t, a) = Write(r, {leader[t]}, a, "int3")
  BY DEF enable, bp
<1>. HIDE DEF r
<1>5. /\ Shape(enable(p, t, a)) /\ enable(p, t, a).breakpoints = r.breakpoints
      /\ \A q \in Tids, x \in Addrs :
            enable(p, t, a).memory[q][x] =
                IF q \in {leader[t]} /\ x = a THEN "int3" ELSE r.memory[q][x]
  BY <1>1, <1>3, <1>4, Written
<1>. QED
  BY <1>2, <1>3, <1>5 DEF Saved

LEMMA Disables ==
    ASSUME NEW p, Shape(p), NEW a \in Addrs, NEW t, leader[t] \in Tids, Enabled(p, a)
    PROVE  /\ Shape(disable(p, t, a))
           /\ DOMAIN disable(p, t, a).breakpoints = DOMAIN p.breakpoints
           /\ \A x \in DOMAIN p.breakpoints : Saved(disable(p, t, a), x) = Saved(p, x)
           /\ \A q \in Tids, x \in Addrs :
                 disable(p, t, a).memory[q][x] =
                     IF q = leader[t] /\ x = a THEN Saved(p, a) ELSE p.memory[q][x]
<1>. DEFINE bp == Entry(FALSE, Saved(p, a))
            r == Put(p, a, bp)
<1>0. a \in DOMAIN p.breakpoints
  BY DEF Enabled, Contains
<1>1. Saved(p, a) \in Bytes
  BY <1>0, Saves
<1>2. bp \in Entries /\ bp.orig_byte = Saved(p, a)
  BY <1>1, Entered
<1>. HIDE DEF bp
<1>3. /\ Shape(r) /\ r.memory = p.memory /\ DOMAIN r.breakpoints = DOMAIN p.breakpoints \cup {a}
      /\ \A x \in DOMAIN p.breakpoints \cup {a} :
            r.breakpoints[x] = IF x = a THEN bp ELSE p.breakpoints[x]
  BY <1>2, Puts
<1>4. disable(p, t, a) = Write(r, {leader[t]}, a, Saved(p, a))
  BY DEF disable, bp
<1>. HIDE DEF r
<1>5. /\ Shape(disable(p, t, a)) /\ disable(p, t, a).breakpoints = r.breakpoints
      /\ \A q \in Tids, x \in Addrs :
            disable(p, t, a).memory[q][x] =
                IF q \in {leader[t]} /\ x = a THEN Saved(p, a) ELSE r.memory[q][x]
  BY <1>1, <1>3, <1>4, Written
<1>. QED
  BY <1>0, <1>2, <1>3, <1>5 DEF Saved

-----------------------------------------------------------------------------
(* What happens to threads.  Only a birth makes one that is alive.         *)

NoneRises == \A u \in Tids : Alive(u)' => Alive(u)

LEMMA ReportKinds ==
    /\ Quiet \in Reports /\ Quiet.kind = "none"
    /\ \A r \in Stops \cup Ends : Report(r) \in Reports /\ Report(r).kind = r
    /\ \A k \in Births0, c \in Tids : Event(k, c) \in Reports /\ Event(k, c).kind = k
<1>1. \A r \in Stops \cup Ends : Report(r) \in Reports
  BY DEF Reports
<1>2. \A k \in Births0, c \in Tids : Event(k, c) \in Reports
  BY DEF Reports
<1>3. Quiet \in Reports
  BY DEF Reports
<1>. QED
  BY <1>1, <1>2, <1>3 DEF Quiet, Report, Event

(* The one thread t changes, and does not come to life.                    *)
LEMMA OneChanges ==
    ASSUME Kernel, NEW t \in Tids, NEW h \in RunStates, NEW r \in Reports,
           run' = [run EXCEPT ![t] = h], report' = [report EXCEPT ![t] = r],
           UNCHANGED <<leader, sigs>>, rip' \in [Tids -> {"off", "at", "past"}],
           h = "unborn" <=> run[t] = "unborn",
           h \in {"starting", "running", "stepping", "stepover", "stopped"} => Alive(t),
           r.kind \in Stops \cup Births0 => h = "stopped", r.kind # "signaled"
    PROVE  Kernel' /\ NoneRises
<1>0. /\ run \in [Tids -> RunStates] /\ report \in [Tids -> Reports]
      /\ leader' = leader /\ sigs' = sigs
  BY DEF Kernel, KernelTypeOK
<1>1. KernelTypeOK'
  BY <1>0 DEF Kernel, KernelTypeOK
<1>2. NoneRises
  BY <1>0 DEF NoneRises, Alive, Running, Stopped
<1>3. \A u \in Tids : Born(u)' <=> run'[u] # "unborn"
  BY <1>0 DEF Kernel, ThreadsOK, Born
<1>4. \A u \in Tids : Born(u)' => leader'[leader'[u]] = leader'[u]
  BY <1>0 DEF Kernel, ThreadsOK, Born
<1>5. \A u \in Tids : report'[u].kind \in Stops \cup Births0 => Stopped(u)'
  <2>. SUFFICES ASSUME NEW u \in Tids, report'[u].kind \in Stops \cup Births0 PROVE run'[u] = "stopped"
    BY DEF Stopped
  <2>1. CASE u = t
    BY <1>0, <2>1
  <2>2. CASE u # t
    BY <1>0, <2>2 DEF Kernel, ThreadsOK, Stopped
  <2>. QED
    BY <2>1, <2>2
<1>6. ASSUME NEW u \in Tids, NEW v \in Tids, report'[u].kind = "signaled", leader'[v] = leader'[u]
      PROVE  ~Alive(v)'
  <2>1. u # t
    BY <1>0, <1>6
  <2>2. report[u].kind = "signaled" /\ leader[v] = leader[u]
    BY <1>0, <1>6, <2>1
  <2>. QED
    BY <1>2, <2>2 DEF Kernel, ThreadsOK, NoneRises
<1>. QED
  BY <1>1, <1>2, <1>3, <1>4, <1>5, <1>6 DEF Kernel, ThreadsOK

LEMMA Stopping ==
    ASSUME Kernel, NEW t \in Tids, Running(t), NEW r \in Stops, Stop(t, Report(r)),
           UNCHANGED <<leader, sigs>>, rip' \in [Tids -> {"off", "at", "past"}]
    PROVE  Kernel' /\ NoneRises
<1>1. Report(r) \in Reports /\ Report(r).kind = r /\ r # "signaled"
  BY ReportKinds DEF Stops
<1>2. run[t] # "unborn" /\ Alive(t) /\ "stopped" \in RunStates
  BY DEF Running, Alive, RunStates
<1>. QED
  BY <1>1, <1>2, OneChanges DEF Stop

LEMMA Resuming ==
    ASSUME Kernel, NEW t \in Tids, Stopped(t), NEW how \in {"running", "stepover"},
           Resume(t, how), UNCHANGED <<leader, sigs>>, rip' \in [Tids -> {"off", "at", "past"}]
    PROVE  Kernel' /\ NoneRises
<1>1. how \in RunStates /\ how # "unborn" /\ run[t] # "unborn" /\ Alive(t)
  BY DEF RunStates, Stopped, Alive
<1>2. Quiet.kind \notin Stops \cup Births0 /\ Quiet.kind # "signaled" /\ Quiet \in Reports
  BY ReportKinds DEF Stops, Births0
<1>. QED
  BY <1>1, <1>2, OneChanges DEF Resume

LEMMA Consuming ==
    ASSUME Kernel, NEW t \in Tids, Consume(t),
           UNCHANGED <<leader, sigs>>, rip' \in [Tids -> {"off", "at", "past"}]
    PROVE  Kernel' /\ NoneRises
<1>. DEFINE h == IF run[t] = "zombie" THEN "reaped" ELSE run[t]
<1>1. run' = [run EXCEPT ![t] = h] /\ report' = [report EXCEPT ![t] = Quiet]
  BY DEF Consume
<1>2. /\ h \in RunStates /\ (h = "unborn" <=> run[t] = "unborn")
      /\ h \in {"starting", "running", "stepping", "stepover", "stopped"} => Alive(t)
  BY DEF Kernel, KernelTypeOK, RunStates, Alive, Running, Stopped
<1>3. Quiet.kind \notin Stops \cup Births0 /\ Quiet.kind # "signaled" /\ Quiet \in Reports
  BY ReportKinds DEF Stops, Births0
<1>. HIDE DEF h
<1>. QED
  BY <1>1, <1>2, <1>3, OneChanges

LEMMA Perishing ==
    ASSUME Kernel, NEW t \in Tids, NEW dying, NEW end,
           \/ dying = {t} /\ end = "exited"
           \/ dying = Group(t) /\ end = "signaled",
           Perish(dying, end), UNCHANGED <<leader, sigs>>
    PROVE  Kernel' /\ NoneRises
<1>1. KernelTypeOK' /\ NoneRises
  BY DEF Kernel, KernelTypeOK, Perish, Report, Running, Stopped, Alive, NoneRises,
       RunStates, Reports, Stops, Births0, Ends, Quiet, Event
<1>2. \A u \in Tids : Born(u)' <=> run'[u] # "unborn"
  BY DEF Kernel, KernelTypeOK, ThreadsOK, Born, Perish, Running, Stopped, Alive
<1>3. \A u \in Tids : Born(u)' => leader'[leader'[u]] = leader'[u]
  BY DEF Kernel, ThreadsOK, Born
<1>4. \A u \in Tids : report'[u].kind \in Stops \cup Births0 => Stopped(u)'
  BY DEF Kernel, KernelTypeOK, ThreadsOK, Perish, Report, Running, Stopped, Alive, Stops, Births0
<1>5. ASSUME NEW u \in Tids, NEW v \in Tids, report'[u].kind = "signaled", leader'[v] = leader'[u]
      PROVE  ~Alive(v)'
  <2>1. CASE u \in dying /\ Alive(u)
    <3>1. end = "signaled" /\ v \in dying
      BY <1>5, <2>1 DEF Perish, Report, Group, Kernel, KernelTypeOK
    <3>. QED
      BY <3>1 DEF Perish, Alive, Running, Stopped
  <2>2. CASE ~(u \in dying /\ Alive(u))
    <3>1. report[u].kind = "signaled" /\ leader[v] = leader[u]
      BY <1>5, <2>2 DEF Perish, Kernel, KernelTypeOK
    <3>. QED
      BY <1>1, <3>1 DEF Kernel, ThreadsOK, NoneRises
  <2>. QED
    BY <2>1, <2>2
<1>. QED
  BY <1>1, <1>2, <1>3, <1>4, <1>5 DEF Kernel, ThreadsOK

(* A birth: the newborn stands for itself, or for its creator's process.   *)
LEMMA Bearing ==
    ASSUME Kernel, NEW t \in Tids, NEW c \in Tids, NEW kind \in Births, Birth(t, c, kind)
    PROVE  /\ Kernel' /\ ~Born(c) /\ Born(t) /\ c # t /\ leader[t] \in Tids /\ leader[leader[t]] = leader[t]
           /\ \A u \in Tids \ {c} : leader'[u] = leader[u] /\ (Alive(u)' => Alive(u))
           /\ leader'[c] = IF kind = "fork" THEN c ELSE leader[t]
           /\ \A u \in Tids : Born(u) => u # c /\ leader[u] # c
<1>0. /\ run \in [Tids -> RunStates] /\ report \in [Tids -> Reports]
      /\ leader \in [Tids -> Tids \cup {NoTid}] /\ rip \in [Tids -> {"off", "at", "past"}]
      /\ sigs' = sigs /\ kind \in Births0
  BY TraceesAssumption DEF Kernel, KernelTypeOK, Birth, Births0
<1>1. run[c] = "unborn" /\ Running(t) /\ run[t] # "unborn" /\ Alive(t)
  BY DEF Birth, Running, Alive
<1>2. /\ ~Born(c) /\ Born(t) /\ c # t /\ leader[t] \in Tids /\ leader[leader[t]] = leader[t]
  BY <1>0, <1>1 DEF Kernel, ThreadsOK, Born
<1>3. \A u \in Tids : Born(u) => u # c /\ leader[u] # c /\ leader[u] \in Tids /\ Born(leader[u])
  BY <1>0, <1>2 DEF Kernel, ThreadsOK, Born
<1>4. leader' = [leader EXCEPT ![c] = IF kind = "fork" THEN c ELSE leader[t]]
  BY DEF Birth
<1>5. run' = [run EXCEPT ![t] = "stopped", ![c] = "stopped"]
  BY DEF Birth
<1>6. report' = [report EXCEPT ![t] = Event(kind, c), ![c] = Report("initial")]
  BY DEF Birth
<1>7. KernelTypeOK'
  <2>1. Event(kind, c) \in Reports /\ Report("initial") \in Reports /\ "stopped" \in RunStates
    BY <1>0, ReportKinds DEF Stops, RunStates
  <2>2. rip' \in [Tids -> {"off", "at", "past"}]
    BY <1>0 DEF Birth
  <2>. QED
    BY <1>0, <1>2, <1>4, <1>5, <1>6, <2>1, <2>2 DEF Kernel, KernelTypeOK
<1>8. \A u \in Tids \ {c} : leader'[u] = leader[u] /\ (Alive(u)' => Alive(u))
  BY <1>0, <1>1, <1>4, <1>5 DEF Alive, Running, Stopped
<1>9. \A u \in Tids : Born(u)' <=> run'[u] # "unborn"
  BY <1>0, <1>1, <1>2, <1>4, <1>5, TraceesAssumption DEF Kernel, ThreadsOK, Born
<1>10. \A u \in Tids : Born(u)' => leader'[leader'[u]] = leader'[u]
  BY <1>0, <1>2, <1>3, <1>4 DEF Kernel, ThreadsOK, Born
<1>11. \A u \in Tids : report'[u].kind \in Stops \cup Births0 => Stopped(u)'
  <2>. SUFFICES ASSUME NEW u \in Tids, report'[u].kind \in Stops \cup Births0 PROVE run'[u] = "stopped"
    BY DEF Stopped
  <2>1. CASE u \in {t, c}
    BY <1>0, <1>5, <2>1
  <2>2. CASE u \notin {t, c}
    BY <1>0, <1>5, <1>6, <2>2 DEF Kernel, ThreadsOK, Stopped
  <2>. QED
    BY <2>1, <2>2
<1>12. ASSUME NEW u \in Tids, NEW v \in Tids, report'[u].kind = "signaled", leader'[v] = leader'[u]
       PROVE  ~Alive(v)'
  <2>1. Event(kind, c).kind # "signaled" /\ Report("initial").kind # "signaled"
    BY <1>0, ReportKinds DEF Stops, Births0
  <2>2. u \notin {t, c} /\ report[u].kind = "signaled"
    BY <1>0, <1>6, <1>12, <2>1
  <2>3. leader'[u] = leader[u] /\ leader[u] # leader[t] /\ leader[u] # c
    BY <1>1, <1>3, <1>8, <2>2, TraceesAssumption DEF Kernel, ThreadsOK, Born
  <2>4. v # c
    BY <1>0, <1>4, <1>12, <2>3
  <2>5. leader[v] = leader[u] /\ (Alive(v)' => Alive(v))
    BY <1>8, <1>12, <2>3, <2>4
  <2>. QED
    BY <2>2, <2>5 DEF Kernel, ThreadsOK
<1>13. leader'[c] = IF kind = "fork" THEN c ELSE leader[t]
  BY <1>0, <1>4
<1>. QED
  BY <1>2, <1>3, <1>13, <1>7, <1>8, <1>9, <1>10, <1>11, <1>12 DEF Kernel, ThreadsOK, Born

-----------------------------------------------------------------------------
(* Steps that change no breakpoint.                                        *)

Unmoved == UNCHANGED <<leader, patch, user, unreached, mode, after, lifted, temp, through>>

LEMMA SameProcesses ==
    ASSUME NoneRises, UNCHANGED leader
    PROVE  Processes' = Processes /\ \A p \in Tids : Living(p)' => Living(p)
BY DEF NoneRises, Processes, Living

LEMMA LivingProcess ==
    ASSUME Kernel, NEW p \in Tids, Living(p) PROVE p \in Processes
BY DEF Kernel, KernelTypeOK, ThreadsOK, Living, Processes, Alive, Running, Stopped, Born

LEMMA CoreUnmoved ==
    ASSUME Inv, ~exited, NoneRises, Unmoved, mode # "stepover" \/ UNCHANGED current_tid
    PROVE  Core'
<1>. USE DEF Unmoved
<1>1. Core /\ leader' = leader /\ patch' = patch /\ unreached' = unreached
  BY DEF Inv
<1>2. ModeOK' /\ TempOK' /\ SavedOK'
  <2>1. TempOK'
    BY <1>1 DEF Core, ModeOK, TempOK, Contains, Born
  <2>2. SavedOK'
    BY <1>1, SameProcesses DEF Core, SavedOK, Saved
  <2>. QED
    BY <1>1, <2>1, <2>2 DEF Core, ModeOK
<1>3. LiftedOK'
  BY <1>1 DEF Core, LiftedOK, Born, Contains, Saved
<1>4. MemoriesMirrorTable'
  <2>. SUFFICES ASSUME NEW p \in Tids, NEW a \in Addrs, Living(p)', <<p, a>> \notin unreached
                PROVE  patch.memory[p][a] = IF Owed(p, a)' THEN "int3" ELSE "code"
    BY <1>1 DEF MemoriesMirrorTable
  <2>1. Living(p)
    BY <1>1, SameProcesses
  <2>2. Owed(p, a)' = Owed(p, a)
    <3>1. CASE mode = "stepover"
      BY <1>1, <3>1 DEF Owed, Contains
    <3>2. CASE mode # "stepover"
      <4>1. lifted = NoAddr /\ a # lifted
        BY <1>1, <3>2, BreakpointsAssumption DEF Core, ModeOK
      <4>. QED
        BY <1>1, <4>1 DEF Owed, Contains
    <3>. QED
      BY <3>1, <3>2
  <2>. QED
    BY <1>1, <2>1, <2>2 DEF Core, MemoriesMirrorTable
<1>. QED
  BY <1>2, <1>3, <1>4 DEF Core

(* What the threads of the program do, short of giving birth.              *)
LEMMA Moves ==
    ASSUME Inv, ~exited, UNCHANGED <<fields, steps>>, NEW t \in Tids,
           Trap(t) \/ StepDone(t) \/ Interrupted(t) \/ Dies(t)
    PROVE  Inv'
<1>0. /\ UNCHANGED <<user, exited, current_tid, threads, pending_initial_stop, processes>>
      /\ UNCHANGED <<mode, after, lifted, temp, through>>
  BY DEF fields, steps
<1>1. Unmoved
  BY <1>0 DEF Unmoved, Trap, StepDone, Interrupted, Dies
<1>. DEFINE Places == /\ where' \in [Tids -> Addrs \cup {NoAddr}]
                      /\ \A u \in Tids : rip'[u] # "off" => where'[u] \in Addrs
<1>2. /\ where \in [Tids -> Addrs \cup {NoAddr}] /\ rip \in [Tids -> {"off", "at", "past"}]
      /\ \A u \in Tids : rip[u] # "off" => where[u] \in Addrs
      /\ Kernel
  BY DEF Inv, Types, Kernel, KernelTypeOK
<1>3. CASE Trap(t)
  <2>1. PICK a \in Addrs : where' = [where EXCEPT ![t] = a] /\ rip' = [rip EXCEPT ![t] = "past"]
    BY <1>3 DEF Trap
  <2>2. Running(t) /\ Stop(t, Report("trap")) /\ UNCHANGED <<leader, sigs>>
    BY <1>3 DEF Trap, Running
  <2>3. rip' \in [Tids -> {"off", "at", "past"}] /\ "trap" \in Stops
    BY <1>2, <2>1 DEF Stops
  <2>4. Kernel' /\ NoneRises
    BY <1>2, <2>2, <2>3, Stopping
  <2>. QED
    BY <1>0, <1>1, <1>2, <2>1, <2>4, CoreUnmoved DEF Inv, Types, FocusOK, Unmoved
<1>4. CASE StepDone(t) \/ Interrupted(t)
  <2>1. PICK a \in Addrs \cup {NoAddr}, r \in {"trap", "SIGINT"} : Arrives(t, a, r)
    BY <1>4 DEF StepDone, Interrupted
  <2>2. Running(t) /\ Stop(t, Report(r)) /\ UNCHANGED <<leader, sigs>> /\ r \in Stops
    BY <1>4, <2>1 DEF StepDone, Interrupted, Arrives, Running, Stops
  <2>3. /\ where' = [where EXCEPT ![t] = a] /\ rip' = [rip EXCEPT ![t] = At(a)]
        /\ At(a) \in {"off", "at", "past"} /\ (At(a) # "off" => a \in Addrs)
    BY <2>1 DEF Arrives, At
  <2>4. rip' \in [Tids -> {"off", "at", "past"}] /\ Places
    BY <1>2, <2>3
  <2>5. Kernel' /\ NoneRises
    BY <1>2, <2>2, <2>4, Stopping
  <2>. QED
    BY <1>0, <1>1, <1>2, <2>4, <2>5, CoreUnmoved DEF Inv, Types, FocusOK, Unmoved
<1>5. CASE Dies(t)
  <2>1. PICK dying, end :
           /\ (dying = {t} /\ end = "exited") \/ (dying = Group(t) /\ end = "signaled")
           /\ Perish(dying, end)
    <3>1. CASE Perish({t}, "exited")
      BY <3>1
    <3>2. CASE Perish(Group(t), "signaled")
      BY <3>2
    <3>. QED
      BY <1>5, <3>1, <3>2 DEF Dies
  <2>2. UNCHANGED <<leader, sigs>>
    BY <1>5 DEF Dies
  <2>3. Kernel' /\ NoneRises
    BY <1>2, <2>1, <2>2, Perishing
  <2>4. Places
    BY <1>2, <1>5, <2>1 DEF Dies, Perish
  <2>. QED
    BY <1>0, <1>1, <1>2, <2>3, <2>4, CoreUnmoved DEF Inv, Types, FocusOK, Unmoved
<1>. QED
  BY <1>3, <1>4, <1>5

(* A newborn: its memory, if it has one of its own, is its creator's.      *)
LEMMA Copies ==
    ASSUME Inv, ~exited, NEW t \in Tids, NEW c \in Tids, NEW kind \in Births, Birth(t, c, kind)
    PROVE  /\ Shape(patch') /\ patch'.breakpoints = patch.breakpoints
           /\ unreached' \subseteq Tids \X Addrs /\ unreached \subseteq unreached'
           /\ \A p \in Tids : kind = "clone" \/ p # c => patch'.memory[p] = patch.memory[p]
           /\ \A p \in Tids, a \in Addrs : p # c \/ kind = "clone" =>
                 (<<p, a>> \in unreached' <=> <<p, a>> \in unreached)
           /\ kind # "clone" =>
                 /\ kind = "fork" /\ patch'.memory[c] = patch.memory[leader[t]]
                 /\ \A a \in Addrs : <<c, a>> \notin unreached' =>
                       /\ <<leader[t], a>> \notin unreached /\ a # temp
                       /\ a = lifted => leader[t] # leader[current_tid]
                 /\ \A a \in Addrs : <<leader[t], a>> \in unreached => <<c, a>> \in unreached'
<1>0. Shape(patch) /\ unreached \subseteq Tids \X Addrs /\ leader[t] \in Tids /\ Kernel
  BY Bearing DEF Inv, Types
<1>1. CASE kind = "clone"
  BY <1>0, <1>1 DEF Birth
<1>2. CASE kind # "clone"
  <2>. DEFINE lost == {x \in Addrs : \/ <<leader[t], x>> \in unreached
                                     \/ x = temp
                                     \/ x = lifted /\ leader[t] = leader[current_tid]}
              m == [patch.memory EXCEPT ![c] = patch.memory[leader[t]]]
  <2>1. /\ patch' = [patch EXCEPT !.memory[c] = patch.memory[leader[t]]]
        /\ unreached' = unreached \cup {<<c, a>> : a \in lost}
    BY <1>2 DEF Birth
  <2>2. patch' = [breakpoints |-> patch.breakpoints, memory |-> m]
    BY <1>0, <2>1 DEF Shape
  <2>3. m \in [Tids -> [Addrs -> Bytes]] /\ m[c] = patch.memory[leader[t]]
    BY <1>0 DEF Shape
  <2>4. \A p \in Tids \ {c} : m[p] = patch.memory[p]
    BY <1>0 DEF Shape
  <2>5. kind = "fork"
    BY <1>2, TraceesAssumption
  <2>. HIDE DEF m
  <2>6. Shape(patch') /\ patch'.breakpoints = patch.breakpoints /\ patch'.memory = m
    BY <1>0, <2>2, <2>3 DEF Shape
  <2>7. \A p \in Tids, a \in Addrs :
           <<p, a>> \in unreached' <=> <<p, a>> \in unreached \/ (p = c /\ a \in lost)
    BY <2>1
  <2>8. unreached' \subseteq Tids \X Addrs /\ unreached \subseteq unreached'
    <3>1. lost \subseteq Addrs
      OBVIOUS
    <3>. HIDE DEF lost
    <3>2. \A a \in lost : <<c, a>> \in Tids \X Addrs
      BY <3>1
    <3>. QED
      BY <1>0, <2>1, <3>2
  <2>9. \A a \in Addrs : a \in lost \/ (/\ <<leader[t], a>> \notin unreached /\ a # temp
                                        /\ a = lifted => leader[t] # leader[current_tid])
    OBVIOUS
  <2>. HIDE DEF lost
  <2>. QED
    BY <1>2, <2>3, <2>4, <2>5, <2>6, <2>7, <2>8, <2>9
<1>. QED
  BY <1>1, <1>2

LEMMA Bears ==
    ASSUME Inv, ~exited, UNCHANGED <<fields, steps>>,
           NEW t \in Tids, NEW c \in Tids, NEW kind \in Births, Birth(t, c, kind)
    PROVE  Inv'
<1>0. /\ UNCHANGED <<user, exited, current_tid, threads, pending_initial_stop, processes>>
      /\ UNCHANGED <<mode, after, lifted, temp, through>>
      /\ Kernel /\ Core /\ current_tid \in Tids
  BY DEF fields, steps, Inv, FocusOK
<1>1. /\ Kernel' /\ ~Born(c) /\ Born(t) /\ c # t /\ leader[t] \in Tids /\ leader[leader[t]] = leader[t]
      /\ \A u \in Tids \ {c} : leader'[u] = leader[u] /\ (Alive(u)' => Alive(u))
      /\ leader'[c] = IF kind = "fork" THEN c ELSE leader[t]
      /\ \A u \in Tids : Born(u) => u # c /\ leader[u] # c
  BY <1>0, Bearing
<1>2. /\ Shape(patch') /\ patch'.breakpoints = patch.breakpoints
      /\ unreached' \subseteq Tids \X Addrs /\ unreached \subseteq unreached'
      /\ \A p \in Tids : kind = "clone" \/ p # c => patch'.memory[p] = patch.memory[p]
      /\ \A p \in Tids, a \in Addrs : p # c \/ kind = "clone" =>
            (<<p, a>> \in unreached' <=> <<p, a>> \in unreached)
      /\ kind # "clone" =>
            /\ kind = "fork" /\ patch'.memory[c] = patch.memory[leader[t]]
            /\ \A a \in Addrs : <<c, a>> \notin unreached' =>
                  /\ <<leader[t], a>> \notin unreached /\ a # temp
                  /\ a = lifted => leader[t] # leader[current_tid]
            /\ \A a \in Addrs : <<leader[t], a>> \in unreached => <<c, a>> \in unreached'
  BY Copies
<1>3. Types' /\ FocusOK'
  <2>1. /\ where' \in [Tids -> Addrs \cup {NoAddr}]
        /\ \A u \in Tids : rip'[u] # "off" => where'[u] \in Addrs
    BY DEF Birth, Inv, Types, Kernel, KernelTypeOK
  <2>2. user' \subseteq DOMAIN patch'.breakpoints
    BY <1>0, <1>2 DEF Inv, Types
  <2>. QED
    BY <1>0, <1>2, <2>1, <2>2 DEF Inv, Types, FocusOK
<1>4. ModeOK' /\ \A a \in Addrs : Saved(patch, a)' = Saved(patch, a) /\ Contains(patch, a)' = Contains(patch, a)
  BY <1>0, <1>2 DEF Core, ModeOK, Saved, Contains
<1>5. through \in Tids /\ Born(through) => through # c /\ leader'[through] = leader[through] /\ Born(through)'
  <2>1. through' = through
    BY <1>0
  <2>. QED
    BY <1>1, <2>1 DEF Born
<1>6. TempOK'
  <2>. SUFFICES ASSUME temp # NoAddr PROVE TempOK'
    BY <1>0 DEF TempOK
  <2>1. /\ through \in Tids /\ Born(through) /\ Contains(patch, temp) /\ temp \notin user /\ temp \in Addrs
        /\ mode = "stepover" => through = current_tid
        /\ temp # lifted => patch.memory[leader[through]][temp] = "int3"
    BY <1>0 DEF Core, TempOK, Inv, Types
  <2>2. leader[through] # c /\ leader[through] \in Tids
    BY <1>1, <2>1 DEF Inv, Kernel, KernelTypeOK, Born
  <2>3. patch'.memory[leader'[through]] = patch.memory[leader[through]]
    BY <1>2, <1>5, <2>1, <2>2
  <2>. QED
    BY <1>0, <1>4, <1>5, <2>1, <2>3 DEF TempOK
<1>7. LiftedOK'
  <2>. SUFFICES ASSUME mode = "stepover" PROVE LiftedOK'
    BY <1>0 DEF LiftedOK
  <2>1. /\ Born(current_tid) /\ Contains(patch, lifted)
        /\ patch.memory[leader[current_tid]][lifted] = Saved(patch, lifted)
    BY <1>0 DEF Core, LiftedOK
  <2>2. /\ lifted \in Addrs /\ leader[current_tid] # c /\ leader[current_tid] \in Tids
        /\ leader'[current_tid] = leader[current_tid] /\ Born(current_tid)'
    BY <1>0, <1>1, <2>1 DEF Inv, Types, Kernel, KernelTypeOK, Born, Contains, Shape
  <2>3. patch'.memory[leader'[current_tid]] = patch.memory[leader[current_tid]]
    BY <1>2, <2>2
  <2>. QED
    BY <1>0, <1>4, <2>1, <2>2, <2>3 DEF LiftedOK
<1>8. Processes' \subseteq Processes \cup {c} /\ leader[t] \in Processes /\ (kind = "clone" => Processes' = Processes)
  BY <1>1, TraceesAssumption DEF Processes, Born
<1>9. SavedOK'
  <2>. SUFFICES ASSUME NEW a \in DOMAIN patch.breakpoints, Saved(patch, a) # "code"
                PROVE  IF a = temp THEN <<leader'[through], a>> \in unreached'
                                   ELSE \A p \in Processes' : <<p, a>> \in unreached'
    BY <1>0, <1>2, <1>4, Saves DEF SavedOK, Inv, Types
  <2>1. a \in Addrs /\ (IF a = temp THEN <<leader[through], a>> \in unreached
                                   ELSE \A p \in Processes : <<p, a>> \in unreached)
    BY <1>0, Saves DEF Core, SavedOK, Inv, Types
  <2>2. CASE a = temp
    <3>1. through \in Tids /\ Born(through)
      BY <1>0, <2>1, <2>2, BreakpointsAssumption DEF Core, TempOK
    <3>. QED
      BY <1>2, <1>5, <2>1, <2>2, <3>1
  <2>3. CASE a # temp
    BY <1>2, <1>8, <2>1, <2>3, TraceesAssumption
  <2>. QED
    BY <2>2, <2>3
<1>10. MemoriesMirrorTable'
  <2>. SUFFICES ASSUME NEW p \in Tids, NEW a \in Addrs, Living(p)', <<p, a>> \notin unreached'
                PROVE  patch'.memory[p][a] = IF Owed(p, a)' THEN "int3" ELSE "code"
    BY DEF MemoriesMirrorTable
  <2>0. MemoriesMirrorTable /\ Living(leader[t])
    BY <1>0, <1>1 DEF Core, Living, Birth, Alive
  <2>1. \A q \in Tids \ {c} : Owed(q, a)' = Owed(q, a)
    <3>1. a = temp => through \in Tids /\ Born(through)
      BY <1>0, BreakpointsAssumption DEF Core, TempOK
    <3>2. a = lifted => Born(current_tid)
      BY <1>0, BreakpointsAssumption DEF Core, ModeOK, LiftedOK
    <3>3. a = lifted => leader'[current_tid] = leader[current_tid]
      BY <1>0, <1>1, <3>2
    <3>. QED
      BY <1>0, <1>4, <1>5, <3>1, <3>3 DEF Owed
  <2>2. CASE p # c
    <3>1. Living(p)
      <4>1. PICK u \in Tids : leader'[u] = p /\ Alive(u)'
        BY DEF Living
      <4>2. CASE u = c
        BY <1>1, <2>0, <2>2, <4>1, <4>2
      <4>3. CASE u # c
        BY <1>1, <4>1, <4>3 DEF Living
      <4>. QED
        BY <4>2, <4>3
    <3>. QED
      BY <1>0, <1>2, <2>0, <2>1, <2>2, <3>1 DEF MemoriesMirrorTable
  <2>3. CASE p = c
    <3>1. kind # "clone"
      <4>1. PICK u \in Tids : leader'[u] = c
        BY <2>3 DEF Living
      <4>. QED
        BY <1>1, <4>1, TraceesAssumption DEF Born
    <3>2. <<leader[t], a>> \notin unreached /\ a # temp /\ (a = lifted => leader[t] # leader[current_tid])
      BY <1>2, <2>3, <3>1
    <3>3. patch.memory[leader[t]][a] = IF Owed(leader[t], a) THEN "int3" ELSE "code"
      BY <1>0, <1>1, <2>0, <3>2 DEF MemoriesMirrorTable
    <3>4. Owed(leader[t], a) <=> Contains(patch, a)
      BY <3>2 DEF Owed
    <3>5. a = lifted => Born(current_tid) /\ leader'[current_tid] # c
      BY <1>0, <1>1, BreakpointsAssumption DEF Core, ModeOK, LiftedOK, Born
    <3>6. Owed(c, a)' <=> Contains(patch, a)
      BY <1>0, <1>4, <3>2, <3>5 DEF Owed
    <3>. QED
      BY <1>2, <2>3, <3>1, <3>3, <3>4, <3>6
  <2>. QED
    BY <2>2, <2>3
<1>. QED
  BY <1>1, <1>3, <1>4, <1>6, <1>7, <1>9, <1>10 DEF Inv, Core

-----------------------------------------------------------------------------
(* break and delete.                                                       *)

(* After a change at a, what the memories of which processes it reaches.   *)
LEMMA Reaching ==
    ASSUME NEW a \in Addrs, NEW S, NEW known, unreached \subseteq Tids \X Addrs, Reaches(a, S, known)
    PROVE  /\ unreached' \subseteq Tids \X Addrs
           /\ \A p \in Tids, x \in Addrs : x # a => (<<p, x>> \in unreached' <=> <<p, x>> \in unreached)
           /\ \A p \in Processes : <<p, a>> \notin unreached' => known /\ p \in S
           /\ ~known => \A p \in Processes : <<p, a>> \in unreached'
<1>. DEFINE kept == {u \in unreached : u[2] # a \/ u[1] \notin S \/ ~known}
            new  == IF known THEN Processes \ S ELSE Processes
<1>1. unreached' = kept \cup {<<p, a>> : p \in new}
  BY DEF Reaches
<1>2. new \subseteq Tids /\ kept \subseteq unreached
  BY DEF Processes
<1>3. \A p \in Tids, x \in Addrs : x # a => (<<p, x>> \in kept <=> <<p, x>> \in unreached)
  OBVIOUS
<1>4. \A p \in Processes : p \notin new => known /\ p \in S
  OBVIOUS
<1>5. ~known => new = Processes
  OBVIOUS
<1>. HIDE DEF kept, new
<1>6. \A p \in new : <<p, a>> \in Tids \X Addrs
  BY <1>2
<1>7. \A p, x : <<p, x>> \in unreached' <=> <<p, x>> \in kept \/ (p \in new /\ x = a)
  BY <1>1
<1>8. unreached' \subseteq Tids \X Addrs
  BY <1>1, <1>2, <1>6
<1>. QED
  BY <1>3, <1>4, <1>5, <1>7, <1>8

(* At the prompt every breakpoint of the table is owed to every process.   *)
LEMMA AtPrompt ==
    ASSUME Inv, ~exited, mode = "prompt"
    PROVE  /\ temp = NoAddr /\ lifted = NoAddr /\ current_tid \in Tids
           /\ \A p \in Tids, a \in Addrs : a # temp /\ a # lifted /\ (Owed(p, a) <=> Contains(patch, a))
           /\ \A a \in DOMAIN patch.breakpoints :
                 Saved(patch, a) # "code" => \A p \in Processes : <<p, a>> \in unreached
           /\ \A p \in Tids, a \in Addrs : Living(p) /\ <<p, a>> \notin unreached =>
                 patch.memory[p][a] = IF Contains(patch, a) THEN "int3" ELSE "code"
<1>1. temp = NoAddr /\ lifted = NoAddr /\ current_tid \in Tids
  BY DEF Inv, FocusOK, Core, ModeOK
<1>2. \A p \in Tids, a \in Addrs : a # temp /\ a # lifted /\ (Owed(p, a) <=> Contains(patch, a))
  BY <1>1, BreakpointsAssumption DEF Owed
<1>. QED
  BY <1>1, <1>2, Saves DEF Inv, Types, Core, SavedOK, MemoriesMirrorTable

LEMMA Installs ==
    ASSUME Inv, NEW a \in Addrs, install_breakpoint(a) PROVE Inv'
<1>. DEFINE own  == IF Stopped(current_tid) THEN {leader[current_tid]} ELSE {}
            byte == IF own = {} THEN "zero" ELSE patch.memory[leader[current_tid]][a]
            bp   == Entry(own # {}, byte)
            q    == Put(patch, a, bp)
            S    == own \cup Others
<1>0. /\ mode = "prompt" /\ ~exited /\ ~Contains(patch, a) /\ user' = user \cup {a}
      /\ patch' = Write(q, S, a, "int3") /\ Reaches(a, Reachable(TRUE), byte = "code")
      /\ UNCHANGED <<kernelVars, where, exited, current_tid, threads, pending_initial_stop, processes, steps>>
  BY DEF install_breakpoint, Begin
<1>1. /\ UNCHANGED <<run, report, leader, sigs, rip, where>> /\ UNCHANGED <<mode, after, lifted, temp, through>>
      /\ UNCHANGED <<exited, current_tid, threads, pending_initial_stop, processes>>
  BY <1>0 DEF kernelVars, steps
<1>2. Kernel' /\ NoneRises
  BY <1>1 DEF Inv, Kernel, KernelTypeOK, ThreadsOK, Born, NoneRises, Alive, Running, Stopped
<1>3. Reachable(TRUE) = S
  BY DEF Reachable, Others
<1>4. Shape(patch) /\ unreached \subseteq Tids \X Addrs
  BY DEF Inv, Types
<1>5. byte \in Bytes
  <2>1. current_tid \in Tids
    BY <1>0 DEF Inv, FocusOK
  <2>2. Stopped(current_tid) => leader[current_tid] \in Tids
    BY <2>1 DEF Inv, Kernel, KernelTypeOK, ThreadsOK, Born, Stopped
  <2>. QED
    BY <1>4, <2>2 DEF Shape, Bytes
<1>. HIDE DEF byte
<1>6. bp \in Entries /\ bp.orig_byte = byte
  BY <1>5, Entered
<1>. HIDE DEF bp
<1>7. /\ Shape(q) /\ q.memory = patch.memory /\ DOMAIN q.breakpoints = DOMAIN patch.breakpoints \cup {a}
      /\ \A x \in DOMAIN patch.breakpoints \cup {a} :
            q.breakpoints[x] = IF x = a THEN bp ELSE patch.breakpoints[x]
  BY <1>4, <1>6, Puts
<1>. HIDE DEF q, S
<1>8. /\ Shape(patch') /\ patch'.breakpoints = q.breakpoints
      /\ \A p \in Tids, x \in Addrs :
            patch'.memory[p][x] = IF p \in S /\ x = a THEN "int3" ELSE patch.memory[p][x]
  <2>1. "int3" \in Bytes
    BY DEF Bytes
  <2>. QED
    BY <1>0, <1>7, <2>1, Written
<1>9. /\ DOMAIN patch'.breakpoints = DOMAIN patch.breakpoints \cup {a} /\ Saved(patch', a) = byte
      /\ \A x \in DOMAIN patch.breakpoints : Saved(patch', x) = Saved(patch, x)
  BY <1>0, <1>6, <1>7, <1>8 DEF Saved, Contains
<1>10. /\ unreached' \subseteq Tids \X Addrs
       /\ \A p \in Tids, x \in Addrs : x # a => (<<p, x>> \in unreached' <=> <<p, x>> \in unreached)
       /\ \A p \in Processes : <<p, a>> \notin unreached' => p \in S
       /\ byte # "code" => \A p \in Processes : <<p, a>> \in unreached'
  BY <1>0, <1>3, <1>4, Reaching
<1>11. Types' /\ FocusOK'
  BY <1>0, <1>1, <1>8, <1>9, <1>10 DEF Inv, Types, FocusOK
<1>12. ModeOK' /\ TempOK' /\ LiftedOK'
  BY <1>0, <1>1, AtPrompt DEF ModeOK, TempOK, LiftedOK
<1>13. Processes' = Processes /\ \A p \in Tids : Living(p)' => Living(p)
  BY <1>1, <1>2, SameProcesses
<1>14. SavedOK'
  <2>. SUFFICES ASSUME NEW x \in DOMAIN patch.breakpoints \cup {a}, Saved(patch', x) # "code"
                PROVE  x # temp /\ \A p \in Processes : <<p, x>> \in unreached'
    BY <1>1, <1>9, <1>13 DEF SavedOK
  <2>1. x \in Addrs /\ x # temp
    BY <1>0, <1>4, AtPrompt, BreakpointsAssumption DEF Shape
  <2>2. CASE x = a
    BY <1>9, <1>10, <2>1, <2>2
  <2>3. CASE x # a
    BY <1>0, <1>9, <1>10, <2>1, <2>3, AtPrompt DEF Processes
  <2>. QED
    BY <2>1, <2>2, <2>3
<1>15. MemoriesMirrorTable'
  <2>. SUFFICES ASSUME NEW p \in Tids, NEW x \in Addrs, Living(p)', <<p, x>> \notin unreached'
                PROVE  patch'.memory[p][x] = IF Owed(p, x)' THEN "int3" ELSE "code"
    BY DEF MemoriesMirrorTable
  <2>1. Living(p) /\ p \in Processes
    BY <1>13, LivingProcess DEF Inv
  <2>2. Owed(p, x)' <=> x \in DOMAIN patch.breakpoints \cup {a}
    BY <1>0, <1>1, <1>9, AtPrompt DEF Owed, Contains
  <2>3. CASE x = a
    BY <1>8, <1>10, <2>1, <2>2, <2>3
  <2>4. CASE x # a
    BY <1>0, <1>8, <1>10, <2>1, <2>2, <2>4, AtPrompt DEF Contains
  <2>. QED
    BY <2>3, <2>4
<1>. QED
  BY <1>2, <1>11, <1>12, <1>14, <1>15 DEF Inv, Core

LEMMA Deletes ==
    ASSUME Inv, NEW a \in Addrs, delete_breakpoint(a) PROVE Inv'
<1>. DEFINE own   == IF Enabled(patch, a) THEN {leader[current_tid]} ELSE {}
            fails == own # {} /\ ~Stopped(current_tid)
            q     == Drop(patch, a)
            S     == IF fails THEN {} ELSE own \cup Others
            R     == IF fails THEN {} ELSE Reachable(Enabled(patch, a))
<1>0. /\ mode = "prompt" /\ ~exited /\ a \in user /\ user' = user \ {a}
      /\ patch' = Write(q, S, a, Saved(patch, a)) /\ Reaches(a, R, Saved(patch, a) = "code")
      /\ UNCHANGED <<kernelVars, where, exited, current_tid, threads, pending_initial_stop, processes, steps>>
  BY DEF delete_breakpoint, Begin
<1>1. /\ UNCHANGED <<run, report, leader, sigs, rip, where>> /\ UNCHANGED <<mode, after, lifted, temp, through>>
      /\ UNCHANGED <<exited, current_tid, threads, pending_initial_stop, processes>>
  BY <1>0 DEF kernelVars, steps
<1>2. Kernel' /\ NoneRises
  BY <1>1 DEF Inv, Kernel, KernelTypeOK, ThreadsOK, Born, NoneRises, Alive, Running, Stopped
<1>3. R = S
  BY DEF Reachable, Others
<1>4. Shape(patch) /\ unreached \subseteq Tids \X Addrs /\ a \in DOMAIN patch.breakpoints
  BY <1>0 DEF Inv, Types
<1>5. Saved(patch, a) \in Bytes
  BY <1>4, Saves
<1>7. /\ Shape(q) /\ q.memory = patch.memory /\ DOMAIN q.breakpoints = DOMAIN patch.breakpoints \ {a}
      /\ \A x \in DOMAIN patch.breakpoints \ {a} : q.breakpoints[x] = patch.breakpoints[x]
  BY <1>4, Drops
<1>. HIDE DEF q, S, R
<1>8. /\ Shape(patch') /\ patch'.breakpoints = q.breakpoints
      /\ \A p \in Tids, x \in Addrs :
            patch'.memory[p][x] = IF p \in S /\ x = a THEN Saved(patch, a) ELSE patch.memory[p][x]
  BY <1>0, <1>5, <1>7, Written
<1>9. /\ DOMAIN patch'.breakpoints = DOMAIN patch.breakpoints \ {a}
      /\ \A x \in DOMAIN patch.breakpoints \ {a} : Saved(patch', x) = Saved(patch, x)
  BY <1>7, <1>8 DEF Saved
<1>10. /\ unreached' \subseteq Tids \X Addrs
       /\ \A p \in Tids, x \in Addrs : x # a => (<<p, x>> \in unreached' <=> <<p, x>> \in unreached)
       /\ \A p \in Processes : <<p, a>> \notin unreached' => Saved(patch, a) = "code" /\ p \in S
  BY <1>0, <1>3, <1>4, Reaching
<1>11. Types' /\ FocusOK'
  BY <1>0, <1>1, <1>8, <1>9, <1>10 DEF Inv, Types, FocusOK
<1>12. ModeOK' /\ TempOK' /\ LiftedOK'
  BY <1>0, <1>1, AtPrompt DEF ModeOK, TempOK, LiftedOK
<1>13. Processes' = Processes /\ \A p \in Tids : Living(p)' => Living(p)
  BY <1>1, <1>2, SameProcesses
<1>14. SavedOK'
  <2>. SUFFICES ASSUME NEW x \in DOMAIN patch.breakpoints \ {a}, Saved(patch', x) # "code"
                PROVE  x # temp /\ \A p \in Processes : <<p, x>> \in unreached'
    BY <1>1, <1>9, <1>13 DEF SavedOK
  <2>1. x \in Addrs /\ x # temp
    BY <1>0, <1>4, AtPrompt, BreakpointsAssumption DEF Shape
  <2>. QED
    BY <1>0, <1>9, <1>10, <2>1, AtPrompt DEF Processes
<1>15. MemoriesMirrorTable'
  <2>. SUFFICES ASSUME NEW p \in Tids, NEW x \in Addrs, Living(p)', <<p, x>> \notin unreached'
                PROVE  patch'.memory[p][x] = IF Owed(p, x)' THEN "int3" ELSE "code"
    BY DEF MemoriesMirrorTable
  <2>1. Living(p) /\ p \in Processes
    BY <1>13, LivingProcess DEF Inv
  <2>2. Owed(p, x)' <=> x \in DOMAIN patch.breakpoints \ {a}
    BY <1>0, <1>1, <1>9, AtPrompt DEF Owed, Contains
  <2>3. CASE x = a
    BY <1>8, <1>10, <2>1, <2>2, <2>3
  <2>4. CASE x # a
    BY <1>0, <1>8, <1>10, <2>1, <2>2, <2>4, AtPrompt DEF Contains
  <2>. QED
    BY <2>3, <2>4
<1>. QED
  BY <1>2, <1>11, <1>12, <1>14, <1>15 DEF Inv, Core

-----------------------------------------------------------------------------
(* continue, nexti and next over a call.                                   *)

(* A temporary breakpoint goes in, where there is none.                    *)
LEMMA TempIn ==
    ASSUME Inv, ~exited, mode = "prompt", Stopped(current_tid), NEW a \in Addrs, NEW q,
           q = insert_temp(patch, current_tid, a)
    PROVE  LET l == leader[current_tid] IN
           /\ l \in Tids /\ Living(l) /\ Born(current_tid) /\ Shape(q)
           /\ Contains(patch, a) => q = patch
           /\ DOMAIN q.breakpoints = DOMAIN patch.breakpoints \cup {a}
           /\ \A x \in DOMAIN patch.breakpoints : Saved(q, x) = Saved(patch, x)
           /\ ~Contains(patch, a) =>
                 /\ Saved(q, a) # "code" => <<l, a>> \in unreached
                 /\ q.memory[l][a] = "int3"
           /\ \A p \in Tids, x \in Addrs : p # l \/ x # a \/ Contains(patch, a) =>
                 q.memory[p][x] = patch.memory[p][x]
<1>. DEFINE l == leader[current_tid]
<1>1. current_tid \in Tids /\ Shape(patch)
  BY AtPrompt DEF Inv, Types
<1>2. l \in Tids /\ Living(l) /\ Born(current_tid)
  BY <1>1 DEF Inv, Kernel, KernelTypeOK, ThreadsOK, Born, Stopped, Living, Alive
<1>3. CASE Contains(patch, a)
  BY <1>1, <1>2, <1>3 DEF insert_temp, Contains
<1>4. CASE ~Contains(patch, a)
  <2>1. q = enable(patch, current_tid, a)
    BY <1>4 DEF insert_temp
  <2>2. patch.memory[l][a] # "code" => <<l, a>> \in unreached
    BY <1>2, <1>4, AtPrompt
  <2>. QED
    BY <1>1, <1>2, <1>4, <2>1, <2>2, Enables DEF Contains
<1>. QED
  BY <1>3, <1>4

(* The thread in focus goes, over the breakpoint it is at.                 *)
LEMMA StepsOver ==
    ASSUME Kernel, NEW q, Shape(q), current_tid \in Tids, leader[current_tid] \in Tids,
           Stopped(current_tid), NEW next \in {"wait", "call"}, step_over(q, next),
           \A t \in Tids : rip[t] # "off" => where[t] \in Addrs,
           UNCHANGED <<leader, sigs, rip>>
    PROVE  /\ Kernel' /\ NoneRises /\ Shape(patch')
           /\ DOMAIN patch'.breakpoints = DOMAIN q.breakpoints
           /\ \A x \in DOMAIN q.breakpoints : Saved(patch', x) = Saved(q, x)
           /\ \/ mode' = next /\ lifted' = NoAddr /\ patch' = q
              \/ /\ mode' = "stepover" /\ lifted' \in DOMAIN q.breakpoints
                 /\ \A p \in Tids, x \in Addrs :
                       patch'.memory[p][x] = IF p = leader[current_tid] /\ x = lifted'
                                             THEN Saved(q, x) ELSE q.memory[p][x]
<1>. DEFINE a == where[current_tid]
<1>0. rip' \in [Tids -> {"off", "at", "past"}]
  BY DEF Kernel, KernelTypeOK
<1>1. CASE rip[current_tid] = "at" /\ Enabled(q, a)
  <2>1. /\ patch' = disable(q, current_tid, a) /\ Resume(current_tid, "stepover")
        /\ mode' = "stepover" /\ lifted' = a /\ a \in Addrs /\ a \in DOMAIN q.breakpoints
    BY <1>1 DEF step_over, Enabled, Contains
  <2>2. Kernel' /\ NoneRises
    BY <1>0, <2>1, Resuming
  <2>. HIDE DEF a
  <2>3. /\ Shape(disable(q, current_tid, a))
        /\ DOMAIN disable(q, current_tid, a).breakpoints = DOMAIN q.breakpoints
        /\ \A x \in DOMAIN q.breakpoints : Saved(disable(q, current_tid, a), x) = Saved(q, x)
        /\ \A p \in Tids, x \in Addrs :
              disable(q, current_tid, a).memory[p][x] =
                  IF p = leader[current_tid] /\ x = a THEN Saved(q, a) ELSE q.memory[p][x]
    BY <1>1, <2>1, Disables
  <2>. QED
    BY <2>1, <2>2, <2>3
<1>2. CASE ~(rip[current_tid] = "at" /\ Enabled(q, a))
  <2>1. patch' = q /\ Resume(current_tid, "running") /\ mode' = next /\ lifted' = NoAddr
    BY <1>2 DEF step_over, Go
  <2>2. Kernel' /\ NoneRises
    BY <1>0, <2>1, Resuming
  <2>. QED
    BY <2>1, <2>2
<1>. QED
  BY <1>1, <1>2

LEMMA Runs ==
    ASSUME Inv, ~exited, mode = "prompt", NEW next \in {"wait", "call"},
           NEW q, NEW T \in Addrs \cup {NoAddr}, RunTo(q, T, next),
           \/ T = NoAddr /\ q = patch
           \/ T # NoAddr /\ ~Contains(patch, T) /\ q = insert_temp(patch, current_tid, T)
    PROVE  Inv'
<1>. DEFINE l == leader[current_tid]
<1>0. /\ Stopped(current_tid) /\ step_over(q, next) /\ after' = next /\ temp' = T
      /\ through' = IF T = NoAddr THEN NoTid ELSE current_tid
      /\ UNCHANGED <<leader, sigs, rip, where, unreached>>
      /\ UNCHANGED <<user, exited, current_tid, threads, pending_initial_stop, processes>>
  BY DEF RunTo, fields
<1>1. /\ Kernel /\ Shape(patch) /\ unreached \subseteq Tids \X Addrs
      /\ \A t \in Tids : rip[t] # "off" => where[t] \in Addrs
      /\ user \subseteq DOMAIN patch.breakpoints /\ current_tid \in Tids
  BY AtPrompt DEF Inv, Types
<1>2. l \in Tids /\ Living(l) /\ Born(current_tid) /\ l \in Processes
  <2>1. l \in Tids /\ Living(l) /\ Born(current_tid)
    BY <1>0, <1>1 DEF Kernel, KernelTypeOK, ThreadsOK, Born, Stopped, Living, Alive
  <2>. QED
    BY <1>1, <2>1, LivingProcess
<1>3. /\ Shape(q) /\ DOMAIN q.breakpoints = DOMAIN patch.breakpoints \cup ({T} \ {NoAddr})
      /\ \A x \in DOMAIN patch.breakpoints : Saved(q, x) = Saved(patch, x)
      /\ \A p \in Tids, x \in Addrs : p # l \/ x # T => q.memory[p][x] = patch.memory[p][x]
      /\ T # NoAddr => /\ T \in Addrs /\ T \notin DOMAIN patch.breakpoints
                       /\ Saved(q, T) # "code" => <<l, T>> \in unreached
                       /\ q.memory[l][T] = "int3"
  <2>1. CASE T = NoAddr /\ q = patch
    BY <1>1, <2>1
  <2>2. CASE T # NoAddr /\ ~Contains(patch, T) /\ q = insert_temp(patch, current_tid, T)
    <3>1. T \in Addrs /\ T \notin DOMAIN patch.breakpoints
      BY <2>2 DEF Contains
    <3>. QED
      BY <1>0, <2>2, <3>1, TempIn
  <2>. QED
    BY <2>1, <2>2
<1>4. /\ Kernel' /\ NoneRises /\ Shape(patch')
      /\ DOMAIN patch'.breakpoints = DOMAIN q.breakpoints
      /\ \A x \in DOMAIN q.breakpoints : Saved(patch', x) = Saved(q, x)
      /\ \/ mode' = next /\ lifted' = NoAddr /\ patch' = q
         \/ /\ mode' = "stepover" /\ lifted' \in DOMAIN q.breakpoints
            /\ \A p \in Tids, x \in Addrs :
                  patch'.memory[p][x] = IF p = l /\ x = lifted' THEN Saved(q, x) ELSE q.memory[p][x]
  BY <1>0, <1>1, <1>2, <1>3, StepsOver
<1>. HIDE DEF l
<1>5. \A p \in Tids, x \in Addrs :
         patch'.memory[p][x] = IF p = l /\ x = lifted' THEN Saved(q, x) ELSE q.memory[p][x]
  BY <1>4, BreakpointsAssumption
<1>6. Types' /\ FocusOK'
  <2>1. lifted' \in Addrs \cup {NoAddr} /\ mode' \in {"wait", "call", "stepover"}
    BY <1>3, <1>4 DEF Shape
  <2>. QED
    BY <1>0, <1>1, <1>3, <1>4, <2>1 DEF Inv, Types, FocusOK
<1>7. ModeOK'
  BY <1>4 DEF ModeOK
<1>8. TempOK'
  BY <1>0, <1>1, <1>2, <1>3, <1>4, <1>5 DEF TempOK, Contains, Born, l
<1>9. LiftedOK'
  <2>. SUFFICES ASSUME mode' = "stepover"
                PROVE  /\ Born(current_tid) /\ lifted' \in DOMAIN patch'.breakpoints
                       /\ patch'.memory[l][lifted'] = Saved(patch', lifted')
    BY <1>0 DEF LiftedOK, Contains, Born, l
  <2>1. lifted' \in DOMAIN q.breakpoints /\ lifted' \in Addrs
    BY <1>3, <1>4 DEF Shape
  <2>. QED
    BY <1>2, <1>4, <1>5, <2>1
<1>10. Processes' = Processes /\ \A p \in Tids : Living(p)' => Living(p)
  BY <1>0, <1>4, SameProcesses
<1>11. SavedOK'
  <2>. SUFFICES ASSUME NEW x \in DOMAIN q.breakpoints, Saved(q, x) # "code"
                PROVE  IF x = T THEN <<l, x>> \in unreached
                                ELSE \A p \in Processes : <<p, x>> \in unreached
    BY <1>0, <1>3, <1>4, <1>10, BreakpointsAssumption DEF SavedOK, l, Shape
  <2>. QED
    BY <1>3, AtPrompt, BreakpointsAssumption DEF Shape
<1>12. MemoriesMirrorTable'
  <2>. SUFFICES ASSUME NEW p \in Tids, NEW x \in Addrs, Living(p)', <<p, x>> \notin unreached
                PROVE  patch'.memory[p][x] = IF Owed(p, x)' THEN "int3" ELSE "code"
    BY <1>0 DEF MemoriesMirrorTable
  <2>1. Living(p) /\ patch.memory[p][x] = IF Contains(patch, x) THEN "int3" ELSE "code"
    BY <1>10, AtPrompt
  <2>2. Owed(p, x)' <=> x \in DOMAIN q.breakpoints /\ (x = T => p = l) /\ ~(x = lifted' /\ p = l)
    BY <1>0, <1>4, BreakpointsAssumption DEF Owed, Contains, l
  <2>3. CASE x = T
    BY <1>3, <1>5, <2>1, <2>2, <2>3, BreakpointsAssumption DEF Contains
  <2>4. CASE x # T
    <3>1. x = lifted' /\ p = l => Saved(q, x) = "code"
      <4>1. CASE x \in DOMAIN patch.breakpoints
        BY <1>2, <1>3, <4>1, AtPrompt
      <4>2. CASE x \notin DOMAIN patch.breakpoints
        BY <1>3, <1>4, <2>4, <4>2, BreakpointsAssumption
      <4>. QED
        BY <4>1, <4>2
    <3>. QED
      BY <1>3, <1>4, <1>5, <2>1, <2>2, <2>4, <3>1, BreakpointsAssumption DEF Contains
  <2>. QED
    BY <2>3, <2>4
<1>. QED
  BY <1>4, <1>6, <1>7, <1>8, <1>9, <1>11, <1>12 DEF Inv, Core

LEMMA Conts == ASSUME Inv, cont PROVE Inv'
BY Runs DEF cont, Begin

LEMMA Goes ==
    ASSUME Inv, NEW a \in Addrs, nexti(a) \/ run_over_call(a) PROVE Inv'
<1>1. ~exited /\ mode = "prompt"
  BY DEF nexti, run_over_call, Begin
<1>2. PICK next \in {"wait", "call"} : RunTo(insert_temp(patch, current_tid, a), TempAt(a), next)
  BY DEF nexti, run_over_call, RunToReturn
<1>3. CASE Contains(patch, a)
  BY <1>1, <1>2, <1>3, Runs DEF insert_temp, TempAt
<1>4. CASE ~Contains(patch, a)
  BY <1>1, <1>2, <1>4, Runs, BreakpointsAssumption DEF TempAt
<1>. QED
  BY <1>3, <1>4

-----------------------------------------------------------------------------
(* How the commands end.  A table and memories with no int3 lifted, as far *)
(* as processes live: what the end of a command works on.                  *)
Sound(p) ==
    /\ Shape(p) /\ DOMAIN p.breakpoints = DOMAIN patch.breakpoints
    /\ \A a \in DOMAIN patch.breakpoints : Saved(p, a) = Saved(patch, a)
    /\ \A q \in Tids, a \in Addrs :
          Living(q) /\ <<q, a>> \notin unreached =>
              p.memory[q][a] = IF Contains(patch, a) /\ (a = temp => q = leader[through])
                               THEN "int3" ELSE "code"
    /\ temp # NoAddr /\ Living(leader[through]) => p.memory[leader[through]][temp] = "int3"

LEMMA SoundAsItIs ==
    ASSUME Inv, ~exited, mode # "stepover" PROVE Sound(patch)
<1>1. /\ lifted = NoAddr /\ NoAddr \notin Addrs /\ Shape(patch) /\ temp \in Addrs \cup {NoAddr}
      /\ MemoriesMirrorTable /\ TempOK
  BY BreakpointsAssumption DEF Inv, Types, Core, ModeOK
<1>2. \A q \in Tids, a \in Addrs :
         Owed(q, a) <=> Contains(patch, a) /\ (a = temp => q = leader[through])
  BY <1>1 DEF Owed
<1>. QED
  BY <1>1, <1>2 DEF Sound, MemoriesMirrorTable, TempOK

(* The int3 goes back where it was lifted.                                 *)
LEMMA SoundLowered ==
    ASSUME Inv, ~exited, mode = "stepover" PROVE Sound(relower(current_tid))
<1>. DEFINE l == leader[current_tid]
            p == enable(patch, current_tid, lifted)
<1>1. /\ Shape(patch) /\ MemoriesMirrorTable /\ TempOK /\ current_tid \in Tids
      /\ Born(current_tid) /\ Contains(patch, lifted) /\ patch.memory[l][lifted] = Saved(patch, lifted)
  BY DEF Inv, Types, FocusOK, Core, LiftedOK
<1>2. l \in Tids /\ lifted \in Addrs /\ lifted \in DOMAIN patch.breakpoints /\ relower(current_tid) = p
  BY <1>1 DEF Inv, Kernel, KernelTypeOK, Born, Contains, Shape, relower
<1>3. /\ Shape(p) /\ DOMAIN p.breakpoints = DOMAIN patch.breakpoints
      /\ \A a \in DOMAIN patch.breakpoints : Saved(p, a) = Saved(patch, a)
      /\ \A q \in Tids, a \in Addrs :
            p.memory[q][a] = IF q = l /\ a = lifted THEN "int3" ELSE patch.memory[q][a]
  <2>1. /\ Shape(p) /\ DOMAIN p.breakpoints = DOMAIN patch.breakpoints \cup {lifted}
        /\ Saved(p, lifted) = patch.memory[l][lifted]
        /\ \A a \in DOMAIN patch.breakpoints \ {lifted} : Saved(p, a) = Saved(patch, a)
        /\ \A q \in Tids, a \in Addrs :
              p.memory[q][a] = IF q = l /\ a = lifted THEN "int3" ELSE patch.memory[q][a]
    BY <1>1, <1>2, Enables
  <2>. HIDE DEF p
  <2>2. DOMAIN p.breakpoints = DOMAIN patch.breakpoints
    BY <1>2, <2>1
  <2>. QED
    BY <1>1, <2>1, <2>2
<1>. HIDE DEF p
<1>4. temp # NoAddr => p.memory[leader[through]][temp] = "int3"
  <2>. SUFFICES ASSUME temp # NoAddr PROVE p.memory[l][temp] = "int3"
    BY <1>1 DEF TempOK
  <2>1. temp \in Addrs /\ (temp # lifted => patch.memory[l][temp] = "int3")
    BY <1>1 DEF TempOK, Inv, Types
  <2>. QED
    BY <1>2, <1>3, <2>1
<1>5. ASSUME NEW q \in Tids, NEW a \in Addrs, Living(q), <<q, a>> \notin unreached
      PROVE  p.memory[q][a] = IF Contains(patch, a) /\ (a = temp => q = leader[through])
                              THEN "int3" ELSE "code"
  <2>1. CASE q = l /\ a = lifted
    BY <1>1, <1>2, <1>3, <2>1, BreakpointsAssumption DEF TempOK
  <2>2. CASE ~(q = l /\ a = lifted)
    BY <1>1, <1>3, <1>5, <2>2 DEF MemoriesMirrorTable, Owed
  <2>. QED
    BY <2>1, <2>2
<1>. QED
  BY <1>2, <1>3, <1>4, <1>5 DEF Sound

(* A signal has ended the process, and nothing of it lives.                *)
LEMMA SoundWhenDead ==
    ASSUME Inv, ~exited, mode = "stepover", report[current_tid].kind = "signaled"
    PROVE  Sound(patch)
<1>1. /\ Shape(patch) /\ MemoriesMirrorTable /\ current_tid \in Tids
      /\ temp # NoAddr => through = current_tid
  BY DEF Inv, Types, FocusOK, Core, TempOK
<1>2. ~Living(leader[current_tid])
  BY <1>1 DEF Living, Inv, Kernel, ThreadsOK
<1>. QED
  BY <1>1, <1>2 DEF Sound, MemoriesMirrorTable, Owed

(* It goes on, in the mode that was to follow.                             *)
LEMMA GoesOn ==
    ASSUME Inv, ~exited, NEW p, Sound(p), Living(leader[through]) \/ temp = NoAddr, NoneRises,
           mode' \in {"wait", "call"}, lifted' = NoAddr, patch' = p,
           UNCHANGED <<leader, user, unreached, temp, through, current_tid>>
    PROVE  Core'
<1>0. /\ leader' = leader /\ user' = user /\ unreached' = unreached /\ temp' = temp
      /\ through' = through /\ NoAddr \notin Addrs
      /\ Core /\ DOMAIN patch.breakpoints \subseteq Addrs /\ lifted' = NoAddr
      /\ \A a \in Addrs : a # lifted'
  BY BreakpointsAssumption DEF Inv, Types, Shape
<1>1. /\ DOMAIN p.breakpoints = DOMAIN patch.breakpoints
      /\ \A a \in DOMAIN patch.breakpoints : Saved(p, a) = Saved(patch, a)
      /\ \A q \in Tids, a \in Addrs :
            Living(q) /\ <<q, a>> \notin unreached =>
                p.memory[q][a] = IF Contains(patch, a) /\ (a = temp => q = leader[through])
                                 THEN "int3" ELSE "code"
      /\ temp # NoAddr => p.memory[leader[through]][temp] = "int3"
  BY DEF Sound
<1>2. Processes' = Processes /\ \A q \in Tids : Living(q)' => Living(q)
  BY <1>0, SameProcesses
<1>3. ModeOK' /\ LiftedOK'
  BY <1>0 DEF ModeOK, LiftedOK
<1>4. TempOK'
  BY <1>0, <1>1 DEF Core, TempOK, Contains, Born
<1>5. SavedOK'
  BY <1>0, <1>1, <1>2 DEF Core, SavedOK
<1>6. MemoriesMirrorTable'
  BY <1>0, <1>1, <1>2 DEF MemoriesMirrorTable, Owed, Contains
<1>. QED
  BY <1>3, <1>4, <1>5, <1>6 DEF Core

(* A command that is over: what the table and the memories are by then.    *)
LEMMA Over ==
    ASSUME Inv, ~exited, NoneRises, Return, UNCHANGED <<leader, user>>,
           Shape(patch'), user \subseteq DOMAIN patch'.breakpoints,
           \A a \in DOMAIN patch'.breakpoints :
              Saved(patch', a) # "code" => \A q \in Processes : <<q, a>> \in unreached',
           \A q \in Tids, a \in Addrs : Living(q) /\ <<q, a>> \notin unreached' =>
              patch'.memory[q][a] = IF a \in DOMAIN patch'.breakpoints THEN "int3" ELSE "code"
    PROVE  Core'
<1>0. /\ mode' = "prompt" /\ lifted' = NoAddr /\ temp' = NoAddr /\ \A a \in Addrs : a # NoAddr
  BY BreakpointsAssumption DEF Return
<1>1. Processes' = Processes /\ \A q \in Tids : Living(q)' => Living(q)
  BY SameProcesses
<1>2. DOMAIN patch'.breakpoints \subseteq Addrs
  BY DEF Shape
<1>3. ModeOK' /\ TempOK' /\ LiftedOK'
  BY <1>0 DEF ModeOK, TempOK, LiftedOK
<1>4. SavedOK'
  BY <1>0, <1>1, <1>2 DEF SavedOK
<1>5. MemoriesMirrorTable'
  BY <1>0, <1>1 DEF MemoriesMirrorTable, Owed, Contains
<1>. QED
  BY <1>3, <1>4, <1>5 DEF Core

LEMMA Removes ==
    ASSUME Inv, ~exited, NEW p, Sound(p), remove_temp(p), NoneRises, Return, UNCHANGED <<leader, user>>
    PROVE  /\ Core' /\ Shape(patch') /\ user \subseteq DOMAIN patch'.breakpoints
           /\ unreached' \subseteq Tids \X Addrs
<1>0. /\ Shape(p) /\ DOMAIN p.breakpoints = DOMAIN patch.breakpoints
      /\ \A a \in DOMAIN patch.breakpoints : Saved(p, a) = Saved(patch, a)
      /\ \A q \in Tids, a \in Addrs :
            Living(q) /\ <<q, a>> \notin unreached =>
                p.memory[q][a] = IF Contains(patch, a) /\ (a = temp => q = leader[through])
                                 THEN "int3" ELSE "code"
      /\ user \subseteq DOMAIN patch.breakpoints /\ DOMAIN patch.breakpoints \subseteq Addrs
      /\ unreached \subseteq Tids \X Addrs /\ TempOK
      /\ \A a \in DOMAIN patch.breakpoints : Saved(patch, a) # "code" =>
            IF a = temp THEN <<leader[through], a>> \in unreached
                        ELSE \A q \in Processes : <<q, a>> \in unreached
      /\ NoAddr \notin Addrs /\ temp \in Addrs \cup {NoAddr} /\ Kernel
  BY BreakpointsAssumption DEF Inv, Types, Core, Sound, SavedOK, Shape
<1>. DEFINE Kept == /\ Shape(patch') /\ user \subseteq DOMAIN patch'.breakpoints
                    /\ \A a \in DOMAIN patch'.breakpoints :
                          Saved(patch', a) # "code" => \A q \in Processes : <<q, a>> \in unreached'
                    /\ \A q \in Tids, a \in Addrs : Living(q) /\ <<q, a>> \notin unreached' =>
                          patch'.memory[q][a] = IF a \in DOMAIN patch'.breakpoints THEN "int3" ELSE "code"
                    /\ unreached' \subseteq Tids \X Addrs
<1>1. CASE temp = NoAddr
  <2>1. patch' = p /\ unreached' = unreached
    BY <1>1 DEF remove_temp, Keep
  <2>. QED
    <3>1. Kept
      BY <1>0, <1>1, <2>1 DEF Contains
    <3>. QED
      BY <3>1, Over
<1>2. CASE temp # NoAddr
  <2>. DEFINE own == IF Enabled(p, temp) /\ Stopped(through) THEN {leader[through]} ELSE {}
              d   == Drop(p, temp)
  <2>1. /\ patch' = Write(d, own, temp, Saved(p, temp))
        /\ IF own = {} \/ Saved(p, temp) # "code"
           THEN unreached' = unreached \cup {<<leader[through], temp>>}
           ELSE unreached' = unreached
    BY <1>2 DEF remove_temp
  <2>2. /\ temp \in Addrs /\ temp \in DOMAIN p.breakpoints /\ temp \notin user
        /\ leader[through] \in Tids
    BY <1>0, <1>2 DEF TempOK, Contains, Kernel, KernelTypeOK, Born
  <2>3. Saved(p, temp) \in Bytes
    BY <1>0, <2>2, Saves
  <2>4. /\ Shape(d) /\ d.memory = p.memory /\ DOMAIN d.breakpoints = DOMAIN p.breakpoints \ {temp}
        /\ \A x \in DOMAIN p.breakpoints \ {temp} : d.breakpoints[x] = p.breakpoints[x]
    BY <1>0, Drops
  <2>5. own = {} \/ own = {leader[through]}
    OBVIOUS
  <2>. HIDE DEF own, d
  <2>6. /\ Shape(patch') /\ patch'.breakpoints = d.breakpoints
        /\ \A q \in Tids, x \in Addrs :
              patch'.memory[q][x] = IF q \in own /\ x = temp THEN Saved(p, temp) ELSE p.memory[q][x]
    BY <2>1, <2>2, <2>3, <2>4, Written
  <2>7. /\ unreached' \subseteq Tids \X Addrs /\ unreached \subseteq unreached'
        /\ \A q \in Tids, x \in Addrs : <<q, x>> \in unreached' =>
              <<q, x>> \in unreached \/ (q = leader[through] /\ x = temp)
        /\ <<leader[through], temp>> \notin unreached' => own # {} /\ Saved(p, temp) = "code"
    BY <1>0, <2>1, <2>2
  <2>8. \A a \in DOMAIN patch'.breakpoints :
           Saved(patch', a) # "code" => \A q \in Processes : <<q, a>> \in unreached'
    BY <1>0, <2>4, <2>6, <2>7 DEF Saved
  <2>9. ASSUME NEW q \in Tids, NEW a \in Addrs, Living(q), <<q, a>> \notin unreached'
        PROVE  patch'.memory[q][a] = IF a \in DOMAIN patch'.breakpoints THEN "int3" ELSE "code"
    <3>1. /\ <<q, a>> \notin unreached
          /\ p.memory[q][a] = IF Contains(patch, a) /\ (a = temp => q = leader[through])
                              THEN "int3" ELSE "code"
      BY <1>0, <2>7, <2>9
    <3>2. CASE a # temp
      BY <1>0, <2>4, <2>6, <3>1, <3>2 DEF Contains
    <3>3. CASE a = temp
      <4>1. a \notin DOMAIN patch'.breakpoints
        BY <2>4, <2>6, <3>3
      <4>2. CASE q = leader[through]
        BY <2>5, <2>6, <2>7, <2>9, <3>3, <4>1, <4>2
      <4>3. CASE q # leader[through]
        BY <2>5, <2>6, <3>1, <3>3, <4>1, <4>3
      <4>. QED
        BY <4>2, <4>3
    <3>. QED
      BY <3>2, <3>3
  <2>10. user \subseteq DOMAIN patch'.breakpoints
    BY <1>0, <2>2, <2>4, <2>6
  <2>. QED
    BY <2>6, <2>7, <2>8, <2>9, <2>10, Over
<1>. QED
  BY <1>1, <1>2

LEMMA Abandons ==
    ASSUME Inv, ~exited, NEW p, Sound(p), Abandon(p), NoneRises, Return, UNCHANGED <<leader, user>>
    PROVE  /\ Core' /\ Shape(patch') /\ user \subseteq DOMAIN patch'.breakpoints
           /\ unreached' \subseteq Tids \X Addrs
<1>0. /\ Shape(p) /\ DOMAIN p.breakpoints = DOMAIN patch.breakpoints
      /\ \A a \in DOMAIN patch.breakpoints : Saved(p, a) = Saved(patch, a)
      /\ \A q \in Tids, a \in Addrs :
            Living(q) /\ <<q, a>> \notin unreached =>
                p.memory[q][a] = IF Contains(patch, a) /\ (a = temp => q = leader[through])
                                 THEN "int3" ELSE "code"
      /\ temp # NoAddr /\ Living(leader[through]) => p.memory[leader[through]][temp] = "int3"
      /\ user \subseteq DOMAIN patch.breakpoints /\ DOMAIN patch.breakpoints \subseteq Addrs
      /\ unreached \subseteq Tids \X Addrs /\ TempOK
      /\ \A a \in DOMAIN patch.breakpoints : Saved(patch, a) # "code" =>
            IF a = temp THEN <<leader[through], a>> \in unreached
                        ELSE \A q \in Processes : <<q, a>> \in unreached
      /\ NoAddr \notin Addrs /\ temp \in Addrs \cup {NoAddr} /\ Kernel /\ patch' = p
  BY BreakpointsAssumption DEF Inv, Types, Core, Sound, SavedOK, Shape, Abandon
<1>1. CASE temp = NoAddr
  <2>1. patch' = p /\ unreached' = unreached /\ \A a \in Addrs : a # temp
    BY <1>0, <1>1 DEF Abandon
  <2>2. \A a \in DOMAIN p.breakpoints :
           Saved(p, a) # "code" => \A q \in Processes : <<q, a>> \in unreached
    <3>. SUFFICES ASSUME NEW a \in DOMAIN p.breakpoints, Saved(p, a) # "code"
                  PROVE  \A q \in Processes : <<q, a>> \in unreached
      OBVIOUS
    <3>1. a \in DOMAIN patch.breakpoints /\ a # temp /\ Saved(patch, a) # "code"
      BY <1>0, <2>1
    <3>. QED
      BY <1>0, <3>1
  <2>3. \A q \in Tids, a \in Addrs : Living(q) /\ <<q, a>> \notin unreached =>
           p.memory[q][a] = IF a \in DOMAIN p.breakpoints THEN "int3" ELSE "code"
    BY <1>0, <2>1 DEF Contains
  <2>. QED
    BY <1>0, <2>1, <2>2, <2>3, Over
<1>2. CASE temp # NoAddr
  <2>1. /\ temp \in Addrs /\ temp \in DOMAIN patch.breakpoints
        /\ Reaches(temp, {leader[through]}, Saved(p, temp) = "code")
    BY <1>0, <1>2 DEF Abandon, TempOK, Contains
  <2>. DEFINE known == Saved(p, temp) = "code"
              S == {leader[through]}
  <2>0. (known <=> Saved(p, temp) = "code") /\ Reaches(temp, S, known)
    BY <2>1
  <2>. HIDE DEF known
  <2>2. /\ unreached' \subseteq Tids \X Addrs
        /\ \A q \in Tids, x \in Addrs : x # temp => (<<q, x>> \in unreached' <=> <<q, x>> \in unreached)
        /\ \A q \in Processes : <<q, temp>> \notin unreached' => q = leader[through]
        /\ Saved(p, temp) # "code" => \A q \in Processes : <<q, temp>> \in unreached'
    BY <1>0, <2>0, <2>1, Reaching
  <2>3. \A a \in DOMAIN patch'.breakpoints :
           Saved(patch', a) # "code" => \A q \in Processes : <<q, a>> \in unreached'
    BY <1>0, <2>2 DEF Processes
  <2>4. ASSUME NEW q \in Tids, NEW a \in Addrs, Living(q), <<q, a>> \notin unreached'
        PROVE  patch'.memory[q][a] = IF a \in DOMAIN patch'.breakpoints THEN "int3" ELSE "code"
    <3>1. q \in Processes
      BY <1>0, <2>4, LivingProcess
    <3>2. CASE a # temp
      BY <1>0, <2>2, <2>4, <3>2 DEF Contains
    <3>3. CASE a = temp
      BY <1>0, <1>2, <2>1, <2>2, <2>4, <3>1, <3>3
    <3>. QED
      BY <3>2, <3>3
  <2>. QED
    BY <1>0, <2>2, <2>3, <2>4, Over
<1>. QED
  BY <1>1, <1>2

-----------------------------------------------------------------------------
(* The waits.                                                              *)

(* The fields a wait may change, and the places where threads are.         *)
Fields == /\ exited \in BOOLEAN /\ current_tid \in Tids \cup {NoTid}
          /\ threads \subseteq Tids /\ pending_initial_stop \subseteq Tids /\ processes \subseteq Tids
          /\ where \in [Tids -> Addrs \cup {NoAddr}]
          /\ \A t \in Tids : rip[t] # "off" => where[t] \in Addrs

LEMMA Ends0 ==
    ASSUME Inv, Kernel', Fields', exited', Return, UNCHANGED <<patch, user, unreached>>
    PROVE  Inv'
BY DEF Inv, Types, FocusOK, Fields, Return

LEMMA Overs ==
    ASSUME Inv, Kernel', Fields', ~exited', current_tid' \in Tids, Return, UNCHANGED user,
           Core', Shape(patch'), user \subseteq DOMAIN patch'.breakpoints,
           unreached' \subseteq Tids \X Addrs
    PROVE  Inv'
BY DEF Inv, Types, FocusOK, Fields, Return

LEMMA Corrected ==
    ASSUME Kernel, NEW t \in Tids, \A u \in Tids : rip[u] # "off" => where[u] \in Addrs,
           fixup_breakpoint_rip(t) \/ UNCHANGED rip, UNCHANGED where
    PROVE  /\ rip' \in [Tids -> {"off", "at", "past"}]
           /\ \A u \in Tids : rip'[u] # "off" => where'[u] \in Addrs
BY DEF Kernel, KernelTypeOK, fixup_breakpoint_rip

(* What Inv says while a command waits.                                    *)
LEMMA Waiting ==
    ASSUME Inv, mode # "prompt"
    PROVE  /\ ~exited /\ Kernel /\ Fields /\ current_tid \in Tids
           /\ rip \in [Tids -> {"off", "at", "past"}]
BY DEF Inv, FocusOK, Types, Fields, Kernel, KernelTypeOK

LEMMA StepsOverCurrent == ASSUME Inv, step_over_current_breakpoint PROVE Inv'
<1>. DEFINE t == current_tid
<1>0. /\ mode = "stepover" /\ UNCHANGED <<leader, sigs, rip>>
      /\ UNCHANGED <<where, user, current_tid, threads, pending_initial_stop, processes>>
  BY DEF step_over_current_breakpoint
<1>1. /\ ~exited /\ Kernel /\ Fields /\ t \in Tids /\ rip' \in [Tids -> {"off", "at", "past"}]
  BY <1>0, Waiting
<1>2. CASE report[t].kind = "exited"
  <2>1. exited' = TRUE /\ Consume(t) /\ Return /\ Keep(patch)
    BY <1>2 DEF step_over_current_breakpoint
  <2>2. Kernel'
    BY <1>0, <1>1, <2>1, Consuming
  <2>3. Fields'
    BY <1>0, <1>1, <2>1 DEF Fields
  <2>. QED
    BY <1>0, <2>1, <2>2, <2>3, Ends0 DEF Keep
<1>3. CASE report[t].kind = "signaled"
  <2>1. exited' = exited /\ Consume(t) /\ Return /\ Abandon(patch)
    BY <1>3 DEF step_over_current_breakpoint
  <2>2. Kernel' /\ NoneRises
    BY <1>0, <1>1, <2>1, Consuming
  <2>3. Fields'
    BY <1>0, <1>1, <2>1 DEF Fields
  <2>4. Core' /\ Shape(patch') /\ user \subseteq DOMAIN patch'.breakpoints /\ unreached' \subseteq Tids \X Addrs
    BY <1>0, <1>1, <1>3, <2>1, <2>2, SoundWhenDead, Abandons
  <2>. QED
    BY <1>0, <1>1, <2>1, <2>2, <2>3, <2>4, Overs
<1>4. CASE report[t].kind \notin Ends
  <2>0. Sound(relower(t))
    BY <1>0, <1>1, SoundLowered
  <2>1. exited' = exited /\ Fields'
    BY <1>0, <1>1, <1>4 DEF step_over_current_breakpoint, Ends, Fields
  <2>2. CASE Go(after) /\ Keep(relower(t)) /\ UNCHANGED <<after, temp, through>>
    <3>1. /\ patch' = relower(t) /\ unreached' = unreached
          /\ mode' = after /\ lifted' = NoAddr /\ Resume(t, "running") /\ after \in {"wait", "call"}
      BY <2>2 DEF Go, Keep, Inv, Types
    <3>2. Stopped(t)
      <4>1. report[t] # Quiet
        BY DEF step_over_current_breakpoint, Waitable
      <4>2. report[t] \in Reports
        BY <1>1 DEF Kernel, KernelTypeOK
      <4>3. report[t].kind \in Stops \cup Births0
        BY <1>4, <4>1, <4>2, ReportKinds DEF Reports
      <4>. QED
        BY <1>1, <4>3 DEF Kernel, ThreadsOK
    <3>3. Kernel' /\ NoneRises
      BY <1>0, <1>1, <3>1, <3>2, Resuming
    <3>4. Living(leader[through]) \/ temp = NoAddr
      BY <1>0, <1>1, <3>2 DEF Inv, Core, TempOK, Living, Alive
    <3>5. Core'
      BY <1>0, <1>1, <2>0, <2>2, <3>1, <3>3, <3>4, GoesOn
    <3>6. Shape(patch') /\ user \subseteq DOMAIN patch'.breakpoints
      BY <2>0, <3>1 DEF Sound, Inv, Types
    <3>. QED
      BY <1>0, <1>1, <2>1, <2>2, <3>1, <3>3, <3>5, <3>6 DEF Inv, Types, FocusOK, Fields
  <2>3. CASE /\ Consume(t) /\ Return
             /\ IF after = "call" THEN Abandon(relower(t)) ELSE remove_temp(relower(t))
    <3>1. Kernel' /\ NoneRises
      BY <1>0, <1>1, <2>3, Consuming
    <3>2. Core' /\ Shape(patch') /\ user \subseteq DOMAIN patch'.breakpoints /\ unreached' \subseteq Tids \X Addrs
      BY <1>0, <1>1, <2>0, <2>3, <3>1, Abandons, Removes
    <3>. QED
      BY <1>0, <1>1, <2>1, <2>3, <3>1, <3>2, Overs
  <2>. QED
    BY <1>4, <2>2, <2>3 DEF step_over_current_breakpoint, Ends
<1>. QED
  BY <1>2, <1>3, <1>4 DEF Ends

LEMMA CallWaited == ASSUME Inv, call_waited PROVE Inv'
<1>. DEFINE t == current_tid
<1>0. /\ mode = "call" /\ UNCHANGED <<leader, sigs>> /\ Consume(t) /\ Return
      /\ UNCHANGED <<where, user, current_tid, threads, pending_initial_stop, processes>>
  BY DEF call_waited
<1>1. ~exited /\ Kernel /\ Fields /\ t \in Tids
  BY <1>0, Waiting
<1>2. fixup_breakpoint_rip(t) \/ UNCHANGED rip
  BY DEF call_waited
<1>3. rip' \in [Tids -> {"off", "at", "past"}] /\ \A u \in Tids : rip'[u] # "off" => where'[u] \in Addrs
  BY <1>0, <1>1, <1>2, Corrected DEF Fields
<1>4. Kernel' /\ NoneRises
  BY <1>0, <1>1, <1>3, Consuming
<1>5. CASE report[t].kind \in Ends
  <2>1. exited' = TRUE /\ Keep(patch)
    BY <1>5 DEF call_waited
  <2>2. Fields'
    BY <1>0, <1>1, <1>3, <2>1 DEF Fields
  <2>. QED
    BY <1>0, <1>4, <2>1, <2>2, Ends0 DEF Keep
<1>6. CASE report[t].kind \notin Ends
  <2>1. exited' = exited /\ remove_temp(patch)
    BY <1>6 DEF call_waited
  <2>2. Fields'
    BY <1>0, <1>1, <1>3, <2>1 DEF Fields
  <2>3. Core' /\ Shape(patch') /\ user \subseteq DOMAIN patch'.breakpoints /\ unreached' \subseteq Tids \X Addrs
    BY <1>0, <1>1, <1>4, <2>1, SoundAsItIs, Removes
  <2>. QED
    BY <1>0, <1>1, <1>4, <2>1, <2>2, <2>3, Overs
<1>. QED
  BY <1>5, <1>6

LEMMA WaitStopped == ASSUME Inv, NEW t \in Tids, wait_stopped(t) PROVE Inv'
<1>0. /\ mode = "wait" /\ UNCHANGED <<leader, sigs>> /\ Consume(t) /\ Return /\ current_tid' = t
      /\ UNCHANGED <<where, user, exited, threads, pending_initial_stop, processes>>
      /\ remove_temp(patch)
  BY DEF wait_stopped, InWait
<1>1. ~exited /\ Kernel /\ Fields
  BY <1>0, Waiting
<1>2. fixup_breakpoint_rip(t) \/ UNCHANGED rip
  BY DEF wait_stopped
<1>3. rip' \in [Tids -> {"off", "at", "past"}] /\ \A u \in Tids : rip'[u] # "off" => where'[u] \in Addrs
  BY <1>0, <1>1, <1>2, Corrected DEF Fields
<1>4. Kernel' /\ NoneRises
  BY <1>0, <1>1, <1>3, Consuming
<1>5. Fields'
  BY <1>0, <1>1, <1>3 DEF Fields
<1>6. Core' /\ Shape(patch') /\ user \subseteq DOMAIN patch'.breakpoints /\ unreached' \subseteq Tids \X Addrs
  BY <1>0, <1>1, <1>4, SoundAsItIs, Removes
<1>. QED
  BY <1>0, <1>1, <1>4, <1>5, <1>6, Overs

(* Steps that leave the breakpoints alone and the session alive.           *)
LEMMA Stays ==
    ASSUME Inv, ~exited, Kernel', NoneRises, Fields', ~exited', current_tid' \in Tids, Unmoved,
           mode # "stepover" \/ UNCHANGED current_tid
    PROVE  Inv'
<1>1. Core'
  BY CoreUnmoved
<1>. QED
  BY <1>1 DEF Inv, Types, FocusOK, Fields, Unmoved

LEMMA WaitEvent == ASSUME Inv, NEW t \in Tids, wait_event(t) PROVE Inv'
<1>. DEFINE c == report[t].child
<1>0. /\ mode = "wait" /\ report[t].kind \in Births0 /\ Enter(c) /\ TryResume(t)
      /\ processes' = register_process(c, report[t].kind)
      /\ UNCHANGED <<leader, sigs, rip, where, patch, user, exited, current_tid, unreached>>
      /\ UNCHANGED <<mode, after, lifted, temp, through>>
  BY DEF wait_event, InWait, steps
<1>1. ~exited /\ Kernel /\ Fields /\ current_tid \in Tids /\ rip' \in [Tids -> {"off", "at", "past"}]
  BY <1>0, Waiting
<1>2. c \in Tids
  BY <1>0, <1>1 DEF Kernel, KernelTypeOK, Reports, Births0, Stops, Ends, Quiet, Report, Event
<1>3. Stopped(t)
  BY <1>0, <1>1 DEF Kernel, ThreadsOK
<1>4. Kernel' /\ NoneRises
  BY <1>0, <1>1, <1>3, Resuming DEF TryResume
<1>5. Fields'
  BY <1>0, <1>1, <1>2 DEF Fields, Enter, register_process
<1>. QED
  BY <1>0, <1>1, <1>4, <1>5, Stays DEF Unmoved

LEMMA WaitInitialStop == ASSUME Inv, NEW t \in Tids, wait_initial_stop(t) PROVE Inv'
<1>0. /\ mode = "wait" /\ report[t].kind \in Stops /\ Resume(t, "running")
      /\ threads' = threads \cup {t} /\ pending_initial_stop' = pending_initial_stop \ {t}
      /\ UNCHANGED <<leader, sigs, rip, where, patch, user, exited, current_tid, processes, unreached>>
      /\ UNCHANGED <<mode, after, lifted, temp, through>>
  BY DEF wait_initial_stop, InWait, steps
<1>1. ~exited /\ Kernel /\ Fields /\ current_tid \in Tids /\ rip' \in [Tids -> {"off", "at", "past"}]
  BY <1>0, Waiting
<1>2. Stopped(t)
  BY <1>0, <1>1 DEF Kernel, ThreadsOK
<1>3. Kernel' /\ NoneRises
  BY <1>0, <1>1, <1>2, Resuming
<1>4. Fields'
  BY <1>0, <1>1 DEF Fields
<1>. QED
  BY <1>0, <1>1, <1>3, <1>4, Stays DEF Unmoved

LEMMA WaitExited == ASSUME Inv, NEW t \in Tids, wait_exited(t) PROVE Inv'
<1>0. /\ mode = "wait" /\ Consume(t)
      /\ threads' = threads \ {t} /\ processes' = processes \ {t}
      /\ current_tid' = current_tid \/ current_tid' \in IF threads' = {} THEN {NoTid} ELSE threads'
      /\ UNCHANGED <<leader, sigs, rip, where, patch, user, pending_initial_stop, unreached>>
  BY DEF wait_exited, InWait
<1>1. ~exited /\ Kernel /\ Fields /\ current_tid \in Tids /\ rip' \in [Tids -> {"off", "at", "past"}]
  BY <1>0, Waiting
<1>2. Kernel' /\ NoneRises
  BY <1>0, <1>1, Consuming
<1>3. exited' \in BOOLEAN => Fields'
  BY <1>0, <1>1 DEF Fields
<1>4. CASE threads' = {} \/ processes' = {}
  <2>1. exited' = TRUE /\ Return
    BY <1>4 DEF wait_exited
  <2>. QED
    BY <1>0, <1>2, <1>3, <2>1, Ends0
<1>5. CASE ~(threads' = {} \/ processes' = {})
  <2>1. exited' = exited /\ UNCHANGED <<mode, after, lifted, temp, through>>
    BY <1>5 DEF wait_exited, steps
  <2>2. current_tid' \in Tids
    BY <1>0, <1>1, <1>5 DEF Fields
  <2>3. Fields' /\ ~exited'
    BY <1>1, <1>3, <2>1 DEF Fields
  <2>. QED
    BY <1>0, <1>1, <1>2, <2>1, <2>2, <2>3, Stays DEF Unmoved
<1>. QED
  BY <1>4, <1>5

LEMMA SwitchThread == ASSUME Inv, NEW t \in Tids, switch_thread(t) PROVE Inv'
<1>0. /\ mode = "prompt" /\ ~exited /\ fixup_breakpoint_rip(t) /\ current_tid' = t
      /\ UNCHANGED <<run, report, leader, sigs, where, patch, user, exited, threads>>
      /\ UNCHANGED <<pending_initial_stop, processes, unreached>>
      /\ UNCHANGED <<mode, after, lifted, temp, through>>
  BY DEF switch_thread, Begin, steps
<1>1. Kernel /\ Fields
  BY DEF Inv, Types, Fields
<1>2. rip' \in [Tids -> {"off", "at", "past"}] /\ \A u \in Tids : rip'[u] # "off" => where'[u] \in Addrs
  BY <1>0, <1>1, Corrected DEF Fields
<1>3. Kernel' /\ NoneRises
  BY <1>0, <1>1, <1>2 DEF Kernel, KernelTypeOK, ThreadsOK, Born, NoneRises, Alive, Running, Stopped
<1>4. Fields'
  BY <1>0, <1>1, <1>2 DEF Fields
<1>. QED
  BY <1>0, <1>3, <1>4, Stays DEF Unmoved

-----------------------------------------------------------------------------
LEMMA InvInit == Init => Inv
<1>. SUFFICES ASSUME Init PROVE Inv
  OBVIOUS
<1>0. Main \in Tids /\ NoTid \notin Tids /\ NoAddr \notin Addrs
  BY BreakpointsAssumption, TraceesAssumption
<1>1. /\ run = [t \in Tids |-> IF t = Main THEN "stopped" ELSE "unborn"]
      /\ report = [t \in Tids |-> Quiet]
      /\ leader = [t \in Tids |-> IF t = Main THEN Main ELSE NoTid]
      /\ sigs = [t \in Tids |-> {}] /\ rip = [t \in Tids |-> "off"]
  BY DEF Init
<1>2. KernelTypeOK
  BY <1>0, <1>1, ReportKinds DEF KernelTypeOK, RunStates
<1>3. ThreadsOK
  BY <1>0, <1>1, ReportKinds DEF ThreadsOK, Born, Stopped, Stops, Births0
<1>4. /\ DOMAIN patch.breakpoints = {} /\ Shape(patch) /\ user = {}
      /\ \A p \in Tids, a \in Addrs : patch.memory[p][a] = "code"
  BY DEF Init, Shape, Bytes
<1>5. Types /\ FocusOK
  BY <1>0, <1>1, <1>4 DEF Init, Types, FocusOK
<1>6. Core
  BY <1>0, <1>4 DEF Init, Core, ModeOK, TempOK, LiftedOK, SavedOK, MemoriesMirrorTable, Owed, Contains
<1>. QED
  BY <1>2, <1>3, <1>5, <1>6 DEF Inv, Kernel

LEMMA InvStep == Inv /\ [Next]_vars => Inv'
<1>. SUFFICES ASSUME Inv, [Next]_vars PROVE Inv'
  OBVIOUS
<1>1. CASE Program
  BY <1>1, Moves, Bears DEF Program
<1>2. CASE Wait
  <2>1. CASE step_over_current_breakpoint
    BY <2>1, StepsOverCurrent
  <2>2. CASE call_waited
    BY <2>2, CallWaited
  <2>3. ASSUME NEW t \in Tids,
               wait_event(t) \/ wait_initial_stop(t) \/ wait_stopped(t) \/ wait_exited(t)
        PROVE  Inv'
    BY <2>3, WaitEvent, WaitInitialStop, WaitStopped, WaitExited
  <2>. QED
    BY <1>2, <2>1, <2>2, <2>3 DEF Wait
<1>3. CASE Command
  <2>1. ASSUME NEW a \in Addrs,
               install_breakpoint(a) \/ delete_breakpoint(a) \/ nexti(a) \/ run_over_call(a)
        PROVE  Inv'
    BY <2>1, Installs, Deletes, Goes
  <2>2. CASE cont
    BY <2>2, Conts
  <2>3. ASSUME NEW t \in Tids, switch_thread(t) PROVE Inv'
    BY <2>3, SwitchThread
  <2>. QED
    BY <1>3, <2>1, <2>2, <2>3 DEF Command
<1>4. CASE UNCHANGED vars
  <2>0. /\ UNCHANGED <<run, report, leader, sigs, rip, where, patch, user, exited, current_tid>>
        /\ UNCHANGED <<threads, pending_initial_stop, processes, mode, after, lifted, temp>>
        /\ UNCHANGED <<through, unreached>>
    BY <1>4 DEF vars, kernelVars, fields, steps
  <2>1. Kernel' /\ NoneRises
    BY <2>0 DEF Inv, Kernel, KernelTypeOK, ThreadsOK, Born, NoneRises, Alive, Running, Stopped
  <2>2. Types' /\ FocusOK'
    BY <2>0 DEF Inv, Types, FocusOK
  <2>3. ~exited => Core'
    BY <2>0, <2>1, CoreUnmoved DEF Unmoved
  <2>. QED
    BY <2>0, <2>1, <2>2, <2>3 DEF Inv
<1>. QED
  BY <1>1, <1>2, <1>3, <1>4 DEF Next

(* The table of breakpoints, the memory of every process and the fields of *)
(* Debugger keep their types, whatever threads are born and die, whichever *)
(* of them a breakpoint is written through, and whatever is not written.   *)
THEOREM TypeCorrect == Spec => []TypeOK
<1>1. Inv => TypeOK
  BY DEF Inv, Kernel, Types, Shape, Entries, TypeOK
<1>. QED
  BY InvInit, InvStep, <1>1, PTL DEF Spec

(* install_breakpoint, delete_breakpoint, the temporary breakpoints and    *)
(* the step over a breakpoint leave in every living process the int3s of   *)
(* the table and no other, and the bytes of the program elsewhere, but     *)
(* for the places where the code could not write.                          *)
THEOREM MemoriesCorrect == Spec => []MemoriesMirrorTable
<1>1. Inv => MemoriesMirrorTable
  BY DEF Inv, Core, MemoriesMirrorTable
<1>. QED
  BY InvInit, InvStep, <1>1, PTL DEF Spec

-----------------------------------------------------------------------------
(* What a step does to the int3s of the user.                              *)

UserStays ==
    \A a \in user \cap user', p \in Processes :
        patch.memory[p][a] = "int3" => \/ patch'.memory[p][a] = "int3"
                                       \/ lifted' = a /\ p = leader[current_tid]

LEMMA UserAddresses ==
    ASSUME Inv PROVE user \subseteq Addrs /\ user \subseteq DOMAIN patch.breakpoints /\ Shape(patch)
BY DEF Inv, Types, Shape

LEMMA ProgramSpares ==
    ASSUME Inv, Program PROVE UserStays /\ \A p \in Processes : leader'[p] = p
<1>1. PICK t \in Tids : \/ Trap(t) \/ StepDone(t) \/ Interrupted(t) \/ Dies(t)
                        \/ \E c \in Tids, kind \in Births : Birth(t, c, kind)
  BY DEF Program
<1>2. ~exited
  BY DEF Program
<1>3. CASE Trap(t) \/ StepDone(t) \/ Interrupted(t) \/ Dies(t)
  <2>1. patch' = patch /\ leader' = leader
    BY <1>3 DEF Trap, StepDone, Interrupted, Dies
  <2>. QED
    BY <2>1 DEF UserStays, Processes
<1>4. ASSUME NEW c \in Tids, NEW kind \in Births, Birth(t, c, kind)
      PROVE  UserStays /\ \A p \in Processes : leader'[p] = p
  <2>1. \A p \in Tids : kind = "clone" \/ p # c => patch'.memory[p] = patch.memory[p]
    BY <1>1, <1>2, <1>4, Copies
  <2>2. run[c] = "unborn" /\ \E d : leader' = [leader EXCEPT ![c] = d]
    BY <1>4 DEF Birth
  <2>3. \A p \in Processes : p \in Tids /\ p # c /\ leader[p] = p
    BY <2>2, TraceesAssumption DEF Processes, Inv, Kernel, ThreadsOK, Born
  <2>4. \A p \in Processes : leader'[p] = p
    BY <2>2, <2>3 DEF Inv, Kernel, KernelTypeOK
  <2>. QED
    BY <2>1, <2>3, <2>4 DEF UserStays
<1>. QED
  BY <1>1, <1>3, <1>4

(* The end of a command changes the memory where the temporary breakpoint  *)
(* was, and nowhere else; and that is not the user's.                      *)
LEMMA OnlyTemp ==
    ASSUME Inv, ~exited, NEW p, Sound(p), Abandon(p) \/ remove_temp(p)
    PROVE  \A q \in Tids, x \in user : patch'.memory[q][x] = p.memory[q][x]
<1>1. Shape(p) /\ DOMAIN p.breakpoints = DOMAIN patch.breakpoints /\ user \subseteq Addrs
  BY UserAddresses DEF Sound
<1>2. temp \in Addrs \cup {NoAddr} /\ TempOK
  BY DEF Inv, Types, Core
<1>3. CASE patch' = p
  BY <1>3
<1>4. CASE temp # NoAddr /\ remove_temp(p)
  <2>. DEFINE own == IF Enabled(p, temp) /\ Stopped(through) THEN {leader[through]} ELSE {}
              r == Drop(p, temp)
  <2>1. temp \in DOMAIN p.breakpoints /\ temp \in Addrs /\ temp \notin user
    BY <1>1, <1>2, <1>4 DEF TempOK, Contains
  <2>2. Saved(p, temp) \in Bytes
    BY <1>1, <2>1, Saves
  <2>3. patch' = Write(r, own, temp, Saved(p, temp))
    BY <1>4 DEF remove_temp
  <2>4. Shape(r) /\ r.memory = p.memory
    BY <1>1, Drops
  <2>. HIDE DEF own, r
  <2>5. \A q \in Tids, x \in Addrs : x # temp => patch'.memory[q][x] = r.memory[q][x]
    BY <2>1, <2>2, <2>3, <2>4, Written
  <2>. QED
    BY <1>1, <2>1, <2>4, <2>5
<1>. QED
  BY <1>3, <1>4 DEF Abandon, remove_temp, Keep

LEMMA LoweredSpares ==
    ASSUME Inv, ~exited, mode = "stepover", NEW q \in Tids, NEW x \in user,
           patch.memory[q][x] = "int3"
    PROVE  relower(current_tid).memory[q][x] = "int3"
<1>1. Shape(patch) /\ x \in Addrs /\ Contains(patch, lifted) /\ leader[current_tid] \in Tids
  <2>1. current_tid \in Tids /\ Born(current_tid)
    BY DEF Inv, FocusOK, Core, LiftedOK
  <2>. QED
    BY <2>1, UserAddresses DEF Inv, Core, LiftedOK, Kernel, KernelTypeOK, Born
<1>2. lifted \in Addrs
  BY <1>1 DEF Shape, Contains
<1>. QED
  BY <1>1, <1>2, Enables DEF relower

LEMMA WaitSpares ==
    ASSUME Inv, Wait PROVE UserStays /\ leader' = leader
<1>1. CASE step_over_current_breakpoint
  <2>. DEFINE t == current_tid
  <2>0. mode = "stepover" /\ UNCHANGED <<leader, user>> /\ ~exited /\ user \subseteq Addrs
    BY <1>1, Waiting, UserAddresses DEF step_over_current_breakpoint
  <2>1. CASE report[t].kind = "exited"
    BY <1>1, <2>0, <2>1 DEF step_over_current_breakpoint, Keep, UserStays, Processes
  <2>2. CASE report[t].kind = "signaled"
    BY <1>1, <2>0, <2>2 DEF step_over_current_breakpoint, Abandon, UserStays, Processes
  <2>3. CASE report[t].kind \notin {"exited", "signaled"}
    <3>1. Sound(relower(t))
      BY <2>0, SoundLowered
    <3>2. \/ patch' = relower(t)
          \/ Abandon(relower(t)) \/ remove_temp(relower(t))
      BY <1>1, <2>3 DEF step_over_current_breakpoint, Keep
    <3>3. \A q \in Tids, x \in user : patch'.memory[q][x] = relower(t).memory[q][x]
      BY <2>0, <3>1, <3>2, OnlyTemp
    <3>. QED
      BY <2>0, <3>3, LoweredSpares DEF UserStays, Processes
  <2>. QED
    BY <2>1, <2>2, <2>3
<1>2. ASSUME mode # "prompt", mode # "stepover", remove_temp(patch) \/ UNCHANGED patch, UNCHANGED <<leader, user>>
      PROVE  UserStays /\ leader' = leader
  <2>1. ~exited
    BY <1>2, Waiting
  <2>2. \A q \in Tids, x \in user : patch'.memory[q][x] = patch.memory[q][x]
    BY <1>2, <2>1, SoundAsItIs, OnlyTemp
  <2>. QED
    BY <1>2, <2>2 DEF UserStays, Processes
<1>3. CASE call_waited
  BY <1>2, <1>3 DEF call_waited, Keep
<1>4. ASSUME NEW t \in Tids, wait_event(t) \/ wait_initial_stop(t) \/ wait_exited(t) \/ wait_stopped(t)
      PROVE  UserStays /\ leader' = leader
  BY <1>2, <1>4 DEF wait_event, wait_initial_stop, wait_exited, wait_stopped, InWait
<1>. QED
  BY <1>1, <1>3, <1>4 DEF Wait

(* Before it runs a command may lift the breakpoint the thread stands on.  *)
LEMMA RunSpares ==
    ASSUME Inv, NEW p, Shape(p), NEW a, NEW next, RunTo(p, a, next),
           current_tid \in Tids, leader[current_tid] \in Tids,
           \A q \in Tids, x \in user : patch.memory[q][x] = "int3" => p.memory[q][x] = "int3"
    PROVE  UserStays /\ leader' = leader
<1>. DEFINE l == where[current_tid]
<1>1. step_over(p, next) /\ UNCHANGED <<leader, user>> /\ user \subseteq Addrs
  BY UserAddresses DEF RunTo, fields
<1>2. CASE patch' = p
  BY <1>1, <1>2 DEF UserStays, Processes
<1>3. CASE Enabled(p, l) /\ patch' = disable(p, current_tid, l) /\ lifted' = l
  <2>1. l \in Addrs
    BY <1>3 DEF Enabled, Contains, Shape
  <2>. HIDE DEF l
  <2>2. \A q \in Tids, x \in Addrs :
            patch'.memory[q][x] = IF q = leader[current_tid] /\ x = l THEN Saved(p, l) ELSE p.memory[q][x]
    BY <1>3, <2>1, Disables
  <2>. QED
    BY <1>1, <1>3, <2>2 DEF UserStays, Processes
<1>. QED
  BY <1>1, <1>2, <1>3 DEF step_over

LEMMA CommandSpares ==
    ASSUME Inv, Command PROVE UserStays /\ leader' = leader
<1>0. Shape(patch) /\ user \subseteq Addrs
  BY UserAddresses
<1>1. ASSUME NEW a \in Addrs, install_breakpoint(a) PROVE UserStays /\ leader' = leader
  <2>. DEFINE own  == IF Stopped(current_tid) THEN {leader[current_tid]} ELSE {}
              byte == IF own = {} THEN "zero" ELSE patch.memory[leader[current_tid]][a]
              r == Put(patch, a, Entry(own # {}, byte))
  <2>1. patch' = Write(r, own \cup Others, a, "int3") /\ leader' = leader
    BY <1>1 DEF install_breakpoint, kernelVars
  <2>2. byte \in Bytes
    <3>1. current_tid \in Tids
      BY <1>1 DEF install_breakpoint, Begin, Inv, FocusOK
    <3>2. Stopped(current_tid) => leader[current_tid] \in Tids
      BY <3>1 DEF Inv, Kernel, KernelTypeOK, ThreadsOK, Stopped, Born
    <3>. QED
      BY <1>0, <3>2 DEF Shape, Bytes
  <2>3. Shape(r) /\ r.memory = patch.memory
    <3>. DEFINE e == own # {}
    <3>1. Entry(e, byte) \in Entries
      <4>1. e \in BOOLEAN
        OBVIOUS
      <4>. HIDE DEF e, byte
      <4>. QED
        BY <2>2, <4>1, Entered
    <3>. QED
      BY <1>0, <3>1, Puts
  <2>. HIDE DEF own, r
  <2>4. \A q \in Tids, x \in Addrs :
            patch'.memory[q][x] = IF q \in own \cup Others /\ x = a THEN "int3" ELSE r.memory[q][x]
    <3>1. "int3" \in Bytes
      BY DEF Bytes
    <3>. QED
      BY <2>1, <2>3, <3>1, Written
  <2>. QED
    BY <1>0, <2>1, <2>3, <2>4 DEF UserStays, Processes
<1>2. ASSUME NEW a \in Addrs, delete_breakpoint(a) PROVE UserStays /\ leader' = leader
  <2>1. PICK S : patch' = Write(Drop(patch, a), S, a, Saved(patch, a))
    BY <1>2 DEF delete_breakpoint
  <2>2. leader' = leader /\ user' = user \ {a} /\ a \in user
    BY <1>2 DEF delete_breakpoint, kernelVars
  <2>3. Saved(patch, a) \in Bytes
    BY <2>2, UserAddresses, Saves
  <2>4. Shape(Drop(patch, a)) /\ Drop(patch, a).memory = patch.memory
    BY <1>0, Drops
  <2>5. \A q \in Tids, x \in Addrs : x # a => patch'.memory[q][x] = patch.memory[q][x]
    BY <2>1, <2>3, <2>4, Written
  <2>. QED
    BY <1>0, <2>2, <2>5 DEF UserStays, Processes
<1>3. ASSUME NEW p, Shape(p), NEW a, NEW next, NEW cmd, Begin(cmd), RunTo(p, a, next),
             \A q \in Tids, x \in user : patch.memory[q][x] = "int3" => p.memory[q][x] = "int3"
      PROVE  UserStays /\ leader' = leader
  <2>1. current_tid \in Tids /\ leader[current_tid] \in Tids
    BY <1>3 DEF Begin, RunTo, Inv, FocusOK, Kernel, KernelTypeOK, ThreadsOK, Stopped, Born
  <2>. QED
    BY <1>3, <2>1, RunSpares
<1>4. CASE cont
  BY <1>0, <1>3, <1>4 DEF cont
<1>5. ASSUME NEW a \in Addrs, NEW next, NEW cmd, Begin(cmd), RunToReturn(a, next)
      PROVE  UserStays /\ leader' = leader
  <2>. DEFINE p == insert_temp(patch, current_tid, a)
  <2>1. RunTo(p, TempAt(a), next)
    BY <1>5 DEF RunToReturn
  <2>2. leader[current_tid] \in Tids
    BY <1>5 DEF RunToReturn, Begin, RunTo, Inv, FocusOK, Kernel, KernelTypeOK, ThreadsOK, Stopped, Born
  <2>3. Shape(p) /\ \A q \in Tids, x \in user : patch.memory[q][x] = "int3" => p.memory[q][x] = "int3"
    BY <1>0, <2>2, Enables DEF insert_temp
  <2>. HIDE DEF p
  <2>. QED
    BY <1>3, <1>5, <2>1, <2>3
<1>6. ASSUME NEW t \in Tids, switch_thread(t) PROVE UserStays /\ leader' = leader
  BY <1>6 DEF switch_thread, UserStays, Processes
<1>. QED
  BY <1>1, <1>2, <1>4, <1>5, <1>6 DEF Command, nexti, run_over_call

(* Whatever commands, births and deaths come together, a breakpoint of the *)
(* user leaves a memory it is in only by delete, or for the one            *)
(* instruction it is stepped over, and its table entry stays: no temporary *)
(* breakpoint of nexti, up or next replaces or removes it.                 *)
THEOREM UserBreakpointsCorrect == Spec => UserBreakpointsStay
<1>. DEFINE Stay == \A a \in user \cap user' :
                       /\ Contains(patch', a)
                       /\ \A p \in Processes :
                             Int3At(p, a) => \/ Int3At(p, a)'
                                             \/ lifted' = a /\ p = leader[current_tid]
<1>1. ASSUME Inv, Inv', [Next]_vars PROVE [Stay]_vars
  <2>. SUFFICES ASSUME Next PROVE Stay
    BY <1>1
  <2>1. UserStays /\ \A p \in Processes : leader'[p] = p
    BY <1>1, ProgramSpares, WaitSpares, CommandSpares DEF Next, Processes
  <2>2. \A a \in user' : Contains(patch', a)
    BY <1>1 DEF Inv, Types, Contains
  <2>3. \A p \in Processes : leader[p] = p
    BY DEF Processes
  <2>. QED
    BY <2>1, <2>2, <2>3 DEF UserStays, Int3At
<1>. QED
  BY InvInit, InvStep, <1>1, PTL DEF Spec, UserBreakpointsStay
=============================================================================
