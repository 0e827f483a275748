--------------------------- MODULE SteppingProofs ---------------------------
(***************************************************************************)
(* What the breakpoints do to the program's memory, for every program, any *)
(* number of breakpoints and any depth of recursion.  The inductive        *)
(* invariant says exactly what the table and the memory hold at any        *)
(* moment: the user's breakpoints and at most one temporary one, all of    *)
(* them enabled but the one that is lifted.  The types need the stack too: *)
(* what the commands read from it is an address of the code.               *)
(***************************************************************************)
EXTENDS Stepping, SequenceTheorems, WellFoundedInduction, TLAPS

Some(a) == {a} \ {NoAddr}

On  == Byte(TRUE, "code")
Off == Byte(FALSE, "code")

Exact(p, l, t) ==
    /\ DOMAIN p.breakpoints = User \cup Some(t)
    /\ NoAddr \notin DOMAIN p.breakpoints /\ t \notin User
    /\ Some(l) \subseteq DOMAIN p.breakpoints
    /\ \A a \in DOMAIN p.breakpoints :
          p.breakpoints[a] = IF a = l THEN Off ELSE On
    /\ p.int3 = DOMAIN p.breakpoints \ {l}

(* The numbers name different addresses.                                   *)
IdsOK == /\ next_bp_id \in Nat \ {0}
         /\ DOMAIN bp_ids \subseteq 1 .. next_bp_id - 1
         /\ User \subseteq Nat
         /\ \A i, j \in DOMAIN bp_ids : bp_ids[i] = bp_ids[j] => i = j

(* Where a breakpoint may be lifted.                                       *)
LiftedOK == /\ status = "running" /\ how = "run" => lifted = NoAddr
            /\ mode \in {"wait", "frame"} => lifted = NoAddr
            /\ status = "stopped" => lifted = NoAddr /\ temp = NoAddr
            /\ mode # "prompt" => status \notin {"stopped", "gone"}

Inv == IdsOK /\ LiftedOK /\ (status # "gone" => Exact(patch, lifted, temp))

(* The state after a resumption or a return.                               *)
Good == LiftedOK /\ (status # "gone" => Exact(patch, lifted, temp))

-----------------------------------------------------------------------------
(* The operations on a table, each from one exact state to the next.       *)

(* Assumptions on addresses, for the provers.                              *)
LEMMA Addresses == NoAddr \notin Nat /\ Data # NoAddr
BY SteppingAssumption

(* What the two states of a breakpoint say.                                *)
LEMMA OnOff == On.enabled /\ ~Off.enabled /\ On.orig_byte = "code"
BY DEF On, Off, Byte

(* The constructors.                                                       *)
LEMMA Fields ==
    ASSUME NEW b, NEW m
    PROVE  Patch(b, m).breakpoints = b /\ Patch(b, m).int3 = m
BY DEF Patch

(* place enables a breakpoint where there is no int3.                      *)
LEMMA Place ==
    ASSUME NEW p, NEW a, a \notin p.int3
    PROVE  LET q == place(p, a) IN
           /\ DOMAIN q.breakpoints = DOMAIN p.breakpoints \cup {a}
           /\ q.breakpoints[a] = On
           /\ \A x \in DOMAIN p.breakpoints \ {a} : q.breakpoints[x] = p.breakpoints[x]
           /\ q.int3 = p.int3 \cup {a}
<1>1. place(p, a) = Patch(Put(p.breakpoints, a, On), p.int3 \cup {a})
  BY DEF place, On
<1>2. /\ place(p, a).breakpoints = Put(p.breakpoints, a, On)
      /\ place(p, a).int3 = p.int3 \cup {a}
  BY <1>1, Fields
<1>. QED BY <1>2 DEF Put

(* insert_temp adds at most the one temporary breakpoint.                  *)
LEMMA InsertTemp ==
    ASSUME NEW p, NEW a, a # NoAddr, Exact(p, NoAddr, NoAddr)
    PROVE  Exact(insert_temp(p, a), NoAddr, TempAt(p, a))
<1>1. CASE Contains(p, a)
  BY <1>1 DEF insert_temp, TempAt
<1>2. CASE ~Contains(p, a)
  <2>1. a \notin p.int3 /\ a \notin User BY <1>2 DEF Contains, Exact
  <2>2. insert_temp(p, a) = place(p, a) /\ TempAt(p, a) = a
    BY <1>2 DEF insert_temp, TempAt
  <2>. DEFINE q == place(p, a)
  <2>3. /\ DOMAIN q.breakpoints = DOMAIN p.breakpoints \cup {a}
        /\ q.breakpoints[a] = On
        /\ \A x \in DOMAIN p.breakpoints \ {a} : q.breakpoints[x] = p.breakpoints[x]
        /\ q.int3 = p.int3 \cup {a}
    BY <2>1, Place
  <2>. HIDE DEF q
  <2>4. Exact(q, NoAddr, a) BY <2>1, <2>3 DEF Exact, Some
  <2>. QED BY <2>2, <2>4 DEF q
<1>. QED BY <1>1, <1>2

(* disable lifts one breakpoint.                                           *)
LEMMA Disable ==
    ASSUME NEW p, NEW a, NEW t, a # NoAddr, Exact(p, NoAddr, t), Enabled(p, a)
    PROVE  Exact(disable(p, a), a, t)
<1>1. a \in DOMAIN p.breakpoints /\ p.breakpoints[a].orig_byte = "code"
  BY OnOff DEF Enabled, Contains, Exact
<1>2. disable(p, a) = Patch(Put(p.breakpoints, a, Off), p.int3 \ {a})
  BY <1>1 DEF disable, Off
<1>. DEFINE q == disable(p, a)
<1>a. q.breakpoints = Put(p.breakpoints, a, Off) /\ q.int3 = p.int3 \ {a}
  BY <1>2, Fields
<1>. HIDE DEF q
<1>3. DOMAIN q.breakpoints = DOMAIN p.breakpoints
  BY <1>1, <1>a DEF Put
<1>4. \A x \in DOMAIN p.breakpoints :
         q.breakpoints[x] = IF x = a THEN Off ELSE On
  BY <1>1, <1>a DEF Exact, Put
<1>5. Exact(q, a, t) BY <1>1, <1>a, <1>3, <1>4 DEF Exact, Some
<1>. QED BY <1>5 DEF q

(* What is not lifted is enabled, and the other way round.                 *)
LEMMA EnabledIs ==
    ASSUME NEW p, NEW l, NEW t, Exact(p, l, t), NEW a
    PROVE  Enabled(p, a) <=> a \in DOMAIN p.breakpoints /\ a # l
BY OnOff DEF Enabled, Contains, Exact

(* relower puts the lifted one back.                                       *)
LEMMA Relower ==
    ASSUME NEW t, Exact(patch, lifted, t)
    PROVE  Exact(relower(patch), NoAddr, t)
<1>1. CASE lifted = NoAddr
  BY <1>1 DEF relower
<1>2. CASE lifted # NoAddr
  <2>1. ~Enabled(patch, lifted) BY EnabledIs
  <2>2. lifted \notin patch.int3 /\ lifted \in DOMAIN patch.breakpoints
    BY <1>2 DEF Exact, Some
  <2>3. relower(patch) = place(patch, lifted) BY <1>2, <2>1 DEF relower, enable
  <2>. DEFINE q == place(patch, lifted)
  <2>5. /\ DOMAIN q.breakpoints = DOMAIN patch.breakpoints \cup {lifted}
        /\ q.breakpoints[lifted] = On
        /\ \A x \in DOMAIN patch.breakpoints \ {lifted} :
              q.breakpoints[x] = patch.breakpoints[x]
        /\ q.int3 = patch.int3 \cup {lifted}
    BY <2>2, Place
  <2>. HIDE DEF q
  <2>6. DOMAIN q.breakpoints = DOMAIN patch.breakpoints BY <2>2, <2>5
  <2>8. Exact(q, NoAddr, t) BY <1>2, <2>2, <2>5, <2>6 DEF Exact, Some
  <2>. QED BY <2>3, <2>8 DEF q
<1>. QED BY <1>1, <1>2

(* remove_temp leaves the user's.                                          *)
LEMMA RemoveTemp ==
    ASSUME NEW p, Exact(p, NoAddr, temp)
    PROVE  Exact(remove_temp(p), NoAddr, NoAddr)
<1>1. CASE temp = NoAddr
  BY <1>1 DEF remove_temp
<1>2. CASE temp # NoAddr
  <2>1. temp \in DOMAIN p.breakpoints /\ p.breakpoints[temp].orig_byte = "code"
    BY <1>2, OnOff DEF Exact, Some
  <2>2. Enabled(p, temp) BY <1>2, <2>1, EnabledIs
  <2>3. disable(p, temp).int3 = p.int3 \ {temp}
    <3>1. disable(p, temp) = Patch(Put(p.breakpoints, temp, Off), p.int3 \ {temp})
      BY <2>1, <2>2 DEF disable, Off
    <3>. QED BY <3>1, Fields
  <2>4. remove_temp(p) = Patch([x \in DOMAIN p.breakpoints \ {temp} |-> p.breakpoints[x]],
                               p.int3 \ {temp})
    BY <1>2, <2>3 DEF remove_temp, remove
  <2>. DEFINE q == remove_temp(p)
  <2>5. /\ q.breakpoints = [x \in DOMAIN p.breakpoints \ {temp} |-> p.breakpoints[x]]
        /\ q.int3 = p.int3 \ {temp}
    BY <2>4, Fields
  <2>. HIDE DEF q
  <2>6. Exact(q, NoAddr, NoAddr) BY <1>2, <2>1, <2>5 DEF Exact, Some
  <2>. QED BY <2>6 DEF q
<1>. QED BY <1>1, <1>2

-----------------------------------------------------------------------------
(* The beginnings, the rounds and the ends of commands.                    *)

(* A return leaves the user's breakpoints, or a program that is gone.      *)
LEMMA ReturnGood ==
    ASSUME NEW r, NEW p, status \in Dead \/ Exact(p, NoAddr, NoAddr), Return(r, p),
           UNCHANGED bp_ids
    PROVE  Good'
BY DEF Return, Good, LiftedOK, Exact, User, Some

(* A resumption, with nothing lifted.                                      *)
LEMMA GoGood ==
    ASSUME NEW cmd, NEW r, NEW p, NEW t, Exact(p, NoAddr, t), Go(cmd, r, p), temp' = t,
           UNCHANGED bp_ids
    PROVE  Good'
BY DEF Go, Resume, Good, LiftedOK, Exact, User, Some

(* What is enabled is an address.                                          *)
LEMMA EnabledAddr ==
    ASSUME NEW p, NEW t, NEW r, Exact(p, NoAddr, t), Enabled(p, r)
    PROVE  r # NoAddr
BY DEF Enabled, Contains, Exact

(* A single step, with at most the breakpoint at rip lifted.               *)
LEMMA LiftGood ==
    ASSUME NEW r, NEW p, NEW t, NEW m, Exact(p, NoAddr, t), Enabled(p, r),
           Resume(r, disable(p, r), "step", m), m \in {"over", "raw"},
           lifted' = r, temp' = t, UNCHANGED bp_ids
    PROVE  Good'
<1>1. Exact(disable(p, r), r, t) BY Disable, EnabledAddr
<1>. QED BY <1>1 DEF Resume, Good, LiftedOK, Exact, User, Some

(* The step over a breakpoint, or the resumption without one.               *)
LEMMA StepOverGood ==
    ASSUME NEW cmd, NEW r, NEW p, NEW t, Exact(p, NoAddr, t), StepOver(cmd, r, p),
           temp' = t, UNCHANGED bp_ids
    PROVE  Good'
BY LiftGood, GoGood DEF StepOver

(* single_step_raw.                                                        *)
LEMMA SingleStepGood ==
    ASSUME NEW r, NEW p, Exact(p, NoAddr, NoAddr), single_step_raw(r, p), UNCHANGED bp_ids
    PROVE  Good'
<1>1. CASE Enabled(p, r)
  BY <1>1, LiftGood DEF single_step_raw
<1>2. CASE ~Enabled(p, r)
  <2>1. patch' = p /\ lifted' = NoAddr /\ temp' = NoAddr
    BY <1>2 DEF single_step_raw, disable, Resume
  <2>. QED BY <2>1 DEF single_step_raw, Resume, Good, LiftedOK, Exact, User, Some
<1>. QED BY <1>1, <1>2

(* run_over_call, with its temporary breakpoint behind the call.            *)
LEMMA RunOverCallGood ==
    ASSUME NEW r \in DOMAIN Code, NEW p, Exact(p, NoAddr, NoAddr), run_over_call(r, p),
           UNCHANGED bp_ids
    PROVE  Good'
<1>. DEFINE a == r + Code[r].len
<1>1. a \in Nat BY SteppingAssumption
<1>2. a # NoAddr BY <1>1, Addresses
<1>3. StepOver("next", r, insert_temp(p, a)) /\ temp' = TempAt(p, a)
  BY DEF run_over_call
<1>. HIDE DEF a
<1>4. Exact(insert_temp(p, a), NoAddr, TempAt(p, a)) BY <1>2, InsertTemp
<1>. QED BY <1>3, <1>4, StepOverGood

(* One round of step or next.                                              *)
LEMMA RoundGood ==
    ASSUME NEW cmd, NEW r, NEW p, Exact(p, NoAddr, NoAddr), Round(cmd, r, p),
           UNCHANGED bp_ids
    PROVE  Good'
BY RunOverCallGood, SingleStepGood DEF Round, call_shown

(* finish_undebugged_frame, wherever the word at rsp points.               *)
LEMMA FinishGood ==
    ASSUME NEW r, NEW p, Exact(p, NoAddr, NoAddr), finish_undebugged_frame(r, p),
           UNCHANGED bp_ids
    PROVE  Good'
<1>. DEFINE a == IF stack # <<>> /\ Cpu!Top \in Nat THEN Cpu!Top ELSE Data
<1>1. a # NoAddr BY Addresses
<1>2. \/ Return(r, p)
      \/ /\ Resume(r, insert_temp(p, a), "run", "frame")
         /\ lifted' = NoAddr /\ temp' = TempAt(p, a)
  BY DEF finish_undebugged_frame
<1>. HIDE DEF a
<1>3. Exact(insert_temp(p, a), NoAddr, TempAt(p, a)) BY <1>1, InsertTemp
<1>4. CASE Return(r, p) BY <1>4, ReturnGood
<1>5. CASE ~Return(r, p)
  BY <1>2, <1>3, <1>5 DEF Resume, Good, LiftedOK, Exact, User, Some
<1>. QED BY <1>4, <1>5

(* The end of a round.                                                     *)
LEMMA ArriveGood ==
    ASSUME NEW r, NEW p, Exact(p, NoAddr, NoAddr), Arrive(r, p), UNCHANGED bp_ids
    PROVE  Good'
BY FinishGood, ReturnGood, RoundGood DEF Arrive

-----------------------------------------------------------------------------
(* Every step.                                                             *)

(* The program itself touches neither table nor memory.                    *)
LEMMA ProcessorKeeps == Inv /\ (Processor \/ Killed) => Inv'
<1>. SUFFICES ASSUME Inv, Processor \/ Killed PROVE Inv' OBVIOUS
<1>1. UNCHANGED debugger /\ UNCHANGED how /\ status = "running"
      /\ status' \in {"running", "bp", "step", "int", "exited", "killed"}
  BY DEF Processor, Execute, Trap, Killed, Interrupt
<1>2. IdsOK' BY <1>1 DEF Inv, IdsOK, User, debugger
<1>3. LiftedOK' BY <1>1 DEF Inv, LiftedOK, debugger
<1>4. Exact(patch, lifted, temp)' BY <1>1 DEF Inv, Exact, User, Some, debugger
<1>. QED BY <1>2, <1>3, <1>4 DEF Inv

(* The numbers, where no breakpoint is set or deleted.                     *)
LEMMA SameIds == IdsOK /\ UNCHANGED <<bp_ids, next_bp_id>> => IdsOK'
BY DEF IdsOK, User

(* What the lemmas on commands establish is the invariant again.           *)
LEMMA GoodIsInv == IdsOK /\ UNCHANGED <<bp_ids, next_bp_id>> /\ Good' => Inv'
BY SameIds DEF Good, Inv

(* Every answer of waitpid.                                                *)
LEMMA WaitKeeps == Inv /\ Wait => Inv'
<1>. SUFFICES ASSUME Inv, Wait PROVE Inv' OBVIOUS
<1>1. UNCHANGED <<bp_ids, next_bp_id>> /\ mode # "prompt" /\ status # "gone"
  BY DEF Wait, step_over_current_breakpoint, wait_and_report, classify_wait, frame_waited,
         Inv, LiftedOK
<1>2. Exact(patch, lifted, temp) BY <1>1 DEF Inv
<1>3. Exact(relower(patch), NoAddr, temp) BY <1>2, Relower
<1>4. Exact(remove_temp(relower(patch)), NoAddr, NoAddr) BY <1>3, RemoveTemp
<1>5. mode \in {"wait", "frame"} => Exact(remove_temp(patch), NoAddr, NoAddr)
  BY <1>2, RemoveTemp DEF Inv, LiftedOK
<1>6. CASE step_over_current_breakpoint
  <2>1. CASE status \in Dead
    BY <1>1, <1>6, <2>1, ReturnGood, GoodIsInv DEF step_over_current_breakpoint, Inv
  <2>2. CASE status \notin Dead
    <3>1. Go(command, rip, relower(patch)) /\ temp' = temp
      BY <1>6, <2>2 DEF step_over_current_breakpoint
    <3>. QED BY <1>1, <1>3, <3>1, GoGood, GoodIsInv DEF Inv
  <2>. QED BY <2>1, <2>2
<1>7. CASE wait_and_report
  <2>1. \E r, p : Return(r, p) /\ (status \in Dead \/ p = remove_temp(patch))
    BY <1>7 DEF wait_and_report
  <2>. QED BY <1>1, <1>5, <1>7, <2>1, ReturnGood, GoodIsInv DEF Inv, wait_and_report
<1>8. CASE classify_wait
  <2>. DEFINE p == remove_temp(relower(patch))
  <2>1. CASE status \in Dead
    BY <1>1, <1>8, <2>1, ReturnGood, GoodIsInv DEF classify_wait, Inv
  <2>2. CASE status \notin Dead
    <3>1. \E r : Return(r, p) \/ Arrive(r, p)
      BY <1>8, <2>2 DEF classify_wait
    <3>. HIDE DEF p
    <3>2. Exact(p, NoAddr, NoAddr) BY <1>4 DEF p
    <3>. QED BY <1>1, <3>1, <3>2, ReturnGood, ArriveGood, GoodIsInv DEF Inv
  <2>. QED BY <2>1, <2>2
<1>9. CASE frame_waited
  <2>1. CASE status \in Dead
    BY <1>1, <1>9, <2>1, ReturnGood, GoodIsInv DEF frame_waited, Inv
  <2>2. CASE status \notin Dead
    <3>1. (\E r : Round(command, r, remove_temp(patch))) /\ mode = "frame"
      BY <1>9, <2>2 DEF frame_waited
    <3>. QED BY <1>1, <1>5, <3>1, RoundGood, GoodIsInv DEF Inv
  <2>. QED BY <2>1, <2>2
<1>. QED BY <1>6, <1>7, <1>8, <1>9 DEF Wait

(* break: a new number, a new address.                                     *)
LEMMA InstallKeeps ==
    ASSUME Inv, NEW a \in BreakAddrs, install_breakpoint(a)
    PROVE  Inv'
<1>1. a \in Nat /\ a # NoAddr BY SteppingAssumption, Addresses
<1>2. Exact(patch, NoAddr, NoAddr) BY DEF install_breakpoint, Inv, LiftedOK
<1>3. a \notin DOMAIN patch.breakpoints /\ a \notin patch.int3 /\ a \notin User
  BY <1>2 DEF install_breakpoint, Contains, Exact
<1>4. next_bp_id \notin DOMAIN bp_ids BY DEF Inv, IdsOK
<1>5. User' = User \cup {a} BY <1>4 DEF install_breakpoint, User
<1>6. IdsOK'
  <2>1. next_bp_id' \in Nat \ {0} /\ DOMAIN bp_ids' \subseteq 1 .. next_bp_id' - 1
    <3>1. next_bp_id' = next_bp_id + 1 BY DEF install_breakpoint, NextId
    <3>2. DOMAIN bp_ids' = DOMAIN bp_ids \cup {next_bp_id} BY DEF install_breakpoint
    <3>3. next_bp_id >= 1 BY DEF Inv, IdsOK
    <3>. QED BY <3>1, <3>2, <3>3 DEF Inv, IdsOK
  <2>2. \A i, j \in DOMAIN bp_ids' : bp_ids'[i] = bp_ids'[j] => i = j
    BY <1>3, <1>4 DEF install_breakpoint, User, Inv, IdsOK
  <2>. QED BY <1>1, <1>5, <2>1, <2>2 DEF Inv, IdsOK
<1>7. LiftedOK' BY DEF install_breakpoint, Inv, LiftedOK
<1>8. Exact(patch, lifted, temp)'
  <2>. DEFINE q == place(patch, a)
  <2>1. /\ DOMAIN q.breakpoints = DOMAIN patch.breakpoints \cup {a}
        /\ q.breakpoints[a] = On
        /\ \A x \in DOMAIN patch.breakpoints \ {a} :
              q.breakpoints[x] = patch.breakpoints[x]
        /\ q.int3 = patch.int3 \cup {a}
    BY <1>3, Place
  <2>2. patch' = q /\ lifted' = NoAddr /\ temp' = NoAddr
    BY DEF install_breakpoint, Inv, LiftedOK
  <2>. HIDE DEF q
  <2>. QED BY <1>1, <1>2, <1>3, <1>5, <2>1, <2>2 DEF Exact, Some
<1>. QED BY <1>6, <1>7, <1>8 DEF Inv

(* delete: the number and the one address it names.                        *)
LEMMA DeleteKeeps ==
    ASSUME Inv, NEW id \in DOMAIN bp_ids, delete_breakpoint(id)
    PROVE  Inv'
<1>. DEFINE a == bp_ids[id]
<1>1. Exact(patch, NoAddr, NoAddr) BY DEF delete_breakpoint, Inv, LiftedOK
<1>2. a \in User BY DEF User
<1>3. a \in DOMAIN patch.breakpoints /\ a # NoAddr BY <1>1, <1>2 DEF Exact
<1>4. User' = User \ {a} BY DEF delete_breakpoint, User, Inv, IdsOK
<1>5. IdsOK'
  <2>1. next_bp_id' = next_bp_id /\ DOMAIN bp_ids' \subseteq DOMAIN bp_ids
    BY DEF delete_breakpoint
  <2>2. \A i \in DOMAIN bp_ids' : bp_ids'[i] = bp_ids[i] BY DEF delete_breakpoint
  <2>. QED BY <1>4, <2>1, <2>2 DEF Inv, IdsOK
<1>6. LiftedOK' BY DEF delete_breakpoint, Inv, LiftedOK
<1>7. Exact(patch, lifted, temp)'
  <2>. DEFINE q == remove(patch, a)
  <2>1. Enabled(patch, a) BY <1>1, <1>3, EnabledIs
  <2>2. disable(patch, a) = Patch(Put(patch.breakpoints, a, Off), patch.int3 \ {a})
    BY <1>1, <1>3, <2>1, OnOff DEF disable, Exact, Off
  <2>3. disable(patch, a).int3 = patch.int3 \ {a} BY <2>2, Fields
  <2>4. q = Patch([x \in DOMAIN patch.breakpoints \ {a} |-> patch.breakpoints[x]],
                  patch.int3 \ {a})
    BY <2>3 DEF remove
  <2>5. /\ q.breakpoints = [x \in DOMAIN patch.breakpoints \ {a} |-> patch.breakpoints[x]]
        /\ q.int3 = patch.int3 \ {a}
    BY <2>4, Fields
  <2>6. patch' = q /\ lifted' = NoAddr /\ temp' = NoAddr
    BY DEF delete_breakpoint, Inv, LiftedOK
  <2>. HIDE DEF q, a
  <2>. QED BY <1>1, <1>2, <1>3, <1>4, <2>5, <2>6 DEF Exact, Some
<1>. QED BY <1>5, <1>6, <1>7 DEF Inv

(* A command that runs the program begins with nothing lifted.             *)
LEMMA CommandKeeps == Inv /\ Command => Inv'
<1>. SUFFICES ASSUME Inv, Command PROVE Inv' OBVIOUS
<1>1. status = "stopped" => Exact(patch, NoAddr, NoAddr) BY DEF Inv, LiftedOK
<1>2. \A cmd : Begin(cmd) => status = "stopped" /\ UNCHANGED <<bp_ids, next_bp_id>>
  BY DEF Begin
<1>3. CASE cont
  BY <1>1, <1>2, <1>3, StepOverGood, GoodIsInv DEF cont, Inv
<1>4. CASE stepi
  BY <1>1, <1>2, <1>4, StepOverGood, GoodIsInv DEF stepi, Inv
<1>5. ASSUME NEW cmd, NEW a, a # NoAddr, RunTo(cmd, a) PROVE Inv'
  <2>1. Exact(insert_temp(patch, a), NoAddr, TempAt(patch, a))
    BY <1>1, <1>2, <1>5, InsertTemp DEF RunTo
  <2>. QED BY <1>2, <1>5, <2>1, StepOverGood, GoodIsInv DEF RunTo, Inv
<1>6. CASE nexti
  <2>1. CASE call_at(patch, rip)
    <3>1. rip + Code[rip].len \in Nat BY <2>1, SteppingAssumption DEF call_at
    <3>. QED BY <1>5, <1>6, <2>1, <3>1, Addresses DEF nexti
  <2>2. CASE ~call_at(patch, rip) BY <1>4, <1>6, <2>2 DEF nexti
  <2>. QED BY <2>1, <2>2
<1>7. CASE up
  <2>1. stack[Cpu!TopFrame - 1] # NoAddr BY <1>7, Addresses DEF up
  <2>. QED BY <1>5, <1>7, <2>1 DEF up
<1>8. CASE step_line
  BY <1>1, <1>2, <1>8, RoundGood, GoodIsInv DEF step_line, Inv
<1>9. CASE next_line
  BY <1>1, <1>2, <1>9, RoundGood, GoodIsInv DEF next_line, Inv
<1>. QED BY <1>3, <1>4, <1>6, <1>7, <1>8, <1>9, InstallKeeps, DeleteKeeps DEF Command

(* Nothing is set when the program starts.                                 *)
LEMMA InitInv == Init => Inv
BY SteppingAssumption, Addresses DEF Init, Inv, IdsOK, LiftedOK, Exact, User, Some

(* The invariant holds throughout.                                         *)
LEMMA InvHolds == Spec => []Inv
<1>1. Inv /\ UNCHANGED vars => Inv'
  BY DEF vars, Inv, IdsOK, LiftedOK, Exact, User, Some
<1>2. Inv /\ [Next]_vars => Inv'
  BY <1>1, ProcessorKeeps, WaitKeeps, CommandKeeps DEF Next
<1>. QED BY <1>2, InitInv, PTL DEF Spec

(* At the prompt the program's memory and the table hold the user's        *)
(* breakpoints and nothing else: no command leaves an int3 behind.         *)
THEOREM MemoryCorrect == Spec => []MemoryIsUsers
<1>1. Inv => MemoryIsUsers
  BY DEF Inv, LiftedOK, Exact, Some, MemoryIsUsers, On
<1>. QED BY <1>1, InvHolds, PTL

(* While the program runs freely no breakpoint of the user is missing      *)
(* from its memory.                                                        *)
THEOREM ArmedCorrect == Spec => []ArmedWhileRunning
<1>1. Inv => ArmedWhileRunning
  BY DEF Inv, LiftedOK, Exact, Some, ArmedWhileRunning
<1>. QED BY <1>1, InvHolds, PTL

-----------------------------------------------------------------------------
(* The types.                                                              *)

(* A call comes back into the code.                                        *)
CallsReturn ==
    \A a \in DOMAIN Code : Code[a].op = "call" => a + Code[a].len \in DOMAIN Code

Words == DOMAIN Code \cup {Fp, Data}

(* The bottom of the stack is never popped.                                *)
StackOK == stack \in Seq(Words) /\ stack # <<>> /\ stack[1] = Data

PatchOK(p) ==
    /\ DOMAIN p.breakpoints \subseteq Addrs
    /\ p.breakpoints \in [DOMAIN p.breakpoints ->
                             [enabled : BOOLEAN, orig_byte : {"zero", "code", "int3"}]]
    /\ p.int3 \in SUBSET Addrs

(* What the end of a step leaves of TypeOK, for the lemmas on commands.    *)
Typed == /\ rip \in Nat /\ PatchOK(patch) /\ status \in Statuses /\ how \in {"run", "step"}
         /\ exited \in BOOLEAN /\ mode \in Modes /\ command \in Commands
         /\ lifted \in Addrs \cup {NoAddr} /\ temp \in Addrs \cup {NoAddr}
         /\ start_line \in Nat

IdsTyped == bp_ids \in [DOMAIN bp_ids -> BreakAddrs] /\ next_bp_id \in 1 .. MaxBpId + 1

TypeInv == Inv /\ StackOK /\ Typed /\ IdsTyped

-----------------------------------------------------------------------------
(* The stack.                                                              *)

(* The highest of a set of positions.                                      *)
LEMMA Highest ==
    ASSUME NEW n \in Nat, NEW S \in SUBSET (1 .. n), S # {}
    PROVE  \E i \in S : \A j \in S : j <= i
<1>. DEFINE T == {n - i : i \in S}
            R == OpToRel(<, Nat)
<1>1. \A i \in S : i \in Int /\ 1 <= i /\ i <= n OBVIOUS
<1>2. T \subseteq Nat /\ T # {}
  <2>1. \A i \in S : n - i \in Nat BY <1>1
  <2>2. PICK i \in S : TRUE OBVIOUS
  <2>3. n - i \in T BY <2>2
  <2>. QED BY <2>1, <2>3
<1>3. \E x \in T : \A y \in T : <<y, x>> \notin R
  <2>1. IsWellFoundedOn(R, Nat) BY NatLessThanWellFounded
  <2>. HIDE DEF T, R
  <2>. QED BY <1>2, <2>1, WFMin
<1>4. PICK i \in S : \A y \in T : <<y, n - i>> \notin R BY <1>3
<1>5. ASSUME NEW j \in S PROVE j <= i
  <2>1. <<n - j, n - i>> \notin R BY <1>4
  <2>2. n - j \in Nat /\ n - i \in Nat BY <1>1
  <2>3. ~(n - j < n - i) BY <2>1, <2>2 DEF OpToRel
  <2>. QED BY <1>1, <2>3
<1>. QED BY <1>5

(* The top frame is one of the frames, and not the bottom of the stack.    *)
LEMMA TopFrameIs ==
    ASSUME StackOK, Cpu!Frames # {}
    PROVE  Cpu!TopFrame \in 2 .. Len(stack) /\ stack[Cpu!TopFrame] = Fp
<1>1. Len(stack) \in Nat BY LenProperties DEF StackOK
<1>2. \E i \in Cpu!Frames : \A j \in Cpu!Frames : j <= i
  BY <1>1, Highest DEF Cpu!Frames
<1>3. Cpu!TopFrame \in Cpu!Frames BY <1>2 DEF Cpu!TopFrame
<1>4. stack[1] # Fp BY SteppingAssumption DEF StackOK
<1>. QED BY <1>1, <1>3, <1>4 DEF Cpu!Frames

(* What is pushed stays above the bottom.                                  *)
LEMMA PushOK ==
    ASSUME StackOK, NEW s \in Seq(Words)
    PROVE  stack \o s \in Seq(Words) /\ stack \o s # <<>> /\ (stack \o s)[1] = Data
<1>1. Len(stack) \in Nat \ {0} /\ Len(s) \in Nat BY EmptySeq, LenProperties DEF StackOK
<1>2. /\ stack \o s \in Seq(Words) /\ Len(stack \o s) = Len(stack) + Len(s)
      /\ (stack \o s)[1] = stack[1]
  BY <1>1, ConcatProperties DEF StackOK
<1>3. stack \o s # <<>> BY <1>1, <1>2, EmptySeq
<1>. QED BY <1>2, <1>3 DEF StackOK

(* What is popped leaves the bottom.                                       *)
LEMMA PopOK ==
    ASSUME StackOK, NEW n \in 1 .. Len(stack)
    PROVE  LET s == SubSeq(stack, 1, n) IN s \in Seq(Words) /\ s # <<>> /\ s[1] = Data
<1>. DEFINE s == SubSeq(stack, 1, n)
<1>1. Len(stack) \in Nat BY LenProperties DEF StackOK
<1>2. \A i \in 1 .. n : stack[i] \in Words BY <1>1, ElementOfSeq DEF StackOK
<1>3. s \in Seq(Words) /\ Len(s) = n /\ s[1] = stack[1]
  BY <1>1, <1>2, SubSeqProperties
<1>4. s # <<>> BY <1>1, <1>3, EmptySeq
<1>. QED BY <1>3, <1>4 DEF StackOK

(* An instruction keeps the stack, and leads to an address.                *)
LEMMA InstructionTyped ==
    ASSUME CallsReturn, StackOK, rip \in Nat, Cpu!Step
    PROVE  StackOK' /\ rip' \in Nat
<1>1. /\ rip \in DOMAIN Code /\ Code[rip].len \in Nat /\ Code[rip].to \in Nat
      /\ Cpu!Following \in Nat
  BY SteppingAssumption DEF Cpu!Step, Cpu!Faults, Cpu!Following
<1>2. Len(stack) \in Nat \ {0} BY EmptySeq DEF StackOK
<1>3. CASE Cpu!Plain \/ Cpu!Taken \/ Cpu!Passed \/ Cpu!Exit
  BY <1>1, <1>3 DEF Cpu!Plain, Cpu!Taken, Cpu!Passed, Cpu!Exit, StackOK
<1>4. CASE Cpu!Call
  <2>1. Cpu!Following \in Words BY <1>1, <1>4 DEF Cpu!Call, CallsReturn, Cpu!Following, Words
  <2>2. <<Cpu!Following>> \in Seq(Words) BY <2>1
  <2>3. Append(stack, Cpu!Following) = stack \o <<Cpu!Following>>
    BY <2>1, AppendIsConcat DEF StackOK
  <2>. QED BY <1>1, <1>4, <2>2, <2>3, PushOK DEF Cpu!Call, StackOK
<1>5. CASE Cpu!Enter
  <2>1. <<Fp, Data>> \in Seq(Words) BY DEF Words
  <2>. QED BY <1>1, <1>5, <2>1, PushOK DEF Cpu!Enter, StackOK
<1>6. CASE Cpu!Leave
  <2>1. Cpu!Frames # {} BY <1>6 DEF Cpu!Step, Cpu!Faults, Cpu!Leave
  <2>2. Cpu!TopFrame - 1 \in 1 .. Len(stack) BY <1>2, <2>1, TopFrameIs
  <2>. QED BY <1>1, <1>6, <2>2, PopOK DEF Cpu!Leave, StackOK
<1>7. CASE Cpu!Ret
  <2>1. Cpu!Top \in DOMAIN Code BY <1>7 DEF Cpu!Step, Cpu!Faults, Cpu!Ret
  <2>2. Cpu!Top \in Nat BY <2>1, SteppingAssumption
  <2>3. Len(stack) # 1
    BY <2>2, SteppingAssumption DEF Cpu!Top, StackOK
  <2>4. Len(stack) - 1 \in 1 .. Len(stack) BY <1>2, <2>3
  <2>. QED BY <1>7, <2>2, <2>4, PopOK DEF Cpu!Ret, Cpu!Popped, StackOK
<1>. QED BY <1>3, <1>4, <1>5, <1>6, <1>7 DEF Cpu!Step

-----------------------------------------------------------------------------
(* The table.                                                              *)

(* A table of the right type, given its parts.                             *)
LEMMA PlaceTyped ==
    ASSUME NEW p, PatchOK(p), NEW a \in Addrs
    PROVE  PatchOK(place(p, a))
<1>. DEFINE bp == Byte(TRUE, IF a \in p.int3 THEN "int3" ELSE "code")
            q == place(p, a)
<1>1. bp \in [enabled : BOOLEAN, orig_byte : {"zero", "code", "int3"}] BY DEF Byte
<1>2. q.breakpoints = Put(p.breakpoints, a, bp) /\ q.int3 = p.int3 \cup {a}
  BY Fields DEF place
<1>. HIDE DEF bp, q
<1>. QED BY <1>1, <1>2 DEF PatchOK, Put, q

LEMMA DisableTyped ==
    ASSUME NEW p, PatchOK(p), NEW a
    PROVE  PatchOK(disable(p, a))
<1>1. CASE ~Enabled(p, a) BY <1>1 DEF disable
<1>2. CASE Enabled(p, a)
  <2>. DEFINE byte == p.breakpoints[a].orig_byte
              bp == Byte(FALSE, byte)
              i == IF byte = "int3" THEN p.int3 ELSE p.int3 \ {a}
              q == disable(p, a)
  <2>1. a \in DOMAIN p.breakpoints BY <1>2 DEF Enabled, Contains
  <2>2. bp \in [enabled : BOOLEAN, orig_byte : {"zero", "code", "int3"}]
    BY <2>1 DEF Byte, PatchOK
  <2>3. q.breakpoints = Put(p.breakpoints, a, bp) /\ q.int3 = i
    <3>1. q = Patch(Put(p.breakpoints, a, bp), i) BY <1>2 DEF disable
    <3>. HIDE DEF bp, i, q
    <3>. QED BY <3>1, Fields
  <2>4. i \subseteq p.int3 OBVIOUS
  <2>. HIDE DEF bp, byte, i, q
  <2>. QED BY <2>1, <2>2, <2>3, <2>4 DEF PatchOK, Put, q
<1>. QED BY <1>1, <1>2

LEMMA RemoveTyped ==
    ASSUME NEW p, PatchOK(p), NEW a
    PROVE  PatchOK(remove(p, a))
<1>. DEFINE i == disable(p, a).int3
            q == remove(p, a)
<1>1. /\ q.breakpoints = [x \in DOMAIN p.breakpoints \ {a} |-> p.breakpoints[x]]
      /\ q.int3 = i
  BY Fields DEF remove
<1>2. i \in SUBSET Addrs BY DisableTyped DEF PatchOK
<1>. HIDE DEF i, q
<1>. QED BY <1>1, <1>2 DEF PatchOK, q

(* Putting in, taking out and putting back.                                *)
LEMMA TableTyped ==
    ASSUME Typed, NEW p, PatchOK(p)
    PROVE  /\ PatchOK(remove_temp(p)) /\ PatchOK(relower(p))
           /\ \A a \in Addrs : PatchOK(insert_temp(p, a)) /\ TempAt(p, a) \in Addrs \cup {NoAddr}
           /\ corrected(p) \in Nat
<1>1. PatchOK(remove_temp(p)) BY RemoveTyped DEF remove_temp
<1>2. PatchOK(relower(p)) BY PlaceTyped DEF relower, enable, Typed
<1>3. \A a \in Addrs : PatchOK(insert_temp(p, a)) /\ TempAt(p, a) \in Addrs \cup {NoAddr}
  BY PlaceTyped DEF insert_temp, TempAt
<1>4. corrected(p) \in Nat
  <2>1. rip \in Nat /\ rip - 1 \in Int BY DEF Typed
  <2>2. rip - 1 \in Addrs => rip - 1 \in Nat BY <2>1, SteppingAssumption DEF Addrs
  <2>. QED BY <2>1, <2>2 DEF corrected, PatchOK
<1>. QED BY <1>1, <1>2, <1>3, <1>4

-----------------------------------------------------------------------------
(* The beginnings, the rounds and the ends of commands.                    *)

(* What the steps below leave to the command they are part of.             *)
Begun == exited \in BOOLEAN /\ command \in Commands /\ start_line \in Nat

LEMMA ResumeTyped ==
    ASSUME NEW r \in Nat, NEW p, PatchOK(p), NEW h \in {"run", "step"}, NEW m \in Modes,
           Resume(r, p, h, m), Begun', lifted' \in Addrs \cup {NoAddr},
           temp' \in Addrs \cup {NoAddr}
    PROVE  Typed'
BY DEF Resume, Typed, Begun, PatchOK, Statuses, Addrs

LEMMA ReturnTyped ==
    ASSUME Typed, NEW r \in Nat, NEW p, PatchOK(p), Return(r, p), exited' \in BOOLEAN
    PROVE  Typed'
BY DEF Return, Typed, PatchOK, Statuses, Modes, Commands, Addrs

LEMMA GoTyped ==
    ASSUME NEW cmd, NEW r \in Nat, NEW p, PatchOK(p), Go(cmd, r, p), Begun',
           temp' \in Addrs \cup {NoAddr}
    PROVE  Typed'
BY ResumeTyped DEF Go, Modes

LEMMA StepOverTyped ==
    ASSUME NEW cmd, NEW r \in Nat, NEW p, PatchOK(p), StepOver(cmd, r, p), Begun',
           temp' \in Addrs \cup {NoAddr}
    PROVE  Typed'
<1>1. CASE Enabled(p, r)
  <2>1. r \in Addrs BY <1>1 DEF Enabled, Contains, PatchOK
  <2>2. PatchOK(disable(p, r)) BY DisableTyped
  <2>. QED BY <1>1, <2>1, <2>2, ResumeTyped DEF StepOver, Modes
<1>2. CASE ~Enabled(p, r) BY <1>2, GoTyped DEF StepOver
<1>. QED BY <1>1, <1>2

LEMMA RoundTyped ==
    ASSUME Typed, CallsReturn, NEW cmd, NEW r \in Nat, NEW p, PatchOK(p), Round(cmd, r, p),
           Begun'
    PROVE  Typed'
<1>1. CASE cmd = "next" /\ call_shown(p, r)
  <2>. DEFINE a == r + Code[r].len
  <2>1. a \in Addrs BY <1>1 DEF call_shown, CallsReturn, Addrs
  <2>2. StepOver("next", r, insert_temp(p, a)) /\ temp' = TempAt(p, a)
    BY <1>1 DEF Round, run_over_call
  <2>. HIDE DEF a
  <2>. QED BY <2>1, <2>2, TableTyped, StepOverTyped
<1>2. CASE ~(cmd = "next" /\ call_shown(p, r))
  <2>1. single_step_raw(r, p) BY <1>2 DEF Round
  <2>2. PatchOK(disable(p, r)) BY DisableTyped
  <2>3. Enabled(p, r) => r \in Addrs BY DEF Enabled, Contains, PatchOK
  <2>. QED BY <2>1, <2>2, <2>3, ResumeTyped DEF single_step_raw, Modes
<1>. QED BY <1>1, <1>2

(* Where finish_undebugged_frame puts its breakpoint.                      *)
LEMMA FinishTyped ==
    ASSUME Typed, StackOK, NEW r \in Nat, NEW p, PatchOK(p), finish_undebugged_frame(r, p),
           UNCHANGED exited
    PROVE  Typed'
<1>. DEFINE a == IF stack # <<>> /\ Cpu!Top \in Nat THEN Cpu!Top ELSE Data
<1>1. a \in Addrs
  <2>1. Len(stack) \in 1 .. Len(stack)
    <3>1. Len(stack) \in Nat \ {0} BY EmptySeq DEF StackOK
    <3>. QED BY <3>1
  <2>2. Cpu!Top \in Words BY <2>1, ElementOfSeq DEF StackOK, Cpu!Top
  <2>. QED BY <2>2, SteppingAssumption DEF Words, Addrs
<1>2. \/ Return(r, p)
      \/ /\ Resume(r, insert_temp(p, a), "run", "frame")
         /\ lifted' = NoAddr /\ temp' = TempAt(p, a) /\ UNCHANGED <<command, start_line>>
  BY DEF finish_undebugged_frame
<1>. HIDE DEF a
<1>3. exited' \in BOOLEAN BY DEF Typed
<1>4. CASE Return(r, p) BY <1>3, <1>4, ReturnTyped
<1>5. CASE ~Return(r, p)
  BY <1>1, <1>2, <1>3, <1>5, TableTyped, ResumeTyped DEF Begun, Typed, Modes
<1>. QED BY <1>4, <1>5

LEMMA ArriveTyped ==
    ASSUME Typed, StackOK, CallsReturn, NEW r \in Nat, NEW p, PatchOK(p), Arrive(r, p),
           UNCHANGED exited
    PROVE  Typed'
<1>1. exited' \in BOOLEAN BY DEF Typed
<1>2. CASE finish_undebugged_frame(r, p) BY <1>2, FinishTyped
<1>3. CASE Return(r, p) BY <1>1, <1>3, ReturnTyped
<1>4. CASE Round(command, r, p) /\ UNCHANGED <<command, start_line>>
  BY <1>1, <1>4, RoundTyped DEF Begun, Typed
<1>. QED BY <1>2, <1>3, <1>4 DEF Arrive

-----------------------------------------------------------------------------
(* Every step.                                                             *)

LEMMA ProcessorTyped ==
    ASSUME CallsReturn, StackOK, Typed, Processor \/ Killed
    PROVE  StackOK' /\ Typed'
<1>1. StackOK' /\ rip' \in Nat /\ status' \in Statuses
  <2>1. CASE Execute BY <2>1, InstructionTyped DEF Execute, Typed, Statuses
  <2>2. CASE Trap BY <2>2 DEF Trap, Typed, StackOK, Statuses
  <2>3. CASE Interrupt \/ Killed BY <2>3 DEF Interrupt, Killed, Typed, StackOK, Statuses
  <2>. QED BY <2>1, <2>2, <2>3 DEF Processor
<1>2. UNCHANGED <<how, debugger>>
  BY DEF Processor, Execute, Trap, Interrupt, Killed
<1>. QED BY <1>1, <1>2 DEF debugger, Typed, PatchOK

LEMMA WaitTyped ==
    ASSUME CallsReturn, StackOK, Typed, Wait
    PROVE  Typed' /\ UNCHANGED <<stack, bp_ids, next_bp_id>>
<1>. SUFFICES Typed'
  <2>1. UNCHANGED <<stack, bp_ids, next_bp_id>>
    BY DEF Wait, step_over_current_breakpoint, wait_and_report, classify_wait, frame_waited
  <2>. QED BY <2>1
<1>2. /\ rip \in Nat /\ PatchOK(patch) /\ PatchOK(relower(patch))
      /\ PatchOK(remove_temp(patch)) /\ PatchOK(remove_temp(relower(patch)))
      /\ corrected(patch) \in Nat /\ corrected(relower(patch)) \in Nat
  BY TableTyped DEF Typed
<1>3. CASE step_over_current_breakpoint
  <2>1. exited' \in BOOLEAN BY <1>3 DEF step_over_current_breakpoint, Typed
  <2>2. CASE Return(rip, patch) BY <1>2, <2>1, <2>2, ReturnTyped
  <2>3. CASE Go(command, rip, relower(patch)) /\ UNCHANGED <<exited, command, temp, start_line>>
    BY <1>2, <2>1, <2>3, GoTyped DEF Begun, Typed
  <2>. QED BY <1>3, <2>2, <2>3 DEF step_over_current_breakpoint
<1>4. CASE wait_and_report
  <2>1. exited' \in BOOLEAN BY <1>4 DEF wait_and_report, Typed
  <2>2. \/ Return(rip, patch) \/ Return(rip, remove_temp(patch))
        \/ Return(corrected(patch), remove_temp(patch))
    BY <1>4 DEF wait_and_report
  <2>. QED BY <1>2, <2>1, <2>2, ReturnTyped
<1>5. CASE classify_wait
  <2>. DEFINE p == relower(patch)
  <2>1. exited' \in BOOLEAN BY <1>5 DEF classify_wait, Typed
  <2>2. \/ Return(rip, patch) \/ Return(rip, remove_temp(p))
        \/ Return(corrected(p), remove_temp(p))
        \/ Arrive(corrected(p), remove_temp(p)) /\ UNCHANGED exited
    BY <1>5 DEF classify_wait
  <2>. HIDE DEF p
  <2>3. PatchOK(remove_temp(p)) /\ corrected(p) \in Nat BY <1>2 DEF p
  <2>. QED BY <1>2, <2>1, <2>2, <2>3, ReturnTyped, ArriveTyped
<1>6. CASE frame_waited
  <2>1. CASE Return(rip, patch) /\ exited' = TRUE BY <1>2, <2>1, ReturnTyped
  <2>2. CASE \E r \in Nat : /\ Round(command, r, remove_temp(patch))
                            /\ UNCHANGED <<exited, command, start_line>>
    BY <1>2, <2>2, RoundTyped DEF Begun, Typed
  <2>. QED BY <1>2, <1>6, <2>1, <2>2 DEF frame_waited
<1>. QED BY <1>3, <1>4, <1>5, <1>6 DEF Wait

(* break and delete.                                                       *)
LEMMA InstallTyped ==
    ASSUME TypeInv, NEW a \in BreakAddrs, install_breakpoint(a)
    PROVE  Typed' /\ IdsTyped'
<1>1. a \in Addrs BY SteppingAssumption DEF Addrs
<1>2. PatchOK(patch') BY <1>1, PlaceTyped DEF install_breakpoint, TypeInv, Typed
<1>3. Typed' BY <1>2 DEF install_breakpoint, TypeInv, Typed, PatchOK
<1>4. next_bp_id' \in 1 .. MaxBpId + 1
  BY SteppingAssumption DEF install_breakpoint, NextId, TypeInv, IdsTyped
<1>5. bp_ids' \in [DOMAIN bp_ids' -> BreakAddrs]
  BY DEF install_breakpoint, TypeInv, IdsTyped
<1>. QED BY <1>3, <1>4, <1>5 DEF IdsTyped

LEMMA DeleteTyped ==
    ASSUME TypeInv, NEW id \in DOMAIN bp_ids, delete_breakpoint(id)
    PROVE  Typed' /\ IdsTyped'
<1>1. PatchOK(patch') BY RemoveTyped DEF delete_breakpoint, TypeInv, Typed
<1>2. Typed' BY <1>1 DEF delete_breakpoint, TypeInv, Typed, PatchOK
<1>3. bp_ids' \in [DOMAIN bp_ids' -> BreakAddrs]
  BY DEF delete_breakpoint, TypeInv, IdsTyped
<1>. QED BY <1>2, <1>3 DEF delete_breakpoint, TypeInv, IdsTyped

(* The commands that run the program.                                      *)
LEMMA RunTyped ==
    ASSUME CallsReturn, StackOK, Typed, cont \/ stepi \/ nexti \/ up \/ step_line \/ next_line
    PROVE  Typed' /\ UNCHANGED <<stack, bp_ids, next_bp_id>>
<1>1. rip \in Nat /\ PatchOK(patch) BY DEF Typed
<1>2. ASSUME NEW cmd \in Commands, Begin(cmd), start_line' \in Nat
      PROVE  Begun' /\ UNCHANGED <<stack, bp_ids, next_bp_id>>
  BY <1>2 DEF Begin, Begun, Typed
<1>a. ASSUME NEW cmd \in Commands, Begin(cmd), start_line' \in Nat,
             NEW p, PatchOK(p), StepOver(cmd, rip, p), temp' \in Addrs \cup {NoAddr}
      PROVE  Typed' /\ UNCHANGED <<stack, bp_ids, next_bp_id>>
  <2>1. Begun' /\ UNCHANGED <<stack, bp_ids, next_bp_id>> BY <1>2, <1>a
  <2>. QED BY <1>1, <1>a, <2>1, StepOverTyped
<1>b. ASSUME NEW cmd \in Commands, Begin(cmd), start_line' \in Nat, Round(cmd, rip, patch)
      PROVE  Typed' /\ UNCHANGED <<stack, bp_ids, next_bp_id>>
  <2>1. Begun' /\ UNCHANGED <<stack, bp_ids, next_bp_id>> BY <1>2, <1>b
  <2>. QED BY <1>1, <1>b, <2>1, RoundTyped
<1>c. {"continue", "stepi", "nexti", "step", "next", "up"} \subseteq Commands BY DEF Commands
<1>3. CASE cont
  BY <1>1, <1>a, <1>c, <1>3 DEF cont
<1>4. CASE stepi
  BY <1>1, <1>a, <1>c, <1>4 DEF stepi
<1>5. ASSUME NEW cmd \in Commands, NEW a \in Addrs, RunTo(cmd, a)
      PROVE  Typed' /\ UNCHANGED <<stack, bp_ids, next_bp_id>>
  <2>1. PatchOK(insert_temp(patch, a)) /\ TempAt(patch, a) \in Addrs \cup {NoAddr}
    BY <1>1, TableTyped
  <2>. QED BY <1>5, <1>a, <2>1 DEF RunTo
<1>6. CASE nexti
  <2>1. CASE call_at(patch, rip)
    <3>1. rip + Code[rip].len \in Addrs BY <2>1 DEF call_at, CallsReturn, Addrs
    <3>. QED BY <1>5, <1>6, <1>c, <2>1, <3>1 DEF nexti
  <2>2. CASE ~call_at(patch, rip) BY <1>4, <1>6, <2>2 DEF nexti
  <2>. QED BY <2>1, <2>2
<1>7. CASE up
  <2>1. Cpu!TopFrame - 1 \in 1 .. Len(stack)
    <3>1. Len(stack) \in Nat BY LenProperties DEF StackOK
    <3>. QED BY <1>7, <3>1, TopFrameIs DEF up
  <2>2. stack[Cpu!TopFrame - 1] \in Addrs
    BY <1>7, <2>1, ElementOfSeq, SteppingAssumption DEF up, StackOK, Words, Addrs
  <2>. QED BY <1>5, <1>7, <1>c, <2>2 DEF up
<1>8. \A r \in Nat : LineAt(r) \in Nat BY SteppingAssumption DEF LineAt
<1>9. CASE step_line
  BY <1>1, <1>b, <1>c, <1>8, <1>9 DEF step_line
<1>10. CASE next_line
  BY <1>1, <1>b, <1>c, <1>8, <1>10 DEF next_line
<1>. QED BY <1>3, <1>4, <1>6, <1>7, <1>9, <1>10

(* The registers, the stack, the table, the numbers and the fields of the  *)
(* commands keep their types, and what a command takes for an address in   *)
(* the program is one, as long as every call has an instruction behind it. *)
THEOREM TypeCorrect ==
    ASSUME CallsReturn PROVE Spec => []TypeOK
<1>1. Init => TypeInv
  <2>1. ASSUME Init PROVE StackOK /\ Typed /\ IdsTyped
    <3>1. StackOK
      <4>1. <<Data>> \in Seq(Words) /\ <<Data>> # <<>> /\ <<Data>>[1] = Data BY DEF Words
      <4>. QED BY <2>1, <4>1 DEF Init, StackOK
    <3>2. patch.breakpoints = [a \in {} |-> NoAddr] /\ patch.int3 = {} BY <2>1 DEF Init
    <3>3. PatchOK(patch) BY <3>2 DEF PatchOK
    <3>4. Typed BY <2>1, <3>3, SteppingAssumption DEF Init, Typed, Statuses, Modes, Commands
    <3>5. IdsTyped BY <2>1, SteppingAssumption DEF Init, IdsTyped
    <3>. QED BY <3>1, <3>4, <3>5
  <2>. QED BY <2>1, InitInv DEF TypeInv
<1>2. Inv /\ [Next]_vars => Inv'
  <2>1. Inv /\ UNCHANGED vars => Inv'
    BY DEF vars, Inv, IdsOK, LiftedOK, Exact, User, Some
  <2>. QED BY <2>1, ProcessorKeeps, WaitKeeps, CommandKeeps DEF Next
<1>3. TypeInv /\ [Next]_vars => TypeInv'
  <2>. SUFFICES ASSUME TypeInv, [Next]_vars PROVE StackOK' /\ Typed' /\ IdsTyped'
    BY <1>2 DEF TypeInv
  <2>1. UNCHANGED <<bp_ids, next_bp_id>> => IdsTyped' BY DEF TypeInv, IdsTyped
  <2>2. UNCHANGED stack => StackOK' BY DEF TypeInv, StackOK
  <2>3. CASE Processor \/ Killed
    <3>1. UNCHANGED <<bp_ids, next_bp_id>>
      BY <2>3 DEF Processor, Execute, Trap, Interrupt, Killed, debugger
    <3>. QED BY <2>1, <2>3, <3>1, ProcessorTyped DEF TypeInv
  <2>4. CASE Wait BY <2>1, <2>2, <2>4, WaitTyped DEF TypeInv
  <2>5. CASE \E a \in BreakAddrs : install_breakpoint(a)
    BY <2>2, <2>5, InstallTyped DEF install_breakpoint
  <2>6. CASE \E id \in DOMAIN bp_ids : delete_breakpoint(id)
    BY <2>2, <2>6, DeleteTyped DEF delete_breakpoint
  <2>7. CASE cont \/ stepi \/ nexti \/ up \/ step_line \/ next_line
    BY <2>1, <2>2, <2>7, RunTyped DEF TypeInv
  <2>8. CASE UNCHANGED vars
    BY <2>1, <2>2, <2>8 DEF vars, TypeInv, Typed, PatchOK
  <2>. QED BY <2>3, <2>4, <2>5, <2>6, <2>7, <2>8 DEF Next, Command
<1>4. TypeInv => TypeOK
  <2>. SUFFICES ASSUME TypeInv PROVE TypeOK OBVIOUS
  <2>1. stack \in Seq(Nat \cup {Fp, Data})
    <3>1. Words \subseteq Nat \cup {Fp, Data} BY SteppingAssumption DEF Words
    <3>. QED BY <3>1, SeqMonotonic DEF TypeInv, StackOK
  <2>. QED BY <2>1 DEF TypeInv, Typed, PatchOK, IdsTyped, Inv, IdsOK, TypeOK
<1>. QED BY <1>1, <1>3, <1>4, PTL DEF Spec

-----------------------------------------------------------------------------
(* Stepping implements Program: under tdb the program executes its own     *)
(* instructions in its own order.  The argument is about rip: it is one    *)
(* ahead of the program exactly while an int3 that was hit has not been    *)
(* answered, the breakpoint that was hit is then still in the table, and   *)
(* a single step never ends one byte past another breakpoint.  The last    *)
(* point is an assumption on the program and the breakpoints: the run      *)
(* StepBack shows what happens without it.                                 *)

(* The program stays in its code.                                          *)
Closed ==
    \A a \in DOMAIN Code :
        /\ Code[a].op \in {"plain", "branch", "enter", "leave"} => a + Code[a].len \in DOMAIN Code
        /\ Code[a].op \in {"call", "branch"} => Code[a].to \in DOMAIN Code

(* The user sets breakpoints on instructions of two bytes and more.        *)
Separated == \A a \in BreakAddrs : a + 1 \notin DOMAIN Code

RipOK ==
    /\ rip \in Int /\ status \in Statuses /\ User \subseteq BreakAddrs
    /\ status = "bp" => rip - 1 \in DOMAIN patch.breakpoints /\ mode # "over"
    /\ mode = "over" => how = "step"
    /\ mode = "over" /\ status = "running" => rip = lifted
    /\ mode = "over" /\ command = "stepi" => temp = NoAddr
    /\ mode \in {"wait", "raw", "call", "frame"} /\ how = "step" => temp = NoAddr
    /\ status = "step" => how = "step" /\ rip \in DOMAIN Code

(* Where the program has got to.                                           *)
Pc == IF status = "bp" THEN rip - 1 ELSE rip

(* tdb has set rip to r, and resumed the program or not.                   *)
Moved(r) == RipOK' /\ rip' = r /\ status' # "bp" /\ UNCHANGED stack

-----------------------------------------------------------------------------
(* What the beginnings, the rounds and the ends of commands do to rip.     *)

(* A return to the prompt.                                                 *)
LEMMA ReturnMoved ==
    ASSUME RipOK, NEW r \in Int, NEW p, Return(r, p), UNCHANGED <<stack, bp_ids>>
    PROVE  Moved(r)
BY DEF Return, Moved, RipOK, Statuses, User

(* A resumption without a breakpoint to step over.                         *)
LEMMA GoMoved ==
    ASSUME RipOK, NEW r \in Int, NEW p, NEW cmd, Go(cmd, r, p),
           cmd = "stepi" => temp' = NoAddr, UNCHANGED <<stack, bp_ids>>
    PROVE  Moved(r)
BY DEF Go, Resume, Moved, RipOK, Statuses, User

(* A resumption with or without.                                           *)
LEMMA StepOverMoved ==
    ASSUME RipOK, NEW r \in Int, NEW p, NEW cmd, StepOver(cmd, r, p), command' = cmd,
           cmd = "stepi" => temp' = NoAddr, UNCHANGED <<stack, bp_ids>>
    PROVE  Moved(r)
<1>1. CASE Enabled(p, r)
  BY <1>1 DEF StepOver, Resume, Moved, RipOK, Statuses, User
<1>2. CASE ~Enabled(p, r)
  BY <1>2, GoMoved DEF StepOver
<1>. QED BY <1>1, <1>2

(* One round of step or next.                                              *)
LEMMA RoundMoved ==
    ASSUME RipOK, NEW r \in Int, NEW p, NEW cmd, Round(cmd, r, p), command' = cmd,
           UNCHANGED <<stack, bp_ids>>
    PROVE  Moved(r)
<1>1. CASE cmd = "next" /\ call_shown(p, r)
  BY <1>1, StepOverMoved DEF Round, run_over_call
<1>2. CASE ~(cmd = "next" /\ call_shown(p, r))
  BY <1>2 DEF Round, single_step_raw, Resume, Moved, RipOK, Statuses, User
<1>. QED BY <1>1, <1>2

(* The end of a round.                                                     *)
LEMMA ArriveMoved ==
    ASSUME RipOK, NEW r \in Int, NEW p, Arrive(r, p), UNCHANGED <<stack, bp_ids>>
    PROVE  Moved(r)
<1>1. CASE finish_undebugged_frame(r, p)
  BY <1>1, ReturnMoved
     DEF finish_undebugged_frame, Resume, Moved, RipOK, Statuses, User
<1>2. CASE Return(r, p) BY <1>2, ReturnMoved
<1>3. CASE Round(command, r, p) /\ command' = command BY <1>3, RoundMoved
<1>. QED BY <1>1, <1>2, <1>3 DEF Arrive

-----------------------------------------------------------------------------
(* The rip fix-up goes back over the int3 that was hit, and only then.     *)
LEMMA CorrectedIsPc ==
    ASSUME RipOK, Separated, NEW p,
           status \in {"bp", "step"},
           status = "bp" => rip - 1 \in DOMAIN p.breakpoints,
           status = "step" => DOMAIN p.breakpoints = User
    PROVE  corrected(p) = Pc /\ Pc \in Int
<1>1. CASE status = "bp" BY <1>1 DEF corrected, Pc, RipOK
<1>2. CASE status = "step"
  <2>1. rip \in DOMAIN Code /\ rip \in Int BY <1>2 DEF RipOK
  <2>2. rip - 1 \notin BreakAddrs
    <3>1. rip = (rip - 1) + 1 BY <2>1
    <3>. QED BY <2>1, <3>1 DEF Separated
  <2>. QED BY <1>2, <2>1, <2>2 DEF corrected, Pc, RipOK
<1>. QED BY <1>1, <1>2

(* relower keeps the addresses of the table.                               *)
LEMMA RelowerTable ==
    ASSUME Exact(patch, lifted, temp)
    PROVE  DOMAIN relower(patch).breakpoints = DOMAIN patch.breakpoints
BY Relower DEF Exact

(* Every answer of waitpid leaves the program where it is.                 *)
LEMMA WaitMoved == Inv /\ RipOK /\ Separated /\ Wait => Moved(Pc)
<1>. SUFFICES ASSUME Inv, RipOK, Separated, Wait PROVE Moved(Pc) OBVIOUS
<1>1. /\ UNCHANGED <<stack, bp_ids>> /\ mode # "prompt"
      /\ status \in {"bp", "step", "int", "exited", "killed"}
  BY DEF Wait, step_over_current_breakpoint, wait_and_report, classify_wait, frame_waited,
         Inv, LiftedOK, RipOK, Statuses
<1>2. Exact(patch, lifted, temp) BY <1>1 DEF Inv
<1>3. status # "bp" => Pc = rip /\ Pc \in Int BY DEF Pc, RipOK
<1>4. status = "step" /\ mode # "over" /\ mode \in Modes => DOMAIN patch.breakpoints = User
  BY <1>1, <1>2 DEF RipOK, Exact, Some, Modes
<1>5. CASE step_over_current_breakpoint
  <2>1. status # "bp" BY <1>5 DEF step_over_current_breakpoint, RipOK
  <2>2. CASE Return(rip, patch) BY <1>1, <1>3, <2>1, <2>2, ReturnMoved
  <2>3. CASE Go(command, rip, relower(patch)) /\ temp' = temp
    <3>1. command = "stepi" => temp' = NoAddr
      BY <1>5, <2>3 DEF step_over_current_breakpoint, RipOK
    <3>. QED BY <1>1, <1>3, <2>1, <2>3, <3>1, GoMoved
  <2>. QED BY <1>5, <2>2, <2>3 DEF step_over_current_breakpoint
<1>6. CASE wait_and_report
  <2>1. CASE status \in {"bp", "step"}
    <3>1. corrected(patch) = Pc /\ Pc \in Int
      BY <1>4, <1>6, <2>1, CorrectedIsPc DEF wait_and_report, Modes, RipOK
    <3>2. Return(Pc, remove_temp(patch)) BY <1>6, <2>1, <3>1 DEF wait_and_report, Dead
    <3>. QED BY <1>1, <3>1, <3>2, ReturnMoved
  <2>2. CASE status \notin {"bp", "step"}
    <3>1. \E p : Return(rip, p) BY <1>1, <1>6, <2>2 DEF wait_and_report, Dead
    <3>. QED BY <1>1, <1>3, <2>2, <3>1, ReturnMoved
  <2>. QED BY <2>1, <2>2
<1>7. CASE classify_wait
  <2>1. CASE status \in {"bp", "step"}
    <3>. DEFINE p == relower(patch)
    <3>1. corrected(p) = Pc /\ Pc \in Int
      <4>1. DOMAIN p.breakpoints = DOMAIN patch.breakpoints BY <1>2, RelowerTable
      <4>2. status = "bp" => rip - 1 \in DOMAIN p.breakpoints BY <4>1 DEF RipOK
      <4>3. status = "step" => DOMAIN p.breakpoints = User
        BY <1>4, <1>7, <4>1 DEF classify_wait, Modes
      <4>. HIDE DEF p
      <4>. QED BY <2>1, <4>2, <4>3, CorrectedIsPc
    <3>2. Return(Pc, remove_temp(p)) \/ Arrive(Pc, remove_temp(p))
      BY <1>7, <2>1, <3>1 DEF classify_wait, Dead
    <3>. QED BY <1>1, <3>1, <3>2, ReturnMoved, ArriveMoved
  <2>2. CASE status \notin {"bp", "step"}
    <3>1. \E p : Return(rip, p) BY <1>1, <1>7, <2>2 DEF classify_wait, Dead
    <3>. QED BY <1>1, <1>3, <2>2, <3>1, ReturnMoved
  <2>. QED BY <2>1, <2>2
<1>8. CASE frame_waited
  <2>1. CASE status \in {"bp", "step"}
    <3>1. corrected(patch) = Pc /\ Pc \in Int
      BY <1>4, <1>8, <2>1, CorrectedIsPc DEF frame_waited, Modes, RipOK
    <3>2. Round(command, Pc, remove_temp(patch)) /\ command' = command
      BY <1>8, <2>1, <3>1 DEF frame_waited, Dead
    <3>. QED BY <1>1, <3>1, <3>2, RoundMoved
  <2>2. CASE status = "int"
    <3>1. Round(command, rip, remove_temp(patch)) /\ command' = command
      BY <1>8, <2>2 DEF frame_waited, Dead
    <3>. QED BY <1>1, <1>3, <2>2, <3>1, RoundMoved
  <2>3. CASE status \in Dead
    <3>1. Return(rip, patch) BY <1>8, <2>3 DEF frame_waited
    <3>. QED BY <1>1, <1>3, <2>3, <3>1, ReturnMoved DEF Dead
  <2>. QED BY <1>1, <2>1, <2>2, <2>3 DEF Dead
<1>. QED BY <1>5, <1>6, <1>7, <1>8 DEF Wait

(* So does every command.                                                  *)
LEMMA CommandMoved == Inv /\ RipOK /\ Command => RipOK' /\ Pc' = Pc /\ UNCHANGED stack
<1>. SUFFICES ASSUME Inv, RipOK, Command PROVE RipOK' /\ Pc' = Pc /\ UNCHANGED stack
  OBVIOUS
<1>1. \A cmd : Begin(cmd) => /\ UNCHANGED <<stack, bp_ids>>
                             /\ command' = cmd /\ status = "stopped"
  BY DEF Begin
<1>2. ASSUME NEW cmd, Begin(cmd), NEW p, StepOver(cmd, rip, p) \/ Round(cmd, rip, p),
             cmd = "stepi" => temp' = NoAddr
      PROVE  RipOK' /\ Pc' = Pc /\ UNCHANGED stack
  <2>1. rip \in Int BY DEF RipOK
  <2>2. Moved(rip) BY <1>1, <1>2, <2>1, StepOverMoved, RoundMoved
  <2>. QED BY <1>1, <1>2, <2>2 DEF Moved, Pc
<1>3. CASE \E a \in BreakAddrs : install_breakpoint(a)
  <2>1. PICK a \in BreakAddrs : install_breakpoint(a) BY <1>3
  <2>2. User' \subseteq User \cup {a} BY <2>1 DEF install_breakpoint, User
  <2>. QED BY <2>1, <2>2 DEF install_breakpoint, RipOK, Pc
<1>4. CASE \E id \in DOMAIN bp_ids : delete_breakpoint(id)
  <2>1. PICK id \in DOMAIN bp_ids : delete_breakpoint(id) BY <1>4
  <2>2. User' \subseteq User BY <2>1 DEF delete_breakpoint, User
  <2>. QED BY <2>1, <2>2 DEF delete_breakpoint, RipOK, Pc
<1>5. CASE cont BY <1>2, <1>5 DEF cont
<1>6. CASE stepi BY <1>2, <1>6 DEF stepi
<1>7. CASE nexti BY <1>2, <1>6, <1>7 DEF nexti, RunTo
<1>8. CASE up BY <1>2, <1>8 DEF up, RunTo
<1>9. CASE step_line BY <1>2, <1>9 DEF step_line
<1>10. CASE next_line BY <1>2, <1>10 DEF next_line
<1>. QED BY <1>3, <1>4, <1>5, <1>6, <1>7, <1>8, <1>9, <1>10 DEF Command

-----------------------------------------------------------------------------
(* An instruction leads to an instruction.                                 *)
LEMMA StepInCode == Closed /\ Cpu!Step => rip' \in DOMAIN Code
BY DEF Closed, Cpu!Step, Cpu!Faults, Cpu!Following, Cpu!Plain, Cpu!Call, Cpu!Taken,
       Cpu!Passed, Cpu!Enter, Cpu!Leave, Cpu!Ret, Cpu!Exit

(* The processor executes an instruction, or stops.                        *)
LEMMA ExecuteMoved ==
    Inv /\ RipOK /\ Closed /\ Execute => RipOK' /\ Undebugged!Step
<1>. SUFFICES ASSUME Inv, RipOK, Closed, Execute PROVE RipOK' /\ Undebugged!Step OBVIOUS
<1>1. /\ Cpu!Step /\ status = "running" /\ UNCHANGED <<how, debugger>>
      /\ status' \in {"exited", "step", "running"}
      /\ status' = "step" => how = "step"
      /\ how = "step" => status' # "running"
  BY DEF Execute
<1>2. rip' \in DOMAIN Code BY <1>1, StepInCode
<1>3. rip' \in Int BY <1>2, SteppingAssumption
<1>4. RipOK' BY <1>1, <1>2, <1>3 DEF RipOK, debugger, Statuses, User
<1>5. Undebugged!Step
  BY <1>1
     DEF Cpu!Step, Cpu!Faults, Cpu!Following, Cpu!Plain, Cpu!Call, Cpu!Taken, Cpu!Passed,
         Cpu!Enter, Cpu!Leave, Cpu!Ret, Cpu!Exit, Cpu!Frames, Cpu!TopFrame, Cpu!Top,
         Cpu!Popped,
         Undebugged!Step, Undebugged!Faults, Undebugged!Following, Undebugged!Plain,
         Undebugged!Call, Undebugged!Taken, Undebugged!Passed, Undebugged!Enter,
         Undebugged!Leave, Undebugged!Ret, Undebugged!Exit, Undebugged!Frames,
         Undebugged!TopFrame, Undebugged!Top, Undebugged!Popped
<1>. QED BY <1>4, <1>5

(* An int3 is hit only where it is in the table and not lifted.            *)
LEMMA TrapMoved == Inv /\ RipOK /\ Trap => RipOK' /\ Pc' = Pc /\ UNCHANGED stack
<1>. SUFFICES ASSUME Inv, RipOK, Trap PROVE RipOK' /\ Pc' = Pc /\ UNCHANGED stack OBVIOUS
<1>1. /\ status = "running" /\ rip \in patch.int3 /\ rip' = rip + 1 /\ status' = "bp"
      /\ UNCHANGED <<stack, how, debugger>>
  BY DEF Trap
<1>2. Exact(patch, lifted, temp) BY <1>1 DEF Inv
<1>3. rip \in DOMAIN patch.breakpoints /\ rip # lifted BY <1>1, <1>2 DEF Exact
<1>4. rip' - 1 = rip /\ rip' \in Int BY <1>1 DEF RipOK
<1>. QED BY <1>1, <1>3, <1>4 DEF RipOK, Pc, debugger, Statuses, User

(* A signal leaves the program where it is.                                *)
LEMMA SignalMoved ==
    RipOK /\ (Interrupt \/ Killed) => RipOK' /\ Pc' = Pc /\ UNCHANGED stack
BY DEF Interrupt, Killed, RipOK, Pc, debugger, Statuses, User

(* Every step is one of the program or none.                               *)
LEMMA NextMoved ==
    Inv /\ RipOK /\ Closed /\ Separated /\ [Next]_vars
    => RipOK' /\ [Undebugged!Step]_<<Pc, stack>>
<1>. SUFFICES ASSUME Inv, RipOK, Closed, Separated, [Next]_vars
              PROVE  RipOK' /\ [Undebugged!Step]_<<Pc, stack>>
  OBVIOUS
<1>1. CASE Execute BY <1>1, ExecuteMoved
<1>2. CASE Trap BY <1>2, TrapMoved
<1>3. CASE Interrupt \/ Killed BY <1>3, SignalMoved
<1>4. CASE Wait
  <2>1. Moved(Pc) BY <1>4, WaitMoved
  <2>. QED BY <2>1 DEF Moved, Pc
<1>5. CASE Command BY <1>5, CommandMoved
<1>6. CASE UNCHANGED vars BY <1>6 DEF vars, RipOK, Pc, User
<1>. QED BY <1>1, <1>2, <1>3, <1>4, <1>5, <1>6 DEF Next, Processor

(* Whatever is set, lifted, stepped over and moved back, the program under *)
(* tdb executes its own instructions in its own order, provided that no    *)
(* breakpoint of the user is on an instruction of one byte.                *)
THEOREM ProgramUndisturbed ==
    ASSUME Closed, Separated
    PROVE  Spec => ExecutesProgram
<1>1. Init => RipOK /\ Undebugged!Init
  BY SteppingAssumption DEF Init, RipOK, Undebugged!Init, Statuses, User
<1>2. Inv /\ RipOK /\ [Next]_vars => RipOK' /\ [Undebugged!Step]_<<Pc, stack>>
  BY NextMoved
<1>3. Spec => []RipOK BY <1>1, <1>2, InvHolds, PTL DEF Spec
<1>. QED BY <1>1, <1>2, <1>3, InvHolds, PTL DEF Spec, ExecutesProgram, Undebugged!Spec, Pc
=============================================================================
