------------------------------ MODULE Stepping ------------------------------
(***************************************************************************)
(* Software breakpoints and the commands that step: src/breakpoint.rs and  *)
(* cont, stepi, nexti, step_line, next_line and up of src/debugger.rs,     *)
(* over one thread that executes a small program.  What makes them hard is *)
(* the byte: an int3 overwrites the first byte of an instruction, is       *)
(* lifted to execute it, leaves rip one byte further when hit, and the     *)
(* commands put temporary ones of their own where a call is to return.     *)
(* Other threads and processes, watchpoints and leak tracking are left to  *)
(* modules of their own.                                                   *)
(*                                                                         *)
(* Addresses are natural numbers and instructions have a length, so that   *)
(* rip - 1 is what it is in the code.                                      *)
(***************************************************************************)
EXTENDS Integers, Sequences

CONSTANTS Code,        \* address -> [op, len, to, line, is_stmt]; line 0 is "no row"
          Entry,       \* where the program stops after `run`
          BreakAddrs,  \* where the user may set breakpoints
          MaxBpId,     \* bound on the numbers of breakpoints
          MaxStack,    \* bound on recursion: no branch falls through beyond it
          Fp, Data,    \* what the stack holds besides return addresses
          NoAddr       \* Rust's None

Ops == {"plain", "call", "branch", "enter", "leave", "ret", "exit"}

ASSUME SteppingAssumption ==
    /\ DOMAIN Code \subseteq Nat
    /\ \A a \in DOMAIN Code :
          Code[a] \in [op : Ops, len : Nat \ {0}, to : Nat, line : Nat, is_stmt : BOOLEAN]
    /\ Entry \in DOMAIN Code
    /\ BreakAddrs \subseteq DOMAIN Code
    /\ MaxBpId \in Nat /\ MaxStack \in Nat
    /\ {Fp, Data, NoAddr} \cap Int = {}
    /\ Fp # Data /\ Fp # NoAddr /\ Data # NoAddr

VARIABLES
    rip, stack,   \* the registers and the stack of the thread
    status,       \* is it running, and if not, how it stopped
    how,          \* "run" (PTRACE_CONT) or "step" (PTRACE_SINGLESTEP)
    patch,        \* Debugger.breakpoints, and the addresses that hold an int3
    bp_ids, next_bp_id, exited,   \* fields of Debugger
    mode,         \* which wait the command is in
    command,      \* the command being executed
    lifted,       \* the address whose int3 is lifted for one instruction
    temp,         \* the temporary breakpoint the command put in
    start_line    \* the line step or next started on

vars == <<rip, stack, status, how, patch, bp_ids, next_bp_id, exited,
          mode, command, lifted, temp, start_line>>

(* The thread executes its instructions at rip.                            *)
Cpu == INSTANCE Program WITH pc <- rip

(* "bp" and "step" are both a SIGTRAP to tdb: an int3, a single step.      *)
Statuses == {"running", "stopped", "bp", "step", "int", "exited", "killed", "gone"}
Modes    == {"prompt", "over", "wait", "raw", "call", "frame"}
Commands == {"none", "continue", "stepi", "nexti", "step", "next", "up"}
Addrs    == DOMAIN Code \cup {Data}

TypeOK ==
    /\ rip \in Nat /\ stack \in Seq(Nat \cup {Fp, Data})
    /\ status \in Statuses /\ how \in {"run", "step"}
    /\ DOMAIN patch.breakpoints \subseteq Addrs
    /\ patch.breakpoints \in [DOMAIN patch.breakpoints ->
                                 [enabled : BOOLEAN, orig_byte : {"zero", "code", "int3"}]]
    /\ patch.int3 \in SUBSET Addrs
    /\ DOMAIN bp_ids \subseteq 1 .. next_bp_id - 1
    /\ bp_ids \in [DOMAIN bp_ids -> BreakAddrs]
    /\ next_bp_id \in 1 .. MaxBpId + 1
    /\ exited \in BOOLEAN
    /\ mode \in Modes /\ command \in Commands
    /\ lifted \in Addrs \cup {NoAddr} /\ temp \in Addrs \cup {NoAddr}
    /\ start_line \in Nat

Init ==
    /\ rip = Entry /\ stack = <<Data>>
    /\ status = "stopped" /\ how = "run"
    /\ patch = [breakpoints |-> [a \in {} |-> NoAddr], int3 |-> {}]
    /\ bp_ids = [i \in {} |-> NoAddr] /\ next_bp_id = 1 /\ exited = FALSE
    /\ mode = "prompt" /\ command = "none"
    /\ lifted = NoAddr /\ temp = NoAddr /\ start_line = 0

-----------------------------------------------------------------------------
(* The processor.                                                          *)

debugger == <<patch, bp_ids, next_bp_id, exited, mode, command, lifted, temp, start_line>>

Execute ==
    /\ status = "running"
    /\ rip \notin patch.int3
    /\ Cpu!Step
    /\ status' = CASE Code[rip].op = "exit" -> "exited"
                   [] how = "step" -> "step"
                   [] OTHER -> "running"
    /\ UNCHANGED <<how, debugger>>

Trap == /\ status = "running"
        /\ rip \in patch.int3
        /\ rip' = rip + 1 /\ status' = "bp"
        /\ UNCHANGED <<stack, how, debugger>>

(* A signal stops it before the next instruction: Ctrl-C, or the fault of  *)
(* an instruction it cannot execute.                                       *)
Interrupt == /\ status = "running"
             /\ status' = "int"
             /\ UNCHANGED <<rip, stack, how, debugger>>

(* WaitStatus::Signaled: SIGKILL from outside.                             *)
Killed == /\ status = "running"
          /\ status' = "killed"
          /\ UNCHANGED <<rip, stack, how, debugger>>

Processor == Execute \/ Trap \/ Interrupt

-----------------------------------------------------------------------------
(* breakpoint.rs, on a table and the memory it patches.                    *)

(* Mutant: an exit is not told from a stop.                                *)
only_killed == {"killed"}

(* WaitStatus::Exited, WaitStatus::Signaled.                               *)
Dead == {"exited", "killed"}

Patch(b, m) == [breakpoints |-> b, int3 |-> m]

Contains(p, a) == a \in DOMAIN p.breakpoints
Enabled(p, a)  == Contains(p, a) /\ p.breakpoints[a].enabled

Byte(enabled, orig_byte) == [enabled |-> enabled, orig_byte |-> orig_byte]

Put(b, a, bp) == [x \in DOMAIN b \cup {a} |-> IF x = a THEN bp ELSE b[x]]

(* A new breakpoint, enabled: whatever byte it finds, it saves.            *)
place(p, a) ==
    Patch(Put(p.breakpoints, a, Byte(TRUE, IF a \in p.int3 THEN "int3" ELSE "code")),
          p.int3 \cup {a})

enable(p, a) == IF Enabled(p, a) THEN p ELSE place(p, a)

disable(p, a) ==
    IF ~Enabled(p, a) THEN p
    ELSE LET byte == p.breakpoints[a].orig_byte IN
         Patch(Put(p.breakpoints, a, Byte(FALSE, byte)),
               IF byte = "int3" THEN p.int3 ELSE p.int3 \ {a})

remove(p, a) ==
    Patch([x \in DOMAIN p.breakpoints \ {a} |-> p.breakpoints[x]], disable(p, a).int3)

(* Mutant: an existing breakpoint is overwritten by the temporary one.     *)
insert_over(p, a) == place(p, a)

insert_temp(p, a) == IF Contains(p, a) THEN p ELSE place(p, a)

TempAt(p, a) == IF Contains(p, a) THEN NoAddr ELSE a

remove_temp(p) == IF temp = NoAddr THEN p ELSE remove(p, temp)

(* Mutant: the int3 is not written back after the step.                    *)
stay_lifted(p) == p

relower(p) == IF lifted = NoAddr THEN p ELSE enable(p, lifted)

User == {bp_ids[i] : i \in DOMAIN bp_ids}

(* Mutant: the number is used again.                                       *)
same_id == next_bp_id

NextId == next_bp_id + 1

install_breakpoint(a) ==
    /\ status = "stopped"
    /\ ~Contains(patch, a)
    /\ next_bp_id <= MaxBpId
    /\ patch' = place(patch, a)
    /\ bp_ids' = [i \in DOMAIN bp_ids \cup {next_bp_id} |->
                     IF i = next_bp_id THEN a ELSE bp_ids[i]]
    /\ next_bp_id' = NextId
    /\ UNCHANGED <<rip, stack, status, how, exited, mode, command, lifted, temp, start_line>>

delete_breakpoint(id) ==
    /\ status = "stopped"
    /\ bp_ids' = [i \in DOMAIN bp_ids \ {id} |-> bp_ids[i]]
    /\ patch' = remove(patch, bp_ids[id])
    /\ UNCHANGED <<rip, stack, status, how, next_bp_id, exited, mode, command, lifted, temp,
                   start_line>>

-----------------------------------------------------------------------------
(* Beginnings and ends.  r and p are the register and the table as the     *)
(* command has left them so far.                                           *)

Resume(r, p, h, m) == /\ rip' = r /\ patch' = p /\ status' = "running"
                      /\ how' = h /\ mode' = m

Return(r, p) ==
    /\ rip' = r /\ patch' = p
    /\ status' = IF status \in Dead THEN "gone" ELSE "stopped"
    /\ mode' = "prompt" /\ command' = "none"
    /\ lifted' = NoAddr /\ temp' = NoAddr /\ start_line' = 0
    /\ UNCHANGED how

(* After the step over a breakpoint, or without one.                       *)
Go(cmd, r, p) ==
    /\ Resume(r, p, IF cmd = "stepi" THEN "step" ELSE "run",
                    IF cmd = "next" THEN "call" ELSE "wait")
    /\ lifted' = NoAddr

StepOver(cmd, r, p) ==
    IF Enabled(p, r)
    THEN Resume(r, disable(p, r), "step", "over") /\ lifted' = r
    ELSE Go(cmd, r, p)

Begin(cmd) ==
    /\ status = "stopped" /\ mode = "prompt"
    /\ command' = cmd
    /\ UNCHANGED <<stack, bp_ids, next_bp_id, exited>>

(* nexti looks at the memory as it is, next at the original bytes.         *)
call_at(p, r) == /\ r \in DOMAIN Code /\ Code[r].op = "call"
                 /\ r \notin p.int3
call_shown(p, r) == /\ r \in DOMAIN Code /\ Code[r].op = "call"
                    /\ r \in p.int3 => Enabled(p, r) /\ p.breakpoints[r].orig_byte = "code"

-----------------------------------------------------------------------------
(* continue, stepi, nexti, up: through wait_and_report.                    *)

cont == /\ Begin("continue") /\ StepOver("continue", rip, patch)
        /\ temp' = NoAddr /\ start_line' = 0

stepi == /\ Begin("stepi") /\ StepOver("stepi", rip, patch)
         /\ temp' = NoAddr /\ start_line' = 0

RunTo(cmd, a) == /\ Begin(cmd) /\ StepOver(cmd, rip, insert_temp(patch, a))
                 /\ temp' = TempAt(patch, a) /\ start_line' = 0

nexti == IF call_at(patch, rip) THEN RunTo("nexti", rip + Code[rip].len) ELSE stepi

(* A saved frame pointer always lies on a return address here.             *)
up == /\ Cpu!Frames # {}
      /\ stack[Cpu!TopFrame - 1] \in Nat
      /\ RunTo("up", stack[Cpu!TopFrame - 1])

step_over_current_breakpoint ==
    /\ mode = "over" /\ status # "running"
    /\ IF status \in Dead
       THEN exited' = (status = "exited") /\ Return(rip, patch)
       ELSE /\ Go(command, rip, relower(patch))
            /\ UNCHANGED <<exited, command, temp, start_line>>
    /\ UNCHANGED <<stack, bp_ids, next_bp_id>>

(* Mutant: rip stays one byte past the int3.                               *)
no_correction(p) == rip

(* Any breakpoint one byte back is taken for the one that was hit.         *)
corrected(p) == IF rip - 1 \in DOMAIN p.breakpoints THEN rip - 1 ELSE rip

wait_and_report ==
    /\ mode = "wait" /\ status # "running"
    /\ CASE status \in Dead -> exited' = TRUE /\ Return(rip, patch)
         [] status = "int"  -> UNCHANGED exited /\ Return(rip, remove_temp(patch))
         [] OTHER -> UNCHANGED exited /\ Return(corrected(patch), remove_temp(patch))
    /\ UNCHANGED <<stack, bp_ids, next_bp_id>>

-----------------------------------------------------------------------------
(* step, next: waits of their own.                                         *)

single_step_raw(r, p) ==
    /\ Resume(r, disable(p, r), "step", "raw")
    /\ lifted' = (IF Enabled(p, r) THEN r ELSE NoAddr)
    /\ temp' = NoAddr

run_over_call(r, p) ==
    LET ret_addr == r + Code[r].len IN
    /\ StepOver("next", r, insert_temp(p, ret_addr))
    /\ temp' = TempAt(p, ret_addr)

(* One round of the loop of step_line or next_line.                        *)
Round(cmd, r, p) == IF cmd = "next" /\ call_shown(p, r) THEN run_over_call(r, p)
                                                        ELSE single_step_raw(r, p)

LineAt(r) == IF r \in DOMAIN Code THEN Code[r].line ELSE 0

step_line == /\ Begin("step") /\ start_line' = LineAt(rip)
             /\ Round("step", rip, patch)

next_line == /\ Begin("next") /\ start_line' = LineAt(rip)
             /\ Round("next", rip, patch)

(* The word at rsp is taken for a return address.  Where it is none, the   *)
(* int3 goes into whatever it points to, or the command fails.             *)
finish_undebugged_frame(r, p) ==
    LET ret_addr == IF stack # <<>> /\ Cpu!Top \in Nat THEN Cpu!Top ELSE Data IN
    \/ ret_addr = Data /\ Return(r, p)
    \/ /\ Resume(r, insert_temp(p, ret_addr), "run", "frame")
       /\ lifted' = NoAddr /\ temp' = TempAt(p, ret_addr)
       /\ UNCHANGED <<command, start_line>>

(* StepStop::Other.                                                        *)
Arrive(r, p) ==
    CASE LineAt(r) = 0 -> finish_undebugged_frame(r, p)
      [] LineAt(r) \notin {0, start_line} /\ Code[r].is_stmt -> Return(r, p)
      [] OTHER -> Round(command, r, p) /\ UNCHANGED <<command, start_line>>

classify_wait ==
    LET p == relower(patch) IN
    /\ mode \in {"raw", "call"} /\ status # "running"
    /\ CASE status \in Dead -> exited' = TRUE /\ Return(rip, patch)
         [] status = "int"  -> UNCHANGED exited /\ Return(rip, remove_temp(p))
         [] OTHER ->
              /\ UNCHANGED exited
              /\ IF Contains(p, rip - 1) /\ rip - 1 \in User
                 THEN Return(corrected(p), remove_temp(p))
                 ELSE Arrive(corrected(p), remove_temp(p))
    /\ UNCHANGED <<stack, bp_ids, next_bp_id>>

(* finish_undebugged_frame, from its waitpid on; the loop goes round.      *)
frame_waited ==
    /\ mode = "frame" /\ status # "running"
    /\ IF status \in Dead
       THEN exited' = TRUE /\ Return(rip, patch)
       ELSE /\ Round(command, IF status = "int" THEN rip ELSE corrected(patch),
                     remove_temp(patch))
            /\ UNCHANGED <<exited, command, start_line>>
    /\ UNCHANGED <<stack, bp_ids, next_bp_id>>

-----------------------------------------------------------------------------
Wait == step_over_current_breakpoint \/ wait_and_report \/ classify_wait \/ frame_waited

Command == \/ \E a \in BreakAddrs : install_breakpoint(a)
           \/ \E id \in DOMAIN bp_ids : delete_breakpoint(id)
           \/ cont \/ stepi \/ nexti \/ up \/ step_line \/ next_line

Next == Processor \/ Killed \/ Wait \/ Command

(* The processor executes and tdb answers waitpid; commands and signals    *)
(* come from outside.                                                      *)
Fairness == WF_vars(Processor) /\ WF_vars(Wait)

Spec == Init /\ [][Next]_vars /\ Fairness

-----------------------------------------------------------------------------
(* At the prompt the program's memory is its own except at the user's      *)
(* breakpoints: every temporary int3 is gone, each lifted one is back, and *)
(* each saved byte is the program's (a saved 0xCC could never be undone).  *)
MemoryIsUsers ==
    status = "stopped" =>
        /\ patch.int3 = User
        /\ DOMAIN patch.breakpoints = User
        /\ \A a \in User : patch.breakpoints[a] = Byte(TRUE, "code")

(* While the program runs freely every breakpoint of the user is in        *)
(* memory, so that none is passed unseen: only a single step has one       *)
(* lifted (step_over_current_breakpoint, single_step_raw).                 *)
ArmedWhileRunning == status = "running" /\ how = "run" => User \subseteq patch.int3

(* Debugging does not change what the program does: it executes its own    *)
(* instructions in its own order, each once, and is never resumed in the   *)
(* middle of one (the comment in next_line on removing the temporary       *)
(* breakpoint after the rip fix-up).  The address it has got to is one     *)
(* behind rip while an int3 that it hit has not been answered.             *)
Undebugged == INSTANCE Program WITH pc <- IF status = "bp" THEN rip - 1 ELSE rip

ExecutesProgram == Undebugged!Spec

(* A command comes back to the prompt: the program runs to its end, and    *)
(* the loops of step and next make progress.                               *)
CommandReturns == mode # "prompt" ~> mode = "prompt"

(* An instruction that has been executed is not executed again: rip goes   *)
(* back only over an int3 that was hit.                                    *)
NeverUndone == [][status = "step" => rip' = rip]_vars
=============================================================================
