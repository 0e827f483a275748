---------------------------- MODULE Breakpoints ----------------------------
(***************************************************************************)
(* Software breakpoints in the memory of several processes: the table of   *)
(* src/debugger.rs is one and holds one saved byte for each address, the   *)
(* memories are as many as the program has forked, and each can be written *)
(* only through a thread that is stopped.  break, delete, continue, nexti, *)
(* up, the round of next over a call, and thread; the commands in detail,  *)
(* with a single thread, are module Stepping, and the waits with locks and *)
(* signals module Session.                                                 *)
(*                                                                         *)
(* The kernel's side is module Tracees; here its "at" and "past" speak of  *)
(* the address where[t].  Where the program goes is its own affair: a      *)
(* running thread may come upon any int3 of its memory.                    *)
(***************************************************************************)
EXTENDS Tracees

CONSTANTS Main,       \* the process that `run` has started
          Addrs,      \* where the user, or a call's return, puts breakpoints
          NoAddr,     \* Rust's None, and any other place in the program
          MaxProcesses, \* bound on how many processes the program becomes
          Commands,   \* which commands the user gives
          Watching    \* TRUE when a watchpoint may be hit in a step over

ASSUME BreakpointsAssumption ==
    /\ Main \in Tids /\ NoAddr \notin Addrs
    /\ MaxProcesses \in Nat
    /\ Commands \subseteq {"break", "delete", "continue", "nexti", "next", "thread"}
    /\ Watching \in BOOLEAN

VARIABLES
    where,        \* the address each thread is at, or one byte past
    patch,        \* Debugger.breakpoints, and the bytes in the memory of each process
    user,         \* the addresses in bp_ids
    exited, current_tid, threads, pending_initial_stop, processes,  \* fields of Debugger
    mode,         \* which wait the command is in
    after,        \* what follows the step over a breakpoint
    lifted,       \* the address whose int3 is lifted for one instruction
    temp,         \* the temporary breakpoint of the command
    through,      \* the thread the command began with
    unreached     \* for the properties: <<process, address>> where the memory and the
                  \* table may differ, as a change could not be written, or not truly

fields == <<user, exited, current_tid, threads, pending_initial_stop, processes>>
steps  == <<mode, after, lifted, temp, through>>
vars   == <<kernelVars, where, patch, fields, steps, unreached>>

Bytes == {"code", "int3", "zero"}

TypeOK ==
    /\ KernelTypeOK
    /\ where \in [Tids -> Addrs \cup {NoAddr}]
    /\ \A t \in Tids : rip[t] # "off" => where[t] \in Addrs
    /\ DOMAIN patch.breakpoints \subseteq Addrs
    /\ patch.breakpoints \in [DOMAIN patch.breakpoints ->
                                 [enabled : BOOLEAN, orig_byte : Bytes]]
    /\ patch.memory \in [Tids -> [Addrs -> Bytes]]
    /\ user \subseteq DOMAIN patch.breakpoints
    /\ exited \in BOOLEAN /\ current_tid \in Tids \cup {NoTid}
    /\ threads \subseteq Tids /\ pending_initial_stop \subseteq Tids /\ processes \subseteq Tids
    /\ mode \in {"prompt", "stepover", "wait", "call"} /\ after \in {"wait", "call"}
    /\ lifted \in Addrs \cup {NoAddr} /\ temp \in Addrs \cup {NoAddr}
    /\ through \in Tids \cup {NoTid}
    /\ unreached \subseteq Tids \X Addrs

Init ==
    /\ run = [t \in Tids |-> IF t = Main THEN "stopped" ELSE "unborn"]
    /\ report = [t \in Tids |-> Quiet]
    /\ leader = [t \in Tids |-> IF t = Main THEN Main ELSE NoTid]
    /\ sigs = [t \in Tids |-> {}] /\ rip = [t \in Tids |-> "off"]
    /\ where = [t \in Tids |-> NoAddr]
    /\ patch = [breakpoints |-> [a \in {} |-> NoAddr],
                memory |-> [p \in Tids |-> [a \in Addrs |-> "code"]]]
    /\ user = {} /\ exited = FALSE /\ current_tid = Main
    /\ threads = {Main} /\ pending_initial_stop = {} /\ processes = {Main}
    /\ mode = "prompt" /\ after = "wait" /\ lifted = NoAddr
    /\ temp = NoAddr /\ through = NoTid /\ unreached = {}

Processes == {p \in Tids : leader[p] = p}

-----------------------------------------------------------------------------
(* The program.                                                            *)

Int3At(t, a) == patch.memory[leader[t]][a] = "int3"

(* It stands before an int3, and can do nothing but execute it.            *)
Blocked(t) == rip[t] = "at" /\ Int3At(t, where[t])

At(a) == IF a = NoAddr THEN "off" ELSE "at"

Arrives(t, a, r) == /\ Stop(t, Report(r))
                    /\ where' = [where EXCEPT ![t] = a]
                    /\ rip' = [rip EXCEPT ![t] = At(a)]

Trap(t) ==
    /\ run[t] = "running" \/ (run[t] = "stepover" /\ Blocked(t))
    /\ \E a \in Addrs :
          /\ Int3At(t, a)
          /\ Blocked(t) => a = where[t]
          /\ Stop(t, Report("trap"))
          /\ where' = [where EXCEPT ![t] = a] /\ rip' = [rip EXCEPT ![t] = "past"]
    /\ UNCHANGED <<leader, sigs, patch, unreached>>

StepDone(t) ==
    /\ run[t] = "stepover" /\ ~Blocked(t)
    /\ \E a \in Addrs \cup {NoAddr} : Arrives(t, a, "trap")
    /\ UNCHANGED <<leader, sigs, patch, unreached>>

(* A signal stops it, wherever it is by then.                              *)
Interrupted(t) ==
    /\ Running(t)
    /\ \E a \in Addrs \cup {NoAddr} : /\ (Blocked(t) \/ run[t] = "stepover") => a = where[t]
                                      /\ Arrives(t, a, "SIGINT")
    /\ UNCHANGED <<leader, sigs, patch, unreached>>

(* fork copies the memory as it is at that moment, int3s and all.          *)
Birth(t, c, kind) ==
    /\ Running(t) /\ ~Blocked(t)
    /\ kind \in Births /\ run[c] = "unborn"
    /\ kind = "fork" => Cardinality(Processes) < MaxProcesses
    /\ run' = [run EXCEPT ![t] = "stopped", ![c] = "stopped"]
    /\ report' = [report EXCEPT ![t] = Event(kind, c), ![c] = Report("initial")]
    /\ leader' = [leader EXCEPT ![c] = IF kind = "fork" THEN c ELSE leader[t]]
    /\ rip' = [rip EXCEPT ![t] = "off"] /\ where' = [where EXCEPT ![t] = NoAddr]
    /\ IF kind = "clone"
       THEN UNCHANGED <<patch, unreached>>
       ELSE /\ patch' = [patch EXCEPT !.memory[c] = patch.memory[leader[t]]]
            /\ unreached' = unreached \cup
                  {<<c, a>> : a \in {x \in Addrs :
                                        \/ <<leader[t], x>> \in unreached
                                        \/ x = temp
                                        \/ x = lifted /\ leader[t] = leader[current_tid]}}
    /\ UNCHANGED sigs

Dies(t) == /\ Running(t) /\ ~Blocked(t)
            /\ \/ "exited" \in Deaths /\ Perish({t}, "exited")
               \/ "signaled" \in Deaths /\ Perish(Group(t), "signaled")
            /\ where' = [u \in Tids |-> IF rip'[u] = "off" THEN NoAddr ELSE where[u]]
            /\ UNCHANGED <<leader, sigs, patch, unreached>>

(* What becomes of it once the session is over is not followed.            *)
Program ==
    /\ ~exited
    /\ \E t \in Tids : \/ Trap(t) \/ StepDone(t) \/ Interrupted(t) \/ Dies(t)
                       \/ \E c \in Tids, kind \in Births : Birth(t, c, kind)
    /\ UNCHANGED <<fields, steps>>

-----------------------------------------------------------------------------
(* breakpoint.rs, on the table and a memory.                               *)

Contains(p, a) == a \in DOMAIN p.breakpoints
Enabled(p, a)  == Contains(p, a) /\ p.breakpoints[a].enabled
Saved(p, a)    == p.breakpoints[a].orig_byte

Entry(enabled, byte) == [enabled |-> enabled, orig_byte |-> byte]

Put(p, a, bp) == [p EXCEPT !.breakpoints =
                     [x \in DOMAIN p.breakpoints \cup {a} |->
                         IF x = a THEN bp ELSE p.breakpoints[x]]]

Drop(p, a) == [p EXCEPT !.breakpoints =
                  [x \in DOMAIN p.breakpoints \ {a} |-> p.breakpoints[x]]]

(* The byte at a in the memory of each process of S.                       *)
Write(p, S, a, byte) ==
    [p EXCEPT !.memory = [q \in Tids |-> IF q \in S THEN [@[q] EXCEPT ![a] = byte] ELSE @[q]]]

(* A new entry, enabled through t; and the same of one that is lifted.     *)
enable(p, t, a) ==
    Write(Put(p, a, Entry(TRUE, p.memory[leader[t]][a])), {leader[t]}, a, "int3")

disable(p, t, a) ==
    IF ~Enabled(p, a) THEN p
    ELSE Write(Put(p, a, Entry(FALSE, Saved(p, a))), {leader[t]}, a, Saved(p, a))

(* Mutant: only the process in focus is written.                           *)
nobody_else == {}

(* The other processes tdb knows, as far as they can be written.           *)
Others == {p \in processes \ {current_tid} : Stopped(p)}

(* What a change could be written to: through the focus, if it is stopped, *)
(* and through the leaders that tdb knows, if they are.                    *)
Reachable(focus) == (IF focus /\ Stopped(current_tid) THEN {leader[current_tid]} ELSE {})
                        \cup {p \in processes : p # current_tid /\ Stopped(p)}

(* A change at a is for the processes S, with the byte of the program at   *)
(* hand or not.                                                            *)
Reaches(a, S, known) ==
    unreached' = {u \in unreached : u[2] # a \/ u[1] \notin S \/ ~known}
                    \cup {<<p, a>> : p \in IF known THEN Processes \ S ELSE Processes}

-----------------------------------------------------------------------------
Begin(cmd) == /\ cmd \in Commands
              /\ mode = "prompt" /\ ~exited

(* Installing through the focus may fail, and does so with a message.      *)
install_breakpoint(a) ==
    LET own == IF Stopped(current_tid) THEN {leader[current_tid]} ELSE {}
        byte == IF own = {} THEN "zero" ELSE patch.memory[leader[current_tid]][a] IN
    /\ Begin("break")
    /\ ~Contains(patch, a)
    /\ user' = user \cup {a}
    /\ patch' = Write(Put(patch, a, Entry(own # {}, byte)), own \cup Others, a, "int3")
    /\ Reaches(a, Reachable(TRUE), byte = "code")
    /\ UNCHANGED <<kernelVars, where, exited, current_tid, threads, pending_initial_stop,
                   processes, steps>>

(* Restoring through the focus may fail, and ends the command; the entry   *)
(* is gone by then.                                                        *)
delete_breakpoint(a) ==
    LET own   == IF Enabled(patch, a) THEN {leader[current_tid]} ELSE {}
        fails == own # {} /\ ~Stopped(current_tid) IN
    /\ Begin("delete")
    /\ a \in user
    /\ user' = user \ {a}
    /\ patch' = Write(Drop(patch, a), IF fails THEN {} ELSE own \cup Others, a, Saved(patch, a))
    /\ Reaches(a, IF fails THEN {} ELSE Reachable(Enabled(patch, a)), Saved(patch, a) = "code")
    /\ UNCHANGED <<kernelVars, where, exited, current_tid, threads, pending_initial_stop,
                   processes, steps>>

-----------------------------------------------------------------------------
(* continue, nexti and up, next over a call.                               *)

Go(next) == Resume(current_tid, "running") /\ mode' = next /\ lifted' = NoAddr

step_over(p, next) ==
    LET a == where[current_tid] IN
    IF rip[current_tid] = "at" /\ Enabled(p, a)
    THEN /\ patch' = disable(p, current_tid, a)
         /\ Resume(current_tid, "stepover") /\ mode' = "stepover" /\ lifted' = a
    ELSE patch' = p /\ Go(next)

RunTo(p, a, next) ==
    /\ Stopped(current_tid)
    /\ step_over(p, next)
    /\ after' = next /\ temp' = a
    /\ through' = IF a = NoAddr THEN NoTid ELSE current_tid
    /\ UNCHANGED <<leader, sigs, rip, where, fields, unreached>>

cont == Begin("continue") /\ RunTo(patch, NoAddr, "wait")

(* Mutant: a breakpoint that is there is taken for the temporary one.      *)
always_temp(a) == a

TempAt(a) == IF Contains(patch, a) THEN NoAddr ELSE a

insert_temp(p, t, a) == IF Contains(p, a) THEN p ELSE enable(p, t, a)

(* a is where the call at rip, or the caller's frame, returns to.          *)
RunToReturn(a, next) == RunTo(insert_temp(patch, current_tid, a), TempAt(a), next)

nexti(a) == Begin("nexti") /\ RunToReturn(a, "wait")

run_over_call(a) == Begin("next") /\ RunToReturn(a, "call")

-----------------------------------------------------------------------------
(* How they end.  p is the table and the memory by then.                   *)

Return == mode' = "prompt" /\ after' = "wait" /\ lifted' = NoAddr
          /\ temp' = NoAddr /\ through' = NoTid

Keep(p) == patch' = p /\ UNCHANGED unreached

(* The temporary breakpoint stays in the table, and in one memory.         *)
Abandon(p) ==
    /\ patch' = p
    /\ IF temp = NoAddr THEN UNCHANGED unreached
       ELSE Reaches(temp, {leader[through]}, Saved(p, temp) = "code")

(* Its int3 is taken out through the thread the command began with.  The   *)
(* entry goes first, and a failure to write is the last of it.             *)
remove_temp(p) ==
    IF temp = NoAddr THEN Keep(p)
    ELSE LET own == IF Enabled(p, temp) /\ Stopped(through) THEN {leader[through]} ELSE {} IN
         /\ patch' = Write(Drop(p, temp), own, temp, Saved(p, temp))
         /\ IF own = {} \/ Saved(p, temp) # "code"
            THEN unreached' = unreached \cup {<<leader[through], temp>>}
            ELSE UNCHANGED unreached

(* Mutant: the int3 stays lifted.                                          *)
stay_lifted(t) == patch

relower(t) == IF Contains(patch, lifted) THEN enable(patch, t, lifted) ELSE patch

fixup_breakpoint_rip(t) ==
    rip' = [rip EXCEPT ![t] = IF @ = "past" /\ Contains(patch, where[t]) THEN "at" ELSE @]

(* The waitpid(pid) of step_over_current_breakpoint.  Death by a signal is *)
(* not looked for: the int3 cannot be put back, and the command fails.     *)
step_over_current_breakpoint ==
    LET t == current_tid
        p == relower(t) IN
    /\ mode = "stepover" /\ Waitable(t)
    /\ CASE report[t].kind = "exited" ->
              /\ exited' = TRUE /\ Consume(t) /\ Return /\ Keep(patch)
         [] report[t].kind = "signaled" ->
              /\ Consume(t) /\ Return /\ Abandon(patch) /\ UNCHANGED exited
         [] OTHER ->
              /\ UNCHANGED exited
              /\ \/ Go(after) /\ Keep(p) /\ UNCHANGED <<after, temp, through>>
                 \/ /\ Watching /\ report[t].kind = "trap"
                    /\ Consume(t) /\ Return
                    /\ IF after = "call" THEN Abandon(p) ELSE remove_temp(p)
    /\ UNCHANGED <<leader, sigs, rip, where, user, current_tid, threads, pending_initial_stop,
                   processes>>

(* The waitpid(pid) of run_over_call, and next_line's look at its result;  *)
(* the rounds that follow are module Stepping's.                           *)
call_waited ==
    LET t == current_tid IN
    /\ mode = "call" /\ Waitable(t)
    /\ Consume(t) /\ Return
    /\ IF report[t].kind \in Ends
       THEN exited' = TRUE /\ Keep(patch) /\ UNCHANGED rip
       ELSE /\ IF report[t].kind = "trap" THEN fixup_breakpoint_rip(t) ELSE UNCHANGED rip
            /\ remove_temp(patch)
            /\ UNCHANGED exited
    /\ UNCHANGED <<leader, sigs, where, user, current_tid, threads, pending_initial_stop,
                   processes>>

-----------------------------------------------------------------------------
(* wait_and_report                                                         *)

InWait(t) == mode = "wait" /\ Waitable(t)

Enter(c) == /\ threads' = threads \cup {c}
            /\ pending_initial_stop' = IF c \in threads THEN pending_initial_stop
                                                        ELSE pending_initial_stop \cup {c}

register_process(c, kind) == IF kind = "fork" THEN processes \cup {c} ELSE processes

wait_event(t) ==
    /\ InWait(t) /\ report[t].kind \in Births0
    /\ Enter(report[t].child)
    /\ processes' = register_process(report[t].child, report[t].kind)
    /\ TryResume(t)
    /\ UNCHANGED <<leader, sigs, rip, where, patch, user, exited, current_tid, steps, unreached>>

wait_initial_stop(t) ==
    /\ InWait(t) /\ report[t].kind \in Stops
    /\ t \in threads => t \in pending_initial_stop
    /\ threads' = threads \cup {t} /\ pending_initial_stop' = pending_initial_stop \ {t}
    /\ Resume(t, "running")
    /\ UNCHANGED <<leader, sigs, rip, where, patch, user, exited, current_tid, processes, steps,
                   unreached>>

wait_stopped(t) ==
    /\ InWait(t) /\ report[t].kind \in Stops
    /\ t \in threads \ pending_initial_stop
    /\ Consume(t) /\ current_tid' = t
    /\ IF report[t].kind = "trap" THEN fixup_breakpoint_rip(t) ELSE UNCHANGED rip
    /\ remove_temp(patch) /\ Return
    /\ UNCHANGED <<leader, sigs, where, user, exited, threads, pending_initial_stop, processes>>

wait_exited(t) ==
    /\ InWait(t) /\ report[t].kind \in Ends
    /\ Consume(t)
    /\ threads' = threads \ {t} /\ processes' = processes \ {t}
    /\ IF current_tid # t
       THEN UNCHANGED current_tid
       ELSE current_tid' \in IF threads' = {} THEN {NoTid} ELSE threads'
    /\ IF threads' = {} \/ processes' = {}
       THEN exited' = TRUE /\ Return
       ELSE UNCHANGED <<exited, steps>>
    /\ UNCHANGED <<leader, sigs, rip, where, patch, user, pending_initial_stop, unreached>>

switch_thread(t) ==
    /\ Begin("thread")
    /\ t \in threads /\ Stopped(t)
    /\ fixup_breakpoint_rip(t)
    /\ current_tid' = t
    /\ UNCHANGED <<run, report, leader, sigs, where, patch, user, exited, threads,
                   pending_initial_stop, processes, steps, unreached>>

-----------------------------------------------------------------------------
Wait == \/ step_over_current_breakpoint \/ call_waited
        \/ \E t \in Tids : wait_event(t) \/ wait_initial_stop(t) \/ wait_stopped(t)
                             \/ wait_exited(t)

Command == \/ \E a \in Addrs : \/ install_breakpoint(a) \/ delete_breakpoint(a)
                                \/ nexti(a) \/ run_over_call(a)
           \/ cont \/ \E t \in Tids : switch_thread(t)

Next == Program \/ Wait \/ Command

Spec == Init /\ [][Next]_vars

-----------------------------------------------------------------------------
Living(p) == \E t \in Tids : leader[t] = p /\ Alive(t)

(* Where an int3 is owed: the breakpoints of the table, in every process;  *)
(* the temporary one of the command in the process it began in; not the    *)
(* one that is lifted, where it is lifted.                                 *)
Owed(p, a) == /\ Contains(patch, a)
              /\ a = temp => p = leader[through]
              /\ ~(a = lifted /\ p = leader[current_tid])

(* The table is true of every memory: each breakpoint of the table is in   *)
(* the memory of every process, each that was deleted is gone from all of  *)
(* them, and what the program had there is back, except where the code     *)
(* could not write: a process that was not stopped or not known, a child   *)
(* forked while the int3 was lifted or a temporary one in place, a         *)
(* temporary one left to a thread that runs.                               *)
MemoriesMirrorTable ==
    ~exited =>
        \A p \in Tids, a \in Addrs :
            Living(p) /\ <<p, a>> \notin unreached =>
                patch.memory[p][a] = IF Owed(p, a) THEN "int3" ELSE "code"

(* Only delete takes a breakpoint of the user out of a memory for longer   *)
(* than one instruction of the thread in focus, and none is overwritten    *)
(* or forgotten by a temporary one.                                        *)
UserBreakpointsStay ==
    [][\A a \in user \cap user' :
          /\ Contains(patch', a)
          /\ \A p \in Processes :
                Int3At(p, a) => \/ Int3At(p, a)'
                                \/ lifted' = a /\ p = leader[current_tid]]_vars
=============================================================================
