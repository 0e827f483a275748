---------------------------- MODULE Watchpoints ----------------------------
(***************************************************************************)
(* Hardware watchpoints: add_watchpoint ... check_watchpoint_hit of        *)
(* src/debugger.rs over the debug registers of every thread of one         *)
(* process.  The table of tdb is one, the registers are many: they can be  *)
(* written only while their thread is stopped, the status of a hit waits   *)
(* in DR6 until tdb reads it, and threads are born, hit and die meanwhile. *)
(*                                                                         *)
(* The kernel's side is module Tracees.  Of the session only what reaches  *)
(* watchpoints is kept: run, continue, stepi, thread, watch, delete and    *)
(* wait_and_report; fork, lock, kill and the stops of signals are module   *)
(* Session's, step and next module Stepping's.                             *)
(***************************************************************************)
EXTENDS Tracees

CONSTANTS NSlots,    \* debug registers for addresses: 4 in the code
          Ranges,    \* what the user may ask to watch: records [addr, len]
          Bytes,     \* addresses the program stores a byte to
          MaxId,     \* bound on the numbers given to watchpoints
          NoWatch    \* Rust's None

Slots == 0 .. NSlots - 1
Sizes == {1, 2, 4, 8}

ASSUME WatchpointsAssumption ==
    /\ NSlots \in 1 .. 4
    /\ Ranges \subseteq [addr : Nat, len : Nat]
    /\ Bytes \subseteq Nat
    /\ MaxId \in Nat
    /\ NoWatch \notin [addr : Nat, len : Nat]
    /\ Births \subseteq {"clone"} /\ Deaths \subseteq {"exited"}

VARIABLES
    dr,                          \* the debug registers of each thread
    exited, current_tid, threads, pending_initial_stop, processes,
    watchpoints, wp_ids, next_bp_id,   \* fields of Debugger
    mode,                        \* which waitpid the command is in
    after,                       \* what follows the step over a breakpoint
    told,                        \* the hits the last command reported
    late                         \* for the properties: per thread, the slots whose
                                 \* last change could not be written to it

tables == <<watchpoints, wp_ids, next_bp_id>>
fields == <<exited, current_tid, threads, pending_initial_stop, processes, tables>>
vars == <<kernelVars, dr, fields, mode, after, told, late>>

-----------------------------------------------------------------------------
(* Debug registers.  DR7 is the set of its bits that are 1.  tdb sees of   *)
(* DR6 which slots were hit; the range each then watched is kept with it,  *)
(* so that a property can tell whether a report is true.                   *)

Watches     == [addr : Nat, len : Sizes]
NoRegisters == [addr |-> [s \in Slots |-> 0], dr7 |-> {}, dr6 |-> {}]

Enable(s) == 2 * s
Shift(s)  == 16 + 4 * s
Field(s)  == Shift(s) .. Shift(s) + 3

dr7_len_bits(len) == CASE len = 1 -> {}
                       [] len = 2 -> {0}
                       [] len = 8 -> {1}
                       [] len = 4 -> {0, 1}

SlotBits(s, len) == {Enable(s), Shift(s)} \cup {Shift(s) + 2 + b : b \in dr7_len_bits(len)}

(* Mutant: the old length stays under the new one.                         *)
install_over(regs, table, S) ==
    [addr |-> [s \in Slots |-> IF s \in S THEN table[s].addr ELSE regs.addr[s]],
     dr7  |-> regs.dr7 \cup UNION {SlotBits(s, table[s].len) : s \in S},
     dr6  |-> regs.dr6]

(* install_watch_slot for the slots S of a table.                          *)
install_watch_slots(regs, table, S) ==
    [addr |-> [s \in Slots |-> IF s \in S THEN table[s].addr ELSE regs.addr[s]],
     dr7  |-> (regs.dr7 \ UNION {Field(s) : s \in S})
                  \cup UNION {SlotBits(s, table[s].len) : s \in S},
     dr6  |-> regs.dr6]

uninstall_watch_slot(regs, s) ==
    [addr |-> [regs.addr EXCEPT ![s] = 0],
     dr7  |-> regs.dr7 \ {Enable(s)},
     dr6  |-> regs.dr6]

(* How the processor reads them.                                           *)
LenAt(regs, s)   == CHOOSE l \in Sizes :
                        dr7_len_bits(l) = {b \in 0 .. 1 : Shift(s) + 2 + b \in regs.dr7}
RangeAt(regs, s) == [addr |-> regs.addr[s], len |-> LenAt(regs, s)]
Armed(regs, s)   == Enable(s) \in regs.dr7
OnWrite(regs, s) == Field(s) \cap regs.dr7 \cap {Shift(s), Shift(s) + 1} = {Shift(s)}
Within(b, w)     == w.addr <= b /\ b < w.addr + w.len
HitBy(regs, b)   == {<<s, RangeAt(regs, s)>> :
                        s \in {u \in Slots : Armed(regs, u) /\ Within(b, RangeAt(regs, u))}}

-----------------------------------------------------------------------------
Registers == [addr : [Slots -> Nat], dr7 : SUBSET (0 .. 31),
              dr6 : SUBSET (Slots \X Watches)]

TypeOK ==
    /\ KernelTypeOK
    /\ dr \in [Tids -> Registers]
    /\ exited \in BOOLEAN
    /\ current_tid \in Tids \cup {NoTid}
    /\ threads \subseteq Tids /\ pending_initial_stop \subseteq Tids /\ processes \subseteq Tids
    /\ watchpoints \in [Slots -> Ranges \cup {NoWatch}]
    /\ next_bp_id \in 1 .. MaxId + 1
    /\ DOMAIN wp_ids \subseteq 1 .. next_bp_id - 1
    /\ wp_ids \in [DOMAIN wp_ids -> Slots]
    /\ mode \in {"prompt", "stepover", "wait"}
    /\ mode = "stepover" => current_tid \in Tids
    /\ after \in {"running", "stepping"}
    /\ told \subseteq [id : DOMAIN wp_ids, watch : Ranges, hit : Watches]
    /\ late \in [Tids -> SUBSET Slots]

NoIds == [i \in {} |-> 0]

Init ==
    /\ KernelInit
    /\ dr = [t \in Tids |-> NoRegisters]
    /\ exited = FALSE /\ current_tid = NoTid
    /\ threads = {} /\ pending_initial_stop = {} /\ processes = {}
    /\ watchpoints = [s \in Slots |-> NoWatch]
    /\ wp_ids = NoIds /\ next_bp_id = 1
    /\ mode = "prompt" /\ after = "running"
    /\ told = {}
    /\ late = [t \in Tids |-> {}]

Used    == {s \in Slots : watchpoints[s] # NoWatch}
Focused == current_tid # NoTid /\ Stopped(current_tid)

-----------------------------------------------------------------------------
(* run: the fork, the exec and the wait for its stop are one action here.  *)

start(c) ==
    /\ mode = "prompt"
    /\ current_tid = NoTid \/ exited
    /\ run[c] = "unborn"
    /\ run' = [run EXCEPT ![c] = "stopped"]
    /\ leader' = [leader EXCEPT ![c] = c]
    /\ exited' = FALSE /\ current_tid' = c
    /\ threads' = {c} /\ pending_initial_stop' = {} /\ processes' = {c}
    /\ watchpoints' = [s \in Slots |-> NoWatch] /\ wp_ids' = NoIds
    /\ told' = {}
    /\ UNCHANGED <<report, sigs, rip, dr, next_bp_id, mode, after, late>>

-----------------------------------------------------------------------------
(* watch, delete.  An error (a size, an alignment, no free slot, a focus   *)
(* that is not stopped) changes nothing.                                   *)

(* Mutant: every watchpoint goes to the first slot.                        *)
first_slot(s) == s = 0

FirstFree(s) == s \notin Used /\ \A u \in 0 .. s - 1 : u \in Used

(* Mutant: the number is given again.                                      *)
same_id == next_bp_id

NextId == next_bp_id + 1

(* New registers for every thread, for the sake of slot s.  Writing to a   *)
(* thread that runs fails; only the focus must not be one.                 *)
Write(s, registers) ==
    /\ dr' = [t \in Tids |-> IF t \in threads /\ Stopped(t) THEN registers[t] ELSE dr[t]]
    /\ late' = [t \in Tids |-> IF t \notin threads THEN late[t]
                               ELSE IF Stopped(t) THEN late[t] \ {s} ELSE late[t] \cup {s}]

add_watchpoint(w) ==
    /\ mode = "prompt"
    /\ w.len \in Sizes /\ w.addr % w.len = 0
    /\ Focused
    /\ next_bp_id <= MaxId
    /\ \E s \in Slots :
          /\ FirstFree(s)
          /\ watchpoints' = [watchpoints EXCEPT ![s] = w]
          /\ wp_ids' = [i \in DOMAIN wp_ids \cup {next_bp_id} |->
                            IF i = next_bp_id THEN s ELSE wp_ids[i]]
          /\ Write(s, [t \in Tids |-> install_watch_slots(dr[t], watchpoints', {s})])
    /\ next_bp_id' = NextId
    /\ told' = {}
    /\ UNCHANGED <<kernelVars, exited, current_tid, threads, pending_initial_stop, processes,
                   mode, after>>

delete_watchpoint(id) ==
    /\ mode = "prompt"
    /\ id \in DOMAIN wp_ids
    /\ wp_ids' = [i \in DOMAIN wp_ids \ {id} |-> wp_ids[i]]
    /\ watchpoints' = [watchpoints EXCEPT ![wp_ids[id]] = NoWatch]
    /\ IF exited
       THEN UNCHANGED <<dr, late>>
       ELSE Write(wp_ids[id], [t \in Tids |-> uninstall_watch_slot(dr[t], wp_ids[id])])
    /\ told' = {}
    /\ UNCHANGED <<kernelVars, exited, current_tid, threads, pending_initial_stop, processes,
                   next_bp_id, mode, after>>

-----------------------------------------------------------------------------
(* Helpers of the commands that run and wait.                              *)

(* Mutant: the status stays in DR6.                                        *)
unread(t) == dr

ClearStatus(t) == [dr EXCEPT ![t].dr6 = {}]

(* The slots hit, those of them that belong to a watchpoint.               *)
Hits(t) ==
    UNION {{[id |-> i, watch |-> watchpoints[wp_ids[i]], hit |-> h[2]] :
               h \in {g \in dr[t].dr6 : g[1] = wp_ids[i]}} :
           i \in {j \in DOMAIN wp_ids : wp_ids[j] \in Used}}

check_watchpoint_hit(t) == told' = Hits(t) /\ dr' = ClearStatus(t)

Return == mode' = "prompt" /\ after' = "running"

Go(how) == /\ Resume(current_tid, how)
           /\ mode' = "wait" /\ after' = "running"

(* A thread that has not reached its first stop yet cannot be written.     *)
register_thread(t) ==
    IF t \in threads
    THEN UNCHANGED <<threads, pending_initial_stop, dr, late>>
    ELSE /\ threads' = threads \cup {t}
         /\ pending_initial_stop' = pending_initial_stop \cup {t}
         /\ IF Stopped(t)
            THEN /\ dr' = [dr EXCEPT ![t] = install_watch_slots(@, watchpoints, Used)]
                 /\ UNCHANGED late
            ELSE /\ late' = [late EXCEPT ![t] = @ \cup Used]
                 /\ UNCHANGED dr

fixup_breakpoint_rip(t) == rip' = [rip EXCEPT ![t] = IF @ = "past" THEN "at" ELSE @]

-----------------------------------------------------------------------------
(* continue, stepi, thread                                                 *)

resume_command(how) ==
    /\ mode = "prompt"
    /\ Focused
    /\ IF rip[current_tid] = "at"
       THEN Resume(current_tid, "stepover") /\ mode' = "stepover" /\ after' = how
       ELSE Go(how)
    /\ told' = {}
    /\ UNCHANGED <<leader, sigs, rip, dr, fields, late>>

cont  == resume_command("running")
stepi == resume_command("stepping")

switch_thread(t) ==
    /\ mode = "prompt"
    /\ t \in threads /\ Stopped(t)
    /\ fixup_breakpoint_rip(t)
    /\ current_tid' = t
    /\ told' = {}
    /\ UNCHANGED <<run, report, leader, sigs, dr, exited, threads, pending_initial_stop,
                   processes, tables, mode, after, late>>

(* Mutant: the trap of the step is the end of the step and nothing else.   *)
step_over_unchecked(t) == UNCHANGED <<told, dr>>

StepOverCheck(t) == check_watchpoint_hit(t)

(* The waitpid(pid) of step_over_current_breakpoint.                       *)
step_over_current_breakpoint ==
    LET t == current_tid IN
    /\ mode = "stepover"
    /\ Waitable(t)
    /\ \/ /\ report[t].kind = "exited"
          /\ exited' = TRUE
          /\ Consume(t) /\ Return
          /\ UNCHANGED <<told, dr>>
       \/ /\ report[t].kind = "trap"
          /\ StepOverCheck(t)
          /\ IF told' = {} THEN Go(after) ELSE Consume(t) /\ Return
          /\ UNCHANGED exited
       \/ /\ report[t].kind \notin {"exited", "trap"}
          /\ Go(after)
          /\ UNCHANGED <<exited, told, dr>>
    /\ UNCHANGED <<leader, sigs, rip, current_tid, threads, pending_initial_stop, processes,
                   tables, late>>

-----------------------------------------------------------------------------
(* wait_and_report                                                         *)

InWait(t) == mode = "wait" /\ Waitable(t)

wait_event(t) ==
    /\ InWait(t) /\ report[t].kind = "clone"
    /\ register_thread(report[t].child)
    /\ TryResume(t)
    /\ UNCHANGED <<leader, sigs, rip, exited, current_tid, processes, tables, mode, after, told>>

wait_initial_stop(t) ==
    /\ InWait(t) /\ report[t].kind \in Stops
    /\ t \in threads => t \in pending_initial_stop
    /\ IF t \in threads
       THEN UNCHANGED <<threads, dr>>
       ELSE /\ threads' = threads \cup {t}
            /\ dr' = [dr EXCEPT ![t] = install_watch_slots(@, watchpoints, Used)]
    /\ pending_initial_stop' = pending_initial_stop \ {t}
    /\ Resume(t, "running")
    /\ UNCHANGED <<leader, sigs, rip, exited, current_tid, processes, tables, mode, after,
                   told, late>>

(* A watchpoint is reported before a breakpoint is looked for.             *)
wait_stopped(t) ==
    /\ InWait(t) /\ report[t].kind \in Stops
    /\ t \in threads \ pending_initial_stop
    /\ Consume(t)
    /\ current_tid' = t
    /\ check_watchpoint_hit(t)
    /\ IF told' = {} THEN fixup_breakpoint_rip(t) ELSE UNCHANGED rip
    /\ Return
    /\ UNCHANGED <<leader, sigs, exited, threads, pending_initial_stop, processes, tables, late>>

(* With one process its leader is the last to be reported: the loop never  *)
(* comes back to a waitpid without a child.                                *)
wait_exited(t) ==
    /\ InWait(t) /\ report[t].kind = "exited"
    /\ Consume(t)
    /\ threads' = threads \ {t} /\ processes' = processes \ {t}
    /\ IF current_tid # t
       THEN UNCHANGED current_tid
       ELSE current_tid' \in IF threads' = {} THEN {NoTid} ELSE threads'
    /\ IF threads' = {} \/ processes' = {}
       THEN exited' = TRUE /\ Return
       ELSE UNCHANGED <<exited, mode, after>>
    /\ late' = [late EXCEPT ![t] = {}]
    /\ UNCHANGED <<leader, sigs, rip, dr, pending_initial_stop, tables, told>>

-----------------------------------------------------------------------------
(* The program.  A store to a watched byte traps once it is done; a single *)
(* step traps in any case, and either way the processor sets DR6 anew.  An *)
(* int3 leaves DR6 alone.                                                  *)

HitsBreakpoint(t) == HitBreakpoint(t) /\ UNCHANGED dr

Store(t, b) ==
    LET hits == HitBy(dr[t], b) IN
    /\ MayExecute(t)
    /\ run[t] = "running" => hits # {}
    /\ Stop(t, Report("trap"))
    /\ dr' = [dr EXCEPT ![t].dr6 = hits]
    /\ \E r \in {"off", "at"} : /\ r = "at" => Breakpoint
                                /\ rip' = [rip EXCEPT ![t] = r]
    /\ UNCHANGED <<leader, sigs>>

Steps(t) == StepTrap(t) /\ dr' = [dr EXCEPT ![t].dr6 = {}]

(* The creator's event may be waited for before the new thread, which      *)
(* starts with empty debug registers, has come to its first stop.          *)
Clone(t, c) ==
    /\ MayExecute(t)
    /\ "clone" \in Births
    /\ run[c] = "unborn"
    /\ run' = [run EXCEPT ![t] = "stopped", ![c] = "starting"]
    /\ report' = [report EXCEPT ![t] = Event("clone", c)]
    /\ leader' = [leader EXCEPT ![c] = leader[t]]
    /\ rip' = [rip EXCEPT ![t] = "off"]
    /\ UNCHANGED <<sigs, dr>>

FirstStop(c) ==
    /\ run[c] = "starting"
    /\ Stop(c, Report("initial"))
    /\ UNCHANGED <<leader, sigs, rip, dr>>

(* The registers of a thread die with it.                                  *)
Ending(t) ==
    /\ ThreadExit(t) \/ GroupExit(t, "exited")
    /\ dr' = [u \in Tids |-> IF run'[u] = "zombie" THEN NoRegisters ELSE dr[u]]

Program ==
    /\ \E t \in Tids : \/ HitsBreakpoint(t) \/ Steps(t)
                       \/ \E b \in Bytes : Store(t, b)
                       \/ \E c \in Tids : Clone(t, c)
                       \/ FirstStop(t) \/ Ending(t)
    /\ UNCHANGED <<fields, mode, after, told, late>>

-----------------------------------------------------------------------------
Command ==
    \/ \E c \in Tids : start(c)
    \/ \E w \in Ranges : add_watchpoint(w)
    \/ \E id \in DOMAIN wp_ids : delete_watchpoint(id)
    \/ cont \/ stepi
    \/ \E t \in threads : switch_thread(t)

Wait ==
    \/ step_over_current_breakpoint
    \/ \E t \in Tids : \/ wait_event(t) \/ wait_initial_stop(t)
                       \/ wait_stopped(t) \/ wait_exited(t)

Next == Command \/ Wait \/ Program

Spec == Init /\ [][Next]_vars

-----------------------------------------------------------------------------
(* Safety                                                                  *)

(* The numbers of `info watchpoints` and the slots in use are one-to-one,  *)
(* whatever is set, deleted and set again (add_watchpoint,                 *)
(* delete_watchpoint): no slot is lost and no two numbers share one.       *)
WatchTable ==
    /\ \A i, j \in DOMAIN wp_ids : wp_ids[i] = wp_ids[j] => i = j
    /\ {wp_ids[i] : i \in DOMAIN wp_ids} = Used

(* What the processor makes of the registers of a thread is the table of   *)
(* tdb: a slot in use watches writes to its range, a free one nothing.  It *)
(* holds of every live thread of the process that run started, and every   *)
(* slot whose last change could be written, however slots are used again   *)
(* with other lengths, and whichever way the thread came to be known       *)
(* (install_watch_slot, uninstall_watch_slot, register_thread).  A change  *)
(* that could not be written is not made up for at the next stop of the    *)
(* thread, as src/README.md:304-306 has it: late excepts the slot.         *)
Mirrors(t, s) ==
    IF s \in Used
    THEN Armed(dr[t], s) /\ OnWrite(dr[t], s) /\ RangeAt(dr[t], s) = watchpoints[s]
    ELSE ~Armed(dr[t], s)

Debugged(t) == ~exited /\ Alive(t) /\ leader[t] \in processes

RegistersMirrorTable ==
    \A t \in threads : Debugged(t) => \A s \in Slots \ late[t] : Mirrors(t, s)

(* A thread whose stop tdb has waited for keeps no status of a hit in DR6: *)
(* there is none that a later stop could be judged by (the comment of      *)
(* check_watchpoint_hit).                                                  *)
StatusRead ==
    \A t \in threads : Stopped(t) /\ report[t] = Quiet => dr[t].dr6 = {}

(* A watchpoint is reported only when the range it watches was written,    *)
(* unless the registers of that thread could not be written when its slot  *)
(* changed hands (the comment of check_watchpoint_hit: no status is left   *)
(* over for a later judgement).                                            *)
HitIsReal == \A h \in told : h.hit = h.watch \/ wp_ids[h.id] \in late[current_tid]

-----------------------------------------------------------------------------
(* Action properties                                                       *)

(* Whichever waitpid takes the trap of a thread that wrote a range, in     *)
(* wait_and_report or in the step over a breakpoint, the watchpoint of     *)
(* that range is reported by the same step, if it is still there (the      *)
(* comment of step_over_current_breakpoint).                               *)
HitReported ==
    [][\A t \in threads \ pending_initial_stop :
          mode # "prompt" /\ report[t].kind = "trap" /\ report'[t] = Quiet
              => \A h \in dr[t].dr6 : watchpoints[h[1]] = h[2]
                     => \E r \in told' : r.watch = h[2]]_vars
=============================================================================
