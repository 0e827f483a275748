------------------------------ MODULE Session ------------------------------
(***************************************************************************)
(* The session of tdb: which threads and processes src/debugger.rs knows,  *)
(* which one has the focus, which one is locked, and how the commands that *)
(* run, wait for, hold and kill them change that.  The kernel's side is    *)
(* module Tracees; every interleaving of the two, and of the thread that   *)
(* forwards SIGINT, is a behaviour.                                        *)
(*                                                                         *)
(* Addresses are abstracted to the field rip of Tracees, the DWARF line    *)
(* table that ends a `step` to a choice, and watchpoints and leak tracking *)
(* are left to modules of their own.                                       *)
(***************************************************************************)
EXTENDS Tracees

CONSTANTS Commands,       \* names of the commands the user may type
          ApplyCommands,  \* <<name, n>>: what `thread apply all` may be given
          MaxRuns,        \* bound on the number of `run`s
          MaxReaps,       \* the 64 of kill()'s loop
          CtrlCIn         \* modes in which the user may press Ctrl-C

CommandNames == {"none", "run", "continue", "stepi", "step", "thread", "lock", "unlock",
                 "kill", "quit"}

(* prompt and dispatch: a command is about to run, typed or given by       *)
(* `thread apply all`.  start, wait, stepover, rawstep, frame, kill: the   *)
(* main thread is in that waitpid.  release: in release_held_thread.       *)
(* apply: between two rounds of thread_apply_all.                          *)
Modes == {"prompt", "dispatch", "start", "wait", "stepover", "rawstep",
          "frame", "release", "kill", "apply", "quit"}

ASSUME SessionAssumption ==
    /\ Commands \subseteq CommandNames
    /\ ApplyCommands \subseteq CommandNames \X Nat
    /\ MaxRuns \in Nat
    /\ MaxReaps \in Nat
    /\ CtrlCIn \subseteq Modes

VARIABLES
    pid, exited, current_tid, threads, thread_ids, next_thread_id,
    pending_initial_stop, locked_tid, processes,   \* the fields of Debugger
    DEBUGGEE_PID,   \* the static the forwarder thread reads
    mode,           \* where the main thread is
    after,          \* what it does once the nested wait is over
    todo,           \* the threads release_held_thread has still to visit
    waiting,        \* the thread release_held_thread waits for
    apply,          \* the loop of thread_apply_all
    forwarder,      \* the pid the forwarder thread loaded
    runs, reaps     \* how many `run`s; how many rounds of kill()'s loop

fields == <<pid, exited, current_tid, threads, thread_ids, next_thread_id,
            pending_initial_stop, locked_tid, processes, DEBUGGEE_PID>>
tables == <<threads, thread_ids, next_thread_id, pending_initial_stop>>
nested == <<todo, waiting>>
control == <<mode, after, todo, waiting, apply, reaps>>
vars == <<kernelVars, fields, control, forwarder, runs>>

NoApply == [on |-> FALSE, ids |-> {}, saved |-> NoTid, cmd |-> <<"none", 0>>]

NoNumbers == [i \in {} |-> NoTid]   \* thread_ids, cleared

is_running    == pid # NoTid /\ ~exited
Injective(f)  == \A i, j \in DOMAIN f : f[i] = f[j] => i = j
TidsOf(ids)   == {ids[i] : i \in DOMAIN ids}
Without(ids, t) == [i \in {j \in DOMAIN ids : ids[j] # t} |-> ids[i]]

FieldsTypeOK ==
    /\ pid \in Tids \cup {NoTid}
    /\ exited \in BOOLEAN
    /\ current_tid \in Tids \cup {NoTid}
    /\ threads \in SUBSET Tids
    /\ next_thread_id \in Nat \ {0}
    /\ DOMAIN thread_ids \subseteq 1 .. next_thread_id - 1
    /\ thread_ids \in [DOMAIN thread_ids -> Tids]
    /\ pending_initial_stop \in SUBSET Tids
    /\ locked_tid \in Tids \cup {NoTid}
    /\ processes \in SUBSET Tids
    /\ DEBUGGEE_PID \in Tids \cup {NoTid}

Continuations == {"none", "continue", "stepi", "kill", "quit", "unlock", "reaped"}

ControlTypeOK ==
    /\ mode \in Modes
    /\ after \in Continuations
    /\ todo \in SUBSET Tids
    /\ waiting \in Tids \cup {NoTid}
    /\ apply \in [on : BOOLEAN, ids : SUBSET Nat, saved : Tids \cup {NoTid},
                  cmd : CommandNames \X Nat]
    /\ forwarder \in Tids \cup {NoTid}
    /\ runs \in Nat
    /\ reaps \in Nat

(* Where the main thread waits for one task there is a task to wait for,   *)
(* and only thread_apply_all dispatches commands of its own.               *)
WaitsForTask ==
    /\ mode = "start" => pid \in Tids
    /\ mode \in {"stepover", "rawstep", "frame"} => current_tid \in Tids
    /\ mode \in {"dispatch", "apply"} => apply.on

TypeOK == KernelTypeOK /\ FieldsTypeOK /\ ControlTypeOK /\ WaitsForTask

Init ==
    /\ KernelInit
    /\ pid = NoTid /\ exited = FALSE /\ current_tid = NoTid
    /\ threads = {} /\ thread_ids = NoNumbers /\ next_thread_id = 1
    /\ pending_initial_stop = {} /\ locked_tid = NoTid /\ processes = {}
    /\ DEBUGGEE_PID = NoTid
    /\ mode = "prompt" /\ after = "none" /\ todo = {} /\ waiting = NoTid
    /\ apply = NoApply
    /\ forwarder = NoTid
    /\ runs = 0 /\ reaps = 0

-----------------------------------------------------------------------------
(* Helpers that the commands and wait_and_report share.                    *)

(* The command returns: to the prompt, or to the loop that gave it.        *)
Return == /\ mode' = IF apply.on THEN "apply" ELSE "prompt"
          /\ after' = "none"
          /\ UNCHANGED apply

mark_exited == exited' = TRUE /\ DEBUGGEE_PID' = NoTid

(* A new row of `info threads`.                                            *)
Enter(t, next, pending) ==
    /\ threads' = threads \cup {t}
    /\ thread_ids' = [i \in DOMAIN thread_ids \cup {next_thread_id} |->
                          IF i = next_thread_id THEN t ELSE thread_ids[i]]
    /\ next_thread_id' = next
    /\ pending_initial_stop' = pending

(* Mutants: the number is not used up; a known thread is entered again;    *)
(* the stop of the attach is not expected.                                 *)
register_thread_same_number(t) ==
    IF t \in threads THEN UNCHANGED tables
                     ELSE Enter(t, next_thread_id, pending_initial_stop \cup {t})
register_thread_again(t) ==
    Enter(t, next_thread_id + 1, pending_initial_stop \cup {t})
register_thread_not_pending(t) ==
    IF t \in threads THEN UNCHANGED tables
                     ELSE Enter(t, next_thread_id + 1, pending_initial_stop)

register_thread(t) ==
    IF t \in threads
    THEN UNCHANGED tables
    ELSE Enter(t, next_thread_id + 1, pending_initial_stop \cup {t})

(* Mutants: the lock is not looked at; nothing is resumed.                 *)
resume_regardless(t) == TryResume(t)
hold_always(t)       == Consume(t)

resume_or_hold(t) == IF locked_tid \in {NoTid, t} THEN TryResume(t) ELSE Consume(t)

(* Mutant: rip stays past the int3.                                        *)
no_fixup(t) == UNCHANGED rip

(* fixup_breakpoint_rip, which fails unless the thread is stopped.         *)
fixup_breakpoint_rip(t) == rip' = [rip EXCEPT ![t] = IF @ = "past" THEN "at" ELSE @]

(* resolve_thread_id: a number of `info threads`, or NoTid.  The raw tid of *)
(* a known thread, which it takes too, names no other task.                *)
resolve_thread_id(n) == IF n \in DOMAIN thread_ids THEN thread_ids[n] ELSE NoTid

(* The command was typed, or is the one `thread apply all` repeats.        *)
Given(name, n) ==
    \/ mode = "prompt" /\ name \in Commands
    \/ mode = "dispatch" /\ apply.cmd = <<name, n>>

(* An error is printed and nothing changes.                                *)
Reject == Return /\ UNCHANGED <<kernelVars, fields, nested, reaps>>

-----------------------------------------------------------------------------
(* run                                                                     *)

start_forks(c) ==
    /\ ~is_running
    /\ runs < MaxRuns
    /\ run[c] = "unborn"
    /\ run' = [run EXCEPT ![c] = "starting"]
    /\ leader' = [leader EXCEPT ![c] = c]
    /\ pid' = c /\ current_tid' = c /\ DEBUGGEE_PID' = c
    /\ exited' = FALSE
    /\ threads' = {} /\ thread_ids' = NoNumbers /\ next_thread_id' = 1
    /\ pending_initial_stop' = {} /\ locked_tid' = NoTid /\ processes' = {}
    /\ mode' = "start" /\ after' = "none"
    /\ runs' = runs + 1
    /\ UNCHANGED <<report, sigs, rip, nested, apply, reaps>>

start == /\ Given("run", 0)
         /\ \/ \E c \in Tids : start_forks(c)
            \/ is_running /\ Reject /\ UNCHANGED runs
         /\ UNCHANGED forwarder

(* The first waitpid: the SIGTRAP of execve, or start() bails out and      *)
(* leaves pid, current_tid and DEBUGGEE_PID as they are.                   *)
start_waited ==
    /\ mode = "start"
    /\ Waitable(pid)
    /\ Consume(pid)
    /\ IF report[pid].kind = "exec"
       THEN /\ threads' = {pid} /\ processes' = {pid}
            /\ thread_ids' = [i \in {next_thread_id} |-> pid]
            /\ next_thread_id' = next_thread_id + 1
       ELSE UNCHANGED <<threads, processes, thread_ids, next_thread_id>>
    /\ Return
    /\ UNCHANGED <<leader, sigs, rip, pid, exited, current_tid, locked_tid,
                   pending_initial_stop, DEBUGGEE_PID, nested, reaps, forwarder, runs>>

-----------------------------------------------------------------------------
(* continue, stepi                                                         *)

StoppedThread(t) == t # NoTid /\ Stopped(t)
Focused == StoppedThread(current_tid)

(* The resumption that follows the step over a breakpoint.                 *)
ResumeFocus(how) ==
    IF exited
    THEN Return /\ UNCHANGED <<run, report>>
    ELSE /\ Resume(current_tid, how)
         /\ mode' = "wait" /\ after' = "none"
         /\ UNCHANGED apply

HowOf(name) == IF name = "stepi" THEN "stepping" ELSE "running"

(* cont() and stepi(): over the breakpoint at rip, then on.                *)
resume_command(name) ==
    /\ Given(name, 0)
    /\ \/ ~Focused /\ Reject
       \/ /\ Focused
          /\ IF rip[current_tid] = "at"
             THEN /\ Resume(current_tid, "stepover")
                  /\ mode' = "stepover" /\ after' = name
                  /\ UNCHANGED apply
             ELSE ResumeFocus(HowOf(name))
          /\ UNCHANGED <<leader, sigs, rip, fields, nested, reaps>>
    /\ UNCHANGED <<forwarder, runs>>

cont  == resume_command("continue")
stepi == resume_command("stepi")

(* The waitpid(pid) of step_over_current_breakpoint.  Any stop counts as   *)
(* the step done; an exit ends the session; the death by a signal makes    *)
(* enable() fail, and with it the command.                                 *)
step_over_current_breakpoint ==
    LET t == current_tid IN
    /\ mode = "stepover"
    /\ Waitable(t)
    /\ \/ /\ report[t].kind = "exited"
          /\ Consume(t) /\ mark_exited /\ Return
       \/ /\ report[t].kind = "signaled"
          /\ Consume(t) /\ Return
          /\ UNCHANGED <<exited, DEBUGGEE_PID>>
       \/ /\ report[t].kind \notin Ends
          /\ IF exited THEN Consume(t) /\ Return ELSE ResumeFocus(HowOf(after))
          /\ UNCHANGED <<exited, DEBUGGEE_PID>>
    /\ UNCHANGED <<leader, sigs, rip, pid, current_tid, tables, locked_tid, processes,
                   nested, reaps, forwarder, runs>>

-----------------------------------------------------------------------------
(* step                                                                    *)

(* single_step_raw, up to its waitpid.                                     *)
single_step_raw(at) ==
    /\ Resume(current_tid, IF at = "at" THEN "stepover" ELSE "stepping")
    /\ mode' = "rawstep" /\ after' = "none"
    /\ UNCHANGED apply

step_line ==
    /\ Given("step", 0)
    /\ \/ ~Focused /\ Reject
       \/ /\ Focused
          /\ single_step_raw(rip[current_tid])
          /\ UNCHANGED <<leader, sigs, rip, fields, nested, reaps>>
    /\ UNCHANGED <<forwarder, runs>>

(* classify_wait: an exit of this thread ends the session, an event or a   *)
(* signal ends the step; a trap ends it at a breakpoint or a new line, and *)
(* otherwise the loop steps again or runs to the end of a frame without    *)
(* debug information.                                                      *)
classify_wait ==
    LET t == current_tid IN
    /\ mode = "rawstep"
    /\ Waitable(t)
    /\ \/ /\ report[t].kind \in Ends
          /\ Consume(t) /\ mark_exited /\ Return
          /\ UNCHANGED rip
       \/ /\ report[t].kind = "trap"
          /\ fixup_breakpoint_rip(t)
          /\ \/ Consume(t) /\ Return
             \/ rip[t] # "past" /\ single_step_raw(rip[t])
             \/ /\ rip[t] # "past"
                /\ Resume(t, "running")
                /\ mode' = "frame" /\ UNCHANGED <<after, apply>>
          /\ UNCHANGED <<exited, DEBUGGEE_PID>>
       \/ /\ report[t].kind \notin Ends \cup {"trap"}
          /\ Consume(t) /\ Return
          /\ UNCHANGED <<rip, exited, DEBUGGEE_PID>>
    /\ UNCHANGED <<leader, sigs, pid, current_tid, tables, locked_tid, processes,
                   nested, reaps, forwarder, runs>>

(* finish_undebugged_frame: any stop counts as the return; the temporary   *)
(* breakpoint is taken out, so rip is at a breakpoint only if the user     *)
(* has one there too.                                                      *)
finish_undebugged_frame ==
    LET t == current_tid IN
    /\ mode = "frame"
    /\ Waitable(t)
    /\ IF report[t].kind \in Ends
       THEN Consume(t) /\ mark_exited /\ Return /\ UNCHANGED rip
       ELSE /\ \E r \in IF rip[t] = "past" THEN {"off", "at"} ELSE {rip[t]} :
                  rip' = [rip EXCEPT ![t] = r] /\ single_step_raw(r)
            /\ UNCHANGED <<exited, DEBUGGEE_PID>>
    /\ UNCHANGED <<leader, sigs, pid, current_tid, tables, locked_tid, processes,
                   nested, reaps, forwarder, runs>>

-----------------------------------------------------------------------------
(* thread, lock, unlock                                                    *)

switch_thread(n) ==
    LET t == resolve_thread_id(n) IN
    /\ Given("thread", n)
    /\ \/ ~(StoppedThread(t) /\ locked_tid \in {NoTid, t}) /\ Reject
       \/ /\ StoppedThread(t) /\ locked_tid \in {NoTid, t}
          /\ fixup_breakpoint_rip(t)
          /\ current_tid' = t
          /\ Return
          /\ UNCHANGED <<run, report, leader, sigs, pid, exited, tables, locked_tid,
                         processes, DEBUGGEE_PID, nested, reaps>>
    /\ UNCHANGED <<forwarder, runs>>

(* SIGSTOP is sent with kill(2), that is, to the process of each thread.   *)
lock_thread(n) ==
    LET t == resolve_thread_id(n)
        others == {u \in threads \ {t} : Running(u)}
    IN
    /\ Given("lock", n)
    /\ \/ ~StoppedThread(t) /\ Reject
       \/ /\ StoppedThread(t)
          /\ fixup_breakpoint_rip(t)
          /\ locked_tid' = t /\ current_tid' = t
          /\ sigs' = [p \in Tids |-> IF \E u \in others : leader[u] = p
                                     THEN sigs[p] \cup {"SIGSTOP"} ELSE sigs[p]]
          /\ Return
          /\ UNCHANGED <<run, report, leader, pid, exited, tables, processes,
                         DEBUGGEE_PID, nested, reaps>>
    /\ UNCHANGED <<forwarder, runs>>

unlock_thread ==
    /\ Given("unlock", 0)
    /\ \/ locked_tid = NoTid /\ Reject
       \/ /\ locked_tid # NoTid
          /\ locked_tid' = NoTid
          /\ mode' = "release" /\ after' = "unlock"
          /\ todo' = threads \ {current_tid}
          /\ UNCHANGED <<kernelVars, pid, exited, current_tid, tables, processes,
                         DEBUGGEE_PID, waiting, apply, reaps>>
    /\ UNCHANGED <<forwarder, runs>>

(* release_held_thread(t): a thread that is not stopped is left alone; one *)
(* past an int3 first steps over the breakpoint, whatever ends that step.  *)
release_held_thread(t) ==
    /\ mode = "release" /\ waiting = NoTid
    /\ t \in todo
    /\ todo' = todo \ {t}
    /\ IF Stopped(t) /\ rip[t] = "past"
       THEN Resume(t, "stepover") /\ fixup_breakpoint_rip(t) /\ waiting' = t
       ELSE TryResume(t) /\ UNCHANGED <<rip, waiting>>
    /\ UNCHANGED <<leader, sigs, fields, mode, after, apply, reaps, forwarder, runs>>

release_waited ==
    /\ mode = "release" /\ waiting # NoTid
    /\ Waitable(waiting)
    /\ IF Stopped(waiting) THEN Resume(waiting, "running") ELSE Consume(waiting)
    /\ waiting' = NoTid
    /\ UNCHANGED <<leader, sigs, rip, fields, mode, after, todo, apply, reaps, forwarder, runs>>

(* Mutants: the first death ends the session; the tables are looked at     *)
(* before the thread is taken out.                                         *)
settle_at_once(remaining, leaders) == mark_exited /\ Return
settle_before_removal(remaining, leaders) ==
    IF threads = {} \/ processes = {}
    THEN mark_exited /\ Return
    ELSE /\ mode' = "wait" /\ after' = "none"
         /\ UNCHANGED <<exited, DEBUGGEE_PID, apply>>

(* After a reaped thread: the session is over once nothing is known alive. *)
Settle(remaining, leaders) ==
    IF remaining = {} \/ leaders = {}
    THEN mark_exited /\ Return
    ELSE /\ mode' = "wait" /\ after' = "none"
         /\ UNCHANGED <<exited, DEBUGGEE_PID, apply>>

released ==
    /\ mode = "release" /\ waiting = NoTid /\ todo = {}
    /\ IF after = "reaped" THEN Settle(threads, processes)
                           ELSE Return /\ UNCHANGED <<exited, DEBUGGEE_PID>>
    /\ UNCHANGED <<kernelVars, pid, current_tid, tables, locked_tid, processes,
                   nested, reaps, forwarder, runs>>

-----------------------------------------------------------------------------
(* wait_and_report: one action per branch of the loop.                     *)

InWait(t) == mode = "wait" /\ Waitable(t)
Skips(t)  == t \notin threads \/ t \in pending_initial_stop
(* Mutant: a stop of a held thread is shown.                               *)
never_held(t) == FALSE

Held(t) == locked_tid \notin {NoTid, t}

(* Mutant: the new process is registered as a thread only.                 *)
forget_process(c, kind) == UNCHANGED processes

register_process(c, kind) ==
    processes' = IF kind = "fork" THEN processes \cup {c} ELSE processes

wait_event(t) ==
    LET c == report[t].child IN
    /\ InWait(t) /\ report[t].kind \in {"clone", "fork"}
    /\ register_thread(c)
    /\ register_process(c, report[t].kind)
    /\ resume_or_hold(t)
    /\ UNCHANGED <<leader, sigs, rip, pid, exited, current_tid, locked_tid, DEBUGGEE_PID,
                   control, forwarder, runs>>

(* The first Stopped of a thread is taken for its automatic attach.        *)
wait_initial_stop(t) ==
    /\ InWait(t) /\ report[t].kind \in Stops
    /\ Skips(t)
    /\ IF t \in threads
       THEN /\ UNCHANGED <<threads, thread_ids, next_thread_id>>
            /\ pending_initial_stop' = pending_initial_stop \ {t}
       ELSE Enter(t, next_thread_id + 1, pending_initial_stop \ {t})
    /\ resume_or_hold(t)
    /\ UNCHANGED <<leader, sigs, rip, pid, exited, current_tid, locked_tid, processes,
                   DEBUGGEE_PID, control, forwarder, runs>>

wait_held(t) ==
    /\ InWait(t) /\ report[t].kind \in Stops
    /\ ~Skips(t) /\ Held(t)
    /\ Consume(t)
    /\ UNCHANGED <<leader, sigs, rip, fields, control, forwarder, runs>>

wait_stopped(t) ==
    /\ InWait(t) /\ report[t].kind \in Stops
    /\ ~Skips(t) /\ ~Held(t)
    /\ Consume(t)
    /\ IF report[t].kind = "trap" THEN fixup_breakpoint_rip(t) ELSE UNCHANGED rip
    /\ current_tid' = t
    /\ Return
    /\ UNCHANGED <<leader, sigs, pid, exited, tables, locked_tid, processes, DEBUGGEE_PID,
                   nested, reaps, forwarder, runs>>

(* An exit, with on_thread_gone: the focus falls back to any other thread, *)
(* and the death of the locked thread releases the ones held for it.       *)
wait_exited(t) ==
    /\ InWait(t) /\ report[t].kind \in Ends
    /\ Consume(t)
    /\ threads' = threads \ {t}
    /\ thread_ids' = Without(thread_ids, t)
    /\ processes' = processes \ {t}
    /\ IF current_tid # t
       THEN UNCHANGED current_tid
       ELSE current_tid' \in IF threads' = {} THEN {NoTid} ELSE threads'
    /\ IF locked_tid = t
       THEN /\ locked_tid' = NoTid
            /\ mode' = "release" /\ after' = "reaped" /\ todo' = threads'
            /\ UNCHANGED <<exited, DEBUGGEE_PID, apply>>
       ELSE /\ Settle(threads', processes')
            /\ UNCHANGED <<locked_tid, todo>>
    /\ UNCHANGED <<leader, sigs, rip, pid, next_thread_id, pending_initial_stop,
                   waiting, reaps, forwarder, runs>>

(* ECHILD: the `?` after waitpid gives the command up.                     *)
wait_no_child ==
    /\ mode = "wait"
    /\ NoTracee
    /\ Return
    /\ UNCHANGED <<kernelVars, fields, nested, reaps, forwarder, runs>>

-----------------------------------------------------------------------------
(* kill, quit                                                              *)

Forget == /\ mark_exited
          /\ pid' = NoTid /\ current_tid' = NoTid /\ locked_tid' = NoTid
          /\ threads' = {} /\ thread_ids' = NoNumbers /\ pending_initial_stop' = {}
          /\ processes' = {}
          /\ UNCHANGED next_thread_id

Leave(name) == IF name = "quit" THEN mode' = "quit" /\ after' = "none" /\ UNCHANGED apply
                                ELSE Return

(* SIGKILL goes to the process of every known thread and of pid, and what  *)
(* is stopped is resumed: all of them die.  Then kill() reaps.             *)
kill(name) ==
    /\ Given(name, 0)
    /\ IF is_running
       THEN /\ Perish({t \in Tids : \E u \in threads \cup {pid} : t \in Group(u)}, "signaled")
            /\ mode' = "kill" /\ after' = name /\ reaps' = 0
            /\ UNCHANGED <<fields, apply>>
       ELSE /\ IF name = "kill" THEN Forget ELSE UNCHANGED fields
            /\ Leave(name)
            /\ UNCHANGED <<run, report, rip, reaps>>
    /\ UNCHANGED <<leader, sigs, nested, forwarder, runs>>

kill_reaps(t) ==
    /\ mode = "kill" /\ reaps < MaxReaps
    /\ Waitable(t)
    /\ Consume(t)
    /\ reaps' = reaps + 1
    /\ UNCHANGED <<leader, sigs, rip, fields, mode, after, nested, apply, forwarder, runs>>

(* Mutant: ECHILD does not end the loop.                                   *)
reap_on == reaps = MaxReaps

reaping_over == reaps = MaxReaps \/ NoTracee

kill_done ==
    /\ mode = "kill"
    /\ reaping_over
    /\ Forget
    /\ Leave(after)
    /\ reaps' = 0
    /\ UNCHANGED <<kernelVars, nested, forwarder, runs>>

(* Ctrl-D at the prompt leaves the loop at once, and the program behind.   *)
end_of_input ==
    /\ mode = "prompt"
    /\ mode' = "quit"
    /\ UNCHANGED <<kernelVars, fields, after, nested, apply, reaps, forwarder, runs>>

-----------------------------------------------------------------------------
(* thread apply all                                                        *)

thread_apply_all(cmd) ==
    /\ mode = "prompt"
    /\ apply' = [on |-> TRUE, ids |-> DOMAIN thread_ids, saved |-> current_tid, cmd |-> cmd]
    /\ mode' = "apply"
    /\ UNCHANGED <<kernelVars, fields, after, nested, reaps, forwarder, runs>>

(* focus_thread_for_apply in the order of the numbers; a thread that is    *)
(* gone or not stopped is skipped.                                         *)
focus_thread_for_apply(n) ==
    LET t == resolve_thread_id(n) IN
    /\ mode = "apply"
    /\ n \in apply.ids /\ \A m \in apply.ids : n <= m
    /\ apply' = [apply EXCEPT !.ids = @ \ {n}]
    /\ IF StoppedThread(t)
       THEN fixup_breakpoint_rip(t) /\ current_tid' = t /\ mode' = "dispatch"
       ELSE UNCHANGED <<rip, current_tid, mode>>
    /\ UNCHANGED <<run, report, leader, sigs, pid, exited, tables, locked_tid, processes,
                   DEBUGGEE_PID, after, nested, reaps, forwarder, runs>>

restore_focus ==
    /\ mode = "apply" /\ apply.ids = {}
    /\ current_tid' = apply.saved
    /\ apply' = NoApply
    /\ mode' = "prompt"
    /\ UNCHANGED <<kernelVars, pid, exited, tables, locked_tid, processes, DEBUGGEE_PID,
                   after, nested, reaps, forwarder, runs>>

-----------------------------------------------------------------------------
(* The SIGINT forwarder thread: it loads the pid, and then it signals it.  *)
(* A Ctrl-C of the terminal also reaches the program itself, which is in   *)
(* the same process group; at the prompt the line editor takes it.         *)

ctrl_c(terminal) ==
    /\ mode \in CtrlCIn \ {"prompt", "quit"}
    /\ forwarder = NoTid /\ DEBUGGEE_PID # NoTid
    /\ forwarder' = DEBUGGEE_PID
    /\ sigs' = [t \in Tids |-> IF terminal /\ leader[t] = t /\ ~Gone(t)
                               THEN sigs[t] \cup {"SIGINT"} ELSE sigs[t]]
    /\ UNCHANGED <<run, report, leader, rip, fields, control, runs>>

(* Mutant: the signal is not sent.                                         *)
forward_nothing ==
    /\ forwarder # NoTid
    /\ forwarder' = NoTid
    /\ UNCHANGED <<kernelVars, fields, control, runs>>

forward_sigint ==
    /\ forwarder # NoTid
    /\ sigs' = IF Gone(forwarder) THEN sigs
               ELSE [sigs EXCEPT ![leader[forwarder]] = @ \cup {"SIGINT"}]
    /\ forwarder' = NoTid
    /\ UNCHANGED <<run, report, leader, rip, fields, control, runs>>

-----------------------------------------------------------------------------
Numbers == DOMAIN thread_ids \cup {0}

Command ==
    \/ start
    \/ cont \/ stepi \/ step_line
    \/ \E n \in Numbers \cup {apply.cmd[2]} : switch_thread(n) \/ lock_thread(n)
    \/ unlock_thread
    \/ kill("kill") \/ kill("quit")
    \/ end_of_input
    \/ \E cmd \in ApplyCommands : thread_apply_all(cmd)

Wait ==
    \/ start_waited
    \/ step_over_current_breakpoint
    \/ classify_wait \/ finish_undebugged_frame
    \/ \E t \in Tids : \/ wait_event(t) \/ wait_initial_stop(t)
                       \/ wait_held(t) \/ wait_stopped(t) \/ wait_exited(t)
                       \/ kill_reaps(t)
    \/ wait_no_child
    \/ \E t \in Tids : release_held_thread(t)
    \/ release_waited \/ released
    \/ kill_done
    \/ \E n \in apply.ids : focus_thread_for_apply(n)
    \/ restore_focus

Program ==
    /\ mode # "quit"
    /\ \E t \in Tids : ProgramStep(t)
    /\ UNCHANGED <<fields, control, forwarder, runs>>

Forwarder == (\E terminal \in BOOLEAN : ctrl_c(terminal)) \/ forward_sigint

Next == Command \/ Wait \/ Program \/ Forwarder

Spec == Init /\ [][Next]_vars

-----------------------------------------------------------------------------
(* Fairness: the main thread runs whenever a waitpid has something for it, *)
(* the forwarder thread is scheduled, and the program is, but nobody       *)
(* promises that it reaches a breakpoint, creates a task or exits.         *)
Proceeds(t) == /\ mode # "quit"
               /\ \/ Exec(t) \/ StepTrap(t)
                  \/ \E s \in {"SIGSTOP", "SIGINT"} : TakeSignal(t, s)
               /\ UNCHANGED <<fields, control, forwarder, runs>>

Fairness == /\ WF_vars(Wait)
            /\ WF_vars(forward_sigint)
            /\ \A t \in Tids : WF_vars(Proceeds(t))

FairSpec == Spec /\ Fairness

-----------------------------------------------------------------------------
(* Safety                                                                  *)

(* The numbers of `info threads` and the known threads are one-to-one, and *)
(* a known process is a known thread: register_thread and on_thread_gone   *)
(* keep the four collections in step, in whatever order the events of a    *)
(* birth, a stop and a death come.                                         *)
ThreadTable ==
    /\ Injective(thread_ids)
    /\ TidsOf(thread_ids) = threads
    /\ processes \subseteq threads

(* While a thread is locked it is a known one and it has the focus, so     *)
(* that `continue` resumes it and none of those held for it (the comment   *)
(* of switch_thread).  `thread apply all` breaks it, as restore_focus and   *)
(* focus_thread_for_apply do not look at the lock: it is stated of sessions *)
(* without that command.                                                   *)
LockHasFocus ==
    locked_tid # NoTid => current_tid = locked_tid /\ locked_tid \in threads

(* The stop of the automatic attach is still to be skipped for as long as  *)
(* it has not been waited for: it can never be taken for a breakpoint or a *)
(* signal and shown to the user.                                           *)
AttachStopAccounted ==
    \A t \in Tids : report[t].kind = "initial" /\ t \in threads
                        => t \in pending_initial_stop

(* A session that is over leaves no task of the program behind, stopped    *)
(* and without anybody to resume it: `run` starts from nothing.            *)
OverMeansGone == exited /\ mode # "quit" => \A t \in Tids : ~Alive(t)

(* While a command waits for a program that is not over, the pid that the  *)
(* forwarder thread would load is that of a process the kernel still has,  *)
(* so that Ctrl-C reaches it (the comment of install_sigint_forwarder);    *)
(* wait_and_report never waits for a program that is over.  Of the pid the *)
(* forwarder has loaded, and sends to later, it says nothing.              *)
CtrlCHasTarget ==
    mode = "wait" \/ (mode \in {"stepover", "rawstep", "frame"} /\ ~exited)
        => DEBUGGEE_PID # NoTid /\ run[DEBUGGEE_PID] # "reaped"

(* A known thread that leads a process is a known process, unless the      *)
(* event that says so is still to come: breakpoints are installed in, and  *)
(* deleted from, exactly the members of processes.                         *)
LeadersAreProcesses ==
    mode \in {"prompt", "wait"} =>
        \A t \in threads : Alive(t) /\ leader[t] = t
            => t \in processes \/ \E u \in Tids : report[u] = Event("fork", t)

(* Whenever tdb waits there is something to wait for: a task that runs, or *)
(* an answer that is ready.  Otherwise neither the program nor Ctrl-C can  *)
(* bring the prompt back.                                                  *)
WaitCanEnd ==
    mode = "wait" => NoTracee \/ \E t \in Tids : Running(t) \/ Waitable(t)

-----------------------------------------------------------------------------
(* Action properties                                                       *)

(* While another thread is locked, no step of tdb resumes a stopped thread *)
(* of the session (lock_thread, resume_or_hold), short of kill.            *)
HeldStaysHeld ==
    [][\A t \in threads :
          locked_tid \notin {NoTid, t} /\ locked_tid' = locked_tid /\ Stopped(t)
              => ~Running(t)']_vars

(* No task is ever resumed one byte past an int3, where its instructions   *)
(* are no longer those of the program (fixup_breakpoint_rip and the        *)
(* comment of release_held_thread).                                        *)
NeverResumedPastInt3 ==
    [][\A t \in Tids : Stopped(t) /\ rip[t] = "past" => ~(Running(t)' /\ rip'[t] = "past")]_vars

(* The same, for the threads whose attach has been waited for.             *)
AttachedNeverResumedPastInt3 ==
    [][\A t \in threads \ pending_initial_stop :
          Stopped(t) /\ rip[t] = "past" => ~(Running(t)' /\ rip'[t] = "past")]_vars

-----------------------------------------------------------------------------
(* Liveness                                                                *)

(* kill returns to the user.                                               *)
KillReturns == mode = "kill" ~> mode \in {"prompt", "apply", "quit"}

(* Ctrl-C during `continue` stops the program and brings the prompt back.  *)
CtrlCStops == forwarder # NoTid /\ mode = "wait" ~> mode # "wait"
=============================================================================
