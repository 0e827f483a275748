----------------------------- MODULE ForkProofs -----------------------------
(***************************************************************************)
(* A program that forks, for every set of tids: the session is declared    *)
(* over only when no process is left, and every known process is in the    *)
(* set breakpoints are installed in.  What makes it hard is that parents   *)
(* and children are registered in either order: a child may be the only    *)
(* task known, while its parent's report of its birth is still to come.    *)
(***************************************************************************)
EXTENDS SessionProofs, FiniteSetTheorems, WellFoundedInduction

(* A program whose tasks are all processes, without breakpoints, under the *)
(* commands that leave the focus to the waits; and kill() reaps more often *)
(* than there are tasks.                                                   *)
ForksOnly ==
    /\ Births \subseteq {"fork"} /\ ~Breakpoint
    /\ {"step", "thread", "lock"} \cap Commands = {} /\ ApplyCommands = {}
    /\ "start" \notin CtrlCIn
    /\ IsFiniteSet(Tids) /\ Cardinality(Tids) < MaxReaps

(* Every task leads a process of its own, and nobody signals a tid that    *)
(* has not been given out.                                                 *)
OwnProcesses == \A t \in Tids : IF run[t] = "unborn" THEN leader[t] = NoTid /\ sigs[t] = {}
                                                     ELSE leader[t] = t

NoBreakpoints == \A t \in Tids : rip[t] = "off"

TargetsBorn == \A t \in {DEBUGGEE_PID, forwarder} \cap Tids : run[t] # "unborn"

(* The birth of t is still to be reported by its creator, a known thread.  *)
Announced(t) == \E u \in threads : report[u] = Event("fork", t)

(* A creator has a lower number than its child: the parents of processes   *)
(* whose births are still to be reported form no circle.                   *)
ParentsFirst ==
    \A i, j \in DOMAIN thread_ids :
        report[thread_ids[i]] = Event("fork", thread_ids[j]) => i < j

(* A living task is known, and known as a process, unless its birth is     *)
(* still to be reported; if it is not known, so is its attach stop.        *)
Tracked ==
    /\ \A t \in Tids \ threads : Alive(t) => report[t] = Report("initial") /\ Announced(t)
    /\ \A t \in threads \ processes : Alive(t) => Announced(t)

(* While `run` waits for its execve nothing else lives.                    *)
StartsAlone ==
    /\ threads = {} /\ processes = {} /\ pid \in Tids /\ current_tid = pid /\ is_running
    /\ forwarder # pid /\ sigs[pid] = {}
    /\ run[pid] \in {"starting", "stopped", "zombie"}
    /\ run[pid] = "stopped" => report[pid].kind = "exec"
    /\ \A t \in Tids : Alive(t) => t = pid

(* What kill() cannot reap, or has: each round of its loop adds a task.    *)
Spent == {t \in Tids : report[t] = Quiet /\ ~Running(t)}
Reaps == is_running /\ (\A t \in Tids : ~Running(t)) /\ reaps <= Cardinality(Spent)

OverGone == is_running \/ \A t \in Tids : ~Alive(t)

(* The focus is on a task that was born; at the prompt, its stop has been  *)
(* waited for.                                                             *)
FocusBorn == current_tid \in Tids => run[current_tid] # "unborn"
FocusTaken ==
    /\ FocusBorn
    /\ current_tid \in Tids =>
        /\ ~Running(current_tid)
        /\ Stopped(current_tid) => report[current_tid] = Quiet

ByMode ==
    /\ mode \in {"prompt", "start", "wait", "kill", "quit"}
    /\ mode \in {"prompt", "wait"} => Tracked /\ OverGone
    /\ mode = "wait" => is_running /\ FocusBorn
    /\ mode = "prompt" => FocusTaken
    /\ mode = "start" => StartsAlone
    /\ mode = "kill" => Reaps

KernelForks == OwnProcesses /\ NoBreakpoints /\ TargetsBorn

ForkInv == AttachInv /\ NobodyLocked /\ ThreadTable /\ KernelForks /\ ParentsFirst /\ ByMode

(* The kinds of reports, and what they say of the task.                    *)
LEMMA KindsOfReports ==
    /\ Quiet.kind = "none"
    /\ \A k : Report(k).kind = k
    /\ \A k, c : Event(k, c).kind = k /\ Event(k, c).child = c
BY DEF Quiet, Report, Event

(* A running task has nothing to report, one with an event is stopped.     *)
LEMMA WhoReports ==
    ASSUME KernelTypeOK, ReportsMatch, NEW t \in Tids
    PROVE  /\ Running(t) => report[t] = Quiet
           /\ \A c : report[t] = Event("fork", c) => Stopped(t)
<1>1. report[t] \in Reports
  BY DEF KernelTypeOK
<1>2. ASSUME Running(t) PROVE report[t] = Quiet
  <2>1. report[t].kind \notin Stops \cup Births0 \cup Ends
    BY <1>2 DEF ReportsMatch, Stopped, Running
  <2> QED BY <1>1, <2>1, KindsOfReports DEF Reports
<1>3. ASSUME NEW c, report[t] = Event("fork", c) PROVE Stopped(t)
  BY <1>3, KindsOfReports DEF ReportsMatch, Births0
<1> QED BY <1>2, <1>3

-----------------------------------------------------------------------------
(* What a step of the program is under these hypotheses.                   *)
Halts(t) == \E k \in Stops : /\ run' = [run EXCEPT ![t] = "stopped"]
                             /\ report' = [report EXCEPT ![t] = Report(k)]
Dies(t)  == \E k \in Ends : /\ run' = [run EXCEPT ![t] = "zombie"]
                            /\ report' = [report EXCEPT ![t] = Report(k)]
Forks(t, c) == /\ run[c] = "unborn" /\ c # t
               /\ run' = [run EXCEPT ![t] = "stopped", ![c] = "stopped"]
               /\ report' = [report EXCEPT ![t] = Event("fork", c), ![c] = Report("initial")]

(* A task stops, dies alone, or forks.                                     *)
LEMMA ProgramForks ==
    ASSUME ForksOnly, TypeOK, KernelForks, NEW t \in Tids, ProgramStep(t)
    PROVE  /\ Running(t)
           /\ Halts(t) \/ Dies(t) \/ \E c \in Tids : Forks(t, c)
           /\ run[t] = "starting" /\ sigs[t] = {} =>
                 \/ Dies(t)
                 \/ run' = [run EXCEPT ![t] = "stopped"] /\ report' = [report EXCEPT ![t] = Report("exec")]
           /\ OwnProcesses' /\ NoBreakpoints'
           /\ \A u \in Tids : sigs'[u] \subseteq sigs[u]
<1> USE DEF KernelForks, OwnProcesses, NoBreakpoints, TypeOK, KernelTypeOK
<1> DEFINE Goal == /\ Running(t)
                   /\ Halts(t) \/ Dies(t) \/ \E c \in Tids : Forks(t, c)
                   /\ run[t] = "starting" /\ sigs[t] = {} =>
                        \/ Dies(t)
                        \/ /\ run' = [run EXCEPT ![t] = "stopped"]
                           /\ report' = [report EXCEPT ![t] = Report("exec")]
                   /\ OwnProcesses' /\ NoBreakpoints'
                   /\ \A u \in Tids : sigs'[u] \subseteq sigs[u]
<1>0. NoTid \notin Tids
  BY TraceesAssumption
<1>1. CASE Exec(t)
  BY <1>1 DEF Exec, Stop, Halts, Running, Stops
<1>2. ASSUME NEW dying, NEW end \in Ends, Perish(dying, end), UNCHANGED <<leader, sigs>>,
             Running(t), \A u \in Tids : (u \in dying /\ Alive(u)) <=> u = t
      PROVE  Goal
  <2>1. run' = [run EXCEPT ![t] = "zombie"]
    BY <1>2 DEF Perish
  <2>2. report' = [report EXCEPT ![t] = Report(end)]
    BY <1>2 DEF Perish
  <2>3. NoBreakpoints'
    BY <1>2 DEF Perish
  <2>4. OwnProcesses'
    BY <1>2, <2>1 DEF Running
  <2> QED BY <1>2, <2>1, <2>2, <2>3, <2>4 DEF Dies
<1>3. CASE ExecFails(t)
  <2>1. Running(t) /\ "exited" \in Ends
    BY <1>3 DEF ExecFails, Running, Ends
  <2> QED BY <1>2, <1>3, <2>1 DEF ExecFails, Alive
<1>4. CASE HitBreakpoint(t)
  BY <1>4 DEF HitBreakpoint, ForksOnly
<1>5. CASE StepTrap(t)
  BY <1>5 DEF StepTrap, ForksOnly, MayExecute, Stop, Halts, Running, Stops
<1>6. ASSUME NEW c \in Tids, NEW kind \in Births, GiveBirth(t, c, kind) PROVE Goal
  <2>1. kind = "fork"
    BY DEF ForksOnly
  <2>2. Running(t) /\ t # c /\ run[t] # "starting"
    BY <1>6 DEF GiveBirth, MayExecute, Running
  <2>3. Forks(t, c)
    BY <1>6, <2>1, <2>2 DEF GiveBirth, Forks
  <2>4. OwnProcesses' /\ NoBreakpoints'
    BY <1>6, <2>1, <2>2 DEF GiveBirth, Running
  <2> QED BY <1>6, <2>2, <2>3, <2>4 DEF GiveBirth
<1>7. ASSUME NEW s \in {"SIGSTOP", "SIGINT"}, TakeSignal(t, s) PROVE Goal
  <2>1. leader[t] = t /\ Running(t) /\ s \in sigs[t] /\ s \in Stops
    BY <1>7 DEF TakeSignal, Running, Stops
  <2>2. Halts(t)
    BY <1>7, <2>1 DEF TakeSignal, Stop, Halts
  <2>3. OwnProcesses' /\ NoBreakpoints' /\ \A u \in Tids : sigs'[u] \subseteq sigs[u]
    BY <1>7, <2>1 DEF TakeSignal, Stop, Running
  <2> QED BY <2>1, <2>2, <2>3
<1>8. CASE ThreadExit(t)
  <2>1. Running(t) /\ "exited" \in Ends
    BY <1>8 DEF ThreadExit, MayExecute, Ends
  <2> QED BY <1>2, <1>8, <2>1 DEF ThreadExit, Alive
<1>9. ASSUME NEW end \in Deaths, GroupExit(t, end) PROVE Goal
  <2>1. Running(t) /\ end \in Ends
    BY <1>9 DEF GroupExit, MayExecute
  <2>2. \A u \in Tids : (u \in Group(t) /\ Alive(u)) <=> u = t
    BY <1>0, <2>1 DEF Group, Alive, Running, Stopped
  <2> QED BY <1>2, <1>9, <2>1, <2>2 DEF GroupExit
<1> QED BY <1>1, <1>3, <1>4, <1>5, <1>6, <1>7, <1>8, <1>9 DEF ProgramStep

(* Commands and waits signal nobody without `lock`, and leave rip alone.   *)
LEMMA TdbSignalsNone ==
    ASSUME "lock" \notin Commands, NobodyLocked, NoBreakpoints, TypeOK, Command \/ Wait
    PROVE  sigs' = sigs /\ rip' = rip
<1> USE DEF NoBreakpoints, TypeOK, KernelTypeOK, NobodyLocked, Reject, kernelVars
<1>0. ASSUME NEW t, fixup_breakpoint_rip(t) PROVE rip' = rip
  BY <1>0 DEF fixup_breakpoint_rip
<1>1. ASSUME Command PROVE sigs' = sigs /\ rip' = rip
  <2>1. CASE start
    BY <2>1 DEF start, start_forks
  <2>2. ASSUME NEW name, resume_command(name) PROVE sigs' = sigs /\ rip' = rip
    BY <2>2 DEF resume_command
  <2>3. CASE step_line
    BY <2>3 DEF step_line
  <2>4. ASSUME NEW n, switch_thread(n) PROVE sigs' = sigs /\ rip' = rip
    BY <1>0, <2>4 DEF switch_thread
  <2>5. ASSUME NEW n PROVE ~lock_thread(n)
    BY DEF lock_thread, Given
  <2>6. CASE unlock_thread
    BY <2>6 DEF unlock_thread
  <2>7. ASSUME NEW name, kill(name) PROVE sigs' = sigs /\ rip' = rip
    BY <2>7 DEF kill, Perish
  <2>8. ASSUME NEW cmd, thread_apply_all(cmd) PROVE sigs' = sigs /\ rip' = rip
    BY <2>8 DEF thread_apply_all
  <2>9. CASE end_of_input
    BY <2>9 DEF end_of_input
  <2> QED BY <1>1, <2>1, <2>2, <2>3, <2>4, <2>5, <2>6, <2>7, <2>8, <2>9 DEF Command, cont, stepi
<1>2. ASSUME Wait PROVE sigs' = sigs /\ rip' = rip
  <2>1. CASE start_waited \/ step_over_current_breakpoint
    BY <2>1 DEF start_waited, step_over_current_breakpoint
  <2>2. CASE classify_wait
    BY <1>0, <2>2 DEF classify_wait
  <2>3. CASE finish_undebugged_frame
    BY <2>3 DEF finish_undebugged_frame, WaitsForTask
  <2>4. ASSUME NEW t \in Tids, wait_event(t) \/ wait_initial_stop(t) \/ wait_held(t)
        PROVE  sigs' = sigs /\ rip' = rip
    BY <2>4 DEF wait_event, wait_initial_stop, wait_held
  <2>5. ASSUME NEW t \in Tids, wait_stopped(t) \/ wait_exited(t) \/ kill_reaps(t)
        PROVE  sigs' = sigs /\ rip' = rip
    BY <1>0, <2>5 DEF wait_stopped, wait_exited, kill_reaps
  <2>6. CASE wait_no_child \/ kill_done
    BY <2>6 DEF wait_no_child, kill_done
  <2> QED BY <1>2, <2>1, <2>2, <2>3, <2>4, <2>5, <2>6
          DEF Wait, release_held_thread, release_waited, released, focus_thread_for_apply,
              restore_focus
<1> QED BY <1>1, <1>2

(* Of the commands, only run gives a task a leader.                        *)
LEMMA CommandLeader ==
    ASSUME Command PROVE leader' = leader \/ \E c \in Tids : start_forks(c)
BY DEF Command, start, cont, stepi, resume_command, step_line, switch_thread, lock_thread,
       unlock_thread, kill, end_of_input, thread_apply_all, Reject, kernelVars

(* DEBUGGEE_PID is set by run, and else cleared or left.                   *)
LEMMA PidIsTarget ==
    ASSUME [Next]_vars
    PROVE  DEBUGGEE_PID' \in {DEBUGGEE_PID, NoTid} \/ \E c \in Tids : start_forks(c)
<1> USE DEF Reject, fields, mark_exited, Forget, Settle
<1>1. CASE Command
  BY <1>1 DEF Command, start, cont, stepi, resume_command, step_line, switch_thread, lock_thread,
              unlock_thread, kill, end_of_input, thread_apply_all
<1>2. CASE Wait
  <2>1. CASE start_waited \/ step_over_current_breakpoint \/ classify_wait
             \/ finish_undebugged_frame
    BY <2>1 DEF start_waited, step_over_current_breakpoint, classify_wait, finish_undebugged_frame
  <2>2. ASSUME NEW t \in Tids,
               \/ wait_event(t) \/ wait_initial_stop(t) \/ wait_held(t) \/ wait_stopped(t)
               \/ wait_exited(t) \/ kill_reaps(t)
        PROVE  DEBUGGEE_PID' \in {DEBUGGEE_PID, NoTid}
    BY <2>2 DEF wait_event, wait_initial_stop, wait_held, wait_stopped, wait_exited, kill_reaps
  <2>3. CASE wait_no_child \/ released \/ release_waited \/ kill_done \/ restore_focus
    BY <2>3 DEF wait_no_child, released, release_waited, kill_done, restore_focus
  <2>4. ASSUME NEW t \in Tids, release_held_thread(t) PROVE DEBUGGEE_PID' = DEBUGGEE_PID
    BY <2>4 DEF release_held_thread
  <2>5. ASSUME NEW n, focus_thread_for_apply(n) PROVE DEBUGGEE_PID' = DEBUGGEE_PID
    BY <2>5 DEF focus_thread_for_apply
  <2> QED BY <1>2, <2>1, <2>2, <2>3, <2>4, <2>5 DEF Wait
<1>3. CASE Program \/ Forwarder \/ UNCHANGED vars
  BY <1>3 DEF Program, Forwarder, ctrl_c, forward_sigint, vars
<1> QED BY <1>1, <1>2, <1>3 DEF Next

(* Only Ctrl-C makes the forwarder thread load a pid.                      *)
LEMMA WhoLoads ==
    ASSUME [Next]_vars, ~Forwarder PROVE forwarder' = forwarder
BY DEF Next, Command, Wait, start, cont, stepi, resume_command, step_line, switch_thread,
       lock_thread, unlock_thread, kill, end_of_input, thread_apply_all, start_waited,
       step_over_current_breakpoint, classify_wait, finish_undebugged_frame, wait_event,
       wait_initial_stop, wait_held, wait_stopped, wait_exited, kill_reaps, wait_no_child,
       release_held_thread, release_waited, released, kill_done, focus_thread_for_apply,
       restore_focus, Program, vars

(* A Ctrl-C signals tasks that were born, and not the one being started.   *)
LEMMA ForwarderSignals ==
    ASSUME "start" \notin CtrlCIn, TypeOK, KernelForks, Forwarder
    PROVE  /\ KernelForks'
           /\ mode = "start" => forwarder' \in {forwarder, NoTid}
           /\ \A t \in Tids : mode = "start" /\ forwarder # t => sigs'[t] = sigs[t]
<1> USE DEF KernelForks, TypeOK, KernelTypeOK, FieldsTypeOK, ControlTypeOK, fields
<1>1. NoTid \notin Tids
  BY TraceesAssumption
<1>2. ASSUME NEW terminal \in BOOLEAN, ctrl_c(terminal)
      PROVE  mode # "start" /\ KernelForks'
  <2>1. mode # "start" /\ forwarder' = DEBUGGEE_PID /\ UNCHANGED <<run, leader, rip, DEBUGGEE_PID>>
    BY <1>2 DEF ctrl_c
  <2>2. \A t \in Tids : run[t] = "unborn" => sigs'[t] = sigs[t]
    BY <1>2 DEF ctrl_c, Gone
  <2> QED BY <2>1, <2>2 DEF OwnProcesses, NoBreakpoints, TargetsBorn
<1>3. CASE forward_sigint
  <2>1. forwarder \in Tids /\ forwarder' = NoTid /\ UNCHANGED <<run, leader, rip, DEBUGGEE_PID>>
    BY <1>3 DEF forward_sigint
  <2>2. run[forwarder] # "unborn" /\ leader[forwarder] = forwarder
    BY <2>1 DEF TargetsBorn, OwnProcesses
  <2>3. \A t \in Tids : t # forwarder => sigs'[t] = sigs[t]
    BY <1>3, <2>1, <2>2 DEF forward_sigint
  <2>4. KernelForks'
    BY <1>1, <2>1, <2>2, <2>3 DEF OwnProcesses, NoBreakpoints, TargetsBorn
  <2> QED BY <2>1, <2>3, <2>4
<1> QED BY <1>2, <1>3 DEF Forwarder

(* The commands that are left: refused, run, continue and stepi, kill.     *)
Refuses == mode' = "prompt" /\ UNCHANGED <<run, report, fields>>
Continues == /\ Focused
             /\ \E how \in Resumptions : Resume(current_tid, how)
             /\ mode' = "wait" /\ ~exited /\ UNCHANGED fields
Kills == /\ is_running
         /\ Perish({t \in Tids : \E u \in threads \cup {pid} : t \in Group(u)}, "signaled")
         /\ mode' = "kill" /\ reaps' = 0 /\ UNCHANGED fields
Clears == ~is_running /\ Forget /\ mode' = "prompt" /\ Still
Quits == mode' = "quit" /\ Still /\ UNCHANGED fields

LEMMA CommandForks ==
    ASSUME ForksOnly, NobodyLocked, NoBreakpoints, TypeOK, Command
    PROVE  /\ mode = "prompt"
           /\ \/ Refuses \/ Continues \/ Kills \/ Clears \/ Quits
              \/ \E c \in Tids : start_forks(c)
<1> USE DEF NobodyLocked, Still, kernelVars
<1>0. ASSUME NEW name, NEW n, Given(name, n) PROVE mode = "prompt" /\ name \in Commands
  BY <1>0 DEF Given
<1>1. mode = "prompt"
  BY <1>0 DEF Command, start, cont, stepi, resume_command, step_line, switch_thread,
              lock_thread, unlock_thread, kill, end_of_input, ForksOnly
<1>2. CASE Reject
  BY <1>1, <1>2 DEF Reject, Return, Refuses
<1>3. ASSUME NEW name, resume_command(name), ~Reject PROVE Refuses \/ Continues
  <2>1. current_tid \in Tids /\ rip[current_tid] = "off" /\ Focused
    BY <1>3 DEF resume_command, Focused, StoppedThread, TypeOK, FieldsTypeOK, NoBreakpoints
  <2>2. ResumeFocus(HowOf(name)) /\ UNCHANGED fields
    BY <1>3, <2>1 DEF resume_command
  <2>3. HowOf(name) \in Resumptions
    BY DEF HowOf, Resumptions
  <2> QED BY <2>1, <2>2, <2>3 DEF ResumeFocus, Return, Refuses, Continues, is_running
<1>4. ASSUME NEW name \in {"kill", "quit"}, kill(name) PROVE Refuses \/ Kills \/ Clears \/ Quits
  BY <1>4 DEF kill, Kills, Clears, Quits, Leave, Return
<1>5. CASE end_of_input
  BY <1>5 DEF end_of_input, Quits
<1>6. ASSUME NEW n PROVE ~switch_thread(n) /\ ~lock_thread(n) /\ ~step_line
  BY <1>0 DEF switch_thread, lock_thread, step_line, ForksOnly
<1>7. CASE start
  BY <1>1, <1>2, <1>7 DEF start
<1>8. CASE unlock_thread
  BY <1>2, <1>8 DEF unlock_thread
<1>9. CASE cont \/ stepi
  <2>1. PICK name : resume_command(name)
    BY <1>9 DEF cont, stepi
  <2> QED BY <1>1, <1>2, <1>3, <2>1
<1>10. ASSUME NEW cmd \in ApplyCommands PROVE FALSE
  BY DEF ForksOnly
<1>11. \/ start \/ cont \/ stepi \/ unlock_thread \/ end_of_input
       \/ \E name \in {"kill", "quit"} : kill(name)
  BY <1>6, <1>10 DEF Command
<1> QED BY <1>1, <1>4, <1>5, <1>7, <1>8, <1>9, <1>11

(* The waits that are left, in the modes that are.                         *)
LEMMA WaitForks ==
    ASSUME NobodyLocked, ByMode, Wait
    PROVE  \/ start_waited \/ wait_no_child \/ kill_done
           \/ \E t \in Tids : \/ wait_event(t) \/ wait_initial_stop(t)
                             \/ wait_stopped(t) \/ wait_exited(t) \/ kill_reaps(t)
BY DEF NobodyLocked, ByMode, Wait, step_over_current_breakpoint, classify_wait,
       finish_undebugged_frame, wait_held, Held, release_held_thread, release_waited, released,
       focus_thread_for_apply, restore_focus

(* Neither gives birth, but run does.                                      *)
LEMMA TdbForksNone ==
    ASSUME ForksOnly, TypeOK, NobodyLocked, NoBreakpoints, ByMode, Command \/ Wait,
           NEW t \in Tids, run[t] = "unborn"
    PROVE  run'[t] = "unborn" \/ start_forks(t)
<1> USE DEF TypeOK, KernelTypeOK
<1>1. ASSUME NEW u, NEW how, Resume(u, how), Stopped(u) PROVE run'[t] = "unborn"
  BY <1>1 DEF Resume, Stopped
<1>2. ASSUME NEW u, Consume(u) PROVE run'[t] = "unborn"
  BY <1>2 DEF Consume
<1>3. CASE Command
  <2>1. ASSUME NEW c \in Tids, start_forks(c) PROVE run'[t] = "unborn" \/ start_forks(t)
    BY <2>1 DEF start_forks
  <2>2. CASE Continues
    BY <1>1, <2>2 DEF Continues, Focused, StoppedThread
  <2>3. CASE Kills
    BY <2>3 DEF Kills, Perish, Alive, Running, Stopped
  <2> QED BY <1>3, <2>1, <2>2, <2>3, CommandForks DEF Refuses, Clears, Quits, Still
<1>4. CASE Wait
  <2>1. CASE start_waited
    BY <1>2, <2>1 DEF start_waited
  <2>2. ASSUME NEW u, wait_event(u) \/ wait_initial_stop(u) PROVE run'[t] = "unborn"
    BY <1>1, <1>2, <2>2 DEF wait_event, wait_initial_stop, resume_or_hold, TryResume
  <2>3. ASSUME NEW u, wait_stopped(u) \/ wait_exited(u) \/ kill_reaps(u)
        PROVE  run'[t] = "unborn"
    BY <1>2, <2>3 DEF wait_stopped, wait_exited, kill_reaps
  <2>4. CASE wait_no_child \/ kill_done
    BY <2>4 DEF wait_no_child, kill_done, kernelVars
  <2> QED BY <1>4, <2>1, <2>2, <2>3, <2>4, WaitForks
<1> QED BY <1>3, <1>4

(* The invariant on the kernel's side.                                     *)
LEMMA KernelForksNext ==
    ASSUME ForksOnly, ForkInv, [Next]_vars
    PROVE  KernelForks'
<1> USE DEF KernelForks, ForkInv, AttachInv, TypeOK, KernelTypeOK
<1>0. NoTid \notin Tids
  BY TraceesAssumption
<1>1. \A t \in Tids : run[t] # "unborn" => run'[t] # "unborn"
  BY NextKeepsTasks DEF TasksKept
<1>2. ASSUME ~Forwarder PROVE TargetsBorn'
  <2>1. forwarder' = forwarder
    BY <1>2, WhoLoads
  <2>2. CASE DEBUGGEE_PID' \in {DEBUGGEE_PID, NoTid}
    BY <1>0, <1>1, <2>1, <2>2 DEF TargetsBorn
  <2>3. ASSUME NEW c \in Tids, start_forks(c) PROVE TargetsBorn'
    BY <1>0, <1>1, <2>1, <2>3 DEF TargetsBorn, start_forks
  <2> QED BY <2>2, <2>3, PidIsTarget
<1>3. ASSUME Command \/ Wait PROVE OwnProcesses' /\ NoBreakpoints'
  <2>1. sigs' = sigs /\ rip' = rip
    BY <1>3, TdbSignalsNone DEF ForksOnly
  <2>2. leader' = leader \/ \E c \in Tids : start_forks(c)
    BY <1>3, CommandLeader, WaitLeader
  <2>3. CASE leader' = leader
    <3>1. \A t \in Tids : run[t] = "unborn" => run'[t] = "unborn"
      <4>1. \A t \in Tids : start_forks(t) => leader[t] = t \/ run[t] # "unborn"
        BY <2>3 DEF start_forks
      <4>2. \A t \in Tids : run[t] = "unborn" => leader[t] # t
        BY <1>0 DEF OwnProcesses
      <4> QED BY <1>3, <4>1, <4>2, TdbForksNone
    <3> QED BY <1>1, <2>1, <2>3, <3>1 DEF OwnProcesses, NoBreakpoints
  <2>4. ASSUME NEW c \in Tids, start_forks(c) PROVE OwnProcesses' /\ NoBreakpoints'
    BY <2>1, <2>4 DEF OwnProcesses, NoBreakpoints, start_forks
  <2> QED BY <2>2, <2>3, <2>4
<1>4. CASE Program
  BY <1>2, <1>4, ProgramForks DEF Program, Forwarder, ctrl_c, forward_sigint
<1>5. CASE Forwarder
  BY <1>5, ForwarderSignals DEF ForksOnly
<1>6. CASE UNCHANGED vars
  BY <1>6 DEF vars, kernelVars, fields, OwnProcesses, NoBreakpoints, TargetsBorn
<1>7. CASE (Command \/ Wait) /\ ~Forwarder
  BY <1>2, <1>3, <1>7
<1> QED BY <1>4, <1>5, <1>6, <1>7 DEF Next

-----------------------------------------------------------------------------
(* The chain of parents.                                                   *)

(* Every set of numbers has a lowest one.                                  *)
LEMMA Lowest ==
    ASSUME NEW S \in SUBSET Nat, S # {}
    PROVE  \E i \in S : \A j \in S : i <= j
<1> DEFINE R == OpToRel(<, Nat)
<1>1. \E i \in S : \A j \in S : <<j, i>> \notin R
  <2>1. IsWellFoundedOn(R, Nat) BY NatLessThanWellFounded
  <2> HIDE DEF R
  <2> QED BY <2>1, WFMin
<1>2. PICK i \in S : \A j \in S : <<j, i>> \notin R BY <1>1
<1>3. ASSUME NEW j \in S PROVE i <= j
  <2>1. ~(j < i) BY <1>2 DEF OpToRel
  <2> QED BY <2>1
<1> QED BY <1>3

(* As long as a task lives, a known process does: of the living threads    *)
(* the one with the lowest number cannot have a birth that is still to be  *)
(* reported, because its creator has a lower one.                          *)
LEMMA SomebodyLeads ==
    ASSUME TypeOK, ReportsMatch, ThreadTable, ParentsFirst, Tracked, NEW x \in Tids, Alive(x)
    PROVE  \E t \in processes : Alive(t)
<1> DEFINE S == {i \in DOMAIN thread_ids : Alive(thread_ids[i])}
<1>0. KernelTypeOK /\ threads \subseteq Tids /\ DOMAIN thread_ids \subseteq Nat
  BY DEF TypeOK, FieldsTypeOK
<1>1. \A t \in threads : \E i \in DOMAIN thread_ids : thread_ids[i] = t
  BY DEF ThreadTable, TidsOf
<1>2. \A i \in DOMAIN thread_ids : thread_ids[i] \in threads
  BY DEF ThreadTable, TidsOf
<1>3. \A u \in threads, t \in Tids : report[u] = Event("fork", t) => Alive(u)
  BY <1>0, WhoReports DEF Alive
<1>4. \E t \in threads : Alive(t)
  BY <1>3 DEF Tracked, Announced
<1>5. S # {}
  BY <1>1, <1>4
<1>6. PICK i \in S : \A j \in S : i <= j
  <2>1. S \in SUBSET Nat BY <1>0
  <2> HIDE DEF S
  <2> QED BY <1>5, <2>1, Lowest
<1>7. thread_ids[i] \in threads /\ Alive(thread_ids[i])
  BY <1>2
<1>8. thread_ids[i] \in processes
  <2>1. SUFFICES ASSUME thread_ids[i] \notin processes PROVE FALSE
    OBVIOUS
  <2>2. PICK u \in threads : report[u] = Event("fork", thread_ids[i])
    BY <1>7, <2>1 DEF Tracked, Announced
  <2>3. PICK j \in DOMAIN thread_ids : thread_ids[j] = u
    BY <1>1
  <2>4. j \in S /\ j < i
    BY <1>0, <1>3, <1>7, <2>2, <2>3 DEF ParentsFirst
  <2>5. i <= j /\ i \in Nat /\ j \in Nat
    BY <1>0, <1>6, <2>4
  <2> QED BY <2>4, <2>5
<1> QED BY <1>7, <1>8

(* A step that brings nobody to life keeps track of the tasks if those it  *)
(* has entered in the tables are accounted for, and those it has not keep  *)
(* what they have to report.                                               *)
LEMMA TrackedKept ==
    ASSUME Tracked, threads \subseteq Tids,
           \A t \in Tids : Alive(t)' => Alive(t),
           \A t \in Tids \ threads' : Alive(t)' => t \notin threads /\ report'[t] = report[t],
           \A t \in threads' \ processes' : Alive(t)' => t \in Tids \ processes,
           \A u \in threads, t \in Tids : report[u] = Event("fork", t) =>
               \/ u \in threads' /\ report'[u] = report[u]
               \/ t \in threads' /\ t \in processes'
    PROVE  Tracked'
<1>1. ASSUME NEW t \in Tids, t \notin threads', Alive(t)'
      PROVE  report'[t] = Report("initial") /\ Announced(t)'
  BY <1>1 DEF Tracked, Announced
<1>2. ASSUME NEW t \in threads', t \notin processes', Alive(t)' PROVE Announced(t)'
  BY <1>2 DEF Tracked, Announced
<1> QED BY <1>1, <1>2 DEF Tracked

(* Creators keep lower numbers than their children.                        *)
LEMMA ParentsKept ==
    ASSUME ParentsFirst,
           DOMAIN thread_ids' \subseteq DOMAIN thread_ids,
           \A i \in DOMAIN thread_ids' : /\ thread_ids'[i] = thread_ids[i]
                                         /\ \A c : report'[thread_ids[i]] = Event("fork", c) => report'[thread_ids[i]] = report[thread_ids[i]]
    PROVE  ParentsFirst'
BY DEF ParentsFirst

LEMMA ParentsEnter ==
    ASSUME FieldsTypeOK, ParentsFirst, NEW t \in Tids, t \notin threads, TidsOf(thread_ids) = threads,
           thread_ids' = [i \in DOMAIN thread_ids \cup {next_thread_id} |->
                              IF i = next_thread_id THEN t ELSE thread_ids[i]],
           \A u \in threads : \A c : report'[u] = Event("fork", c) => report'[u] = report[u],
           \A c : report'[t] # Event("fork", c)
    PROVE  ParentsFirst'
<1>1. next_thread_id \notin DOMAIN thread_ids /\ next_thread_id \in Nat
      /\ \A i \in DOMAIN thread_ids : i \in Nat /\ i < next_thread_id
  BY DEF FieldsTypeOK
<1>2. \A i \in DOMAIN thread_ids : thread_ids[i] \in threads
  BY DEF TidsOf
<1>3. DOMAIN thread_ids' = DOMAIN thread_ids \cup {next_thread_id}
  OBVIOUS
<1>4. \A i \in DOMAIN thread_ids : thread_ids'[i] = thread_ids[i]
  BY <1>1
<1>5. thread_ids'[next_thread_id] = t
  OBVIOUS
<1> QED BY <1>1, <1>2, <1>3, <1>4, <1>5 DEF ParentsFirst

-----------------------------------------------------------------------------
(* The program's steps.                                                    *)

(* A known thread has a number, and every number is that of a known one.   *)
LEMMA Numbered ==
    ASSUME TypeOK, ThreadTable
    PROVE  /\ threads \subseteq Tids /\ processes \subseteq threads
           /\ \A i \in DOMAIN thread_ids : thread_ids[i] \in threads
BY DEF TypeOK, FieldsTypeOK, ThreadTable, TidsOf

(* A focus that stays stays on a task that was born.                       *)
LEMMA FocusStaysBorn ==
    ASSUME ForkInv, [Next]_vars, UNCHANGED fields, FocusBorn PROVE FocusBorn'
BY NextKeepsTasks DEF ForkInv, AttachInv, TasksKept, FocusBorn, fields

(* A known task halts, dies or gives birth, and the child is announced.    *)
LEMMA ProgramTracks ==
    ASSUME ForkInv, Tracked, NEW t \in Tids, Running(t), UNCHANGED fields,
           Halts(t) \/ Dies(t) \/ \E c \in Tids : Forks(t, c)
    PROVE  Tracked' /\ ParentsFirst' /\ (FocusTaken => FocusTaken')
<1> USE DEF ForkInv, AttachInv, TypeOK, KernelTypeOK
<1>0. /\ threads \subseteq Tids
      /\ UNCHANGED <<threads, processes, thread_ids, current_tid>>
  BY Numbered DEF fields
<1>1. report[t] = Quiet /\ t \in threads
  <2>1. report[t] = Quiet
    BY WhoReports
  <2>2. report[t] # Report("initial")
    BY <2>1, KindsOfReports DEF Report
  <2> QED BY <2>1, <2>2 DEF Tracked, Alive
<1>2. \A u, c : report[u] = Event("fork", c) => u # t
  BY <1>1, KindsOfReports DEF Event
<1>3. CASE Halts(t) \/ Dies(t)
  <2>1. PICK k \in Stops \cup Ends, s \in {"stopped", "zombie"} :
            run' = [run EXCEPT ![t] = s] /\ report' = [report EXCEPT ![t] = Report(k)]
    BY <1>3 DEF Halts, Dies
  <2>2. \A x \in Tids : x # t => run'[x] = run[x] /\ report'[x] = report[x]
    BY <2>1
  <2>3. \A x \in Tids : Alive(x)' => Alive(x)
    BY <2>2 DEF Alive, Running, Stopped
  <2>4. \A c : report'[t] # Event("fork", c)
    BY <2>1, KindsOfReports DEF Stops, Ends
  <2>5. Tracked'
    BY <1>0, <1>1, <1>2, <2>2, <2>3, TrackedKept
  <2>6. ParentsFirst'
    BY <1>0, <2>2, <2>4, Numbered, ParentsKept
  <2>7. FocusTaken => FocusTaken'
    BY <1>0, <2>2 DEF FocusTaken, FocusBorn, Running, Stopped
  <2> QED BY <2>5, <2>6, <2>7
<1>4. ASSUME NEW c \in Tids, Forks(t, c)
      PROVE  Tracked' /\ ParentsFirst' /\ (FocusTaken => FocusTaken')
  <2>1. /\ run'[t] = "stopped" /\ report'[t] = Event("fork", c)
        /\ run'[c] = "stopped" /\ report'[c] = Report("initial")
        /\ \A x \in Tids \ {t, c} : run'[x] = run[x] /\ report'[x] = report[x]
    BY <1>4 DEF Forks
  <2>2. c \notin threads /\ c # t
    BY <1>4 DEF Forks, KnownAreBorn
  <2>3. Announced(c)'
    BY <1>0, <1>1, <2>1 DEF Announced
  <2>4. \A x \in Tids : Announced(x) => Announced(x)'
    BY <1>0, <1>2, <2>1, <2>2 DEF Announced
  <2>5. \A x \in Tids \ {t, c} : Alive(x)' => Alive(x)
    BY <2>1 DEF Alive, Running, Stopped
  <2>6. Alive(t)
    BY DEF Alive
  <2>7. Tracked'
    BY <1>0, <1>1, <2>1, <2>2, <2>3, <2>4, <2>5, <2>6 DEF Tracked
  <2>8. ParentsFirst'
    <3> SUFFICES ASSUME NEW i \in DOMAIN thread_ids, NEW j \in DOMAIN thread_ids,
                        report'[thread_ids[i]] = Event("fork", thread_ids[j])
                 PROVE  i < j
      BY <1>0 DEF ParentsFirst
    <3>1. thread_ids[i] \in threads /\ thread_ids[j] \in threads
      BY Numbered
    <3>2. thread_ids[i] # t
      BY <2>1, <2>2, <3>1, KindsOfReports
    <3>3. report[thread_ids[i]] = Event("fork", thread_ids[j])
      BY <1>0, <2>1, <2>2, <3>1, <3>2
    <3> QED BY <3>3 DEF ParentsFirst
  <2>9. FocusTaken => FocusTaken'
    BY <1>0, <1>4, <2>1 DEF FocusTaken, FocusBorn, Forks, Running, Stopped
  <2> QED BY <2>7, <2>8, <2>9
<1> QED BY <1>3, <1>4

(* What the program does keeps the invariant.                              *)
LEMMA ProgramKeepsForks ==
    ASSUME ForksOnly, ForkInv, Program PROVE ParentsFirst' /\ ByMode'
<1> USE DEF ForkInv, AttachInv, TypeOK, KernelTypeOK
<1>0. /\ mode # "quit" /\ mode' = mode /\ forwarder' = forwarder
      /\ UNCHANGED fields /\ (is_running' <=> is_running)
  BY DEF Program, control, fields, is_running
<1>1. PICK t \in Tids : ProgramStep(t)
  BY DEF Program
<1>2. Running(t) /\ (Halts(t) \/ Dies(t) \/ \E c \in Tids : Forks(t, c))
  BY <1>1, ProgramForks
<1>3. mode \in {"prompt", "start", "wait"}
  BY <1>0, <1>2 DEF ByMode, Reaps
<1>4. CASE mode = "start"
  <2>1. StartsAlone /\ t = pid /\ run[t] = "starting"
    BY <1>2, <1>4 DEF ByMode, StartsAlone, Alive, Running
  <2>2. \/ Dies(t)
        \/ run' = [run EXCEPT ![t] = "stopped"] /\ report' = [report EXCEPT ![t] = Report("exec")]
    BY <1>1, <2>1, ProgramForks DEF StartsAlone
  <2>3. /\ run'[t] \in {"stopped", "zombie"}
        /\ run'[t] = "stopped" => report'[t].kind = "exec"
        /\ \A x \in Tids : x # t => run'[x] = run[x]
    BY <2>2, KindsOfReports DEF Dies
  <2>4. sigs'[pid] = {}
    BY <1>1, <2>1, ProgramForks DEF StartsAlone
  <2>5. StartsAlone'
    BY <1>0, <2>1, <2>3, <2>4 DEF StartsAlone, Alive, Running, Stopped, fields
  <2>6. ParentsFirst'
    <3>1. DOMAIN thread_ids = {}
      BY <2>1, Numbered DEF StartsAlone
    <3> QED BY <1>0, <3>1 DEF ParentsFirst, fields
  <2> QED BY <1>0, <1>4, <2>5, <2>6 DEF ByMode
<1>5. CASE mode \in {"prompt", "wait"}
  <2>1. Tracked /\ is_running
    BY <1>2, <1>5 DEF ByMode, OverGone, Alive
  <2>2. Tracked' /\ ParentsFirst' /\ (FocusTaken => FocusTaken')
    BY <1>0, <1>2, <2>1, ProgramTracks
  <2>3. FocusBorn => FocusBorn'
    BY <1>0, FocusStaysBorn DEF Next
  <2> QED BY <1>0, <1>5, <2>1, <2>2, <2>3 DEF ByMode, OverGone
<1> QED BY <1>3, <1>4, <1>5

(* What changes neither the tasks nor the tables keeps what is said of them. *)
LEMMA StillKeepsForks ==
    ASSUME ForkInv, UNCHANGED <<run, report, fields>>
    PROVE  /\ ParentsFirst'
           /\ Tracked => Tracked'
           /\ OverGone => OverGone'
           /\ FocusTaken => FocusTaken'
           /\ is_running' <=> is_running
           /\ \A t \in Tids : (Alive(t)' <=> Alive(t)) /\ (Running(t)' <=> Running(t))
<1> USE DEF ForkInv, AttachInv
<1>1. UNCHANGED <<threads, thread_ids, processes, pid, exited, current_tid>>
  BY DEF fields
<1>2. ParentsFirst'
  BY <1>1 DEF ParentsFirst
<1>3. \A t \in Tids : /\ Running(t)' <=> Running(t)
                      /\ Stopped(t)' <=> Stopped(t)
                      /\ Alive(t)' <=> Alive(t)
                      /\ Announced(t)' <=> Announced(t)
  BY <1>1 DEF Running, Stopped, Alive, Announced
<1>4. Tracked => Tracked'
  <2> SUFFICES ASSUME Tracked PROVE Tracked'
    OBVIOUS
  <2>1. ASSUME NEW t \in Tids, t \notin threads', Alive(t)'
        PROVE  report'[t] = Report("initial") /\ Announced(t)'
    BY <1>1, <1>3, <2>1 DEF Tracked
  <2>2. ASSUME NEW t \in Tids, t \in threads', t \notin processes', Alive(t)'
        PROVE  Announced(t)'
    BY <1>1, <1>3, <2>2 DEF Tracked
  <2>3. threads \subseteq Tids
    BY DEF TypeOK, FieldsTypeOK
  <2> QED BY <1>1, <2>1, <2>2, <2>3 DEF Tracked
<1>5. (is_running' <=> is_running) /\ (OverGone => OverGone')
  BY <1>1, <1>3 DEF OverGone, is_running
<1>6. FocusTaken => FocusTaken'
  BY <1>1, <1>3 DEF FocusTaken, FocusBorn
<1> QED BY <1>2, <1>3, <1>4, <1>5, <1>6

(* So does a Ctrl-C.                                                       *)
LEMMA ForwarderKeepsForks ==
    ASSUME ForksOnly, ForkInv, Forwarder \/ UNCHANGED vars PROVE ParentsFirst' /\ ByMode'
<1> USE DEF ForkInv, AttachInv
<1>1. UNCHANGED <<run, report, fields, mode, reaps>>
  BY DEF Forwarder, ctrl_c, forward_sigint, vars, kernelVars, control
<1>2. Reaps => Reaps'
  <2>1. Spent' = Spent
    BY <1>1, StillKeepsForks DEF Spent
  <2> QED BY <1>1, <2>1, StillKeepsForks DEF Reaps
<1>3. mode = "start" /\ StartsAlone => StartsAlone'
  <2>1. UNCHANGED <<threads, processes, pid, current_tid>>
    BY <1>1 DEF fields
  <2>2. CASE Forwarder
    <3>1. NoTid \notin Tids
      BY TraceesAssumption
    <3>2. mode = "start" => forwarder' \in {forwarder, NoTid}
      BY <2>2, ForwarderSignals DEF ForksOnly
    <3>3. \A t \in Tids : mode = "start" /\ forwarder # t => sigs'[t] = sigs[t]
      BY <2>2, ForwarderSignals DEF ForksOnly
    <3> QED BY <1>1, <2>1, <3>1, <3>2, <3>3, StillKeepsForks DEF StartsAlone
  <2>3. CASE UNCHANGED vars
    BY <1>1, <2>1, <2>3, StillKeepsForks DEF StartsAlone, vars, kernelVars
  <2> QED BY <2>2, <2>3
<1>4. FocusBorn => FocusBorn'
  BY <1>1, FocusStaysBorn DEF Next
<1> QED BY <1>1, <1>2, <1>3, <1>4, StillKeepsForks DEF ByMode

-----------------------------------------------------------------------------
(* The commands.                                                           *)

(* Resuming a known task whose stop has been waited for.                   *)
LEMMA ContinueTracks ==
    ASSUME ForkInv, Tracked, OverGone, FocusTaken, Continues
    PROVE  is_running' /\ Tracked' /\ ParentsFirst'
<1> DEFINE t == current_tid
<1> USE DEF ForkInv, AttachInv, TypeOK, KernelTypeOK
<1>0. /\ threads \subseteq Tids
      /\ UNCHANGED <<threads, processes, thread_ids, pid, exited>>
  BY Numbered DEF Continues, fields
<1>1. t \in Tids /\ Stopped(t) /\ report[t] = Quiet
  BY DEF Continues, Focused, StoppedThread, FocusTaken, FieldsTypeOK
<1>2. is_running
  BY <1>1 DEF OverGone, Alive
<1>3. t \in threads
  <2>1. report[t] # Report("initial")
    BY <1>1 DEF Quiet, Report
  <2> QED BY <1>1, <2>1 DEF Tracked, Alive
<1>4. PICK how \in Resumptions : run' = [run EXCEPT ![t] = how]
                                 /\ report' = [report EXCEPT ![t] = Quiet]
  BY DEF Continues, Resume
<1>5. \A x \in Tids : report'[x] = report[x] /\ (x # t => run'[x] = run[x])
  BY <1>1, <1>4
<1>6. \A x \in Tids : Alive(x)' => Alive(x)
  BY <1>1, <1>5 DEF Alive, Running, Stopped
<1>7. Tracked'
  BY <1>0, <1>5, <1>6, TrackedKept
<1>8. ParentsFirst'
  BY <1>0, <1>5, Numbered, ParentsKept
<1> QED BY <1>0, <1>2, <1>7, <1>8 DEF is_running

(* The commands keep the invariant.                                        *)
LEMMA CommandKeepsForks ==
    ASSUME ForksOnly, ForkInv, Command PROVE ParentsFirst' /\ ByMode'
<1> USE DEF ForkInv, AttachInv, TypeOK, KernelTypeOK
<1>0. mode = "prompt" /\ Tracked /\ OverGone /\ FocusTaken /\ NoTid \notin Tids
  BY CommandForks, TraceesAssumption DEF ByMode, KernelForks
<1>1. CASE Refuses
  BY <1>0, <1>1, StillKeepsForks DEF Refuses, ByMode
<1>2. CASE Continues
  <2>1. FocusBorn'
    BY <1>0, <1>2, FocusStaysBorn DEF Continues, FocusTaken, Next
  <2> QED BY <1>0, <1>2, <2>1, ContinueTracks DEF Continues, ByMode, OverGone
<1>3. CASE Kills
  <2> DEFINE D == {t \in Tids : \E u \in threads \cup {pid} : t \in Group(u)}
  <2>1. /\ Perish(D, "signaled") /\ mode' = "kill" /\ reaps' = 0 /\ is_running
        /\ UNCHANGED <<thread_ids, pid, exited>>
    BY <1>3 DEF Kills, fields
  <2>2. ASSUME NEW t \in Tids, Running(t) PROVE t \in D
    <3>1. report[t] # Report("initial")
      BY <2>2, WhoReports, KindsOfReports
    <3>2. t \in threads
      BY <1>0, <2>2, <3>1 DEF Tracked, Alive
    <3> QED BY <3>2 DEF Group
  <2>3. \A t \in Tids : ~Running(t)'
    <3>1. run' = [u \in Tids |-> IF u \in D /\ Alive(u) THEN "zombie" ELSE run[u]]
      BY <2>1 DEF Perish
    <3> HIDE DEF D
    <3> QED BY <2>2, <3>1 DEF Running, Alive
  <2>4. ParentsFirst'
    <3>1. report' = [u \in Tids |-> IF u \in D /\ Alive(u) THEN Report("signaled") ELSE report[u]]
      BY <2>1 DEF Perish
    <3> HIDE DEF D
    <3> QED BY <2>1, <3>1, Numbered, ParentsKept, KindsOfReports
  <2>5. Cardinality(Spent') \in Nat
    <3>1. IsFiniteSet(Tids) /\ Spent' \subseteq Tids
      BY DEF ForksOnly, Spent
    <3> QED BY <3>1, FS_Subset, FS_CardinalityType
  <2>6. Reaps'
    BY <2>1, <2>3, <2>5 DEF Reaps, is_running
  <2> QED BY <2>1, <2>4, <2>6 DEF ByMode
<1>4. CASE Clears
  <2>1. /\ mode' = "prompt" /\ UNCHANGED <<run, report>>
        /\ threads' = {} /\ thread_ids' = NoNumbers /\ current_tid' = NoTid
    BY <1>4 DEF Clears, Forget, Still
  <2>2. \A t \in Tids : ~Alive(t)'
    BY <1>0, <1>4, <2>1 DEF Clears, OverGone, Alive, Running, Stopped
  <2>3. DOMAIN thread_ids' = {}
    BY <2>1 DEF NoNumbers
  <2>4. ParentsFirst'
    BY <2>3 DEF ParentsFirst
  <2> QED BY <1>0, <2>1, <2>2, <2>4 DEF ByMode, Tracked, OverGone, FocusTaken, FocusBorn
<1>5. CASE Quits
  BY <1>5, StillKeepsForks DEF Quits, Still, ByMode
<1>6. ASSUME NEW c \in Tids, start_forks(c) PROVE ParentsFirst' /\ ByMode'
  <2>1. CASE Forwarder
    BY <2>1, ForwarderKeepsForks
  <2>2. CASE ~Forwarder
    <3>1. forwarder' = forwarder
      BY <2>2, WhoLoads DEF Next
    <3>2. forwarder # c /\ sigs[c] = {}
      BY <1>6 DEF start_forks, KernelForks, TargetsBorn, OwnProcesses
    <3>3. \A t \in Tids : ~Alive(t)
      BY <1>0, <1>6 DEF start_forks, OverGone
    <3>4. run'[c] = "starting" /\ \A t \in Tids : t # c => run'[t] = run[t]
      BY <1>6 DEF start_forks
    <3>5. \A t \in Tids : Alive(t)' => t = c
      BY <3>3, <3>4 DEF Alive, Running, Stopped
    <3>6. StartsAlone'
      BY <1>0, <1>6, <3>1, <3>2, <3>4, <3>5 DEF start_forks, StartsAlone, is_running
    <3>7. ParentsFirst'
      <4>1. DOMAIN thread_ids' = {}
        BY <1>6 DEF start_forks, NoNumbers
      <4> QED BY <4>1 DEF ParentsFirst
    <3> QED BY <1>6, <3>6, <3>7 DEF start_forks, ByMode
  <2> QED BY <2>1, <2>2
<1> QED BY <1>1, <1>2, <1>3, <1>4, <1>5, <1>6, CommandForks DEF KernelForks

-----------------------------------------------------------------------------
(* The waits.                                                              *)

(* What is stopped with an event or a stop but the attach is known.        *)
LEMMA KnownReports ==
    ASSUME ForkInv, Tracked, NEW t \in Tids, report[t].kind \in Stops \cup Births0
    PROVE  Stopped(t) /\ (t \in threads \/ report[t].kind = "initial")
BY KindsOfReports DEF ForkInv, AttachInv, ReportsMatch, Tracked, Alive

(* The wait of `run` ends with the one task known, or with none.           *)
LEMMA StartWaitedForks ==
    ASSUME ForkInv, start_waited PROVE ParentsFirst' /\ ByMode'
<1> USE DEF ForkInv, AttachInv, TypeOK, KernelTypeOK
<1>0. /\ StartsAlone /\ pid \in Tids /\ Consume(pid) /\ report[pid] # Quiet
      /\ mode' = "prompt" /\ UNCHANGED <<pid, exited, current_tid>> /\ NoTid \notin Tids
  BY TraceesAssumption DEF start_waited, Waitable, ByMode, StartsAlone, Return, NobodyLocked
<1>1. /\ report'[pid] = Quiet
      /\ run'[pid] = IF run[pid] = "zombie" THEN "reaped" ELSE run[pid]
      /\ \A t \in Tids : t # pid => run'[t] = run[t]
  BY <1>0 DEF Consume
<1>2. run[pid] \in {"stopped", "zombie"}
  BY <1>0, WhoReports DEF StartsAlone, Running
<1>3. \A t \in Tids : Alive(t)' => t = pid /\ run[pid] = "stopped"
  BY <1>0, <1>1, <1>2 DEF StartsAlone, Alive, Running, Stopped
<1>4. /\ run[pid] = "stopped" => threads' = {pid} /\ processes' = {pid}
      /\ threads' \subseteq {pid}
  BY <1>0 DEF start_waited, StartsAlone
<1>5. Tracked' /\ OverGone' /\ FocusTaken'
  <2>1. Tracked'
    BY <1>0, <1>3, <1>4 DEF Tracked
  <2>2. OverGone'
    BY <1>0 DEF OverGone, StartsAlone, is_running
  <2>3. FocusTaken'
    BY <1>0, <1>1, <1>2 DEF FocusTaken, FocusBorn, StartsAlone, Running
  <2> QED BY <2>1, <2>2, <2>3
<1>6. ParentsFirst'
  <2>1. \A i \in DOMAIN thread_ids' : thread_ids'[i] = pid
    <3>1. DOMAIN thread_ids = {}
      BY <1>0, Numbered DEF StartsAlone
    <3> QED BY <3>1 DEF start_waited
  <2> QED BY <1>1, <2>1, KindsOfReports DEF ParentsFirst
<1> QED BY <1>0, <1>5, <1>6 DEF ByMode

(* What wait_and_report resumes, it has reported.                          *)
LEMMA ResumedInWait ==
    ASSUME ForkInv, NEW t \in Tids, resume_or_hold(t), Stopped(t)
    PROVE  /\ report'[t] = Quiet
           /\ \A x \in Tids : x # t => report'[x] = report[x] /\ run'[x] = run[x]
           /\ \A x \in Tids : Alive(x)' => Alive(x)
<1> USE DEF ForkInv, AttachInv, TypeOK, KernelTypeOK
<1>1. Resume(t, "running")
  BY DEF resume_or_hold, NobodyLocked, TryResume
<1>2. /\ report'[t] = Quiet
      /\ \A x \in Tids : x # t => report'[x] = report[x] /\ run'[x] = run[x]
  BY <1>1 DEF Resume
<1> QED BY <1>2 DEF Alive, Running, Stopped

(* A birth is reported: the child enters both tables.                      *)
LEMMA EventForks ==
    ASSUME ForkInv, NEW t \in Tids, wait_event(t) PROVE ParentsFirst' /\ Tracked'
<1> DEFINE c == report[t].child
<1> USE DEF ForkInv, AttachInv
<1>0. /\ Tracked /\ threads \subseteq Tids /\ processes \subseteq threads
      /\ report[t].kind \in Births0 /\ c \in Tids
  BY Numbered, EventChild DEF wait_event, InWait, ByMode, Births0, TypeOK
<1>1. Stopped(t) /\ t \in threads /\ Alive(t)
  BY <1>0, KnownReports DEF Births0, Alive
<1>2. /\ report'[t] = Quiet
      /\ \A x \in Tids : x # t => report'[x] = report[x] /\ run'[x] = run[x]
      /\ \A x \in Tids : Alive(x)' => Alive(x)
  BY <1>1, ResumedInWait DEF wait_event
<1>3. /\ threads' = threads \cup {c}
      /\ processes' = IF report[t].kind = "fork" THEN processes \cup {c} ELSE processes
  BY DEF wait_event, register_process, register_thread, Enter, tables
<1>4. \A u, x : report'[u] = Event("fork", x) => u # t
  BY <1>2, KindsOfReports
<1>5. Tracked'
  <2>1. \A u \in threads, x \in Tids : report[u] = Event("fork", x) =>
            \/ u \in threads' /\ report'[u] = report[u]
            \/ x \in threads' /\ x \in processes'
    <3>1. ASSUME NEW x, report[t] = Event("fork", x) PROVE x \in threads' /\ x \in processes'
      BY <1>3, <3>1, KindsOfReports
    <3> QED BY <1>0, <1>2, <1>3, <3>1
  <2> QED BY <1>0, <1>1, <1>2, <1>3, <2>1, TrackedKept
<1>6. ParentsFirst'
  <2>1. CASE c \in threads
    <3>1. thread_ids' = thread_ids
      BY <2>1 DEF wait_event, register_thread, tables
    <3> QED BY <1>0, <1>2, <1>4, <3>1, Numbered, ParentsKept
  <2>2. CASE c \notin threads
    <3>1. thread_ids' = [i \in DOMAIN thread_ids \cup {next_thread_id} |->
                            IF i = next_thread_id THEN c ELSE thread_ids[i]]
      BY <2>2 DEF wait_event, register_thread, Enter
    <3>2. \A x : report[c] # Event("fork", x)
      BY <1>0, <2>2, KnownReports, KindsOfReports DEF Births0
    <3>3. \A x : report'[c] # Event("fork", x)
      BY <1>0, <1>2, <1>4, <3>2
    <3>4. \A u \in threads : \A x : report'[u] = Event("fork", x) => report'[u] = report[u]
      BY <1>0, <1>2, <1>4
    <3> HIDE DEF c
    <3> QED BY <1>0, <2>2, <3>1, <3>3, <3>4, ParentsEnter DEF TypeOK, ThreadTable
  <2> QED BY <2>1, <2>2
<1> QED BY <1>5, <1>6

(* A stop of the attach is skipped, and its thread is known from then on.  *)
LEMMA InitialStopForks ==
    ASSUME ForkInv, NEW t \in Tids, wait_initial_stop(t) PROVE ParentsFirst' /\ Tracked'
<1> USE DEF ForkInv, AttachInv
<1>0. /\ Tracked /\ threads \subseteq Tids /\ processes \subseteq threads /\ report[t].kind \in Stops
  BY Numbered DEF wait_initial_stop, InWait, ByMode
<1>1. Stopped(t)
  BY <1>0, KnownReports
<1>2. /\ report'[t] = Quiet
      /\ \A x \in Tids : x # t => report'[x] = report[x] /\ run'[x] = run[x]
      /\ \A x \in Tids : Alive(x)' => Alive(x)
  BY <1>1, ResumedInWait DEF wait_initial_stop
<1>3. threads' = threads \cup {t} /\ processes' = processes
  BY DEF wait_initial_stop, Enter
<1>4. \A u, x : report'[u] = Event("fork", x) \/ report[u] = Event("fork", x) => u # t
  BY <1>0, <1>2, KindsOfReports DEF Stops
<1>5. Tracked'
  BY <1>0, <1>1, <1>2, <1>3, <1>4, TrackedKept DEF Alive
<1>6. ParentsFirst'
  <2>1. CASE t \in threads
    <3>1. thread_ids' = thread_ids
      BY <2>1 DEF wait_initial_stop
    <3> QED BY <1>0, <1>2, <1>4, <3>1, Numbered, ParentsKept
  <2>2. CASE t \notin threads
    <3>1. thread_ids' = [i \in DOMAIN thread_ids \cup {next_thread_id} |->
                            IF i = next_thread_id THEN t ELSE thread_ids[i]]
      BY <2>2 DEF wait_initial_stop, Enter
    <3>2. \A u \in threads : \A x : report'[u] = Event("fork", x) => report'[u] = report[u]
      BY <1>0, <1>2, <1>4
    <3> QED BY <1>0, <1>4, <2>2, <3>1, <3>2, ParentsEnter DEF TypeOK, ThreadTable
  <2> QED BY <2>1, <2>2
<1> QED BY <1>5, <1>6

(* A stop is shown, and its thread has the focus.                          *)
LEMMA StoppedForks ==
    ASSUME ForkInv, NEW t \in Tids, wait_stopped(t) PROVE ParentsFirst' /\ Tracked' /\ FocusTaken'
<1> USE DEF ForkInv, AttachInv, TypeOK, KernelTypeOK
<1>0. /\ Tracked /\ threads \subseteq Tids /\ report[t].kind \in Stops
      /\ UNCHANGED <<threads, thread_ids, processes>>
  BY Numbered DEF wait_stopped, InWait, ByMode, tables
<1>1. Stopped(t) /\ current_tid' = t
  BY <1>0, KnownReports DEF wait_stopped
<1>2. /\ report'[t] = Quiet
      /\ \A x \in Tids : run'[x] = run[x] /\ (x # t => report'[x] = report[x])
  BY <1>1 DEF wait_stopped, Consume, Stopped
<1>3. \A u, x : report'[u] = Event("fork", x) \/ report[u] = Event("fork", x) => u # t
  BY <1>0, <1>2, KindsOfReports DEF Stops
<1>4. \A x \in Tids : Alive(x)' => Alive(x)
  BY <1>2 DEF Alive, Running, Stopped
<1>5. t \in threads
  BY DEF wait_stopped, Skips
<1>6. Tracked'
  BY <1>0, <1>2, <1>3, <1>4, <1>5, TrackedKept
<1>7. ParentsFirst'
  BY <1>0, <1>2, <1>3, Numbered, ParentsKept
<1>8. FocusTaken'
  BY <1>1, <1>2 DEF FocusTaken, FocusBorn, Stopped, Running
<1> QED BY <1>6, <1>7, <1>8

(* A death is reported.  If it was the last one known, then nobody is left *)
(* alive: a living task would mean a known living process.                 *)
LEMMA ExitedForks ==
    ASSUME ForksOnly, ForkInv, NEW t \in Tids, wait_exited(t) PROVE ParentsFirst' /\ ByMode'
<1> USE DEF ForkInv, AttachInv, TypeOK, KernelTypeOK
<1>0. /\ Tracked /\ is_running /\ FocusBorn /\ threads \subseteq Tids /\ processes \subseteq threads
      /\ report[t].kind \in Ends /\ NoTid \notin Tids
      /\ threads' = threads \ {t} /\ processes' = processes \ {t}
      /\ thread_ids' = Without(thread_ids, t) /\ pid' = pid
  BY Numbered, TraceesAssumption DEF wait_exited, InWait, ByMode
<1>1. run[t] = "zombie" /\ ~Alive(t)
  BY <1>0 DEF ReportsMatch, Alive, Running, Stopped
<1>2. /\ report'[t] = Quiet /\ run'[t] = "reaped"
      /\ \A x \in Tids : x # t => report'[x] = report[x] /\ run'[x] = run[x]
  BY <1>1 DEF wait_exited, Consume
<1>3. \A u, x : report'[u] = Event("fork", x) \/ report[u] = Event("fork", x) => u # t
  BY <1>0, <1>2, KindsOfReports DEF Ends
<1>4. \A x \in Tids : Alive(x)' <=> Alive(x)
  BY <1>1, <1>2 DEF Alive, Running, Stopped
<1>5. Tracked'
  BY <1>0, <1>1, <1>2, <1>3, <1>4, TrackedKept
<1>6. ParentsFirst'
  <2>1. /\ DOMAIN thread_ids' \subseteq DOMAIN thread_ids
        /\ \A i \in DOMAIN thread_ids' : thread_ids'[i] = thread_ids[i] /\ thread_ids[i] # t
    BY <1>0 DEF Without
  <2> QED BY <1>0, <1>2, <2>1, Numbered, ParentsKept
<1>7. Settle(threads', processes')
  BY <1>0 DEF wait_exited, NobodyLocked
<1>8. FocusBorn'
  <2>1. \A x \in threads : run'[x] # "unborn"
    BY <1>0, <1>2 DEF KnownAreBorn
  <2>2. current_tid' \in {current_tid, NoTid} \cup threads
    BY <1>0 DEF wait_exited
  <2>3. CASE current_tid' = current_tid
    BY <1>0, <1>2, <2>3 DEF FocusBorn
  <2> QED BY <1>0, <2>1, <2>2, <2>3 DEF FocusBorn
<1>9. CASE threads' = {} \/ processes' = {}
  <2>1. mode' = "prompt"
    BY <1>7, <1>9 DEF Settle, Return, NobodyLocked
  <2>2. \A x \in Tids : ~Alive(x)'
    <3>1. ASSUME NEW x \in Tids, Alive(x) PROVE FALSE
      <4>1. PICK p \in processes : Alive(p)
        BY <1>0, <3>1, SomebodyLeads
      <4> QED BY <1>0, <1>1, <1>9, <4>1
    <3> QED BY <1>4, <3>1
  <2>3. OverGone' /\ FocusTaken'
    BY <1>8, <2>2 DEF OverGone, FocusTaken, Alive
  <2> QED BY <1>5, <1>6, <2>1, <2>3 DEF ByMode
<1>10. CASE ~(threads' = {} \/ processes' = {})
  <2>1. mode' = "wait" /\ exited' = exited
    BY <1>7, <1>10 DEF Settle
  <2>2. is_running'
    BY <1>0, <2>1 DEF is_running
  <2> QED BY <1>5, <1>6, <1>8, <2>1, <2>2 DEF ByMode, OverGone
<1> QED BY <1>9, <1>10

(* ECHILD: there is nobody left.                                           *)
LEMMA NoChildForks ==
    ASSUME ForkInv, wait_no_child PROVE ParentsFirst' /\ ByMode'
<1> USE DEF ForkInv, AttachInv
<1>0. /\ mode = "wait" /\ mode' = "prompt" /\ Tracked /\ OverGone /\ FocusBorn
      /\ UNCHANGED <<run, report, fields>>
  BY DEF wait_no_child, Return, NobodyLocked, ByMode, kernelVars
<1>1. \A t \in Tids : ~Alive(t)
  BY DEF wait_no_child, NoTracee, Gone, Alive, Running, Stopped
<1>2. FocusBorn'
  BY <1>0, FocusStaysBorn DEF wait_no_child, Next, Wait
<1>3. FocusTaken'
  BY <1>1, <1>2, StillKeepsForks DEF FocusTaken, Alive, wait_no_child, kernelVars
<1> QED BY <1>0, <1>3, StillKeepsForks DEF ByMode

(* kill() reaps a task, and cannot reap it again.                          *)
LEMMA KillReapsForks ==
    ASSUME ForksOnly, ForkInv, NEW t \in Tids, kill_reaps(t) PROVE ParentsFirst' /\ ByMode'
<1> USE DEF ForkInv, AttachInv, TypeOK, KernelTypeOK
<1>0. /\ Reaps /\ report[t] # Quiet /\ mode' = "kill" /\ reaps' = reaps + 1 /\ Consume(t)
      /\ UNCHANGED <<thread_ids, pid, exited>>
  BY DEF kill_reaps, ByMode, Waitable, fields
<1>1. /\ report'[t] = Quiet
      /\ \A x \in Tids : x # t => report'[x] = report[x]
      /\ \A x \in Tids : Running(x)' => Running(x)
  BY <1>0 DEF Consume, Running
<1>2. ParentsFirst'
  BY <1>0, <1>1, Numbered, ParentsKept, KindsOfReports
<1>3. Spent' = Spent \cup {t} /\ t \notin Spent
  BY <1>0, <1>1 DEF Spent, Reaps
<1>4. IsFiniteSet(Spent)
  BY FS_Subset DEF ForksOnly, Spent
<1>5. Cardinality(Spent') = Cardinality(Spent) + 1 /\ Cardinality(Spent) \in Nat
  BY <1>3, <1>4, FS_AddElement, FS_CardinalityType
<1>6. reaps' <= Cardinality(Spent')
  BY <1>0, <1>5 DEF Reaps, ControlTypeOK
<1> QED BY <1>0, <1>1, <1>2, <1>6 DEF Reaps, ByMode, is_running

(* The loop of kill() ends when nobody is left, not by its bound.          *)
LEMMA KillDoneForks ==
    ASSUME ForksOnly, ForkInv, kill_done PROVE ParentsFirst' /\ ByMode'
<1> USE DEF ForkInv, AttachInv, TypeOK
<1>0. Reaps /\ NoTid \notin Tids
  BY TraceesAssumption DEF kill_done, ByMode
<1>1. Cardinality(Spent) <= Cardinality(Tids) /\ Cardinality(Spent) \in Nat
      /\ Cardinality(Tids) \in Nat
  BY FS_Subset, FS_CardinalityType DEF ForksOnly, Spent
<1>2. reaps # MaxReaps
  BY <1>0, <1>1, SessionAssumption DEF Reaps, ForksOnly, ControlTypeOK
<1>3. \A t \in Tids : ~Alive(t)
  BY <1>2 DEF kill_done, reaping_over, NoTracee, Gone, Alive, Running, Stopped
<1>4. \A t \in Tids : ~Alive(t)'
  BY <1>3 DEF kill_done, kernelVars, Alive, Running, Stopped
<1>5. /\ mode' \in {"prompt", "quit"}
      /\ threads' = {} /\ current_tid' = NoTid /\ thread_ids' = NoNumbers
  BY DEF kill_done, Forget, Leave, Return, NobodyLocked
<1>6. ParentsFirst'
  <2>1. DOMAIN thread_ids' = {}
    BY <1>5 DEF NoNumbers
  <2> QED BY <2>1 DEF ParentsFirst
<1> QED BY <1>0, <1>4, <1>5, <1>6 DEF ByMode, Tracked, OverGone, FocusTaken, FocusBorn

(* The waits keep the invariant.                                           *)
LEMMA WaitKeepsForks ==
    ASSUME ForksOnly, ForkInv, Wait PROVE ParentsFirst' /\ ByMode'
<1> USE DEF ForkInv, AttachInv
<1>1. ASSUME NEW t \in Tids, wait_event(t) \/ wait_initial_stop(t) PROVE ParentsFirst' /\ ByMode'
  <2>1. /\ mode = "wait" /\ mode' = "wait" /\ is_running' /\ current_tid' = current_tid /\ FocusBorn
    BY <1>1 DEF wait_event, wait_initial_stop, InWait, ByMode, control, is_running
  <2>2. FocusBorn'
    BY <2>1, NextKeepsTasks DEF TasksKept, FocusBorn, Next
  <2> QED BY <1>1, <2>1, <2>2, EventForks, InitialStopForks DEF ByMode, OverGone
<1>2. ASSUME NEW t \in Tids, wait_stopped(t) PROVE ParentsFirst' /\ ByMode'
  <2>1. /\ mode = "wait" /\ is_running /\ mode' = "prompt" /\ UNCHANGED <<pid, exited>>
    BY <1>2 DEF wait_stopped, InWait, ByMode, Return, NobodyLocked
  <2> QED BY <1>2, <2>1, StoppedForks DEF ByMode, OverGone, is_running
<1> QED BY <1>1, <1>2, StartWaitedForks, ExitedForks, NoChildForks, KillReapsForks, KillDoneForks,
           WaitForks

-----------------------------------------------------------------------------
(* The invariant holds at the start and is inductive.                      *)
LEMMA ForkInit == Init => ForkInv
<1> SUFFICES ASSUME Init PROVE ForkInv
  OBVIOUS
<1>0. NoTid \notin Tids
  BY TraceesAssumption
<1>1. ReportsMatch /\ KnownAreBorn /\ AttachStopAccounted
  BY DEF Init, KernelInit, ReportsMatch, KnownAreBorn, AttachStopAccounted, Quiet, Stops, Ends,
         Births0
<1>2. NobodyLocked /\ KernelForks
  BY <1>0 DEF Init, KernelInit, NobodyLocked, NoApply, KernelForks, OwnProcesses, NoBreakpoints,
              TargetsBorn
<1>3. ThreadTable /\ ParentsFirst
  <2>1. DOMAIN thread_ids = {}
    BY DEF Init, NoNumbers
  <2> QED BY <2>1 DEF Init, ThreadTable, Injective, TidsOf, ParentsFirst
<1>4. ByMode
  BY <1>0 DEF Init, KernelInit, ByMode, Tracked, OverGone, FocusTaken, FocusBorn, Alive, Running,
              Stopped
<1> QED BY <1>1, <1>2, <1>3, <1>4, InitType DEF ForkInv, AttachInv

LEMMA ForkNext ==
    ASSUME ForksOnly PROVE ForkInv /\ [Next]_vars => ForkInv'
<1> SUFFICES ASSUME ForkInv, [Next]_vars PROVE ForkInv'
  OBVIOUS
<1>1. AttachInv' /\ NobodyLocked' /\ ThreadTable'
  BY AttachNext, NobodyLockedNext, TableNext DEF ForkInv, AttachInv, ForksOnly
<1>2. KernelForks'
  BY KernelForksNext
<1>3. ParentsFirst' /\ ByMode'
  BY CommandKeepsForks, WaitKeepsForks, ProgramKeepsForks, ForwarderKeepsForks DEF Next
<1> QED BY <1>1, <1>2, <1>3 DEF ForkInv

(* Of a program that only forks, a session that is over leaves no task     *)
(* behind: not one whose birth or attach stop was still to be reported     *)
(* when the last known process died, and not one that kill() has failed to *)
(* reap.                                                                   *)
THEOREM OverIsGone ==
    ASSUME ForksOnly PROVE Spec => []OverMeansGone
<1>1. ForkInv => OverMeansGone
  <2> SUFFICES ASSUME ForkInv, exited, mode # "quit" PROVE \A t \in Tids : ~Alive(t)
    BY DEF OverMeansGone
  <2>1. ~is_running
    BY DEF is_running
  <2> QED BY <2>1 DEF ForkInv, ByMode, OverGone, StartsAlone, Reaps
<1> QED BY <1>1, ForkInit, ForkNext, PTL DEF Spec

(* And every living task that is known is known as a process, so that its  *)
(* breakpoints are installed and deleted, unless the event of its birth is *)
(* still to come.                                                          *)
THEOREM LeadersTracked ==
    ASSUME ForksOnly PROVE Spec => []LeadersAreProcesses
<1>1. ForkInv => LeadersAreProcesses
  BY Numbered DEF ForkInv, AttachInv, ByMode, Tracked, Announced, LeadersAreProcesses
<1> QED BY <1>1, ForkInit, ForkNext, PTL DEF Spec
=============================================================================
