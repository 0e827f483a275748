--------------------------- MODULE SessionProofs ---------------------------
(***************************************************************************)
(* What holds of Session for every set of tids, of commands and of bounds: *)
(* the types; the table of `info threads` and the stops of the automatic   *)
(* attach; and, without `thread apply all` (which moves the focus from     *)
(* thread to thread), what `lock` promises, that an int3 is never skipped, *)
(* that the forwarder's SIGINT has a process to go to, that what tdb waits *)
(* for can come, and that nobody at all is resumed past an int3.           *)
(***************************************************************************)
EXTENDS Session, TLAPS

(* The reports waitpid may give are closed under the constructors.         *)
LEMMA ReportsClosed ==
    /\ Quiet \in Reports
    /\ \A k \in Stops \cup Ends : Report(k) \in Reports
    /\ \A k \in Births0, c \in Tids : Event(k, c) \in Reports
BY DEF Reports

(* ptrace and waitpid keep the kernel's two tables well typed.             *)
LEMMA ResumeType ==
    ASSUME KernelTypeOK, NEW t \in Tids, NEW how \in RunStates, Resume(t, how)
    PROVE  run' \in [Tids -> RunStates] /\ report' \in [Tids -> Reports]
BY ReportsClosed DEF KernelTypeOK, Resume

(* waitpid, whatever it consumes.                                          *)
LEMMA ConsumeType ==
    ASSUME KernelTypeOK, NEW t \in Tids, Consume(t)
    PROVE  run' \in [Tids -> RunStates] /\ report' \in [Tids -> Reports]
BY ReportsClosed DEF KernelTypeOK, Consume, RunStates

(* A stop with a report of its own.                                        *)
LEMMA StopType ==
    ASSUME KernelTypeOK, NEW t \in Tids, NEW r \in Reports, Stop(t, r)
    PROVE  run' \in [Tids -> RunStates] /\ report' \in [Tids -> Reports]
BY DEF KernelTypeOK, Stop, RunStates

(* The death of any set of tasks.                                          *)
LEMMA PerishType ==
    ASSUME KernelTypeOK, NEW dying, NEW end \in Ends, Perish(dying, end)
    PROVE  /\ run' \in [Tids -> RunStates] /\ report' \in [Tids -> Reports]
           /\ rip' \in [Tids -> {"off", "at", "past"}]
BY ReportsClosed DEF KernelTypeOK, Perish, RunStates

(* A resumption whose failure is ignored.                                  *)
LEMMA TryResumeType ==
    ASSUME KernelTypeOK, NEW t \in Tids, TryResume(t)
    PROVE  run' \in [Tids -> RunStates] /\ report' \in [Tids -> Reports]
<1>1. CASE Stopped(t)
  BY <1>1, ResumeType DEF TryResume, RunStates
<1>2. CASE ~Stopped(t)
  BY <1>2 DEF TryResume, KernelTypeOK
<1> QED BY <1>1, <1>2

(* The rip fix-up keeps rip well typed.                                    *)
LEMMA FixupType ==
    ASSUME KernelTypeOK, NEW t \in Tids, fixup_breakpoint_rip(t)
    PROVE  rip' \in [Tids -> {"off", "at", "past"}]
BY DEF KernelTypeOK, fixup_breakpoint_rip

(* Every step of the program keeps the kernel's state well typed.          *)
LEMMA ProgramStepType ==
    ASSUME KernelTypeOK, NEW t \in Tids, ProgramStep(t)
    PROVE  KernelTypeOK'
<1> USE DEF KernelTypeOK
<1>1. CASE Exec(t)
  BY <1>1, StopType, ReportsClosed DEF Exec, Stops
<1>2. CASE ExecFails(t)
  BY <1>2, PerishType DEF ExecFails, Ends
<1>3. CASE HitBreakpoint(t)
  BY <1>3, StopType, ReportsClosed DEF HitBreakpoint, Stops
<1>4. CASE StepTrap(t)
  BY <1>4, StopType, ReportsClosed DEF StepTrap, Stops
<1>5. ASSUME NEW c \in Tids, NEW kind \in Births, GiveBirth(t, c, kind)
      PROVE  KernelTypeOK'
  <2>1. Event(kind, c) \in Reports /\ Report("initial") \in Reports
    BY TraceesAssumption, ReportsClosed DEF Births0, Stops
  <2> QED BY <1>5, <2>1 DEF GiveBirth, RunStates
<1>6. ASSUME NEW s \in {"SIGSTOP", "SIGINT"}, TakeSignal(t, s)
      PROVE  KernelTypeOK'
  <2>1. Report(s) \in Reports
    BY ReportsClosed DEF Stops
  <2>2. run' \in [Tids -> RunStates] /\ report' \in [Tids -> Reports]
    BY <1>6, <2>1, StopType DEF TakeSignal
  <2> QED BY <1>6, <2>2 DEF TakeSignal
<1>7. CASE ThreadExit(t)
  BY <1>7, PerishType DEF ThreadExit, Ends
<1>8. ASSUME NEW end \in Deaths, GroupExit(t, end)
      PROVE  KernelTypeOK'
  BY <1>8, PerishType DEF GroupExit
<1> QED BY <1>1, <1>2, <1>3, <1>4, <1>5, <1>6, <1>7, <1>8 DEF ProgramStep

-----------------------------------------------------------------------------
(* The commands and the branches of wait_and_report, type by type.         *)

(* A command that returns goes back to whoever gave it.                    *)
LEMMA ReturnType ==
    ASSUME ControlTypeOK, Return
    PROVE  mode' \in {"prompt", "apply"} /\ after' \in Continuations /\ apply' = apply
           /\ (mode' = "apply" => apply.on)
BY DEF Return, ControlTypeOK, Continuations

(* A command that is refused changes nothing but the mode.                 *)
LEMMA RejectType ==
    ASSUME TypeOK, Reject, UNCHANGED <<forwarder, runs>>
    PROVE  TypeOK'
<1>1. mode' \in {"prompt", "apply"} /\ after' \in Continuations /\ apply' = apply
      /\ (mode' = "apply" => apply.on)
  BY ReturnType DEF TypeOK, Reject
<1> QED
  BY <1>1 DEF Reject, TypeOK, KernelTypeOK, FieldsTypeOK, ControlTypeOK, WaitsForTask,
              kernelVars, fields, nested, Modes

(* A cleared thread_ids has no number.                                     *)
LEMMA NoNumbersType ==
    DOMAIN NoNumbers = {} /\ NoNumbers \in [{} -> Tids]
BY DEF NoNumbers

(* run, up to the fork or the refusal.                                     *)
LEMMA StartType ==
    ASSUME TypeOK, start PROVE TypeOK'
<1>1. CASE is_running /\ Reject /\ UNCHANGED runs
  BY <1>1, RejectType DEF start
<1>2. ASSUME NEW c \in Tids, start_forks(c) PROVE TypeOK'
  <2>1. KernelTypeOK'
    BY <1>2 DEF start_forks, TypeOK, KernelTypeOK, RunStates
  <2>2. FieldsTypeOK'
    <3>1. DOMAIN thread_ids' = {} /\ thread_ids' \in [{} -> Tids] /\ next_thread_id' = 1
      BY <1>2, NoNumbersType DEF start_forks
    <3>2. /\ next_thread_id' \in Nat \ {0}
          /\ DOMAIN thread_ids' \subseteq 1 .. next_thread_id' - 1
          /\ thread_ids' \in [DOMAIN thread_ids' -> Tids]
      BY <3>1
    <3> QED BY <1>2, <3>2 DEF start_forks, FieldsTypeOK
  <2>3. ControlTypeOK' /\ WaitsForTask'
    BY <1>2, start DEF start_forks, start, TypeOK, ControlTypeOK, WaitsForTask, nested,
                       Modes, Continuations
  <2> QED BY <2>1, <2>2, <2>3 DEF TypeOK
<1> QED BY <1>1, <1>2 DEF start

(* The waitpid of run, with or without the exec stop.                      *)
LEMMA StartWaitedType ==
    ASSUME TypeOK, start_waited PROVE TypeOK'
<1>1. pid \in Tids
  BY DEF TypeOK, WaitsForTask, start_waited
<1>2. KernelTypeOK'
  BY <1>1, ConsumeType DEF TypeOK, KernelTypeOK, start_waited
<1>3. FieldsTypeOK'
  BY <1>1 DEF TypeOK, FieldsTypeOK, start_waited
<1>4. ControlTypeOK' /\ WaitsForTask'
  BY <1>1, ReturnType DEF TypeOK, ControlTypeOK, WaitsForTask, start_waited, nested, Modes
<1> QED BY <1>2, <1>3, <1>4 DEF TypeOK

(* Where cont, stepi and the step over a breakpoint send the focus.        *)
LEMMA ResumeFocusType ==
    ASSUME KernelTypeOK, ControlTypeOK, current_tid \in Tids, NEW how \in RunStates,
           ResumeFocus(how)
    PROVE  /\ run' \in [Tids -> RunStates] /\ report' \in [Tids -> Reports]
           /\ mode' \in {"prompt", "apply", "wait"} /\ after' \in Continuations
           /\ apply' = apply /\ (mode' = "apply" => apply.on)
<1>1. CASE exited
  BY <1>1, ReturnType DEF ResumeFocus, KernelTypeOK
<1>2. CASE ~exited
  BY <1>2, ResumeType DEF ResumeFocus, Continuations
<1> QED BY <1>1, <1>2

(* continue and stepi, up to their first wait.                             *)
LEMMA ResumeCommandType ==
    ASSUME TypeOK, NEW name \in {"continue", "stepi"}, resume_command(name)
    PROVE  TypeOK'
<1>1. CASE ~Focused /\ Reject
  BY <1>1, RejectType DEF resume_command
<1>2. CASE Focused /\ UNCHANGED <<leader, sigs, rip, fields, nested, reaps>>
  <2>1. current_tid \in Tids
    BY <1>2 DEF Focused, StoppedThread, TypeOK, FieldsTypeOK
  <2>2. HowOf(name) \in RunStates /\ "stepover" \in RunStates
    BY DEF HowOf, RunStates
  <2>3. /\ run' \in [Tids -> RunStates] /\ report' \in [Tids -> Reports]
        /\ mode' \in {"prompt", "apply", "wait", "stepover"} /\ after' \in Continuations
        /\ apply' = apply /\ (mode' = "apply" => apply.on)
    <3>1. CASE rip[current_tid] = "at"
      BY <1>2, <2>1, <2>2, <3>1, ResumeType DEF resume_command, TypeOK, Continuations, Focused
    <3>2. CASE rip[current_tid] # "at"
      BY <1>2, <2>1, <2>2, <3>2, ResumeFocusType DEF resume_command, TypeOK, Focused
    <3> QED BY <3>1, <3>2
  <2>4. KernelTypeOK'
    BY <1>2, <2>3 DEF TypeOK, KernelTypeOK
  <2>5. FieldsTypeOK'
    BY <1>2 DEF TypeOK, FieldsTypeOK, fields
  <2>6. ControlTypeOK' /\ WaitsForTask'
    BY <1>2, <2>1, <2>3 DEF resume_command, TypeOK, ControlTypeOK, WaitsForTask, fields,
                            nested, Modes
  <2> QED BY <2>4, <2>5, <2>6 DEF TypeOK
<1> QED BY <1>1, <1>2 DEF resume_command

(* The wait of the step over a breakpoint.                                 *)
LEMMA StepOverType ==
    ASSUME TypeOK, step_over_current_breakpoint PROVE TypeOK'
<1> DEFINE t == current_tid
<1> USE DEF step_over_current_breakpoint
<1>1. t \in Tids
  BY DEF TypeOK, WaitsForTask
<1>2. HowOf(after) \in RunStates
  BY DEF HowOf, RunStates
<1>3. /\ run' \in [Tids -> RunStates] /\ report' \in [Tids -> Reports]
      /\ mode' \in {"prompt", "apply", "wait"} /\ after' \in Continuations
      /\ apply' = apply /\ (mode' = "apply" => apply.on)
      /\ exited' \in BOOLEAN /\ DEBUGGEE_PID' \in Tids \cup {NoTid}
  <2>1. CASE Consume(t) /\ Return
    BY <1>1, <2>1, ConsumeType, ReturnType DEF TypeOK, FieldsTypeOK, mark_exited
  <2>2. CASE ResumeFocus(HowOf(after)) /\ UNCHANGED <<exited, DEBUGGEE_PID>>
    BY <1>1, <1>2, <2>2, ResumeFocusType DEF TypeOK, FieldsTypeOK
  <2> QED BY <2>1, <2>2
<1>4. KernelTypeOK'
  BY <1>3 DEF TypeOK, KernelTypeOK
<1>5. FieldsTypeOK'
  BY <1>3 DEF TypeOK, FieldsTypeOK, tables
<1>6. ControlTypeOK' /\ WaitsForTask'
  BY <1>3 DEF TypeOK, ControlTypeOK, WaitsForTask, nested, Modes
<1> QED BY <1>4, <1>5, <1>6 DEF TypeOK

(* single_step_raw, up to its wait.                                        *)
LEMMA SingleStepType ==
    ASSUME KernelTypeOK, ControlTypeOK, current_tid \in Tids, NEW at, single_step_raw(at)
    PROVE  /\ run' \in [Tids -> RunStates] /\ report' \in [Tids -> Reports]
           /\ mode' = "rawstep" /\ after' \in Continuations /\ apply' = apply
BY ResumeType DEF single_step_raw, RunStates, Continuations

(* step, up to its first wait.                                             *)
LEMMA StepLineType ==
    ASSUME TypeOK, step_line PROVE TypeOK'
<1>1. CASE ~Focused /\ Reject
  BY <1>1, RejectType DEF step_line
<1>2. CASE Focused /\ single_step_raw(rip[current_tid])
           /\ UNCHANGED <<leader, sigs, rip, fields, nested, reaps>>
  <2>1. current_tid \in Tids
    BY <1>2 DEF Focused, StoppedThread, TypeOK, FieldsTypeOK
  <2>2. /\ run' \in [Tids -> RunStates] /\ report' \in [Tids -> Reports]
        /\ mode' = "rawstep" /\ after' \in Continuations /\ apply' = apply
    BY <1>2, <2>1, SingleStepType DEF TypeOK
  <2> QED
    BY <1>2, <2>1, <2>2 DEF step_line, TypeOK, KernelTypeOK, FieldsTypeOK, ControlTypeOK,
                            WaitsForTask, fields, nested, Modes
<1> QED BY <1>1, <1>2 DEF step_line

(* The wait of a single step, and what step makes of it.                   *)
LEMMA ClassifyWaitType ==
    ASSUME TypeOK, classify_wait PROVE TypeOK'
<1> DEFINE t == current_tid
<1> USE DEF classify_wait
<1>1. t \in Tids
  BY DEF TypeOK, WaitsForTask
<1>2. /\ run' \in [Tids -> RunStates] /\ report' \in [Tids -> Reports]
      /\ mode' \in {"prompt", "apply", "rawstep", "frame"} /\ after' \in Continuations
      /\ apply' = apply /\ (mode' = "apply" => apply.on)
  <2>1. CASE Consume(t) /\ Return
    BY <1>1, <2>1, ConsumeType, ReturnType DEF TypeOK
  <2>2. CASE single_step_raw(rip[t])
    BY <1>1, <2>2, SingleStepType DEF TypeOK
  <2>3. CASE Resume(t, "running") /\ mode' = "frame" /\ UNCHANGED <<after, apply>>
    BY <1>1, <2>3, ResumeType DEF TypeOK, ControlTypeOK, RunStates
  <2> QED BY <2>1, <2>2, <2>3
<1>3. rip' \in [Tids -> {"off", "at", "past"}]
  BY <1>1, FixupType DEF TypeOK, KernelTypeOK
<1>4. exited' \in BOOLEAN /\ DEBUGGEE_PID' \in Tids \cup {NoTid}
  BY DEF TypeOK, FieldsTypeOK, mark_exited
<1>5. KernelTypeOK'
  BY <1>2, <1>3 DEF TypeOK, KernelTypeOK
<1>6. FieldsTypeOK'
  BY <1>4 DEF TypeOK, FieldsTypeOK, tables
<1>7. ControlTypeOK' /\ WaitsForTask'
  BY <1>1, <1>2 DEF TypeOK, ControlTypeOK, WaitsForTask, nested, Modes
<1> QED BY <1>5, <1>6, <1>7 DEF TypeOK

(* The wait at the end of a frame without debug information.               *)
LEMMA FinishFrameType ==
    ASSUME TypeOK, finish_undebugged_frame PROVE TypeOK'
<1> DEFINE t == current_tid
<1> USE DEF finish_undebugged_frame
<1>1. t \in Tids /\ rip[t] \in {"off", "at", "past"}
  BY DEF TypeOK, WaitsForTask, KernelTypeOK
<1>2. \/ Consume(t) /\ Return /\ UNCHANGED rip
      \/ \E r \in {"off", "at", "past"} :
             rip' = [rip EXCEPT ![t] = r] /\ single_step_raw(r)
  BY <1>1
<1>3. /\ run' \in [Tids -> RunStates] /\ report' \in [Tids -> Reports]
      /\ mode' \in {"prompt", "apply", "rawstep"} /\ after' \in Continuations
      /\ apply' = apply /\ (mode' = "apply" => apply.on)
  BY <1>1, <1>2, ConsumeType, ReturnType, SingleStepType DEF TypeOK
<1>4. rip' \in [Tids -> {"off", "at", "past"}]
  BY <1>2 DEF TypeOK, KernelTypeOK
<1>5. exited' \in BOOLEAN /\ DEBUGGEE_PID' \in Tids \cup {NoTid}
  BY DEF TypeOK, FieldsTypeOK, mark_exited
<1>6. KernelTypeOK'
  BY <1>3, <1>4 DEF TypeOK, KernelTypeOK
<1>7. FieldsTypeOK'
  BY <1>5 DEF TypeOK, FieldsTypeOK, tables
<1>8. ControlTypeOK' /\ WaitsForTask'
  BY <1>1, <1>3 DEF TypeOK, ControlTypeOK, WaitsForTask, nested, Modes
<1> QED BY <1>6, <1>7, <1>8 DEF TypeOK

(* thread <n>.                                                             *)
LEMMA SwitchThreadType ==
    ASSUME TypeOK, NEW n, switch_thread(n) PROVE TypeOK'
<1> DEFINE t == resolve_thread_id(n)
<1>1. CASE ~(StoppedThread(t) /\ locked_tid \in {NoTid, t}) /\ Reject
  BY <1>1, RejectType DEF switch_thread
<1>2. CASE StoppedThread(t) /\ locked_tid \in {NoTid, t}
  <2>1. t \in Tids
    BY <1>2 DEF switch_thread, StoppedThread, resolve_thread_id, TypeOK, FieldsTypeOK
  <2>2. /\ mode' \in {"prompt", "apply"} /\ after' \in Continuations
        /\ apply' = apply /\ (mode' = "apply" => apply.on)
    BY <1>2, ReturnType DEF switch_thread, TypeOK
  <2>3. rip' \in [Tids -> {"off", "at", "past"}]
    BY <1>2, <2>1, FixupType DEF switch_thread, TypeOK
  <2>4. KernelTypeOK'
    BY <1>2, <2>3 DEF switch_thread, TypeOK, KernelTypeOK
  <2>5. FieldsTypeOK'
    BY <1>2, <2>1 DEF switch_thread, TypeOK, FieldsTypeOK, tables
  <2>6. ControlTypeOK' /\ WaitsForTask'
    BY <1>2, <2>2 DEF switch_thread, TypeOK, ControlTypeOK, WaitsForTask, nested, Modes
  <2> QED BY <2>4, <2>5, <2>6 DEF TypeOK
<1> QED BY <1>1, <1>2 DEF switch_thread

(* lock <n>.                                                               *)
LEMMA LockThreadType ==
    ASSUME TypeOK, NEW n, lock_thread(n) PROVE TypeOK'
<1> DEFINE t == resolve_thread_id(n)
<1>1. CASE ~StoppedThread(t) /\ Reject
  BY <1>1, RejectType DEF lock_thread
<1>2. CASE StoppedThread(t)
  <2>1. t \in Tids
    BY <1>2 DEF lock_thread, StoppedThread, resolve_thread_id, TypeOK, FieldsTypeOK
  <2>2. /\ mode' \in {"prompt", "apply"} /\ after' \in Continuations
        /\ apply' = apply /\ (mode' = "apply" => apply.on)
    BY <1>2, ReturnType DEF lock_thread, TypeOK
  <2>3. rip' \in [Tids -> {"off", "at", "past"}]
    BY <1>2, <2>1, FixupType DEF lock_thread, TypeOK
  <2>4. sigs' \in [Tids -> SUBSET {"SIGSTOP", "SIGINT"}]
    BY <1>2 DEF lock_thread, TypeOK, KernelTypeOK
  <2>5. KernelTypeOK'
    BY <1>2, <2>3, <2>4 DEF lock_thread, TypeOK, KernelTypeOK
  <2>6. FieldsTypeOK'
    BY <1>2, <2>1 DEF lock_thread, TypeOK, FieldsTypeOK, tables
  <2>7. ControlTypeOK' /\ WaitsForTask'
    BY <1>2, <2>2 DEF lock_thread, TypeOK, ControlTypeOK, WaitsForTask, nested, Modes
  <2> QED BY <2>5, <2>6, <2>7 DEF TypeOK
<1> QED BY <1>1, <1>2 DEF lock_thread

(* unlock, up to the first release.                                        *)
LEMMA UnlockThreadType ==
    ASSUME TypeOK, unlock_thread PROVE TypeOK'
<1>1. CASE Reject
  BY <1>1, RejectType DEF unlock_thread
<1>2. CASE ~Reject
  BY <1>2 DEF unlock_thread, TypeOK, KernelTypeOK, FieldsTypeOK, ControlTypeOK, WaitsForTask,
              kernelVars, tables, Modes, Continuations
<1> QED BY <1>1, <1>2

(* The release of one held thread, up to its step.                         *)
LEMMA ReleaseHeldThreadType ==
    ASSUME TypeOK, NEW t \in Tids, release_held_thread(t) PROVE TypeOK'
<1> USE DEF release_held_thread
<1>1. run' \in [Tids -> RunStates] /\ report' \in [Tids -> Reports]
  BY ResumeType, TryResumeType DEF TypeOK, RunStates
<1>2. rip' \in [Tids -> {"off", "at", "past"}]
  BY FixupType DEF TypeOK, KernelTypeOK
<1>3. KernelTypeOK'
  BY <1>1, <1>2 DEF TypeOK, KernelTypeOK
<1>4. FieldsTypeOK' /\ WaitsForTask'
  BY DEF TypeOK, FieldsTypeOK, WaitsForTask, fields
<1>5. ControlTypeOK'
  BY DEF TypeOK, ControlTypeOK
<1> QED BY <1>3, <1>4, <1>5 DEF TypeOK

(* The wait of a release.                                                  *)
LEMMA ReleaseWaitedType ==
    ASSUME TypeOK, release_waited PROVE TypeOK'
<1> USE DEF release_waited
<1>1. waiting \in Tids
  BY DEF TypeOK, ControlTypeOK
<1>2. run' \in [Tids -> RunStates] /\ report' \in [Tids -> Reports]
  BY <1>1, ResumeType, ConsumeType DEF TypeOK, RunStates
<1>3. KernelTypeOK'
  BY <1>2 DEF TypeOK, KernelTypeOK
<1>4. FieldsTypeOK' /\ WaitsForTask'
  BY DEF TypeOK, FieldsTypeOK, WaitsForTask, fields
<1>5. ControlTypeOK'
  BY DEF TypeOK, ControlTypeOK
<1> QED BY <1>3, <1>4, <1>5 DEF TypeOK

(* The end of a wait for a death, or of a release.                         *)
LEMMA SettleType ==
    ASSUME FieldsTypeOK, ControlTypeOK, NEW remaining, NEW leaders,
           Settle(remaining, leaders)
    PROVE  /\ mode' \in {"prompt", "apply", "wait"} /\ after' \in Continuations
           /\ apply' = apply /\ (mode' = "apply" => apply.on)
           /\ exited' \in BOOLEAN /\ DEBUGGEE_PID' \in Tids \cup {NoTid}
BY ReturnType DEF Settle, mark_exited, FieldsTypeOK, Continuations

(* The end of the releases.                                                *)
LEMMA ReleasedType ==
    ASSUME TypeOK, released PROVE TypeOK'
<1> USE DEF released
<1>1. /\ mode' \in {"prompt", "apply", "wait"} /\ after' \in Continuations
      /\ apply' = apply /\ (mode' = "apply" => apply.on)
      /\ exited' \in BOOLEAN /\ DEBUGGEE_PID' \in Tids \cup {NoTid}
  <2>1. CASE after = "reaped"
    BY <2>1, SettleType DEF TypeOK
  <2>2. CASE after # "reaped"
    BY <2>2, ReturnType DEF TypeOK, FieldsTypeOK
  <2> QED BY <2>1, <2>2
<1>2. KernelTypeOK'
  BY DEF TypeOK, KernelTypeOK, kernelVars
<1>3. FieldsTypeOK'
  BY <1>1 DEF TypeOK, FieldsTypeOK, tables
<1>4. ControlTypeOK' /\ WaitsForTask'
  BY <1>1 DEF TypeOK, ControlTypeOK, WaitsForTask, nested, Modes
<1> QED BY <1>2, <1>3, <1>4 DEF TypeOK

-----------------------------------------------------------------------------
(* The report of a birth names a tid.                                      *)
LEMMA EventChild ==
    ASSUME KernelTypeOK, NEW t \in Tids, report[t].kind \in {"clone", "fork"}
    PROVE  report[t].child \in Tids /\ report[t] = Event(report[t].kind, report[t].child)
<1>1. report[t] \in Reports
  BY DEF KernelTypeOK
<1> QED BY <1>1 DEF Reports, Quiet, Report, Event, Stops, Ends, Births0

(* register_thread keeps the numbering well typed.                         *)
LEMMA RegisterType ==
    ASSUME FieldsTypeOK, NEW t \in Tids, register_thread(t)
    PROVE  /\ threads' \in SUBSET Tids
           /\ next_thread_id' \in Nat \ {0}
           /\ DOMAIN thread_ids' \subseteq 1 .. next_thread_id' - 1
           /\ thread_ids' \in [DOMAIN thread_ids' -> Tids]
           /\ pending_initial_stop' \in SUBSET Tids
<1>1. CASE t \in threads
  BY <1>1 DEF register_thread, Enter, tables, FieldsTypeOK
<1>2. CASE t \notin threads
  <2>1. DOMAIN thread_ids' = DOMAIN thread_ids \cup {next_thread_id}
    BY <1>2 DEF register_thread, Enter
  <2>2. next_thread_id' = next_thread_id + 1
    BY <1>2 DEF register_thread, Enter
  <2>3. DOMAIN thread_ids' \subseteq 1 .. next_thread_id' - 1
    BY <2>1, <2>2 DEF FieldsTypeOK
  <2>4. thread_ids' \in [DOMAIN thread_ids' -> Tids]
    BY <1>2, <2>1 DEF register_thread, Enter, FieldsTypeOK
  <2> QED BY <1>2, <2>2, <2>3, <2>4 DEF register_thread, Enter, FieldsTypeOK
<1> QED BY <1>1, <1>2

(* resume_or_hold resumes the thread or leaves it stopped.                 *)
LEMMA ResumeOrHoldType ==
    ASSUME KernelTypeOK, NEW t \in Tids, resume_or_hold(t)
    PROVE  run' \in [Tids -> RunStates] /\ report' \in [Tids -> Reports]
BY TryResumeType, ConsumeType DEF resume_or_hold

(* wait_and_report: a birth.                                               *)
LEMMA WaitEventType ==
    ASSUME TypeOK, NEW t \in Tids, wait_event(t) PROVE TypeOK'
<1> DEFINE c == report[t].child
<1> USE DEF wait_event, register_process
<1>1. c \in Tids
  BY EventChild DEF TypeOK
<1>2. KernelTypeOK'
  BY ResumeOrHoldType DEF TypeOK, KernelTypeOK
<1>3. FieldsTypeOK'
  <2>1. processes' \in SUBSET Tids
    BY <1>1 DEF TypeOK, FieldsTypeOK
  <2> QED BY <1>1, <2>1, RegisterType DEF TypeOK, FieldsTypeOK
<1>4. ControlTypeOK' /\ WaitsForTask'
  BY DEF TypeOK, ControlTypeOK, WaitsForTask, control
<1> QED BY <1>2, <1>3, <1>4 DEF TypeOK

(* wait_and_report: the first stop of a thread.                            *)
LEMMA WaitInitialStopType ==
    ASSUME TypeOK, NEW t \in Tids, wait_initial_stop(t) PROVE TypeOK'
<1> USE DEF wait_initial_stop, Enter
<1>1. KernelTypeOK'
  BY ResumeOrHoldType DEF TypeOK, KernelTypeOK
<1>2. FieldsTypeOK'
  <2>1. CASE t \in threads
    BY <2>1 DEF TypeOK, FieldsTypeOK
  <2>2. CASE t \notin threads
    <3>1. DOMAIN thread_ids' = DOMAIN thread_ids \cup {next_thread_id}
      BY <2>2
    <3>2. next_thread_id' = next_thread_id + 1
      BY <2>2
    <3>3. DOMAIN thread_ids' \subseteq 1 .. next_thread_id' - 1
      BY <3>1, <3>2 DEF TypeOK, FieldsTypeOK
    <3>4. thread_ids' \in [DOMAIN thread_ids' -> Tids]
      BY <2>2, <3>1 DEF TypeOK, FieldsTypeOK
    <3> QED BY <2>2, <3>2, <3>3, <3>4 DEF TypeOK, FieldsTypeOK
  <2> QED BY <2>1, <2>2
<1>3. ControlTypeOK' /\ WaitsForTask'
  BY DEF TypeOK, ControlTypeOK, WaitsForTask, control
<1> QED BY <1>1, <1>2, <1>3 DEF TypeOK

(* wait_and_report: the stop of a held thread.                             *)
LEMMA WaitHeldType ==
    ASSUME TypeOK, NEW t \in Tids, wait_held(t) PROVE TypeOK'
BY ConsumeType DEF wait_held, TypeOK, KernelTypeOK, FieldsTypeOK, ControlTypeOK, WaitsForTask,
                   fields, control

(* wait_and_report: a stop that is reported to the user.                   *)
LEMMA WaitStoppedType ==
    ASSUME TypeOK, NEW t \in Tids, wait_stopped(t) PROVE TypeOK'
<1> USE DEF wait_stopped
<1>1. rip' \in [Tids -> {"off", "at", "past"}]
  BY FixupType DEF TypeOK, KernelTypeOK
<1>2. KernelTypeOK'
  BY <1>1, ConsumeType DEF TypeOK, KernelTypeOK
<1>3. FieldsTypeOK'
  BY DEF TypeOK, FieldsTypeOK, tables
<1>4. ControlTypeOK' /\ WaitsForTask'
  BY ReturnType DEF TypeOK, ControlTypeOK, WaitsForTask, nested, Modes
<1> QED BY <1>2, <1>3, <1>4 DEF TypeOK

(* wait_and_report: a death.                                               *)
LEMMA WaitExitedType ==
    ASSUME TypeOK, NEW t \in Tids, wait_exited(t) PROVE TypeOK'
<1> USE DEF wait_exited
<1>1. KernelTypeOK'
  BY ConsumeType DEF TypeOK, KernelTypeOK
<1>2. DOMAIN thread_ids' \subseteq DOMAIN thread_ids /\ thread_ids' \in [DOMAIN thread_ids' -> Tids]
  BY DEF Without, TypeOK, FieldsTypeOK
<1>3. current_tid' \in Tids \cup {NoTid} /\ threads' \in SUBSET Tids /\ processes' \in SUBSET Tids
  BY DEF TypeOK, FieldsTypeOK
<1>4. /\ mode' \in {"prompt", "apply", "wait", "release"} /\ after' \in Continuations
      /\ apply' = apply /\ (mode' = "apply" => apply.on)
      /\ exited' \in BOOLEAN /\ DEBUGGEE_PID' \in Tids \cup {NoTid}
  <2>1. CASE locked_tid = t
    BY <2>1 DEF TypeOK, FieldsTypeOK, Continuations
  <2>2. CASE locked_tid # t
    BY <2>2, SettleType DEF TypeOK
  <2> QED BY <2>1, <2>2
<1>5. locked_tid' \in Tids \cup {NoTid} /\ todo' \in SUBSET Tids
  BY <1>3 DEF TypeOK, FieldsTypeOK, ControlTypeOK
<1>6. FieldsTypeOK'
  BY <1>2, <1>3, <1>4, <1>5 DEF TypeOK, FieldsTypeOK
<1>7. ControlTypeOK' /\ WaitsForTask'
  BY <1>4, <1>5 DEF TypeOK, ControlTypeOK, WaitsForTask, Modes
<1> QED BY <1>1, <1>6, <1>7 DEF TypeOK

(* wait_and_report: no task is left to wait for.                           *)
LEMMA WaitNoChildType ==
    ASSUME TypeOK, wait_no_child PROVE TypeOK'
BY ReturnType DEF wait_no_child, TypeOK, KernelTypeOK, FieldsTypeOK, ControlTypeOK,
                  WaitsForTask, kernelVars, fields, nested, Modes
-----------------------------------------------------------------------------
(* kill, quit and thread apply all.                                        *)

(* What kill() leaves of the session is well typed.                        *)
LEMMA ForgetType ==
    ASSUME FieldsTypeOK, Forget PROVE FieldsTypeOK'
<1>1. DOMAIN thread_ids' = {} /\ thread_ids' \in [{} -> Tids]
  BY NoNumbersType DEF Forget
<1>2. DOMAIN thread_ids' \subseteq 1 .. next_thread_id' - 1
      /\ thread_ids' \in [DOMAIN thread_ids' -> Tids]
  BY <1>1
<1> QED BY <1>2 DEF Forget, FieldsTypeOK, mark_exited

(* kill and quit return to a mode in which nobody waits.                   *)
LEMMA LeaveType ==
    ASSUME ControlTypeOK, NEW name, Leave(name)
    PROVE  mode' \in {"prompt", "apply", "quit"} /\ after' \in Continuations
           /\ apply' = apply /\ (mode' = "apply" => apply.on)
<1>1. CASE name = "quit"
  BY <1>1 DEF Leave, Continuations
<1>2. CASE name # "quit"
  BY <1>2, ReturnType DEF Leave
<1> QED BY <1>1, <1>2

(* kill and quit keep the state well typed.                                *)
LEMMA KillType ==
    ASSUME TypeOK, NEW name \in {"kill", "quit"}, kill(name) PROVE TypeOK'
<1>1. CASE is_running
  <2>1. KernelTypeOK'
    BY <1>1, PerishType DEF kill, TypeOK, KernelTypeOK, Ends
  <2> QED BY <1>1, <2>1 DEF kill, TypeOK, FieldsTypeOK, ControlTypeOK, WaitsForTask, fields,
                            nested, Modes, Continuations
<1>2. CASE ~is_running
  <2>1. FieldsTypeOK'
    <3>1. CASE name = "kill"
      BY <1>2, <3>1, ForgetType DEF kill, TypeOK
    <3>2. CASE name # "kill"
      BY <1>2, <3>2 DEF kill, TypeOK, FieldsTypeOK, fields
    <3> QED BY <3>1, <3>2
  <2>2. /\ mode' \in {"prompt", "apply", "quit"} /\ after' \in Continuations
        /\ apply' = apply /\ (mode' = "apply" => apply.on)
    BY <1>2, LeaveType DEF kill, TypeOK
  <2>3. KernelTypeOK'
    BY <1>2 DEF kill, TypeOK, KernelTypeOK
  <2>4. ControlTypeOK' /\ WaitsForTask'
    BY <1>2, <2>2 DEF kill, TypeOK, ControlTypeOK, WaitsForTask, nested, Modes
  <2> QED BY <2>1, <2>3, <2>4 DEF TypeOK
<1> QED BY <1>1, <1>2

(* A round of kill()'s loop keeps the state well typed.                    *)
LEMMA KillReapsType ==
    ASSUME TypeOK, NEW t \in Tids, kill_reaps(t) PROVE TypeOK'
<1>1. KernelTypeOK'
  BY ConsumeType DEF kill_reaps, TypeOK, KernelTypeOK
<1> QED BY <1>1 DEF kill_reaps, TypeOK, FieldsTypeOK, ControlTypeOK, WaitsForTask, fields,
                    nested, Modes

(* The end of kill() keeps the state well typed.                           *)
LEMMA KillDoneType ==
    ASSUME TypeOK, kill_done PROVE TypeOK'
<1> USE DEF kill_done
<1>1. FieldsTypeOK'
  BY ForgetType DEF TypeOK
<1>2. /\ mode' \in {"prompt", "apply", "quit"} /\ after' \in Continuations
      /\ apply' = apply /\ (mode' = "apply" => apply.on)
  BY LeaveType DEF TypeOK
<1>3. KernelTypeOK'
  BY DEF TypeOK, KernelTypeOK, kernelVars
<1>4. ControlTypeOK' /\ WaitsForTask'
  BY <1>2 DEF TypeOK, ControlTypeOK, WaitsForTask, nested, Modes
<1> QED BY <1>1, <1>3, <1>4 DEF TypeOK

(* The numbers taken down by `thread apply all` are numbers.               *)
LEMMA ThreadApplyAllType ==
    ASSUME TypeOK, NEW cmd \in ApplyCommands, thread_apply_all(cmd) PROVE TypeOK'
<1> USE DEF thread_apply_all
<1>1. DOMAIN thread_ids \in SUBSET Nat
  BY DEF TypeOK, FieldsTypeOK
<1>2. cmd \in CommandNames \X Nat
  BY SessionAssumption
<1>3. ControlTypeOK' /\ WaitsForTask'
  BY <1>1, <1>2 DEF TypeOK, FieldsTypeOK, ControlTypeOK, WaitsForTask, fields, nested, Modes
<1>4. KernelTypeOK' /\ FieldsTypeOK'
  BY DEF TypeOK, KernelTypeOK, FieldsTypeOK, kernelVars, fields
<1> QED BY <1>3, <1>4 DEF TypeOK

(* A round of `thread apply all` keeps the state well typed.               *)
LEMMA FocusThreadForApplyType ==
    ASSUME TypeOK, NEW n \in apply.ids, focus_thread_for_apply(n) PROVE TypeOK'
<1> DEFINE t == resolve_thread_id(n)
<1> USE DEF focus_thread_for_apply
<1>1. rip' \in [Tids -> {"off", "at", "past"}] /\ current_tid' \in Tids \cup {NoTid}
  <2>1. CASE StoppedThread(t)
    <3>1. t \in Tids
      BY <2>1 DEF StoppedThread, resolve_thread_id, TypeOK, FieldsTypeOK
    <3> QED BY <2>1, <3>1, FixupType DEF TypeOK
  <2>2. CASE ~StoppedThread(t)
    BY <2>2 DEF TypeOK, KernelTypeOK, FieldsTypeOK
  <2> QED BY <2>1, <2>2
<1>2. KernelTypeOK'
  BY <1>1 DEF TypeOK, KernelTypeOK
<1>3. FieldsTypeOK'
  BY <1>1 DEF TypeOK, FieldsTypeOK, tables
<1>4. mode' \in {"apply", "dispatch"} /\ apply.on
  BY DEF TypeOK, WaitsForTask
<1>5. ControlTypeOK' /\ WaitsForTask'
  BY <1>4 DEF TypeOK, ControlTypeOK, WaitsForTask, nested, Modes
<1> QED BY <1>2, <1>3, <1>5 DEF TypeOK

(* The end of `thread apply all` keeps the state well typed.               *)
LEMMA RestoreFocusType ==
    ASSUME TypeOK, restore_focus PROVE TypeOK'
<1> USE DEF restore_focus
<1>1. apply.saved \in Tids \cup {NoTid}
  BY DEF TypeOK, ControlTypeOK
<1>2. KernelTypeOK' /\ FieldsTypeOK'
  BY <1>1 DEF TypeOK, KernelTypeOK, FieldsTypeOK, kernelVars, tables
<1>3. <<"none", 0>> \in CommandNames \X Nat
  BY DEF CommandNames
<1>4. ControlTypeOK' /\ WaitsForTask'
  BY <1>3 DEF TypeOK, ControlTypeOK, WaitsForTask, nested, Modes, NoApply
<1> QED BY <1>2, <1>4 DEF TypeOK

(* Ctrl-C and the forwarder thread keep the state well typed.              *)
LEMMA ForwarderType ==
    ASSUME TypeOK, Forwarder PROVE TypeOK'
<1>1. ASSUME NEW terminal, ctrl_c(terminal) PROVE TypeOK'
  BY <1>1 DEF ctrl_c, TypeOK, KernelTypeOK, FieldsTypeOK, ControlTypeOK, WaitsForTask,
              fields, control
<1>2. CASE forward_sigint
  <2>1. sigs' \in [Tids -> SUBSET {"SIGSTOP", "SIGINT"}]
    BY <1>2 DEF forward_sigint, TypeOK, KernelTypeOK
  <2> QED BY <1>2, <2>1 DEF forward_sigint, TypeOK, KernelTypeOK, FieldsTypeOK,
                            ControlTypeOK, WaitsForTask, fields, control
<1> QED BY <1>1, <1>2 DEF Forwarder

-----------------------------------------------------------------------------
(* Init and every step keep the state well typed.                          *)
LEMMA InitType == Init => TypeOK
<1> SUFFICES ASSUME Init PROVE TypeOK
  OBVIOUS
<1>1. KernelTypeOK
  BY ReportsClosed DEF Init, KernelInit, KernelTypeOK, RunStates
<1>2. FieldsTypeOK
  <2>1. DOMAIN thread_ids = {} /\ thread_ids \in [{} -> Tids]
    BY NoNumbersType DEF Init
  <2>2. DOMAIN thread_ids \subseteq 1 .. next_thread_id - 1
    BY <2>1
  <2>3. thread_ids \in [DOMAIN thread_ids -> Tids]
    BY <2>1
  <2>4. /\ pid \in Tids \cup {NoTid} /\ exited \in BOOLEAN
        /\ current_tid \in Tids \cup {NoTid}
        /\ locked_tid \in Tids \cup {NoTid}
        /\ DEBUGGEE_PID \in Tids \cup {NoTid}
    BY DEF Init
  <2>5. threads \in SUBSET Tids /\ pending_initial_stop \in SUBSET Tids
        /\ processes \in SUBSET Tids
    BY DEF Init
  <2>6. next_thread_id \in Nat \ {0}
    BY DEF Init
  <2> QED BY <2>2, <2>3, <2>4, <2>5, <2>6 DEF FieldsTypeOK
<1>3. <<"none", 0>> \in CommandNames \X Nat
  BY DEF CommandNames
<1>4. ControlTypeOK /\ WaitsForTask
  BY <1>3 DEF Init, ControlTypeOK, WaitsForTask, Modes, Continuations, NoApply
<1> QED BY <1>1, <1>2, <1>4 DEF TypeOK

(* The commands typed, or repeated by `thread apply all`.                  *)
LEMMA CommandType ==
    ASSUME TypeOK, Command PROVE TypeOK'
<1>1. CASE start
  BY <1>1, StartType
<1>2. CASE cont \/ stepi
  BY <1>2, ResumeCommandType DEF cont, stepi
<1>3. CASE step_line
  BY <1>3, StepLineType
<1>4. ASSUME NEW n, switch_thread(n) \/ lock_thread(n) PROVE TypeOK'
  BY <1>4, SwitchThreadType, LockThreadType
<1>5. CASE unlock_thread
  BY <1>5, UnlockThreadType
<1>6. CASE kill("kill") \/ kill("quit")
  BY <1>6, KillType
<1>7. ASSUME NEW cmd \in ApplyCommands, thread_apply_all(cmd) PROVE TypeOK'
  BY <1>7, ThreadApplyAllType
<1>8. CASE end_of_input
  BY <1>8 DEF end_of_input, TypeOK, KernelTypeOK, FieldsTypeOK, ControlTypeOK, WaitsForTask,
              kernelVars, fields, nested, Modes
<1> QED BY <1>1, <1>2, <1>3, <1>4, <1>5, <1>6, <1>7, <1>8 DEF Command

(* The ends of the waits and the loops.                                    *)
LEMMA WaitType ==
    ASSUME TypeOK, Wait PROVE TypeOK'
<1>1. CASE start_waited \/ step_over_current_breakpoint
  BY <1>1, StartWaitedType, StepOverType
<1>2. CASE classify_wait \/ finish_undebugged_frame
  BY <1>2, ClassifyWaitType, FinishFrameType
<1>3. ASSUME NEW t \in Tids,
             wait_event(t) \/ wait_initial_stop(t) \/ wait_held(t)
                 \/ wait_stopped(t) \/ wait_exited(t) \/ kill_reaps(t)
      PROVE  TypeOK'
  BY <1>3, WaitEventType, WaitInitialStopType, WaitHeldType, WaitStoppedType,
     WaitExitedType, KillReapsType
<1>4. CASE wait_no_child
  BY <1>4, WaitNoChildType
<1>5. ASSUME NEW t \in Tids, release_held_thread(t) PROVE TypeOK'
  BY <1>5, ReleaseHeldThreadType
<1>6. CASE release_waited \/ released
  BY <1>6, ReleaseWaitedType, ReleasedType
<1>7. CASE kill_done
  BY <1>7, KillDoneType
<1>8. ASSUME NEW n \in apply.ids, focus_thread_for_apply(n) PROVE TypeOK'
  BY <1>8, FocusThreadForApplyType
<1>9. CASE restore_focus
  BY <1>9, RestoreFocusType
<1> QED BY <1>1, <1>2, <1>3, <1>4, <1>5, <1>6, <1>7, <1>8, <1>9 DEF Wait

(* A step of the program leaves tdb's own state alone.                     *)
LEMMA ProgramType ==
    ASSUME TypeOK, Program PROVE TypeOK'
<1>1. KernelTypeOK'
  BY ProgramStepType DEF Program, TypeOK
<1> QED BY <1>1 DEF Program, TypeOK, FieldsTypeOK, ControlTypeOK, WaitsForTask, fields, control

(* Every step, the stuttering one included.                                *)
LEMMA NextType == TypeOK /\ [Next]_vars => TypeOK'
<1> SUFFICES ASSUME TypeOK, [Next]_vars PROVE TypeOK'
  OBVIOUS
<1>1. CASE Command
  BY <1>1, CommandType
<1>2. CASE Wait
  BY <1>2, WaitType
<1>3. CASE Program
  BY <1>3, ProgramType
<1>4. CASE Forwarder
  BY <1>4, ForwarderType
<1>5. CASE UNCHANGED vars
  BY <1>5 DEF vars, kernelVars, fields, control, TypeOK, KernelTypeOK, FieldsTypeOK,
              ControlTypeOK, WaitsForTask
<1> QED BY <1>1, <1>2, <1>3, <1>4, <1>5 DEF Next

(* Every variable of the session and of the kernel keeps its type, and the *)
(* main thread never waits for a task it has no tid of.                    *)
THEOREM TypeCorrect == Spec => []TypeOK
<1>1. Init => TypeOK
  BY InitType
<1>2. TypeOK /\ [Next]_vars => TypeOK'
  BY NextType
<1> QED BY <1>1, <1>2, PTL DEF Spec

-----------------------------------------------------------------------------
(* The tables.                                                             *)

known == <<threads, thread_ids, processes, pending_initial_stop>>

(* Of the commands, only run and kill touch the tables of threads.         *)
LEMMA CommandKnown ==
    ASSUME Command
    PROVE  UNCHANGED known \/ (\E c \in Tids : start_forks(c)) \/ Forget
<1> USE DEF known, Reject, fields, tables
<1>1. CASE start
  BY <1>1 DEF start
<1>2. CASE cont \/ stepi
  BY <1>2 DEF cont, stepi, resume_command
<1>3. CASE step_line
  BY <1>3 DEF step_line
<1>4. ASSUME NEW n, switch_thread(n) \/ lock_thread(n) PROVE UNCHANGED known
  BY <1>4 DEF switch_thread, lock_thread
<1>5. CASE unlock_thread
  BY <1>5 DEF unlock_thread
<1>6. CASE kill("kill") \/ kill("quit")
  BY <1>6 DEF kill
<1>7. ASSUME NEW cmd, thread_apply_all(cmd) PROVE UNCHANGED known
  BY <1>7 DEF thread_apply_all
<1>8. CASE end_of_input
  BY <1>8 DEF end_of_input
<1> QED BY <1>1, <1>2, <1>3, <1>4, <1>5, <1>6, <1>7, <1>8 DEF Command

(* The steps that change the tables of threads while tdb waits.            *)
TableStep(t) == wait_event(t) \/ wait_initial_stop(t) \/ wait_exited(t)

(* Of the waits, only start, wait_and_report and kill touch the tables.    *)
LEMMA WaitKnown ==
    ASSUME Wait
    PROVE  UNCHANGED known \/ start_waited \/ (\E t \in Tids : TableStep(t)) \/ kill_done
<1> USE DEF known, fields, tables
<1>1. CASE step_over_current_breakpoint
  BY <1>1 DEF step_over_current_breakpoint
<1>2. CASE classify_wait \/ finish_undebugged_frame
  BY <1>2 DEF classify_wait, finish_undebugged_frame
<1>3. ASSUME NEW t \in Tids, wait_held(t) \/ wait_stopped(t) \/ kill_reaps(t)
      PROVE  UNCHANGED known
  BY <1>3 DEF wait_held, wait_stopped, kill_reaps
<1>4. CASE wait_no_child
  BY <1>4 DEF wait_no_child
<1>5. ASSUME NEW t \in Tids, release_held_thread(t) PROVE UNCHANGED known
  BY <1>5 DEF release_held_thread
<1>6. CASE release_waited \/ released
  BY <1>6 DEF release_waited, released
<1>7. ASSUME NEW n, focus_thread_for_apply(n) PROVE UNCHANGED known
  BY <1>7 DEF focus_thread_for_apply
<1>8. CASE restore_focus
  BY <1>8 DEF restore_focus
<1> QED BY <1>1, <1>2, <1>3, <1>4, <1>5, <1>6, <1>7, <1>8 DEF Wait, TableStep

(* Neither does the program, nor the forwarder thread.                     *)
LEMMA OthersKnown ==
    ASSUME Program \/ Forwarder \/ UNCHANGED vars PROVE UNCHANGED known
BY DEF Program, Forwarder, ctrl_c, forward_sigint, vars, fields, known

-----------------------------------------------------------------------------
(* register_thread, and the registration of a thread that stops before the *)
(* event of its birth, give a new number to a new thread.                  *)
LEMMA NewNumber ==
    ASSUME FieldsTypeOK, Injective(thread_ids), TidsOf(thread_ids) = threads,
           NEW t \in Tids, t \notin threads,
           threads' = threads \cup {t},
           thread_ids' = [i \in DOMAIN thread_ids \cup {next_thread_id} |->
                              IF i = next_thread_id THEN t ELSE thread_ids[i]]
    PROVE  Injective(thread_ids)' /\ TidsOf(thread_ids)' = threads'
<1>1. next_thread_id \notin DOMAIN thread_ids
  BY DEF FieldsTypeOK
<1>2. \A i \in DOMAIN thread_ids : thread_ids[i] \in threads
  BY DEF TidsOf
<1>3. Injective(thread_ids)'
  BY <1>1, <1>2 DEF Injective
<1>4. DOMAIN thread_ids' = DOMAIN thread_ids \cup {next_thread_id}
  OBVIOUS
<1>5. \A i \in DOMAIN thread_ids : thread_ids'[i] = thread_ids[i]
  BY <1>1
<1>6. thread_ids'[next_thread_id] = t
  OBVIOUS
<1>7. TidsOf(thread_ids)' = threads'
  BY <1>4, <1>5, <1>6 DEF TidsOf
<1> QED BY <1>3, <1>7

(* The births and stops wait_and_report registers keep the table.          *)
LEMMA TableStepTable ==
    ASSUME TypeOK, ThreadTable, NEW t \in Tids, TableStep(t) PROVE ThreadTable'
<1> DEFINE c == report[t].child
<1> USE DEF ThreadTable
<1>1. CASE wait_event(t)
  <2> USE DEF wait_event, register_process
  <2>1. c \in Tids
    BY <1>1, EventChild DEF TypeOK
  <2>2. CASE c \in threads
    BY <1>1, <2>2 DEF register_thread, Enter, tables
  <2>3. CASE c \notin threads
    <3>1. threads' = threads \cup {c}
      BY <1>1, <2>3 DEF register_thread, Enter
    <3>2. Injective(thread_ids)' /\ TidsOf(thread_ids)' = threads'
      BY <1>1, <2>1, <2>3, NewNumber DEF register_thread, Enter, TypeOK
    <3> QED BY <1>1, <3>1, <3>2
  <2> QED BY <2>2, <2>3
<1>2. CASE wait_initial_stop(t)
  <2>1. CASE t \in threads
    BY <1>2, <2>1 DEF wait_initial_stop
  <2>2. CASE t \notin threads
    BY <1>2, <2>2, NewNumber DEF wait_initial_stop, Enter, TypeOK
  <2> QED BY <2>1, <2>2
<1>3. CASE wait_exited(t)
  <2>1. thread_ids' = Without(thread_ids, t) /\ threads' = threads \ {t}
        /\ processes' = processes \ {t}
    BY <1>3 DEF wait_exited
  <2>2. Injective(thread_ids)'
    BY <2>1 DEF Injective, Without
  <2>3. TidsOf(thread_ids)' = threads'
    BY <2>1 DEF TidsOf, Without
  <2> QED BY <2>1, <2>2, <2>3
<1> QED BY <1>1, <1>2, <1>3 DEF TableStep

(* A table that has been cleared has no thread and no number.              *)
LEMMA ClearedTable ==
    ASSUME threads' = {}, thread_ids' = NoNumbers, processes' = {}
    PROVE  ThreadTable'
<1>1. DOMAIN thread_ids' = {}
  BY DEF NoNumbers
<1> QED BY <1>1 DEF ThreadTable, Injective, TidsOf

(* Every step keeps numbers, threads and processes together.               *)
LEMMA TableNext ==
    ASSUME TypeOK, ThreadTable, [Next]_vars PROVE ThreadTable'
<1>1. CASE UNCHANGED known
  BY <1>1 DEF known, ThreadTable, Injective, TidsOf
<1>2. ASSUME NEW c \in Tids, start_forks(c) PROVE ThreadTable'
  BY <1>2, ClearedTable DEF start_forks
<1>3. CASE Forget
  BY <1>3, ClearedTable DEF Forget
<1>4. CASE start_waited
  BY <1>4 DEF start_waited, ThreadTable, Injective, TidsOf
<1>5. ASSUME NEW t \in Tids, TableStep(t) PROVE ThreadTable'
  BY <1>5, TableStepTable
<1>6. CASE kill_done
  BY <1>3, <1>6 DEF kill_done
<1> QED BY <1>1, <1>2, <1>3, <1>4, <1>5, <1>6, CommandKnown, WaitKnown, OthersKnown DEF Next

(* `info threads` never shows a thread twice, misses a known one or gives  *)
(* one number to two, and a known process is a known thread.               *)
THEOREM ThreadTableCorrect == Spec => []ThreadTable
<1>1. Init => TypeOK /\ ThreadTable
  <2>1. ASSUME Init PROVE ThreadTable
    BY <2>1 DEF Init, NoNumbers, ThreadTable, Injective, TidsOf
  <2> QED BY <2>1, InitType
<1>2. (TypeOK /\ ThreadTable) /\ [Next]_vars => (TypeOK /\ ThreadTable)'
  BY NextType, TableNext
<1> QED BY <1>1, <1>2, PTL DEF Spec
-----------------------------------------------------------------------------
(* What a step does to the scheduling state and the reports of the tasks.  *)

Resumptions == {"running", "stepping", "stepover"}

(* tdb resumes the thread it has the focus on, one that no other thread is *)
(* locked against, or one it is releasing from a lock.                     *)
ResumesOne == \E t \in Tids, how \in Resumptions :
                  /\ Resume(t, how)
                  /\ t = current_tid \/ locked_tid \in {NoTid, t} \/ mode = "release"

Still == UNCHANGED <<run, report>>

(* A command resumes one thread, kills them all, or starts the program.    *)
LEMMA CommandMoves ==
    ASSUME TypeOK, Command
    PROVE  \/ Still \/ ResumesOne
           \/ mode' = "kill" /\ \E dying : Perish(dying, "signaled")
           \/ \E c \in Tids : start_forks(c)
<1> USE DEF Still, Reject, kernelVars
<1>1. CASE start
  BY <1>1 DEF start
<1>2. ASSUME NEW name, resume_command(name) PROVE Still \/ ResumesOne
  <2>1. CASE ~Focused
    BY <1>2, <2>1 DEF resume_command
  <2>2. CASE Focused
    <3>1. current_tid \in Tids
      BY <2>2 DEF Focused, StoppedThread, TypeOK, FieldsTypeOK
    <3>2. Still \/ (\E how \in Resumptions : Resume(current_tid, how))
      BY <1>2, <2>2 DEF resume_command, ResumeFocus, HowOf, Resumptions
    <3> QED BY <3>1, <3>2 DEF ResumesOne
  <2> QED BY <2>1, <2>2
<1>3. CASE step_line
  <2>1. CASE ~Focused
    BY <1>3, <2>1 DEF step_line
  <2>2. CASE Focused
    <3>1. current_tid \in Tids
      BY <2>2 DEF Focused, StoppedThread, TypeOK, FieldsTypeOK
    <3>2. \E how \in Resumptions : Resume(current_tid, how)
      BY <1>3, <2>2 DEF step_line, single_step_raw, Resumptions
    <3> QED BY <3>1, <3>2 DEF ResumesOne
  <2> QED BY <2>1, <2>2
<1>4. ASSUME NEW n, switch_thread(n) \/ lock_thread(n) PROVE Still
  BY <1>4 DEF switch_thread, lock_thread
<1>5. CASE unlock_thread
  BY <1>5 DEF unlock_thread
<1>6. CASE kill("kill") \/ kill("quit")
  BY <1>6 DEF kill
<1>7. ASSUME NEW cmd, thread_apply_all(cmd) PROVE Still
  BY <1>7 DEF thread_apply_all
<1>8. CASE end_of_input
  BY <1>8 DEF end_of_input
<1> QED BY <1>1, <1>2, <1>3, <1>4, <1>5, <1>6, <1>7, <1>8 DEF Command, cont, stepi

(* A wait consumes the report of one task, or resumes one.                 *)
LEMMA WaitMoves ==
    ASSUME TypeOK, Wait
    PROVE  Still \/ ResumesOne \/ (\E t \in Tids : Consume(t))
<1> USE DEF Still, kernelVars
<1>1. CASE start_waited
  BY <1>1 DEF start_waited, TypeOK, WaitsForTask
<1>2. CASE step_over_current_breakpoint \/ classify_wait \/ finish_undebugged_frame
  <2>1. current_tid \in Tids
    BY <1>2 DEF step_over_current_breakpoint, classify_wait, finish_undebugged_frame,
                TypeOK, WaitsForTask
  <2>2. CASE step_over_current_breakpoint
    BY <2>1, <2>2 DEF step_over_current_breakpoint, ResumeFocus, HowOf, Resumptions, ResumesOne
  <2>3. CASE classify_wait
    BY <2>1, <2>3 DEF classify_wait, single_step_raw, Resumptions, ResumesOne
  <2>4. CASE finish_undebugged_frame
    BY <2>1, <2>4 DEF finish_undebugged_frame, single_step_raw, Resumptions, ResumesOne
  <2> QED BY <1>2, <2>2, <2>3, <2>4
<1>3. ASSUME NEW t \in Tids, wait_event(t) \/ wait_initial_stop(t)
      PROVE  Still \/ ResumesOne \/ Consume(t)
  BY <1>3 DEF wait_event, wait_initial_stop, resume_or_hold, TryResume, Resumptions, ResumesOne
<1>4. ASSUME NEW t \in Tids, wait_held(t) \/ wait_stopped(t) \/ wait_exited(t) \/ kill_reaps(t)
      PROVE  Consume(t)
  BY <1>4 DEF wait_held, wait_stopped, wait_exited, kill_reaps
<1>5. CASE wait_no_child \/ released \/ kill_done \/ restore_focus
  BY <1>5 DEF wait_no_child, released, kill_done, restore_focus
<1>6. ASSUME NEW t \in Tids, release_held_thread(t) PROVE Still \/ ResumesOne
  BY <1>6 DEF release_held_thread, TryResume, Resumptions, ResumesOne
<1>7. CASE release_waited
  <2>1. waiting \in Tids
    BY <1>7 DEF release_waited, TypeOK, ControlTypeOK
  <2> QED BY <1>7, <2>1 DEF release_waited, Resumptions, ResumesOne
<1>8. ASSUME NEW n, focus_thread_for_apply(n) PROVE Still
  BY <1>8 DEF focus_thread_for_apply
<1> QED BY <1>1, <1>2, <1>3, <1>4, <1>5, <1>6, <1>7, <1>8 DEF Wait

(* The forwarder thread only sends signals.                                *)
LEMMA ForwarderMoves ==
    ASSUME Forwarder \/ UNCHANGED vars PROVE Still
BY DEF Forwarder, ctrl_c, forward_sigint, vars, kernelVars, Still

-----------------------------------------------------------------------------
(* A stop not yet waited for belongs to a stopped task, an end to a zombie. *)
ReportsMatch ==
    \A t \in Tids : /\ report[t].kind \in Stops \cup Births0 => Stopped(t)
                    /\ report[t].kind \in Ends => run[t] = "zombie"

(* The known threads, and the children of the births to come, were born.   *)
KnownAreBorn ==
    /\ \A t \in threads : run[t] # "unborn"
    /\ \A t \in Tids : report[t].kind \in Births0 => run[report[t].child] # "unborn"

(* The inductive form of AttachStopAccounted.                              *)
AttachInv == TypeOK /\ ReportsMatch /\ KnownAreBorn /\ AttachStopAccounted
(* What no step may do to the tasks: un-birth one, announce the birth of   *)
(* an unborn one, or give an attach stop to a task that is born already.   *)
TasksKept ==
    /\ ReportsMatch'
    /\ \A t \in Tids : run[t] # "unborn" => run'[t] # "unborn"
    /\ \A t \in Tids : report'[t].kind \in Births0 => run'[report'[t].child] # "unborn"
    /\ \A t \in Tids : report'[t].kind = "initial" => report[t].kind = "initial"
                                                      \/ run[t] = "unborn"

(* Resuming, consuming and killing respect that.                           *)
LEMMA MovesKeepTasks ==
    ASSUME KernelTypeOK, ReportsMatch, KnownAreBorn,
           \/ Still
           \/ \E t \in Tids, how \in Resumptions : Resume(t, how)
           \/ \E t \in Tids : Consume(t)
           \/ \E end \in Ends : \E dying : Perish(dying, end)
    PROVE  TasksKept
<1> USE DEF TasksKept, ReportsMatch, KnownAreBorn, KernelTypeOK
<1>1. \A t \in Tids : report[t].kind \in Births0 => report[t].child \in Tids
  BY EventChild DEF Births0
<1>2. Quiet.kind = "none" /\ \A k : Report(k).kind = k
  BY DEF Quiet, Report
<1>3. CASE Still
  BY <1>3 DEF Still, Stopped
<1>4. ASSUME NEW t \in Tids, NEW how \in Resumptions, Resume(t, how) PROVE TasksKept
  BY <1>1, <1>2, <1>4 DEF Resume, Resumptions, Stopped, Stops, Ends, Births0
<1>5. ASSUME NEW t \in Tids, Consume(t) PROVE TasksKept
  BY <1>1, <1>2, <1>5 DEF Consume, Stopped, Stops, Ends, Births0
<1>6. ASSUME NEW dying, NEW end \in Ends, Perish(dying, end) PROVE TasksKept
  BY <1>1, <1>2, <1>6 DEF Perish, Alive, Running, Stopped, Stops, Ends, Births0
<1> QED BY <1>3, <1>4, <1>5, <1>6

(* So does `run`, whose task had no report.                                *)
LEMMA ForkKeepsTasks ==
    ASSUME KernelTypeOK, ReportsMatch, KnownAreBorn, NEW c \in Tids, start_forks(c)
    PROVE  TasksKept
<1>1. \A t \in Tids : report[t].kind \in Births0 => report[t].child \in Tids
  BY EventChild DEF Births0
<1> QED BY <1>1 DEF start_forks, TasksKept, ReportsMatch, KnownAreBorn, KernelTypeOK, Stopped

(* A stop of the program, of whatever kind but the attach.                 *)
LEMMA StopKeepsTasks ==
    ASSUME KernelTypeOK, ReportsMatch, KnownAreBorn, NEW t \in Tids,
           NEW k \in Stops \ {"initial"}, Stop(t, Report(k))
    PROVE  TasksKept
<1>1. \A u \in Tids : report[u].kind \in Births0 => report[u].child \in Tids
  BY EventChild DEF Births0
<1>2. Report(k).kind = k
  BY DEF Report
<1> QED BY <1>1, <1>2 DEF Stop, TasksKept, ReportsMatch, KnownAreBorn, KernelTypeOK, Stopped,
                           Stops, Ends, Births0

(* And so does every step of the program.                                  *)
LEMMA ProgramKeepsTasks ==
    ASSUME KernelTypeOK, ReportsMatch, KnownAreBorn, NEW t \in Tids, ProgramStep(t)
    PROVE  TasksKept
<1>1. CASE Exec(t) \/ HitBreakpoint(t) \/ StepTrap(t)
  BY <1>1, StopKeepsTasks DEF Exec, HitBreakpoint, StepTrap, Stops
<1>2. CASE ExecFails(t) \/ ThreadExit(t)
  BY <1>2, MovesKeepTasks DEF ExecFails, ThreadExit, Ends
<1>3. ASSUME NEW end \in Deaths, GroupExit(t, end) PROVE TasksKept
  BY <1>3, MovesKeepTasks DEF GroupExit
<1>4. ASSUME NEW s \in {"SIGSTOP", "SIGINT"}, TakeSignal(t, s) PROVE TasksKept
  BY <1>4, StopKeepsTasks DEF TakeSignal, Stops
<1>5. ASSUME NEW c \in Tids, NEW kind \in Births, GiveBirth(t, c, kind) PROVE TasksKept
  <2>1. \A u \in Tids : report[u].kind \in Births0 => report[u].child \in Tids
    BY EventChild DEF Births0
  <2>2. /\ kind \in Births0
        /\ Event(kind, c).kind = kind /\ Event(kind, c).child = c
        /\ Report("initial").kind = "initial"
    BY TraceesAssumption DEF Event, Report, Births0
  <2>3. run[t] # "unborn" /\ t # c
    BY <1>5 DEF GiveBirth, MayExecute, Running
  <2> QED BY <1>5, <2>1, <2>2, <2>3 DEF GiveBirth, TasksKept, ReportsMatch, KnownAreBorn,
                                        KernelTypeOK, Stopped, Stops, Ends, Births0
<1> QED BY <1>1, <1>2, <1>3, <1>4, <1>5 DEF ProgramStep

(* Every step respects it.                                                 *)
LEMMA NextKeepsTasks ==
    ASSUME TypeOK, ReportsMatch, KnownAreBorn, [Next]_vars PROVE TasksKept
<1>0. KernelTypeOK
  BY DEF TypeOK
<1>1. CASE Command
  BY <1>0, <1>1, CommandMoves, MovesKeepTasks, ForkKeepsTasks DEF ResumesOne, Ends
<1>2. CASE Wait
  BY <1>0, <1>2, WaitMoves, MovesKeepTasks DEF ResumesOne
<1>3. CASE Program
  BY <1>0, <1>3, ProgramKeepsTasks DEF Program
<1>4. CASE Forwarder \/ UNCHANGED vars
  BY <1>0, <1>4, ForwarderMoves, MovesKeepTasks
<1> QED BY <1>1, <1>2, <1>3, <1>4 DEF Next

-----------------------------------------------------------------------------
(* A thread enters the table with the birth or the stop that shows it, so  *)
(* it is born; and the attach stop it may still owe is marked as pending.  *)
LEMMA TableStepAttach ==
    ASSUME AttachInv, TasksKept, NEW t \in Tids, TableStep(t)
    PROVE  (\A u \in threads' : run'[u] # "unborn") /\ AttachStopAccounted'
<1> DEFINE c == report[t].child
<1> USE DEF AttachInv, AttachStopAccounted, KnownAreBorn, TasksKept
<1>1. Waitable(t) /\ threads \in SUBSET Tids
  BY DEF TableStep, wait_event, wait_initial_stop, wait_exited, InWait, TypeOK, FieldsTypeOK
<1>2. CASE wait_event(t)
  <2>1. c \in Tids /\ run[c] # "unborn"
    BY <1>2, EventChild DEF wait_event, TypeOK, Births0
  <2>2. threads' = threads \cup {c}
    BY <1>2 DEF wait_event, register_thread, Enter, tables
  <2>3. pending_initial_stop' = IF c \in threads THEN pending_initial_stop
                                                 ELSE pending_initial_stop \cup {c}
    BY <1>2 DEF wait_event, register_thread, Enter, tables
  <2> QED BY <1>1, <2>1, <2>2, <2>3
<1>3. CASE wait_initial_stop(t)
  <2>1. Stopped(t)
    BY <1>3 DEF wait_initial_stop, ReportsMatch
  <2>2. report'[t] = Quiet
    BY <1>3, <2>1 DEF wait_initial_stop, resume_or_hold, TryResume, Resume, Consume, TypeOK,
                      KernelTypeOK
  <2>3. threads' = threads \cup {t} /\ pending_initial_stop' = pending_initial_stop \ {t}
    BY <1>3 DEF wait_initial_stop, Enter
  <2>4. Quiet.kind # "initial"
    BY DEF Quiet
  <2> QED BY <1>1, <2>1, <2>2, <2>3, <2>4 DEF Stopped
<1>4. CASE wait_exited(t)
  BY <1>1, <1>4 DEF wait_exited
<1> QED BY <1>2, <1>3, <1>4 DEF TableStep

(* The invariant is inductive.                                             *)
LEMMA AttachNext == AttachInv /\ [Next]_vars => AttachInv'
<1> SUFFICES ASSUME AttachInv, [Next]_vars PROVE AttachInv'
  OBVIOUS
<1> USE DEF AttachInv
<1>1. TasksKept /\ TypeOK'
  BY NextKeepsTasks, NextType
<1>2. (\A u \in threads' : run'[u] # "unborn") /\ AttachStopAccounted'
  <2> DEFINE Goal == (\A u \in threads' : run'[u] # "unborn") /\ AttachStopAccounted'
  <2> SUFFICES Goal
    OBVIOUS
  <2>1. threads \in SUBSET Tids
    BY DEF TypeOK, FieldsTypeOK
  <2>2. CASE UNCHANGED known
    BY <1>1, <2>1, <2>2 DEF known, AttachStopAccounted, TasksKept, KnownAreBorn
  <2>3. CASE threads' = {}
    BY <2>3 DEF AttachStopAccounted
  <2>4. CASE start_waited
    <3>1. pid \in Tids
      BY <2>4 DEF start_waited, TypeOK, WaitsForTask
    <3>2. report'[pid] = Quiet /\ Quiet.kind # "initial"
      BY <2>4, <3>1 DEF start_waited, Consume, TypeOK, KernelTypeOK, Quiet
    <3>3. CASE report[pid].kind = "exec"
      <4>1. run[pid] # "unborn"
        BY <3>1, <3>3 DEF ReportsMatch, Stops, Stopped
      <4>2. threads' = {pid}
        BY <2>4, <3>3 DEF start_waited
      <4> QED BY <1>1, <3>1, <3>2, <4>1, <4>2 DEF AttachStopAccounted, TasksKept
    <3>4. CASE report[pid].kind # "exec"
      BY <1>1, <2>1, <2>4, <3>4 DEF start_waited, AttachStopAccounted, TasksKept, KnownAreBorn
    <3> QED BY <3>3, <3>4
  <2>5. ASSUME NEW t \in Tids, TableStep(t) PROVE Goal
    BY <1>1, <2>5, TableStepAttach
  <2>6. (\E c \in Tids : start_forks(c)) \/ Forget \/ kill_done => threads' = {}
    BY DEF start_forks, Forget, kill_done
  <2> QED BY <2>2, <2>3, <2>4, <2>5, <2>6, CommandKnown, WaitKnown, OthersKnown DEF Next
<1> QED BY <1>1, <1>2 DEF TasksKept, KnownAreBorn

(* The stop of the automatic attach of a known thread is pending for as    *)
(* long as it has not been waited for, in whatever order the stop, the     *)
(* event of the birth and the death arrive.                                *)
THEOREM AttachStopCorrect == Spec => []AttachStopAccounted
<1>1. Init => AttachInv
  <2>1. ASSUME Init PROVE ReportsMatch /\ KnownAreBorn /\ AttachStopAccounted
    BY <2>1 DEF Init, KernelInit, ReportsMatch, KnownAreBorn, AttachStopAccounted, Quiet, Stops,
                Ends, Births0
  <2> QED BY <2>1, InitType DEF AttachInv
<1>2. AttachInv /\ [Next]_vars => AttachInv'
  BY AttachNext
<1>3. AttachInv => AttachStopAccounted
  BY DEF AttachInv
<1> QED BY <1>1, <1>2, <1>3, PTL DEF Spec

-----------------------------------------------------------------------------
(* The lock.                                                               *)

(* A locked thread is known and has the focus, and nobody is locked while  *)
(* a program is being started or held threads are being released.          *)
LockKept ==
    /\ ~apply.on
    /\ locked_tid # NoTid => current_tid = locked_tid /\ locked_tid \in threads
    /\ mode \in {"start", "release"} => locked_tid = NoTid

LockInv == TypeOK /\ ThreadTable /\ LockKept

(* A number of `info threads` stands for a known thread.                   *)
LEMMA ResolvedIsKnown ==
    ASSUME TypeOK, ThreadTable, NEW n, resolve_thread_id(n) # NoTid
    PROVE  resolve_thread_id(n) \in threads
BY DEF resolve_thread_id, ThreadTable, TidsOf

(* Returning to the prompt keeps the lock and the focus in step.           *)
LEMMA ReturnKeepsLock ==
    ASSUME LockKept, Return, UNCHANGED <<current_tid, locked_tid, threads>>
    PROVE  LockKept'
BY DEF LockKept, Return

(* The commands: only thread and lock move the focus of a live session.    *)
LEMMA CommandKeepsLock ==
    ASSUME LockInv, ApplyCommands = {}, Command PROVE LockKept'
<1> USE DEF LockInv
<1>1. CASE Reject
  BY <1>1, ReturnKeepsLock DEF Reject, fields
<1>2. ASSUME NEW c \in Tids, start_forks(c) PROVE LockKept'
  BY <1>2 DEF start_forks, LockKept
<1>3. ASSUME NEW name \in {"continue", "stepi"}, resume_command(name), ~Reject PROVE LockKept'
  <2>1. /\ UNCHANGED <<current_tid, locked_tid, threads, apply>>
        /\ mode' \in {"prompt", "apply", "wait", "stepover"}
    BY <1>3 DEF resume_command, ResumeFocus, Return, fields
  <2> QED BY <2>1 DEF LockKept
<1>4. CASE step_line /\ ~Reject
  BY <1>4 DEF step_line, single_step_raw, LockKept, fields
<1>5. ASSUME NEW n, switch_thread(n), ~Reject PROVE LockKept'
  BY <1>5, ResolvedIsKnown DEF switch_thread, StoppedThread, LockKept, Return, tables
<1>6. ASSUME NEW n, lock_thread(n), ~Reject PROVE LockKept'
  BY <1>6, ResolvedIsKnown DEF lock_thread, StoppedThread, LockKept, Return, tables
<1>7. CASE unlock_thread /\ ~Reject
  BY <1>7 DEF unlock_thread, LockKept
<1>8. ASSUME NEW name \in {"kill", "quit"}, kill(name) PROVE LockKept'
  <2>1. /\ apply' = apply /\ mode' \in {"kill", "quit", "prompt", "apply"}
        /\ locked_tid' = NoTid \/ UNCHANGED <<current_tid, locked_tid, threads>>
    BY <1>8 DEF kill, Forget, Leave, Return, fields
  <2> QED BY <2>1 DEF LockKept
<1>9. CASE end_of_input
  BY <1>9 DEF end_of_input, LockKept, fields
<1> QED BY <1>1, <1>2, <1>3, <1>4, <1>5, <1>6, <1>7, <1>8, <1>9
        DEF Command, start, cont, stepi

(* The waits: the focus moves to a thread that nobody is locked against,   *)
(* and the death of the locked thread ends the lock.                       *)
LEMMA WaitKeepsLock ==
    ASSUME LockInv, Wait PROVE LockKept'
<1> USE DEF LockInv
<1> DEFINE focus == <<current_tid, locked_tid, threads, apply>>
<1>1. CASE start_waited
  BY <1>1 DEF start_waited, LockKept, Return
<1>2. CASE step_over_current_breakpoint \/ classify_wait \/ finish_undebugged_frame
  <2>1. UNCHANGED focus /\ mode' \in {"prompt", "apply", "wait", "rawstep", "frame"}
    BY <1>2 DEF step_over_current_breakpoint, classify_wait, finish_undebugged_frame, Return,
                ResumeFocus, single_step_raw, tables
  <2> QED BY <2>1 DEF LockKept
<1>3. ASSUME NEW t \in Tids, wait_event(t) \/ wait_initial_stop(t) PROVE LockKept'
  <2>1. UNCHANGED <<current_tid, locked_tid, mode, apply>> /\ threads \subseteq threads'
    BY <1>3 DEF wait_event, wait_initial_stop, register_thread, Enter, tables, control
  <2> QED BY <2>1 DEF LockKept
<1>4. ASSUME NEW t \in Tids, wait_held(t) \/ kill_reaps(t) PROVE LockKept'
  BY <1>4 DEF wait_held, kill_reaps, LockKept, fields, control
<1>5. ASSUME NEW t \in Tids, wait_stopped(t) PROVE LockKept'
  BY <1>5 DEF wait_stopped, Skips, Held, LockKept, Return, tables
<1>6. ASSUME NEW t \in Tids, wait_exited(t) PROVE LockKept'
  <2>1. CASE locked_tid = t
    BY <1>6, <2>1 DEF wait_exited, LockKept
  <2>2. CASE locked_tid # t
    BY <1>6, <2>2 DEF wait_exited, Settle, Return, LockKept
  <2> QED BY <2>1, <2>2
<1>7. CASE wait_no_child
  BY <1>7, ReturnKeepsLock DEF wait_no_child, fields
<1>8. ASSUME NEW t \in Tids, release_held_thread(t) PROVE LockKept'
  BY <1>8 DEF release_held_thread, LockKept, fields
<1>9. CASE release_waited
  BY <1>9 DEF release_waited, LockKept, fields
<1>10. CASE released
  BY <1>10 DEF released, Settle, Return, LockKept, tables
<1>11. CASE kill_done
  BY <1>11 DEF kill_done, Forget, Leave, Return, LockKept
<1>12. mode \notin {"apply", "dispatch"}
  BY DEF LockKept, TypeOK, WaitsForTask
<1> QED BY <1>1, <1>2, <1>3, <1>4, <1>5, <1>6, <1>7, <1>8, <1>9, <1>10, <1>11, <1>12
        DEF Wait, focus_thread_for_apply, restore_focus

(* The invariant is inductive.                                             *)
LEMMA LockNext ==
    ASSUME ApplyCommands = {} PROVE LockInv /\ [Next]_vars => LockInv'
<1> SUFFICES ASSUME LockInv, [Next]_vars PROVE LockInv'
  OBVIOUS
<1>1. TypeOK' /\ ThreadTable'
  BY NextType, TableNext DEF LockInv
<1>2. ASSUME Program \/ Forwarder \/ UNCHANGED vars PROVE LockKept'
  BY <1>2 DEF Program, Forwarder, ctrl_c, forward_sigint, vars, fields, control, LockInv, LockKept
<1>3. LockKept'
  BY <1>2, CommandKeepsLock, WaitKeepsLock DEF Next
<1> QED BY <1>1, <1>3 DEF LockInv

(* It holds initially.                                                     *)
LEMMA LockInit == Init => LockInv
<1>1. ASSUME Init PROVE ThreadTable /\ LockKept
  BY <1>1 DEF Init, NoNumbers, NoApply, ThreadTable, Injective, TidsOf, LockKept
<1> QED BY <1>1, InitType DEF LockInv

(* While a thread is locked it is in `info threads` and has the focus, so  *)
(* that `continue` and `stepi` act on it.                                  *)
THEOREM LockedHasFocus ==
    ASSUME ApplyCommands = {} PROVE Spec => []LockHasFocus
<1>1. LockInv /\ [Next]_vars => LockInv'
  BY LockNext
<1>2. LockInv => LockHasFocus
  BY DEF LockInv, LockKept, LockHasFocus
<1> QED BY LockInit, <1>1, <1>2, PTL DEF Spec

-----------------------------------------------------------------------------
(* Who may set a stopped thread of a locked session going.                 *)
Holds == \A t \in threads :
            locked_tid \notin {NoTid, t} /\ locked_tid' = locked_tid /\ Stopped(t)
                => ~Running(t)'

(* The program cannot: a stopped task stays stopped, or dies.              *)
LEMMA ProgramHolds ==
    ASSUME KernelTypeOK, NEW t \in Tids, ProgramStep(t), NEW u \in Tids, Stopped(u)
    PROVE  ~Running(u)'
<1> USE DEF Running, Stopped, KernelTypeOK
<1>1. CASE Exec(t) \/ HitBreakpoint(t) \/ StepTrap(t)
  BY <1>1 DEF Exec, HitBreakpoint, StepTrap, Stop
<1>2. CASE ExecFails(t) \/ ThreadExit(t)
  BY <1>2 DEF ExecFails, ThreadExit, Perish
<1>3. ASSUME NEW end, GroupExit(t, end) PROVE ~Running(u)'
  BY <1>3 DEF GroupExit, Perish
<1>4. ASSUME NEW s, TakeSignal(t, s) PROVE ~Running(u)'
  BY <1>4 DEF TakeSignal, Stop
<1>5. ASSUME NEW c \in Tids, NEW kind, GiveBirth(t, c, kind) PROVE ~Running(u)'
  BY <1>5 DEF GiveBirth
<1> QED BY <1>1, <1>2, <1>3, <1>4, <1>5 DEF ProgramStep

(* Neither does tdb: it resumes the locked thread, or nobody is locked.    *)
LEMMA NextHolds ==
    ASSUME LockInv, [Next]_vars PROVE Holds
<1> SUFFICES ASSUME NEW u \in threads, locked_tid \notin {NoTid, u}, locked_tid' = locked_tid,
                    Stopped(u)
             PROVE  ~Running(u)'
  BY DEF Holds
<1> USE DEF Running, Stopped
<1>1. u \in Tids /\ KernelTypeOK
  BY DEF LockInv, TypeOK, FieldsTypeOK
<1>2. CASE Still
  BY <1>2 DEF Still
<1>3. CASE ResumesOne
  BY <1>1, <1>3 DEF ResumesOne, Resume, KernelTypeOK, LockInv, LockKept
<1>4. ASSUME NEW t \in Tids, Consume(t) PROVE ~Running(u)'
  BY <1>1, <1>4 DEF Consume, KernelTypeOK
<1>5. ASSUME NEW dying, Perish(dying, "signaled") PROVE ~Running(u)'
  BY <1>1, <1>5 DEF Perish
<1>6. ASSUME NEW c \in Tids, start_forks(c) PROVE ~Running(u)'
  BY <1>1, <1>6 DEF start_forks
<1>7. CASE Program
  BY <1>1, <1>7, ProgramHolds DEF Program
<1> QED BY <1>2, <1>3, <1>4, <1>5, <1>6, <1>7, CommandMoves, WaitMoves, ForwarderMoves
        DEF Next, LockInv

(* No step resumes a thread that is being held, from `lock` to `unlock`.   *)
THEOREM LockHoldsOthers ==
    ASSUME ApplyCommands = {} PROVE Spec => HeldStaysHeld
<1>1. LockInv /\ [Next]_vars => LockInv'
  BY LockNext
<1>2. LockInv /\ [Next]_vars =>
          [\A t \in threads :
              locked_tid \notin {NoTid, t} /\ locked_tid' = locked_tid /\ Stopped(t)
                  => ~Running(t)']_vars
  BY NextHolds DEF Holds
<1> QED BY LockInit, <1>1, <1>2, PTL DEF Spec, HeldStaysHeld

-----------------------------------------------------------------------------
(* A thread one byte past an int3 is put back before it is resumed.        *)

(* Neither at large, where it could meet a breakpoint, nor past one.       *)
Settled(t) == run[t] \notin {"running", "stepping"} /\ rip[t] # "past"

(* Only a task that ran into a breakpoint is past one, and until that is   *)
(* waited for the breakpoint is what waitpid will report of it.            *)
PastIsShown ==
    \A t \in Tids : rip[t] = "past" => /\ run[t] \in Resumptions \cup {"stopped"}
                                       /\ report[t].kind \in {"none", "trap"}

(* The focus may be resumed, by the next command or by the one under way.  *)
FocusIsNext ==
    /\ current_tid # NoTid
    /\ \/ mode \in {"start", "stepover"}
       \/ ~exited /\ (mode = "prompt" \/ (mode = "release" /\ after # "reaped"))

FocusSettled == FocusIsNext => Settled(current_tid)

(* release_held_thread steps one thread at a time, and never the focus of  *)
(* an unlock.                                                              *)
ReleaseSettled ==
    /\ waiting # NoTid => mode = "release" /\ Settled(waiting)
    /\ mode = "release" /\ FocusIsNext => current_tid \notin todo \cup {waiting}

(* Without `step` and `thread apply all`.                                  *)
PlainModes ==
    /\ ~apply.on /\ mode \notin {"rawstep", "frame"}
    /\ mode = "start" => current_tid = pid

Attended == PastIsShown /\ FocusSettled /\ ReleaseSettled /\ PlainModes

Int3Inv == AttachInv /\ Attended

(* What tdb does to rip: it only takes tasks back from past an int3.       *)
RipLowers == \A t \in Tids : rip'[t] = "past" => rip[t] = "past"

(* fixup_breakpoint_rip is the only way it does so.                        *)
LEMMA FixupLowers ==
    ASSUME KernelTypeOK, NEW t \in Tids, fixup_breakpoint_rip(t)
    PROVE  RipLowers /\ rip'[t] # "past"
BY DEF fixup_breakpoint_rip, RipLowers, KernelTypeOK

LEMMA SameRip == UNCHANGED rip => RipLowers
BY DEF RipLowers

(* Resuming and waiting leave PastIsShown as it is.                        *)
LEMMA MovesKeepPast ==
    ASSUME KernelTypeOK, PastIsShown, RipLowers,
           \/ Still
           \/ \E t \in Tids, how \in Resumptions : Resume(t, how)
           \/ \E t \in Tids : Consume(t)
    PROVE  PastIsShown'
<1> USE DEF PastIsShown, RipLowers, KernelTypeOK
<1>1. Quiet.kind = "none"
  BY DEF Quiet
<1>2. CASE Still
  BY <1>2 DEF Still
<1>3. ASSUME NEW t \in Tids, NEW how \in Resumptions, Resume(t, how) PROVE PastIsShown'
  BY <1>1, <1>3 DEF Resume
<1>4. ASSUME NEW t \in Tids, Consume(t) PROVE PastIsShown'
  BY <1>1, <1>4 DEF Consume, Resumptions
<1> QED BY <1>2, <1>3, <1>4

(* They leave a settled thread settled, unless it is the one resumed.      *)
LEMMA MovesKeepSettled ==
    ASSUME KernelTypeOK, NEW t \in Tids, Settled(t), RipLowers,
           \/ Still
           \/ \E u \in Tids \ {t}, how \in Resumptions : Resume(u, how)
           \/ \E u \in Tids : Consume(u)
    PROVE  Settled(t)'
<1> USE DEF Settled, RipLowers, KernelTypeOK
<1>1. CASE Still
  BY <1>1 DEF Still
<1>2. ASSUME NEW u \in Tids \ {t}, NEW how \in Resumptions, Resume(u, how) PROVE Settled(t)'
  BY <1>2 DEF Resume
<1>3. ASSUME NEW u \in Tids, Consume(u) PROVE Settled(t)'
  BY <1>3 DEF Consume
<1> QED BY <1>1, <1>2, <1>3

(* The death of tasks, whichever they are.                                 *)
LEMMA PerishKeepsPast ==
    ASSUME KernelTypeOK, PastIsShown, NEW dying, NEW end \in Ends, Perish(dying, end)
    PROVE  /\ PastIsShown'
           /\ \A t \in Tids : Settled(t) => Settled(t)'
<1>1. PastIsShown'
  BY DEF Perish, PastIsShown, KernelTypeOK
<1>2. ASSUME NEW t \in Tids, Settled(t) PROVE Settled(t)'
  BY <1>2 DEF Perish, Settled, KernelTypeOK
<1> QED BY <1>1, <1>2

(* A stop of the program that is not at a breakpoint.                      *)
LEMMA StopKeepsPast ==
    ASSUME KernelTypeOK, PastIsShown, NEW u \in Tids, NEW r \in Reports, Stop(u, r),
           NEW at \in {"off", "at"}, rip' = [rip EXCEPT ![u] = at]
    PROVE  /\ PastIsShown'
           /\ \A t \in Tids : Settled(t) => Settled(t)'
<1>1. PastIsShown'
  BY DEF Stop, PastIsShown, KernelTypeOK
<1>2. ASSUME NEW t \in Tids, Settled(t) PROVE Settled(t)'
  BY <1>2 DEF Stop, Settled, KernelTypeOK
<1> QED BY <1>1, <1>2

(* Nothing the program does takes a settled thread past an int3.           *)
LEMMA ProgramKeepsPast ==
    ASSUME KernelTypeOK, PastIsShown, NEW u \in Tids, ProgramStep(u)
    PROVE  /\ PastIsShown'
           /\ \A t \in Tids : Settled(t) => Settled(t)'
<1> DEFINE Goal == PastIsShown' /\ \A t \in Tids : Settled(t) => Settled(t)'
<1>1. CASE Exec(u)
  <2>1. rip[u] \in {"off", "at"} /\ rip' = [rip EXCEPT ![u] = rip[u]]
    BY <1>1 DEF Exec, PastIsShown, Resumptions, KernelTypeOK
  <2>2. Stop(u, Report("exec")) /\ Report("exec") \in Reports
    BY <1>1, ReportsClosed DEF Exec, Stops
  <2> QED BY <2>1, <2>2, StopKeepsPast
<1>2. CASE ExecFails(u) \/ ThreadExit(u)
  BY <1>2, PerishKeepsPast DEF ExecFails, ThreadExit, Ends
<1>3. CASE HitBreakpoint(u)
  <2>1. PastIsShown'
    BY <1>3 DEF HitBreakpoint, Stop, PastIsShown, KernelTypeOK, Report
  <2>2. ASSUME NEW t \in Tids, Settled(t) PROVE Settled(t)'
    BY <1>3, <2>2 DEF HitBreakpoint, Stop, Settled, KernelTypeOK
  <2> QED BY <2>1, <2>2
<1>4. CASE StepTrap(u)
  <2>1. PICK at \in {"off", "at"} : rip' = [rip EXCEPT ![u] = at]
    BY <1>4 DEF StepTrap
  <2>2. Stop(u, Report("trap")) /\ Report("trap") \in Reports
    BY <1>4, ReportsClosed DEF StepTrap, Stops
  <2> QED BY <2>1, <2>2, StopKeepsPast
<1>5. ASSUME NEW c \in Tids, NEW kind \in Births, GiveBirth(u, c, kind) PROVE Goal
  <2>1. rip[c] # "past" /\ u # c
    BY <1>5 DEF GiveBirth, MayExecute, Running, PastIsShown, Resumptions
  <2>2. PastIsShown'
    BY <1>5, <2>1 DEF GiveBirth, PastIsShown, KernelTypeOK
  <2>3. ASSUME NEW t \in Tids, Settled(t) PROVE Settled(t)'
    BY <1>5, <2>3 DEF GiveBirth, Settled, KernelTypeOK
  <2> QED BY <2>2, <2>3
<1>6. ASSUME NEW s \in {"SIGSTOP", "SIGINT"}, TakeSignal(u, s) PROVE Goal
  <2> DEFINE at == IF rip[u] = "past" THEN "off" ELSE rip[u]
  <2>1. at \in {"off", "at"} /\ rip' = [rip EXCEPT ![u] = at]
    BY <1>6 DEF TakeSignal, KernelTypeOK
  <2>2. Stop(u, Report(s)) /\ Report(s) \in Reports
    BY <1>6, ReportsClosed DEF TakeSignal, Stops
  <2> QED BY <2>1, <2>2, StopKeepsPast
<1>7. ASSUME NEW end \in Deaths, GroupExit(u, end) PROVE Goal
  BY <1>7, PerishKeepsPast DEF GroupExit
<1> QED BY <1>1, <1>2, <1>3, <1>4, <1>5, <1>6, <1>7 DEF ProgramStep

(* tdb's own steps: PastIsShown, from what moves and from rip.             *)
LEMMA TdbRip ==
    ASSUME TypeOK, ~apply.on, Command \/ Wait PROVE RipLowers
<1>0. mode \notin {"dispatch", "apply"} /\ KernelTypeOK
  BY DEF TypeOK, WaitsForTask
<1>1. ASSUME Command, ~RipLowers PROVE FALSE
  <2> USE SameRip DEF Reject, kernelVars
  <2>1. ~start /\ ~cont /\ ~stepi /\ ~step_line /\ ~unlock_thread /\ ~end_of_input
    BY <1>1 DEF start, start_forks, cont, stepi, resume_command, step_line, unlock_thread,
                end_of_input
  <2>2. ASSUME NEW n, switch_thread(n) PROVE FALSE
    BY <1>0, <1>1, <2>2, FixupLowers DEF switch_thread, StoppedThread, resolve_thread_id,
                                         TypeOK, FieldsTypeOK
  <2>3. ASSUME NEW n, lock_thread(n) PROVE FALSE
    BY <1>0, <1>1, <2>3, FixupLowers DEF lock_thread, StoppedThread, resolve_thread_id,
                                         TypeOK, FieldsTypeOK
  <2>4. ASSUME NEW name, kill(name) PROVE FALSE
    BY <1>0, <1>1, <2>4 DEF kill, Perish, RipLowers, KernelTypeOK
  <2>5. ASSUME NEW cmd, thread_apply_all(cmd) PROVE FALSE
    BY <1>1, <2>5 DEF thread_apply_all
  <2> QED BY <1>1, <2>1, <2>2, <2>3, <2>4, <2>5 DEF Command
<1>2. ASSUME Wait, ~RipLowers PROVE FALSE
  <2> USE SameRip DEF kernelVars
  <2>1. ~start_waited /\ ~step_over_current_breakpoint /\ ~wait_no_child
        /\ ~release_waited /\ ~released /\ ~kill_done /\ ~restore_focus
    BY <1>2 DEF start_waited, step_over_current_breakpoint, wait_no_child, release_waited,
                released, kill_done, restore_focus
  <2>2. ASSUME classify_wait \/ finish_undebugged_frame PROVE FALSE
    <3>1. current_tid \in Tids
      BY <2>2 DEF classify_wait, finish_undebugged_frame, TypeOK, WaitsForTask
    <3>2. CASE classify_wait
      BY <1>0, <1>2, <3>1, <3>2, FixupLowers DEF classify_wait
    <3>3. CASE finish_undebugged_frame
      BY <1>0, <1>2, <3>1, <3>3 DEF finish_undebugged_frame, RipLowers, KernelTypeOK
    <3> QED BY <2>2, <3>2, <3>3
  <2>3. ASSUME NEW t \in Tids,
               \/ wait_event(t) \/ wait_initial_stop(t) \/ wait_held(t)
               \/ wait_exited(t) \/ kill_reaps(t)
        PROVE  FALSE
    BY <1>2, <2>3 DEF wait_event, wait_initial_stop, wait_held, wait_exited, kill_reaps
  <2>4. ASSUME NEW t \in Tids, wait_stopped(t) \/ release_held_thread(t) PROVE FALSE
    BY <1>0, <1>2, <2>4, FixupLowers DEF wait_stopped, release_held_thread
  <2>5. ASSUME NEW n, focus_thread_for_apply(n) PROVE FALSE
    BY <1>0, <2>5 DEF focus_thread_for_apply
  <2> QED BY <1>2, <2>1, <2>2, <2>3, <2>4, <2>5 DEF Wait
<1> QED BY <1>1, <1>2

(* PastIsShown is kept by every step.                                      *)
LEMMA NextKeepsPast ==
    ASSUME TypeOK, PastIsShown, ~apply.on, [Next]_vars PROVE PastIsShown'
<1>0. KernelTypeOK
  BY DEF TypeOK
<1>1. CASE Program
  BY <1>0, <1>1, ProgramKeepsPast DEF Program
<1>2. CASE Forwarder \/ UNCHANGED vars
  BY <1>2 DEF Forwarder, ctrl_c, forward_sigint, vars, kernelVars, PastIsShown
<1>3. CASE Command \/ Wait
  <2>1. RipLowers
    BY <1>3, TdbRip
  <2>2. ASSUME NEW dying, Perish(dying, "signaled") PROVE PastIsShown'
    BY <1>0, <2>2, PerishKeepsPast DEF Ends
  <2>3. ASSUME NEW c \in Tids, start_forks(c) PROVE PastIsShown'
    BY <1>0, <2>3 DEF start_forks, PastIsShown, KernelTypeOK, Resumptions
  <2> QED BY <1>0, <1>3, <2>1, <2>2, <2>3, CommandMoves, WaitMoves, MovesKeepPast DEF ResumesOne
<1> QED BY <1>1, <1>2, <1>3 DEF Next

-----------------------------------------------------------------------------
(* The commands, but `step` and `thread apply all`.                        *)
LEMMA CommandAttends ==
    ASSUME Int3Inv, ApplyCommands = {}, "step" \notin Commands, Command
    PROVE  (FocusSettled /\ ReleaseSettled /\ PlainModes)'
<1> DEFINE Goal == (FocusSettled /\ ReleaseSettled /\ PlainModes)'
<1> USE DEF Int3Inv, Attended, FocusSettled, FocusIsNext, ReleaseSettled, PlainModes, AttachInv
<1>0. mode = "prompt" /\ waiting = NoTid /\ KernelTypeOK
  <2>1. ASSUME NEW name, NEW n, Given(name, n) PROVE mode = "prompt"
    BY <2>1 DEF Given, TypeOK, WaitsForTask
  <2>2. mode = "prompt"
    BY <2>1 DEF Command, start, cont, stepi, resume_command, step_line, switch_thread,
                lock_thread, unlock_thread, kill, end_of_input
  <2> QED BY <2>2 DEF TypeOK
<1>1. CASE Reject
  BY <1>0, <1>1 DEF Reject, Return, kernelVars, fields, nested, Settled
<1>2. ASSUME NEW c \in Tids, start_forks(c) PROVE Goal
  <2>1. rip[c] # "past"
    BY <1>2 DEF start_forks, PastIsShown, Resumptions
  <2> QED BY <1>0, <1>2, <2>1 DEF start_forks, nested, Settled, KernelTypeOK
<1>3. ASSUME NEW name, resume_command(name), ~Reject PROVE Goal
  <2>1. current_tid \in Tids /\ UNCHANGED <<rip, fields, nested>>
    BY <1>3 DEF resume_command, Focused, StoppedThread, TypeOK, FieldsTypeOK
  <2>2. CASE rip[current_tid] = "at"
    <3>1. Resume(current_tid, "stepover") /\ mode' = "stepover" /\ apply' = apply
      BY <1>3, <2>2 DEF resume_command
    <3> QED BY <1>0, <2>1, <2>2, <3>1 DEF Resume, Settled, KernelTypeOK, fields, nested
  <2>3. CASE rip[current_tid] # "at"
    <3>1. ((exited /\ mode' = "prompt") \/ mode' = "wait") /\ apply' = apply
      BY <1>3, <2>3 DEF resume_command, ResumeFocus, Return
    <3> QED BY <1>0, <2>1, <3>1 DEF fields, nested
  <2> QED BY <2>2, <2>3
<1>4. ~step_line
  BY <1>0 DEF step_line, Given
<1>5. ASSUME NEW n, switch_thread(n) \/ lock_thread(n), ~Reject PROVE Goal
  <2>1. PICK t \in Tids : t = resolve_thread_id(n) /\ StoppedThread(t)
    BY <1>5 DEF switch_thread, lock_thread, StoppedThread, resolve_thread_id, TypeOK,
                FieldsTypeOK
  <2>2. /\ fixup_breakpoint_rip(t) /\ current_tid' = t
        /\ UNCHANGED <<run, pid, nested>> /\ mode' = "prompt" /\ apply' = apply
    BY <1>5, <2>1 DEF switch_thread, lock_thread, Return
  <2>3. run'[t] = "stopped" /\ rip'[t] # "past"
    BY <1>0, <2>1, <2>2, FixupLowers DEF StoppedThread, Stopped
  <2> QED BY <1>0, <2>2, <2>3 DEF nested, Settled
<1>6. CASE unlock_thread /\ ~Reject
  <2>1. /\ UNCHANGED <<run, rip, pid, exited, current_tid, waiting, apply>>
        /\ mode' = "release" /\ after' = "unlock" /\ todo' = threads \ {current_tid}
    BY <1>6 DEF unlock_thread, kernelVars
  <2> QED BY <1>0, <2>1 DEF Settled
<1>7. ASSUME NEW name \in {"kill", "quit"}, kill(name) PROVE Goal
  <2>1. mode' \in {"kill", "quit"} \/ (mode' = "prompt" /\ exited')
    BY <1>7 DEF kill, Forget, mark_exited, Leave, Return
  <2>2. UNCHANGED nested /\ apply' = apply
    BY <1>7 DEF kill, Leave, Return
  <2> QED BY <1>0, <2>1, <2>2 DEF nested
<1>8. CASE end_of_input
  BY <1>0, <1>8 DEF end_of_input, nested
<1> QED BY <1>1, <1>2, <1>3, <1>4, <1>5, <1>6, <1>7, <1>8 DEF Command, start, cont, stepi

(* The waits: the focus goes to a thread whose stop has just been seen to, *)
(* and a thread that release_held_thread steps is put back first.          *)
LEMMA WaitAttends ==
    ASSUME Int3Inv, Wait PROVE (FocusSettled /\ ReleaseSettled /\ PlainModes)'
<1> DEFINE Goal == (FocusSettled /\ ReleaseSettled /\ PlainModes)'
<1> USE DEF Int3Inv, Attended, FocusSettled, FocusIsNext, ReleaseSettled, PlainModes, AttachInv
<1>0. KernelTypeOK /\ mode \notin {"dispatch", "apply"}
  BY DEF TypeOK, WaitsForTask
<1>1. CASE start_waited
  <2>1. pid \in Tids /\ current_tid = pid /\ Settled(pid) /\ waiting = NoTid /\ NoTid \notin Tids
    BY <1>1, TraceesAssumption DEF start_waited, TypeOK, WaitsForTask
  <2>2. Settled(pid)'
    BY <1>0, <1>1, <2>1, MovesKeepSettled, SameRip DEF start_waited
  <2> QED BY <1>1, <2>1, <2>2 DEF start_waited, Return, nested, Settled
<1>2. CASE step_over_current_breakpoint
  <2>1. current_tid \in Tids /\ Settled(current_tid) /\ waiting = NoTid /\ NoTid \notin Tids
    BY <1>2, TraceesAssumption DEF step_over_current_breakpoint, TypeOK, WaitsForTask
  <2>2. /\ UNCHANGED <<rip, pid, current_tid, nested, apply>>
        /\ \/ mode' = "wait"
           \/ (mode' = "prompt" /\ exited')
           \/ (mode' = "prompt" /\ Consume(current_tid))
    BY <1>2 DEF step_over_current_breakpoint, mark_exited, Return, ResumeFocus
  <2>3. CASE mode' = "prompt" /\ Consume(current_tid)
    <3>1. Settled(current_tid)'
      BY <1>0, <2>1, <2>2, <2>3, MovesKeepSettled, SameRip DEF Settled
    <3> QED BY <2>1, <2>2, <2>3, <3>1 DEF nested, Settled
  <2> QED BY <2>1, <2>2, <2>3 DEF nested
<1>3. ~classify_wait /\ ~finish_undebugged_frame
  BY DEF classify_wait, finish_undebugged_frame
<1>4. ASSUME NEW t \in Tids, wait_event(t) \/ wait_initial_stop(t) \/ wait_held(t) PROVE Goal
  <2>1. mode = "wait" /\ UNCHANGED control
    BY <1>4 DEF wait_event, wait_initial_stop, wait_held, InWait
  <2> QED BY <2>1 DEF control
<1>5. ASSUME NEW t \in Tids, wait_stopped(t) PROVE Goal
  <2>1. report[t].kind \in Stops /\ Stopped(t) /\ Consume(t) /\ waiting = NoTid
    BY <1>5 DEF wait_stopped, InWait, ReportsMatch
  <2>2. run'[t] = "stopped"
    BY <1>0, <2>1 DEF Consume, Stopped, KernelTypeOK
  <2>3. rip'[t] # "past"
    BY <1>0, <1>5, <2>1, FixupLowers DEF wait_stopped, PastIsShown, Stops
  <2> QED BY <1>5, <2>1, <2>2, <2>3 DEF wait_stopped, Return, nested, Settled
<1>6. ASSUME NEW t \in Tids, wait_exited(t) PROVE Goal
  <2>1. /\ waiting = NoTid /\ waiting' = waiting /\ apply' = apply
        /\ \/ mode' = "wait"
           \/ (mode' = "prompt" /\ exited')
           \/ (mode' = "release" /\ after' = "reaped")
    BY <1>6 DEF wait_exited, InWait, Settle, mark_exited, Return
  <2> QED BY <2>1
<1>7. CASE wait_no_child
  <2>1. ASSUME current_tid \in Tids PROVE Settled(current_tid)'
    BY <1>7, <2>1 DEF wait_no_child, NoTracee, Gone, PastIsShown, Resumptions, Settled,
                       kernelVars, fields
  <2>2. current_tid \in Tids \cup {NoTid}
    BY DEF TypeOK, FieldsTypeOK
  <2> QED BY <1>7, <2>1, <2>2 DEF wait_no_child, Return, fields, nested, Settled
<1>8. ASSUME NEW t \in Tids, release_held_thread(t) PROVE Goal
  <2>1. /\ mode = "release" /\ waiting = NoTid /\ t \in todo /\ todo' = todo \ {t}
        /\ UNCHANGED <<mode, after, apply, exited, current_tid, pid>>
    BY <1>8 DEF release_held_thread, fields
  <2>2. RipLowers /\ (Still \/ \E how \in Resumptions : Resume(t, how))
    BY <1>0, <1>8, FixupLowers, SameRip DEF release_held_thread, TryResume, Still, Resumptions
  <2>3. FocusIsNext => Settled(current_tid)' /\ current_tid # t
    BY <1>0, <2>1, <2>2, MovesKeepSettled DEF TypeOK, FieldsTypeOK
  <2>4. waiting' = NoTid \/ (waiting' = t /\ Settled(t)')
    BY <1>0, <1>8, <2>1, FixupLowers DEF release_held_thread, Resume, Settled, KernelTypeOK
  <2> QED BY <2>1, <2>3, <2>4 DEF Settled
<1>9. CASE release_waited
  <2>1. waiting \in Tids /\ waiting' = NoTid /\ UNCHANGED <<mode, after, todo, apply, rip, fields>>
    BY <1>9 DEF release_waited, TypeOK, ControlTypeOK
  <2>2. Consume(waiting) \/ Resume(waiting, "running")
    BY <1>9 DEF release_waited
  <2>3. FocusIsNext => Settled(current_tid)'
    <3>1. mode = "release"
      BY <1>9 DEF release_waited
    <3>2. ASSUME FocusIsNext PROVE current_tid \in Tids \ {waiting} /\ Settled(current_tid)
      BY <3>1, <3>2 DEF TypeOK, FieldsTypeOK
    <3>3. "running" \in Resumptions
      BY DEF Resumptions
    <3> QED BY <1>0, <2>1, <2>2, <3>2, <3>3, MovesKeepSettled, SameRip DEF Settled, fields
  <2> QED BY <1>9, <2>1, <2>3 DEF release_waited, fields, Settled
<1>10. CASE released
  <2>1. /\ UNCHANGED <<run, rip, current_tid, pid, waiting, apply>>
        /\ mode = "release" /\ waiting = NoTid
    BY <1>10 DEF released, Settle, Return, kernelVars, nested
  <2>2. \/ (after = "reaped" /\ (mode' = "wait" \/ (mode' = "prompt" /\ exited')))
        \/ (after # "reaped" /\ mode' = "prompt" /\ exited' = exited)
    BY <1>10 DEF released, Settle, Return, mark_exited
  <2> QED BY <2>1, <2>2 DEF Settled
<1>11. ASSUME NEW t \in Tids, kill_reaps(t) PROVE Goal
  BY <1>11 DEF kill_reaps, nested
<1>12. CASE kill_done
  <2>1. /\ waiting = NoTid /\ UNCHANGED nested /\ apply' = apply
        /\ mode' \in {"prompt", "quit"} /\ exited'
    BY <1>12 DEF kill_done, Forget, mark_exited, Leave, Return
  <2> QED BY <2>1 DEF nested
<1> QED BY <1>0, <1>1, <1>2, <1>3, <1>4, <1>5, <1>6, <1>7, <1>8, <1>9, <1>10, <1>11, <1>12
        DEF Wait, focus_thread_for_apply, restore_focus

(* The invariant is inductive.                                             *)
LEMMA Int3Next ==
    ASSUME ApplyCommands = {}, "step" \notin Commands
    PROVE  Int3Inv /\ [Next]_vars => Int3Inv'
<1> SUFFICES ASSUME Int3Inv, [Next]_vars PROVE Int3Inv'
  OBVIOUS
<1> USE DEF Int3Inv, Attended
<1>0. KernelTypeOK /\ current_tid \in Tids \cup {NoTid} /\ waiting \in Tids \cup {NoTid}
  BY DEF AttachInv, TypeOK, FieldsTypeOK, ControlTypeOK
<1>1. AttachInv' /\ PastIsShown'
  BY AttachNext, NextKeepsPast DEF AttachInv, PlainModes
<1>2. ASSUME Program \/ Forwarder \/ UNCHANGED vars
      PROVE  (FocusSettled /\ ReleaseSettled /\ PlainModes)'
  <2>1. UNCHANGED <<fields, control>>
    BY <1>2 DEF Program, Forwarder, ctrl_c, forward_sigint, vars
  <2>2. \A t \in Tids : Settled(t) => Settled(t)'
    <3>1. CASE Program
      BY <1>0, <3>1, ProgramKeepsPast DEF Program
    <3>2. CASE Forwarder \/ UNCHANGED vars
      BY <3>2 DEF Forwarder, ctrl_c, forward_sigint, vars, kernelVars, Settled
    <3> QED BY <1>2, <3>1, <3>2
  <2>3. FocusSettled'
    BY <1>0, <2>1, <2>2 DEF FocusSettled, FocusIsNext, Settled, fields, control
  <2>4. ReleaseSettled'
    BY <1>0, <2>1, <2>2 DEF ReleaseSettled, FocusIsNext, Settled, fields, control
  <2>5. PlainModes'
    BY <2>1 DEF PlainModes, fields, control
  <2> QED BY <2>3, <2>4, <2>5
<1>3. ASSUME Command \/ Wait PROVE (FocusSettled /\ ReleaseSettled /\ PlainModes)'
  BY <1>3, CommandAttends, WaitAttends
<1> QED BY <1>1, <1>2, <1>3 DEF Next

(* It holds initially.                                                     *)
LEMMA Int3Init == Init => Int3Inv
<1>1. ASSUME Init PROVE ReportsMatch /\ KnownAreBorn /\ AttachStopAccounted
  BY <1>1 DEF Init, KernelInit, ReportsMatch, KnownAreBorn, AttachStopAccounted, Quiet, Stops,
              Ends, Births0
<1>2. ASSUME Init PROVE Attended
  BY <1>2 DEF Init, KernelInit, NoApply, Attended, PastIsShown, FocusSettled, FocusIsNext,
              ReleaseSettled, PlainModes
<1> QED BY <1>1, <1>2, InitType DEF Int3Inv, AttachInv

(* A stopped thread that is past an int3 and set going from there.         *)
LosesInt3(t) == Stopped(t) /\ rip[t] = "past" /\ Running(t)' /\ rip'[t] = "past"

(* What is resumed is the focus, a thread whose event or attach has come,  *)
(* or one that release_held_thread puts back first.                        *)
LEMMA TdbAvoidsInt3 ==
    ASSUME Int3Inv, ApplyCommands = {}, "step" \notin Commands, Command \/ Wait,
           NEW t \in threads \ pending_initial_stop
    PROVE  ~LosesInt3(t)
<1> SUFFICES ASSUME LosesInt3(t) PROVE FALSE
  OBVIOUS
<1> USE DEF Int3Inv, Attended, AttachInv, PlainModes
<1>1. KernelTypeOK /\ t \in Tids /\ mode \notin {"dispatch", "apply"}
  BY DEF TypeOK, FieldsTypeOK, WaitsForTask
<1>2. ASSUME NEW u \in Tids, NEW how, Resume(u, how) PROVE u = t
  BY <1>1, <1>2 DEF Resume, LosesInt3, Running, Stopped
<1>3. ASSUME NEW u \in Tids, TryResume(u) PROVE u = t
  BY <1>2, <1>3 DEF TryResume, LosesInt3, Running, Stopped
<1>4. ~Still
  BY DEF Still, LosesInt3, Running, Stopped
<1>5. ASSUME NEW u \in Tids, Consume(u) PROVE FALSE
  BY <1>1, <1>5 DEF Consume, LosesInt3, Running, Stopped, KernelTypeOK
<1>6. ASSUME Command PROVE FALSE
  <2>1. ASSUME NEW dying, Perish(dying, "signaled") PROVE FALSE
    BY <1>1, <2>1 DEF Perish, LosesInt3, Running, Stopped
  <2>2. ASSUME NEW c \in Tids, start_forks(c) PROVE FALSE
    BY <1>1, <2>2 DEF start_forks, LosesInt3, Running, Stopped, KernelTypeOK
  <2>3. ASSUME NEW name, resume_command(name) PROVE FALSE
    <3>1. ~Reject
      BY <1>4 DEF Reject, Still, kernelVars
    <3>2. current_tid \in Tids /\ NoTid \notin Tids /\ UNCHANGED rip /\ mode = "prompt"
      BY <2>3, <3>1, TraceesAssumption DEF resume_command, Focused, StoppedThread, Given, TypeOK,
                                           FieldsTypeOK, WaitsForTask
    <3>3. CASE rip[current_tid] = "at"
      BY <1>2, <2>3, <3>1, <3>2, <3>3 DEF resume_command, LosesInt3
    <3>4. CASE rip[current_tid] # "at"
      <4>1. ~exited /\ \E how : Resume(current_tid, how)
        BY <1>4, <2>3, <3>1, <3>4 DEF resume_command, ResumeFocus, Still
      <4>2. Settled(current_tid)
        BY <3>2, <4>1 DEF FocusSettled, FocusIsNext
      <4> QED BY <1>2, <3>2, <4>1, <4>2 DEF Settled, LosesInt3
    <3> QED BY <3>3, <3>4
  <2>4. ~step_line
    BY <1>1 DEF step_line, Given
  <2>5. ASSUME NEW n, switch_thread(n) \/ lock_thread(n) PROVE FALSE
    BY <1>4, <2>5 DEF switch_thread, lock_thread, Reject, Still, kernelVars
  <2>6. ASSUME NEW name, kill(name) PROVE FALSE
    BY <1>4, <2>1, <2>6 DEF kill, Still
  <2>7. ~unlock_thread /\ ~end_of_input
    BY <1>4 DEF unlock_thread, end_of_input, Reject, Still, kernelVars
  <2>8. ASSUME start PROVE FALSE
    BY <1>4, <2>2, <2>8 DEF start, Reject, Still, kernelVars
  <2> QED BY <1>6, <2>3, <2>4, <2>5, <2>6, <2>7, <2>8 DEF Command, cont, stepi
<1>7. ASSUME Wait PROVE FALSE
  <2>1. ~start_waited
    BY <1>5 DEF start_waited, TypeOK, WaitsForTask
  <2>2. ASSUME step_over_current_breakpoint PROVE FALSE
    <3>1. current_tid \in Tids /\ NoTid \notin Tids /\ UNCHANGED rip
      BY <2>2, TraceesAssumption DEF step_over_current_breakpoint, TypeOK, WaitsForTask
    <3>2. Settled(current_tid)
      BY <2>2, <3>1 DEF step_over_current_breakpoint, FocusSettled, FocusIsNext
    <3>3. \E how : Resume(current_tid, how)
      BY <1>4, <1>5, <2>2, <3>1 DEF step_over_current_breakpoint, ResumeFocus, Still
    <3> QED BY <1>2, <3>1, <3>2, <3>3 DEF Settled, LosesInt3
  <2>3. ~classify_wait /\ ~finish_undebugged_frame
    BY DEF classify_wait, finish_undebugged_frame
  <2>4. ASSUME NEW u \in Tids, wait_event(u) PROVE FALSE
    <3>1. rip[u] # "past"
      BY <2>4 DEF wait_event, PastIsShown
    <3>2. TryResume(u)
      BY <1>5, <2>4 DEF wait_event, resume_or_hold
    <3> QED BY <1>3, <3>1, <3>2 DEF LosesInt3
  <2>5. ASSUME NEW u \in Tids, wait_initial_stop(u) PROVE FALSE
    <3>1. Skips(u) /\ TryResume(u)
      BY <1>5, <2>5 DEF wait_initial_stop, resume_or_hold
    <3> QED BY <1>3, <3>1 DEF Skips
  <2>6. ASSUME NEW u \in Tids, wait_held(u) \/ wait_stopped(u) \/ wait_exited(u) \/ kill_reaps(u)
        PROVE  FALSE
    BY <1>5, <2>6 DEF wait_held, wait_stopped, wait_exited, kill_reaps
  <2>7. ~wait_no_child /\ ~released /\ ~kill_done
    BY <1>4 DEF wait_no_child, released, kill_done, Still, kernelVars
  <2>8. ASSUME NEW u \in Tids, release_held_thread(u) PROVE FALSE
    <3>1. CASE Stopped(u) /\ rip[u] = "past"
      BY <1>1, <1>2, <2>8, <3>1, FixupLowers DEF release_held_thread, LosesInt3
    <3>2. CASE ~(Stopped(u) /\ rip[u] = "past")
      BY <1>3, <2>8, <3>2 DEF release_held_thread, LosesInt3
    <3> QED BY <3>1, <3>2
  <2>9. ASSUME release_waited PROVE FALSE
    <3>1. waiting \in Tids /\ Settled(waiting)
      BY <2>9 DEF release_waited, ReleaseSettled, TypeOK, ControlTypeOK
    <3>2. Resume(waiting, "running")
      BY <1>5, <2>9, <3>1 DEF release_waited
    <3> QED BY <1>2, <3>1, <3>2 DEF Settled, LosesInt3
  <2>10. ASSUME NEW n, focus_thread_for_apply(n) PROVE FALSE
    BY <1>1, <2>10 DEF focus_thread_for_apply
  <2>11. ~restore_focus
    BY <1>1 DEF restore_focus
  <2> QED BY <1>7, <2>1, <2>2, <2>3, <2>4, <2>5, <2>6, <2>7, <2>8, <2>9, <2>10, <2>11 DEF Wait
<1> QED BY <1>6, <1>7

(* Without `step` and `thread apply all`, whatever runs, dies and is       *)
(* interrupted: a thread that tdb has seen attached and that stopped one   *)
(* byte past an int3 is never set going from there, by `continue`,         *)
(* `stepi`, the end of a lock or a new thread's events                     *)
(* (fixup_breakpoint_rip, release_held_thread).                            *)
THEOREM Int3NeverSkipped ==
    ASSUME ApplyCommands = {}, "step" \notin Commands
    PROVE  Spec => AttachedNeverResumedPastInt3
<1>1. Int3Inv /\ [Next]_vars => Int3Inv'
  BY Int3Next
<1>2. ASSUME Int3Inv, [Next]_vars, NEW t \in threads \ pending_initial_stop PROVE ~LosesInt3(t)
  <2>1. t \in Tids /\ KernelTypeOK
    BY <1>2 DEF Int3Inv, AttachInv, TypeOK, FieldsTypeOK
  <2>2. CASE Command \/ Wait
    BY <1>2, <2>2, TdbAvoidsInt3
  <2>3. CASE Program
    BY <2>1, <2>3, ProgramHolds DEF Program, LosesInt3
  <2>4. CASE Forwarder \/ UNCHANGED vars
    BY <2>4, ForwarderMoves DEF Still, LosesInt3, Running, Stopped
  <2> QED BY <1>2, <2>2, <2>3, <2>4 DEF Next
<1>3. Int3Inv /\ [Next]_vars =>
          [\A t \in threads \ pending_initial_stop :
              Stopped(t) /\ rip[t] = "past" => ~(Running(t)' /\ rip'[t] = "past")]_vars
  BY <1>2 DEF LosesInt3
<1> QED BY Int3Init, <1>1, <1>3, PTL DEF Spec, AttachedNeverResumedPastInt3

-----------------------------------------------------------------------------
(* Sessions in which no thread is locked.                                  *)
NobodyLocked ==
    /\ ~apply.on /\ locked_tid = NoTid
    /\ mode \notin {"release", "dispatch", "apply"}

(* Only `lock` begins one, and a release needs one to end.                 *)
LEMMA NobodyLockedNext ==
    ASSUME ApplyCommands = {}, "lock" \notin Commands, NobodyLocked, [Next]_vars
    PROVE  NobodyLocked'
<1> USE DEF NobodyLocked
<1>1. ASSUME Command PROVE NobodyLocked'
  <2>1. CASE Reject
    BY <2>1 DEF Reject, Return, fields
  <2>2. ASSUME NEW c \in Tids, start_forks(c) PROVE NobodyLocked'
    BY <2>2 DEF start_forks
  <2>3. ASSUME NEW name, resume_command(name), ~Reject PROVE NobodyLocked'
    BY <2>3 DEF resume_command, ResumeFocus, Return, fields
  <2>4. CASE step_line /\ ~Reject
    BY <2>4 DEF step_line, single_step_raw, fields
  <2>5. ASSUME NEW n, switch_thread(n), ~Reject PROVE NobodyLocked'
    BY <2>5 DEF switch_thread, Return
  <2>6. ASSUME NEW n PROVE ~lock_thread(n)
    BY DEF lock_thread, Given
  <2>7. ASSUME NEW name \in {"kill", "quit"}, kill(name) PROVE NobodyLocked'
    BY <2>7 DEF kill, Forget, Leave, Return, fields
  <2>8. CASE end_of_input
    BY <2>8 DEF end_of_input, fields
  <2> QED BY <1>1, <2>1, <2>2, <2>3, <2>4, <2>5, <2>6, <2>7, <2>8
          DEF Command, start, cont, stepi, unlock_thread
<1>2. ASSUME Wait PROVE NobodyLocked'
  <2>1. CASE start_waited \/ wait_no_child
    BY <2>1 DEF start_waited, wait_no_child, Return, fields
  <2>2. CASE step_over_current_breakpoint
    BY <2>2 DEF step_over_current_breakpoint, Return, ResumeFocus
  <2>3. CASE classify_wait \/ finish_undebugged_frame
    BY <2>3 DEF classify_wait, finish_undebugged_frame, single_step_raw, Return
  <2>4. ASSUME NEW t \in Tids, wait_event(t) \/ wait_initial_stop(t) \/ wait_held(t)
        PROVE  NobodyLocked'
    BY <2>4 DEF wait_event, wait_initial_stop, wait_held, control, fields
  <2>5. ASSUME NEW t \in Tids, wait_stopped(t) PROVE NobodyLocked'
    BY <2>5 DEF wait_stopped, Return
  <2>6. ASSUME NEW t \in Tids, wait_exited(t) PROVE NobodyLocked'
    <3>1. locked_tid # t
      BY TraceesAssumption
    <3> QED BY <2>6, <3>1 DEF wait_exited, Settle, Return
  <2>7. ASSUME NEW t \in Tids, kill_reaps(t) PROVE NobodyLocked'
    BY <2>7 DEF kill_reaps, fields
  <2>8. CASE kill_done
    BY <2>8 DEF kill_done, Forget, Leave, Return
  <2> QED BY <1>2, <2>1, <2>2, <2>3, <2>4, <2>5, <2>6, <2>7, <2>8
          DEF Wait, release_held_thread, release_waited, released, focus_thread_for_apply,
              restore_focus
<1>3. ASSUME Program \/ Forwarder \/ UNCHANGED vars PROVE NobodyLocked'
  BY <1>3 DEF Program, Forwarder, ctrl_c, forward_sigint, vars, fields, control
<1> QED BY <1>1, <1>2, <1>3 DEF Next

-----------------------------------------------------------------------------
(* The pid the forwarder thread signals.                                   *)

(* No program, or a `run` whose execve failed, and start() has bailed out: *)
(* no thread is known that a command could resume.                         *)
Lost == mode \in {"prompt", "quit"} /\ threads = {} /\ current_tid = pid

(* Until the session is over, and until kill() reaps it, the one process   *)
(* is not reaped but by a `run` that failed.  Where there are breakpoints  *)
(* it does not die by a signal, which step_over_current_breakpoint would   *)
(* consume without ending the session.                                     *)
TargetKept ==
    /\ DEBUGGEE_PID \in {NoTid, pid}
    /\ ~exited => DEBUGGEE_PID = pid
    /\ mode = "wait" => ~exited
    /\ pid = NoTid => Lost
    /\ processes \subseteq {pid}
    /\ DEBUGGEE_PID # NoTid /\ mode # "kill" =>
           /\ run[DEBUGGEE_PID] = "reaped" => Lost
           /\ Breakpoint => report[DEBUGGEE_PID].kind # "signaled"

(* Nobody forks, a task that was not born leads no process, and the        *)
(* process being started has one thread, which nobody knows yet.           *)
OneProcess ==
    /\ \A t \in Tids : report[t].kind # "fork"
    /\ \A t \in Tids : leader[t] \in Tids => run[leader[t]] # "unborn"
    /\ mode = "start" => threads = {} /\ current_tid = pid

(* Without a breakpoint there is no step over one.                         *)
NoInt3 == ~Breakpoint => mode # "stepover" /\ \A t \in Tids : rip[t] = "off"

SigintInv == AttachInv /\ ThreadTable /\ NobodyLocked /\ TargetKept /\ OneProcess /\ NoInt3

(* What moves rip puts it at a breakpoint, or past one, only if it was     *)
(* there or there are breakpoints.                                         *)
LEMMA NoInt3Next ==
    ASSUME TypeOK, NoInt3, [Next]_vars PROVE NoInt3'
<1> SUFFICES ASSUME ~Breakpoint PROVE NoInt3'
  BY DEF NoInt3
<1> USE DEF NoInt3
<1>0. mode # "stepover" /\ rip = [t \in Tids |-> "off"]
  BY DEF TypeOK, KernelTypeOK
<1>1. ASSUME NEW t, fixup_breakpoint_rip(t) PROVE rip' = rip
  BY <1>0, <1>1 DEF fixup_breakpoint_rip
<1>2. ASSUME NEW end, NEW dying, Perish(dying, end) PROVE rip' = rip
  BY <1>0, <1>2 DEF Perish
<1>3. CASE Command
  <2> DEFINE Quietly == rip' = rip /\ mode' # "stepover"
  <2> USE <1>0 DEF Reject, Return, kernelVars, fields
  <2>1. ASSUME NEW c \in Tids, start_forks(c) PROVE Quietly
    BY <2>1 DEF start_forks
  <2>2. CASE start /\ ~\E c \in Tids : start_forks(c)
    BY <2>2 DEF start
  <2>3. ASSUME NEW name, resume_command(name) PROVE Quietly
    <3>1. rip' = rip
      BY <2>3 DEF resume_command
    <3>2. CASE ~Focused
      BY <2>3, <3>2 DEF resume_command
    <3>3. CASE Focused
      <4>1. current_tid \in Tids
        BY <3>3 DEF Focused, StoppedThread, TypeOK, FieldsTypeOK
      <4>2. ResumeFocus(HowOf(name))
        BY <2>3, <3>3, <4>1 DEF resume_command
      <4> QED BY <3>1, <4>2 DEF ResumeFocus
    <3> QED BY <3>2, <3>3
  <2>4. CASE step_line
    BY <2>4 DEF step_line, single_step_raw
  <2>5. ASSUME NEW n, switch_thread(n) \/ lock_thread(n) PROVE Quietly
    BY <2>5, <1>1 DEF switch_thread, lock_thread
  <2>6. CASE unlock_thread \/ end_of_input
    BY <2>6 DEF unlock_thread, end_of_input
  <2>7. ASSUME NEW name, kill(name) PROVE Quietly
    BY <2>7, <1>2 DEF kill, Leave
  <2>8. ASSUME NEW cmd, thread_apply_all(cmd) PROVE Quietly
    BY <2>8 DEF thread_apply_all
  <2> QED BY <1>3, <2>1, <2>2, <2>3, <2>4, <2>5, <2>6, <2>7, <2>8 DEF Command, cont, stepi, start
<1>4. CASE Wait
  <2> DEFINE Quietly == rip' = rip /\ mode' # "stepover"
  <2> USE <1>0 DEF Return, kernelVars, control, fields
  <2>1. CASE start_waited \/ wait_no_child \/ step_over_current_breakpoint
    BY <2>1 DEF start_waited, wait_no_child, step_over_current_breakpoint
  <2>2. CASE classify_wait
    BY <2>2, <1>1 DEF classify_wait, single_step_raw
  <2>3. CASE finish_undebugged_frame
    <3>1. current_tid \in Tids
      BY <2>3 DEF finish_undebugged_frame, TypeOK, WaitsForTask
    <3> QED BY <2>3, <3>1 DEF finish_undebugged_frame, single_step_raw
  <2>4. ASSUME NEW t \in Tids, wait_event(t) \/ wait_initial_stop(t) \/ wait_held(t)
        PROVE  Quietly
    BY <2>4 DEF wait_event, wait_initial_stop, wait_held
  <2>5. ASSUME NEW t \in Tids, wait_stopped(t) PROVE Quietly
    BY <2>5, <1>1 DEF wait_stopped
  <2>6. ASSUME NEW t \in Tids, wait_exited(t) PROVE Quietly
    BY <2>6 DEF wait_exited, Settle
  <2>7. ASSUME NEW t \in Tids, kill_reaps(t) PROVE Quietly
    BY <2>7 DEF kill_reaps
  <2>8. CASE kill_done \/ restore_focus
    BY <2>8 DEF kill_done, Leave, restore_focus
  <2>9. CASE released \/ release_waited
    BY <2>9 DEF released, release_waited, Settle
  <2>10. ASSUME NEW t \in Tids, release_held_thread(t) PROVE Quietly
    BY <2>10, <1>1 DEF release_held_thread
  <2>11. ASSUME NEW n, focus_thread_for_apply(n) PROVE Quietly
    BY <2>11, <1>1 DEF focus_thread_for_apply
  <2> QED BY <1>4, <2>1, <2>2, <2>3, <2>4, <2>5, <2>6, <2>7, <2>8, <2>9, <2>10, <2>11 DEF Wait
<1>5. CASE Program
  <2>1. PICK t \in Tids : ProgramStep(t)
    BY <1>5 DEF Program
  <2>2. \A u \in Tids : rip'[u] = "off"
    BY <2>1, <1>0, <1>2 DEF ProgramStep, Exec, ExecFails, HitBreakpoint, StepTrap, GiveBirth,
                            TakeSignal, ThreadExit, GroupExit
  <2> QED BY <1>5, <1>0, <2>2 DEF Program, control
<1>6. CASE Forwarder \/ UNCHANGED vars
  BY <1>6, <1>0 DEF Forwarder, ctrl_c, forward_sigint, vars, kernelVars, control
<1> QED BY <1>3, <1>4, <1>5, <1>6 DEF Next

(* Reports change kind to "fork" only by a fork.                           *)
LEMMA MovesKeepForks ==
    ASSUME KernelTypeOK, \A t \in Tids : report[t].kind # "fork",
           \/ Still
           \/ \E t \in Tids, how \in Resumptions : Resume(t, how)
           \/ \E t \in Tids : Consume(t)
           \/ \E end \in Ends : \E dying : Perish(dying, end)
           \/ \E t \in Tids, k \in Stops : Stop(t, Report(k))
    PROVE  \A t \in Tids : report'[t].kind # "fork"
<1> USE DEF KernelTypeOK
<1>1. Quiet.kind = "none" /\ \A k : Report(k).kind = k
  BY DEF Quiet, Report
<1>2. CASE Still
  BY <1>2 DEF Still
<1>3. ASSUME NEW t \in Tids, NEW how, Resume(t, how) PROVE \A u \in Tids : report'[u].kind # "fork"
  BY <1>1, <1>3 DEF Resume
<1>4. ASSUME NEW t \in Tids, Consume(t) PROVE \A u \in Tids : report'[u].kind # "fork"
  BY <1>1, <1>4 DEF Consume
<1>5. ASSUME NEW end \in Ends, NEW dying, Perish(dying, end)
      PROVE \A u \in Tids : report'[u].kind # "fork"
  BY <1>1, <1>5 DEF Perish, Ends
<1>6. ASSUME NEW t \in Tids, NEW k \in Stops, Stop(t, Report(k))
      PROVE \A u \in Tids : report'[u].kind # "fork"
  BY <1>1, <1>6 DEF Stop, Stops
<1> QED BY <1>2, <1>3, <1>4, <1>5, <1>6

(* A task is reaped only when waitpid reports its end, and is not killed   *)
(* by a signal meanwhile.                                                  *)
LEMMA MovesKeepTarget ==
    ASSUME KernelTypeOK, ReportsMatch, NEW d \in Tids,
           \/ Still
           \/ \E t \in Tids, how \in Resumptions : Resume(t, how)
           \/ \E t \in Tids : /\ Consume(t) /\ report[t] # Quiet
                              /\ t # d \/ report[t].kind \notin Ends
    PROVE  /\ run'[d] = "reaped" => run[d] = "reaped"
           /\ report'[d].kind = "signaled" => report[d].kind = "signaled"
<1> USE DEF KernelTypeOK
<1> DEFINE Keeps == /\ run'[d] = "reaped" => run[d] = "reaped"
                    /\ report'[d].kind = "signaled" => report[d].kind = "signaled"
<1>1. Quiet.kind = "none"
  BY DEF Quiet
<1>2. CASE Still
  BY <1>2 DEF Still
<1>3. ASSUME NEW t \in Tids, NEW how \in Resumptions, Resume(t, how) PROVE Keeps
  BY <1>1, <1>3 DEF Resume, Resumptions
<1>4. ASSUME NEW t \in Tids, Consume(t), report[t] # Quiet, t # d PROVE Keeps
  BY <1>4 DEF Consume
<1>5. ASSUME Consume(d), report[d] # Quiet, report[d].kind \notin Ends PROVE Keeps
  <2>1. report[d].kind \in Stops \cup Births0
    BY <1>5 DEF Reports, Quiet, Report, Event, Stops, Ends, Births0
  <2>2. run[d] # "zombie"
    BY <2>1 DEF ReportsMatch, Stopped
  <2> QED BY <1>1, <1>5, <2>2 DEF Consume
<1> QED BY <1>2, <1>3, <1>4, <1>5

(* No wait touches the processes that the tasks belong to, nor begins a    *)
(* `run`.                                                                  *)
LEMMA WaitLeader ==
    ASSUME Wait PROVE leader' = leader /\ mode' # "start"
<1> DEFINE Quietly == leader' = leader /\ mode' # "start"
<1> USE DEF Return, kernelVars, control
<1>1. CASE start_waited \/ wait_no_child
  BY <1>1 DEF start_waited, wait_no_child
<1>2. CASE step_over_current_breakpoint \/ classify_wait \/ finish_undebugged_frame
  BY <1>2 DEF step_over_current_breakpoint, classify_wait, finish_undebugged_frame,
              ResumeFocus, single_step_raw
<1>3. ASSUME NEW t \in Tids, wait_event(t) \/ wait_initial_stop(t) \/ wait_held(t)
      PROVE  Quietly
  BY <1>3 DEF wait_event, wait_initial_stop, wait_held, InWait
<1>4. ASSUME NEW t \in Tids, wait_stopped(t) \/ wait_exited(t) \/ kill_reaps(t) PROVE Quietly
  BY <1>4 DEF wait_stopped, wait_exited, kill_reaps, Settle
<1>5. CASE kill_done \/ restore_focus
  BY <1>5 DEF kill_done, Leave, restore_focus
<1>6. CASE released \/ release_waited
  BY <1>6 DEF released, release_waited, Settle
<1>7. ASSUME NEW t \in Tids, release_held_thread(t) PROVE Quietly
  BY <1>7 DEF release_held_thread
<1>8. ASSUME NEW n, focus_thread_for_apply(n) PROVE Quietly
  BY <1>8 DEF focus_thread_for_apply
<1> QED BY <1>1, <1>2, <1>3, <1>4, <1>5, <1>6, <1>7, <1>8 DEF Wait

(* What the program does to leaders: a thread belongs to the process of    *)
(* its creator.                                                            *)
LEMMA ProgramKeepsOne ==
    ASSUME SigintInv, "fork" \notin Births, Breakpoint => "signaled" \notin Deaths, Program
    PROVE  TargetKept' /\ OneProcess'
<1> USE DEF SigintInv, AttachInv, TypeOK, KernelTypeOK
<1>1. PICK u \in Tids : ProgramStep(u)
  BY DEF Program
<1>2. TasksKept /\ UNCHANGED <<fields, mode>>
  BY <1>1, ProgramKeepsTasks DEF Program, control
<1>3. Births \subseteq {"clone"} /\ NoTid \notin Tids
  BY TraceesAssumption
<1>4. \A k : Report(k).kind = k
  BY DEF Report
<1>5. ASSUME NEW c \in Tids, NEW kind \in Births, GiveBirth(u, c, kind)
      PROVE  /\ kind = "clone" /\ u # c /\ run[c] = "unborn" /\ MayExecute(u)
             /\ run' = [run EXCEPT ![u] = "stopped", ![c] = "stopped"]
             /\ report' = [report EXCEPT ![u] = Event("clone", c), ![c] = Report("initial")]
             /\ leader' = [leader EXCEPT ![c] = leader[u]]
  BY <1>3, <1>5 DEF GiveBirth, MayExecute, Running
<1>6. \/ leader' = leader
      \/ \E c \in Tids, kind \in Births : GiveBirth(u, c, kind)
  BY <1>1 DEF ProgramStep, Exec, ExecFails, HitBreakpoint, StepTrap, TakeSignal, ThreadExit,
              GroupExit
<1>7. \/ \E k \in Stops : Stop(u, Report(k))
      \/ \E end \in Ends : (Breakpoint => end # "signaled") /\ \E dying : Perish(dying, end)
      \/ \E c \in Tids, kind \in Births : GiveBirth(u, c, kind)
  <2>1. ASSUME ExecFails(u) \/ ThreadExit(u)
        PROVE  "exited" \in Ends /\ \E dying : Perish(dying, "exited")
    BY <2>1 DEF ExecFails, ThreadExit, Ends
  <2>2. ASSUME NEW end \in Deaths, GroupExit(u, end)
        PROVE  /\ end \in Ends
               /\ Breakpoint => end # "signaled"
               /\ \E dying : Perish(dying, end)
    BY <2>2 DEF GroupExit
  <2>3. \/ \E k \in Stops : Stop(u, Report(k))
        \/ ExecFails(u) \/ ThreadExit(u) \/ \E end \in Deaths : GroupExit(u, end)
        \/ \E c \in Tids, kind \in Births : GiveBirth(u, c, kind)
    BY <1>1 DEF ProgramStep, Exec, HitBreakpoint, StepTrap, TakeSignal, Stops
  <2> QED BY <2>1, <2>2, <2>3
<1>8. ASSUME NEW d \in Tids
      PROVE  /\ run'[d] = "reaped" => run[d] = "reaped"
             /\ Breakpoint /\ report'[d].kind = "signaled" => report[d].kind = "signaled"
  <2> DEFINE Keeps == /\ run'[d] = "reaped" => run[d] = "reaped"
                      /\ Breakpoint /\ report'[d].kind = "signaled" => report[d].kind = "signaled"
  <2>1. ASSUME NEW k \in Stops, Stop(u, Report(k)) PROVE Keeps
    BY <1>4, <2>1 DEF Stop, Stops
  <2>2. ASSUME NEW end \in Ends, Breakpoint => end # "signaled", NEW dying, Perish(dying, end)
        PROVE  Keeps
    BY <1>4, <2>2 DEF Perish
  <2>3. ASSUME NEW c \in Tids, NEW kind \in Births, GiveBirth(u, c, kind) PROVE Keeps
    BY <1>4, <1>5, <2>3 DEF Event
  <2> QED BY <1>7, <2>1, <2>2, <2>3
<1>9. TargetKept'
  <2>1. UNCHANGED <<pid, exited, threads, current_tid, processes, DEBUGGEE_PID, mode>>
    BY <1>2 DEF fields
  <2>2. DEBUGGEE_PID \in Tids \cup {NoTid}
    BY DEF FieldsTypeOK
  <2> QED BY <1>8, <2>1, <2>2 DEF TargetKept, Lost
<1>10. \A t \in Tids : report'[t].kind # "fork"
  <2>1. ASSUME NEW c \in Tids, NEW kind \in Births, GiveBirth(u, c, kind)
        PROVE  \A t \in Tids : report'[t].kind # "fork"
    BY <1>4, <1>5, <2>1 DEF Event, OneProcess
  <2>2. KernelTypeOK /\ \A t \in Tids : report[t].kind # "fork"
    BY DEF OneProcess
  <2> QED BY <1>7, <2>1, <2>2, MovesKeepForks
<1>11. \A t \in Tids : leader'[t] \in Tids => run'[leader'[t]] # "unborn"
  <2>1. \A t \in Tids : run[t] # "unborn" => run'[t] # "unborn"
    BY <1>2 DEF TasksKept
  <2>2. \A t \in Tids : leader'[t] = leader[t] \/ leader'[t] = leader[u]
    BY <1>5, <1>6
  <2> QED BY <2>1, <2>2 DEF OneProcess
<1>12. OneProcess'
  BY <1>2, <1>10, <1>11 DEF OneProcess, fields
<1> QED BY <1>9, <1>12

(* kill and quit have come back.                                           *)
Forgotten == Forget /\ mode' \in {"prompt", "quit"}

(* There every command is refused, but for run, kill and quit.             *)
LEMMA LostStays ==
    ASSUME TypeOK, ThreadTable, NobodyLocked, Lost, pid = NoTid \/ run[pid] = "reaped",
           mode = "prompt", ApplyCommands = {}, Command, ~\E c \in Tids : start_forks(c)
    PROVE  Forgotten \/ (mode' = "kill" /\ pid # NoTid) \/ Lost'
<1>1. ~Focused /\ \A n : ~StoppedThread(resolve_thread_id(n))
  <2>1. ~Focused
    BY DEF Focused, StoppedThread, Stopped, Lost
  <2>2. \A n : resolve_thread_id(n) = NoTid
    BY ResolvedIsKnown DEF Lost
  <2> QED BY <2>1, <2>2 DEF StoppedThread
<1>2. CASE Reject
  BY <1>2 DEF Reject, Return, fields, NobodyLocked, Lost
<1>3. CASE ~Reject
  <2>1. ASSUME NEW name \in {"kill", "quit"}, kill(name)
        PROVE  Forgotten \/ (mode' = "kill" /\ pid # NoTid) \/ Lost'
    BY <2>1 DEF kill, Leave, Return, fields, NobodyLocked, Lost, is_running, Forgotten
  <2>2. CASE end_of_input
    BY <2>2 DEF end_of_input, fields, Lost
  <2> QED BY <1>1, <1>3, <2>1, <2>2
          DEF Command, start, cont, stepi, resume_command, step_line, switch_thread, lock_thread,
              unlock_thread, NobodyLocked
<1> QED BY <1>2, <1>3

(* The commands: run forks a task that was not born, and kill waits in a   *)
(* loop of its own.                                                        *)
LEMMA CommandKeepsOne ==
    ASSUME SigintInv, ApplyCommands = {}, "lock" \notin Commands, Command
    PROVE  TargetKept' /\ OneProcess'
<1> USE DEF SigintInv, AttachInv, TypeOK, KernelTypeOK
<1>0. mode = "prompt" /\ NoTid \notin Tids
  <2>1. ASSUME NEW name, NEW n, Given(name, n) PROVE mode = "prompt"
    BY <2>1 DEF Given, NobodyLocked
  <2>2. mode = "prompt"
    BY <2>1 DEF Command, start, cont, stepi, resume_command, step_line, switch_thread,
                lock_thread, unlock_thread, kill, end_of_input
  <2> QED BY <2>2, TraceesAssumption
<1>1. TasksKept
  BY NextKeepsTasks DEF Next
<1>2. ASSUME NEW c \in Tids, start_forks(c) PROVE TargetKept' /\ OneProcess'
  <2>1. report[c].kind \notin Ends
    BY <1>2 DEF start_forks, ReportsMatch
  <2>2. TargetKept'
    BY <1>0, <1>2, <2>1 DEF start_forks, TargetKept, Ends
  <2>3. OneProcess'
    BY <1>2 DEF start_forks, OneProcess
  <2> QED BY <2>2, <2>3
<1>3. CASE ~\E c \in Tids : start_forks(c)
  <2> DEFINE Quietly == /\ leader' = leader /\ mode' # "start"
                        /\ UNCHANGED <<pid, exited, processes, DEBUGGEE_PID>> \/ Forgotten
                        /\ mode' = "wait" => ~exited
  <2>1. Quietly
    <3> USE <1>0, <1>3 DEF Reject, Return, kernelVars, fields, tables
    <3>1. CASE start
      BY <3>1 DEF start
    <3>2. ASSUME NEW name, resume_command(name) PROVE Quietly
      BY <3>2 DEF resume_command, ResumeFocus
    <3>3. CASE step_line
      BY <3>3 DEF step_line, single_step_raw
    <3>4. ASSUME NEW n, switch_thread(n) \/ lock_thread(n) PROVE Quietly
      BY <3>4 DEF switch_thread, lock_thread
    <3>5. CASE unlock_thread \/ end_of_input
      BY <3>5 DEF unlock_thread, end_of_input
    <3>6. ASSUME NEW name, kill(name) PROVE Quietly
      BY <3>6 DEF kill, Leave, Forgotten, NobodyLocked
    <3> QED BY <3>1, <3>2, <3>3, <3>4, <3>5, <3>6 DEF Command, cont, stepi
  <2>2. \A t \in Tids : report'[t].kind # "fork"
    <3>1. KernelTypeOK /\ (\A t \in Tids : report[t].kind # "fork") /\ "signaled" \in Ends
      BY DEF OneProcess, Ends
    <3> QED BY <1>3, <3>1, CommandMoves, MovesKeepForks DEF ResumesOne
  <2>3. OneProcess'
    BY <1>1, <2>1, <2>2 DEF OneProcess, TasksKept
  <2>4. CASE Forgotten
    BY <2>1, <2>3, <2>4 DEF Forgotten, Forget, mark_exited, TargetKept, Lost
  <2>5. CASE ~Forgotten
    <3>1. UNCHANGED <<pid, exited, processes, DEBUGGEE_PID>>
      BY <2>1, <2>5
    <3>2. CASE mode' = "kill"
      <4>1. pid # NoTid
        BY <1>0, <1>3, <2>5, <3>2, LostStays DEF TargetKept, Lost
      <4> QED BY <2>3, <3>1, <3>2, <4>1 DEF TargetKept
    <3>3. CASE mode' # "kill"
      <4>1. Still \/ ResumesOne
        BY <1>3, <3>3, CommandMoves
      <4>2. ASSUME NEW d \in Tids
            PROVE  /\ run'[d] = "reaped" => run[d] = "reaped"
                   /\ report'[d].kind = "signaled" => report[d].kind = "signaled"
        BY <4>1, MovesKeepTarget DEF ResumesOne
      <4>3. DEBUGGEE_PID # NoTid => DEBUGGEE_PID = pid /\ pid \in Tids
        BY DEF TargetKept, FieldsTypeOK
      <4>4. /\ DEBUGGEE_PID # NoTid /\ run'[pid] = "reaped" => Lost'
            /\ pid = NoTid => Lost'
        BY <1>0, <1>3, <2>5, <3>3, <4>2, <4>3, LostStays DEF TargetKept
      <4> QED BY <1>0, <2>1, <2>3, <3>1, <4>2, <4>3, <4>4 DEF TargetKept
    <3> QED BY <3>2, <3>3
  <2> QED BY <2>1, <2>3, <2>4, <2>5
<1> QED BY <1>2, <1>3

(* The waits: the only wait that reaps the process without ending the      *)
(* session is kill()'s, and it ends in mark_exited.                        *)
LEMMA WaitKeepsOne ==
    ASSUME SigintInv, Wait PROVE TargetKept' /\ OneProcess'
<1> USE DEF SigintInv, AttachInv, TypeOK, KernelTypeOK
<1>0. NoTid \notin Tids /\ mode \notin {"release", "dispatch", "apply"} /\ locked_tid = NoTid
  BY TraceesAssumption DEF NobodyLocked
<1>1. TasksKept
  BY NextKeepsTasks DEF Next
<1>2. leader' = leader /\ mode' # "start"
  BY WaitLeader
<1>3. \A t \in Tids : report'[t].kind # "fork"
  <2>1. KernelTypeOK /\ \A t \in Tids : report[t].kind # "fork"
    BY DEF OneProcess
  <2> QED BY <2>1, WaitMoves, MovesKeepForks DEF ResumesOne
<1>4. OneProcess'
  BY <1>1, <1>2, <1>3 DEF OneProcess, TasksKept
<1>5. ASSUME UNCHANGED <<pid, exited, DEBUGGEE_PID>>, processes' \subseteq {pid},
             mode \notin {"kill", "prompt", "quit"}, mode' = "wait" => ~exited,
             \/ Still
             \/ \E t \in Tids, how \in Resumptions : Resume(t, how)
             \/ \E t \in Tids : /\ Consume(t) /\ report[t] # Quiet
                                /\ t # DEBUGGEE_PID \/ report[t].kind \notin Ends
      PROVE  TargetKept'
  <2>0. pid # NoTid
    BY <1>5 DEF TargetKept, Lost
  <2>1. ASSUME DEBUGGEE_PID # NoTid
        PROVE  run'[pid] # "reaped" /\ (Breakpoint => report'[pid].kind # "signaled")
    <3>1. DEBUGGEE_PID = pid /\ pid \in Tids
      BY <2>1 DEF TargetKept, FieldsTypeOK
    <3>2. run[pid] # "reaped" /\ (Breakpoint => report[pid].kind # "signaled")
      BY <1>5, <2>1, <3>1 DEF TargetKept, Lost
    <3> QED BY <1>5, <3>1, <3>2, MovesKeepTarget
  <2> QED BY <1>5, <2>0, <2>1 DEF TargetKept
<1>6. ASSUME DEBUGGEE_PID' = NoTid, exited', mode' # "wait", processes' \subseteq {pid'},
             pid' = NoTid => Lost'
      PROVE  TargetKept'
  BY <1>6 DEF TargetKept
<1>7. /\ processes \subseteq {pid} /\ DEBUGGEE_PID \in {NoTid, pid}
      /\ pid = NoTid => mode \in {"prompt", "quit"}
  BY DEF TargetKept, Lost
<1>8. CASE start_waited
  <2>1. /\ pid \in Tids /\ report[pid] # Quiet /\ Consume(pid) /\ mode' = "prompt"
        /\ UNCHANGED <<pid, exited, current_tid, DEBUGGEE_PID>> /\ processes' \subseteq {pid}
    BY <1>7, <1>8 DEF start_waited, WaitsForTask, Waitable, Return, NobodyLocked
  <2>2. CASE report[pid].kind \notin Ends
    BY <1>4, <1>5, <1>8, <2>1, <2>2 DEF start_waited
  <2>3. CASE report[pid].kind \in Ends
    <3>1. threads' = {} /\ current_tid' = pid
      BY <1>8, <2>3 DEF start_waited, OneProcess, Ends
    <3>2. report'[pid].kind # "signaled"
      BY <2>1 DEF Consume, Quiet
    <3>3. DEBUGGEE_PID \in {NoTid, pid} /\ (~exited => DEBUGGEE_PID = pid)
      BY DEF TargetKept
    <3> QED BY <1>0, <1>4, <2>1, <3>1, <3>2, <3>3 DEF TargetKept, Lost
  <2> QED BY <2>2, <2>3
<1>9. CASE step_over_current_breakpoint
  <2> DEFINE t == current_tid
  <2>1. /\ t \in Tids /\ report[t] # Quiet /\ UNCHANGED <<pid, processes>>
        /\ mode = "stepover" /\ (report[t].kind = "signaled" => t # DEBUGGEE_PID)
    BY <1>0, <1>9 DEF step_over_current_breakpoint, WaitsForTask, Waitable, TargetKept, NoInt3
  <2>2. \/ DEBUGGEE_PID' = NoTid /\ exited' /\ mode' # "wait"
        \/ /\ UNCHANGED <<exited, DEBUGGEE_PID>> /\ (mode' = "wait" => ~exited)
           /\ \/ Consume(t) /\ (report[t].kind = "signaled" \/ report[t].kind \notin Ends)
              \/ \E how \in Resumptions : Resume(t, how)
    BY <1>9 DEF step_over_current_breakpoint, mark_exited, ResumeFocus, HowOf, Resumptions, Return
  <2> QED BY <1>4, <1>5, <1>6, <1>7, <2>1, <2>2
<1>10. CASE classify_wait \/ finish_undebugged_frame
  <2> DEFINE t == current_tid
  <2>1. /\ t \in Tids /\ report[t] # Quiet /\ UNCHANGED <<pid, processes>>
        /\ mode \in {"rawstep", "frame"}
    BY <1>10 DEF classify_wait, finish_undebugged_frame, WaitsForTask, Waitable
  <2>2. mode' # "wait"
    BY <1>10 DEF classify_wait, finish_undebugged_frame, single_step_raw, Return
  <2>3. \/ DEBUGGEE_PID' = NoTid /\ exited'
        \/ /\ UNCHANGED <<exited, DEBUGGEE_PID>>
           /\ \/ Consume(t) /\ report[t].kind \notin Ends
              \/ \E how \in Resumptions : Resume(t, how)
    BY <1>10 DEF classify_wait, finish_undebugged_frame, mark_exited, single_step_raw,
                 Resumptions, Ends
  <2> QED BY <1>4, <1>5, <1>6, <1>7, <2>1, <2>2, <2>3
<1>11. ASSUME NEW t \in Tids,
              wait_event(t) \/ wait_initial_stop(t) \/ wait_held(t) \/ wait_stopped(t)
       PROVE  TargetKept'
  <2>1. /\ report[t] # Quiet /\ report[t].kind \notin Ends /\ mode = "wait" /\ ~exited
        /\ UNCHANGED <<pid, exited, DEBUGGEE_PID>>
    BY <1>11 DEF wait_event, wait_initial_stop, wait_held, wait_stopped, InWait, Waitable, fields,
                 Stops, Ends, TargetKept
  <2>2. processes' = processes
    BY <1>11 DEF wait_event, wait_initial_stop, wait_held, wait_stopped, fields, register_process,
                 OneProcess
  <2>3. Still \/ Consume(t) \/ Resume(t, "running")
    BY <1>11 DEF wait_event, wait_initial_stop, wait_held, wait_stopped, resume_or_hold, TryResume,
                 Still
  <2>4. "running" \in Resumptions
    BY DEF Resumptions
  <2> QED BY <1>5, <1>7, <2>1, <2>2, <2>3, <2>4
<1>12. ASSUME NEW t \in Tids, wait_exited(t) PROVE TargetKept'
  <2>1. /\ report[t] # Quiet /\ Consume(t) /\ mode = "wait" /\ ~exited /\ pid' = pid
        /\ processes' = processes \ {t} /\ Settle(threads', processes')
    BY <1>0, <1>12 DEF wait_exited, InWait, Waitable, TargetKept
  <2>2. CASE threads' = {} \/ processes' = {}
    <3>1. DEBUGGEE_PID' = NoTid /\ exited' /\ mode' # "wait"
      BY <2>1, <2>2 DEF Settle, mark_exited, Return
    <3> QED BY <1>6, <1>7, <2>1, <3>1
  <2>3. CASE threads' # {} /\ processes' # {}
    <3>1. UNCHANGED <<exited, DEBUGGEE_PID>>
      BY <2>1, <2>3 DEF Settle
    <3>2. t # pid /\ t # DEBUGGEE_PID /\ processes' \subseteq {pid}
      BY <1>0, <1>7, <2>1, <2>3
    <3> QED BY <1>5, <2>1, <3>1, <3>2
  <2> QED BY <2>2, <2>3
<1>13. CASE wait_no_child
  BY <1>4, <1>5, <1>7, <1>13 DEF wait_no_child, Still, kernelVars, fields, Return, NobodyLocked
<1>14. ASSUME NEW t \in Tids, kill_reaps(t) PROVE TargetKept'
  BY <1>14 DEF kill_reaps, TargetKept, Lost, fields
<1>15. CASE kill_done
  BY <1>4, <1>6, <1>15 DEF kill_done, Forget, mark_exited, Leave, Return, NobodyLocked, Lost
<1> QED BY <1>0, <1>4, <1>8, <1>9, <1>10, <1>11, <1>12, <1>13, <1>14, <1>15
        DEF Wait, release_held_thread, release_waited, released, focus_thread_for_apply,
            restore_focus

(* The invariant is inductive.                                             *)
LEMMA SigintNext ==
    ASSUME ApplyCommands = {}, "lock" \notin Commands, "fork" \notin Births,
           Breakpoint => "signaled" \notin Deaths
    PROVE  SigintInv /\ [Next]_vars => SigintInv'
<1> SUFFICES ASSUME SigintInv, [Next]_vars PROVE SigintInv'
  OBVIOUS
<1>1. AttachInv' /\ NobodyLocked'
  BY AttachNext, NobodyLockedNext DEF SigintInv
<1>2. ThreadTable' /\ NoInt3'
  BY TableNext, NoInt3Next DEF SigintInv, AttachInv
<1>3. ASSUME Forwarder \/ UNCHANGED vars PROVE TargetKept' /\ OneProcess'
  <2>1. UNCHANGED <<run, report, leader, fields, mode>>
    BY <1>3 DEF Forwarder, ctrl_c, forward_sigint, vars, kernelVars, control
  <2> QED BY <2>1 DEF SigintInv, TargetKept, Lost, OneProcess, fields
<1>4. TargetKept' /\ OneProcess'
  BY <1>3, CommandKeepsOne, WaitKeepsOne, ProgramKeepsOne DEF Next
<1> QED BY <1>1, <1>2, <1>4 DEF SigintInv

(* A program of one process, of any number of threads, run any number of   *)
(* times, none of whose threads is locked: while a command waits for it,   *)
(* the pid the forwarder thread would load is its own, and the kernel      *)
(* still has it (start, mark_exited).  A death by a signal in a step over  *)
(* a breakpoint, the death of the parent of a live fork, and that of a     *)
(* locked leader while the threads held for it are released, leave         *)
(* DEBUGGEE_PID behind while a wait is still to come.                      *)
THEOREM CtrlCFindsTarget ==
    ASSUME ApplyCommands = {}, "lock" \notin Commands, "fork" \notin Births,
           Breakpoint => "signaled" \notin Deaths
    PROVE  Spec => []CtrlCHasTarget
<1>1. Init => SigintInv
  <2>1. ASSUME Init PROVE ReportsMatch /\ KnownAreBorn /\ AttachStopAccounted
    BY <2>1 DEF Init, KernelInit, ReportsMatch, KnownAreBorn, AttachStopAccounted, Quiet, Stops,
                Ends, Births0
  <2>2. ASSUME Init PROVE NobodyLocked /\ TargetKept /\ OneProcess /\ NoInt3
    BY <2>2, TraceesAssumption DEF Init, KernelInit, NoApply, NobodyLocked, TargetKept, OneProcess,
                                   Lost, NoInt3, Quiet
  <2>3. ASSUME Init PROVE ThreadTable
    BY <2>3 DEF Init, NoNumbers, ThreadTable, Injective, TidsOf
  <2> QED BY <2>1, <2>2, <2>3, InitType DEF SigintInv, AttachInv
<1>2. SigintInv /\ [Next]_vars => SigintInv'
  BY SigintNext
<1>3. SigintInv => CtrlCHasTarget
  <2> SUFFICES ASSUME SigintInv,
                      mode = "wait" \/ (mode \in {"stepover", "rawstep", "frame"} /\ ~exited)
               PROVE  DEBUGGEE_PID # NoTid /\ run[DEBUGGEE_PID] # "reaped"
    BY DEF CtrlCHasTarget
  <2>1. ~exited /\ DEBUGGEE_PID = pid
    BY DEF SigintInv, TargetKept
  <2>2. pid # NoTid
    BY DEF SigintInv, TargetKept, Lost
  <2> QED BY <2>1, <2>2 DEF SigintInv, TargetKept, Lost
<1> QED BY <1>1, <1>2, <1>3, PTL DEF Spec

-----------------------------------------------------------------------------
(* A wait of wait_and_report can end.                                      *)

(* Stopped, and waited for: only tdb can set it going again.               *)
Taken(t) == Stopped(t) /\ report[t] = Quiet

(* Nothing is left that only tdb could resume, but the focus at the prompt *)
(* or what kill() is about to reap.                                        *)
NoneLeftBehind ==
    ~exited /\ mode # "kill" =>
        \A t \in Tids : Taken(t) => t = current_tid /\ mode \in {"prompt", "quit"}

(* A zombie is still to be reported, a task that was not born belongs to   *)
(* nobody, and before the first `run` there is nothing.                    *)
DeathsPend ==
    /\ \A t \in Tids : run[t] = "zombie" => report[t] # Quiet
    /\ \A t \in Tids : run[t] = "unborn" => leader[t] = NoTid

OneRun ==
    /\ runs = 0 => /\ pid = NoTid /\ current_tid = NoTid /\ mode \in {"prompt", "quit"}
                   /\ \A t \in Tids : run[t] = "unborn"
    /\ mode = "start" => current_tid = pid
    /\ mode = "wait" => ~exited

WaitInv == AttachInv /\ NobodyLocked /\ DeathsPend /\ OneRun /\ NoneLeftBehind

(* Then a wait has somebody to wait for: a task that runs, one that has    *)
(* stopped and not been waited for, or, in the last process with a dead    *)
(* leader, the last of its threads.                                        *)
LEMMA SomebodyAnswers == WaitInv => WaitCanEnd
<1> SUFFICES ASSUME WaitInv, mode = "wait", ~NoTracee, \A t \in Tids : ~Running(t)
             PROVE  \E t \in Tids : Waitable(t)
  BY DEF WaitCanEnd
<1> USE DEF WaitInv, AttachInv, TypeOK, KernelTypeOK
<1>1. \A t \in Tids : run[t] \in {"unborn", "stopped", "zombie", "reaped"}
  BY DEF Running, RunStates
<1>2. ASSUME NEW t \in Tids, run[t] = "stopped" PROVE Waitable(t)
  BY <1>2 DEF NoneLeftBehind, OneRun, Taken, Stopped, Waitable
<1>3. ASSUME NEW t \in Tids, run[t] = "zombie" PROVE \E u \in Tids : Waitable(u)
  <2>1. report[t] # Quiet
    BY <1>3 DEF DeathsPend
  <2>2. CASE leader[t] # t
    BY <2>1, <2>2 DEF Waitable
  <2>3. ASSUME leader[t] = t, NEW u \in Group(t) \ {t}, run[u] # "reaped"
        PROVE  Waitable(u)
    <3>1. u \in Tids /\ u # t /\ leader[u] = t /\ t # NoTid
      BY <2>3, TraceesAssumption DEF Group
    <3>2. run[u] \in {"stopped", "zombie"}
      BY <1>1, <2>3, <3>1 DEF DeathsPend
    <3> QED BY <1>2, <3>1, <3>2 DEF DeathsPend, Waitable
  <2> QED BY <2>1, <2>2, <2>3 DEF Waitable, Group
<1>4. PICK t \in Tids : run[t] \in {"stopped", "zombie"}
  BY <1>1 DEF NoTracee, Gone
<1> QED BY <1>2, <1>3, <1>4

(* The reports of deaths, through every kind of step.                      *)
LEMMA DeathsPendNext ==
    ASSUME TypeOK, DeathsPend, [Next]_vars PROVE DeathsPend'
<1> USE DEF DeathsPend, TypeOK, KernelTypeOK
<1>1. Quiet.kind = "none" /\ \A k : Report(k).kind = k
  BY DEF Quiet, Report
<1>2. ASSUME leader' = leader, Still PROVE DeathsPend'
  BY <1>2 DEF Still
<1>3. ASSUME leader' = leader, NEW t \in Tids, NEW how \in Resumptions, Resume(t, how)
      PROVE  DeathsPend'
  BY <1>3 DEF Resume, Resumptions
<1>4. ASSUME leader' = leader, NEW t \in Tids, Consume(t) PROVE DeathsPend'
  BY <1>4 DEF Consume
<1>5. ASSUME leader' = leader, NEW end \in Ends, NEW dying, Perish(dying, end)
      PROVE  DeathsPend'
  BY <1>1, <1>5 DEF Perish, Ends
<1>6. ASSUME NEW c \in Tids, start_forks(c) PROVE DeathsPend'
  BY <1>6 DEF start_forks
<1>7. ASSUME leader' = leader, NEW t \in Tids, NEW k \in Stops, Stop(t, Report(k))
      PROVE  DeathsPend'
  BY <1>1, <1>7 DEF Stop, Stops
<1>8. ASSUME NEW t \in Tids, ProgramStep(t) PROVE DeathsPend'
  <2>1. CASE Exec(t) \/ HitBreakpoint(t) \/ StepTrap(t)
    BY <1>7, <2>1 DEF Exec, HitBreakpoint, StepTrap, Stops
  <2>2. CASE ExecFails(t) \/ ThreadExit(t)
    BY <1>5, <2>2 DEF ExecFails, ThreadExit, Ends
  <2>3. ASSUME NEW end \in Deaths, GroupExit(t, end) PROVE DeathsPend'
    BY <1>5, <2>3 DEF GroupExit
  <2>4. ASSUME NEW s \in {"SIGSTOP", "SIGINT"}, TakeSignal(t, s) PROVE DeathsPend'
    BY <1>7, <2>4 DEF TakeSignal, Stops
  <2>5. ASSUME NEW c \in Tids, NEW kind \in Births, GiveBirth(t, c, kind) PROVE DeathsPend'
    BY <2>5 DEF GiveBirth
  <2> QED BY <1>8, <2>1, <2>2, <2>3, <2>4, <2>5 DEF ProgramStep
<1>9. CASE Command
  <2>1. leader' = leader \/ \E c \in Tids : start_forks(c)
    BY <1>9 DEF Command, start, cont, stepi, resume_command, step_line, switch_thread,
                lock_thread, unlock_thread, kill, end_of_input, thread_apply_all, Reject, kernelVars
  <2>2. "signaled" \in Ends
    BY DEF Ends
  <2> QED BY <1>2, <1>3, <1>5, <1>6, <1>9, <2>1, <2>2, CommandMoves DEF ResumesOne
<1>10. CASE Wait
  <2>1. leader' = leader
    BY <1>10, WaitLeader
  <2> QED BY <1>2, <1>3, <1>4, <1>10, <2>1, WaitMoves DEF ResumesOne
<1>11. CASE Forwarder \/ UNCHANGED vars
  BY <1>11 DEF Forwarder, ctrl_c, forward_sigint, vars, kernelVars
<1> QED BY <1>8, <1>9, <1>10, <1>11 DEF Next, Program

(* What makes a stopped task one that only tdb can set going: to have been *)
(* waited for, and not resumed since.                                      *)
LEMMA WhatIsTaken ==
    ASSUME KernelTypeOK, NEW u \in Tids, Taken(u)'
    PROVE  /\ (Still \/ (\E dying, end : Perish(dying, end)) \/ Program) => Taken(u)
           /\ \A t \in Tids, how \in Resumptions : Resume(t, how) => Taken(u) /\ u # t
           /\ \A t \in Tids : Consume(t) => Taken(u) \/ (u = t /\ Stopped(t))
<1> USE DEF Taken, Stopped, KernelTypeOK
<1>1. Quiet.kind = "none" /\ \A k : Report(k).kind = k
  BY DEF Quiet, Report
<1>2. ASSUME Still PROVE Taken(u)
  BY <1>2 DEF Still
<1>3. ASSUME NEW dying, NEW end, Perish(dying, end) PROVE Taken(u)
  BY <1>3 DEF Perish
<1>4. ASSUME NEW t \in Tids, NEW r, r # Quiet, Stop(t, r) PROVE Taken(u)
  BY <1>4 DEF Stop
<1>5. ASSUME Program PROVE Taken(u)
  <2>1. PICK t \in Tids : ProgramStep(t)
    BY <1>5 DEF Program
  <2>2. CASE Exec(t) \/ HitBreakpoint(t) \/ StepTrap(t)
    BY <1>1, <1>4, <2>2 DEF Exec, HitBreakpoint, StepTrap
  <2>3. CASE ExecFails(t) \/ ThreadExit(t)
    BY <1>3, <2>3 DEF ExecFails, ThreadExit
  <2>4. ASSUME NEW end, GroupExit(t, end) PROVE Taken(u)
    BY <1>3, <2>4 DEF GroupExit
  <2>5. ASSUME NEW s \in {"SIGSTOP", "SIGINT"}, TakeSignal(t, s) PROVE Taken(u)
    BY <1>1, <1>4, <2>5 DEF TakeSignal
  <2>6. ASSUME NEW c \in Tids, NEW kind \in Births, GiveBirth(t, c, kind) PROVE Taken(u)
    <3>1. kind # "none" /\ Event(kind, c).kind = kind
      BY TraceesAssumption DEF Event
    <3> QED BY <1>1, <2>6, <3>1 DEF GiveBirth
  <2> QED BY <2>1, <2>2, <2>3, <2>4, <2>5, <2>6 DEF ProgramStep
<1>6. ASSUME NEW t \in Tids, NEW how \in Resumptions, Resume(t, how) PROVE Taken(u) /\ u # t
  BY <1>6 DEF Resume, Resumptions
<1>7. ASSUME NEW t \in Tids, Consume(t) PROVE Taken(u) \/ (u = t /\ Stopped(t))
  BY <1>7 DEF Consume
<1> QED BY <1>2, <1>3, <1>5, <1>6, <1>7

(* A command resumes the one thread that has been waited for, or none.     *)
LEMMA CommandLeavesNone ==
    ASSUME WaitInv, ApplyCommands = {}, {"thread", "lock"} \cap Commands = {}, MaxRuns <= 1,
           Command
    PROVE  OneRun' /\ NoneLeftBehind'
<1> DEFINE Goal == OneRun' /\ NoneLeftBehind'
<1> USE DEF WaitInv, AttachInv, TypeOK
<1>0. mode = "prompt" /\ KernelTypeOK /\ NoTid \notin Tids
  <2>1. ASSUME NEW name, NEW n, Given(name, n) PROVE mode = "prompt"
    BY <2>1 DEF Given, NobodyLocked
  <2>2. mode = "prompt"
    BY <2>1 DEF Command, start, cont, stepi, resume_command, step_line, switch_thread,
                lock_thread, unlock_thread, kill, end_of_input
  <2> QED BY <2>2, TraceesAssumption
<1>1. ~exited => \A u \in Tids : Taken(u) => u = current_tid
  BY <1>0 DEF NoneLeftBehind
<1>2. ASSUME mode' \in {"prompt", "quit"}, Still, UNCHANGED <<pid, current_tid, exited, runs>>
      PROVE  Goal
  BY <1>0, <1>1, <1>2 DEF OneRun, NoneLeftBehind, Taken, Stopped, Still
<1>3. CASE Reject /\ UNCHANGED runs
  BY <1>0, <1>2, <1>3 DEF Reject, Return, Still, kernelVars, fields, NobodyLocked
<1>4. ASSUME NEW c \in Tids, start_forks(c) PROVE Goal
  <2>1. runs = 0 /\ runs' = 1 /\ \A t \in Tids : run[t] = "unborn"
    BY <1>4, SessionAssumption DEF start_forks, ControlTypeOK, OneRun
  <2> QED BY <1>0, <1>4, <2>1 DEF start_forks, OneRun, NoneLeftBehind, Taken, Stopped, KernelTypeOK
<1>5. ASSUME current_tid \in Tids, runs' = runs, mode' # "start",
             UNCHANGED <<exited, current_tid>>,
             \E how \in Resumptions : Resume(current_tid, how), mode' = "wait" => ~exited
      PROVE  Goal
  <2>1. NoneLeftBehind'
    BY <1>0, <1>1, <1>5, WhatIsTaken DEF NoneLeftBehind
  <2>2. OneRun'
    BY <1>0, <1>5 DEF OneRun
  <2> QED BY <2>1, <2>2
<1>6. ASSUME NEW name, resume_command(name), ~Reject PROVE Goal
  <2>1. current_tid \in Tids /\ UNCHANGED <<fields, runs>>
    BY <1>6 DEF resume_command, Focused, StoppedThread, FieldsTypeOK
  <2>2. CASE rip[current_tid] # "at" /\ exited
    <3>1. Still /\ mode' = "prompt"
      BY <1>6, <2>2 DEF resume_command, ResumeFocus, Return, Still, NobodyLocked
    <3> QED BY <1>2, <2>1, <3>1 DEF fields
  <2>3. CASE rip[current_tid] = "at" \/ ~exited
    <3>1. /\ mode' # "start" /\ (mode' = "wait" => ~exited)
          /\ \E how \in Resumptions : Resume(current_tid, how)
      BY <1>6, <2>3 DEF resume_command, ResumeFocus, HowOf, Resumptions
    <3> QED BY <1>5, <2>1, <3>1 DEF fields
  <2> QED BY <2>2, <2>3
<1>7. CASE step_line /\ ~Reject
  BY <1>5, <1>7 DEF step_line, Focused, StoppedThread, FieldsTypeOK, single_step_raw, fields,
                    Resumptions
<1>8. ASSUME NEW n PROVE ~switch_thread(n) /\ ~lock_thread(n)
  BY <1>0 DEF switch_thread, lock_thread, Given
<1>9. ASSUME NEW name \in {"kill", "quit"}, kill(name) PROVE Goal
  <2>1. CASE is_running
    <3>1. mode' = "kill" /\ UNCHANGED <<pid, runs>> /\ pid # NoTid
      BY <1>9, <2>1 DEF kill, fields, is_running
    <3> QED BY <3>1 DEF OneRun, NoneLeftBehind
  <2>2. CASE ~is_running /\ name = "quit"
    BY <1>2, <1>9, <2>2 DEF kill, Leave, fields, Still
  <2>3. CASE ~is_running /\ name = "kill"
    <3>1. /\ exited' /\ pid' = NoTid /\ current_tid' = NoTid /\ mode' = "prompt"
          /\ UNCHANGED <<run, runs>>
      BY <1>9, <2>3 DEF kill, Forget, mark_exited, Leave, Return, NobodyLocked
    <3> QED BY <3>1 DEF OneRun, NoneLeftBehind
  <2> QED BY <1>9, <2>1, <2>2, <2>3
<1>10. CASE end_of_input
  BY <1>2, <1>10 DEF end_of_input, Still, kernelVars, fields
<1>11. CASE unlock_thread
  BY <1>3, <1>11 DEF unlock_thread, NobodyLocked
<1>12. CASE start
  BY <1>3, <1>4, <1>12 DEF start
<1>13. CASE step_line /\ Reject
  BY <1>3, <1>13 DEF step_line
<1>14. ASSUME NEW name, resume_command(name) PROVE Goal
  BY <1>3, <1>6, <1>14 DEF resume_command
<1> QED BY <1>7, <1>8, <1>9, <1>10, <1>11, <1>12, <1>13, <1>14 DEF Command, cont, stepi

(* A wait leaves the task it shows as the focus, and resumes the others.   *)
LEMMA WaitLeavesNone ==
    ASSUME WaitInv, Wait PROVE OneRun' /\ NoneLeftBehind'
<1> DEFINE Goal == OneRun' /\ NoneLeftBehind'
<1> USE DEF WaitInv, AttachInv, TypeOK
<1>0. /\ KernelTypeOK /\ NoTid \notin Tids
      /\ mode \notin {"release", "dispatch", "apply"} /\ locked_tid = NoTid /\ ~apply.on
  BY TraceesAssumption DEF NobodyLocked
<1>1. mode \notin {"prompt", "quit"} /\ runs # 0
  <2>1. mode \notin {"prompt", "quit"}
    BY <1>0 DEF Wait, start_waited, step_over_current_breakpoint, classify_wait,
                finish_undebugged_frame, wait_event, wait_initial_stop, wait_held, wait_stopped,
                wait_exited, kill_reaps, wait_no_child, release_held_thread, release_waited,
                released, kill_done, focus_thread_for_apply, restore_focus, InWait
  <2> QED BY <2>1 DEF OneRun
<1>2. ~exited /\ mode # "kill" => \A t \in Tids : ~Taken(t)
  BY <1>1 DEF NoneLeftBehind
<1>3. mode' # "start"
  BY WaitLeader
<1>4. ASSUME runs' = runs, mode' # "wait", exited' PROVE Goal
  BY <1>1, <1>3, <1>4 DEF OneRun, NoneLeftBehind
<1>5. ASSUME runs' = runs, exited' = exited, mode # "kill", mode' = "wait" => ~exited,
             Still \/ \E t \in Tids, how \in Resumptions : Resume(t, how)
      PROVE  Goal
  <2>1. NoneLeftBehind'
    BY <1>0, <1>2, <1>5, WhatIsTaken DEF NoneLeftBehind
  <2> QED BY <1>1, <1>3, <1>5, <2>1 DEF OneRun
<1>6. ASSUME NEW t \in Tids, runs' = runs, exited' = exited, mode # "kill",
             Consume(t), Stopped(t) => mode' = "prompt" /\ current_tid' = t,
             mode' = "wait" => ~exited
      PROVE  Goal
  <2>1. NoneLeftBehind'
    BY <1>0, <1>2, <1>6, WhatIsTaken DEF NoneLeftBehind
  <2> QED BY <1>1, <1>3, <1>6, <2>1 DEF OneRun
<1>7. CASE start_waited
  <2>1. pid \in Tids /\ current_tid = pid
    BY <1>7 DEF start_waited, WaitsForTask, OneRun
  <2> QED BY <1>0, <1>6, <1>7, <2>1 DEF start_waited, Return
<1>8. CASE step_over_current_breakpoint \/ classify_wait \/ finish_undebugged_frame
  <2> DEFINE t == current_tid
  <2>1. t \in Tids /\ runs' = runs /\ current_tid' = t /\ mode # "kill"
    BY <1>8 DEF step_over_current_breakpoint, classify_wait, finish_undebugged_frame, WaitsForTask
  <2>2. \/ exited' /\ mode' = "prompt"
        \/ exited' = exited /\ mode' = "prompt" /\ Consume(t)
        \/ /\ exited' = exited /\ (mode' = "wait" => ~exited)
           /\ \E how \in Resumptions : Resume(t, how)
    BY <1>0, <1>8 DEF step_over_current_breakpoint, classify_wait, finish_undebugged_frame,
              mark_exited, ResumeFocus, HowOf, single_step_raw, Return, Resumptions
  <2> QED BY <1>4, <1>5, <1>6, <2>1, <2>2
<1>9. ASSUME NEW t \in Tids, wait_event(t) \/ wait_initial_stop(t) PROVE Goal
  <2>1. /\ Stopped(t) /\ runs' = runs /\ exited' = exited /\ mode' = mode /\ mode = "wait"
    BY <1>9 DEF wait_event, wait_initial_stop, InWait, ReportsMatch, control, Births0
  <2>2. Resume(t, "running") /\ "running" \in Resumptions
    BY <1>0, <1>9, <2>1 DEF wait_event, wait_initial_stop, resume_or_hold, TryResume, Resumptions
  <2> QED BY <1>5, <2>1, <2>2 DEF OneRun
<1>10. ASSUME NEW t \in Tids PROVE ~wait_held(t)
  BY <1>0 DEF wait_held, Held
<1>11. ASSUME NEW t \in Tids, wait_stopped(t) PROVE Goal
  BY <1>0, <1>6, <1>11 DEF wait_stopped, Return, InWait
<1>12. ASSUME NEW t \in Tids, wait_exited(t) PROVE Goal
  <2>1. Consume(t) /\ runs' = runs /\ mode = "wait" /\ ~Stopped(t)
    BY <1>12 DEF wait_exited, InWait, ReportsMatch, Stopped
  <2>2. locked_tid # t
    BY <1>0
  <2>3. (exited' /\ mode' = "prompt") \/ (exited' = exited /\ mode' = "wait")
    BY <1>0, <1>12, <2>2 DEF wait_exited, Settle, mark_exited, Return
  <2> QED BY <1>4, <1>6, <2>1, <2>3 DEF OneRun
<1>13. CASE wait_no_child
  BY <1>0, <1>5, <1>13 DEF wait_no_child, Return, Still, kernelVars, fields
<1>14. ASSUME NEW t \in Tids, kill_reaps(t) PROVE Goal
  BY <1>1, <1>14 DEF kill_reaps, OneRun, NoneLeftBehind
<1>15. CASE kill_done
  BY <1>0, <1>4, <1>15 DEF kill_done, Forget, mark_exited, Leave, Return
<1> QED BY <1>0, <1>7, <1>8, <1>9, <1>10, <1>11, <1>12, <1>13, <1>14, <1>15
        DEF Wait, release_held_thread, release_waited, released, focus_thread_for_apply,
            restore_focus

(* The invariant is inductive.                                             *)
LEMMA WaitNext ==
    ASSUME ApplyCommands = {}, {"thread", "lock"} \cap Commands = {}, MaxRuns <= 1
    PROVE  WaitInv /\ [Next]_vars => WaitInv'
<1> SUFFICES ASSUME WaitInv, [Next]_vars PROVE WaitInv'
  OBVIOUS
<1>1. AttachInv' /\ NobodyLocked' /\ DeathsPend'
  BY AttachNext, NobodyLockedNext, DeathsPendNext DEF WaitInv, AttachInv
<1>2. ASSUME Program \/ Forwarder \/ UNCHANGED vars PROVE OneRun' /\ NoneLeftBehind'
  <2>1. KernelTypeOK /\ UNCHANGED <<fields, mode, runs>>
    BY <1>2 DEF Program, Forwarder, ctrl_c, forward_sigint, vars, control, WaitInv, AttachInv,
                TypeOK
  <2>2. \A t \in Tids : Taken(t)' => Taken(t)
    BY <1>2, <2>1, WhatIsTaken, ForwarderMoves
  <2>3. NoneLeftBehind'
    BY <2>1, <2>2 DEF WaitInv, NoneLeftBehind, fields
  <2>4. OneRun'
    <3>1. ASSUME Program PROVE runs # 0
      BY <3>1 DEF Program, ProgramStep, Exec, ExecFails, HitBreakpoint, StepTrap, GiveBirth,
                  TakeSignal, ThreadExit, GroupExit, MayExecute, Running, WaitInv, OneRun
    <3>2. CASE Program
      BY <2>1, <3>1, <3>2 DEF WaitInv, OneRun, fields
    <3>3. CASE Forwarder \/ UNCHANGED vars
      BY <2>1, <3>3, ForwarderMoves DEF WaitInv, OneRun, fields, Still
    <3> QED BY <1>2, <3>2, <3>3
  <2> QED BY <2>3, <2>4
<1>3. OneRun' /\ NoneLeftBehind'
  BY <1>2, CommandLeavesNone, WaitLeavesNone DEF Next
<1> QED BY <1>1, <1>3 DEF WaitInv

(* In the one session of a tdb whose focus only moves by itself, with any  *)
(* births, deaths and signals: while tdb is in wait_and_report a task is   *)
(* running, has an answer ready, or none is left and waitpid says so.  No  *)
(* thread is left stopped with nobody to resume it.                        *)
THEOREM WaitsEnd ==
    ASSUME ApplyCommands = {}, {"thread", "lock"} \cap Commands = {}, MaxRuns <= 1
    PROVE  Spec => []WaitCanEnd
<1>1. Init => WaitInv
  <2>1. ASSUME Init PROVE ReportsMatch /\ KnownAreBorn /\ AttachStopAccounted
    BY <2>1 DEF Init, KernelInit, ReportsMatch, KnownAreBorn, AttachStopAccounted, Quiet, Stops,
                Ends, Births0
  <2>2. ASSUME Init PROVE NobodyLocked /\ DeathsPend /\ OneRun /\ NoneLeftBehind
    BY <2>2 DEF Init, KernelInit, NoApply, NobodyLocked, DeathsPend, OneRun, NoneLeftBehind,
                Taken, Stopped
  <2> QED BY <2>1, <2>2, InitType DEF WaitInv, AttachInv
<1>2. WaitInv /\ [Next]_vars => WaitInv'
  BY WaitNext
<1>3. WaitInv => WaitCanEnd
  BY SomebodyAnswers
<1> QED BY <1>1, <1>2, <1>3, PTL DEF Spec

-----------------------------------------------------------------------------
(* No task at all is resumed past an int3, not even one that tdb takes for *)
(* new: whatever has not been skipped the stop of its attach still waits   *)
(* in that stop, and has not come to a breakpoint.                         *)

Attached(t)     == t \in threads \ pending_initial_stop
AwaitsAttach(t) == Stopped(t) /\ report[t].kind = "initial"

NewAreHeld ==
    ~exited /\ mode \notin {"start", "kill"} =>
        \A t \in Tids : Alive(t) => Attached(t) \/ AwaitsAttach(t)

(* The command under way, or the next one, has the focus on a thread that  *)
(* tdb has seen attached and whose stop it has seen to; only a wait may    *)
(* have it on one that is new.                                             *)
FocusSeen ==
    ~exited /\ current_tid \in Tids =>
        /\ run[current_tid] # "unborn"
        /\ mode \in {"prompt", "stepover"} => Settled(current_tid)
        /\ Alive(current_tid) =>
              /\ mode \in {"prompt", "stepover", "rawstep", "frame"} => Attached(current_tid)
              /\ mode = "wait" => current_tid \in threads

(* Before the first `run` nobody has pressed Ctrl-C, and until execve has  *)
(* stopped nothing but the process being started exists.                   *)
StartedAlone ==
    /\ runs = 0 \/ mode = "start" => /\ forwarder = NoTid
                                     /\ \A t \in Tids : sigs[t] = {}
    /\ runs = 0 => DEBUGGEE_PID = NoTid
    /\ mode = "start" =>
          /\ pending_initial_stop = {} /\ ~exited /\ leader[pid] = pid
          /\ \A t \in Tids \ {pid} : run[t] = "unborn"
          /\ run[pid] = "starting" \/ report[pid].kind \in Ends \cup {"exec"}

(* A program that is stepped has one process, and its death is the end of  *)
(* all of it: the focus of a session that is over is a dead task.          *)
StepsOneProcess ==
    "step" \in Commands =>
        /\ ~exited => \A t \in Tids : run[t] # "unborn" => leader[t] = pid
        /\ ~exited /\ mode # "start" => pid \in processes \/ \A t \in Tids : ~Alive(t)
        /\ exited /\ current_tid \in Tids => run[current_tid] \in {"zombie", "reaped"}

StepModes == mode \in {"rawstep", "frame"} => "step" \in Commands /\ ~exited

(* One `run` of a program, with nothing that moves the focus but the waits *)
(* themselves, and Ctrl-C not before the program has begun.  A program     *)
(* that is stepped does not fork: the step would take the event.           *)
OnePlainRun ==
    /\ ApplyCommands = {} /\ {"thread", "lock"} \cap Commands = {}
    /\ MaxRuns <= 1 /\ "start" \notin CtrlCIn
    /\ "step" \in Commands => "fork" \notin Births

PastInv == /\ WaitInv /\ PastIsShown
           /\ NewAreHeld /\ FocusSeen /\ StartedAlone /\ StepsOneProcess /\ StepModes

(* A step of the program: of u, with tasks that die and one that is born.  *)
LEMMA ProgramTouches ==
    ASSUME KernelTypeOK, NEW u \in Tids, ProgramStep(u)
    PROVE  /\ Running(u)
           /\ \A t \in Tids \ {u} : \/ ~Alive(t)'
                                    \/ run'[t] = run[t] /\ report'[t] = report[t]
                                    \/ run[t] = "unborn" /\ AwaitsAttach(t)'
           /\ \A t \in Tids : run[t] \in {"zombie", "reaped"} => run'[t] = run[t]
<1> DEFINE Others == \A t \in Tids \ {u} : \/ ~Alive(t)'
                                           \/ run'[t] = run[t] /\ report'[t] = report[t]
                                           \/ run[t] = "unborn" /\ AwaitsAttach(t)'
           Dead == \A t \in Tids : run[t] \in {"zombie", "reaped"} => run'[t] = run[t]
<1> USE DEF KernelTypeOK
<1>1. ASSUME NEW r, Stop(u, r), Running(u) PROVE Others /\ Dead
  BY <1>1 DEF Stop, Running
<1>2. ASSUME NEW dying, NEW end, Perish(dying, end) PROVE Others /\ Dead
  BY <1>2 DEF Perish, Alive, Running, Stopped
<1>3. ASSUME NEW c \in Tids, NEW kind, GiveBirth(u, c, kind) PROVE Others /\ Dead
  <2>1. Report("initial").kind = "initial"
    BY DEF Report
  <2> QED BY <1>3, <2>1 DEF GiveBirth, MayExecute, Running, AwaitsAttach, Stopped
<1>4. Running(u)
  BY DEF ProgramStep, Exec, ExecFails, HitBreakpoint, StepTrap, GiveBirth, TakeSignal, ThreadExit,
         GroupExit, MayExecute, Running
<1>5. Others /\ Dead
  BY <1>1, <1>2, <1>3, <1>4 DEF ProgramStep, Exec, ExecFails, HitBreakpoint, StepTrap, TakeSignal,
                                ThreadExit, GroupExit
<1> QED BY <1>4, <1>5

(* Resuming and waiting, of threads that are attached.                     *)
LEMMA MovesKeepNew ==
    ASSUME KernelTypeOK, \A t \in Tids : Alive(t) => Attached(t) \/ AwaitsAttach(t),
           \A t \in Tids : Attached(t) /\ Alive(t)' => Attached(t)',
           \/ Still
           \/ \E t \in Tids, how \in Resumptions : Attached(t)' /\ Resume(t, how)
           \/ \E t \in Tids : (Attached(t)' \/ ~Alive(t)) /\ Consume(t)
    PROVE  \A t \in Tids : Alive(t)' => (Attached(t) \/ AwaitsAttach(t))'
<1> USE DEF KernelTypeOK, AwaitsAttach, Alive, Running, Stopped
<1>1. CASE Still
  BY <1>1 DEF Still
<1>2. ASSUME NEW t \in Tids, NEW how \in Resumptions, Attached(t)', Resume(t, how)
      PROVE \A x \in Tids : Alive(x)' => (Attached(x) \/ AwaitsAttach(x))'
  BY <1>2 DEF Resume, Resumptions
<1>3. ASSUME NEW t \in Tids, Attached(t)' \/ ~Alive(t), Consume(t)
      PROVE \A x \in Tids : Alive(x)' => (Attached(x) \/ AwaitsAttach(x))'
  BY <1>3 DEF Consume
<1> QED BY <1>1, <1>2, <1>3

(* The program, which only moves a thread that is attached.                *)
LEMMA ProgramKeepsPastInv ==
    ASSUME OnePlainRun, PastInv, Program
    PROVE  NewAreHeld' /\ FocusSeen' /\ StartedAlone' /\ StepsOneProcess' /\ StepModes'
<1> USE DEF PastInv, WaitInv, AttachInv, TypeOK
<1>0. KernelTypeOK /\ NoTid \notin Tids /\ UNCHANGED <<fields, control, forwarder, runs>>
  BY TraceesAssumption DEF Program
<1>1. PICK u \in Tids : ProgramStep(u)
  BY DEF Program
<1>2. /\ Running(u)
      /\ \A t \in Tids \ {u} : \/ ~Alive(t)'
                               \/ run'[t] = run[t] /\ report'[t] = report[t]
                               \/ run[t] = "unborn" /\ AwaitsAttach(t)'
      /\ \A t \in Tids : run[t] \in {"zombie", "reaped"} => run'[t] = run[t]
  BY <1>0, <1>1, ProgramTouches
<1>3. \A t \in Tids : /\ run[t] # "unborn" => run'[t] # "unborn"
                      /\ Settled(t) => Settled(t)'
  BY <1>0, <1>1, ProgramKeepsTasks, ProgramKeepsPast DEF TasksKept
<1>4. NewAreHeld'
  <2>1. ASSUME ~exited, mode \notin {"start", "kill"}, NEW t \in Tids, Alive(t)'
        PROVE  (Attached(t) \/ AwaitsAttach(t))'
    <3>1. Attached(u)
      BY <1>2, <2>1 DEF NewAreHeld, Alive, AwaitsAttach, Running, Stopped
    <3>2. Attached(t) => Attached(t)'
      BY <1>0 DEF Attached, fields, tables
    <3>3. CASE t # u /\ run'[t] = run[t] /\ report'[t] = report[t]
      BY <2>1, <3>2, <3>3 DEF NewAreHeld, Alive, AwaitsAttach, Running, Stopped
    <3> QED BY <1>2, <2>1, <3>1, <3>2, <3>3
  <2> QED BY <1>0, <2>1 DEF NewAreHeld, fields, control
<1>5. FocusSeen'
  <2>1. ASSUME NEW t \in Tids, run[t] # "unborn", Alive(t)' PROVE Alive(t)
    BY <1>2, <2>1 DEF Alive, Running, Stopped
  <2>2. UNCHANGED <<exited, current_tid, mode, threads, pending_initial_stop>>
    BY <1>0 DEF fields, tables, control
  <2>3. ASSUME ~exited, NEW t \in Tids, t = current_tid
        PROVE  /\ run'[t] # "unborn"
               /\ mode \in {"prompt", "stepover"} => Settled(t)'
               /\ Alive(t)' => Alive(t)
    <3>1. run[t] # "unborn" /\ (mode \in {"prompt", "stepover"} => Settled(t))
      BY <2>3 DEF FocusSeen
    <3> QED BY <1>3, <2>1, <3>1 DEF Alive, Running, Stopped, Settled
  <2> QED BY <2>2, <2>3 DEF FocusSeen, Attached, Alive, Running, Stopped, Settled
<1>6. StartedAlone'
  <2>1. runs # 0
    BY <1>2 DEF OneRun, Running
  <2>2. ASSUME mode = "start"
        PROVE  /\ UNCHANGED <<sigs, leader>>
               /\ \A t \in Tids \ {pid} : run'[t] = "unborn"
               /\ report'[pid].kind \in Ends \cup {"exec"}
    <3>1. pid \in Tids /\ u = pid /\ run[u] = "starting" /\ leader[u] = u /\ sigs[u] = {}
      BY <1>2, <2>2 DEF StartedAlone, WaitsForTask, Running, ReportsMatch, Stopped, Stops
    <3>2. Exec(u) \/ ExecFails(u)
      BY <1>1, <3>1 DEF ProgramStep, HitBreakpoint, StepTrap, GiveBirth, TakeSignal, ThreadExit,
                        GroupExit, MayExecute
    <3>3. Report("exec").kind = "exec" /\ Report("exited").kind = "exited"
      BY DEF Report
    <3> QED BY <1>0, <2>2, <3>1, <3>2, <3>3
            DEF Exec, ExecFails, Stop, Perish, StartedAlone, KernelTypeOK, Alive, Running, Stopped,
                Ends
  <2>3. UNCHANGED <<mode, pid, pending_initial_stop, exited>>
    BY <1>0 DEF fields, tables, control
  <2> QED BY <1>0, <2>1, <2>2, <2>3 DEF StartedAlone
<1>7. StepsOneProcess'
  <2> SUFFICES ASSUME "step" \in Commands PROVE StepsOneProcess'
    BY DEF StepsOneProcess
  <2>1. UNCHANGED <<mode, pid, processes, exited, current_tid>>
    BY <1>0 DEF fields, control
  <2>2. \A t \in Tids : leader'[t] = leader[t] \/ leader'[t] = leader[u]
    BY <1>0, <1>1, TraceesAssumption
       DEF OnePlainRun, ProgramStep, Exec, ExecFails, HitBreakpoint, StepTrap, GiveBirth,
           TakeSignal, ThreadExit, GroupExit, KernelTypeOK
  <2>3. \A t \in Tids : run[t] = "unborn" /\ run'[t] # "unborn" => leader'[t] = leader[u]
    <3>1. ASSUME NEW c \in Tids, NEW kind \in Births, GiveBirth(u, c, kind), NEW t \in Tids,
                 run[t] = "unborn", run'[t] # "unborn"
          PROVE  leader'[t] = leader[u]
      <4>1. kind = "clone"
        BY TraceesAssumption DEF OnePlainRun
      <4>2. t = c
        BY <1>0, <1>2, <3>1 DEF GiveBirth, KernelTypeOK, Running
      <4> QED BY <1>0, <3>1, <4>1, <4>2 DEF GiveBirth, KernelTypeOK
    <3>2. ASSUME NEW t \in Tids, run[t] = "unborn", NEW r, Stop(u, r) PROVE run'[t] = "unborn"
      BY <1>0, <1>2, <3>2 DEF Stop, KernelTypeOK, Running
    <3>3. ASSUME NEW t \in Tids, run[t] = "unborn", NEW dying, NEW end, Perish(dying, end)
          PROVE  run'[t] = "unborn"
      BY <3>3 DEF Perish, Alive, Running, Stopped
    <3> QED BY <1>1, <3>1, <3>2, <3>3 DEF ProgramStep, Exec, ExecFails, HitBreakpoint, StepTrap,
                                          TakeSignal, ThreadExit, GroupExit
  <2>4. run[u] # "unborn" /\ Alive(u)
    BY <1>2 DEF Running, Alive
  <2> QED BY <1>2, <1>3, <2>1, <2>2, <2>3, <2>4 DEF StepsOneProcess
<1>8. StepModes'
  BY <1>0 DEF StepModes, fields, control
<1> QED BY <1>4, <1>5, <1>6, <1>7, <1>8

(* The forwarder thread, which has no pid to signal before the program has *)
(* begun.                                                                  *)
LEMMA ForwarderKeepsPastInv ==
    ASSUME OnePlainRun, PastInv, Forwarder \/ UNCHANGED vars
    PROVE  NewAreHeld' /\ FocusSeen' /\ StartedAlone' /\ StepsOneProcess' /\ StepModes'
<1>1. UNCHANGED <<run, report, leader, rip, fields, control, runs>>
  BY DEF Forwarder, ctrl_c, forward_sigint, vars, kernelVars
<1>2. UNCHANGED <<run, report, leader, rip, pid, exited, current_tid, threads,
                  pending_initial_stop, processes, DEBUGGEE_PID, mode, runs>>
  BY <1>1 DEF fields, tables, control
<1>3. NewAreHeld' /\ FocusSeen' /\ StepsOneProcess' /\ StepModes'
  BY <1>2 DEF PastInv, NewAreHeld, FocusSeen, StepsOneProcess, StepModes, Alive, Running, Stopped,
              Attached, AwaitsAttach, Settled
<1>4. runs = 0 \/ mode = "start" => UNCHANGED <<sigs, forwarder>>
  BY DEF PastInv, OnePlainRun, StartedAlone, Forwarder, ctrl_c, forward_sigint, vars, kernelVars,
         WaitInv, OneRun
<1>5. StartedAlone'
  BY <1>2, <1>4 DEF PastInv, StartedAlone
<1> QED BY <1>3, <1>5

(* The commands: what they resume is the focus.                            *)
LEMMA CommandKeepsPastInv ==
    ASSUME OnePlainRun, PastInv, Command
    PROVE  NewAreHeld' /\ FocusSeen' /\ StartedAlone' /\ StepsOneProcess' /\ StepModes'
<1> DEFINE Goal == NewAreHeld' /\ FocusSeen' /\ StartedAlone' /\ StepsOneProcess' /\ StepModes'
<1> USE DEF PastInv, WaitInv, AttachInv, TypeOK
<1>0. mode = "prompt" /\ ~apply.on /\ KernelTypeOK /\ NoTid \notin Tids
  <2>1. ASSUME NEW name, NEW n, Given(name, n) PROVE mode = "prompt"
    BY <2>1 DEF Given, NobodyLocked
  <2>2. mode = "prompt"
    BY <2>1 DEF Command, start, cont, stepi, resume_command, step_line, switch_thread,
                lock_thread, unlock_thread, kill, end_of_input, OnePlainRun
  <2> QED BY <2>2, TraceesAssumption DEF NobodyLocked
<1>1. ASSUME mode' \in {"prompt", "quit"},
             UNCHANGED <<run, report, leader, sigs, rip, fields, forwarder, runs>>
      PROVE  Goal
  <2>1. UNCHANGED <<run, report, leader, sigs, rip, pid, exited, current_tid, threads,
                    pending_initial_stop, processes, DEBUGGEE_PID, forwarder, runs>>
    BY <1>1 DEF fields, tables
  <2>2. NewAreHeld' /\ FocusSeen'
    BY <1>0, <1>1, <2>1 DEF NewAreHeld, FocusSeen, Alive, Running, Stopped, Attached, AwaitsAttach,
                            Settled
  <2> QED BY <1>0, <1>1, <2>1, <2>2 DEF StartedAlone, StepsOneProcess, StepModes, Alive, Running,
                                        Stopped
<1>2. CASE Reject /\ UNCHANGED <<forwarder, runs>>
  BY <1>0, <1>1, <1>2 DEF Reject, Return, kernelVars
<1>3. ASSUME NEW c \in Tids, start_forks(c), UNCHANGED forwarder PROVE Goal
  <2>1. /\ runs = 0 /\ runs' = 1 /\ \A t \in Tids : run[t] = "unborn"
        /\ forwarder = NoTid /\ \A t \in Tids : sigs[t] = {}
    BY <1>3, SessionAssumption DEF start_forks, ControlTypeOK, OneRun, OnePlainRun, StartedAlone
  <2>2. StartedAlone'
    BY <1>0, <1>3, <2>1 DEF start_forks, StartedAlone, KernelTypeOK
  <2> QED BY <1>0, <1>3, <2>1, <2>2
          DEF start_forks, NewAreHeld, FocusSeen, StepsOneProcess, StepModes, KernelTypeOK
<1>4. ASSUME NEW how \in Resumptions, Focused, Resume(current_tid, how),
             UNCHANGED <<leader, sigs, rip, fields, forwarder, runs>>,
             \/ mode' = "stepover" /\ how = "stepover" /\ rip[current_tid] # "past"
             \/ mode' = "wait" /\ ~exited
             \/ mode' = "rawstep" /\ "step" \in Commands
      PROVE  Goal
  <2>1. PICK t \in Tids : t = current_tid /\ Stopped(t) /\ Alive(t) /\ run[t] = "stopped"
    BY <1>4 DEF Focused, StoppedThread, Alive, Stopped, FieldsTypeOK
  <2>2. UNCHANGED <<leader, sigs, rip, pid, exited, current_tid, threads, pending_initial_stop,
                    processes, DEBUGGEE_PID, forwarder, runs>>
    BY <1>4 DEF fields, tables
  <2>3. "step" \in Commands => ~exited
    BY <2>1 DEF StepsOneProcess
  <2>4. /\ run' = [run EXCEPT ![t] = how] /\ report' = [report EXCEPT ![t] = Quiet]
        /\ how \in {"running", "stepping", "stepover"}
    BY <1>4, <2>1 DEF Resume, Resumptions
  <2>5. ~exited => Attached(t)
    BY <1>0, <2>1 DEF FocusSeen
  <2>6. NewAreHeld'
    <3>1. Attached(t)' <=> Attached(t)
      BY <2>2 DEF Attached
    <3>2. ASSUME ~exited PROVE \A x \in Tids : Alive(x)' => (Attached(x) \/ AwaitsAttach(x))'
      <4>1. \A x \in Tids : Alive(x) => Attached(x) \/ AwaitsAttach(x)
        BY <1>0, <3>2 DEF NewAreHeld
      <4>2. \A x \in Tids : Attached(x) /\ Alive(x)' => Attached(x)'
        BY <2>2 DEF Attached
      <4> QED BY <1>0, <1>4, <2>1, <2>5, <3>1, <3>2, <4>1, <4>2, MovesKeepNew
    <3> QED BY <2>2, <3>2 DEF NewAreHeld
  <2>7. FocusSeen'
    <3>1. ASSUME ~exited PROVE t \in threads \ pending_initial_stop
      BY <2>5, <3>1 DEF Attached
    <3> QED BY <1>0, <1>4, <2>1, <2>2, <2>4, <3>1 DEF FocusSeen, Attached, Settled, KernelTypeOK
  <2>8. runs # 0
    BY <1>0, <2>1 DEF OneRun
  <2>9. StartedAlone' /\ StepModes'
    BY <1>4, <2>2, <2>3, <2>8 DEF StartedAlone, StepModes
  <2>10. StepsOneProcess'
    BY <1>0, <2>1, <2>2, <2>3, <2>4 DEF StepsOneProcess, KernelTypeOK
  <2> QED BY <2>6, <2>7, <2>9, <2>10
<1>5. ASSUME NEW name, resume_command(name), ~Reject PROVE Goal
  <2>1. Focused /\ UNCHANGED <<leader, sigs, rip, fields, forwarder, runs>>
    BY <1>5 DEF resume_command
  <2>2. CASE rip[current_tid] = "at"
    BY <1>4, <1>5, <2>1, <2>2 DEF resume_command, Resumptions
  <2>3. CASE rip[current_tid] # "at" /\ exited
    BY <1>0, <1>1, <1>5, <2>1, <2>3 DEF resume_command, ResumeFocus, Return
  <2>4. CASE rip[current_tid] # "at" /\ ~exited
    BY <1>4, <1>5, <2>1, <2>4 DEF resume_command, ResumeFocus, HowOf, Resumptions
  <2> QED BY <2>2, <2>3, <2>4
<1>6. CASE step_line /\ ~Reject
  <2>1. "step" \in Commands
    BY <1>0, <1>6 DEF step_line, Given
  <2> QED BY <1>4, <1>6, <2>1 DEF step_line, single_step_raw, Resumptions
<1>7. ASSUME NEW n PROVE ~switch_thread(n) /\ ~lock_thread(n)
  BY <1>0 DEF switch_thread, lock_thread, Given, OnePlainRun
<1>8. ASSUME NEW name \in {"kill", "quit"}, kill(name), is_running PROVE Goal
  <2>1. /\ mode' = "kill" /\ runs # 0 /\ ~exited
        /\ UNCHANGED <<leader, sigs, fields, forwarder, runs>>
        /\ \E dying : Perish(dying, "signaled")
    BY <1>8 DEF kill, is_running, OneRun
  <2>2. UNCHANGED <<pid, exited, current_tid, processes>>
    BY <2>1 DEF fields
  <2>3. \A t \in Tids : /\ run[t] # "unborn" <=> run'[t] # "unborn"
                        /\ Alive(t)' => Alive(t)
    BY <2>1 DEF Perish, Alive, Running, Stopped
  <2>4. FocusSeen'
    BY <2>1, <2>2, <2>3 DEF FocusSeen
  <2>5. StepsOneProcess'
    BY <1>0, <2>1, <2>2, <2>3 DEF StepsOneProcess
  <2> QED BY <2>1, <2>4, <2>5 DEF NewAreHeld, StartedAlone, StepModes
<1>9. ASSUME NEW name \in {"kill", "quit"}, kill(name), ~is_running PROVE Goal
  <2>1. CASE name = "quit"
    BY <1>1, <1>9, <2>1 DEF kill, Leave
  <2>2. CASE name = "kill"
    <3>1. /\ exited' /\ current_tid' = NoTid /\ DEBUGGEE_PID' = NoTid /\ mode' = "prompt"
          /\ UNCHANGED <<run, leader, sigs, forwarder, runs>>
      BY <1>0, <1>9, <2>2 DEF kill, Forget, mark_exited, Leave, Return
    <3> QED BY <1>0, <3>1 DEF NewAreHeld, FocusSeen, StartedAlone, StepsOneProcess, StepModes
  <2> QED BY <1>9, <2>1, <2>2
<1>10. CASE end_of_input
  BY <1>1, <1>10 DEF end_of_input, kernelVars
<1>11. CASE unlock_thread
  BY <1>2, <1>11 DEF unlock_thread, NobodyLocked
<1>12. CASE start
  BY <1>2, <1>3, <1>12 DEF start
<1>13. CASE step_line
  BY <1>2, <1>6, <1>13 DEF step_line
<1>14. CASE cont \/ stepi
  BY <1>2, <1>5, <1>14 DEF cont, stepi, resume_command
<1>15. CASE kill("kill") \/ kill("quit")
  BY <1>8, <1>9, <1>15
<1> QED BY <1>7, <1>10, <1>11, <1>12, <1>13, <1>14, <1>15 DEF Command, OnePlainRun

(* The waits: what they resume is attached, or is so from now on.          *)
LEMMA WaitKeepsPastInv ==
    ASSUME OnePlainRun, PastInv, Wait
    PROVE  NewAreHeld' /\ FocusSeen' /\ StartedAlone' /\ StepsOneProcess' /\ StepModes'
<1> DEFINE Goal == NewAreHeld' /\ FocusSeen' /\ StartedAlone' /\ StepsOneProcess' /\ StepModes'
<1> USE DEF PastInv, WaitInv, AttachInv, TypeOK
<1>0. /\ KernelTypeOK /\ NoTid \notin Tids /\ ~apply.on /\ locked_tid = NoTid
      /\ mode \notin {"release", "dispatch", "apply"}
  BY TraceesAssumption DEF NobodyLocked
<1>1. /\ mode \notin {"prompt", "quit"} /\ runs # 0 /\ mode' # "start" /\ leader' = leader
      /\ runs' = runs
  <2>1. mode \notin {"prompt", "quit"} /\ runs' = runs
    BY <1>0 DEF Wait, start_waited, step_over_current_breakpoint, classify_wait,
                finish_undebugged_frame, wait_event, wait_initial_stop, wait_held, wait_stopped,
                wait_exited, kill_reaps, wait_no_child, release_held_thread, release_waited,
                released, kill_done, focus_thread_for_apply, restore_focus, InWait
  <2> QED BY <2>1, WaitLeader DEF OneRun
<1>2. StartedAlone'
  BY <1>1 DEF StartedAlone
<1>4. ASSUME NEW t \in Tids, Waitable(t)
      PROVE  /\ report[t].kind \in Ends => run[t] = "zombie" /\ ~Alive(t)
             /\ report[t].kind \notin Ends => run[t] = "stopped" /\ Alive(t)
             /\ report[t].kind # "none"
  <2>1. report[t] # Quiet /\ report[t] \in Reports
    BY <1>0, <1>4 DEF Waitable, KernelTypeOK
  <2>2. report[t].kind \in Stops \cup Births0 \cup Ends
    BY <2>1 DEF Reports, Report, Event
  <2> QED BY <2>2 DEF ReportsMatch, Stopped, Alive, Running, Stops, Births0, Ends
<1>5. ASSUME NEW t \in Tids, Consume(t)
      PROVE  /\ run[t] = "zombie" => run'[t] = "reaped"
             /\ run[t] # "zombie" => run'[t] = run[t]
             /\ \A x \in Tids : /\ run[x] # "unborn" <=> run'[x] # "unborn"
                                /\ Alive(x)' <=> Alive(x)
  BY <1>0, <1>5 DEF Consume, KernelTypeOK, Alive, Running, Stopped
<1>6. CASE start_waited
  <2>1. PICK t \in Tids : t = pid /\ t = current_tid
    BY <1>6 DEF start_waited, WaitsForTask, OneRun
  <2>2. /\ mode = "start" /\ Waitable(t) /\ Consume(t) /\ mode' = "prompt"
        /\ UNCHANGED <<rip, pid, exited, current_tid, pending_initial_stop>>
        /\ report[t].kind = "exec" => threads' = {t} /\ processes' = {t}
    BY <1>0, <1>6, <2>1 DEF start_waited, Return
  <2>3. report[t].kind \in Ends \cup {"exec"} /\ rip[t] # "past"
    BY <1>4, <2>1, <2>2 DEF StartedAlone, PastIsShown, Resumptions, Ends, Stops, Waitable,
                            ReportsMatch, Stopped
  <2>4. /\ \A x \in Tids \ {t} : ~Alive(x)
        /\ report[t].kind # "exec" => ~Alive(t)
        /\ run'[t] \in {"stopped", "reaped"}
    BY <1>4, <1>5, <2>1, <2>2, <2>3 DEF StartedAlone, Alive, Running, Stopped
  <2>5. /\ \A x \in Tids \ {t} : ~Alive(x)'
        /\ report[t].kind # "exec" => ~Alive(t)'
        /\ report[t].kind = "exec" => Attached(t)'
    BY <1>5, <2>1, <2>2, <2>4 DEF StartedAlone, Attached
  <2>6. NewAreHeld'
    BY <2>5 DEF NewAreHeld
  <2>7. FocusSeen'
    BY <2>1, <2>2, <2>3, <2>4, <2>5
       DEF FocusSeen, Settled, Attached, Alive, Running, Stopped
  <2>8. StepsOneProcess'
    <3>1. "step" \in Commands => \A x \in Tids : run'[x] # "unborn" => leader[x] = pid
      BY <1>5, <2>1, <2>2 DEF StepsOneProcess, StartedAlone
    <3>2. pid \in processes' \/ \A x \in Tids : ~Alive(x)'
      BY <2>1, <2>2, <2>5
    <3>3. ~exited
      BY <2>2 DEF StartedAlone
    <3> QED BY <1>1, <2>2, <3>1, <3>2, <3>3 DEF StepsOneProcess
  <2> QED BY <1>2, <2>2, <2>6, <2>7, <2>8 DEF StepModes
<1>7. ASSUME mode \in {"stepover", "rawstep", "frame"}, NEW t \in Tids, t = current_tid,
             Waitable(t),
             UNCHANGED <<pid, current_tid, threads, pending_initial_stop, processes>>,
             \/ /\ Consume(t) /\ mode' = "prompt" /\ rip'[t] # "past"
                /\ exited' = exited \/ (exited' /\ report[t].kind \in Ends)
             \/ /\ \E how \in Resumptions : Resume(t, how)
                /\ ~exited /\ exited' = exited /\ report[t].kind \notin Ends
                /\ mode' = "wait" \/ (mode' \in {"rawstep", "frame"} /\ "step" \in Commands)
      PROVE  Goal
  <2>1. /\ \A x \in Tids : run[x] # "unborn" <=> run'[x] # "unborn"
        /\ \A x \in Tids : Alive(x)' <=> Alive(x)
    <3>1. ASSUME NEW how \in Resumptions, Resume(t, how), report[t].kind \notin Ends
          PROVE  \A x \in Tids : /\ run[x] # "unborn" <=> run'[x] # "unborn"
                                 /\ Alive(x)' <=> Alive(x)
      BY <1>0, <1>4, <1>7, <3>1 DEF Resume, Resumptions, KernelTypeOK, Alive, Running, Stopped
    <3> QED BY <1>5, <1>7, <3>1
  <2>2. ~exited /\ Alive(t) => Attached(t)
    BY <1>7 DEF FocusSeen
  <2>3. \A x \in Tids : Attached(x)' <=> Attached(x)
    BY <1>7 DEF Attached
  <2>4. NewAreHeld'
    <3>1. ASSUME ~exited PROVE \A x \in Tids : Alive(x)' => (Attached(x) \/ AwaitsAttach(x))'
      <4>1. \A x \in Tids : Alive(x) => Attached(x) \/ AwaitsAttach(x)
        BY <1>7, <3>1 DEF NewAreHeld
      <4>2. Alive(t) => Attached(t)'
        BY <2>2, <2>3, <3>1
      <4>3. report[t].kind \notin Ends => Alive(t)
        BY <1>4, <1>7
      <4> QED BY <1>0, <1>7, <2>3, <4>1, <4>2, <4>3, MovesKeepNew
    <3>2. ~exited' => ~exited
      BY <1>7
    <3> QED BY <3>1, <3>2 DEF NewAreHeld
  <2>5. FocusSeen'
    <3>1. ASSUME ~exited' PROVE /\ Alive(t)' => Attached(t)' /\ t \in threads'
                                /\ run'[t] # "unborn"
      <4>1. ~exited
        BY <1>7, <3>1
      <4>2. run[t] # "unborn"
        BY <1>7, <4>1 DEF FocusSeen
      <4>3. Attached(t) => t \in threads
        BY DEF Attached
      <4> QED BY <1>7, <2>1, <2>2, <2>3, <4>1, <4>2, <4>3
    <3>2. mode' = "prompt" => run'[t] \notin {"running", "stepping"} /\ rip'[t] # "past"
      BY <1>4, <1>5, <1>7
    <3> QED BY <1>7, <3>1, <3>2 DEF FocusSeen, Settled, Attached, Alive, Running, Stopped
  <2>6. StepsOneProcess'
    <3>1. CASE exited' = exited
      <4>1. "step" \in Commands /\ exited => run'[t] \in {"zombie", "reaped"}
        BY <1>5, <1>7, <3>1 DEF StepsOneProcess
      <4> QED BY <1>1, <1>7, <2>1, <3>1, <4>1 DEF StepsOneProcess
    <3>2. CASE exited' /\ report[t].kind \in Ends
      BY <1>4, <1>5, <1>7, <3>2 DEF StepsOneProcess
    <3> QED BY <1>7, <3>1, <3>2
  <2>7. StepModes'
    BY <1>7 DEF StepModes
  <2> QED BY <1>2, <2>4, <2>5, <2>6, <2>7
<1>8. CASE step_over_current_breakpoint
  <2>1. PICK t \in Tids : t = current_tid
    BY <1>8 DEF step_over_current_breakpoint, WaitsForTask
  <2>2. /\ mode = "stepover" /\ Waitable(t)
        /\ UNCHANGED <<rip, pid, current_tid, threads, pending_initial_stop, processes>>
    BY <1>8, <2>1 DEF step_over_current_breakpoint, tables
  <2>3. CASE report[t].kind \in Ends
    <3>1. rip[t] # "past"
      BY <1>4, <2>2, <2>3 DEF PastIsShown, Resumptions
    <3>2. /\ Consume(t) /\ mode' = "prompt"
          /\ exited' = exited \/ exited'
      BY <1>0, <1>8, <2>1, <2>3 DEF step_over_current_breakpoint, mark_exited, Return
    <3> QED BY <1>7, <2>1, <2>2, <2>3, <3>1, <3>2
  <2>4. CASE report[t].kind \notin Ends /\ exited
    <3>1. /\ Consume(t) /\ mode' = "prompt" /\ exited' = exited
      BY <1>0, <1>8, <2>1, <2>4 DEF step_over_current_breakpoint, Return, Ends
    <3> QED BY <1>1, <1>2, <1>4, <1>5, <2>1, <2>2, <2>4, <3>1
            DEF NewAreHeld, FocusSeen, StepsOneProcess, StepModes
  <2>5. CASE report[t].kind \notin Ends /\ ~exited
    <3>1. /\ \E how \in Resumptions : Resume(t, how)
          /\ exited' = exited /\ mode' = "wait"
      BY <1>8, <2>1, <2>5 DEF step_over_current_breakpoint, ResumeFocus, HowOf, Resumptions, Ends
    <3> QED BY <1>7, <2>1, <2>2, <2>5, <3>1
  <2> QED BY <2>3, <2>4, <2>5
<1>9. CASE classify_wait \/ finish_undebugged_frame
  <2>1. PICK t \in Tids : t = current_tid
    BY <1>9 DEF classify_wait, finish_undebugged_frame, WaitsForTask
  <2>2. /\ mode \in {"rawstep", "frame"} /\ Waitable(t)
        /\ UNCHANGED <<pid, current_tid, threads, pending_initial_stop, processes>>
    BY <1>9, <2>1 DEF classify_wait, finish_undebugged_frame, tables
  <2>3. "step" \in Commands /\ ~exited
    BY <2>2 DEF StepModes
  <2>4. CASE report[t].kind \in Ends
    <3>1. rip[t] # "past"
      BY <1>4, <2>2, <2>4 DEF PastIsShown, Resumptions
    <3>2. Consume(t) /\ mode' = "prompt" /\ exited' /\ rip' = rip
      BY <1>0, <1>9, <2>1, <2>4 DEF classify_wait, finish_undebugged_frame, mark_exited, Return,
                                    Ends
    <3> QED BY <1>7, <2>1, <2>2, <2>4, <3>1, <3>2
  <2>5. CASE report[t].kind \notin Ends
    <3>1. /\ exited' = exited
          /\ \/ /\ Consume(t) /\ mode' = "prompt"
                /\ fixup_breakpoint_rip(t) \/ (rip' = rip /\ report[t].kind # "trap")
             \/ (\E how \in Resumptions : Resume(t, how)) /\ mode' \in {"rawstep", "frame"}
      BY <1>0, <1>9, <2>1, <2>5 DEF classify_wait, finish_undebugged_frame, single_step_raw,
                                    Return, Resumptions
    <3>2. ASSUME fixup_breakpoint_rip(t) \/ (rip' = rip /\ report[t].kind # "trap")
          PROVE  rip'[t] # "past"
      BY <1>0, <1>4, <2>2, <3>2, FixupLowers DEF PastIsShown
    <3> QED BY <1>7, <2>1, <2>2, <2>3, <2>5, <3>1, <3>2
  <2> QED BY <2>4, <2>5
<1>10. ASSUME mode = "wait", mode' = "wait", NEW t \in Tids, Stopped(t), Attached(t)',
              Consume(t) \/ \E how \in Resumptions : Resume(t, how),
              UNCHANGED <<pid, exited, current_tid>>,
              threads \subseteq threads', processes \subseteq processes',
              \A x \in Tids : Attached(x) => Attached(x)'
       PROVE  Goal
  <2>1. \A x \in Tids : /\ run[x] # "unborn" <=> run'[x] # "unborn"
                        /\ Alive(x)' <=> Alive(x)
    <3>1. ASSUME NEW how \in Resumptions, Resume(t, how)
          PROVE  \A x \in Tids : /\ run[x] # "unborn" <=> run'[x] # "unborn"
                                 /\ Alive(x)' <=> Alive(x)
      BY <1>0, <1>10, <3>1 DEF Resume, Resumptions, KernelTypeOK, Alive, Running, Stopped
    <3> QED BY <1>5, <1>10, <3>1
  <2>2. NewAreHeld'
    <3>1. ASSUME ~exited PROVE \A x \in Tids : Alive(x)' => (Attached(x) \/ AwaitsAttach(x))'
      <4>1. \A x \in Tids : Alive(x) => Attached(x) \/ AwaitsAttach(x)
        BY <1>10, <3>1 DEF NewAreHeld
      <4> QED BY <1>0, <1>10, <4>1, MovesKeepNew
    <3> QED BY <1>10, <3>1 DEF NewAreHeld
  <2>3. FocusSeen'
    <3>1. ASSUME ~exited, NEW x \in Tids, x = current_tid
          PROVE  run'[x] # "unborn" /\ (Alive(x)' => x \in threads')
      BY <1>10, <2>1, <3>1 DEF FocusSeen
    <3> QED BY <1>10, <3>1 DEF FocusSeen, Alive, Running, Stopped
  <2>4. StepsOneProcess'
    <3>1. ~exited
      BY <1>10 DEF OneRun
    <3> QED BY <1>1, <1>10, <2>1, <3>1 DEF StepsOneProcess
  <2> QED BY <1>2, <1>10, <2>2, <2>3, <2>4 DEF StepModes
<1>11. ASSUME NEW t \in Tids, wait_event(t) PROVE Goal
  <2> DEFINE c == report[t].child
  <2>1. /\ mode = "wait" /\ mode' = "wait" /\ UNCHANGED <<pid, exited, current_tid>>
        /\ Waitable(t) /\ report[t].kind \in {"clone", "fork"}
        /\ register_thread(c) /\ register_process(c, report[t].kind)
    BY <1>11 DEF wait_event, InWait, control
  <2>2. Stopped(t) /\ report[t].kind # "initial" /\ ~exited
    BY <2>1 DEF ReportsMatch, Births0, OneRun
  <2>3. Consume(t) \/ \E how \in Resumptions : Resume(t, how)
    BY <1>11, <2>2 DEF wait_event, resume_or_hold, TryResume, Resumptions
  <2>4. Attached(t)
    BY <2>1, <2>2 DEF NewAreHeld, AwaitsAttach, Alive
  <2>5. /\ threads \subseteq threads' /\ processes \subseteq processes'
        /\ \A x \in Tids : Attached(x) => Attached(x)'
    BY <2>1 DEF register_thread, register_process, Enter, tables, Attached
  <2> QED BY <1>10, <2>1, <2>2, <2>3, <2>4, <2>5
<1>12. ASSUME NEW t \in Tids, wait_initial_stop(t) PROVE Goal
  <2>1. /\ mode = "wait" /\ mode' = "wait" /\ UNCHANGED <<pid, exited, current_tid, processes>>
        /\ report[t].kind \in Stops
    BY <1>12 DEF wait_initial_stop, InWait, control
  <2>2. Stopped(t)
    BY <2>1 DEF ReportsMatch
  <2>3. Consume(t) \/ \E how \in Resumptions : Resume(t, how)
    BY <1>12, <2>2 DEF wait_initial_stop, resume_or_hold, TryResume, Resumptions
  <2>4. threads' = threads \cup {t} /\ pending_initial_stop' = pending_initial_stop \ {t}
    BY <1>12 DEF wait_initial_stop, Enter
  <2> QED BY <1>10, <2>1, <2>2, <2>3, <2>4 DEF Attached
<1>13. ASSUME NEW t \in Tids PROVE ~wait_held(t)
  BY <1>0 DEF wait_held, Held
<1>14. ASSUME NEW t \in Tids, wait_stopped(t) PROVE Goal
  <2>1. /\ mode = "wait" /\ mode' = "prompt" /\ current_tid' = t
        /\ Waitable(t) /\ Consume(t) /\ report[t].kind \in Stops /\ Attached(t)
        /\ UNCHANGED <<pid, exited, threads, pending_initial_stop, processes>>
    BY <1>0, <1>14 DEF wait_stopped, InWait, Skips, Return, tables, Attached
  <2>2. run[t] = "stopped" /\ run'[t] = "stopped" /\ ~exited
    BY <1>5, <2>1 DEF ReportsMatch, Stopped, OneRun
  <2>3. rip'[t] # "past"
    BY <1>0, <1>4, <1>14, <2>1, FixupLowers DEF wait_stopped, PastIsShown
  <2>4. \A x \in Tids : Attached(x)' <=> Attached(x)
    BY <2>1 DEF Attached
  <2>5. NewAreHeld'
    <3>1. \A x \in Tids : Alive(x) => Attached(x) \/ AwaitsAttach(x)
      BY <2>1, <2>2 DEF NewAreHeld
    <3>2. \A x \in Tids : Alive(x)' => (Attached(x) \/ AwaitsAttach(x))'
      BY <1>0, <2>1, <2>4, <3>1, MovesKeepNew
    <3> QED BY <3>2 DEF NewAreHeld
  <2>6. FocusSeen'
    BY <2>1, <2>2, <2>3 DEF FocusSeen, Settled, Attached
  <2>7. StepsOneProcess'
    BY <1>1, <1>5, <2>1, <2>2 DEF StepsOneProcess
  <2> QED BY <1>2, <2>1, <2>5, <2>6, <2>7 DEF StepModes
<1>15. ASSUME NEW t \in Tids, wait_exited(t) PROVE Goal
  <2>1. /\ mode = "wait" /\ Waitable(t) /\ Consume(t) /\ report[t].kind \in Ends
        /\ threads' = threads \ {t} /\ processes' = processes \ {t}
        /\ UNCHANGED <<pid, pending_initial_stop>>
        /\ IF current_tid # t THEN current_tid' = current_tid
           ELSE current_tid' \in IF threads' = {} THEN {NoTid} ELSE threads'
        /\ \/ (threads' = {} \/ processes' = {}) /\ exited' /\ mode' = "prompt"
           \/ threads' # {} /\ exited' = exited /\ mode' = "wait"
    BY <1>0, <1>15 DEF wait_exited, InWait, Settle, Return, mark_exited
  <2>2. ~exited /\ ~Alive(t) /\ run[t] = "zombie"
    BY <1>4, <2>1 DEF OneRun
  <2>3. /\ \A x \in Tids : run[x] # "unborn" <=> run'[x] # "unborn"
        /\ \A x \in Tids : Alive(x)' <=> Alive(x)
        /\ \A x \in Tids : run'[x] # "unborn" /\ ~Alive(x)' => run'[x] \in {"zombie", "reaped"}
    BY <1>0, <1>5, <2>1 DEF Consume, KernelTypeOK, RunStates, Alive, Running, Stopped
  <2>4. ASSUME NEW x \in Tids, x # t, Attached(x) PROVE Attached(x)'
    BY <2>1, <2>4 DEF Attached
  <2>5. NewAreHeld'
    <3>1. \A x \in Tids : Alive(x) => Attached(x) \/ AwaitsAttach(x)
      BY <2>1, <2>2 DEF NewAreHeld
    <3>2. \A x \in Tids : Attached(x) /\ Alive(x)' => Attached(x)'
      BY <2>2, <2>3, <2>4
    <3> QED BY <1>0, <2>1, <2>2, <3>1, <3>2, MovesKeepNew DEF NewAreHeld
  <2>6. ASSUME NEW x \in Tids, x = current_tid'
        PROVE  run'[x] # "unborn" /\ (Alive(x)' => x \in threads')
    <3>1. CASE current_tid # t
      <4>1. run[x] # "unborn" /\ (Alive(x) => x \in threads)
        BY <2>1, <2>2, <2>6, <3>1 DEF FocusSeen
      <4> QED BY <2>1, <2>3, <2>6, <3>1, <4>1
    <3>2. CASE current_tid = t
      BY <1>0, <2>1, <2>3, <2>6, <3>2 DEF KnownAreBorn
    <3> QED BY <3>1, <3>2
  <2>7. FocusSeen'
    <3>1. ~exited' => mode' = "wait"
      BY <2>1
    <3> QED BY <2>6, <3>1 DEF FocusSeen, Alive, Running, Stopped
  <2>8. StepsOneProcess'
    <3> SUFFICES ASSUME "step" \in Commands PROVE StepsOneProcess'
      BY DEF StepsOneProcess
    <3>1. \A x \in Tids : run[x] # "unborn" => leader[x] = pid
      BY <2>2 DEF StepsOneProcess
    <3>2. pid \in processes' \/ \A x \in Tids : ~Alive(x)'
      <4>1. CASE t = pid
        <5>1. \A x \in Tids \ {t} : run[x] \in {"unborn", "reaped"}
          BY <2>1, <2>2, <3>1, <4>1 DEF Waitable, Group
        <5> QED BY <2>2, <2>3, <5>1 DEF Alive, Running, Stopped
      <4>2. CASE t # pid
        BY <2>1, <2>2, <2>3, <4>2 DEF StepsOneProcess
      <4> QED BY <4>1, <4>2
    <3>3. exited' /\ current_tid' \in Tids => run'[current_tid'] \in {"zombie", "reaped"}
      BY <2>1, <2>2, <2>3, <2>6, <3>2
    <3> QED BY <1>1, <2>1, <2>3, <3>1, <3>2, <3>3 DEF StepsOneProcess
  <2> QED BY <1>2, <2>1, <2>5, <2>7, <2>8 DEF StepModes
<1>16. CASE wait_no_child
  <2>1. /\ mode = "wait" /\ mode' = "prompt" /\ \A t \in Tids : run[t] \in {"unborn", "reaped"}
        /\ UNCHANGED <<run, report, leader, rip, fields>>
    BY <1>0, <1>16 DEF wait_no_child, NoTracee, Gone, Return, kernelVars
  <2>2. UNCHANGED <<pid, exited, current_tid, processes>> /\ ~exited
    BY <2>1 DEF fields, OneRun
  <2>3. \A t \in Tids : ~Alive(t)' /\ rip[t] # "past"
    BY <2>1 DEF Alive, Running, Stopped, PastIsShown, Resumptions
  <2>4. FocusSeen'
    BY <2>1, <2>2, <2>3 DEF FocusSeen, Settled
  <2>5. StepsOneProcess'
    BY <2>1, <2>2, <2>3 DEF StepsOneProcess
  <2> QED BY <1>2, <2>1, <2>3, <2>4, <2>5 DEF NewAreHeld, StepModes
<1>17. ASSUME NEW t \in Tids, kill_reaps(t) PROVE Goal
  <2>1. mode = "kill" /\ mode' = mode /\ Consume(t) /\ UNCHANGED fields
    BY <1>17 DEF kill_reaps
  <2>2. UNCHANGED <<pid, exited, current_tid, processes>>
    BY <2>1 DEF fields
  <2>3. FocusSeen'
    BY <1>5, <2>1, <2>2 DEF FocusSeen
  <2>4. \A x \in Tids : run[x] \in {"zombie", "reaped"} => run'[x] \in {"zombie", "reaped"}
    BY <1>0, <2>1 DEF Consume, KernelTypeOK
  <2>5. StepsOneProcess'
    BY <1>1, <1>5, <2>1, <2>2, <2>4 DEF StepsOneProcess
  <2> QED BY <1>2, <2>1, <2>3, <2>5 DEF NewAreHeld, StepModes
<1>18. CASE kill_done
  <2>1. /\ exited' /\ current_tid' = NoTid /\ mode' \in {"prompt", "quit"}
        /\ UNCHANGED <<run, leader>>
    BY <1>0, <1>18 DEF kill_done, Forget, mark_exited, Leave, Return, kernelVars
  <2> QED BY <1>0, <1>1, <1>2, <2>1 DEF NewAreHeld, FocusSeen, StepsOneProcess, StepModes
<1>19. ~\E t \in Tids : release_held_thread(t)
  BY <1>0 DEF release_held_thread
<1>20. ~release_waited /\ ~released /\ ~restore_focus /\ ~\E n : focus_thread_for_apply(n)
  BY <1>0 DEF release_waited, released, restore_focus, focus_thread_for_apply
<1> QED BY <1>6, <1>8, <1>9, <1>11, <1>12, <1>13, <1>14, <1>15, <1>16, <1>17, <1>18, <1>19, <1>20
        DEF Wait

(* The invariant is inductive.                                             *)
LEMMA PastNext ==
    ASSUME OnePlainRun PROVE PastInv /\ [Next]_vars => PastInv'
<1> SUFFICES ASSUME PastInv, [Next]_vars PROVE PastInv'
  OBVIOUS
<1>1. WaitInv'
  BY WaitNext DEF PastInv, OnePlainRun
<1>2. PastIsShown'
  BY NextKeepsPast DEF PastInv, WaitInv, AttachInv, NobodyLocked
<1>3. NewAreHeld' /\ FocusSeen' /\ StartedAlone' /\ StepsOneProcess' /\ StepModes'
  BY ProgramKeepsPastInv, ForwarderKeepsPastInv, CommandKeepsPastInv, WaitKeepsPastInv DEF Next
<1> QED BY <1>1, <1>2, <1>3 DEF PastInv

LEMMA PastInit == Init => PastInv
<1> SUFFICES ASSUME Init PROVE PastInv
  OBVIOUS
<1>1. ReportsMatch /\ KnownAreBorn /\ AttachStopAccounted
  BY DEF Init, KernelInit, ReportsMatch, KnownAreBorn, AttachStopAccounted, Quiet, Stops, Ends,
         Births0
<1>2. NobodyLocked /\ DeathsPend /\ OneRun /\ NoneLeftBehind
  BY DEF Init, KernelInit, NoApply, NobodyLocked, DeathsPend, OneRun, NoneLeftBehind, Taken,
         Stopped
<1>3. PastIsShown /\ NewAreHeld /\ FocusSeen /\ StartedAlone /\ StepsOneProcess /\ StepModes
  BY TraceesAssumption DEF Init, KernelInit, PastIsShown, NewAreHeld, FocusSeen, StartedAlone,
                           StepsOneProcess, StepModes, Alive, Running, Stopped
<1> QED BY <1>1, <1>2, <1>3, InitType DEF PastInv, WaitInv, AttachInv

(* tdb loses nobody past an int3: a command resumes the focus, which is    *)
(* settled or dead; a step lowers rip first or sees no breakpoint hit; and *)
(* what an event or an attach resumes has not come to one.                 *)
LEMMA TdbLosesNobody ==
    ASSUME OnePlainRun, PastInv, Command \/ Wait, NEW t \in Tids
    PROVE  ~LosesInt3(t)
<1> SUFFICES ASSUME LosesInt3(t) PROVE FALSE
  OBVIOUS
<1> USE DEF PastInv, WaitInv, AttachInv, TypeOK
<1>1. /\ KernelTypeOK /\ NoTid \notin Tids /\ ~apply.on /\ locked_tid = NoTid
      /\ mode \notin {"release", "dispatch", "apply"}
  BY TraceesAssumption DEF NobodyLocked
<1>2. ASSUME NEW u \in Tids, NEW how, Resume(u, how) PROVE u = t
  BY <1>1, <1>2 DEF Resume, LosesInt3, Running, Stopped
<1>3. ASSUME NEW u \in Tids, TryResume(u) PROVE u = t
  BY <1>2, <1>3 DEF TryResume, LosesInt3, Running, Stopped
<1>4. ~Still
  BY DEF Still, LosesInt3, Running, Stopped
<1>5. ASSUME NEW u \in Tids, Consume(u) PROVE FALSE
  BY <1>1, <1>5 DEF Consume, LosesInt3, Running, Stopped, KernelTypeOK
<1>6. ~Reject
  BY <1>4 DEF Reject, Still, kernelVars
<1>7. ASSUME Command PROVE FALSE
  <2>1. ASSUME NEW dying, Perish(dying, "signaled") PROVE FALSE
    BY <1>1, <2>1 DEF Perish, LosesInt3, Running, Stopped
  <2>2. ASSUME NEW c \in Tids, start_forks(c) PROVE FALSE
    BY <1>1, <2>2 DEF start_forks, LosesInt3, Running, Stopped, KernelTypeOK
  <2>3. ASSUME NEW name, resume_command(name) PROVE FALSE
    <3>1. current_tid \in Tids /\ UNCHANGED rip /\ mode = "prompt"
      BY <1>1, <1>6, <2>3 DEF resume_command, Focused, StoppedThread, Given, FieldsTypeOK
    <3>2. CASE rip[current_tid] = "at"
      BY <1>2, <1>6, <2>3, <3>1, <3>2 DEF resume_command, LosesInt3
    <3>3. CASE rip[current_tid] # "at"
      <4>1. ~exited /\ \E how : Resume(current_tid, how)
        BY <1>4, <1>6, <2>3, <3>3 DEF resume_command, ResumeFocus, Still
      <4>2. Settled(current_tid)
        BY <3>1, <4>1 DEF FocusSeen
      <4> QED BY <1>2, <3>1, <4>1, <4>2 DEF Settled, LosesInt3
    <3> QED BY <3>2, <3>3
  <2>4. ASSUME step_line PROVE FALSE
    <3>1. /\ current_tid \in Tids /\ mode = "prompt" /\ "step" \in Commands
          /\ \E how : Resume(current_tid, how)
      BY <1>1, <1>6, <2>4 DEF step_line, Focused, StoppedThread, single_step_raw, Given,
                              FieldsTypeOK
    <3>2. current_tid = t /\ Stopped(t) /\ rip[t] = "past"
      BY <1>2, <3>1 DEF LosesInt3
    <3>3. ~exited
      BY <3>1, <3>2 DEF StepsOneProcess, Stopped
    <3> QED BY <3>1, <3>2, <3>3 DEF FocusSeen, Settled
  <2>5. ASSUME NEW n PROVE ~switch_thread(n) /\ ~lock_thread(n)
    BY <1>1 DEF switch_thread, lock_thread, Given, OnePlainRun
  <2>6. ASSUME NEW name, kill(name) PROVE FALSE
    BY <1>4, <2>1, <2>6 DEF kill, Still
  <2>7. ~unlock_thread /\ ~end_of_input
    BY <1>4, <1>6 DEF unlock_thread, end_of_input, Still, kernelVars
  <2>8. ASSUME start PROVE FALSE
    BY <1>6, <2>2, <2>8 DEF start
  <2> QED BY <1>7, <2>3, <2>4, <2>5, <2>6, <2>7, <2>8 DEF Command, cont, stepi, OnePlainRun
<1>8. ASSUME Wait PROVE FALSE
  <2>1. ~start_waited
    BY <1>5 DEF start_waited, WaitsForTask
  <2>2. ASSUME step_over_current_breakpoint PROVE FALSE
    <3>1. current_tid \in Tids /\ mode = "stepover" /\ UNCHANGED rip
      BY <2>2 DEF step_over_current_breakpoint, WaitsForTask
    <3>2. ~exited /\ \E how : Resume(current_tid, how)
      BY <1>4, <1>5, <2>2, <3>1 DEF step_over_current_breakpoint, ResumeFocus, Still
    <3>3. Settled(current_tid)
      BY <3>1, <3>2 DEF FocusSeen
    <3> QED BY <1>2, <3>1, <3>2, <3>3 DEF Settled, LosesInt3
  <2>3. ASSUME classify_wait PROVE FALSE
    <3>1. current_tid \in Tids
      BY <2>3 DEF classify_wait, WaitsForTask
    <3>2. fixup_breakpoint_rip(current_tid) /\ \E how : Resume(current_tid, how)
      BY <1>5, <2>3, <3>1 DEF classify_wait, single_step_raw
    <3> QED BY <1>1, <1>2, <3>1, <3>2, FixupLowers DEF LosesInt3
  <2>4. ASSUME finish_undebugged_frame PROVE FALSE
    <3>1. current_tid \in Tids
      BY <2>4 DEF finish_undebugged_frame, WaitsForTask
    <3>2. PICK r \in IF rip[current_tid] = "past" THEN {"off", "at"} ELSE {rip[current_tid]} :
              rip' = [rip EXCEPT ![current_tid] = r] /\ single_step_raw(r)
      BY <1>5, <2>4, <3>1 DEF finish_undebugged_frame
    <3>3. rip'[current_tid] # "past"
      BY <1>1, <3>1, <3>2 DEF KernelTypeOK
    <3> QED BY <1>2, <3>1, <3>2, <3>3 DEF single_step_raw, LosesInt3
  <2>5. ASSUME NEW u \in Tids, wait_event(u) PROVE FALSE
    <3>1. rip[u] # "past"
      BY <2>5 DEF wait_event, PastIsShown
    <3>2. TryResume(u)
      BY <1>5, <2>5 DEF wait_event, resume_or_hold
    <3> QED BY <1>3, <3>1, <3>2 DEF LosesInt3
  <2>6. ASSUME NEW u \in Tids, wait_initial_stop(u) PROVE FALSE
    <3>1. Skips(u) /\ mode = "wait" /\ ~exited /\ TryResume(u)
      BY <1>5, <2>6 DEF wait_initial_stop, InWait, resume_or_hold, OneRun
    <3>2. u = t /\ Stopped(u) /\ rip[u] = "past"
      BY <1>3, <3>1 DEF LosesInt3
    <3>3. AwaitsAttach(u)
      BY <3>1, <3>2 DEF NewAreHeld, Attached, Skips, Alive
    <3> QED BY <3>2, <3>3 DEF AwaitsAttach, PastIsShown
  <2>7. ASSUME NEW u \in Tids, wait_held(u) \/ wait_stopped(u) \/ wait_exited(u) \/ kill_reaps(u)
        PROVE  FALSE
    BY <1>5, <2>7 DEF wait_held, wait_stopped, wait_exited, kill_reaps
  <2>8. ~wait_no_child /\ ~released /\ ~kill_done
    BY <1>4 DEF wait_no_child, released, kill_done, Still, kernelVars
  <2>9. ASSUME NEW u PROVE ~release_held_thread(u) /\ ~focus_thread_for_apply(u)
    BY <1>1 DEF release_held_thread, focus_thread_for_apply
  <2>10. ~release_waited /\ ~restore_focus
    BY <1>1 DEF release_waited, restore_focus
  <2> QED BY <1>8, <2>1, <2>2, <2>3, <2>4, <2>5, <2>6, <2>7, <2>8, <2>9, <2>10 DEF Wait
<1> QED BY <1>7, <1>8

(* In one run of a program, with any births (but no fork if the user types *)
(* `step`), deaths and signals once it has begun: no task at all, known to *)
(* tdb or not, is ever set going one byte past an int3                     *)
(* (fixup_breakpoint_rip, and the stop of the attach that wait_and_report  *)
(* skips).                                                                 *)
THEOREM NobodyResumedPastInt3 ==
    ASSUME OnePlainRun PROVE Spec => NeverResumedPastInt3
<1>1. PastInv /\ [Next]_vars => PastInv'
  BY PastNext
<1>2. ASSUME PastInv, [Next]_vars, NEW t \in Tids PROVE ~LosesInt3(t)
  <2>1. KernelTypeOK
    BY <1>2 DEF PastInv, WaitInv, AttachInv, TypeOK
  <2>2. CASE Command \/ Wait
    BY <1>2, <2>2, TdbLosesNobody
  <2>3. CASE Program
    BY <2>1, <2>3, ProgramHolds DEF Program, LosesInt3
  <2>4. CASE Forwarder \/ UNCHANGED vars
    BY <2>4, ForwarderMoves DEF Still, LosesInt3, Running, Stopped
  <2> QED BY <1>2, <2>2, <2>3, <2>4 DEF Next
<1>3. PastInv /\ [Next]_vars =>
          [\A t \in Tids : Stopped(t) /\ rip[t] = "past" => ~(Running(t)' /\ rip'[t] = "past")]_vars
  BY <1>2 DEF LosesInt3
<1> QED BY PastInit, <1>1, <1>3, PTL DEF Spec, NeverResumedPastInt3
=============================================================================
