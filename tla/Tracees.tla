------------------------------ MODULE Tracees ------------------------------
(***************************************************************************)
(* The kernel's side of tdb: the threads of the debugged program as        *)
(* ptrace(2), waitpid(2) and kill(2) show them.  None of it is code of the *)
(* repository; it is modelled from how src/debugger.rs uses it, and every  *)
(* definition is marked external.                                          *)
(*                                                                         *)
(* A thread (a tid) is identified with its task.  A process is named by    *)
(* its leader, as a pid is the tid of the leader.  tids are not reused.    *)
(***************************************************************************)
EXTENDS Naturals, FiniteSets

CONSTANTS Tids,         \* the tids the kernel may hand out
          NoTid,        \* Rust's None, and the 0 of DEBUGGEE_PID
          Births,       \* how the program creates tasks: subset of {"clone", "fork"}
          Deaths,       \* how a task ends: subset of {"exited", "signaled", "noexec"}
          Breakpoint    \* TRUE when some instruction carries an enabled breakpoint

ASSUME TraceesAssumption ==
    /\ NoTid \notin Tids
    /\ Births \subseteq {"clone", "fork"}
    /\ Deaths \subseteq {"exited", "signaled", "noexec"}
    /\ Breakpoint \in BOOLEAN

VARIABLES run,     \* scheduling state of each tid
          report,  \* what waitpid would report of it, and has not yet
          leader,  \* the process it belongs to
          sigs,    \* pending process-directed signals, held at the leader
          rip      \* where it is with respect to an enabled breakpoint

kernelVars == <<run, report, leader, sigs, rip>>

(* "stepping" runs one instruction with every int3 in place, "stepover"    *)
(* the one instruction under a breakpoint that has been lifted.            *)
RunStates == {"unborn", "starting", "running", "stepping", "stepover",
              "stopped", "zombie", "reaped"}

Births0 == {"clone", "fork"}
Stops   == {"exec", "initial", "trap", "SIGSTOP", "SIGINT"}
Ends    == {"exited", "signaled"}

Quiet      == [kind |-> "none", child |-> NoTid]
Report(k)  == [kind |-> k, child |-> NoTid]
Event(k,c) == [kind |-> k, child |-> c]

Reports == {Quiet} \cup {Report(k) : k \in Stops \cup Ends}
                   \cup {Event(k, c) : k \in Births0, c \in Tids}

(* rip is "off" any breakpoint, "at" the address of an enabled one, or     *)
(* "past" it: the int3 was executed and rip is one byte further.           *)
KernelTypeOK ==
    /\ run \in [Tids -> RunStates]
    /\ report \in [Tids -> Reports]
    /\ leader \in [Tids -> Tids \cup {NoTid}]
    /\ sigs \in [Tids -> SUBSET {"SIGSTOP", "SIGINT"}]
    /\ rip \in [Tids -> {"off", "at", "past"}]

KernelInit ==
    /\ run = [t \in Tids |-> "unborn"]
    /\ report = [t \in Tids |-> Quiet]
    /\ leader = [t \in Tids |-> NoTid]
    /\ sigs = [t \in Tids |-> {}]
    /\ rip = [t \in Tids |-> "off"]

-----------------------------------------------------------------------------
Running(t) == run[t] \in {"starting", "running", "stepping", "stepover"}
Stopped(t) == run[t] = "stopped"
Alive(t)   == Running(t) \/ Stopped(t)
Gone(t)    == run[t] \in {"unborn", "reaped"}
Group(t)   == {u \in Tids : leader[u] = leader[t]}

(* A zombie leader is not reported before the rest of its process.         *)
Waitable(t) ==
    /\ report[t] # Quiet
    /\ run[t] = "zombie" /\ leader[t] = t
           => \A u \in Group(t) \ {t} : run[u] = "reaped"

NoTracee == \A t \in Tids : Gone(t)

Stop(t, r) == /\ run' = [run EXCEPT ![t] = "stopped"]
              /\ report' = [report EXCEPT ![t] = r]

(* PTRACE_CONT, PTRACE_SINGLESTEP: a stop nobody waited for is forgotten.  *)
Resume(t, how) == /\ run' = [run EXCEPT ![t] = how]
                  /\ report' = [report EXCEPT ![t] = Quiet]

(* The same call with its error ignored, as in `let _ = ptrace::cont`.     *)
TryResume(t) == IF Stopped(t) THEN Resume(t, "running")
                              ELSE UNCHANGED <<run, report>>

(* waitpid consumes a stop, or reaps a zombie.                             *)
Consume(t) == /\ report' = [report EXCEPT ![t] = Quiet]
              /\ run' = [run EXCEPT ![t] = IF @ = "zombie" THEN "reaped" ELSE @]

(* A set of tasks dies, whatever each was doing.                           *)
Perish(dying, end) ==
    /\ run' = [u \in Tids |-> IF u \in dying /\ Alive(u) THEN "zombie" ELSE run[u]]
    /\ report' = [u \in Tids |-> IF u \in dying /\ Alive(u) THEN Report(end)
                                                            ELSE report[u]]
    /\ rip' = [u \in Tids |-> IF u \in dying /\ Alive(u) THEN "off" ELSE rip[u]]

-----------------------------------------------------------------------------
(* What the program does between two stops.  A task resumed "at" a live    *)
(* int3 can only execute it, or take a signal first.                       *)
MayExecute(t) == Running(t) /\ run[t] # "starting"
                            /\ (rip[t] = "at" => run[t] = "stepover")

(* fork and execve done by tdb's child, or its exit(127).                  *)
Exec(t) == /\ run[t] = "starting"
           /\ Stop(t, Report("exec"))
           /\ UNCHANGED <<leader, sigs, rip>>

ExecFails(t) == /\ "noexec" \in Deaths
                /\ run[t] = "starting"
                /\ Perish({t}, "exited")
                /\ UNCHANGED <<leader, sigs>>

HitBreakpoint(t) ==
    /\ run[t] \in {"running", "stepping"}
    /\ rip[t] # "past"
    /\ run[t] = "stepping" => rip[t] = "at"
    /\ rip[t] = "at" \/ Breakpoint
    /\ Stop(t, Report("trap"))
    /\ rip' = [rip EXCEPT ![t] = "past"]
    /\ UNCHANGED <<leader, sigs>>

(* The single step is done; the next instruction may carry a breakpoint.   *)
StepTrap(t) ==
    /\ run[t] \in {"stepping", "stepover"}
    /\ MayExecute(t)
    /\ Stop(t, Report("trap"))
    /\ \E r \in {"off", "at"} : /\ r = "at" => Breakpoint
                                /\ rip' = [rip EXCEPT ![t] = r]
    /\ UNCHANGED <<leader, sigs>>

(* PTRACE_EVENT_CLONE, _FORK, _VFORK: creator and new task both stop, and  *)
(* waitpid may report them in either order.                                *)
GiveBirth(t, c, kind) ==
    /\ MayExecute(t)
    /\ kind \in Births
    /\ run[c] = "unborn"
    /\ run' = [run EXCEPT ![t] = "stopped", ![c] = "stopped"]
    /\ report' = [report EXCEPT ![t] = Event(kind, c), ![c] = Report("initial")]
    /\ leader' = [leader EXCEPT ![c] = IF kind = "fork" THEN c ELSE leader[t]]
    /\ rip' = [rip EXCEPT ![t] = "off"]
    /\ UNCHANGED sigs

(* kill(2) signals a process: any of its running threads takes the signal, *)
(* and two of a kind are one.  Under ptrace it becomes a stop.             *)
TakeSignal(t, s) ==
    /\ Running(t)
    /\ s \in sigs[leader[t]]
    /\ Stop(t, Report(s))
    /\ sigs' = [sigs EXCEPT ![leader[t]] = @ \ {s}]
    /\ rip' = [rip EXCEPT ![t] = IF @ = "past" THEN "off" ELSE @]
    /\ UNCHANGED leader

ThreadExit(t) ==
    /\ MayExecute(t)
    /\ "exited" \in Deaths
    /\ Perish({t}, "exited")
    /\ UNCHANGED <<leader, sigs>>

(* exit_group, or a fatal signal: the whole process goes, stopped or not.  *)
GroupExit(t, end) ==
    /\ MayExecute(t)
    /\ end \in Deaths \cap Ends
    /\ Perish(Group(t), end)
    /\ UNCHANGED <<leader, sigs>>

ProgramStep(t) ==
    \/ Exec(t) \/ ExecFails(t)
    \/ HitBreakpoint(t)
    \/ StepTrap(t)
    \/ \E c \in Tids, kind \in Births : GiveBirth(t, c, kind)
    \/ \E s \in {"SIGSTOP", "SIGINT"} : TakeSignal(t, s)
    \/ ThreadExit(t)
    \/ \E end \in Deaths : GroupExit(t, end)
=============================================================================
