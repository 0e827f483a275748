-------------------------------- MODULE Leak --------------------------------
(***************************************************************************)
(* Leak tracking: leak on|off and handle_leak_breakpoint of                *)
(* src/debugger.rs over the LeakTracker of src/leak.rs.  continue puts     *)
(* hidden breakpoints on the entries of the allocator, the hit of one puts *)
(* another on the return address of the call, and what is seen at the two  *)
(* is entered in a ledger of live allocations.  The hidden breakpoints     *)
(* share the table and the memory with the user's and with nexti's, and    *)
(* are withdrawn when continue returns, wherever the program's threads are.*)
(* stepi waits in the same wait_and_report, and withdraws nothing.         *)
(*                                                                         *)
(* One process and one run of it.  A stop is a breakpoint or a signal; the *)
(* order in which tasks are reported and registered is module Session's.   *)
(* calloc is malloc with a product for its size.                           *)
(***************************************************************************)
EXTENDS Naturals, FiniteSets

CONSTANTS Threads, Main,   \* threads of the program, and its first
          Sites,           \* calls of the allocator, each with its return address
          Ptrs, Null,      \* blocks of the heap; the null pointer
          Sizes,           \* what is asked for; 0 is special to realloc
          BreakAddrs,      \* where the user sets breakpoints
          MaxToggles,      \* bound on the number of leak on|off
          None             \* Rust's None, and a thread that is in no call

Fns == {"malloc", "realloc", "free"}

Loader    == <<"at", "loader">>     \* ld.so: libc is not mapped yet
Start     == <<"at", "start">>      \* the executable's own entry point
Entry(f)  == <<"entry", f>>
Inside(f) == <<"inside", f>>
CallAt(r) == <<"call", r>>
RetAt(r)  == <<"return", r>>
Places    == {Loader, Start} \cup {Entry(f) : f \in Fns} \cup {Inside(f) : f \in Fns}
                \cup {CallAt(r) : r \in Sites} \cup {RetAt(r) : r \in Sites}

(* The locals of nexti.                                                    *)
Steps == [ret : Places, had : BOOLEAN, tid : Threads]

ASSUME LeakAssumption ==
    /\ Main \in Threads
    /\ Null \notin Ptrs /\ None \notin Threads \cup Places
    /\ Sizes \subseteq Nat
    /\ BreakAddrs \subseteq Places
    /\ MaxToggles \in Nat
    /\ None \notin Steps

VARIABLES
    at, call, rax, heap,          \* the program: where each thread is, the call it
                                  \* makes, what that returned; the allocator's blocks
    run, report, past,            \* its tasks, and how they ended; past: rip is one
                                  \* byte past an int3
    breakpoints, memory, user,    \* saved bytes, the int3s in memory, values of bp_ids
    current_tid, exited, skip_target,
    enabled, entries, pending, live, warmed_up,   \* LeakTracker, but for its counters
                                  \* and its list of bad frees
    mode, lifted,                 \* which waitpid; the breakpoint stepped over
    command,                      \* what waits: cont, which nexti calls too, or stepi
    next,                         \* the locals of nexti
    toggles,                      \* leak on|off so far
    behind, seen, left            \* for the properties: blocks whose last change the
                                  \* ledger has not entered; threads in a call it knows;
                                  \* return hooks stepi has left at the prompt

program  == <<at, call, rax, heap>>
tasks    == <<run, report, past>>
patch    == [table |-> breakpoints, int3 |-> memory]
patches  == <<breakpoints, memory, user>>
tracker  == <<enabled, entries, pending, live, warmed_up>>
control  == <<mode, lifted, command, next, skip_target>>
ghosts   == <<behind, seen, left>>
vars     == <<program, tasks, patches, current_tid, exited, tracker, control, toggles, ghosts>>

-----------------------------------------------------------------------------
(* Breakpoints: a table of saved bytes (TRUE: the byte was an int3 itself) *)
(* and the int3s in memory.                                                *)

Install(m, S) ==
    [table |-> [a \in DOMAIN m.table \cup S |->
                   IF a \in DOMAIN m.table THEN m.table[a] ELSE a \in m.int3],
     int3  |-> m.int3 \cup (S \ DOMAIN m.table)]

Restored(m, S) == m.int3 \ {a \in S \cap DOMAIN m.table : ~m.table[a]}

(* The entry goes; the byte is restored if the thread used can be written. *)
Withdraw(m, S, writable) ==
    [table |-> [a \in DOMAIN m.table \ S |-> m.table[a]],
     int3  |-> IF writable THEN Restored(m, S) ELSE m.int3]

Lift(m, a)    == [m EXCEPT !.int3 = Restored(m, {a})]

(* Mutant: the breakpoint stays lifted.                                    *)
stays_lifted(m, a) == m

Relower(m, a) == IF a \in DOMAIN m.table THEN [m EXCEPT !.int3 = @ \cup {a}] ELSE m

Patched(m) == breakpoints' = m.table /\ memory' = m.int3

-----------------------------------------------------------------------------
Calls     == [fn : Fns, size : Sizes, ptr : Ptrs \cup {Null}, site : Sites]
Blocks    == [fn : {"malloc", "realloc"}, site : Sites]
Ledgers   == UNION {[P -> Blocks] : P \in SUBSET Ptrs}
Nothing   == [x \in {} |-> TRUE]
Block(c)  == [fn |-> c.fn, site |-> c.site]
Ends      == {"exited", "signaled"}
Drop(f, x)   == [y \in DOMAIN f \ {x} |-> f[y]]
Put(f, x, v) == [y \in DOMAIN f \cup {x} |-> IF y = x THEN v ELSE f[y]]

TypeOK ==
    /\ at \in [Threads -> Places]
    /\ call \in [Threads -> Calls \cup {None}]
    /\ rax \in [Threads -> Ptrs \cup {Null}]
    /\ heap \in Ledgers /\ live \in Ledgers
    /\ run \in [Threads -> {"unborn", "running", "stepping", "stopped"} \cup Ends]
    /\ report \in [Threads -> {"none", "trap", "signal"}]
    /\ past \in [Threads -> BOOLEAN]
    /\ DOMAIN breakpoints \subseteq Places /\ breakpoints \in [DOMAIN breakpoints -> BOOLEAN]
    /\ memory \subseteq Places /\ user \subseteq BreakAddrs
    /\ current_tid \in Threads /\ exited \in BOOLEAN
    /\ skip_target \in Places \cup {None}
    /\ enabled \in BOOLEAN /\ warmed_up \in BOOLEAN
    /\ entries \in {{}, {Entry(f) : f \in Fns}}
    /\ DOMAIN pending \subseteq {RetAt(r) : r \in Sites}
    /\ \A a \in DOMAIN pending : pending[a] \in Calls /\ RetAt(pending[a].site) = a
    /\ mode \in {"prompt", "warmup", "over", "hidden", "wait"} /\ lifted \in Places \cup {None}
    /\ command \in {"none", "cont", "stepi"}
    /\ next \in {None} \cup Steps
    /\ toggles \in 0 .. MaxToggles
    /\ behind \subseteq Ptrs /\ seen \subseteq Threads /\ left \subseteq DOMAIN pending

(* After run: the stop of execve, before the loader.  leak on may have     *)
(* been said before, as reset_for_run keeps it.                            *)
Init ==
    /\ at = [t \in Threads |-> Loader] /\ call = [t \in Threads |-> None]
    /\ rax = [t \in Threads |-> Null]
    /\ heap = Nothing /\ live = Nothing
    /\ run = [t \in Threads |-> IF t = Main THEN "stopped" ELSE "unborn"]
    /\ report = [t \in Threads |-> "none"] /\ past = [t \in Threads |-> FALSE]
    /\ breakpoints = Nothing /\ memory = {} /\ user = {}
    /\ current_tid = Main /\ exited = FALSE /\ skip_target = None
    /\ enabled \in BOOLEAN /\ entries = {} /\ pending = Nothing /\ warmed_up = FALSE
    /\ mode = "prompt" /\ lifted = None /\ command = "none" /\ next = None
    /\ toggles = 0
    /\ behind = {} /\ seen = {} /\ left = {}

Runs(t)    == run[t] \in {"running", "stepping"}
Stopped(t) == run[t] = "stopped"
Dead       == run[Main] \in Ends

-----------------------------------------------------------------------------
(* The program.  A thread one byte past an int3 would execute the middle   *)
(* of an instruction, which nothing here says anything of: it takes no step.*)

Executes(t, there) ==
    /\ Runs(t) /\ ~past[t] /\ at[t] \notin memory
    /\ at' = [at EXCEPT ![t] = there]
    /\ IF run[t] = "stepping"
       THEN run' = [run EXCEPT ![t] = "stopped"] /\ report' = [report EXCEPT ![t] = "trap"]
       ELSE UNCHANGED <<run, report>>
    /\ UNCHANGED past

Load(t) == at[t] = Loader /\ Executes(t, Start) /\ UNCHANGED <<call, rax, heap, ghosts>>

(* To some call of the allocator, and away from the last.                  *)
GoesOn(t) ==
    /\ at[t] \in {Start} \cup {RetAt(r) : r \in Sites}
    /\ \E r \in Sites : Executes(t, CallAt(r))
    /\ call' = [call EXCEPT ![t] = None] /\ rax' = [rax EXCEPT ![t] = Null]
    /\ UNCHANGED <<heap, ghosts>>

(* No two threads use a block at once; free may be given any pointer.      *)
CallsAllocator(t) ==
    \E r \in Sites, f \in Fns, size \in Sizes, ptr \in Ptrs \cup {Null} :
        /\ at[t] = CallAt(r)
        /\ f = "malloc" => ptr = Null
        /\ f = "realloc" => ptr \in DOMAIN heap \cup {Null}
        /\ f = "free" => size = 0
        /\ ptr # Null => \A u \in {v \in Threads \ {t} : call[v] # None} : call[u].ptr # ptr
        /\ Executes(t, Entry(f))
        /\ call' = [call EXCEPT ![t] = [fn |-> f, size |-> size, ptr |-> ptr, site |-> r]]
        /\ UNCHANGED <<rax, heap, ghosts>>

Enters(t) ==
    \E f \in Fns : /\ at[t] = Entry(f)
                   /\ Executes(t, Inside(f))
                   /\ UNCHANGED <<call, rax, heap, ghosts>>

(* The allocator does its work and returns: a block or null.               *)
Gets(t, p) ==
    LET c == call[t] IN
    IF c.fn = "realloc" /\ c.ptr # Null
    THEN /\ p \in {Null, c.ptr} \cup (Ptrs \ DOMAIN heap)
         /\ c.size = 0 => p = Null
         /\ heap' = IF p # Null THEN Put(Drop(heap, c.ptr), p, Block(c))
                    ELSE IF c.size = 0 THEN Drop(heap, c.ptr) ELSE heap
    ELSE /\ p \in {Null} \cup (Ptrs \ DOMAIN heap)
         /\ heap' = IF p # Null THEN Put(heap, p, Block(c)) ELSE heap

(* The blocks that call c changes by returning p: a failed one, none.      *)
Changed(c, p) == (IF p # Null \/ c.size = 0 THEN {p, c.ptr} ELSE {p}) \ {Null}

Returns(t) ==
    LET c == call[t] IN
    /\ \E f \in Fns : at[t] = Inside(f)
    /\ Executes(t, RetAt(c.site))
    /\ IF c.fn = "free"
       THEN /\ heap' = Drop(heap, c.ptr)
            /\ behind' = IF t \in seen THEN behind \ {c.ptr}
                         ELSE behind \cup ({c.ptr} \cap DOMAIN heap)
            /\ seen' = seen \ {t}
            /\ UNCHANGED <<rax, left>>
       ELSE \E p \in Ptrs \cup {Null} :
                /\ Gets(t, p)
                /\ rax' = [rax EXCEPT ![t] = p]
                /\ behind' = behind \cup Changed(c, p)
                /\ UNCHANGED <<seen, left>>
    /\ UNCHANGED call

HitsInt3(t) ==
    /\ Runs(t) /\ ~past[t] /\ at[t] \in memory
    /\ run' = [run EXCEPT ![t] = "stopped"] /\ report' = [report EXCEPT ![t] = "trap"]
    /\ past' = [past EXCEPT ![t] = TRUE]
    /\ UNCHANGED <<program, ghosts>>

(* Ctrl-C, or any other signal; the next after this one has been seen.     *)
Interrupted(t) ==
    /\ Runs(t) /\ \A u \in Threads : report[u] # "signal"
    /\ run' = [run EXCEPT ![t] = "stopped"] /\ report' = [report EXCEPT ![t] = "signal"]
    /\ UNCHANGED <<program, past, ghosts>>

(* A thread is born while tdb waits, which registers it and resumes the    *)
(* two, a thread that was to make one step too.                            *)
Spawns(t, u) ==
    /\ mode = "wait" /\ Runs(t) /\ run[u] = "unborn"
    /\ \E r \in Sites : at[t] = CallAt(r)
    /\ run' = [run EXCEPT ![t] = "running", ![u] = "running"]
    /\ at' = [at EXCEPT ![u] = at[t]]
    /\ UNCHANGED <<call, rax, heap, report, past, ghosts>>

(* exit_group, or a fatal signal: waitpid tells the two apart.             *)
Exits(t, end) ==
    /\ Runs(t)
    /\ run' = [u \in Threads |-> IF run[u] = "unborn" THEN "unborn" ELSE end]
    /\ report' = [u \in Threads |-> "none"]
    /\ UNCHANGED <<program, past, ghosts>>

Program ==
    /\ \E t \in Threads : \/ Load(t) \/ GoesOn(t) \/ CallsAllocator(t) \/ Enters(t)
                          \/ Returns(t) \/ HitsInt3(t) \/ Interrupted(t)
                          \/ \E end \in Ends : Exits(t, end)
                          \/ \E u \in Threads : Spawns(t, u)
    /\ UNCHANGED <<patches, current_tid, exited, tracker, control, toggles>>

-----------------------------------------------------------------------------
(* What the commands are made of.                                          *)

Resume(t, how) == /\ run' = [run EXCEPT ![t] = how]
                  /\ report' = [report EXCEPT ![t] = "none"]

Consume(t) == report' = [report EXCEPT ![t] = "none"] /\ UNCHANGED run

(* Of calls not yet returned only those of free stay accounted for.        *)
Forget(S) == seen' = {t \in S : call[t] # None /\ call[t].fn = "free"}

(* Mutant: the entries only, and the return addresses forgotten.           *)
uninstall_entries(m, calls) == Withdraw(m, entries \ user, ~Dead)

uninstall_leak_breakpoints(m, calls) ==
    Withdraw(m, (entries \cup DOMAIN calls) \ user, ~Dead)

(* The table and the pending calls once wait_and_report has returned:      *)
(* to cont, or to stepi.                                                   *)
Unhooks == enabled /\ command = "cont"
Rest(m, calls)  == IF Unhooks THEN uninstall_leak_breakpoints(m, calls) ELSE m
Pends(calls) == /\ pending' = IF Unhooks THEN Nothing ELSE calls
                /\ left' = IF command = "stepi" THEN DOMAIN calls ELSE {}

AtPromptAgain == mode' = "prompt" /\ lifted' = None /\ command' = "none" /\ next' = None

(* It returned Ok: nexti, if it called cont, takes out its breakpoint.     *)
Return(m, calls) ==
    /\ Patched(IF next # None /\ ~next.had /\ ~Dead
               THEN Withdraw(Rest(m, calls), {next.ret}, Stopped(next.tid))
               ELSE Rest(m, calls))
    /\ Pends(calls)
    /\ AtPromptAgain /\ skip_target' = None

(* It returned Err: nexti's `?` leaves its breakpoint and skip_target.     *)
Fail(m, calls) ==
    /\ Patched(Rest(m, calls)) /\ Pends(calls)
    /\ AtPromptAgain /\ UNCHANGED skip_target

(* The libc of a dynamically linked program can be found once it is        *)
(* mapped.                                                                 *)
resolve_leak_entry_points == IF at[Main] = Loader THEN {} ELSE {Entry(f) : f \in Fns}

(* The rest of cont after the step over: the hooks, PTRACE_CONT, the wait. *)
ensure_leak_breakpoints_installed(m) ==
    LET found == IF entries = {} THEN resolve_leak_entry_points ELSE entries IN
    IF ~enabled
    THEN Patched(m) /\ mode' = "wait" /\ UNCHANGED <<entries, warmed_up>>
    ELSE IF found = {} /\ ~warmed_up
    THEN Patched(Install(m, {Start})) /\ mode' = "warmup" /\ warmed_up' = TRUE /\ UNCHANGED entries
    ELSE Patched(Install(m, found)) /\ mode' = "wait" /\ entries' = found /\ UNCHANGED warmed_up

Go(m) == /\ ensure_leak_breakpoints_installed(m)
         /\ Resume(current_tid, "running")

(* Breakpoint::disable and PTRACE_SINGLESTEP: on the way from cont, or of  *)
(* a hidden breakpoint in the loop of wait_and_report.                     *)
StepOver(m, t, how) ==
    /\ Patched(Lift(m, at[t])) /\ lifted' = at[t]
    /\ Resume(t, "stepping")
    /\ mode' = how

Cont(m) ==
    IF at[current_tid] \in DOMAIN m.table /\ ~past[current_tid]
    THEN StepOver(m, current_tid, "over") /\ UNCHANGED <<entries, warmed_up>>
    ELSE Go(m) /\ UNCHANGED lifted

-----------------------------------------------------------------------------
(* The commands.                                                           *)

AtPrompt == mode = "prompt" /\ ~exited
Focused  == AtPrompt /\ Stopped(current_tid)

set_leak_tracking(on) ==
    /\ AtPrompt /\ toggles < MaxToggles
    /\ toggles' = toggles + 1
    /\ enabled' = on
    /\ IF on THEN UNCHANGED <<breakpoints, memory, pending>>
       ELSE Patched(uninstall_leak_breakpoints(patch, pending)) /\ pending' = Nothing
    /\ left' = IF on THEN left ELSE {}
    /\ UNCHANGED <<program, tasks, user, current_tid, exited, entries, live,
                   warmed_up, control, behind, seen>>

install_breakpoint(a) ==
    /\ Focused
    /\ a \notin DOMAIN breakpoints
    /\ Patched(Install(patch, {a})) /\ user' = user \cup {a}
    /\ UNCHANGED <<program, tasks, current_tid, exited, tracker, control, toggles, ghosts>>

delete_breakpoint(a) ==
    /\ Focused
    /\ a \in user
    /\ Patched(Withdraw(patch, {a}, TRUE)) /\ user' = user \ {a}
    /\ UNCHANGED <<program, tasks, current_tid, exited, tracker, control, toggles, ghosts>>

switch_thread(t) ==
    /\ AtPrompt
    /\ Stopped(t)
    /\ current_tid' = t
    /\ past' = [past EXCEPT ![t] = @ /\ at[t] \notin DOMAIN breakpoints]
    /\ UNCHANGED <<program, run, report, patches, exited, tracker, control, toggles, ghosts>>

cont ==
    /\ Focused
    /\ Cont(patch) /\ command' = "cont"
    /\ UNCHANGED <<program, past, user, current_tid, exited, enabled, pending, live,
                   next, skip_target, toggles, ghosts>>

(* Over a call whose first byte is not hidden by an int3.                  *)
nexti ==
    /\ Focused
    /\ \E r \in Sites :
          /\ at[current_tid] = CallAt(r) /\ ~past[current_tid] /\ CallAt(r) \notin memory
          /\ next' = [ret |-> RetAt(r), had |-> RetAt(r) \in DOMAIN breakpoints,
                      tid |-> current_tid]
          /\ skip_target' = RetAt(r)
          /\ Cont(Install(patch, {RetAt(r)})) /\ command' = "cont"
    /\ UNCHANGED <<program, past, user, current_tid, exited, enabled, pending, live,
                   toggles, ghosts>>

(* One instruction, after the one under a breakpoint; nexti where there is *)
(* no call does the same.  Neither puts a hook in.                         *)
stepi ==
    /\ Focused
    /\ command' = "stepi"
    /\ IF at[current_tid] \in DOMAIN breakpoints /\ ~past[current_tid]
       THEN StepOver(patch, current_tid, "over")
       ELSE Resume(current_tid, "stepping") /\ mode' = "wait"
            /\ UNCHANGED <<breakpoints, memory, lifted>>
    /\ UNCHANGED <<program, past, user, current_tid, exited, tracker, next, skip_target,
                   toggles, ghosts>>

-----------------------------------------------------------------------------
(* The waits inside a command.                                             *)

Told(t) == mode \in {"warmup", "over", "hidden"} /\ t = current_tid /\ (report[t] # "none" \/ Dead)

(* warm_up_to_own_entry: the way to Start, or as far as it got.            *)
warm_up_to_own_entry ==
    LET t == current_tid
        m == IF Start \in user THEN patch ELSE Withdraw(patch, {Start}, TRUE)
    IN
    /\ mode = "warmup" /\ Told(t)
    /\ IF Dead
       THEN /\ exited' = TRUE /\ AtPromptAgain
            /\ UNCHANGED <<tasks, breakpoints, memory, entries>>
       ELSE /\ past' = [past EXCEPT ![t] = @ /\ at[t] \notin DOMAIN breakpoints]
            /\ entries' = resolve_leak_entry_points
            /\ Patched(Install(m, entries'))
            /\ Resume(t, "running")
            /\ mode' = "wait"
            /\ UNCHANGED <<exited, lifted, command, next>>
    /\ UNCHANGED <<program, user, current_tid, enabled, pending, live, warmed_up,
                   skip_target, toggles, ghosts>>

(* The waitpid of the single step.  Any stop counts as the step done, and  *)
(* the breakpoint goes back in; an exit ends the session; the death by a   *)
(* signal makes enable() fail, and with it the command.                    *)
StepDone(t) ==
    /\ CASE mode = "hidden" -> /\ Patched(Relower(patch, lifted)) /\ Resume(t, "running")
                               /\ mode' = "wait" /\ UNCHANGED <<entries, warmed_up>>
         [] mode = "over" /\ command = "cont" -> Go(Relower(patch, lifted))
         [] OTHER -> /\ Patched(Relower(patch, lifted)) /\ Resume(t, "stepping")
                     /\ mode' = "wait" /\ UNCHANGED <<entries, warmed_up>>
    /\ lifted' = None
    /\ UNCHANGED <<exited, command, next, skip_target, pending, left, seen>>

(* The hooks are withdrawn by the cont that had put them in.               *)
StepDies(t) ==
    /\ IF mode = "hidden"
       THEN IF run[t] = "exited" THEN Return(patch, pending) ELSE Fail(patch, pending)
       ELSE /\ AtPromptAgain
            /\ skip_target' = IF run[t] = "exited" THEN None ELSE skip_target
            /\ UNCHANGED <<breakpoints, memory, pending, left>>
    /\ exited' = (run[t] = "exited")
    /\ Forget(seen)
    /\ UNCHANGED <<run, report, entries, warmed_up>>

step_over_current_breakpoint ==
    LET t == current_tid IN
    /\ mode \in {"over", "hidden"} /\ Told(t)
    /\ IF Dead THEN StepDies(t) ELSE StepDone(t)
    /\ UNCHANGED <<program, past, user, current_tid, enabled, live, toggles, behind>>

-----------------------------------------------------------------------------
(* wait_and_report.  A stop of a thread moves the focus to it.             *)

Waits(t, kinds) == /\ mode = "wait" /\ ~Dead
                   /\ report[t] \in kinds
                   /\ current_tid' = t

(* Ctrl-C and the like, and an int3 that is no longer in the table.        *)
wait_stopped(t) ==
    /\ Waits(t, {"signal", "trap"})
    /\ report[t] = "trap" => ~past[t] \/ at[t] \notin DOMAIN breakpoints
    /\ Consume(t)
    /\ Return(patch, pending) /\ Forget(seen)
    /\ UNCHANGED <<program, past, user, exited, entries, live, enabled, warmed_up,
                   toggles, behind>>

(* A stop at an entry of the table: rip is moved back on to it.            *)
Hit(t) == /\ Waits(t, {"trap"})
          /\ past[t] /\ at[t] \in DOMAIN breakpoints
          /\ past' = [past EXCEPT ![t] = FALSE]

wait_breakpoint(t) ==
    /\ Hit(t)
    /\ ~enabled \/ at[t] \notin entries \cup DOMAIN pending
    /\ Consume(t)
    /\ Return(patch, pending) /\ Forget(seen)
    /\ UNCHANGED <<program, user, exited, entries, live, enabled, warmed_up,
                   toggles, behind>>

(* on_alloc_entry: free is entered at once, the others wait for the return. *)
Tracked(t) == call[t].fn # "free"

(* Mutant: free(NULL) is a free like any other.                            *)
frees_null(t) == IF Tracked(t) THEN {} ELSE {call[t].ptr}

Frees(t) == IF Tracked(t) THEN {} ELSE {call[t].ptr} \ {Null}

(* Mutant: no breakpoint at the return address.                            *)
no_return_hook(t) ==
    [calls |-> IF Tracked(t) THEN Put(pending, RetAt(call[t].site), call[t]) ELSE pending,
     patch |-> patch]

on_alloc_entry(t) ==
    [calls |-> IF Tracked(t) THEN Put(pending, RetAt(call[t].site), call[t]) ELSE pending,
     patch |-> IF Tracked(t) THEN Install(patch, {RetAt(call[t].site)}) ELSE patch]

(* handle_leak_breakpoint at an entry.                                     *)
wait_entry(t) ==
    LET e == on_alloc_entry(t) IN
    /\ Hit(t)
    /\ enabled /\ at[t] \in entries
    /\ live' = [p \in DOMAIN live \ Frees(t) |-> live[p]]
    /\ behind' = behind \cup Frees(t)
    /\ IF at[t] \in user
       THEN Consume(t) /\ Return(e.patch, e.calls) /\ Forget(seen \cup {t})
       ELSE /\ StepOver(e.patch, t, "hidden")
            /\ pending' = e.calls /\ seen' = seen \cup {t}
            /\ left' = IF Tracked(t) THEN left \ {RetAt(call[t].site)} ELSE left
            /\ UNCHANGED <<command, next, skip_target>>
    /\ UNCHANGED <<program, user, exited, entries, enabled, warmed_up, toggles>>

(* on_alloc_return: the ledger after the call c that returned p.           *)
(* Mutant: the old block of a realloc stays in the ledger.                 *)
keeps_old(c, p) == IF p # Null THEN Put(live, p, Block(c)) ELSE live

Entered(c, p) ==
    IF p # Null THEN Put(Drop(live, c.ptr), p, Block(c))
    ELSE IF c.fn = "realloc" /\ c.size = 0 THEN Drop(live, c.ptr)
    ELSE live

(* handle_leak_breakpoint at a return address.  The hook may be one stepi  *)
(* has left, and the call that returns another than the one it is for.     *)
wait_return(t) ==
    LET c == pending[at[t]]
        calls == Drop(pending, at[t])
        m == IF at[t] \in user THEN patch ELSE Withdraw(patch, {at[t]}, TRUE)
    IN
    /\ Hit(t)
    /\ enabled /\ at[t] \in DOMAIN pending
    /\ live' = Entered(c, rax[t])
    /\ behind' = IF at[t] \in left THEN behind \cup ({c.ptr, rax[t]} \ {Null})
                                   ELSE behind \ Changed(c, rax[t])
    /\ IF at[t] \in user \/ skip_target = at[t]
       THEN Consume(t) /\ Return(m, calls) /\ Forget(seen)
       ELSE /\ Patched(m) /\ pending' = calls
            /\ Resume(t, "running")
            /\ seen' = seen \ {t} /\ left' = left \ {at[t]}
            /\ UNCHANGED <<mode, lifted, command, next, skip_target>>
    /\ UNCHANGED <<program, user, exited, entries, enabled, warmed_up, toggles>>

(* No thread is left to have the focus: the table stays as it is.          *)
wait_exited ==
    /\ mode = "wait" /\ Dead
    /\ exited' = TRUE
    /\ Pends(pending) /\ AtPromptAgain /\ skip_target' = None /\ Forget(seen)
    /\ UNCHANGED <<program, tasks, patches, current_tid, entries, live, enabled,
                   warmed_up, toggles, behind>>

-----------------------------------------------------------------------------
Command == \/ \E on \in BOOLEAN : set_leak_tracking(on)
           \/ \E a \in BreakAddrs : install_breakpoint(a) \/ delete_breakpoint(a)
           \/ \E t \in Threads : switch_thread(t)
           \/ cont \/ nexti \/ stepi

Wait == \/ warm_up_to_own_entry \/ step_over_current_breakpoint \/ wait_exited
        \/ \E t \in Threads : \/ wait_stopped(t) \/ wait_breakpoint(t)
                              \/ wait_entry(t) \/ wait_return(t)

Next == Program \/ Command \/ Wait

Spec == Init /\ [][Next]_vars

-----------------------------------------------------------------------------
(* One thread is all there is: two in one call share its pending entry.    *)
Alone == \A t \in Threads \ {Main} : run[t] = "unborn"

(* While the program runs on, every hook is in the table and in memory:    *)
(* the entries of the allocator under continue, and the returns of all     *)
(* calls that pend since.  No stop, step over, warm-up, stepi or nexti in  *)
(* between has taken one away.                                             *)
HooksArmed ==
    mode = "wait" /\ enabled =>
        (IF command = "cont" THEN entries ELSE {}) \cup (DOMAIN pending \ left)
            \subseteq memory \cap DOMAIN breakpoints

(* At the prompt, while the program lives, the hidden breakpoints are gone *)
(* whichever way continue and nexti came back, and those of nexti; what    *)
(* there is besides the user's is for calls stepi has left pending.  The   *)
(* user's stay, at an entry of the allocator or a return address too.      *)
HooksWithdrawn ==
    mode = "prompt" /\ ~Dead =>
        /\ user \subseteq DOMAIN breakpoints /\ DOMAIN breakpoints \subseteq user \cup left
        /\ DOMAIN pending = left
        /\ DOMAIN breakpoints \subseteq memory
        /\ Alone => memory = DOMAIN breakpoints

(* leaks lists the heap of a program of one thread: the ledger and the     *)
(* allocator agree on every block but those whose last change it missed,   *)
(* because tracking was off, the command returned inside the call, or the  *)
(* hook stepi left for a call was taken for the return of another.         *)
LedgerExact ==
    Alone => \A p \in Ptrs \ behind :
        /\ p \in DOMAIN live <=> p \in DOMAIN heap
        /\ p \in DOMAIN live => live[p] = heap[p]

(* A call that tdb has seen at its entry and not given up is in the ledger *)
(* before the program makes the next one.                                  *)
AccountedInTime ==
    Alone /\ (\E r \in Sites : at[Main] = CallAt(r)) => Main \notin seen

=============================================================================
