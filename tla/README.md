# A verification project for tdb

tdb (`src/`) is a small source-level debugger for x86-64 Linux, written in
Rust on `ptrace(2)`.  This directory holds TLA+ models of its core, the TLC
runs that check them on small instances, and theorems about them that TLAPS
checks for every value of the constants.  `PROJECT.json` maps every definition
to the lines of the source it models and lists runs, mutants, hazards,
findings and theorems.

## 1. Inventory: the components of tdb

### Session (`debugger.rs`: `start`, `cont`, `stepi`, `step_line`, `switch_thread`, `lock_thread`, `unlock_thread`, `kill`, `wait_and_report`)

*State.*  `pid`, `exited`, `current_tid` (the focus), `threads`,
`thread_ids`/`next_thread_id` (the numbers of `info threads`),
`pending_initial_stop` (threads whose automatic attach stop has not been
skipped yet), `locked_tid`, `processes` (leaders, one per address space), and
the static `DEBUGGEE_PID`.

*Operations.*  `run` forks and waits for the stop of `execve`; `continue`,
`stepi` and the like resume the thread in focus and wait; `wait_and_report` is a
loop around `waitpid(-1, __WALL)` that registers new threads and processes,
skips attach stops, keeps the threads held by `lock` stopped, removes the dead,
and returns at the first stop worth showing.  `step` and `next` wait for one tid
with waits of their own.  `lock` sends SIGSTOP to what runs and `unlock` resumes it;
`kill` signals everything known and reaps.  `thread apply all` repeats a
command with the focus on each thread in turn.

*Hard behaviour.*  Every thread of every traced process runs on while the prompt
is shown, unless it happens to be stopped.  Births are reported by two stops,
of the creator and of the new task, in either order; deaths may overtake both;
a zombie leader is reported only after its threads; signals sent with `kill(2)`
go to a process, not to a thread, and merge; nested waits (step over a
breakpoint, release of held threads) consume reports that the main loop would
have entered in the tables.

*What makes it correct.*  The tables agree with each other and with the
kernel; attach stops are skipped and nothing else is; a thread is never resumed one byte
past an int3; `lock` holds what it holds; the session is declared over exactly
when nothing is left; whatever tdb waits for can still happen.

### SIGINT forwarder (`debugger.rs:26-52`, `main.rs`)

A second thread of tdb.  On Ctrl-C it loads `DEBUGGEE_PID` and signals that pid;
the main thread stores and clears the static in `start` and `mark_exited`.  Load
and signal are two steps, and the main thread reaps in between.

### Breakpoints (`breakpoint.rs`, `install_breakpoint`, `delete_breakpoint`)

*State.*  `breakpoints` (address → saved byte, enabled), `bp_ids`/`next_bp_id`,
and the bytes in the memory of each process.  *Hard behaviour.*  The commands put
in temporary breakpoints of their own in the same table; one is lifted for one
instruction whenever execution starts from it; rip is one byte further when one is hit and
must be moved back; every process has a memory of its own, which can be written only
through a thread that is stopped, and `fork` copies whatever is in it.  *Correct* when
every memory holds the int3s of the table and no others, none of the user's is missing
while the program runs, and the program never notices.

### Stepping (`cont`, `stepi`, `nexti`, `step_line`, `next_line`, `up`, `finish_undebugged_frame`)

No state that outlives a command, but the intermediate states are the hard ones:
a breakpoint lifted, a temporary one in place, a wait that ends in a trap, a
signal or a death.  *Correct* when each command leaves the tables as it found them,
comes back, and executes the program's own instructions.

### Watchpoints (`add_watchpoint` … `check_watchpoint_hit`, `registers.rs`)

Four slots, mirrored in DR0–DR3 and DR7 of every thread; DR6 says which was hit.
Registers of a running thread cannot be written, and the code ignores that.
*Correct* when a slot in use is armed in every thread that can be written, a
free one in none, and a hit names the watchpoint that owns the slot.

### Leak tracking (`leak.rs`, `handle_leak_breakpoint` and its helpers)

Hidden breakpoints at `malloc`, `calloc`, `realloc`, `free` and at return
addresses; `pending` maps a return address to the call under way, `live` the
allocations.  *Correct* when `live` is the program's heap, and no hidden breakpoint
outlives `continue`.

### Memory and values (`read_mem`, `write_mem`, `read_typed_value`, `write_typed_value`, `repl.rs` `handle_set`, `expr.rs`)

No state but the debuggee's bytes.  ptrace reads and writes whole words, so that
every change is a read, a change in tdb and a write, a word at a time, while threads
that are not stopped store what they like.  Values pass through the wrapping operators of
`expr.rs` and the sizes and signs of DWARF types.  *Correct* when no byte is lost on the
way and a variable shows the value it was set to.

### Line table and symbols (`dwarf_info.rs`, `elf_info.rs`, `resolve_file_line`, `skip_prologue_addr`)

Rows and symbols sorted by address when a program is loaded, then searched.  The edges are
hard: several rows at one address, the end of one sequence where another begins, units in any
order, symbols without a size.  *Correct* when the answers are those of the unsorted tables.

### The rest

`registers.rs` (accessors), `disasm.rs` (a wrapper of iced-x86), the command table and the output of
`repl.rs`.

### How they interact

The REPL calls one `Debugger` method per command, synchronously.  Stepping
and session share `Debugger`'s fields and the one `waitpid` namespace: whoever waits takes
the report.  Breakpoints of the user, of the stepping commands and of leak
tracking share one table.  The forwarder thread shares only `DEBUGGEE_PID`.  The
kernel and the debugged program are the other actors.

## 2. The modules

| Module | What it models |
| --- | --- |
| `Tracees` | the kernel's side: tasks, their ptrace stops, `waitpid`, process-directed signals, births and deaths (external) |
| `Session` | the session and the forwarder, over `Tracees` |
| `MCSession` | instances of `Session` for TLC |
| `SessionProofs`, `ForkProofs` | theorems about `Session`; `ForkProofs` has those about programs that fork |
| `Program` | the debugged program by itself: what `Stepping` implements (external) |
| `Stepping` | breakpoints and the stepping commands over one thread, byte by byte |
| `MCStepping` | a program of sixteen instructions for TLC |
| `SteppingProofs` | theorems about `Stepping`, that it implements `Program` among them |
| `Watchpoints` | hardware watchpoints over the debug registers of every thread, over `Tracees` |
| `MCWatchpoints` | instances of `Watchpoints` for TLC |
| `WatchpointsProofs` | theorems about `Watchpoints` |
| `Leak` | leak tracking: hidden breakpoints, calls under way, the ledger, and the heap it should be |
| `MCLeak` | instances of `Leak` for TLC |
| `LeakProofs` | theorems about `Leak` |
| `Breakpoints` | one table of breakpoints and the memories of several processes of threads, over `Tracees` |
| `MCBreakpoints` | instances of `Breakpoints` for TLC |
| `BreakpointsProofs` | theorems about `Breakpoints` |
| `Words` | memory written word by word, typed values, and the operators of expressions |
| `MCWords` | two words of two bytes, types and expressions for TLC |
| `WordsProofs` | a theorem about `Words` |
| `Lines` | the line table and the symbols: sorting and searching |
| `MCLines` | the programs `Lines` is asked about by TLC |
| `LinesProofs` | theorems about `Lines` |

### Tracees

One record of a task's life per tid: `run` (its scheduling state), `report`
(what `waitpid` would say of it), `leader`, `sigs` (pending SIGSTOP and SIGINT of a
process) and `rip`, reduced to what matters for an int3: `off` a breakpoint,
`at` one, or one byte `past` one.  `ProgramStep` is everything the program may do of its own.
From ptrace(2) it takes: both sides of a birth stop and may be reported in
either order; resuming a thread whose stop has not been waited for discards the
report; a stopped thread dies with its process; a zombie leader is delayed until
its threads are reaped; two pending signals of a kind are one, and any running thread takes it.
tids are not reused.

### Session

`mode` is the program counter of the main thread: the prompt, or the
`waitpid` it is in.  One action per command, and one per branch of each wait:

| Code | Actions |
| --- | --- |
| `start` | `start` (to the `waitpid`), `start_waited` |
| `cont`, `stepi` | `cont`, `stepi`, `step_over_current_breakpoint` (its wait) |
| `step_line` | `step_line`, `classify_wait`, `finish_undebugged_frame` |
| `wait_and_report` | `wait_event`, `wait_initial_stop`, `wait_held`, `wait_stopped`, `wait_exited`, `wait_no_child` |
| `lock`, `unlock`, `thread` | `lock_thread`, `unlock_thread`, `release_held_thread` / `release_waited` / `released`, `switch_thread` |
| `kill`, `quit`, end of input | `kill`, `kill_reaps`, `kill_done`, `end_of_input` |
| `thread apply all` | `thread_apply_all`, `focus_thread_for_apply`, `restore_focus` |
| forwarder | `ctrl_c` (the load), `forward_sigint` (the signal) |

Everything between two waits is one step, because nobody else writes
`Debugger`'s fields; the program and the forwarder run between any two steps.  The
line table that ends a `step` is a choice.  The child between `fork` and
`execve` is the state `starting`.  `exec` by the program itself is left out (the
documentation excludes it), as are other signals than SIGINT, SIGSTOP and fatal
ones.

### Stepping and Program

`Stepping` keeps one thread and gives addresses and instruction lengths back.
`Code` maps addresses to instructions (`plain`, `call`, `branch`, `enter`,
`leave`, `ret`, `exit`), with length, target and line row; the stack holds return
addresses, saved frame pointers and other words.  `patch` pairs the table
`breakpoints` with the set of addresses that hold an int3 in memory; `enable`,
`disable` and the insertion and removal of temporary breakpoints are operators
on it that save and restore the byte they find, an int3 included.
`lifted`, `temp` and `start_line` are the local variables of the command under way;
`mode` says which wait it is in.  A fault is what Linux reports of it, a stop by
a signal.

`Program` is the same program with nobody attached.  `Stepping` executes it
through `INSTANCE Program WITH pc <- rip`, and promises to implement it under the
refinement mapping `pc <- IF status = "bp" THEN rip - 1 ELSE rip`
(`ExecutesProgram`): from the moment an int3 is executed until tdb has moved rip back,
the program stands one byte behind rip.  The abstract specification is what the
user of a debugger expects: stepping, skipping and stopping change nothing
about what the program does.

### Watchpoints

`Watchpoints` is over `Tracees` too, and keeps of the session what reaches a watchpoint.
`watchpoints` is the table of slots (an address and a length, or nothing), `wp_ids` the
numbers; `dr` has the registers of each thread: the addresses, DR7 as the set of
its bits, and DR6 as the hits not read yet, each with the range it was a hit of, so that
a property can tell a true hit from a stale one (the code sees the slot only).

| Code | Actions |
| --- | --- |
| `add_watchpoint`, `delete_watchpoint` | the same, each writing the registers of every thread it can |
| `cont`, `stepi` | `resume_command` to their waits; `step_over_current_breakpoint` (its wait, with its check for a hit) |
| `wait_and_report` | `wait_event`, `wait_initial_stop`, `wait_stopped` (with `check_watchpoint_hit`), `wait_exited` |
| `register_thread`, `switch_thread`, `start` | the same |

`write_dr` fails on a running thread and the code ignores that.  The ghost `late` has
the slots whose last change a thread has not got for this reason; nothing else
may differ between the table and the registers.  Left out: processes of a fork, `lock`
and `kill` (the properties would need `Session` whole), the checks in `step`, `next` and
`run_over_call`, and the values shown.

### Leak

One process and one run of it.  The program walks from a call of the allocator to the next
through an entry, the inside of the function and a return address; it
keeps a `heap` as the allocator would, and may be interrupted anywhere.  `breakpoints`
(what is saved), `memory` (the int3s) and `user` (the values of `bp_ids`) are apart, because leak
tracking puts breakpoints into the first two only.  `pending`, `live`,
`entries`, `warmed_up` are the fields of `LeakTracker`; its counters and its list of bad frees are
left out.  `command` says whether `cont` or `stepi` waits, since only the first installs and withdraws.

| Code | Actions |
| --- | --- |
| `set_leak_tracking` | the same |
| `cont` | `cont` (to the step over, or on to `ensure_leak_breakpoints_installed`), `step_over_current_breakpoint`, and `Return` in each action that ends the wait (`uninstall_leak_breakpoints`) |
| `stepi` | `stepi`, and the same waits: a hook that it comes upon is handled, and turns it into a `continue` |
| `warm_up_to_own_entry` | the same (its wait) |
| `step_over_current_breakpoint` | `StepDone`; `StepDies`, where an exit ends the session and a death by a signal ends the command with an error, with `exited` still false |
| `nexti` | `nexti`; its tail is in `Return`, and its `cont()?` in `Fail`, which leaves its breakpoint and `skip_target` |
| `wait_and_report`, `handle_leak_breakpoint` | `wait_entry` (`on_alloc_entry`), `wait_return` (`on_alloc_return`), `wait_breakpoint`, `wait_stopped`, `wait_exited` |
| `break`, `delete`, `thread` | `install_breakpoint`, `delete_breakpoint`, `switch_thread` |

A block is entered with its function and call site; sizes are kept in the call, where zero matters to
`realloc`.  `calloc` is `malloc` with a product for its size.
`step` and `next` are left out, which resume and wait without the tracker but in their calls, and so
is `up`, which uses `cont` as `nexti` does.  Three ghosts serve the properties: `behind`, the blocks that
changed without the ledger hearing of it (tracking off, `continue` came back inside the call, or the hook of
another call was taken for its return); `seen`, the threads whose call was seen at its entry and not given
up since; and `left`, the return hooks `stepi` has left at the prompt.

### Breakpoints

`Stepping` has one thread and every byte; `Breakpoints` has what that leaves out: several processes, each with
a memory of its own, and threads that do not stop when tdb is at its prompt.  An address
is one that may carry a breakpoint; `where` and `rip` say at which of them, or one byte
past which, a thread is.  Where the program goes is its own choice: a running thread may
come upon any int3 of its memory.

`patch` pairs the table (`orig_byte`, `enabled`) with the memories, where a byte is the program's, an int3
or the zero that `Breakpoint::new` starts with.  A change is made through the focus and through the
leaders in `processes`, as far as they are stopped; the temporary breakpoint of a command
through the thread the command began with.  The ghost `unreached` has the pairs of a process
and an address where a change could not be written, or something else than the program's byte was
written; a later change that does get there takes the pair out again.

| Code | Actions |
| --- | --- |
| `install_breakpoint`, `delete_breakpoint` | the same, each with what it writes to the other processes (`Others`) |
| `cont`, `nexti`, `up`, `run_over_call` | `cont`, `nexti` (a return address for both), `run_over_call`; `step_over_current_breakpoint` (its wait), `call_waited` |
| `wait_and_report` | `wait_event`, `wait_initial_stop`, `wait_stopped` (with the removal of the temporary breakpoint), `wait_exited` |
| `switch_thread` | the same |
| the program | `Trap`, `StepDone`, `Interrupted`, `Birth` (a fork copies the memory), `Dies` |

A watchpoint hit in the step over a breakpoint, which ends a command early, is a choice there
(`Watching`).  Locks, signals in detail, `step` and `kill` are `Session`'s.

### Words

A word has `W` bytes and a byte `Base` values, so that TLC can take small ones; the numbers are
those of `Base ^ W` values, with the code's wrapping.  `set *<addr>`, `set <name>`, `break` and `delete`
are one write each, of one or more bytes; `read_word` and `write_word` are the PEEK and the POKE
of the loop of `write_mem`, and of `Breakpoint::enable` and `disable`, whose word begins at the
address itself.  Between any two of them a thread may store (`Store`).  `read_mem`,
`read_typed_value` and `eval_binop` are operators.

Ghosts: `truth` is every byte as the program or the user stored it last, `lost` where a store
was undone, `shown` what the variable set last should show, computed without widths by `Exact` and `Converted`.

### Lines

No state but the loaded tables: `load` joins the sequences of all units and sorts the rows, appends to the
symbols of `.symtab` what `.dynsym` adds, and sorts those.  `lookup`, `skip_prologue` (whose binary
search may find any of the rows at the entry), `resolve_file_line`, `skip_prologue_addr`,
`find_by_addr` and `find_by_name` are operators; each action asks one of them.  The properties compare the answers with
reference definitions on the unsorted sequences (`SpeaksOf`: row *i* of a sequence speaks
of the addresses up to the next row) and on the set of functions.

All rows are of one source file, so that matching the name of a file is left out.  No two sequences of a
program overlap (`Apart`): the sequences of removed functions that `--gc-sections` leaves, one upon the other, at low addresses
are not in the instances, and of such a program nothing is claimed.

## 3. The runs

| Run | Instance | Shows |
| --- | --- | --- |
| `locks` | three tids of one process; run, continue, stepi, thread, lock, unlock; a breakpoint anywhere | `TypeOK`, `ThreadTable`, `AttachStopAccounted`, `LockHasFocus`, `AttachedNeverResumedPastInt3`, `HeldStaysHeld` |
| `steps` | three tids of one process; run, continue, step, kill; Ctrl-C in any wait; fairness | `WaitCanEnd`, `CtrlCHasTarget`, `NeverResumedPastInt3`, `CtrlCStops`, `KillReturns` |
| `forks` | four tids, each fork a process of its own; two `run`s, failing exec, fatal signals; `thread apply all` of continue, lock, kill, quit, run | `OverMeansGone`, `LeadersAreProcesses` |
| `stepping` | a program with recursion and a function without line rows, two breakpoint numbers, interrupts and SIGKILL anywhere | `TypeOK`, `MemoryIsUsers`, `ArmedWhileRunning`, `ExecutesProgram`, `CommandReturns` |
| `watch` | two threads, two slots, two numbers; ranges of eight and of four bytes that overlap, and two that are refused | `TypeOK`, `WatchTable`, `RegistersMirrorTable`, `StatusRead`, `HitReported` |
| `leak` | one thread, two blocks, sizes zero and one; continue, nexti, stepi; breakpoints on a call and on the entry of `realloc`; tracking switched once; signals and deaths anywhere | `TypeOK`, `LedgerExact`, `AccountedInTime` |
| `leak_threads` | two threads through one call site, an empty heap; the same commands and `thread`; breakpoints on that entry and on the return address | `HooksArmed`, `HooksWithdrawn` |
| `memories` | three tids, two processes at most, one address; break, delete, continue, nexti, next, thread; forks, clones, interrupts and deaths anywhere | `TypeOK`, `MemoriesMirrorTable`, `UserBreakpointsStay` |
| `lines` | programs of up to three sequences and three functions over five addresses, in any order; programs without line rows | `TypeOK`, `LookupFindsRow`, `BreakFindsLine`, `BreakInFunction`, `SymbolFound` |
| `words` | two words of two bytes of four values, between words that are not mapped; seven types, nine expressions, a breakpoint across the words and one at the edge | `TypeOK`, `BytesKept`, `SetThenPrint` |
| `instruction_twice` | the program of `stepping`, a breakpoint on `leave` | violates `NeverUndone` |
| `stale_hit` | the instance of `watch` | violates `HitIsReal` |

**Bounds.**  Three tids are a focused or locked thread, a held one and one being
born; every protocol of the code speaks of a thread, its creator and "the
others".  The fork run has a fourth, for a child of a child, or a second `run`
beside an orphan.  `MaxRuns` bounds the number of `run`s and `MaxReaps` the 64
rounds of `kill`, which more than suffice for every task (the theorems on forks need more rounds
than tids); tids are not reused,
so that the state space is finite.  In `stepping`, `MaxBpId = 2` allows two
breakpoints, or one that is deleted and set again; `MaxStack = 11` allows main,
three activations of the recursive function and their frames, which is where a
temporary breakpoint is hit in an inner activation.  In `watch`, two slots and two
numbers (`MaxId`) suffice for a slot that is used again, for another length, beside one that stays;
instances with three threads and one slot, and with three numbers, passed too and
are too long to repeat.  In `leak`, two blocks let `realloc` move one; a second call site adds states
and no behaviour to one thread, which is in one call at a time.  `MaxToggles = 1` with
tracking on or off at the start is every order of one `leak on` or `leak off` with the
rest.  In `leak_threads` every `malloc` fails: what is left is the hooks, which do not
depend on the heap.  A breakpoint on the call is what lets `stepi` execute it and come upon the user's
breakpoint at the entry, where the hook it leaves begins.  No second signal comes before the first has been seen.

In `memories`, three tids are the process started, a child of its and a thread of either; with one address a
breakpoint of the user, a temporary one and the lifted one meet at the same place.
Two addresses, where the temporary breakpoint is elsewhere than the lifted one, passed with two tids, and
three tids and an address together with the inductive invariant of section 4; both are too long to
repeat, and the theorem covers every instance.  In `lines`, five addresses leave room for two sequences
that touch, in either order, rows that share an address, three short sequences in any
order, a function that begins where a sequence ends, and functions with and without
a size; `FallbackRange = 2` lets an address be too far from a symbol.  In `words`, a value has two bytes and
may begin at either of a word, so that it crosses the words, or runs out of what is mapped;
sizes of 0 and 3 are those that are clamped.

**Symmetry.**  The tids are interchangeable in the safety runs (but for the one the program starts with, in `memories`), and the
blocks in `leak`.  Liveness is checked without
symmetry.

**Deadlock** is not an error in these runs: `quit` and the end of input end tdb,
and a wait may block when nothing can be reported.  What must
not block is said by `WaitCanEnd`, `CtrlCStops`, `KillReturns` and
`CommandReturns`.

**Fairness.**  `FairSpec` of `Session` assumes that the main thread answers a
`waitpid` that has something to report (it does nothing else meanwhile), that
the forwarder thread is scheduled (it loops over its signal iterator), and
that a running task which has a single step to finish, an `execve` under way or a
signal pending comes to it: the kernel's scheduler.  Nothing is assumed
about the program reaching a breakpoint, creating a task or exiting, nor about
the user.  `Stepping` assumes that the processor goes on while the thread runs
and that waits are answered; the loop in its program may be left at every
turn and is bounded by `MaxStack`.

**Mutants.**  Each property of each passing run is broken by a mutated
definition that stands beside the original in the module, commented as such:
a thread registered twice, a lock not looked at, a rip not fixed up, an int3
not put back, a length field not cleared, a return address not hooked.

### What the violations say

* `instruction_twice`.  A breakpoint on a one-byte instruction (`leave`, `ret`,
  `push`): after the single step that leaves it rip - 1 is the breakpoint, so rip is moved back.
* `stale_hit`.  A thread hits a watchpoint while the prompt is shown; `delete` and `watch` give
  the slot to another range.  Neither touches DR6, so the next `continue` reports the
  old hit as one of the new watchpoint.

More was seen while modelling; what is a hazard is listed under hazards, with its line:

* A new thread's attach stop is skipped as "the first stop of a pending thread".  If the user
  switches to that thread and continues it before the stop has been waited for, the report is lost,
  the next stop of the thread is skipped in its place, and if that was a breakpoint the
  thread goes on one byte past the int3.  The known limitation of `src/README.md`, a rare SIGSEGV with
  `lock` soon after a thread is created, fits this.  `locks` checks
  `AttachedNeverResumedPastInt3`, of threads whose attach stop has been skipped.
* `lock` sends SIGSTOP to the process: sent for two threads it is one signal, and the locked
  thread may be the one that takes it.
* `kill` reaps with a blocking `waitpid(-1)` what it has not signalled: a forked child that is
  not registered yet is stopped, traced, and never ends.  `KillReturns` is checked of programs of threads.
* `nexti`, `up` and `next` may leave their temporary breakpoint behind: its int3 in a child forked meanwhile, or in the
  process if the thread they began with runs or is dead when they end; entry and int3 if a watchpoint is
  hit in the step over a breakpoint under `next`.  `MemoriesMirrorTable` excepts these places (`unreached`).
* A breakpoint that could not be enabled is kept with a zero as its saved byte, which `delete` then writes to the
  other processes.
* `delete` of a breakpoint whose int3 a thread has executed, before that stop has been waited for, leaves
  the thread's rip one byte on.
* `set` of an address under a breakpoint removes the int3, and `delete` undoes the set.
* `lookup` takes the last row at an address: where one sequence ends and another begins, and the
  unit of the first comes later, the end hides the row, though the comment at `dwarf_info.rs:198` means a
  row that ends nothing.
* A function whose entry is where a sequence ends, with other rows there, gets its breakpoint at an address of
  which no row speaks; `BreakInFunction` excepts it.
* `stepi` from a breakpoint executes two instructions (`Stepping` has it so).
* A fork event consumed by `step` makes the child a thread, never a process, so
  the `forks` run leaves `step` out.
* `step` or the step over a breakpoint takes the exit of one thread for the end of
  the session, so the `forks` run has neither breakpoints nor threads.
* A fork event may be lost when `exit_group` of another thread kills the creator in
  its event stop, so that run creates processes only.
* A Ctrl-C that arrives while a hook on `free` is stepped over is swallowed, the hook is
  hit again, and the free is listed as a bad one.
* `thread apply all lock` ends with the last thread locked and the focus back where it was: `restore_focus`
  (`debugger.rs:262`) does not ask for the lock.  `thread apply all continue` under `lock` moves the focus off the locked thread
  likewise, and resumes held threads.  The comment at `debugger.rs:466` means to
  rule out just that ("`continue` can no longer resume the locked thread").  `locks` has no
  `thread apply all`, and `LockHasFocus` is violated with it.
* The forwarder loads `DEBUGGEE_PID` and then sends (`debugger.rs:46`).  The main thread may reap that
  process in between, and then the signal goes to a pid that is no longer a debuggee's, which clearing
  the variable (comment at `debugger.rs:266`) cannot prevent.  `CtrlCHasTarget` is about the variable while a wait blocks; no
  property covers the pid in the forwarder's hands.
* `stepi` waits in `wait_and_report` with leak tracking on (`debugger.rs:1488`).  If it comes upon the user's
  breakpoint at an entry of the allocator, a hidden breakpoint is put at the return address and the
  program runs on freely; nobody takes the breakpoint out before the next `continue` ends.  REQ-LEAK-05 of the requirements
  confines tracking to `continue`.
* A death by a signal in the step over a breakpoint leaves `exited` false: the command fails as the int3 cannot be put
  back, and `nexti`, whose `cont()?` returns early (`debugger.rs:1063`), leaves its temporary breakpoint and
  `skip_target`, which the next `run` does not reset.
* A register write to a thread that runs is not made up for when the thread stops, although
  `src/README.md:304` says so; `RegistersMirrorTable` excepts these slots (`late`).
* The comment at `dwarf_info.rs:216` lets `skip_prologue` adopt the row that ends the sequence; the code returns
  `None` there, and so does the model.
* With two threads, a thread that has executed the int3 of a hook when `continue` returns
  is left in the middle of an instruction, and two calls through one site share an entry of
  `pending`; `LedgerExact` and `AccountedInTime` therefore speak of one thread.

## 4. The theorems

All hold for every value of the constants under the named assumptions
`TraceesAssumption`, `SessionAssumption`, `SteppingAssumption`, `WatchpointsAssumption`,
`BreakpointsAssumption`, `WordsAssumption`, `LinesAssumption` and `LeakAssumption`, which TLC evaluates in
the runs.

| Theorem | Statement | Argument |
| --- | --- | --- |
| `SessionProofs!TypeCorrect` | `Spec => []TypeOK` | inductive by itself; `WaitsForTask` is the conjunct that needs care: a wait for one task has a tid to wait for |
| `SessionProofs!ThreadTableCorrect` | `Spec => []ThreadTable` | with `TypeOK`: a new number is above every number in use, so entering and removing a thread keep the tables one-to-one |
| `SessionProofs!AttachStopCorrect` | `Spec => []AttachStopAccounted` | strengthened by `ReportsMatch` (a report belongs to a state that can have it) and `KnownAreBorn` (a known thread has been created): without them an attach stop could appear on a thread already entered and skipped |
| `SessionProofs!LockedHasFocus` | `ApplyCommands = {}` implies `Spec => []LockHasFocus` | strengthened to `LockKept`, which also follows the focus through the nested waits |
| `SessionProofs!LockHoldsOthers` | `ApplyCommands = {}` implies `Spec => HeldStaysHeld` | from the same invariant: the only thread resumed is the focus, and the focus is the locked one |
| `SessionProofs!Int3NeverSkipped` | `ApplyCommands = {}`, `"step" \notin Commands` imply `Spec => AttachedNeverResumedPastInt3` | `Int3Inv`: a thread past an int3 has nothing but that trap to report (`PastIsShown`), and the threads tdb is about to resume, the focus of the next command and the one a release steps, are neither at large nor past an int3 (`FocusSettled`, `ReleaseSettled`) |
| `SessionProofs!CtrlCFindsTarget` | `ApplyCommands = {}`, `"lock" \notin Commands`, `"fork" \notin Births`, `Breakpoint => "signaled" \notin Deaths` imply `Spec => []CtrlCHasTarget` | `SigintInv`: there is one process (`OneProcess`) and nobody is locked; `DEBUGGEE_PID` names its leader, alive or not yet reaped, or the program is over, or a `run` has failed and there is nothing to resume (`TargetKept`, `Lost`); without a breakpoint no task comes to an int3 (`NoInt3`), so that the step over one, which takes a death by a signal for a stop, does not begin |
| `SessionProofs!WaitsEnd` | `ApplyCommands = {}`, no `thread` or `lock` in `Commands`, `MaxRuns <= 1` imply `Spec => []WaitCanEnd` | `WaitInv`: the death of a task stays to be waited for (`DeathsPend`), and when tdb waits every living task runs or has something to report (`NoneLeftBehind`); `SomebodyAnswers` finds the task |
| `SessionProofs!NobodyResumedPastInt3` | `OnePlainRun` implies `Spec => NeverResumedPastInt3` | `PastInv` = `WaitInv` and `PastIsShown` with: a living task that tdb has not seen attached waits in the stop of its attach (`NewAreHeld`), so it has not come to a breakpoint; the focus is attached and not past an int3 when a command begins (`FocusSeen`); what `run` starts is alone until `execve` (`StartedAlone`); and a `step` has one process, so that an exit it takes for the end leaves nobody in the focus (`StepsOneProcess`) |
| `ForkProofs!OverIsGone` | `ForksOnly` implies `Spec => []OverMeansGone` | `ForkInv`: a living task is known, or its birth is still to be reported by a task that is (`Tracked`).  When the last known process dies, could a child of its still be unannounced?  No: a creator has a lower number than its child (`ParentsFirst`), so that following the reports from child to creator comes to an end, at a known process that lives.  `Reaps` counts: every round of `kill` adds a task to those that are not to be reaped any more, hence more rounds than tasks suffice |
| `ForkProofs!LeadersTracked` | `ForksOnly` implies `Spec => []LeadersAreProcesses` | from the same invariant |
| `SteppingProofs!MemoryCorrect` | `Spec => []MemoryIsUsers` | `Exact`: at every moment the table is the user's breakpoints and at most one temporary one, all enabled but the lifted one, all saved bytes the program's |
| `SteppingProofs!ArmedCorrect` | `Spec => []ArmedWhileRunning` | the same invariant: nothing is lifted while the program runs freely |
| `SteppingProofs!TypeCorrect` | `CallsReturn` implies `Spec => []TypeOK` | `TypeInv`: besides `Inv`, the stack holds addresses of the code, and its bottom is never popped, so that there is a word below every saved frame pointer (`StackOK`, with `TopFrameIs`) |
| `SteppingProofs!ProgramUndisturbed` | `Closed`, `Separated` imply `Spec => ExecutesProgram` | `RipOK`: rip is ahead of the program only after an int3 that is still in the table, and a single step never ends one byte past another breakpoint |
| `WatchpointsProofs!TypeCorrect` | `Spec => []TypeOK` | inductive by itself; the bits of DR7 stay in range because a slot and a length have fields of their own |
| `WatchpointsProofs!MirrorCorrect` | `Spec => []RegistersMirrorTable` | the inductive invariant `IInv`: `Ready` (the main thread is where its wait needs it), `Born` (what is known has been created), `SizesOK` (a slot holds a length the code accepts), and `Mirrored`, which adds to the property that a task not entered yet has nothing armed (`UnknownUnarmed`) |
| `WatchpointsProofs!TableCorrect` | `Spec => []WatchTable` | a new number is above every one in use, a new slot is free |
| `WatchpointsProofs!StatusIsRead` | `Spec => []StatusRead` | with `IInv`, `StatusTaken`: the same of threads that are not known yet, which may be hit before they are entered |
| `WatchpointsProofs!HitsAreReported` | `Spec => HitReported` | from `IInv` and `WatchTable`: every step that takes a thread's stop looks at its status before it goes on, and finds the watched slot in it |
| `BreakpointsProofs!TypeCorrect` | `Spec => []TypeOK` | from `Inv`, below: the address that is lifted, the temporary one and the thread a command began with have the types their use needs |
| `BreakpointsProofs!MemoriesCorrect` | `Spec => []MemoriesMirrorTable` | the inductive invariant `Inv`: `ThreadsOK` (a task that was born has a leader, one that reports a stop is stopped, nothing of a process killed by a signal lives), `ModeOK` and `TempOK` (a temporary breakpoint is in the table, is not the user's, and is in the memory it was put in), `LiftedOK` (the lifted place holds the saved byte, so that putting the int3 back saves the right one) and `SavedOK` (a saved byte that is not the program's goes with an address given up in every process); `Sound` is what the end of every command starts from |
| `BreakpointsProofs!UserBreakpointsCorrect` | `Spec => UserBreakpointsStay` | from the same invariant: the one address a command's end takes an int3 from is the temporary one, which is not the user's (`OnlyTemp`), and a step over puts its int3 back (`LoweredSpares`) |
| `LeakProofs!HooksStayArmed` | `Spec => []HooksArmed` | the inductive invariant `Inv`: for every wait, `Hidden` is what the table holds besides the user's breakpoints (the hooks, `_start` in the warm-up, what `nexti` put in), and all of it is in memory but the lifted one (`Held`); `CallsOK` says when calls can be pending, `NextOK` what `nexti` relies on at its end |
| `LeakProofs!HooksAreWithdrawn` | `Spec => []HooksWithdrawn` | from the same invariant, of a program that lives: at the prompt the table lies between `user` and `user \cup left`, where `left` is empty until a `stepi` has come upon an entry.  `Returning` is the lemma on the end of every wait, where the hooks and the breakpoint of `nexti` go, an address they share included; with several threads the thread of `nexti` may run, and memory is not written.  The death by a signal in a step over, after which `cont()?` leaves the breakpoint of `nexti` in the table, ends in `Fail`: of a dead program's table nothing is said |
| `LeakProofs!TypeCorrect` | `Spec => []TypeOK` | part of `Accounted`, below; it rests on `HooksArmed`, since a call is entered in `pending` only where its return is hooked |
| `LeakProofs!LedgerIsExact` | `Spec => []LedgerExact` | the inductive invariant `Accounted`: `Placed` and `LiftsEntry` (where a thread is in its call agrees with the hook that was hit or is lifted) and, for one thread, `Account`, the state of its call against `pending` and the ledger; the lemma `ReturnIsHooked` is why no return passes unseen |
| `LeakProofs!CallsAccounted` | `Spec => []AccountedInTime` | from the same invariant |
| `WordsProofs!NoByteLost` | `Spec => []BytesKept` | the inductive invariant adds `WriteOK` (what a write has in hand), `WordOK` (the word read is memory's, but for what was stored since) and `TableOK` (the word of a breakpoint could be read) |
| `LinesProofs!LinesTypes` | `Spec => []TypeOK` | `LinesInv`: the table is `load(program)`, and the answer is that of the question asked last |
| `LinesProofs!LookupIsRight` | `Spec => []LookupFindsRow` | `ListedInOrder`: in a finite set with a strict order the element of rank *r* exists and is unique, by counting those before it, so that the stable sort needs no recursion (`SortIsStable`, `RowsPlaced`).  Of the rows that speak of an address there is one (`OneSpeaks`); it is the nearest in the sorted table (`NearestSpeaks`), unless the end of another sequence is, and then nobody speaks (`EndHides`) |
| `LinesProofs!BreakFindsItsLine` | `Spec => []BreakFindsLine` | `BreakablesAre`: what may be broken at in the sorted table are the statements of the sequences; `BestLine`: the choice of `resolve_file_line` exists, as every set of line numbers and of addresses has a least one |
| `LinesProofs!BreakStaysInside` | `Spec => []BreakInFunction` | `PrologueEnds`, from whichever row at the entry the binary search returns, and `RowInFunction` |
| `LinesProofs!SymbolIsFound` | `Spec => []SymbolFound` | `SymbolsSorted`: the sorted symbols are those of `.symtab` and what `.dynsym` adds, each once; then `FoundByAddr`, `FoundByName` |

The hypotheses beside the named assumptions say for which programs and which uses of tdb a
property holds.  With two or three tids TLC finds the property violated when one of them
is left out, except where it says otherwise here.

* `ApplyCommands = {}` excludes `thread apply all`, which moves the focus from thread to thread
  without looking at the lock, and may resume a thread whose stop has not been waited for.
* `Int3NeverSkipped` leaves out `step`: in a program that forks it may take the fork event, the session
  then ends while the child lives, and the child in the focus can be resumed before its stop
  has been waited for.  Without forks TLC finds no violation under `step` either, and the run `steps`
  checks even `NeverResumedPastInt3` with it.
* `CtrlCFindsTarget` is about one process.  With a fork whose parent dies first, with `lock` and the death of the
  locked leader, until the held threads have been released, and with a death by a signal in the step over
  a breakpoint, a wait goes on while `DEBUGGEE_PID` names a reaped process.  It says nothing of the pid the forwarder
  has loaded: between `ctrl_c` and `forward_sigint` that may be reaped, whatever the main thread does.
* `WaitsEnd` leaves out `thread` and `lock`: a focus on a thread that nobody has resumed leaves tdb
  waiting for threads that all are stopped, as does a locked leader that ends while others
  are held.  One run, hence `MaxRuns <= 1`, is needed too: with two runs and five tids TLC finds
  `WaitCanEnd` violated (four, without breakpoints, show nothing).  The first run leaves stopped tasks behind, as
  when a fork is taken by `step` and the session is then declared over; in the second the event of a birth
  comes after the child has been reaped and enters it again, and when the rest of the program has ended
  tdb waits for that thread, while the tasks left behind keep `waitpid` from failing.
* `OnePlainRun` is one `run` of a program under a focus that only the waits move (no `thread`, `lock` or
  `thread apply all`), with Ctrl-C not before `execve`, and no fork if the user types `step`.  Every part is
  needed: with a second `run`, a fork under `step`, `thread`, `lock`, `thread apply all continue` or a Ctrl-C
  during the start of the program TLC finds `NeverResumedPastInt3` violated.  The run `steps` is an instance.
* `ForksOnly` is a program of processes without threads or breakpoints, under `run`, `continue`, `stepi`, `unlock`,
  `kill` and `quit`, of fewer tasks than `kill` reaps (`MaxReaps`, 64 in the code).  As many tasks as that
  violate `OverMeansGone`: one is left.  `thread`, `lock`, `step`, and `thread apply all continue`
  with Ctrl-C, violate `LeadersAreProcesses`.  Breakpoints are excluded because the step over one takes
  exits and forks itself.  The run `forks` has `thread apply all` and no Ctrl-C; an instance of the
  hypotheses, with Ctrl-C in every wait, passed too and is too long to repeat.
* `Closed` says that jumps stay in the program's code, `CallsReturn` that behind every call there is an
  instruction, `Separated` that the user's breakpoints are on instructions of two
  bytes and more; `instruction_twice` shows that the last is needed.  `MCCode` satisfies all three with
  the breakpoints `LongAddrs`.

Only model-checked:

* liveness under fairness (`CtrlCStops`, `KillReturns`, `CommandReturns`), which is outside what the
  provers handle;
* `SetThenPrint` of `Words`, which rests on a recursive function over the bytes of a value, and its
  `TypeOK`: a byte is a digit, taken by dividing by a power, and the provers have no fact about `^`
  (that a power is a positive number takes induction).

## 5. Not modelled, and the plan

In the order in which they would be taken up:

1. `OverMeansGone` and `LeadersAreProcesses` of programs that fork and have threads, for deaths of
   single threads: what `exit_group` does to a creator in its event stop makes both false.
2. The checks for a watchpoint in `step`, `next` and `run_over_call`, and `lock` beside
   watchpoints: a held thread's stop is swallowed with whatever its DR6 says.
3. The composition of `Breakpoints` with `Session` whole (`lock`, `kill`, `step`), which
   needs reductions: each alone has millions of states with three tids.
4. `call_instruction_len`, `skip_prologue_heuristic` and `read_sleb128`, as functions of
   bytes; the member chains of expressions (`a.b->c[i]`).
5. Abstract specifications: a heap with a list of its blocks that the tracking of one thread
   implements; a session (nothing, running, stopped, over) that `Session` implements.

The scopes of variables are not modelled: `find_variable` takes the first declaration of a name in the
function, so that an inner block's variable is hidden by an outer one of its name, although
the comment at `debugger.rs:2498` speaks of the scope of the current PC.

Left out for good: parsing of ELF and DWARF, the disassembler, formatting,
translation of messages, floating point, the grammar of expressions, the accessors of
`registers.rs`: they keep no state that interacts with the rest, and the repository's
tests cover them.
