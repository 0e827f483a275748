----------------------------- MODULE LeakProofs -----------------------------
(***************************************************************************)
(* The hidden breakpoints of leak tracking, for any number of threads,     *)
(* call sites and blocks, and any breakpoints of the user.  The inductive  *)
(* invariant says for every wait which addresses are in the table besides  *)
(* the user's and those stepi has left, and that all of them but a lifted  *)
(* one are in memory.  The ledger of a program of one thread rests on it:  *)
(* the return of a call that pends, and that stepi has not left, has its   *)
(* breakpoint, so the program cannot get past it.                          *)
(***************************************************************************)
EXTENDS Leak, TLAPS

(* What nexti has put in.                                                  *)
NextRet == IF next = None \/ next.had THEN {} ELSE {next.ret}

(* Under continue and stepi: what stepi has left may be gone, for the user *)
(* can have deleted the breakpoint that served it.                         *)
Entries(c) == IF c = "cont" THEN entries ELSE {}
Hooks == IF enabled THEN Entries(command) \cup (DOMAIN pending \ left) ELSE {}

(* The breakpoints that must be there besides the user's and those that    *)
(* stepi has left, and the one that is lifted.                             *)
Hidden == CASE mode = "prompt" -> {}
            [] mode = "over"   -> NextRet
            [] mode = "warmup" -> {Start} \cup NextRet
            [] OTHER           -> Hooks \cup NextRet

Lifted == IF mode \in {"over", "hidden"} THEN {lifted} ELSE {}

(* A table of exactly S, in memory but for X; with one thread memory has   *)
(* no other int3, and every saved byte is the program's.                   *)
Sound(m, S, X) ==
    /\ m = [table |-> m.table, int3 |-> m.int3]
    /\ DOMAIN m.table = S /\ S \ X \subseteq m.int3
    /\ Alone => m.int3 = S \ X /\ \A a \in S : ~m.table[a]

InTable == DOMAIN breakpoints

(* S is in the table, and nothing else but what stepi has left.            *)
Held(S, X) ==
    /\ S \subseteq InTable /\ InTable \subseteq S \cup left
    /\ InTable \ X \subseteq memory
    /\ Alone => memory = InTable \ X /\ \A a \in InTable : ~breakpoints[a]

Tasks ==
    /\ run \in [Threads -> {"unborn", "running", "stepping", "stopped"} \cup Ends]
    /\ report \in [Threads -> {"none", "trap", "signal"}]
    /\ \A t \in Threads : report[t] # "none" => run[t] = "stopped"
    /\ Dead => \A t \in Threads : run[t] \in Ends \cup {"unborn"}
    /\ current_tid \in Threads

CallsOK ==
    /\ mode \in {"prompt", "over", "warmup"} => DOMAIN pending = left
    /\ ~enabled => pending = Nothing
    /\ left \subseteq DOMAIN pending
    /\ command \in {"none", "cont", "stepi"}
    /\ mode = "prompt" <=> command = "none"
    /\ mode = "warmup" => enabled /\ entries = {} /\ command = "cont"
    /\ mode = "hidden" => enabled
    /\ entries \in {{}, {Entry(f) : f \in Fns}}
    /\ \A a \in DOMAIN pending : \E r : a = RetAt(r)

NextOK ==
    /\ mode = "prompt" => next = None
    /\ next # None => /\ next.tid \in Threads /\ run[next.tid] # "unborn"
                      /\ \E r : next.ret = RetAt(r)
                      /\ next.had \/ next.ret \notin user
                      /\ skip_target = next.ret
                      /\ command = "cont"

Core == Held(user \cup Hidden, Lifted) /\ CallsOK /\ NextOK

(* Of the table of a program that is over nothing is said any more.        *)
Inv == /\ Tasks /\ CallsOK
       /\ mode \in {"prompt", "warmup", "over", "hidden", "wait"}
       /\ exited => mode = "prompt" /\ Dead
       /\ ~(mode = "prompt" /\ Dead) => Core

-----------------------------------------------------------------------------
(* The operations on a table and a memory.                                 *)

LEMMA Made ==
    ASSUME NEW tb, NEW i, NEW S, NEW X, DOMAIN tb = S, S \ X \subseteq i,
           Alone => i = S \ X /\ \A a \in S : ~tb[a]
    PROVE  Sound([table |-> tb, int3 |-> i], S, X)
<1>. DEFINE m == [table |-> tb, int3 |-> i]
<1>1. m.table = tb /\ m.int3 = i
  OBVIOUS
<1>2. m = [table |-> m.table, int3 |-> m.int3]
  BY <1>1
<1>. HIDE DEF m
<1>3. Sound(m, S, X)
  BY <1>1, <1>2 DEF Sound
<1>. QED
  BY <1>3 DEF m

LEMMA Installed ==
    ASSUME NEW m, NEW S, NEW A, Sound(m, S, {}) PROVE Sound(Install(m, A), S \cup A, {})
<1>. DEFINE tb == [a \in DOMAIN m.table \cup A |->
                      IF a \in DOMAIN m.table THEN m.table[a] ELSE a \in m.int3]
            i  == m.int3 \cup (A \ DOMAIN m.table)
<1>1. Install(m, A) = [table |-> tb, int3 |-> i]
  BY DEF Install
<1>2. DOMAIN m.table = S /\ S \subseteq m.int3
  BY DEF Sound
<1>3. S \cup A \subseteq i /\ DOMAIN tb = S \cup A
  BY <1>2
<1>4. ASSUME Alone PROVE i = S \cup A /\ \A a \in S \cup A : ~tb[a]
  <2>1. m.int3 = S /\ \A a \in S : ~m.table[a]
    BY <1>4 DEF Sound
  <2>. QED
    BY <1>2, <2>1
<1>. HIDE DEF tb, i
<1>. QED
  BY <1>1, <1>3, <1>4 DEF Sound

LEMMA Withdrawn ==
    ASSUME NEW m, NEW S, NEW A, Sound(m, S, {})
    PROVE  Sound(Withdraw(m, A, TRUE), S \ A, {})
<1>. DEFINE tb == [a \in DOMAIN m.table \ A |-> m.table[a]]
            i  == m.int3 \ {a \in A \cap DOMAIN m.table : ~m.table[a]}
<1>1. Withdraw(m, A, TRUE) = [table |-> tb, int3 |-> i]
  BY DEF Withdraw, Restored
<1>2. DOMAIN m.table = S /\ S \subseteq m.int3
  BY DEF Sound
<1>3. S \ A \subseteq i /\ DOMAIN tb = S \ A
  BY <1>2
<1>4. ASSUME Alone PROVE i = S \ A /\ \A a \in S \ A : ~tb[a]
  <2>1. m.int3 = S /\ \A a \in S : ~m.table[a]
    BY <1>4 DEF Sound
  <2>. QED
    BY <1>2, <2>1
<1>. DEFINE R == S \ A
<1>5. DOMAIN tb = R /\ R \ {} \subseteq i /\ (Alone => i = R \ {} /\ \A a \in R : ~tb[a])
  BY <1>3, <1>4
<1>. HIDE DEF tb, i, R
<1>6. Sound([table |-> tb, int3 |-> i], R, {})
  BY <1>5, Made
<1>. QED
  BY <1>1, <1>6 DEF R

(* A table is withdrawn from without memory being written: the int3s stay, *)
(* which the invariant allows when there are several threads.              *)
LEMMA LeftBehind ==
    ASSUME NEW m, NEW S, NEW A, Sound(m, S, {}), ~Alone
    PROVE  Sound(Withdraw(m, A, FALSE), S \ A, {})
<1>. DEFINE tb == [a \in DOMAIN m.table \ A |-> m.table[a]]
<1>1. Withdraw(m, A, FALSE) = [table |-> tb, int3 |-> m.int3]
  BY DEF Withdraw
<1>2. DOMAIN tb = S \ A /\ S \ A \subseteq m.int3
  BY DEF Sound
<1>. HIDE DEF tb
<1>3. Sound([table |-> tb, int3 |-> m.int3], S \ A, {})
  BY <1>2, Made
<1>. QED
  BY <1>1, <1>3

LEMMA NothingThere ==
    ASSUME NEW m, NEW S, NEW A, NEW w \in BOOLEAN, Sound(m, S, {}), A \cap S = {}
    PROVE  Sound(Withdraw(m, A, w), S, {})
<1>. DEFINE tb == [a \in DOMAIN m.table \ A |-> m.table[a]]
<1>1. DOMAIN m.table = S /\ S \subseteq m.int3
  BY DEF Sound
<1>2. m.int3 \ {a \in A \cap DOMAIN m.table : ~m.table[a]} = m.int3
  BY <1>1
<1>3. Withdraw(m, A, w) = [table |-> tb, int3 |-> m.int3]
  BY <1>2 DEF Withdraw, Restored
<1>4. DOMAIN tb = S /\ \A a \in S : tb[a] = m.table[a]
  BY <1>1
<1>. HIDE DEF tb
<1>. QED
  BY <1>1, <1>3, <1>4 DEF Sound

LEMMA LiftedOut ==
    ASSUME NEW m, NEW S, NEW a \in S, Sound(m, S, {}) PROVE Sound(Lift(m, a), S, {a})
<1>. DEFINE i == m.int3 \ {x \in {a} \cap DOMAIN m.table : ~m.table[x]}
<1>1. Lift(m, a) = [table |-> m.table, int3 |-> i]
  BY DEF Lift, Restored, Sound
<1>2. DOMAIN m.table = S /\ S \subseteq m.int3
  BY DEF Sound
<1>3. S \ {a} \subseteq i
  BY <1>2
<1>4. ASSUME Alone PROVE i = S \ {a} /\ \A x \in S : ~m.table[x]
  <2>1. m.int3 = S /\ \A x \in S : ~m.table[x]
    BY <1>4 DEF Sound
  <2>. QED
    BY <1>2, <2>1
<1>. HIDE DEF i
<1>. QED
  BY <1>1, <1>2, <1>3, <1>4 DEF Sound

LEMMA Lowered ==
    ASSUME NEW m, NEW S, NEW a, Sound(m, S, {a}) PROVE Sound(Relower(m, a), S, {})
<1>1. CASE a \in S
  <2>1. Relower(m, a) = [table |-> m.table, int3 |-> m.int3 \cup {a}]
    BY <1>1 DEF Relower, Sound
  <2>. QED
    BY <1>1, <2>1 DEF Sound
<1>2. CASE a \notin S
  BY <1>2 DEF Relower, Sound
<1>. QED
  BY <1>1, <1>2

(* No thread is unborn again.                                              *)
Falls == \A u \in Threads : run'[u] = "unborn" => run[u] = "unborn"

LEMMA AloneFalls == ASSUME Falls PROVE Alone' => Alone
BY DEF Falls, Alone

LEMMA Patching ==
    ASSUME NEW m, NEW S, NEW X, Sound(m, S, X), Patched(m), Alone' => Alone
    PROVE  /\ DOMAIN breakpoints' = S /\ S \ X \subseteq memory'
           /\ Alone' => memory' = S \ X /\ \A a \in S : ~breakpoints'[a]
BY DEF Sound, Patched

(* What is patched in is what the invariant asks for.                      *)
LEMMA PatchedIn ==
    ASSUME NEW m, NEW S, NEW X, Sound(m, S, X), Patched(m), Alone' => Alone,
           (user \cup Hidden)' \subseteq S, S \subseteq (user \cup Hidden \cup left)',
           X = Lifted'
    PROVE  Held(user \cup Hidden, Lifted)'
BY Patching DEF Held, InTable

LEMMA PatchSound == ASSUME NEW S, NEW X, Held(S, X) PROVE Sound(patch, InTable, X)
BY DEF Sound, Held, InTable, patch

LEMMA Kinds ==
    /\ \A f, r : Entry(f) # RetAt(r) /\ Entry(f) # Start /\ RetAt(r) # Start
    /\ CallsOK => \A a \in entries : \A r : a # RetAt(r) /\ a # Start
<1>1. \A f, r : Entry(f) # RetAt(r) /\ Entry(f) # Start /\ RetAt(r) # Start
  BY DEF Entry, RetAt, Start
<1>. QED
  BY <1>1 DEF CallsOK

-----------------------------------------------------------------------------
(* Threads.                                                                *)

LEMMA Resumed ==
    ASSUME Tasks, NEW t \in Threads, NEW how \in {"running", "stepping"}, Resume(t, how),
           current_tid' \in Threads, ~Dead
    PROVE  Tasks' /\ Falls /\ ~Dead'
BY DEF Tasks, Falls, Resume, Dead, Ends

LEMMA Consumed ==
    ASSUME Tasks, NEW t \in Threads, Consume(t), current_tid' \in Threads
    PROVE  Tasks' /\ Falls /\ (Dead' <=> Dead)
BY DEF Tasks, Falls, Consume, Dead

(* The program.                                                            *)
LEMMA Programs == ASSUME Tasks, Program PROVE Tasks' /\ Falls
<1>0. current_tid' = current_tid
  BY DEF Program
<1>1. PICK t \in Threads : \/ Load(t) \/ GoesOn(t) \/ CallsAllocator(t) \/ Enters(t)
                           \/ Returns(t) \/ HitsInt3(t) \/ Interrupted(t)
                           \/ \E end \in Ends : Exits(t, end)
                           \/ \E u \in Threads : Spawns(t, u)
  BY DEF Program
<1>2. ASSUME NEW x, Executes(t, x) PROVE Tasks' /\ Falls
  BY <1>0, <1>2, LeakAssumption DEF Executes, Runs, Tasks, Falls, Dead, Ends
<1>3. CASE \/ Load(t) \/ GoesOn(t) \/ CallsAllocator(t) \/ Enters(t) \/ Returns(t)
  BY <1>2, <1>3 DEF Load, GoesOn, CallsAllocator, Enters, Returns
<1>4. CASE HitsInt3(t) \/ Interrupted(t)
  BY <1>0, <1>4, LeakAssumption DEF HitsInt3, Interrupted, Runs, Tasks, Falls, Dead, Ends
<1>5. ASSUME NEW end \in Ends, Exits(t, end) PROVE Tasks' /\ Falls
  BY <1>0, <1>5, LeakAssumption DEF Exits, Tasks, Falls, Dead, Ends, Runs
<1>6. ASSUME NEW u \in Threads, Spawns(t, u) PROVE Tasks' /\ Falls
  BY <1>0, <1>6, LeakAssumption DEF Spawns, Runs, Tasks, Falls, Dead, Ends
<1>. QED
  BY <1>1, <1>3, <1>4, <1>5, <1>6

(* A step that leaves the breakpoints as they are.                         *)
LEMMA Untouched ==
    ASSUME Core, Falls, Tasks,
           UNCHANGED <<breakpoints, memory, user, mode, lifted, next, skip_target>>,
           UNCHANGED <<enabled, entries, pending, command, left>>
    PROVE  Core'
<1>1. Alone' => Alone
  BY AloneFalls
<1>2. CallsOK' /\ NextOK'
  BY DEF Core, CallsOK, NextOK, Falls, Tasks
<1>3. Held(user \cup Hidden, Lifted)'
  BY <1>1 DEF Core, Held, InTable, Hidden, Lifted, Hooks, Entries, NextRet
<1>. QED
  BY <1>2, <1>3 DEF Core

-----------------------------------------------------------------------------
(* What the commands are made of.                                          *)

(* The calls that pend at the prompt are those stepi has left.             *)
LEMMA Pended ==
    ASSUME NEW calls, Pends(calls), AtPromptAgain, CallsOK, command # "none",
           ~enabled => calls = Nothing,
           \A a \in DOMAIN calls : \E r : a = RetAt(r),
           UNCHANGED <<entries, enabled>>
    PROVE  CallsOK' /\ DOMAIN pending' = left'
BY DEF Pends, AtPromptAgain, CallsOK, Nothing, Unhooks

(* wait_and_report returns to cont, which withdraws the hooks and nexti    *)
(* its breakpoint after it, or to stepi.                                   *)
LEMMA Returning ==
    ASSUME NEW m, NEW calls, NEW S, Return(m, calls), Sound(m, S, {}),
           Core, Tasks, ~Dead, Falls, command # "none",
           user \subseteq S,
           S \subseteq user \cup NextRet
                      \cup (IF enabled THEN Entries(command) \cup DOMAIN calls ELSE {}),
           ~enabled => calls = Nothing,
           \A a \in DOMAIN calls : \E r : a = RetAt(r),
           \E t \in Threads : run[t] = "stopped",
           UNCHANGED <<user, entries, enabled>>
    PROVE  mode' = "prompt" /\ Core'
<1>. DEFINE rest == Rest(m, calls)
            last == IF next # None /\ ~next.had /\ ~Dead
                    THEN Withdraw(rest, {next.ret}, Stopped(next.tid)) ELSE rest
            calls2 == IF Unhooks THEN Nothing ELSE calls
            left2 == IF command = "stepi" THEN DOMAIN calls ELSE {}
<1>1. /\ Patched(last)
      /\ pending' = calls2 /\ left' = left2
      /\ mode' = "prompt" /\ lifted' = None /\ command' = "none" /\ next' = None
      /\ skip_target' = None
  BY DEF Return, Pends, AtPromptAgain
<1>2. Alone' => Alone
  BY AloneFalls
<1>3. /\ next # None => /\ next.tid \in Threads /\ run[next.tid] # "unborn"
                        /\ next.had \/ next.ret \notin user
                        /\ command = "cont"
      /\ command \in {"cont", "stepi"}
      /\ entries \in {{}, {Entry(f) : f \in Fns}}
  BY DEF Core, NextOK, CallsOK
<1>4. Alone /\ next # None => Stopped(next.tid)
  BY <1>3 DEF Alone, Stopped
<1>5. PICK R : Sound(rest, R, {}) /\ user \subseteq R /\ R \subseteq user \cup NextRet \cup left2
  <2>1. CASE Unhooks
    <3>1. rest = Withdraw(m, (entries \cup DOMAIN calls) \ user, TRUE)
      BY <2>1 DEF uninstall_leak_breakpoints, Rest
    <3>2. Sound(rest, S \ ((entries \cup DOMAIN calls) \ user), {})
      BY <3>1, Withdrawn
    <3>. QED
      BY <2>1, <3>2 DEF Unhooks, Entries
  <2>2. CASE ~Unhooks
    <3>1. rest = m
      BY <2>2 DEF Rest
    <3>2. S \subseteq user \cup NextRet \cup left2
      BY <2>2, <1>3 DEF Unhooks, Entries
    <3>. QED
      BY <3>1, <3>2
  <2>. QED
    BY <2>1, <2>2
<1>5a. next # None => left2 = {}
  BY <1>3
<1>. HIDE DEF rest, left2, calls2
<1>6. PICK U : Sound(last, U, {}) /\ user \subseteq U /\ U \subseteq user \cup left2
  <2>1. CASE NextRet = {}
    <3>1. next = None \/ next.had
      BY <2>1 DEF NextRet
    <3>. QED
      BY <3>1, <2>1, <1>5
  <2>2. CASE NextRet # {}
    <3>1. /\ next # None /\ ~next.had /\ NextRet = {next.ret} /\ next.ret \notin user
          /\ left2 = {}
      BY <2>2, <1>3, <1>5a DEF NextRet
    <3>2. last = Withdraw(rest, {next.ret}, Stopped(next.tid)) /\ R \ {next.ret} = user
      BY <3>1, <1>5
    <3>3. CASE Stopped(next.tid)
      <4>1. last = Withdraw(rest, {next.ret}, TRUE)
        BY <3>2, <3>3
      <4>2. Sound(last, user, {})
        <5>1. Sound(rest, R, {})
          BY <1>5
        <5>2. Sound(Withdraw(rest, {next.ret}, TRUE), R \ {next.ret}, {})
          BY <5>1, Withdrawn
        <5>. QED
          BY <5>2, <4>1, <3>2
      <4>. QED
        BY <4>2
    <3>4. CASE ~Stopped(next.tid)
      <4>1. last = Withdraw(rest, {next.ret}, FALSE)
        BY <3>1, <3>2, <3>4 DEF Stopped
      <4>2. ASSUME ~Alone PROVE Sound(last, user, {})
        <5>1. Sound(rest, R, {})
          BY <1>5
        <5>2. Sound(Withdraw(rest, {next.ret}, FALSE), R \ {next.ret}, {})
          BY <5>1, <4>2, LeftBehind
        <5>. QED
          BY <5>2, <4>1, <3>2
      <4>3. ~Alone
        BY <3>1, <3>4, <1>4
      <4>. QED
        BY <4>2, <4>3
    <3>. QED
      BY <3>3, <3>4
  <2>. QED
    BY <2>1, <2>2
<1>. HIDE DEF last
<1>7. Held(user \cup Hidden, Lifted)'
  <2>1. (user \cup Hidden)' = user /\ Lifted' = {}
    BY <1>1 DEF Hidden, Lifted
  <2>. QED
    BY <1>1, <1>2, <1>6, <2>1, PatchedIn
<1>8. CallsOK'
  BY Pended DEF Core, Return
<1>9. NextOK'
  BY <1>1 DEF NextOK
<1>. QED
  BY <1>1, <1>7, <1>8, <1>9 DEF Core

(* The hooks go in and the program runs on: the rest of cont, and of the   *)
(* step over that cont began with.                                         *)
LEMMA Going ==
    ASSUME NEW m, NEW S, Go(m), Sound(m, S, {}),
           user \cup NextRet' \subseteq S, S \subseteq user \cup NextRet' \cup left,
           CallsOK, DOMAIN pending = left, command' = "cont", NextOK', Tasks, ~Dead,
           UNCHANGED <<user, enabled, pending, left, current_tid>>
    PROVE  mode' \in {"wait", "warmup"} /\ Core' /\ Tasks'
<1>. DEFINE found == IF entries = {} THEN resolve_leak_entry_points ELSE entries
<1>1. Tasks' /\ Falls
  BY Resumed DEF Go, Tasks
<1>2. Alone' => Alone
  BY <1>1, AloneFalls
<1>3. found \in {{}, {Entry(f) : f \in Fns}}
  BY DEF CallsOK, resolve_leak_entry_points
<1>4. CASE ~enabled
  <2>1. Patched(m) /\ mode' = "wait" /\ UNCHANGED entries
    BY <1>4 DEF Go, ensure_leak_breakpoints_installed
  <2>2. Held(user \cup Hidden, Lifted)'
    <3>1. (user \cup Hidden)' = user \cup NextRet' /\ Lifted' = {}
      BY <2>1, <1>4 DEF Hidden, Lifted, Hooks
    <3>. QED
      BY <2>1, <3>1, <1>2, PatchedIn
  <2>3. CallsOK'
    BY <2>1, <1>4 DEF CallsOK
  <2>. QED
    BY <2>1, <2>2, <2>3, <1>1 DEF Core
<1>5. CASE enabled /\ found = {} /\ ~warmed_up
  <2>1. Patched(Install(m, {Start})) /\ mode' = "warmup" /\ UNCHANGED entries /\ entries = {}
    BY <1>5 DEF Go, ensure_leak_breakpoints_installed
  <2>2. Sound(Install(m, {Start}), S \cup {Start}, {})
    BY Installed
  <2>3. Held(user \cup Hidden, Lifted)'
    <3>1. (user \cup Hidden)' = user \cup NextRet' \cup {Start} /\ Lifted' = {}
      BY <2>1 DEF Hidden, Lifted
    <3>. QED
      BY <2>1, <2>2, <3>1, <1>2, PatchedIn
  <2>4. CallsOK'
    BY <2>1, <1>5 DEF CallsOK
  <2>. QED
    BY <2>1, <2>3, <2>4, <1>1 DEF Core
<1>6. CASE enabled /\ ~(found = {} /\ ~warmed_up)
  <2>1. Patched(Install(m, found)) /\ mode' = "wait" /\ entries' = found
    BY <1>6 DEF Go, ensure_leak_breakpoints_installed
  <2>2. Sound(Install(m, found), S \cup found, {})
    BY Installed
  <2>3. Hooks' = found
    BY <2>1, <1>6 DEF Hooks, Entries
  <2>4. Held(user \cup Hidden, Lifted)'
    <3>1. (user \cup Hidden)' = user \cup NextRet' \cup found /\ Lifted' = {}
      BY <2>1, <2>3 DEF Hidden, Lifted
    <3>. HIDE DEF found
    <3>. QED
      BY <2>1, <2>2, <3>1, <1>2, PatchedIn
  <2>5. CallsOK'
    BY <2>1, <1>3, <1>6 DEF CallsOK
  <2>. QED
    BY <2>1, <2>4, <2>5, <1>1 DEF Core
<1>. QED
  BY <1>4, <1>5, <1>6

LEMMA Stepped ==
    ASSUME NEW m, NEW t \in Threads, NEW how, NEW S, StepOver(m, t, how), Sound(m, S, {}),
           at[t] \in S, Tasks, ~Dead, current_tid' \in Threads
    PROVE  /\ Tasks' /\ Falls
           /\ mode' = how /\ lifted' = at[t]
           /\ Sound(Lift(m, at[t]), S, {at[t]}) /\ Patched(Lift(m, at[t]))
           /\ Alone' => Alone
<1>1. Tasks' /\ Falls
  BY Resumed DEF StepOver
<1>2. Alone' => Alone
  BY <1>1, AloneFalls
<1>3. Sound(Lift(m, at[t]), S, {at[t]}) /\ Patched(Lift(m, at[t]))
  BY LiftedOut DEF StepOver
<1>. QED
  BY <1>1, <1>2, <1>3 DEF StepOver

(* The step over that a command begins with.                               *)
LEMMA SteppingOver ==
    ASSUME NEW m, NEW S, StepOver(m, current_tid, "over"), Sound(m, S, {}),
           at[current_tid] \in S,
           user \cup NextRet' \subseteq S, S \subseteq user \cup NextRet' \cup left,
           CallsOK, DOMAIN pending = left, command' \in {"cont", "stepi"}, NextOK',
           Tasks, ~Dead,
           UNCHANGED <<user, enabled, entries, pending, left, current_tid>>
    PROVE  mode' = "over" /\ Core' /\ Tasks'
<1>. DEFINE a == at[current_tid]
<1>1. /\ Tasks' /\ mode' = "over" /\ lifted' = a
      /\ Sound(Lift(m, a), S, {a}) /\ Patched(Lift(m, a)) /\ (Alone' => Alone)
  BY Stepped DEF Tasks
<1>2. (user \cup Hidden)' = user \cup NextRet' /\ Lifted' = {a}
  BY <1>1 DEF Hidden, Lifted
<1>. HIDE DEF a
<1>3. Held(user \cup Hidden, Lifted)'
  BY <1>1, <1>2, PatchedIn
<1>4. CallsOK'
  BY <1>1 DEF CallsOK
<1>. QED
  BY <1>1, <1>3, <1>4 DEF Core

LEMMA Continuing ==
    ASSUME NEW m, NEW S, Cont(m), Sound(m, S, {}),
           user \cup NextRet' \subseteq S, S \subseteq user \cup NextRet' \cup left,
           CallsOK, DOMAIN pending = left, command' = "cont", NextOK', Tasks, ~Dead,
           UNCHANGED <<user, enabled, pending, left, current_tid>>
    PROVE  mode' \in {"wait", "warmup", "over"} /\ Core' /\ Tasks'
<1>1. CASE at[current_tid] \in DOMAIN m.table /\ ~past[current_tid]
  <2>1. StepOver(m, current_tid, "over") /\ UNCHANGED entries
    BY <1>1 DEF Cont
  <2>2. at[current_tid] \in S
    BY <1>1 DEF Sound
  <2>. QED
    BY <2>1, <2>2, SteppingOver
<1>2. CASE ~(at[current_tid] \in DOMAIN m.table /\ ~past[current_tid])
  BY <1>2, Going DEF Cont
<1>. QED
  BY <1>1, <1>2

-----------------------------------------------------------------------------
(* The commands.                                                           *)

(* At the prompt, while the program lives.                                 *)
LEMMA AtThePrompt ==
    ASSUME Inv, mode = "prompt", ~Dead
    PROVE  /\ Core /\ Tasks /\ DOMAIN pending = left /\ next = None /\ ~exited
           /\ Held(user, {}) /\ Sound(patch, InTable, {})
<1>1. Core /\ Tasks /\ ~exited
  BY DEF Inv
<1>2. DOMAIN pending = left /\ next = None
  BY <1>1 DEF Core, CallsOK, NextOK
<1>3. user \cup Hidden = user /\ Lifted = {}
  BY DEF Hidden, Lifted
<1>4. Held(user, {})
  <2>1. Held(user \cup Hidden, Lifted)
    BY <1>1 DEF Core
  <2>. QED
    BY <2>1, <1>3
<1>. QED
  BY <1>1, <1>2, <1>4, PatchSound

LEMMA InFocus ==
    ASSUME Inv, Focused
    PROVE  /\ mode = "prompt" /\ ~Dead /\ run[current_tid] = "stopped"
           /\ Core /\ Tasks /\ DOMAIN pending = left /\ next = None /\ ~exited
           /\ user \subseteq InTable /\ InTable \subseteq user \cup left
           /\ Sound(patch, InTable, {})
<1>1. mode = "prompt" /\ run[current_tid] = "stopped" /\ Tasks
  BY DEF Focused, AtPrompt, Stopped, Inv
<1>2. ~Dead
  BY <1>1 DEF Tasks, Ends
<1>. QED
  BY <1>1, <1>2, AtThePrompt DEF Held

LEMMA SetLeakTracking ==
    ASSUME Inv, NEW on \in BOOLEAN, set_leak_tracking(on) PROVE Inv'
<1>. USE DEF set_leak_tracking
<1>1. /\ UNCHANGED <<run, report, user, current_tid, exited, entries>>
      /\ UNCHANGED <<mode, lifted, command, next, skip_target>>
      /\ enabled' = on /\ ~exited /\ mode = "prompt"
  BY DEF tasks, control, AtPrompt
<1>2. Tasks' /\ (Alone' => Alone) /\ (Dead' <=> Dead)
  BY <1>1 DEF Tasks, Alone, Dead, Inv
<1>2a. CallsOK'
  BY <1>1 DEF Inv, CallsOK, Nothing
<1>3. ASSUME ~Dead PROVE Core'
  <2>1. /\ Core /\ DOMAIN pending = left /\ next = None
        /\ Held(user, {}) /\ Sound(patch, InTable, {})
    BY <1>1, <1>3, AtThePrompt
  <2>2. Held(user, {})'
    <3>1. CASE on
      BY <3>1, <2>1, <1>1, <1>2 DEF Held, InTable
    <3>2. CASE ~on
      <4>. DEFINE A == (entries \cup DOMAIN pending) \ user
                  D == InTable
      <4>1. Patched(Withdraw(patch, A, TRUE))
        BY <1>3, <3>2 DEF uninstall_leak_breakpoints
      <4>2. Sound(Withdraw(patch, A, TRUE), D \ A, {})
        BY <2>1, Withdrawn
      <4>3. D \ A = user
        BY <2>1 DEF Held
      <4>. HIDE DEF A, D
      <4>. QED
        BY <4>1, <4>2, <4>3, <1>1, <1>2, Patching DEF Held, InTable
    <3>. QED
      BY <3>1, <3>2
  <2>3. Held(user \cup Hidden, Lifted)'
    <3>1. (user \cup Hidden)' = user' /\ Lifted' = {}
      BY <1>1 DEF Hidden, Lifted
    <3>. QED
      BY <2>2, <3>1
  <2>4. NextOK'
    BY <1>1, <2>1 DEF Core, NextOK
  <2>. QED
    BY <1>2a, <2>3, <2>4 DEF Core
<1>. QED
  BY <1>1, <1>2, <1>2a, <1>3 DEF Inv

LEMMA InstallBreakpoint ==
    ASSUME Inv, NEW a \in BreakAddrs, install_breakpoint(a) PROVE Inv'
<1>. USE DEF install_breakpoint
<1>1. /\ mode = "prompt" /\ ~Dead /\ Core /\ Tasks /\ DOMAIN pending = left /\ next = None
      /\ ~exited /\ user \subseteq InTable /\ InTable \subseteq user \cup left
      /\ Sound(patch, InTable, {})
  BY InFocus
<1>2. /\ UNCHANGED <<run, report, current_tid, exited, mode, lifted, command, next, skip_target>>
      /\ UNCHANGED <<enabled, entries, pending, left>> /\ user' = user \cup {a}
  BY DEF tasks, control, tracker, ghosts
<1>3. Tasks' /\ (Alone' => Alone)
  BY <1>1, <1>2 DEF Tasks, Alone, Dead
<1>. DEFINE S == InTable \cup {a}
<1>4. Sound(Install(patch, {a}), S, {})
  BY <1>1, Installed
<1>5. (user \cup Hidden)' = user \cup {a} /\ Lifted' = {}
  BY <1>1, <1>2 DEF Hidden, Lifted
<1>5a. user \cup {a} \subseteq S /\ S \subseteq user \cup {a} \cup left'
  BY <1>1, <1>2
<1>. HIDE DEF S
<1>6. Held(user \cup Hidden, Lifted)'
  BY <1>3, <1>4, <1>5, <1>5a, PatchedIn
<1>7. CallsOK' /\ NextOK'
  BY <1>1, <1>2 DEF Core, CallsOK, NextOK
<1>. QED
  BY <1>1, <1>2, <1>3, <1>6, <1>7 DEF Inv, Core

LEMMA DeleteBreakpoint ==
    ASSUME Inv, NEW a \in BreakAddrs, delete_breakpoint(a) PROVE Inv'
<1>. USE DEF delete_breakpoint
<1>1. /\ mode = "prompt" /\ ~Dead /\ Core /\ Tasks /\ DOMAIN pending = left /\ next = None
      /\ ~exited /\ user \subseteq InTable /\ InTable \subseteq user \cup left
      /\ Sound(patch, InTable, {})
  BY InFocus
<1>2. /\ UNCHANGED <<run, report, current_tid, exited, mode, lifted, command, next, skip_target>>
      /\ UNCHANGED <<enabled, entries, pending, left>> /\ user' = user \ {a}
  BY DEF tasks, control, tracker, ghosts
<1>3. Tasks' /\ (Alone' => Alone)
  BY <1>1, <1>2 DEF Tasks, Alone, Dead
<1>. DEFINE S == InTable \ {a}
<1>4. Sound(Withdraw(patch, {a}, TRUE), S, {})
  BY <1>1, Withdrawn
<1>5. (user \cup Hidden)' = user \ {a} /\ Lifted' = {}
  BY <1>1, <1>2 DEF Hidden, Lifted
<1>5a. user \ {a} \subseteq S /\ S \subseteq (user \ {a}) \cup left'
  BY <1>1, <1>2
<1>. HIDE DEF S
<1>6. Held(user \cup Hidden, Lifted)'
  BY <1>3, <1>4, <1>5, <1>5a, PatchedIn
<1>7. CallsOK' /\ NextOK'
  BY <1>1, <1>2 DEF Core, CallsOK, NextOK
<1>. QED
  BY <1>1, <1>2, <1>3, <1>6, <1>7 DEF Inv, Core

(* Neither the program nor the choice of a thread touches a breakpoint.    *)
LEMMA LeftAlone ==
    ASSUME Inv, Tasks', Falls, Dead => Dead',
           UNCHANGED <<breakpoints, memory, user, mode, lifted, next, skip_target>>,
           UNCHANGED <<enabled, entries, pending, command, left, exited>>
    PROVE  Inv'
BY Untouched DEF Inv, CallsOK

LEMMA SwitchThread ==
    ASSUME Inv, NEW t \in Threads, switch_thread(t) PROVE Inv'
<1>1. Tasks' /\ Falls /\ (Dead => Dead')
  BY DEF switch_thread, Inv, Tasks, Falls, Dead
<1>. QED
  BY <1>1, LeftAlone DEF switch_thread, patches, tracker, control, ghosts

(* A program that is over stays so.                                        *)
LEMMA StaysDead == ASSUME Tasks, Dead PROVE ~Program
BY DEF Program, Tasks, Load, GoesOn, CallsAllocator, Enters, Returns, HitsInt3, Interrupted,
       Exits, Spawns, Executes, Runs, Ends

LEMMA Kept ==
    ASSUME Program PROVE UNCHANGED left
BY DEF Program, Load, GoesOn, CallsAllocator, Enters, Returns, HitsInt3, Interrupted,
       Exits, Spawns, ghosts

LEMMA ProgramStep == ASSUME Inv, Program PROVE Inv'
<1>1. Tasks' /\ Falls /\ ~Dead
  BY Programs, StaysDead DEF Inv
<1>. QED
  BY <1>1, LeftAlone, Kept DEF Program, patches, tracker, control

LEMMA Continue == ASSUME Inv, cont PROVE Inv'
<1>. USE DEF cont
<1>1. /\ mode = "prompt" /\ ~Dead /\ Core /\ Tasks /\ DOMAIN pending = left /\ next = None
      /\ ~exited /\ user \subseteq InTable /\ InTable \subseteq user \cup left
      /\ Sound(patch, InTable, {})
  BY InFocus
<1>2. NextRet' = {} /\ NextOK' /\ CallsOK /\ UNCHANGED left
  BY <1>1 DEF NextRet, NextOK, Core, ghosts
<1>3. mode' \in {"wait", "warmup", "over"} /\ Core' /\ Tasks'
  BY <1>1, <1>2, Continuing
<1>. QED
  BY <1>1, <1>3 DEF Inv, Core

LEMMA NextInstruction == ASSUME Inv, nexti PROVE Inv'
<1>. USE DEF nexti
<1>1. /\ mode = "prompt" /\ ~Dead /\ Core /\ Tasks /\ DOMAIN pending = left
      /\ ~exited /\ user \subseteq InTable /\ InTable \subseteq user \cup left
      /\ Sound(patch, InTable, {}) /\ run[current_tid] = "stopped"
  BY InFocus
<1>2. PICK r \in Sites :
          /\ next' = [ret |-> RetAt(r), had |-> RetAt(r) \in DOMAIN breakpoints,
                      tid |-> current_tid]
          /\ skip_target' = RetAt(r)
          /\ Cont(Install(patch, {RetAt(r)})) /\ command' = "cont"
  OBVIOUS
<1>3. /\ next'.ret = RetAt(r) /\ (next'.had <=> RetAt(r) \in InTable) /\ next'.tid = current_tid
      /\ current_tid \in Threads /\ next' # None
  <2>1. next' \in Steps
    BY <1>1, <1>2 DEF Tasks, Steps, Places
  <2>. QED
    BY <1>1, <1>2, <2>1, LeakAssumption DEF Tasks, InTable
<1>. DEFINE S == InTable \cup {RetAt(r)}
<1>4. /\ Sound(Install(patch, {RetAt(r)}), S, {})
      /\ user \cup NextRet' \subseteq S /\ S \subseteq user \cup NextRet' \cup left
  <2>1. InTable \cup {RetAt(r)} = InTable \cup NextRet'
    BY <1>3 DEF NextRet
  <2>. QED
    BY <2>1, <1>1, Installed
<1>. HIDE DEF S
<1>5. NextOK'
  <2>1. run'[current_tid] # "unborn" /\ mode' # "prompt"
    BY <1>1, <1>2, <1>3 DEF Cont, Go, StepOver, Resume, ensure_leak_breakpoints_installed, Tasks
  <2>. QED
    BY <1>1, <1>2, <1>3, <2>1 DEF NextOK
<1>6. mode' \in {"wait", "warmup", "over"} /\ Core' /\ Tasks'
  BY <1>1, <1>2, <1>4, <1>5, Continuing DEF Core, ghosts
<1>. QED
  BY <1>1, <1>6 DEF Inv, Core

LEMMA StepInstruction == ASSUME Inv, stepi PROVE Inv'
<1>. USE DEF stepi
<1>1. /\ mode = "prompt" /\ ~Dead /\ Core /\ Tasks /\ DOMAIN pending = left /\ next = None
      /\ ~exited /\ user \subseteq InTable /\ InTable \subseteq user \cup left
      /\ Sound(patch, InTable, {})
  BY InFocus
<1>2. /\ NextRet' = {} /\ NextOK' /\ CallsOK
      /\ UNCHANGED <<user, enabled, entries, pending, left, current_tid, exited, next, skip_target>>
      /\ command' = "stepi"
  BY <1>1 DEF NextRet, NextOK, Core, ghosts, tracker
<1>3. CASE at[current_tid] \in DOMAIN breakpoints /\ ~past[current_tid]
  <2>1. StepOver(patch, current_tid, "over") /\ at[current_tid] \in InTable
    BY <1>3 DEF InTable
  <2>2. mode' = "over" /\ Core' /\ Tasks'
    BY <1>1, <1>2, <2>1, SteppingOver
  <2>. QED
    BY <1>1, <1>2, <2>2 DEF Inv, Core
<1>4. CASE ~(at[current_tid] \in DOMAIN breakpoints /\ ~past[current_tid])
  <2>1. /\ Resume(current_tid, "stepping") /\ mode' = "wait"
        /\ UNCHANGED <<breakpoints, memory, lifted>>
    BY <1>4
  <2>2. Tasks' /\ Falls /\ (Alone' => Alone)
    BY <1>1, <1>2, <2>1, Resumed, AloneFalls DEF Tasks
  <2>3. Hidden' = {} /\ Lifted' = {}
    BY <1>1, <1>2, <2>1 DEF Hidden, Hooks, Entries, Lifted
  <2>4. Held(user \cup Hidden, Lifted)'
    BY <1>1, <1>2, <2>1, <2>2, <2>3 DEF Held, InTable, Sound, patch
  <2>5. CallsOK'
    BY <1>2, <2>1 DEF CallsOK
  <2>. QED
    BY <1>1, <1>2, <2>1, <2>2, <2>4, <2>5 DEF Inv, Core
<1>. QED
  BY <1>3, <1>4

-----------------------------------------------------------------------------
(* The waits inside a command.                                             *)

LEMMA WarmUp == ASSUME Inv, warm_up_to_own_entry PROVE Inv'
<1>. USE DEF warm_up_to_own_entry
<1>. DEFINE t == current_tid
            m == IF Start \in user THEN patch ELSE Withdraw(patch, {Start}, TRUE)
<1>1. /\ Core /\ Tasks /\ mode = "warmup" /\ ~exited
      /\ UNCHANGED <<user, current_tid, enabled, pending, skip_target, left>>
  BY DEF Inv, ghosts
<1>2. CASE Dead
  <2>1. mode' = "prompt" /\ Tasks' /\ Dead'
    BY <1>1, <1>2 DEF Tasks, tasks, AtPromptAgain, Dead
  <2>2. CallsOK'
    BY <1>1, <1>2 DEF Core, CallsOK, AtPromptAgain
  <2>. QED
    BY <2>1, <2>2 DEF Inv
<1>3. CASE ~Dead
  <2>1. /\ Patched(Install(m, entries')) /\ entries' = resolve_leak_entry_points
        /\ Resume(t, "running") /\ mode' = "wait" /\ UNCHANGED <<exited, lifted, command, next>>
    BY <1>3
  <2>2. Tasks' /\ Falls
    BY <1>1, <1>3, <2>1, Resumed DEF Tasks
  <2>3. Alone' => Alone
    BY <2>2, AloneFalls
  <2>4. enabled /\ DOMAIN pending = left /\ entries = {} /\ command = "cont" /\ NextOK /\ CallsOK
    BY <1>1 DEF Core, CallsOK
  <2>5. Start \notin NextRet /\ Start \notin left
    BY <2>4, Kinds DEF NextRet, NextOK, CallsOK
  <2>6. /\ Sound(patch, InTable, {}) /\ user \cup {Start} \cup NextRet \subseteq InTable
        /\ InTable \subseteq user \cup {Start} \cup NextRet \cup left
    <3>1. user \cup Hidden = user \cup {Start} \cup NextRet /\ Lifted = {}
      BY <1>1 DEF Hidden, Lifted
    <3>2. Held(user \cup Hidden, Lifted)
      BY <1>1 DEF Core
    <3>. QED
      BY <3>1, <3>2, PatchSound DEF Held
  <2>7. PICK S : /\ Sound(m, S, {}) /\ user \cup NextRet \subseteq S
                 /\ S \subseteq user \cup NextRet \cup left
    <3>1. CASE Start \in user
      <4>1. m = patch
        BY <3>1
      <4>2. Sound(m, InTable, {})
        BY <4>1, <2>6
      <4>. QED
        BY <3>1, <4>2, <2>6
    <3>2. CASE Start \notin user
      <4>1. m = Withdraw(patch, {Start}, TRUE)
        BY <3>2
      <4>2. Sound(Withdraw(patch, {Start}, TRUE), InTable \ {Start}, {})
        BY <2>6, Withdrawn
      <4>3. /\ user \cup NextRet \subseteq InTable \ {Start}
            /\ InTable \ {Start} \subseteq user \cup NextRet \cup left
        BY <3>2, <2>5, <2>6
      <4>. HIDE DEF m
      <4>. QED
        BY <4>1, <4>2, <4>3
    <3>. QED
      BY <3>1, <3>2
  <2>. HIDE DEF m
  <2>. DEFINE T == S \cup entries'
  <2>8. Sound(Install(m, entries'), T, {})
    BY <2>7, Installed
  <2>9. /\ (user \cup Hidden)' = user \cup NextRet \cup entries' /\ Lifted' = {}
        /\ left' = left
    BY <1>1, <2>1, <2>4 DEF Hidden, Lifted, Hooks, Entries, NextRet
  <2>9a. /\ user \cup NextRet \cup entries' \subseteq T
         /\ T \subseteq user \cup NextRet \cup entries' \cup left
    BY <2>7
  <2>. HIDE DEF T
  <2>10. Held(user \cup Hidden, Lifted)'
    BY <2>1, <2>3, <2>8, <2>9, <2>9a, PatchedIn
  <2>11. CallsOK'
    BY <1>1, <2>1, <2>4 DEF CallsOK, resolve_leak_entry_points
  <2>12. NextOK'
    BY <1>1, <2>1, <2>2, <2>4 DEF NextOK, Falls, Tasks
  <2>. QED
    BY <1>1, <2>1, <2>2, <2>10, <2>11, <2>12 DEF Inv, Core
<1>. QED
  BY <1>2, <1>3

LEMMA StepOverEnds == ASSUME Inv, step_over_current_breakpoint PROVE Inv'
<1>. USE DEF step_over_current_breakpoint
<1>. DEFINE t == current_tid
            m == Relower(patch, lifted)
<1>1. /\ Core /\ Tasks /\ mode \in {"over", "hidden"} /\ ~exited
      /\ UNCHANGED <<user, current_tid, enabled>>
  BY DEF Inv
<1>2. CASE Dead
  <2>1. mode' = "prompt" /\ UNCHANGED <<run, report>>
    BY <1>2 DEF StepDies, Return, Fail, AtPromptAgain
  <2>2. Tasks' /\ Dead'
    BY <1>1, <1>2, <2>1 DEF Tasks, Dead
  <2>3. CallsOK /\ command # "none" /\ UNCHANGED entries
    BY <1>1, <1>2 DEF Core, CallsOK, StepDies
  <2>4. CASE mode = "hidden"
    <3>1. Pends(pending) /\ AtPromptAgain
      BY <1>2, <2>4 DEF StepDies, Return, Fail
    <3>2. CallsOK'
      BY <1>1, <2>3, <3>1, Pended DEF CallsOK
    <3>. QED
      BY <2>1, <2>2, <3>2 DEF Inv
  <2>5. CASE mode = "over"
    <3>1. UNCHANGED <<pending, left>> /\ AtPromptAgain
      BY <1>2, <2>5 DEF StepDies
    <3>2. CallsOK'
      BY <1>1, <2>3, <2>5, <3>1 DEF CallsOK, AtPromptAgain
    <3>. QED
      BY <2>1, <2>2, <3>2 DEF Inv
  <2>. QED
    BY <1>1, <2>4, <2>5
<1>3. CASE ~Dead
  <2>1. /\ CASE mode = "hidden" -> /\ Patched(m) /\ Resume(t, "running")
                                   /\ mode' = "wait" /\ UNCHANGED <<entries, warmed_up>>
             [] mode = "over" /\ command = "cont" -> Go(m)
             [] OTHER -> /\ Patched(m) /\ Resume(t, "stepping")
                         /\ mode' = "wait" /\ UNCHANGED <<entries, warmed_up>>
        /\ UNCHANGED <<exited, command, next, skip_target, pending, left>>
    BY <1>3 DEF StepDone
  <2>2. /\ Sound(m, InTable, {})
        /\ user \cup Hidden \subseteq InTable /\ InTable \subseteq user \cup Hidden \cup left
    <3>1. Lifted = {lifted} /\ Held(user \cup Hidden, {lifted})
      BY <1>1 DEF Lifted, Core
    <3>. QED
      BY <3>1, PatchSound, Lowered DEF Held
  <2>3. CallsOK /\ NextOK
    BY <1>1 DEF Core
  <2>. HIDE DEF m
  <2>4. ASSUME NEW how \in {"running", "stepping"}, Patched(m), Resume(t, how), mode' = "wait",
               UNCHANGED <<entries, warmed_up>>,
               (user \cup Hidden)' = user \cup Hidden
        PROVE  Inv'
    <3>1. Tasks' /\ Falls
      BY <1>1, <1>3, <2>4, Resumed DEF Tasks
    <3>2. Alone' => Alone
      BY <3>1, AloneFalls
    <3>3. Lifted' = {}
      BY <2>4 DEF Lifted
    <3>4. Held(user \cup Hidden, Lifted)'
      BY <2>1, <2>2, <2>4, <3>2, <3>3, PatchedIn
    <3>5. CallsOK' /\ NextOK'
      BY <1>1, <2>1, <2>3, <2>4, <3>1 DEF CallsOK, NextOK, Falls, Tasks
    <3>. QED
      BY <1>1, <2>1, <2>4, <3>1, <3>4, <3>5 DEF Inv, Core
  <2>5. CASE mode = "hidden"
    <3>1. (user \cup Hidden)' = user \cup Hidden
      BY <1>1, <2>1, <2>5 DEF Hidden, Hooks, Entries, NextRet
    <3>. QED
      BY <2>1, <2>4, <2>5, <3>1
  <2>6. CASE mode = "over" /\ command = "cont"
    <3>1. Go(m) /\ DOMAIN pending = left
      BY <2>1, <2>3, <2>6 DEF CallsOK
    <3>2. user \cup NextRet' = user \cup Hidden
      BY <2>1, <2>6 DEF Hidden, NextRet
    <3>3. NextOK'
      <4>1. Tasks' /\ Falls /\ mode' # "prompt"
        BY <1>1, <1>3, <3>1, Resumed DEF Go, Tasks, ensure_leak_breakpoints_installed
      <4>. QED
        BY <1>1, <2>1, <2>3, <4>1 DEF NextOK, Falls, Tasks
    <3>4. mode' \in {"wait", "warmup"} /\ Core' /\ Tasks'
      BY <1>1, <1>3, <2>1, <2>2, <2>3, <2>6, <3>1, <3>2, <3>3, Going
    <3>. QED
      BY <1>1, <2>1, <3>4 DEF Inv, Core
  <2>7. CASE mode = "over" /\ command # "cont"
    <3>1. Patched(m) /\ Resume(t, "stepping") /\ mode' = "wait" /\ UNCHANGED <<entries, warmed_up>>
      BY <2>1, <2>7
    <3>2. (user \cup Hidden)' = user \cup Hidden
      BY <1>1, <2>1, <2>3, <2>7, <3>1 DEF Hidden, Hooks, Entries, NextRet, CallsOK
    <3>. QED
      BY <2>4, <3>1, <3>2
  <2>. QED
    BY <1>1, <2>5, <2>6, <2>7
<1>. QED
  BY <1>2, <1>3

LEMMA Waiting ==
    ASSUME Inv, NEW t \in Threads, NEW kinds, kinds \subseteq {"signal", "trap"}, Waits(t, kinds)
    PROVE  /\ Core /\ Tasks /\ mode = "wait" /\ ~exited /\ ~Dead
           /\ Sound(patch, InTable, {})
           /\ user \cup Hooks \cup NextRet \subseteq InTable
           /\ InTable \subseteq user \cup Hooks \cup NextRet \cup left
           /\ run[t] = "stopped" /\ current_tid' = t
           /\ command \in {"cont", "stepi"}
<1>1. mode = "wait" /\ ~Dead /\ report[t] # "none" /\ current_tid' = t
  BY DEF Waits
<1>2. Core /\ Tasks /\ ~exited
  BY <1>1 DEF Inv
<1>3. Held(user \cup Hooks \cup NextRet, {})
  <2>1. user \cup Hidden = user \cup Hooks \cup NextRet /\ Lifted = {}
    BY <1>1 DEF Hidden, Lifted
  <2>2. Held(user \cup Hidden, Lifted)
    BY <1>2 DEF Core
  <2>. QED
    BY <2>1, <2>2
<1>4. command \in {"cont", "stepi"}
  BY <1>1, <1>2 DEF Core, CallsOK
<1>. QED
  BY <1>1, <1>2, <1>3, <1>4, PatchSound DEF Tasks, Held

(* A stop with which the command returns, the hooks being what they were.  *)
LEMMA StoppedWith ==
    ASSUME Inv, NEW t \in Threads, NEW kinds, kinds \subseteq {"signal", "trap"},
           Waits(t, kinds), Consume(t), Return(patch, pending),
           UNCHANGED <<user, exited, entries, enabled>>
    PROVE  Inv'
<1>1. /\ Core /\ Tasks /\ mode = "wait" /\ ~exited /\ ~Dead
      /\ Sound(patch, InTable, {})
      /\ user \cup Hooks \cup NextRet \subseteq InTable
      /\ InTable \subseteq user \cup Hooks \cup NextRet \cup left
      /\ run[t] = "stopped" /\ current_tid' = t
      /\ command \in {"cont", "stepi"}
  BY Waiting
<1>2. Tasks' /\ Falls
  BY <1>1, Consumed
<1>3. /\ ~enabled => pending = Nothing
      /\ left \subseteq DOMAIN pending
      /\ \A a \in DOMAIN pending : \E r : a = RetAt(r)
  BY <1>1 DEF Core, CallsOK
<1>4. mode' = "prompt" /\ Core'
  <2>. DEFINE S == InTable
  <2>1. S \subseteq user \cup NextRet
              \cup (IF enabled THEN Entries(command) \cup DOMAIN pending ELSE {})
    BY <1>1, <1>3 DEF Hooks, Nothing
  <2>2. user \subseteq S /\ Sound(patch, S, {}) /\ command # "none"
    BY <1>1
  <2>. HIDE DEF S
  <2>. QED
    BY <1>1, <1>2, <1>3, <2>1, <2>2, Returning
<1>. QED
  BY <1>1, <1>2, <1>4 DEF Inv, Core

LEMMA WaitStopped == ASSUME Inv, NEW t \in Threads, wait_stopped(t) PROVE Inv'
BY StoppedWith DEF wait_stopped

LEMMA WaitBreakpoint == ASSUME Inv, NEW t \in Threads, wait_breakpoint(t) PROVE Inv'
BY StoppedWith DEF wait_breakpoint, Hit

LEMMA WaitExited == ASSUME Inv, wait_exited PROVE Inv'
<1>1. mode' = "prompt" /\ Tasks' /\ Dead'
  BY DEF wait_exited, AtPromptAgain, Inv, Tasks, tasks, Dead
<1>2. CallsOK /\ command # "none"
  BY DEF wait_exited, Inv, CallsOK
<1>3. CallsOK'
  BY <1>2, Pended DEF wait_exited, CallsOK
<1>. QED
  BY <1>1, <1>3 DEF Inv

(* The entry of an allocator function: the hook on its return address goes *)
(* in, and the breakpoint it stands on is lifted, or the command returns.  *)
LEMMA WaitEntry == ASSUME Inv, NEW t \in Threads, wait_entry(t) PROVE Inv'
<1>. DEFINE e == on_alloc_entry(t)
            Ret == IF Tracked(t) THEN {RetAt(call[t].site)} ELSE {}
            S == InTable \cup Ret
<1>1. /\ Waits(t, {"trap"}) /\ enabled /\ at[t] \in entries /\ at[t] \in InTable
      /\ UNCHANGED <<user, exited, entries, enabled>>
      /\ IF at[t] \in user
         THEN Consume(t) /\ Return(e.patch, e.calls)
         ELSE /\ StepOver(e.patch, t, "hidden") /\ pending' = e.calls
              /\ left' = left \ Ret
              /\ UNCHANGED <<command, next, skip_target>>
  BY DEF wait_entry, Hit, InTable
<1>2. /\ Core /\ Tasks /\ mode = "wait" /\ ~exited /\ ~Dead
      /\ Sound(patch, InTable, {})
      /\ user \cup Hooks \cup NextRet \subseteq InTable
      /\ InTable \subseteq user \cup Hooks \cup NextRet \cup left
      /\ run[t] = "stopped" /\ current_tid' = t
      /\ command \in {"cont", "stepi"}
  BY <1>1, Waiting
<1>3. CallsOK /\ NextOK /\ Hooks = Entries(command) \cup (DOMAIN pending \ left)
  BY <1>1, <1>2 DEF Core, Hooks
<1>4. /\ Sound(e.patch, S, {})
      /\ DOMAIN e.calls = DOMAIN pending \cup Ret
      /\ \A a \in DOMAIN e.calls : \E r : a = RetAt(r)
  <2>. DEFINE r == call[t].site
              calls == IF Tracked(t) THEN Put(pending, RetAt(r), call[t]) ELSE pending
              m     == IF Tracked(t) THEN Install(patch, {RetAt(r)}) ELSE patch
  <2>1. e.calls = calls /\ e.patch = m
    BY DEF on_alloc_entry
  <2>2. CASE Tracked(t)
    <3>1. DOMAIN calls = DOMAIN pending \cup {RetAt(r)}
      BY <2>2 DEF Put
    <3>2. Sound(m, InTable \cup {RetAt(r)}, {})
      BY <1>2, <2>2, Installed
    <3>3. S = InTable \cup {RetAt(r)}
      BY <2>2
    <3>4. Ret = {RetAt(r)}
      BY <2>2
    <3>. HIDE DEF S, Ret
    <3>. QED
      BY <1>3, <2>1, <3>1, <3>2, <3>3, <3>4 DEF CallsOK
  <2>3. CASE ~Tracked(t)
    <3>1. calls = pending /\ m = patch /\ InTable = S /\ Ret = {}
      BY <2>1, <2>3
    <3>. HIDE DEF S, Ret
    <3>. QED
      BY <1>2, <1>3, <2>1, <3>1 DEF CallsOK
  <2>. QED
    BY <2>2, <2>3
<1>. HIDE DEF e
<1>5. CASE at[t] \in user
  <2>1. Consume(t) /\ Return(e.patch, e.calls)
    BY <1>1, <1>5
  <2>2. Tasks' /\ Falls
    BY <1>2, <2>1, Consumed
  <2>3. mode' = "prompt" /\ Core'
    <3>1. S \subseteq user \cup NextRet
                \cup (IF enabled THEN Entries(command) \cup DOMAIN e.calls ELSE {})
      BY <1>1, <1>2, <1>3, <1>4 DEF CallsOK
    <3>2. user \subseteq S /\ command # "none"
      BY <1>2
    <3>. HIDE DEF S
    <3>. QED
      BY <1>1, <1>2, <1>4, <2>1, <2>2, <3>1, <3>2, Returning
  <2>. QED
    BY <1>1, <1>2, <2>2, <2>3 DEF Inv, Core
<1>6. CASE at[t] \notin user
  <2>1. /\ StepOver(e.patch, t, "hidden") /\ pending' = e.calls
        /\ left' = left \ Ret
        /\ UNCHANGED <<command, next, skip_target>>
    BY <1>1, <1>6
  <2>2. at[t] \in S
    BY <1>1
  <2>. HIDE DEF S
  <2>3. /\ Tasks' /\ Falls
        /\ mode' = "hidden" /\ lifted' = at[t]
        /\ Sound(Lift(e.patch, at[t]), S, {at[t]}) /\ Patched(Lift(e.patch, at[t]))
        /\ Alone' => Alone
    BY <1>2, <1>4, <2>1, <2>2, Stepped
  <2>4. /\ (user \cup Hidden)' = user \cup NextRet \cup Entries(command)
                                      \cup (DOMAIN e.calls \ left')
        /\ Lifted' = {at[t]}
    BY <1>1, <2>1, <2>3 DEF Hidden, Lifted, Hooks, Entries, NextRet
  <2>4a. /\ (user \cup Hidden)' \subseteq S /\ S \subseteq (user \cup Hidden \cup left)'
    BY <1>2, <1>3, <1>4, <2>1, <2>4 DEF S
  <2>. HIDE DEF Ret
  <2>5. Held(user \cup Hidden, Lifted)'
    BY <2>3, <2>4, <2>4a, PatchedIn
  <2>6. CallsOK'
    BY <1>1, <1>2, <1>3, <1>4, <2>1, <2>3 DEF CallsOK
  <2>7. NextOK'
    BY <1>1, <1>2, <1>3, <2>1, <2>3 DEF NextOK, Falls, Tasks
  <2>. QED
    BY <1>1, <1>2, <2>3, <2>5, <2>6, <2>7 DEF Inv, Core
<1>. QED
  BY <1>5, <1>6

(* A return address: its hook goes, unless the user has a breakpoint there *)
(* too.                                                                    *)
LEMMA WaitReturn == ASSUME Inv, NEW t \in Threads, wait_return(t) PROVE Inv'
<1>. DEFINE calls == Drop(pending, at[t])
            m == IF at[t] \in user THEN patch ELSE Withdraw(patch, {at[t]}, TRUE)
            S == IF at[t] \in user THEN InTable ELSE InTable \ {at[t]}
<1>1. /\ Waits(t, {"trap"}) /\ enabled /\ at[t] \in DOMAIN pending
      /\ UNCHANGED <<user, exited, entries, enabled>>
      /\ IF at[t] \in user \/ skip_target = at[t]
         THEN Consume(t) /\ Return(m, calls)
         ELSE /\ Patched(m) /\ pending' = calls /\ Resume(t, "running")
              /\ left' = left \ {at[t]}
              /\ UNCHANGED <<mode, lifted, command, next, skip_target>>
  BY DEF wait_return, Hit
<1>2. /\ Core /\ Tasks /\ mode = "wait" /\ ~exited /\ ~Dead
      /\ Sound(patch, InTable, {})
      /\ user \cup Hooks \cup NextRet \subseteq InTable
      /\ InTable \subseteq user \cup Hooks \cup NextRet \cup left
      /\ run[t] = "stopped" /\ current_tid' = t
      /\ command \in {"cont", "stepi"}
  BY <1>1, Waiting
<1>3. CallsOK /\ NextOK /\ Hooks = Entries(command) \cup (DOMAIN pending \ left)
  BY <1>1, <1>2 DEF Core, Hooks
<1>4. DOMAIN calls = DOMAIN pending \ {at[t]} /\ at[t] \notin Entries(command)
  BY <1>1, <1>3, Kinds DEF Drop, CallsOK, Entries
<1>. HIDE DEF calls
<1>5. Sound(m, S, {})
  <2>1. CASE at[t] \in user
    BY <1>2, <2>1
  <2>2. CASE at[t] \notin user
    <3>1. m = Withdraw(patch, {at[t]}, TRUE) /\ S = InTable \ {at[t]}
      BY <2>2
    <3>. HIDE DEF m, S
    <3>. QED
      BY <1>2, <3>1, Withdrawn
  <2>. QED
    BY <2>1, <2>2
<1>. HIDE DEF m
<1>7. CASE at[t] \in user \/ skip_target = at[t]
  <2>1. Consume(t) /\ Return(m, calls)
    BY <1>1, <1>7
  <2>2. Tasks' /\ Falls
    BY <1>2, <2>1, Consumed
  <2>3. mode' = "prompt" /\ Core'
    <3>1. S \subseteq user \cup NextRet
                \cup (IF enabled THEN Entries(command) \cup DOMAIN calls ELSE {})
      BY <1>1, <1>2, <1>3, <1>4 DEF CallsOK
    <3>2. /\ user \subseteq S /\ command # "none"
          /\ \A a \in DOMAIN calls : \E r : a = RetAt(r)
      BY <1>2, <1>3, <1>4 DEF CallsOK
    <3>. HIDE DEF S
    <3>. QED
      BY <1>1, <1>2, <1>5, <2>1, <2>2, <3>1, <3>2, Returning
  <2>. QED
    BY <1>1, <1>2, <2>2, <2>3 DEF Inv, Core
<1>8. CASE ~(at[t] \in user \/ skip_target = at[t])
  <2>1. /\ Patched(m) /\ pending' = calls /\ Resume(t, "running")
        /\ left' = left \ {at[t]}
        /\ UNCHANGED <<mode, lifted, command, next, skip_target>>
    BY <1>1, <1>8
  <2>2. Tasks' /\ Falls
    BY <1>2, <2>1, Resumed DEF Tasks
  <2>3. Alone' => Alone
    BY <2>2, AloneFalls
  <2>4. at[t] \notin NextRet
    BY <1>3, <1>8 DEF NextRet, NextOK
  <2>5. /\ (user \cup Hidden)' \subseteq S /\ S \subseteq (user \cup Hidden \cup left)'
        /\ Lifted' = {}
    <3>2. (user \cup Hidden)' = user \cup NextRet \cup Entries(command)
                                     \cup (DOMAIN calls \ left')
      BY <1>1, <1>2, <2>1 DEF Hidden, Hooks, NextRet, Entries
    <3>3. Lifted' = {}
      BY <1>2, <2>1 DEF Lifted
    <3>. QED
      BY <1>2, <1>3, <1>4, <1>8, <2>1, <2>4, <3>2, <3>3
  <2>. HIDE DEF S
  <2>6. Held(user \cup Hidden, Lifted)'
    BY <1>5, <2>1, <2>3, <2>5, PatchedIn
  <2>7. CallsOK'
    BY <1>1, <1>2, <1>3, <1>4, <2>1 DEF CallsOK
  <2>8. NextOK'
    BY <1>1, <1>2, <1>3, <2>1, <2>2 DEF NextOK, Falls, Tasks
  <2>. QED
    BY <1>1, <1>2, <2>1, <2>2, <2>6, <2>7, <2>8 DEF Inv, Core
<1>. QED
  BY <1>7, <1>8

-----------------------------------------------------------------------------
(* The theorems.                                                           *)

LEMMA InvInit == Init => Inv
<1>. SUFFICES ASSUME Init PROVE Inv
  OBVIOUS
<1>1. Tasks
  BY LeakAssumption DEF Init, Tasks, Dead, Ends
<1>2. Held(user \cup Hidden, Lifted)
  BY DEF Init, Held, InTable, Hidden, Lifted, Nothing
<1>3. CallsOK /\ NextOK
  BY DEF Init, CallsOK, NextOK, Nothing
<1>. QED
  BY <1>1, <1>2, <1>3 DEF Init, Inv, Core

LEMMA InvStep == Inv /\ [Next]_vars => Inv'
<1>. SUFFICES ASSUME Inv, [Next]_vars PROVE Inv'
  OBVIOUS
<1>1. CASE Program
  BY <1>1, ProgramStep
<1>2. CASE Command
  BY <1>2, SetLeakTracking, InstallBreakpoint, DeleteBreakpoint, SwitchThread, Continue,
     NextInstruction, StepInstruction DEF Command
<1>3. CASE Wait
  BY <1>3, WarmUp, StepOverEnds, WaitExited, WaitStopped, WaitBreakpoint, WaitEntry,
     WaitReturn DEF Wait
<1>4. CASE UNCHANGED vars
  <2>1. Tasks' /\ Falls /\ (Dead => Dead')
    BY <1>4 DEF vars, tasks, Inv, Tasks, Falls, Dead
  <2>. QED
    BY <1>4, <2>1, LeftAlone DEF vars, patches, tracker, control, ghosts
<1>. QED
  BY <1>1, <1>2, <1>3, <1>4 DEF Next

(* Whatever number of threads calls the allocator, and wherever the user   *)
(* has breakpoints, while the program runs on the hooks on the allocator's *)
(* entries, under continue, and on the return of every call that pends     *)
(* since are in the table and in memory                                    *)
(* (ensure_leak_breakpoints_installed, handle_leak_breakpoint).            *)
THEOREM HooksStayArmed == Spec => []HooksArmed
<1>1. Inv => HooksArmed
  <2>. SUFFICES ASSUME Inv, mode = "wait", enabled
                PROVE  Entries(command) \cup (DOMAIN pending \ left)
                           \subseteq memory \cap DOMAIN breakpoints
    BY DEF HooksArmed, Entries
  <2>1. Held(user \cup Hidden, Lifted)
    BY DEF Inv, Core
  <2>2. Entries(command) \cup (DOMAIN pending \ left) \subseteq Hidden /\ Lifted = {}
    BY DEF Hidden, Lifted, Hooks
  <2>. QED
    BY <2>1, <2>2 DEF Held, InTable
<1>. QED
  BY <1>1, InvInit, InvStep, PTL DEF Spec

(* Whatever continue, nexti and stepi went through, at the prompt of a     *)
(* program that lives the table holds the user's breakpoints and no other  *)
(* but return hooks of stepi, whose calls pend, and with one thread so     *)
(* does memory (uninstall_leak_breakpoints, nexti, stepi).                 *)
THEOREM HooksAreWithdrawn == Spec => []HooksWithdrawn
<1>1. Inv => HooksWithdrawn
  <2>. SUFFICES ASSUME Inv, mode = "prompt", ~Dead
                PROVE  /\ user \subseteq DOMAIN breakpoints
                       /\ DOMAIN breakpoints \subseteq user \cup left
                       /\ DOMAIN pending = left
                       /\ DOMAIN breakpoints \subseteq memory
                       /\ Alone => memory = DOMAIN breakpoints
    BY DEF HooksWithdrawn
  <2>1. Held(user, {}) /\ DOMAIN pending = left
    BY AtThePrompt
  <2>. QED
    BY <2>1 DEF Held, InTable
<1>. QED
  BY <1>1, InvInit, InvStep, PTL DEF Spec

-----------------------------------------------------------------------------
(* Types.  A call is what its thread stands in, from the entry to the      *)
(* return address.                                                         *)

Standing(t) ==
    \/ /\ at[t] \in {Loader, Start} \cup {CallAt(r) : r \in Sites}
       /\ call[t] = None
    \/ /\ call[t] \in Calls /\ (call[t].fn = "malloc" => call[t].ptr = Null)
       /\ at[t] \in {Entry(call[t].fn), Inside(call[t].fn), RetAt(call[t].site)}

Placed == \A t \in Threads : Standing(t) /\ (run[t] = "unborn" => at[t] = Loader)

(* The parts of TypeOK, and that no call of free waits for its return.     *)
ProgramTyped ==
    /\ at \in [Threads -> Places] /\ call \in [Threads -> Calls \cup {None}]
    /\ rax \in [Threads -> Ptrs \cup {Null}] /\ heap \in Ledgers
    /\ behind \subseteq Ptrs /\ seen \subseteq Threads

TasksTyped ==
    /\ run \in [Threads -> {"unborn", "running", "stepping", "stopped"} \cup Ends]
    /\ report \in [Threads -> {"none", "trap", "signal"}]
    /\ past \in [Threads -> BOOLEAN]

PatchTyped(m) ==
    /\ DOMAIN m.table \subseteq Places /\ m.table \in [DOMAIN m.table -> BOOLEAN]
    /\ m.int3 \subseteq Places
    /\ m = [table |-> m.table, int3 |-> m.int3]

CallsTyped(calls) ==
    /\ DOMAIN calls \subseteq {RetAt(r) : r \in Sites}
    /\ \A a \in DOMAIN calls : /\ calls[a] \in Calls /\ RetAt(calls[a].site) = a
                               /\ calls[a].fn # "free"

LedgerTyped == live \in Ledgers /\ CallsTyped(pending) /\ left \subseteq DOMAIN pending

ControlTyped ==
    /\ current_tid \in Threads /\ exited \in BOOLEAN
    /\ skip_target \in Places \cup {None}
    /\ enabled \in BOOLEAN /\ warmed_up \in BOOLEAN
    /\ entries \in {{}, {Entry(f) : f \in Fns}}
    /\ mode \in {"prompt", "warmup", "over", "hidden", "wait"} /\ lifted \in Places \cup {None}
    /\ command \in {"none", "cont", "stepi"}
    /\ next \in {None} \cup Steps

Typed ==
    /\ ProgramTyped /\ TasksTyped /\ PatchTyped(patch) /\ LedgerTyped /\ ControlTyped
    /\ user \subseteq BreakAddrs /\ toggles \in 0 .. MaxToggles

LEMMA TypedIs == Typed => TypeOK
BY DEF Typed, TypeOK, ProgramTyped, TasksTyped, PatchTyped, LedgerTyped, CallsTyped,
       ControlTyped, patch

LEMMA PlacesApart ==
    /\ Loader # Start
    /\ \A x : /\ Loader \notin {Entry(x), Inside(x), CallAt(x), RetAt(x)}
              /\ Start \notin {Entry(x), Inside(x), CallAt(x), RetAt(x)}
    /\ \A x, y : /\ Entry(x) # Inside(y) /\ Entry(x) # CallAt(y) /\ Entry(x) # RetAt(y)
                 /\ Inside(x) # CallAt(y) /\ Inside(x) # RetAt(y) /\ CallAt(x) # RetAt(y)
                 /\ Entry(x) = Entry(y) => x = y
                 /\ Inside(x) = Inside(y) => x = y
                 /\ RetAt(x) = RetAt(y) => x = y
BY DEF Loader, Start, Entry, Inside, CallAt, RetAt

LEMMA PlacesAre ==
    /\ Loader \in Places /\ Start \in Places
    /\ \A f \in Fns : Entry(f) \in Places /\ Inside(f) \in Places
    /\ \A r \in Sites : CallAt(r) \in Places /\ RetAt(r) \in Places
BY DEF Places

(* A ledger with an entry more or less.                                    *)
LEMMA LedgerIs ==
    ASSUME NEW f PROVE f \in Ledgers <=> DOMAIN f \subseteq Ptrs /\ f \in [DOMAIN f -> Blocks]
<1>1. ASSUME f \in Ledgers PROVE DOMAIN f \subseteq Ptrs /\ f \in [DOMAIN f -> Blocks]
  <2>1. PICK P \in SUBSET Ptrs : f \in [P -> Blocks]
    BY <1>1 DEF Ledgers
  <2>. QED
    BY <2>1
<1>2. ASSUME DOMAIN f \subseteq Ptrs, f \in [DOMAIN f -> Blocks] PROVE f \in Ledgers
  <2>. DEFINE P == DOMAIN f
  <2>1. P \in SUBSET Ptrs /\ f \in [P -> Blocks]
    BY <1>2
  <2>. HIDE DEF P
  <2>. QED
    BY <2>1 DEF Ledgers
<1>. QED
  BY <1>1, <1>2

LEMMA Dropped ==
    ASSUME NEW f, NEW x
    PROVE  /\ DOMAIN Drop(f, x) = DOMAIN f \ {x}
           /\ \A y \in DOMAIN f \ {x} : Drop(f, x)[y] = f[y]
           /\ f \in Ledgers => Drop(f, x) \in Ledgers
<1>1. /\ DOMAIN Drop(f, x) = DOMAIN f \ {x}
      /\ \A y \in DOMAIN f \ {x} : Drop(f, x)[y] = f[y]
  BY DEF Drop
<1>2. Drop(f, x) = [y \in DOMAIN Drop(f, x) |-> Drop(f, x)[y]]
  BY DEF Drop
<1>3. ASSUME f \in Ledgers PROVE Drop(f, x) \in Ledgers
  <2>1. DOMAIN f \subseteq Ptrs /\ \A y \in DOMAIN f : f[y] \in Blocks
    BY <1>3, LedgerIs
  <2>2. DOMAIN Drop(f, x) \subseteq Ptrs /\ \A y \in DOMAIN Drop(f, x) : Drop(f, x)[y] \in Blocks
    BY <1>1, <2>1
  <2>. QED
    BY <1>2, <2>2, LedgerIs
<1>. QED
  BY <1>1, <1>3

LEMMA Putting ==
    ASSUME NEW f, NEW x, NEW v
    PROVE  /\ DOMAIN Put(f, x, v) = DOMAIN f \cup {x} /\ Put(f, x, v)[x] = v
           /\ \A y \in DOMAIN f \ {x} : Put(f, x, v)[y] = f[y]
           /\ f \in Ledgers /\ x \in Ptrs /\ v \in Blocks => Put(f, x, v) \in Ledgers
<1>1. /\ DOMAIN Put(f, x, v) = DOMAIN f \cup {x} /\ Put(f, x, v)[x] = v
      /\ \A y \in DOMAIN f \ {x} : Put(f, x, v)[y] = f[y]
  BY DEF Put
<1>2. Put(f, x, v) = [y \in DOMAIN Put(f, x, v) |-> Put(f, x, v)[y]]
  BY DEF Put
<1>3. ASSUME f \in Ledgers, x \in Ptrs, v \in Blocks PROVE Put(f, x, v) \in Ledgers
  <2>1. DOMAIN f \subseteq Ptrs /\ \A y \in DOMAIN f : f[y] \in Blocks
    BY <1>3, LedgerIs
  <2>2. /\ DOMAIN Put(f, x, v) \subseteq Ptrs
        /\ \A y \in DOMAIN Put(f, x, v) : Put(f, x, v)[y] \in Blocks
    BY <1>1, <1>3, <2>1
  <2>. QED
    BY <1>2, <2>2, LedgerIs
<1>. QED
  BY <1>1, <1>3

(* The operations on a table and a memory stay among the places.           *)
LEMMA MadeTyped ==
    ASSUME NEW tb, NEW i, DOMAIN tb \subseteq Places, tb \in [DOMAIN tb -> BOOLEAN],
           i \subseteq Places
    PROVE  PatchTyped([table |-> tb, int3 |-> i])
<1>. DEFINE m == [table |-> tb, int3 |-> i]
<1>1. m.table = tb /\ m.int3 = i
  OBVIOUS
<1>2. m = [table |-> m.table, int3 |-> m.int3]
  BY <1>1
<1>. HIDE DEF m
<1>3. PatchTyped(m)
  BY <1>1, <1>2 DEF PatchTyped
<1>. QED
  BY <1>3 DEF m

LEMMA PatchesTyped ==
    ASSUME NEW m, PatchTyped(m)
    PROVE  /\ \A A : A \subseteq Places => PatchTyped(Install(m, A))
           /\ \A A : \A w \in BOOLEAN : PatchTyped(Withdraw(m, A, w))
           /\ \A a : PatchTyped(Lift(m, a)) /\ PatchTyped(Relower(m, a))
<1>0. /\ DOMAIN m.table \subseteq Places /\ m.table \in [DOMAIN m.table -> BOOLEAN]
      /\ m.int3 \subseteq Places /\ m = [table |-> m.table, int3 |-> m.int3]
  BY DEF PatchTyped
<1>1. ASSUME NEW A, A \subseteq Places PROVE PatchTyped(Install(m, A))
  <2>. DEFINE D  == DOMAIN m.table \cup A
              tb == [a \in D |-> IF a \in DOMAIN m.table THEN m.table[a] ELSE a \in m.int3]
              i  == m.int3 \cup (A \ DOMAIN m.table)
  <2>1. Install(m, A) = [table |-> tb, int3 |-> i]
    BY DEF Install
  <2>2. D \subseteq Places /\ i \subseteq Places
    BY <1>0, <1>1
  <2>3. tb \in [D -> BOOLEAN]
    <3>1. ASSUME NEW a \in D
          PROVE  (IF a \in DOMAIN m.table THEN m.table[a] ELSE a \in m.int3) \in BOOLEAN
      <4>1. (a \in m.int3) \in BOOLEAN
        OBVIOUS
      <4>2. a \in DOMAIN m.table => m.table[a] \in BOOLEAN
        BY <1>0
      <4>3. CASE a \in DOMAIN m.table
        BY <4>2, <4>3, Zenon
      <4>4. CASE a \notin DOMAIN m.table
        BY <4>1, <4>4, Zenon
      <4>. QED
        BY <4>3, <4>4
    <3>. HIDE DEF D
    <3>. QED
      BY <3>1
  <2>. HIDE DEF D, tb, i
  <2>. QED
    BY <2>1, <2>2, <2>3, MadeTyped
<1>2. ASSUME NEW A, NEW w \in BOOLEAN PROVE PatchTyped(Withdraw(m, A, w))
  <2>. DEFINE tb == [a \in DOMAIN m.table \ A |-> m.table[a]]
              i  == IF w THEN Restored(m, A) ELSE m.int3
  <2>1. Withdraw(m, A, w) = [table |-> tb, int3 |-> i]
    BY DEF Withdraw
  <2>2. i \subseteq Places
    BY <1>0 DEF Restored
  <2>3. DOMAIN tb \subseteq Places /\ tb \in [DOMAIN tb -> BOOLEAN]
    BY <1>0
  <2>. HIDE DEF tb, i
  <2>. QED
    BY <2>1, <2>2, <2>3, MadeTyped
<1>3. ASSUME NEW a PROVE PatchTyped(Lift(m, a)) /\ PatchTyped(Relower(m, a))
  <2>1. Lift(m, a) = [table |-> m.table, int3 |-> Restored(m, {a})]
    BY <1>0 DEF Lift
  <2>2. Restored(m, {a}) \subseteq Places
    BY <1>0 DEF Restored
  <2>3. PatchTyped(Lift(m, a))
    BY <1>0, <2>1, <2>2, MadeTyped
  <2>4. CASE a \in DOMAIN m.table
    <3>1. Relower(m, a) = [table |-> m.table, int3 |-> m.int3 \cup {a}]
      BY <1>0, <2>4 DEF Relower
    <3>2. m.int3 \cup {a} \subseteq Places
      BY <1>0, <2>4
    <3>. QED
      BY <1>0, <2>3, <3>1, <3>2, MadeTyped
  <2>5. CASE a \notin DOMAIN m.table
    BY <2>3, <2>5 DEF Relower
  <2>. QED
    BY <2>3, <2>4, <2>5
<1>. QED
  BY <1>1, <1>2, <1>3

(* What is patched in is typed.                                            *)
LEMMA PatchedTypes == ASSUME NEW m, PatchTyped(m), Patched(m) PROVE PatchTyped(patch)'
BY MadeTyped DEF PatchTyped, Patched, patch

(* What the allocator returns.                                             *)
LEMMA Gotten ==
    ASSUME Typed, NEW t \in Threads, NEW p \in Ptrs \cup {Null}, Gets(t, p),
           call[t] \in Calls, call[t].fn # "free",
           call[t].fn = "malloc" => call[t].ptr = Null
    PROVE  /\ heap' \in Ledgers
           /\ \A q \in Ptrs \ Changed(call[t], p) :
                  /\ q \in DOMAIN heap' <=> q \in DOMAIN heap
                  /\ q \in DOMAIN heap => heap'[q] = heap[q]
           /\ p # Null => p \in DOMAIN heap' /\ heap'[p] = Block(call[t])
           /\ p # Null \/ (call[t].fn = "realloc" /\ call[t].size = 0) =>
                  \A q \in {call[t].ptr} \ {p} : q \notin DOMAIN heap'
<1>. DEFINE c == call[t]
<1>1. /\ heap \in Ledgers /\ Null \notin Ptrs /\ c.ptr \in Ptrs \cup {Null}
      /\ c.fn \in {"malloc", "realloc"} /\ Block(c) \in Blocks /\ DOMAIN heap \subseteq Ptrs
  <2>1. heap \in Ledgers
    BY DEF Typed, ProgramTyped
  <2>. QED
    BY <2>1, LedgerIs, LeakAssumption DEF Calls, Fns, Block, Blocks
<1>2. CASE c.fn = "realloc" /\ c.ptr # Null
  <2>. DEFINE kept == Drop(heap, c.ptr)
  <2>1. heap' = IF p # Null THEN Put(kept, p, Block(c))
                ELSE IF c.size = 0 THEN kept ELSE heap
    BY <1>2 DEF Gets
  <2>2. /\ DOMAIN kept = DOMAIN heap \ {c.ptr}
        /\ \A q \in DOMAIN heap \ {c.ptr} : kept[q] = heap[q]
        /\ kept \in Ledgers
    BY <1>1, Dropped
  <2>. HIDE DEF kept
  <2>3. CASE p # Null
    <3>1. p \in Ptrs /\ heap' = Put(kept, p, Block(c))
      BY <2>1, <2>3
    <3>2. /\ DOMAIN heap' = DOMAIN kept \cup {p} /\ heap'[p] = Block(c)
          /\ \A q \in DOMAIN kept \ {p} : heap'[q] = kept[q]
          /\ heap' \in Ledgers
      <4>. DEFINE b == Block(c)
      <4>1. b \in Blocks /\ p \in Ptrs /\ kept \in Ledgers /\ heap' = Put(kept, p, b)
        BY <1>1, <2>2, <3>1
      <4>. HIDE DEF b
      <4>2. /\ DOMAIN Put(kept, p, b) = DOMAIN kept \cup {p} /\ Put(kept, p, b)[p] = b
            /\ \A q \in DOMAIN kept \ {p} : Put(kept, p, b)[q] = kept[q]
        BY DEF Put
      <4>3. Put(kept, p, b) \in Ledgers
        BY <4>1, Putting
      <4>. QED
        BY <4>1, <4>2, <4>3 DEF b
    <3>3. Changed(c, p) = {p, c.ptr}
      BY <1>1, <1>2, <3>1 DEF Changed
    <3>. QED
      BY <1>1, <2>2, <2>3, <3>2, <3>3
  <2>4. CASE p = Null /\ c.size = 0
    <3>1. Changed(c, p) = {c.ptr} /\ heap' = kept
      BY <1>2, <2>1, <2>4 DEF Changed
    <3>. QED
      BY <2>2, <2>4, <3>1
  <2>5. CASE p = Null /\ c.size # 0
    BY <1>1, <2>1, <2>5
  <2>. QED
    BY <2>3, <2>4, <2>5
<1>3. CASE ~(c.fn = "realloc" /\ c.ptr # Null)
  <2>1. c.ptr = Null /\ heap' = IF p # Null THEN Put(heap, p, Block(c)) ELSE heap
    BY <1>1, <1>3 DEF Gets
  <2>2. CASE p # Null
    <3>1. p \in Ptrs /\ heap' = Put(heap, p, Block(c))
      BY <2>1, <2>2
    <3>2. /\ DOMAIN heap' = DOMAIN heap \cup {p} /\ heap'[p] = Block(c)
          /\ \A q \in DOMAIN heap \ {p} : heap'[q] = heap[q]
          /\ heap' \in Ledgers
      <4>. DEFINE b == Block(c)
      <4>1. b \in Blocks /\ p \in Ptrs /\ heap \in Ledgers /\ heap' = Put(heap, p, b)
        BY <1>1, <3>1
      <4>. HIDE DEF b
      <4>2. /\ DOMAIN Put(heap, p, b) = DOMAIN heap \cup {p} /\ Put(heap, p, b)[p] = b
            /\ \A q \in DOMAIN heap \ {p} : Put(heap, p, b)[q] = heap[q]
        BY DEF Put
      <4>3. Put(heap, p, b) \in Ledgers
        BY <4>1, Putting
      <4>. QED
        BY <4>1, <4>2, <4>3 DEF b
    <3>3. p \in Changed(c, p)
      BY <2>2 DEF Changed
    <3>. QED
      BY <1>1, <2>1, <2>2, <3>2, <3>3
  <2>3. CASE p = Null
    BY <1>1, <2>1, <2>3
  <2>. QED
    BY <2>2, <2>3
<1>. QED
  BY <1>2, <1>3

(* The program: a thread goes from place to place, in its call.            *)
LEMMA ProgramTypes == ASSUME Typed, Placed, Program PROVE Typed' /\ Placed'
<1>1. /\ ProgramTyped /\ TasksTyped
      /\ \A t \in Threads : Standing(t) /\ (run[t] = "unborn" => at[t] = Loader)
  BY DEF Typed, Placed
<1>2. ASSUME ProgramTyped', TasksTyped' PROVE Typed'
  <2>1. UNCHANGED <<patches, current_tid, exited, tracker, control, toggles, left>>
    BY Kept DEF Program
  <2>. QED
    BY <1>2, <2>1
       DEF Typed, PatchTyped, LedgerTyped, CallsTyped, ControlTyped, patch, patches, tracker, control
<1>3. ASSUME NEW t \in Threads, NEW x \in Places, Executes(t, x)
      PROVE  /\ TasksTyped' /\ at' = [at EXCEPT ![t] = x] /\ run[t] \in {"running", "stepping"}
             /\ \A u \in Threads : run'[u] = "unborn" => run[u] = "unborn" /\ u # t
  BY <1>1, <1>3 DEF Executes, Runs, TasksTyped
<1>4. ASSUME NEW t \in Threads, NEW x \in Places, Executes(t, x),
             call' = [call EXCEPT ![t] = call'[t]], call'[t] \in Calls \cup {None},
             rax' \in [Threads -> Ptrs \cup {Null}], heap' \in Ledgers,
             behind' \subseteq Ptrs, seen' \subseteq Threads,
             Standing(t)'
      PROVE  Typed' /\ Placed'
  <2>1. ProgramTyped' /\ TasksTyped'
    BY <1>1, <1>3, <1>4 DEF ProgramTyped
  <2>2. Placed'
    <3>1. \A u \in Threads \ {t} : at'[u] = at[u] /\ call'[u] = call[u]
      BY <1>1, <1>3, <1>4 DEF ProgramTyped
    <3>2. \A u \in Threads \ {t} : Standing(u)' <=> Standing(u)
      BY <3>1 DEF Standing
    <3>. QED
      BY <1>1, <1>3, <1>4, <3>1, <3>2 DEF Placed
  <2>. QED
    BY <1>2, <2>1, <2>2
<1>5. ASSUME NEW t \in Threads, Load(t) PROVE Typed' /\ Placed'
  <2>1. Executes(t, Start) /\ UNCHANGED <<call, rax, heap, behind, seen>> /\ at[t] = Loader
    BY <1>5 DEF Load, ghosts
  <2>2. call[t] = None
    BY <1>1, <2>1, PlacesApart DEF Standing
  <2>3. Standing(t)'
    BY <1>1, <1>3, <2>1, <2>2, PlacesAre DEF Standing, ProgramTyped
  <2>. QED
    BY <1>1, <1>4, <2>1, <2>3, PlacesAre DEF ProgramTyped
<1>6. ASSUME NEW t \in Threads, GoesOn(t) PROVE Typed' /\ Placed'
  <2>1. PICK r \in Sites : Executes(t, CallAt(r))
    BY <1>6 DEF GoesOn
  <2>2. /\ call' = [call EXCEPT ![t] = None] /\ rax' = [rax EXCEPT ![t] = Null]
        /\ UNCHANGED <<heap, behind, seen>>
    BY <1>6 DEF GoesOn, ghosts
  <2>3. Standing(t)'
    BY <1>1, <1>3, <2>1, <2>2, PlacesAre DEF Standing, ProgramTyped
  <2>. QED
    BY <1>1, <1>4, <2>1, <2>2, <2>3, PlacesAre DEF ProgramTyped
<1>7. ASSUME NEW t \in Threads, CallsAllocator(t) PROVE Typed' /\ Placed'
  <2>1. PICK r \in Sites, f \in Fns, size \in Sizes, ptr \in Ptrs \cup {Null} :
            /\ f = "malloc" => ptr = Null
            /\ Executes(t, Entry(f))
            /\ call' = [call EXCEPT ![t] = [fn |-> f, size |-> size, ptr |-> ptr, site |-> r]]
            /\ UNCHANGED <<rax, heap, ghosts>>
    BY <1>7 DEF CallsAllocator
  <2>2. /\ call'[t] = [fn |-> f, size |-> size, ptr |-> ptr, site |-> r] /\ call'[t] \in Calls
        /\ at'[t] = Entry(f)
    BY <1>1, <1>3, <2>1, PlacesAre DEF ProgramTyped, Calls
  <2>3. Standing(t)'
    BY <2>1, <2>2 DEF Standing
  <2>. QED
    BY <1>1, <1>4, <2>1, <2>2, <2>3, PlacesAre DEF ProgramTyped, ghosts
<1>8. ASSUME NEW t \in Threads, Enters(t) PROVE Typed' /\ Placed'
  <2>1. PICK f \in Fns : at[t] = Entry(f) /\ Executes(t, Inside(f))
    BY <1>8 DEF Enters
  <2>2. UNCHANGED <<call, rax, heap, behind, seen>>
    BY <1>8 DEF Enters, ghosts
  <2>3. call[t] \in Calls /\ call[t].fn = f /\ (call[t].fn = "malloc" => call[t].ptr = Null)
    BY <1>1, <2>1, PlacesApart DEF Standing
  <2>4. Standing(t)'
    BY <1>1, <1>3, <2>1, <2>2, <2>3, PlacesAre DEF Standing, ProgramTyped
  <2>. QED
    BY <1>1, <1>4, <2>1, <2>2, <2>4, PlacesAre DEF ProgramTyped
<1>9. ASSUME NEW t \in Threads, Returns(t) PROVE Typed' /\ Placed'
  <2>. DEFINE c == call[t]
  <2>1. PICK f \in Fns : at[t] = Inside(f)
    BY <1>9 DEF Returns
  <2>2. c \in Calls /\ c.fn = f /\ (c.fn = "malloc" => c.ptr = Null)
    BY <1>1, <2>1, PlacesApart DEF Standing
  <2>3. c.ptr \in Ptrs \cup {Null} /\ c.site \in Sites
    BY <2>2 DEF Calls
  <2>4. Executes(t, RetAt(c.site)) /\ UNCHANGED call
    BY <1>9 DEF Returns
  <2>5. Standing(t)'
    BY <1>1, <1>3, <2>2, <2>3, <2>4, PlacesAre DEF Standing, ProgramTyped
  <2>6. DOMAIN heap \subseteq Ptrs
    BY <1>1, LedgerIs DEF ProgramTyped
  <2>7. CASE c.fn = "free"
    <3>1. heap' = Drop(heap, c.ptr) /\ behind' \subseteq behind \cup DOMAIN heap
          /\ seen' \subseteq seen /\ UNCHANGED rax
      BY <1>9, <2>7 DEF Returns
    <3>2. heap' \in Ledgers
      BY <1>1, <3>1, Dropped DEF ProgramTyped
    <3>. QED
      BY <1>1, <1>4, <2>3, <2>4, <2>5, <2>6, <3>1, <3>2, PlacesAre DEF ProgramTyped
  <2>8. CASE c.fn # "free"
    <3>1. PICK p \in Ptrs \cup {Null} : /\ Gets(t, p) /\ rax' = [rax EXCEPT ![t] = p]
                                        /\ behind' = behind \cup Changed(c, p)
                                        /\ UNCHANGED seen
      BY <1>9, <2>8 DEF Returns
    <3>2. heap' \in Ledgers
      BY <2>2, <2>8, <3>1, Gotten
    <3>3. Changed(c, p) \subseteq Ptrs
      BY <2>3 DEF Changed
    <3>. QED
      BY <1>1, <1>4, <2>3, <2>4, <2>5, <3>1, <3>2, <3>3, PlacesAre DEF ProgramTyped
  <2>. QED
    BY <2>7, <2>8
<1>10. ASSUME UNCHANGED <<program, behind, seen>>, TasksTyped',
              \A u \in Threads : run'[u] = "unborn" => run[u] = "unborn"
       PROVE  Typed' /\ Placed'
  BY <1>1, <1>2, <1>10 DEF ProgramTyped, Placed, Standing, program
<1>11. ASSUME NEW t \in Threads, NEW end \in Ends,
              HitsInt3(t) \/ Interrupted(t) \/ Exits(t, end)
       PROVE  Typed' /\ Placed'
  <2>1. TasksTyped' /\ \A u \in Threads : run'[u] = "unborn" => run[u] = "unborn"
    BY <1>1, <1>11 DEF HitsInt3, Interrupted, Exits, TasksTyped, Ends
  <2>. QED
    BY <1>10, <1>11, <2>1 DEF HitsInt3, Interrupted, Exits, ghosts
<1>12. ASSUME NEW t \in Threads, NEW u \in Threads, Spawns(t, u) PROVE Typed' /\ Placed'
  <2>1. PICK r \in Sites : at[t] = CallAt(r)
    BY <1>12 DEF Spawns
  <2>2. /\ run[u] = "unborn" /\ run' = [run EXCEPT ![t] = "running", ![u] = "running"]
        /\ at' = [at EXCEPT ![u] = CallAt(r)]
        /\ UNCHANGED <<call, rax, heap, report, past, behind, seen>>
    BY <1>12, <2>1 DEF Spawns, ghosts
  <2>3. ProgramTyped' /\ TasksTyped'
    BY <1>1, <2>2, PlacesAre DEF ProgramTyped, TasksTyped
  <2>4. call[u] = None
    BY <1>1, <2>2, PlacesApart DEF Standing
  <2>5. Placed'
    <3>1. \A v \in Threads \ {u} : at'[v] = at[v] /\ (run'[v] = run[v] \/ run'[v] = "running")
      BY <1>1, <2>2 DEF ProgramTyped, TasksTyped
    <3>2. \A v \in Threads \ {u} : Standing(v)' <=> Standing(v)
      BY <2>2, <3>1 DEF Standing
    <3>3. Standing(u)' /\ run'[u] # "unborn"
      BY <1>1, <2>2, <2>4 DEF Standing, ProgramTyped, TasksTyped
    <3>. QED
      BY <1>1, <3>1, <3>2, <3>3 DEF Placed
  <2>. QED
    BY <1>2, <2>3, <2>5
<1>. QED
  BY <1>5, <1>6, <1>7, <1>8, <1>9, <1>11, <1>12 DEF Program, Ends

(* The rest is tdb: it moves no thread, and returns from a command or goes *)
(* on with it.                                                             *)
LEMMA TdbTypes ==
    ASSUME Typed, Placed, UNCHANGED program, Falls, TasksTyped',
           behind' \subseteq Ptrs, seen' \subseteq Threads,
           PatchTyped(patch)', LedgerTyped', ControlTyped',
           user' \subseteq BreakAddrs, toggles' \in 0 .. MaxToggles
    PROVE  Typed' /\ Placed'
<1>1. ProgramTyped'
  BY DEF Typed, ProgramTyped, program
<1>2. Placed'
  BY DEF Placed, Standing, Falls, program
<1>. QED
  BY <1>1, <1>2 DEF Typed

LEMMA ResumeTypes ==
    ASSUME TasksTyped, NEW t \in Threads,
           Consume(t) \/ \E how \in {"running", "stepping"} : Resume(t, how),
           past' \in [Threads -> BOOLEAN]
    PROVE  TasksTyped' /\ Falls
BY DEF TasksTyped, Falls, Consume, Resume

LEMMA UnpastTypes ==
    ASSUME TasksTyped, NEW t \in Threads, NEW b \in BOOLEAN, past' = [past EXCEPT ![t] = b]
    PROVE  past' \in [Threads -> BOOLEAN]
BY DEF TasksTyped

(* What is left in the table and of the calls.                             *)
LEMMA RestTypes ==
    ASSUME NEW m, NEW calls, PatchTyped(m), CallsTyped(calls), Pends(calls)
    PROVE  /\ PatchTyped(Rest(m, calls))
           /\ CallsTyped(pending)' /\ left' \subseteq DOMAIN pending'
<1>. DEFINE A == (entries \cup DOMAIN calls) \ user
            w == ~Dead
<1>1. w \in BOOLEAN
  BY DEF Dead
<1>2. Rest(m, calls) = IF Unhooks THEN Withdraw(m, A, w) ELSE m
  BY DEF Rest, uninstall_leak_breakpoints
<1>. HIDE DEF w, A
<1>3. PatchTyped(Rest(m, calls))
  BY <1>1, <1>2, PatchesTyped
<1>4. CallsTyped(pending)' /\ left' \subseteq DOMAIN pending'
  BY DEF CallsTyped, Nothing, Pends, Unhooks
<1>. QED
  BY <1>3, <1>4

LEMMA ReturnTypes ==
    ASSUME NEW m, NEW calls, PatchTyped(m), CallsTyped(calls),
           Return(m, calls) \/ Fail(m, calls)
    PROVE  /\ PatchTyped(patch)' /\ CallsTyped(pending)' /\ left' \subseteq DOMAIN pending'
           /\ AtPromptAgain /\ skip_target' \in {None, skip_target}
<1>. DEFINE rest == Rest(m, calls)
            v    == Stopped(next.tid)
            last == IF next # None /\ ~next.had /\ ~Dead THEN Withdraw(rest, {next.ret}, v) ELSE rest
<1>1. /\ Patched(last) \/ Patched(rest)
      /\ Pends(calls) /\ AtPromptAgain /\ skip_target' \in {None, skip_target}
  BY DEF Return, Fail
<1>2. v \in BOOLEAN
  BY DEF Stopped
<1>. HIDE DEF v, rest
<1>3. PatchTyped(rest) /\ CallsTyped(pending)' /\ left' \subseteq DOMAIN pending'
  BY <1>1, RestTypes DEF rest
<1>4. PatchTyped(last)
  BY <1>2, <1>3, PatchesTyped
<1>. HIDE DEF last
<1>5. PatchTyped(patch)'
  BY <1>1, <1>3, <1>4, PatchedTypes
<1>. QED
  BY <1>1, <1>3, <1>5

LEMMA EntriesAre ==
    /\ resolve_leak_entry_points \in {{}, {Entry(f) : f \in Fns}}
    /\ \A E \in {{}, {Entry(f) : f \in Fns}} : E \subseteq Places
    /\ {Start} \subseteq Places
BY PlacesAre DEF resolve_leak_entry_points

LEMMA GoTypes ==
    ASSUME Typed, NEW m, PatchTyped(m), Go(m), UNCHANGED past
    PROVE  /\ PatchTyped(patch)' /\ TasksTyped' /\ Falls
           /\ mode' \in {"wait", "warmup"} /\ warmed_up' \in BOOLEAN
           /\ entries' \in {{}, {Entry(f) : f \in Fns}}
<1>1. TasksTyped /\ current_tid \in Threads /\ past' \in [Threads -> BOOLEAN]
  BY DEF Typed, TasksTyped, ControlTyped
<1>2. TasksTyped' /\ Falls
  BY <1>1, ResumeTypes DEF Go
<1>. DEFINE found == IF entries = {} THEN resolve_leak_entry_points ELSE entries
<1>3. found \in {{}, {Entry(f) : f \in Fns}}
  BY EntriesAre DEF Typed, ControlTyped
<1>4. PICK i \in {m, Install(m, {Start}), Install(m, found)} :
          /\ Patched(i) /\ mode' \in {"wait", "warmup"} /\ warmed_up' \in {TRUE, warmed_up}
          /\ entries' \in {entries, found}
  <2>1. CASE ~enabled
    BY <2>1 DEF Go, ensure_leak_breakpoints_installed
  <2>2. CASE enabled /\ found = {} /\ ~warmed_up
    BY <2>2 DEF Go, ensure_leak_breakpoints_installed
  <2>3. CASE enabled /\ ~(found = {} /\ ~warmed_up)
    BY <2>3 DEF Go, ensure_leak_breakpoints_installed
  <2>. QED
    BY <2>1, <2>2, <2>3
<1>. HIDE DEF found
<1>5. PatchTyped(i)
  BY <1>3, EntriesAre, PatchesTyped
<1>6. PatchTyped(patch)'
  BY <1>4, <1>5, PatchedTypes
<1>. QED
  BY <1>2, <1>3, <1>4, <1>6 DEF Typed, ControlTyped

LEMMA StepTypes ==
    ASSUME Typed, NEW m, PatchTyped(m), NEW t \in Threads, NEW how, StepOver(m, t, how),
           past' \in [Threads -> BOOLEAN]
    PROVE  /\ PatchTyped(patch)' /\ TasksTyped' /\ Falls
           /\ mode' = how /\ lifted' \in Places \cup {None}
<1>1. TasksTyped' /\ Falls
  BY ResumeTypes DEF StepOver, Typed
<1>2. PatchTyped(Lift(m, at[t])) /\ Patched(Lift(m, at[t]))
  BY PatchesTyped DEF StepOver
<1>3. PatchTyped(patch)'
  BY <1>2, PatchedTypes
<1>. QED
  BY <1>1, <1>3 DEF StepOver, Typed, ProgramTyped

LEMMA ContTypes ==
    ASSUME Typed, NEW m, PatchTyped(m), Cont(m), UNCHANGED past
    PROVE  /\ PatchTyped(patch)' /\ TasksTyped' /\ Falls
           /\ mode' \in {"wait", "warmup", "over"} /\ lifted' \in Places \cup {None}
           /\ warmed_up' \in BOOLEAN /\ entries' \in {{}, {Entry(f) : f \in Fns}}
<1>1. current_tid \in Threads /\ past' \in [Threads -> BOOLEAN]
  BY DEF Typed, TasksTyped, ControlTyped
<1>2. CASE at[current_tid] \in DOMAIN m.table /\ ~past[current_tid]
  BY <1>1, <1>2, StepTypes DEF Cont, Typed, ControlTyped
<1>3. CASE ~(at[current_tid] \in DOMAIN m.table /\ ~past[current_tid])
  BY <1>3, GoTypes DEF Cont, Typed, ControlTyped
<1>. QED
  BY <1>2, <1>3

-----------------------------------------------------------------------------
LEMMA TypedAll ==
    ASSUME Typed
    PROVE  /\ TasksTyped /\ PatchTyped(patch) /\ LedgerTyped /\ ControlTyped
           /\ CallsTyped(pending) /\ live \in Ledgers /\ left \subseteq DOMAIN pending
           /\ behind \subseteq Ptrs /\ seen \subseteq Threads
           /\ user \subseteq BreakAddrs /\ toggles \in 0 .. MaxToggles
           /\ BreakAddrs \subseteq Places
BY LeakAssumption DEF Typed, ProgramTyped, LedgerTyped

LEMMA CommandTypes == ASSUME Typed, Placed, Command PROVE Typed' /\ Placed'
<1>1. /\ TasksTyped /\ PatchTyped(patch) /\ LedgerTyped /\ ControlTyped
      /\ CallsTyped(pending) /\ live \in Ledgers /\ left \subseteq DOMAIN pending
      /\ behind \subseteq Ptrs /\ seen \subseteq Threads
      /\ user \subseteq BreakAddrs /\ toggles \in 0 .. MaxToggles /\ BreakAddrs \subseteq Places
  BY TypedAll
<1>2. ASSUME UNCHANGED tasks PROVE TasksTyped' /\ Falls
  BY <1>1, <1>2 DEF TasksTyped, Falls, tasks
<1>3. ASSUME NEW on \in BOOLEAN, set_leak_tracking(on) PROVE Typed' /\ Placed'
  <2>1. /\ UNCHANGED <<program, tasks, user, current_tid, exited, entries, live>>
        /\ UNCHANGED <<warmed_up, mode, lifted, command, next, skip_target, behind, seen>>
        /\ enabled' = on /\ toggles' = toggles + 1 /\ toggles < MaxToggles
    BY <1>3 DEF set_leak_tracking, control, ghosts
  <2>2. PatchTyped(patch)' /\ CallsTyped(pending)' /\ left' \subseteq DOMAIN pending'
    <3>1. CASE on
      BY <1>1, <1>3, <3>1 DEF set_leak_tracking, patch, CallsTyped
    <3>2. CASE ~on
      <4>. DEFINE A == (entries \cup DOMAIN pending) \ user
                  w == ~Dead
      <4>1. Patched(Withdraw(patch, A, w)) /\ pending' = Nothing /\ left' = {} /\ w \in BOOLEAN
        BY <1>3, <3>2 DEF set_leak_tracking, uninstall_leak_breakpoints, Dead
      <4>. HIDE DEF A, w
      <4>2. PatchTyped(Withdraw(patch, A, w))
        BY <1>1, <4>1, PatchesTyped
      <4>3. PatchTyped(patch)'
        BY <4>1, <4>2, PatchedTypes
      <4>. QED
        BY <4>1, <4>3 DEF CallsTyped, Nothing
    <3>. QED
      BY <3>1, <3>2
  <2>3. LedgerTyped' /\ ControlTyped'
    BY <1>1, <2>1, <2>2 DEF LedgerTyped, ControlTyped
  <2>4. toggles' \in 0 .. MaxToggles
    BY <1>1, <2>1, LeakAssumption
  <2>. QED
    BY <1>1, <1>2, <2>1, <2>2, <2>3, <2>4, TdbTypes
<1>4. ASSUME NEW a \in BreakAddrs, install_breakpoint(a) \/ delete_breakpoint(a)
      PROVE  Typed' /\ Placed'
  <2>1. /\ UNCHANGED <<program, tasks, current_tid, exited, enabled, entries, pending, live>>
        /\ UNCHANGED <<warmed_up, mode, lifted, command, next, skip_target, toggles>>
        /\ UNCHANGED <<behind, seen, left>>
    BY <1>4 DEF install_breakpoint, delete_breakpoint, tracker, control, ghosts
  <2>2. PICK m \in {Install(patch, {a}), Withdraw(patch, {a}, TRUE)} : Patched(m)
    BY <1>4 DEF install_breakpoint, delete_breakpoint
  <2>3. PatchTyped(m)
    BY <1>1, <2>2, PatchesTyped
  <2>4. PatchTyped(patch)'
    BY <2>2, <2>3, PatchedTypes
  <2>5. user' \subseteq BreakAddrs
    <3>1. user \subseteq BreakAddrs
      BY <1>1
    <3>2. user' = user \cup {a} \/ user' = user \ {a}
      BY <1>4 DEF install_breakpoint, delete_breakpoint
    <3>. QED
      BY <3>1, <3>2
  <2>6. LedgerTyped' /\ ControlTyped'
    BY <1>1, <2>1 DEF LedgerTyped, CallsTyped, ControlTyped
  <2>. QED
    BY <1>1, <1>2, <2>1, <2>4, <2>5, <2>6, TdbTypes
<1>5. ASSUME NEW t \in Threads, switch_thread(t) PROVE Typed' /\ Placed'
  <2>. DEFINE b == past[t] /\ at[t] \notin DOMAIN breakpoints
  <2>1. /\ UNCHANGED <<program, run, report, exited, enabled, entries, pending, live>>
        /\ UNCHANGED <<breakpoints, memory, user>>
        /\ UNCHANGED <<warmed_up, mode, lifted, command, next, skip_target, toggles>>
        /\ UNCHANGED <<behind, seen, left>> /\ current_tid' = t /\ past' = [past EXCEPT ![t] = b]
    BY <1>5 DEF switch_thread, patches, tracker, control, ghosts
  <2>2. b \in BOOLEAN
    BY <1>1 DEF TasksTyped
  <2>. HIDE DEF b
  <2>3. TasksTyped' /\ Falls
    BY <1>1, <2>1, <2>2 DEF TasksTyped, Falls
  <2>4. LedgerTyped' /\ ControlTyped' /\ PatchTyped(patch)'
    BY <1>1, <2>1 DEF LedgerTyped, CallsTyped, ControlTyped, patch
  <2>. QED
    BY <1>1, <2>1, <2>3, <2>4, TdbTypes
<1>6. ASSUME cont PROVE Typed' /\ Placed'
  <2>1. /\ Cont(patch) /\ command' = "cont"
        /\ UNCHANGED <<program, past, user, current_tid, exited, enabled, pending, live>>
        /\ UNCHANGED <<next, skip_target, toggles, behind, seen, left>>
    BY <1>6 DEF cont, ghosts
  <2>2. /\ PatchTyped(patch)' /\ TasksTyped' /\ Falls
        /\ mode' \in {"wait", "warmup", "over"} /\ lifted' \in Places \cup {None}
        /\ warmed_up' \in BOOLEAN /\ entries' \in {{}, {Entry(f) : f \in Fns}}
    BY <1>1, <2>1, ContTypes
  <2>3. LedgerTyped' /\ ControlTyped'
    BY <1>1, <2>1, <2>2 DEF LedgerTyped, CallsTyped, ControlTyped
  <2>. QED
    BY <1>1, <2>1, <2>2, <2>3, TdbTypes
<1>7. ASSUME nexti PROVE Typed' /\ Placed'
  <2>1. PICK r \in Sites :
            /\ next' = [ret |-> RetAt(r), had |-> RetAt(r) \in DOMAIN breakpoints,
                        tid |-> current_tid]
            /\ skip_target' = RetAt(r)
            /\ Cont(Install(patch, {RetAt(r)})) /\ command' = "cont"
    BY <1>7 DEF nexti
  <2>2. /\ UNCHANGED <<program, past, user, current_tid, exited, enabled, pending, live>>
        /\ UNCHANGED <<toggles, behind, seen, left>>
    BY <1>7 DEF nexti, ghosts
  <2>3. PatchTyped(Install(patch, {RetAt(r)})) /\ RetAt(r) \in Places
    <3>1. RetAt(r) \in Places
      BY PlacesAre
    <3>2. {RetAt(r)} \subseteq Places
      BY <3>1
    <3>. QED
      BY <1>1, <3>1, <3>2, PatchesTyped
  <2>4. /\ PatchTyped(patch)' /\ TasksTyped' /\ Falls
        /\ mode' \in {"wait", "warmup", "over"} /\ lifted' \in Places \cup {None}
        /\ warmed_up' \in BOOLEAN /\ entries' \in {{}, {Entry(f) : f \in Fns}}
    BY <2>1, <2>2, <2>3, ContTypes
  <2>5. next' \in Steps /\ skip_target' \in Places
    <3>1. (RetAt(r) \in DOMAIN breakpoints) \in BOOLEAN /\ current_tid \in Threads
      BY <1>1 DEF ControlTyped
    <3>. QED
      BY <2>1, <2>3, <3>1 DEF Steps
  <2>6. LedgerTyped' /\ ControlTyped'
    BY <1>1, <2>1, <2>2, <2>4, <2>5 DEF LedgerTyped, CallsTyped, ControlTyped
  <2>. QED
    BY <1>1, <2>2, <2>4, <2>6, TdbTypes
<1>8. ASSUME stepi PROVE Typed' /\ Placed'
  <2>1. /\ command' = "stepi"
        /\ UNCHANGED <<program, past, user, current_tid, exited, enabled, entries, pending, live>>
        /\ UNCHANGED <<warmed_up, next, skip_target, toggles, behind, seen, left>>
    BY <1>8 DEF stepi, tracker, ghosts
  <2>2. current_tid \in Threads /\ past' \in [Threads -> BOOLEAN]
    BY <1>1, <2>1 DEF ControlTyped, TasksTyped
  <2>3. /\ PatchTyped(patch)' /\ TasksTyped' /\ Falls
        /\ mode' \in {"wait", "over"} /\ lifted' \in Places \cup {None}
    <3>1. CASE StepOver(patch, current_tid, "over")
      BY <1>1, <2>2, <3>1, StepTypes
    <3>2. CASE /\ Resume(current_tid, "stepping") /\ mode' = "wait"
               /\ UNCHANGED <<breakpoints, memory, lifted>>
      BY <1>1, <2>2, <3>2, ResumeTypes DEF ControlTyped, patch
    <3>. QED
      BY <1>8, <3>1, <3>2 DEF stepi
  <2>4. LedgerTyped' /\ ControlTyped'
    BY <1>1, <2>1, <2>3 DEF LedgerTyped, CallsTyped, ControlTyped
  <2>. QED
    BY <1>1, <2>1, <2>3, <2>4, TdbTypes
<1>. QED
  BY <1>3, <1>4, <1>5, <1>6, <1>7, <1>8 DEF Command

(* The command returns, with what is in the table and the calls that pend. *)
LEMMA ReturningTypes ==
    ASSUME Typed, Placed, NEW m, NEW calls, PatchTyped(m), CallsTyped(calls),
           Return(m, calls) \/ Fail(m, calls),
           TasksTyped', Falls, live' \in Ledgers,
           behind' \subseteq Ptrs, seen' \subseteq Threads,
           current_tid' \in Threads, exited' \in BOOLEAN,
           UNCHANGED <<program, user, entries, enabled, warmed_up, toggles>>
    PROVE  Typed' /\ Placed'
<1>1. /\ PatchTyped(patch)' /\ CallsTyped(pending)' /\ left' \subseteq DOMAIN pending'
      /\ AtPromptAgain /\ skip_target' \in {None, skip_target}
  BY ReturnTypes
<1>2. LedgerTyped' /\ ControlTyped'
  BY <1>1, TypedAll DEF LedgerTyped, ControlTyped, AtPromptAgain
<1>. QED
  BY <1>1, <1>2, TypedAll, TdbTypes

LEMMA WaitTypes == ASSUME Typed, Placed, Wait PROVE Typed' /\ Placed'
<1>1. /\ TasksTyped /\ PatchTyped(patch) /\ LedgerTyped /\ ControlTyped
      /\ CallsTyped(pending) /\ live \in Ledgers /\ left \subseteq DOMAIN pending
      /\ behind \subseteq Ptrs /\ seen \subseteq Threads
      /\ user \subseteq BreakAddrs /\ toggles \in 0 .. MaxToggles /\ BreakAddrs \subseteq Places
  BY TypedAll
<1>2. current_tid \in Threads /\ exited \in BOOLEAN /\ past \in [Threads -> BOOLEAN]
  BY <1>1 DEF ControlTyped, TasksTyped
<1>3. ASSUME NEW t \in Threads, Hit(t)
      PROVE  past' \in [Threads -> BOOLEAN] /\ current_tid' = t
  BY <1>1, <1>3, UnpastTypes DEF Hit, Waits
<1>4. ASSUME NEW S, S \subseteq Threads, Forget(S) PROVE seen' \subseteq Threads
  BY <1>4 DEF Forget
<1>5. ASSUME warm_up_to_own_entry PROVE Typed' /\ Placed'
  <2>. DEFINE t == current_tid
              b == past[t] /\ at[t] \notin DOMAIN breakpoints
              m == IF Start \in user THEN patch ELSE Withdraw(patch, {Start}, TRUE)
  <2>1. /\ UNCHANGED <<program, user, current_tid, enabled, pending, live>>
        /\ UNCHANGED <<warmed_up, skip_target, toggles, behind, seen, left>>
    BY <1>5 DEF warm_up_to_own_entry, ghosts
  <2>2. CASE Dead
    <3>1. /\ exited' = TRUE /\ AtPromptAgain
          /\ UNCHANGED <<tasks, breakpoints, memory, entries>>
      BY <1>5, <2>2 DEF warm_up_to_own_entry
    <3>2. TasksTyped' /\ Falls /\ PatchTyped(patch)' /\ LedgerTyped' /\ ControlTyped'
      BY <1>1, <2>1, <3>1
         DEF TasksTyped, Falls, tasks, patch, LedgerTyped, CallsTyped, ControlTyped, AtPromptAgain
    <3>. QED
      BY <1>1, <2>1, <3>2, TdbTypes
  <2>3. CASE ~Dead
    <3>1. /\ past' = [past EXCEPT ![t] = b] /\ entries' = resolve_leak_entry_points
          /\ Patched(Install(m, entries')) /\ Resume(t, "running") /\ mode' = "wait"
          /\ UNCHANGED <<exited, lifted, command, next>>
      BY <1>5, <2>3 DEF warm_up_to_own_entry
    <3>2. PatchTyped(m) /\ b \in BOOLEAN /\ t \in Threads
      BY <1>1, <1>2, PatchesTyped DEF TasksTyped
    <3>. HIDE DEF m, b, t
    <3>3. past' \in [Threads -> BOOLEAN]
      BY <1>1, <3>1, <3>2, UnpastTypes
    <3>4. TasksTyped' /\ Falls
      BY <1>1, <3>1, <3>2, <3>3, ResumeTypes
    <3>5. PatchTyped(Install(m, entries'))
      BY <3>1, <3>2, EntriesAre, PatchesTyped
    <3>6. PatchTyped(patch)'
      BY <3>1, <3>5, PatchedTypes
    <3>7. LedgerTyped' /\ ControlTyped'
      BY <1>1, <2>1, <3>1, EntriesAre DEF LedgerTyped, CallsTyped, ControlTyped
    <3>. QED
      BY <1>1, <2>1, <3>4, <3>6, <3>7, TdbTypes
  <2>. QED
    BY <2>2, <2>3
<1>6. ASSUME step_over_current_breakpoint PROVE Typed' /\ Placed'
  <2>. DEFINE t == current_tid
              m == Relower(patch, lifted)
  <2>1. /\ UNCHANGED <<program, past, user, current_tid, enabled, live>>
        /\ UNCHANGED <<toggles, behind>>
        /\ mode \in {"over", "hidden"}
    BY <1>6 DEF step_over_current_breakpoint
  <2>2. CASE Dead /\ mode = "hidden"
    <3>1. /\ exited' \in BOOLEAN /\ Forget(seen)
          /\ Return(patch, pending) \/ Fail(patch, pending)
          /\ UNCHANGED <<run, report, entries, warmed_up>>
      BY <1>6, <2>2 DEF step_over_current_breakpoint, StepDies
    <3>2. TasksTyped' /\ Falls
      BY <1>1, <2>1, <3>1 DEF TasksTyped, Falls
    <3>. QED
      BY <1>1, <1>2, <1>4, <2>1, <3>1, <3>2, ReturningTypes
  <2>3. CASE Dead /\ mode # "hidden"
    <3>1. /\ exited' \in BOOLEAN /\ AtPromptAgain /\ skip_target' \in {None, skip_target}
          /\ UNCHANGED <<breakpoints, memory, pending, left>> /\ Forget(seen)
          /\ UNCHANGED <<run, report, entries, warmed_up>>
      BY <1>6, <2>3 DEF step_over_current_breakpoint, StepDies
    <3>2. TasksTyped' /\ Falls /\ PatchTyped(patch)' /\ LedgerTyped' /\ ControlTyped'
      BY <1>1, <2>1, <3>1
         DEF TasksTyped, Falls, patch, LedgerTyped, CallsTyped, ControlTyped, AtPromptAgain
    <3>. QED
      BY <1>1, <1>4, <2>1, <3>1, <3>2, TdbTypes
  <2>4. CASE ~Dead
    <3>1. /\ \/ Go(m)
             \/ /\ Patched(m) /\ mode' = "wait" /\ UNCHANGED <<entries, warmed_up>>
                /\ \E how \in {"running", "stepping"} : Resume(t, how)
          /\ lifted' = None
          /\ UNCHANGED <<exited, command, next, skip_target, pending, left, seen>>
      BY <1>6, <2>4 DEF step_over_current_breakpoint, StepDone
    <3>2. PatchTyped(m)
      BY <1>1, PatchesTyped
    <3>. HIDE DEF m
    <3>3. /\ PatchTyped(patch)' /\ TasksTyped' /\ Falls
          /\ mode' \in {"wait", "warmup"} /\ warmed_up' \in BOOLEAN
          /\ entries' \in {{}, {Entry(f) : f \in Fns}}
      <4>1. CASE Go(m)
        BY <2>1, <3>2, <4>1, GoTypes
      <4>2. CASE ~Go(m)
        <5>1. TasksTyped' /\ Falls
          BY <1>1, <1>2, <2>1, <3>1, <4>2, ResumeTypes
        <5>2. PatchTyped(patch)'
          BY <3>1, <3>2, <4>2, PatchedTypes
        <5>. QED
          BY <1>1, <3>1, <4>2, <5>1, <5>2 DEF ControlTyped
      <4>. QED
        BY <4>1, <4>2
    <3>4. LedgerTyped' /\ ControlTyped'
      BY <1>1, <2>1, <3>1, <3>3 DEF LedgerTyped, CallsTyped, ControlTyped
    <3>. QED
      BY <1>1, <2>1, <3>1, <3>3, <3>4, TdbTypes
  <2>. QED
    BY <2>2, <2>3, <2>4
<1>7. ASSUME NEW t \in Threads, wait_stopped(t) \/ wait_breakpoint(t) PROVE Typed' /\ Placed'
  <2>1. /\ Consume(t) /\ Return(patch, pending) /\ Forget(seen) /\ current_tid' = t
        /\ UNCHANGED <<program, user, exited, entries, live, enabled>>
        /\ UNCHANGED <<warmed_up, toggles, behind>>
    BY <1>7 DEF wait_stopped, wait_breakpoint, Hit, Waits
  <2>2. past' \in [Threads -> BOOLEAN]
    BY <1>2, <1>3, <1>7 DEF wait_stopped, wait_breakpoint
  <2>3. TasksTyped' /\ Falls
    BY <1>1, <2>1, <2>2, ResumeTypes
  <2>. QED
    BY <1>1, <1>2, <1>4, <2>1, <2>3, ReturningTypes
<1>8. ASSUME wait_exited PROVE Typed' /\ Placed'
  <2>1. /\ exited' = TRUE /\ Pends(pending) /\ AtPromptAgain /\ skip_target' = None
        /\ Forget(seen)
        /\ UNCHANGED <<program, tasks, breakpoints, memory, user, current_tid, entries, live>>
        /\ UNCHANGED <<enabled, warmed_up, toggles, behind>>
    BY <1>8 DEF wait_exited, patches
  <2>2. TasksTyped' /\ Falls /\ PatchTyped(patch)'
    BY <1>1, <2>1 DEF TasksTyped, Falls, tasks, patch
  <2>3. CallsTyped(pending)' /\ left' \subseteq DOMAIN pending'
    BY <1>1, <2>1, RestTypes
  <2>4. LedgerTyped' /\ ControlTyped'
    BY <1>1, <2>1, <2>3 DEF LedgerTyped, ControlTyped, AtPromptAgain
  <2>. QED
    BY <1>1, <1>4, <2>1, <2>2, <2>4, TdbTypes
<1>9. ASSUME NEW t \in Threads, wait_entry(t) PROVE Typed' /\ Placed'
  <2>. DEFINE e == on_alloc_entry(t)
              F == Frees(t)
              calls == e.calls
              m == e.patch
              L == [p \in DOMAIN live \ F |-> live[p]]
  <2>1. /\ Hit(t) /\ enabled /\ at[t] \in entries
        /\ live' = L
        /\ behind' = behind \cup F
        /\ IF at[t] \in user
           THEN Consume(t) /\ Return(m, calls) /\ Forget(seen \cup {t})
           ELSE /\ StepOver(m, t, "hidden")
                /\ pending' = calls /\ seen' = seen \cup {t}
                /\ left' \subseteq left
                /\ UNCHANGED <<command, next, skip_target>>
        /\ UNCHANGED <<program, user, exited, entries, enabled, warmed_up, toggles>>
    BY <1>9 DEF wait_entry
  <2>2. call[t] \in Calls /\ call[t].ptr \in Ptrs \cup {Null} /\ call[t].site \in Sites
    <3>1. \E f : at[t] = Entry(f)
      BY <1>1, <2>1 DEF ControlTyped
    <3>. QED
      BY <3>1, PlacesApart DEF Placed, Standing, Calls
  <2>3. F \subseteq Ptrs
    BY <2>2 DEF Frees
  <2>4. CallsTyped(calls) /\ PatchTyped(m) /\ DOMAIN pending \subseteq DOMAIN calls
    <3>1. CASE Tracked(t)
      <4>. DEFINE r == RetAt(call[t].site)
                  c == call[t]
      <4>1. calls = Put(pending, r, c) /\ m = Install(patch, {r})
        BY <3>1 DEF on_alloc_entry
      <4>2. r \in Places /\ {r} \subseteq Places /\ r \in {RetAt(s) : s \in Sites}
            /\ c \in Calls /\ r = RetAt(c.site)
            /\ c.fn # "free"
        BY <2>2, <3>1, PlacesAre DEF Tracked
      <4>. HIDE DEF r, c, m, calls
      <4>3. PatchTyped(m)
        BY <1>1, <4>1, <4>2, PatchesTyped
      <4>4. CallsTyped(calls) /\ DOMAIN pending \subseteq DOMAIN calls
        <5>1. DOMAIN calls = DOMAIN pending \cup {r}
          BY <4>1 DEF Put
        <5>2. calls[r] = c
          BY <4>1 DEF Put
        <5>3. \A a \in DOMAIN pending \ {r} : calls[a] = pending[a]
          BY <4>1 DEF Put
        <5>. QED
          BY <1>1, <4>2, <5>1, <5>2, <5>3 DEF CallsTyped
      <4>. QED
        BY <4>3, <4>4
    <3>2. CASE ~Tracked(t)
      BY <1>1, <3>2 DEF on_alloc_entry
    <3>. QED
      BY <3>1, <3>2
  <2>5. L \in Ledgers
    <3>1. DOMAIN live \subseteq Ptrs /\ \A p \in DOMAIN live : live[p] \in Blocks
      BY <1>1, LedgerIs
    <3>2. DOMAIN L \subseteq Ptrs /\ L \in [DOMAIN L -> Blocks]
      BY <3>1
    <3>. HIDE DEF L
    <3>. QED
      BY <3>2, LedgerIs
  <2>6. past' \in [Threads -> BOOLEAN] /\ current_tid' = t
    BY <1>3, <2>1
  <2>. HIDE DEF e, F, calls, m, L
  <2>7. behind' \subseteq Ptrs /\ live' \in Ledgers
    BY <1>1, <2>1, <2>3, <2>5
  <2>8. CASE at[t] \in user
    <3>1. TasksTyped' /\ Falls
      BY <1>1, <2>1, <2>6, <2>8, ResumeTypes
    <3>2. seen' \subseteq Threads
      BY <1>1, <1>4, <2>1, <2>8
    <3>. QED
      BY <1>2, <2>1, <2>4, <2>6, <2>7, <2>8, <3>1, <3>2, ReturningTypes
  <2>9. CASE at[t] \notin user
    <3>1. /\ PatchTyped(patch)' /\ TasksTyped' /\ Falls
          /\ mode' = "hidden" /\ lifted' \in Places \cup {None}
      BY <2>1, <2>4, <2>6, <2>9, StepTypes
    <3>2. LedgerTyped' /\ ControlTyped' /\ seen' \subseteq Threads
      BY <1>1, <2>1, <2>4, <2>6, <2>7, <2>9, <3>1 DEF LedgerTyped, CallsTyped, ControlTyped
    <3>. QED
      BY <1>1, <2>1, <2>7, <3>1, <3>2, TdbTypes
  <2>. QED
    BY <2>8, <2>9
<1>10. ASSUME NEW t \in Threads, wait_return(t) PROVE Typed' /\ Placed'
  <2>. DEFINE c == pending[at[t]]
              calls == Drop(pending, at[t])
              m == IF at[t] \in user THEN patch ELSE Withdraw(patch, {at[t]}, TRUE)
  <2>1. /\ Hit(t) /\ enabled /\ at[t] \in DOMAIN pending
        /\ live' = Entered(c, rax[t])
        /\ behind' \subseteq behind \cup ({c.ptr, rax[t]} \ {Null})
        /\ IF at[t] \in user \/ skip_target = at[t]
           THEN Consume(t) /\ Return(m, calls) /\ Forget(seen)
           ELSE /\ Patched(m) /\ pending' = calls
                /\ Resume(t, "running")
                /\ seen' = seen \ {t} /\ left' = left \ {at[t]}
                /\ UNCHANGED <<mode, lifted, command, next, skip_target>>
        /\ UNCHANGED <<program, user, exited, entries, enabled, warmed_up, toggles>>
    BY <1>10 DEF wait_return
  <2>2. /\ c \in Calls /\ c.fn # "free" /\ rax[t] \in Ptrs \cup {Null}
        /\ c.ptr \in Ptrs \cup {Null}
    BY <1>1, <2>1 DEF CallsTyped, Typed, ProgramTyped, Calls
  <2>3. PatchTyped(m)
    BY <1>1, PatchesTyped
  <2>4. CallsTyped(calls) /\ DOMAIN calls = DOMAIN pending \ {at[t]}
    <3>1. DOMAIN calls = DOMAIN pending \ {at[t]}
      BY DEF Drop
    <3>2. \A a \in DOMAIN pending \ {at[t]} : calls[a] = pending[a]
      BY DEF Drop
    <3>. HIDE DEF calls
    <3>. QED
      BY <1>1, <3>1, <3>2 DEF CallsTyped
  <2>. HIDE DEF c, calls, m
  <2>5. live' \in Ledgers
    <3>. DEFINE p == rax[t]
                kept == Drop(live, c.ptr)
                b == Block(c)
    <3>1. kept \in Ledgers
      BY <1>1, Dropped
    <3>. HIDE DEF kept
    <3>2. CASE p # Null
      <4>1. live' = Put(kept, p, b) /\ p \in Ptrs
        BY <2>1, <2>2, <3>2 DEF Entered, kept
      <4>2. b \in Blocks
        BY <2>2 DEF Block, Blocks, Calls, Fns
      <4>. HIDE DEF b, p
      <4>. QED
        BY <3>1, <4>1, <4>2, Putting
    <3>3. CASE p = Null
      BY <1>1, <2>1, <3>1, <3>3 DEF Entered, kept
    <3>. QED
      BY <3>2, <3>3
  <2>6. past' \in [Threads -> BOOLEAN] /\ current_tid' = t
    BY <1>3, <2>1
  <2>7. behind' \subseteq Ptrs
    BY <1>1, <2>1, <2>2
  <2>8. CASE at[t] \in user \/ skip_target = at[t]
    <3>1. TasksTyped' /\ Falls
      BY <1>1, <2>1, <2>6, <2>8, ResumeTypes
    <3>2. seen' \subseteq Threads
      BY <1>1, <1>4, <2>1, <2>8
    <3>. QED
      BY <1>1, <1>2, <2>1, <2>3, <2>4, <2>5, <2>6, <2>7, <2>8, <3>1, <3>2, ReturningTypes
  <2>9. CASE ~(at[t] \in user \/ skip_target = at[t])
    <3>1. TasksTyped' /\ Falls
      BY <1>1, <2>1, <2>6, <2>9, ResumeTypes
    <3>2. PatchTyped(patch)'
      BY <2>1, <2>3, <2>9, PatchedTypes
    <3>3. LedgerTyped' /\ ControlTyped' /\ seen' \subseteq Threads
      BY <1>1, <2>1, <2>4, <2>5, <2>6, <2>9, <3>1 DEF LedgerTyped, CallsTyped, ControlTyped
    <3>. QED
      BY <1>1, <2>1, <2>7, <3>1, <3>2, <3>3, TdbTypes
  <2>. QED
    BY <2>8, <2>9
<1>. QED
  BY <1>5, <1>6, <1>7, <1>8, <1>9, <1>10 DEF Wait

(* TypeOK in every state, whatever the bounds.                             *)
LEMMA TypedInit == ASSUME Init PROVE Typed /\ Placed
<1>1. Loader \in Places /\ Main \in Threads
  BY PlacesAre, LeakAssumption
<1>2. Nothing \in Ledgers
  <2>1. DOMAIN Nothing = {}
    BY DEF Nothing
  <2>2. Nothing \in [DOMAIN Nothing -> Blocks]
    BY <2>1 DEF Nothing
  <2>. QED
    BY <2>1, <2>2, LedgerIs
<1>3. ProgramTyped /\ TasksTyped
  BY <1>1, <1>2 DEF Init, ProgramTyped, TasksTyped
<1>4. PatchTyped(patch)
  BY DEF Init, PatchTyped, patch, Nothing
<1>5. LedgerTyped /\ ControlTyped
  BY <1>1, <1>2 DEF Init, LedgerTyped, ControlTyped, CallsTyped, Nothing
<1>6. Placed
  BY DEF Init, Placed, Standing
<1>. QED
  BY <1>3, <1>4, <1>5, <1>6, LeakAssumption DEF Init, Typed

LEMMA TypedIdle == ASSUME Typed, Placed, UNCHANGED vars PROVE Typed' /\ Placed'
<1>. USE DEF vars, program, tasks, patches, tracker, control, ghosts
<1>1. ProgramTyped' /\ TasksTyped'
  BY DEF Typed, ProgramTyped, TasksTyped
<1>2. PatchTyped(patch)' /\ LedgerTyped' /\ ControlTyped'
  BY DEF Typed, PatchTyped, LedgerTyped, CallsTyped, ControlTyped, patch
<1>3. Placed'
  BY DEF Placed, Standing
<1>. QED
  BY <1>1, <1>2, <1>3 DEF Typed

LEMMA TypedHolds == Spec => [](Typed /\ Placed)
<1>1. Init => Typed /\ Placed
  BY TypedInit
<1>2. Typed /\ Placed /\ [Next]_vars => (Typed /\ Placed)'
  BY ProgramTypes, CommandTypes, WaitTypes, TypedIdle DEF Next
<1>. QED
  BY <1>1, <1>2, PTL DEF Spec

(* Every variable keeps its type: a thread is inside the allocator only    *)
(* with the call it made, and no call of free waits for its return.        *)
THEOREM TypeCorrect == Spec => []TypeOK
BY TypedHolds, TypedIs, PTL

-----------------------------------------------------------------------------
(* The account of a program of one thread: each call is followed from its  *)
(* entry to the moment when the ledger has what it did.                    *)

InCall == /\ call[Main] \in Calls
          /\ at[Main] \in {Entry(call[Main].fn), Inside(call[Main].fn), RetAt(call[Main].site)}

(* The calls that pend and that stepi has not left at the prompt: the hook *)
(* of one it has left may serve another call, or none.                     *)
Fresh == DOMAIN pending \ left

(* The call that pends is the one the program is in.                       *)
PendsMain == \A a \in Fresh : a = RetAt(call[Main].site) /\ pending[a] = call[Main] /\ InCall

(* A call that tdb knows waits for its return, or is a free entered at its *)
(* entry and not yet done.                                                 *)
SeenMain ==
    Main \in seen =>
        \/ Fresh # {}
        \/ /\ InCall /\ call[Main].fn = "free"
           /\ at[Main] \in {Entry("free"), Inside("free")}
           /\ call[Main].ptr \notin DOMAIN live

(* What the heap shows of a call that has returned p.                      *)
Fits(c, p) ==
    /\ p # Null => p \in DOMAIN heap /\ heap[p] = Block(c)
    /\ p # Null \/ (c.fn = "realloc" /\ c.size = 0) =>
           \A q \in {c.ptr} \ {p} : q \notin DOMAIN heap

ReturnFits ==
    (\E r \in Sites : at[Main] = RetAt(r)) /\ call[Main].fn # "free" => Fits(call[Main], rax[Main])

Exact == \A p \in Ptrs \ behind : /\ p \in DOMAIN live <=> p \in DOMAIN heap
                                  /\ p \in DOMAIN live => live[p] = heap[p]

Account == PendsMain /\ SeenMain /\ ReturnFits /\ Exact

(* The breakpoint stepped over in the loop of wait_and_report is that of   *)
(* an entry: that of a return address is never lifted.                     *)
LiftsEntry == mode = "hidden" => \E f : lifted = Entry(f)

Accounted == /\ Typed /\ Placed /\ Inv
             /\ LiftsEntry
             /\ Alone => Account

(* Steps that neither move the program nor account for anything.           *)
LEMMA AccountKept ==
    ASSUME Account, UNCHANGED <<at, call, rax, heap, pending, live, behind, seen, left>>
    PROVE  Account'
BY DEF Account, PendsMain, SeenMain, ReturnFits, Fits, Exact, InCall, Fresh

(* At the prompt there is no other call that pends.                        *)
LEMMA NoneFresh ==
    ASSUME CallsOK, mode \in {"prompt", "over", "warmup"} PROVE Fresh = {}
BY DEF CallsOK, Fresh

LEMMA PendsNoneFresh ==
    ASSUME NEW calls, Pends(calls), CallsOK, command # "none", ~enabled => calls = Nothing
    PROVE  Fresh' = {}
BY DEF Pends, CallsOK, Fresh, Nothing, Unhooks

(* The command returns, and forgets the calls that pend, or leaves them.   *)
LEMMA AccountForgets ==
    ASSUME Account, CallsTyped(pending), UNCHANGED <<at, call, rax, heap, live, behind>>,
           Fresh' = {}, NEW S, S \subseteq seen, Forget(S)
    PROVE  Account'
<1>1. PendsMain'
  BY DEF PendsMain
<1>2. SeenMain'
  <2>. SUFFICES ASSUME Main \in seen'
                PROVE  /\ InCall' /\ call[Main]'.fn = "free"
                       /\ at[Main]' \in {Entry("free"), Inside("free")}
                       /\ call[Main]'.ptr \notin DOMAIN live'
    BY DEF SeenMain
  <2>1. Main \in seen /\ call[Main].fn = "free"
    BY DEF Forget
  <2>2. Fresh = {}
    BY <2>1 DEF Account, PendsMain, CallsTyped, Fresh
  <2>. QED
    BY <2>1, <2>2 DEF Account, SeenMain, InCall
<1>3. ReturnFits' /\ Exact'
  BY DEF Account, ReturnFits, Fits, Exact
<1>. QED
  BY <1>1, <1>2, <1>3 DEF Account

(* Alone, the thread that acts is the first.                               *)
LEMMA OnlyMain ==
    ASSUME Tasks, Alone, NEW t \in Threads, Runs(t) \/ report[t] # "none" \/ Stopped(t)
    PROVE  t = Main
BY DEF Tasks, Alone, Runs, Stopped

(* The hook of a call that pends is in memory when the program gets there. *)
LEMMA ReturnIsHooked ==
    ASSUME Inv, LiftsEntry, ~Dead, NEW a \in Fresh PROVE a \in memory
<1>1. CallsOK /\ Held(user \cup Hidden, Lifted) /\ a \in DOMAIN pending /\ a \notin left
  BY DEF Inv, Core, Fresh
<1>2. mode \in {"hidden", "wait"} /\ enabled /\ \E r : a = RetAt(r)
  <2>1. pending # Nothing
    BY <1>1 DEF Nothing
  <2>. QED
    BY <1>1, <2>1 DEF CallsOK, Inv
<1>3. a \in Hidden /\ a \notin Lifted
  BY <1>1, <1>2, Kinds DEF Hidden, Hooks, Lifted, LiftsEntry
<1>. QED
  BY <1>1, <1>3 DEF Held, InTable

(* The first thread goes its way.                                          *)
LEMMA MainMoves ==
    ASSUME Typed, NEW x, Executes(Main, x), UNCHANGED call
    PROVE  at'[Main] = x /\ at[Main] \notin memory /\ call'[Main] = call[Main]
BY LeakAssumption DEF Executes, Typed, ProgramTyped

LEMMA ProgramAccounts ==
    ASSUME Accounted, Program, Alone' PROVE Account'
<1>1. /\ Typed /\ Placed /\ Inv /\ Tasks /\ LiftsEntry /\ TasksTyped /\ ProgramTyped
      /\ Main \in Threads /\ CallsTyped(pending)
  BY LeakAssumption, TypedAll DEF Accounted, Inv, Typed
<1>2. Falls /\ ~Dead
  BY <1>1, Programs, StaysDead
<1>3. Alone /\ Account /\ PendsMain /\ SeenMain /\ ReturnFits /\ Exact
  BY <1>2, AloneFalls DEF Accounted, Account
<1>4. UNCHANGED <<pending, live, left>>
  BY Kept DEF Program, tracker
<1>5. \A t \in Threads : Runs(t) => t = Main
  BY <1>1, <1>3, OnlyMain
<1>6. /\ DOMAIN heap \subseteq Ptrs /\ DOMAIN live \subseteq Ptrs
  BY <1>1, TypedAll, LedgerIs DEF ProgramTyped
<1>7. Standing(Main)
  BY <1>1 DEF Placed
<1>8. ASSUME at[Main] \in {Loader, Start} \cup {CallAt(r) : r \in Sites}
      PROVE  Fresh = {} /\ Main \notin seen
  BY <1>3, <1>8, PlacesApart DEF PendsMain, SeenMain, InCall
<1>9. ASSUME NEW x, Executes(Main, x), \E r : at[Main] = RetAt(r)
      PROVE  Fresh = {} /\ Main \notin seen
  <2>1. Fresh = {}
    <3>1. SUFFICES ASSUME NEW a \in Fresh PROVE FALSE
      OBVIOUS
    <3>2. at[Main] = a
      BY <1>3, <1>9, PlacesApart DEF PendsMain, InCall
    <3>3. a \in memory
      BY <1>1, <1>2, ReturnIsHooked
    <3>. QED
      BY <1>9, <3>2, <3>3 DEF Executes
  <2>. QED
    BY <1>3, <1>9, <2>1, PlacesApart DEF SeenMain
<1>10. ASSUME Load(Main) PROVE Account'
  <2>1. /\ UNCHANGED <<call, rax, heap, behind, seen>> /\ Executes(Main, Start)
        /\ Fresh = {} /\ Main \notin seen
    BY <1>8, <1>10 DEF Load, ghosts
  <2>2. at'[Main] = Start
    BY <1>1, <2>1, MainMoves
  <2>3. ReturnFits'
    BY <2>2, PlacesApart DEF ReturnFits
  <2>4. PendsMain' /\ SeenMain' /\ Exact'
    BY <1>3, <1>4, <2>1 DEF PendsMain, SeenMain, Exact, Fresh
  <2>. QED
    BY <2>3, <2>4 DEF Account
<1>11. ASSUME GoesOn(Main) PROVE Account'
  <2>1. PICK r \in Sites : Executes(Main, CallAt(r))
    BY <1>11 DEF GoesOn
  <2>2. /\ UNCHANGED <<heap, behind, seen>>
        /\ at[Main] \in {Start} \cup {RetAt(s) : s \in Sites}
    BY <1>11 DEF GoesOn, ghosts
  <2>3. Fresh = {} /\ Main \notin seen
    BY <1>8, <1>9, <2>1, <2>2
  <2>4. at'[Main] = CallAt(r)
    BY <1>1, <2>1 DEF Executes, ProgramTyped
  <2>5. ReturnFits'
    BY <2>4, PlacesApart DEF ReturnFits
  <2>6. PendsMain' /\ SeenMain' /\ Exact'
    BY <1>3, <1>4, <2>2, <2>3 DEF PendsMain, SeenMain, Exact, Fresh
  <2>. QED
    BY <2>5, <2>6 DEF Account
<1>12. ASSUME CallsAllocator(Main) PROVE Account'
  <2>1. PICK r \in Sites, f \in Fns : at[Main] = CallAt(r) /\ Executes(Main, Entry(f))
    BY <1>12 DEF CallsAllocator
  <2>2. UNCHANGED <<heap, behind, seen>>
    BY <1>12 DEF CallsAllocator, ghosts
  <2>3. Fresh = {} /\ Main \notin seen
    BY <1>8, <2>1
  <2>4. at'[Main] = Entry(f)
    BY <1>1, <2>1 DEF Executes, ProgramTyped
  <2>5. ReturnFits'
    BY <2>4, PlacesApart DEF ReturnFits
  <2>6. PendsMain' /\ SeenMain' /\ Exact'
    BY <1>3, <1>4, <2>2, <2>3 DEF PendsMain, SeenMain, Exact, Fresh
  <2>. QED
    BY <2>5, <2>6 DEF Account
<1>13. ASSUME Enters(Main) PROVE Account'
  <2>1. PICK f \in Fns : at[Main] = Entry(f) /\ Executes(Main, Inside(f))
    BY <1>13 DEF Enters
  <2>2. UNCHANGED <<call, rax, heap, behind, seen>>
    BY <1>13 DEF Enters, ghosts
  <2>3. at'[Main] = Inside(f) /\ call'[Main] = call[Main]
    BY <1>1, <2>1, <2>2, MainMoves
  <2>4. call[Main] \in Calls /\ call[Main].fn = f
    BY <1>7, <2>1, PlacesApart DEF Standing
  <2>5. InCall'
    BY <2>3, <2>4 DEF InCall
  <2>6. ReturnFits'
    BY <2>3, PlacesApart DEF ReturnFits
  <2>7. PendsMain'
    BY <1>3, <1>4, <2>3, <2>5 DEF PendsMain, Fresh
  <2>8. SeenMain'
    BY <1>3, <1>4, <2>2, <2>3, <2>4, <2>5 DEF SeenMain, Fresh
  <2>9. Exact'
    BY <1>3, <1>4, <2>2 DEF Exact
  <2>. QED
    BY <2>6, <2>7, <2>8, <2>9 DEF Account
<1>14. ASSUME Returns(Main) PROVE Account'
  <2>. DEFINE c == call[Main]
  <2>1. PICK f \in Fns : at[Main] = Inside(f)
    BY <1>14 DEF Returns
  <2>2. c \in Calls /\ c.fn = f /\ (c.fn = "malloc" => c.ptr = Null)
    BY <1>7, <2>1, PlacesApart DEF Standing
  <2>3. Executes(Main, RetAt(c.site)) /\ UNCHANGED call
    BY <1>14 DEF Returns
  <2>4. at'[Main] = RetAt(c.site) /\ call'[Main] = c
    BY <1>1, <2>3, MainMoves
  <2>5. InCall'
    BY <2>2, <2>4 DEF InCall
  <2>6. PendsMain'
    BY <1>3, <1>4, <2>4, <2>5 DEF PendsMain, Fresh
  <2>7. CASE c.fn = "free"
    <3>1. /\ heap' = Drop(heap, c.ptr) /\ UNCHANGED rax
          /\ behind' = IF Main \in seen THEN behind \ {c.ptr}
                       ELSE behind \cup ({c.ptr} \cap DOMAIN heap)
          /\ seen' = seen \ {Main}
      BY <1>14, <2>7 DEF Returns
    <3>2. SeenMain' /\ ReturnFits'
      BY <2>4, <2>7, <3>1 DEF SeenMain, ReturnFits
    <3>3. /\ DOMAIN heap' = DOMAIN heap \ {c.ptr}
          /\ \A q \in DOMAIN heap \ {c.ptr} : heap'[q] = heap[q]
      BY <3>1, Dropped
    <3>4. CASE Main \in seen
      <4>1. Fresh = {}
        BY <1>1, <1>3, <2>7 DEF PendsMain, CallsTyped, Fresh
      <4>2. c.ptr \notin DOMAIN live
        BY <1>3, <3>4, <4>1 DEF SeenMain
      <4>3. Exact'
        BY <1>3, <1>4, <3>1, <3>3, <3>4, <4>2 DEF Exact
      <4>. QED
        BY <2>6, <3>2, <4>3 DEF Account
    <3>5. CASE Main \notin seen
      <4>1. Exact'
        BY <1>3, <1>4, <3>1, <3>3, <3>5 DEF Exact
      <4>. QED
        BY <2>6, <3>2, <4>1 DEF Account
    <3>. QED
      BY <3>4, <3>5
  <2>8. CASE c.fn # "free"
    <3>1. PICK p \in Ptrs \cup {Null} : /\ Gets(Main, p) /\ rax' = [rax EXCEPT ![Main] = p]
                                        /\ behind' = behind \cup Changed(c, p)
                                        /\ UNCHANGED seen
      BY <1>14, <2>8 DEF Returns
    <3>2. /\ \A q \in Ptrs \ Changed(c, p) :
                 /\ q \in DOMAIN heap' <=> q \in DOMAIN heap
                 /\ q \in DOMAIN heap => heap'[q] = heap[q]
          /\ p # Null => p \in DOMAIN heap' /\ heap'[p] = Block(c)
          /\ p # Null \/ (c.fn = "realloc" /\ c.size = 0) =>
                 \A q \in {c.ptr} \ {p} : q \notin DOMAIN heap'
      BY <1>1, <2>2, <2>8, <3>1, Gotten
    <3>3. rax'[Main] = p
      BY <1>1, <3>1 DEF ProgramTyped
    <3>4. ReturnFits'
      BY <2>4, <3>2, <3>3 DEF ReturnFits, Fits
    <3>5. SeenMain'
      BY <1>3, <1>4, <2>8, <3>1 DEF SeenMain, Fresh
    <3>6. Exact'
      BY <1>3, <1>4, <3>1, <3>2 DEF Exact
    <3>. QED
      BY <2>6, <3>4, <3>5, <3>6 DEF Account
  <2>. QED
    BY <2>7, <2>8
<1>15. ASSUME NEW t \in Threads, NEW end \in Ends,
              HitsInt3(t) \/ Interrupted(t) \/ Exits(t, end)
       PROVE  Account'
  BY <1>3, <1>4, <1>15, AccountKept DEF HitsInt3, Interrupted, Exits, program, ghosts
<1>16. ASSUME NEW t \in Threads, NEW u \in Threads, Spawns(t, u) PROVE FALSE
  <2>1. t = Main /\ Runs(t) /\ run[u] = "unborn"
        /\ run' = [run EXCEPT ![t] = "running", ![u] = "running"]
    BY <1>5, <1>16 DEF Spawns, Runs
  <2>2. u # Main /\ run'[u] = "running"
    BY <1>1, <2>1 DEF TasksTyped, Runs
  <2>. QED
    BY <2>2 DEF Alone
<1>17. PICK t \in Threads : \/ Load(t) \/ GoesOn(t) \/ CallsAllocator(t) \/ Enters(t)
                            \/ Returns(t) \/ HitsInt3(t) \/ Interrupted(t)
                            \/ \E end \in Ends : Exits(t, end)
                            \/ \E u \in Threads : Spawns(t, u)
  BY DEF Program
<1>18. CASE Load(t) \/ GoesOn(t) \/ CallsAllocator(t) \/ Enters(t) \/ Returns(t)
  <2>1. Runs(t)
    BY <1>18 DEF Load, GoesOn, CallsAllocator, Enters, Returns, Executes
  <2>2. t = Main
    BY <1>5, <2>1
  <2>. QED
    BY <1>10, <1>11, <1>12, <1>13, <1>14, <1>18, <2>2
<1>. QED
  BY <1>15, <1>16, <1>17, <1>18 DEF Ends

(* The commands and the waits of tdb.                                      *)
LEMMA CommandAccounts == ASSUME Accounted, Command, Alone' PROVE Account'
<1>1. Inv /\ Tasks /\ CallsOK
  BY DEF Accounted, Inv
<1>2. ASSUME NEW on \in BOOLEAN, set_leak_tracking(on) PROVE Account'
  <2>1. UNCHANGED <<at, call, rax, heap, live, behind, seen>> /\ Falls /\ mode = "prompt"
    BY <1>2 DEF set_leak_tracking, program, tasks, Falls, AtPrompt
  <2>2. Account
    BY <2>1, AloneFalls DEF Accounted
  <2>3. Fresh = {} /\ Fresh' = {}
    <3>1. Fresh = {}
      BY <1>1, <2>1, NoneFresh
    <3>. QED
      BY <1>2, <3>1 DEF set_leak_tracking, Fresh, Nothing
  <2>. QED
    BY <2>1, <2>2, <2>3 DEF Account, PendsMain, SeenMain, ReturnFits, Fits, Exact, InCall
<1>3. ASSUME NEW a \in BreakAddrs, install_breakpoint(a) \/ delete_breakpoint(a)
      PROVE  UNCHANGED <<at, call, rax, heap, pending, live, behind, seen, left>> /\ Falls
  BY <1>3 DEF install_breakpoint, delete_breakpoint, program, tasks, tracker, ghosts, Falls
<1>4. ASSUME NEW t \in Threads, switch_thread(t)
      PROVE  UNCHANGED <<at, call, rax, heap, pending, live, behind, seen, left>> /\ Falls
  BY <1>4 DEF switch_thread, program, tracker, ghosts, Falls
<1>5. ASSUME NEW m, Cont(m) PROVE Falls
  BY <1>1, <1>5 DEF Cont, Go, StepOver, Resume, Falls, Tasks
<1>6. ASSUME cont \/ nexti
      PROVE  UNCHANGED <<at, call, rax, heap, pending, live, behind, seen, left>> /\ Falls
  BY <1>5, <1>6 DEF cont, nexti, program, ghosts
<1>7. ASSUME stepi
      PROVE  UNCHANGED <<at, call, rax, heap, pending, live, behind, seen, left>> /\ Falls
  BY <1>1, <1>7 DEF stepi, StepOver, Resume, Falls, Tasks, program, tracker, ghosts
<1>8. ASSUME UNCHANGED <<at, call, rax, heap, pending, live, behind, seen, left>>, Falls
      PROVE  Account'
  BY <1>8, AloneFalls, AccountKept DEF Accounted
<1>. QED
  BY <1>2, <1>3, <1>4, <1>6, <1>7, <1>8 DEF Command

(* An entry of the allocator: a free is in the ledger at once, of another  *)
(* call it is known that it pends.                                         *)
LEMMA EntryAccounts ==
    ASSUME Accounted, Account, NEW t \in Threads, t = Main, wait_entry(t)
    PROVE  Account'
<1>. DEFINE c == call[Main]
            e == on_alloc_entry(Main)
            calls == e.calls
            F == Frees(Main)
<1>1. /\ Typed /\ Placed /\ Inv /\ CallsOK /\ CallsTyped(pending) /\ live \in Ledgers /\ ControlTyped
      /\ PendsMain /\ SeenMain /\ ReturnFits /\ Exact
  BY TypedAll DEF Accounted, Account, Inv
<1>2. /\ enabled /\ mode = "wait" /\ at[Main] \in entries
      /\ live' = [p \in DOMAIN live \ F |-> live[p]]
      /\ behind' = behind \cup F
      /\ IF at[Main] \in user
         THEN Return(e.patch, calls) /\ Forget(seen \cup {Main})
         ELSE /\ pending' = calls /\ seen' = seen \cup {Main}
              /\ left' = IF Tracked(Main) THEN left \ {RetAt(c.site)} ELSE left
      /\ UNCHANGED <<at, call, rax, heap>>
  BY DEF wait_entry, program, Hit, Waits
<1>3. PICK f : at[Main] = Entry(f)
  BY <1>1, <1>2 DEF ControlTyped
<1>4. c \in Calls /\ c.fn = f /\ InCall
  BY <1>1, <1>3, PlacesApart, LeakAssumption DEF Placed, Standing, InCall
<1>5. Null \notin DOMAIN live /\ (c.fn = "free" => c.ptr \notin DOMAIN live')
  <2>1. Null \notin DOMAIN live
    BY <1>1, LedgerIs, LeakAssumption
  <2>2. c.fn = "free" => F = {c.ptr} \ {Null}
    BY DEF Frees, Tracked
  <2>3. DOMAIN live' = DOMAIN live \ F
    BY <1>2
  <2>. QED
    BY <2>1, <2>2, <2>3
<1>6. Exact'
  <2>1. \A q \in Ptrs \ behind' : /\ q \notin F /\ q \notin behind
                                  /\ q \in DOMAIN live' <=> q \in DOMAIN live
                                  /\ q \in DOMAIN live => live'[q] = live[q]
    BY <1>2
  <2>. QED
    BY <1>1, <1>2, <2>1 DEF Exact
<1>7. ReturnFits'
  BY <1>2, <1>3, PlacesApart DEF ReturnFits
<1>8. InCall'
  BY <1>2, <1>4 DEF InCall
<1>8a. ASSUME pending' = calls, left' = IF Tracked(Main) THEN left \ {RetAt(c.site)} ELSE left
       PROVE  /\ \A a \in Fresh' : a = RetAt(c.site) /\ calls[a] = c
              /\ c.fn # "free" => Fresh' # {}
  <2>2. CASE c.fn = "free"
    <3>1. calls = pending /\ left' = left
      BY <1>8a, <2>2 DEF on_alloc_entry, Tracked
    <3>. QED
      BY <1>1, <1>8a, <2>2, <3>1 DEF PendsMain, Fresh
  <2>3. CASE c.fn # "free"
    <3>1. calls = Put(pending, RetAt(c.site), c) /\ left' = left \ {RetAt(c.site)}
      BY <1>8a, <2>3 DEF on_alloc_entry, Tracked
    <3>2. /\ DOMAIN calls = DOMAIN pending \cup {RetAt(c.site)} /\ calls[RetAt(c.site)] = c
          /\ \A a \in DOMAIN pending \ {RetAt(c.site)} : calls[a] = pending[a]
      BY <3>1 DEF Put
    <3>. HIDE DEF calls
    <3>. QED
      BY <1>1, <1>8a, <2>3, <3>1, <3>2 DEF PendsMain, Fresh
  <2>. QED
    BY <2>2, <2>3
<1>. HIDE DEF e, calls, F
<1>9. CASE at[Main] \in user
  <2>1. Fresh' = {}
    <3>1. Pends(calls) /\ command # "none"
      BY <1>1, <1>2, <1>9 DEF Return, CallsOK
    <3>. QED
      BY <1>1, <1>2, <3>1, PendsNoneFresh
  <2>2. Main \in seen' => c.fn = "free"
    BY <1>2, <1>9 DEF Forget
  <2>3. SeenMain'
    BY <1>2, <1>3, <1>4, <1>5, <1>8, <2>2 DEF SeenMain
  <2>. QED
    BY <1>6, <1>7, <2>1, <2>3 DEF Account, PendsMain
<1>10. CASE at[Main] \notin user
  <2>1. /\ pending' = calls
        /\ \A a \in Fresh' : a = RetAt(c.site) /\ calls[a] = c
        /\ c.fn # "free" => Fresh' # {}
    BY <1>2, <1>8a, <1>10
  <2>2. PendsMain'
    BY <1>2, <1>8, <2>1 DEF PendsMain
  <2>3. SeenMain'
    BY <1>2, <1>3, <1>4, <1>5, <1>8, <2>1 DEF SeenMain
  <2>. QED
    BY <1>6, <1>7, <2>2, <2>3 DEF Account
<1>. QED
  BY <1>9, <1>10

(* A return: the ledger is brought to what the heap has become, or by a    *)
(* hook of stepi to what some other call would have made of it.            *)
LEMMA ReturnAccounts ==
    ASSUME Accounted, Account, NEW t \in Threads, t = Main, wait_return(t)
    PROVE  Account'
<1>. DEFINE c == call[Main]
            p == rax[Main]
            x == pending[at[Main]]
            calls == Drop(pending, at[Main])
<1>1. /\ Typed /\ Placed /\ Inv /\ CallsOK /\ CallsTyped(pending) /\ live \in Ledgers
      /\ PendsMain /\ SeenMain /\ ReturnFits /\ Exact /\ Main \in Threads
  BY TypedAll, LeakAssumption DEF Accounted, Account, Inv
<1>2. /\ enabled /\ mode = "wait" /\ at[Main] \in DOMAIN pending
      /\ live' = Entered(x, p)
      /\ behind' = IF at[Main] \in left THEN behind \cup ({x.ptr, p} \ {Null})
                                        ELSE behind \ Changed(x, p)
      /\ \/ pending' = calls /\ left' = left \ {at[Main]} /\ seen' = seen \ {Main}
         \/ Pends(calls) /\ Forget(seen)
      /\ UNCHANGED <<at, call, rax, heap>>
  BY DEF wait_return, program, Return, Hit, Waits
<1>2a. \E r \in Sites : at[Main] = RetAt(r)
  BY <1>1, <1>2 DEF CallsTyped
<1>2b. Fresh' = {} /\ Main \notin seen'
  <2>1. DOMAIN calls = DOMAIN pending \ {at[Main]}
    BY DEF Drop
  <2>2. Fresh \subseteq {at[Main]}
    BY <1>1, <1>2a, PlacesApart DEF PendsMain, InCall
  <2>3. Main \in seen => Fresh # {}
    BY <1>1, <1>2a, PlacesApart DEF SeenMain
  <2>4. Main \in seen => call[Main].fn # "free"
    BY <1>1, <2>3 DEF PendsMain, CallsTyped, Fresh
  <2>5. CASE pending' = calls /\ left' = left \ {at[Main]} /\ seen' = seen \ {Main}
    BY <2>1, <2>2, <2>5 DEF Fresh
  <2>6. CASE Pends(calls) /\ Forget(seen)
    <3>1. Fresh' = {}
      BY <1>1, <1>2, <2>6, PendsNoneFresh DEF CallsOK
    <3>. QED
      BY <2>4, <2>6, <3>1 DEF Forget
  <2>. QED
    BY <1>2, <2>5, <2>6
<1>2c. PendsMain' /\ SeenMain' /\ ReturnFits'
  BY <1>1, <1>2, <1>2b DEF PendsMain, SeenMain, ReturnFits, Fits
<1>2d. CASE at[Main] \in left
  <2>. DEFINE kept == Drop(live, x.ptr)
              b == Block(x)
  <2>1. /\ DOMAIN kept = DOMAIN live \ {x.ptr}
        /\ \A q \in DOMAIN live \ {x.ptr} : kept[q] = live[q]
    BY DEF Drop
  <2>2. live' = IF p # Null THEN Put(kept, p, b)
                ELSE IF x.fn = "realloc" /\ x.size = 0 THEN kept ELSE live
    BY <1>2 DEF Entered
  <2>3. /\ DOMAIN Put(kept, p, b) = DOMAIN kept \cup {p}
        /\ \A q \in DOMAIN kept \ {p} : Put(kept, p, b)[q] = kept[q]
    BY DEF Put
  <2>4. behind' = behind \cup ({x.ptr, p} \ {Null}) /\ Null \notin Ptrs /\ heap' = heap
    BY <1>2, <1>2d, LeakAssumption
  <2>. HIDE DEF kept, b, x, p
  <2>5. \A q \in Ptrs \ behind' : /\ q \in DOMAIN live' <=> q \in DOMAIN live
                                  /\ q \in DOMAIN live => live'[q] = live[q]
    BY <2>1, <2>2, <2>3, <2>4
  <2>6. Exact'
    BY <1>1, <2>4, <2>5 DEF Exact
  <2>. QED
    BY <1>2c, <2>6 DEF Account
<1>2e. SUFFICES ASSUME at[Main] \notin left PROVE Account'
  BY <1>2d
<1>3. /\ pending[at[Main]] = c /\ at[Main] = RetAt(c.site) /\ c \in Calls /\ c.fn # "free"
      /\ c.ptr \in Ptrs \cup {Null} /\ p \in Ptrs \cup {Null} /\ c.site \in Sites
  BY <1>1, <1>2, <1>2e DEF PendsMain, InCall, CallsTyped, Calls, Typed, ProgramTyped, Fresh
<1>4. Fits(c, p)
  BY <1>1, <1>3 DEF ReturnFits
<1>5. c.ptr # Null => c.fn = "realloc"
  BY <1>1, <1>3, PlacesApart DEF Placed, Standing, Calls, Fns
<1>9. Exact'
  <2>. DEFINE kept == Drop(live, c.ptr)
              b == Block(c)
  <2>1. /\ DOMAIN kept = DOMAIN live \ {c.ptr}
        /\ \A q \in DOMAIN live \ {c.ptr} : kept[q] = live[q]
    BY DEF Drop
  <2>2. live' = IF p # Null THEN Put(kept, p, b)
                ELSE IF c.fn = "realloc" /\ c.size = 0 THEN kept ELSE live
    BY <1>2, <1>3 DEF Entered
  <2>3. behind' = behind \ Changed(c, p) /\ Null \notin Ptrs /\ heap' = heap
    BY <1>2, <1>2e, <1>3, LeakAssumption
  <2>4. CASE p # Null
    <3>1. /\ DOMAIN Put(kept, p, b) = DOMAIN kept \cup {p} /\ Put(kept, p, b)[p] = b
          /\ \A q \in DOMAIN kept \ {p} : Put(kept, p, b)[q] = kept[q]
      BY DEF Put
    <3>2. /\ p \in DOMAIN heap /\ heap[p] = b
          /\ \A q \in {c.ptr} \ {p} : q \notin DOMAIN heap
      BY <1>4, <2>4 DEF Fits
    <3>3. live' = Put(kept, p, b) /\ behind' = behind \ ({p, c.ptr} \ {Null})
      BY <2>2, <2>3, <2>4 DEF Changed
    <3>. HIDE DEF kept, b, c, p
    <3>. QED
      BY <1>1, <2>1, <2>3, <3>1, <3>2, <3>3 DEF Exact
  <2>5. CASE p = Null /\ c.fn = "realloc" /\ c.size = 0
    <3>1. live' = kept /\ behind' = behind \ ({p, c.ptr} \ {Null})
      BY <2>2, <2>3, <2>5 DEF Changed
    <3>2. c.ptr # Null => c.ptr \notin DOMAIN heap
      BY <1>4, <2>5 DEF Fits
    <3>. HIDE DEF kept, b, c, p
    <3>. QED
      BY <1>1, <2>1, <2>3, <2>5, <3>1, <3>2 DEF Exact
  <2>6. CASE p = Null /\ ~(c.fn = "realloc" /\ c.size = 0)
    <3>1. live' = live /\ Changed(c, p) = {}
      BY <1>5, <2>2, <2>6 DEF Changed
    <3>. QED
      BY <1>1, <2>3, <3>1 DEF Exact
  <2>. QED
    BY <2>4, <2>5, <2>6
<1>. QED
  BY <1>2c, <1>9 DEF Account

LEMMA WaitAccounts == ASSUME Accounted, Wait, Alone' PROVE Account'
<1>1. /\ Typed /\ Placed /\ Inv /\ Tasks /\ TasksTyped /\ CallsTyped(pending)
      /\ current_tid \in Threads
  BY TypedAll DEF Accounted, Inv, Tasks
<1>2. Falls
  <2>1. ASSUME warm_up_to_own_entry \/ step_over_current_breakpoint PROVE Falls
    BY <1>1, <2>1 DEF warm_up_to_own_entry, step_over_current_breakpoint, StepDone, StepDies,
                      Go, Resume, tasks, Falls, Tasks
  <2>2. ASSUME NEW t \in Threads,
               wait_stopped(t) \/ wait_breakpoint(t) \/ wait_entry(t) \/ wait_return(t)
        PROVE  Falls
    BY <1>1, <2>2 DEF wait_stopped, wait_breakpoint, wait_entry, wait_return, Consume,
                      StepOver, Resume, Falls, Tasks
  <2>3. wait_exited => Falls
    BY DEF wait_exited, tasks, Falls
  <2>. QED
    BY <2>1, <2>2, <2>3 DEF Wait
<1>3. Alone /\ Account
  BY <1>2, AloneFalls DEF Accounted
<1>4. CallsOK
  BY <1>1 DEF Inv
<1>5. ASSUME mode # "prompt", Pends(pending) PROVE Fresh' = {}
  BY <1>4, <1>5, PendsNoneFresh DEF CallsOK
<1>6. ASSUME warm_up_to_own_entry PROVE Account'
  BY <1>3, <1>6, AccountKept DEF warm_up_to_own_entry, program, ghosts
<1>7. ASSUME step_over_current_breakpoint PROVE Account'
  <2>1. UNCHANGED <<at, call, rax, heap, live, behind>> /\ mode # "prompt"
    BY <1>7 DEF step_over_current_breakpoint, program
  <2>2. CASE ~Dead
    BY <1>3, <1>7, <2>1, <2>2, AccountKept DEF step_over_current_breakpoint, StepDone
  <2>3. CASE Dead
    <3>1. Forget(seen) /\ mode \in {"over", "hidden"}
      BY <1>7, <2>3 DEF step_over_current_breakpoint, StepDies
    <3>2. Fresh' = {}
      <4>1. CASE mode = "hidden"
        <5>1. Pends(pending)
          BY <1>7, <2>3, <4>1 DEF step_over_current_breakpoint, StepDies, Return, Fail
        <5>. QED
          BY <1>5, <2>1, <5>1
      <4>2. CASE mode = "over"
        <5>1. UNCHANGED <<pending, left>>
          BY <1>7, <2>3, <4>2 DEF step_over_current_breakpoint, StepDies
        <5>. QED
          BY <1>4, <4>2, <5>1, NoneFresh DEF Fresh
      <4>. QED
        BY <3>1, <4>1, <4>2
    <3>. QED
      BY <1>1, <1>3, <2>1, <3>1, <3>2, AccountForgets
  <2>. QED
    BY <2>2, <2>3
<1>8. ASSUME NEW t \in Threads, wait_stopped(t) \/ wait_breakpoint(t) \/ wait_exited
      PROVE  Account'
  <2>1. /\ UNCHANGED <<at, call, rax, heap, live, behind>> /\ mode # "prompt"
        /\ Pends(pending) /\ Forget(seen)
    BY <1>8 DEF wait_stopped, wait_breakpoint, wait_exited, Return, Hit, Waits, program
  <2>. QED
    BY <1>1, <1>3, <1>5, <2>1, AccountForgets
<1>9. ASSUME NEW t \in Threads, wait_entry(t) \/ wait_return(t) PROVE Account'
  <2>1. report[t] # "none"
    BY <1>9 DEF wait_entry, wait_return, Hit, Waits
  <2>2. t = Main
    BY <1>1, <1>3, <2>1, OnlyMain
  <2>. QED
    BY <1>3, <1>9, <2>2, EntryAccounts, ReturnAccounts
<1>. QED
  BY <1>1, <1>6, <1>7, <1>8, <1>9 DEF Wait

LEMMA LiftsEntryStep == ASSUME Accounted, Next PROVE LiftsEntry'
<1>1. Typed /\ Inv /\ LiftsEntry /\ ControlTyped
  BY TypedAll DEF Accounted
<1>2. CASE Program
  BY <1>1, <1>2 DEF Program, control, LiftsEntry
<1>3. CASE Command
  <2>1. mode' # "hidden"
    BY <1>3 DEF Command, set_leak_tracking, install_breakpoint, delete_breakpoint, switch_thread,
                cont, nexti, stepi, AtPrompt, Focused, control, Cont, Go, StepOver,
                ensure_leak_breakpoints_installed
  <2>. QED
    BY <2>1 DEF LiftsEntry
<1>4. ASSUME NEW t \in Threads, wait_entry(t) PROVE LiftsEntry'
  <2>1. mode' = "prompt" \/ lifted' = at[t]
    BY <1>4 DEF wait_entry, Return, AtPromptAgain, StepOver
  <2>2. \E f : at[t] = Entry(f)
    BY <1>1, <1>4 DEF wait_entry, ControlTyped
  <2>. QED
    BY <2>1, <2>2 DEF LiftsEntry
<1>5. ASSUME NEW t \in Threads, wait_return(t) PROVE LiftsEntry'
  <2>1. mode' = "prompt" \/ UNCHANGED <<mode, lifted>>
    BY <1>5 DEF wait_return, Return, AtPromptAgain
  <2>. QED
    BY <1>1, <2>1 DEF LiftsEntry
<1>6. ASSUME NEW t \in Threads,
             \/ warm_up_to_own_entry \/ step_over_current_breakpoint \/ wait_exited
             \/ wait_stopped(t) \/ wait_breakpoint(t)
      PROVE  mode' # "hidden"
  BY <1>6 DEF warm_up_to_own_entry, step_over_current_breakpoint, wait_exited, wait_stopped,
              wait_breakpoint, StepDone, StepDies, Return, Fail, AtPromptAgain, Go,
              ensure_leak_breakpoints_installed
<1>7. CASE Wait
  <2>1. PICK t : t \in Threads
    BY <1>1 DEF ControlTyped
  <2>. QED
    BY <1>4, <1>5, <1>6, <1>7, <2>1 DEF Wait, LiftsEntry
<1>. QED
  BY <1>2, <1>3, <1>7 DEF Next

LEMMA AccountedInit == ASSUME Init PROVE Accounted
<1>1. Typed /\ Placed /\ Inv
  BY TypedInit, InvInit
<1>2. LiftsEntry
  BY DEF Init, LiftsEntry
<1>3. at[Main] = Loader
  BY LeakAssumption DEF Init
<1>4. Account
  BY <1>3, PlacesApart DEF Init, Account, PendsMain, SeenMain, ReturnFits, Exact, Nothing, Fresh
<1>. QED
  BY <1>1, <1>2, <1>4 DEF Accounted

LEMMA AccountedStep == ASSUME Accounted, [Next]_vars PROVE Accounted'
<1>1. CASE Next
  <2>1. Typed' /\ Placed' /\ Inv'
    BY <1>1, ProgramTypes, CommandTypes, WaitTypes, InvStep DEF Accounted, Next
  <2>2. ASSUME Alone' PROVE Account'
    BY <1>1, <2>2, ProgramAccounts, CommandAccounts, WaitAccounts DEF Next
  <2>. QED
    BY <1>1, <2>1, <2>2, LiftsEntryStep DEF Accounted
<1>2. CASE UNCHANGED vars
  <2>1. Typed' /\ Placed' /\ Inv'
    BY <1>2, TypedIdle, InvStep DEF Accounted
  <2>2. LiftsEntry'
    BY <1>2 DEF Accounted, LiftsEntry, vars, control
  <2>3. ASSUME Alone' PROVE Account'
    <3>1. Alone /\ UNCHANGED <<at, call, rax, heap, pending, live, behind, seen, left>>
      BY <1>2, <2>3 DEF Alone, vars, program, tasks, tracker, ghosts
    <3>. QED
      BY <3>1, AccountKept DEF Accounted
  <2>. QED
    BY <2>1, <2>2, <2>3 DEF Accounted
<1>. QED
  BY <1>1, <1>2

LEMMA AccountedHolds == Spec => []Accounted
<1>1. Init => Accounted
  BY AccountedInit
<1>2. Accounted /\ [Next]_vars => Accounted'
  BY AccountedStep
<1>. QED
  BY <1>1, <1>2, PTL DEF Spec

(* With one thread, whatever commands, stops and breakpoints of the user   *)
(* come between, the ledger has exactly the blocks of the heap, with the   *)
(* call that made each, but for those whose last change it could not see   *)
(* (on_alloc_entry, on_alloc_return).                                      *)
THEOREM LedgerIsExact == Spec => []LedgerExact
<1>1. Accounted => LedgerExact
  BY DEF Accounted, Account, Exact, LedgerExact
<1>. QED
  BY <1>1, AccountedHolds, PTL

(* With one thread, a call seen at its entry and not given up is in the    *)
(* ledger before the program makes the next: its return cannot be passed   *)
(* over (handle_leak_breakpoint).                                          *)
THEOREM CallsAccounted == Spec => []AccountedInTime
<1>1. Accounted => AccountedInTime
  <2>. SUFFICES ASSUME Account, NEW r \in Sites, at[Main] = CallAt(r) PROVE Main \notin seen
    BY DEF Accounted, AccountedInTime
  <2>1. Fresh = {}
    BY PlacesApart DEF Account, PendsMain, InCall
  <2>. QED
    BY <2>1, PlacesApart DEF Account, SeenMain, InCall
<1>. QED
  BY <1>1, AccountedHolds, PTL
=============================================================================
