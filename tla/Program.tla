------------------------------ MODULE Program -------------------------------
(***************************************************************************)
(* The debugged program by itself: one thread that executes Code, with no  *)
(* debugger about.  It is what Stepping's thread executes instruction by   *)
(* instruction, and what Stepping as a whole must implement: whatever tdb  *)
(* patches, lifts, steps over and moves back, the program executes its own *)
(* instructions in its own order.                                          *)
(*                                                                         *)
(* The stack holds return addresses, saved frame pointers (Fp) and         *)
(* anything else (Data).                                                   *)
(***************************************************************************)
EXTENDS Integers, Sequences

CONSTANTS Code,        \* address -> [op, len, to, line, is_stmt]
          Entry,       \* where the program stops after `run`
          MaxStack,    \* bound on recursion: no branch falls through beyond it
          Fp, Data     \* what the stack holds besides return addresses

VARIABLES pc, stack

Init == pc = Entry /\ stack = <<Data>>

Frames   == {i \in 1 .. Len(stack) : stack[i] = Fp}
TopFrame == CHOOSE i \in Frames : \A j \in Frames : j <= i

Top    == stack[Len(stack)]
Popped == SubSeq(stack, 1, Len(stack) - 1)

Faults == \/ pc \notin DOMAIN Code
          \/ Code[pc].op = "leave" /\ Frames = {}
          \/ Code[pc].op = "ret" /\ (stack = <<>> \/ Top \notin DOMAIN Code)

Following == pc + Code[pc].len

Plain  == Code[pc].op = "plain" /\ pc' = Following /\ UNCHANGED stack
Call   == Code[pc].op = "call" /\ pc' = Code[pc].to /\ stack' = Append(stack, Following)
Taken  == Code[pc].op = "branch" /\ pc' = Code[pc].to /\ UNCHANGED stack
Passed == /\ Code[pc].op = "branch" /\ Len(stack) < MaxStack
          /\ pc' = Following /\ UNCHANGED stack
Enter  == Code[pc].op = "enter" /\ pc' = Following /\ stack' = stack \o <<Fp, Data>>
Leave  == /\ Code[pc].op = "leave"
          /\ pc' = Following /\ stack' = SubSeq(stack, 1, TopFrame - 1)
Ret    == Code[pc].op = "ret" /\ pc' = Top /\ stack' = Popped
Exit   == Code[pc].op = "exit" /\ UNCHANGED <<pc, stack>>

Step == ~Faults /\ (Plain \/ Call \/ Taken \/ Passed \/ Enter \/ Leave \/ Ret \/ Exit)

Spec == Init /\ [][Step]_<<pc, stack>>
=============================================================================
