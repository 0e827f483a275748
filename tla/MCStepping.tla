----------------------------- MODULE MCStepping -----------------------------
(* Model checking of Stepping on a program with a recursive function f     *)
(* (from 30) and a function g without line rows (from 50), called by main  *)
(* (from 10), which is called by code without line rows (from 0).          *)
EXTENDS Stepping, TLC

Ins(op, len, to, line, is_stmt) ==
    [op |-> op, len |-> len, to |-> to, line |-> line, is_stmt |-> is_stmt]

MCCode ==
      0 :> Ins("call", 2, 10, 0, FALSE) @@ 2 :> Ins("exit", 2, 0, 0, FALSE)
   @@ 10 :> Ins("enter", 2, 0, 1, TRUE)
   @@ 12 :> Ins("call", 2, 30, 2, TRUE) @@ 14 :> Ins("plain", 2, 0, 2, FALSE)
   @@ 16 :> Ins("call", 2, 50, 3, TRUE)
   @@ 18 :> Ins("leave", 1, 0, 4, TRUE) @@ 19 :> Ins("ret", 1, 0, 4, FALSE)
   @@ 30 :> Ins("enter", 2, 0, 5, TRUE)
   @@ 32 :> Ins("branch", 2, 36, 6, TRUE) @@ 34 :> Ins("call", 2, 30, 6, FALSE)
   @@ 36 :> Ins("plain", 2, 0, 7, TRUE)
   @@ 38 :> Ins("leave", 1, 0, 8, TRUE) @@ 39 :> Ins("ret", 1, 0, 8, FALSE)
   @@ 50 :> Ins("plain", 2, 0, 0, FALSE) @@ 52 :> Ins("ret", 1, 0, 0, FALSE)

(* Instructions of two bytes and more; and one of a single byte.           *)
LongAddrs  == {12, 14, 34, 36, 50}
ShortAddrs == {18}
=============================================================================
