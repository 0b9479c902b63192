---------------------------- MODULE Alternation ----------------------------
(***************************************************************************)
(* What the semaphore programs 3-4.c and 3-5.c and the signal program 3.c  *)
(* promise: two counters in shared memory that their processes increment   *)
(* strictly in turn, X first.                                              *)
(***************************************************************************)
EXTENDS Naturals

VARIABLES X, Y

Init == X = 0 /\ Y = 0

IncrementX == X = Y     /\ X' = X + 1 /\ UNCHANGED Y
IncrementY == X = Y + 1 /\ Y' = Y + 1 /\ UNCHANGED X

Next == IncrementX \/ IncrementY

Spec == Init /\ [][Next]_<<X, Y>>
=============================================================================
