---------------------------- MODULE CounterPair ----------------------------
(***************************************************************************)
(* 03-Echo+FIFO+Sem/3-4.c: processes P1 and P2 with the semaphores (0, 0). *)
(* P1 increments X, signals 0, waits for 1 and reads Y; P2 waits for 0,    *)
(* increments Y, reads X and signals 1; and so on for ever.                *)
(***************************************************************************)
EXTENDS SysVSemaphores

VARIABLES
  X, Y,     \* the shared memory
  p1, p2    \* what each process does next

vars == <<semVars, X, Y, p1, p2>>

TypeOK == /\ SemTypeOK
          /\ X \in 0 .. Rounds /\ Y \in Nat
          /\ p1 \in {"write", "signal", "wait", "read"}
          /\ p2 \in {"wait", "write", "read", "signal"}

Init == /\ sem = [i \in Sems |-> 0]
        /\ semadj = [pr \in Processes |-> [i \in Sems |-> 0]]
        /\ alive = Processes
        /\ X = 0 /\ Y = 0
        /\ p1 = "write" /\ p2 = "wait"

P1Write  == /\ p1 = "write" /\ X < Rounds
            /\ X' = X + 1
            /\ p1' = "signal"
            /\ UNCHANGED semVars
P1Signal == /\ p1 = "signal" /\ Signal("P1", 0)
            /\ p1' = "wait" /\ UNCHANGED X
P1Wait   == /\ p1 = "wait" /\ Wait("P1", 1)
            /\ p1' = "read" /\ UNCHANGED X
P1Read   == /\ p1 = "read"                           \* prints Y
            /\ p1' = "write" /\ UNCHANGED <<X, semVars>>

P1 == /\ "P1" \in alive
      /\ P1Write \/ P1Signal \/ P1Wait \/ P1Read
      /\ UNCHANGED <<Y, p2>>

\* Mutant of P2Wait: P2 does not wait for its turn.
P2WaitNot == /\ p2 = "wait"
             /\ p2' = "write" /\ UNCHANGED <<Y, semVars>>

P2Wait   == /\ p2 = "wait" /\ Wait("P2", 0)
            /\ p2' = "write" /\ UNCHANGED Y
P2Write  == /\ p2 = "write"
            /\ Y' = Y + 1
            /\ p2' = "read" /\ UNCHANGED semVars
P2Read   == /\ p2 = "read"                           \* prints X
            /\ p2' = "signal" /\ UNCHANGED <<Y, semVars>>
P2Signal == /\ p2 = "signal" /\ Signal("P2", 1)
            /\ p2' = "wait" /\ UNCHANGED Y

P2 == /\ "P2" \in alive
      /\ P2Wait \/ P2Write \/ P2Read \/ P2Signal
      /\ UNCHANGED <<X, p1>>

Killed == /\ MayDie
          /\ \E pr \in Processes : Kill(pr)
          /\ UNCHANGED <<X, Y, p1, p2>>

Next == P1 \/ P2 \/ Killed

Spec == Init /\ [][Next]_vars

\* The scheduler runs both processes.
FairSpec == Spec /\ WF_vars(P1) /\ WF_vars(P2)

-----------------------------------------------------------------------------
(***************************************************************************)
(* What should be true.                                                    *)
(***************************************************************************)

\* P1 and P2 are never both between a wait and the signal that answers it,
\* also when one of them is killed and the kernel undoes its operations.
Exclusion == ~ (p1 \in {"write", "signal", "read"} /\ p2 \in {"write", "read", "signal"})

\* The values that P1 and P2 print of each other's counter are those of the
\* same round (3-4.c:48 and 3-4.c:62).
ReadsAgree == p1 = "read" \/ p2 = "read" => X = Y

\* The processes increment the counters in turn.
Turns == INSTANCE Alternation
InTurn == Turns!Spec

\* Each increment of X by P1 is followed by one of Y by P2, unless one of them
\* is killed.
Answered == \A n \in 1 .. Rounds : X = n ~> Y = n \/ alive # Processes
=============================================================================
