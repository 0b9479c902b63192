---------------------------- MODULE CounterLock ----------------------------
(***************************************************************************)
(* 03-Echo+FIFO+Sem/3-5.c: processes P1 and P2 with the semaphores (1, 0). *)
(* Semaphore 0 is both the lock that P1 takes to increment X and the       *)
(* signal of P2 that Y has been incremented.                               *)
(***************************************************************************)
EXTENDS SysVSemaphores

VARIABLES
  X, Y,     \* the shared memory
  p1, p2    \* what each process does next

vars == <<semVars, X, Y, p1, p2>>

TypeOK == /\ SemTypeOK
          /\ X \in 0 .. Rounds /\ Y \in Nat
          /\ p1 \in {"enter", "write", "signal", "wait", "read", "release"}
          /\ p2 \in {"wait", "read", "write", "signal"}

Init == /\ sem = [i \in Sems |-> IF i = 0 THEN 1 ELSE 0]
        /\ semadj = [pr \in Processes |-> [i \in Sems |-> 0]]
        /\ alive = Processes
        /\ X = 0 /\ Y = 0
        /\ p1 = "enter" /\ p2 = "wait"

P1Enter   == /\ p1 = "enter" /\ Wait("P1", 0)
             /\ p1' = "write" /\ UNCHANGED X
P1Write   == /\ p1 = "write" /\ X < Rounds
             /\ X' = X + 1
             /\ p1' = "signal" /\ UNCHANGED semVars
P1Signal  == /\ p1 = "signal" /\ Signal("P1", 1)
             /\ p1' = "wait" /\ UNCHANGED X

\* Mutant of P1Wait: the second wait for s1 is missing.
P1WaitNot == /\ p1 = "wait"
             /\ p1' = "read" /\ UNCHANGED <<X, semVars>>

P1Wait    == /\ p1 = "wait" /\ Wait("P1", 0)
             /\ p1' = "read" /\ UNCHANGED X
P1Read    == /\ p1 = "read"                          \* prints Y
             /\ p1' = "release" /\ UNCHANGED <<X, semVars>>
P1Release == /\ p1 = "release" /\ Signal("P1", 0)
             /\ p1' = "enter" /\ UNCHANGED X

P1 == /\ "P1" \in alive
      /\ P1Enter \/ P1Write \/ P1Signal \/ P1Wait \/ P1Read \/ P1Release
      /\ UNCHANGED <<Y, p2>>

P2Wait   == /\ p2 = "wait" /\ Wait("P2", 1)
            /\ p2' = "read" /\ UNCHANGED Y
P2Read   == /\ p2 = "read"                           \* prints X
            /\ p2' = "write" /\ UNCHANGED <<Y, semVars>>
P2Write  == /\ p2 = "write"
            /\ Y' = Y + 1
            /\ p2' = "signal" /\ UNCHANGED semVars
P2Signal == /\ p2 = "signal" /\ Signal("P2", 0)
            /\ p2' = "wait" /\ UNCHANGED Y

P2 == /\ "P2" \in alive
      /\ P2Wait \/ P2Read \/ P2Write \/ P2Signal
      /\ UNCHANGED <<X, p1>>

Killed == /\ MayDie
          /\ \E pr \in Processes : Kill(pr)
          /\ UNCHANGED <<X, Y, p1, p2>>

Next == P1 \/ P2 \/ Killed

Spec == Init /\ [][Next]_vars

\* The scheduler runs both processes.
FairSpec == Spec /\ WF_vars(P1) /\ WF_vars(P2)

-----------------------------------------------------------------------------
(***************************************************************************)
(* What should be true.                                                    *)
(***************************************************************************)

\* P1 and P2 are never both between a wait and the signal that answers it
\* (3-5.c:43-50 and 59-65), also when one of them is killed.
Exclusion == ~ (p1 \in {"write", "signal", "read", "release"}
                /\ p2 \in {"read", "write", "signal"})

\* P1 reads the value of Y that answers its X, although semaphore 0 could let
\* it through before P2 has run; P2 reads the X of the round it is to answer.
ReadsAgree == /\ p1 = "read" => X = Y
              /\ p2 = "read" => X = Y + 1

\* The processes increment the counters in turn.
Turns == INSTANCE Alternation
InTurn == Turns!Spec

\* Each increment of X by P1 is followed by one of Y by P2, unless one of them
\* is killed.
Answered == \A n \in 1 .. Rounds : X = n ~> Y = n \/ alive # Processes
=============================================================================
