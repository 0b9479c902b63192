--------------------------- MODULE SysVSemaphores ---------------------------
(***************************************************************************)
(* The pair of System V semaphores that the programs of 03-Echo+FIFO+Sem   *)
(* (3-4.c, 3-5.c) share between a process P1 and a process P2, through the *)
(* functions Wait and Signal.  Both functions pass SEM_UNDO and ignore     *)
(* what semop returns.                                                     *)
(*                                                                         *)
(* With SEM_UNDO the kernel keeps, per process and semaphore, the          *)
(* adjustment it will make when the process ends.  An operation that would *)
(* take the adjustment past SEMAEM, or the semaphore past its largest      *)
(* value, fails with ERANGE and does nothing; a wait fails like that only  *)
(* once the semaphore is positive.  Both limits are 32767 in Linux.        *)
(***************************************************************************)
EXTENDS Integers

CONSTANTS
  SEMAEM,   \* the largest value and adjustment of a semaphore
  Rounds,   \* bound: rounds of P1
  MayDie    \* one of the processes may be killed

ASSUME SemaemAssumption == SEMAEM \in Nat \ {0}
ASSUME RoundsAssumption == Rounds \in Nat
ASSUME MayDieAssumption == MayDie \in BOOLEAN

Processes == {"P1", "P2"}
Sems      == {0, 1}

VARIABLES
  sem,     \* values of the semaphores
  semadj,  \* what the end of each process will add to them
  alive    \* the processes that have not been killed

semVars == <<sem, semadj, alive>>

SemTypeOK ==
  /\ sem \in [Sems -> 0 .. SEMAEM]
  /\ semadj \in [Processes -> [Sems -> Int]]
  /\ alive \in SUBSET Processes

\* Mutant of Change: the operation is made twice.
ChangeTwice(pr, i, d) ==
  /\ sem' = [sem EXCEPT ![i] = @ + 2 * d]
  /\ semadj' = [semadj EXCEPT ![pr][i] = @ - d]
  /\ UNCHANGED alive

\* semop on semaphore i by d, and its reverse noted for the end of pr.
Change(pr, i, d) ==
  /\ sem' = [sem EXCEPT ![i] = @ + d]
  /\ semadj' = [semadj EXCEPT ![pr][i] = @ - d]
  /\ UNCHANGED alive

Wait(pr, i) ==
  /\ sem[i] > 0
  /\ IF semadj[pr][i] + 1 <= SEMAEM
     THEN Change(pr, i, -1)
     ELSE UNCHANGED semVars

Signal(pr, i) ==
  IF semadj[pr][i] - 1 >= - SEMAEM - 1 /\ sem[i] < SEMAEM
  THEN Change(pr, i, 1)
  ELSE UNCHANGED semVars

\* The semaphore that results from adding a to v.
Adjusted(v, a) == IF v + a < 0 THEN 0 ELSE IF v + a > SEMAEM THEN SEMAEM ELSE v + a

\* A signal ends process pr.
Kill(pr) ==
  /\ pr \in alive
  /\ alive' = alive \ {pr}
  /\ sem' = [i \in Sems |-> Adjusted(sem[i], semadj[pr][i])]
  /\ semadj' = [semadj EXCEPT ![pr] = [i \in Sems |-> 0]]
=============================================================================
