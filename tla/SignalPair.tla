----------------------------- MODULE SignalPair -----------------------------
(***************************************************************************)
(* 04-signals+polling/3.c: P1 and its child P2 take turns with SIGUSR1 and *)
(* SIGUSR2.  The turn is passed to the process whose ID is in the shared   *)
(* memory; P2 puts its own there when it starts, and P1 waits a second     *)
(* before the first turn so that it finds it.                              *)
(*                                                                         *)
(* A process is interrupted by a handler anywhere in main; a signal for    *)
(* which it has no handler ends it.  kill(0) signals both processes.       *)
(***************************************************************************)
EXTENDS Naturals

CONSTANT Rounds   \* bound: turns of P1

VARIABLES
  X, Y,    \* the shared memory, with
  currID,  \* the process that had the last turn
  main,    \* where main is in each process
  handler, \* where its handler is
  target,  \* pidToSend
  pending, \* signals on their way, with the process they go to
  alive,   \* the processes that run
  late     \* P2 may need more than the second in which P1 sleeps

Processes == {"P1", "P2"}
Nobody    == "0"                \* currID as shmget leaves it

signalVars == <<currID, main, handler, target, pending, alive, late>>
vars == <<X, Y, signalVars>>

TypeOK ==
  /\ X \in 1 .. Rounds + 1 /\ Y \in Nat
  /\ currID \in Processes \union {Nobody}
  /\ main \in [Processes -> {"start", "store", "loop"}]
  /\ handler \in [Processes -> {"none", "increment", "take", "store", "send"}]
  /\ target \in [Processes -> Processes \union {Nobody}]
  /\ pending \in SUBSET (Processes \X {"SIGUSR1", "SIGUSR2"})
  /\ alive \in SUBSET Processes
  /\ late \in BOOLEAN

Init ==
  /\ X = 1 /\ Y = 1
  /\ currID = Nobody
  /\ main = [p \in Processes |-> "start"]
  /\ handler = [p \in Processes |-> "none"]
  /\ target = [p \in Processes |-> Nobody]
  /\ pending = {}
  /\ alive = Processes
  /\ late \in BOOLEAN

-----------------------------------------------------------------------------
(* main. *)

\* main of p goes on, unless its handler runs or the process has ended.
Main(p, from, to) ==
  /\ p \in alive /\ handler[p] = "none"
  /\ main[p] = from
  /\ main' = [main EXCEPT ![p] = to]

\* P2: signal().
Install2 == /\ Main("P2", "start", "store")
            /\ UNCHANGED <<X, Y, currID, handler, target, pending, alive, late>>

\* P2: shm->currID = getpid().
Enter2 == /\ Main("P2", "store", "loop")
          /\ currID' = "P2"
          /\ UNCHANGED <<X, Y, handler, target, pending, alive, late>>

\* P1: after a second, raise(SIGUSR1), which its handler takes at once.
Raise1 == /\ Main("P1", "start", "loop")
          /\ late \/ main["P2"] = "loop"
          /\ handler' = [handler EXCEPT !["P1"] = "increment"]
          /\ UNCHANGED <<X, Y, currID, target, pending, alive, late>>

-----------------------------------------------------------------------------
(* The handlers hdfn1 and hdfn2. *)

\* The handler of p goes on.
Goes(p, from, to) ==
  /\ p \in alive
  /\ handler[p] = from
  /\ handler' = [handler EXCEPT ![p] = to]

Increment1 == /\ Goes("P1", "increment", "take")
              /\ X <= Rounds
              /\ X' = X + 1
              /\ UNCHANGED <<Y, currID, main, target, pending, alive, late>>

Increment2 == /\ Goes("P2", "increment", "take")
              /\ Y' = Y + 1
              /\ UNCHANGED <<X, currID, main, target, pending, alive, late>>

\* Mutant of Take: the process finds itself in the shared memory.
TakeOwn(p) == /\ Goes(p, "take", "store")
              /\ target' = [target EXCEPT ![p] = p]
              /\ UNCHANGED <<X, Y, currID, main, pending, alive, late>>

Take(p) == /\ Goes(p, "take", "store")
           /\ target' = [target EXCEPT ![p] = currID]
           /\ UNCHANGED <<X, Y, currID, main, pending, alive, late>>

Store(p) == /\ Goes(p, "store", "send")
            /\ currID' = p
            /\ UNCHANGED <<X, Y, main, target, pending, alive, late>>

\* The signal that the handler of p sends.
Sent(p) == IF p = "P1" THEN "SIGUSR2" ELSE "SIGUSR1"

\* kill; the handler returns.  A process that signals itself, and has no handler
\* for that signal, ends before kill returns.
Send(p) ==
  LET to == IF target[p] = Nobody THEN Processes ELSE {target[p]}
  IN  /\ Goes(p, "send", "none")
      /\ pending' = pending \union ((to \ {p}) \X {Sent(p)})
      /\ alive' = alive \ (to \intersect {p})
      /\ UNCHANGED <<X, Y, currID, main, target, late>>

Handles(p, s) == \/ p = "P1" /\ s = "SIGUSR1"
                 \/ p = "P2" /\ s = "SIGUSR2" /\ main["P2"] # "start"

\* Signal s reaches p, which runs its handler, if it is not in it, or ends.
Deliver(p, s) ==
  /\ <<p, s>> \in pending
  /\ pending' = pending \ {<<p, s>>}
  /\ \/ Handles(p, s) /\ Goes(p, "none", "increment") /\ UNCHANGED alive
     \/ ~ Handles(p, s) /\ alive' = alive \ {p} /\ UNCHANGED handler
  /\ UNCHANGED <<X, Y, currID, main, target, late>>

Process1 == \/ Raise1 \/ Increment1
            \/ Take("P1") \/ Store("P1") \/ Send("P1")
            \/ \E s \in {"SIGUSR1", "SIGUSR2"} : Deliver("P1", s)

Process2 == \/ Install2 \/ Enter2 \/ Increment2
            \/ Take("P2") \/ Store("P2") \/ Send("P2")
            \/ \E s \in {"SIGUSR1", "SIGUSR2"} : Deliver("P2", s)

Next == Process1 \/ Process2

Spec == Init /\ [][Next]_vars

\* The scheduler runs both processes, and signals arrive.
FairSpec == Spec /\ WF_vars(Process1) /\ WF_vars(Process2)

-----------------------------------------------------------------------------
(***************************************************************************)
(* What should be true.                                                    *)
(***************************************************************************)

\* The processes that have the turn or are being given it.
HasTurn == {p \in alive : handler[p] # "none" \/ \E s \in {"SIGUSR1", "SIGUSR2"} :
                                                     Handles(p, s) /\ <<p, s>> \in pending}

\* The handlers of the two processes never run at once, and when the first
\* round has been completed no signal ends a process (3.c:33-35 and 45-47).
Exclusion == /\ \A p, q \in HasTurn : p = q
             /\ X > 2 => alive = Processes

\* The counter of the other process that a handler prints (3.c:29 and 42) is
\* that of the same round.
ReadsAgree == /\ handler["P1"] = "increment" => X = Y
              /\ handler["P2"] = "increment" => X = Y + 1

\* The processes increment the counters in turn, from 1.
Turns == INSTANCE Alternation WITH X <- X - 1, Y <- Y - 1
InTurn == Turns!Spec

\* Each increment of X is followed by one of Y, if P2 has put its ID into the
\* shared memory in time; if it has not, a signal may end a process.
Answered == \A n \in 1 .. Rounds :
              X = n + 1 ~> Y = n + 1 \/ (late /\ alive # Processes)
=============================================================================
