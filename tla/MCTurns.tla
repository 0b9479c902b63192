------------------------------ MODULE MCTurns ------------------------------
(* The programs that take turns, for TLC: each behaviour is one of 3-4.c,   *)
(* of 3-5.c, of signals+polling/3.c, of the shared service or of the        *)
(* railway junction, chosen at the start.                                   *)
EXTENDS ESS, SysVSemaphores

CONSTANTS
  a, b,                                    \* clients of the shared service
  Trains, NumPlatforms, MaxInside, Slow,   \* of RailJunction
  t1, t2, t3

TwoClients  == {a, b}
ThreeTrains == {t1, t2, t3}

VARIABLES
  program,
  X, Y, p1, p2,                                             \* of the counters
  currID, main, handler, target, pending, running, late,    \* of SignalPair
  status, spc, sready, told, next, entryQ, smQ, trainQ, pfQ,\* of RailJunction
  ppc, serving, tpc, number

Pair    == INSTANCE CounterPair
Lock    == INSTANCE CounterLock
Signals == INSTANCE SignalPair WITH alive <- running
Rail    == INSTANCE RailJunction

\* What RailJunction assumes of its constants.
ASSUME TrainsAssumption == Rail!JunctionAssumption

Programs == {"3-4", "3-5", "3", "ess", "rail"}

counterVars == <<X, Y, p1, p2, semVars>>
signalVars  == <<currID, main, handler, target, pending, running, late>>
railVars    == <<status, spc, sready, told, next, entryQ, smQ, trainQ, pfQ,
                 ppc, serving, tpc, number>>
allVars     == <<program, vars, counterVars, signalVars, railVars>>

\* The variables of the programs that were not chosen keep these values.
NoCounters == Pair!Init
NoSignals  == /\ currID = "0" /\ main = <<>> /\ handler = <<>> /\ target = <<>>
              /\ pending = {} /\ running = {} /\ late = FALSE

MCInit ==
  /\ program \in Programs
  /\ Init /\ Rail!Init
  /\ CASE program = "3-5" -> Lock!Init /\ NoSignals
       [] program = "3"   -> /\ Signals!Init /\ p1 = "write" /\ p2 = "wait"
                             /\ sem = <<>> /\ semadj = <<>> /\ alive = {}
       [] OTHER           -> NoCounters /\ NoSignals

\* A step of the program that was chosen.
Step(pair, lock, signals, ess, rail) ==
  /\ UNCHANGED program
  /\ \/ /\ \/ program = "3-4" /\ pair
           \/ program = "3-5" /\ lock
        /\ UNCHANGED <<vars, signalVars, railVars>>
     \/ /\ program = "3" /\ signals
        /\ UNCHANGED <<vars, p1, p2, semVars, railVars>>
     \/ /\ program = "ess" /\ ess
        /\ UNCHANGED <<counterVars, signalVars, railVars>>
     \/ /\ program = "rail" /\ rail
        /\ UNCHANGED <<vars, counterVars, signalVars>>

MCNext == Step(Pair!Next, Lock!Next, Signals!Next, Next, Rail!Next)

\* The fairness of each program, as its own FairSpec states it.
MCFairSpec ==
  /\ MCInit /\ [][MCNext]_allVars
  /\ WF_allVars(Step(Pair!P1, Lock!P1, Signals!Process1, Connected, Rail!Station))
  /\ WF_allVars(Step(Pair!P2, Lock!P2, Signals!Process2, Deliver(C1), Rail!Platform(1)))
  /\ WF_allVars(Step(FALSE, FALSE, FALSE, Deliver(a), Rail!Platform(2)))
  /\ WF_allVars(Step(FALSE, FALSE, FALSE, Deliver(b), Rail!Arrive(t1)))
  /\ WF_allVars(Step(FALSE, FALSE, FALSE,
                     Hello(a) \/ Wake(a) \/ Requeue(a) \/ SignalNext(a), Rail!Arrive(t2)))
  /\ WF_allVars(Step(FALSE, FALSE, FALSE,
                     Hello(b) \/ Wake(b) \/ Requeue(b) \/ SignalNext(b), Rail!Arrive(t3)))
  /\ \A c \in {a, b} : /\ SF_allVars(Step(FALSE, FALSE, FALSE, ReadAnswer(c), FALSE))
                       /\ SF_allVars(Step(FALSE, FALSE, FALSE, Stop(c), FALSE))

-----------------------------------------------------------------------------
\* The type invariants of the programs.
MCTypeOK == /\ TypeOK
            /\ program = "3-4"  => Pair!TypeOK
            /\ program = "3-5"  => Lock!TypeOK
            /\ program = "3"    => Signals!TypeOK
            /\ program = "rail" => Rail!TypeOK

\* The two processes of 3-4.c, of 3-5.c and of 3.c exclude each other, and the counters
\* that are printed are those of one round.
OneRound == /\ program = "3-4" => Pair!Exclusion /\ Pair!ReadsAgree
            /\ program = "3-5" => Lock!Exclusion /\ Lock!ReadsAgree
            /\ program = "3"   => Signals!Exclusion /\ Signals!ReadsAgree

\* The station takes no platform for empty that is not (RailJunction).
StatusSound == Rail!StatusSound

\* X and Y are incremented in turn, by 3-4.c and 3-5.c from 0, by 3.c from 1:
\* all three implement Alternation.
First   == IF program = "3" THEN 1 ELSE 0
Turns   == INSTANCE Alternation WITH X <- X - First, Y <- Y - First
InTurn  == Turns!Spec

\* Every increment of X is answered by one of Y.
Answered == \A n \in 1 .. Rounds :
              X = n + First ~> \/ Y = n + First
                               \/ program # "3" /\ alive # Processes
                               \/ program = "3" /\ late /\ running # Processes

\* The platforms read what they expect, become free again and are given to the
\* trains that ask for them (RailJunction).
PlatformProtocol == Rail!PlatformProtocol
PlatformsServe   == Rail!Freed /\ Rail!Granted
=============================================================================
