---------------------------- MODULE TurnsProofs ----------------------------
(***************************************************************************)
(* Proofs about the programs that take turns.                              *)
(*                                                                         *)
(* First those about ESS.  There is one turn: it is with a process that    *)
(* uses the service, with a signal on its way or with a flag that a        *)
(* handler has cleared.  As long as no text begins with 0, nothing makes a *)
(* second one.  Hence nobody waits twice, and the FIFO holds one message   *)
(* at most, that of the client that has the turn.                          *)
(*                                                                         *)
(* Then those about CounterPair, CounterLock and SignalPair.  Under        *)
(* semaphores, as long as P1 makes no more rounds than the kernel can      *)
(* undo, P1 and P2 exclude each other and alternate, whichever of them is  *)
(* killed and whenever.  With signals they do so once both know of each    *)
(* other; a P1 that starts too early signals itself as well, and ends.     *)
(*                                                                         *)
(* And those about MCTurns, in which a behaviour is one of one program;    *)
(* for the junction it takes what RailJunctionProofs shows.                *)
(***************************************************************************)
EXTENDS MCTurns, FiniteSetTheorems, SequenceTheorems, TLAPS

R == INSTANCE RailJunctionProofs

-----------------------------------------------------------------------------
(* ESS.                                                                      *)

\* What the server converts is a sequence of texts again.
LEMMA ConvertedType ==
  ASSUME NEW s \in Seq(Texts)
  PROVE  [i \in DOMAIN s |-> [s[i] EXCEPT !.upper = TRUE]] \in Seq(Texts)
<1>1. \A i \in 1 .. Len(s) : s[i] \in Texts
  OBVIOUS
<1>2. \A i \in 1 .. Len(s) : [s[i] EXCEPT !.upper = TRUE] \in Texts
  BY <1>1 DEF Texts
<1>3. DOMAIN s = 1 .. Len(s) /\ Len(s) \in Nat
  OBVIOUS
<1>4. [i \in 1 .. Len(s) |-> [s[i] EXCEPT !.upper = TRUE]] \in [1 .. Len(s) -> Texts]
  BY <1>2
<1> QED BY <1>3, <1>4

\* A turn passed on leaves queue, signals and flags well typed.
LEMMA PassTurnType ==
  ASSUME TypeOK, NEW p \in Procs, PassTurn(p)
  PROVE  /\ queue' \in Seq(Procs)
         /\ signalled' \in SUBSET Procs
         /\ waiting' \in [Procs -> {0, 1}]
         /\ ffdOpen' \in BOOLEAN
<1>1. Head(queue) \in Procs /\ Tail(queue) \in Seq(Procs)
  BY DEF PassTurn, TypeOK
<1> QED BY <1>1 DEF PassTurn, Handler, TypeOK

(***************************************************************************)
(* Type correctness.                                                       *)
(***************************************************************************)

\* TypeOK is an invariant.
THEOREM TypeCorrect == Spec => []TypeOK
<1>1. Init => TypeOK
  <2> SUFFICES ASSUME Init PROVE TypeOK
    OBVIOUS
  <2>1. waiting \in [Procs -> {0, 1}]
    BY DEF Init
  <2>2. queue \in Seq(Procs) /\ fifo \in Seq(Texts) /\ buff \in Seq(Texts)
    BY DEF Init
  <2>3. <<>> \in Seq(Texts)
    OBVIOUS
  <2>4. shown \in [Clients -> Seq(Texts)]
    BY <2>3 DEF Init
  <2>5. cpc \in [Clients -> {"start", "wait", "use", "read", "requeue", "next"}]
    BY DEF Init
  <2>6. texts \in [Clients -> Nat]
    BY DEF Init
  <2> QED BY <2>1, <2>2, <2>4, <2>5, <2>6 DEF Init, TypeOK
<1>2. TypeOK /\ [Next]_vars => TypeOK'
  <2> SUFFICES ASSUME TypeOK, [Next]_vars PROVE TypeOK'
    OBVIOUS
  <2>1. ASSUME NEW p \in Procs, Deliver(p) PROVE TypeOK'
    BY <2>1 DEF Deliver, Handler, TypeOK, clientVars
  <2>2. ASSUME NEW c \in Clients, Client(c) PROVE TypeOK'
    <3> c \in Procs
      BY DEF Procs
    <3>1. CASE Hello(c)
      BY <3>1 DEF Hello, Enqueue, TypeOK, c1Vars
    <3>2. CASE Wake(c)
      BY <3>2 DEF Wake, TypeOK, c1Vars
    <3>3. CASE Ask(c)
      <4>1. PICK z \in {FALSE, ZeroTexts} :
              fifo' = Append(fifo, [owner |-> c, n |-> texts[c] + 1, zero |-> z,
              upper |-> FALSE])
        BY <3>3 DEF Ask
      <4>2. texts[c] + 1 \in Nat
        BY DEF TypeOK
      <4>3. [owner |-> c, n |-> texts[c] + 1, zero |-> z, upper |-> FALSE] \in Texts
        BY <4>2, SwitchAssumption DEF Texts
      <4>4. fifo' \in Seq(Texts)
        BY <4>1, <4>3 DEF TypeOK
      <4> QED BY <3>3, <4>2, <4>4 DEF Ask, TypeOK, turnVars, c1Vars
    <3>4. CASE ReadAnswer(c)
      BY <3>4 DEF ReadAnswer, TypeOK, turnVars, c1Vars
    <3>5. CASE Stop(c)
      BY <3>5 DEF Stop, TypeOK, turnVars, c1Vars
    <3>6. CASE Requeue(c)
      BY <3>6 DEF Requeue, Enqueue, TypeOK, c1Vars
    <3>7. CASE SignalNext(c)
      BY <3>7, PassTurnType DEF SignalNext, TypeOK
    <3> QED BY <2>2, <3>1, <3>2, <3>3, <3>4, <3>5, <3>6, <3>7 DEF Client
  <2>3. CASE Connected
    <3> C1 \in Procs
      BY DEF Procs
    <3>1. CASE StartC1
      BY <3>1 DEF StartC1, TypeOK, clientVars
    <3>2. CASE TestWaiting
      BY <3>2 DEF TestWaiting, TypeOK, clientVars
    <3>3. CASE OpenFifo
      BY <3>3 DEF OpenFifo, TypeOK, turnVars, clientVars
    <3>4. CASE ReadFifo
      <4>0. <<>> \in Seq(Texts)
        OBVIOUS
      <4>1. fifo' \in Seq(Texts)
        BY <3>4, <4>0 DEF ReadFifo, TypeOK
      <4>2. buff' \in Seq(Texts)
        BY <3>4 DEF ReadFifo, TypeOK
      <4>3. waiting' \in [Procs -> {0, 1}]
        BY <3>4 DEF ReadFifo, TypeOK
      <4>4. ffdOpen' \in BOOLEAN
        BY <3>4 DEF ReadFifo, TypeOK
      <4>5. xpc' \in {"use", "convert", "hung"}
        BY <3>4 DEF ReadFifo
      <4> QED BY <3>4, <4>1, <4>2, <4>3, <4>4, <4>5 DEF ReadFifo, TypeOK, clientVars
    <3>5. CASE Convert
      BY <3>5, ConvertedType DEF Convert, TypeOK, turnVars, clientVars
    <3>6. CASE WriteFifo
      BY <3>6 DEF WriteFifo, TypeOK, turnVars, clientVars
    <3>7. CASE StopC1
      BY <3>7 DEF StopC1, TypeOK, turnVars, clientVars
    <3>8. CASE RequeueC1
      BY <3>8 DEF RequeueC1, Enqueue, TypeOK, clientVars
    <3>9. CASE SignalNextC1
      BY <3>9, PassTurnType DEF SignalNextC1, TypeOK, clientVars
    <3> QED BY <2>3, <3>1, <3>2, <3>3, <3>4, <3>5, <3>6, <3>7, <3>8, <3>9 DEF Connected
  <2>4. CASE UNCHANGED vars
    BY <2>4 DEF vars, turnVars, clientVars, c1Vars, TypeOK
  <2> QED BY <2>1, <2>2, <2>3, <2>4 DEF Next
<1> QED BY <1>1, <1>2, PTL DEF Spec

(***************************************************************************)
(* One user at a time.                                                     *)
(***************************************************************************)

\* Process p uses the service, is being signalled or has been.
Turn(p) == p \in Using \/ p \in signalled \/ waiting[p] = 0

OneTurn == \A p, q \in Procs : Turn(p) /\ Turn(q) => p = q

\* A turn is in one place: with the user, with the signal or with the flag.
OnePlace == \A p \in Procs : /\ p \in Using => p \notin signalled
                             /\ p \in Using \union signalled => waiting[p] = 1

NoZero == /\ \A i \in 1 .. Len(fifo) : ~ fifo[i].zero
          /\ \A i \in 1 .. Len(buff) : ~ buff[i].zero

\* Who uses the service.
LEMMA UsingIs ==
  /\ \A c \in Clients : c \in Using <=> cpc[c] \in {"use", "read", "requeue", "next"}
  /\ C1 \in Using <=> xpc \in {"use", "requeue", "next"}
  /\ Using \subseteq Procs
BY ClientsAssumption DEF Using, Procs

\* A step that neither gives nor takes a turn.
LEMMA TurnStays ==
  ASSUME OneTurn, OnePlace, UNCHANGED <<signalled, waiting>>, Using' = Using
  PROVE  OneTurn' /\ OnePlace'
BY DEF OneTurn, OnePlace, Turn

\* A step by which a process leaves its turn to the head of the queue.
LEMMA TurnPassed ==
  ASSUME TypeOK, OneTurn, OnePlace, NEW p \in Procs, p \in Using,
         PassTurn(p), Using' = Using \ {p}
  PROVE  OneTurn' /\ OnePlace'
<1>1. \A q \in Procs : q # p => q \notin Using /\ q \notin signalled /\ waiting[q] = 1
  BY DEF OneTurn, Turn, TypeOK
<1>2. p \notin signalled /\ waiting[p] = 1
  BY DEF OnePlace
<1>3. Using' = {} /\ signalled = {}
  BY <1>1, <1>2, UsingIs DEF TypeOK
<1>4. Head(queue) \in Procs
  BY DEF PassTurn, TypeOK
<1>5. CASE Head(queue) = p
  <2>1. waiting' = [waiting EXCEPT ![p] = 0] /\ signalled' = signalled
    BY <1>5 DEF PassTurn, Handler
  <2>2. \A q \in Procs : waiting'[q] = 0 => q = p
    BY <2>1, <1>1 DEF TypeOK
  <2> QED BY <1>3, <2>1, <2>2 DEF OneTurn, OnePlace, Turn
<1>6. CASE Head(queue) # p
  <2>1. waiting' = waiting /\ signalled' = {Head(queue)}
    BY <1>6, <1>3 DEF PassTurn
  <2>2. \A q \in Procs : waiting[q] = 1
    BY <1>1, <1>2
  <2> QED BY <1>3, <2>1, <2>2 DEF OneTurn, OnePlace, Turn
<1> QED BY <1>5, <1>6

\* A step by which a process takes the turn that its flag stands for.
LEMMA TurnTaken ==
  ASSUME TypeOK, OneTurn, OnePlace, NEW p \in Procs, waiting[p] = 0,
         waiting' = [waiting EXCEPT ![p] = 1], signalled' = signalled,
         Using' = Using \union {p}
  PROVE  OneTurn' /\ OnePlace'
<1>1. \A q \in Procs : q # p => q \notin Using /\ q \notin signalled /\ waiting[q] = 1
  BY DEF OneTurn, Turn, TypeOK
<1>2. p \notin signalled
  BY DEF OnePlace
<1>3. \A q \in Procs : waiting'[q] = 1
  BY <1>1 DEF TypeOK
<1>4. signalled = {} /\ Using' = {p}
  BY <1>1, <1>2, UsingIs DEF TypeOK
<1> QED BY <1>3, <1>4 DEF OneTurn, OnePlace, Turn

\* The arrival of a signal.
LEMMA TurnDelivered ==
  ASSUME TypeOK, OneTurn, OnePlace, NEW p \in Procs, Deliver(p)
  PROVE  OneTurn' /\ OnePlace'
<1>1. \A q \in Procs : q # p => q \notin Using /\ q \notin signalled /\ waiting[q] = 1
  BY DEF OneTurn, Turn, TypeOK, Deliver
<1>2. p \notin Using
  BY DEF OnePlace, Deliver
<1>3. waiting' = [waiting EXCEPT ![p] = 0] /\ Using' = Using
  BY DEF Deliver, Handler, clientVars, Using
<1>4. Using' = {} /\ signalled' = {}
  BY <1>1, <1>2, <1>3, UsingIs DEF TypeOK, Deliver
<1>5. \A q \in Procs : waiting'[q] = 0 => q = p
  BY <1>1, <1>3 DEF TypeOK
<1> QED BY <1>4, <1>5 DEF OneTurn, OnePlace, Turn

\* As long as no text begins with 0, signals and flags hand one turn around.
LEMMA TurnHandedAround ==
  ASSUME ZeroTexts = FALSE
  PROVE  Spec => [](TypeOK /\ OneTurn /\ OnePlace /\ NoZero)
<1>1. Init => OneTurn /\ OnePlace /\ NoZero
  <2> SUFFICES ASSUME Init PROVE OneTurn /\ OnePlace /\ NoZero
    OBVIOUS
  <2>1. Using = {} /\ signalled = {}
    BY DEF Init, Using
  <2>2. \A p \in Procs : waiting[p] = 0 => p = C1
    BY DEF Init
  <2>3. NoZero
    BY DEF Init, NoZero
  <2> QED BY <2>1, <2>2, <2>3 DEF OneTurn, OnePlace, Turn
<1>2. TypeOK /\ OneTurn /\ OnePlace /\ NoZero /\ [Next]_vars => OneTurn' /\ OnePlace' /\ NoZero'
  <2> SUFFICES ASSUME TypeOK, OneTurn, OnePlace, NoZero, [Next]_vars
               PROVE  OneTurn' /\ OnePlace' /\ NoZero'
    OBVIOUS
  <2>1. ASSUME NEW p \in Procs, Deliver(p) PROVE OneTurn' /\ OnePlace' /\ NoZero'
    <3>1. NoZero'
      BY <2>1 DEF Deliver, NoZero
    <3> QED BY <2>1, <3>1, TurnDelivered
  <2>2. ASSUME NEW c \in Clients, Client(c) PROVE OneTurn' /\ OnePlace' /\ NoZero'
    <3> c \in Procs
      BY DEF Procs
    <3>0. \A d \in Clients : d # c => cpc'[d] = cpc[d]
      BY <2>2 DEF Client, Hello, Wake, Ask, ReadAnswer, Stop, Requeue, SignalNext, TypeOK
    <3>x. xpc' = xpc
      BY <2>2 DEF Client, Hello, Wake, Ask, ReadAnswer, Stop, Requeue, SignalNext, c1Vars
    <3>1. CASE Hello(c) \/ Stop(c) \/ Requeue(c)
      <4>1. Using' = Using
        BY <3>1, <3>0, <3>x DEF Hello, Stop, Requeue, Using, TypeOK
      <4>2. UNCHANGED <<signalled, waiting, fifo, buff>>
        BY <3>1 DEF Hello, Stop, Requeue, Enqueue, turnVars, c1Vars
      <4> QED BY <4>1, <4>2, TurnStays DEF NoZero
    <3>2. CASE Wake(c)
      <4>1. Using' = Using \union {c}
        BY <3>2, <3>0, <3>x DEF Wake, Using, TypeOK
      <4>2. UNCHANGED <<signalled, fifo, buff>>
        BY <3>2 DEF Wake, c1Vars
      <4>3. waiting[c] = 0 /\ waiting' = [waiting EXCEPT ![c] = 1]
        BY <3>2 DEF Wake
      <4> QED BY <4>1, <4>2, <4>3, TurnTaken DEF NoZero
    <3>3. CASE Ask(c)
      <4>1. Using' = Using
        BY <3>3, <3>0, <3>x DEF Ask, Using, TypeOK
      <4>2. UNCHANGED <<signalled, waiting, buff>>
        BY <3>3 DEF Ask, turnVars, c1Vars
      <4>3. PICK m : m.zero = FALSE /\ fifo' = Append(fifo, m)
        BY <3>3 DEF Ask
      <4>4. \A i \in 1 .. Len(fifo') : ~ fifo'[i].zero
        BY <4>3 DEF NoZero, TypeOK
      <4> QED BY <4>1, <4>2, <4>4, TurnStays DEF NoZero
    <3>4. CASE ReadAnswer(c)
      <4>1. Using' = Using
        BY <3>4, <3>0, <3>x DEF ReadAnswer, Using, TypeOK
      <4>2. UNCHANGED <<signalled, waiting, buff>> /\ fifo' = <<>>
        BY <3>4 DEF ReadAnswer, turnVars, c1Vars
      <4> QED BY <4>1, <4>2, TurnStays DEF NoZero
    <3>5. CASE SignalNext(c)
      <4>1. Using' = Using \ {c}
        BY <3>5, <3>0, <3>x, ClientsAssumption DEF SignalNext, Using, TypeOK
      <4>2. UNCHANGED <<fifo, buff>> /\ c \in Using /\ PassTurn(c)
        BY <3>5 DEF SignalNext, Using
      <4> QED BY <4>1, <4>2, TurnPassed DEF NoZero
    <3> QED BY <2>2, <3>1, <3>2, <3>3, <3>4, <3>5 DEF Client
  <2>3. CASE Connected
    <3> C1 \in Procs
      BY DEF Procs
    <3>0. cpc' = cpc
      BY <2>3 DEF Connected, StartC1, TestWaiting, OpenFifo, ReadFifo, Convert, WriteFifo,
                  StopC1, RequeueC1, SignalNextC1, clientVars
    <3>1. CASE StartC1 \/ OpenFifo \/ StopC1 \/ RequeueC1
      <4>1. Using' = Using
        BY <3>1, <3>0 DEF StartC1, OpenFifo, StopC1, RequeueC1, Using
      <4>2. UNCHANGED <<signalled, waiting, fifo, buff>>
        BY <3>1 DEF StartC1, OpenFifo, StopC1, RequeueC1, Enqueue, turnVars
      <4> QED BY <4>1, <4>2, TurnStays DEF NoZero
    <3>2. CASE TestWaiting
      <4>1. UNCHANGED <<signalled, fifo, buff>>
        BY <3>2 DEF TestWaiting
      <4>2. CASE waiting[C1] = 1
        <5>1. Using' = Using /\ waiting' = waiting
          BY <3>2, <3>0, <4>2 DEF TestWaiting, Using
        <5> QED BY <4>1, <5>1, TurnStays DEF NoZero
      <4>3. CASE waiting[C1] = 0
        <5>1. Using' = Using \union {C1} /\ waiting' = [waiting EXCEPT ![C1] = 1]
          BY <3>2, <3>0, <4>3 DEF TestWaiting, Using
        <5> QED BY <4>1, <4>3, <5>1, TurnTaken DEF NoZero
      <4> QED BY <4>2, <4>3 DEF TypeOK
    <3>3. CASE ReadFifo
      <4>1. ~ (fifo # <<>> /\ fifo[1].zero)
        <5>1. fifo # <<>> => 1 \in 1 .. Len(fifo)
          BY DEF TypeOK
        <5> QED BY <5>1 DEF NoZero
      <4>2. UNCHANGED <<signalled, waiting>> /\ Using' = Using
        BY <3>3, <3>0, <4>1 DEF ReadFifo, Using
      <4>3. NoZero'
        BY <3>3, <4>1 DEF ReadFifo, NoZero
      <4> QED BY <4>2, <4>3, TurnStays
    <3>4. CASE Convert
      <4>1. UNCHANGED <<signalled, waiting, fifo>> /\ Using' = Using
        BY <3>4, <3>0 DEF Convert, Using, turnVars
      <4>2. DOMAIN buff = 1 .. Len(buff) /\ DOMAIN buff' = DOMAIN buff
        BY <3>4 DEF Convert, TypeOK
      <4>3. buff' \in Seq(Texts)
        BY <3>4, ConvertedType DEF Convert, TypeOK
      <4>4. DOMAIN buff' = 1 .. Len(buff')
        BY <4>3
      <4>5. \A i \in 1 .. Len(buff) : buff[i] \in Texts /\ buff'[i] = [buff[i] EXCEPT !.upper = TRUE]
        BY <3>4, <4>2 DEF Convert, TypeOK
      <4>6. \A i \in 1 .. Len(buff) : buff'[i].zero = buff[i].zero
        BY <4>5 DEF Texts
      <4>7. \A i \in 1 .. Len(buff') : ~ buff'[i].zero
        BY <4>2, <4>4, <4>6 DEF NoZero
      <4> QED BY <4>1, <4>7, TurnStays DEF NoZero
    <3>5. CASE WriteFifo
      <4>1. UNCHANGED <<signalled, waiting>> /\ Using' = Using
        BY <3>5, <3>0 DEF WriteFifo, Using, turnVars
      <4>2. fifo' = fifo \o buff /\ buff' = <<>>
        BY <3>5 DEF WriteFifo
      <4>3. NoZero'
        BY <4>2 DEF NoZero, TypeOK
      <4> QED BY <4>1, <4>3, TurnStays
    <3>6. CASE SignalNextC1
      <4>1. Using' = Using \ {C1}
        BY <3>6, <3>0, ClientsAssumption DEF SignalNextC1, Using
      <4>2. UNCHANGED <<fifo, buff>> /\ C1 \in Using /\ PassTurn(C1)
        BY <3>6 DEF SignalNextC1, Using
      <4> QED BY <4>1, <4>2, TurnPassed DEF NoZero
    <3> QED BY <2>3, <3>1, <3>2, <3>3, <3>4, <3>5, <3>6 DEF Connected
  <2>4. CASE UNCHANGED vars
    <3>1. Using' = Using /\ UNCHANGED <<signalled, waiting, fifo, buff>>
      BY <2>4 DEF vars, turnVars, clientVars, c1Vars, Using
    <3> QED BY <3>1, TurnStays DEF NoZero
  <2> QED BY <2>1, <2>2, <2>3, <2>4 DEF Next
<1> QED BY <1>1, <1>2, TypeCorrect, PTL DEF Spec

\* As long as no text begins with 0, OneUser is an invariant.
THEOREM OneUserHolds ==
  ASSUME ZeroTexts = FALSE
  PROVE  Spec => []OneUser
<1>1. OneTurn => OneUser
  BY UsingIs DEF OneTurn, OneUser, Turn
<1> QED BY <1>1, TurnHandedAround, PTL

(***************************************************************************)
(* Who waits, waits once.                                                  *)
(***************************************************************************)

Queued == {queue[i] : i \in 1 .. Len(queue)}

Apart == \A i, j \in 1 .. Len(queue) : queue[i] = queue[j] => i = j

\* Process p waits, or is about to leave the turn it has to the head of the queue.
Waits(p) == /\ p \notin signalled /\ waiting[p] = 1
            /\ p \in Clients => cpc[p] \in {"wait", "next"}
            /\ p = C1 => xpc \notin {"start", "use", "requeue"}

Waiters == \A p \in Queued : Waits(p)

\* Nobody is given a turn before it has said hello.
Newcomers == \A c \in Clients : cpc[c] = "start" => c \notin signalled /\ waiting[c] = 1

WaitInv == Apart /\ Waiters /\ Newcomers

\* msgsnd of a process that is not in the queue.
LEMMA Added ==
  ASSUME TypeOK, Apart, NEW p \in Procs, p \notin Queued, queue' = Append(queue, p)
  PROVE  Apart' /\ Queued' = Queued \union {p}
<1>1. /\ Len(queue') = Len(queue) + 1
      /\ \A i \in 1 .. Len(queue) : queue'[i] = queue[i]
      /\ queue'[Len(queue) + 1] = p /\ Len(queue) \in Nat
  BY DEF TypeOK
<1>2. \A i \in 1 .. Len(queue) : queue[i] # p
  BY DEF Queued
<1>3. Apart'
  BY <1>1, <1>2 DEF Apart
<1>4. Queued' = Queued \union {p}
  <2>1. \A q \in Queued' : q \in Queued \union {p}
    BY <1>1 DEF Queued
  <2>2. \A q \in Queued : q \in Queued'
    BY <1>1 DEF Queued
  <2>3. p \in Queued'
    BY <1>1 DEF Queued
  <2> QED BY <2>1, <2>2, <2>3
<1> QED BY <1>3, <1>4

\* msgrcv.
LEMMA Removed ==
  ASSUME TypeOK, Apart, queue # <<>>, queue' = Tail(queue)
  PROVE  /\ Apart' /\ Head(queue) \in Queued
         /\ Queued' \subseteq Queued \ {Head(queue)}
<1>1. /\ Len(queue) \in Nat /\ Len(queue) > 0 /\ Len(queue') = Len(queue) - 1
      /\ \A i \in 1 .. Len(queue) - 1 : queue'[i] = queue[i + 1]
      /\ Head(queue) = queue[1]
  BY DEF TypeOK
<1>2. Apart'
  BY <1>1 DEF Apart
<1>3. Head(queue) \in Queued
  BY <1>1 DEF Queued
<1>4. ASSUME NEW q \in Queued' PROVE q \in Queued /\ q # Head(queue)
  <2>1. PICK i \in 1 .. Len(queue) - 1 : q = queue[i + 1]
    BY <1>1 DEF Queued
  <2> QED BY <1>1, <2>1 DEF Apart, Queued
<1> QED BY <1>2, <1>3, <1>4

\* A process enters the queue that has its turn, or has not been there.
LEMMA WaitersAdded ==
  ASSUME TypeOK, WaitInv, NEW p \in Procs, Enqueue(p), ~ Waits(p), Waits(p)',
         \A c \in Clients : c # p => cpc'[c] = cpc[c],
         p # C1 => xpc' = xpc /\ cpc'[p] # "start"
  PROVE  WaitInv'
<1>1. Apart' /\ Queued' = Queued \union {p} /\ UNCHANGED <<signalled, waiting>>
  BY Added DEF WaitInv, Waiters, Enqueue
<1>2. ASSUME NEW q \in Queued, q # p PROVE Waits(q)'
  BY <1>1, <1>2 DEF WaitInv, Waiters, Waits
<1>3. Newcomers'
  BY <1>1, ClientsAssumption DEF WaitInv, Newcomers
<1> QED BY <1>1, <1>2, <1>3 DEF WaitInv, Waiters

\* The user leaves its turn to the head of the queue.
LEMMA WaitersPassed ==
  ASSUME TypeOK, OnePlace, WaitInv, NEW p \in Procs, p \in Using, PassTurn(p),
         \A c \in Clients : c # p => cpc'[c] = cpc[c],
         p \in Clients => cpc'[p] = "wait" /\ xpc' = xpc,
         p = C1 => xpc' = "loop"
  PROVE  WaitInv'
<1>1. /\ Apart' /\ Head(queue) \in Queued /\ Queued' \subseteq Queued \ {Head(queue)}
  BY Removed DEF WaitInv, PassTurn
<1>2. Waits(Head(queue)) /\ Queued' \subseteq Queued
  BY <1>1 DEF WaitInv, Waiters
<1>3. CASE Head(queue) = p
  <2>1. signalled' = signalled /\ waiting' = [waiting EXCEPT ![p] = 0]
    BY <1>3 DEF PassTurn, Handler
  <2>2. ASSUME NEW q \in Queued' PROVE Waits(q)'
    <3>1. q # p /\ Waits(q)
      BY <1>1, <1>3 DEF WaitInv, Waiters
    <3> QED BY <2>1, <3>1 DEF Waits, TypeOK, Procs
  <2>3. Newcomers'
    BY <2>1, <1>2, <1>3 DEF WaitInv, Newcomers, TypeOK
  <2> QED BY <1>1, <2>2, <2>3 DEF WaitInv, Waiters
<1>4. CASE Head(queue) # p
  <2>1. signalled' = signalled \union {Head(queue)} /\ waiting' = waiting
    BY <1>4 DEF PassTurn
  <2>2. ASSUME NEW q \in Queued' PROVE Waits(q)'
    <3>1. q # Head(queue) /\ Waits(q)
      BY <1>1 DEF WaitInv, Waiters
    <3> QED BY <2>1, <3>1 DEF Waits, Procs
  <2>3. Newcomers'
    BY <2>1, <1>2 DEF WaitInv, Newcomers, Waits
  <2> QED BY <1>1, <2>2, <2>3 DEF WaitInv, Waiters
<1> QED BY <1>3, <1>4

\* A step that leaves the queue alone, and the turns of those who wait.
LEMMA WaitersStay ==
  ASSUME WaitInv, UNCHANGED queue, \A p \in Queued : Waits(p)', Newcomers'
  PROVE  WaitInv'
BY DEF WaitInv, Apart, Waiters, Queued

\* As long as no text begins with 0, nobody stands in the queue twice, or while it has the
\* turn, in spite of what each process adds to the queue on its own.
THEOREM WaitsOnceHolds ==
  ASSUME ZeroTexts = FALSE
  PROVE  Spec => []WaitsOnce
<1>1. Init => WaitInv
  BY ClientsAssumption DEF Init, WaitInv, Apart, Waiters, Queued, Newcomers, Procs
<1>2. TypeOK /\ OnePlace /\ NoZero /\ WaitInv /\ [Next]_vars => WaitInv'
  <2> SUFFICES ASSUME TypeOK, OnePlace, NoZero, WaitInv, [Next]_vars PROVE WaitInv'
    OBVIOUS
  <2>1. ASSUME NEW p \in Procs, Deliver(p) PROVE WaitInv'
    <3>1. /\ UNCHANGED <<queue, cpc, xpc>> /\ p \in signalled
          /\ signalled' = signalled \ {p} /\ waiting' = [waiting EXCEPT ![p] = 0]
      BY <2>1 DEF Deliver, Handler, clientVars
    <3>2. ASSUME NEW q \in Queued PROVE Waits(q)'
      <4>1. Waits(q) /\ q # p
        BY <3>1 DEF WaitInv, Waiters, Waits
      <4> QED BY <3>1, <4>1 DEF Waits, TypeOK
    <3>3. Newcomers'
      BY <3>1 DEF WaitInv, Newcomers, TypeOK
    <3> QED BY <3>1, <3>2, <3>3, WaitersStay
  <2>2. ASSUME NEW c \in Clients, Client(c) PROVE WaitInv'
    <3> c \in Procs /\ c # C1
      BY ClientsAssumption DEF Procs
    <3>0. \A d \in Clients : d # c => cpc'[d] = cpc[d]
      BY <2>2 DEF Client, Hello, Wake, Ask, ReadAnswer, Stop, Requeue, SignalNext, TypeOK
    <3>x. xpc' = xpc
      BY <2>2 DEF Client, Hello, Wake, Ask, ReadAnswer, Stop, Requeue, SignalNext, c1Vars
    <3>1. CASE Hello(c) \/ Requeue(c)
      <4>1. Enqueue(c) /\ cpc[c] \in {"start", "requeue"} /\ cpc'[c] \in {"wait", "next"}
        BY <3>1 DEF Hello, Requeue, TypeOK
      <4>2. c \notin signalled /\ waiting[c] = 1
        <5>1. cpc[c] = "requeue" => c \in Using
          BY UsingIs
        <5> QED BY <4>1, <5>1 DEF OnePlace, WaitInv, Newcomers
      <4>3. ~ Waits(c) /\ Waits(c)'
        BY <4>1, <4>2 DEF Waits, Enqueue
      <4> QED BY <4>1, <4>3, <3>0, <3>x, WaitersAdded
    <3>2. CASE Wake(c) \/ Ask(c) \/ ReadAnswer(c) \/ Stop(c)
      <4>1. /\ UNCHANGED <<queue, signalled>> /\ cpc'[c] # "start" /\ ~ Waits(c)
            /\ \A p \in Procs : p # c => waiting'[p] = waiting[p]
        BY <3>2 DEF Wake, Ask, ReadAnswer, Stop, turnVars, Waits, TypeOK
      <4>2. ASSUME NEW q \in Queued PROVE Waits(q)'
        <5>1. Waits(q) /\ q # c /\ q \in Procs
          BY <4>1 DEF WaitInv, Waiters, Queued, TypeOK
        <5> QED BY <4>1, <5>1, <3>0, <3>x DEF Waits
      <4>3. Newcomers'
        BY <4>1, <3>0 DEF WaitInv, Newcomers, Procs
      <4> QED BY <4>1, <4>2, <4>3, WaitersStay
    <3>3. CASE SignalNext(c)
      <4>1. PassTurn(c) /\ c \in Using /\ cpc'[c] = "wait"
        BY <3>3, UsingIs DEF SignalNext, TypeOK
      <4> QED BY <4>1, <3>0, <3>x, WaitersPassed
    <3> QED BY <2>2, <3>1, <3>2, <3>3 DEF Client
  <2>3. CASE Connected
    <3> C1 \in Procs /\ C1 \notin Clients
      BY ClientsAssumption DEF Procs
    <3>0. cpc' = cpc
      BY <2>3 DEF Connected, StartC1, TestWaiting, OpenFifo, ReadFifo, Convert, WriteFifo,
                  StopC1, RequeueC1, SignalNextC1, clientVars
    <3>1. CASE StartC1
      <4>1. queue' = <<>> /\ UNCHANGED <<signalled, waiting>>
        BY <3>1 DEF StartC1
      <4>2. Apart' /\ Queued' = {}
        BY <4>1 DEF Apart, Queued
      <4> QED BY <4>1, <4>2, <3>0 DEF WaitInv, Waiters, Newcomers
    <3>2. CASE TestWaiting \/ OpenFifo \/ ReadFifo \/ Convert \/ WriteFifo \/ StopC1
      <4>1. ~ (fifo # <<>> /\ fifo[1].zero)
        <5>1. fifo # <<>> => 1 \in 1 .. Len(fifo)
          BY DEF TypeOK
        <5> QED BY <5>1 DEF NoZero
      <4>2. /\ UNCHANGED <<queue, signalled>>
            /\ \A p \in Procs : p # C1 => waiting'[p] = waiting[p]
            /\ Waits(C1) => waiting'[C1] = 1 /\ xpc' \notin {"start", "use", "requeue"}
        BY <3>2, <4>1 DEF TestWaiting, OpenFifo, ReadFifo, Convert, WriteFifo, StopC1, turnVars,
                          Waits, TypeOK
      <4>3. ASSUME NEW q \in Queued PROVE Waits(q)'
        <5>1. Waits(q) /\ q \in Procs
          BY DEF WaitInv, Waiters, Queued, TypeOK
        <5> QED BY <4>2, <5>1, <3>0 DEF Waits
      <4>4. Newcomers'
        BY <4>2, <3>0 DEF WaitInv, Newcomers, Procs
      <4> QED BY <4>2, <4>3, <4>4, WaitersStay
    <3>3. CASE RequeueC1
      <4>1. Enqueue(C1) /\ xpc = "requeue" /\ xpc' = "next"
        BY <3>3 DEF RequeueC1
      <4>2. C1 \notin signalled /\ waiting[C1] = 1
        BY <4>1, UsingIs DEF OnePlace
      <4>3. ~ Waits(C1) /\ Waits(C1)'
        BY <4>1, <4>2 DEF Waits, Enqueue
      <4> QED BY <4>1, <4>3, <3>0, WaitersAdded
    <3>4. CASE SignalNextC1
      <4>1. PassTurn(C1) /\ C1 \in Using /\ xpc' = "loop"
        BY <3>4, UsingIs DEF SignalNextC1
      <4> QED BY <4>1, <3>0, WaitersPassed
    <3> QED BY <2>3, <3>1, <3>2, <3>3, <3>4 DEF Connected
  <2>4. CASE UNCHANGED vars
    BY <2>4 DEF vars, turnVars, clientVars, c1Vars, WaitInv, Apart, Waiters, Queued, Waits,
                Newcomers
  <2> QED BY <2>1, <2>2, <2>3, <2>4 DEF Next
<1>3. TypeOK /\ WaitInv => WaitsOnce
  <2> SUFFICES ASSUME TypeOK, WaitInv, NEW i \in 1 .. Len(queue)
               PROVE  /\ queue[i] \notin signalled
                      /\ queue[i] \in Using => \/ queue[i] # C1 /\ cpc[queue[i]] = "next"
                                               \/ queue[i] = C1 /\ xpc = "next"
    BY DEF WaitsOnce, WaitInv, Apart
  <2>1. Waits(queue[i]) /\ queue[i] \in Procs
    BY DEF WaitInv, Waiters, Queued, TypeOK
  <2> QED BY <2>1, UsingIs DEF Waits, Procs
<1> QED BY <1>1, <1>2, <1>3, TurnHandedAround, PTL DEF Spec

(***************************************************************************)
(* Everyone reads the answer to its own text.                              *)
(***************************************************************************)

\* A message of the client that waits for an answer, about its last text.
Own(m) == m.owner \in Holders /\ m.n = texts[m.owner]

AllOwn(s) == \A i \in 1 .. Len(s) : Own(s[i])

\* What client c has printed is one message, made from its last text.
Printed(c) == Len(shown[c]) = 1 /\ shown[c][1].owner = c /\ shown[c][1].n = texts[c]

MessageInv ==
  /\ Len(fifo) + Len(buff) = IF Holders = {} THEN 0 ELSE 1
  /\ AllOwn(fifo) /\ AllOwn(buff)
  /\ \A c \in Clients : c \notin Holders /\ texts[c] > 0 => Printed(c)

\* One client at most has the FIFO open.
LEMMA OneHolder ==
  ASSUME OneTurn, NEW c \in Clients, c \in Using
  PROVE  Holders \subseteq {c}
<1> c \in Procs
  BY DEF Procs
<1>1. \A d \in Holders : d \in Procs /\ d \in Using
  BY UsingIs DEF Holders, Procs
<1> QED BY <1>1 DEF OneTurn, Turn

\* A step that touches no message.
LEMMA MessagesStay ==
  ASSUME MessageInv, UNCHANGED <<fifo, buff, texts, shown>>, Holders' = Holders
  PROVE  MessageInv'
BY DEF MessageInv, AllOwn, Own, Printed

\* As long as no text begins with 0, every client is shown the answer to its last text, and
\* nothing is left behind in the FIFO or in the buffer of C1 for the next one.
THEOREM OwnAnswerHolds ==
  ASSUME ZeroTexts = FALSE
  PROVE  Spec => []OwnAnswer
<1>1. Init => MessageInv
  BY DEF Init, MessageInv, AllOwn, Holders
<1>2. TypeOK /\ OneTurn /\ NoZero /\ MessageInv /\ [Next]_vars => MessageInv'
  <2> SUFFICES ASSUME TypeOK, OneTurn, NoZero, MessageInv, [Next]_vars PROVE MessageInv'
    OBVIOUS
  <2>0. Len(fifo) \in Nat /\ Len(buff) \in Nat
    BY DEF TypeOK
  <2>1. ASSUME NEW p \in Procs, Deliver(p) PROVE MessageInv'
    BY <2>1, MessagesStay DEF Deliver, Holders, clientVars
  <2>2. ASSUME NEW c \in Clients, Client(c) PROVE MessageInv'
    <3>0. \A d \in Clients : d # c => cpc'[d] = cpc[d]
      BY <2>2 DEF Client, Hello, Wake, Ask, ReadAnswer, Stop, Requeue, SignalNext, TypeOK
    <3>1. CASE Hello(c) \/ Wake(c) \/ Stop(c) \/ Requeue(c) \/ SignalNext(c)
      <4>1. cpc[c] # "read" /\ cpc'[c] # "read" /\ UNCHANGED <<fifo, buff, texts, shown>>
        BY <3>1 DEF Hello, Wake, Stop, Requeue, SignalNext, c1Vars, TypeOK
      <4> QED BY <4>1, <3>0, MessagesStay DEF Holders
    <3>2. CASE Ask(c)
      <4>1. PICK m : /\ m.owner = c /\ m.n = texts[c] + 1
                     /\ fifo' = Append(fifo, m)
        BY <3>2 DEF Ask
      <4>2. /\ cpc[c] = "use" /\ cpc'[c] = "read" /\ UNCHANGED <<buff, shown>>
            /\ texts' = [texts EXCEPT ![c] = @ + 1]
        BY <3>2 DEF Ask, c1Vars, TypeOK
      <4>3. c \in Using /\ c \notin Holders
        BY <4>2, UsingIs DEF Holders
      <4>4. Holders = {}
        BY <4>3, OneHolder
      <4>5. Holders' = {c}
        BY <4>2, <4>4, <3>0 DEF Holders
      <4>6. Len(fifo) = 0 /\ Len(buff) = 0
        BY <4>4, <2>0 DEF MessageInv
      <4>7. Len(fifo') = 1 /\ fifo'[1] = m
        BY <4>1, <4>6 DEF TypeOK
      <4>8. AllOwn(fifo)' /\ AllOwn(buff)'
        BY <4>1, <4>2, <4>5, <4>6, <4>7 DEF AllOwn, Own, TypeOK
      <4>9. \A d \in Clients : d \notin Holders' /\ texts'[d] > 0 => Printed(d)'
        BY <4>2, <4>4, <4>5 DEF MessageInv, Printed, TypeOK
      <4> QED BY <4>2, <4>5, <4>6, <4>7, <4>8, <4>9 DEF MessageInv
    <3>3. CASE ReadAnswer(c)
      <4>1. /\ cpc[c] = "read" /\ cpc'[c] = "use" /\ UNCHANGED <<buff, texts>>
            /\ fifo # <<>> /\ fifo' = <<>> /\ shown' = [shown EXCEPT ![c] = fifo]
        BY <3>3 DEF ReadAnswer, c1Vars, TypeOK
      <4>2. c \in Holders /\ c \in Using
        BY <4>1, UsingIs DEF Holders
      <4>3. Holders = {c}
        BY <4>2, OneHolder
      <4>4. Holders' = {}
        BY <4>1, <4>3, <3>0 DEF Holders
      <4>5. Len(fifo) = 1 /\ Len(buff) = 0
        <5>1. Len(fifo) # 0
          BY <4>1 DEF TypeOK
        <5>2. Len(fifo) + Len(buff) = 1
          BY <4>3 DEF MessageInv
        <5>3. \A m, n \in Nat : m # 0 /\ m + n = 1 => m = 1 /\ n = 0
          OBVIOUS
        <5> QED BY <5>1, <5>2, <5>3, <2>0
      <4>6. fifo[1].owner = c /\ fifo[1].n = texts[c]
        BY <4>3, <4>5 DEF MessageInv, AllOwn, Own
      <4>7. Printed(c)'
        BY <4>1, <4>5, <4>6 DEF Printed, TypeOK
      <4>8. \A d \in Clients : d # c /\ texts'[d] > 0 => Printed(d)'
        BY <4>1, <4>3 DEF MessageInv, Printed, TypeOK
      <4>9. AllOwn(fifo)' /\ AllOwn(buff)' /\ Len(fifo') = 0
        BY <4>1, <4>5 DEF AllOwn
      <4> QED BY <4>1, <4>4, <4>5, <4>7, <4>8, <4>9 DEF MessageInv
    <3> QED BY <2>2, <3>1, <3>2, <3>3 DEF Client
  <2>3. CASE Connected
    <3>0. UNCHANGED <<cpc, texts, shown>> /\ Holders' = Holders
      BY <2>3 DEF Connected, StartC1, TestWaiting, OpenFifo, ReadFifo, Convert, WriteFifo,
                  StopC1, RequeueC1, SignalNextC1, clientVars, Holders
    <3>1. CASE StartC1 \/ TestWaiting \/ OpenFifo \/ StopC1 \/ RequeueC1 \/ SignalNextC1
      <4>1. UNCHANGED <<fifo, buff>>
        BY <3>1 DEF StartC1, TestWaiting, OpenFifo, StopC1, RequeueC1, SignalNextC1
      <4> QED BY <3>0, <4>1, MessagesStay
    <3>2. CASE ReadFifo
      <4>1. ~ (fifo # <<>> /\ fifo[1].zero)
        <5>1. fifo # <<>> => 1 \in 1 .. Len(fifo)
          BY DEF TypeOK
        <5> QED BY <5>1 DEF NoZero
      <4>2. \/ UNCHANGED <<fifo, buff>>
            \/ fifo # <<>> /\ fifo' = <<>> /\ buff' = fifo
        BY <3>2, <4>1 DEF ReadFifo
      <4>3. CASE fifo # <<>> /\ fifo' = <<>> /\ buff' = fifo
        <5>1. Len(buff) = 0 /\ Len(fifo') + Len(buff') = Len(fifo) + Len(buff)
          BY <4>3, <2>0 DEF MessageInv, TypeOK
        <5>2. AllOwn(fifo)' /\ AllOwn(buff)'
          BY <4>3, <3>0 DEF MessageInv, AllOwn, Own
        <5> QED BY <5>1, <5>2, <3>0 DEF MessageInv, Printed
      <4> QED BY <4>2, <4>3, <3>0, MessagesStay
    <3>3. CASE Convert
      <4>1. fifo' = fifo /\ buff' = [i \in DOMAIN buff |-> [buff[i] EXCEPT !.upper = TRUE]]
        BY <3>3 DEF Convert
      <4>2. buff' \in Seq(Texts)
        BY <4>1, ConvertedType DEF TypeOK
      <4>3. DOMAIN buff = 1 .. Len(buff) /\ DOMAIN buff' = 1 .. Len(buff') /\ DOMAIN buff' = DOMAIN buff
        BY <4>1, <4>2 DEF TypeOK
      <4>4. Len(buff') \in Nat /\ Len(buff') = Len(buff)
        <5>1. Len(buff') \in Nat
          BY <4>2
        <5>2. \A n \in Nat : n \in 1 .. Len(buff') <=> n \in 1 .. Len(buff)
          BY <4>3
        <5> QED BY <5>1, <5>2, <2>0
      <4>5. \A i \in 1 .. Len(buff) : buff[i] \in Texts /\ buff'[i] = [buff[i] EXCEPT !.upper = TRUE]
        BY <4>1, <4>3 DEF TypeOK
      <4>6. \A i \in 1 .. Len(buff) : buff'[i].owner = buff[i].owner /\ buff'[i].n = buff[i].n
        BY <4>5 DEF Texts
      <4>7. AllOwn(fifo)' /\ AllOwn(buff)'
        BY <4>1, <4>4, <4>6, <3>0 DEF MessageInv, AllOwn, Own
      <4> QED BY <4>1, <4>4, <4>7, <3>0 DEF MessageInv, Printed
    <3>4. CASE WriteFifo
      <4>1. fifo' = fifo \o buff /\ buff' = <<>>
        BY <3>4 DEF WriteFifo
      <4>2. /\ Len(fifo') = Len(fifo) + Len(buff) /\ Len(buff') = 0
            /\ \A i \in 1 .. Len(fifo') : fifo'[i] = IF i <= Len(fifo) THEN fifo[i]
                                                                   ELSE buff[i - Len(fifo)]
        BY <4>1 DEF TypeOK
      <4>3. AllOwn(fifo)' /\ AllOwn(buff)'
        BY <4>2, <3>0, <2>0 DEF MessageInv, AllOwn, Own
      <4> QED BY <4>2, <4>3, <3>0, <2>0 DEF MessageInv, Printed
    <3> QED BY <2>3, <3>1, <3>2, <3>3, <3>4 DEF Connected
  <2>4. CASE UNCHANGED vars
    BY <2>4, MessagesStay DEF vars, turnVars, clientVars, c1Vars, Holders
  <2> QED BY <2>1, <2>2, <2>3, <2>4 DEF Next
<1>3. TypeOK /\ OneTurn /\ MessageInv => OwnAnswer
  <2> SUFFICES ASSUME TypeOK, OneTurn, MessageInv PROVE OwnAnswer
    OBVIOUS
  <2>1. Cardinality(Holders) = IF Holders = {} THEN 0 ELSE 1
    <3>1. CASE Holders = {}
      BY <3>1, FS_EmptySet
    <3>2. CASE Holders # {}
      <4>1. PICK c \in Holders : TRUE
        BY <3>2
      <4>2. c \in Clients /\ c \in Using
        BY <4>1, UsingIs DEF Holders
      <4>3. Holders = {c}
        BY <4>1, <4>2, OneHolder
      <4> QED BY <4>3, FS_Singleton
    <3> QED BY <3>1, <3>2
  <2>2. DOMAIN fifo = 1 .. Len(fifo) /\ DOMAIN buff = 1 .. Len(buff)
    BY DEF TypeOK
  <2>3. OneMessage
    BY <2>1, <2>2 DEF MessageInv, OneMessage, AllOwn, Own
  <2>4. \A c \in Clients : cpc[c] = "use" /\ texts[c] > 0 => Printed(c)
    BY DEF MessageInv, Holders
  <2> QED BY <2>3, <2>4 DEF OwnAnswer, Printed
<1> QED BY <1>1, <1>2, <1>3, TurnHandedAround, PTL DEF Spec

-----------------------------------------------------------------------------
(* What the operations on semaphores do to their types.                     *)

\* The semaphore that results from an adjustment is one.
LEMMA AdjustedType ==
  ASSUME NEW v \in 0 .. SEMAEM, NEW n \in Int
  PROVE  Adjusted(v, n) \in 0 .. SEMAEM
BY SemaemAssumption DEF Adjusted

\* A wait on semaphore i keeps the semaphores between 0 and SEMAEM.
LEMMA WaitType ==
  ASSUME SemTypeOK, NEW pr \in Processes, NEW i \in Sems, Wait(pr, i)
  PROVE  SemTypeOK'
<1>1. CASE UNCHANGED semVars
  BY <1>1 DEF semVars, SemTypeOK
<1>2. CASE Change(pr, i, -1)
  <2>1. sem[i] \in 0 .. SEMAEM /\ sem[i] > 0
    BY DEF SemTypeOK, Wait
  <2>2. sem[i] + -1 \in 0 .. SEMAEM
    BY <2>1, SemaemAssumption
  <2>3. semadj[pr][i] \in Int
    BY DEF SemTypeOK
  <2>4. semadj[pr][i] - (-1) \in Int
    BY <2>3
  <2> QED BY <1>2, <2>2, <2>4 DEF Change, SemTypeOK
<1> QED BY <1>1, <1>2 DEF Wait

\* A signal of it does, ...
LEMMA SignalType ==
  ASSUME SemTypeOK, NEW pr \in Processes, NEW i \in Sems, Signal(pr, i)
  PROVE  SemTypeOK'
<1>1. CASE UNCHANGED semVars
  BY <1>1 DEF semVars, SemTypeOK
<1>2. CASE Change(pr, i, 1) /\ sem[i] < SEMAEM
  <2>1. sem[i] + 1 \in 0 .. SEMAEM
    BY <1>2, SemaemAssumption DEF SemTypeOK
  <2>2. semadj[pr][i] \in Int
    BY DEF SemTypeOK
  <2>3. semadj[pr][i] - 1 \in Int
    BY <2>2
  <2> QED BY <1>2, <2>1, <2>3 DEF Change, SemTypeOK
<1> QED BY <1>1, <1>2 DEF Signal

\* ... and so does the end of a process.
LEMMA KillType ==
  ASSUME SemTypeOK, NEW pr \in Processes, Kill(pr)
  PROVE  SemTypeOK'
<1>1. \A i \in Sems : Adjusted(sem[i], semadj[pr][i]) \in 0 .. SEMAEM
  BY AdjustedType DEF SemTypeOK
<1>2. [i \in Sems |-> 0] \in [Sems -> Int]
  OBVIOUS
<1> QED BY <1>1, <1>2 DEF Kill, SemTypeOK

-----------------------------------------------------------------------------
(* Within the limit of the kernel the operations do not fail.               *)

\* A wait takes the semaphore down, and notes that for the end of the process, ...
LEMMA WaitWorks ==
  ASSUME SemTypeOK, NEW pr \in Processes, NEW i \in Sems, NEW j \in Sems, j # i,
         semadj[pr][i] < SEMAEM, Wait(pr, i)
  PROVE  /\ sem[i] > 0
         /\ sem'[i] = sem[i] - 1 /\ sem'[j] = sem[j]
         /\ semadj'[pr][i] = semadj[pr][i] + 1 /\ semadj'[pr][j] = semadj[pr][j]
         /\ \A o \in Processes \ {pr} : semadj'[o] = semadj[o]
         /\ alive' = alive
<1>1. semadj[pr][i] \in Int /\ sem[i] \in Int
  BY DEF SemTypeOK
<1>2. Change(pr, i, -1)
  BY <1>1, SemaemAssumption DEF Wait
<1> QED BY <1>1, <1>2 DEF Wait, Change, SemTypeOK

\* ... and a signal takes it up.
LEMMA SignalWorks ==
  ASSUME SemTypeOK, NEW pr \in Processes, NEW i \in Sems, NEW j \in Sems, j # i,
         semadj[pr][i] >= - SEMAEM, sem[i] < SEMAEM, Signal(pr, i)
  PROVE  /\ sem'[i] = sem[i] + 1 /\ sem'[j] = sem[j]
         /\ semadj'[pr][i] = semadj[pr][i] - 1 /\ semadj'[pr][j] = semadj[pr][j]
         /\ \A o \in Processes \ {pr} : semadj'[o] = semadj[o]
         /\ alive' = alive
<1>1. semadj[pr][i] \in Int /\ sem[i] \in Int
  BY DEF SemTypeOK
<1>2. Change(pr, i, 1)
  BY <1>1, SemaemAssumption DEF Signal
<1> QED BY <1>1, <1>2 DEF Change, SemTypeOK

\* A signal that the semaphore has no room for does nothing.
LEMMA SignalLost ==
  ASSUME SemTypeOK, NEW pr \in Processes, NEW i \in Sems, NEW j \in Sems, j # i,
         Signal(pr, i)
  PROVE  /\ sem'[j] = sem[j]
         /\ semadj'[pr][j] = semadj[pr][j]
         /\ \A o \in Processes \ {pr} : semadj'[o] = semadj[o]
         /\ alive' = alive
BY DEF Signal, Change, semVars, SemTypeOK

-----------------------------------------------------------------------------
(* CounterPair: the semaphores are those of SysVSemaphores.                 *)

\* Types and operations of the semaphores, for the instance that CounterPair has.
LEMMA PairSem ==
  /\ Pair!Processes = Processes /\ Pair!Sems = Sems
  /\ Pair!semVars = semVars /\ Pair!semVars' = semVars'
  /\ \A pr, i : Pair!Wait(pr, i) <=> Wait(pr, i)
  /\ \A pr, i : Pair!Signal(pr, i) <=> Signal(pr, i)
  /\ \A pr : Pair!Kill(pr) <=> Kill(pr)
  /\ Pair!SemTypeOK <=> SemTypeOK
  /\ Pair!SemTypeOK' <=> SemTypeOK'
BY DEF Pair!Wait, Wait, Pair!Signal, Signal, Pair!Change, Change, Pair!Kill, Kill,
       Pair!Adjusted, Adjusted, Pair!SemTypeOK, SemTypeOK, Pair!semVars, semVars,
       Pair!Processes, Processes, Pair!Sems, Sems

\* P1 and P2 between the end of their wait and their signal.
PairBusy1 == p1 \in {"write", "signal", "read"}
PairBusy2 == p2 \in {"write", "read", "signal"}

(***************************************************************************)
(* There is one permission to run: one process has it or one semaphore     *)
(* holds it.  The end of P1 takes back its last signal, so that no         *)
(* permission is left on semaphore 0 for a P2 that survives it; and vice   *)
(* versa.                                                                  *)
(***************************************************************************)
PairPermission ==
  /\ ~ (PairBusy1 /\ PairBusy2)
  /\ "P2" \in alive => sem[0] <= 1
  /\ "P1" \in alive => sem[1] <= 1
  /\ "P2" \in alive /\ sem[0] > 0 => ~ PairBusy1 /\ ~ PairBusy2
  /\ "P1" \in alive /\ sem[1] > 0 => ~ PairBusy1 /\ ~ PairBusy2
  /\ "P1" \in alive /\ "P2" \in alive => ~ (sem[0] > 0 /\ sem[1] > 0)
  /\ "P1" \notin alive /\ "P2" \in alive => sem[0] = 0
  /\ "P2" \notin alive /\ "P1" \in alive => sem[1] = 0

\* Who holds the permission tells whether Y has caught up with X.
PairDifference ==
  /\ X = Y \/ X = Y + 1
  /\ p1 \in {"write", "read"} => X = Y
  /\ p1 = "signal" => X = Y + 1
  /\ p1 \in {"signal", "wait"} => X > 0
  /\ p2 = "write" => X = Y + 1
  /\ p2 \in {"read", "signal"} => X = Y /\ Y > 0
  /\ "P2" \in alive /\ sem[0] > 0 => X = Y + 1
  /\ "P1" \in alive /\ sem[1] > 0 => X = Y

\* What the kernel would undo is what a process has done so far; a signal to
\* a process that is gone may have been lost.
PairUndo ==
  /\ "P1" \in alive =>
       LET signals == IF p1 = "signal" THEN X - 1 ELSE X
       IN  /\ semadj["P1"][0] + signals >= 0
           /\ "P2" \in alive => semadj["P1"][0] + signals = 0
           /\ semadj["P1"][1] = IF p1 \in {"signal", "wait"} THEN X - 1 ELSE X
  /\ "P2" \in alive =>
       LET signals == IF p2 \in {"read", "signal"} THEN Y - 1 ELSE Y
       IN  /\ semadj["P2"][0] = IF p2 = "write" THEN Y + 1 ELSE Y
           /\ semadj["P2"][1] + signals >= 0
           /\ "P1" \in alive => semadj["P2"][1] + signals = 0

PairInv == Pair!TypeOK /\ PairPermission /\ PairDifference /\ PairUndo

(***************************************************************************)
(* Type correctness.                                                       *)
(***************************************************************************)

\* TypeOK is an invariant: no wait takes a semaphore below 0, no signal and
\* no undoing takes it past SEMAEM, and X stays within its bound.
THEOREM PairTypes == Pair!Spec => []Pair!TypeOK
<1> USE PairSem
<1>1. Pair!Init => Pair!TypeOK
  BY SemaemAssumption, RoundsAssumption
     DEF Pair!Init, Pair!TypeOK, SemTypeOK, Sems, Processes
<1>2. Pair!TypeOK /\ [Pair!Next]_Pair!vars => Pair!TypeOK'
  <2> SUFFICES ASSUME Pair!TypeOK, [Pair!Next]_Pair!vars PROVE Pair!TypeOK'
    OBVIOUS
  <2>1. CASE Pair!P1
    <3>1. SemTypeOK'
      <4>1. CASE UNCHANGED semVars
        BY <4>1 DEF Pair!TypeOK, SemTypeOK, semVars
      <4> QED BY <2>1, <4>1, SignalType, WaitType
              DEF Pair!P1, Pair!P1Write, Pair!P1Signal, Pair!P1Wait, Pair!P1Read,
                  Pair!TypeOK, Processes, Sems
    <3>2. X' \in 0 .. Rounds
      BY <2>1, RoundsAssumption DEF Pair!P1, Pair!P1Write, Pair!P1Signal, Pair!P1Wait,
                                    Pair!P1Read, Pair!TypeOK
    <3> QED BY <2>1, <3>1, <3>2 DEF Pair!P1, Pair!P1Write, Pair!P1Signal, Pair!P1Wait,
                                    Pair!P1Read, Pair!TypeOK
  <2>2. CASE Pair!P2
    <3>1. SemTypeOK'
      <4>1. CASE UNCHANGED semVars
        BY <4>1 DEF Pair!TypeOK, SemTypeOK, semVars
      <4> QED BY <2>2, <4>1, SignalType, WaitType
              DEF Pair!P2, Pair!P2Write, Pair!P2Signal, Pair!P2Wait, Pair!P2Read,
                  Pair!TypeOK, Processes, Sems
    <3>2. Y' \in Nat
      BY <2>2 DEF Pair!P2, Pair!P2Write, Pair!P2Signal, Pair!P2Wait, Pair!P2Read, Pair!TypeOK
    <3> QED BY <2>2, <3>1, <3>2 DEF Pair!P2, Pair!P2Write, Pair!P2Signal, Pair!P2Wait,
                                    Pair!P2Read, Pair!TypeOK
  <2>3. CASE Pair!Killed
    BY <2>3, KillType DEF Pair!Killed, Pair!TypeOK
  <2>4. CASE UNCHANGED Pair!vars
    BY <2>4 DEF Pair!vars, semVars, Pair!TypeOK, SemTypeOK
  <2> QED BY <2>1, <2>2, <2>3, <2>4 DEF Pair!Next
<1> QED BY <1>1, <1>2, PTL DEF Pair!Spec


-----------------------------------------------------------------------------
(***************************************************************************)
(* PairInv is inductive.                                                      *)
(***************************************************************************)

\* A step of P1.
LEMMA PairP1Step ==
  ASSUME Rounds <= SEMAEM, PairInv, Pair!P1
  PROVE  PairPermission' /\ PairDifference' /\ PairUndo'
<1> USE RoundsAssumption, SemaemAssumption, PairSem
<1>0. /\ X \in Int /\ Y \in Int /\ X <= SEMAEM /\ X >= 0
      /\ sem[0] \in 0 .. SEMAEM /\ sem[1] \in 0 .. SEMAEM
      /\ semadj["P1"][0] \in Int /\ semadj["P1"][1] \in Int
      /\ p1 \in {"write", "signal", "wait", "read"}
      /\ "P1" \in alive /\ alive \in SUBSET Processes
      /\ Y' = Y /\ p2' = p2
  BY DEF PairInv, Pair!TypeOK, SemTypeOK, Sems, Processes, Pair!P1
<1>1. CASE Pair!P1Write
  BY <1>0, <1>1 DEF Pair!P1Write, PairInv, PairPermission, PairDifference, PairUndo,
                    PairBusy1, PairBusy2, semVars
<1>2. CASE Pair!P1Signal
  <2>1. CASE sem[0] < SEMAEM
    <3>1. semadj["P1"][0] >= - SEMAEM
      BY <1>0, <1>2 DEF Pair!P1Signal, PairInv, PairUndo
    <3>2. /\ sem'[0] = sem[0] + 1 /\ sem'[1] = sem[1]
          /\ semadj'["P1"][0] = semadj["P1"][0] - 1
          /\ semadj'["P1"][1] = semadj["P1"][1]
          /\ semadj'["P2"] = semadj["P2"] /\ alive' = alive
      BY <1>2, <2>1, <3>1, SignalWorks DEF Pair!P1Signal, PairInv, Pair!TypeOK, Sems, Processes
    <3>3. p1 = "signal" /\ p1' = "wait" /\ X' = X
      BY <1>2 DEF Pair!P1Signal
    <3>4. PairPermission'
      BY <1>0, <3>2, <3>3 DEF PairInv, PairPermission, PairDifference, PairBusy1,
                              PairBusy2, Processes
    <3>5. PairDifference'
      BY <1>0, <3>2, <3>3 DEF PairInv, PairPermission, PairDifference, PairBusy1, PairBusy2
    <3>6. PairUndo'
      BY <1>0, <3>2, <3>3 DEF PairInv, PairUndo
    <3> QED BY <3>4, <3>5, <3>6
  <2>2. CASE sem[0] >= SEMAEM
    <3>1. "P2" \notin alive
      BY <1>0, <1>2, <2>2 DEF Pair!P1Signal, PairInv, PairPermission, PairBusy1
    <3>2. /\ sem'[1] = sem[1] /\ semadj'["P1"][1] = semadj["P1"][1]
          /\ alive' = alive
      BY <1>2, SignalLost DEF Pair!P1Signal, PairInv, Pair!TypeOK, Sems, Processes
    <3>3. semadj'["P1"][0] = semadj["P1"][0] \/ semadj'["P1"][0] = semadj["P1"][0] - 1
      BY <1>0, <1>2 DEF Pair!P1Signal, Signal, Change, semVars, PairInv, Pair!TypeOK,
                        SemTypeOK, Sems, Processes
    <3>4. p1 = "signal" /\ p1' = "wait" /\ X' = X
      BY <1>2 DEF Pair!P1Signal
    <3>5. PairPermission' /\ PairDifference'
      BY <1>0, <3>1, <3>2, <3>4 DEF PairInv, PairPermission, PairDifference, PairBusy1,
                                    PairBusy2
    <3>6. PairUndo'
      BY <1>0, <3>1, <3>2, <3>3, <3>4 DEF PairInv, PairUndo
    <3> QED BY <3>5, <3>6
  <2> QED BY <1>0, <2>1, <2>2
<1>3. CASE Pair!P1Wait
  <2>1. semadj["P1"][1] < SEMAEM
    BY <1>0, <1>3 DEF Pair!P1Wait, PairInv, PairUndo
  <2>2. /\ sem[1] > 0 /\ sem'[1] = sem[1] - 1 /\ sem'[0] = sem[0]
        /\ semadj'["P1"][1] = semadj["P1"][1] + 1
        /\ semadj'["P1"][0] = semadj["P1"][0]
        /\ semadj'["P2"] = semadj["P2"] /\ alive' = alive
    BY <1>3, <2>1, WaitWorks DEF Pair!P1Wait, PairInv, Pair!TypeOK, Sems, Processes
  <2>3. p1 = "wait" /\ p1' = "read" /\ X' = X
    BY <1>3 DEF Pair!P1Wait
  <2>4. PairPermission'
    BY <1>0, <2>2, <2>3 DEF PairInv, PairPermission, PairBusy1, PairBusy2, Processes
  <2>5. PairDifference'
    BY <1>0, <2>2, <2>3 DEF PairInv, PairPermission, PairDifference, PairBusy1, PairBusy2
  <2>6. PairUndo'
    BY <1>0, <2>2, <2>3 DEF PairInv, PairUndo
  <2> QED BY <2>4, <2>5, <2>6
<1>4. CASE Pair!P1Read
  BY <1>0, <1>4 DEF Pair!P1Read, PairInv, PairPermission, PairDifference, PairUndo,
                    PairBusy1, PairBusy2, semVars
<1> QED BY <1>1, <1>2, <1>3, <1>4 DEF Pair!P1

\* A step of P2.
LEMMA PairP2Step ==
  ASSUME Rounds <= SEMAEM, PairInv, Pair!P2
  PROVE  PairPermission' /\ PairDifference' /\ PairUndo'
<1> USE RoundsAssumption, SemaemAssumption, PairSem
<1>0. /\ X \in Int /\ Y \in Int /\ X <= SEMAEM /\ X >= 0 /\ Y >= 0
      /\ sem[0] \in 0 .. SEMAEM /\ sem[1] \in 0 .. SEMAEM
      /\ semadj["P2"][0] \in Int /\ semadj["P2"][1] \in Int
      /\ p2 \in {"wait", "write", "read", "signal"}
      /\ "P2" \in alive /\ alive \in SUBSET Processes
      /\ X' = X /\ p1' = p1
  BY DEF PairInv, Pair!TypeOK, SemTypeOK, Sems, Processes, Pair!P2
<1>1. CASE Pair!P2Write
  BY <1>0, <1>1 DEF Pair!P2Write, PairInv, PairPermission, PairDifference, PairUndo,
                    PairBusy1, PairBusy2, semVars
<1>2. CASE Pair!P2Read
  BY <1>0, <1>2 DEF Pair!P2Read, PairInv, PairPermission, PairDifference, PairUndo,
                    PairBusy1, PairBusy2, semVars
<1>3. CASE Pair!P2Wait
  <2>0. sem[0] > 0
    BY <1>3 DEF Pair!P2Wait, Wait
  <2>1. semadj["P2"][0] < SEMAEM
    BY <1>0, <1>3, <2>0 DEF Pair!P2Wait, PairInv, PairUndo, PairDifference
  <2>2. /\ sem'[0] = sem[0] - 1 /\ sem'[1] = sem[1]
        /\ semadj'["P2"][0] = semadj["P2"][0] + 1
        /\ semadj'["P2"][1] = semadj["P2"][1]
        /\ semadj'["P1"] = semadj["P1"] /\ alive' = alive
    BY <1>3, <2>1, WaitWorks DEF Pair!P2Wait, PairInv, Pair!TypeOK, Sems, Processes
  <2>3. p2 = "wait" /\ p2' = "write" /\ Y' = Y
    BY <1>3 DEF Pair!P2Wait
  <2>4. PairPermission'
    BY <1>0, <2>0, <2>2, <2>3 DEF PairInv, PairPermission, PairBusy1, PairBusy2, Processes
  <2>5. PairDifference'
    BY <1>0, <2>0, <2>2, <2>3 DEF PairInv, PairPermission, PairDifference, PairBusy1, PairBusy2
  <2>6. PairUndo'
    BY <1>0, <2>0, <2>2, <2>3 DEF PairInv, PairUndo
  <2> QED BY <2>4, <2>5, <2>6
<1>4. CASE Pair!P2Signal
  <2>1. CASE sem[1] < SEMAEM
    <3>1. semadj["P2"][1] >= - SEMAEM
      BY <1>0, <1>4 DEF Pair!P2Signal, PairInv, PairUndo, PairDifference
    <3>2. /\ sem'[1] = sem[1] + 1 /\ sem'[0] = sem[0]
          /\ semadj'["P2"][1] = semadj["P2"][1] - 1
          /\ semadj'["P2"][0] = semadj["P2"][0]
          /\ semadj'["P1"] = semadj["P1"] /\ alive' = alive
      BY <1>4, <2>1, <3>1, SignalWorks DEF Pair!P2Signal, PairInv, Pair!TypeOK, Sems, Processes
    <3>3. p2 = "signal" /\ p2' = "wait" /\ Y' = Y
      BY <1>4 DEF Pair!P2Signal
    <3>4. PairPermission'
      BY <1>0, <3>2, <3>3 DEF PairInv, PairPermission, PairDifference, PairBusy1,
                              PairBusy2, Processes
    <3>5. PairDifference'
      BY <1>0, <3>2, <3>3 DEF PairInv, PairPermission, PairDifference, PairBusy1, PairBusy2
    <3>6. PairUndo'
      BY <1>0, <3>2, <3>3 DEF PairInv, PairUndo
    <3> QED BY <3>4, <3>5, <3>6
  <2>2. CASE sem[1] >= SEMAEM
    <3>1. "P1" \notin alive
      BY <1>0, <1>4, <2>2 DEF Pair!P2Signal, PairInv, PairPermission, PairBusy2
    <3>2. /\ sem'[0] = sem[0] /\ semadj'["P2"][0] = semadj["P2"][0]
          /\ alive' = alive
      BY <1>4, SignalLost DEF Pair!P2Signal, PairInv, Pair!TypeOK, Sems, Processes
    <3>3. semadj'["P2"][1] = semadj["P2"][1] \/ semadj'["P2"][1] = semadj["P2"][1] - 1
      BY <1>0, <1>4 DEF Pair!P2Signal, Signal, Change, semVars, PairInv, Pair!TypeOK,
                        SemTypeOK, Sems, Processes
    <3>4. p2 = "signal" /\ p2' = "wait" /\ Y' = Y
      BY <1>4 DEF Pair!P2Signal
    <3>5. PairPermission' /\ PairDifference'
      BY <1>0, <3>1, <3>2, <3>4 DEF PairInv, PairPermission, PairDifference, PairBusy1,
                                    PairBusy2
    <3>6. PairUndo'
      BY <1>0, <3>1, <3>2, <3>3, <3>4 DEF PairInv, PairUndo
    <3> QED BY <3>5, <3>6
  <2> QED BY <1>0, <2>1, <2>2
<1> QED BY <1>1, <1>2, <1>3, <1>4 DEF Pair!P2

\* The end of a process: the kernel takes back the permission that it may
\* have given to the other one and that has not been used.
LEMMA PairKilledStep ==
  ASSUME PairInv, Pair!Killed
  PROVE  PairPermission' /\ PairDifference' /\ PairUndo'
<1> USE RoundsAssumption, SemaemAssumption, PairSem
<1>0. /\ X \in Int /\ Y \in Int /\ X >= 0 /\ Y >= 0
      /\ sem[0] \in 0 .. SEMAEM /\ sem[1] \in 0 .. SEMAEM
      /\ \A pr \in Processes : semadj[pr][0] \in Int /\ semadj[pr][1] \in Int
      /\ alive \in SUBSET Processes
      /\ p1 \in {"write", "signal", "wait", "read"}
      /\ X' = X /\ p1' = p1 /\ Y' = Y /\ p2' = p2
  BY DEF PairInv, Pair!TypeOK, SemTypeOK, Sems, Processes, Pair!Killed
<1>1. CASE Kill("P1")
  <2>1. /\ "P1" \in alive /\ "P1" \notin alive'
        /\ "P2" \in alive' <=> "P2" \in alive
        /\ semadj'["P2"] = semadj["P2"]
        /\ sem'[0] = Adjusted(sem[0], semadj["P1"][0])
        /\ sem'[1] = Adjusted(sem[1], semadj["P1"][1])
    BY <1>1 DEF Kill, PairInv, Pair!TypeOK, SemTypeOK, Sems, Processes
  <2>2. "P2" \in alive => sem'[0] = 0
    <3> SUFFICES ASSUME "P2" \in alive PROVE sem'[0] = 0
      OBVIOUS
    <3>1. sem[0] + semadj["P1"][0] <= 0
      <4>1. CASE sem[0] = 0
        BY <1>0, <2>1, <4>1 DEF PairInv, PairDifference, PairUndo, Processes
      <4>2. CASE sem[0] = 1
        <5>1. X > 0 /\ p1 # "signal"
          BY <1>0, <2>1, <4>2 DEF PairInv, PairPermission, PairDifference, PairBusy1
        <5>2. semadj["P1"][0] + X = 0
          BY <2>1, <5>1 DEF PairInv, PairUndo
        <5> QED BY <1>0, <4>2, <5>1, <5>2 DEF Processes
      <4> QED BY <1>0, <4>1, <4>2 DEF PairInv, PairPermission
    <3> QED BY <1>0, <2>1, <3>1 DEF Adjusted, Processes
  <2> QED BY <1>0, <2>1, <2>2 DEF PairInv, PairPermission, PairDifference, PairUndo,
                                  PairBusy1, PairBusy2
<1>2. CASE Kill("P2")
  <2>1. /\ "P2" \in alive /\ "P2" \notin alive'
        /\ "P1" \in alive' <=> "P1" \in alive
        /\ semadj'["P1"] = semadj["P1"]
        /\ sem'[0] = Adjusted(sem[0], semadj["P2"][0])
        /\ sem'[1] = Adjusted(sem[1], semadj["P2"][1])
    BY <1>2 DEF Kill, PairInv, Pair!TypeOK, SemTypeOK, Sems, Processes
  <2>2. "P1" \in alive => sem'[1] = 0
    <3> SUFFICES ASSUME "P1" \in alive PROVE sem'[1] = 0
      OBVIOUS
    <3>1. sem[1] + semadj["P2"][1] <= 0
      <4>1. CASE sem[1] = 0
        BY <1>0, <2>1, <4>1 DEF PairInv, PairDifference, PairUndo, Processes
      <4>2. CASE sem[1] = 1
        <5>1. X = Y /\ X > 0 /\ p2 \notin {"read", "signal"}
          BY <1>0, <2>1, <4>2 DEF PairInv, PairPermission, PairDifference, PairBusy1, PairBusy2
        <5>2. semadj["P2"][1] + Y = 0
          BY <2>1, <5>1 DEF PairInv, PairUndo
        <5> QED BY <1>0, <4>2, <5>1, <5>2 DEF Processes
      <4> QED BY <1>0, <4>1, <4>2 DEF PairInv, PairPermission
    <3> QED BY <1>0, <2>1, <3>1 DEF Adjusted, Processes
  <2> QED BY <1>0, <2>1, <2>2 DEF PairInv, PairPermission, PairDifference, PairUndo,
                                  PairBusy1, PairBusy2
<1> QED BY <1>1, <1>2 DEF Pair!Killed, Processes

\* The invariant of 3-4.c is inductive.
LEMMA PairInductive ==
  ASSUME Rounds <= SEMAEM
  PROVE  Pair!Spec => []PairInv
<1> USE PairSem
<1>1. Pair!Init => PairPermission /\ PairDifference /\ PairUndo
  <2> SUFFICES ASSUME Pair!Init PROVE PairPermission /\ PairDifference /\ PairUndo
    OBVIOUS
  <2>1. \A pr \in Processes : semadj[pr][0] = 0 /\ semadj[pr][1] = 0
    BY DEF Pair!Init, Sems
  <2>2. sem[0] = 0 /\ sem[1] = 0 /\ X = 0 /\ Y = 0 /\ p1 = "write" /\ p2 = "wait"
    BY DEF Pair!Init, Sems
  <2>3. semadj["P1"][0] = 0 /\ semadj["P1"][1] = 0 /\ semadj["P2"][0] = 0 /\ semadj["P2"][1] = 0
    BY <2>1 DEF Processes
  <2>4. alive = Processes
    BY DEF Pair!Init
  <2>5. PairPermission
    BY <2>2, <2>4 DEF PairPermission, PairBusy2, Processes
  <2>6. PairDifference
    BY <2>2, <2>4 DEF PairDifference
  <2>7. PairUndo
    BY <2>2, <2>3 DEF PairUndo
  <2> QED BY <2>5, <2>6, <2>7
<1>2. PairInv /\ [Pair!Next]_Pair!vars => PairPermission' /\ PairDifference' /\ PairUndo'
  <2>1. ASSUME PairInv, UNCHANGED Pair!vars PROVE PairPermission' /\ PairDifference' /\ PairUndo'
    BY <2>1 DEF PairInv, PairPermission, PairDifference, PairUndo, PairBusy1, PairBusy2,
                Pair!vars, semVars
  <2> QED BY <2>1, PairP1Step, PairP2Step, PairKilledStep DEF Pair!Next
<1> QED BY <1>1, <1>2, PairTypes, PTL DEF Pair!Spec, PairInv

(***************************************************************************)
(* The results.                                                            *)
(***************************************************************************)

\* P1 and P2 exclude each other (3-4.c:43-48 and 57-63).
THEOREM PairExclusionHolds ==
  ASSUME Rounds <= SEMAEM
  PROVE  Pair!Spec => []Pair!Exclusion
<1>1. PairInv => Pair!Exclusion
  BY DEF PairInv, PairPermission, PairBusy1, PairBusy2, Pair!Exclusion
<1> QED BY <1>1, PairInductive, PTL

\* Each prints of the other's counter the value of the same round.
THEOREM PairReadsAgreeHolds ==
  ASSUME Rounds <= SEMAEM
  PROVE  Pair!Spec => []Pair!ReadsAgree
<1>1. PairInv => Pair!ReadsAgree
  BY DEF PairInv, PairDifference, Pair!ReadsAgree
<1> QED BY <1>1, PairInductive, PTL

\* The program implements the alternation of X and Y: a step of P1 that
\* writes X and one of P2 that writes Y are steps of the abstract
\* specification, all others leave both counters alone.
THEOREM PairInTurnHolds ==
  ASSUME Rounds <= SEMAEM
  PROVE  Pair!Spec => Pair!InTurn
<1>1. Pair!Init => Pair!Turns!Init
  BY DEF Pair!Init, Pair!Turns!Init
<1>2. PairInv /\ [Pair!Next]_Pair!vars => [Pair!Turns!Next]_<<X, Y>>
  <2>1. ASSUME PairInv, Pair!P1 PROVE [Pair!Turns!Next]_<<X, Y>>
    BY <2>1 DEF Pair!P1, Pair!P1Write, Pair!P1Signal, Pair!P1Wait, Pair!P1Read, PairInv,
                PairDifference,
                Pair!Turns!Next, Pair!Turns!IncrementX
  <2>2. ASSUME PairInv, Pair!P2 PROVE [Pair!Turns!Next]_<<X, Y>>
    BY <2>2 DEF Pair!P2, Pair!P2Write, Pair!P2Signal, Pair!P2Wait, Pair!P2Read, PairInv,
                PairDifference,
                Pair!Turns!Next, Pair!Turns!IncrementY
  <2> QED BY <2>1, <2>2 DEF Pair!Next, Pair!Killed, Pair!vars
<1> QED BY <1>1, <1>2, PairInductive, PTL DEF Pair!Spec, Pair!InTurn, Pair!Turns!Spec

-----------------------------------------------------------------------------
(* CounterLock: the semaphores are those of SysVSemaphores.                 *)

\* Types and operations of the semaphores, for the instance that CounterLock has.
LEMMA LockSem ==
  /\ Lock!Processes = Processes /\ Lock!Sems = Sems
  /\ Lock!semVars = semVars /\ Lock!semVars' = semVars'
  /\ \A pr, i : Lock!Wait(pr, i) <=> Wait(pr, i)
  /\ \A pr, i : Lock!Signal(pr, i) <=> Signal(pr, i)
  /\ \A pr : Lock!Kill(pr) <=> Kill(pr)
  /\ Lock!SemTypeOK <=> SemTypeOK
  /\ Lock!SemTypeOK' <=> SemTypeOK'
BY DEF Lock!Wait, Wait, Lock!Signal, Signal, Lock!Change, Change, Lock!Kill, Kill,
       Lock!Adjusted, Adjusted, Lock!SemTypeOK, SemTypeOK, Lock!semVars, semVars,
       Lock!Processes, Processes, Lock!Sems, Sems

\* P1 and P2 between the end of a wait and their next signal.
LockBusy1 == p1 \in {"write", "signal", "read", "release"}
LockBusy2 == p2 \in {"read", "write", "signal"}

\* There is one permission to run: one process has it or one semaphore holds
\* it.  Only P1 waits for semaphore 0, only P2 for semaphore 1.
LockPermission ==
  /\ ~ (LockBusy1 /\ LockBusy2)
  /\ "P1" \in alive => sem[0] <= 1
  /\ "P2" \in alive => sem[1] <= 1
  /\ "P1" \in alive /\ sem[0] > 0 => ~ LockBusy1 /\ ~ LockBusy2
  /\ "P2" \in alive /\ sem[1] > 0 => ~ LockBusy1 /\ ~ LockBusy2
  /\ "P1" \in alive /\ "P2" \in alive => ~ (sem[0] > 0 /\ sem[1] > 0)
  /\ "P1" \notin alive /\ "P2" \in alive => sem[1] = 0

\* Who holds the permission tells whether Y has caught up with X.  When P1
\* waits for P2, semaphore 0 is positive only if it has.
LockDifference ==
  /\ X = Y \/ X = Y + 1
  /\ p1 \in {"enter", "write", "read", "release"} => X = Y
  /\ p1 = "signal" => X = Y + 1
  /\ p1 \in {"signal", "wait"} => X > 0
  /\ p2 \in {"read", "write"} => X = Y + 1
  /\ p2 = "signal" => X = Y /\ Y > 0
  /\ "P1" \in alive /\ sem[0] > 0 => X = Y
  /\ "P2" \in alive /\ sem[1] > 0 => X = Y + 1

\* What the kernel would undo is what a process has done so far; a signal to
\* a process that is gone may have been lost.
LockUndo ==
  /\ "P1" \in alive =>
       LET signals == IF p1 = "signal" THEN X - 1 ELSE X
       IN  /\ semadj["P1"][0] = IF p1 \in {"write", "read", "release"} THEN X + 1 ELSE X
           /\ semadj["P1"][1] + signals >= 0
           /\ "P2" \in alive => semadj["P1"][1] + signals = 0
  /\ "P2" \in alive =>
       LET signals == IF p2 = "signal" THEN Y - 1 ELSE Y
       IN  /\ semadj["P2"][1] = IF p2 \in {"read", "write"} THEN Y + 1 ELSE Y
           /\ semadj["P2"][0] + signals >= 0
           /\ "P1" \in alive => semadj["P2"][0] + signals = 0

LockInv == Lock!TypeOK /\ LockPermission /\ LockDifference /\ LockUndo

(***************************************************************************)
(* Type correctness.                                                       *)
(***************************************************************************)

\* TypeOK is an invariant: no wait takes a semaphore below 0, no signal and
\* no undoing takes it past SEMAEM, and X stays within its bound.
THEOREM LockTypes == Lock!Spec => []Lock!TypeOK
<1> USE LockSem
<1>1. Lock!Init => Lock!TypeOK
  BY SemaemAssumption, RoundsAssumption
     DEF Lock!Init, Lock!TypeOK, SemTypeOK, Sems, Processes
<1>2. Lock!TypeOK /\ [Lock!Next]_Lock!vars => Lock!TypeOK'
  <2> SUFFICES ASSUME Lock!TypeOK, [Lock!Next]_Lock!vars PROVE Lock!TypeOK'
    OBVIOUS
  <2>1. CASE Lock!P1
    <3>1. SemTypeOK'
      <4>1. CASE UNCHANGED semVars
        BY <4>1 DEF Lock!TypeOK, SemTypeOK, semVars
      <4> QED BY <2>1, <4>1, SignalType, WaitType
              DEF Lock!P1, Lock!P1Enter, Lock!P1Write, Lock!P1Signal, Lock!P1Wait,
                  Lock!P1Read, Lock!P1Release, Lock!TypeOK, Processes, Sems
    <3>2. X' \in 0 .. Rounds
      BY <2>1, RoundsAssumption DEF Lock!P1, Lock!P1Enter, Lock!P1Write, Lock!P1Signal,
                                    Lock!P1Wait, Lock!P1Read, Lock!P1Release, Lock!TypeOK
    <3> QED BY <2>1, <3>1, <3>2 DEF Lock!P1, Lock!P1Enter, Lock!P1Write, Lock!P1Signal,
                                    Lock!P1Wait, Lock!P1Read, Lock!P1Release, Lock!TypeOK
  <2>2. CASE Lock!P2
    <3>1. SemTypeOK'
      <4>1. CASE UNCHANGED semVars
        BY <4>1 DEF Lock!TypeOK, SemTypeOK, semVars
      <4> QED BY <2>2, <4>1, SignalType, WaitType
              DEF Lock!P2, Lock!P2Wait, Lock!P2Read, Lock!P2Write, Lock!P2Signal,
                  Lock!TypeOK, Processes, Sems
    <3>2. Y' \in Nat
      BY <2>2 DEF Lock!P2, Lock!P2Wait, Lock!P2Read, Lock!P2Write, Lock!P2Signal, Lock!TypeOK
    <3> QED BY <2>2, <3>1, <3>2 DEF Lock!P2, Lock!P2Wait, Lock!P2Read, Lock!P2Write,
                                    Lock!P2Signal, Lock!TypeOK
  <2>3. CASE Lock!Killed
    BY <2>3, KillType DEF Lock!Killed, Lock!TypeOK
  <2>4. CASE UNCHANGED Lock!vars
    BY <2>4 DEF Lock!vars, semVars, Lock!TypeOK, SemTypeOK
  <2> QED BY <2>1, <2>2, <2>3, <2>4 DEF Lock!Next
<1> QED BY <1>1, <1>2, PTL DEF Lock!Spec


-----------------------------------------------------------------------------
(***************************************************************************)
(* LockInv is inductive.                                                      *)
(***************************************************************************)

\* A step of P1.
LEMMA LockP1Step ==
  ASSUME Rounds < SEMAEM, LockInv, Lock!P1
  PROVE  LockPermission' /\ LockDifference' /\ LockUndo'
<1> USE RoundsAssumption, SemaemAssumption, LockSem
<1>0. /\ X \in Int /\ Y \in Int /\ X < SEMAEM /\ X >= 0 /\ Y >= 0
      /\ sem[0] \in 0 .. SEMAEM /\ sem[1] \in 0 .. SEMAEM
      /\ semadj["P1"][0] \in Int /\ semadj["P1"][1] \in Int
      /\ p1 \in {"enter", "write", "signal", "wait", "read", "release"}
      /\ "P1" \in alive /\ alive \in SUBSET Processes
      /\ Y' = Y /\ p2' = p2
  BY DEF LockInv, Lock!TypeOK, SemTypeOK, Sems, Processes, Lock!P1
<1>1. CASE Lock!P1Enter
  <2>0. sem[0] > 0
    BY <1>1 DEF Lock!P1Enter, Wait
  <2>1. semadj["P1"][0] < SEMAEM
    BY <1>0, <1>1, <2>0 DEF Lock!P1Enter, LockInv, LockUndo, LockDifference
  <2>2. /\ sem'[0] = sem[0] - 1 /\ sem'[1] = sem[1]
        /\ semadj'["P1"][0] = semadj["P1"][0] + 1
        /\ semadj'["P1"][1] = semadj["P1"][1]
        /\ semadj'["P2"] = semadj["P2"] /\ alive' = alive
    BY <1>1, <2>1, WaitWorks DEF Lock!P1Enter, LockInv, Lock!TypeOK, Sems, Processes
  <2>3. p1 = "enter" /\ p1' = "write" /\ X' = X
    BY <1>1 DEF Lock!P1Enter
  <2>4. LockPermission'
    BY <1>0, <2>0, <2>2, <2>3 DEF LockInv, LockPermission, LockBusy1, LockBusy2
  <2>5. LockDifference'
    BY <1>0, <2>0, <2>2, <2>3 DEF LockInv, LockPermission, LockDifference, LockBusy1, LockBusy2
  <2>6. LockUndo'
    BY <1>0, <2>0, <2>2, <2>3 DEF LockInv, LockUndo
  <2> QED BY <2>4, <2>5, <2>6
<1>2. CASE Lock!P1Write
  BY <1>0, <1>2 DEF Lock!P1Write, LockInv, LockPermission, LockDifference, LockUndo,
                    LockBusy1, LockBusy2, semVars
<1>3. CASE Lock!P1Signal
  <2>1. CASE sem[1] < SEMAEM
    <3>1. semadj["P1"][1] >= - SEMAEM
      BY <1>0, <1>3 DEF Lock!P1Signal, LockInv, LockUndo, LockDifference
    <3>2. /\ sem'[1] = sem[1] + 1 /\ sem'[0] = sem[0]
          /\ semadj'["P1"][1] = semadj["P1"][1] - 1
          /\ semadj'["P1"][0] = semadj["P1"][0]
          /\ semadj'["P2"] = semadj["P2"] /\ alive' = alive
      BY <1>3, <2>1, <3>1, SignalWorks DEF Lock!P1Signal, LockInv, Lock!TypeOK, Sems, Processes
    <3>3. p1 = "signal" /\ p1' = "wait" /\ X' = X
      BY <1>3 DEF Lock!P1Signal
    <3>4. LockPermission'
      BY <1>0, <3>2, <3>3 DEF LockInv, LockPermission, LockDifference, LockBusy1, LockBusy2
    <3>5. LockDifference'
      BY <1>0, <3>2, <3>3 DEF LockInv, LockPermission, LockDifference, LockBusy1, LockBusy2
    <3>6. LockUndo'
      BY <1>0, <3>2, <3>3 DEF LockInv, LockUndo
    <3> QED BY <3>4, <3>5, <3>6
  <2>2. CASE sem[1] >= SEMAEM
    <3>1. "P2" \notin alive
      BY <1>0, <1>3, <2>2 DEF Lock!P1Signal, LockInv, LockPermission, LockBusy1
    <3>2. /\ sem'[0] = sem[0] /\ semadj'["P1"][0] = semadj["P1"][0]
          /\ alive' = alive
      BY <1>3, SignalLost DEF Lock!P1Signal, LockInv, Lock!TypeOK, Sems, Processes
    <3>3. \/ semadj'["P1"][1] = semadj["P1"][1]
          \/ semadj'["P1"][1] = semadj["P1"][1] - 1
      BY <1>0, <1>3 DEF Lock!P1Signal, Signal, Change, semVars, LockInv, Lock!TypeOK,
                        SemTypeOK, Sems, Processes
    <3>4. p1 = "signal" /\ p1' = "wait" /\ X' = X
      BY <1>3 DEF Lock!P1Signal
    <3>5. LockPermission' /\ LockDifference'
      BY <1>0, <3>1, <3>2, <3>4 DEF LockInv, LockPermission, LockDifference, LockBusy1,
                                    LockBusy2
    <3>6. LockUndo'
      BY <1>0, <3>1, <3>2, <3>3, <3>4 DEF LockInv, LockUndo
    <3> QED BY <3>5, <3>6
  <2> QED BY <1>0, <2>1, <2>2
<1>4. CASE Lock!P1Wait
  <2>0. sem[0] > 0
    BY <1>4 DEF Lock!P1Wait, Wait
  <2>1. semadj["P1"][0] < SEMAEM
    BY <1>0, <1>4, <2>0 DEF Lock!P1Wait, LockInv, LockUndo, LockDifference
  <2>2. /\ sem'[0] = sem[0] - 1 /\ sem'[1] = sem[1]
        /\ semadj'["P1"][0] = semadj["P1"][0] + 1
        /\ semadj'["P1"][1] = semadj["P1"][1]
        /\ semadj'["P2"] = semadj["P2"] /\ alive' = alive
    BY <1>4, <2>1, WaitWorks DEF Lock!P1Wait, LockInv, Lock!TypeOK, Sems, Processes
  <2>3. p1 = "wait" /\ p1' = "read" /\ X' = X
    BY <1>4 DEF Lock!P1Wait
  <2>4. LockPermission'
    BY <1>0, <2>0, <2>2, <2>3 DEF LockInv, LockPermission, LockBusy1, LockBusy2
  <2>5. LockDifference'
    BY <1>0, <2>0, <2>2, <2>3 DEF LockInv, LockPermission, LockDifference, LockBusy1, LockBusy2
  <2>6. LockUndo'
    BY <1>0, <2>0, <2>2, <2>3 DEF LockInv, LockUndo
  <2> QED BY <2>4, <2>5, <2>6
<1>5. CASE Lock!P1Read
  BY <1>0, <1>5 DEF Lock!P1Read, LockInv, LockPermission, LockDifference, LockUndo,
                    LockBusy1, LockBusy2, semVars
<1>6. CASE Lock!P1Release
  <2>1. CASE sem[0] < SEMAEM
    <3>1. semadj["P1"][0] >= - SEMAEM
      BY <1>0, <1>6 DEF Lock!P1Release, LockInv, LockUndo, LockDifference
    <3>2. /\ sem'[0] = sem[0] + 1 /\ sem'[1] = sem[1]
          /\ semadj'["P1"][0] = semadj["P1"][0] - 1
          /\ semadj'["P1"][1] = semadj["P1"][1]
          /\ semadj'["P2"] = semadj["P2"] /\ alive' = alive
      BY <1>6, <2>1, <3>1, SignalWorks DEF Lock!P1Release, LockInv, Lock!TypeOK, Sems, Processes
    <3>3. p1 = "release" /\ p1' = "enter" /\ X' = X
      BY <1>6 DEF Lock!P1Release
    <3>4. LockPermission'
      BY <1>0, <3>2, <3>3 DEF LockInv, LockPermission, LockDifference, LockBusy1, LockBusy2
    <3>5. LockDifference'
      BY <1>0, <3>2, <3>3 DEF LockInv, LockPermission, LockDifference, LockBusy1, LockBusy2
    <3>6. LockUndo'
      BY <1>0, <3>2, <3>3 DEF LockInv, LockUndo
    <3> QED BY <3>4, <3>5, <3>6
  <2>2. sem[0] < SEMAEM
    BY <1>0, <1>6 DEF Lock!P1Release, LockInv, LockPermission, LockBusy1
  <2> QED BY <1>0, <2>1, <2>2
<1> QED BY <1>1, <1>2, <1>3, <1>4, <1>5, <1>6 DEF Lock!P1

\* A step of P2.
LEMMA LockP2Step ==
  ASSUME Rounds < SEMAEM, LockInv, Lock!P2
  PROVE  LockPermission' /\ LockDifference' /\ LockUndo'
<1> USE RoundsAssumption, SemaemAssumption, LockSem
<1>0. /\ X \in Int /\ Y \in Int /\ X < SEMAEM /\ X >= 0 /\ Y >= 0
      /\ sem[0] \in 0 .. SEMAEM /\ sem[1] \in 0 .. SEMAEM
      /\ semadj["P2"][0] \in Int /\ semadj["P2"][1] \in Int
      /\ p2 \in {"wait", "read", "write", "signal"}
      /\ "P2" \in alive /\ alive \in SUBSET Processes
      /\ X' = X /\ p1' = p1
  BY DEF LockInv, Lock!TypeOK, SemTypeOK, Sems, Processes, Lock!P2
<1>1. CASE Lock!P2Wait
  <2>0. sem[1] > 0
    BY <1>1 DEF Lock!P2Wait, Wait
  <2>1. semadj["P2"][1] < SEMAEM
    BY <1>0, <1>1, <2>0 DEF Lock!P2Wait, LockInv, LockUndo, LockDifference
  <2>2. /\ sem'[1] = sem[1] - 1 /\ sem'[0] = sem[0]
        /\ semadj'["P2"][1] = semadj["P2"][1] + 1
        /\ semadj'["P2"][0] = semadj["P2"][0]
        /\ semadj'["P1"] = semadj["P1"] /\ alive' = alive
    BY <1>1, <2>1, WaitWorks DEF Lock!P2Wait, LockInv, Lock!TypeOK, Sems, Processes
  <2>3. p2 = "wait" /\ p2' = "read" /\ Y' = Y
    BY <1>1 DEF Lock!P2Wait
  <2>4. LockPermission'
    BY <1>0, <2>0, <2>2, <2>3 DEF LockInv, LockPermission, LockBusy1, LockBusy2
  <2>5. LockDifference'
    BY <1>0, <2>0, <2>2, <2>3 DEF LockInv, LockPermission, LockDifference, LockBusy1, LockBusy2
  <2>6. LockUndo'
    BY <1>0, <2>0, <2>2, <2>3 DEF LockInv, LockUndo
  <2> QED BY <2>4, <2>5, <2>6
<1>2. CASE Lock!P2Read
  BY <1>0, <1>2 DEF Lock!P2Read, LockInv, LockPermission, LockDifference, LockUndo,
                    LockBusy1, LockBusy2, semVars
<1>3. CASE Lock!P2Write
  BY <1>0, <1>3 DEF Lock!P2Write, LockInv, LockPermission, LockDifference, LockUndo,
                    LockBusy1, LockBusy2, semVars
<1>4. CASE Lock!P2Signal
  <2>1. CASE sem[0] < SEMAEM
    <3>1. semadj["P2"][0] >= - SEMAEM
      BY <1>0, <1>4 DEF Lock!P2Signal, LockInv, LockUndo, LockDifference
    <3>2. /\ sem'[0] = sem[0] + 1 /\ sem'[1] = sem[1]
          /\ semadj'["P2"][0] = semadj["P2"][0] - 1
          /\ semadj'["P2"][1] = semadj["P2"][1]
          /\ semadj'["P1"] = semadj["P1"] /\ alive' = alive
      BY <1>4, <2>1, <3>1, SignalWorks DEF Lock!P2Signal, LockInv, Lock!TypeOK, Sems, Processes
    <3>3. p2 = "signal" /\ p2' = "wait" /\ Y' = Y
      BY <1>4 DEF Lock!P2Signal
    <3>4. LockPermission'
      BY <1>0, <3>2, <3>3 DEF LockInv, LockPermission, LockDifference, LockBusy1, LockBusy2
    <3>5. LockDifference'
      BY <1>0, <3>2, <3>3 DEF LockInv, LockPermission, LockDifference, LockBusy1, LockBusy2
    <3>6. LockUndo'
      BY <1>0, <3>2, <3>3 DEF LockInv, LockUndo
    <3> QED BY <3>4, <3>5, <3>6
  <2>2. CASE sem[0] >= SEMAEM
    <3>1. "P1" \notin alive
      BY <1>0, <1>4, <2>2 DEF Lock!P2Signal, LockInv, LockPermission, LockBusy2
    <3>2. /\ sem'[1] = sem[1] /\ semadj'["P2"][1] = semadj["P2"][1]
          /\ alive' = alive
      BY <1>4, SignalLost DEF Lock!P2Signal, LockInv, Lock!TypeOK, Sems, Processes
    <3>3. \/ semadj'["P2"][0] = semadj["P2"][0]
          \/ semadj'["P2"][0] = semadj["P2"][0] - 1
      BY <1>0, <1>4 DEF Lock!P2Signal, Signal, Change, semVars, LockInv, Lock!TypeOK,
                        SemTypeOK, Sems, Processes
    <3>4. p2 = "signal" /\ p2' = "wait" /\ Y' = Y
      BY <1>4 DEF Lock!P2Signal
    <3>5. LockPermission' /\ LockDifference'
      BY <1>0, <3>1, <3>2, <3>4 DEF LockInv, LockPermission, LockDifference, LockBusy1,
                                    LockBusy2
    <3>6. LockUndo'
      BY <1>0, <3>1, <3>2, <3>3, <3>4 DEF LockInv, LockUndo
    <3> QED BY <3>5, <3>6
  <2> QED BY <1>0, <2>1, <2>2
<1> QED BY <1>1, <1>2, <1>3, <1>4 DEF Lock!P2

\* The end of a process: the kernel takes back the permission that it may
\* have given to the other one, also one that the other has given back.
LEMMA LockKilledStep ==
  ASSUME LockInv, Lock!Killed
  PROVE  LockPermission' /\ LockDifference' /\ LockUndo'
<1> USE RoundsAssumption, SemaemAssumption, LockSem
<1>0. /\ X \in Int /\ Y \in Int /\ X >= 0 /\ Y >= 0
      /\ sem[0] \in 0 .. SEMAEM /\ sem[1] \in 0 .. SEMAEM
      /\ \A pr \in Processes : semadj[pr][0] \in Int /\ semadj[pr][1] \in Int
      /\ alive \in SUBSET Processes
      /\ p1 \in {"enter", "write", "signal", "wait", "read", "release"}
      /\ X' = X /\ p1' = p1 /\ Y' = Y /\ p2' = p2
  BY DEF LockInv, Lock!TypeOK, SemTypeOK, Sems, Processes, Lock!Killed
<1>1. CASE Kill("P1")
  <2>1. /\ "P1" \in alive /\ "P1" \notin alive'
        /\ "P2" \in alive' <=> "P2" \in alive
        /\ semadj'["P2"] = semadj["P2"]
        /\ sem'[0] = Adjusted(sem[0], semadj["P1"][0])
        /\ sem'[1] = Adjusted(sem[1], semadj["P1"][1])
    BY <1>1 DEF Kill, LockInv, Lock!TypeOK, SemTypeOK, Sems, Processes
  <2>2. "P2" \in alive => sem'[1] = 0
    <3> SUFFICES ASSUME "P2" \in alive PROVE sem'[1] = 0
      OBVIOUS
    <3>1. sem[1] + semadj["P1"][1] <= 0
      <4>1. CASE sem[1] = 0
        BY <1>0, <2>1, <4>1 DEF LockInv, LockDifference, LockUndo, Processes
      <4>2. CASE sem[1] = 1
        <5>1. X > 0 /\ p1 # "signal"
          BY <1>0, <2>1, <4>2 DEF LockInv, LockPermission, LockDifference, LockBusy1
        <5>2. semadj["P1"][1] + X = 0
          BY <2>1, <5>1 DEF LockInv, LockUndo
        <5> QED BY <1>0, <4>2, <5>1, <5>2 DEF Processes
      <4> QED BY <1>0, <4>1, <4>2 DEF LockInv, LockPermission
    <3> QED BY <1>0, <2>1, <3>1 DEF Adjusted, Processes
  <2> QED BY <1>0, <2>1, <2>2 DEF LockInv, LockPermission, LockDifference, LockUndo,
                                  LockBusy1, LockBusy2
<1>2. CASE Kill("P2")
  <2>1. /\ "P2" \in alive /\ "P2" \notin alive'
        /\ "P1" \in alive' <=> "P1" \in alive
        /\ semadj'["P1"] = semadj["P1"]
        /\ sem'[0] = Adjusted(sem[0], semadj["P2"][0])
        /\ sem'[1] = Adjusted(sem[1], semadj["P2"][1])
    BY <1>2 DEF Kill, LockInv, Lock!TypeOK, SemTypeOK, Sems, Processes
  <2>2. "P1" \in alive => sem'[0] = 0 \/ sem'[0] = sem[0]
    <3> SUFFICES ASSUME "P1" \in alive PROVE sem'[0] = 0 \/ sem'[0] = sem[0]
      OBVIOUS
    <3>1. semadj["P2"][0] <= 0
      BY <1>0, <2>1 DEF LockInv, LockDifference, LockUndo, Processes
    <3>2. sem[0] \in {0, 1}
      BY <1>0 DEF LockInv, LockPermission
    <3> QED BY <1>0, <2>1, <3>1, <3>2 DEF Adjusted, Processes
  <2> QED BY <1>0, <2>1, <2>2 DEF LockInv, LockPermission, LockDifference, LockUndo,
                                  LockBusy1, LockBusy2
<1> QED BY <1>1, <1>2 DEF Lock!Killed, Processes

\* The invariant of 3-5.c is inductive.
LEMMA LockInductive ==
  ASSUME Rounds < SEMAEM
  PROVE  Lock!Spec => []LockInv
<1> USE LockSem
<1>1. Lock!Init => LockPermission /\ LockDifference /\ LockUndo
  <2> SUFFICES ASSUME Lock!Init PROVE LockPermission /\ LockDifference /\ LockUndo
    OBVIOUS
  <2>1. \A pr \in Processes : semadj[pr][0] = 0 /\ semadj[pr][1] = 0
    BY DEF Lock!Init, Sems
  <2>2. sem[0] = 1 /\ sem[1] = 0 /\ X = 0 /\ Y = 0 /\ p1 = "enter" /\ p2 = "wait"
    BY DEF Lock!Init, Sems
  <2>3. semadj["P1"][0] = 0 /\ semadj["P1"][1] = 0 /\ semadj["P2"][0] = 0 /\ semadj["P2"][1] = 0
    BY <2>1 DEF Processes
  <2>4. alive = Processes
    BY DEF Lock!Init
  <2>5. LockPermission
    BY <2>2, <2>4 DEF LockPermission, LockBusy1, LockBusy2, Processes
  <2>6. LockDifference
    BY <2>2, <2>4 DEF LockDifference
  <2>7. LockUndo
    BY <2>2, <2>3 DEF LockUndo
  <2> QED BY <2>5, <2>6, <2>7
<1>2. LockInv /\ [Lock!Next]_Lock!vars => LockPermission' /\ LockDifference' /\ LockUndo'
  <2>1. ASSUME LockInv, UNCHANGED Lock!vars PROVE LockPermission' /\ LockDifference' /\ LockUndo'
    BY <2>1 DEF LockInv, LockPermission, LockDifference, LockUndo, LockBusy1, LockBusy2,
                Lock!vars, semVars
  <2> QED BY <2>1, LockP1Step, LockP2Step, LockKilledStep DEF Lock!Next
<1> QED BY <1>1, <1>2, LockTypes, PTL DEF Lock!Spec, LockInv

(***************************************************************************)
(* The results.                                                            *)
(***************************************************************************)

\* P1 and P2 exclude each other (3-5.c:43-50 and 59-65).
THEOREM LockExclusionHolds ==
  ASSUME Rounds < SEMAEM
  PROVE  Lock!Spec => []Lock!Exclusion
<1>1. LockInv => Lock!Exclusion
  BY DEF LockInv, LockPermission, LockBusy1, LockBusy2, Lock!Exclusion
<1> QED BY <1>1, LockInductive, PTL

\* Each prints of the other's counter the value that belongs to its round.
THEOREM LockReadsAgreeHolds ==
  ASSUME Rounds < SEMAEM
  PROVE  Lock!Spec => []Lock!ReadsAgree
<1>1. LockInv => Lock!ReadsAgree
  BY DEF LockInv, LockDifference, Lock!ReadsAgree
<1> QED BY <1>1, LockInductive, PTL

\* The program implements the alternation of X and Y: a step of P1 that
\* writes X and one of P2 that writes Y are steps of the abstract
\* specification, all others leave both counters alone.
THEOREM LockInTurnHolds ==
  ASSUME Rounds < SEMAEM
  PROVE  Lock!Spec => Lock!InTurn
<1>1. Lock!Init => Lock!Turns!Init
  BY DEF Lock!Init, Lock!Turns!Init
<1>2. LockInv /\ [Lock!Next]_Lock!vars => [Lock!Turns!Next]_<<X, Y>>
  <2>1. ASSUME LockInv, Lock!P1 PROVE [Lock!Turns!Next]_<<X, Y>>
    BY <2>1 DEF Lock!P1, Lock!P1Enter, Lock!P1Write, Lock!P1Signal, Lock!P1Wait,
                Lock!P1Read, Lock!P1Release, LockInv, LockDifference,
                Lock!Turns!Next, Lock!Turns!IncrementX
  <2>2. ASSUME LockInv, Lock!P2 PROVE [Lock!Turns!Next]_<<X, Y>>
    BY <2>2 DEF Lock!P2, Lock!P2Write, Lock!P2Signal, Lock!P2Wait, Lock!P2Read, LockInv,
                LockDifference,
                Lock!Turns!Next, Lock!Turns!IncrementY
  <2> QED BY <2>1, <2>2 DEF Lock!Next, Lock!Killed, Lock!vars
<1> QED BY <1>1, <1>2, LockInductive, PTL DEF Lock!Spec, Lock!InTurn, Lock!Turns!Spec

-----------------------------------------------------------------------------
(***************************************************************************)
(* SignalPair.  Whose turn it is shows in X and Y, in currID and in where  *)
(* the signal is, unless P1 starts before P2 is in the shared memory: then *)
(* its first signal ends it, and P2 has one turn more at most.             *)
(***************************************************************************)

\* P1 sleeps: X and Y have their first values, and currID that of shmget or of P2.
Asleep ==
  /\ main["P1"] = "start" /\ running = Signals!Processes /\ pending = {}
  /\ \A p \in Signals!Processes : handler[p] = "none"
  /\ currID = (IF main["P2"] = "loop" THEN "P2" ELSE Signals!Nobody)
  /\ X = 1 /\ Y = 1

\* P1 has its first turn, and nobody is in the shared memory yet.
Early ==
  /\ main["P1"] = "loop" /\ main["P2"] # "loop" /\ running = Signals!Processes /\ pending = {}
  /\ handler["P1"] \in {"increment", "take"} /\ handler["P2"] = "none"
  /\ currID = Signals!Nobody
  /\ Y = 1 /\ X = (IF handler["P1"] = "increment" THEN 1 ELSE 2)

\* p has the turn: the other process was the last to have it, as p finds out.
HasIt(p, o) ==
  /\ handler[p] # "none" /\ handler[o] = "none" /\ pending = {}
  /\ handler[p] \in {"store", "send"} => target[p] = o
  /\ currID = (IF handler[p] = "send" THEN p ELSE o)

\* p had the turn and has sent the signal that gives it to the other process.
HasPassedIt(p, o) ==
  /\ \A x \in Signals!Processes : handler[x] = "none"
  /\ pending = {<<o, Signals!Sent(p)>>} /\ currID = p

\* Both are ready, and X and Y tell whose turn it is.
Regular ==
  /\ main["P1"] = "loop" /\ main["P2"] = "loop" /\ running = Signals!Processes
  /\ \/ HasIt("P1", "P2") /\ X = (IF handler["P1"] = "increment" THEN Y ELSE Y + 1)
     \/ HasPassedIt("P1", "P2") /\ X = Y + 1
     \/ HasIt("P2", "P1") /\ X = (IF handler["P2"] = "increment" THEN Y + 1 ELSE Y)
     \/ HasPassedIt("P2", "P1") /\ X = Y

\* P1 is about to signal process 0, that is both, ...
Wrong ==
  /\ running = Signals!Processes /\ pending = {} /\ handler["P2"] = "none"
  /\ handler["P1"] \in {"store", "send"} /\ target["P1"] = Signals!Nobody
  /\ X = 2 /\ Y = 1

\* ... and has: it ended, and P2 answers at most once.
Ended ==
  /\ running \subseteq {"P2"} /\ handler["P1"] = "none" /\ X = 2
  /\ pending \subseteq {<<"P2", "SIGUSR2">>, <<"P1", "SIGUSR1">>}
  /\ <<"P2", "SIGUSR2">> \in pending => handler["P2"] = "none"
  /\ <<"P2", "SIGUSR2">> \in pending \/ handler["P2"] = "increment" => Y = 1

\* The stages of a behaviour.
Stages == Asleep \/ Early \/ Regular \/ Wrong \/ Ended

\* The types.
LEMMA SignalsTyping ==
  ASSUME Signals!TypeOK, Signals!Next
  PROVE  Signals!TypeOK'
<1> USE RoundsAssumption DEF Signals!TypeOK, Signals!Processes
<1>1. CASE Signals!Raise1 \/ Signals!Install2 \/ Signals!Enter2
  <2>1. CASE Signals!Raise1
    BY <2>1 DEF Signals!Raise1, Signals!Main, Signals!Nobody
  <2>2. CASE Signals!Install2
    BY <2>2 DEF Signals!Install2, Signals!Main, Signals!Nobody
  <2>3. CASE Signals!Enter2
    BY <2>3 DEF Signals!Enter2, Signals!Main, Signals!Nobody
  <2> QED BY <1>1, <2>1, <2>2, <2>3
<1>2. CASE Signals!Increment1 \/ Signals!Increment2
  <2>1. X' \in 1 .. Rounds + 1 /\ Y' \in Nat
    BY <1>2 DEF Signals!Increment1, Signals!Increment2
  <2>2. \E p \in Signals!Processes : Signals!Goes(p, "increment", "take")
    BY <1>2 DEF Signals!Increment1, Signals!Increment2
  <2>3. handler' \in [Signals!Processes -> {"none", "increment", "take", "store", "send"}]
    BY <2>2 DEF Signals!Goes
  <2>4. UNCHANGED <<currID, main, target, pending, running, late>>
    BY <1>2 DEF Signals!Increment1, Signals!Increment2
  <2> QED BY <2>1, <2>3, <2>4
<1>3. ASSUME NEW p \in Signals!Processes, Signals!Take(p) \/ Signals!Store(p)
      PROVE  Signals!TypeOK'
  <2>1. handler' \in [Signals!Processes -> {"none", "increment", "take", "store", "send"}]
    BY <1>3 DEF Signals!Take, Signals!Store, Signals!Goes
  <2>2. target' \in [Signals!Processes -> Signals!Processes \union {Signals!Nobody}]
    BY <1>3 DEF Signals!Take, Signals!Store
  <2>3. currID' \in Signals!Processes \union {Signals!Nobody}
    BY <1>3 DEF Signals!Take, Signals!Store
  <2>4. UNCHANGED <<X, Y, main, pending, running, late>>
    BY <1>3 DEF Signals!Take, Signals!Store
  <2> QED BY <2>1, <2>2, <2>3, <2>4
<1>4. ASSUME NEW p \in Signals!Processes, Signals!Send(p) PROVE Signals!TypeOK'
  BY <1>4 DEF Signals!Send, Signals!Goes, Signals!Sent
<1>5. ASSUME NEW p \in Signals!Processes, NEW s, Signals!Deliver(p, s) PROVE Signals!TypeOK'
  <2>1. handler' \in [Signals!Processes -> {"none", "increment", "take", "store", "send"}]
    BY <1>5 DEF Signals!Deliver, Signals!Goes
  <2>2. pending' \subseteq pending /\ running' \subseteq running
    BY <1>5 DEF Signals!Deliver
  <2>3. UNCHANGED <<X, Y, currID, main, target, late>>
    BY <1>5 DEF Signals!Deliver
  <2> QED BY <2>1, <2>2, <2>3
<1> QED BY <1>1, <1>2, <1>3, <1>4, <1>5 DEF Signals!Next, Signals!Process1, Signals!Process2

\* What a step of main does to the two processes, ...
LEMMA MainStep ==
  ASSUME Signals!TypeOK, NEW p \in Signals!Processes, NEW from, NEW to, Signals!Main(p, from, to)
  PROVE  /\ p \in running /\ handler[p] = "none" /\ main[p] = from /\ main'[p] = to
         /\ \A o \in Signals!Processes \ {p} : main'[o] = main[o]
BY DEF Signals!Main, Signals!TypeOK

\* ... and a step of a handler.
LEMMA GoesStep ==
  ASSUME Signals!TypeOK, NEW p \in Signals!Processes, NEW from, NEW to, Signals!Goes(p, from, to)
  PROVE  /\ p \in running /\ handler[p] = from /\ handler'[p] = to
         /\ \A o \in Signals!Processes \ {p} : handler'[o] = handler[o]
BY DEF Signals!Goes, Signals!TypeOK

\* Steps of main.
LEMMA MainKeeps ==
  ASSUME Signals!TypeOK, Stages, Signals!Raise1 \/ Signals!Install2 \/ Signals!Enter2
  PROVE  Stages'
<1> USE DEF Stages, Asleep, Early, Regular, HasIt, HasPassedIt, Wrong, Ended,
            Signals!Processes, Signals!Nobody
<1>1. CASE Signals!Raise1
  <2>1. /\ "P1" \in running /\ handler["P1"] = "none" /\ main["P1"] = "start"
        /\ main'["P1"] = "loop" /\ main'["P2"] = main["P2"]
        /\ handler'["P1"] = "increment" /\ handler'["P2"] = handler["P2"]
        /\ UNCHANGED <<X, Y, currID, target, pending, running>>
    BY <1>1, MainStep DEF Signals!Raise1, Signals!TypeOK
  <2>2. Asleep
    BY <2>1
  <2> QED BY <2>1, <2>2
<1>2. CASE Signals!Install2
  <2>1. /\ "P2" \in running /\ handler["P2"] = "none" /\ main["P2"] = "start"
        /\ main'["P2"] = "store" /\ main'["P1"] = main["P1"]
        /\ UNCHANGED <<X, Y, currID, handler, target, pending, running>>
    BY <1>2, MainStep DEF Signals!Install2, Signals!TypeOK
  <2>2. ~ Regular
    BY <2>1
  <2> QED BY <2>1, <2>2
<1>3. CASE Signals!Enter2
  <2>1. /\ "P2" \in running /\ handler["P2"] = "none" /\ main["P2"] = "store"
        /\ main'["P2"] = "loop" /\ main'["P1"] = main["P1"] /\ currID' = "P2"
        /\ UNCHANGED <<X, Y, handler, target, pending, running>>
    BY <1>3, MainStep DEF Signals!Enter2, Signals!TypeOK
  <2>2. ~ Regular
    BY <2>1
  <2> QED BY <2>1, <2>2
<1> QED BY <1>1, <1>2, <1>3

\* Steps of a handler before it sends its signal.
LEMMA HandlerKeeps ==
  ASSUME Signals!TypeOK, Stages,
         Signals!Increment1 \/ Signals!Increment2
           \/ \E p \in Signals!Processes : Signals!Take(p) \/ Signals!Store(p)
  PROVE  Stages'
<1> USE DEF Stages, Asleep, Early, Regular, HasIt, HasPassedIt, Wrong, Ended,
            Signals!Processes, Signals!Nobody
<1>0. X \in Nat /\ Y \in Nat
  BY DEF Signals!TypeOK
<1>1. CASE Signals!Increment1
  <2>1. /\ "P1" \in running /\ handler["P1"] = "increment" /\ handler'["P1"] = "take"
        /\ handler'["P2"] = handler["P2"] /\ X' = X + 1
        /\ UNCHANGED <<Y, currID, main, target, pending, running>>
    BY <1>1, GoesStep DEF Signals!Increment1
  <2> QED BY <1>0, <2>1
<1>2. CASE Signals!Increment2
  <2>1. /\ "P2" \in running /\ handler["P2"] = "increment" /\ handler'["P2"] = "take"
        /\ handler'["P1"] = handler["P1"] /\ Y' = Y + 1
        /\ UNCHANGED <<X, currID, main, target, pending, running>>
    BY <1>2, GoesStep DEF Signals!Increment2
  <2> QED BY <1>0, <2>1
<1>3. ASSUME NEW p \in Signals!Processes, Signals!Take(p) PROVE Stages'
  <2>1. /\ p \in running /\ handler[p] = "take" /\ handler'[p] = "store"
        /\ \A o \in Signals!Processes \ {p} : handler'[o] = handler[o]
        /\ target'[p] = currID
        /\ UNCHANGED <<X, Y, currID, main, pending, running>>
    BY <1>3, GoesStep DEF Signals!Take, Signals!TypeOK
  <2> QED BY <1>0, <2>1
<1>4. ASSUME NEW p \in Signals!Processes, Signals!Store(p) PROVE Stages'
  <2>1. /\ p \in running /\ handler[p] = "store" /\ handler'[p] = "send"
        /\ \A o \in Signals!Processes \ {p} : handler'[o] = handler[o]
        /\ currID' = p
        /\ UNCHANGED <<X, Y, target, main, pending, running>>
    BY <1>4, GoesStep DEF Signals!Store, Signals!TypeOK
  <2> QED BY <1>0, <2>1
<1> QED BY <1>1, <1>2, <1>3, <1>4

\* The signal is sent, ...
LEMMA SendKeeps ==
  ASSUME Signals!TypeOK, Stages, NEW p \in Signals!Processes, Signals!Send(p)
  PROVE  Stages'
<1> USE DEF Stages, Asleep, Early, Regular, HasIt, HasPassedIt, Wrong, Ended,
            Signals!Processes, Signals!Nobody, Signals!Sent
<1>1. /\ p \in running /\ handler[p] = "send" /\ handler'[p] = "none"
      /\ \A o \in Signals!Processes \ {p} : handler'[o] = handler[o]
      /\ UNCHANGED <<X, Y, currID, main, target>>
  BY GoesStep DEF Signals!Send
<1>2. CASE Regular
  <2>1. PICK o \in Signals!Processes : o # p /\ target[p] = o
    BY <1>1, <1>2
  <2>2. ({o} \ {p}) \X {Signals!Sent(p)} = {<<o, Signals!Sent(p)>>} /\ {o} \cap {p} = {} /\ target[p] # Signals!Nobody
    BY <2>1
  <2>3. pending' = pending \cup {<<o, Signals!Sent(p)>>} /\ running' = running
    BY <2>1, <2>2 DEF Signals!Send
  <2> QED BY <1>1, <1>2, <2>1, <2>3
<1>3. CASE Wrong
  <2>1. p = "P1" /\ target[p] = Signals!Nobody
    BY <1>1, <1>3
  <2>2. pending' = {<<"P2", "SIGUSR2">>} /\ running' = {"P2"}
    BY <1>3, <2>1 DEF Signals!Send
  <2> QED BY <1>1, <1>3, <2>1, <2>2
<1>4. CASE Ended
  <2>1. p = "P2"
    BY <1>1, <1>4
  <2>2. PICK to \in SUBSET Signals!Processes :
          pending' = pending \cup ((to \ {"P2"}) \X {"SIGUSR1"}) /\ running' = running \ (to \cap {"P2"})
    BY <2>1 DEF Signals!Send, Signals!TypeOK
  <2>3. pending' \subseteq pending \cup {<<"P1", "SIGUSR1">>} /\ running' \subseteq running
    <3>1. to \ {"P2"} \subseteq {"P1"}
      OBVIOUS
    <3>2. {"P1"} \X {"SIGUSR1"} = {<<"P1", "SIGUSR1">>}
      OBVIOUS
    <3>3. (to \ {"P2"}) \X {"SIGUSR1"} \subseteq {"P1"} \X {"SIGUSR1"}
      BY <3>1
    <3> QED BY <2>2, <3>2, <3>3
  <2> QED BY <1>1, <1>4, <2>1, <2>3
<1> QED BY <1>1, <1>2, <1>3, <1>4

\* ... and arrives.
LEMMA DeliverKeeps ==
  ASSUME Signals!TypeOK, Stages, NEW p \in Signals!Processes, NEW s, Signals!Deliver(p, s)
  PROVE  Stages'
<1> USE DEF Stages, Asleep, Early, Regular, HasIt, HasPassedIt, Wrong, Ended,
            Signals!Processes, Signals!Nobody, Signals!Sent
<1>1. /\ <<p, s>> \in pending /\ pending' = pending \ {<<p, s>>}
      /\ UNCHANGED <<X, Y, currID, main, target>>
  BY DEF Signals!Deliver
<1>2. CASE Regular
  <2>1. Signals!Handles(p, s) /\ pending' = {}
    BY <1>1, <1>2 DEF Signals!Handles
  <2>2. /\ handler[p] = "none" /\ handler'[p] = "increment" /\ UNCHANGED running
        /\ \A o \in Signals!Processes \ {p} : handler'[o] = handler[o]
    BY <2>1, GoesStep DEF Signals!Deliver
  <2> QED BY <1>1, <1>2, <2>1, <2>2
<1>3. CASE Ended
  <2>1. CASE p = "P1"
    BY <1>1, <1>3, <2>1 DEF Signals!Deliver, Signals!Handles, Signals!Goes
  <2>2. CASE p = "P2" /\ s = "SIGUSR2"
    <3>1. \/ /\ handler'["P2"] = "increment" /\ handler'["P1"] = handler["P1"] /\ running' = running
          \/ handler' = handler /\ running' = running \ {"P2"}
      BY <2>2, GoesStep DEF Signals!Deliver
    <3> QED BY <1>1, <1>3, <2>2, <3>1
  <2> QED BY <1>1, <1>3, <2>1, <2>2
<1> QED BY <1>1, <1>2, <1>3

\* Every behaviour goes through the stages.
LEMMA SignalsInductive == Signals!Spec => [](Signals!TypeOK /\ Stages)
<1>1. Signals!Init => Signals!TypeOK /\ Stages
  BY RoundsAssumption DEF Signals!Init, Signals!TypeOK, Stages, Asleep, Signals!Processes,
                          Signals!Nobody
<1>2. Signals!TypeOK /\ Stages /\ [Signals!Next]_Signals!vars => (Signals!TypeOK /\ Stages)'
  <2> SUFFICES ASSUME Signals!TypeOK, Stages, [Signals!Next]_Signals!vars PROVE (Signals!TypeOK /\ Stages)'
    OBVIOUS
  <2>1. CASE Signals!Next
    BY <2>1, SignalsTyping, MainKeeps, HandlerKeeps, SendKeeps, DeliverKeeps
       DEF Signals!Next, Signals!Process1, Signals!Process2, Signals!Processes
  <2>2. CASE UNCHANGED Signals!vars
    BY <2>2 DEF Signals!vars, Signals!signalVars, Signals!TypeOK, Stages, Asleep, Early,
                Regular, HasIt, HasPassedIt, Wrong, Ended
  <2> QED BY <2>1, <2>2
<1> QED BY <1>1, <1>2, PTL DEF Signals!Spec

\* Types of 3.c.
THEOREM SignalsTypes == Signals!Spec => []Signals!TypeOK
BY SignalsInductive, PTL

\* The handlers never run at once, and no signal ends a process once a round has been
\* completed, however late P2 enters its ID (3.c:26-47).
THEOREM SignalsExclusionHolds == Signals!Spec => []Signals!Exclusion
<1>1. Signals!TypeOK /\ Stages => Signals!Exclusion
  <2> SUFFICES ASSUME Signals!TypeOK, Stages PROVE Signals!Exclusion
    OBVIOUS
  <2>1. X > 2 => running = Signals!Processes
    BY DEF Stages, Asleep, Early, Regular, Wrong, Ended
  <2>2. ASSUME NEW p \in Signals!HasTurn, NEW q \in Signals!HasTurn PROVE p = q
    BY <2>2 DEF Signals!HasTurn, Signals!Handles, Stages, Asleep, Early, Regular, HasIt,
                HasPassedIt, Wrong, Ended,
                Signals!Processes, Signals!Sent
  <2> QED BY <2>1, <2>2 DEF Signals!Exclusion
<1> QED BY <1>1, SignalsInductive, PTL

\* Each handler prints the counter of the round it answers (3.c:29 and 42).
THEOREM SignalsReadsAgreeHolds == Signals!Spec => []Signals!ReadsAgree
<1>1. Signals!TypeOK /\ Stages => Signals!ReadsAgree
  BY DEF Signals!ReadsAgree, Signals!TypeOK, Stages, Asleep, Early, Regular, HasIt,
         HasPassedIt, Wrong, Ended, Signals!Processes
<1> QED BY <1>1, SignalsInductive, PTL

\* 3.c implements the alternation of X and Y, from 1.
THEOREM SignalsInTurnHolds == Signals!Spec => Signals!InTurn
<1>1. Signals!Init => Signals!Turns!Init
  BY DEF Signals!Init, Signals!Turns!Init
<1>2. Signals!TypeOK /\ Stages /\ [Signals!Next]_Signals!vars => [Signals!Turns!Next]_<<X - 1, Y - 1>>
  <2> SUFFICES ASSUME Signals!TypeOK, Stages, [Signals!Next]_Signals!vars
               PROVE  [Signals!Turns!Next]_<<X - 1, Y - 1>>
    OBVIOUS
  <2>0. X \in Nat /\ Y \in Nat
    BY DEF Signals!TypeOK
  <2>1. CASE Signals!Increment1
    <3>1. "P1" \in running /\ handler["P1"] = "increment" /\ X' = X + 1 /\ Y' = Y
      BY <2>1 DEF Signals!Increment1, Signals!Goes
    <3>2. X = Y
      BY <2>0, <3>1 DEF Stages, Asleep, Early, Regular, HasIt, HasPassedIt, Wrong, Ended,
                        Signals!Processes
    <3> QED BY <2>0, <3>1, <3>2 DEF Signals!Turns!Next, Signals!Turns!IncrementX
  <2>2. CASE Signals!Increment2
    <3>1. "P2" \in running /\ handler["P2"] = "increment" /\ Y' = Y + 1 /\ X' = X
      BY <2>2 DEF Signals!Increment2, Signals!Goes
    <3>2. X = Y + 1
      BY <2>0, <3>1 DEF Stages, Asleep, Early, Regular, HasIt, HasPassedIt, Wrong, Ended,
                        Signals!Processes
    <3> QED BY <2>0, <3>1, <3>2 DEF Signals!Turns!Next, Signals!Turns!IncrementY
  <2>3. CASE UNCHANGED <<X, Y>>
    BY <2>3
  <2>4. Signals!Increment1 \/ Signals!Increment2 \/ UNCHANGED <<X, Y>>
    BY DEF Signals!Next, Signals!vars, Signals!Process1, Signals!Process2,
           Signals!Install2, Signals!Enter2, Signals!Raise1, Signals!Take, Signals!Store,
           Signals!Send, Signals!Deliver
  <2> QED BY <2>1, <2>2, <2>3, <2>4
<1> QED BY <1>1, <1>2, SignalsInductive, PTL DEF Signals!Spec, Signals!InTurn,
                                                 Signals!Turns!Spec

-----------------------------------------------------------------------------
(* The programs in MCTurns.  The definitions of the junction as Rail and as R *)
(* are two copies of one text.                                               *)

\* The behaviours, without their fairness.
TurnsSpec == MCInit /\ [][MCNext]_allVars

\* The junction as RailJunctionProofs has it.
LEMMA RailIs ==
  /\ Rail!Init => R!Init
  /\ Rail!Next => R!Next
  /\ UNCHANGED railVars => UNCHANGED R!vars
<1>1. Rail!Platforms = R!Platforms /\ Rail!Entries = R!Entries /\ Rail!SM = R!SM
  BY DEF Rail!Platforms, R!Platforms, Rail!Entries, R!Entries, Rail!SM, R!SM
<1>2. \A t, p : Rail!Board(t, p) = R!Board(t, p) /\ Rail!Coach(t) = R!Coach(t)
  BY DEF Rail!Board, R!Board, Rail!Coach, R!Coach
<1>3. /\ UNCHANGED Rail!stationVars <=> UNCHANGED R!stationVars
      /\ UNCHANGED Rail!queueVars <=> UNCHANGED R!queueVars
      /\ UNCHANGED Rail!platformVars <=> UNCHANGED R!platformVars
      /\ UNCHANGED Rail!trainVars <=> UNCHANGED R!trainVars
  BY DEF Rail!stationVars, R!stationVars, Rail!queueVars, R!queueVars,
         Rail!platformVars, R!platformVars, Rail!trainVars, R!trainVars
<1>4. Rail!Init => R!Init
  BY <1>1 DEF Rail!Init, R!Init
<1>5. \A p : Rail!IsFirstFree(p) <=> R!IsFirstFree(p)
  BY DEF Rail!IsFirstFree, R!IsFirstFree
<1>6. \A e : Rail!AdmitTrain(e) <=> R!AdmitTrain(e)
  BY <1>1, <1>2, <1>5 DEF Rail!AdmitTrain, R!AdmitTrain, Rail!platformVars, R!platformVars,
     Rail!trainVars, R!trainVars
<1>7. Rail!Station => R!Station
  BY <1>1, <1>2, <1>6, <1>3 DEF Rail!Station, R!Station, Rail!StationSelect, R!StationSelect,
     Rail!InformPlatform, R!InformPlatform, Rail!FreePlatform, R!FreePlatform,
     Rail!StationLoop, R!StationLoop
<1>8. \A p : Rail!Platform(p) => R!Platform(p)
  BY <1>3 DEF Rail!Platform, R!Platform, Rail!RecvBoard, R!RecvBoard, Rail!RecvCoach,
              R!RecvCoach,
     Rail!PassBoardOn, R!PassBoardOn, Rail!Receive, R!Receive
<1>9. Rail!Inside = R!Inside
  BY DEF Rail!Inside, R!Inside, Rail!Away, R!Away
<1>10. \A t : Rail!Train(t) => R!Train(t)
  <2>1. \A t, e : Rail!Enter(t, e) <=> R!Enter(t, e)
    BY <1>3, <1>9 DEF Rail!Enter, R!Enter, Rail!Cardinality, R!Cardinality, Cardinality
  <2>2. \A t : Rail!Arrive(t) <=> R!Arrive(t)
    BY <1>2, <1>3 DEF Rail!Arrive, R!Arrive
  <2>3. \A t : Rail!Leave(t) <=> R!Leave(t)
    BY <1>2, <1>3 DEF Rail!Leave, R!Leave
  <2> QED BY <1>1, <2>1, <2>2, <2>3 DEF Rail!Train, R!Train
<1>11. UNCHANGED railVars => UNCHANGED R!vars
  BY DEF railVars, R!vars, R!stationVars, R!queueVars, R!platformVars, R!trainVars
<1> QED BY <1>1, <1>4, <1>7, <1>8, <1>10, <1>11 DEF Rail!Next, R!Next

\* What 3-4.c keeps to, with what types, ...
LEMMA PairKeepsTo ==
  ASSUME Rounds <= SEMAEM
  PROVE  Pair!Spec => [](Pair!TypeOK /\ Pair!Exclusion /\ Pair!ReadsAgree) /\ Pair!InTurn
BY PairTypes, PairExclusionHolds, PairReadsAgreeHolds, PairInTurnHolds, PTL

\* ... 3-5.c, ...
LEMMA LockKeepsTo ==
  ASSUME Rounds < SEMAEM
  PROVE  Lock!Spec => [](Lock!TypeOK /\ Lock!Exclusion /\ Lock!ReadsAgree) /\ Lock!InTurn
BY LockTypes, LockExclusionHolds, LockReadsAgreeHolds, LockInTurnHolds, PTL

\* ... and 3.c.
LEMMA SignalsKeepTo ==
  Signals!Spec => /\ [](Signals!TypeOK /\ Signals!Exclusion /\ Signals!ReadsAgree)
                  /\ Signals!InTurn
BY SignalsTypes, SignalsExclusionHolds, SignalsReadsAgreeHolds, SignalsInTurnHolds, PTL

\* A behaviour is one of 3-4.c, or never becomes one.
LEMMA PairIn ==
  TurnsSpec => \/ program = "3-4" /\ [](program = "3-4") /\ Pair!Spec
               \/ ~ (program = "3-4") /\ [](~ (program = "3-4"))
<1>1. MCInit /\ program = "3-4" => Pair!Init
  BY DEF MCInit, NoCounters
<1>2. program = "3-4" /\ [MCNext]_allVars => (program = "3-4")' /\ [Pair!Next]_Pair!vars
  BY DEF MCNext, Step, allVars, counterVars, semVars, Pair!vars, Pair!semVars
<1>3. ~ (program = "3-4") /\ [MCNext]_allVars => ~ (program = "3-4")'
  BY DEF MCNext, Step, allVars
<1> QED BY <1>1, <1>2, <1>3, PTL DEF TurnsSpec, Pair!Spec

\* The same for 3-5.c, ...
LEMMA LockIn ==
  TurnsSpec => \/ program = "3-5" /\ [](program = "3-5") /\ Lock!Spec
               \/ ~ (program = "3-5") /\ [](~ (program = "3-5"))
<1>1. MCInit /\ program = "3-5" => Lock!Init
  BY DEF MCInit
<1>2. program = "3-5" /\ [MCNext]_allVars => (program = "3-5")' /\ [Lock!Next]_Lock!vars
  BY DEF MCNext, Step, allVars, counterVars, semVars, Lock!vars, Lock!semVars
<1>3. ~ (program = "3-5") /\ [MCNext]_allVars => ~ (program = "3-5")'
  BY DEF MCNext, Step, allVars
<1> QED BY <1>1, <1>2, <1>3, PTL DEF TurnsSpec, Lock!Spec

\* ... and for 3.c.
LEMMA SignalsIn ==
  TurnsSpec => \/ program = "3" /\ [](program = "3") /\ Signals!Spec
               \/ ~ (program = "3") /\ [](~ (program = "3"))
<1>1. MCInit /\ program = "3" => Signals!Init
  BY DEF MCInit
<1>2. program = "3" /\ [MCNext]_allVars => (program = "3")' /\ [Signals!Next]_Signals!vars
  BY DEF MCNext, Step, allVars, counterVars, signalVars, Signals!vars, Signals!signalVars
<1>3. ~ (program = "3") /\ [MCNext]_allVars => ~ (program = "3")'
  BY DEF MCNext, Step, allVars
<1> QED BY <1>1, <1>2, <1>3, PTL DEF TurnsSpec, Signals!Spec

\* Whatever the program, the shared service takes steps of its own or none, ...
LEMMA ServiceIn == TurnsSpec => Spec
<1>1. MCInit => Init
  BY DEF MCInit
<1>2. [MCNext]_allVars => [Next]_vars
  BY DEF MCNext, Step, allVars
<1> QED BY <1>1, <1>2, PTL DEF TurnsSpec, Spec

\* ... and so does the junction.
LEMMA RailIn == TurnsSpec => R!Spec
<1>1. MCInit => R!Init
  BY RailIs DEF MCInit
<1>2. [MCNext]_allVars => [R!Next]_R!vars
  BY RailIs DEF MCNext, Step, allVars
<1> QED BY <1>1, <1>2, PTL DEF TurnsSpec, R!Spec

\* The fairness is left out.
LEMMA Unfair == MCFairSpec => TurnsSpec
BY PTL DEF MCFairSpec, TurnsSpec

\* First is the same throughout a behaviour.
LEMMA TurnsFrom ==
  /\ program = "3-4" /\ Pair!Turns!Init => Turns!Init
  /\ program = "3-5" /\ Lock!Turns!Init => Turns!Init
  /\ program = "3" /\ Signals!Turns!Init => Turns!Init
BY DEF First, Turns!Init, Pair!Turns!Init, Lock!Turns!Init, Signals!Turns!Init

\* A step of the alternation of one program is one of that of MCTurns.
LEMMA TurnsOn ==
  ASSUME X \in Nat, Y \in Nat, X' \in Nat, Y' \in Nat, program' = program
  PROVE  /\ program = "3-4" /\ [Pair!Turns!Next]_<<X, Y>>
              => [Turns!Next]_<<X - First, Y - First>>
         /\ program = "3-5" /\ [Lock!Turns!Next]_<<X, Y>>
              => [Turns!Next]_<<X - First, Y - First>>
         /\ program = "3" /\ [Signals!Turns!Next]_<<X - 1, Y - 1>>
              => [Turns!Next]_<<X - First, Y - First>>
<1>1. First' = First /\ First = IF program = "3" THEN 1 ELSE 0
  BY DEF First
<1>2. /\ program = "3-4" => First = 0
      /\ program = "3-5" => First = 0
      /\ program = "3" => First = 1
  BY <1>1
<1>3. X - 0 = X /\ Y - 0 = Y
  OBVIOUS
<1>7. X' - 0 = X' /\ Y' - 0 = Y'
  <2>1. \A m \in Nat : m - 0 = m
    OBVIOUS
  <2> QED BY ONLY <2>1, X' \in Nat, Y' \in Nat
<1>4. ASSUME program = "3-4", [Pair!Turns!Next]_<<X, Y>>
      PROVE  [Turns!Next]_<<X - First, Y - First>>
  BY <1>1, <1>2, <1>3, <1>7, <1>4 DEF Turns!Next, Turns!IncrementX, Turns!IncrementY,
     Pair!Turns!Next, Pair!Turns!IncrementX, Pair!Turns!IncrementY
<1>5. ASSUME program = "3-5", [Lock!Turns!Next]_<<X, Y>>
      PROVE  [Turns!Next]_<<X - First, Y - First>>
  BY <1>1, <1>2, <1>3, <1>7, <1>5 DEF Turns!Next, Turns!IncrementX, Turns!IncrementY,
     Lock!Turns!Next, Lock!Turns!IncrementX, Lock!Turns!IncrementY
<1>6. ASSUME program = "3", [Signals!Turns!Next]_<<X - 1, Y - 1>>
      PROVE  [Turns!Next]_<<X - First, Y - First>>
  BY <1>1, <1>2, <1>6 DEF Turns!Next, Turns!IncrementX, Turns!IncrementY,
     Signals!Turns!Next, Signals!Turns!IncrementX, Signals!Turns!IncrementY
<1> QED BY <1>4, <1>5, <1>6

\* X and Y of the programs that do not use them.
LEMMA Resting ==
  TurnsSpec => \/ program \in {"3-4", "3-5", "3"}
               \/ Turns!Init /\ [][UNCHANGED <<X, Y, program>>]_allVars
<1>1. MCInit /\ ~ (program \in {"3-4", "3-5", "3"}) => Turns!Init
  BY DEF MCInit, NoCounters, Pair!Init, Turns!Init, First
<1>2. ~ (program \in {"3-4", "3-5", "3"}) /\ [MCNext]_allVars =>
        /\ [UNCHANGED <<X, Y, program>>]_allVars
        /\ ~ (program \in {"3-4", "3-5", "3"})'
  BY DEF MCNext, Step, allVars, counterVars
<1> QED BY <1>1, <1>2, PTL DEF TurnsSpec

\* Types, of whichever program runs (MCTypeOK).
THEOREM TurnsTypes ==
  ASSUME Rounds < SEMAEM
  PROVE  MCFairSpec => []MCTypeOK
<1>1. R!TypeOK => Rail!TypeOK
  <2>1. R!Platforms = Rail!Platforms /\ R!Entries = Rail!Entries /\ R!SM = Rail!SM
    BY DEF R!Platforms, Rail!Platforms, R!Entries, Rail!Entries, R!SM, Rail!SM
  <2>2. R!Broadcasts = Rail!Broadcasts /\ R!Datagrams = Rail!Datagrams
    BY <2>1 DEF R!Broadcasts, Rail!Broadcasts, R!Board, Rail!Board, R!Datagrams, Rail!Datagrams
  <2> QED BY <2>1, <2>2 DEF R!TypeOK, Rail!TypeOK
<1>2. R!Spec => []R!TypeOK
  BY R!JunctionTypes, TrainsAssumption DEF Rail!JunctionAssumption, R!JunctionAssumption,
     Rail!IsFiniteSet, R!IsFiniteSet
<1>3. Spec => []TypeOK
  BY TypeCorrect
<1>4. /\ Pair!Spec => []Pair!TypeOK
      /\ Lock!Spec => []Lock!TypeOK
      /\ Signals!Spec => []Signals!TypeOK
  <2>1. Rounds <= SEMAEM
    BY SemaemAssumption, RoundsAssumption
  <2> QED BY <2>1, PairKeepsTo, LockKeepsTo, SignalsKeepTo, PTL
<1>5. /\ ~ (program = "3-4") \/ Pair!TypeOK
      /\ ~ (program = "3-5") \/ Lock!TypeOK
      /\ ~ (program = "3") \/ Signals!TypeOK
      /\ Rail!TypeOK /\ TypeOK
      => MCTypeOK
  BY DEF MCTypeOK
<1> QED BY <1>1, <1>2, <1>3, <1>4, <1>5, Unfair, PairIn, LockIn, SignalsIn, ServiceIn,
           RailIn, PTL

\* 3-4.c, 3-5.c and 3.c: the two processes exclude each other, and the counters that are
\* printed are those of one round, whoever is killed and whenever, as long as the rounds
\* are fewer than the kernel can undo (3-4.c:43-63, 3-5.c:43-65, 3.c:26-47).
THEOREM OneRoundHolds ==
  ASSUME Rounds < SEMAEM
  PROVE  MCFairSpec => []OneRound
<1>1. Rounds <= SEMAEM
  BY SemaemAssumption, RoundsAssumption
<1>2. /\ ~ (program = "3-4") \/ (Pair!Exclusion /\ Pair!ReadsAgree)
      /\ ~ (program = "3-5") \/ (Lock!Exclusion /\ Lock!ReadsAgree)
      /\ ~ (program = "3") \/ (Signals!Exclusion /\ Signals!ReadsAgree)
      => OneRound
  BY DEF OneRound
<1> QED BY <1>1, <1>2, Unfair, PairIn, LockIn, SignalsIn, PairKeepsTo, LockKeepsTo,
           SignalsKeepTo, PTL

\* All three increment X and Y in turn: they implement Alternation, from 0 or from 1.
THEOREM InTurnHolds ==
  ASSUME Rounds < SEMAEM
  PROVE  MCFairSpec => InTurn
<1>1. Rounds <= SEMAEM
  BY SemaemAssumption, RoundsAssumption
<1>2. Pair!Spec /\ [](program = "3-4") => InTurn
  <2>1. /\ Pair!TypeOK /\ Pair!TypeOK' /\ (program = "3-4") /\ (program = "3-4")'
        /\ [Pair!Turns!Next]_<<X, Y>>
        => [Turns!Next]_<<X - First, Y - First>>
    BY RoundsAssumption, TurnsOn DEF Pair!TypeOK
  <2> QED BY <1>1, <2>1, PairKeepsTo, TurnsFrom, PTL DEF Pair!InTurn, Pair!Turns!Spec,
             InTurn, Turns!Spec
<1>3. Lock!Spec /\ [](program = "3-5") => InTurn
  <2>1. /\ Lock!TypeOK /\ Lock!TypeOK' /\ (program = "3-5") /\ (program = "3-5")'
        /\ [Lock!Turns!Next]_<<X, Y>>
        => [Turns!Next]_<<X - First, Y - First>>
    BY RoundsAssumption, TurnsOn DEF Lock!TypeOK
  <2> QED BY <2>1, LockKeepsTo, TurnsFrom, PTL DEF Lock!InTurn, Lock!Turns!Spec,
             InTurn, Turns!Spec
<1>4. Signals!Spec /\ [](program = "3") => InTurn
  <2>1. /\ Signals!TypeOK /\ Signals!TypeOK' /\ (program = "3") /\ (program = "3")'
        /\ [Signals!Turns!Next]_<<X - 1, Y - 1>>
        => [Turns!Next]_<<X - First, Y - First>>
    <3>1. Signals!TypeOK /\ Signals!TypeOK' => X \in Nat /\ Y \in Nat /\ X' \in Nat /\ Y' \in Nat
      BY RoundsAssumption DEF Signals!TypeOK
    <3> QED BY <3>1, TurnsOn
  <2> QED BY <2>1, SignalsKeepTo, TurnsFrom, PTL DEF Signals!InTurn, Signals!Turns!Spec,
             InTurn, Turns!Spec
<1>5. [UNCHANGED <<X, Y, program>>]_allVars => [Turns!Next]_<<X - First, Y - First>>
  BY DEF First, allVars, counterVars
<1>6. program \in {"3-4", "3-5", "3"} =>
        (program = "3-4") \/ (program = "3-5") \/ (program = "3")
  OBVIOUS
<1> QED BY <1>2, <1>3, <1>4, <1>5, <1>6, Resting, Unfair, PairIn, LockIn, SignalsIn, PTL
           DEF InTurn, Turns!Spec

\* With one train inside, and trains slower than the broadcast of a board, the station
\* takes no platform for empty while a train is at it (station.c:126-129).
THEOREM StatusHolds ==
  ASSUME MaxInside = 1, Slow
  PROVE  MCFairSpec => []StatusSound
<1>1. R!Spec => []R!StatusSound
  BY R!StatusSoundHolds, TrainsAssumption DEF Rail!JunctionAssumption, R!JunctionAssumption,
     Rail!IsFiniteSet, R!IsFiniteSet
<1>2. R!StatusSound => StatusSound
  BY DEF R!StatusSound, StatusSound, Rail!StatusSound
<1> QED BY <1>1, <1>2, Unfair, RailIn, PTL

\* Under the same conditions each platform reads the coach sequence and the last board of
\* the train that it was told of (platform.c:46-57).
THEOREM ProtocolHolds ==
  ASSUME MaxInside = 1, Slow
  PROVE  MCFairSpec => PlatformProtocol
<1>1. R!Spec => R!PlatformProtocol
  BY R!PlatformProtocolHolds, TrainsAssumption DEF Rail!JunctionAssumption,
                                                   R!JunctionAssumption,
     Rail!IsFiniteSet, R!IsFiniteSet
<1>2. R!PlatformProtocol => PlatformProtocol
  <2> DEFINE Protocol ==
        \A p \in R!Platforms :
          LET d == Head(pfQ[p])
          IN  /\ ppc[p] = "coach" /\ ppc'[p] = "leave" => d = R!Coach(serving[p][1])
              /\ ppc[p] = "leave" /\ ppc'[p] = "board" =>
                   /\ d = R!Board(serving[p][1], p)
                   /\ tpc[serving[p][1]] = "left"
  <2>1. [Protocol]_R!vars =>
          [ \A p \in Rail!Platforms :
              LET d == Head(pfQ[p])
              IN  /\ ppc[p] = "coach" /\ ppc'[p] = "leave" => d = Rail!Coach(serving[p][1])
                  /\ ppc[p] = "leave" /\ ppc'[p] = "board" =>
                       /\ d = Rail!Board(serving[p][1], p)
                       /\ tpc[serving[p][1]] = "left" ]_Rail!vars
    BY DEF R!vars, Rail!vars, R!stationVars, R!queueVars, R!platformVars, R!trainVars,
       Rail!stationVars, Rail!queueVars, Rail!platformVars, Rail!trainVars,
       R!Platforms, Rail!Platforms, R!Coach, Rail!Coach, R!Board, Rail!Board
  <2> QED BY <2>1, PTL DEF R!PlatformProtocol, PlatformProtocol, Rail!PlatformProtocol
<1> QED BY <1>1, <1>2, Unfair, RailIn, PTL
=============================================================================
