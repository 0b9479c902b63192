-------------------------------- MODULE ESS --------------------------------
(***************************************************************************)
(* The shared service of 15-Minor1/Q4: one server (ess.c), one client that *)
(* is connected to it (c1.c, here called C1) and other clients (c.c) that  *)
(* reach it through C1 and a FIFO.  Only one of them may use the service   *)
(* at a time: the turn is passed with SIGUSR1 to the process at the head   *)
(* of a message queue, to whose tail a process adds itself when it is done.*)
(*                                                                         *)
(* The FIFO carries requests and replies alike.  What a read returns is    *)
(* everything in it.  signal() installs handlers with SA_RESTART: a        *)
(* blocked open, read or recv goes on after the handler.                   *)
(***************************************************************************)
EXTENDS Naturals, Sequences, FiniteSets

CONSTANTS
  Clients,    \* the processes that run c.c
  C1,         \* the process that runs c1.c
  ZeroTexts,  \* users type words that begin with 0
  MaxTexts    \* bound: texts that the user of each client types

ASSUME ClientsAssumption == IsFiniteSet(Clients) /\ C1 \notin Clients
ASSUME SwitchAssumption  == ZeroTexts \in BOOLEAN
ASSUME TextsAssumption   == MaxTexts \in Nat

Procs == Clients \union {C1}

VARIABLES
  queue,    \* the message queue: who waits for a turn
  signalled,\* processes to which SIGUSR1 is on its way
  waiting,  \* the flag of each process
  fifo,     \* what is in the FIFO
  cpc,      \* where each client is
  texts,    \* texts its user has typed
  shown,    \* what it has printed last ("Recieved => ...")
  xpc,      \* where C1 is
  buff,     \* what C1 has read from the FIFO
  ffdOpen   \* its descriptor ffd is open

turnVars   == <<queue, signalled, waiting>>
clientVars == <<cpc, texts, shown>>
c1Vars     == <<xpc, buff, ffdOpen>>
vars == <<turnVars, fifo, clientVars, c1Vars>>

\* A text: who typed it, which one, whether it begins with 0, and whether it
\* has been converted.
Texts == [owner : Clients, n : Nat, zero : BOOLEAN, upper : BOOLEAN]

TypeOK ==
  /\ queue \in Seq(Procs)
  /\ signalled \in SUBSET Procs
  /\ waiting \in [Procs -> {0, 1}]
  /\ fifo \in Seq(Texts)
  /\ cpc \in [Clients -> {"start", "wait", "use", "read", "requeue", "next"}]
  /\ texts \in [Clients -> Nat]
  /\ shown \in [Clients -> Seq(Texts)]
  /\ xpc \in {"start", "loop", "use", "requeue", "next", "open", "read",
              "convert", "write", "hung"}
  /\ buff \in Seq(Texts)
  /\ ffdOpen \in BOOLEAN

Init ==
  /\ queue = <<>> /\ signalled = {}
  /\ waiting = [p \in Procs |-> IF p = C1 THEN 0 ELSE 1]
  /\ fifo = <<>>
  /\ cpc = [c \in Clients |-> "start"]
  /\ texts = [c \in Clients |-> 0]
  /\ shown = [c \in Clients |-> <<>>]
  /\ xpc = "start" /\ buff = <<>> /\ ffdOpen = FALSE

-----------------------------------------------------------------------------
(* The turn. *)

\* Mutant of Handler: signals are counted, not noted.
HandlerCounts(p) ==
  /\ waiting' = [waiting EXCEPT ![p] = @ + 1]
  /\ ffdOpen' = (ffdOpen /\ p # C1)

\* stopWaiting; that of C1 also closes whatever ffd is.
Handler(p) ==
  /\ waiting' = [waiting EXCEPT ![p] = 0]
  /\ ffdOpen' = (ffdOpen /\ p # C1)

\* msgsnd of a Hello.
Enqueue(p) == queue' = Append(queue, p) /\ UNCHANGED <<signalled, waiting>>

\* Mutant of PassTurn: the message of the next process is left in the queue.
PeekTurn(p) ==
  LET next == Head(queue)
  IN  /\ queue # <<>>
      /\ UNCHANGED queue
      /\ \/ /\ next = p
            /\ Handler(p)
            /\ UNCHANGED signalled
         \/ /\ next # p
            /\ signalled' = signalled \union {next}
            /\ UNCHANGED <<waiting, ffdOpen>>

\* Mutant of PassTurn: the next process is the one that came last.
PassTurnToLast(p) ==
  LET next == queue[Len(queue)]
  IN  /\ queue # <<>>
      /\ queue' = SubSeq(queue, 1, Len(queue) - 1)
      /\ \/ /\ next = p
            /\ Handler(p)
            /\ UNCHANGED signalled
         \/ /\ next # p
            /\ signalled' = signalled \union {next}
            /\ UNCHANGED <<waiting, ffdOpen>>

\* msgrcv of the first message of any type, kill of its sender.  A signal to
\* itself is handled before kill returns.
PassTurn(p) ==
  LET next == Head(queue)
  IN  /\ queue # <<>>
      /\ queue' = Tail(queue)
      /\ \/ /\ next = p
            /\ Handler(p)
            /\ UNCHANGED signalled
         \/ /\ next # p
            /\ signalled' = signalled \union {next}
            /\ UNCHANGED <<waiting, ffdOpen>>

\* SIGUSR1 reaches process p.
Deliver(p) ==
  /\ p \in signalled
  /\ signalled' = signalled \ {p}
  /\ Handler(p)
  /\ UNCHANGED <<queue, fifo, clientVars, xpc, buff>>

-----------------------------------------------------------------------------
(* A client, c.c. *)

\* The clients that have the FIFO open, for reading and writing.
Holders == {c \in Clients : cpc[c] = "read"}

Hello(c) ==
  /\ cpc[c] = "start"
  /\ Enqueue(c)
  /\ cpc' = [cpc EXCEPT ![c] = "wait"]
  /\ UNCHANGED <<fifo, texts, shown, c1Vars>>

\* Mutant of Wake: the flag is not set again.
WakeForEver(c) ==
  /\ cpc[c] = "wait" /\ waiting[c] = 0
  /\ cpc' = [cpc EXCEPT ![c] = "use"]
  /\ UNCHANGED <<turnVars, fifo, texts, shown, c1Vars>>

\* while (waiting); waiting = 1;
Wake(c) ==
  /\ cpc[c] = "wait" /\ waiting[c] = 0
  /\ waiting' = [waiting EXCEPT ![c] = 1]
  /\ cpc' = [cpc EXCEPT ![c] = "use"]
  /\ UNCHANGED <<queue, signalled, fifo, texts, shown, c1Vars>>

\* A text is typed and written to the FIFO; the client sleeps.
Ask(c) ==
  /\ cpc[c] = "use" /\ texts[c] < MaxTexts
  /\ texts' = [texts EXCEPT ![c] = @ + 1]
  /\ \E z \in {FALSE, ZeroTexts} :
       fifo' = Append(fifo, [owner |-> c, n |-> texts[c] + 1, zero |-> z, upper |-> FALSE])
  /\ cpc' = [cpc EXCEPT ![c] = "read"]
  /\ UNCHANGED <<turnVars, shown, c1Vars>>

\* Mutant of ReadAnswer: the answer is not waited for.
ReadNothing(c) ==
  /\ cpc[c] = "read"
  /\ shown' = [shown EXCEPT ![c] = fifo]
  /\ fifo' = <<>>
  /\ cpc' = [cpc EXCEPT ![c] = "use"]
  /\ UNCHANGED <<turnVars, texts, c1Vars>>

\* After a second the client reads, prints and closes the FIFO.
ReadAnswer(c) ==
  /\ cpc[c] = "read"
  /\ fifo # <<>>
  /\ shown' = [shown EXCEPT ![c] = fifo]
  /\ fifo' = <<>>
  /\ cpc' = [cpc EXCEPT ![c] = "use"]
  /\ UNCHANGED <<turnVars, texts, c1Vars>>

\* 0 is typed.
Stop(c) ==
  /\ cpc[c] = "use"
  /\ cpc' = [cpc EXCEPT ![c] = "requeue"]
  /\ UNCHANGED <<turnVars, fifo, texts, shown, c1Vars>>

Requeue(c) ==
  /\ cpc[c] = "requeue"
  /\ Enqueue(c)
  /\ cpc' = [cpc EXCEPT ![c] = "next"]
  /\ UNCHANGED <<fifo, texts, shown, c1Vars>>

SignalNext(c) ==
  /\ cpc[c] = "next"
  /\ PassTurn(c)
  /\ cpc' = [cpc EXCEPT ![c] = "wait"]
  /\ UNCHANGED <<fifo, texts, shown, xpc, buff>>

Client(c) == \/ Hello(c) \/ Wake(c)
             \/ Ask(c) \/ ReadAnswer(c)
             \/ Stop(c) \/ Requeue(c) \/ SignalNext(c)

-----------------------------------------------------------------------------
(* C1, c1.c. *)

\* The queue is removed and made again: clients that came first are forgotten.
StartC1 ==
  /\ xpc = "start"
  /\ xpc' = "loop"
  /\ queue' = <<>>
  /\ UNCHANGED <<signalled, waiting, fifo, clientVars, buff, ffdOpen>>

\* while (waiting): serve the others, or take one's turn.
TestWaiting ==
  /\ xpc = "loop"
  /\ \/ waiting[C1] = 1 /\ xpc' = "open" /\ UNCHANGED waiting
     \/ waiting[C1] = 0 /\ xpc' = "use" /\ waiting' = [waiting EXCEPT ![C1] = 1]
  /\ UNCHANGED <<queue, signalled, fifo, clientVars, buff, ffdOpen>>

\* open for reading blocks until a process has the FIFO open for writing.
OpenFifo ==
  /\ xpc = "open"
  /\ Holders # {}
  /\ xpc' = "read" /\ ffdOpen' = TRUE
  /\ UNCHANGED <<turnVars, fifo, clientVars, buff>>

\* read of what is in the FIFO.  Nothing is read when the last client has
\* closed the FIFO or the handler has closed ffd: then send sends nothing, and
\* recv waits for a reply for ever.
ReadFifo ==
  /\ xpc = "read"
  /\ \/ /\ ffdOpen /\ fifo # <<>>
        /\ fifo' = <<>>
        /\ \/ /\ fifo[1].zero                    \* buff[0] == '0'
              /\ xpc' = "use"
              /\ waiting' = [waiting EXCEPT ![C1] = 1]
              /\ UNCHANGED <<buff, ffdOpen>>
           \/ /\ ~ fifo[1].zero
              /\ xpc' = "convert"
              /\ buff' = fifo /\ ffdOpen' = FALSE
              /\ UNCHANGED waiting
     \/ /\ ~ ffdOpen \/ (fifo = <<>> /\ Holders = {})
        /\ xpc' = "hung" /\ ffdOpen' = FALSE
        /\ UNCHANGED <<fifo, buff, waiting>>
  /\ UNCHANGED <<queue, signalled, clientVars>>

\* send to the server, recv of the capitals.
Convert ==
  /\ xpc = "convert"
  /\ buff' = [i \in DOMAIN buff |-> [buff[i] EXCEPT !.upper = TRUE]]
  /\ xpc' = "write"
  /\ UNCHANGED <<turnVars, fifo, clientVars, ffdOpen>>

\* open for writing blocks until a process can read; write, close.
WriteFifo ==
  /\ xpc = "write"
  /\ Holders # {}
  /\ fifo' = fifo \o buff
  /\ buff' = <<>>
  /\ xpc' = "loop"
  /\ UNCHANGED <<turnVars, clientVars, ffdOpen>>

\* The user of C1 talks to the server directly; then types 0.
StopC1 ==
  /\ xpc = "use"
  /\ xpc' = "requeue"
  /\ UNCHANGED <<turnVars, fifo, clientVars, buff, ffdOpen>>

RequeueC1 ==
  /\ xpc = "requeue"
  /\ Enqueue(C1)
  /\ xpc' = "next"
  /\ UNCHANGED <<fifo, clientVars, buff, ffdOpen>>

SignalNextC1 ==
  /\ xpc = "next"
  /\ PassTurn(C1)
  /\ xpc' = "loop"
  /\ UNCHANGED <<fifo, clientVars, buff>>

Connected == \/ StartC1 \/ TestWaiting
             \/ OpenFifo \/ ReadFifo \/ Convert \/ WriteFifo
             \/ StopC1 \/ RequeueC1 \/ SignalNextC1

-----------------------------------------------------------------------------
Next == \/ \E p \in Procs : Deliver(p)
        \/ \E c \in Clients : Client(c)
        \/ Connected

Spec == Init /\ [][Next]_vars

\* Signals arrive, all processes run, users finish their turns.  Client and C1
\* compete for what is in the FIFO, and neither loses every time.
FairSpec == /\ Spec
            /\ \A p \in Procs : WF_vars(Deliver(p))
            /\ \A c \in Clients : /\ WF_vars(Hello(c) \/ Wake(c) \/ Requeue(c) \/ SignalNext(c))
                                  /\ SF_vars(ReadAnswer(c))
                                  /\ SF_vars(Stop(c))
            /\ WF_vars(Connected)

-----------------------------------------------------------------------------
(***************************************************************************)
(* What should be true.                                                    *)
(***************************************************************************)

\* The processes whose turn it is, or that take it for theirs.
Using == {c \in Clients : cpc[c] \in {"use", "read", "requeue", "next"}}
         \union {p \in {C1} : xpc \in {"use", "requeue", "next"}}

\* Only one process uses the service at a time, although the turn is passed by
\* a flag in each process, signals that carry nothing and a queue that each
\* enters again on its own ("You can now start using ESS", c.c:91, c1.c:162).
OneUser == \A p, q \in Using : p = q

\* No process waits twice, and none waits while it has the turn or is being
\* given it - but for the moment in which it passes it on.
WaitsOnce ==
  /\ \A i, j \in 1 .. Len(queue) : queue[i] = queue[j] => i = j
  /\ \A i \in 1 .. Len(queue) :
       /\ queue[i] \notin signalled
       /\ queue[i] \in Using =>
            \/ queue[i] # C1 /\ cpc[queue[i]] = "next"
            \/ queue[i] = C1 /\ xpc = "next"

\* Of requests and replies, which share the FIFO and the buffer of C1, there is
\* at most one, and it is that of the client that waits for it: none is left
\* behind for the next client.
OneMessage ==
  /\ Len(fifo) + Len(buff) = Cardinality(Holders)
  /\ \A m \in {fifo[i] : i \in DOMAIN fifo} \union {buff[i] : i \in DOMAIN buff} :
       m.owner \in Holders /\ m.n = texts[m.owner]

\* What a client prints is one message, made from what its own user typed last,
\* however often C1 reads its own reply from the FIFO again (c.c:103, c1.c:132),
\* and no message is left behind for the next client.
OwnAnswer ==
  /\ OneMessage
  /\ \A c \in Clients :
       cpc[c] = "use" /\ texts[c] > 0 =>
         /\ Len(shown[c]) = 1
         /\ shown[c][1].owner = c /\ shown[c][1].n = texts[c]

\* Clients that stand in the queue when C1 has its turn, or before C1, get
\* theirs, in spite of all that can happen to C1 meanwhile.
AheadOfC1(c) ==
  \E i \in 1 .. Len(queue) :
    /\ queue[i] = c
    /\ xpc \in {"use", "requeue"} \/ \E j \in i + 1 .. Len(queue) : queue[j] = C1

AheadServed == \A c \in Clients : AheadOfC1(c) ~> cpc[c] = "use"
=============================================================================
