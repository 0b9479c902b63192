----------------------------- MODULE ForkServer -----------------------------
(***************************************************************************)
(* The servers of 10-BSDSockets and 11-Select+AIO that give each client a  *)
(* process of its own, and the one that has a process for one client only: *)
(*   "poll"        10-BSDSockets/MultiServiceServer, a port per service    *)
(*   "select"      11-Select+AIO/MultiServiceServer, the same with select  *)
(*   "concurrent"  10-BSDSockets/Concurrent, one port, echo                *)
(*   "iterative"   10-BSDSockets/Iterative, one port, only the first client*)
(*                 to connect is ever accepted                             *)
(* The clients of the last two receive 25 bytes at a time: an answer may   *)
(* come in several pieces, of which they take one per request.             *)
(* Strings are shorter than the 100 bytes that clear() clears.             *)
(***************************************************************************)
EXTENDS TcpClients, FiniteSets, FiniteSetsExt, Functions

CONSTANTS
  Editions,  \* the programs that are modelled
  Pieces     \* bound: pieces of 25 bytes in an answer of the last two

EditionsAssumption == Editions \in SUBSET {"poll", "select", "concurrent", "iterative"}
PiecesAssumption   == Pieces \in Nat \ {0} /\ NUMS <= 2

VARIABLES
  edition,
  pc,       \* the server: "wait", "visit" or "close"; "serve" and "exit" if iterative
  revents,  \* ports found readable and not visited yet
  nsfd,     \* the connections that the server has open, the last one first
  proc      \* the process of each client: "none", "child", "recv" or "dead"

vars == <<tcpVars, edition, pc, revents, nsfd, proc>>

TypeOK ==
  /\ TcpTypeOK
  /\ edition \in Editions
  /\ pc \in {"wait", "visit", "close", "serve", "exit"}
  /\ revents \in SUBSET Services
  /\ nsfd \in Seq(Clients)
  /\ proc \in [Clients -> {"none", "child", "recv", "dead"}]

Init ==
  /\ TcpInit
  /\ edition \in Editions
  /\ pc = "wait" /\ revents = {} /\ nsfd = <<>>
  /\ proc = [c \in Clients |-> "none"]

\* The ports the server listens on.
Ports == IF edition \in {"poll", "select"} THEN Services ELSE {1}

-----------------------------------------------------------------------------
(* The servers.                                                            *)

\* poll or select: the ports on which a connection waits.
Wait ==
  /\ pc = "wait"
  /\ revents' = {p \in Ports : backlog[p] # <<>>} /\ revents' # {}
  /\ pc' = "visit"
  /\ UNCHANGED <<tcpVars, edition, nsfd, proc>>

\* accept on port p; the connection gets the process pr.
Accept(p, pr) ==
  /\ backlog[p] # <<>>
  /\ nsfd' = <<Head(backlog[p])>> \o nsfd
  /\ proc' = [proc EXCEPT ![Head(backlog[p])] = pr]
  /\ backlog' = [backlog EXCEPT ![p] = Tail(@)]
  /\ UNCHANGED <<at, port, asked, up, down, conn, edition>>

\* accept and fork for the next port that was readable.
Visit ==
  /\ pc = "visit"
  /\ Accept(Min(revents), "child")
  /\ revents' = revents \ {Min(revents)}
  /\ pc' = "close"

\* Mutant of CloseConnection: the parent keeps its descriptor.
KeepConnection ==
  /\ pc = "close"
  /\ pc' = IF revents = {} THEN "wait" ELSE "visit"
  /\ UNCHANGED <<tcpVars, edition, revents, proc, nsfd>>

\* The parent closes its descriptor of the connection.
CloseConnection ==
  /\ pc = "close"
  /\ nsfd' = Tail(nsfd)
  /\ IF proc[nsfd[1]] = "dead" THEN HangUp({nsfd[1]}) ELSE UNCHANGED conn
  /\ pc' = IF revents = {} THEN "wait" ELSE "visit"
  /\ UNCHANGED <<at, port, asked, up, down, backlog, edition, revents, proc>>

PollServer   == edition = "poll" /\ (Wait \/ Visit \/ CloseConnection)
SelectServer == edition = "select" /\ (Wait \/ Visit \/ CloseConnection)

ConcurrentServer ==
  /\ edition = "concurrent"
  /\ \/ /\ pc = "wait" /\ Accept(1, "child")
        /\ pc' = "close" /\ UNCHANGED revents
     \/ CloseConnection

\* The iterative server accepts once and then only serves that client.
IterativeServer ==
  /\ edition = "iterative" /\ pc = "wait"
  /\ Accept(1, "recv")
  /\ pc' = "serve" /\ UNCHANGED revents

Server == PollServer \/ SelectServer \/ ConcurrentServer \/ IterativeServer

-----------------------------------------------------------------------------
(* The process of a client.                                                *)

\* The child has closed the listening sockets, and runs the service.
Exec(c) ==
  /\ proc[c] = "child"
  /\ proc' = [proc EXCEPT ![c] = "recv"]
  /\ UNCHANGED <<tcpVars, edition, pc, revents, nsfd>>

\* s1 or s2 converts what the client sent.
Convert(c) ==
  /\ edition \in {"poll", "select"}
  /\ proc[c] = "recv" /\ up[c] # <<>> /\ conn[c] # "reset"
  /\ ReceiveAndSend(c, port[c])
  /\ UNCHANGED <<at, port, asked, backlog, edition, pc, revents, nsfd, proc>>

S1(c) == port[c] = 1 /\ Convert(c)
S2(c) == port[c] = 2 /\ Convert(c)

\* service_fn, or the loop of the iterative server: the answer has some number of pieces.
Echo(c) ==
  /\ edition \in {"concurrent", "iterative"}
  /\ proc[c] = "recv" /\ up[c] # <<>> /\ conn[c] # "reset"
  /\ \E n \in 1 .. Pieces :
       down' = [down EXCEPT ![c] =
         IF conn[c] = "open" THEN @ \o [k \in 1 .. n |-> Answer(Head(up[c]), 1)] ELSE @]
  /\ conn' = [conn EXCEPT ![c] = IF @ = "left" THEN "reset" ELSE @]
  /\ up' = [up EXCEPT ![c] = Tail(@)]
  /\ UNCHANGED <<at, port, asked, backlog, edition, pc, revents, nsfd, proc>>

\* Connections that the end of the process of c hangs up: its own if the server does not
\* have it open; and as the iterative server is that process, its own and those that wait.
HungUpBy(c) ==
  IF edition = "iterative" THEN {c} \cup Range(backlog[1]) ELSE {c} \ Range(nsfd)

\* The client reset its connection: recv or send ends the process.
Die(c) ==
  /\ proc[c] = "recv" /\ conn[c] = "reset"
  /\ proc' = [proc EXCEPT ![c] = "dead"]
  /\ HangUp(HungUpBy(c))
  /\ pc' = IF edition = "iterative" THEN "exit" ELSE pc
  /\ backlog' = IF edition = "iterative" THEN [p \in Services |-> <<>>] ELSE backlog
  /\ UNCHANGED <<at, port, asked, up, down, edition, revents, nsfd>>

Process(c) == Exec(c) \/ S1(c) \/ S2(c) \/ Echo(c) \/ Die(c)

-----------------------------------------------------------------------------
(* The clients.                                                            *)

ClientRuns(c) ==
  /\ Receive(c, "answer", "prompt") \/ Abandoned(c)
  /\ UNCHANGED <<edition, pc, revents, nsfd, proc>>

ClientMain(c) ==
  \/ ClientRuns(c)
  \/ /\ \/ \E p \in Ports : IF pc = "exit" THEN Refused(c) ELSE Connect(c, p, "prompt")
        \/ SendRequest(c)
        \/ Leave(c)
     /\ UNCHANGED <<edition, pc, revents, nsfd, proc>>

PollClient(c)       == edition = "poll" /\ ClientMain(c)
SelectClient(c)     == edition = "select" /\ ClientMain(c)
ConcurrentClient(c) == edition = "concurrent" /\ ClientMain(c)
IterativeClient(c)  == edition = "iterative" /\ ClientMain(c)

Client(c) == PollClient(c) \/ SelectClient(c) \/ ConcurrentClient(c) \/ IterativeClient(c)

Next ==
  \/ Server
  \/ \E c \in Clients : Process(c) \/ Client(c)

Fairness ==
  /\ WF_vars(Server)
  /\ \A c \in Clients : WF_vars(Process(c)) /\ WF_vars(ClientRuns(c))

Spec == Init /\ [][Next]_vars /\ Fairness

-----------------------------------------------------------------------------
(* Properties.                                                             *)

\* Once the server is back at waiting for connections, the end of a client's process hangs
\* that client up: the server has no descriptor of it left.
HungUpAtOnce ==
  \A c \in Clients : proc[c] = "dead" /\ pc \in {"wait", "exit"} => conn[c] = "hungup"

\* A service that converts answers the request the client waits for; one whose answers
\* are cut to 25 bytes may show an older answer, never a newer one.
OwnOrOlder ==
  \A c \in Clients : \A n \in DOMAIN down[c] :
    /\ down[c][n].of <= asked[c]
    /\ edition \in {"poll", "select"} => down[c][n] = Answer(asked[c], port[c])
    /\ n > 1 => down[c][n - 1].of <= down[c][n].of

\* A client waits for its answer, and it is not one of those the iterative server ignores.
Owed(c) == at[c] = "answer" /\ (edition = "iterative" => proc[c] = "recv")

\* No client keeps another one waiting, whatever the others do.
Answered == \A c \in Clients : Owed(c) ~> ~ Owed(c)
=============================================================================
