--------------------------- MODULE ServiceServer ---------------------------
(***************************************************************************)
(* 15-Minor1/Q3: a server that listens on one port per service and polls   *)
(* them.  The first client of a port makes it fork the service of that     *)
(* port, which takes over the client as its descriptor 1 and the listening *)
(* socket as its descriptor 0; the server then closes both.  The service   *)
(* accepts up to MAX_CLIENTS clients, refuses the others, and tells the    *)
(* server with SIGUSR1 when it is full.                                    *)
(*                                                                         *)
(* The descriptors of the server are modelled as numbers, because it goes  *)
(* on using the number of a socket that it has closed: 1 .. NUMS are those *)
(* the listening sockets got, NUMS + 1 is the next one.                    *)
(***************************************************************************)
EXTENDS TcpClients, FiniteSets, FiniteSetsExt

CONSTANT MAX_CLIENTS   \* 5 in s1.c, s2.c and s3.c

ASSUME MaxClientsAssumption == MAX_CLIENTS \in Nat \ {0} /\ NUMS <= 3

VARIABLES
  pc,        \* the server: "poll", "accept", "close" or "store"; "exit" after SIGINT
  revents,   \* listening sockets the last poll found readable and not visited yet
  files,     \* what each descriptor of the server is open on
  nsfd,      \* its descriptor of the last connection
  pids,      \* the services whose pid the server has stored
  usr1,      \* the sender of the SIGUSR1 that is pending
  reported,  \* services that the handler of SIGUSR1 has named
  service,   \* "off", "forked", "select", "round" or "dead"
  argument,  \* what the child of the server left to the service as descriptor 1
  nsfds,     \* the service's slots
  readfds    \* slots the service's last select found readable, 0 for its listening socket

serverVars  == <<pc, revents, files, nsfd, pids>>
serviceVars == <<service, argument, nsfds, readfds>>
vars == <<tcpVars, serverVars, usr1, reported, serviceVars>>

Free         == <<"free", 0>>
Terminal     == <<"terminal", 0>>
Listener(s)  == <<"listener", s>>
Connection(c) == <<"connection", c>>

Numbers     == 1 .. NUMS + 1
Descriptors == {Free, Terminal} \cup {Listener(s) : s \in Services}
                                \cup {Connection(c) : c \in Clients}

TypeOK ==
  /\ TcpTypeOK
  /\ pc \in {"poll", "accept", "close", "store", "exit"}
  /\ revents \in SUBSET Services
  /\ files \in [Numbers -> Descriptors]
  /\ nsfd \in Numbers
  /\ pids \in SUBSET Services
  /\ usr1 \in SUBSET Services /\ Cardinality(usr1) <= 1
  /\ reported \in SUBSET Services
  /\ service \in [Services -> {"off", "forked", "select", "round", "dead"}]
  /\ argument \in [Services -> Descriptors]
  /\ nsfds \in [Services -> Seq(Descriptors)]
  /\ readfds \in [Services -> SUBSET Nat]
  /\ \A s \in Services : readfds[s] \subseteq 0 .. Len(nsfds[s])

\* The sockets are created in the order of their ports.
CreateSocket(n) == IF n \in Services THEN Listener(n) ELSE Free

Init ==
  /\ TcpInit
  /\ pc = "poll" /\ revents = {} /\ nsfd = NUMS + 1 /\ pids = {}
  /\ files = [n \in Numbers |-> CreateSocket(n)]
  /\ usr1 = {} /\ reported = {}
  /\ service = [s \in Services |-> "off"]
  /\ argument = [s \in Services |-> Free]
  /\ nsfds = [s \in Services |-> <<>>]
  /\ readfds = [s \in Services |-> {}]

-----------------------------------------------------------------------------
(* Who has what open.                                                      *)

ServerHas(d)     == \E n \in Numbers : files[n] = d
Running(s)       == service[s] \in {"forked", "select", "round"}
ServiceHas(s, c) == /\ Running(s)
                    /\ \/ argument[s] = Connection(c)
                       \/ \E k \in DOMAIN nsfds[s] : nsfds[s][k] = Connection(c)
Listened(s)      == ServerHas(Listener(s)) \/ Running(s)

\* The smallest number that is free, for accept.
NextNumber == Min({n \in Numbers : files[n] = Free})

-----------------------------------------------------------------------------
(* The server.                                                             *)

\* poll: it finds the sockets that are still open and have a connection waiting.
Poll ==
  /\ pc = "poll"
  /\ \E s \in Services : files[s] = Listener(s) /\ backlog[s] # <<>>
  /\ revents' = {s \in Services : files[s] = Listener(s) /\ backlog[s] # <<>>}
  /\ pc' = "accept"
  /\ UNCHANGED <<tcpVars, files, nsfd, pids, usr1, reported, serviceVars>>

\* What the child forked for s has at number n when it has closed the other sockets.
ChildFile(s, n, fs) == IF n \in Services \ {s} THEN Free ELSE fs[n]

\* accept the connection of the next socket, fork.  The child closes the numbers of the
\* other sockets and makes the connection its descriptor 1: if the connection had got one
\* of those numbers its descriptor 1 stays the terminal.
AcceptAndFork ==
  /\ pc = "accept" /\ revents # {}
  /\ LET s  == Min(revents)
         c  == Head(backlog[s])
         n  == NextNumber
         fs == [files EXCEPT ![n] = Connection(c)]
     IN /\ files' = fs
        /\ nsfd' = n
        /\ backlog' = [backlog EXCEPT ![s] = Tail(@)]
        /\ service' = [service EXCEPT ![s] = "forked"]
        /\ argument' = [argument EXCEPT ![s] = IF ChildFile(s, n, fs) = Connection(c)
                                               THEN Connection(c) ELSE Terminal]
  /\ pc' = "close"
  /\ UNCHANGED <<at, port, asked, up, down, conn, revents, pids, usr1, reported, nsfds,
                 readfds>>

\* Connections of s that nobody accepts any more.
Stranded(s) == {c \in Clients : \E k \in DOMAIN backlog[s] : backlog[s][k] = c}

\* Mutant of CloseBoth: the server keeps its descriptor of the connection.
CloseListener ==
  /\ pc = "close"
  /\ files' = [files EXCEPT ![Min(revents)] = Free]
  /\ pc' = "store"
  /\ UNCHANGED <<tcpVars, revents, nsfd, pids, usr1, reported, serviceVars>>

\* The server closes the connection and the listening socket it has just handed over.
CloseBoth ==
  /\ pc = "close"
  /\ LET s == Min(revents)
         c == files[nsfd][2]
     IN /\ files' = [files EXCEPT ![nsfd] = Free, ![s] = Free]
        /\ HangUp((IF ServiceHas(s, c) THEN {} ELSE {c}) \cup
                  (IF Running(s) THEN {} ELSE Stranded(s)))
        /\ backlog' = IF Running(s) THEN backlog ELSE [backlog EXCEPT ![s] = <<>>]
  /\ pc' = "store"
  /\ UNCHANGED <<at, port, asked, up, down, revents, nsfd, pids, usr1, reported, serviceVars>>

\* The server stores the pid of the child and goes on.
StorePid ==
  /\ pc = "store"
  /\ pids' = pids \cup {Min(revents)}
  /\ revents' = revents \ {Min(revents)}
  /\ pc' = IF Cardinality(revents) = 1 THEN "poll" ELSE "accept"
  /\ UNCHANGED <<tcpVars, files, nsfd, usr1, reported, serviceVars>>

\* get_pid, the handler of SIGUSR1: it names the sender if its pid is stored.
GetPid ==
  /\ pc # "exit" /\ usr1 # {}
  /\ reported' = reported \cup (usr1 \cap pids)
  /\ usr1' = {}
  /\ UNCHANGED <<tcpVars, serverVars, serviceVars>>

\* SIGINT ends the server: the sockets it still has are closed.
Cleanup ==
  /\ pc = "poll"
  /\ pc' = "exit" /\ usr1' = {}
  /\ files' = [n \in Numbers |-> Free]
  /\ LET closed == {s \in Services : ~ Running(s)}
     IN /\ HangUp(UNION {Stranded(s) : s \in closed})
        /\ backlog' = [s \in Services |-> IF s \in closed THEN <<>> ELSE backlog[s]]
  /\ UNCHANGED <<at, port, asked, up, down, revents, nsfd, pids, reported, serviceVars>>

Server == Poll \/ AcceptAndFork \/ CloseBoth \/ StorePid

-----------------------------------------------------------------------------
(* A service.                                                              *)

\* The service starts: its descriptor 1 becomes slot 1 and is greeted.
Start(s) ==
  /\ service[s] = "forked"
  /\ service' = [service EXCEPT ![s] = "select"]
  /\ nsfds' = [nsfds EXCEPT ![s] = <<argument[s]>>]
  /\ IF argument[s] = Terminal THEN UNCHANGED <<down, conn>>
     ELSE Send(argument[s][2], Greeting("First", s))
  /\ UNCHANGED <<at, port, asked, up, backlog, serverVars, usr1, reported, argument, readfds>>

\* Mutant of ReadableSlots: the loop goes one slot too far.
ReadableSlotsPastEnd(s) == {1 + Len(nsfds[s])}

\* The slots select reports: nothing is ever typed at the terminal in slot 1.
ReadableSlots(s) ==
  {k \in DOMAIN nsfds[s] : nsfds[s][k] # Terminal /\ Readable(nsfds[s][k][2])}

Select(s) ==
  /\ service[s] = "select"
  /\ LET found == ReadableSlots(s) \cup (IF backlog[s] # <<>> THEN {0} ELSE {})
     IN found # {} /\ readfds' = [readfds EXCEPT ![s] = found]
  /\ service' = [service EXCEPT ![s] = "round"]
  /\ UNCHANGED <<tcpVars, serverVars, usr1, reported, argument, nsfds>>

\* The round goes on, or ends.
Visited(s, k) ==
  /\ readfds' = [readfds EXCEPT ![s] = @ \ {k}]
  /\ service' = [service EXCEPT ![s] = IF readfds[s] = {k} THEN "select" ELSE "round"]

\* Slots are served in their order.
Serve(s) ==
  /\ service[s] = "round" /\ readfds[s] \ {0} # {}
  /\ LET k == Min(readfds[s] \ {0})
         c == nsfds[s][k][2]
     IN /\ conn[c] # "reset"
        /\ ReceiveAndSend(c, s)
        /\ Visited(s, k)
  /\ UNCHANGED <<at, port, asked, backlog, serverVars, usr1, reported, argument, nsfds>>

\* send to a client that has reset its connection: SIGPIPE ends the service, its clients
\* and the connections that wait are hung up.
Die(s) ==
  /\ service[s] = "round" /\ readfds[s] \ {0} # {}
  /\ conn[nsfds[s][Min(readfds[s] \ {0})][2]] = "reset"
  /\ service' = [service EXCEPT ![s] = "dead"]
  /\ readfds' = [readfds EXCEPT ![s] = {}]
  /\ nsfds' = [nsfds EXCEPT ![s] = <<>>]
  /\ argument' = [argument EXCEPT ![s] = Free]
  /\ LET held == {c \in Clients : port[c] = s /\ ~ ServerHas(Connection(c))}
         kept == ServerHas(Listener(s))
     IN /\ HangUp(IF kept THEN held \ Stranded(s) ELSE held)
        /\ backlog' = IF kept THEN backlog ELSE [backlog EXCEPT ![s] = <<>>]
  /\ UNCHANGED <<at, port, asked, up, down, serverVars, usr1, reported>>

\* Mutant of Admit: one client too many is admitted, and the signal is sent too late.
AdmitOneMore(s) == Len(nsfds[s]) <= MAX_CLIENTS

\* There is a slot left.
Admit(s) == Len(nsfds[s]) < MAX_CLIENTS

\* accept, once the clients of the round are served.  A client too many is told so, and
\* its connection is neither kept nor closed.
AcceptClient(s) ==
  /\ service[s] = "round" /\ readfds[s] = {0}
  /\ LET c == Head(backlog[s])
     IN IF Admit(s)
        THEN /\ Send(c, Greeting("Connected", s))
             /\ nsfds' = [nsfds EXCEPT ![s] = Append(@, Connection(c))]
             /\ usr1' = IF Len(nsfds'[s]) = MAX_CLIENTS /\ pc # "exit" /\ usr1 = {}
                        THEN {s} ELSE usr1
        ELSE /\ Send(c, Greeting("Sorry", s))
             /\ UNCHANGED <<nsfds, usr1>>
  /\ backlog' = [backlog EXCEPT ![s] = Tail(@)]
  /\ Visited(s, 0)
  /\ UNCHANGED <<at, port, asked, up, serverVars, reported, argument>>

Service(s) == Start(s) \/ Select(s) \/ Serve(s) \/ Die(s) \/ AcceptClient(s)

\* s1.c, s2.c and s3.c differ in their conversion.
S1 == 1 \in Services /\ Service(1)
S2 == 2 \in Services /\ Service(2)
S3 == 3 \in Services /\ Service(3)

-----------------------------------------------------------------------------
(* The clients.                                                            *)

\* recv the first message.  It is compared to "Sorry, already got 5 clients!" in a buffer
\* that was never initialised: the comparison may fail for want of a final zero.
ReceiveFirst(c) ==
  /\ down[c] # <<>>
  /\ \/ Receive(c, "greeting", "prompt")
     \/ /\ Head(down[c]).kind = "Sorry"
        /\ at[c] = "greeting"
        /\ at' = [at EXCEPT ![c] = "gone"]
        /\ conn' = [conn EXCEPT ![c] = IF @ = "hungup" THEN @ ELSE "left"]
        /\ down' = [down EXCEPT ![c] = <<>>]
        /\ UNCHANGED <<port, asked, up, backlog>>

ClientRuns(c) ==
  \/ ReceiveFirst(c)
  \/ Receive(c, "answer", "prompt")
  \/ Abandoned(c)

Scheduled(c) == ClientRuns(c) /\ UNCHANGED <<serverVars, usr1, reported, serviceVars>>

Client(c) ==
  /\ \/ \E s \in Services : IF Listened(s) THEN Connect(c, s, "greeting") ELSE Refused(c)
     \/ SendRequest(c)
     \/ Leave(c)
     \/ ClientRuns(c)
  /\ UNCHANGED <<serverVars, usr1, reported, serviceVars>>

Next ==
  \/ Server \/ GetPid \/ Cleanup
  \/ S1 \/ S2 \/ S3
  \/ \E c \in Clients : Client(c)

\* The processes are scheduled; the users of the clients and the user who ends the server
\* do what they like.
Fairness ==
  /\ WF_vars(Server)
  /\ \A s \in Services : WF_vars(Service(s))
  /\ \A c \in Clients : WF_vars(Scheduled(c))

Spec == Init /\ [][Next]_vars /\ Fairness

-----------------------------------------------------------------------------
(* Properties.                                                             *)

\* A connection is in one slot of one service at most, and the server has closed it before
\* it goes on to the next client.
OneHolder ==
  \A c \in Clients :
    /\ Cardinality({slot \in Services \X (1 .. MAX_CLIENTS + 1) :
                      /\ slot[2] \in DOMAIN nsfds[slot[1]]
                      /\ nsfds[slot[1]][slot[2]] = Connection(c)}) <= 1
    /\ pc \in {"poll", "accept"} => ~ ServerHas(Connection(c))

\* A service that is reported as full is full.
ReportSound ==
  \A s \in reported : service[s] # "dead" => Len(nsfds[s]) = MAX_CLIENTS

\* Slot 1 of every service is its first client (server.c: "dup so we dont lose nsfd and
\* socket fd").
NothingLost ==
  \A s \in Services : nsfds[s] # <<>> => nsfds[s][1] # Terminal

\* What a client waits for: the greeting or refusal of its port, and then, if it has a slot
\* of a running service, its answer.
Owed(c) == \/ at[c] = "greeting"
           \/ at[c] = "answer" /\ \E s \in Services : ServiceHas(s, c)

\* Nobody waits for ever: the message comes, or the connection is hung up.
Answered == \A c \in Clients : Owed(c) ~> ~ Owed(c)
=============================================================================
