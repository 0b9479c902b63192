--------------------------- MODULE PassedService ---------------------------
(***************************************************************************)
(* 16-UnixSockets/MultiServiceServer: two services connect to the server   *)
(* over a Unix socket; the server then listens on one TCP port for each,   *)
(* accepts their clients and passes each connection to the service as a    *)
(* descriptor (send_fd, recv_fd of uds.h).                                 *)
(*                                                                         *)
(* The server never closes its own descriptor of a connection, so that the *)
(* end of a service does not hang up its clients unless the service shuts  *)
(* their connections down (SIGINT).  When the server ends, the services go *)
(* on filling their arrays with -1 and past the end: nothing of the        *)
(* program is modelled after that.                                         *)
(***************************************************************************)
EXTENDS TcpClients, FiniteSets, FiniteSetsExt

CONSTANT SLOTS   \* the length of nsfds, 10 in s1.c and s2.c

\* nsfds is never checked to be full: more clients would be stored past its end.
SlotsAssumption == SLOTS \in Nat /\ Cardinality(Clients) <= SLOTS /\ NUMS <= 2

VARIABLES
  pc,        \* the server: "services", "select" or "visit"; "exit"
  revents,   \* ports of the last select that the server has not visited yet
  nusfds,    \* the services in the order they were accepted
  calling,   \* services that have connected and not been accepted
  passed,    \* descriptors on their way to each service
  service,   \* "off", "select", "round" or "dead"
  nsfds,     \* connections of each service
  readfds    \* slots the service's last select found readable, 0 for its Unix socket

serverVars  == <<pc, revents, nusfds>>
serviceVars == <<service, nsfds, readfds>>
vars == <<tcpVars, serverVars, calling, passed, serviceVars>>

TypeOK ==
  /\ TcpTypeOK
  /\ pc \in {"services", "select", "visit", "exit"}
  /\ revents \in SUBSET Services
  /\ nusfds \in Seq(Services) /\ calling \in Seq(Services)
  /\ passed \in [Services -> Seq(Clients)] /\ nsfds \in [Services -> Seq(Clients)]
  /\ service \in [Services -> {"off", "select", "round", "dead"}]
  /\ readfds \in [Services -> SUBSET (0 .. SLOTS)]

Init ==
  /\ TcpInit
  /\ pc = "services" /\ revents = {} /\ nusfds = <<>>
  /\ calling = <<>> /\ passed = [s \in Services |-> <<>>]
  /\ service = [s \in Services |-> "off"]
  /\ nsfds = [s \in Services |-> <<>>] /\ readfds = [s \in Services |-> {}]

-----------------------------------------------------------------------------
(* The server.                                                             *)

\* The server accepts its services, in the order they call, and then opens the ports.
AcceptService ==
  /\ pc = "services" /\ calling # <<>>
  /\ nusfds' = Append(nusfds, Head(calling))
  /\ calling' = Tail(calling)
  /\ pc' = IF Len(nusfds') = NUMS THEN "select" ELSE "services"
  /\ UNCHANGED <<tcpVars, revents, passed, serviceVars>>

SelectPorts ==
  /\ pc = "select"
  /\ revents' = {p \in Services : backlog[p] # <<>>}
  /\ revents' # {}
  /\ pc' = "visit"
  /\ UNCHANGED <<tcpVars, nusfds, calling, passed, serviceVars>>

\* The service that gets the connections of port p.
Target(p) == nusfds[p]

\* send_fd passes c to service s.
SendFd(s, c) == [passed EXCEPT ![s] = Append(@, c)]

\* accept a connection of the next port and send_fd it to the service: with the service
\* gone, SIGPIPE ends the server.
Pass ==
  /\ pc = "visit"
  /\ LET p == Min(revents)
         s == Target(p)
     IN IF service[s] = "dead"
        THEN pc' = "exit" /\ UNCHANGED <<revents, backlog, passed>>
        ELSE /\ backlog' = [backlog EXCEPT ![p] = Tail(@)]
             /\ passed' = SendFd(s, Head(backlog[p]))
             /\ revents' = revents \ {p}
             /\ pc' = IF revents' = {} THEN "select" ELSE "visit"
  /\ UNCHANGED <<at, port, asked, up, down, conn, nusfds, calling, serviceVars>>

Server == AcceptService \/ SelectPorts \/ Pass

-----------------------------------------------------------------------------
(* A service.                                                              *)

\* The service connects to the server.
Start(s) ==
  /\ service[s] = "off"
  /\ service' = [service EXCEPT ![s] = "select"]
  /\ calling' = Append(calling, s)
  /\ UNCHANGED <<tcpVars, serverVars, passed, nsfds, readfds>>

Select(s) ==
  /\ service[s] = "select"
  /\ LET found == {k \in DOMAIN nsfds[s] : Readable(nsfds[s][k])} \cup
                  (IF passed[s] # <<>> THEN {0} ELSE {})
     IN found # {} /\ readfds' = [readfds EXCEPT ![s] = found]
  /\ service' = [service EXCEPT ![s] = "round"]
  /\ UNCHANGED <<tcpVars, serverVars, calling, passed, nsfds>>

Visited(s, k) ==
  /\ readfds' = [readfds EXCEPT ![s] = @ \ {k}]
  /\ service' = [service EXCEPT ![s] = IF readfds[s] = {k} THEN "select" ELSE "round"]

\* Mutant of RecvFd: the slot is not advanced (nsfdsCount++ is missing).
RecvFdSameSlot(s) == [nsfds EXCEPT ![s] = <<Head(passed[s])>>]

\* recv_fd takes the next connection into the next slot.
RecvFd(s) == [nsfds EXCEPT ![s] = Append(@, Head(passed[s]))]

\* The Unix socket is looked at first.
AddClient(s) ==
  /\ service[s] = "round" /\ 0 \in readfds[s]
  /\ nsfds' = RecvFd(s)
  /\ passed' = [passed EXCEPT ![s] = Tail(@)]
  /\ Visited(s, 0)
  /\ UNCHANGED <<tcpVars, serverVars, calling>>

\* Then the readable clients, by slot.
Serve(s) ==
  /\ service[s] = "round" /\ readfds[s] # {} /\ 0 \notin readfds[s]
  /\ LET k == Min(readfds[s])
     IN /\ conn[nsfds[s][k]] # "reset"
        /\ ReceiveAndSend(nsfds[s][k], s)
        /\ Visited(s, k)
  /\ UNCHANGED <<at, port, asked, backlog, serverVars, calling, passed, nsfds>>

\* send to a client that has reset its connection: SIGPIPE ends the service.  Its clients
\* are not hung up, the server still has their connections open.
Die(s) ==
  /\ service[s] = "round" /\ readfds[s] # {} /\ 0 \notin readfds[s]
  /\ conn[nsfds[s][Min(readfds[s])]] = "reset"
  /\ service' = [service EXCEPT ![s] = "dead"]
  /\ readfds' = [readfds EXCEPT ![s] = {}]
  /\ UNCHANGED <<tcpVars, serverVars, calling, passed, nsfds>>

\* SIGINT: the service shuts the connections of its array down, and ends.
Cleanup(s) ==
  /\ service[s] = "select" /\ Leavers # {}
  /\ service' = [service EXCEPT ![s] = "dead"]
  /\ HangUp({nsfds[s][k] : k \in DOMAIN nsfds[s]})
  /\ UNCHANGED <<at, port, asked, up, down, backlog, serverVars, calling, passed, nsfds,
                 readfds>>

Service(s) == pc # "exit" /\ (Start(s) \/ Select(s) \/ AddClient(s) \/ Serve(s) \/ Die(s))

ServiceMain(s) == Service(s) \/ (pc # "exit" /\ Cleanup(s))

\* s1.c and s2.c differ in their conversion.
S1 == ServiceMain(1)
S2 == 2 \in Services /\ ServiceMain(2)

-----------------------------------------------------------------------------
(* The clients: as those of the other servers, without a greeting.         *)

\* createSocket is called once both services are there.
PortsOpen == pc # "services"

ClientRuns(c) ==
  /\ Receive(c, "answer", "prompt") \/ Abandoned(c)
  /\ UNCHANGED <<serverVars, calling, passed, serviceVars>>

Client(c) ==
  \/ ClientRuns(c)
  \/ /\ \/ \E p \in Services :
             IF PortsOpen THEN Connect(c, p, "prompt") ELSE Refused(c)
        \/ SendRequest(c)
        \/ Leave(c)
     /\ UNCHANGED <<serverVars, calling, passed, serviceVars>>

\* Once the server has exited nothing is modelled any more.
Scheduled(c)  == pc # "exit" /\ ClientRuns(c)
ClientMain(c) == pc # "exit" /\ Client(c)

Next ==
  \/ Server
  \/ S1 \/ S2
  \/ \E c \in Clients : ClientMain(c)

Fairness ==
  /\ WF_vars(Server)
  /\ \A s \in Services : WF_vars(Service(s))
  /\ \A c \in Clients : WF_vars(Scheduled(c))

Spec == Init /\ [][Next]_vars /\ Fairness

-----------------------------------------------------------------------------
(* Properties.                                                             *)

Taken == [p \in Services |-> IF p \in DOMAIN nusfds THEN nsfds[nusfds[p]] ELSE <<>>]

OnTheirWay ==
  [p \in Services |->
     IF p \notin DOMAIN nusfds THEN <<>>
     ELSE passed[nusfds[p]] \o backlog[p]]

\* The clients of each port reach one service, each once and in the order they connected.
Line == INSTANCE Channels WITH Ends <- Services, Batches <- {<<c>> : c \in Clients},
                               waiting <- OnTheirWay, delivered <- Taken

InOrder == Line!Spec

\* The services convert what the menu of the client says only if they connected to the
\* server in the order of their names.
AnswerAsConnected ==
  \A c \in Clients : \A n \in DOMAIN down[c] :
    down[c][n] = Answer(asked[c], nusfds[port[c]])

\* A client waits for its answer, and neither the server nor a service has ended.
Owed(c) == at[c] = "answer" /\ pc # "exit" /\ \A s \in Services : service[s] # "dead"

\* Nobody waits for ever, unless a service has ended.
Answered == \A c \in Clients : Owed(c) ~> ~ Owed(c)
=============================================================================
