------------------------------- MODULE Proxy -------------------------------
(***************************************************************************)
(* The proxy server of 12-Proxy (server.c), its conversion services (s1.c, *)
(* s2.c, s3.c) and its interactive clients (client.c).                     *)
(*                                                                         *)
(* The server runs one accept thread (proxyServerFunction) and one thread  *)
(* per service (serverFunction).  They share clients[] and numClients      *)
(* without a lock.  A client's first message is the number of a service;   *)
(* it may later type CHANGE followed by another number.  Clients that      *)
(* first choose PROXY are served by the accept thread itself.              *)
(*                                                                         *)
(* A TCP connection is a byte stream: what one recv returns is everything  *)
(* that has arrived, however many sends it took.  A stream is modelled as  *)
(* the sequence of the things the client sent and the server has not read. *)
(***************************************************************************)
EXTENDS Naturals, Sequences, FiniteSets

CONSTANTS
  Clients,        \* the client processes
  NUMS,           \* number of conversion services (3 in server.c)
  Capacity,       \* MAX_PENDING, the size of clients[]
  CountFirst,     \* numClients++ reaches memory before serviceNumber
  Paced,          \* users type only when their last message has been read
  MayDisconnect,  \* a client may be interrupted (SIGINT)
  FirstChoices,   \* what a user answers to the first menu
  NextChoices,    \* what a user answers to the menu of CHANGE
  MaxTexts,       \* bound: texts a user types
  MaxChanges,     \* bound: times a user types CHANGE
  NoClient        \* value of the accept thread's nsfd between two loops

Services == 0 .. NUMS - 1
PROXY    == NUMS            \* "Enter 3": the service of the proxy itself

ASSUME NumsAssumption     == NUMS \in Nat \ {0}
ASSUME SwitchAssumption   == {CountFirst, Paced, MayDisconnect} \subseteq BOOLEAN
ASSUME ChoicesAssumption  == /\ FirstChoices \subseteq 0 .. NUMS
                             /\ NextChoices \subseteq 0 .. NUMS
ASSUME BoundsAssumption   == MaxTexts \in Nat /\ MaxChanges \in Nat
\* A client too many is written past the end of clients[]: out of the model.
ASSUME CapacityAssumption == Capacity \in Nat /\ IsFiniteSet(Clients)
                                              /\ Cardinality(Clients) <= Capacity

ASSUME NoClientAssumption == NoClient \notin Clients

\* Locals declared inside a loop body are reset where their scope ends.
VARIABLES
  \* client processes
  cpc,            \* where each client is in main
  outer,          \* its variable choice (the inner one shadows it)
  svc,            \* the service its user chose last
  texts,          \* texts its user has typed
  changes,        \* times its user has typed CHANGE
  \* connections
  toServer,       \* what each client sent and the server has not read
  toClient,       \* replies each client has not read
  backlog,        \* connections not yet accepted, per listening port
  toService,      \* requests each service has not read
  fromService,    \* conversions the server has not read
  \* shared memory of the server
  order,          \* clients[0 .. numClients-1].nsfd
  serviceNumber,  \* clients[].serviceNumber, by client
  \* accept thread
  apc, aready, anew, achoice,
  \* service threads
  tpc, ti, fds

clientVars  == <<cpc, outer, svc, texts, changes>>
streamVars  == <<toServer, toClient>>
serviceVars == <<toService, fromService>>
sharedVars  == <<order, serviceNumber>>
acceptVars  == <<apc, aready, anew, achoice>>
threadVars  == <<tpc, ti, fds>>
vars == <<clientVars, streamVars, backlog, serviceVars, sharedVars, acceptVars,
          threadVars>>

(***************************************************************************)
(* What the client sends.  A recv of two bytes for a one-digit choice also *)
(* takes the first letter of what follows: that item is then clipped.      *)
(* Texts have three letters or more and start with a letter.               *)
(***************************************************************************)
Items == [kind : {"choice", "text", "CHANGE"}, owner : Clients, val : Nat,
          clipped : BOOLEAN]

Item(k, c, v) == [kind |-> k, owner |-> c, val |-> v, clipped |-> FALSE]

\* Mutant of ChoiceIn: services counted from 1.
ChoiceFromOne(s) == IF Head(s).kind = "choice" THEN Head(s).val + 1 ELSE 0

\* recv(.., 2) and atoi: the choice read (0 from letters) and what is left.
ChoiceIn(s) == IF Head(s).kind = "choice" THEN Head(s).val ELSE 0
AfterChoice(s) ==
  LET rest == IF Head(s).kind = "choice" THEN Tail(s) ELSE s
  IN  IF rest = <<>> THEN <<>> ELSE [rest EXCEPT ![1].clipped = TRUE]

\* Mutant of IsChange: the test of the word is missing.
NeverChange(m) == FALSE

\* strcmp("CHANGE", a) == 0 : the word alone, whole.
IsChange(m) == /\ Len(m) = 1
               /\ m[1].kind = "CHANGE"
               /\ ~ m[1].clipped

Replies == [by : 0 .. NUMS, msg : Seq(Items)]

\* select's test: data or end of file.
Readable(c) == toServer[c] # <<>> \/ cpc[c] = "gone"

\* send to a client: lost when the client is gone.
Deliver(c, r) ==
  toClient' = IF cpc[c] = "gone" THEN toClient
              ELSE [toClient EXCEPT ![c] = Append(@, r)]

Ports == {"proxyService", "client"}

TypeOK ==
  /\ cpc \in [Clients -> {"start", "prompt", "menu", "waiting", "gone"}]
  /\ outer \in [Clients -> 0 .. NUMS]
  /\ svc \in [Clients -> 0 .. NUMS]
  /\ texts \in [Clients -> Nat]
  /\ changes \in [Clients -> Nat]
  /\ toServer \in [Clients -> Seq(Items)]
  /\ toClient \in [Clients -> Seq(Replies)]
  /\ backlog \in [Ports -> Seq(Clients)]
  /\ toService \in [Services -> Seq(Seq(Items))]
  /\ fromService \in [Services -> Seq(Replies)]
  /\ order \in Seq(Clients)
  /\ serviceNumber \in [Clients -> Nat]
  /\ apc \in {"select", "proxy", "message", "client", "store", "store2"}
  /\ aready \in SUBSET Ports
  /\ anew \in Clients \union {NoClient}
  /\ (apc \in {"message", "store", "store2"}) => anew \in Clients
  /\ achoice \in Nat
  /\ tpc \in [Services -> {"build", "select", "scan", "recv", "choice", "reply"}]
  /\ ti \in [Services -> Nat \ {0}]
  /\ fds \in [Services -> SUBSET Clients]

Init ==
  /\ cpc = [c \in Clients |-> "start"]
  /\ outer = [c \in Clients |-> 0]
  /\ svc = [c \in Clients |-> 0]
  /\ texts = [c \in Clients |-> 0]
  /\ changes = [c \in Clients |-> 0]
  /\ toServer = [c \in Clients |-> <<>>]
  /\ toClient = [c \in Clients |-> <<>>]
  /\ backlog = [p \in Ports |-> <<>>]
  /\ toService = [k \in Services |-> <<>>]
  /\ fromService = [k \in Services |-> <<>>]
  /\ order = <<>>
  /\ serviceNumber = [c \in Clients |-> 0]     \* globals are zeroed
  /\ apc = "select"
  /\ aready = {}
  /\ anew = NoClient
  /\ achoice = 0
  /\ tpc = [k \in Services |-> "build"]
  /\ ti = [k \in Services |-> 1]
  /\ fds = [k \in Services |-> {}]

-----------------------------------------------------------------------------
(***************************************************************************)
(* The client, main of client.c.                                           *)
(***************************************************************************)

Send(c, item) == toServer' = [toServer EXCEPT ![c] = Append(@, item)]

\* A patient user types only once the server has read the previous message.
MayType(c) == Paced => toServer[c] = <<>>

\* First menu, connect to the port of the choice, send the choice.
Connect(c, ch) ==
  LET port == IF ch = PROXY THEN "proxyService" ELSE "client"
  IN  /\ cpc[c] = "start"
      /\ cpc' = [cpc EXCEPT ![c] = "prompt"]
      /\ outer' = [outer EXCEPT ![c] = ch]
      /\ svc' = [svc EXCEPT ![c] = ch]
      /\ Send(c, Item("choice", c, ch))
      /\ backlog' = [backlog EXCEPT ![port] = Append(@, c)]
      /\ UNCHANGED <<texts, changes, toClient, serviceVars, sharedVars,
                     acceptVars, threadVars>>

\* A text to convert: send it and wait for the answer.
SendText(c) ==
  /\ cpc[c] = "prompt" /\ MayType(c)
  /\ texts[c] < MaxTexts
  /\ cpc' = [cpc EXCEPT ![c] = "waiting"]
  /\ texts' = [texts EXCEPT ![c] = @ + 1]
  /\ Send(c, Item("text", c, texts[c] + 1))
  /\ UNCHANGED <<outer, svc, changes, toClient, backlog, serviceVars,
                 sharedVars, acceptVars, threadVars>>

\* The word CHANGE is sent as it is, then the menu is shown.
SendChange(c) ==
  /\ cpc[c] = "prompt" /\ MayType(c)
  /\ changes[c] < MaxChanges
  /\ cpc' = [cpc EXCEPT ![c] = "menu"]
  /\ changes' = [changes EXCEPT ![c] = @ + 1]
  /\ Send(c, Item("CHANGE", c, changes[c] + 1))
  /\ UNCHANGED <<outer, svc, texts, toClient, backlog, serviceVars,
                 sharedVars, acceptVars, threadVars>>

\* The answer to the menu; the outer choice keeps its value.
SendNewChoice(c, ch) ==
  /\ cpc[c] = "menu" /\ MayType(c)
  /\ cpc' = [cpc EXCEPT ![c] = "prompt"]
  /\ svc' = [svc EXCEPT ![c] = ch]
  /\ Send(c, Item("choice", c, ch))
  /\ UNCHANGED <<outer, texts, changes, toClient, backlog, serviceVars,
                 sharedVars, acceptVars, threadVars>>

\* recv of one 100-byte reply; a client of the proxy service then exits.
RecvReply(c) ==
  /\ cpc[c] = "waiting"
  /\ toClient[c] # <<>>
  /\ toClient' = [toClient EXCEPT ![c] = Tail(@)]
  /\ cpc' = [cpc EXCEPT ![c] = IF outer[c] = PROXY THEN "gone" ELSE "prompt"]
  /\ UNCHANGED <<outer, svc, texts, changes, toServer, backlog, serviceVars,
                 sharedVars, acceptVars, threadVars>>

\* SIGINT: cleanup closes the socket.
Disconnect(c) ==
  /\ MayDisconnect
  /\ cpc[c] \in {"prompt", "menu", "waiting"}
  /\ cpc' = [cpc EXCEPT ![c] = "gone"]
  /\ UNCHANGED <<outer, svc, texts, changes, streamVars, backlog, serviceVars,
                 sharedVars, acceptVars, threadVars>>

-----------------------------------------------------------------------------
(***************************************************************************)
(* The accept thread, proxyServerFunction.                                 *)
(***************************************************************************)

\* select on the two listening sockets; the proxy service goes first.
AcceptSelect ==
  /\ apc = "select"
  /\ aready' = {p \in Ports : backlog[p] # <<>>}
  /\ aready' # {}
  /\ apc' = IF "proxyService" \in aready' THEN "proxy" ELSE "client"
  /\ UNCHANGED <<clientVars, streamVars, backlog, serviceVars, sharedVars,
                 anew, achoice, threadVars>>

\* accept, then recv of the choice (it came with the connection).
AcceptFrom(p) ==
  LET c == Head(backlog[p])
  IN  /\ backlog[p] # <<>>
      /\ toServer[c] # <<>>
      /\ anew' = c
      /\ achoice' = ChoiceIn(toServer[c])
      /\ backlog' = [backlog EXCEPT ![p] = Tail(@)]
      /\ toServer' = [toServer EXCEPT ![c] = AfterChoice(@)]

AcceptProxyClient ==
  /\ apc = "proxy"
  /\ AcceptFrom("proxyService")
  /\ apc' = "message"
  /\ UNCHANGED <<clientVars, toClient, serviceVars, sharedVars, aready,
                 threadVars>>

\* recv of the text, swap of A and E, send: blocks until the client types.
ServeProxyClient ==
  /\ apc = "message"
  /\ Readable(anew)
  /\ toServer' = [toServer EXCEPT ![anew] = <<>>]
  /\ Deliver(anew, [by |-> PROXY, msg |-> toServer[anew]])
  /\ apc' = IF "client" \in aready THEN "client" ELSE "select"
  /\ aready' = {} /\ anew' = NoClient /\ achoice' = 0
  /\ UNCHANGED <<clientVars, backlog, serviceVars, sharedVars, threadVars>>

AcceptClient ==
  /\ apc = "client"
  /\ AcceptFrom("client")
  /\ apc' = "store"
  /\ aready' = {}
  /\ UNCHANGED <<clientVars, toClient, serviceVars, sharedVars, threadVars>>

(***************************************************************************)
(*   clients[numClients].nsfd = nsfd;                                      *)
(*   clients[numClients++].serviceNumber = choice;                         *)
(* Two stores the other threads can see in either order: gcc -O0 stores    *)
(* numClients first, gcc -O2 stores serviceNumber first.                   *)
(***************************************************************************)
\* Mutant of Count: numClients++ is missing.
ForgetCount == UNCHANGED <<order, serviceNumber>>

Count      == order' = Append(order, anew) /\ UNCHANGED serviceNumber
StoreNumber == /\ serviceNumber' = [serviceNumber EXCEPT ![anew] = achoice]
               /\ UNCHANGED order

StoreClient ==
  /\ \/ /\ apc = "store"
        /\ apc' = "store2"
        /\ IF CountFirst THEN Count ELSE StoreNumber
        /\ UNCHANGED <<anew, achoice>>
     \/ /\ apc = "store2"
        /\ apc' = "select"
        /\ IF CountFirst THEN StoreNumber ELSE Count
        /\ anew' = NoClient /\ achoice' = 0
  /\ UNCHANGED <<clientVars, streamVars, backlog, serviceVars, aready,
                 threadVars>>

-----------------------------------------------------------------------------
(***************************************************************************)
(* The thread of service k, serverFunction; ti is the loop variable i of   *)
(* its second loop.  A client leaves service k only by the thread of k, so *)
(* what a loop tests one client after the other stays true to its end: the *)
(* first loop, and the clients the second one skips, take one step.        *)
(***************************************************************************)

Goto(k, l) == tpc' = [tpc EXCEPT ![k] = l]
\* Mutant of InService: clients of other services are not skipped.
AnyServiceAtAll(k, i) == TRUE
InService(k, i) == serviceNumber[order[i]] = k
Current(k) == order[ti[k]]             \* clients[i].nsfd

\* The first loop: FD_SET of the clients of this service.
BuildSet(k) ==
  /\ tpc[k] = "build"
  /\ fds' = [fds EXCEPT ![k] = {order[i] : i \in {j \in 1 .. Len(order) : InService(k, j)}}]
  /\ Goto(k, "select")
  /\ UNCHANGED <<clientVars, streamVars, backlog, serviceVars, sharedVars,
                 acceptVars, ti>>

\* Mutant of SelectClients: no timeout.
SelectForEver(k) ==
  LET ready == {c \in fds[k] : Readable(c)}
  IN  /\ tpc[k] = "select"
      /\ ready # {}
      /\ fds' = [fds EXCEPT ![k] = ready]
      /\ Goto(k, "scan")
      /\ UNCHANGED <<clientVars, streamVars, backlog, serviceVars, sharedVars,
                     acceptVars, ti>>

\* select with a timeout of 10 s: either some connections are readable, or
\* none is and the set is built again.
SelectClients(k) ==
  LET ready == {c \in fds[k] : Readable(c)}
  IN  /\ tpc[k] = "select"
      /\ fds' = [fds EXCEPT ![k] = ready]
      /\ Goto(k, IF ready = {} THEN "build" ELSE "scan")
      /\ UNCHANGED <<clientVars, streamVars, backlog, serviceVars, sharedVars,
                     acceptVars, ti>>

\* Second loop: on to the next client of this service that is set, if any.
ScanClients(k) ==
  LET found == {i \in ti[k] .. Len(order) : InService(k, i) /\ order[i] \in fds[k]}
  IN  /\ tpc[k] = "scan"
      /\ \/ \E i \in found :
              /\ \A j \in found : i <= j
              /\ ti' = [ti EXCEPT ![k] = i]
              /\ Goto(k, "recv")
              /\ UNCHANGED fds
         \/ /\ found = {}
            /\ Goto(k, "build")
            /\ ti' = [ti EXCEPT ![k] = 1]
            /\ fds' = [fds EXCEPT ![k] = {}]
      /\ UNCHANGED <<clientVars, streamVars, backlog, serviceVars, sharedVars,
                     acceptVars>>

\* Mutant of NextClient: the loop variable is reset with the rest.
NextClientReset(k) == ti' = [ti EXCEPT ![k] = 0] /\ Goto(k, "scan")

\* Done with a client: i++ and back to the test of the loop.
NextClient(k) == ti' = [ti EXCEPT ![k] = @ + 1] /\ Goto(k, "scan")

\* recv of up to 100 bytes.  Anything but CHANGE goes to the service, an end
\* of file as a hundred zeros.
RecvClient(k) ==
  LET c == Current(k)
      m == toServer[c]
  IN  /\ tpc[k] = "recv"
      /\ Readable(c)
      /\ toServer' = [toServer EXCEPT ![c] = <<>>]
      /\ \/ IsChange(m) /\ Goto(k, "choice") /\ UNCHANGED toService
         \/ /\ ~ IsChange(m)
            /\ Goto(k, "reply")
            /\ toService' = [toService EXCEPT ![k] = Append(@, m)]
      /\ UNCHANGED <<clientVars, toClient, backlog, fromService, sharedVars,
                     acceptVars, ti, fds>>

\* recv of the new choice.  At end of file temp is uninitialised.
RecvChoice(k) ==
  LET c == Current(k)
  IN  /\ tpc[k] = "choice"
      /\ Readable(c)
      /\ \/ /\ toServer[c] # <<>>
            /\ serviceNumber' = [serviceNumber EXCEPT ![c] = ChoiceIn(toServer[c])]
            /\ toServer' = [toServer EXCEPT ![c] = AfterChoice(@)]
         \/ /\ toServer[c] = <<>>
            /\ \E ch \in 0 .. NUMS : serviceNumber' = [serviceNumber EXCEPT ![c] = ch]
            /\ UNCHANGED toServer
      /\ NextClient(k)
      /\ UNCHANGED <<clientVars, toClient, backlog, serviceVars, order,
                     acceptVars, fds>>

\* Mutant of RelayReply: the reply goes to the client admitted last.
RelayToLast(k) ==
  /\ tpc[k] = "reply"
  /\ fromService[k] # <<>>
  /\ Deliver(order[Len(order)], Head(fromService[k]))
  /\ fromService' = [fromService EXCEPT ![k] = Tail(@)]
  /\ NextClient(k)
  /\ UNCHANGED <<clientVars, toServer, backlog, toService, sharedVars,
                 acceptVars, fds>>

\* recv of the conversion (blocking), send to the client.
RelayReply(k) ==
  /\ tpc[k] = "reply"
  /\ fromService[k] # <<>>
  /\ Deliver(Current(k), Head(fromService[k]))
  /\ fromService' = [fromService EXCEPT ![k] = Tail(@)]
  /\ NextClient(k)
  /\ UNCHANGED <<clientVars, toServer, backlog, toService, sharedVars,
                 acceptVars, fds>>

(***************************************************************************)
(* A service: recv, convert, send strlen(buff) bytes - none for an empty   *)
(* request.                                                                *)
(***************************************************************************)
Convert(k) ==
  LET m == Head(toService[k])
  IN  /\ toService[k] # <<>>
      /\ toService' = [toService EXCEPT ![k] = Tail(@)]
      /\ fromService' = IF m = <<>> THEN fromService
                        ELSE [fromService EXCEPT ![k] =
                                Append(@, [by |-> k, msg |-> m])]
      /\ UNCHANGED <<clientVars, streamVars, backlog, sharedVars, acceptVars,
                     threadVars>>

-----------------------------------------------------------------------------
User(c) == \/ \E ch \in FirstChoices : Connect(c, ch)
           \/ SendText(c)
           \/ SendChange(c)
           \/ Disconnect(c)

Client(c) == \/ \E ch \in NextChoices : SendNewChoice(c, ch)
             \/ RecvReply(c)

Acceptor == \/ AcceptSelect
            \/ AcceptProxyClient
            \/ ServeProxyClient
            \/ AcceptClient
            \/ StoreClient

Thread(k) == \/ BuildSet(k)
             \/ SelectClients(k)
             \/ ScanClients(k)
             \/ RecvClient(k)
             \/ RecvChoice(k)
             \/ RelayReply(k)

Next == \/ \E c \in Clients : User(c) \/ Client(c)
        \/ Acceptor
        \/ \E k \in Services : Thread(k) \/ Convert(k)

Spec == Init /\ [][Next]_vars

(***************************************************************************)
(* The scheduler runs every thread and process; a user may stop typing at  *)
(* a prompt, but answers the menu it asked for.                            *)
(***************************************************************************)
Fairness == /\ \A c \in Clients : WF_vars(Client(c))
            /\ WF_vars(Acceptor)
            /\ \A k \in Services : WF_vars(Thread(k)) /\ WF_vars(Convert(k))

FairSpec == Spec /\ Fairness

-----------------------------------------------------------------------------
(***************************************************************************)
(* What should be true.                                                    *)
(***************************************************************************)

\* Thread k is between choosing a client in its second loop and being done
\* with it.
Handling(k) == tpc[k] \in {"recv", "choice", "reply"}

\* Two service threads never work on the same connection at once, although
\* serviceNumber is tested at server.c:245 and used without a lock up to
\* line 276, while other threads move clients: the bytes of one message are
\* never shared out between two threads.
OneReader ==
  \A j, k \in Services :
    j # k /\ Handling(j) /\ Handling(k) => Current(j) # Current(k)

\* Every item of message m was sent by client c.
SentBy(m, c) == \A n \in 1 .. Len(m) : m[n].owner = c

\* A reply on a connection was made from what that very client sent
\* (server.c:269-276), whatever the other clients, the changes of service and
\* the disconnections in between.
NoCrossTalk ==
  \A c \in Clients : \A i \in 1 .. Len(toClient[c]) : SentBy(toClient[c][i].msg, c)

\* When users are patient, the reply a client is about to read is the
\* conversion of its latest text, whole, by the service its user chose last
\* (client.c:142-149).  A client of the proxy service has no later choice.
RightConversion ==
  \A c \in Clients :
    toClient[c] # <<>> /\ (outer[c] = PROXY => changes[c] = 0) =>
      toClient[c] = << [by  |-> svc[c],
                        msg |-> <<Item("text", c, texts[c])>>] >>

\* The accept thread waits for the text of a client of the proxy's own service,
\* whose user never types one.
Blocked == [](apc = "message")

\* Every text is answered (client.c:144 blocks until it is): the thread of a
\* service notices clients admitted or moved to it while it was in select.
Answered == \A c \in Clients : cpc[c] = "waiting" ~> cpc[c] # "waiting" \/ Blocked

\* Every client that connects is recorded in clients[] (server.c:199-200).
Admitted ==
  \A c \in Clients :
    cpc[c] = "prompt" /\ outer[c] # PROXY ~>
      (\E i \in 1 .. Len(order) : order[i] = c) \/ Blocked

\* When users are patient, the service a user chose is the one the server
\* goes by, also after several changes (server.c:256-264).  Clients of the
\* proxy's own service have no other.
ChangeHonoured ==
  \A c \in Clients : \A k \in Services :
    cpc[c] = "prompt" /\ svc[c] = k /\ outer[c] # PROXY ~>
      serviceNumber[c] = k \/ Blocked
=============================================================================
