---------------------------- MODULE Facilitator ----------------------------
(***************************************************************************)
(* The facilitator and its services (17-LABMID).  The facilitator F starts *)
(* services from the keyboard, keeps their listening sockets, tells        *)
(* clients about them by datagrams, signals a service for whose socket a   *)
(* client waits, and passes the clients' reviews on through a message      *)
(* queue.  A service accepts in its signal handler and leaves the          *)
(* connection to a thread; cli_count is never changed, so every thread     *)
(* works with nsfds[0], the connection that was accepted last.             *)
(*                                                                         *)
(* Each client has one session.  The lines that are typed name programs    *)
(* that exist; the message queue does not fill up.                         *)
(***************************************************************************)
EXTENDS Naturals, Sequences, SequencesExt

CONSTANTS
  Clients,
  P1, P2,         \* the programs that can be started, S1 and S2, each with a port of its own
  Lines,          \* the lines users type at F: services, and "invalid" for a bad port
  MAXSER,         \* the services that F has room for
  MAX_LINES,      \* bound: the lines typed at F
  MAX_REQUESTS    \* bound: the requests of a client

Services == {P1, P2}

\* No service has the name of another descriptor of F, or of the line with a bad port.
ASSUME LinesAssumption ==
  /\ MAXSER \in Nat
  /\ Lines \subseteq Services \cup {"invalid"}
  /\ {"keyboard", "cless_sfd", "invalid"} \cap Services = {}

VARIABLES
  servers,        \* the services in the order F started them
  keyboard,       \* the lines typed and not read
  lines,          \* the number of lines typed so far
  readfds,        \* what select has reported to F and F has not come to
  f,              \* "loop", "rev" (F waits for a review), or "down"
  inbox,          \* the datagrams for F
  reply,          \* the datagrams for each client
  reviews,        \* the message queue
  service,        \* the state of each service
  usr1,           \* the services with a SIGUSR1 to be handled
  backlog,        \* the clients that wait to be accepted by each service
  accepted,       \* the clients accepted by each service, the last one in nsfds[0]
  thread,         \* the thread that was created for each client
  sent,           \* the bytes from each client to its service
  answers,        \* and back
  cpc, list, server, asked, got   \* each client: its place, ser_count and servers,
                                  \* its choice, requests sent, answers received

fVars == <<servers, keyboard, lines, readfds, f>>
udpVars == <<inbox, reply, reviews>>
serviceVars == <<service, usr1, accepted, thread>>
tcpVars == <<backlog, sent, answers>>
clientVars == <<cpc, list, server, asked, got>>
labVars == <<fVars, udpVars, serviceVars, tcpVars, clientVars>>

Init ==
  /\ servers = <<>> /\ keyboard = <<>> /\ lines = 0 /\ readfds = {} /\ f = "loop"
  /\ inbox = <<>> /\ reply = [c \in Clients |-> <<>>] /\ reviews = <<>>
  /\ service = [s \in Services |-> "off"] /\ usr1 = {}
  /\ accepted = [s \in Services |-> <<>>]
  /\ thread = [c \in Clients |-> [at |-> "none", fd |-> c, buff |-> <<>>]]
  /\ backlog = [s \in Services |-> <<>>]
  /\ sent = [c \in Clients |-> <<>>] /\ answers = [c \in Clients |-> <<>>]
  /\ cpc = [c \in Clients |-> "off"] /\ list = [c \in Clients |-> <<>>]
  /\ server = [c \in Clients |-> 0] /\ asked = [c \in Clients |-> 0]
  /\ got = [c \in Clients |-> <<>>]

-----------------------------------------------------------------------------
\* The facilitator.

\* The user types a line.
TypeLine ==
  /\ lines < MAX_LINES
  /\ lines' = lines + 1
  /\ \E l \in Lines : keyboard' = Append(keyboard, l)
  /\ UNCHANGED <<servers, readfds, f, udpVars, serviceVars, tcpVars, clientVars>>

Select ==
  /\ f = "loop" /\ readfds = {}
  /\ readfds' = {d \in {"keyboard"} : keyboard # <<>>} \cup {d \in {"cless_sfd"} : inbox # <<>>}
                  \cup {s \in Range(servers) : backlog[s] # <<>>}
  /\ UNCHANGED <<servers, keyboard, lines, f, udpVars, serviceVars, tcpVars, clientVars>>

\* The line that was read is gone; in the mutant a line that is refused stays.
Refused(l) == l = "invalid" \/ l \in Range(servers)
LinesAfterAccepted == IF Refused(Head(keyboard)) THEN keyboard ELSE Tail(keyboard)
LinesAfter == Tail(keyboard)

\* The keyboard comes first.  With MAXSER services the line is not read, and with an invalid
\* port or one in use it is; either way the loop starts again.
ReadKeyboard ==
  /\ "keyboard" \in readfds
  /\ IF Len(servers) >= MAXSER
       THEN readfds' = {} /\ UNCHANGED <<servers, keyboard, service>>
       ELSE /\ keyboard' = LinesAfter
            /\ IF Refused(Head(keyboard))
                 THEN readfds' = {} /\ UNCHANGED <<servers, service>>
                 ELSE /\ servers' = Append(servers, Head(keyboard))
                      /\ service' = [service EXCEPT ![Head(keyboard)] = "started"]
                      /\ readfds' = readfds \ {"keyboard"}
  /\ UNCHANGED <<lines, f, udpVars, usr1, accepted, thread, tcpVars, clientVars>>

\* Then the datagrams: an enquiry is answered, "review" announces a second datagram, others
\* are ignored.
ReadDatagram ==
  /\ f = "loop"
  /\ "cless_sfd" \in readfds /\ "keyboard" \notin readfds
  /\ readfds' = readfds \ {"cless_sfd"}
  /\ LET d == Head(inbox)
     IN  /\ inbox' = Tail(inbox)
         /\ reply' = IF d.kind = "enq" THEN [reply EXCEPT ![d.from] = Append(@, servers)]
                                       ELSE reply
         /\ f' = IF d.kind = "review" THEN "rev" ELSE "loop"
  /\ UNCHANGED <<servers, keyboard, lines, reviews, serviceVars, tcpVars, clientVars>>

\* The next datagram is taken for the review, whoever sent it: of any other one, the first
\* bytes are no index of servers[], and F is ended.
ServiceBehind(d) == servers[(d.server % Len(servers)) + 1]   \* a mutant, off by one
ServiceOf(d) == servers[d.server]
ReadReview ==
  /\ f = "rev"
  /\ inbox # <<>>
  /\ inbox' = Tail(inbox)
  /\ IF Head(inbox).kind = "rev"
       THEN /\ reviews' = Append(reviews, [service |-> ServiceOf(Head(inbox)),
                                           from |-> Head(inbox).from])
            /\ f' = "loop"
       ELSE f' = "down" /\ UNCHANGED reviews
  /\ UNCHANGED <<servers, keyboard, lines, readfds, reply, serviceVars, tcpVars, clientVars>>

\* The first service that a client waits for is signalled, which ends it if it has not
\* come to signal() yet.
Notified == servers[CHOOSE i \in DOMAIN servers :
                      /\ servers[i] \in readfds
                      /\ \A j \in DOMAIN servers : servers[j] \in readfds => i <= j]
Notify ==
  /\ f = "loop"
  /\ readfds # {} /\ readfds \subseteq Services
  /\ readfds' = {}
  /\ IF service[Notified] = "started"
       THEN service' = [service EXCEPT ![Notified] = "dead"] /\ UNCHANGED usr1
       ELSE UNCHANGED service /\ usr1' = usr1 \cup {Notified}
  /\ UNCHANGED <<servers, keyboard, lines, f, udpVars, accepted, thread, tcpVars, clientVars>>

F == Select \/ ReadKeyboard \/ ReadDatagram \/ ReadReview \/ Notify

-----------------------------------------------------------------------------
\* The services.

\* main of a service sets the handler.
Ready(s) ==
  /\ service[s] = "started"
  /\ service' = [service EXCEPT ![s] = "loop"]
  /\ UNCHANGED <<fVars, udpVars, usr1, accepted, thread, tcpVars, clientVars>>

\* newClient is called, ...
Handle(s) ==
  /\ service[s] = "loop" /\ s \in usr1
  /\ usr1' = usr1 \ {s}
  /\ service' = [service EXCEPT ![s] = "accept"]
  /\ UNCHANGED <<fVars, udpVars, accepted, thread, tcpVars, clientVars>>

\* ... waits for a client, and creates its thread.
NewClient(s) ==
  /\ service[s] = "accept"
  /\ backlog[s] # <<>>
  /\ accepted' = [accepted EXCEPT ![s] = Append(@, Head(backlog[s]))]
  /\ thread' = [thread EXCEPT ![Head(backlog[s])].at = "call"]
  /\ backlog' = [backlog EXCEPT ![s] = Tail(@)]
  /\ service' = [service EXCEPT ![s] = "loop"]
  /\ UNCHANGED <<fVars, udpVars, usr1, sent, answers, clientVars>>

Nsfd(s) == Last(accepted[s])

\* clientHandler in the thread of client c: recv is called for nsfds[0], ...
CallRecv(s, c) ==
  /\ thread[c].at = "call"
  /\ thread' = [thread EXCEPT ![c] = [at |-> "recv", fd |-> Nsfd(s), buff |-> <<>>]]
  /\ UNCHANGED <<fVars, udpVars, service, usr1, accepted, tcpVars, clientVars>>

\* ... takes what there is, where "stop" ends the loop, ...
Stop(c) == [from |-> c, number |-> 0]
Recv(c) ==
  /\ thread[c].at = "recv"
  /\ LET fd == thread[c].fd
     IN  /\ sent[fd] # <<>>
         /\ thread' = [thread EXCEPT ![c].buff = sent[fd],
                         ![c].at = IF sent[fd] = <<Stop(fd)>> THEN "review" ELSE "send"]
         /\ sent' = [sent EXCEPT ![fd] = <<>>]
  /\ UNCHANGED <<fVars, udpVars, service, usr1, accepted, backlog, answers, clientVars>>

\* ... and the converted text is sent on what nsfds[0] is now.
Convert(text, s) == [from |-> text.from, number |-> text.number, by |-> s]
\* The mutant answers the client that was accepted first.
SendAnswerToFirst(s, c) ==
  /\ thread[c].at = "send"
  /\ answers' = [answers EXCEPT ![Head(accepted[s])] =
                   @ \o [i \in DOMAIN thread[c].buff |-> Convert(thread[c].buff[i], s)]]
  /\ thread' = [thread EXCEPT ![c].at = "call", ![c].buff = <<>>]
  /\ UNCHANGED <<fVars, udpVars, service, usr1, accepted, backlog, sent, clientVars>>

SendAnswer(s, c) ==
  /\ thread[c].at = "send"
  /\ answers' = [answers EXCEPT ![Nsfd(s)] =
                   @ \o [i \in DOMAIN thread[c].buff |-> Convert(thread[c].buff[i], s)]]
  /\ thread' = [thread EXCEPT ![c].at = "call", ![c].buff = <<>>]
  /\ UNCHANGED <<fVars, udpVars, service, usr1, accepted, backlog, sent, clientVars>>

\* A review for the service is waited for.
TakeReview(s, c) ==
  /\ thread[c].at = "review"
  /\ \E i \in DOMAIN reviews :
       /\ reviews[i].service = s
       /\ \A j \in 1 .. i - 1 : reviews[j].service # s
       /\ reviews' = RemoveAt(reviews, i)
  /\ thread' = [thread EXCEPT ![c] = [at |-> "end", fd |-> c, buff |-> <<>>]]
  /\ UNCHANGED <<fVars, inbox, reply, service, usr1, accepted, tcpVars, clientVars>>

ClientHandler(s, c) ==
  /\ c \in Range(accepted[s])
  /\ CallRecv(s, c) \/ Recv(c) \/ SendAnswer(s, c) \/ TakeReview(s, c)

Service(s) == Ready(s) \/ Handle(s) \/ NewClient(s) \/ \E c \in Clients : ClientHandler(s, c)
S1 == Service(P1)
S2 == Service(P2)

-----------------------------------------------------------------------------
\* The clients.

SendTo(d) == inbox' = Append(inbox, d)

\* getServers: the list is asked for, ...
Enquire(c) ==
  /\ cpc[c] \in {"off", "menu"}
  /\ SendTo([kind |-> "enq", from |-> c])
  /\ cpc' = [cpc EXCEPT ![c] = "wait"]
  /\ UNCHANGED <<fVars, reply, reviews, serviceVars, tcpVars, list, server, asked, got>>

\* ... and received.
GetServers(c) ==
  /\ cpc[c] = "wait"
  /\ reply[c] # <<>>
  /\ list' = [list EXCEPT ![c] = Head(reply[c])]
  /\ reply' = [reply EXCEPT ![c] = Tail(@)]
  /\ cpc' = [cpc EXCEPT ![c] = "menu"]
  /\ UNCHANGED <<fVars, inbox, reviews, serviceVars, tcpVars, server, asked, got>>

\* The user enters the port of a service in the list, and the client connects.
Connect(c) ==
  /\ cpc[c] = "menu"
  /\ \E i \in DOMAIN list[c] :
       /\ server' = [server EXCEPT ![c] = i]
       /\ backlog' = [backlog EXCEPT ![list[c][i]] = Append(@, c)]
  /\ cpc' = [cpc EXCEPT ![c] = "use"]
  /\ UNCHANGED <<fVars, udpVars, serviceVars, sent, answers, list, asked, got>>

SendRequest(c) ==
  /\ cpc[c] = "use"
  /\ asked[c] < MAX_REQUESTS
  /\ asked' = [asked EXCEPT ![c] = @ + 1]
  /\ sent' = [sent EXCEPT ![c] = Append(@, [from |-> c, number |-> asked[c] + 1])]
  /\ cpc' = [cpc EXCEPT ![c] = "recv"]
  /\ UNCHANGED <<fVars, udpVars, serviceVars, backlog, answers, list, server, got>>

RecvAnswer(c) ==
  /\ cpc[c] = "recv"
  /\ answers[c] # <<>>
  /\ got' = [got EXCEPT ![c] = @ \o answers[c]]
  /\ answers' = [answers EXCEPT ![c] = <<>>]
  /\ cpc' = [cpc EXCEPT ![c] = "use"]
  /\ UNCHANGED <<fVars, udpVars, serviceVars, backlog, sent, list, server, asked>>

\* The user ends the session, ...
SendStop(c) ==
  /\ cpc[c] = "use"
  /\ sent' = [sent EXCEPT ![c] = Append(@, Stop(c))]
  /\ cpc' = [cpc EXCEPT ![c] = "review"]
  /\ UNCHANGED <<fVars, udpVars, serviceVars, backlog, answers, list, server, asked, got>>

\* ... and enters a review, which goes to F in two datagrams.
SendReviewKey(c) ==
  /\ cpc[c] = "review"
  /\ SendTo([kind |-> "review", from |-> c])
  /\ cpc' = [cpc EXCEPT ![c] = "rev"]
  /\ UNCHANGED <<fVars, reply, reviews, serviceVars, tcpVars, list, server, asked, got>>

SendReview(c) ==
  /\ cpc[c] = "rev"
  /\ SendTo([kind |-> "rev", from |-> c, server |-> server[c]])
  /\ cpc' = [cpc EXCEPT ![c] = "end"]
  /\ UNCHANGED <<fVars, reply, reviews, serviceVars, tcpVars, list, server, asked, got>>

ClientRuns(c) == GetServers(c) \/ RecvAnswer(c) \/ SendReview(c)
ClientUser(c) ==
  Enquire(c) \/ Connect(c) \/ SendRequest(c) \/ SendStop(c) \/ SendReviewKey(c)
Client(c) == ClientRuns(c) \/ ClientUser(c)

-----------------------------------------------------------------------------
TypeOK ==
  /\ servers \in Seq(Services) /\ Len(servers) <= MAXSER /\ IsInjective(servers)
  /\ f \in {"loop", "rev", "down"} /\ readfds \subseteq {"keyboard", "cless_sfd"} \cup Services
  /\ \A s \in Services : service[s] # "off" <=> s \in Range(servers)
  /\ \A c \in Clients : thread[c].at # "none" <=> \E s \in Services : c \in Range(accepted[s])

\* The answers on their way to client c or received by it.
Given(c) == got[c] \o answers[c]

\* An answer that reaches a client is that to a request of its own, or of a client that its
\* service had accepted before.
Before(s, c, d) == \E i, j \in DOMAIN accepted[s] :
                     i <= j /\ accepted[s][i] = c /\ accepted[s][j] = d
AnswerOfEarlier ==
  \A c \in Clients : \A a \in Range(Given(c)) : Before(a.by, a.from, c)

\* Every request is answered once at most, whoever gets the answer.
AnsweredOnce ==
  \A c, d \in Clients : \A i \in DOMAIN Given(c), j \in DOMAIN Given(d) :
    Given(c)[i] = Given(d)[j] => c = d /\ i = j

\* A review is for the service that its author has used.
ReviewRight ==
  \A i \in DOMAIN reviews :
    LET r == reviews[i] IN r.from \in Range(accepted[r.service] \o backlog[r.service])

\* F answers an enquiry, unless a datagram has ended it, or a line that it does not read
\* keeps it from everything else.
Starved == keyboard # <<>> /\ Len(servers) >= MAXSER
Enquiries == \A c \in Clients :
  cpc[c] = "wait" ~> (cpc[c] # "wait" \/ f = "down" \/ Starved)
=============================================================================
