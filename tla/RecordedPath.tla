---------------------------- MODULE RecordedPath ----------------------------
(***************************************************************************)
(* Programs of 18-RawSockets that hand a packet on and record its path.    *)
(*   "path"   TestPrograms/rawsockets/Path: the user of each program says  *)
(*            where it goes next, and the address is appended to a text    *)
(*   "chain"  Trace/TraceRoute-SimpleCopying: A to B to C to D to E, each  *)
(*            address in a place of its own                                *)
(* A packet for an address where no program listens is lost.               *)
(***************************************************************************)
EXTENDS Naturals, Sequences, FiniteSets

CONSTANT MAX_CLIENTS    \* bounds the runs of client.c

VARIABLES
  kind,       \* "path" or "chain"
  state,      \* of each program: "down", "recv", "ask" or "end"
  arrived,    \* the packets in its socket
  packet,     \* the packet that it has received
  clients,    \* how often client.c has been run
  printed     \* what the last program has printed

pathVars == <<kind, state, arrived, packet, clients, printed>>

PathNodes  == {"a.c", "b.c", "c.c", "server.c"}
ChainNodes == {"a.cpp", "b.cpp", "c.cpp", "d.cpp", "e.cpp"}
Nodes      == PathNodes \cup ChainNodes
Elsewhere  == "elsewhere"     \* an address that nobody has

\* path: what the packet records; by: who has sent it, in order.
NoPacket == [path |-> <<>>, by |-> <<>>]

Init ==
  /\ kind \in {"path", "chain"}
  /\ state = [n \in Nodes |-> "down"]
  /\ arrived = [n \in Nodes |-> <<>>]
  /\ packet = [n \in Nodes |-> NoPacket]
  /\ clients = 0
  /\ printed = NoPacket

\* A program of the chosen kind is started: it binds its address.
Start(n) ==
  /\ state[n] = "down"
  /\ n \in (IF kind = "path" THEN PathNodes ELSE ChainNodes)
  /\ state' = [state EXCEPT ![n] = "recv"]
  /\ UNCHANGED <<kind, arrived, packet, clients, printed>>

Listens(n) == n \in Nodes /\ state[n] \in {"recv", "ask"}
Arrive(n, p) ==
  arrived' = IF Listens(n) THEN [arrived EXCEPT ![n] = Append(@, p)] ELSE arrived

\* The program sends the packet to n and ends, with all that is in its socket.
SendAndEnd(m, n, p) ==
  /\ arrived' = [k \in Nodes |->
                 CASE k = m -> <<>>
                   [] k # m /\ k = n /\ Listens(n) -> Append(arrived[n], p)
                   [] OTHER -> arrived[k]]
  /\ state' = [state EXCEPT ![m] = "end"]

-----------------------------------------------------------------------------
\* client.c: the text is the client's address; its user says where the packet goes.
Client(n) ==
  /\ kind = "path"
  /\ clients < MAX_CLIENTS
  /\ clients' = clients + 1
  /\ Arrive(n, [path |-> <<"client.c">>, by |-> <<"client.c">>])
  /\ UNCHANGED <<kind, state, packet, printed>>

\* recvfrom.
Receive(m) ==
  /\ state[m] = "recv"
  /\ arrived[m] # <<>>
  /\ packet' = [packet EXCEPT ![m] = Head(arrived[m])]
  /\ arrived' = [arrived EXCEPT ![m] = Tail(@)]
  /\ state' = [state EXCEPT ![m] = "ask"]
  /\ UNCHANGED <<kind, clients, printed>>

\* strcat: the program's address is appended to the path.
ReplacedBy(m) == [path |-> <<m>>, by |-> Append(packet[m].by, m)]     \* a mutant: strcpy
Appended(m) == [path |-> Append(packet[m].path, m), by |-> Append(packet[m].by, m)]

\* a.c, b.c and c.c: their users say where the packet goes.
HandOn(m, n) ==
  /\ state[m] = "ask"
  /\ SendAndEnd(m, n, Appended(m))
  /\ UNCHANGED <<kind, packet, clients, printed>>
ProgramA == Receive("a.c") \/ \E n \in PathNodes \cup {Elsewhere} : HandOn("a.c", n)
ProgramB == Receive("b.c") \/ \E n \in PathNodes \cup {Elsewhere} : HandOn("b.c", n)
ProgramC == Receive("c.c") \/ \E n \in PathNodes \cup {Elsewhere} : HandOn("c.c", n)

\* server.c appends its own address to the path and prints it.
Output(m, p) ==
  /\ state[m] = "ask"
  /\ printed' = p
  /\ state' = [state EXCEPT ![m] = "end"]
  /\ arrived' = [arrived EXCEPT ![m] = <<>>]
  /\ UNCHANGED <<kind, packet, clients>>
Server == Receive("server.c") \/ Output("server.c", Appended("server.c"))

-----------------------------------------------------------------------------
\* a.cpp: its user starts it off, whoever listens; its address is in the first place.
SendA ==
  /\ state["a.cpp"] = "recv"
  /\ SendAndEnd("a.cpp", "b.cpp", [path |-> <<"a.cpp">>, by |-> <<"a.cpp">>])
  /\ UNCHANGED <<kind, packet, clients, printed>>

\* The k - 1 addresses that are there are copied, and the program's is put into place k.
Copied(m, k) ==
  [path |-> [i \in 1 .. k |-> IF i = k THEN m ELSE packet[m].path[i]],
   by |-> Append(packet[m].by, m)]
Copy(m, n, k) ==
  /\ state[m] = "ask"
  /\ SendAndEnd(m, n, Copied(m, k))
  /\ UNCHANGED <<kind, packet, clients, printed>>
SendB == Receive("b.cpp") \/ Copy("b.cpp", "c.cpp", 2)
SendCToC == Receive("c.cpp") \/ Copy("c.cpp", "c.cpp", 3)     \* a mutant
SendC == Receive("c.cpp") \/ Copy("c.cpp", "d.cpp", 3)
SendD == Receive("d.cpp") \/ Copy("d.cpp", "e.cpp", 4)

\* e.cpp prints the four addresses that it has got.
OutputE == Receive("e.cpp") \/ Output("e.cpp", packet["e.cpp"])

PathStep ==
  \/ \E n \in PathNodes \cup {Elsewhere} : Client(n)
  \/ ProgramA \/ ProgramB \/ ProgramC \/ Server
ChainStep == SendA \/ SendB \/ SendC \/ SendD \/ OutputE
Step == (\E n \in Nodes : Start(n)) \/ PathStep \/ ChainStep

-----------------------------------------------------------------------------
\* The path that is printed is the one the packet has taken, and visits nobody twice.
PathTaken == printed # NoPacket =>
  /\ printed.path = printed.by
  /\ Cardinality({printed.by[i] : i \in DOMAIN printed.by}) = Len(printed.by)
  /\ kind = "chain" => printed.by = <<"a.cpp", "b.cpp", "c.cpp", "d.cpp">>

\* Once all listen, the packet of a.cpp reaches the end of the chain.
ChainUp == /\ kind = "chain" /\ arrived["b.cpp"] # <<>>
           /\ \A n \in ChainNodes \ {"a.cpp"} : state[n] = "recv"
Printed == printed # NoPacket
=============================================================================
