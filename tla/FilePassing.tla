---------------------------- MODULE FilePassing ----------------------------
(***************************************************************************)
(* Passing an open file: a server opens a file, writes to it, sends the    *)
(* descriptor to its client and closes it; the client writes and closes.   *)
(*   "socket"  16-UnixSockets/writingToSameFile: over the address          *)
(*             mysocket, at the offset of the open file                    *)
(*   "pair"    16-UnixSockets/socketpair: over a socket pair, O_APPEND     *)
(* Programs may be run several times at once; the file outlives them.      *)
(***************************************************************************)
EXTENDS Naturals, Sequences

CONSTANTS
  Runs,        \* the servers, and the clients, that are run
  OldTexts     \* the number of texts in the file at the beginning

VARIABLES
  way,         \* "socket" or "pair"
  text,        \* the file: who wrote each text in it
  offset,      \* the offset in the open file of each server
  holders,     \* who holds a descriptor of that
  address,     \* the server that has bound mysocket last
  backlog,     \* the clients connected to each server and not accepted
  to,          \* the client that each server has accepted
  server,      \* where each server is
  client,      \* where each client is
  from         \* the server whose descriptor each client has

socketVars == <<address, backlog, to>>
fileVars == <<way, text, offset, holders, socketVars, server, client, from>>

Server(r) == <<"server", r>>
Client(r) == <<"client", r>>
InTransit == <<"transit", 0>>
Old == <<"old", 0>>
Nobody == 0

\* The runs are numbered from 1.
RunsAssumption == Nobody \notin Runs /\ OldTexts \in Nat

\* main of socketpair.c has forked the child for each run.
Init ==
  /\ way \in {"socket", "pair"}
  /\ text = [i \in 1 .. OldTexts |-> Old]
  /\ offset = [r \in Runs |-> 0]
  /\ holders = [r \in Runs |-> {}]
  /\ address = Nobody
  /\ backlog = [r \in Runs |-> <<>>]
  /\ IF way = "pair"
       THEN /\ server = [r \in Runs |-> "open"] /\ client = [r \in Runs |-> "recv"]
            /\ to = [r \in Runs |-> r] /\ from = [r \in Runs |-> r]
       ELSE /\ server = [r \in Runs |-> "bind"] /\ client = [r \in Runs |-> "connect"]
            /\ to = [r \in Runs |-> Nobody] /\ from = [r \in Runs |-> Nobody]

-----------------------------------------------------------------------------
\* A write puts a text at the offset of the open file, or at the end of the file.
At(s) == IF way = "pair" THEN Len(text) + 1 ELSE offset[s] + 1
PutInPlace(s, who) ==     \* a mutant: the offset stays
  /\ text' = IF At(s) > Len(text) THEN Append(text, who) ELSE [text EXCEPT ![At(s)] = who]
  /\ UNCHANGED offset
Put(s, who) ==
  /\ text' = IF At(s) > Len(text) THEN Append(text, who) ELSE [text EXCEPT ![At(s)] = who]
  /\ offset' = [offset EXCEPT ![s] = At(s)]

\* The server takes the address over from whoever has it, ...
Bind(s) ==
  /\ server[s] = "bind"
  /\ address' = s
  /\ server' = [server EXCEPT ![s] = "accept"]
  /\ UNCHANGED <<way, text, offset, holders, backlog, to, client, from>>

\* ... accepts one client, ...
Accept(s) ==
  /\ server[s] = "accept"
  /\ backlog[s] # <<>>
  /\ to' = [to EXCEPT ![s] = Head(backlog[s])]
  /\ backlog' = [backlog EXCEPT ![s] = Tail(@)]
  /\ server' = [server EXCEPT ![s] = "open"]
  /\ UNCHANGED <<way, text, offset, holders, address, client, from>>

\* ... opens the file, ...
Open(s) ==
  /\ server[s] = "open"
  /\ holders' = [holders EXCEPT ![s] = {Server(s)}]
  /\ server' = [server EXCEPT ![s] = "write"]
  /\ UNCHANGED <<way, text, offset, socketVars, client, from>>

\* ... writes to it, ...
Write(s) ==
  /\ server[s] = "write"
  /\ Put(s, Server(s))
  /\ server' = [server EXCEPT ![s] = "send"]
  /\ UNCHANGED <<way, holders, socketVars, client, from>>

\* ... sends the descriptor, of which a duplicate is under way then, ...
PassOn(s) == holders' = [holders EXCEPT ![s] = @ \cup {InTransit}]
SendFd(s) ==
  /\ server[s] = "send"
  /\ PassOn(s)
  /\ server' = [server EXCEPT ![s] = "close"]
  /\ UNCHANGED <<way, text, offset, socketVars, client, from>>

\* ... closes it and its sockets, and ends.
Close(s) ==
  /\ server[s] = "close"
  /\ holders' = [holders EXCEPT ![s] = @ \ {Server(s)}]
  /\ server' = [server EXCEPT ![s] = "end"]
  /\ UNCHANGED <<way, text, offset, socketVars, client, from>>

ServerRuns(s) == Bind(s) \/ Accept(s) \/ Open(s) \/ Write(s) \/ SendFd(s) \/ Close(s)

-----------------------------------------------------------------------------
\* A client connects to the address; without a server there it goes on all the same.
Connect(c) ==
  /\ client[c] = "connect"
  /\ IF address # Nobody /\ server[address] # "end"
       THEN /\ backlog' = [backlog EXCEPT ![address] = Append(@, c)]
            /\ from' = [from EXCEPT ![c] = address]
            /\ client' = [client EXCEPT ![c] = "recv"]
       ELSE client' = [client EXCEPT ![c] = "end"] /\ UNCHANGED <<backlog, from>>
  /\ UNCHANGED <<way, text, offset, holders, address, to, server>>

TakeOver(s, c) ==
  /\ InTransit \in holders[s]
  /\ holders' = [holders EXCEPT ![s] = (@ \ {InTransit}) \cup {Client(c)}]

\* recv_fd: the descriptor comes, or the server ends without having sent one to this client.
RecvFd(c) ==
  /\ client[c] = "recv"
  /\ IF to[from[c]] = c
       THEN /\ TakeOver(from[c], c)
            /\ client' = [client EXCEPT ![c] = "write"]
       ELSE /\ server[from[c]] = "end"
            /\ client' = [client EXCEPT ![c] = "end"]
            /\ UNCHANGED holders
  /\ UNCHANGED <<way, text, offset, socketVars, server, from>>

ClientWrite(c) ==
  /\ client[c] = "write"
  /\ Put(from[c], Client(c))
  /\ client' = [client EXCEPT ![c] = "close"]
  /\ UNCHANGED <<way, holders, socketVars, server, from>>

ClientClose(c) ==
  /\ client[c] = "close"
  /\ holders' = [holders EXCEPT ![from[c]] = @ \ {Client(c)}]
  /\ client' = [client EXCEPT ![c] = "end"]
  /\ UNCHANGED <<way, text, offset, socketVars, server, from>>

ClientRuns(c) == Connect(c) \/ RecvFd(c) \/ ClientWrite(c) \/ ClientClose(c)

-----------------------------------------------------------------------------
\* With O_APPEND nothing is ever overwritten.  Without it, a server writes at the beginning
\* of the file, and its client, which shares its offset, never in that place.
Written(s) == server[s] \in {"send", "close", "end"}
HasWritten(c) == from[c] # Nobody /\ to[from[c]] = c /\ client[c] \in {"close", "end"}
Places(who) == {i \in DOMAIN text : text[i] = who}

AfterServer ==
  /\ way = "pair" =>
       /\ \A i \in 1 .. OldTexts : text[i] = Old
       /\ \A r \in Runs : /\ Written(r) <=> Places(Server(r)) # {}
                          /\ HasWritten(r) <=> Places(Client(r)) # {}
  /\ way = "socket" =>
       \A r \in Runs : Places(Server(r)) \subseteq {1} /\ 1 \notin Places(Client(r))
=============================================================================
