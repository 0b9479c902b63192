----------------------------- MODULE TcpClients -----------------------------
(***************************************************************************)
(* What the conversion servers of 10-BSDSockets, 11-Select+AIO,            *)
(* 15-Minor1/Q3 and 16-UnixSockets have in common: the clients, which send *)
(* one string and wait for its conversion before they read the next one    *)
(* from the keyboard, and their TCP connections.                           *)
(*                                                                         *)
(* A request is its number, an answer the number of the request it answers *)
(* and the service that converted it.  conn[c] is the state of the         *)
(* connection: "open"; "left", closed by the client; "reset", closed by it *)
(* with an answer unread, or written to after it was closed, so that one   *)
(* more send raises SIGPIPE in the server; "hungup", no process of the     *)
(* server has a descriptor of it any more.                                 *)
(***************************************************************************)
EXTENDS Naturals, Sequences, FiniteSets

CONSTANTS
  Clients,
  NUMS,      \* number of services, each with a port of its own
  Requests,  \* bound: strings that the clients send, together
  Leavers    \* bound: clients that may end

ASSUME ClientsAssumption  == IsFiniteSet(Clients)
ASSUME NumsAssumption     == NUMS \in Nat \ {0}
ASSUME RequestsAssumption == Requests \in Nat
ASSUME LeaversAssumption  == Leavers \in SUBSET Clients

Services == 1 .. NUMS

VARIABLES
  at,       \* where each client is in its main
  port,     \* the service the client chose
  asked,    \* requests sent
  up,       \* requests the server has not received
  down,     \* messages the client has not received
  conn,     \* see above
  backlog   \* connections of each port that wait for accept

tcpVars == <<at, port, asked, up, down, conn, backlog>>

Answer(n, s)   == [kind |-> "answer", of |-> n, by |-> s]
Greeting(k, s) == [kind |-> k, of |-> 0, by |-> s]

Messages == [kind : {"answer", "First", "Connected", "Sorry"},
             of : 0 .. Requests, by : Services]

TcpTypeOK ==
  /\ at \in [Clients -> {"menu", "greeting", "prompt", "answer", "gone"}]
  /\ port \in [Clients -> Services \cup {0}]
  /\ asked \in [Clients -> 0 .. Requests]
  /\ up \in [Clients -> Seq(1 .. Requests)]
  /\ down \in [Clients -> Seq(Messages)]
  /\ conn \in [Clients -> {"none", "open", "left", "reset", "hungup"}]
  /\ backlog \in [Services -> Seq(Clients)]

TcpInit ==
  /\ at = [c \in Clients |-> "menu"]
  /\ port = [c \in Clients |-> 0]
  /\ asked = [c \in Clients |-> 0]
  /\ up = [c \in Clients |-> <<>>]
  /\ down = [c \in Clients |-> <<>>]
  /\ conn = [c \in Clients |-> "none"]
  /\ backlog = [s \in Services |-> <<>>]

-----------------------------------------------------------------------------
(* The client.                                                             *)

\* connect to the port of s while a process listens on it.
Connect(c, s, next) ==
  /\ at[c] = "menu"
  /\ at' = [at EXCEPT ![c] = next]
  /\ port' = [port EXCEPT ![c] = s]
  /\ conn' = [conn EXCEPT ![c] = "open"]
  /\ backlog' = [backlog EXCEPT ![s] = Append(@, c)]
  /\ UNCHANGED <<asked, up, down>>

\* connect fails: nobody listens any more.
Refused(c) ==
  /\ at[c] = "menu"
  /\ at' = [at EXCEPT ![c] = "gone"]
  /\ UNCHANGED <<port, asked, up, down, conn, backlog>>

Sent == {r \in Clients \X (1 .. Requests) : r[2] <= asked[r[1]]}

RequestsLeft == Cardinality(Sent) < Requests

\* scanf a string and send it.
SendRequest(c) ==
  /\ at[c] = "prompt" /\ conn[c] = "open"
  /\ RequestsLeft
  /\ at' = [at EXCEPT ![c] = "answer"]
  /\ asked' = [asked EXCEPT ![c] = @ + 1]
  /\ up' = [up EXCEPT ![c] = Append(@, asked[c] + 1)]
  /\ UNCHANGED <<port, down, conn, backlog>>

\* recv what the service sent, and go on at next.
Receive(c, from, next) ==
  /\ at[c] = from /\ down[c] # <<>>
  /\ down' = [down EXCEPT ![c] = Tail(@)]
  /\ at' = [at EXCEPT ![c] = next]
  /\ UNCHANGED <<port, asked, up, conn, backlog>>

\* The client ends (SIGINT): its connection is closed, or reset if it has not read all.
Leave(c) ==
  /\ c \in Leavers
  /\ at[c] \in {"greeting", "prompt", "answer"}
  /\ at' = [at EXCEPT ![c] = "gone"]
  /\ conn' = [conn EXCEPT ![c] = IF @ = "hungup" THEN @
                                 ELSE IF down[c] # <<>> THEN "reset" ELSE "left"]
  /\ down' = [down EXCEPT ![c] = <<>>]
  /\ UNCHANGED <<port, asked, up, backlog>>

\* The server side is gone: recv returns nothing, and the client ends at the latest with
\* the SIGPIPE of its second string.  What it sends until then reaches nobody.
Abandoned(c) ==
  /\ at[c] \in {"greeting", "prompt", "answer"}
  /\ conn[c] = "hungup" /\ down[c] = <<>>
  /\ at' = [at EXCEPT ![c] = "gone"]
  /\ UNCHANGED <<port, asked, up, down, conn, backlog>>

-----------------------------------------------------------------------------
(* The server's side of a connection.                                      *)

Readable(c) == up[c] # <<>> \/ conn[c] \in {"left", "reset"}

\* send message m to c.
Send(c, m) ==
  /\ down' = [down EXCEPT ![c] = IF conn[c] = "open" THEN Append(@, m) ELSE @]
  /\ conn' = [conn EXCEPT ![c] = IF @ = "left" THEN "reset" ELSE @]

\* Mutant of ReceiveAndSend: the answer does not belong to the request received.
ReceiveAndSendFirst(c, s) ==
  IF up[c] = <<>>
  THEN UNCHANGED <<up, down, conn>>
  ELSE Send(c, Answer(1, s)) /\ up' = [up EXCEPT ![c] = Tail(@)]

\* Mutant of ReceiveAndSend: the answer is not sent.
ReceiveOnly(c, s) ==
  /\ up' = [up EXCEPT ![c] = IF @ = <<>> THEN @ ELSE Tail(@)]
  /\ UNCHANGED <<down, conn>>

\* recv from c, convert, send: nothing was received from a client that has left, and
\* nothing is sent to it.
ReceiveAndSend(c, s) ==
  IF up[c] = <<>>
  THEN UNCHANGED <<up, down, conn>>
  ELSE Send(c, Answer(Head(up[c]), s)) /\ up' = [up EXCEPT ![c] = Tail(@)]

\* The last descriptor of the connections in lost is closed.
HangUp(lost) == conn' = [c \in Clients |-> IF c \in lost THEN "hungup" ELSE conn[c]]

-----------------------------------------------------------------------------
(* What the clients may rely on.                                           *)

\* Every answer on its way to a client is the conversion the client chose of the one
\* request it is waiting for.
OwnAnswer ==
  \A c \in Clients : \A n \in DOMAIN down[c] :
    down[c][n].kind = "answer" => down[c][n] = Answer(asked[c], port[c])
=============================================================================
