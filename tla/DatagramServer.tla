--------------------------- MODULE DatagramServer ---------------------------
(***************************************************************************)
(* 10-BSDSockets/ConnectionLess: a UDP server that answers each datagram   *)
(* with the same reply, to the address it received it from.  Datagrams may *)
(* be lost; neither side has a timeout, so that the client then waits for  *)
(* ever.                                                                   *)
(***************************************************************************)
EXTENDS Naturals, Sequences

CONSTANTS Clients, Requests

VARIABLES
  at,             \* "prompt" or "answer", the main of each client
  asked,          \* datagrams each client has sent
  inbox,          \* datagrams the server has not received: their senders
  clientAddress,  \* where the server's reply goes: << >> until it has received
  down            \* replies each client has not received

vars == <<at, asked, inbox, clientAddress, down>>

Init ==
  /\ at = [c \in Clients |-> "prompt"]
  /\ asked = [c \in Clients |-> 0]
  /\ inbox = <<>> /\ clientAddress = <<>>
  /\ down = [c \in Clients |-> <<>>]

\* The client sends a word it has read, if the network does not lose it.
SendTo(c) ==
  /\ at[c] = "prompt" /\ asked[c] < Requests
  /\ asked' = [asked EXCEPT ![c] = @ + 1]
  /\ at' = [at EXCEPT ![c] = "answer"]
  /\ inbox' \in {inbox, Append(inbox, c)}
  /\ UNCHANGED <<clientAddress, down>>

RecvReply(c) ==
  /\ at[c] = "answer" /\ down[c] # <<>>
  /\ down' = [down EXCEPT ![c] = Tail(@)]
  /\ at' = [at EXCEPT ![c] = "prompt"]
  /\ UNCHANGED <<asked, inbox, clientAddress>>

Client(c) == SendTo(c) \/ RecvReply(c)

\* The server receives: the address of the sender overwrites the last one.
Recv ==
  /\ clientAddress = <<>> /\ inbox # <<>>
  /\ clientAddress' = <<Head(inbox)>>
  /\ inbox' = Tail(inbox)
  /\ UNCHANGED <<at, asked, down>>

\* Mutant of Reply: the server replies again before it receives.
ReplyAgain ==
  /\ clientAddress # <<>>
  /\ down' \in {down, [down EXCEPT ![clientAddress[1]] = Append(@, asked[clientAddress[1]])]}
  /\ clientAddress' \in {clientAddress, <<>>}
  /\ UNCHANGED <<at, asked, inbox>>

\* The server replies; the reply may be lost.
Reply ==
  /\ clientAddress # <<>>
  /\ down' \in {down, [down EXCEPT ![clientAddress[1]] = Append(@, asked[clientAddress[1]])]}
  /\ clientAddress' = <<>>
  /\ UNCHANGED <<at, asked, inbox>>

Server == Recv \/ Reply

Next == Server \/ \E c \in Clients : Client(c)

Spec == Init /\ [][Next]_vars

\* The reply carries no mark of its request; still a client never takes the reply to an
\* earlier datagram for that to its last one.
OwnReply ==
  \A c \in Clients : \A n \in DOMAIN down[c] : at[c] = "answer" /\ down[c][n] = asked[c]
=============================================================================
