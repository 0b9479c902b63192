-------------------------- MODULE PassedConnection --------------------------
(***************************************************************************)
(* Passing a connection (16-UnixSockets/passingTCPSocket).  A sender       *)
(* talks to an echo server, then hands its connection over to a receiver,  *)
(* which goes on where the sender has stopped.  A reply may be longer than *)
(* the 25 bytes of one recv: what is left of it is received as if it were  *)
(* the reply to a later text.                                              *)
(***************************************************************************)
EXTENDS Naturals, Sequences, SequencesExt

CONSTANTS
  Pieces,       \* how many recv it takes to get a reply: a set of numbers
  MAX_ASKED     \* bound: the texts that users type

VARIABLES
  asked,        \* the number of texts sent to the server
  toServer,     \* the texts on their way
  toUser,       \* the pieces of replies on their way
  shown,        \* the pieces that the sender and then the receiver have shown
  holders,      \* who has the connection open
  server,       \* "accept", "recv"
  sender,       \* where the sender is
  receiver      \* where the receiver is

connVars == <<asked, toServer, toUser, shown, holders, server, sender, receiver>>

Init ==
  /\ asked = 0 /\ toServer = <<>> /\ toUser = <<>> /\ shown = <<>>
  /\ holders = {}
  /\ server = "accept" /\ sender = "connect" /\ receiver = "connect"

-----------------------------------------------------------------------------
\* The server accepts the sender, ...
AcceptConnection ==
  /\ server = "accept"
  /\ sender # "connect"
  /\ server' = "recv"
  /\ UNCHANGED <<asked, toServer, toUser, shown, holders, sender, receiver>>

\* ... and sends back what a recv gives, with its name behind it.
Reply(batch, n) == [i \in 1 .. n |-> [to |-> Head(batch), piece |-> i]]
Echo ==
  /\ server = "recv"
  /\ toServer # <<>>
  /\ \E n \in Pieces : toUser' = toUser \o Reply(toServer, n)
  /\ toServer' = <<>>
  /\ UNCHANGED <<asked, shown, holders, server, sender, receiver>>

Server == AcceptConnection \/ Echo

-----------------------------------------------------------------------------
\* What both users do with the connection: a text is sent, and one recv is made.
Ask ==
  /\ asked < MAX_ASKED
  /\ asked' = asked + 1
  /\ toServer' = Append(toServer, asked')
  /\ UNCHANGED <<toUser, shown>>

Receive ==
  \E n \in 1 .. Len(toUser) :
    /\ n <= 2
    /\ shown' = shown \o SubSeq(toUser, 1, n)
    /\ toUser' = SubSeq(toUser, n + 1, Len(toUser))
    /\ UNCHANGED <<asked, toServer>>

SenderConnect ==
  /\ sender = "connect"
  /\ holders' = {"sender"}
  /\ sender' = "send"
  /\ UNCHANGED <<asked, toServer, toUser, shown, server, receiver>>

SenderAsk ==
  /\ sender = "send"
  /\ Ask
  /\ sender' = "recv"
  /\ UNCHANGED <<holders, server, receiver>>

SenderReceive ==
  /\ sender = "recv"
  /\ Receive
  /\ sender' = "send"
  /\ UNCHANGED <<holders, server, receiver>>

\* "done": the sender listens on a socket for the receiver, ...
Listen ==
  /\ sender = "send"
  /\ sender' = "accept"
  /\ UNCHANGED <<asked, toServer, toUser, shown, holders, server, receiver>>

\* ... sends it the descriptor, ...
SendFd ==
  /\ sender = "accept" /\ receiver = "wait"
  /\ holders' = holders \cup {"transit"}
  /\ sender' = "close"
  /\ UNCHANGED <<asked, toServer, toUser, shown, server, receiver>>

\* ... and closes its own.
Close ==
  /\ sender = "close"
  /\ holders' = holders \ {"sender"}
  /\ sender' = "end"
  /\ UNCHANGED <<asked, toServer, toUser, shown, server, receiver>>

Sender == SenderConnect \/ SenderAsk \/ SenderReceive \/ Listen \/ SendFd \/ Close

\* A receiver that comes before the sender listens has no connection, and its first text
\* ends it.
ReceiverConnect ==
  /\ receiver = "connect"
  /\ receiver' = IF sender = "accept" THEN "wait" ELSE "end"
  /\ UNCHANGED <<asked, toServer, toUser, shown, holders, server, sender>>

RecvFd ==
  /\ receiver = "wait"
  /\ "transit" \in holders
  /\ holders' = (holders \ {"transit"}) \cup {"receiver"}
  /\ receiver' = "send"
  /\ UNCHANGED <<asked, toServer, toUser, shown, server, sender>>

ReceiverAsk ==
  /\ receiver = "send"
  /\ Ask
  /\ receiver' = "recv"
  /\ UNCHANGED <<holders, server, sender>>

ReceiverReceive ==
  /\ receiver = "recv"
  /\ Receive
  /\ receiver' = "send"
  /\ UNCHANGED <<holders, server, sender>>

ReceiverDone ==
  /\ receiver = "send"
  /\ holders' = holders \ {"receiver"}
  /\ receiver' = "end"
  /\ UNCHANGED <<asked, toServer, toUser, shown, server, sender>>

Receiver == ReceiverConnect \/ RecvFd \/ ReceiverAsk \/ ReceiverReceive \/ ReceiverDone

-----------------------------------------------------------------------------
\* The receiver goes on where the sender stopped: the replies are shown to the two in the
\* order the texts were typed, and none before its text.
InTurn ==
  LET all == shown \o toUser
  IN  \A i \in DOMAIN all :
        /\ all[i].to <= asked
        /\ i > 1 => \/ all[i].to > all[i-1].to /\ all[i].piece = 1
                    \/ all[i].to = all[i-1].to /\ all[i].piece = all[i-1].piece + 1

\* The connection stays open from the sender's connect to the end of the receiver, and only
\* one of them uses it.
OneUser ==
  /\ receiver \in {"send", "recv"} => "receiver" \in holders /\ sender \in {"close", "end"}
  /\ sender \notin {"connect", "end"} => "sender" \in holders
  /\ sender = "end" /\ receiver # "end" => holders # {}
=============================================================================
