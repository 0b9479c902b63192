------------------------------- MODULE Bypass -------------------------------
(***************************************************************************)
(* The bypass (13-Bypass).  A client of group 1 sends the name of a client *)
(* of group 2 and its own address to a server, in two datagrams; the       *)
(* server sends the address on to client "7" of group 2, P7, which         *)
(* connects to it.  Then the two talk without the server, in turns.        *)
(*                                                                         *)
(* All clients of group 1 have the same address, port 57579.               *)
(***************************************************************************)
EXTENDS Naturals, Sequences

CONSTANTS
  Group1,       \* the clients of group 1
  MAX_TALK      \* bound: the texts said on the connection

VARIABLES
  inbox,        \* the datagrams for the server
  buff,         \* the name the server has read, or "none" when it waits for one
  calls,        \* the addresses sent to P7
  g1,           \* where each client of group 1 is
  g2,           \* where P7 is
  bound,        \* the client of group 1 that has bound port 57579
  pending,      \* P7's connection waits to be accepted
  peer,         \* the client that accepted it
  toG1, toG2,   \* what is on the connection
  said          \* the number of texts said on it

udpVars == <<inbox, buff, calls>>
talkVars == <<toG1, toG2, said>>
bypassVars == <<udpVars, g1, g2, bound, pending, peer, talkVars>>

Nobody == "nobody"
Names == {"7", "8"}     \* what users enter; the server knows "7"

Init ==
  /\ inbox = <<>> /\ buff = "none" /\ calls = <<>>
  /\ g1 = [c \in Group1 |-> "name"] /\ g2 = "wait"
  /\ bound = {} /\ pending = FALSE /\ peer = {}
  /\ toG1 = 0 /\ toG2 = 0 /\ said = 0

-----------------------------------------------------------------------------
\* The server reads two datagrams in turn, whoever sent them.
IsName(d) == d \in Names

ReadName ==
  /\ buff = "none"
  /\ inbox # <<>>
  /\ buff' = IF IsName(Head(inbox)) THEN Head(inbox) ELSE "other"
  /\ inbox' = Tail(inbox)
  /\ UNCHANGED <<calls, g1, g2, bound, pending, peer, talkVars>>

\* What comes second is sent to P7 as the address.
ReadAddress ==
  /\ buff # "none"
  /\ inbox # <<>>
  /\ buff' = "none"
  /\ calls' = IF buff = "7" THEN Append(calls, Head(inbox)) ELSE calls
  /\ inbox' = Tail(inbox)
  /\ UNCHANGED <<g1, g2, bound, pending, peer, talkVars>>

Server == ReadName \/ ReadAddress

-----------------------------------------------------------------------------
\* A client of group 1 sends the name, ...
SendChoice(c) ==
  /\ g1[c] = "name"
  /\ \E n \in Names : inbox' = Append(inbox, n)
  /\ g1' = [g1 EXCEPT ![c] = "address"]
  /\ UNCHANGED <<buff, calls, g2, bound, pending, peer, talkVars>>

\* ... its address, ...
SendAddress(c) ==
  /\ g1[c] = "address"
  /\ inbox' = Append(inbox, "57579")
  /\ g1' = [g1 EXCEPT ![c] = "bind"]
  /\ UNCHANGED <<buff, calls, g2, bound, pending, peer, talkVars>>

\* ... and binds it to a new socket; if another has it, listen will choose another port.
Bind(c) ==
  /\ g1[c] = "bind"
  /\ bound' = IF bound = {} THEN {c} ELSE bound
  /\ g1' = [g1 EXCEPT ![c] = "listen"]
  /\ UNCHANGED <<udpVars, g2, pending, peer, talkVars>>

Listen(c) ==
  /\ g1[c] = "listen"
  /\ g1' = [g1 EXCEPT ![c] = "accept"]
  /\ UNCHANGED <<udpVars, g2, bound, pending, peer, talkVars>>

AcceptAndSpeak(c) ==     \* a mutant: the greeting is not waited for
  /\ g1[c] = "accept" /\ c \in bound
  /\ pending
  /\ pending' = FALSE
  /\ peer' = {c}
  /\ g1' = [g1 EXCEPT ![c] = "send"]
  /\ UNCHANGED <<udpVars, g2, bound, talkVars>>
Accept(c) ==
  /\ g1[c] = "accept" /\ c \in bound
  /\ pending
  /\ pending' = FALSE
  /\ peer' = {c}
  /\ g1' = [g1 EXCEPT ![c] = "start"]
  /\ UNCHANGED <<udpVars, g2, bound, talkVars>>

\* The greeting and the answers are received; between them the user says something.
Recv(c) ==
  /\ g1[c] \in {"start", "recv"}
  /\ toG1 > 0
  /\ toG1' = 0
  /\ g1' = [g1 EXCEPT ![c] = "send"]
  /\ UNCHANGED <<udpVars, g2, bound, pending, peer, toG2, said>>

Send(c) ==
  /\ g1[c] = "send"
  /\ said < MAX_TALK
  /\ said' = said + 1
  /\ toG2' = toG2 + 1
  /\ g1' = [g1 EXCEPT ![c] = "recv"]
  /\ UNCHANGED <<udpVars, g2, bound, pending, peer, toG1>>

GroupOneRuns(c) == SendAddress(c) \/ Bind(c) \/ Listen(c) \/ Accept(c) \/ Recv(c)
GroupOne(c) == SendChoice(c) \/ GroupOneRuns(c) \/ Send(c)

-----------------------------------------------------------------------------
\* P7 takes the first address that comes, ...
RecvAddress ==
  /\ g2 = "wait"
  /\ calls # <<>>
  /\ g2' = "connect"
  /\ UNCHANGED <<udpVars, g1, bound, pending, peer, talkVars>>

\* ... and connects to it, which fails if nobody listens there yet; the greeting ends P7 then.
Connect ==
  /\ g2 = "connect"
  /\ IF Head(calls) = "57579" /\ \E c \in bound : g1[c] = "accept"
       THEN g2' = "greet" /\ pending' = TRUE
       ELSE g2' = "killed" /\ UNCHANGED pending
  /\ UNCHANGED <<udpVars, g1, bound, peer, talkVars>>

Greet ==
  /\ g2 = "greet"
  /\ toG1' = toG1 + 1
  /\ g2' = "recv"
  /\ UNCHANGED <<udpVars, g1, bound, pending, peer, toG2, said>>

RecvText ==
  /\ g2 = "recv"
  /\ toG2 > 0
  /\ toG2' = 0
  /\ g2' = "send"
  /\ UNCHANGED <<udpVars, g1, bound, pending, peer, toG1, said>>

SendText ==
  /\ g2 = "send"
  /\ said < MAX_TALK
  /\ said' = said + 1
  /\ toG1' = toG1 + 1
  /\ g2' = "recv"
  /\ UNCHANGED <<udpVars, g1, bound, pending, peer, toG2>>

P7Runs == RecvAddress \/ Connect \/ Greet \/ RecvText
P7 == P7Runs \/ SendText

-----------------------------------------------------------------------------
TypeOK ==
  /\ buff \in Names \cup {"none", "other"}
  /\ \A i \in DOMAIN inbox : inbox[i] \in Names \cup {"57579"}
  /\ peer \subseteq bound /\ bound \subseteq Group1
  /\ g2 \in {"wait", "connect", "greet", "recv", "send", "killed"}

\* The two who talk take turns: one text at most is under way, and one of them has the word
\* unless a text is.
OneWord ==
  LET turn == toG1 + toG2 + (IF g2 \in {"greet", "send"} THEN 1 ELSE 0)
                + (IF \E c \in peer : g1[c] = "send" THEN 1 ELSE 0)
  IN  (g2 \in {"greet", "recv", "send"} <=> turn = 1) /\ turn <= 1
=============================================================================
