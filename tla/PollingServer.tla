--------------------------- MODULE PollingServer ---------------------------
(***************************************************************************)
(* 10-BSDSockets/With Polling: one process polls its listening socket and  *)
(* the connections it has accepted.  A round accepts one client or, when   *)
(* nobody connects, prints what its clients have sent; it never answers.   *)
(***************************************************************************)
EXTENDS TcpClients, FiniteSets, FiniteSetsExt, Functions

CONSTANT SLOTS   \* the length of fds, 10 in the code; slot 0 is the listening socket

\* fds is never checked to be full: one more client would be stored past its end.
SlotsAssumption == SLOTS \in Nat /\ Cardinality(Clients) < SLOTS

VARIABLES
  pc,       \* "poll" or "round"
  revents,  \* slots the last poll found readable and that are not visited yet
  fds,      \* the clients that were accepted, by slot
  shown     \* lines of each client that were printed

vars == <<tcpVars, pc, revents, fds, shown>>

TypeOK ==
  /\ TcpTypeOK
  /\ pc \in {"poll", "round"}
  /\ revents \in SUBSET (0 .. SLOTS - 1)
  /\ fds \in Seq(Clients)
  /\ shown \in [Clients -> Seq(1 .. Requests)]

Init ==
  /\ TcpInit
  /\ pc = "poll" /\ revents = {} /\ fds = <<>>
  /\ shown = [c \in Clients |-> <<>>]

\* A connection that was closed stays readable for ever, and is polled for ever.
Poll ==
  /\ pc = "poll"
  /\ revents' = {k \in DOMAIN fds : Readable(fds[k])} \cup
                (IF backlog[1] # <<>> THEN {0} ELSE {})
  /\ revents' # {}
  /\ pc' = "round"
  /\ UNCHANGED <<tcpVars, fds, shown>>

\* A connection waits: it is accepted, and this round reads from nobody.
Accept ==
  /\ pc = "round" /\ 0 \in revents
  /\ fds' = Append(fds, Head(backlog[1]))
  /\ backlog' = [backlog EXCEPT ![1] = Tail(@)]
  /\ revents' = {} /\ pc' = "poll"
  /\ UNCHANGED <<at, port, asked, up, down, conn, shown>>

\* Mutant of Read: the line is printed as that of the client in the first slot.
ReadWrongSlot ==
  /\ pc = "round" /\ 0 \notin revents
  /\ LET k == Min(revents)
         c == fds[k]
     IN /\ shown' = [shown EXCEPT ![fds[1]] = @ \o up[c]]
        /\ up' = [up EXCEPT ![c] = <<>>]
        /\ revents' = revents \ {k}
  /\ pc' = IF revents' = {} THEN "poll" ELSE "round"
  /\ UNCHANGED <<at, port, asked, down, conn, backlog, fds>>

\* read takes all the lines that have arrived.
Read ==
  /\ pc = "round" /\ 0 \notin revents
  /\ LET k == Min(revents)
         c == fds[k]
     IN /\ shown' = [shown EXCEPT ![c] = @ \o up[c]]
        /\ up' = [up EXCEPT ![c] = <<>>]
        /\ revents' = revents \ {k}
  /\ pc' = IF revents' = {} THEN "poll" ELSE "round"
  /\ UNCHANGED <<at, port, asked, down, conn, backlog, fds>>

Server == Poll \/ Accept \/ Read

\* The client sends line after line.
SendLine(c) ==
  /\ at[c] = "prompt"
  /\ RequestsLeft
  /\ asked' = [asked EXCEPT ![c] = @ + 1]
  /\ up' = [up EXCEPT ![c] = Append(@, asked[c] + 1)]
  /\ UNCHANGED <<at, port, down, conn, backlog>>

Client(c) == /\ Connect(c, 1, "prompt") \/ SendLine(c) \/ Leave(c)
             /\ UNCHANGED <<pc, revents, fds, shown>>

Next == Server \/ \E c \in Clients : Client(c)

Spec == Init /\ [][Next]_vars /\ WF_vars(Server)

-----------------------------------------------------------------------------
(* Properties.                                                             *)

\* What is printed as the text of a client is what it sent, line by line.
Lines == INSTANCE Channels WITH Ends <- Clients, Batches <- {<<n>> : n \in 1 .. Requests},
                                waiting <- up, delivered <- shown

InOrder == Lines!Spec

\* Something the client sent is not printed yet.
Owed(c) == up[c] # <<>>

\* Nothing is left unread for ever, not even while others connect, and not even when the
\* client is gone.
Answered == \A c \in Clients : Owed(c) ~> ~ Owed(c)
=============================================================================
