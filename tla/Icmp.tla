-------------------------------- MODULE Icmp --------------------------------
(***************************************************************************)
(* The ICMP packets of one host, as the raw sockets of 18-RawSockets see   *)
(* them: every socket of the host gets a copy of every packet that arrives *)
(* there, whoever it is meant for.  What sends an answer is not in src/.   *)
(*   distance = 0  the destination is the host: it gets the requests too   *)
(*   distance > 0  so many hops away: answers are lost, or overtake others *)
(***************************************************************************)
EXTENDS Naturals, Sequences, FiniteSets

CONSTANTS
  Pingers,     \* the processes of Ping that may be run
  Tracers,     \* those of TraceRoute
  Distances,   \* how far away the destination may be
  MAX_STARTED  \* bounds the processes that are run at once

\* A process runs one program.
ASSUME ProcessesAssumption == Pingers \cap Tracers = {}

VARIABLES
  distance,
  started,     \* the processes that are run
  open,        \* those whose socket is open
  wire,        \* the answers under way to the host
  inbox        \* the packets in each socket

icmpVars == <<distance, started, open, wire, inbox>>

Processes == Pingers \cup Tracers

\* kind: the type in the ICMP header; sum: its checksum.
Packet(kind, of, seq, sum) == [kind |-> kind, of |-> of, seq |-> seq, sum |-> sum]

InitIcmp ==
  /\ distance \in Distances
  /\ started \in {ps \in SUBSET Processes : Cardinality(ps) \in 1 .. MAX_STARTED}
  /\ open = started
  /\ wire = {}
  /\ inbox = [p \in Processes |-> <<>>]

ToAll(packets) ==
  inbox' = [p \in Processes |-> IF p \in open THEN inbox[p] \o packets ELSE <<>>]

\* sendto: a request with a time to live of ttl.  The destination drops it unless its
\* checksum is valid; a router on the way does not look at that.
Request(p, seq, sum, ttl, valid, expired) ==
  LET reply == Packet("reply", p, seq, sum)
  IN IF distance = 0
       THEN /\ ToAll(<<Packet("echo", p, seq, sum)>> \o (IF valid THEN <<reply>> ELSE <<>>))
            /\ UNCHANGED wire
       ELSE /\ wire' = wire \cup (IF ttl < distance THEN {expired}
                                  ELSE IF valid THEN {reply} ELSE {})
            /\ UNCHANGED inbox

\* recvfrom: the packet that arrived first is taken.
Take(p) == inbox' = [inbox EXCEPT ![p] = Tail(@)]

\* The process ends, which closes its socket.
Quit(p) == /\ open' = open \ {p}
           /\ inbox' = [inbox EXCEPT ![p] = <<>>]

Deliver == \E packet \in wire :
  /\ wire' = wire \ {packet}
  /\ ToAll(<<packet>>)
  /\ UNCHANGED <<distance, started, open>>

Lose == \E packet \in wire :
  /\ wire' = wire \ {packet}
  /\ UNCHANGED <<distance, started, open, inbox>>

Network == Deliver \/ Lose
=============================================================================
