----------------------------- MODULE TraceRoute -----------------------------
(***************************************************************************)
(* 18-RawSockets/Trace/Actual/s.cpp: requests with a time to live of 1, 2, *)
(* ..., each of which waits for a packet, however long it takes.           *)
(***************************************************************************)
EXTENDS Icmp, Checksum

CONSTANT MAX_HOPS   \* bounds the requests of a process

\* "64 hops max", which is printed.
ASSUME DistancesAssumption == Distances \subseteq 0 .. 64

\* The time to live has 8 bits, so that a process with more requests would start over.
ASSUME MaxHopsAssumption == MAX_HOPS \in Nat /\ MAX_HOPS < 256

VARIABLES
  tpc,      \* where each process is: "off", "send", "receive" or "end"
  hop,      \* the time to live of its request
  field,    \* what its buffer has in the place of the ICMP checksum
  shown     \* the packets it has shown

traceVars == <<tpc, hop, field, shown>>

InitTrace ==
  /\ tpc = [t \in Tracers |-> IF t \in started THEN "send" ELSE "off"]
  /\ hop = [t \in Tracers |-> 1]
  /\ field = [t \in Tracers |-> 0]
  /\ shown = [t \in Tracers |-> <<>>]

Init == InitIcmp /\ InitTrace

\* The words of the ICMP header of a request: type 8 and code 0, the checksum, id 0 and the
\* sequence number.
ECHO == 8
Sequence(t) == hop[t] + 1

\* checksum(packet + 20, 4) sums up the type and whatever is in the place of the checksum.
FullChecksum(t) == Checksum(ECHO + Sequence(t))     \* a mutant: of 8 bytes, from a cleared field
OwnChecksum(t) == Checksum(ECHO + field[t])

\* Who gets the request sums up 8 bytes.
Valid(sum, seq) == Accepts(ECHO + sum + seq)

\* The time is exceeded: type 11, and the request, whose IP header sums up to 1s, is quoted.
EXCEEDED == 11
QuoteChecksum(sum, seq) == Checksum(EXCEEDED + (Word - 1) + ECHO + sum + seq)

\* The 8 bits of the time to live.
Ttl(h) == h % 256

\* A request is made up in the buffer that the last packet was received in, and sent.
SendTo(t, sum) ==
  Request(t, Sequence(t), sum, Ttl(hop[t]), Valid(sum, Sequence(t)),
          Packet("exceeded", t, Sequence(t), QuoteChecksum(sum, Sequence(t))))
Probe(t) ==
  /\ tpc[t] = "send"
  /\ hop[t] <= MAX_HOPS
  /\ SendTo(t, OwnChecksum(t))
  /\ field' = [field EXCEPT ![t] = OwnChecksum(t)]
  /\ tpc' = [tpc EXCEPT ![t] = "receive"]
  /\ UNCHANGED <<distance, started, open, hop, shown>>

\* It cannot be sent: the process ends.
ProbeFails(t) ==
  /\ tpc[t] = "send"
  /\ tpc' = [tpc EXCEPT ![t] = "end"]
  /\ Quit(t)
  /\ UNCHANGED <<distance, started, wire, hop, field, shown>>

\* A packet arrives, and overwrites the buffer.  An answer to a request, whoever made it,
\* is the end of the route.
HopAfterTwo(t) == hop' = [hop EXCEPT ![t] = @ + 2]     \* a mutant
HopAfter(t) == hop' = [hop EXCEPT ![t] = @ + 1]
Show(t) ==
  LET packet == Head(inbox[t])
  IN /\ tpc[t] = "receive"
     /\ inbox[t] # <<>>
     /\ shown' = [shown EXCEPT ![t] = Append(@, packet)]
     /\ field' = [field EXCEPT ![t] = packet.sum]
     /\ IF packet.kind = "reply"
          THEN /\ tpc' = [tpc EXCEPT ![t] = "end"]
               /\ Quit(t)
               /\ UNCHANGED hop
          ELSE /\ tpc' = [tpc EXCEPT ![t] = "send"]
               /\ HopAfter(t)
               /\ Take(t)
               /\ UNCHANGED open
     /\ UNCHANGED <<distance, started, wire>>

Trace(t) == Probe(t) \/ ProbeFails(t) \/ Show(t)

Next == (Network /\ UNCHANGED traceVars) \/ \E t \in Tracers : Trace(t)
Spec == Init /\ [][Next]_<<icmpVars, traceVars>>

-----------------------------------------------------------------------------
\* Every checksum fits 16 bits.
TraceTypeOK ==
  /\ tpc \in [Tracers -> {"off", "send", "receive", "end"}]
  /\ hop \in [Tracers -> Nat \ {0}]
  /\ field \in [Tracers -> 0 .. Word - 1]

\* Who is alone is shown the routers on the way, in order and each once, and never the
\* destination.
Route == \A t \in Tracers : (started = {t} /\ distance > 0) =>
  /\ Len(shown[t]) < distance
  /\ \A i \in DOMAIN shown[t] : shown[t][i].kind = "exceeded" /\ shown[t][i].seq = i + 1

\* The destination drops every request, as its checksum leaves the sequence number out: the
\* end of the route is only ever an answer to a request of somebody else.  (On the host itself
\* a request of Ping may leave anything in the place of the checksum.)
NeverAnswered == \A t \in Tracers : (distance > 0 \/ started \subseteq Tracers) =>
  \A i \in DOMAIN shown[t] : shown[t][i].kind = "reply" => shown[t][i].of \in Pingers
=============================================================================
