-------------------------------- MODULE Ping --------------------------------
(***************************************************************************)
(* Ping of 18-RawSockets: one request a second, after each of which the    *)
(* process waits a second for a packet, until SIGINT; then statistics.     *)
(*   "s.cpp"   Ping/s.cpp                                                  *)
(*   "ping.c"  TestPrograms/rawsockets/Ping/ping.c                         *)
(***************************************************************************)
EXTENDS Icmp

CONSTANTS
  MAX_PINGS,     \* bounds the requests of a process
  MAX_FAILURES,  \* 5 in s.cpp
  PING_SUM       \* the checksum of a request

\* A checksum has 16 bits.
PingAssumption == /\ MAX_PINGS \in Nat /\ MAX_FAILURES \in Nat \ {0}
                  /\ PING_SUM \in Nat /\ PING_SUM < 65536

VARIABLES
  program,               \* the program that each process runs
  pc,                    \* where it is
  done,                  \* SIGINT has come: done of s.cpp, sig of ping.c
  msg_count, msg_received_count,
  failure_count,         \* the waits in vain, which ping.c does not count
  flag,                  \* ping.c: every send succeeded
  astray                 \* a packet came that is not the answer to the request just sent

pingVars == <<program, pc, done, msg_count, msg_received_count, failure_count, flag, astray>>

Running(p) == pc[p] \in {"top", "send", "receive"}

Init ==
  /\ InitIcmp
  /\ program \in {f \in [Pingers -> {"s.cpp", "ping.c"}] :
                   \A p \in Pingers \ started : f[p] = "s.cpp"}
  /\ pc = [p \in Pingers |-> IF p \in started THEN "top" ELSE "off"]
  /\ done = [p \in Pingers |-> FALSE]
  /\ msg_count = [p \in Pingers |-> 0]
  /\ msg_received_count = [p \in Pingers |-> 0]
  /\ failure_count = [p \in Pingers |-> 0]
  /\ flag = [p \in Pingers |-> TRUE]
  /\ astray = [p \in Pingers |-> FALSE]

-----------------------------------------------------------------------------
\* SIGINT.
hdfn(p) ==
  /\ Running(p)
  /\ ~done[p]
  /\ done' = [done EXCEPT ![p] = TRUE]
  /\ UNCHANGED <<icmpVars, program, pc, msg_count, msg_received_count, failure_count, flag,
                 astray>>

\* The next request is made up: its sequence number is the number of requests before it.
Prepare(p) ==
  /\ pc[p] = "top"
  /\ ~done[p]
  /\ msg_count[p] < MAX_PINGS
  /\ msg_count' = [msg_count EXCEPT ![p] = @ + 1]
  /\ pc' = [pc EXCEPT ![p] = "send"]
  /\ UNCHANGED <<icmpVars, program, done, msg_received_count, failure_count, flag, astray>>

\* A second later it is sent, ...
AfterIncrement(p) == msg_count[p]     \* a mutant: ++msg_count
SequenceOf(p) == msg_count[p] - 1
Send(p) ==
  /\ pc[p] = "send"
  /\ Request(p, SequenceOf(p), PING_SUM, 64, TRUE, <<>>)
  /\ pc' = [pc EXCEPT ![p] = "receive"]
  /\ UNCHANGED <<distance, started, open, program, done, msg_count, msg_received_count,
                 failure_count, flag, astray>>

\* ... or cannot be: s.cpp ends, ping.c counts no answer any more, but waits for one.
SendFails(p) ==
  /\ pc[p] = "send"
  /\ IF program[p] = "s.cpp"
       THEN /\ pc' = [pc EXCEPT ![p] = "failed"]
            /\ Quit(p)
            /\ UNCHANGED flag
       ELSE /\ pc' = [pc EXCEPT ![p] = "receive"]
            /\ flag' = [flag EXCEPT ![p] = FALSE]
            /\ UNCHANGED <<open, inbox>>
  /\ UNCHANGED <<distance, started, wire, program, done, msg_count, msg_received_count,
                 failure_count, astray>>

IsAnswer(p, packet) ==
  packet.kind = "reply" /\ packet.of = p /\ packet.seq = msg_count[p] - 1

\* The wait ends with a packet, of whatever kind and to whatever request, ...
Receive(p) ==
  /\ pc[p] = "receive"
  /\ inbox[p] # <<>>
  /\ astray' = [astray EXCEPT ![p] = @ \/ ~IsAnswer(p, Head(inbox[p]))]
  /\ Take(p)
  /\ msg_received_count' = [msg_received_count EXCEPT ![p] = IF flag[p] THEN @ + 1 ELSE @]
  /\ pc' = [pc EXCEPT ![p] = "top"]
  /\ UNCHANGED <<distance, started, open, wire, program, done, msg_count, failure_count,
                 flag>>

\* ... or in vain: a second has passed, or SIGINT has come.
FailureWaitsOn(p) ==      \* a mutant: the wait is repeated
  /\ failure_count' = [failure_count EXCEPT ![p] = @ + 1]
  /\ UNCHANGED <<open, inbox, pc>>
FailureUncounted(p) ==    \* a mutant
  /\ failure_count' = failure_count
  /\ pc' = [pc EXCEPT ![p] = "top"]
  /\ UNCHANGED <<open, inbox>>
Failure(p) ==
  /\ failure_count' = [failure_count EXCEPT ![p] = @ + 1]
  /\ IF program[p] = "s.cpp" /\ failure_count'[p] >= MAX_FAILURES
       THEN /\ pc' = [pc EXCEPT ![p] = "failed"]
            /\ Quit(p)
       ELSE /\ pc' = [pc EXCEPT ![p] = "top"]
            /\ UNCHANGED <<open, inbox>>
NoTimeout(p) ==           \* a mutant: recvfrom waits for ever, and is restarted after SIGINT
  FALSE /\ UNCHANGED <<icmpVars, pingVars>>
Timeout(p) ==
  /\ pc[p] = "receive"
  /\ inbox[p] = <<>>
  /\ Failure(p)
  /\ UNCHANGED <<distance, started, wire, program, done, msg_count, msg_received_count,
                 flag, astray>>

\* The statistics: msg_count divides, so there are none before the first request.
Statistics(p) ==
  /\ pc[p] = "top"
  /\ done[p]
  /\ pc' = [pc EXCEPT ![p] = IF msg_count[p] = 0 THEN "fault" ELSE "end"]
  /\ Quit(p)
  /\ UNCHANGED <<distance, started, wire, program, done, msg_count, msg_received_count,
                 failure_count, flag, astray>>

\* What is printed as the loss: (double)((msg_count - msg_received_count) / msg_count) * 100.
Loss(p) == ((msg_count[p] - msg_received_count[p]) \div msg_count[p]) * 100

Runs(p) == Prepare(p) \/ Send(p) \/ SendFails(p) \/ Receive(p) \/ Timeout(p) \/ Statistics(p)

-----------------------------------------------------------------------------
TypeOK ==
  /\ distance \in Distances
  /\ open \subseteq started /\ started \subseteq Processes
  /\ pc \in [Pingers -> {"off", "top", "send", "receive", "end", "failed", "fault"}]
  /\ done \in [Pingers -> BOOLEAN] /\ flag \in [Pingers -> BOOLEAN]
  /\ msg_count \in [Pingers -> 0 .. MAX_PINGS]
  /\ \A p \in Pingers : msg_received_count[p] + failure_count[p] \in 0 .. msg_count[p]

\* The statistics account for every request: one that was not answered was waited for in
\* vain, less than MAX_FAILURES of them in s.cpp, and a loss is only shown if it is total.
Accounted == \A p \in Pingers : pc[p] = "end" =>
  /\ flag[p] => msg_count[p] = msg_received_count[p] + failure_count[p]
  /\ program[p] = "s.cpp" => flag[p] /\ failure_count[p] < MAX_FAILURES
  /\ Loss(p) = IF msg_received_count[p] = 0 THEN 100 ELSE 0

\* A process that is alone and has never waited in vain has got the answer to each of its
\* requests in the second of that request.
InStep == \A p \in Pingers :
  (started = {p} /\ distance > 0 /\ failure_count[p] = 0) => ~astray[p]

\* Who is interrupted ends, with statistics or without.
Ending(p) == pc[p] \in {"end", "failed", "fault"}
Interrupted(p) == Running(p) /\ done[p]
=============================================================================
