----------------------------- MODULE MCPackets -----------------------------
(* The programs of 18-RawSockets for TLC: each behaviour is one of          *)
(*   "icmp"  processes of Ping and TraceRoute on one host                   *)
(*   "path"  RecordedPath                                                   *)
EXTENDS TraceRoute

CONSTANTS MAX_PINGS, MAX_FAILURES, PING_SUM, MAX_CLIENTS

VARIABLES
  suite,
  program, pc, done, msg_count, msg_received_count, failure_count, flag, astray,   \* of Ping
  kind, state, arrived, packet, clients, printed                          \* of RecordedPath

Echo == INSTANCE Ping
Path == INSTANCE RecordedPath

\* What Ping assumes of its constants.
ASSUME Assumptions == Echo!PingAssumption

pingOwn == <<program, pc, done, msg_count, msg_received_count, failure_count, flag, astray>>
pathOwn == <<kind, state, arrived, packet, clients, printed>>
allVars == <<suite, icmpVars, traceVars, pingOwn, pathOwn>>

NoIcmp == /\ distance = 0 /\ started = {} /\ open = {} /\ wire = {} /\ inbox = <<>>
          /\ tpc = <<>> /\ hop = <<>> /\ field = <<>> /\ shown = [t \in Tracers |-> <<>>]
          /\ program = <<>> /\ pc = <<>> /\ done = <<>> /\ msg_count = <<>>
          /\ msg_received_count = <<>> /\ failure_count = <<>> /\ flag = <<>> /\ astray = <<>>
NoPath == /\ kind = "none" /\ state = <<>> /\ arrived = <<>> /\ packet = <<>>
          /\ clients = 0 /\ printed = <<>>

MCInit == \/ suite = "icmp" /\ Echo!Init /\ InitTrace /\ NoPath
          \/ suite = "path" /\ Path!Init /\ NoIcmp

\* What the others leave alone.
Icmp(step) == suite = "icmp" /\ step /\ UNCHANGED <<suite, pathOwn>>
InPath(step) == suite = "path" /\ step /\ UNCHANGED <<suite, icmpVars, traceVars, pingOwn>>

PingStep == \E p \in Pingers : Icmp((Echo!hdfn(p) \/ Echo!Runs(p)) /\ UNCHANGED traceVars)
TraceStep == \E t \in Tracers : Icmp(Trace(t) /\ UNCHANGED pingOwn)
NetworkStep == Icmp(Network /\ UNCHANGED <<traceVars, pingOwn>>)
PathStep == InPath(Path!Step)

MCNext == PingStep \/ TraceStep \/ NetworkStep \/ PathStep

\* The processes are scheduled; users, and the network, do as they like.
FairSpec ==
  /\ MCInit /\ [][MCNext]_allVars
  /\ \A p \in Pingers : WF_allVars(Icmp(Echo!Runs(p) /\ UNCHANGED traceVars))
  /\ WF_allVars(InPath(Path!SendB)) /\ WF_allVars(InPath(Path!SendC))
  /\ WF_allVars(InPath(Path!SendD)) /\ WF_allVars(InPath(Path!OutputE))

-----------------------------------------------------------------------------
MCTypeOK == suite = "icmp" => Echo!TypeOK /\ TraceTypeOK

\* Ping: its statistics account for every request, and the answer to each comes in its
\* second, unless one was waited for in vain.
Statistics == suite = "icmp" => Echo!Accounted /\ Echo!InStep

\* Path, TraceRoute-SimpleCopying: what is printed is the path that was taken.
PathShown == suite = "path" => Path!PathTaken

\* Who interrupts Ping sees it end, for its waits are bounded, and the packet of
\* TraceRoute-SimpleCopying reaches the end of the chain.
Ends ==
  /\ \A p \in Pingers :
       (suite = "icmp" /\ Echo!Interrupted(p)) ~> (suite = "icmp" /\ Echo!Ending(p))
  /\ (suite = "path" /\ Path!ChainUp) ~> (suite = "path" /\ Path!Printed)
=============================================================================
