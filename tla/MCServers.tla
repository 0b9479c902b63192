------------------------------ MODULE MCServers ------------------------------
(* The servers that take in clients, for TLC: each behaviour is one of      *)
(*   "Q3"       15-Minor1/Q3                                                *)
(*   "passed"   16-UnixSockets/MultiServiceServer                           *)
(*   "fork"     the servers of ForkServer                                   *)
(*   "polling"  10-BSDSockets/With Polling                                  *)
(*   "udp"      10-BSDSockets/ConnectionLess                                *)
EXTENDS ServiceServer, TLC

CONSTANTS Programs, Editions, Pieces, SLOTS

VARIABLES
  program,
  nusfds, calling, passed,  \* of PassedService
  edition, proc,                    \* of ForkServer
  fds, shown,                       \* of PollingServer
  inbox, clientAddress              \* of DatagramServer

Passed   == INSTANCE PassedService
Fork     == INSTANCE ForkServer
Polling  == INSTANCE PollingServer
Datagram == INSTANCE DatagramServer

\* What the modules assume of their constants.
ASSUME Assumptions ==
  /\ Passed!SlotsAssumption /\ Polling!SlotsAssumption
  /\ Fork!EditionsAssumption /\ Fork!PiecesAssumption

AllPrograms == {"Q3", "passed", "fork", "polling", "udp"}
OnlyQ3      == {"Q3"}
StayersAlike == Permutations(Clients \ Leavers)
AllEditions == {"poll", "select", "concurrent", "iterative"}

passedVars   == <<nusfds, calling, passed>>
forkVars     == <<edition, proc>>
pollingVars  == <<fds, shown>>
datagramVars == <<inbox, clientAddress>>
allVars == <<vars, program, passedVars, forkVars, pollingVars, datagramVars>>

MCInit ==
  /\ program \in Programs
  /\ \/ /\ program = "Q3" /\ Init
        /\ nusfds = <<>> /\ calling = <<>> /\ passed = <<>>
        /\ edition = <<>> /\ proc = <<>> /\ fds = <<>> /\ shown = <<>>
        /\ inbox = <<>> /\ clientAddress = <<>>
     \/ /\ program = "passed" /\ Passed!Init
        /\ files = <<>> /\ nsfd = <<>> /\ pids = <<>> /\ usr1 = <<>> /\ reported = <<>>
        /\ argument = <<>> /\ edition = <<>> /\ proc = <<>> /\ fds = <<>> /\ shown = <<>>
        /\ inbox = <<>> /\ clientAddress = <<>>
     \/ /\ program = "fork" /\ Fork!Init
        /\ files = <<>> /\ pids = <<>> /\ usr1 = <<>> /\ reported = <<>> /\ service = <<>>
        /\ argument = <<>> /\ nsfds = <<>> /\ readfds = <<>>
        /\ nusfds = <<>> /\ calling = <<>> /\ passed = <<>>
        /\ fds = <<>> /\ shown = <<>> /\ inbox = <<>> /\ clientAddress = <<>>
     \/ /\ program = "polling" /\ Polling!Init
        /\ files = <<>> /\ nsfd = <<>> /\ pids = <<>> /\ usr1 = <<>> /\ reported = <<>>
        /\ service = <<>> /\ argument = <<>> /\ nsfds = <<>> /\ readfds = <<>>
        /\ nusfds = <<>> /\ calling = <<>> /\ passed = <<>>
        /\ edition = <<>> /\ proc = <<>> /\ inbox = <<>> /\ clientAddress = <<>>
     \/ /\ program = "udp" /\ Datagram!Init
        /\ port = <<>> /\ up = <<>> /\ conn = <<>> /\ backlog = <<>>
        /\ pc = <<>> /\ revents = <<>>
        /\ files = <<>> /\ nsfd = <<>> /\ pids = <<>> /\ usr1 = <<>> /\ reported = <<>>
        /\ service = <<>> /\ argument = <<>> /\ nsfds = <<>> /\ readfds = <<>>
        /\ nusfds = <<>> /\ calling = <<>> /\ passed = <<>>
        /\ edition = <<>> /\ proc = <<>> /\ fds = <<>> /\ shown = <<>>

\* What each program leaves alone.
Q3Rest       == UNCHANGED <<program, passedVars, forkVars, pollingVars, datagramVars>>
PassedRest   == UNCHANGED <<program, files, nsfd, pids, usr1, reported, argument,
                            forkVars, pollingVars, datagramVars>>
ForkRest     == UNCHANGED <<program, files, pids, usr1, reported, serviceVars,
                            passedVars, pollingVars, datagramVars>>
PollingRest  == UNCHANGED <<program, files, nsfd, pids, usr1, reported, serviceVars,
                            passedVars, forkVars, datagramVars>>
DatagramRest == UNCHANGED <<program, port, up, conn, backlog, serverVars, usr1, reported,
                            serviceVars, passedVars, forkVars, pollingVars>>

ServerStep ==
  \/ program = "Q3" /\ (Server \/ GetPid \/ Cleanup) /\ Q3Rest
  \/ program = "passed" /\ Passed!Server /\ PassedRest
  \/ program = "fork" /\ Fork!Server /\ ForkRest
  \/ program = "polling" /\ Polling!Server /\ PollingRest
  \/ program = "udp" /\ Datagram!Server /\ DatagramRest

ServiceStep(s) ==
  \/ program = "Q3" /\ Service(s) /\ Q3Rest
  \/ program = "passed" /\ Passed!ServiceMain(s) /\ PassedRest

ProcessStep(c) == program = "fork" /\ Fork!Process(c) /\ ForkRest

ClientStep(c) ==
  \/ program = "Q3" /\ Client(c) /\ Q3Rest
  \/ program = "passed" /\ Passed!ClientMain(c) /\ PassedRest
  \/ program = "fork" /\ Fork!Client(c) /\ ForkRest
  \/ program = "polling" /\ Polling!Client(c) /\ PollingRest
  \/ program = "udp" /\ Datagram!Client(c) /\ DatagramRest

MCNext ==
  \/ ServerStep
  \/ \E s \in Services : ServiceStep(s)
  \/ \E c \in Clients : ProcessStep(c) \/ ClientStep(c)

MCSpec == MCInit /\ [][MCNext]_allVars

\* The processes are scheduled; users type, connect, leave and stop the programs when they
\* like.
ServerRuns ==
  \/ program = "Q3" /\ Server /\ Q3Rest
  \/ program \in {"passed", "fork", "polling"} /\ ServerStep

ServiceRuns(s) ==
  \/ program = "Q3" /\ Service(s) /\ Q3Rest
  \/ program = "passed" /\ Passed!Service(s) /\ PassedRest

ReceiverRuns(c) ==
  \/ program = "Q3" /\ Scheduled(c) /\ Q3Rest
  \/ program = "passed" /\ Passed!Scheduled(c) /\ PassedRest
  \/ program = "fork" /\ Fork!ClientRuns(c) /\ ForkRest

FairSpec ==
  /\ MCSpec
  /\ WF_allVars(ServerRuns)
  /\ \A s \in Services : WF_allVars(ServiceRuns(s))
  /\ \A c \in Clients : WF_allVars(ProcessStep(c)) /\ WF_allVars(ReceiverRuns(c))

-----------------------------------------------------------------------------
\* The type invariants of the programs.
MCTypeOK ==
  CASE program = "Q3"      -> TypeOK
    [] program = "passed"  -> Passed!TypeOK
    [] program = "fork"    -> Fork!TypeOK
    [] program = "polling" -> Polling!TypeOK
    [] OTHER               -> TRUE

\* What a client receives answers the request it waits for (or, where the code lets answers
\* lag behind, an earlier one), converted by the service it was connected to.
RightAnswer ==
  CASE program = "Q3"     -> OwnAnswer
    [] program = "passed" -> Passed!AnswerAsConnected
    [] program = "fork"   -> Fork!OwnOrOlder
    [] program = "udp"    -> Datagram!OwnReply
    [] OTHER              -> TRUE

\* Nobody holds a connection twice and SIGUSR1 names full services only (Q3), nobody holds
\* one longer than it should (fork).
Holders ==
  /\ program = "Q3" => OneHolder /\ ReportSound
  /\ program = "fork" => Fork!HungUpAtOnce

\* The first client of each service of Q3 is its client.
FirstClient == program = "Q3" => NothingLost

\* Connections that are passed on, and lines that are printed, arrive once and in order.
Carried == INSTANCE Channels WITH
  Ends      <- Services \cup Clients,
  Batches   <- {<<x>> : x \in Clients \cup 1 .. Requests},
  waiting   <- [e \in Services \cup Clients |->
                  CASE program = "passed" /\ e \in Services -> Passed!OnTheirWay[e]
                    [] program = "polling" /\ e \in Clients -> up[e]
                    [] OTHER -> <<>>],
  delivered <- [e \in Services \cup Clients |->
                  CASE program = "passed" /\ e \in Services -> Passed!Taken[e]
                    [] program = "polling" /\ e \in Clients -> shown[e]
                    [] OTHER -> <<>>]

InOrder == Carried!Spec

\* Nobody waits for ever.
Waits(c) ==
  CASE program = "Q3"      -> Owed(c)
    [] program = "passed"  -> Passed!Owed(c)
    [] program = "fork"    -> Fork!Owed(c)
    [] program = "polling" -> Polling!Owed(c)
    [] OTHER               -> FALSE

AnsweredAll == \A c \in Clients : Waits(c) ~> ~ Waits(c)
=============================================================================
