----------------------------- MODULE MCMessages -----------------------------
(* The programs that pass messages, signals and descriptors between peers, *)
(* for TLC: each behaviour is one of                                       *)
(*   "lab"         17-LABMID                                               *)
(*   "queue"       07-messageQ                                             *)
(*   "fifo"        the chats of 03-Echo+FIFO+Sem and 05-signal+groupchat   *)
(*   "bypass"      13-Bypass                                               *)
(*   "file"        16-UnixSockets/writingToSameFile and socketpair         *)
(*   "connection"  16-UnixSockets/passingTCPSocket                         *)
EXTENDS Facilitator, TLC

CONSTANTS Programs,
  Talkers, MAX_TEXTS, Mortal, QUEUE_MAX,   \* of MessageQueueChat
  Members, GROUPS, MAX_WORDS, OPEN_MAX,    \* of FifoChat, with Mortal
  MAX_TALK,                                \* of Bypass
  Runs, OldTexts,                          \* of FilePassing
  Pieces, MAX_ASKED                        \* of PassedConnection

VARIABLES
  program,
  queue, spc, pids, out, typed, msq_id, wpc, m,          \* of MessageQueueChat
  variant, running, choice, ffo, cpipe, process, revents, relay, wfds, files, writing, deaf,
                                                         \* of FifoChat, with typed and got
  buff, calls, g1, g2, bound, pending, peer, toG1, toG2, said,   \* of Bypass, with inbox
  way, text, offset, holders, address, to, client, from,
                                       \* of FilePassing, with backlog and server
  toServer, toUser, shown, sender, receiver
                                       \* of PassedConnection, with asked, holders and server

Queue      == INSTANCE MessageQueueChat WITH Members <- Talkers
Fifo       == INSTANCE FifoChat
Pass       == INSTANCE Bypass WITH Group1 <- Clients
File       == INSTANCE FilePassing
Connection == INSTANCE PassedConnection

\* What the programs assume of their constants.
ASSUME MessagesAssumption ==
  /\ Queue!QueueAssumption /\ Fifo!ChatAssumption /\ File!RunsAssumption
  /\ Pieces \subseteq Nat

AllPrograms == {"lab", "queue", "fifo", "bypass", "file", "connection"}
Alike == Permutations(Clients) \cup Permutations(Services)

\* The variables that one program alone has, and those that several share.
queueOwn == <<queue, spc, pids, out, msq_id, wpc, m>>
fifoOwn  == <<variant, running, choice, ffo, cpipe, process, revents, relay, wfds, files,
              writing, deaf>>
passOwn  == <<buff, calls, g1, g2, bound, pending, peer, toG1, toG2, said>>
fileOwn  == <<way, text, offset, address, to, client, from>>
connOwn  == <<toServer, toUser, shown, sender, receiver>>
labOwn   == <<fVars, reply, reviews, serviceVars, sent, answers, cpc, list>>
allVars  == <<program, labVars, typed, holders, queueOwn, fifoOwn, passOwn, fileOwn, connOwn>>

NoLab   == /\ servers = 0 /\ keyboard = 0 /\ lines = 0 /\ readfds = 0 /\ f = 0 /\ reply = 0
           /\ reviews = 0 /\ service = 0 /\ usr1 = 0 /\ accepted = 0 /\ thread = 0 /\ sent = 0
           /\ answers = 0 /\ cpc = 0 /\ list = 0
NoQueue == /\ queue = 0 /\ spc = 0 /\ pids = 0 /\ out = 0 /\ msq_id = 0 /\ wpc = 0 /\ m = 0
NoFifo  == /\ variant = 0 /\ running = 0 /\ choice = 0 /\ ffo = 0 /\ cpipe = 0 /\ process = 0
           /\ revents = 0 /\ relay = 0 /\ wfds = 0 /\ files = 0 /\ writing = 0 /\ deaf = 0
NoPass  == /\ buff = 0 /\ calls = 0 /\ g1 = 0 /\ g2 = 0 /\ bound = 0 /\ pending = 0 /\ peer = 0
           /\ toG1 = 0 /\ toG2 = 0 /\ said = 0
NoFile  == /\ way = 0 /\ text = 0 /\ offset = 0 /\ address = 0 /\ to = 0 /\ client = 0 /\ from = 0
NoConn  == /\ toServer = 0 /\ toUser = 0 /\ shown = 0 /\ sender = 0 /\ receiver = 0

MCInit ==
  /\ program \in Programs
  /\ \/ /\ program = "lab" /\ Init
        /\ NoQueue /\ NoFifo /\ NoPass /\ NoFile /\ NoConn /\ typed = 0 /\ holders = 0
     \/ /\ program = "queue" /\ Queue!Init
        /\ NoLab /\ NoFifo /\ NoPass /\ NoFile /\ NoConn /\ holders = 0
        /\ inbox = 0 /\ backlog = 0 /\ server = 0 /\ asked = 0 /\ got = 0
     \/ /\ program = "fifo" /\ Fifo!Init
        /\ NoLab /\ NoQueue /\ NoPass /\ NoFile /\ NoConn /\ holders = 0
        /\ inbox = 0 /\ backlog = 0 /\ server = 0 /\ asked = 0
     \/ /\ program = "bypass" /\ Pass!Init
        /\ NoLab /\ NoQueue /\ NoFifo /\ NoFile /\ NoConn /\ holders = 0
        /\ typed = 0 /\ backlog = 0 /\ server = 0 /\ asked = 0 /\ got = 0
     \/ /\ program = "file" /\ File!Init
        /\ NoLab /\ NoQueue /\ NoFifo /\ NoPass /\ NoConn
        /\ typed = 0 /\ inbox = 0 /\ asked = 0 /\ got = 0
     \/ /\ program = "connection" /\ Connection!Init
        /\ NoLab /\ NoQueue /\ NoFifo /\ NoPass /\ NoFile
        /\ typed = 0 /\ inbox = 0 /\ backlog = 0 /\ got = 0

\* What each program leaves alone.
LabRest   == UNCHANGED <<program, typed, holders, queueOwn, fifoOwn, passOwn, fileOwn, connOwn>>
Shared    == <<program, labOwn, backlog, asked>>
QueueRest == UNCHANGED <<Shared, inbox, server, got, holders, fifoOwn, passOwn, fileOwn, connOwn>>
FifoRest  == UNCHANGED <<Shared, inbox, server, holders, queueOwn, passOwn, fileOwn, connOwn>>
PassRest  == UNCHANGED <<Shared, server, got, typed, holders, queueOwn, fifoOwn, fileOwn, connOwn>>
FileRest  == UNCHANGED <<program, labOwn, asked, inbox, got, typed, queueOwn, fifoOwn, passOwn,
                         connOwn>>
ConnRest  == UNCHANGED <<program, labOwn, backlog, inbox, got, typed, queueOwn, fifoOwn, passOwn,
                         fileOwn>>

LabStep ==
  /\ program = "lab"
  /\ TypeLine \/ F \/ S1 \/ S2 \/ \E c \in Clients : Client(c)
  /\ LabRest
QueueStep ==
  /\ program = "queue"
  /\ Queue!StartServer \/ Queue!Server \/ \E c \in Talkers : Queue!Client(c) \/ Queue!Kill(c)
  /\ QueueRest
FifoStep ==
  /\ program = "fifo"
  /\ Fifo!Server \/ Fifo!ClientSteps \/ \E c \in Members : Fifo!Kill(c)
  /\ FifoRest
PassStep ==
  /\ program = "bypass"
  /\ Pass!Server \/ Pass!P7 \/ \E c \in Clients : Pass!GroupOne(c)
  /\ PassRest
FileStep ==
  /\ program = "file"
  /\ \E r \in Runs : File!ServerRuns(r) \/ File!ClientRuns(r)
  /\ FileRest
ConnectionStep ==
  /\ program = "connection"
  /\ Connection!Server \/ Connection!Sender \/ Connection!Receiver
  /\ ConnRest

MCNext == LabStep \/ QueueStep \/ FifoStep \/ PassStep \/ FileStep \/ ConnectionStep

MCSpec == MCInit /\ [][MCNext]_allVars

\* The processes are scheduled; what users do, and when, is theirs.
FairSpec ==
  /\ MCSpec
  /\ WF_allVars(program = "lab" /\ F /\ LabRest)
  /\ \A c \in Clients : WF_allVars(program = "lab" /\ ClientRuns(c) /\ LabRest)
  /\ WF_allVars(program = "queue" /\ Queue!Server /\ QueueRest)
  /\ WF_allVars(program = "fifo" /\ Fifo!Server /\ FifoRest)
  /\ \A c \in Talkers : WF_allVars(program = "queue" /\ Queue!Reader(c) /\ QueueRest)

-----------------------------------------------------------------------------
MCTypeOK ==
  CASE program = "lab"    -> TypeOK
    [] program = "queue"  -> Queue!TypeOK
    [] program = "fifo"   -> Fifo!TypeOK
    [] program = "bypass" -> Pass!TypeOK
    [] OTHER              -> TRUE

\* 17-LABMID: an answer is that to a client of the same service that was accepted no later
\* than who gets it, there is one answer to a request at most, and F puts a review into the
\* message queue for the service its author has used.
LabAnswers == program = "lab" => AnswerOfEarlier /\ AnsweredOnce /\ ReviewRight

\* The chats: nobody is sent his own text and the server knows who takes part (07-messageQ);
\* a text of a group stays in it, and those of one author arrive in order and once (FIFOs).
Chats ==
  /\ program = "queue" => Queue!NotBack /\ Queue!MembersExact
  /\ program = "fifo" => Fifo!InGroup /\ Fifo!InTypedOrder

\* 13-Bypass: the two peers talk in turns.  16-UnixSockets: what was passed goes on where
\* its sender left it.
HandedOver ==
  /\ program = "bypass" => Pass!OneWord
  /\ program = "file" => File!AfterServer
  /\ program = "connection" => Connection!InTurn /\ Connection!OneUser

\* Who has asked F for the services hears from it, unless F is down or starved.
Asking(c) == program = "lab" /\ cpc[c] = "wait"
FDeaf == program = "lab" /\ (f = "down" \/ Starved)

\* The servers get on: F with its enquiries, and those of the chats with their texts, unless
\* they are wedged (the queue) or held up by a client that was killed (the FIFOs).
QueueBusy == program = "queue" /\ spc = "send" /\ ~Queue!Wedged
FifoBusy == program = "fifo" /\ Fifo!Waiting # {} /\ ~Fifo!Held
ServersGetOn ==
  /\ \A c \in Clients : Asking(c) ~> (~Asking(c) \/ FDeaf)
  /\ QueueBusy ~> ~QueueBusy
  /\ FifoBusy ~> ~FifoBusy
=============================================================================
