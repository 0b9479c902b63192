-------------------------- MODULE MessageQueueChat --------------------------
(***************************************************************************)
(* The chat over a message queue (07-messageQ).  Clients send what they    *)
(* have to say as messages of the server's type; the server sends each     *)
(* text on to the clients that have joined, as messages of their types.    *)
(* The two threads of a client share the buffer m; when both store a text  *)
(* in it at once, one of the texts is what stays.  A member's number is    *)
(* its process id.                                                         *)
(***************************************************************************)
EXTENDS Naturals, Sequences, SequencesExt

CONSTANTS
  Members,     \* the clients
  MAX_TEXTS,   \* bound: the texts that all users type
  QUEUE_MAX,   \* the messages a queue can hold
  Mortal       \* the clients that may be killed

VARIABLES
  queue,       \* the message queue: its id and the messages in it
  spc,         \* where the server is
  pids,        \* the clients that take part
  out,         \* the text that the server is sending on, and to whom
  typed,       \* the number of texts typed so far
  msq_id,      \* the id of the queue each client uses
  wpc,         \* where the main or the writer thread of each client is
  m            \* the buffer of each client

mqVars == <<queue, spc, pids, out, typed, msq_id, wpc, m>>

ServerType == 0   \* the type of the messages for the server, 1 in the code

\* A pid is no type of the server's.
QueueAssumption == QUEUE_MAX \in Nat /\ ServerType \notin Members

Text(c, n) == [kind |-> "text", from |-> c, text |-> n]
Command(k, c) == [kind |-> k, from |-> c, text |-> 0]
NoText == Command("none", 0)
Message(type, data) == [type |-> type, data |-> data]

Init ==
  /\ queue = [id |-> 0, messages |-> <<>>]
  /\ spc = "off" /\ pids = <<>> /\ out = [data |-> NoText, to |-> <<>>]
  /\ typed = 0
  /\ msq_id = [c \in Members |-> 0]
  /\ wpc = [c \in Members |-> "off"]
  /\ m = [c \in Members |-> Message(ServerType, NoText)]

RoomForOneMore == Len(queue.messages) <= QUEUE_MAX   \* a mutant
HasRoom == Len(queue.messages) < QUEUE_MAX
Put(msg) == queue' = [queue EXCEPT !.messages = Append(@, msg)]

\* msgrcv: the first message of a type.
OfType(type) == {i \in DOMAIN queue.messages : queue.messages[i].type = type}
FirstOf(type) == CHOOSE i \in OfType(type) : \A j \in OfType(type) : i <= j
Take(type) == queue' = [queue EXCEPT !.messages = RemoveAt(@, FirstOf(type))]

-----------------------------------------------------------------------------
\* The server.

\* The old queue is removed and a new one created.
StartServer ==
  /\ spc = "off"
  /\ spc' = "receive"
  /\ queue' = [id |-> queue.id + 1, messages |-> <<>>]
  /\ UNCHANGED <<pids, out, typed, msq_id, wpc, m>>

Join(c) == pids' = Append(pids, c) /\ UNCHANGED <<spc, out>>

\* Who leaves is taken out of pids, where it stands once; the last one takes the queue along.
Without(c) == RemoveFirst(pids, c)
LeaveLast(c) ==     \* a mutant: whoever joined last is removed
  /\ pids' = Front(pids)
  /\ spc' = IF Len(pids) = 1 THEN "done" ELSE "receive"
  /\ UNCHANGED out
Leave(c) ==
  /\ pids' = Without(c)
  /\ spc' = IF Without(c) = <<>> THEN "done" ELSE "receive"
  /\ UNCHANGED out

\* A text goes to everybody else, in the order of pids.
Others(c) == FlattenSeq([i \in DOMAIN pids |-> IF pids[i] = c THEN <<>> ELSE <<pids[i]>>])
SendOn(data) ==
  /\ out' = IF Others(data.from) = <<>> THEN out
            ELSE [data |-> data, to |-> Others(data.from)]
  /\ spc' = IF Others(data.from) = <<>> THEN "receive" ELSE "send"
  /\ UNCHANGED pids

Receive ==
  /\ spc = "receive"
  /\ OfType(ServerType) # {}
  /\ LET data == queue.messages[FirstOf(ServerType)].data
     IN  \/ data.kind = "join" /\ Join(data.from)
         \/ data.kind = "leave" /\ Leave(data.from)
         \/ data.kind = "text" /\ SendOn(data)
  /\ IF spc' = "done" THEN queue' = [id |-> queue.id + 1, messages |-> <<>>]
                      ELSE Take(ServerType)
  /\ UNCHANGED <<typed, msq_id, wpc, m>>

\* msgsnd waits while the queue is full.
Send ==
  /\ spc = "send"
  /\ HasRoom
  /\ Put(Message(Head(out.to), out.data))
  /\ out' = IF Len(out.to) = 1 THEN [data |-> NoText, to |-> <<>>]
                                 ELSE [out EXCEPT !.to = Tail(@)]
  /\ spc' = IF Len(out.to) = 1 THEN "receive" ELSE "send"
  /\ UNCHANGED <<pids, typed, msq_id, wpc, m>>

Server == Receive \/ Send

-----------------------------------------------------------------------------
\* The clients.

Alive(c) == wpc[c] \notin {"off", "dead"}

\* main of client c finds or creates the queue.
StartClient(c) ==
  /\ wpc[c] = "off"
  /\ msq_id' = [msq_id EXCEPT ![c] = queue.id]
  /\ m' = [m EXCEPT ![c] = Message(ServerType, Command("join", c))]
  /\ wpc' = [wpc EXCEPT ![c] = "join"]
  /\ UNCHANGED <<queue, spc, pids, out, typed>>

\* msgsnd of a client: the assertion ends it if the queue has been removed.
ClientSends(c, next) ==
  IF msq_id[c] = queue.id
    THEN /\ HasRoom
         /\ Put(m[c])
         /\ wpc' = [wpc EXCEPT ![c] = next]
    ELSE /\ wpc' = [wpc EXCEPT ![c] = "dead"]
         /\ UNCHANGED queue

\* main joins the chat and creates the threads.
SendJoin(c) ==
  /\ wpc[c] = "join"
  /\ ClientSends(c, "write")
  /\ UNCHANGED <<spc, pids, out, typed, msq_id, m>>

\* writeu: a line is stored in m, ...
WriteText(c) ==
  /\ wpc[c] = "write"
  /\ typed < MAX_TEXTS
  /\ typed' = typed + 1
  /\ m' = [m EXCEPT ![c].data = Text(c, typed')]
  /\ wpc' = [wpc EXCEPT ![c] = "type"]
  /\ UNCHANGED <<queue, spc, pids, out, msq_id>>

\* ... or a ### that ends the input without a newline, ...
WriteLeave(c) ==
  /\ wpc[c] = "write"
  /\ m' = [m EXCEPT ![c].data = Command("leave", c)]
  /\ wpc' = [wpc EXCEPT ![c] = "type-leave"]
  /\ UNCHANGED <<queue, spc, pids, out, typed, msq_id>>

\* ... then the type, ...
SetType(c) ==
  /\ wpc[c] \in {"type", "type-leave"}
  /\ m' = [m EXCEPT ![c].type = ServerType]
  /\ wpc' = [wpc EXCEPT ![c] = IF @ = "type" THEN "send" ELSE "send-leave"]
  /\ UNCHANGED <<queue, spc, pids, out, typed, msq_id>>

\* ... and what m holds by now is sent.
SendText(c) ==
  /\ wpc[c] \in {"send", "send-leave"}
  /\ ClientSends(c, IF wpc[c] = "send" THEN "write" ELSE "left")
  /\ UNCHANGED <<spc, pids, out, typed, msq_id, m>>

\* readt: a message of the client's type is stored in m, which is then printed.
Reader(c) ==
  /\ wpc[c] \notin {"off", "join", "dead"}
  /\ msq_id[c] = queue.id
  /\ OfType(c) # {}
  /\ Take(c)
  /\ m' = [m EXCEPT ![c] = queue.messages[FirstOf(c)]]
  /\ UNCHANGED <<spc, pids, out, typed, msq_id, wpc>>

\* Most users end the client with a signal.
Kill(c) ==
  /\ c \in Mortal /\ Alive(c)
  /\ wpc' = [wpc EXCEPT ![c] = "dead"]
  /\ m' = [m EXCEPT ![c] = Message(ServerType, NoText)]
  /\ UNCHANGED <<queue, spc, pids, out, typed, msq_id>>

Writer(c) == WriteText(c) \/ WriteLeave(c) \/ SetType(c) \/ SendText(c)
Client(c) == StartClient(c) \/ SendJoin(c) \/ Writer(c) \/ Reader(c)

-----------------------------------------------------------------------------
TypeOK ==
  /\ Len(queue.messages) <= QUEUE_MAX
  /\ \A i \in DOMAIN queue.messages : queue.messages[i].type \in Members \cup {ServerType}
  /\ spc \in {"off", "receive", "send", "done"}
  /\ spc = "send" => out.to # <<>>

\* Nobody is sent his own text, whatever the threads of the clients make of their buffers.
NotBack ==
  \A i \in DOMAIN queue.messages :
    LET msg == queue.messages[i] IN msg.type # ServerType => msg.data.from # msg.type

\* The server knows a client, once, from the moment it reads that it joins, and as long as
\* the client has not left.
JoinPending(c) == Message(ServerType, Command("join", c)) \in Range(queue.messages)
MembersExact ==
  /\ IsInjective(pids)
  /\ spc \in {"receive", "send"} =>
       /\ \A c \in Range(pids) : wpc[c] \notin {"off", "join"} /\ ~JoinPending(c)
       /\ \A c \in Members : /\ msq_id[c] = queue.id
                             /\ wpc[c] \in {"write", "type", "send"}
                             => c \in Range(pids) \/ JoinPending(c)

\* The server gets on with a text, unless the queue is full of messages that nobody takes:
\* those for itself and for clients that were killed.
Untaken(msg) == msg.type = ServerType \/ (msg.type \in Members /\ ~Alive(msg.type))
Wedged == ~HasRoom /\ \A i \in DOMAIN queue.messages : Untaken(queue.messages[i])
GetsOn == spc = "send" ~> (spc # "send" \/ Wedged)
=============================================================================
