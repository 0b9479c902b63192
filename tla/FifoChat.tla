------------------------------ MODULE FifoChat ------------------------------
(***************************************************************************)
(* The chats over FIFOs: "chat" (03-Echo+FIFO+Sem, 3-3-1.c and its five    *)
(* clients) and "group" (05-signal+groupchat, 2-1.c and its five clients). *)
(* A client writes its texts into the server's FIFO, in "group" into that  *)
(* of the group its user has chosen; the server writes each of them into   *)
(* the FIFOs of the other clients from which it has had a text (in that    *)
(* group).  Nobody closes a file.                                          *)
(*                                                                         *)
(* The texts are short words of letters and digits: a read of 100 bytes    *)
(* takes all that is in a FIFO, and the number that is read off two or     *)
(* more texts is never one of a client.                                    *)
(***************************************************************************)
EXTENDS Naturals, Sequences, SequencesExt

CONSTANTS
  Members,     \* the numbers of the clients, 1 to 5
  GROUPS,      \* the groups of "group"; "chat" has group 0
  MAX_WORDS,   \* bound: the words that all users type
  OPEN_MAX,    \* the files that a process can have open
  Mortal       \* the clients that may be killed and started again

VARIABLES
  variant,     \* "chat" or "group"
  running,     \* the clients that run
  choice,      \* groupChoice of each client
  typed,       \* the number of words typed so far
  ffo,         \* the texts in the server's FIFOs
  cpipe,       \* and in those of the clients
  process,     \* for each group, the numbers that the server knows
  revents,     \* the groups that poll has reported
  relay,       \* what Write of the server has to do yet
  wfds,        \* the number of files the server has open for writing
  files,       \* the number of files each client has open
  writing,     \* the clients that have the server's FIFO open
  deaf,        \* the clients that can open their FIFO no more
  got          \* what each client has read, read by read

clientFiles == <<files, writing, deaf>>
chatVars == <<variant, running, choice, typed, ffo, cpipe, process, revents, relay, wfds,
              clientFiles, got>>

Groups == IF variant = "chat" THEN {0} ELSE GROUPS

\* Group 0 is the chat of all, and there are five programs for clients.
ChatAssumption ==
  /\ GROUPS \subseteq Nat /\ 0 \in GROUPS
  /\ Members \subseteq 1 .. 5
  /\ OPEN_MAX \in Nat \ {0}

Idle == [at |-> "main"]
Down == [at |-> "killed"]

\* The server runs; each client opens its FIFO as soon as it does.
Init ==
  /\ variant \in {"chat", "group"}
  /\ running = {}
  /\ choice = [c \in Members |-> 0]
  /\ typed = 0
  /\ ffo = [g \in Groups |-> <<>>]
  /\ cpipe = [c \in Members |-> <<>>]
  /\ process = [g \in Groups |-> {}]
  /\ revents = {}
  /\ relay = Idle
  /\ wfds = 0
  /\ files = [c \in Members |-> 1]
  /\ writing = {} /\ deaf = {}
  /\ got = [c \in Members |-> <<>>]

-----------------------------------------------------------------------------
\* The clients.

\* The user starts client c and chooses a group.
Start(c) ==
  /\ c \notin running
  /\ running' = running \cup {c}
  /\ \E g \in Groups : choice' = [choice EXCEPT ![c] = g]
  /\ UNCHANGED <<variant, typed, ffo, cpipe, process, revents, relay, wfds, clientFiles, got>>

\* The user ends it.  What waits in its FIFO stays as long as the server has that open.
Kill(c) ==
  /\ c \in running \cap Mortal
  /\ running' = running \ {c}
  /\ files' = [files EXCEPT ![c] = 1]
  /\ writing' = writing \ {c} /\ deaf' = deaf \ {c}
  /\ cpipe' = IF relay = Down THEN [cpipe EXCEPT ![c] = <<>>] ELSE cpipe
  /\ UNCHANGED <<variant, choice, typed, ffo, process, revents, relay, wfds, got>>

\* wf: a text is read from the terminal and written into the FIFO of the group, which is
\* opened once more for it; with OPEN_MAX files open, the text is lost.
Wf(c) ==
  /\ c \in running
  /\ relay # Down
  /\ typed < MAX_WORDS
  /\ typed' = typed + 1
  /\ IF files[c] < OPEN_MAX
       THEN /\ files' = [files EXCEPT ![c] = @ + 1]
            /\ writing' = writing \cup {c}
            /\ ffo' = [ffo EXCEPT ![choice[c]] =
                         Append(@, [from |-> c, group |-> choice[c], text |-> typed'])]
       ELSE UNCHANGED <<files, writing, ffo>>
  /\ UNCHANGED <<variant, running, choice, cpipe, process, revents, relay, wfds, deaf, got>>

\* rf: the client reads what is in its FIFO, and opens that once more.
Rf(c) ==
  /\ c \in running \ deaf
  /\ cpipe[c] # <<>>
  /\ got' = [got EXCEPT ![c] = Append(@, cpipe[c])]
  /\ cpipe' = [cpipe EXCEPT ![c] = <<>>]
  /\ IF files[c] < OPEN_MAX
       THEN files' = [files EXCEPT ![c] = @ + 1] /\ UNCHANGED deaf
       ELSE deaf' = deaf \cup {c} /\ UNCHANGED files
  /\ UNCHANGED <<variant, running, choice, typed, ffo, process, revents, relay, wfds, writing>>

Program(c) == c \in Members /\ (Start(c) \/ Wf(c) \/ Rf(c))

\* The five programs of each chat differ in the number of the client.
ChatClient1 == Program(1)
ChatClient2 == Program(2)
ChatClient3 == Program(3)
ChatClient4 == Program(4)
ChatClient5 == Program(5)
GroupClient1 == Program(1)
GroupClient2 == Program(2)
GroupClient3 == Program(3)
GroupClient4 == Program(4)
GroupClient5 == Program(5)

ChatClients == ChatClient1 \/ ChatClient2 \/ ChatClient3 \/ ChatClient4 \/ ChatClient5
GroupClients == GroupClient1 \/ GroupClient2 \/ GroupClient3 \/ GroupClient4 \/ GroupClient5

ClientSteps == IF variant = "chat" THEN ChatClients ELSE GroupClients

-----------------------------------------------------------------------------
\* The server.

\* The number that stands behind the first X: the sender's if one text was read, 0 if none
\* was, else one that no client has.
NoClient == 99
FirstProcID(batch) == IF Len(batch) = 0 THEN 0 ELSE Head(batch).from     \* a mutant
ProcID(batch) == CASE Len(batch) = 0 -> 0
                   [] Len(batch) = 1 -> Head(batch).from
                   [] OTHER          -> NoClient

\* What is left of Write: the recipients that it has not come to.
WriteTo(left, batch) ==
  IF left = {} THEN Idle ELSE [at |-> "open", left |-> left, batch |-> batch]

\* Write in a group: the sender becomes known, a number that is too large ends it.
BeginWrite(g, batch) ==
  LET id == ProcID(batch)
  IN  IF id = NoClient
        THEN UNCHANGED <<process, relay>>
        ELSE /\ process' = [process EXCEPT ![g] = @ \cup {id}]
             /\ relay' = WriteTo(process'[g] \ {0, id}, batch)

\* 3-3-1.c: read waits until there is something in the FIFO, or returns 0 bytes when the
\* clients that had it open have all gone.
Read ==
  /\ variant = "chat"
  /\ relay = Idle
  /\ \/ ffo[0] # <<>>
     \/ typed > 0 /\ writing = {}
  /\ BeginWrite(0, ffo[0])
  /\ ffo' = [ffo EXCEPT ![0] = <<>>]
  /\ UNCHANGED <<variant, running, choice, typed, cpipe, revents, wfds, clientFiles, got>>

Waiting == {g \in Groups : ffo[g] # <<>>}

\* 2-1.c: poll reports the groups in whose FIFO there is something.
PollFirst ==     \* a mutant: only the first FIFO is asked for
  /\ variant = "group"
  /\ relay = Idle /\ revents = {}
  /\ revents' = Waiting \cap {0}
  /\ UNCHANGED <<variant, running, choice, typed, ffo, cpipe, process, relay, wfds,
                 clientFiles, got>>
Poll ==
  /\ variant = "group"
  /\ relay = Idle /\ revents = {}
  /\ revents' = Waiting
  /\ UNCHANGED <<variant, running, choice, typed, ffo, cpipe, process, relay, wfds,
                 clientFiles, got>>

\* These are visited in order.
Visit ==
  /\ relay = Idle /\ revents # {}
  /\ LET i == CHOOSE i \in revents : \A j \in revents : i <= j
     IN  /\ BeginWrite(i, ffo[i])
         /\ ffo' = [ffo EXCEPT ![i] = <<>>]
         /\ revents' = revents \ {i}
  /\ UNCHANGED <<variant, running, choice, typed, cpipe, wfds, clientFiles, got>>

\* The known clients come in the order of their numbers.
Recipient == CHOOSE j \in relay.left : \A k \in relay.left : j <= k
SameRecipient == WriteTo(relay.left, relay.batch)     \* a mutant
NextRecipient == WriteTo(relay.left \ {Recipient}, relay.batch)

\* The FIFO of the next one is opened, which waits until that client runs; with OPEN_MAX
\* files open this fails, and so does the write.
Open ==
  /\ relay.at = "open"
  /\ IF wfds < OPEN_MAX
       THEN /\ Recipient \in running
            /\ wfds' = wfds + 1
            /\ relay' = [relay EXCEPT !.at = "write"]
       ELSE relay' = NextRecipient /\ UNCHANGED wfds
  /\ UNCHANGED <<variant, running, choice, typed, ffo, cpipe, process, revents, clientFiles, got>>

\* The text is written; without a reader SIGPIPE ends the server.
Write ==
  /\ relay.at = "write"
  /\ IF Recipient \in running \/ relay.batch = <<>>
       THEN /\ relay' = NextRecipient
            /\ cpipe' = [cpipe EXCEPT ![Recipient] = @ \o relay.batch]
       ELSE relay' = Down /\ UNCHANGED cpipe
  /\ UNCHANGED <<variant, running, choice, typed, ffo, process, revents, wfds, clientFiles, got>>

Server == Read \/ Poll \/ Visit \/ Open \/ Write

-----------------------------------------------------------------------------
TypeOK ==
  /\ running \subseteq Members /\ writing \subseteq running /\ deaf \subseteq running
  /\ choice \in [Members -> Groups]
  /\ \A g \in Groups : process[g] \subseteq Members \cup {0}
  /\ revents \subseteq Groups
  /\ wfds <= OPEN_MAX /\ \A c \in Members : files[c] \in 1 .. OPEN_MAX
  /\ relay.at \in {"open", "write"} => relay.left # {} /\ relay.left \subseteq Members

\* Everything on its way to client c or read by it.
Reaching(c) == FlattenSeq(got[c]) \o cpipe[c]

\* A text reaches only clients that the server has heard of in the group of its author, and
\* never the author.
InGroup ==
  \A c \in Members : \A i \in DOMAIN Reaching(c) :
    LET m == Reaching(c)[i] IN c # m.from /\ c \in process[m.group]

\* The texts of one author in one group reach a client in the order they were typed, none
\* of them twice, also when the client or the author has been started again.
InTypedOrder ==
  \A c \in Members : \A i, j \in DOMAIN Reaching(c) :
    LET m == Reaching(c)[i]  n == Reaching(c)[j]
    IN  i < j /\ m.from = n.from /\ m.group = n.group => m.text < n.text

\* The server can be kept from its FIFOs by a client that was killed, and by nothing else.
Held == relay = Down \/ (relay.at = "open" /\ Recipient \notin running)
Drained == \A g \in GROUPS : g \in Waiting ~> (g \notin Waiting \/ Held)
=============================================================================
