------------------------------ MODULE AllInOne ------------------------------
(***************************************************************************)
(* The all-in-one server of 11-Select+AIO/AllInOne.  The server relays     *)
(* what it gets from the keyboard, P1 (pipe), P2 (FIFO), P3 (popen) and    *)
(* its clients to all clients.  When P4 sends it SIGUSR1 it hands a client *)
(* over to a new echo process, which serves that client until the client   *)
(* says quit and then tells the server with SIGUSR2.                       *)
(*                                                                         *)
(* The signal handlers run between any two steps of the loop of main, and  *)
(* get_pid also inside hdfn.  A standard signal is pending once: a second  *)
(* SIGUSR2 is dropped, with its sender.  SIGUSR1 restarts a recv (signal), *)
(* SIGUSR2 ends it with EINTR (sa_flags has no SA_RESTART).                *)
(***************************************************************************)
EXTENDS Naturals, Sequences, FiniteSets

CONSTANTS
  Clients,
  Sources,    \* the sources in use, of keyboard, P1, P2 and P3
  MayLeave,   \* clients may be interrupted
  MaxTexts,   \* bound: texts that users type
  MaxSignals  \* bound: signals of P4

\* nsfds has MAX_PENDING = 10 elements, and accept does not count them.
ASSUME ClientsAssumption == IsFiniteSet(Clients) /\ Cardinality(Clients) <= 10
ASSUME NamesAssumption ==
  Clients \intersect {"accept", "keyboard", "P1", "P2", "P3"} = {}
ASSUME SourcesAssumption == Sources \subseteq {"keyboard", "P1", "P2", "P3"}
ASSUME LeaveAssumption   == MayLeave \in BOOLEAN
ASSUME BoundsAssumption  == MaxTexts \in Nat /\ MaxSignals \in Nat

VARIABLES
  conn,     \* the connection of each client
  wire,     \* what it has sent and nobody has read
  typed,    \* texts that users have typed
  backlog,  \* connections that wait for accept
  nsfds,    \* the clients of the server
  ready,    \* what select has found readable
  spc,      \* where main is
  stage,    \* the part of the loop it is in
  i, j,     \* its loop variables
  empty,    \* a is the empty text
  usr1,     \* SIGUSR1 is pending at the server
  usr2,     \* the sender of the SIGUSR2 that is pending, or 0
  signals,  \* signals that P4 has sent
  hpc,      \* where hdfn is
  hslot,    \* its i
  echoes    \* the echo processes; their pids are 1, 2, ...

userVars   == <<conn, wire, typed, backlog>>
mainVars   == <<ready, spc, stage, i, j, empty>>
signalVars == <<usr1, usr2, signals>>
hdfnVars   == <<hpc, hslot>>
vars == <<userVars, nsfds, mainVars, signalVars, hdfnVars, echoes>>

Texts == {"text", "quit"}
Stages == <<"keyboard", "accept", "P1", "P2", "P3", "clients">>
Slots == 1 .. Len(nsfds)

UserTypeOK ==
  /\ conn \in [Clients -> {"none", "open", "closed", "reset"}]
  /\ wire \in [Clients -> Seq(Texts)]
  /\ typed \in 0 .. MaxTexts
  /\ backlog \in Seq(Clients)

MainTypeOK ==
  /\ ready \in SUBSET (Sources \union {"accept"} \union Clients)
  /\ spc \in {"select", "check", "recv", "test", "send", "dead"}
  /\ stage \in 1 .. Len(Stages)
  /\ i \in 1 .. Len(nsfds) + 1 /\ j \in 1 .. Len(nsfds) + 1
  /\ empty \in BOOLEAN

SignalTypeOK ==
  /\ usr1 \in BOOLEAN /\ usr2 \in 0 .. Len(echoes) /\ signals \in 0 .. MaxSignals
  /\ hpc \in {"none", "fork", "store"} /\ hslot \in 0 .. Len(nsfds)

\* An element of nsfds, and an echo process.
Entries == [client : Clients, echoFlag : {0, 1}, echoPID : 0 .. Len(echoes)]
EchoRecords == [client : Clients, stray : Nat, pc : {"greet", "recv", "kill", "gone"}]

TypeOK ==
  /\ UserTypeOK /\ MainTypeOK /\ SignalTypeOK
  /\ nsfds \in Seq(Entries)
  /\ echoes \in Seq(EchoRecords)

Init ==
  /\ conn = [c \in Clients |-> "none"] /\ wire = [c \in Clients |-> <<>>]
  /\ typed = 0 /\ backlog = <<>>
  /\ nsfds = <<>>
  /\ ready = {} /\ spc = "select" /\ stage = 1 /\ i = 1 /\ j = 1 /\ empty = TRUE
  /\ usr1 = FALSE /\ usr2 = 0 /\ signals = 0
  /\ hpc = "none" /\ hslot = 0
  /\ echoes = <<>>

\* The echo processes that run, and those of client c.
Running == {e \in 1 .. Len(echoes) : echoes[e].pc # "gone"}
EchoesOf(c) == {e \in Running : echoes[e].client = c}

-----------------------------------------------------------------------------
(* Clients and P4. *)

Connect(c) ==
  /\ conn[c] = "none" /\ spc # "dead"
  /\ conn' = [conn EXCEPT ![c] = "open"]
  /\ backlog' = Append(backlog, c)
  /\ UNCHANGED <<wire, typed>>

SendText(c, t) ==
  /\ conn[c] = "open" /\ typed < MaxTexts
  /\ wire' = [wire EXCEPT ![c] = Append(@, t)]
  /\ typed' = typed + 1
  /\ UNCHANGED <<conn, backlog>>

\* SIGINT at the client: shutdown and close.
Leave(c) ==
  /\ MayLeave /\ conn[c] = "open"
  /\ conn' = [conn EXCEPT ![c] = "closed"]
  /\ UNCHANGED <<wire, typed, backlog>>

User(c) ==
  /\ Connect(c) \/ Leave(c) \/ \E t \in Texts : SendText(c, t)
  /\ UNCHANGED <<nsfds, mainVars, signalVars, hdfnVars, echoes>>

\* P4: kill(p, SIGUSR1).
SendSignal ==
  /\ signals < MaxSignals /\ spc # "dead"
  /\ signals' = signals + 1
  /\ usr1' = TRUE
  /\ UNCHANGED <<userVars, nsfds, mainVars, usr2, hdfnVars, echoes>>

-----------------------------------------------------------------------------
(* The handlers of the server. *)

FreeSlots == {k \in Slots : nsfds[k].echoFlag = 0}

\* The client hdfn chooses: the first one without an echo.
IsFirstFree(k) == k \in FreeSlots /\ \A l \in FreeSlots : k <= l

\* Mutant of Mark: the flag is not set before fork.
MarkNot(k) == UNCHANGED nsfds

Mark(k) == nsfds' = [nsfds EXCEPT ![k].echoFlag = 1]

\* hdfn up to fork.  A get_pid inside its search is taken to come before or
\* after the search.
Hdfn ==
  /\ usr1 /\ hpc = "none" /\ spc # "dead"
  /\ usr1' = FALSE
  /\ \/ /\ FreeSlots = {}
        /\ UNCHANGED <<nsfds, hdfnVars>>
     \/ \E k \in Slots : /\ IsFirstFree(k)
                         /\ Mark(k)
                         /\ hpc' = "fork" /\ hslot' = k
  /\ UNCHANGED <<userVars, mainVars, usr2, signals, echoes>>

\* fork; the child becomes an echo process on the connection of the client.
Fork ==
  /\ hpc = "fork"
  /\ echoes' = Append(echoes, [client |-> nsfds[hslot].client, stray |-> 0, pc |-> "greet"])
  /\ hpc' = "store"
  /\ UNCHANGED <<userVars, nsfds, mainVars, signalVars, hslot>>

\* Mutant of StorePID: one too many.
StoreNextPID ==
  /\ hpc = "store"
  /\ nsfds' = [nsfds EXCEPT ![hslot].echoPID = Len(echoes) + 1]
  /\ hpc' = "none" /\ hslot' = 0
  /\ UNCHANGED <<userVars, mainVars, signalVars, echoes>>

\* The parent stores the pid of the child, the last process forked.
StorePID ==
  /\ hpc = "store"
  /\ nsfds' = [nsfds EXCEPT ![hslot].echoPID = Len(echoes)]
  /\ hpc' = "none" /\ hslot' = 0
  /\ UNCHANGED <<userVars, mainVars, signalVars, echoes>>

\* Mutant of Matches: the first client is passed over.
MatchesButFirst(k, sender_pid) == k > 1 /\ nsfds[k].echoPID = sender_pid

Matches(k, sender_pid) == nsfds[k].echoPID = sender_pid

\* The first client whose echoPID is that of the sender loses its flag.
RemoveEcho(sender_pid) ==
  LET matching == {k \in Slots : Matches(k, sender_pid)}
  IN  nsfds' = [k \in Slots |->
                  IF k \in matching /\ \A l \in matching : k <= l
                  THEN [nsfds[k] EXCEPT !.echoFlag = 0]
                  ELSE nsfds[k]]

\* The server waits in recv and nothing can be read.
InRecv == spc = "recv"
NothingToRead == InRecv /\ wire[nsfds[i].client] = <<>> /\ conn[nsfds[i].client] = "open"

\* get_pid, inside hdfn or not.  A recv that waits fails with EINTR and leaves
\* a empty - unless the signal came just before the call.
GetPid ==
  /\ usr2 # 0 /\ spc # "dead"
  /\ usr2' = 0
  /\ RemoveEcho(usr2)
  /\ \/ UNCHANGED mainVars
     \/ /\ NothingToRead /\ hpc = "none"
        /\ spc' = "test" /\ empty' = TRUE
        /\ UNCHANGED <<ready, stage, i, j>>
  /\ UNCHANGED <<userVars, usr1, signals, hdfnVars, echoes>>

-----------------------------------------------------------------------------
(* The loop of main. *)

\* What select reports of clients and of sfd: a client that has sent something
\* or has gone, with or without an echo; a connection to accept.
ReadableClients == {nsfds[k].client : k \in Slots} \intersect
                   {c \in Clients : wire[c] # <<>> \/ conn[c] \in {"closed", "reset"}}

\* Mutant of Readable: the clients are not in the set.
ReadableButClients == IF backlog = <<>> THEN {} ELSE {"accept"}

Readable == ReadableClients \union IF backlog = <<>> THEN {} ELSE {"accept"}

\* The first part of the loop, from the kth on, that FD_ISSET lets in.
ToStage(k, set) ==
  \E n \in k .. Len(Stages) :
    /\ Stages[n] \in set \union {"clients"}
    /\ \A m \in k .. n - 1 : Stages[m] \notin set
    /\ stage' = n

\* select, and again when it is interrupted or after its time.  Any source may
\* have sent a message.
Select ==
  /\ spc = "select"
  /\ \E heard \in SUBSET Sources : ready' = heard \union Readable
  /\ ready' # {}
  /\ spc' = "check" /\ ToStage(1, ready')
  /\ UNCHANGED <<userVars, nsfds, i, j, empty, echoes>>

\* Read from a source.  The FIFO of P2 is at its end, and readable, whenever
\* P2 has closed it.
ReadSource ==
  /\ spc = "check" /\ Stages[stage] \in Sources
  /\ empty' \in IF Stages[stage] = "P2" THEN BOOLEAN ELSE {FALSE}
  /\ spc' = "test"
  /\ UNCHANGED <<userVars, nsfds, ready, stage, i, j, echoes>>

Accept ==
  /\ spc = "check" /\ Stages[stage] = "accept"
  /\ nsfds' = Append(nsfds, [client |-> Head(backlog), echoFlag |-> 0, echoPID |-> 0])
  /\ backlog' = Tail(backlog)
  /\ ToStage(stage + 1, ready)
  /\ UNCHANGED <<conn, wire, typed, ready, spc, i, j, empty, echoes>>

\* Mutant of IsReady: FD_ISSET is not asked.
AnyClient(k) == TRUE

IsReady(k) == nsfds[k].client \in ready

\* The test before the recv from client i; after the last one select again.
CheckClient ==
  /\ spc = "check" /\ Stages[stage] = "clients"
  /\ \/ i \notin Slots /\ spc' = "select" /\ i' = 1 /\ stage' = 1 /\ ready' = {}
     \/ /\ i \in Slots
        /\ \/ IsReady(i) /\ nsfds[i].echoFlag = 0 /\ spc' = "recv" /\ UNCHANGED i
           \/ ~(IsReady(i) /\ nsfds[i].echoFlag = 0) /\ i' = i + 1 /\ UNCHANGED spc
        /\ UNCHANGED <<stage, ready>>
  /\ UNCHANGED <<userVars, nsfds, j, empty, echoes>>

\* The server exchanges a message with client c, which may have an echo.
Stray(c) == [e \in 1 .. Len(echoes) |->
               IF e \in EchoesOf(c) THEN [echoes[e] EXCEPT !.stray = @ + 1] ELSE echoes[e]]

\* recv returns all there is, or nothing when the client has gone.
Recv ==
  LET c == nsfds[i].client
  IN  /\ InRecv /\ ~NothingToRead
      /\ wire' = [wire EXCEPT ![c] = <<>>]
      /\ empty' = (wire[c] = <<>>)
      /\ echoes' = IF wire[c] = <<>> THEN echoes ELSE Stray(c)
      /\ spc' = "test"
      /\ UNCHANGED <<conn, typed, backlog, nsfds, ready, stage, i, j>>

\* Mutant of Skipped: clients with an echo are not skipped.
SkippedNever(k) == Stages[stage] = "clients" /\ k = i

\* A client with an echo gets nothing, nor does the one a text came from.
Skipped(k) == nsfds[k].echoFlag = 1 \/ (Stages[stage] = "clients" /\ k = i)

\* The test before the send to client j; after the last one, the next stage
\* or the next client.
TestClient ==
  /\ spc = "test"
  /\ \/ /\ j \notin Slots
        /\ spc' = "check" /\ j' = 1 /\ empty' = TRUE
        /\ \/ Stages[stage] = "clients" /\ i' = i + 1 /\ UNCHANGED stage
           \/ /\ Stages[stage] # "clients"
              /\ ToStage(stage + 1, ready) /\ UNCHANGED i
     \/ j \in Slots /\ Skipped(j) /\ j' = j + 1 /\ UNCHANGED <<spc, stage, i, empty>>
     \/ j \in Slots /\ ~Skipped(j) /\ spc' = "send" /\ UNCHANGED <<j, stage, i, empty>>
  /\ UNCHANGED <<userVars, nsfds, ready, echoes>>

\* send.  The first bytes to a client that has gone are answered with a reset;
\* after the reset any send raises SIGPIPE, which ends the server.
Send ==
  LET c == nsfds[j].client
  IN  /\ spc = "send"
      /\ \/ conn[c] = "reset" /\ spc' = "dead" /\ UNCHANGED <<conn, j>>
         \/ /\ conn[c] # "reset"
            /\ conn' = [conn EXCEPT ![c] = IF @ = "closed" /\ ~empty THEN "reset" ELSE @]
            /\ spc' = "test" /\ j' = j + 1
      /\ echoes' = IF empty THEN echoes ELSE Stray(c)
      /\ UNCHANGED <<wire, typed, backlog, nsfds, ready, stage, i, empty>>

\* The handlers run on the stack of main: it waits for them.
Main ==
  /\ hpc = "none"
  /\ Select \/ ReadSource \/ Accept \/ CheckClient \/ Recv \/ TestClient \/ Send
  /\ UNCHANGED <<signalVars, hdfnVars>>

-----------------------------------------------------------------------------
(* An echo process. *)

\* Its send: SIGPIPE ends the process as well.
EchoSend(e, next) ==
  LET c == echoes[e].client
  IN  /\ echoes' = [echoes EXCEPT ![e].pc = IF conn[c] = "reset" THEN "gone" ELSE next]
      /\ conn' = [conn EXCEPT ![c] = IF @ = "closed" THEN "reset" ELSE @]

\* The two texts of the start.
Greet(e) ==
  /\ echoes[e].pc = "greet"
  /\ EchoSend(e, "recv")
  /\ UNCHANGED <<wire, usr2>>

\* recv and the reply; a client that has gone is answered for ever.
Echo(e) ==
  LET c == echoes[e].client
  IN  /\ echoes[e].pc = "recv"
      /\ wire[c] # <<"quit">>
      /\ wire[c] # <<>> \/ conn[c] # "open"
      /\ wire' = [wire EXCEPT ![c] = <<>>]
      /\ EchoSend(e, "recv")
      /\ UNCHANGED usr2

\* recv of quit, if it comes alone.
RecvQuit(e) ==
  LET c == echoes[e].client
  IN  /\ echoes[e].pc = "recv"
      /\ wire[c] = <<"quit">>
      /\ wire' = [wire EXCEPT ![c] = <<>>]
      /\ echoes' = [echoes EXCEPT ![e].pc = "kill"]
      /\ UNCHANGED <<conn, usr2>>

\* kill(server_pid, SIGUSR2), exit.
Quit(e) ==
  /\ echoes[e].pc = "kill"
  /\ echoes' = [echoes EXCEPT ![e].pc = "gone"]
  /\ usr2' = IF usr2 = 0 /\ spc # "dead" THEN e ELSE usr2
  /\ UNCHANGED <<conn, wire>>

EchoProcess(e) ==
  /\ Greet(e) \/ Echo(e) \/ RecvQuit(e) \/ Quit(e)
  /\ UNCHANGED <<typed, backlog, nsfds, mainVars, usr1, signals, hdfnVars>>

-----------------------------------------------------------------------------
Handlers == Hdfn \/ Fork \/ StorePID

Next ==
  \/ \E c \in Clients : User(c)
  \/ SendSignal
  \/ Handlers \/ GetPid
  \/ Main
  \/ \E e \in Running : EchoProcess(e)

Spec == Init /\ [][Next]_vars

\* The scheduler runs the server and the echo processes and delivers signals;
\* users, sources and P4 may stop at any time.
FairSpec ==
  /\ Spec
  /\ WF_vars(Main) /\ WF_vars(Handlers) /\ WF_vars(GetPid)
  /\ \A e \in 1 .. MaxSignals : WF_vars(e \in Running /\ EchoProcess(e))

-----------------------------------------------------------------------------
(***************************************************************************)
(* What should be true.                                                    *)
(***************************************************************************)

\* A client is never given to a second echo process while one serves it,
\* however SIGUSR1, SIGUSR2 and the store of the pid are interleaved
\* (server.c:69-107).
OneEcho == \A e, f \in Running : echoes[e].client = echoes[f].client => e = f

\* Once a client has its echo, the loop of main (server.c:252, 287, 330)
\* exchanges one message with it at most: the one whose test came before the
\* signal.
OneStray == \A e \in 1 .. Len(echoes) : echoes[e].stray <= 1

\* A recv for which select has found something can only block because an echo
\* process has read it first (server.c:235 and 332).
BlockedByEcho ==
  NothingToRead => \E e \in 1 .. Len(echoes) : echoes[e].client = nsfds[i].client

\* The client of echo process e is one of the server's again.
IsBack(e) ==
  /\ e \in 1 .. Len(echoes)
  /\ \E k \in Slots : nsfds[k].client = echoes[e].client /\ nsfds[k].echoFlag = 0

\* The client of an echo process that has quit after its pid was stored, and
\* whose signal was not merged with another one, returns to the server
\* (server.c:110-121).
Returned ==
  \A e \in 1 .. MaxSignals :
    usr2 = e /\ hpc # "store" ~> IsBack(e) \/ spc = "dead"

\* A client is marked, but the echo process it is marked for has gone.
Forgotten(c) ==
  /\ EchoesOf(c) = {}
  /\ \E k \in Slots : nsfds[k].client = c /\ nsfds[k].echoFlag = 1

\* Whatever a client sends is read, by the server or by its echo process -
\* unless the server has died, hangs in a recv, or has missed the end of the
\* echo process.
Taken ==
  \A c \in Clients :
    \/ <>[](spc = "dead") \/ <>[]NothingToRead \/ <>[]Forgotten(c)
    \/ wire[c] # <<>> ~> wire[c] = <<>>
=============================================================================
