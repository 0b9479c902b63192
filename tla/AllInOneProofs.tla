--------------------------- MODULE AllInOneProofs ---------------------------
(***************************************************************************)
(* Proofs about AllInOne.  The flag and the pid in nsfds always name the   *)
(* one echo process of a client, except while hdfn is at work on it; and a *)
(* SIGUSR2 that is pending never names the pid of a client that has been   *)
(* handed over since.                                                      *)
(* What select has found stays there to be read, unless an echo process    *)
(* reads it.                                                               *)
(***************************************************************************)
EXTENDS AllInOne, SequenceTheorems, TLAPS

(***************************************************************************)
(* Type correctness.                                                       *)
(***************************************************************************)

\* The loop variables are in range where nsfds is indexed, and accept is
\* called only if a connection waits.
InRange ==
  /\ spc = "recv" => i \in Slots /\ stage = 6
  /\ spc \in {"test", "send"} /\ stage = 6 => i \in Slots
  /\ spc = "send" => j \in Slots
  /\ spc = "check" /\ stage = 2 => "accept" \in ready
  /\ spc \in {"check", "test", "send"} /\ stage <= 2 /\ "accept" \in ready => backlog # <<>>
  /\ hpc # "none" => hslot \in Slots

TInv == TypeOK /\ InRange

\* The stages of the main loop, by number.
LEMMA StageIs ==
  /\ Len(Stages) = 6
  /\ \A n \in 1 .. 6 : /\ Stages[n] = "accept" <=> n = 2
                       /\ Stages[n] = "clients" <=> n = 6
                       /\ Stages[n] \in {"keyboard", "P1", "P2", "P3"} <=> n \in {1, 3, 4, 5}
BY DEF Stages

\* What ToStage leads to.
LEMMA ToStageType ==
  ASSUME NEW k \in 1 .. 6, NEW set, ToStage(k, set)
  PROVE  /\ stage' \in k .. 6
         /\ stage' = 2 => "accept" \in set
BY StageIs DEF ToStage

\* No client is named like a source, or like what the loop waits for.
LEMMA NamesDiffer ==
  /\ "accept" \notin Clients /\ "accept" \notin Sources
  /\ \A s \in Sources : s # "clients"
BY NamesAssumption, SourcesAssumption

\* The program starts with the types of TInv, ...
LEMMA InitType == Init => TInv
<1> SUFFICES ASSUME Init PROVE TInv
  OBVIOUS
<1>1. UserTypeOK
  <2>1. <<>> \in Seq(Texts) /\ <<>> \in Seq(Clients)
    OBVIOUS
  <2> QED BY <2>1, BoundsAssumption DEF Init, UserTypeOK
<1>2. MainTypeOK
  BY StageIs DEF Init, MainTypeOK
<1>3. SignalTypeOK
  <2>1. Len(echoes) = 0 /\ Len(nsfds) = 0
    BY DEF Init
  <2>2. signals \in 0 .. MaxSignals
    BY BoundsAssumption DEF Init
  <2>3. usr2 \in 0 .. Len(echoes) /\ hslot \in 0 .. Len(nsfds)
    BY <2>1 DEF Init
  <2> QED BY <2>2, <2>3 DEF Init, SignalTypeOK
<1>4. nsfds \in Seq(Entries) /\ echoes \in Seq(EchoRecords)
  BY DEF Init
<1> QED BY <1>1, <1>2, <1>3, <1>4 DEF Init, InRange, TInv, TypeOK

\* ... which users keep, ...
LEMMA UserType ==
  ASSUME TInv, NEW c \in Clients, User(c)
  PROVE  TInv'
<1> USE DEF TInv, TypeOK
<1>1. UserTypeOK' /\ (backlog # <<>> => backlog' # <<>>)
  <2>1. CASE Connect(c)
    <3>1. backlog' \in Seq(Clients) /\ backlog' # <<>>
      <4>1. backlog' = Append(backlog, c) /\ backlog \in Seq(Clients)
        BY <2>1 DEF Connect, UserTypeOK
      <4> HIDE DEF TypeOK, TInv
      <4>2. backlog' \in Seq(Clients) /\ Len(backlog') = Len(backlog) + 1
        BY <4>1
      <4>3. Len(backlog) \in Nat /\ Len(<<>>) = 0
        BY <4>1
      <4> QED BY <4>2, <4>3
    <3>2. conn' = [conn EXCEPT ![c] = "open"] /\ UNCHANGED <<wire, typed>>
      BY <2>1 DEF Connect
    <3>3. conn' \in [Clients -> {"none", "open", "closed", "reset"}]
      BY <3>2 DEF UserTypeOK
    <3> QED BY <3>1, <3>2, <3>3 DEF UserTypeOK
  <2>2. CASE Leave(c)
    BY <2>2 DEF Leave, UserTypeOK
  <2>3. ASSUME NEW t \in Texts, SendText(c, t)
        PROVE  UserTypeOK' /\ backlog' = backlog
    BY <2>3, BoundsAssumption DEF SendText, UserTypeOK
  <2> QED BY <2>1, <2>2, <2>3 DEF User
<1>2. UNCHANGED <<nsfds, mainVars, signalVars, hdfnVars, echoes>>
  BY DEF User
<1> QED BY <1>1, <1>2 DEF MainTypeOK, SignalTypeOK, Entries, InRange, Slots, mainVars, signalVars, hdfnVars

\* ... and so does every step of a process: a signal sent, ...
LEMMA SendSignalType ==
  ASSUME TInv, SendSignal
  PROVE  TInv'
<1> USE DEF TInv, TypeOK
<1>1. SignalTypeOK'
  BY BoundsAssumption DEF SendSignal, SignalTypeOK, hdfnVars
<1> QED BY <1>1 DEF SendSignal, UserTypeOK, MainTypeOK, Entries, InRange, Slots,
                    userVars, mainVars, hdfnVars

\* Handlers change entries of nsfds, but not their number.
LEMMA HdfnType ==
  ASSUME TInv, Hdfn
  PROVE  TInv'
<1> USE DEF TInv, TypeOK
<1>1. /\ nsfds' \in Seq(Entries) /\ Len(nsfds') = Len(nsfds)
      /\ hpc' \in {"none", "fork", "store"} /\ hslot' \in 0 .. Len(nsfds)
      /\ hpc' # "none" => hslot' \in Slots
  <2>1. CASE UNCHANGED <<nsfds, hdfnVars>>
    BY <2>1 DEF hdfnVars, SignalTypeOK, InRange
  <2>2. ASSUME NEW k \in Slots, Mark(k), hpc' = "fork", hslot' = k
        PROVE  /\ nsfds' \in Seq(Entries) /\ Len(nsfds') = Len(nsfds)
               /\ hpc' = "fork" /\ hslot' \in 0 .. Len(nsfds) /\ hslot' \in Slots
    <3>1. k \in 1 .. Len(nsfds) /\ Len(nsfds) \in Nat
      BY DEF Slots
    <3>2. nsfds[k] \in Entries
      BY <3>1
    <3>3. [nsfds[k] EXCEPT !.echoFlag = 1] \in Entries
      BY <3>2 DEF Entries
    <3> QED BY <2>2, <3>1, <3>3 DEF Mark
  <2>3. \/ UNCHANGED <<nsfds, hdfnVars>>
        \/ \E k \in Slots : Mark(k) /\ hpc' = "fork" /\ hslot' = k
    BY DEF Hdfn
  <2> QED BY <2>1, <2>2, <2>3
<1>2. UNCHANGED <<userVars, mainVars, usr2, signals, echoes>> /\ usr1' = FALSE
  BY DEF Hdfn
<1> QED BY <1>1, <1>2 DEF UserTypeOK, MainTypeOK, SignalTypeOK, Entries, EchoRecords, InRange, Slots,
                          userVars, mainVars

\* ... a process forked, ...
LEMMA ForkType ==
  ASSUME TInv, Fork
  PROVE  TInv'
<1> USE DEF TInv, TypeOK
<1>1. nsfds[hslot] \in Entries
  BY DEF Fork, InRange, Slots
<1>2. /\ echoes' \in Seq(EchoRecords)
      /\ Len(echoes') = Len(echoes) + 1 /\ Len(echoes) \in Nat
  <2>1. [client |-> nsfds[hslot].client, stray |-> 0, pc |-> "greet"] \in EchoRecords
    BY <1>1 DEF Entries, EchoRecords
  <2> QED BY <2>1 DEF Fork
<1>3. Entries \subseteq Entries'
  BY <1>2 DEF Entries
<1>4. nsfds' \in Seq(Entries')
  BY <1>3 DEF Fork
<1>5. SignalTypeOK'
  BY <1>2 DEF Fork, SignalTypeOK, signalVars
<1> QED BY <1>2, <1>4, <1>5 DEF Fork, UserTypeOK, MainTypeOK, EchoRecords, InRange, Slots, userVars, mainVars

\* ... a handler that stores a pid, ...
LEMMA StorePIDType ==
  ASSUME TInv, StorePID
  PROVE  TInv'
<1> USE DEF TInv, TypeOK
<1>1. nsfds' \in Seq(Entries) /\ Len(nsfds') = Len(nsfds)
  <2>1. hslot \in 1 .. Len(nsfds) /\ Len(nsfds) \in Nat /\ Len(echoes) \in 0 .. Len(echoes)
    BY DEF StorePID, InRange, Slots
  <2>2. nsfds[hslot] \in Entries
    BY <2>1
  <2>3. [nsfds[hslot] EXCEPT !.echoPID = Len(echoes)] \in Entries
    BY <2>1, <2>2 DEF Entries
  <2> QED BY <2>1, <2>3 DEF StorePID
<1>2. UNCHANGED <<userVars, mainVars, signalVars, echoes>> /\ hpc' = "none" /\ hslot' = 0
  BY DEF StorePID
<1>3. SignalTypeOK'
  <2>1. hslot' \in 0 .. Len(nsfds')
    BY <1>1, <1>2
  <2> QED BY <1>2, <2>1 DEF SignalTypeOK, signalVars
<1> QED BY <1>1, <1>2, <1>3 DEF UserTypeOK, MainTypeOK, Entries, EchoRecords, InRange, Slots,
                                userVars, mainVars

\* What removeEcho does to an entry.
LEMMA RemoveEchoIs ==
  ASSUME TypeOK, NEW pid, RemoveEcho(pid)
  PROVE  /\ nsfds' \in Seq(Entries) /\ Len(nsfds') = Len(nsfds)
         /\ \A k \in Slots :
              /\ nsfds'[k].client = nsfds[k].client
              /\ nsfds'[k].echoPID = nsfds[k].echoPID
              /\ nsfds[k].echoPID # pid => nsfds'[k].echoFlag = nsfds[k].echoFlag
<1> USE DEF TypeOK
<1> DEFINE new(k) == IF /\ k \in {m \in Slots : Matches(m, pid)}
                        /\ \A l \in {m \in Slots : Matches(m, pid)} : k <= l
                     THEN [nsfds[k] EXCEPT !.echoFlag = 0]
                     ELSE nsfds[k]
<1>1. nsfds' = [k \in Slots |-> new(k)]
  BY DEF RemoveEcho
<1>2. ASSUME NEW k \in Slots
      PROVE  /\ new(k) \in Entries
             /\ new(k).client = nsfds[k].client
             /\ new(k).echoPID = nsfds[k].echoPID
             /\ nsfds[k].echoPID # pid => new(k).echoFlag = nsfds[k].echoFlag
  <2>1. nsfds[k] \in Entries
    BY DEF Slots
  <2>2. [nsfds[k] EXCEPT !.echoFlag = 0] \in Entries
    BY <2>1 DEF Entries
  <2> QED BY <2>1, <2>2 DEF Matches, Entries
<1> HIDE DEF new
<1>3. Slots = 1 .. Len(nsfds) /\ Len(nsfds) \in Nat
  BY DEF Slots
<1>4. nsfds' \in [1 .. Len(nsfds) -> Entries]
  BY <1>1, <1>2, <1>3
<1>5. nsfds' \in Seq(Entries) /\ Len(nsfds') = Len(nsfds)
  BY <1>3, <1>4
<1> QED BY <1>1, <1>2, <1>5

\* ... one that asks for it, ...
LEMMA GetPidType ==
  ASSUME TInv, GetPid
  PROVE  TInv'
<1> USE DEF TInv
<1>1. nsfds' \in Seq(Entries) /\ Len(nsfds') = Len(nsfds)
  BY RemoveEchoIs DEF GetPid
<1>2. UNCHANGED <<userVars, usr1, signals, hdfnVars, echoes>> /\ usr2' = 0
  BY DEF GetPid
<1>3. \/ UNCHANGED mainVars
      \/ /\ spc = "recv" /\ spc' = "test" /\ empty' = TRUE
         /\ UNCHANGED <<ready, stage, i, j>>
  BY DEF GetPid, NothingToRead, InRecv
<1>4. MainTypeOK'
  BY <1>1, <1>3 DEF TypeOK, MainTypeOK, mainVars
<1>5. InRange'
  BY <1>1, <1>2, <1>3 DEF InRange, Slots, mainVars, userVars, hdfnVars
<1> QED BY <1>1, <1>2, <1>4, <1>5 DEF TypeOK, UserTypeOK, SignalTypeOK, Entries, EchoRecords,
                                      userVars, hdfnVars

\* What the loop of main leaves alone.
LEMMA MainFrame ==
  ASSUME TInv, UNCHANGED <<nsfds, signalVars, hdfnVars>>, UserTypeOK', MainTypeOK',
         echoes' \in Seq(EchoRecords), Len(echoes') = Len(echoes)
  PROVE  TypeOK'
BY DEF TInv, TypeOK, SignalTypeOK, Entries, EchoRecords, signalVars, hdfnVars

\* ... a call of select, ...
LEMMA SelectType ==
  ASSUME TInv, Select, UNCHANGED <<signalVars, hdfnVars>>
  PROVE  TInv'
<1> USE DEF TInv
<1>1. PICK heard \in SUBSET Sources : ready' = heard \union Readable
  BY DEF Select
<1>2. /\ Readable \subseteq {"accept"} \union Clients
      /\ "accept" \in Readable => backlog # <<>>
  BY NamesDiffer DEF Readable, ReadableClients
<1>3. /\ ready' \in SUBSET (Sources \union {"accept"} \union Clients)
      /\ "accept" \in ready' => backlog # <<>>
  BY <1>1, <1>2, NamesDiffer
<1>4. stage' \in 1 .. 6 /\ (stage' = 2 => "accept" \in ready')
  BY ToStageType DEF Select
<1>5. spc' = "check" /\ UNCHANGED <<userVars, nsfds, i, j, empty, echoes>>
  BY DEF Select
<1>6. UserTypeOK' /\ MainTypeOK'
  BY <1>3, <1>4, <1>5, StageIs DEF TypeOK, UserTypeOK, MainTypeOK, userVars
<1>7. TypeOK'
  BY <1>5, <1>6, MainFrame DEF TypeOK
<1> QED BY <1>3, <1>4, <1>5, <1>7 DEF InRange, Slots, userVars, hdfnVars

\* ... a line read, ...
LEMMA ReadSourceType ==
  ASSUME TInv, ReadSource, UNCHANGED <<signalVars, hdfnVars>>
  PROVE  TInv'
<1> USE DEF TInv
<1>1. /\ UNCHANGED <<userVars, nsfds, ready, stage, i, j, echoes>>
      /\ spc' = "test" /\ spc = "check" /\ empty' \in BOOLEAN
  BY DEF ReadSource
<1>2. stage \in 1 .. 6 /\ stage # 6
  BY StageIs, NamesDiffer DEF ReadSource, TypeOK, MainTypeOK
<1>3. UserTypeOK' /\ MainTypeOK'
  BY <1>1 DEF TypeOK, UserTypeOK, MainTypeOK, userVars
<1>4. TypeOK'
  BY <1>1, <1>3, MainFrame DEF TypeOK
<1> QED BY <1>1, <1>2, <1>4 DEF InRange, Slots, userVars, hdfnVars

\* ... a client accepted, ...
LEMMA AcceptType ==
  ASSUME TInv, Accept, UNCHANGED <<signalVars, hdfnVars>>
  PROVE  TInv'
<1> USE DEF TInv
<1>1. stage = 2 /\ spc = "check" /\ spc' = "check"
  BY StageIs DEF Accept, TypeOK, MainTypeOK
<1>2. backlog # <<>> /\ backlog \in Seq(Clients)
  BY <1>1 DEF InRange, TypeOK, UserTypeOK
<1>3. Head(backlog) \in Clients /\ backlog' \in Seq(Clients)
  BY <1>2 DEF Accept
<1>4. nsfds' \in Seq(Entries) /\ Len(nsfds') = Len(nsfds) + 1 /\ Len(nsfds) \in Nat
  <2>1. [client |-> Head(backlog), echoFlag |-> 0, echoPID |-> 0] \in Entries
    <3>1. 0 \in 0 .. Len(echoes)
      BY DEF TypeOK
    <3> QED BY <1>3, <3>1 DEF Entries
  <2> QED BY <2>1 DEF Accept, TypeOK
<1>5. UNCHANGED <<conn, wire, typed, ready, spc, i, j, empty, echoes>>
  BY DEF Accept
<1>6. stage' \in 3 .. 6
  BY <1>1, ToStageType DEF Accept
<1>7. UserTypeOK'
  BY <1>3, <1>5 DEF TypeOK, UserTypeOK
<1>8. MainTypeOK'
  BY <1>4, <1>5, <1>6, StageIs DEF TypeOK, MainTypeOK
<1>9. SignalTypeOK'
  BY <1>4, <1>5 DEF TypeOK, SignalTypeOK, signalVars, hdfnVars
<1>10. TypeOK'
  BY <1>4, <1>5, <1>7, <1>8, <1>9 DEF TypeOK, Entries, EchoRecords
<1>11. Slots \subseteq Slots'
  BY <1>4 DEF Slots
<1> QED BY <1>1, <1>6, <1>5, <1>10, <1>11 DEF InRange, hdfnVars

\* ... a client looked at.
LEMMA CheckClientType ==
  ASSUME TInv, CheckClient, UNCHANGED <<signalVars, hdfnVars>>
  PROVE  TInv'
<1> USE DEF TInv
<1>1. stage = 6 /\ spc = "check" /\ UNCHANGED <<userVars, nsfds, j, empty, echoes>>
  BY StageIs DEF CheckClient, TypeOK, MainTypeOK
<1>2. Slots = 1 .. Len(nsfds) /\ Len(nsfds) \in Nat
  BY DEF Slots, TypeOK
<1>3. \/ spc' = "select" /\ i' = 1 /\ stage' = 1 /\ ready' = {}
      \/ i \in Slots /\ spc' = "recv" /\ i' = i /\ UNCHANGED <<stage, ready>>
      \/ i \in Slots /\ spc' = "check" /\ i' = i + 1 /\ UNCHANGED <<stage, ready>>
  BY <1>1 DEF CheckClient
<1>4. UserTypeOK' /\ MainTypeOK'
  BY <1>1, <1>2, <1>3, StageIs DEF TypeOK, UserTypeOK, MainTypeOK, userVars
<1>5. TypeOK'
  BY <1>1, <1>4, MainFrame DEF TypeOK
<1> QED BY <1>1, <1>3, <1>5 DEF InRange, Slots, userVars, hdfnVars

\* What Stray says, signal by signal.
LEMMA StrayIs ==
  ASSUME TypeOK, NEW c
  PROVE  /\ Stray(c) \in Seq(EchoRecords) /\ Len(Stray(c)) = Len(echoes)
         /\ \A e \in 1 .. Len(echoes) : /\ Stray(c)[e].client = echoes[e].client
                                      /\ Stray(c)[e].pc = echoes[e].pc
<1> DEFINE new(e) == IF e \in EchoesOf(c) THEN [echoes[e] EXCEPT !.stray = @ + 1] ELSE echoes[e]
<1>1. Stray(c) = [e \in 1 .. Len(echoes) |-> new(e)]
  BY DEF Stray
<1>2. ASSUME NEW e \in 1 .. Len(echoes)
      PROVE  /\ new(e) \in EchoRecords
             /\ new(e).client = echoes[e].client /\ new(e).pc = echoes[e].pc
  <2>1. echoes[e] \in EchoRecords
    BY DEF TypeOK
  <2>2. echoes[e].stray + 1 \in Nat
    BY <2>1 DEF EchoRecords
  <2>3. [echoes[e] EXCEPT !.stray = @ + 1] \in EchoRecords
    BY <2>1, <2>2 DEF EchoRecords
  <2> QED BY <2>1, <2>3 DEF EchoRecords
<1> HIDE DEF new
<1>3. Stray(c) \in [1 .. Len(echoes) -> EchoRecords] /\ Len(echoes) \in Nat
  BY <1>1, <1>2 DEF TypeOK
<1> QED BY <1>1, <1>2, <1>3

\* A request received, ...
LEMMA RecvType ==
  ASSUME TInv, Recv, UNCHANGED <<signalVars, hdfnVars>>
  PROVE  TInv'
<1> USE DEF TInv
<1>1. /\ spc = "recv" /\ spc' = "test"
      /\ UNCHANGED <<conn, typed, backlog, nsfds, ready, stage, i, j>>
  BY DEF Recv, InRecv
<1>2. wire' \in [Clients -> Seq(Texts)] /\ empty' \in BOOLEAN
  <2>1. wire \in [Clients -> Seq(Texts)] /\ <<>> \in Seq(Texts)
    BY DEF TypeOK, UserTypeOK
  <2>2. wire' = [wire EXCEPT ![nsfds[i].client] = <<>>]
    BY DEF Recv
  <2>3. empty' = (wire[nsfds[i].client] = <<>>)
    BY DEF Recv
  <2> QED BY <2>1, <2>2, <2>3
<1>3. echoes' \in Seq(EchoRecords) /\ Len(echoes') = Len(echoes)
  BY StrayIs DEF Recv, TypeOK
<1>4. UserTypeOK' /\ MainTypeOK'
  BY <1>1, <1>2 DEF TypeOK, UserTypeOK, MainTypeOK
<1>5. TypeOK'
  BY <1>1, <1>3, <1>4, MainFrame
<1> QED BY <1>1, <1>5 DEF InRange, Slots, hdfnVars

\* ... a descriptor tested, ...
LEMMA TestClientType ==
  ASSUME TInv, TestClient, UNCHANGED <<signalVars, hdfnVars>>
  PROVE  TInv'
<1> USE DEF TInv
<1>1. spc = "test" /\ UNCHANGED <<userVars, nsfds, ready, echoes>>
  BY DEF TestClient
<1>2. Slots = 1 .. Len(nsfds) /\ Len(nsfds) \in Nat /\ stage \in 1 .. 6
  BY StageIs DEF Slots, TypeOK, MainTypeOK
<1>3. \/ /\ stage = 6 /\ i \in Slots /\ spc' = "check" /\ j' = 1 /\ empty' = TRUE
         /\ i' = i + 1 /\ stage' = stage
      \/ /\ stage # 6 /\ spc' = "check" /\ j' = 1 /\ empty' = TRUE /\ i' = i
         /\ ToStage(stage + 1, ready)
      \/ j \in Slots /\ j' = j + 1 /\ UNCHANGED <<spc, stage, i, empty>>
      \/ j \in Slots /\ j' = j /\ spc' = "send" /\ UNCHANGED <<stage, i, empty>>
  BY <1>1, <1>2, StageIs DEF TestClient, InRange
<1>4. stage # 6 /\ ToStage(stage + 1, ready)
      => stage' \in stage + 1 .. 6 /\ (stage' = 2 => "accept" \in ready)
  BY <1>2, ToStageType
<1>5. UserTypeOK' /\ MainTypeOK'
  <2>1. stage' \in 1 .. 6
    BY <1>2, <1>3, <1>4
  <2>2. i' \in 1 .. Len(nsfds) + 1 /\ j' \in 1 .. Len(nsfds) + 1
    BY <1>2, <1>3 DEF TypeOK, MainTypeOK
  <2>3. empty' \in BOOLEAN /\ spc' \in {"check", "test", "send"}
    BY <1>1, <1>3 DEF TypeOK, MainTypeOK
  <2> QED BY <1>1, <2>1, <2>2, <2>3, StageIs DEF TypeOK, UserTypeOK, MainTypeOK, userVars
<1>6. TypeOK'
  BY <1>1, <1>5, MainFrame DEF TypeOK
<1> QED BY <1>1, <1>2, <1>3, <1>4, <1>6 DEF InRange, Slots, userVars, hdfnVars

\* ... and an answer sent keep the types, ...
LEMMA SendType ==
  ASSUME TInv, Send, UNCHANGED <<signalVars, hdfnVars>>
  PROVE  TInv'
<1> USE DEF TInv
<1>1. /\ spc = "send" /\ UNCHANGED <<wire, typed, backlog, nsfds, ready, stage, i, empty>>
      /\ \/ spc' = "dead" /\ UNCHANGED <<conn, j>>
         \/ spc' = "test" /\ j' = j + 1
  BY DEF Send
<1>2. j \in Slots /\ Slots = 1 .. Len(nsfds) /\ Len(nsfds) \in Nat
  BY <1>1 DEF InRange, Slots, TypeOK
<1>3. conn' \in [Clients -> {"none", "open", "closed", "reset"}]
  BY DEF Send, TypeOK, UserTypeOK
<1>4. echoes' \in Seq(EchoRecords) /\ Len(echoes') = Len(echoes)
  BY StrayIs DEF Send, TypeOK
<1>5. UserTypeOK' /\ MainTypeOK'
  BY <1>1, <1>2, <1>3 DEF TypeOK, UserTypeOK, MainTypeOK
<1>6. TypeOK'
  BY <1>1, <1>4, <1>5, MainFrame
<1> QED BY <1>1, <1>6 DEF InRange, Slots, hdfnVars

\* ... as do the echo process's answer ...
LEMMA EchoSendType ==
  ASSUME TypeOK, NEW e \in 1 .. Len(echoes), EchoSend(e, "recv")
  PROVE  /\ conn' \in [Clients -> {"none", "open", "closed", "reset"}]
         /\ echoes' \in Seq(EchoRecords) /\ Len(echoes') = Len(echoes)
<1>1. conn' \in [Clients -> {"none", "open", "closed", "reset"}]
  BY DEF EchoSend, TypeOK, UserTypeOK
<1>2. PICK pc \in {"gone", "recv"} : echoes' = [echoes EXCEPT ![e].pc = pc]
  BY DEF EchoSend
<1>3. echoes[e] \in EchoRecords
  BY DEF TypeOK
<1>4. [echoes[e] EXCEPT !.pc = pc] \in EchoRecords
  BY <1>3 DEF EchoRecords
<1>5. echoes' = [echoes EXCEPT ![e] = [echoes[e] EXCEPT !.pc = pc]]
  BY <1>2
<1> QED BY <1>1, <1>4, <1>5 DEF TypeOK

\* ... and its other steps.
LEMMA EchoProcessType ==
  ASSUME TInv, NEW e \in 1 .. Len(echoes), EchoProcess(e)
  PROVE  TInv'
<1> USE DEF TInv
<1>1. UNCHANGED <<typed, backlog, nsfds, mainVars, usr1, signals, hdfnVars>>
  BY DEF EchoProcess
<1>2. echoes[e] \in EchoRecords /\ wire \in [Clients -> Seq(Texts)] /\ <<>> \in Seq(Texts)
  BY DEF TypeOK, UserTypeOK
<1>3. ASSUME NEW pc \in {"kill", "gone"}, echoes' = [echoes EXCEPT ![e].pc = pc]
      PROVE  echoes' \in Seq(EchoRecords) /\ Len(echoes') = Len(echoes)
  <2>1. [echoes[e] EXCEPT !.pc = pc] \in EchoRecords
    BY <1>2 DEF EchoRecords
  <2>2. echoes' = [echoes EXCEPT ![e] = [echoes[e] EXCEPT !.pc = pc]]
    BY <1>3
  <2> QED BY <2>1, <2>2 DEF TypeOK
<1>4. /\ conn' \in [Clients -> {"none", "open", "closed", "reset"}]
      /\ wire' \in [Clients -> Seq(Texts)]
      /\ usr2' \in 0 .. Len(echoes)
      /\ echoes' \in Seq(EchoRecords) /\ Len(echoes') = Len(echoes)
  <2>1. CASE Greet(e)
    BY <2>1, <1>2, EchoSendType DEF Greet, TypeOK, SignalTypeOK
  <2>2. CASE Echo(e)
    <3>1. wire' \in [Clients -> Seq(Texts)]
      BY <2>2, <1>2 DEF Echo
    <3> QED BY <2>2, <3>1, EchoSendType DEF Echo, TypeOK, SignalTypeOK
  <2>3. CASE RecvQuit(e)
    <3>1. wire' \in [Clients -> Seq(Texts)]
      BY <2>3, <1>2 DEF RecvQuit
    <3> QED BY <2>3, <3>1, <1>3 DEF RecvQuit, TypeOK, UserTypeOK, SignalTypeOK
  <2>4. CASE Quit(e)
    <3>1. usr2' \in 0 .. Len(echoes)
      BY <2>4 DEF Quit, TypeOK, SignalTypeOK
    <3> QED BY <2>4, <3>1, <1>2, <1>3 DEF Quit, TypeOK, UserTypeOK
  <2> QED BY <2>1, <2>2, <2>3, <2>4 DEF EchoProcess
<1>5. UserTypeOK'
  BY <1>1, <1>4 DEF TypeOK, UserTypeOK
<1>6. TypeOK'
  BY <1>1, <1>4, <1>5 DEF TypeOK, MainTypeOK, SignalTypeOK, Entries, EchoRecords, mainVars, hdfnVars
<1> QED BY <1>1, <1>6 DEF InRange, Slots, mainVars, hdfnVars

\* Every step keeps the types.
LEMMA TInvStep == TInv /\ [Next]_vars => TInv'
<1> SUFFICES ASSUME TInv, [Next]_vars PROVE TInv'
  OBVIOUS
<1>1. CASE Handlers
  BY <1>1, HdfnType, ForkType, StorePIDType DEF Handlers
<1>2. CASE Main
  BY <1>2, SelectType, ReadSourceType, AcceptType, CheckClientType, RecvType,
     TestClientType, SendType DEF Main
<1>3. ASSUME NEW e \in Running, EchoProcess(e) PROVE TInv'
  BY <1>3, EchoProcessType DEF Running
<1>4. CASE UNCHANGED vars
  BY <1>4 DEF vars, userVars, mainVars, signalVars, hdfnVars, TInv, TypeOK, UserTypeOK, MainTypeOK,
              SignalTypeOK, Entries, EchoRecords, InRange, Slots
<1> QED BY <1>1, <1>2, <1>3, <1>4, UserType, SendSignalType, GetPidType DEF Next

\* TypeOK is an invariant.
THEOREM TypeCorrect == Spec => []TypeOK
<1>1. TInv => TypeOK
  BY DEF TInv
<1> QED BY <1>1, InitType, TInvStep, PTL DEF Spec

(***************************************************************************)
(* One echo process for a client.                                          *)
(***************************************************************************)

\* A client is in one place: not connected, waiting for accept, or in nsfds.
OnePlace ==
  /\ \A k, l \in Slots : nsfds[k].client = nsfds[l].client => k = l
  /\ \A k \in Slots : conn[nsfds[k].client] # "none"
  /\ \A m \in 1 .. Len(backlog) :
       /\ conn[backlog[m]] # "none"
       /\ \A k \in Slots : nsfds[k].client # backlog[m]
  /\ \A m, n \in 1 .. Len(backlog) : backlog[m] = backlog[n] => m = n

\* The pids in nsfds differ.
OnePID == \A k, l \in Slots : nsfds[k].echoPID = nsfds[l].echoPID /\ nsfds[k].echoPID # 0 => k = l

\* hdfn is handing the client of entry k over.
AtWork(k) == hpc # "none" /\ hslot = k

\* While hdfn is at work its client is marked, and the pid of the new process
\* is not in nsfds yet.
Handing ==
  /\ hpc # "none" => nsfds[hslot].echoFlag = 1
  /\ hpc = "store" => /\ Len(echoes) > 0
                      /\ echoes[Len(echoes)].client = nsfds[hslot].client
                      /\ \A k \in Slots : nsfds[k].echoPID # Len(echoes)

\* Entry k is that of the client of e, is marked, and holds the pid of e or is
\* about to.
Serves(e, k) ==
  /\ nsfds[k].client = echoes[e].client
  /\ nsfds[k].echoFlag = 1
  /\ AtWork(k) => hpc = "store" /\ e = Len(echoes)
  /\ ~ AtWork(k) => nsfds[k].echoPID = e

Owned == \A e \in Running : \E k \in Slots : Serves(e, k)

\* The sender of the pending SIGUSR2 has ended, and the client whose entry
\* holds its pid has not been handed over again.
Sender ==
  usr2 # 0 => /\ usr2 \notin Running
              /\ \A k \in Slots : nsfds[k].echoPID = usr2
                                   => nsfds[k].echoFlag = 1 /\ ~ AtWork(k)

IInv == TInv /\ OnePlace /\ OnePID /\ Handing /\ Owned /\ Sender

\* An entry of the table has its type.
LEMMA EntryType ==
  ASSUME TInv, NEW k \in Slots
  PROVE  /\ nsfds[k] \in Entries
         /\ nsfds[k].client \in Clients
         /\ nsfds[k].echoPID \in 0 .. Len(echoes)
<1>1. nsfds[k] \in Entries
  BY DEF TInv, TypeOK, Slots
<1> QED BY <1>1 DEF Entries

\* IInv says that no client has two echo processes.
LEMMA OwnedIsOne == IInv => OneEcho
<1> SUFFICES ASSUME IInv, NEW e \in Running, NEW f \in Running, echoes[e].client = echoes[f].client
             PROVE  e = f
  BY DEF OneEcho
<1>1. PICK k \in Slots : Serves(e, k)
  BY DEF IInv, Owned
<1>2. PICK l \in Slots : Serves(f, l)
  BY DEF IInv, Owned
<1>3. k = l
  BY <1>1, <1>2 DEF IInv, OnePlace, Serves
<1> QED BY <1>1, <1>2, <1>3 DEF Serves

\* Steps that leave nsfds, the signals and the pids of the echo processes alone.
LEMMA Kept ==
  ASSUME IInv, TInv', UNCHANGED <<nsfds, usr2, hdfnVars>>, OnePlace',
         Len(echoes') = Len(echoes), Running' \subseteq Running,
         \A e \in 1 .. Len(echoes) : echoes'[e].client = echoes[e].client
  PROVE  IInv'
<1>1. Slots' = Slots
  BY DEF Slots
<1>2. Len(echoes) \in Nat /\ Running \subseteq 1 .. Len(echoes)
  BY DEF IInv, TInv, TypeOK, Running
<1>3. Handing'
  <2>1. Len(echoes) > 0 => Len(echoes) \in 1 .. Len(echoes)
    BY <1>2
  <2> QED BY <1>1, <1>2, <2>1 DEF IInv, Handing, hdfnVars
<1>4. Owned'
  BY <1>1, <1>2 DEF IInv, Owned, Serves, AtWork, hdfnVars
<1>5. OnePID' /\ Sender'
  BY <1>1 DEF IInv, OnePID, Sender, AtWork, hdfnVars
<1> QED BY <1>3, <1>4, <1>5 DEF IInv

\* The program starts in the invariant, ...
LEMMA InitInv == Init => IInv
<1> SUFFICES ASSUME Init PROVE IInv
  OBVIOUS
<1>1. Slots = {} /\ Running = {} /\ Len(backlog) = 0 /\ usr2 = 0 /\ hpc = "none"
  BY DEF Init, Slots, Running
<1> QED BY <1>1, InitType DEF IInv, OnePlace, OnePID, Handing, Owned, Sender

\* ... which users keep, ...
LEMMA UserInv ==
  ASSUME IInv, NEW c \in Clients, User(c)
  PROVE  IInv'
<1> USE DEF IInv
<1>1. UNCHANGED <<nsfds, signalVars, hdfnVars, echoes>>
  BY DEF User
<1>2. Slots' = Slots /\ conn \in [Clients -> {"none", "open", "closed", "reset"}] /\ backlog \in Seq(Clients)
  BY <1>1 DEF Slots, TInv, TypeOK, UserTypeOK
<1>3. \A k \in Slots : nsfds[k].client \in Clients
  BY EntryType
<1>4. OnePlace'
  <2>1. CASE Connect(c)
    <3>1. conn[c] = "none" /\ conn' = [conn EXCEPT ![c] = "open"] /\ backlog' = Append(backlog, c)
      BY <2>1 DEF Connect
    <3>2. /\ Len(backlog') = Len(backlog) + 1 /\ backlog'[Len(backlog) + 1] = c /\ Len(backlog) \in Nat
          /\ \A m \in 1 .. Len(backlog) : backlog'[m] = backlog[m]
      BY <1>2, <3>1
    <3>3. \A d \in Clients : conn[d] # "none" => d # c /\ conn'[d] # "none"
      BY <1>2, <3>1
    <3>4. \A k \in Slots : nsfds[k].client # c /\ conn'[nsfds[k].client] # "none"
      BY <1>3, <3>3 DEF OnePlace
    <3>5. \A m \in 1 .. Len(backlog) : backlog[m] # c /\ conn'[backlog[m]] # "none"
      BY <1>2, <3>3 DEF OnePlace
    <3>6. conn'[c] # "none"
      BY <1>2, <3>1
    <3>7. \A m \in 1 .. Len(backlog') : \/ m \in 1 .. Len(backlog)
                                       \/ m = Len(backlog) + 1
      BY <3>2
    <3>8. \A m \in 1 .. Len(backlog') :
            /\ conn'[backlog'[m]] # "none"
            /\ \A k \in Slots : nsfds[k].client # backlog'[m]
      BY <3>2, <3>4, <3>5, <3>6, <3>7 DEF OnePlace
    <3>9. \A m, n \in 1 .. Len(backlog') : backlog'[m] = backlog'[n] => m = n
      BY <3>2, <3>5, <3>7 DEF OnePlace
    <3> QED BY <1>1, <1>2, <3>4, <3>8, <3>9 DEF OnePlace
  <2>2. CASE Leave(c)
    <3>1. UNCHANGED backlog /\ \A d \in Clients : conn[d] # "none" => conn'[d] # "none"
      BY <2>2, <1>2 DEF Leave
    <3>2. \A m \in 1 .. Len(backlog) : backlog[m] \in Clients
      BY <1>2
    <3> QED BY <1>1, <1>2, <1>3, <3>1, <3>2 DEF OnePlace
  <2>3. ASSUME NEW t \in Texts, SendText(c, t) PROVE OnePlace'
    BY <2>3, <1>1, <1>2 DEF SendText, OnePlace
  <2> QED BY <2>1, <2>2, <2>3 DEF User
<1> QED BY <1>1, <1>4, UserType, Kept DEF signalVars, Running

\* ... and the handler, ...
LEMMA HdfnInv ==
  ASSUME IInv, Hdfn
  PROVE  IInv'
<1> USE DEF IInv
<1>1. TInv'
  BY HdfnType
<1>2. CASE UNCHANGED <<nsfds, hdfnVars>>
  BY <1>1, <1>2, Kept DEF Hdfn, userVars, OnePlace, Slots, Running
<1>3. ASSUME NEW k \in Slots, IsFirstFree(k), Mark(k), hpc' = "fork", hslot' = k
      PROVE  IInv'
  <2>1. UNCHANGED <<userVars, usr2, echoes>> /\ hpc = "none"
    BY DEF Hdfn
  <2>2. nsfds[k].echoFlag = 0
    BY <1>3 DEF IsFirstFree, FreeSlots
  <2>3. \A l \in Slots : nsfds[l] \in Entries
    BY DEF Slots, TInv, TypeOK
  <2>4. /\ Slots' = Slots
        /\ \A l \in Slots : /\ nsfds'[l].client = nsfds[l].client
                           /\ nsfds'[l].echoPID = nsfds[l].echoPID
                           /\ nsfds'[l].echoFlag = IF l = k THEN 1 ELSE nsfds[l].echoFlag
    <3>1. Slots' = Slots
      BY <1>3 DEF Mark, Slots, TInv, TypeOK
    <3>2. \A l \in Slots : nsfds'[l] = IF l = k THEN [nsfds[l] EXCEPT !.echoFlag = 1] ELSE nsfds[l]
      BY <1>3 DEF Mark, Slots, TInv, TypeOK
    <3> QED BY <2>3, <3>1, <3>2 DEF Entries
  <2>5. OnePlace' /\ OnePID'
    BY <2>1, <2>4 DEF OnePlace, OnePID, userVars
  <2>6. Handing'
    BY <1>3, <2>4 DEF Handing
  <2>7. Owned'
    <3>1. SUFFICES ASSUME NEW e \in Running PROVE \E l \in Slots : Serves(e, l)'
      BY <2>1, <2>4 DEF Owned, Running
    <3>2. PICK l \in Slots : Serves(e, l)
      BY DEF Owned
    <3>3. l # k
      BY <2>2, <3>2 DEF Serves
    <3> QED BY <1>3, <2>1, <2>4, <3>2, <3>3 DEF Serves, AtWork
  <2>8. Sender'
    BY <1>3, <2>1, <2>2, <2>4 DEF Sender, AtWork, Running
  <2> QED BY <1>1, <2>5, <2>6, <2>7, <2>8
<1> QED BY <1>2, <1>3 DEF Hdfn

\* ... a fork, ...
LEMMA ForkInv ==
  ASSUME IInv, Fork
  PROVE  IInv'
<1> USE DEF IInv
<1> DEFINE N == Len(echoes)
<1>1. /\ hpc = "fork" /\ hpc' = "store" /\ UNCHANGED <<userVars, nsfds, signalVars, hslot>>
      /\ echoes' = Append(echoes, [client |-> nsfds[hslot].client, stray |-> 0, pc |-> "greet"])
  BY DEF Fork
<1>2. N \in Nat /\ usr2 \in 0 .. N /\ \A k \in Slots : nsfds[k].echoPID \in 0 .. N
  BY EntryType DEF TInv, TypeOK, SignalTypeOK
<1>3. /\ Len(echoes') = N + 1 /\ echoes'[N + 1].client = nsfds[hslot].client
      /\ \A e \in 1 .. N : echoes'[e] = echoes[e]
  BY <1>1 DEF TInv, TypeOK
<1>4. Running' \subseteq Running \union {N + 1} /\ Running \subseteq 1 .. N
  BY <1>2, <1>3 DEF Running
<1>5. Slots' = Slots /\ hslot \in Slots
  BY <1>1 DEF Slots, TInv, InRange
<1>6. Handing'
  <2>1. \A k \in Slots : nsfds[k].echoPID # N + 1
    BY <1>2
  <2> QED BY <1>1, <1>2, <1>3, <1>5, <2>1 DEF Handing
<1>7. Owned'
  <2>1. SUFFICES ASSUME NEW e \in Running' PROVE \E k \in Slots : Serves(e, k)'
    BY <1>5 DEF Owned
  <2>2. CASE e = N + 1
    <3>1. PICK k \in Slots : k = hslot
      BY <1>5
    <3>2. Serves(e, k)'
      BY <1>1, <1>3, <2>2, <3>1 DEF Serves, AtWork, Handing
    <3> QED BY <3>2
  <2>3. CASE e \in Running
    <3>1. PICK k \in Slots : Serves(e, k)
      BY <2>3 DEF Owned
    <3>2. k # hslot
      BY <1>1, <3>1 DEF Serves, AtWork
    <3>3. echoes'[e] = echoes[e]
      BY <1>3, <1>4, <2>3
    <3>4. Serves(e, k)'
      BY <1>1, <3>1, <3>2, <3>3 DEF Serves, AtWork
    <3> QED BY <3>4
  <2> QED BY <1>4, <2>2, <2>3
<1>8. Sender'
  <2>1. usr2 # N + 1
    BY <1>2
  <2>2. usr2 # 0 => usr2 \notin Running'
    BY <1>4, <2>1 DEF Sender
  <2> QED BY <1>1, <1>5, <2>2 DEF Sender, AtWork, signalVars
<1>9. OnePlace' /\ OnePID'
  BY <1>1, <1>5 DEF OnePlace, OnePID, userVars
<1> QED BY <1>6, <1>7, <1>8, <1>9, ForkType

\* ... a pid that is stored, ...
LEMMA StorePIDInv ==
  ASSUME IInv, StorePID
  PROVE  IInv'
<1> USE DEF IInv
<1> DEFINE N == Len(echoes)
<1>1. /\ hpc = "store" /\ hpc' = "none" /\ UNCHANGED <<userVars, signalVars, echoes>>
      /\ nsfds' = [nsfds EXCEPT ![hslot].echoPID = N]
  BY DEF StorePID
<1>2. hslot \in Slots
  BY <1>1 DEF TInv, InRange
<1>3. \A l \in Slots : nsfds[l] \in Entries
  BY EntryType
<1>4. /\ Slots' = Slots
      /\ \A l \in Slots : /\ nsfds'[l].client = nsfds[l].client
                         /\ nsfds'[l].echoFlag = nsfds[l].echoFlag
                         /\ nsfds'[l].echoPID = IF l = hslot THEN N ELSE nsfds[l].echoPID
  <2>1. Slots' = Slots
    BY <1>1 DEF Slots, TInv, TypeOK
  <2>2. \A l \in Slots : nsfds'[l] = IF l = hslot THEN [nsfds[l] EXCEPT !.echoPID = N] ELSE nsfds[l]
    BY <1>1 DEF Slots, TInv, TypeOK
  <2> QED BY <1>3, <2>1, <2>2 DEF Entries
<1>5. OnePlace'
  BY <1>1, <1>4 DEF OnePlace, userVars
<1>6. OnePID' /\ Handing'
  BY <1>1, <1>4 DEF OnePID, Handing
<1>7. Owned'
  <2>1. SUFFICES ASSUME NEW e \in Running PROVE \E l \in Slots : Serves(e, l)'
    BY <1>1, <1>4 DEF Owned, Running
  <2>2. PICK l \in Slots : Serves(e, l)
    BY DEF Owned
  <2>3. Serves(e, l)'
    BY <1>1, <1>4, <2>2 DEF Serves, AtWork
  <2> QED BY <2>3
<1>8. Sender'
  <2>1. Running' = Running /\ usr2' = usr2
    BY <1>1 DEF Running, signalVars
  <2>2. ASSUME usr2 # 0, NEW k \in Slots, nsfds'[k].echoPID = usr2
        PROVE  nsfds'[k].echoFlag = 1
    BY <1>1, <1>4, <2>2 DEF Sender, Handing
  <2> QED BY <1>1, <1>4, <2>1, <2>2 DEF Sender, AtWork
<1> QED BY <1>5, <1>6, <1>7, <1>8, StorePIDType

\* ... and asked for, ...
LEMMA GetPidInv ==
  ASSUME IInv, GetPid
  PROVE  IInv'
<1> USE DEF IInv
<1>1. usr2 # 0 /\ usr2' = 0 /\ RemoveEcho(usr2) /\ UNCHANGED <<userVars, hdfnVars, echoes>>
  BY DEF GetPid
<1>2. /\ Len(nsfds') = Len(nsfds)
      /\ \A k \in Slots :
           /\ nsfds'[k].client = nsfds[k].client
           /\ nsfds'[k].echoPID = nsfds[k].echoPID
           /\ nsfds[k].echoPID # usr2 => nsfds'[k].echoFlag = nsfds[k].echoFlag
  BY <1>1, RemoveEchoIs DEF TInv
<1>3. Slots' = Slots /\ (hpc # "none" => hslot \in Slots)
  BY <1>2 DEF Slots, TInv, InRange
<1>4. OnePlace' /\ OnePID'
  BY <1>1, <1>2, <1>3 DEF OnePlace, OnePID, userVars
<1>5. Handing'
  BY <1>1, <1>2, <1>3 DEF Handing, Sender, AtWork, hdfnVars
<1>6. Owned'
  <2>1. SUFFICES ASSUME NEW e \in Running PROVE \E k \in Slots : Serves(e, k)'
    BY <1>1, <1>3 DEF Owned, Running
  <2>2. PICK k \in Slots : Serves(e, k)
    BY DEF Owned
  <2>3. nsfds[k].echoPID # usr2
    BY <1>1, <2>2 DEF Serves, Sender
  <2>4. Serves(e, k)'
    BY <1>1, <1>2, <2>2, <2>3 DEF Serves, AtWork, hdfnVars
  <2> QED BY <2>4
<1>7. Sender'
  BY <1>1 DEF Sender
<1> QED BY <1>4, <1>5, <1>6, <1>7, GetPidType

\* ... a client that is accepted, ...
LEMMA AcceptInv ==
  ASSUME IInv, Accept, UNCHANGED <<signalVars, hdfnVars>>
  PROVE  IInv'
<1> USE DEF IInv
<1> DEFINE N == Len(nsfds)
           c == Head(backlog)
<1>1. backlog \in Seq(Clients) /\ backlog # <<>>
  BY StageIs DEF Accept, TInv, InRange, TypeOK, UserTypeOK, MainTypeOK
<1>2. /\ nsfds' = Append(nsfds, [client |-> c, echoFlag |-> 0, echoPID |-> 0])
      /\ backlog' = Tail(backlog) /\ UNCHANGED <<conn, echoes>>
  BY DEF Accept
<1>3. /\ Len(backlog) \in Nat /\ Len(backlog) >= 1 /\ Len(backlog') = Len(backlog) - 1
      /\ c = backlog[1]
      /\ \A m \in 1 .. Len(backlog') : m + 1 \in 1 .. Len(backlog) /\ backlog'[m] = backlog[m + 1]
  BY <1>1, <1>2
<1>4. N \in Nat /\ Slots = 1 .. N /\ Slots' = 1 .. N + 1
  BY <1>2 DEF Slots, TInv, TypeOK
<1>5. /\ \A k \in Slots : nsfds'[k] = nsfds[k]
      /\ nsfds'[N + 1].client = c /\ nsfds'[N + 1].echoPID = 0
  BY <1>2, <1>4 DEF TInv, TypeOK
<1>6. \A k \in Slots' : k \in Slots \/ k = N + 1
  BY <1>4
<1>7. 1 \in 1 .. Len(backlog)
  BY <1>3
<1>8. OnePlace'
  <2>1. conn[c] # "none" /\ \A k \in Slots : nsfds[k].client # c
    BY <1>3, <1>7 DEF OnePlace
  <2>2. \A k, l \in Slots' : nsfds'[k].client = nsfds'[l].client => k = l
    BY <1>5, <1>6, <2>1 DEF OnePlace
  <2>3. \A k \in Slots' : conn'[nsfds'[k].client] # "none"
    <3>1. SUFFICES ASSUME NEW k \in Slots' PROVE conn[nsfds'[k].client] # "none"
      BY <1>2
    <3>2. CASE k \in Slots
      BY <1>5, <3>2 DEF OnePlace
    <3>3. CASE k = N + 1
      BY <1>5, <2>1, <3>3
    <3> QED BY <1>6, <3>2, <3>3
  <2>4. ASSUME NEW m \in 1 .. Len(backlog')
        PROVE  backlog'[m] # c /\ conn'[backlog'[m]] # "none" /\ \A k \in Slots : nsfds[k].client # backlog'[m]
    <3>1. m + 1 \in 1 .. Len(backlog) /\ m + 1 # 1 /\ backlog'[m] = backlog[m + 1]
      BY <1>3
    <3> QED BY <1>2, <1>3, <1>7, <3>1 DEF OnePlace
  <2>5. \A m \in 1 .. Len(backlog') : \A k \in Slots' : nsfds'[k].client # backlog'[m]
    BY <1>5, <1>6, <2>4
  <2>6. ASSUME NEW m \in 1 .. Len(backlog'), NEW n \in 1 .. Len(backlog'), backlog'[m] = backlog'[n]
        PROVE  m = n
    <3>1. m + 1 = n + 1
      BY <1>3, <2>6 DEF OnePlace
    <3> QED BY <3>1
  <2> QED BY <2>2, <2>3, <2>4, <2>5, <2>6 DEF OnePlace
<1>9. OnePID'
  BY <1>5, <1>6 DEF OnePID
<1>10. hpc # "none" => hslot \in Slots
  BY DEF TInv, InRange
<1>11. Handing'
  <2>1. hpc' # "none" => nsfds'[hslot'].echoFlag = 1
    BY <1>5, <1>10 DEF Handing, hdfnVars
  <2>2. hpc' = "store" => Len(echoes) > 0 /\ echoes[Len(echoes)].client = nsfds'[hslot'].client
    BY <1>5, <1>10 DEF Handing, hdfnVars
  <2>3. hpc' = "store" => \A k \in Slots' : nsfds'[k].echoPID # Len(echoes)
    BY <1>5, <1>6, <2>2 DEF Handing, hdfnVars
  <2> QED BY <1>2, <2>1, <2>2, <2>3 DEF Handing
<1>12. Owned'
  <2>1. SUFFICES ASSUME NEW e \in Running PROVE \E k \in Slots' : Serves(e, k)'
    BY <1>2 DEF Owned, Running
  <2>2. PICK k \in Slots : Serves(e, k)
    BY DEF Owned
  <2>3. Serves(e, k)'
    BY <1>2, <1>5, <2>2 DEF Serves, AtWork, hdfnVars
  <2> QED BY <1>4, <2>3
<1>13. Sender'
  <2>1. Running' = Running
    BY <1>2 DEF Running
  <2>2. ASSUME usr2 # 0, NEW k \in Slots', nsfds'[k].echoPID = usr2
        PROVE  nsfds'[k].echoFlag = 1 /\ ~ AtWork(k)
    <3>1. k \in Slots /\ nsfds'[k] = nsfds[k]
      BY <1>5, <1>6, <2>2
    <3> QED BY <2>2, <3>1 DEF Sender
  <2> QED BY <2>1, <2>2 DEF Sender, AtWork, signalVars, hdfnVars
<1> QED BY <1>8, <1>9, <1>11, <1>12, <1>13, AcceptType

\* ... the main loop, ...
LEMMA MainInv ==
  ASSUME IInv, Main
  PROVE  IInv'
<1> USE DEF IInv
<1>1. UNCHANGED <<signalVars, hdfnVars>>
  BY DEF Main
<1>2. UNCHANGED <<conn, backlog, nsfds>> => OnePlace'
  BY DEF OnePlace, Slots
<1>3. CASE Select
  BY <1>1, <1>2, <1>3, SelectType, Kept DEF Select, userVars, signalVars, Running
<1>4. CASE ReadSource
  BY <1>1, <1>2, <1>4, ReadSourceType, Kept DEF ReadSource, userVars, signalVars, Running
<1>5. CASE Accept
  BY <1>1, <1>5, AcceptInv
<1>6. CASE CheckClient
  BY <1>1, <1>2, <1>6, CheckClientType, Kept DEF CheckClient, userVars, signalVars, Running
<1>7. ASSUME NEW c, echoes' \in {echoes, Stray(c)}
      PROVE  /\ Len(echoes') = Len(echoes) /\ Running' = Running
             /\ \A e \in 1 .. Len(echoes) : echoes'[e].client = echoes[e].client
  BY <1>7, StrayIs DEF TInv, Running
<1>8. CASE Recv
  BY <1>1, <1>2, <1>7, <1>8, RecvType, Kept DEF Recv, signalVars
<1>9. CASE TestClient
  BY <1>1, <1>2, <1>9, TestClientType, Kept DEF TestClient, userVars, signalVars, Running
<1>10. CASE Send
  <2>1. UNCHANGED <<backlog, nsfds>> /\ \A d \in Clients : conn[d] # "none" => conn'[d] # "none"
    BY <1>10 DEF Send, TInv, TypeOK, UserTypeOK
  <2>2. \A m \in 1 .. Len(backlog) : backlog[m] \in Clients
    BY DEF TInv, TypeOK, UserTypeOK
  <2>3. OnePlace'
    BY <2>1, <2>2, EntryType DEF OnePlace, Slots
  <2> QED BY <1>1, <1>7, <1>10, <2>1, <2>3, SendType, Kept DEF Send, signalVars
<1> QED BY <1>3, <1>4, <1>5, <1>6, <1>8, <1>9, <1>10 DEF Main

\* ... and the echo process.
LEMMA EchoProcessInv ==
  ASSUME IInv, NEW e \in Running, EchoProcess(e)
  PROVE  IInv'
<1> USE DEF IInv
<1>1. UNCHANGED <<typed, backlog, nsfds, mainVars, usr1, signals, hdfnVars>>
  BY DEF EchoProcess
<1>2. e \in 1 .. Len(echoes) /\ Len(echoes) \in Nat /\ Running \subseteq 1 .. Len(echoes)
  BY DEF Running, TInv, TypeOK
<1>3. TInv'
  BY <1>2, EchoProcessType
<1>4. \A f \in 1 .. Len(echoes) : echoes[f] \in EchoRecords
  BY DEF TInv, TypeOK
<1>5. ASSUME NEW pc, echoes' = [echoes EXCEPT ![e].pc = pc]
      PROVE  /\ Len(echoes') = Len(echoes)
             /\ \A f \in 1 .. Len(echoes) : /\ echoes'[f].client = echoes[f].client
                                          /\ echoes'[f].pc = IF f = e THEN pc ELSE echoes[f].pc
  <2>1. echoes' = [echoes EXCEPT ![e] = [echoes[e] EXCEPT !.pc = pc]]
    BY <1>5
  <2>2. Len(echoes') = Len(echoes)
    BY <2>1 DEF TInv, TypeOK
  <2>3. \A f \in 1 .. Len(echoes) : echoes'[f] = IF f = e THEN [echoes[e] EXCEPT !.pc = pc] ELSE echoes[f]
    BY <1>2, <2>1 DEF TInv, TypeOK
  <2> QED BY <1>4, <2>2, <2>3 DEF EchoRecords
<1>6. PICK pc : echoes' = [echoes EXCEPT ![e].pc = pc]
  BY DEF EchoProcess, Greet, Echo, RecvQuit, Quit, EchoSend
<1>7. Running' \subseteq Running
  BY <1>2, <1>5, <1>6 DEF Running
<1>8. OnePlace'
  <2>1. \A d \in Clients : conn[d] # "none" => conn'[d] # "none"
    BY DEF EchoProcess, Greet, Echo, RecvQuit, Quit, EchoSend, TInv, TypeOK, UserTypeOK
  <2>2. \A m \in 1 .. Len(backlog) : backlog[m] \in Clients
    BY DEF TInv, TypeOK, UserTypeOK
  <2> QED BY <1>1, <2>1, <2>2, EntryType DEF OnePlace, Slots
<1>9. CASE usr2' = usr2
  BY <1>1, <1>3, <1>5, <1>6, <1>7, <1>8, <1>9, Kept
<1>10. CASE usr2' = e /\ echoes' = [echoes EXCEPT ![e].pc = "gone"]
  <2>1. Slots' = Slots
    BY <1>1 DEF Slots
  <2>2. Handing' /\ OnePID'
    <3>1. Len(echoes) > 0 => Len(echoes) \in 1 .. Len(echoes)
      BY <1>2
    <3> QED BY <1>1, <1>5, <1>6, <2>1, <3>1 DEF Handing, OnePID, hdfnVars
  <2>3. Owned'
    BY <1>1, <1>2, <1>5, <1>6, <1>7, <2>1 DEF Owned, Serves, AtWork, hdfnVars
  <2>4. e \notin Running'
    BY <1>2, <1>5, <1>10 DEF Running
  <2>5. ASSUME NEW k \in Slots, nsfds[k].echoPID = e
        PROVE  nsfds[k].echoFlag = 1 /\ ~ AtWork(k)
    <3>1. PICK l \in Slots : Serves(e, l)
      BY DEF Owned
    <3>2. ~ AtWork(l)
      BY <2>5, <3>1 DEF Serves, Handing
    <3>3. e # 0
      BY <1>2
    <3>4. l = k
      BY <2>5, <3>1, <3>2, <3>3 DEF Serves, OnePID
    <3> QED BY <3>1, <3>2, <3>4 DEF Serves
  <2>6. Sender'
    BY <1>1, <1>10, <2>1, <2>4, <2>5 DEF Sender, AtWork, hdfnVars
  <2> QED BY <1>3, <1>8, <2>2, <2>3, <2>6
<1> QED BY <1>9, <1>10 DEF EchoProcess, Greet, Echo, RecvQuit, Quit

\* Every step keeps the invariant.
LEMMA IInvStep == IInv /\ [Next]_vars => IInv'
<1> SUFFICES ASSUME IInv, [Next]_vars PROVE IInv'
  OBVIOUS
<1>1. CASE SendSignal
  <2>1. TInv'
    BY <1>1, SendSignalType DEF IInv
  <2>2. OnePlace'
    BY <1>1 DEF SendSignal, userVars, IInv, OnePlace, Slots
  <2> QED BY <1>1, <2>1, <2>2, Kept DEF SendSignal, Running
<1>2. CASE Handlers
  BY <1>2, HdfnInv, ForkInv, StorePIDInv DEF Handlers
<1>3. CASE UNCHANGED vars
  <2>1. TInv'
    BY <1>3, TInvStep DEF IInv
  <2>2. OnePlace'
    BY <1>3 DEF vars, userVars, IInv, OnePlace, Slots
  <2> QED BY <1>3, <2>1, <2>2, Kept DEF vars, signalVars, Running
<1> QED BY <1>1, <1>2, <1>3, UserInv, GetPidInv, MainInv, EchoProcessInv DEF Next

\* No client ever has two echo processes, for any number of clients, texts and
\* signals.
THEOREM OneEchoHolds == Spec => []OneEcho
BY InitInv, IInvStep, OwnedIsOne, PTL DEF Spec

(***************************************************************************)
(* One message between the loop of main and a client that has an echo.     *)
(***************************************************************************)

\* Main has made its test and is about to exchange a message with client c.
InFlight(c) == \/ spc = "recv" /\ nsfds[i].client = c
               \/ spc = "send" /\ nsfds[j].client = c

\* An echo process that started while a message was in flight meets that one
\* and no other.
StrayInv ==
  \A e \in 1 .. Len(echoes) :
    /\ echoes[e].stray <= 1
    /\ e \in Running /\ InFlight(echoes[e].client) => echoes[e].stray = 0

\* A step that adds no message and puts none in flight.
LEMMA StrayKept ==
  ASSUME StrayInv, Len(echoes') = Len(echoes), Running' \subseteq Running,
         \A e \in 1 .. Len(echoes) : /\ echoes'[e].client = echoes[e].client
                                  /\ echoes'[e].stray = echoes[e].stray,
         \A c : InFlight(c)' => InFlight(c)
  PROVE  StrayInv'
BY DEF StrayInv

\* The handlers change flags and pids only.
LEMMA ClientsKept ==
  ASSUME TInv, Hdfn \/ StorePID \/ GetPid
  PROVE  \A k \in Slots : nsfds'[k].client = nsfds[k].client
<1>1. \A k \in Slots : nsfds[k] \in Entries
  BY EntryType
<1>0. nsfds \in Seq(Entries)
  BY DEF TInv, TypeOK
<1>2. ASSUME NEW k \in Slots, Mark(k) PROVE \A l \in Slots : nsfds'[l].client = nsfds[l].client
  <2>1. \A l \in Slots : nsfds'[l] = IF l = k THEN [nsfds[l] EXCEPT !.echoFlag = 1] ELSE nsfds[l]
    BY <1>0, <1>2 DEF Mark, Slots
  <2> QED BY <1>1, <2>1 DEF Entries
<1>3. CASE Hdfn
  BY <1>2, <1>3 DEF Hdfn
<1>4. CASE StorePID
  <2>1. \A l \in Slots : nsfds'[l] = IF l = hslot THEN [nsfds[l] EXCEPT !.echoPID = Len(echoes)]
                                                 ELSE nsfds[l]
    BY <1>0, <1>4 DEF StorePID, Slots
  <2> QED BY <1>1, <2>1 DEF Entries
<1>5. CASE GetPid
  BY <1>5, RemoveEchoIs DEF GetPid, TInv
<1> QED BY <1>3, <1>4, <1>5

\* The handlers keep StrayInv, ...
LEMMA HandlersStray ==
  ASSUME TInv, StrayInv, Hdfn \/ StorePID \/ GetPid
  PROVE  StrayInv'
<1>1. echoes' = echoes
  BY DEF Hdfn, StorePID, GetPid
<1>2. UNCHANGED <<i, j>> /\ (spc' = spc \/ spc' = "test")
  BY DEF Hdfn, StorePID, GetPid, mainVars
<1>3. \A c : InFlight(c)' => InFlight(c)
  BY <1>2, ClientsKept DEF InFlight, TInv, InRange
<1> QED BY <1>1, <1>3, StrayKept DEF Running

\* ... and so do a fork, ...
LEMMA ForkStray ==
  ASSUME TInv, StrayInv, Fork
  PROVE  StrayInv'
<1> DEFINE N == Len(echoes)
<1>1. /\ UNCHANGED <<nsfds, spc, i, j>> /\ N \in Nat
      /\ echoes' = Append(echoes, [client |-> nsfds[hslot].client, stray |-> 0, pc |-> "greet"])
  BY DEF Fork, mainVars, TInv, TypeOK
<1>2. /\ Len(echoes') = N + 1 /\ echoes'[N + 1].stray = 0
      /\ \A e \in 1 .. N : echoes'[e] = echoes[e]
  BY <1>1 DEF TInv, TypeOK
<1>3. \A c : InFlight(c)' <=> InFlight(c)
  BY <1>1 DEF InFlight
<1>4. \A e \in 1 .. N + 1 : e \in 1 .. N \/ e = N + 1
  BY <1>1
<1> QED BY <1>2, <1>3, <1>4 DEF StrayInv, Running

\* Nothing is put in flight to a client that has an echo.
LEMMA MarkedIsLeft ==
  ASSUME IInv, NEW k \in Slots, nsfds[k].echoFlag = 0, NEW e \in Running
  PROVE  echoes[e].client # nsfds[k].client
<1>1. PICK l \in Slots : Serves(e, l)
  BY DEF IInv, Owned
<1>2. l # k
  BY <1>1 DEF Serves
<1> QED BY <1>1, <1>2 DEF IInv, OnePlace, Serves

\* The message in flight is exchanged.
LEMMA StrayAdded ==
  ASSUME TInv, StrayInv, NEW c, InFlight(c), \A d : ~ InFlight(d)',
         echoes' \in {echoes, Stray(c)}
  PROVE  StrayInv'
<1>1. CASE echoes' = echoes
  BY <1>1 DEF StrayInv
<1>2. CASE echoes' = Stray(c)
  <2>1. Len(echoes') = Len(echoes)
    BY <1>2, StrayIs DEF TInv
  <2>2. ASSUME NEW e \in 1 .. Len(echoes) PROVE echoes'[e].stray <= 1
    <3>1. echoes[e] \in EchoRecords
      BY DEF TInv, TypeOK
    <3>2. echoes'[e] = IF e \in EchoesOf(c) THEN [echoes[e] EXCEPT !.stray = @ + 1] ELSE echoes[e]
      BY <1>2 DEF Stray
    <3>3. CASE e \in EchoesOf(c)
      <4>1. echoes[e].stray = 0
        BY <3>3 DEF StrayInv, EchoesOf
      <4>2. echoes'[e] = [echoes[e] EXCEPT !.stray = 1]
        BY <3>2, <3>3, <4>1
      <4> QED BY <3>1, <4>2 DEF EchoRecords
    <3>4. CASE e \notin EchoesOf(c)
      BY <3>2, <3>4 DEF StrayInv
    <3> QED BY <3>3, <3>4
  <2> QED BY <2>1, <2>2 DEF StrayInv
<1> QED BY <1>1, <1>2

\* ... the main loop, ...
LEMMA MainStray ==
  ASSUME IInv, StrayInv, Main
  PROVE  StrayInv'
<1> USE DEF IInv
<1>1. CASE Select \/ ReadSource \/ Accept
  <2>1. echoes' = echoes /\ \A c : ~ InFlight(c)'
    BY <1>1 DEF Select, ReadSource, Accept, InFlight
  <2> QED BY <2>1 DEF StrayInv
<1>2. CASE CheckClient
  <2>1. UNCHANGED <<nsfds, echoes>> /\ spc' # "send"
    BY <1>2 DEF CheckClient
  <2>2. spc' = "recv" => i \in Slots /\ i' = i /\ nsfds[i].echoFlag = 0
    BY <1>2 DEF CheckClient
  <2>3. \A e \in Running : ~ InFlight(echoes[e].client)'
    BY <2>1, <2>2, MarkedIsLeft DEF InFlight
  <2> QED BY <2>1, <2>3 DEF StrayInv, Running
<1>3. CASE TestClient
  <2>1. UNCHANGED <<nsfds, echoes>> /\ spc' # "recv"
    BY <1>3 DEF TestClient
  <2>2. spc' = "send" => j \in Slots /\ j' = j /\ nsfds[j].echoFlag # 1
    BY <1>3 DEF TestClient, Skipped
  <2>3. j \in Slots => nsfds[j].echoFlag \in {0, 1}
    BY EntryType DEF Entries
  <2>4. \A e \in Running : ~ InFlight(echoes[e].client)'
    BY <2>1, <2>2, <2>3, MarkedIsLeft DEF InFlight
  <2> QED BY <2>1, <2>4 DEF StrayInv, Running
<1>4. CASE Recv
  <2>1. spc = "recv" /\ spc' = "test" /\ echoes' \in {echoes, Stray(nsfds[i].client)}
    BY <1>4 DEF Recv, InRecv
  <2> QED BY <2>1, StrayAdded DEF InFlight
<1>5. CASE Send
  <2>1. spc = "send" /\ spc' \in {"test", "dead"} /\ echoes' \in {echoes, Stray(nsfds[j].client)}
    BY <1>5 DEF Send
  <2> QED BY <2>1, StrayAdded DEF InFlight
<1> QED BY <1>1, <1>2, <1>3, <1>4, <1>5 DEF Main

\* ... and the echo process.
LEMMA EchoProcessStray ==
  ASSUME TInv, StrayInv, NEW e \in Running, EchoProcess(e)
  PROVE  StrayInv'
<1>1. UNCHANGED <<nsfds, mainVars>>
  BY DEF EchoProcess
<1>2. PICK pc : echoes' = [echoes EXCEPT ![e].pc = pc]
  BY DEF EchoProcess, Greet, Echo, RecvQuit, Quit, EchoSend
<1>3. e \in 1 .. Len(echoes) /\ \A f \in 1 .. Len(echoes) : echoes[f] \in EchoRecords
  BY DEF Running, TInv, TypeOK
<1>4. Len(echoes') = Len(echoes)
  BY <1>2 DEF TInv, TypeOK
<1>5. \A f \in 1 .. Len(echoes) : echoes'[f] = IF f = e THEN [echoes[e] EXCEPT !.pc = pc] ELSE echoes[f]
  BY <1>2 DEF TInv, TypeOK
<1>6. \A f \in 1 .. Len(echoes) : /\ echoes'[f].client = echoes[f].client
                                 /\ echoes'[f].stray = echoes[f].stray
  BY <1>3, <1>5 DEF EchoRecords
<1>7. Running' \subseteq Running
  <2>1. ASSUME NEW f \in Running', f # e PROVE f \in Running
    <3>1. f \in 1 .. Len(echoes) /\ echoes'[f].pc # "gone"
      BY <1>4 DEF Running
    <3>2. echoes'[f] = echoes[f]
      BY <1>5, <2>1, <3>1
    <3> QED BY <3>1, <3>2 DEF Running
  <2> QED BY <2>1
<1>8. \A c : InFlight(c)' => InFlight(c)
  BY <1>1 DEF InFlight, mainVars
<1> QED BY <1>4, <1>6, <1>7, <1>8, StrayKept

\* Every step keeps StrayInv.
LEMMA StrayStep == IInv /\ StrayInv /\ [Next]_vars => StrayInv'
<1> SUFFICES ASSUME IInv, StrayInv, [Next]_vars PROVE StrayInv'
  OBVIOUS
<1>1. CASE UNCHANGED <<nsfds, mainVars, echoes>>
  BY <1>1 DEF StrayInv, InFlight, Running, mainVars
<1>2. CASE Handlers \/ GetPid
  BY <1>2, HandlersStray, ForkStray DEF Handlers, IInv
<1> QED BY <1>1, <1>2, MainStray, EchoProcessStray DEF Next, User, SendSignal, vars, IInv

\* The loop of main exchanges one message at most with a client that has been
\* handed over, for any number of clients, texts and signals.
THEOREM OneStrayHolds == Spec => []OneStray
<1>1. Init => StrayInv
  BY DEF Init, StrayInv
<1>2. StrayInv => OneStray
  BY DEF StrayInv, OneStray
<1> QED BY <1>1, <1>2, InitInv, IInvStep, StrayStep, PTL DEF Spec

(***************************************************************************)
(* What makes recv block.                                                  *)
(***************************************************************************)

\* recv from client c returns at once.
Something(c) == wire[c] # <<>> \/ conn[c] # "open"

\* Client c has, or has had, an echo process.
Echoed(c) == \E e \in 1 .. Len(echoes) : echoes[e].client = c

\* This round of the loop has not read from entry k yet.
Pending(k) == k > i \/ (k = i /\ (stage # 6 \/ spc \in {"check", "recv"}))

\* A client that select has found, and that is not read yet, still has something to read,
\* or an echo process.
BlockInv ==
  /\ \A c \in Clients, k \in Slots : Pending(k) /\ nsfds[k].client = c /\ c \in ready =>
       Something(c) \/ Echoed(c)
  /\ spc = "recv" => nsfds[i].client \in ready
  /\ \A c \in Clients : c \in ready => \E k \in Slots : nsfds[k].client = c
  /\ spc = "select" => ready = {}

\* Echo processes are not forgotten.
LEMMA EchoedStays ==
  ASSUME TInv, Next
  PROVE  \A c : Echoed(c) => Echoed(c)'
<1>1. CASE echoes' = echoes
  BY <1>1 DEF Echoed
<1>2. CASE Fork
  <2>1. /\ Len(echoes') = Len(echoes) + 1 /\ Len(echoes) \in Nat
        /\ \A e \in 1 .. Len(echoes) : echoes'[e] = echoes[e]
    BY <1>2 DEF Fork, TInv, TypeOK
  <2> QED BY <2>1 DEF Echoed
<1>3. ASSUME NEW c, echoes' = Stray(c) PROVE \A d : Echoed(d) => Echoed(d)'
  <2>1. Len(echoes') = Len(echoes)
    BY <1>3, StrayIs DEF TInv
  <2>2. \A e \in 1 .. Len(echoes) : echoes[e] \in EchoRecords
    BY DEF TInv, TypeOK
  <2>3. \A e \in 1 .. Len(echoes) :
          echoes'[e] = IF e \in EchoesOf(c) THEN [echoes[e] EXCEPT !.stray = @ + 1] ELSE echoes[e]
    BY <1>3 DEF Stray
  <2>4. \A e \in 1 .. Len(echoes) : echoes'[e].client = echoes[e].client
    BY <2>2, <2>3 DEF EchoRecords
  <2> QED BY <2>1, <2>4 DEF Echoed
<1>4. ASSUME NEW e \in Running, EchoProcess(e) PROVE \A c : Echoed(c) => Echoed(c)'
  <2>1. PICK pc : echoes' = [echoes EXCEPT ![e].pc = pc]
    BY <1>4 DEF EchoProcess, Greet, Echo, RecvQuit, Quit, EchoSend
  <2>2. \A f \in 1 .. Len(echoes) : echoes[f] \in EchoRecords
    BY DEF TInv, TypeOK
  <2>3. Len(echoes') = Len(echoes)
    BY <2>1 DEF TInv, TypeOK
  <2>4. \A f \in 1 .. Len(echoes) :
          echoes'[f] = IF f = e THEN [echoes[f] EXCEPT !.pc = pc] ELSE echoes[f]
    BY <2>1 DEF TInv, TypeOK
  <2>5. \A f \in 1 .. Len(echoes) : echoes'[f].client = echoes[f].client
    BY <2>2, <2>4 DEF EchoRecords
  <2> QED BY <2>3, <2>5 DEF Echoed
<1>5. CASE Recv \/ Send
  <2>1. \E c : echoes' \in {echoes, Stray(c)}
    BY <1>5 DEF Recv, Send
  <2> QED BY <1>1, <1>3, <2>1
<1>6. CASE Hdfn \/ StorePID \/ GetPid \/ SendSignal \/ \E c \in Clients : User(c)
  BY <1>1, <1>6 DEF Hdfn, StorePID, GetPid, SendSignal, User
<1>7. CASE Select \/ ReadSource \/ Accept \/ CheckClient \/ TestClient
  BY <1>1, <1>7 DEF Select, ReadSource, Accept, CheckClient, TestClient
<1> QED BY <1>2, <1>4, <1>5, <1>6, <1>7 DEF Next, Handlers, Main

\* A step that leaves the entries and what select has found alone.
LEMMA BlockKept ==
  ASSUME BlockInv, Slots' = Slots, \A k \in Slots : nsfds'[k].client = nsfds[k].client,
         UNCHANGED ready, spc' = "recv" => nsfds'[i'].client \in ready, spc' # "select",
         \A k \in Slots : Pending(k)' => Pending(k),
         \A c : Echoed(c) => Echoed(c)',
         \A c \in Clients, k \in Slots : Pending(k)' /\ nsfds[k].client = c /\ Something(c) =>
                           Something(c)' \/ Echoed(c)'
  PROVE  BlockInv'
<1>1. ASSUME NEW c \in Clients, NEW k \in Slots,
             Pending(k)', nsfds[k].client = c, c \in ready
      PROVE  Something(c)' \/ Echoed(c)'
  BY <1>1 DEF BlockInv
<1>2. \A c \in Clients, k \in Slots' : Pending(k)' /\ nsfds'[k].client = c /\ c \in ready' =>
        Something(c)' \/ Echoed(c)'
  BY <1>1
<1>3. \A c \in Clients : c \in ready' => \E k \in Slots' : nsfds'[k].client = c
  BY DEF BlockInv
<1> QED BY <1>2, <1>3 DEF BlockInv

\* Users put things into connections only.
LEMMA UserBlock ==
  ASSUME IInv, BlockInv, Next, \E c \in Clients : User(c)
  PROVE  BlockInv'
<1>1. UNCHANGED <<nsfds, ready, spc, stage, i>>
  BY DEF User, mainVars
<1>2. PICK c \in Clients : User(c)
  OBVIOUS
<1>3. ASSUME NEW d \in Clients, Something(d), conn[d] # "none" PROVE Something(d)'
  <2>1. /\ conn \in [Clients -> {"none", "open", "closed", "reset"}]
        /\ wire \in [Clients -> Seq(Texts)]
    BY DEF IInv, TInv, TypeOK, UserTypeOK
  <2>2. CASE Connect(c)
    BY <1>3, <2>1, <2>2 DEF Connect, Something
  <2>3. CASE Leave(c)
    BY <1>3, <2>1, <2>3 DEF Leave, Something
  <2>4. ASSUME NEW t \in Texts, SendText(c, t) PROVE Something(d)'
    <3>1. wire' = [wire EXCEPT ![c] = Append(@, t)] /\ conn' = conn
      BY <2>4 DEF SendText
    <3>2. wire[c] \in Seq(Texts) /\ wire'[c] = Append(wire[c], t)
      BY <2>1, <3>1
    <3>3. wire'[c] # <<>>
      BY <3>2
    <3>4. d # c => wire'[d] = wire[d]
      BY <2>1, <3>1
    <3> QED BY <1>3, <3>1, <3>3, <3>4 DEF Something
  <2> QED BY <1>2, <2>2, <2>3, <2>4 DEF User
<1>4. \A k \in Slots : nsfds[k].client \in Clients /\ conn[nsfds[k].client] # "none"
  BY EntryType DEF IInv, OnePlace
<1>5. \A d \in Clients, k \in Slots : nsfds[k].client = d /\ Something(d) => Something(d)'
  BY <1>3, <1>4
<1>6. \A e : Echoed(e) => Echoed(e)'
  BY EchoedStays DEF IInv
<1>7. \A k : Pending(k)' <=> Pending(k)
  BY <1>1 DEF Pending
<1>8. Slots' = Slots
  BY <1>1 DEF Slots
<1>9. CASE spc = "select"
  BY <1>1, <1>9 DEF BlockInv
<1>10. CASE spc # "select"
  <2>1. spc' = "recv" => nsfds'[i'].client \in ready
    BY <1>1 DEF BlockInv
  <2> QED BY <1>1, <1>5, <1>6, <1>7, <1>8, <1>10, <2>1, BlockKept
<1> QED BY <1>9, <1>10

\* Handlers change flags and pids; get_pid may end a recv.
LEMMA HandlersBlock ==
  ASSUME IInv, BlockInv, Next, Handlers \/ GetPid \/ SendSignal
  PROVE  BlockInv'
<1>1. UNCHANGED <<ready, stage, i, wire, conn>>
  BY DEF Handlers, Hdfn, Fork, StorePID, GetPid, SendSignal, mainVars, userVars
<1>2. spc' = spc \/ (spc = "recv" /\ spc' = "test")
  BY DEF Handlers, Hdfn, Fork, StorePID, GetPid, SendSignal, mainVars, NothingToRead, InRecv
<1>3. Slots' = Slots /\ \A k \in Slots : nsfds'[k].client = nsfds[k].client
  <2>1. CASE Fork \/ SendSignal
    BY <2>1 DEF Fork, SendSignal, Slots
  <2>2. CASE Hdfn \/ StorePID
    <3>1. Len(nsfds') = Len(nsfds)
      BY <2>2 DEF Hdfn, StorePID, Mark, IInv, TInv, TypeOK
    <3> QED BY <2>2, <3>1, ClientsKept DEF Slots, IInv
  <2>3. CASE GetPid
    <3>1. Len(nsfds') = Len(nsfds)
      BY <2>3, RemoveEchoIs DEF GetPid, IInv, TInv
    <3> QED BY <2>3, <3>1, ClientsKept DEF Slots, IInv
  <2> QED BY <2>1, <2>2, <2>3 DEF Handlers
<1>4. \A c : (Something(c) => Something(c)') /\ (Echoed(c) => Echoed(c)')
  BY <1>1, EchoedStays DEF Something, IInv
<1>5. \A k : Pending(k)' => Pending(k)
  BY <1>1, <1>2 DEF Pending
<1>6. spc = "recv" => i \in Slots /\ nsfds[i].client \in ready
  BY DEF BlockInv, IInv, TInv, InRange
<1>7. CASE spc = "select"
  <2>1. ready' = {} /\ spc' # "recv"
    BY <1>1, <1>2, <1>7 DEF BlockInv
  <2> QED BY <2>1 DEF BlockInv
<1>8. CASE spc # "select"
  <2>1. spc' # "select" /\ (spc' = "recv" => nsfds'[i'].client \in ready)
    BY <1>1, <1>2, <1>3, <1>6, <1>8
  <2> QED BY <1>1, <1>3, <1>4, <1>5, <2>1, BlockKept
<1> QED BY <1>7, <1>8

\* select finds what can be read; accept adds a client that it has not found.
LEMMA SelectBlock ==
  ASSUME IInv, BlockInv, Select
  PROVE  BlockInv'
<1>1. PICK heard \in SUBSET Sources : ready' = heard \union Readable
  BY DEF Select
<1>2. spc' = "check" /\ UNCHANGED <<nsfds, wire, conn, echoes, i>>
  BY DEF Select, userVars
<1>3. \A c \in Clients : c \notin Sources /\ c # "accept"
  BY NamesAssumption, SourcesAssumption
<1>4. \A c \in Clients : c \in ready' => c \in ReadableClients
  BY <1>1, <1>3 DEF Readable
<1>5. \A c \in ReadableClients : Something(c)' /\ \E k \in Slots : nsfds[k].client = c
  BY <1>2 DEF ReadableClients, Something
<1>6. \A k \in Slots : nsfds[k].client \in Clients
  BY EntryType DEF IInv
<1>7. Slots' = Slots
  BY <1>2 DEF Slots
<1>8. \A c \in Clients, k \in Slots : nsfds'[k].client = c /\ c \in ready' => Something(c)'
  BY <1>2, <1>4, <1>5, <1>6
<1>9. \A c \in Clients : c \in ready' => \E k \in Slots' : nsfds'[k].client = c
  BY <1>2, <1>4, <1>5, <1>7
<1> QED BY <1>2, <1>7, <1>8, <1>9 DEF BlockInv

\* An accept keeps BlockInv.
LEMMA AcceptBlock ==
  ASSUME IInv, BlockInv, Accept
  PROVE  BlockInv'
<1> DEFINE N == Len(nsfds)
<1>1. /\ backlog # <<>> /\ stage = 2
  BY StageIs DEF Accept, IInv, TInv, InRange, TypeOK, MainTypeOK
<1>2. /\ spc = "check" /\ UNCHANGED <<spc, i, ready, wire, conn, echoes>>
      /\ nsfds' = Append(nsfds, [client |-> Head(backlog), echoFlag |-> 0, echoPID |-> 0])
  BY DEF Accept
<1>3. /\ N \in Nat /\ Len(nsfds') = N + 1 /\ nsfds'[N + 1].client = Head(backlog)
      /\ \A k \in 1 .. N : nsfds'[k] = nsfds[k]
  BY <1>2 DEF IInv, TInv, TypeOK
<1>4. Head(backlog) \in Clients /\ Head(backlog) \notin ready
  <2>1. 1 \in 1 .. Len(backlog) /\ Head(backlog) = backlog[1] /\ Head(backlog) \in Clients
    BY <1>1 DEF IInv, TInv, TypeOK, UserTypeOK
  <2>2. \A k \in Slots : nsfds[k].client # Head(backlog)
    BY <2>1 DEF IInv, OnePlace
  <2> QED BY <2>1, <2>2 DEF BlockInv
<1>5. \A k \in Slots' : k \in Slots \/ k = N + 1
  BY <1>3 DEF Slots
<1>6. Slots \subseteq Slots'
  BY <1>3 DEF Slots
<1>7. ASSUME NEW c \in Clients, NEW k \in Slots',
             Pending(k)', nsfds'[k].client = c, c \in ready'
      PROVE  Something(c)' \/ Echoed(c)'
  <2>1. k \in Slots /\ nsfds'[k] = nsfds[k]
    BY <1>2, <1>3, <1>4, <1>5, <1>7 DEF Slots
  <2>2. Pending(k)
    BY <1>1, <1>2, <1>7 DEF Pending
  <2>3. Something(c) \/ Echoed(c)
    BY <1>2, <1>7, <2>1, <2>2 DEF BlockInv
  <2> QED BY <1>2, <2>3 DEF Something, Echoed
<1>8. \A c \in Clients : c \in ready' => \E k \in Slots' : nsfds'[k].client = c
  <2>1. \A k \in Slots : nsfds'[k].client = nsfds[k].client
    BY <1>3 DEF Slots
  <2> QED BY <1>2, <1>6, <2>1 DEF BlockInv
<1> QED BY <1>2, <1>7, <1>8 DEF BlockInv

\* The rest of main reads from entry i, or goes on.
LEMMA MainBlock ==
  ASSUME IInv, BlockInv, Next, Main
  PROVE  BlockInv'
<1> USE DEF IInv
<1>0. stage \in 1 .. 6 /\ i \in Nat /\ \A c : Echoed(c) => Echoed(c)'
  BY EchoedStays, StageIs DEF TInv, TypeOK, MainTypeOK
<1>1. CASE ReadSource
  <2>1. stage # 6
    BY <1>0, <1>1, StageIs, NamesDiffer DEF ReadSource
  <2>2. spc' = "test" /\ UNCHANGED <<nsfds, ready, stage, i, wire, conn>>
    BY <1>1 DEF ReadSource, userVars
  <2>3. Slots' = Slots /\ \A k : Pending(k)' => Pending(k)
    BY <2>1, <2>2 DEF Slots, Pending
  <2> QED BY <1>0, <2>2, <2>3, BlockKept DEF Something
<1>2. CASE CheckClient
  <2>1. spc = "check" /\ UNCHANGED <<nsfds, wire, conn, echoes>>
    BY <1>2 DEF CheckClient, userVars
  <2>2. CASE spc' = "select"
    <3>1. ready' = {}
      BY <2>1, <2>2, <1>2 DEF CheckClient
    <3> QED BY <2>2, <3>1 DEF BlockInv
  <2>3. CASE spc' # "select"
    <3>1. /\ UNCHANGED <<ready, stage>> /\ i' \in {i, i + 1}
          /\ spc' = "recv" => i' = i /\ nsfds[i].client \in ready
      BY <2>3, <1>2 DEF CheckClient, IsReady
    <3>2. Slots' = Slots /\ \A k \in Slots : Pending(k)' => Pending(k)
      BY <1>0, <2>1, <3>1 DEF Slots, Pending
    <3> QED BY <1>0, <2>1, <2>3, <3>1, <3>2, BlockKept DEF Something
  <2> QED BY <2>2, <2>3
<1>3. CASE Recv
  <2>1. /\ spc = "recv" /\ spc' = "test" /\ UNCHANGED <<nsfds, ready, stage, i, conn>>
        /\ wire' = [wire EXCEPT ![nsfds[i].client] = <<>>]
    BY <1>3 DEF Recv, InRecv
  <2>2. stage = 6 /\ i \in Slots
    BY <2>1 DEF TInv, InRange
  <2>3. Slots' = Slots /\ \A k \in Slots : Pending(k)' => Pending(k) /\ k # i
    BY <2>1, <2>2 DEF Slots, Pending
  <2>4. ASSUME NEW c \in Clients, NEW k \in Slots, k # i, nsfds[k].client = c
        PROVE  wire'[c] = wire[c]
    <3>1. nsfds[k].client # nsfds[i].client
      BY <2>2, <2>4 DEF OnePlace
    <3> QED BY <2>1, <2>4, <3>1 DEF TInv, TypeOK, UserTypeOK
  <2> QED BY <1>0, <2>1, <2>3, <2>4, BlockKept DEF Something
<1>4. CASE TestClient
  <2>1. /\ spc = "test" /\ UNCHANGED <<nsfds, ready, wire, conn>> /\ spc' \in {"check", "test", "send"}
    BY <1>4 DEF TestClient, userVars
  <2>2. \/ stage = 6 /\ i' = i + 1
        \/ stage # 6 /\ i' = i
        \/ UNCHANGED <<stage, i>> /\ spc' # "check"
    BY <1>0, <1>4, StageIs DEF TestClient
  <2>3. Slots' = Slots /\ \A k \in Slots : Pending(k)' => Pending(k)
    BY <1>0, <2>1, <2>2 DEF Slots, Pending
  <2> QED BY <1>0, <2>1, <2>3, BlockKept DEF Something
<1>5. CASE Send
  <2>1. /\ spc = "send" /\ spc' \in {"test", "dead"} /\ UNCHANGED <<nsfds, ready, stage, i, wire>>
        /\ \A c \in Clients : conn[c] # "open" => conn'[c] # "open"
    BY <1>5 DEF Send, TInv, TypeOK, UserTypeOK
  <2>2. \A c \in Clients : Something(c) => Something(c)'
    BY <2>1 DEF Something
  <2>3. Slots' = Slots /\ \A k : Pending(k)' => Pending(k)
    BY <2>1 DEF Slots, Pending
  <2> QED BY <1>0, <2>1, <2>2, <2>3, BlockKept
<1> QED BY <1>1, <1>2, <1>3, <1>4, <1>5, SelectBlock, AcceptBlock DEF Main

\* An echo process reads what its own client has sent.
LEMMA EchoProcessBlock ==
  ASSUME IInv, BlockInv, Next, NEW e \in Running, EchoProcess(e)
  PROVE  BlockInv'
<1>1. UNCHANGED <<nsfds, ready, spc, stage, i>>
  BY DEF EchoProcess, mainVars
<1>2. /\ Echoed(echoes[e].client) /\ \A c : Echoed(c) => Echoed(c)'
  BY EchoedStays DEF Echoed, Running, IInv
<1>3. ASSUME NEW c \in Clients, Something(c) PROVE Something(c)' \/ c = echoes[e].client
  <2>1. /\ conn \in [Clients -> {"none", "open", "closed", "reset"}]
        /\ wire \in [Clients -> Seq(Texts)]
    BY DEF IInv, TInv, TypeOK, UserTypeOK
  <2>2. c # echoes[e].client => wire'[c] = wire[c] /\ conn'[c] = conn[c]
    BY <2>1 DEF EchoProcess, Greet, Echo, RecvQuit, Quit, EchoSend
  <2> QED BY <1>3, <2>2 DEF Something
<1>5. \A c \in Clients : Something(c) => Something(c)' \/ Echoed(c)'
  BY <1>2, <1>3
<1>6. Slots' = Slots /\ \A k : Pending(k)' => Pending(k)
  BY <1>1 DEF Slots, Pending
<1>7. CASE spc = "select"
  BY <1>1, <1>7 DEF BlockInv
<1>8. CASE spc # "select"
  <2>1. spc' = "recv" => nsfds'[i'].client \in ready
    BY <1>1 DEF BlockInv
  <2> QED BY <1>1, <1>2, <1>5, <1>6, <1>8, <2>1, BlockKept
<1> QED BY <1>7, <1>8

\* Nothing but an echo process that reads first makes the server block in recv, for any
\* number of clients, texts and signals.
THEOREM BlockedByEchoHolds == Spec => []BlockedByEcho
<1>1. Init => BlockInv
  BY DEF Init, BlockInv
<1>2. IInv /\ BlockInv /\ [Next]_vars => BlockInv'
  <2> SUFFICES ASSUME IInv, BlockInv, [Next]_vars PROVE BlockInv'
    OBVIOUS
  <2>1. CASE UNCHANGED vars
    BY <2>1 DEF vars, userVars, mainVars, BlockInv, Slots, Pending, Something, Echoed
  <2>2. CASE Next
    BY <2>2, UserBlock, HandlersBlock, MainBlock, EchoProcessBlock DEF Next
  <2> QED BY <2>1, <2>2
<1>3. IInv /\ BlockInv => BlockedByEcho
  <2> SUFFICES ASSUME IInv, BlockInv, NothingToRead PROVE Echoed(nsfds[i].client)
    BY DEF BlockedByEcho, Echoed
  <2>1. i \in Slots /\ nsfds[i].client \in ready /\ Pending(i) /\ ~ Something(nsfds[i].client)
    BY DEF NothingToRead, InRecv, BlockInv, IInv, TInv, InRange, Pending, Something
  <2>2. nsfds[i].client \in Clients
    BY <2>1, EntryType DEF IInv
  <2> QED BY <2>1, <2>2 DEF BlockInv
<1> QED BY <1>1, <1>2, <1>3, InitInv, IInvStep, PTL DEF Spec
=============================================================================
