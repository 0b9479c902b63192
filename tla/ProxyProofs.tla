---------------------------- MODULE ProxyProofs ----------------------------
(***************************************************************************)
(* Theorems about the proxy server, for any number of clients and          *)
(* services, patient or impatient users, with or without disconnections:   *)
(* type correctness; for the builds that store serviceNumber before        *)
(* numClients, that no two service threads work on one connection; that    *)
(* replies are never mixed up; and that patient users get the conversion   *)
(* they asked for.                                                         *)
(***************************************************************************)
EXTENDS Proxy, SequenceTheorems, TLAPS

USE NumsAssumption, SwitchAssumption, ChoicesAssumption, BoundsAssumption,
    NoClientAssumption

\* A thread works on a client that is in clients[].
IndexOK == \A k \in Services : Handling(k) => ti[k] \in 1 .. Len(order)

Typed == TypeOK /\ IndexOK

-----------------------------------------------------------------------------
(* The helpers on what a client sends. *)

\* An item has its type.
LEMMA ItemType ==
  ASSUME NEW kind \in {"choice", "text", "CHANGE"}, NEW c \in Clients, NEW v \in Nat
  PROVE  Item(kind, c, v) \in Items
BY DEF Item, Items

\* Reading a choice leaves a stream of items of the same client, no longer
\* than before.
LEMMA AfterChoiceType ==
  ASSUME NEW s \in Seq(Items), s # <<>>
  PROVE  /\ ChoiceIn(s) \in Nat
         /\ AfterChoice(s) \in Seq(Items)
<1>1. Head(s) \in Items /\ Tail(s) \in Seq(Items)
  BY HeadTailProperties
<1>2. ChoiceIn(s) \in Nat
  BY <1>1 DEF ChoiceIn, Items
<1> DEFINE rest == IF Head(s).kind = "choice" THEN Tail(s) ELSE s
<1>3. rest \in Seq(Items)
  BY <1>1
<1>4. CASE rest = <<>>
  BY <1>2, <1>4, EmptySeq DEF AfterChoice
<1>5. CASE rest # <<>>
  <2>1. 1 \in 1 .. Len(rest) /\ rest[1] \in Items
    BY <1>3, <1>5, EmptySeq, ElementOfSeq, LenProperties
  <2>2. [rest[1] EXCEPT !.clipped = TRUE] \in Items
    BY <2>1 DEF Items
  <2>3. [rest EXCEPT ![1] = [rest[1] EXCEPT !.clipped = TRUE]] \in Seq(Items)
    BY <1>3, <2>1, <2>2, ExceptSeq
  <2>4. AfterChoice(s) = [rest EXCEPT ![1].clipped = TRUE]
    BY <1>5 DEF AfterChoice
  <2> QED BY <1>2, <2>3, <2>4
<1> QED BY <1>4, <1>5

-----------------------------------------------------------------------------
(* Typing: one step per action. *)

\* The program starts with the types, ...
LEMMA InitTyped == Init => Typed
BY EmptySeq DEF Init, Typed, TypeOK, IndexOK, Handling, Services, Ports, Replies

\* Steps of the client processes.
LEMMA ClientTyped ==
  ASSUME Typed, NEW c \in Clients, User(c) \/ Client(c)
  PROVE  Typed'
<1> USE DEF Typed, TypeOK, IndexOK, Handling, Current, clientVars, streamVars,
        serviceVars, sharedVars, acceptVars, threadVars
<1>1. ASSUME NEW ch \in FirstChoices, Connect(c, ch) PROVE Typed'
  <2>1. ch \in 0 .. NUMS /\ ch \in Nat
    OBVIOUS
  <2>2. Item("choice", c, ch) \in Items
    BY <2>1, ItemType
  <2>3. toServer' \in [Clients -> Seq(Items)]
    BY <1>1, <2>2, AppendProperties DEF Connect, Send
  <2>4. backlog' \in [Ports -> Seq(Clients)]
    BY <1>1, AppendProperties DEF Connect, Ports
  <2> QED BY <1>1, <2>1, <2>3, <2>4 DEF Connect
<1>2. ASSUME SendText(c) PROVE Typed'
  <2>1. Item("text", c, texts[c] + 1) \in Items
    BY ItemType
  <2>2. toServer' \in [Clients -> Seq(Items)]
    BY <1>2, <2>1, AppendProperties DEF SendText, Send
  <2>3. texts[c] + 1 \in Nat
    OBVIOUS
  <2>4. texts' \in [Clients -> Nat]
    BY <1>2, <2>3 DEF SendText
  <2> QED BY <1>2, <2>2, <2>4 DEF SendText
<1>3. ASSUME SendChange(c) PROVE Typed'
  <2>1. Item("CHANGE", c, changes[c] + 1) \in Items
    BY ItemType
  <2>2. toServer' \in [Clients -> Seq(Items)]
    BY <1>3, <2>1, AppendProperties DEF SendChange, Send
  <2>3. changes[c] + 1 \in Nat
    OBVIOUS
  <2>4. changes' \in [Clients -> Nat]
    BY <1>3, <2>3 DEF SendChange
  <2> QED BY <1>3, <2>2, <2>4 DEF SendChange
<1>4. ASSUME Disconnect(c) PROVE Typed'
  BY <1>4 DEF Disconnect
<1>5. ASSUME NEW ch \in NextChoices, SendNewChoice(c, ch) PROVE Typed'
  <2>1. ch \in 0 .. NUMS /\ ch \in Nat
    OBVIOUS
  <2>2. Item("choice", c, ch) \in Items
    BY <2>1, ItemType
  <2>3. toServer' \in [Clients -> Seq(Items)]
    BY <1>5, <2>2, AppendProperties DEF SendNewChoice, Send
  <2> QED BY <1>5, <2>1, <2>3 DEF SendNewChoice
<1>6. ASSUME RecvReply(c) PROVE Typed'
  <2>1. toClient' \in [Clients -> Seq(Replies)]
    BY <1>6, HeadTailProperties DEF RecvReply
  <2> QED BY <1>6, <2>1 DEF RecvReply
<1> QED BY <1>1, <1>2, <1>3, <1>4, <1>5, <1>6 DEF User, Client

\* A reply that is delivered keeps the replies well formed.
LEMMA DeliverTyped ==
  ASSUME Typed, NEW c \in Clients, NEW r \in Replies, Deliver(c, r)
  PROVE  toClient' \in [Clients -> Seq(Replies)]
BY AppendProperties DEF Typed, TypeOK, Deliver

\* ... an accept keeps them, ...
LEMMA AcceptFromTyped ==
  ASSUME Typed, NEW p \in Ports, AcceptFrom(p)
  PROVE  /\ anew' \in Clients
         /\ achoice' \in Nat
         /\ backlog' \in [Ports -> Seq(Clients)]
         /\ toServer' \in [Clients -> Seq(Items)]
<1>1. backlog[p] \in Seq(Clients) /\ backlog[p] # <<>>
  BY DEF Typed, TypeOK, AcceptFrom
<1>2. Head(backlog[p]) \in Clients /\ Tail(backlog[p]) \in Seq(Clients)
  BY <1>1, HeadTailProperties
<1>3. toServer[Head(backlog[p])] \in Seq(Items) /\ toServer[Head(backlog[p])] # <<>>
  BY <1>2 DEF Typed, TypeOK, AcceptFrom
<1> QED BY <1>2, <1>3, AfterChoiceType DEF Typed, TypeOK, AcceptFrom

\* Steps of the accept thread.
LEMMA AcceptorTyped ==
  ASSUME Typed, Acceptor
  PROVE  Typed'
<1> USE DEF Typed, TypeOK, IndexOK, Handling, Current, clientVars, streamVars,
        serviceVars, sharedVars, acceptVars, threadVars
<1>1. CASE AcceptSelect
  BY <1>1 DEF AcceptSelect
<1>2. CASE AcceptProxyClient
  BY <1>2, AcceptFromTyped DEF AcceptProxyClient, Ports
<1>3. CASE ServeProxyClient
  <2>1. anew \in Clients
    BY <1>3 DEF ServeProxyClient
  <2>2. [by |-> PROXY, msg |-> toServer[anew]] \in Replies
    BY <2>1 DEF Replies, PROXY
  <2>3. toClient' \in [Clients -> Seq(Replies)]
    BY <1>3, <2>1, <2>2, DeliverTyped DEF ServeProxyClient
  <2>4. toServer' \in [Clients -> Seq(Items)]
    BY <1>3, <2>1, EmptySeq DEF ServeProxyClient
  <2> QED BY <1>3, <2>3, <2>4 DEF ServeProxyClient
<1>4. CASE AcceptClient
  BY <1>4, AcceptFromTyped DEF AcceptClient, Ports
<1>5. CASE StoreClient
  <2>1. anew \in Clients
    BY <1>5 DEF StoreClient
  <2>2. CASE Count
    <3>1. order' \in Seq(Clients) /\ Len(order') = Len(order) + 1
      BY <2>1, <2>2, AppendProperties DEF Count
    <3>2. 1 .. Len(order) \subseteq 1 .. Len(order')
      BY <3>1, LenProperties
    <3>3. UNCHANGED <<serviceNumber, clientVars, streamVars, backlog, serviceVars,
                      aready, threadVars>>
      BY <1>5, <2>2 DEF StoreClient, Count
    <3>4. IndexOK'
      BY <3>2, <3>3
    <3>5. /\ apc' \in {"store2", "select"} /\ achoice' \in Nat
          /\ anew' \in Clients \union {NoClient} /\ (apc' = "store2" => anew' \in Clients)
      BY <1>5, <2>1 DEF StoreClient
    <3> QED BY <3>1, <3>3, <3>4, <3>5
  <2>3. CASE StoreNumber
    <3>1. serviceNumber' \in [Clients -> Nat]
      BY <2>1, <2>3 DEF StoreNumber
    <3>2. UNCHANGED <<order, clientVars, streamVars, backlog, serviceVars,
                      aready, threadVars>>
      BY <1>5, <2>3 DEF StoreClient, StoreNumber
    <3>3. /\ apc' \in {"store2", "select"} /\ achoice' \in Nat
          /\ anew' \in Clients \union {NoClient} /\ (apc' = "store2" => anew' \in Clients)
      BY <1>5, <2>1 DEF StoreClient
    <3> QED BY <3>1, <3>2, <3>3
  <2> QED BY <1>5, <2>2, <2>3 DEF StoreClient
<1> QED BY <1>1, <1>2, <1>3, <1>4, <1>5 DEF Acceptor

\* Going on with the next client, i++.
LEMMA NextClientTyped ==
  ASSUME Typed, NEW k \in Services, NextClient(k), UNCHANGED order
  PROVE  /\ ti' \in [Services -> Nat \ {0}]
         /\ tpc' \in [Services -> {"build", "select", "scan", "recv", "choice", "reply"}]
         /\ IndexOK'
<1>1. ti[k] + 1 \in Nat \ {0}
  BY DEF Typed, TypeOK
<1> QED BY <1>1 DEF Typed, TypeOK, IndexOK, Handling, NextClient, Goto

\* Steps of the service threads and of the services.
LEMMA ServiceTyped ==
  ASSUME Typed, NEW k \in Services, Thread(k) \/ Convert(k)
  PROVE  Typed'
<1> USE DEF Typed, TypeOK, IndexOK, Handling, Current, Goto, clientVars,
        streamVars, serviceVars, sharedVars, acceptVars, threadVars
<1>0. Len(order) \in Nat /\ \A i \in 1 .. Len(order) : order[i] \in Clients
  BY LenProperties, ElementOfSeq
<1>1. CASE BuildSet(k)
  <2> DEFINE set == {order[i] : i \in {j \in 1 .. Len(order) : InService(k, j)}}
  <2>1. set \in SUBSET Clients
    <3> SUFFICES ASSUME NEW c \in set PROVE c \in Clients
      OBVIOUS
    <3> PICK i \in {j \in 1 .. Len(order) : InService(k, j)} : c = order[i]
      OBVIOUS
    <3> QED BY <1>0
  <2> HIDE DEF set
  <2>2. fds' = [fds EXCEPT ![k] = set]
    BY <1>1 DEF BuildSet, set
  <2> QED BY <1>1, <2>1, <2>2 DEF BuildSet
<1>2. CASE SelectClients(k)
  BY <1>2 DEF SelectClients
<1>3. CASE ScanClients(k)
  <2>1. /\ UNCHANGED <<clientVars, streamVars, backlog, serviceVars, sharedVars, acceptVars>>
        /\ \/ \E i \in ti[k] .. Len(order) :
               ti' = [ti EXCEPT ![k] = i] /\ Goto(k, "recv") /\ UNCHANGED fds
           \/ Goto(k, "build") /\ ti' = [ti EXCEPT ![k] = 1] /\ fds' = [fds EXCEPT ![k] = {}]
    BY <1>3 DEF ScanClients
  <2>2. ti' \in [Services -> Nat \ {0}] /\ fds' \in [Services -> SUBSET Clients]
    <3>1. \A i \in ti[k] .. Len(order) : i \in Nat \ {0}
      BY <1>0
    <3>2. \E i \in Nat \ {0} : ti' = [ti EXCEPT ![k] = i]
      <4>1. 1 \in Nat \ {0}
        OBVIOUS
      <4> QED BY <2>1, <3>1, <4>1
    <3>3. ti' \in [Services -> Nat \ {0}]
      BY <3>2
    <3>4. fds' \in [Services -> SUBSET Clients]
      BY <2>1
    <3> QED BY <3>3, <3>4
  <2>3. IndexOK'
    <3>1. \A i \in ti[k] .. Len(order) : i \in 1 .. Len(order)
      BY <1>0
    <3>2. UNCHANGED order
      BY <2>1
    <3> QED BY <2>1, <3>1, <3>2
  <2>4. tpc' \in [Services -> {"build", "select", "scan", "recv", "choice", "reply"}]
    BY <2>1
  <2> QED BY <2>1, <2>2, <2>3, <2>4
<1>4. CASE RecvClient(k)
  <2> DEFINE m == toServer[Current(k)]
  <2>1. Current(k) \in Clients /\ m \in Seq(Items)
    BY <1>0, <1>4 DEF RecvClient
  <2>2. toServer' \in [Clients -> Seq(Items)]
    BY <1>4, <2>1, EmptySeq DEF RecvClient
  <2>3. toService' \in [Services -> Seq(Seq(Items))]
    <3>1. Append(toService[k], m) \in Seq(Seq(Items))
      BY <2>1, AppendProperties
    <3> QED BY <1>4, <3>1 DEF RecvClient
  <2>4. IndexOK' /\ tpc' \in [Services -> {"build", "select", "scan", "recv", "choice", "reply"}]
    BY <1>4 DEF RecvClient
  <2> QED BY <1>4, <2>2, <2>3, <2>4 DEF RecvClient
<1>5. CASE RecvChoice(k)
  <2> DEFINE c == Current(k)
  <2>1. c \in Clients /\ toServer[c] \in Seq(Items)
    BY <1>0, <1>5 DEF RecvChoice
  <2>2. CASE toServer[c] # <<>>
    <3>1. ChoiceIn(toServer[c]) \in Nat /\ AfterChoice(toServer[c]) \in Seq(Items)
      BY <2>1, <2>2, AfterChoiceType
    <3>2. /\ serviceNumber' = [serviceNumber EXCEPT ![c] = ChoiceIn(toServer[c])]
          /\ toServer' = [toServer EXCEPT ![c] = AfterChoice(toServer[c])]
      BY <1>5, <2>2 DEF RecvChoice
    <3> QED BY <1>5, <3>1, <3>2, NextClientTyped DEF RecvChoice
  <2>3. CASE toServer[c] = <<>>
    <3>1. PICK ch \in 0 .. NUMS : serviceNumber' = [serviceNumber EXCEPT ![c] = ch]
      BY <1>5, <2>3 DEF RecvChoice
    <3>2. serviceNumber' \in [Clients -> Nat]
      BY <2>1, <3>1
    <3>3. UNCHANGED toServer
      BY <1>5, <2>3 DEF RecvChoice
    <3> QED BY <1>5, <3>2, <3>3, NextClientTyped DEF RecvChoice
  <2> QED BY <2>2, <2>3
<1>6. CASE RelayReply(k)
  <2>1. /\ Head(fromService[k]) \in Replies
        /\ Tail(fromService[k]) \in Seq(Replies)
    BY <1>6, HeadTailProperties DEF RelayReply
  <2>2. Current(k) \in Clients
    BY <1>0, <1>6 DEF RelayReply
  <2>3. toClient' \in [Clients -> Seq(Replies)]
    BY <1>6, <2>1, <2>2, DeliverTyped DEF RelayReply
  <2> QED BY <1>6, <2>1, <2>3, NextClientTyped DEF RelayReply
<1>7. CASE Convert(k)
  <2>1. /\ Head(toService[k]) \in Seq(Items)
        /\ Tail(toService[k]) \in Seq(Seq(Items))
    BY <1>7, HeadTailProperties DEF Convert
  <2>2. [by |-> k, msg |-> Head(toService[k])] \in Replies
    BY <2>1 DEF Replies, Services
  <2>3. fromService' \in [Services -> Seq(Replies)]
    BY <1>7, <2>2, AppendProperties DEF Convert
  <2> QED BY <1>7, <2>1, <2>3 DEF Convert
<1> QED BY <1>1, <1>2, <1>3, <1>4, <1>5, <1>6, <1>7 DEF Thread

\* ... and so does every step.
LEMMA NextTyped == Typed /\ [Next]_vars => Typed'
<1>1. ASSUME Typed, Next PROVE Typed'
  BY <1>1, ClientTyped, AcceptorTyped, ServiceTyped DEF Next
<1>2. ASSUME Typed, UNCHANGED vars PROVE Typed'
  BY <1>2 DEF vars, clientVars, streamVars, serviceVars, sharedVars, acceptVars,
              threadVars, Typed, TypeOK, IndexOK, Handling
<1> QED BY <1>1, <1>2

\* Typed always holds.
LEMMA TypedAlways == Spec => []Typed
BY InitTyped, NextTyped, PTL DEF Spec

\* Every variable keeps its type, for any number of clients and services.
THEOREM TypeCorrect == Spec => []TypeOK
<1>1. Typed => TypeOK
  BY DEF Typed
<1> QED BY <1>1, TypedAlways, PTL

-----------------------------------------------------------------------------
(***************************************************************************)
(* One reader.  A thread that works on a client works on one of its own    *)
(* service (Owned); only that thread can move the client elsewhere.  The   *)
(* other writer of serviceNumber is the accept thread: it must never store *)
(* the number of a client that is already in clients[] (AcceptedOnce).     *)
(***************************************************************************)
InOrder(c) == \E i \in 1 .. Len(order) : order[i] = c

AcceptedOnce ==
  /\ \A c \in Clients : cpc[c] = "start" =>
        /\ \A p \in Ports : \A i \in 1 .. Len(backlog[p]) : backlog[p][i] # c
        /\ ~ InOrder(c)
        /\ anew # c
  /\ \A p, q \in Ports : \A i \in 1 .. Len(backlog[p]), j \in 1 .. Len(backlog[q]) :
        backlog[p][i] = backlog[q][j] => p = q /\ i = j
  /\ \A p \in Ports : \A i \in 1 .. Len(backlog[p]) :
        ~ InOrder(backlog[p][i]) /\ backlog[p][i] # anew
  /\ apc \in {"store", "store2"} => ~ InOrder(anew)

Owned == \A k \in Services : Handling(k) => serviceNumber[Current(k)] = k

IInv == Typed /\ AcceptedOnce /\ Owned

\* At first no connection is accepted or owned.
LEMMA InitOwned == Init => AcceptedOnce /\ Owned
BY EmptySeq DEF Init, AcceptedOnce, Owned, InOrder, Handling, Ports, Services

\* Who waits to be accepted is a client.
LEMMA QueuedAreClients ==
  ASSUME Typed, NEW p \in Ports, NEW i \in 1 .. Len(backlog[p])
  PROVE  backlog[p][i] \in Clients /\ backlog[p][i] # NoClient
<1>1. backlog[p] \in Seq(Clients)
  BY DEF Typed, TypeOK
<1>2. backlog[p][i] \in Clients
  BY <1>1, ElementOfSeq
<1> QED BY <1>2

\* A connect leaves no client twice in the backlogs.
LEMMA ConnectOnce ==
  ASSUME IInv, NEW c \in Clients, NEW ch \in 0 .. NUMS, Connect(c, ch)
  PROVE  AcceptedOnce'
<1> DEFINE port == IF ch = PROXY THEN "proxyService" ELSE "client"
<1>1. port \in Ports
  BY DEF Ports
<1>2. /\ backlog' = [backlog EXCEPT ![port] = Append(backlog[port], c)]
      /\ backlog \in [Ports -> Seq(Clients)]
      /\ cpc[c] = "start" /\ cpc' = [cpc EXCEPT ![c] = "prompt"]
      /\ cpc \in [Clients -> {"start", "prompt", "menu", "waiting", "gone"}]
      /\ UNCHANGED <<order, anew, apc>>
  BY DEF Connect, IInv, Typed, TypeOK, sharedVars, acceptVars
<1>3. \A p \in Ports : Len(backlog[p]) \in Nat
  BY <1>2, LenProperties
<1>4. ASSUME NEW p \in Ports, NEW i \in 1 .. Len(backlog'[p])
      PROVE  \/ i \in 1 .. Len(backlog[p]) /\ backlog'[p][i] = backlog[p][i]
             \/ p = port /\ i = Len(backlog[p]) + 1 /\ backlog'[p][i] = c
  <2>1. CASE p = port
    <3>1. backlog'[p] = Append(backlog[p], c) /\ backlog[p] \in Seq(Clients)
      BY <1>1, <1>2, <2>1
    <3>2. /\ Len(backlog'[p]) = Len(backlog[p]) + 1
          /\ \A j \in 1 .. Len(backlog[p]) : backlog'[p][j] = backlog[p][j]
          /\ backlog'[p][Len(backlog[p]) + 1] = c
      BY <3>1, AppendProperties
    <3> QED BY <1>3, <2>1, <3>2
  <2>2. CASE p # port
    BY <1>1, <1>2, <2>2
  <2> QED BY <2>1, <2>2
<1>5. /\ \A p \in Ports : \A i \in 1 .. Len(backlog[p]) : backlog[p][i] # c
      /\ ~ InOrder(c) /\ anew # c
  BY <1>2 DEF IInv, AcceptedOnce
<1>6. \A d : InOrder(d)' <=> InOrder(d)
  BY <1>2 DEF InOrder
<1> HIDE DEF port
<1>7. \A p, q \in Ports : \A i \in 1 .. Len(backlog'[p]), j \in 1 .. Len(backlog'[q]) :
        backlog'[p][i] = backlog'[q][j] => p = q /\ i = j
  <2> SUFFICES ASSUME NEW p \in Ports, NEW q \in Ports,
                      NEW i \in 1 .. Len(backlog'[p]), NEW j \in 1 .. Len(backlog'[q]),
                      backlog'[p][i] = backlog'[q][j]
               PROVE  p = q /\ i = j
    OBVIOUS
  <2>1. CASE i \in 1 .. Len(backlog[p]) /\ backlog'[p][i] = backlog[p][i]
    <3>1. backlog'[q][j] # c
      BY <1>5, <2>1
    <3>2. j \in 1 .. Len(backlog[q]) /\ backlog'[q][j] = backlog[q][j]
      BY <1>4, <3>1
    <3>3. backlog[p][i] = backlog[q][j]
      BY <2>1, <3>2
    <3>4. \A x, y \in Ports : \A m \in 1 .. Len(backlog[x]), n \in 1 .. Len(backlog[y]) :
            backlog[x][m] = backlog[y][n] => x = y /\ m = n
      BY DEF IInv, AcceptedOnce
    <3> QED BY <2>1, <3>2, <3>3, <3>4
  <2>2. CASE p = port /\ i = Len(backlog[p]) + 1 /\ backlog'[p][i] = c
    <3>1. ~ (j \in 1 .. Len(backlog[q]) /\ backlog'[q][j] = backlog[q][j])
      BY <1>5, <2>2
    <3>2. q = port /\ j = Len(backlog[q]) + 1
      BY <1>4, <3>1
    <3> QED BY <2>2, <3>2
  <2> QED BY <1>4, <2>1, <2>2
<1>8. \A p \in Ports : \A i \in 1 .. Len(backlog'[p]) :
        ~ InOrder(backlog'[p][i]) /\ backlog'[p][i] # anew
  BY <1>4, <1>5 DEF IInv, AcceptedOnce
<1>9. \A d \in Clients : cpc'[d] = "start" =>
        /\ cpc[d] = "start" /\ d # c
        /\ \A p \in Ports : \A i \in 1 .. Len(backlog'[p]) : backlog'[p][i] # d
  <2> SUFFICES ASSUME NEW d \in Clients, cpc'[d] = "start"
               PROVE  /\ cpc[d] = "start" /\ d # c
                      /\ \A p \in Ports : \A i \in 1 .. Len(backlog'[p]) : backlog'[p][i] # d
    OBVIOUS
  <2>1. cpc[d] = "start" /\ d # c
    BY <1>2
  <2> QED BY <1>4, <2>1 DEF IInv, AcceptedOnce
<1> QED BY <1>2, <1>6, <1>7, <1>8, <1>9 DEF IInv, AcceptedOnce

\* Every other step of a client leaves the connections where they are.
LEMMA ClientOwned ==
  ASSUME IInv, NEW c \in Clients, User(c) \/ Client(c)
  PROVE  (AcceptedOnce /\ Owned)'
<1>1. Owned'
  <2>1. UNCHANGED <<sharedVars, threadVars>>
    BY DEF User, Client, Connect, SendText, SendChange, Disconnect, SendNewChoice,
           RecvReply
  <2> QED BY <2>1 DEF IInv, Owned, Handling, Current, sharedVars, threadVars
<1>2. CASE \E ch \in FirstChoices : Connect(c, ch)
  BY <1>1, <1>2, ConnectOnce
<1>3. CASE ~ \E ch \in FirstChoices : Connect(c, ch)
  <2>1. UNCHANGED <<backlog, order, apc, anew>>
    BY <1>3 DEF User, Client, SendText, SendChange, Disconnect, SendNewChoice,
                RecvReply, sharedVars, acceptVars
  <2>2. \A d \in Clients : cpc'[d] = "start" => cpc[d] = "start"
    BY <1>3 DEF User, Client, SendText, SendChange, Disconnect, SendNewChoice,
                RecvReply, IInv, Typed, TypeOK
  <2> QED BY <1>1, <2>1, <2>2 DEF IInv, AcceptedOnce, InOrder
<1> QED BY <1>2, <1>3

\* accept takes a connection out of the queue that is nowhere else.
LEMMA AcceptFromOnce ==
  ASSUME IInv, NEW port \in Ports, AcceptFrom(port), UNCHANGED <<cpc, order>>
  PROVE  AcceptedOnce'
<1> DEFINE c == Head(backlog[port])
<1>1. /\ backlog[port] \in Seq(Clients) /\ backlog[port] # <<>>
      /\ backlog \in [Ports -> Seq(Clients)]
      /\ backlog' = [backlog EXCEPT ![port] = Tail(backlog[port])]
      /\ anew' = c
  BY DEF AcceptFrom, IInv, Typed, TypeOK
<1>2. \A p \in Ports : Len(backlog[p]) \in Nat
  BY <1>1, LenProperties
<1>3. /\ 1 \in 1 .. Len(backlog[port]) /\ c = backlog[port][1]
  BY <1>1, <1>2, EmptySeq
<1>4. ASSUME NEW p \in Ports, NEW i \in 1 .. Len(backlog'[p])
      PROVE  LET o == IF p = port THEN i + 1 ELSE i
             IN  o \in 1 .. Len(backlog[p]) /\ backlog'[p][i] = backlog[p][o]
  <2>1. CASE p = port
    <3>1. backlog'[p] = Tail(backlog[p])
      BY <1>1, <2>1
    <3> QED BY <1>1, <2>1, <3>1, HeadTailProperties
  <2>2. CASE p # port
    <3>1. backlog'[p] = backlog[p]
      BY <1>1, <2>2
    <3> QED BY <2>2, <3>1
  <2> QED BY <2>1, <2>2
<1>5. \A d : InOrder(d)' <=> InOrder(d)
  BY DEF InOrder
<1> HIDE DEF c
<1>6. ASSUME NEW p \in Ports, NEW q \in Ports,
             NEW i \in 1 .. Len(backlog'[p]), NEW j \in 1 .. Len(backlog'[q]),
             backlog'[p][i] = backlog'[q][j]
      PROVE  p = q /\ i = j
  <2> DEFINE oi == IF p = port THEN i + 1 ELSE i
             oj == IF q = port THEN j + 1 ELSE j
  <2>1. /\ oi \in 1 .. Len(backlog[p]) /\ oj \in 1 .. Len(backlog[q])
        /\ backlog[p][oi] = backlog[q][oj]
    BY <1>4, <1>6
  <2>2. p = q /\ oi = oj
    BY <2>1 DEF IInv, AcceptedOnce
  <2> QED BY <2>2
<1>7. ASSUME NEW p \in Ports, NEW i \in 1 .. Len(backlog'[p])
      PROVE  ~ InOrder(backlog'[p][i]) /\ backlog'[p][i] # c
  <2> DEFINE o == IF p = port THEN i + 1 ELSE i
  <2>1. o \in 1 .. Len(backlog[p]) /\ backlog'[p][i] = backlog[p][o]
    BY <1>4
  <2>2. ~ (p = port /\ o = 1)
    BY <1>7
  <2>3. backlog[p][o] # backlog[port][1]
    BY <1>3, <2>1, <2>2 DEF IInv, AcceptedOnce
  <2> QED BY <1>3, <2>1, <2>3 DEF IInv, AcceptedOnce
<1>8. ~ InOrder(c)
  BY <1>3 DEF IInv, AcceptedOnce
<1>9. ASSUME NEW d \in Clients, cpc[d] = "start"
      PROVE  /\ \A p \in Ports : \A i \in 1 .. Len(backlog'[p]) : backlog'[p][i] # d
             /\ ~ InOrder(d) /\ c # d
  BY <1>3, <1>4, <1>9 DEF IInv, AcceptedOnce
<1> QED BY <1>1, <1>5, <1>6, <1>7, <1>8, <1>9 DEF AcceptedOnce

\* The accept thread, when the number is stored before the client is counted.
LEMMA AcceptorOwned ==
  ASSUME IInv, ~ CountFirst, Acceptor
  PROVE  (AcceptedOnce /\ Owned)'
<1> USE DEF acceptVars, sharedVars, clientVars, threadVars
<1>1. CASE AcceptSelect
  BY <1>1 DEF AcceptSelect, IInv, AcceptedOnce, Owned, InOrder, Handling, Current
<1>2. CASE AcceptProxyClient \/ AcceptClient
  <2>1. \E p \in Ports : AcceptFrom(p)
    BY <1>2 DEF AcceptProxyClient, AcceptClient, Ports
  <2>2. UNCHANGED <<cpc, order, serviceNumber, tpc, ti>>
    BY <1>2 DEF AcceptProxyClient, AcceptClient
  <2>3. AcceptedOnce'
    BY <2>1, <2>2, AcceptFromOnce
  <2> QED BY <2>2, <2>3 DEF IInv, Owned, Handling, Current
<1>3. CASE ServeProxyClient
  <2>1. /\ UNCHANGED <<cpc, backlog, order, serviceNumber, tpc, ti>>
        /\ anew' = NoClient /\ apc' \in {"client", "select"}
    BY <1>3 DEF ServeProxyClient
  <2>2. \A p \in Ports : \A i \in 1 .. Len(backlog[p]) : backlog[p][i] # NoClient
    BY QueuedAreClients DEF IInv
  <2> QED BY <2>1, <2>2 DEF IInv, AcceptedOnce, Owned, InOrder, Handling, Current
<1>4. CASE StoreClient /\ apc = "store"
  <2>1. /\ UNCHANGED <<cpc, backlog, order, anew, tpc, ti>>
        /\ apc' = "store2"
        /\ serviceNumber' = [serviceNumber EXCEPT ![anew] = achoice]
    BY <1>4 DEF StoreClient, StoreNumber
  <2>2. AcceptedOnce'
    BY <1>4, <2>1 DEF IInv, AcceptedOnce, InOrder
  <2>3. ASSUME NEW k \in Services, Handling(k)
        PROVE  Current(k) # anew /\ Current(k) \in Clients
    <3>1. ti[k] \in 1 .. Len(order)
      BY <2>3 DEF IInv, Typed, IndexOK
    <3>2. ~ InOrder(anew) /\ order \in Seq(Clients)
      BY <1>4 DEF IInv, AcceptedOnce, Typed, TypeOK
    <3> QED BY <3>1, <3>2, ElementOfSeq DEF InOrder, Current
  <2>4. Owned'
    BY <2>1, <2>3 DEF IInv, Typed, TypeOK, Owned, Handling, Current
  <2> QED BY <2>2, <2>4
<1>5. CASE StoreClient /\ apc = "store2"
  <2>1. /\ UNCHANGED <<cpc, backlog, serviceNumber, tpc, ti>>
        /\ apc' = "select" /\ anew' = NoClient
        /\ order' = Append(order, anew)
    BY <1>5 DEF StoreClient, Count
  <2>2. order \in Seq(Clients) /\ anew \in Clients
    BY <1>5 DEF IInv, Typed, TypeOK
  <2>3. /\ Len(order) \in Nat /\ Len(order') = Len(order) + 1
        /\ \A i \in 1 .. Len(order) : order'[i] = order[i]
        /\ order'[Len(order) + 1] = anew
    BY <2>1, <2>2, AppendProperties, LenProperties
  <2>4. \A d : InOrder(d)' => InOrder(d) \/ d = anew
    BY <2>3 DEF InOrder
  <2>5. \A p \in Ports : \A i \in 1 .. Len(backlog[p]) : backlog[p][i] # NoClient
    BY QueuedAreClients DEF IInv
  <2>6. AcceptedOnce'
    BY <2>1, <2>4, <2>5 DEF IInv, AcceptedOnce
  <2>7. Owned'
    BY <2>1, <2>3 DEF IInv, Typed, IndexOK, Owned, Handling, Current
  <2> QED BY <2>6, <2>7
<1> QED BY <1>1, <1>2, <1>3, <1>4, <1>5 DEF Acceptor, StoreClient

\* A service thread works on a client only while the client is its own.
LEMMA ThreadOwned ==
  ASSUME IInv, NEW k \in Services, Thread(k) \/ Convert(k)
  PROVE  (AcceptedOnce /\ Owned)'
<1> USE DEF acceptVars, clientVars, threadVars
<1>1. UNCHANGED <<cpc, backlog, order, apc, anew>>
  BY DEF Thread, Convert, BuildSet, SelectClients, ScanClients, RecvClient,
         RecvChoice, RelayReply, sharedVars
<1>2. AcceptedOnce'
  BY <1>1 DEF IInv, AcceptedOnce, InOrder
<1> USE DEF Owned, Handling, Current, Goto
<1>0. tpc \in [Services -> {"build", "select", "scan", "recv", "choice", "reply"}]
  BY DEF IInv, Typed, TypeOK
<1>3. CASE BuildSet(k) \/ SelectClients(k) \/ Convert(k)
  <2>1. UNCHANGED <<serviceNumber, ti>>
    BY <1>3 DEF BuildSet, SelectClients, Convert, sharedVars
  <2>2. \/ UNCHANGED tpc
        \/ \E l \in {"build", "select", "scan"} : tpc' = [tpc EXCEPT ![k] = l]
    BY <1>3 DEF BuildSet, SelectClients, Convert
  <2>3. \A j \in Services : Handling(j)' => Handling(j)
    BY <1>0, <2>2
  <2> QED BY <1>1, <1>2, <2>1, <2>3 DEF IInv
<1>4. CASE ScanClients(k)
  <2>1. ASSUME NEW i \in ti[k] .. Len(order), InService(k, i),
               ti' = [ti EXCEPT ![k] = i], Goto(k, "recv")
        PROVE  Owned'
    <3>1. UNCHANGED serviceNumber
      BY <1>4 DEF ScanClients, sharedVars
    <3>2. \A j \in Services : Handling(j)' => j = k \/ (Handling(j) /\ ti'[j] = ti[j])
      BY <1>0, <2>1 DEF IInv, Typed, TypeOK
    <3>3. ti'[k] = i /\ serviceNumber[order[i]] = k
      BY <2>1 DEF InService, IInv, Typed, TypeOK
    <3> QED BY <1>1, <3>1, <3>2, <3>3 DEF IInv
  <2>2. ASSUME Goto(k, "build"), ti' = [ti EXCEPT ![k] = 1]
        PROVE  Owned'
    BY <1>1, <1>4, <2>2 DEF ScanClients, sharedVars, IInv, Typed, TypeOK
  <2> QED BY <1>2, <1>4, <2>1, <2>2 DEF ScanClients
<1>5. CASE RecvClient(k)
  <2>1. /\ UNCHANGED <<serviceNumber, ti>>
        /\ \A j \in Services : Handling(j)' => Handling(j)
    BY <1>5 DEF RecvClient, sharedVars, IInv, Typed, TypeOK
  <2> QED BY <1>1, <1>2, <2>1 DEF IInv
<1>6. CASE RecvChoice(k)
  <2>1. \E ch : serviceNumber' = [serviceNumber EXCEPT ![Current(k)] = ch]
    BY <1>6 DEF RecvChoice
  <2>2. /\ tpc' = [tpc EXCEPT ![k] = "scan"]
        /\ ti' = [ti EXCEPT ![k] = @ + 1]
        /\ Handling(k)
    BY <1>6 DEF RecvChoice, NextClient
  <2>3. ASSUME NEW j \in Services, Handling(j)'
        PROVE  /\ Handling(j) /\ ti'[j] = ti[j]
               /\ Current(j) # Current(k) /\ Current(j) \in Clients
    <3>1. j # k /\ Handling(j) /\ ti'[j] = ti[j]
      BY <2>2, <2>3 DEF IInv, Typed, TypeOK
    <3>2. ti[j] \in 1 .. Len(order) /\ order \in Seq(Clients)
      BY <3>1 DEF IInv, Typed, TypeOK, IndexOK
    <3>3. Current(j) # Current(k)
      BY <2>2, <3>1 DEF IInv
    <3> QED BY <3>1, <3>2, <3>3, ElementOfSeq
  <2>4. ASSUME NEW j \in Services, Handling(j)'
        PROVE  serviceNumber'[order[ti'[j]]] = j
    <3>1. serviceNumber'[Current(j)] = serviceNumber[Current(j)]
      BY <2>1, <2>3, <2>4 DEF IInv, Typed, TypeOK
    <3> QED BY <2>3, <2>4, <3>1 DEF IInv
  <2> QED BY <1>1, <1>2, <2>4
<1>7. CASE RelayReply(k)
  <2>1. /\ tpc' = [tpc EXCEPT ![k] = "scan"]
        /\ ti' = [ti EXCEPT ![k] = @ + 1]
        /\ UNCHANGED serviceNumber
    BY <1>7 DEF RelayReply, NextClient, sharedVars
  <2> QED BY <1>1, <1>2, <2>1 DEF IInv, Typed, TypeOK
<1> QED BY <1>3, <1>4, <1>5, <1>6, <1>7 DEF Thread

\* The invariant always holds.
LEMMA IInvAlways ==
  ASSUME ~ CountFirst
  PROVE  Spec => []IInv
<1>1. Init => IInv
  BY InitTyped, InitOwned DEF IInv
<1>2. IInv /\ [Next]_vars => IInv'
  <2> SUFFICES ASSUME IInv, [Next]_vars PROVE IInv'
    OBVIOUS
  <2>1. Typed'
    BY NextTyped DEF IInv
  <2>2. CASE Next
    BY <2>1, <2>2, ClientOwned, AcceptorOwned, ThreadOwned DEF Next, IInv
  <2>3. CASE UNCHANGED vars
    BY <2>1, <2>3 DEF vars, clientVars, sharedVars, acceptVars, threadVars, IInv,
                      AcceptedOnce, Owned, InOrder, Handling, Current
  <2> QED BY <2>2, <2>3
<1> QED BY <1>1, <1>2, PTL DEF Spec

\* When serviceNumber is stored before numClients, no two threads ever work on
\* the same connection, for any number of clients and services.
THEOREM OneReaderHolds ==
  ASSUME ~ CountFirst
  PROVE  Spec => []OneReader
<1>1. IInv => OneReader
  BY DEF IInv, Owned, OneReader
<1> QED BY <1>1, IInvAlways, PTL

-----------------------------------------------------------------------------
(***************************************************************************)
(* No cross-talk.  A service has one request or one reply under way at     *)
(* most, and only while its thread waits for it; it comes from the client  *)
(* the thread is at.                                                       *)
(***************************************************************************)
OneExchange(k) ==
  \/ toService[k] = <<>> /\ fromService[k] = <<>>
  \/ /\ tpc[k] = "reply" /\ fromService[k] = <<>>
     /\ Len(toService[k]) = 1 /\ SentBy(toService[k][1], Current(k))
  \/ /\ tpc[k] = "reply" /\ toService[k] = <<>>
     /\ Len(fromService[k]) = 1 /\ SentBy(fromService[k][1].msg, Current(k))

Talk == /\ \A c \in Clients : SentBy(toServer[c], c)
        /\ \A k \in Services : OneExchange(k)
        /\ NoCrossTalk

\* Who sent what, with a message more, ...
LEMMA AppendSentBy ==
  ASSUME NEW c \in Clients, NEW s \in Seq(Items), SentBy(s, c),
         NEW x \in Items, x.owner = c
  PROVE  SentBy(Append(s, x), c)
<1>1. /\ Len(s) \in Nat /\ Len(Append(s, x)) = Len(s) + 1
      /\ \A n \in 1 .. Len(s) : Append(s, x)[n] = s[n]
      /\ Append(s, x)[Len(s) + 1] = x
  BY AppendProperties, LenProperties
<1> QED BY <1>1 DEF SentBy

\* ... and without those up to a choice.
LEMMA AfterChoiceSentBy ==
  ASSUME NEW c \in Clients, NEW s \in Seq(Items), s # <<>>, SentBy(s, c)
  PROVE  SentBy(AfterChoice(s), c)
<1> DEFINE rest == IF Head(s).kind = "choice" THEN Tail(s) ELSE s
<1>1. rest \in Seq(Items) /\ SentBy(rest, c)
  <2>1. Tail(s) \in Seq(Items) /\ SentBy(Tail(s), c)
    BY HeadTailProperties, LenProperties DEF SentBy
  <2> QED BY <2>1
<1>2. CASE rest = <<>>
  BY <1>2, EmptySeq DEF AfterChoice, SentBy
<1>3. CASE rest # <<>>
  <2>1. /\ 1 \in 1 .. Len(rest) /\ rest[1] \in Items /\ rest[1].owner = c
    BY <1>1, <1>3, EmptySeq, ElementOfSeq, LenProperties DEF SentBy
  <2> DEFINE x == [rest[1] EXCEPT !.clipped = TRUE]
  <2>2. x \in Items /\ x.owner = c
    BY <2>1 DEF Items
  <2>3. AfterChoice(s) = [rest EXCEPT ![1] = x]
    BY <1>3 DEF AfterChoice
  <2> HIDE DEF rest, x
  <2>4. /\ Len([rest EXCEPT ![1] = x]) = Len(rest)
        /\ \A j \in 1 .. Len(rest) : [rest EXCEPT ![1] = x][j] = IF j = 1 THEN x ELSE rest[j]
    BY <1>1, <2>1, <2>2, ExceptSeq
  <2> QED BY <1>1, <2>2, <2>3, <2>4 DEF SentBy
<1> QED BY <1>2, <1>3

\* The program starts in Talk, ...
LEMMA InitTalk == Init => Talk
BY EmptySeq DEF Init, Talk, OneExchange, NoCrossTalk, SentBy

\* ... which a delivery keeps, ...
LEMMA DeliverTalk ==
  ASSUME Typed, NoCrossTalk, NEW c \in Clients, NEW r \in Replies,
         SentBy(r.msg, c), Deliver(c, r)
  PROVE  NoCrossTalk'
<1>1. toClient \in [Clients -> Seq(Replies)]
  BY DEF Typed, TypeOK
<1>2. CASE toClient' = toClient
  BY <1>2 DEF NoCrossTalk
<1>3. CASE toClient' = [toClient EXCEPT ![c] = Append(toClient[c], r)]
  <2>1. /\ Len(toClient[c]) \in Nat /\ Len(toClient'[c]) = Len(toClient[c]) + 1
        /\ \A i \in 1 .. Len(toClient[c]) : toClient'[c][i] = toClient[c][i]
        /\ toClient'[c][Len(toClient[c]) + 1] = r
    BY <1>1, <1>3, AppendProperties, LenProperties
  <2>2. \A d \in Clients : d # c => toClient'[d] = toClient[d]
    BY <1>1, <1>3
  <2>3. ASSUME NEW d \in Clients, NEW i \in 1 .. Len(toClient'[d])
        PROVE  SentBy(toClient'[d][i].msg, d)
    <3>1. CASE d = c
      BY <2>1, <2>3, <3>1 DEF NoCrossTalk
    <3>2. CASE d # c
      BY <2>2, <2>3, <3>2 DEF NoCrossTalk
    <3> QED BY <3>1, <3>2
  <2> QED BY <2>3 DEF NoCrossTalk, SentBy
<1> QED BY <1>2, <1>3 DEF Deliver

\* ... and a client, ...
LEMMA ClientTalk ==
  ASSUME Typed, Talk, NEW c \in Clients, User(c) \/ Client(c)
  PROVE  Talk'
<1>1. UNCHANGED <<toService, fromService, tpc, ti, order>>
  BY DEF User, Client, Connect, SendText, SendChange, Disconnect, SendNewChoice,
         RecvReply, serviceVars, threadVars, sharedVars
<1>2. \A k \in Services : OneExchange(k)'
  BY <1>1 DEF Talk, OneExchange, Current, SentBy
<1>3. CASE \E kind \in {"choice", "text", "CHANGE"}, v \in Nat :
             Send(c, Item(kind, c, v)) /\ UNCHANGED toClient
  <2>1. PICK x \in Items : x.owner = c /\ Send(c, x)
    BY <1>3, ItemType DEF Item
  <2>2. toServer[c] \in Seq(Items) /\ SentBy(Append(toServer[c], x), c)
    BY <2>1, AppendSentBy DEF Talk, Typed, TypeOK
  <2>3. \A d \in Clients : SentBy(toServer'[d], d)
    BY <2>1, <2>2 DEF Send, Talk, Typed, TypeOK
  <2>4. NoCrossTalk'
    BY <1>3 DEF Talk, NoCrossTalk, SentBy
  <2> QED BY <1>2, <2>3, <2>4 DEF Talk, SentBy
<1>4. CASE RecvReply(c)
  <2>1. toClient[c] \in Seq(Replies) /\ toClient[c] # <<>>
    BY <1>4 DEF RecvReply, Typed, TypeOK
  <2>2. /\ UNCHANGED toServer
        /\ \A d \in Clients : d # c => toClient'[d] = toClient[d]
        /\ toClient'[c] = Tail(toClient[c])
    BY <1>4 DEF RecvReply, Typed, TypeOK
  <2>3. /\ Len(toClient[c]) \in Nat /\ Len(Tail(toClient[c])) = Len(toClient[c]) - 1
        /\ \A i \in 1 .. Len(Tail(toClient[c])) :
              i + 1 \in 1 .. Len(toClient[c]) /\ Tail(toClient[c])[i] = toClient[c][i + 1]
    BY <2>1, HeadTailProperties, LenProperties
  <2>4. ASSUME NEW d \in Clients, NEW i \in 1 .. Len(toClient'[d])
        PROVE  SentBy(toClient'[d][i].msg, d)
    <3>1. CASE d = c
      <4>1. i + 1 \in 1 .. Len(toClient[c]) /\ toClient'[c][i] = toClient[c][i + 1]
        BY <2>2, <2>3, <2>4, <3>1
      <4>2. SentBy(toClient[c][i + 1].msg, c)
        BY <4>1 DEF Talk, NoCrossTalk
      <4> QED BY <3>1, <4>1, <4>2
    <3>2. CASE d # c
      BY <2>2, <2>4, <3>2 DEF Talk, NoCrossTalk
    <3> QED BY <3>1, <3>2
  <2> QED BY <1>2, <2>2, <2>4 DEF Talk, NoCrossTalk, SentBy
<1>5. CASE Disconnect(c)
  BY <1>2, <1>5 DEF Disconnect, streamVars, Talk, NoCrossTalk, SentBy
<1>6. ASSUME User(c) \/ Client(c), ~ RecvReply(c), ~ Disconnect(c)
      PROVE  \E kind \in {"choice", "text", "CHANGE"}, v \in Nat :
               Send(c, Item(kind, c, v)) /\ UNCHANGED toClient
  <2>0. texts[c] \in Nat /\ changes[c] \in Nat
    BY DEF Typed, TypeOK
  <2>1. /\ \A ch \in FirstChoices \union NextChoices : ch \in Nat
        /\ texts[c] + 1 \in Nat /\ changes[c] + 1 \in Nat
    BY <2>0
  <2>2. CASE \E ch \in FirstChoices : Connect(c, ch)
    BY <2>1, <2>2 DEF Connect
  <2>3. CASE \E ch \in NextChoices : SendNewChoice(c, ch)
    BY <2>1, <2>3 DEF SendNewChoice
  <2>4. CASE SendText(c)
    BY <2>1, <2>4 DEF SendText
  <2>5. CASE SendChange(c)
    BY <2>1, <2>5 DEF SendChange
  <2> QED BY <1>6, <2>2, <2>3, <2>4, <2>5 DEF User, Client
<1> QED BY <1>3, <1>4, <1>5, <1>6

\* ... an accept, ...
LEMMA AcceptorTalk ==
  ASSUME Typed, Talk, Acceptor
  PROVE  Talk'
<1> USE DEF acceptVars, sharedVars, clientVars, threadVars, serviceVars
<1>1. UNCHANGED <<toService, fromService, tpc, ti>>
  BY DEF Acceptor, AcceptSelect, AcceptProxyClient, ServeProxyClient, AcceptClient,
         StoreClient
<1>2. \A k \in Services : Handling(k) => Current(k)' = Current(k)
  <2>1. CASE UNCHANGED order
    BY <1>1, <2>1 DEF Current
  <2>2. CASE Count /\ StoreClient
    <3>1. order \in Seq(Clients) /\ anew \in Clients
      BY <2>2 DEF StoreClient, Typed, TypeOK
    <3>2. \A i \in 1 .. Len(order) : order'[i] = order[i]
      BY <2>2, <3>1, AppendProperties DEF Count
    <3> QED BY <1>1, <3>2 DEF Current, Typed, IndexOK
  <2> QED BY <2>1, <2>2 DEF Acceptor, AcceptSelect, AcceptProxyClient,
                            ServeProxyClient, AcceptClient, StoreClient, StoreNumber
<1>3. \A k \in Services : OneExchange(k)'
  BY <1>1, <1>2 DEF Talk, OneExchange, Handling, SentBy
<1>4. CASE AcceptSelect \/ StoreClient
  BY <1>3, <1>4 DEF AcceptSelect, StoreClient, streamVars, Talk, NoCrossTalk, SentBy
<1>5. CASE AcceptProxyClient \/ AcceptClient
  <2>1. UNCHANGED toClient /\ \E p \in Ports : AcceptFrom(p)
    BY <1>5 DEF AcceptProxyClient, AcceptClient, Ports
  <2>2. PICK p \in Ports : AcceptFrom(p)
    BY <2>1
  <2> DEFINE c == Head(backlog[p])
  <2>3. c \in Clients /\ toServer[c] # <<>>
        /\ toServer' = [toServer EXCEPT ![c] = AfterChoice(toServer[c])]
    BY <2>2, HeadTailProperties DEF AcceptFrom, Typed, TypeOK
  <2>4. SentBy(AfterChoice(toServer[c]), c)
    BY <2>3, AfterChoiceSentBy DEF Talk, Typed, TypeOK
  <2> HIDE DEF c
  <2>5. \A d \in Clients : SentBy(toServer'[d], d)
    BY <2>3, <2>4 DEF Talk, Typed, TypeOK
  <2>6. NoCrossTalk'
    BY <2>1 DEF Talk, NoCrossTalk, SentBy
  <2> QED BY <1>3, <2>5, <2>6 DEF Talk, SentBy
<1>6. CASE ServeProxyClient
  <2>1. anew \in Clients /\ toServer[anew] \in Seq(Items) /\ SentBy(toServer[anew], anew)
    BY <1>6 DEF ServeProxyClient, Typed, TypeOK, Talk
  <2>2. [by |-> PROXY, msg |-> toServer[anew]] \in Replies
    BY <2>1 DEF Replies, PROXY
  <2>3. NoCrossTalk'
    BY <1>6, <2>1, <2>2, DeliverTalk DEF ServeProxyClient, Talk
  <2>4. \A d \in Clients : SentBy(toServer'[d], d)
    BY <1>6, <2>1, EmptySeq DEF ServeProxyClient, Talk, SentBy, Typed, TypeOK
  <2> QED BY <1>3, <2>3, <2>4 DEF Talk, SentBy
<1> QED BY <1>4, <1>5, <1>6 DEF Acceptor

\* ... and a thread.
LEMMA ThreadTalk ==
  ASSUME Typed, Talk, NEW k \in Services, Thread(k) \/ Convert(k)
  PROVE  Talk'
<1> USE DEF acceptVars, clientVars, threadVars, serviceVars, streamVars, Goto
<1>0. /\ tpc \in [Services -> {"build", "select", "scan", "recv", "choice", "reply"}]
      /\ ti \in [Services -> Nat \ {0}]
      /\ toServer \in [Clients -> Seq(Items)]
      /\ toService \in [Services -> Seq(Seq(Items))]
      /\ fromService \in [Services -> Seq(Replies)]
  BY DEF Typed, TypeOK
<1>1. Handling(k) => Current(k) \in Clients
  BY ElementOfSeq DEF Current, Typed, TypeOK, IndexOK
<1>2. UNCHANGED order
  BY DEF Thread, Convert, BuildSet, SelectClients, ScanClients, RecvClient,
         RecvChoice, RelayReply, sharedVars
\* The exchanges of the other services are not disturbed.
<1>3. ASSUME NEW j \in Services, j # k PROVE OneExchange(j)'
  <2>1. /\ tpc'[j] = tpc[j] /\ ti'[j] = ti[j]
        /\ toService'[j] = toService[j] /\ fromService'[j] = fromService[j]
    BY <1>0, <1>3 DEF Thread, Convert, BuildSet, SelectClients, ScanClients,
                      RecvClient, RecvChoice, RelayReply, NextClient
  <2> QED BY <1>2, <2>1 DEF Talk, OneExchange, Current, SentBy
<1>3a. OneExchange(k)' => \A j \in Services : OneExchange(j)'
  BY <1>3
<1>3b. ASSUME UNCHANGED toClient PROVE NoCrossTalk'
  BY <1>3b DEF Talk, NoCrossTalk
<1>4. CASE BuildSet(k) \/ SelectClients(k) \/ ScanClients(k)
  <2>1. UNCHANGED <<toServer, toClient, toService, fromService>> /\ tpc[k] # "reply"
    BY <1>4 DEF BuildSet, SelectClients, ScanClients
  <2>2. OneExchange(k)'
    BY <2>1 DEF Talk, OneExchange
  <2>3. \A d \in Clients : SentBy(toServer'[d], d)
    BY <2>1 DEF Talk
  <2> QED BY <1>3a, <1>3b, <2>1, <2>2, <2>3 DEF Talk
<1>5. CASE RecvClient(k)
  <2> DEFINE c == Current(k)
             m == toServer[c]
  <2>1. /\ c \in Clients /\ m \in Seq(Items) /\ SentBy(m, c)
        /\ toService[k] = <<>> /\ fromService[k] = <<>>
        /\ toServer' = [toServer EXCEPT ![c] = <<>>]
        /\ UNCHANGED <<toClient, fromService, ti>>
    BY <1>0, <1>1, <1>5 DEF RecvClient, Handling, Talk, OneExchange
  <2>2. \A d \in Clients : SentBy(toServer'[d], d)
    BY <1>0, <2>1, EmptySeq DEF Talk, SentBy
  <2>3. CASE tpc' = [tpc EXCEPT ![k] = "reply"]
             /\ toService' = [toService EXCEPT ![k] = Append(toService[k], m)]
    <3>1. toService'[k] = <<m>> /\ tpc'[k] = "reply" /\ Current(k)' = c
      BY <1>0, <1>2, <2>1, <2>3 DEF Current
    <3>2. Len(toService'[k]) = 1 /\ toService'[k][1] = m
      BY <3>1
    <3>3. OneExchange(k)'
      BY <2>1, <3>1, <3>2 DEF OneExchange, SentBy
    <3> QED BY <1>3a, <1>3b, <2>1, <2>2, <3>3 DEF Talk
  <2>4. CASE UNCHANGED toService
    <3>1. OneExchange(k)'
      BY <2>1, <2>4 DEF OneExchange
    <3> QED BY <1>3a, <1>3b, <2>1, <2>2, <3>1 DEF Talk
  <2> QED BY <1>5, <2>3, <2>4 DEF RecvClient
<1>6. CASE RecvChoice(k)
  <2> DEFINE c == Current(k)
  <2>1. /\ c \in Clients /\ tpc[k] = "choice"
        /\ UNCHANGED <<toClient, toService, fromService>>
        /\ \/ UNCHANGED toServer
           \/ toServer[c] # <<>> /\ toServer' = [toServer EXCEPT ![c] = AfterChoice(toServer[c])]
    BY <1>1, <1>6 DEF RecvChoice, Handling
  <2>2. toServer[c] # <<>> => SentBy(AfterChoice(toServer[c]), c)
    BY <1>0, <2>1, AfterChoiceSentBy DEF Talk
  <2> HIDE DEF c
  <2>3. \A d \in Clients : SentBy(toServer'[d], d)
    BY <1>0, <2>1, <2>2 DEF Talk, SentBy
  <2>4. OneExchange(k)'
    BY <2>1 DEF Talk, OneExchange
  <2> QED BY <1>3a, <1>3b, <2>1, <2>3, <2>4 DEF Talk
<1>7. CASE RelayReply(k)
  <2> DEFINE c == Current(k)
             r == Head(fromService[k])
  <2>1. /\ c \in Clients /\ fromService[k] # <<>> /\ tpc[k] = "reply"
        /\ Deliver(c, r) /\ UNCHANGED <<toServer, toService>>
        /\ fromService' = [fromService EXCEPT ![k] = Tail(fromService[k])]
    BY <1>1, <1>7 DEF RelayReply, Handling
  <2>2. /\ toService[k] = <<>> /\ Len(fromService[k]) = 1
        /\ SentBy(fromService[k][1].msg, c)
    BY <2>1 DEF Talk, OneExchange
  <2>3. r = fromService[k][1] /\ r \in Replies /\ Tail(fromService[k]) = <<>>
    <3>1. Tail(fromService[k]) \in Seq(Replies) /\ Len(Tail(fromService[k])) = 0
      BY <1>0, <2>1, <2>2, HeadTailProperties
    <3> QED BY <1>0, <2>1, <3>1, EmptySeq, HeadTailProperties
  <2>4. NoCrossTalk'
    BY <2>1, <2>2, <2>3, DeliverTalk DEF Talk
  <2>5. OneExchange(k)'
    BY <1>0, <2>1, <2>2, <2>3 DEF OneExchange
  <2>6. \A d \in Clients : SentBy(toServer'[d], d)
    BY <2>1 DEF Talk
  <2> QED BY <1>3a, <2>4, <2>5, <2>6 DEF Talk
<1>8. CASE Convert(k)
  <2> DEFINE m == Head(toService[k])
  <2>1. /\ toService[k] # <<>> /\ toService' = [toService EXCEPT ![k] = Tail(toService[k])]
        /\ UNCHANGED <<toServer, toClient, tpc, ti>>
    BY <1>8 DEF Convert
  <2>2. /\ tpc[k] = "reply" /\ fromService[k] = <<>> /\ Len(toService[k]) = 1
        /\ SentBy(toService[k][1], Current(k))
    BY <2>1 DEF Talk, OneExchange
  <2>3. m = toService[k][1] /\ toService'[k] = <<>>
    <3>1. /\ Tail(toService[k]) \in Seq(Seq(Items)) /\ Len(Tail(toService[k])) = 0
          /\ Head(toService[k]) = toService[k][1]
      BY <1>0, <2>1, <2>2, HeadTailProperties
    <3>2. Tail(toService[k]) = <<>>
      BY <3>1, EmptySeq
    <3> QED BY <1>0, <2>1, <3>1, <3>2
  <2>3a. \A d \in Clients : SentBy(toServer'[d], d)
    BY <2>1 DEF Talk
  <2> HIDE DEF m
  <2>4. CASE fromService' = fromService
    <3>1. OneExchange(k)'
      BY <1>0, <2>2, <2>3, <2>4 DEF OneExchange
    <3> QED BY <1>3a, <1>3b, <2>1, <2>3a, <3>1 DEF Talk
  <2>5. CASE fromService' = [fromService EXCEPT ![k] = Append(fromService[k], [by |-> k, msg |-> m])]
    <3>1. fromService'[k] = <<[by |-> k, msg |-> m]>>
      BY <1>0, <2>2, <2>5
    <3>2. Len(fromService'[k]) = 1 /\ fromService'[k][1].msg = m
      BY <3>1
    <3>3. OneExchange(k)'
      BY <1>2, <2>1, <2>2, <2>3, <3>2 DEF OneExchange, Current, SentBy
    <3> QED BY <1>3a, <1>3b, <2>1, <2>3a, <3>3 DEF Talk
  <2> QED BY <1>8, <2>4, <2>5 DEF Convert, m
<1> QED BY <1>4, <1>5, <1>6, <1>7, <1>8 DEF Thread

\* Whatever the build, the clients and their users do, a reply on a connection
\* was made from what that client sent.
THEOREM NoCrossTalkHolds == Spec => []NoCrossTalk
<1>1. Init => Typed /\ Talk
  BY InitTyped, InitTalk
<1>2. Typed /\ Talk /\ [Next]_vars => (Typed /\ Talk)'
  <2> SUFFICES ASSUME Typed, Talk, [Next]_vars PROVE Typed' /\ Talk'
    OBVIOUS
  <2>1. Typed'
    BY NextTyped
  <2>2. CASE Next
    BY <2>1, <2>2, ClientTalk, AcceptorTalk, ThreadTalk DEF Next
  <2>3. CASE UNCHANGED vars
    BY <2>1, <2>3 DEF vars, streamVars, serviceVars, sharedVars, threadVars, Talk,
                      OneExchange, NoCrossTalk, SentBy, Current
  <2> QED BY <2>2, <2>3
<1>3. Talk => NoCrossTalk
  BY DEF Talk
<1> QED BY <1>1, <1>2, <1>3, PTL DEF Spec

-----------------------------------------------------------------------------
(***************************************************************************)
(* The right conversion, for patient users.  What a user has asked for is  *)
(* in one place at a time: on the connection, with the thread of the       *)
(* service, with the service itself, or answered.  Asks says which it can  *)
(* be for a client no thread is busy with, Serves where it is while one    *)
(* is, Number that the server goes by the user's choice, and Roles which   *)
(* clients the accept thread and clients[] hold.                           *)
(***************************************************************************)
Queued(c) == \E p \in Ports : \E i \in 1 .. Len(backlog[p]) : backlog[p][i] = c

Busy(c) == \E k \in Services : tpc[k] \in {"choice", "reply"} /\ Current(k) = c

Text(c)   == <<Item("text", c, texts[c])>>
Choice(c) == <<Item("choice", c, svc[c])>>

\* What is under way for client c while neither the accept thread nor the
\* thread of a service is at work on it.
Idle(c) ==
  \/ cpc[c] = "prompt" /\ toServer[c] = <<>> /\ toClient[c] = <<>>
  \/ /\ cpc[c] = "menu" /\ toClient[c] = <<>>
     /\ toServer[c] = <<Item("CHANGE", c, changes[c])>>
  \/ cpc[c] = "waiting" /\ toServer[c] = Text(c) /\ toClient[c] = <<>>
  \/ /\ cpc[c] = "waiting" /\ toServer[c] = <<>>
     /\ toClient[c] = << [by |-> svc[c], msg |-> Text(c)] >>
  \/ cpc[c] = "gone" /\ toServer[c] = <<>> /\ toClient[c] = <<>>

Asks(c) ==
  /\ cpc[c] = "start" => toServer[c] = <<>> /\ toClient[c] = <<>> /\ changes[c] = 0
  /\ cpc[c] = "menu" => changes[c] # 0
  /\ cpc[c] = "gone" => outer[c] = PROXY
  /\ cpc[c] # "start" /\ outer[c] = PROXY /\ changes[c] = 0 => svc[c] = PROXY
  /\ Queued(c) => /\ cpc[c] = "prompt" /\ changes[c] = 0
                  /\ toServer[c] = Choice(c) /\ toClient[c] = <<>>
  /\ cpc[c] # "start" /\ ~ Queued(c) /\ ~ Busy(c)
     /\ (outer[c] = PROXY => changes[c] = 0) => Idle(c)

\* The number the server has for a client is the user's last choice, unless
\* that choice is on its way.
Number(c) ==
  /\ (InOrder(c) \/ (anew = c /\ apc = "store2"))
     /\ ~ (cpc[c] = "prompt" /\ toServer[c] # <<>>) => serviceNumber[c] = svc[c]
  /\ anew = c /\ apc = "store" => achoice = svc[c]

Serves(k) ==
  LET c == Current(k)
  IN  /\ tpc[k] = "choice" =>
           /\ toClient[c] = <<>>
           /\ \/ cpc[c] = "menu" /\ toServer[c] = <<>>
              \/ cpc[c] = "prompt" /\ toServer[c] = Choice(c)
      /\ tpc[k] = "reply" =>
           /\ cpc[c] = "waiting" /\ svc[c] = k
           /\ toServer[c] = <<>> /\ toClient[c] = <<>>
           /\ \/ toService[k] = <<Text(c)>>
              \/ fromService[k] = << [by |-> k, msg |-> Text(c)] >>

Roles ==
  /\ \A i \in 1 .. Len(order) : outer[order[i]] # PROXY
  /\ apc \in {"store", "store2"} => outer[anew] # PROXY
  /\ apc = "message" => /\ outer[anew] = PROXY /\ toClient[anew] = <<>>
                        /\ cpc[anew] # "gone"
  /\ \A i \in 1 .. Len(backlog["client"]) : outer[backlog["client"][i]] # PROXY
  /\ \A i \in 1 .. Len(backlog["proxyService"]) : outer[backlog["proxyService"][i]] = PROXY

Conversing == /\ \A c \in Clients : Asks(c) /\ Number(c)
              /\ \A k \in Services : Serves(k)
              /\ Roles

\* What is neither at nor for client d leaves its share of the invariant alone.
LEMMA AsksFrame ==
  ASSUME NEW d \in Clients, Asks(d),
         cpc'[d] = cpc[d], outer'[d] = outer[d], svc'[d] = svc[d],
         texts'[d] = texts[d], changes'[d] = changes[d],
         toServer'[d] = toServer[d], toClient'[d] = toClient[d],
         Queued(d)' <=> Queued(d), Busy(d)' <=> Busy(d)
  PROVE  Asks(d)'
BY DEF Asks, Idle, Text, Choice

\* Number is kept where nothing it speaks of changes, ...
LEMMA NumberFrame ==
  ASSUME NEW d \in Clients, Number(d),
         cpc'[d] = cpc[d], svc'[d] = svc[d], toServer'[d] = toServer[d],
         UNCHANGED <<serviceNumber, order, apc, anew, achoice>>
  PROVE  Number(d)'
BY DEF Number, InOrder

\* ... and so is Serves.
LEMMA ServesFrame ==
  ASSUME NEW k \in Services, Serves(k), NEW c, Current(k) = c, Current(k)' = c,
         cpc'[c] = cpc[c], svc'[c] = svc[c], texts'[c] = texts[c],
         toServer'[c] = toServer[c], toClient'[c] = toClient[c],
         tpc'[k] = tpc[k], toService'[k] = toService[k],
         fromService'[k] = fromService[k]
  PROVE  Serves(k)'
BY DEF Serves, Text, Choice

\* A thread that handles a client has it in clients[], which is not in a
\* backlog nor with the accept thread, and not of the proxy's own service.
LEMMA HandledClient ==
  ASSUME IInv, Roles, NEW k \in Services, Handling(k)
  PROVE  LET c == Current(k)
         IN  /\ c \in Clients /\ InOrder(c) /\ ~ Queued(c) /\ outer[c] # PROXY
             /\ cpc[c] # "start" /\ serviceNumber[c] = k
             /\ apc \in {"store", "store2"} => anew # c
<1>1. ti[k] \in 1 .. Len(order) /\ order \in Seq(Clients)
  BY DEF IInv, Typed, TypeOK, IndexOK
<1>2. Current(k) \in Clients /\ InOrder(Current(k))
  BY <1>1, ElementOfSeq DEF Current, InOrder
<1>3. outer[Current(k)] # PROXY
  BY <1>1 DEF Roles, Current
<1>4. ~ Queued(Current(k))
  BY <1>2 DEF Queued, IInv, AcceptedOnce
<1>5. cpc[Current(k)] # "start"
  BY <1>2 DEF IInv, AcceptedOnce
<1>6. serviceNumber[Current(k)] = k
  BY DEF IInv, Owned
<1>7. apc \in {"store", "store2"} => anew # Current(k)
  BY <1>2 DEF IInv, AcceptedOnce
<1> QED BY <1>2, <1>3, <1>4, <1>5, <1>6, <1>7

\* No two threads are at one client.
LEMMA BusyWith ==
  ASSUME IInv, NEW j \in Services, NEW k \in Services, Handling(j), Handling(k),
         Current(j) = Current(k)
  PROVE  j = k
BY DEF IInv, Owned

\* The program starts in Conversing.
LEMMA InitConversing == Init => Conversing
<1> SUFFICES ASSUME Init PROVE Conversing
  OBVIOUS
<1>1. \A p \in Ports : Len(backlog[p]) = 0
  BY EmptySeq DEF Init
<1>2. \A c \in Clients : ~ Queued(c)
  BY <1>1 DEF Queued
<1>3. \A c \in Clients : Asks(c)
  BY <1>2 DEF Init, Asks
<1>4. Len(order) = 0
  BY EmptySeq DEF Init
<1>5. \A c \in Clients : Number(c)
  BY <1>4 DEF Init, Number, InOrder
<1>6. \A k \in Services : Serves(k)
  BY DEF Init, Serves
<1>7. Roles
  BY <1>1, <1>4 DEF Init, Roles, Ports
<1> QED BY <1>3, <1>5, <1>6, <1>7 DEF Conversing

-----------------------------------------------------------------------------
(* Steps of a client.  What is common to them comes first.                 *)

\* What the step of a client leaves alone.
LEMMA ClientFrame ==
  ASSUME IInv, Conversing, NEW c \in Clients, User(c) \/ Client(c)
  PROVE  /\ UNCHANGED <<toService, fromService, order, serviceNumber, apc, anew,
                        achoice, tpc, ti>>
         /\ \A d \in Clients : d # c =>
              /\ cpc'[d] = cpc[d] /\ outer'[d] = outer[d] /\ svc'[d] = svc[d]
              /\ texts'[d] = texts[d] /\ changes'[d] = changes[d]
              /\ toServer'[d] = toServer[d] /\ toClient'[d] = toClient[d]
         /\ \A d \in Clients : (Busy(d)' <=> Busy(d)) /\ (InOrder(d)' <=> InOrder(d))
         /\ \A k \in Services : Current(k)' = Current(k)
<1> USE DEF serviceVars, sharedVars, acceptVars, threadVars, streamVars
<1>1. UNCHANGED <<toService, fromService, order, serviceNumber, apc, anew,
                  achoice, tpc, ti>>
  BY DEF User, Client, Connect, SendText, SendChange, Disconnect, SendNewChoice,
         RecvReply
<1>2. \A d \in Clients : d # c =>
        /\ cpc'[d] = cpc[d] /\ outer'[d] = outer[d] /\ svc'[d] = svc[d]
        /\ texts'[d] = texts[d] /\ changes'[d] = changes[d]
        /\ toServer'[d] = toServer[d] /\ toClient'[d] = toClient[d]
  <2> USE DEF IInv, Typed, TypeOK, Send
  <2>1. CASE \E ch \in FirstChoices : Connect(c, ch)
    BY <2>1 DEF Connect
  <2>2. CASE SendText(c)
    BY <2>2 DEF SendText
  <2>3. CASE SendChange(c)
    BY <2>3 DEF SendChange
  <2>4. CASE Disconnect(c)
    BY <2>4 DEF Disconnect
  <2>5. CASE \E ch \in NextChoices : SendNewChoice(c, ch)
    BY <2>5 DEF SendNewChoice
  <2>6. CASE RecvReply(c)
    BY <2>6 DEF RecvReply
  <2> QED BY <2>1, <2>2, <2>3, <2>4, <2>5, <2>6 DEF User, Client
<1>3. \A k \in Services : Current(k)' = Current(k)
  BY <1>1 DEF Current
<1>4. \A d \in Clients : (Busy(d)' <=> Busy(d)) /\ (InOrder(d)' <=> InOrder(d))
  BY <1>1, <1>3 DEF Busy, InOrder
<1> QED BY <1>1, <1>2, <1>3, <1>4

\* It is enough to look at the client itself and at a thread that is at it.
LEMMA ClientSuffices ==
  ASSUME IInv, Conversing, NEW c \in Clients, User(c) \/ Client(c),
         UNCHANGED <<backlog, outer>>,
         apc = "message" /\ anew = c => toClient'[c] = <<>> /\ cpc'[c] # "gone",
         Asks(c)', Number(c)',
         \A k \in Services : Handling(k) /\ Current(k) = c => Serves(k)'
  PROVE  Conversing'
<1>1. \A d \in Clients : Queued(d)' <=> Queued(d)
  BY DEF Queued
<1>2. \A d \in Clients : Asks(d)' /\ Number(d)'
  <2> SUFFICES ASSUME NEW d \in Clients, d # c PROVE Asks(d)' /\ Number(d)'
    OBVIOUS
  <2>1. Asks(d) /\ Number(d)
    BY DEF Conversing
  <2> QED BY <1>1, <2>1, ClientFrame, AsksFrame, NumberFrame
<1>3. ASSUME NEW k \in Services PROVE Serves(k)'
  <2>1. CASE ~ Handling(k)
    BY <2>1, ClientFrame DEF Handling, Serves
  <2>2. CASE Handling(k) /\ Current(k) # c
    <3>1. Current(k) \in Clients /\ Current(k)' = Current(k) /\ Serves(k)
      BY <2>2, HandledClient, ClientFrame DEF Conversing
    <3> QED BY <2>2, <3>1, ClientFrame, ServesFrame
  <2> QED BY <2>1, <2>2
<1>4. Roles'
  <2>1. apc \in {"message", "store", "store2"} => anew \in Clients
    BY DEF IInv, Typed, TypeOK
  <2> QED BY <2>1, ClientFrame DEF Conversing, Roles
<1> QED BY <1>2, <1>3, <1>4 DEF Conversing

\* A client that may type has nothing under way.
LEMMA MayTypeIdle ==
  ASSUME IInv, Conversing, Paced, NEW c \in Clients, cpc[c] = "prompt", MayType(c)
  PROVE  /\ toServer[c] = <<>> /\ ~ Queued(c) /\ ~ Busy(c)
         /\ (outer[c] = PROXY => changes[c] = 0) => toClient[c] = <<>>
<1>1. toServer[c] = <<>> /\ Asks(c)
  BY DEF MayType, Conversing
<1>2. Choice(c) # <<>>
  BY DEF Choice
<1>3. ~ Queued(c)
  BY <1>1, <1>2 DEF Asks
<1>4. ~ Busy(c)
  <2> SUFFICES ASSUME NEW k \in Services, tpc[k] \in {"choice", "reply"}, Current(k) = c
               PROVE  FALSE
    BY DEF Busy
  <2> QED BY <1>1, <1>2 DEF Conversing, Serves
<1>5. (outer[c] = PROXY => changes[c] = 0) => toClient[c] = <<>>
  BY <1>1, <1>3, <1>4 DEF Asks, Idle
<1> QED BY <1>1, <1>3, <1>4, <1>5

\* A client sends a text, ...
LEMMA SendTextConversing ==
  ASSUME IInv, Conversing, Paced, NEW c \in Clients, SendText(c)
  PROVE  Conversing'
<1>1. /\ cpc[c] = "prompt" /\ toServer[c] = <<>> /\ ~ Queued(c) /\ ~ Busy(c)
      /\ (outer[c] = PROXY => changes[c] = 0) => toClient[c] = <<>>
  BY MayTypeIdle DEF SendText
<1>2. /\ cpc'[c] = "waiting" /\ texts'[c] = texts[c] + 1
      /\ toServer'[c] = <<Item("text", c, texts[c] + 1)>>
      /\ UNCHANGED <<outer, svc, changes, toClient, backlog>>
  <2>1. /\ cpc \in [Clients -> {"start", "prompt", "menu", "waiting", "gone"}]
        /\ texts \in [Clients -> Nat] /\ toServer \in [Clients -> Seq(Items)]
    BY DEF IInv, Typed, TypeOK
  <2> QED BY <1>1, <2>1 DEF SendText, Send
<1>3. Asks(c) /\ Number(c)
  BY DEF Conversing
<1>4. /\ ~ Queued(c)' /\ ~ Busy(c)'
      /\ UNCHANGED <<serviceNumber, apc, anew, achoice>> /\ (InOrder(c)' <=> InOrder(c))
  BY <1>1, <1>2, ClientFrame DEF User, Queued
<1>5. (outer'[c] = PROXY => changes'[c] = 0) => Idle(c)'
  BY <1>1, <1>2 DEF Idle, Text
<1>6. Asks(c)'
  BY <1>1, <1>2, <1>3, <1>4, <1>5 DEF Asks
<1>7. Number(c)'
  BY <1>1, <1>2, <1>3, <1>4 DEF Number
<1>8. ASSUME NEW k \in Services, Handling(k), Current(k) = c PROVE Serves(k)'
  BY <1>1, <1>8, ClientFrame DEF Busy, Serves, User
<1>9. apc = "message" /\ anew = c => toClient'[c] = <<>> /\ cpc'[c] # "gone"
  BY <1>2 DEF Conversing, Roles
<1> QED BY <1>2, <1>6, <1>7, <1>8, <1>9, ClientSuffices DEF User

\* ... asks for another service, ...
LEMMA SendChangeConversing ==
  ASSUME IInv, Conversing, Paced, NEW c \in Clients, SendChange(c)
  PROVE  Conversing'
<1>1. /\ cpc[c] = "prompt" /\ toServer[c] = <<>> /\ ~ Queued(c) /\ ~ Busy(c)
      /\ (outer[c] = PROXY => changes[c] = 0) => toClient[c] = <<>>
  BY MayTypeIdle DEF SendChange
<1>2. /\ cpc'[c] = "menu" /\ changes'[c] = changes[c] + 1 /\ changes[c] \in Nat
      /\ toServer'[c] = <<Item("CHANGE", c, changes[c] + 1)>>
      /\ UNCHANGED <<outer, svc, texts, toClient, backlog>>
  <2>1. /\ cpc \in [Clients -> {"start", "prompt", "menu", "waiting", "gone"}]
        /\ changes \in [Clients -> Nat] /\ toServer \in [Clients -> Seq(Items)]
    BY DEF IInv, Typed, TypeOK
  <2> QED BY <1>1, <2>1 DEF SendChange, Send
<1>3. Asks(c) /\ Number(c)
  BY DEF Conversing
<1>4. /\ ~ Queued(c)' /\ ~ Busy(c)'
      /\ UNCHANGED <<serviceNumber, apc, anew, achoice>> /\ (InOrder(c)' <=> InOrder(c))
  BY <1>1, <1>2, ClientFrame DEF User, Queued
<1>4a. changes'[c] # 0
  BY <1>2
<1>5. (outer'[c] = PROXY => changes'[c] = 0) => Idle(c)'
  BY <1>1, <1>2, <1>4a DEF Idle
<1>6. Asks(c)'
  BY <1>1, <1>2, <1>3, <1>4, <1>4a, <1>5 DEF Asks
<1>7. Number(c)'
  BY <1>1, <1>2, <1>3, <1>4 DEF Number
<1>8. ASSUME NEW k \in Services, Handling(k), Current(k) = c PROVE Serves(k)'
  BY <1>1, <1>8, ClientFrame DEF Busy, Serves, User
<1>9. apc = "message" /\ anew = c => toClient'[c] = <<>> /\ cpc'[c] # "gone"
  BY <1>2 DEF Conversing, Roles
<1> QED BY <1>2, <1>6, <1>7, <1>8, <1>9, ClientSuffices DEF User

\* The answer to the menu is typed once a thread has read the CHANGE.
LEMMA SendNewChoiceConversing ==
  ASSUME IInv, Conversing, Paced, NEW c \in Clients, NEW ch \in NextChoices,
         SendNewChoice(c, ch)
  PROVE  Conversing'
<1>1. cpc[c] = "menu" /\ toServer[c] = <<>>
  BY DEF SendNewChoice, MayType
<1>2. /\ cpc'[c] = "prompt" /\ svc'[c] = ch
      /\ toServer'[c] = <<Item("choice", c, ch)>>
      /\ UNCHANGED <<outer, texts, changes, toClient, backlog>>
  <2>1. /\ cpc \in [Clients -> {"start", "prompt", "menu", "waiting", "gone"}]
        /\ svc \in [Clients -> 0 .. NUMS] /\ toServer \in [Clients -> Seq(Items)]
    BY DEF IInv, Typed, TypeOK
  <2> QED BY <1>1, <2>1 DEF SendNewChoice, Send
<1>3. Asks(c) /\ Number(c)
  BY DEF Conversing
<1>4. ~ Queued(c) /\ changes[c] # 0
  BY <1>1, <1>3 DEF Asks
<1>5. outer[c] = PROXY \/ Busy(c)
  BY <1>1, <1>3, <1>4 DEF Asks, Idle
<1>6. /\ ~ Queued(c)' /\ (Busy(c)' <=> Busy(c))
      /\ UNCHANGED <<serviceNumber, apc, anew, achoice>> /\ (InOrder(c)' <=> InOrder(c))
  BY <1>2, <1>4, ClientFrame DEF Client, Queued
<1>7. Asks(c)'
  BY <1>2, <1>3, <1>4, <1>5, <1>6 DEF Asks
<1>8. apc = "store" => anew # c
  <2> SUFFICES ASSUME apc = "store", anew = c PROVE FALSE
    OBVIOUS
  <2>1. outer[c] # PROXY
    BY DEF Conversing, Roles
  <2>2. PICK k \in Services : Handling(k) /\ Current(k) = c
    BY <1>5, <2>1 DEF Busy, Handling
  <2> QED BY <2>2, HandledClient DEF Conversing
<1>9. Number(c)'
  BY <1>2, <1>6, <1>8 DEF Number
<1>10. ASSUME NEW k \in Services, Handling(k), Current(k) = c PROVE Serves(k)'
  <2>1. Serves(k) /\ tpc'[k] = tpc[k] /\ Current(k)' = c
    BY <1>10, ClientFrame DEF Conversing, Client
  <2> QED BY <1>1, <1>2, <1>10, <2>1 DEF Serves, Choice
<1>11. apc = "message" /\ anew = c => toClient'[c] = <<>> /\ cpc'[c] # "gone"
  BY <1>2 DEF Conversing, Roles
<1> QED BY <1>2, <1>7, <1>9, <1>10, <1>11, ClientSuffices DEF Client

\* ... receives a reply: ...
LEMMA RecvReplyConversing ==
  ASSUME IInv, Conversing, NEW c \in Clients, RecvReply(c)
  PROVE  Conversing'
<1>1. cpc[c] = "waiting" /\ toClient[c] # <<>>
  BY DEF RecvReply
<1>2. /\ cpc'[c] = (IF outer[c] = PROXY THEN "gone" ELSE "prompt")
      /\ toClient'[c] = Tail(toClient[c])
      /\ UNCHANGED <<outer, svc, texts, changes, toServer, backlog>>
  BY DEF RecvReply, IInv, Typed, TypeOK
<1>3. Asks(c) /\ Number(c)
  BY DEF Conversing
<1>4. ~ Queued(c)
  BY <1>1, <1>3 DEF Asks
<1>5. ASSUME NEW k \in Services, Current(k) = c PROVE tpc[k] \notin {"choice", "reply"}
  BY <1>1, <1>5 DEF Conversing, Serves
<1>6. ~ Busy(c)
  BY <1>5 DEF Busy
<1>7. ASSUME outer[c] = PROXY => changes[c] = 0
      PROVE  toServer[c] = <<>> /\ toClient'[c] = <<>>
  <2>1. toServer[c] = <<>> /\ toClient[c] = << [by |-> svc[c], msg |-> Text(c)] >>
    BY <1>1, <1>3, <1>4, <1>6, <1>7 DEF Asks, Idle
  <2> QED BY <1>2, <2>1
<1>8. /\ ~ Queued(c)' /\ ~ Busy(c)'
      /\ UNCHANGED <<serviceNumber, apc, anew, achoice>> /\ (InOrder(c)' <=> InOrder(c))
  BY <1>2, <1>4, <1>6, ClientFrame DEF Client, Queued
<1>9. Asks(c)'
  BY <1>1, <1>2, <1>3, <1>7, <1>8 DEF Asks, Idle
<1>10. Number(c)'
  BY <1>1, <1>2, <1>3, <1>8 DEF Number
<1>11. ASSUME NEW k \in Services, Handling(k), Current(k) = c PROVE Serves(k)'
  BY <1>5, <1>11, ClientFrame DEF Serves, Client
<1>12. ~ (apc = "message" /\ anew = c)
  BY <1>1 DEF Conversing, Roles
<1> QED BY <1>2, <1>9, <1>10, <1>11, <1>12, ClientSuffices DEF Client

\* The first choice is in the backlog with its client.
LEMMA ConnectConversing ==
  ASSUME IInv, Conversing, NEW c \in Clients, NEW ch \in FirstChoices, Connect(c, ch)
  PROVE  Conversing'
<1> DEFINE port == IF ch = PROXY THEN "proxyService" ELSE "client"
<1>0. port \in Ports
  BY DEF Ports
<1>1. /\ cpc[c] = "start" /\ Asks(c)
      /\ toServer[c] = <<>> /\ toClient[c] = <<>> /\ changes[c] = 0
  BY DEF Connect, Conversing, Asks
<1>2. /\ cpc' = [cpc EXCEPT ![c] = "prompt"] /\ cpc'[c] = "prompt"
      /\ outer'[c] = ch /\ svc'[c] = ch
      /\ toServer'[c] = <<Item("choice", c, ch)>>
      /\ backlog' = [backlog EXCEPT ![port] = Append(backlog[port], c)]
      /\ UNCHANGED <<texts, changes, toClient>>
  <2>1. /\ cpc \in [Clients -> {"start", "prompt", "menu", "waiting", "gone"}]
        /\ outer \in [Clients -> 0 .. NUMS] /\ svc \in [Clients -> 0 .. NUMS]
        /\ toServer \in [Clients -> Seq(Items)]
    BY DEF IInv, Typed, TypeOK
  <2> QED BY <1>1, <2>1 DEF Connect, Send
<1>3. \A p \in Ports : \A i \in 1 .. Len(backlog'[p]) :
        \/ i \in 1 .. Len(backlog[p]) /\ backlog'[p][i] = backlog[p][i]
        \/ p = port /\ backlog'[p][i] = c
  <2> SUFFICES ASSUME NEW p \in Ports, NEW i \in 1 .. Len(backlog'[p])
               PROVE  \/ i \in 1 .. Len(backlog[p]) /\ backlog'[p][i] = backlog[p][i]
                      \/ p = port /\ backlog'[p][i] = c
    OBVIOUS
  <2>1. backlog \in [Ports -> Seq(Clients)]
    BY DEF IInv, Typed, TypeOK
  <2>2. CASE p = port
    <3>1. /\ Len(backlog[p]) \in Nat /\ Len(backlog'[p]) = Len(backlog[p]) + 1
          /\ \A j \in 1 .. Len(backlog[p]) : backlog'[p][j] = backlog[p][j]
          /\ backlog'[p][Len(backlog[p]) + 1] = c
      BY <1>0, <1>2, <2>1, <2>2, AppendProperties, LenProperties
    <3> QED BY <2>2, <3>1
  <2>3. CASE p # port
    BY <1>0, <1>2, <2>1, <2>3
  <2> QED BY <2>2, <2>3
<1>4. \A p \in Ports : \A i \in 1 .. Len(backlog[p]) :
        i \in 1 .. Len(backlog'[p]) /\ backlog'[p][i] = backlog[p][i]
  <2> SUFFICES ASSUME NEW p \in Ports, NEW i \in 1 .. Len(backlog[p])
               PROVE  i \in 1 .. Len(backlog'[p]) /\ backlog'[p][i] = backlog[p][i]
    OBVIOUS
  <2>1. backlog \in [Ports -> Seq(Clients)]
    BY DEF IInv, Typed, TypeOK
  <2>2. CASE p = port
    <3>1. /\ Len(backlog[p]) \in Nat /\ Len(backlog'[p]) = Len(backlog[p]) + 1
          /\ \A j \in 1 .. Len(backlog[p]) : backlog'[p][j] = backlog[p][j]
      BY <1>0, <1>2, <2>1, <2>2, AppendProperties, LenProperties
    <3> QED BY <2>2, <3>1
  <2>3. CASE p # port
    BY <1>0, <1>2, <2>1, <2>3
  <2> QED BY <2>2, <2>3
<1>5. /\ \A p \in Ports : \A i \in 1 .. Len(backlog[p]) : backlog[p][i] # c
      /\ ~ InOrder(c) /\ anew # c
  BY <1>1 DEF IInv, AcceptedOnce
<1> HIDE DEF port
<1>6. ASSUME NEW d \in Clients, d # c PROVE Queued(d)' <=> Queued(d)
  BY <1>3, <1>4, <1>6 DEF Queued
<1>7. \A d \in Clients : d # c => Asks(d)' /\ Number(d)'
  <2> SUFFICES ASSUME NEW d \in Clients, d # c PROVE Asks(d)' /\ Number(d)'
    OBVIOUS
  <2>1. Asks(d) /\ Number(d)
    BY DEF Conversing
  <2> QED BY <1>6, <2>1, ClientFrame, AsksFrame, NumberFrame DEF User
<1>8. Asks(c)'
  <2>1. Queued(c)'
    <3>1. /\ Len(backlog[port]) + 1 \in 1 .. Len(backlog'[port])
          /\ backlog'[port][Len(backlog[port]) + 1] = c
      BY <1>0, <1>2, AppendProperties, LenProperties DEF IInv, Typed, TypeOK
    <3> QED BY <1>0, <3>1 DEF Queued
  <2> QED BY <1>1, <1>2, <2>1 DEF Asks, Choice
<1>9. Number(c)'
  BY <1>5, ClientFrame DEF Number, User
<1>10. ASSUME NEW k \in Services PROVE Serves(k)'
  <2>1. CASE ~ Handling(k)
    BY <2>1, ClientFrame DEF Handling, Serves, User
  <2>2. CASE Handling(k)
    <3>1. Current(k) \in Clients /\ InOrder(Current(k)) /\ Serves(k)
          /\ Current(k)' = Current(k)
      BY <2>2, HandledClient, ClientFrame DEF Conversing, User
    <3>2. Current(k) # c
      BY <1>5, <3>1
    <3> QED BY <3>1, <3>2, ClientFrame, ServesFrame DEF User
  <2> QED BY <2>1, <2>2
<1>11. Roles'
  <2> USE DEF Conversing, Roles
  <2>0. UNCHANGED <<order, apc, anew>>
    BY ClientFrame DEF User
  <2>1. \A i \in 1 .. Len(order) : order[i] \in Clients /\ order[i] # c
    BY <1>5, ElementOfSeq DEF InOrder, IInv, Typed, TypeOK
  <2>2. apc \in {"message", "store", "store2"} => anew \in Clients /\ anew # c
    BY <1>5 DEF IInv, Typed, TypeOK
  <2>3. \A p \in Ports : \A i \in 1 .. Len(backlog[p]) :
          backlog[p][i] \in Clients /\ backlog[p][i] # c
    BY <1>5, QueuedAreClients DEF IInv
  <2>4. \A d \in Clients : d # c => /\ outer'[d] = outer[d] /\ cpc'[d] = cpc[d]
                                    /\ toClient'[d] = toClient[d]
    BY ClientFrame DEF User
  <2>5. /\ port = "client" => outer'[c] # PROXY
        /\ port = "proxyService" => outer'[c] = PROXY
    BY <1>2 DEF port
  <2>6. \A i \in 1 .. Len(order') : outer'[order'[i]] # PROXY
    BY <2>0, <2>1, <2>4
  <2>7. /\ apc' \in {"store", "store2"} => outer'[anew'] # PROXY
        /\ apc' = "message" => /\ outer'[anew'] = PROXY /\ toClient'[anew'] = <<>>
                               /\ cpc'[anew'] # "gone"
    BY <2>0, <2>2, <2>4
  <2>8. \A i \in 1 .. Len(backlog'["client"]) : outer'[backlog'["client"][i]] # PROXY
    <3> SUFFICES ASSUME NEW i \in 1 .. Len(backlog'["client"])
                 PROVE  outer'[backlog'["client"][i]] # PROXY
      OBVIOUS
    <3>1. "client" \in Ports
      BY DEF Ports
    <3>2. CASE i \in 1 .. Len(backlog["client"]) /\ backlog'["client"][i] = backlog["client"][i]
      BY <2>3, <2>4, <3>1, <3>2
    <3>3. CASE "client" = port /\ backlog'["client"][i] = c
      BY <2>5, <3>3
    <3> QED BY <1>3, <3>1, <3>2, <3>3
  <2>9. \A i \in 1 .. Len(backlog'["proxyService"]) :
          outer'[backlog'["proxyService"][i]] = PROXY
    <3> SUFFICES ASSUME NEW i \in 1 .. Len(backlog'["proxyService"])
                 PROVE  outer'[backlog'["proxyService"][i]] = PROXY
      OBVIOUS
    <3>1. "proxyService" \in Ports
      BY DEF Ports
    <3>2. CASE /\ i \in 1 .. Len(backlog["proxyService"])
               /\ backlog'["proxyService"][i] = backlog["proxyService"][i]
      BY <2>3, <2>4, <3>1, <3>2
    <3>3. CASE "proxyService" = port /\ backlog'["proxyService"][i] = c
      BY <2>5, <3>3
    <3> QED BY <1>3, <3>1, <3>2, <3>3
  <2> QED BY <2>6, <2>7, <2>8, <2>9
<1> QED BY <1>7, <1>8, <1>9, <1>10, <1>11 DEF Conversing

\* ... all its steps keep Conversing.
LEMMA ClientConversing ==
  ASSUME IInv, Conversing, Paced, ~ MayDisconnect, NEW c \in Clients, User(c) \/ Client(c)
  PROVE  Conversing'
BY ConnectConversing, SendTextConversing, SendChangeConversing,
   SendNewChoiceConversing, RecvReplyConversing DEF User, Client, Disconnect

-----------------------------------------------------------------------------
(* Steps of the accept thread. *)

\* What a step leaves alone that is of no client.
LEMMA OtherThanClient ==
  ASSUME NEW c \in Clients, clientVars' = clientVars
  PROVE  /\ cpc'[c] = cpc[c] /\ outer'[c] = outer[c] /\ svc'[c] = svc[c]
         /\ texts'[c] = texts[c] /\ changes'[c] = changes[c]
BY DEF clientVars

\* The accept thread takes the first choice with the connection.
LEMMA AcceptFromConversing ==
  ASSUME IInv, Conversing, NEW p \in Ports, AcceptFrom(p),
         UNCHANGED <<clientVars, toClient, serviceVars, sharedVars, threadVars>>,
         apc \notin {"store", "store2", "message"},
         apc' = IF p = "client" THEN "store" ELSE "message"
  PROVE  Conversing'
<1> USE DEF clientVars, serviceVars, sharedVars, threadVars
<1>0. /\ backlog \in [Ports -> Seq(Clients)] /\ toServer \in [Clients -> Seq(Items)]
      /\ backlog[p] # <<>> /\ backlog[p] \in Seq(Clients)
  BY DEF IInv, Typed, TypeOK, AcceptFrom
<1>a. 1 \in 1 .. Len(backlog[p]) /\ Head(backlog[p]) = backlog[p][1]
      /\ Head(backlog[p]) \in Clients
  BY <1>0, HeadTailProperties, EmptySeq, LenProperties
<1>1. PICK c \in Clients : /\ 1 \in 1 .. Len(backlog[p]) /\ c = backlog[p][1]
                          /\ c = Head(backlog[p])
  BY <1>a
<1>2. /\ cpc[c] = "prompt" /\ changes[c] = 0 /\ toServer[c] = Choice(c)
      /\ toClient[c] = <<>> /\ Asks(c)
  BY <1>1 DEF Conversing, Asks, Queued
<1>3. /\ anew' = c /\ achoice' = svc[c] /\ toServer' = [toServer EXCEPT ![c] = <<>>]
  <2>1. /\ Head(Choice(c)) = Item("choice", c, svc[c]) /\ Tail(Choice(c)) = <<>>
    BY DEF Choice
  <2>2. ChoiceIn(Choice(c)) = svc[c] /\ AfterChoice(Choice(c)) = <<>>
    BY <2>1 DEF ChoiceIn, AfterChoice, Item
  <2> QED BY <1>1, <1>2, <2>2 DEF AcceptFrom
<1>4. backlog' = [backlog EXCEPT ![p] = Tail(backlog[p])]
  BY DEF AcceptFrom
<1>5. \A q \in Ports : \A i \in 1 .. Len(backlog'[q]) :
         IF q = p THEN i + 1 \in 1 .. Len(backlog[q]) /\ backlog'[q][i] = backlog[q][i + 1]
         ELSE i \in 1 .. Len(backlog[q]) /\ backlog'[q][i] = backlog[q][i]
  <2> SUFFICES ASSUME NEW q \in Ports, NEW i \in 1 .. Len(backlog'[q])
               PROVE  IF q = p THEN i + 1 \in 1 .. Len(backlog[q]) /\ backlog'[q][i] = backlog[q][i + 1]
                      ELSE i \in 1 .. Len(backlog[q]) /\ backlog'[q][i] = backlog[q][i]
    OBVIOUS
  <2>1. CASE q = p
    <3>1. backlog'[q] = Tail(backlog[q])
      BY <1>0, <1>4, <2>1
    <3>2. /\ Len(backlog[q]) \in Nat /\ Len(Tail(backlog[q])) = Len(backlog[q]) - 1
          /\ \A j \in 1 .. Len(Tail(backlog[q])) : Tail(backlog[q])[j] = backlog[q][j + 1]
      BY <1>0, <2>1, HeadTailProperties, LenProperties
    <3> QED BY <2>1, <3>1, <3>2
  <2>2. CASE q # p
    BY <1>0, <1>4, <2>2
  <2> QED BY <2>1, <2>2
<1>6. \A d \in Clients : d # c => (Queued(d)' <=> Queued(d))
  <2> SUFFICES ASSUME NEW d \in Clients, d # c PROVE Queued(d)' <=> Queued(d)
    OBVIOUS
  <2>1. ASSUME Queued(d)' PROVE Queued(d)
    <3>1. PICK q \in Ports : \E i \in 1 .. Len(backlog'[q]) : backlog'[q][i] = d
      BY <2>1 DEF Queued
    <3> QED BY <1>5, <3>1 DEF Queued
  <2>2. ASSUME Queued(d) PROVE Queued(d)'
    <3>0. PICK q \in Ports : \E i \in 1 .. Len(backlog[q]) : backlog[q][i] = d
      BY <2>2 DEF Queued
    <3>1. PICK i \in 1 .. Len(backlog[q]) : backlog[q][i] = d
      BY <3>0
    <3>2. CASE q = p
      <4>1. i # 1 /\ i \in 1 .. Len(backlog[p])
        BY <1>1, <3>1, <3>2
      <4>2. /\ Len(backlog[p]) \in Nat /\ Len(Tail(backlog[p])) = Len(backlog[p]) - 1
            /\ \A j \in 1 .. Len(Tail(backlog[p])) : Tail(backlog[p])[j] = backlog[p][j + 1]
            /\ backlog'[p] = Tail(backlog[p])
        BY <1>0, <1>4, HeadTailProperties, LenProperties
      <4>3. i - 1 \in 1 .. Len(backlog'[p]) /\ backlog'[p][i - 1] = d
        BY <3>1, <3>2, <4>1, <4>2
      <4> QED BY <4>3 DEF Queued
    <3>3. CASE q # p
      <4>1. i \in 1 .. Len(backlog'[q]) /\ backlog'[q][i] = d
        BY <1>0, <1>4, <3>1, <3>3
      <4> QED BY <4>1 DEF Queued
    <3> QED BY <3>2, <3>3
  <2> QED BY <2>1, <2>2
<1>7. /\ \A d \in Clients : (Busy(d)' <=> Busy(d)) /\ (InOrder(d)' <=> InOrder(d))
      /\ \A k \in Services : Current(k)' = Current(k)
  BY DEF Busy, Current, InOrder
<1>8. ~ InOrder(c) /\ ~ Busy(c) /\ ~ Queued(c)'
  <2>1. /\ ~ InOrder(c)
        /\ \A x, y \in Ports : \A m \in 1 .. Len(backlog[x]), n \in 1 .. Len(backlog[y]) :
             backlog[x][m] = backlog[y][n] => x = y /\ m = n
    BY <1>1 DEF IInv, AcceptedOnce
  <2>2. ~ Busy(c)
    <3> SUFFICES ASSUME NEW k \in Services, tpc[k] \in {"choice", "reply"}, Current(k) = c
                 PROVE  FALSE
      BY DEF Busy
    <3> QED BY <2>1, HandledClient DEF Conversing, Handling
  <2>3. ~ Queued(c)'
    <3> SUFFICES ASSUME NEW q \in Ports, NEW i \in 1 .. Len(backlog'[q]), backlog'[q][i] = c
                 PROVE  FALSE
      BY DEF Queued
    <3>1. CASE q = p
      <4>1. i + 1 \in 1 .. Len(backlog[p]) /\ backlog[p][i + 1] = c
        BY <1>5, <3>1
      <4>2. i + 1 = 1
        BY <1>1, <2>1, <4>1
      <4> QED BY <1>0, <3>1, <4>2
    <3>2. CASE q # p
      BY <1>1, <1>5, <2>1, <3>2
    <3> QED BY <3>1, <3>2
  <2> QED BY <2>1, <2>2, <2>3
<1>9. Asks(c)'
  <2>1. Idle(c)'
    BY <1>0, <1>1, <1>2, <1>3 DEF Idle
  <2> QED BY <1>1, <1>2, <1>8, <2>1 DEF Asks
<1>10. \A d \in Clients : d # c => Asks(d)'
  <2> SUFFICES ASSUME NEW d \in Clients, d # c PROVE Asks(d)'
    OBVIOUS
  <2>1. Asks(d) /\ toServer'[d] = toServer[d] /\ toClient'[d] = toClient[d]
    BY <1>0, <1>3 DEF Conversing
  <2> QED BY <1>6, <1>7, <2>1, OtherThanClient, AsksFrame
<1>11. ASSUME NEW d \in Clients PROVE Number(d)'
  <2>1. CASE d = c
    BY <1>3, <1>7, <1>8, <2>1 DEF Number
  <2>2. CASE d # c
    <3>1. Number(d) /\ toServer'[d] = toServer[d] /\ anew' # d /\ (InOrder(d)' <=> InOrder(d))
      BY <1>0, <1>3, <1>7, <2>2 DEF Conversing
    <3> QED BY <3>1 DEF Number
  <2> QED BY <2>1, <2>2
<1>12. ASSUME NEW k \in Services PROVE Serves(k)'
  <2>1. CASE ~ Handling(k)
    BY <2>1 DEF Handling, Serves
  <2>2. CASE Handling(k)
    <3>1. Current(k) \in Clients /\ InOrder(Current(k)) /\ Serves(k)
          /\ Current(k)' = Current(k)
      BY <1>7, <2>2, HandledClient DEF Conversing
    <3>2. Current(k) # c
      BY <1>8, <3>1
    <3>3. toServer'[Current(k)] = toServer[Current(k)]
      BY <1>0, <1>3, <3>1, <3>2
    <3> QED BY <3>1, <3>3, ServesFrame
  <2> QED BY <2>1, <2>2
<1>13. Roles'
  <2>1. /\ \A i \in 1 .. Len(order) : outer[order[i]] # PROXY
        /\ \A i \in 1 .. Len(backlog["client"]) : outer[backlog["client"][i]] # PROXY
        /\ \A i \in 1 .. Len(backlog["proxyService"]) :
              outer[backlog["proxyService"][i]] = PROXY
    BY DEF Conversing, Roles
  <2>2. p \in {"client", "proxyService"}
    BY DEF Ports
  <2>3. /\ p = "client" => outer[c] # PROXY
        /\ p = "proxyService" => outer[c] = PROXY
    BY <1>1, <2>1
  <2>4. "client" \in Ports /\ "proxyService" \in Ports
    BY DEF Ports
  <2>5. /\ \A i \in 1 .. Len(backlog'["client"]) : outer[backlog'["client"][i]] # PROXY
        /\ \A i \in 1 .. Len(backlog'["proxyService"]) :
              outer[backlog'["proxyService"][i]] = PROXY
    <3>1. \A q \in Ports : \A i \in 1 .. Len(backlog'[q]) :
            \E j \in 1 .. Len(backlog[q]) : backlog'[q][i] = backlog[q][j]
      BY <1>5
    <3>2. ASSUME NEW i \in 1 .. Len(backlog'["client"])
          PROVE  outer[backlog'["client"][i]] # PROXY
      <4>1. PICK j \in 1 .. Len(backlog["client"]) :
              backlog'["client"][i] = backlog["client"][j]
        BY <2>4, <3>1
      <4> QED BY <2>1, <4>1
    <3>3. ASSUME NEW i \in 1 .. Len(backlog'["proxyService"])
          PROVE  outer[backlog'["proxyService"][i]] = PROXY
      <4>1. PICK j \in 1 .. Len(backlog["proxyService"]) :
              backlog'["proxyService"][i] = backlog["proxyService"][j]
        BY <2>4, <3>1
      <4> QED BY <2>1, <4>1
    <3> QED BY <3>2, <3>3
  <2>6. /\ apc' \in {"store", "store2"} => outer[anew'] # PROXY
        /\ apc' = "message" => /\ outer[anew'] = PROXY /\ toClient[anew'] = <<>>
                               /\ cpc[anew'] # "gone"
    BY <1>2, <1>3, <2>2, <2>3
  <2> QED BY <2>1, <2>5, <2>6 DEF Roles
<1> QED BY <1>9, <1>10, <1>11, <1>12, <1>13 DEF Conversing

\* A reply to a client that is there is appended to its connection.
LEMMA DeliverTo ==
  ASSUME Typed, NEW c \in Clients, NEW r, Deliver(c, r), cpc[c] # "gone", toClient[c] = <<>>
  PROVE  toClient' = [toClient EXCEPT ![c] = <<r>>]
<1>1. toClient' = [toClient EXCEPT ![c] = Append(toClient[c], r)]
  BY DEF Deliver
<1> QED BY <1>1

\* A client of the proxy is served, ...
LEMMA ServeProxyConversing ==
  ASSUME IInv, Conversing, ServeProxyClient
  PROVE  Conversing'
<1> USE DEF serviceVars, sharedVars, threadVars
<1>a. anew \in Clients
  BY DEF IInv, Typed, TypeOK, ServeProxyClient
<1>b. PICK c \in Clients : c = anew
  BY <1>a
<1> DEFINE r == [by |-> PROXY, msg |-> toServer[c]]
<1>0. /\ toServer \in [Clients -> Seq(Items)] /\ toClient \in [Clients -> Seq(Replies)]
      /\ c = anew /\ Typed /\ apc = "message"
  BY <1>b DEF IInv, Typed, TypeOK, ServeProxyClient
<1>1. /\ outer[c] = PROXY /\ toClient[c] = <<>> /\ cpc[c] # "gone" /\ Asks(c)
  BY <1>0 DEF Conversing, Roles, ServeProxyClient
<1>2. /\ toServer[c] # <<>>
      /\ toServer' = [toServer EXCEPT ![c] = <<>>]
      /\ toClient' = [toClient EXCEPT ![c] = <<r>>]
      /\ apc' \in {"client", "select"} /\ anew' = NoClient
      /\ UNCHANGED <<clientVars, backlog, serviceVars, sharedVars, threadVars>>
  BY <1>0, <1>1, DeliverTo DEF ServeProxyClient, Readable
<1>3. cpc[c] # "start" /\ ~ Queued(c)
  BY <1>0 DEF IInv, AcceptedOnce, Queued
<1>4. ASSUME NEW k \in Services, Handling(k) PROVE Current(k) # c
  BY <1>1, <1>4, HandledClient DEF Conversing
<1>5. ~ Busy(c)
  BY <1>4 DEF Busy, Handling
<1>6. /\ \A d \in Clients : (Busy(d)' <=> Busy(d)) /\ (InOrder(d)' <=> InOrder(d))
                            /\ (Queued(d)' <=> Queued(d))
      /\ \A k \in Services : Current(k)' = Current(k)
  BY <1>2 DEF Busy, Current, InOrder, Queued
<1>7. changes[c] = 0 =>
         (cpc[c] = "waiting" /\ toServer[c] = Text(c) /\ svc[c] = PROXY) \/ cpc[c] = "menu"
  BY <1>1, <1>2, <1>3, <1>5 DEF Asks, Idle
<1>8. Asks(c)'
  <2>1. /\ cpc'[c] = cpc[c] /\ outer'[c] = outer[c] /\ svc'[c] = svc[c]
        /\ texts'[c] = texts[c] /\ changes'[c] = changes[c]
        /\ toServer'[c] = <<>> /\ toClient'[c] = <<r>>
    BY <1>0, <1>2, OtherThanClient
  <2>2. changes[c] = 0 => Idle(c)'
    BY <1>1, <1>7, <2>1 DEF Idle, Text, Asks
  <2> QED BY <1>0, <1>1, <1>3, <1>5, <1>6, <2>1, <2>2 DEF Asks
<1>9. \A d \in Clients : d # c => Asks(d)'
  <2> SUFFICES ASSUME NEW d \in Clients, d # c PROVE Asks(d)'
    OBVIOUS
  <2>1. Asks(d) /\ toServer'[d] = toServer[d] /\ toClient'[d] = toClient[d]
    BY <1>0, <1>2 DEF Conversing
  <2> QED BY <1>2, <1>6, <2>1, OtherThanClient, AsksFrame
<1>10. ASSUME NEW d \in Clients PROVE Number(d)'
  <2>1. CASE d = c
    <3>1. ~ InOrder(c)
      <4> SUFFICES ASSUME NEW i \in 1 .. Len(order), order[i] = c PROVE FALSE
        BY DEF InOrder
      <4> QED BY <1>1 DEF Conversing, Roles
    <3> QED BY <1>2, <1>6, <2>1, <3>1 DEF Number
  <2>2. CASE d # c
    <3>1. /\ Number(d) /\ toServer'[d] = toServer[d] /\ cpc'[d] = cpc[d] /\ svc'[d] = svc[d]
          /\ UNCHANGED serviceNumber
      BY <1>0, <1>2, <2>2, OtherThanClient DEF Conversing
    <3> QED BY <1>2, <1>6, <3>1 DEF Number
  <2> QED BY <2>1, <2>2
<1>11. ASSUME NEW k \in Services PROVE Serves(k)'
  <2>1. CASE ~ Handling(k)
    BY <1>2, <2>1 DEF Handling, Serves
  <2>2. CASE Handling(k)
    <3>1. Current(k) \in Clients /\ Current(k) # c /\ Serves(k) /\ Current(k)' = Current(k)
      BY <1>4, <1>6, <2>2, HandledClient DEF Conversing
    <3>2. /\ toServer'[Current(k)] = toServer[Current(k)]
          /\ toClient'[Current(k)] = toClient[Current(k)]
      BY <1>0, <1>2, <3>1
    <3> QED BY <1>2, <3>1, <3>2, OtherThanClient, ServesFrame
  <2> QED BY <2>1, <2>2
<1>12. Roles'
  BY <1>2 DEF Roles, Conversing, clientVars
<1> QED BY <1>8, <1>9, <1>10, <1>11, <1>12 DEF Conversing

\* The record in clients[] is counted when it has the number.
LEMMA StoreConversing ==
  ASSUME IInv, Conversing, ~ CountFirst, StoreClient
  PROVE  Conversing'
<1> USE DEF streamVars, serviceVars, threadVars
<1>0. /\ order \in Seq(Clients) /\ anew \in Clients
      /\ serviceNumber \in [Clients -> Nat] /\ ~ InOrder(anew)
  BY DEF IInv, Typed, TypeOK, AcceptedOnce, StoreClient
<1>1. /\ UNCHANGED <<clientVars, streamVars, backlog, serviceVars, threadVars>>
      /\ outer[anew] # PROXY
  BY DEF StoreClient, Conversing, Roles
<1>2. \A k \in Services : Handling(k) => Current(k)' = Current(k)
  <2>1. CASE UNCHANGED order
    BY <1>1, <2>1 DEF Current
  <2>2. CASE Count
    <3>1. \A i \in 1 .. Len(order) : order'[i] = order[i]
      BY <1>0, <2>2, AppendProperties DEF Count
    <3> QED BY <1>1, <3>1 DEF Current, IInv, Typed, IndexOK
  <2> QED BY <2>1, <2>2 DEF StoreClient, StoreNumber
<1>3. \A d \in Clients : (Busy(d)' <=> Busy(d)) /\ (Queued(d)' <=> Queued(d))
  BY <1>1, <1>2 DEF Busy, Queued, Handling
<1>4. \A d \in Clients : Asks(d)'
  BY <1>1, <1>3, OtherThanClient, AsksFrame DEF Conversing
<1>5. ASSUME NEW k \in Services PROVE Serves(k)'
  <2>1. CASE ~ Handling(k)
    BY <1>1, <2>1 DEF Handling, Serves
  <2>2. CASE Handling(k)
    <3>1. Current(k) \in Clients /\ Serves(k) /\ Current(k)' = Current(k)
      BY <1>2, <2>2, HandledClient DEF Conversing
    <3> QED BY <1>1, <3>1, OtherThanClient, ServesFrame
  <2> QED BY <2>1, <2>2
<1>6. CASE apc = "store"
  <2>1. /\ apc' = "store2" /\ UNCHANGED <<order, anew, achoice>>
        /\ serviceNumber' = [serviceNumber EXCEPT ![anew] = achoice]
    BY <1>6 DEF StoreClient, StoreNumber
  <2>2. ASSUME NEW d \in Clients PROVE Number(d)'
    <3>1. /\ Number(d) /\ (InOrder(d)' <=> InOrder(d))
          /\ cpc'[d] = cpc[d] /\ svc'[d] = svc[d] /\ toServer'[d] = toServer[d]
      BY <1>1, <2>1, OtherThanClient DEF Conversing, InOrder
    <3>2. CASE d = anew
      BY <1>0, <1>6, <2>1, <3>1, <3>2 DEF Number
    <3>3. CASE d # anew
      BY <1>0, <1>6, <2>1, <3>1, <3>3 DEF Number
    <3> QED BY <3>2, <3>3
  <2>3. Roles'
    BY <1>1, <2>1 DEF Conversing, Roles, clientVars
  <2> QED BY <1>4, <1>5, <2>2, <2>3 DEF Conversing
<1>7. CASE apc = "store2"
  <2>1. /\ apc' = "select" /\ order' = Append(order, anew) /\ UNCHANGED serviceNumber
        /\ anew' = NoClient
    BY <1>7 DEF StoreClient, Count
  <2>2. /\ Len(order) \in Nat /\ Len(order') = Len(order) + 1
        /\ \A i \in 1 .. Len(order) : order'[i] = order[i]
        /\ order'[Len(order) + 1] = anew
    BY <1>0, <2>1, AppendProperties, LenProperties
  <2>3. ASSUME NEW d \in Clients PROVE Number(d)'
    <3>1. /\ Number(d)
          /\ cpc'[d] = cpc[d] /\ svc'[d] = svc[d] /\ toServer'[d] = toServer[d]
      BY <1>1, OtherThanClient DEF Conversing
    <3>2. InOrder(d)' => InOrder(d) \/ d = anew
      BY <2>2 DEF InOrder
    <3> QED BY <1>7, <2>1, <3>1, <3>2 DEF Number
  <2>4. Roles'
    <3>1. \A i \in 1 .. Len(order') : outer'[order'[i]] # PROXY
      BY <1>1, <2>2 DEF Conversing, Roles, clientVars
    <3> QED BY <1>1, <2>1, <3>1 DEF Conversing, Roles, clientVars
  <2> QED BY <1>4, <1>5, <2>3, <2>4 DEF Conversing
<1> QED BY <1>6, <1>7 DEF StoreClient

\* ... and the accept thread takes any step: Conversing is kept.
LEMMA AcceptorConversing ==
  ASSUME IInv, Conversing, ~ CountFirst, Acceptor
  PROVE  Conversing'
<1>1. CASE AcceptSelect
  <2>1. /\ UNCHANGED <<clientVars, streamVars, backlog, serviceVars, sharedVars,
                       anew, achoice, threadVars>>
        /\ apc = "select" /\ apc' \in {"proxy", "client"}
    BY <1>1 DEF AcceptSelect
  <2>2. /\ \A d \in Clients : /\ (Busy(d)' <=> Busy(d)) /\ (InOrder(d)' <=> InOrder(d))
                              /\ (Queued(d)' <=> Queued(d))
        /\ \A k \in Services : Current(k)' = Current(k)
    BY <2>1 DEF Busy, Queued, InOrder, Current, threadVars, sharedVars
  <2>3. \A d \in Clients : Asks(d)'
    BY <2>1, <2>2, OtherThanClient, AsksFrame DEF Conversing, streamVars
  <2>4. ASSUME NEW d \in Clients PROVE Number(d)'
    BY <2>1, <2>2, OtherThanClient DEF Conversing, Number, streamVars, sharedVars
  <2>5. ASSUME NEW k \in Services PROVE Serves(k)'
    <3>1. CASE ~ Handling(k)
      BY <2>1, <3>1 DEF Handling, Serves, threadVars
    <3>2. CASE Handling(k)
      <4>1. Current(k) \in Clients /\ Serves(k) /\ Current(k)' = Current(k)
        BY <2>2, <3>2, HandledClient DEF Conversing
      <4> QED BY <2>1, <4>1, OtherThanClient, ServesFrame
              DEF streamVars, serviceVars, threadVars
    <3> QED BY <3>1, <3>2
  <2>6. Roles'
    BY <2>1 DEF Conversing, Roles, clientVars, streamVars, sharedVars
  <2> QED BY <2>3, <2>4, <2>5, <2>6 DEF Conversing
<1>2. CASE AcceptProxyClient
  BY <1>2, AcceptFromConversing DEF AcceptProxyClient, Ports
<1>3. CASE ServeProxyClient
  BY <1>3, ServeProxyConversing
<1>4. CASE AcceptClient
  BY <1>4, AcceptFromConversing DEF AcceptClient, Ports
<1>5. CASE StoreClient
  BY <1>5, StoreConversing
<1> QED BY <1>1, <1>2, <1>3, <1>4, <1>5 DEF Acceptor

-----------------------------------------------------------------------------
(* Steps of the service threads and of the services. *)

\* What the step of a thread leaves alone.
LEMMA ThreadFrame ==
  ASSUME Typed, NEW k \in Services, Thread(k) \/ Convert(k)
  PROVE  /\ UNCHANGED <<clientVars, backlog, order, acceptVars>>
         /\ \A d \in Clients : (Queued(d)' <=> Queued(d)) /\ (InOrder(d)' <=> InOrder(d))
         /\ \A j \in Services : j # k =>
              /\ tpc'[j] = tpc[j] /\ Current(j)' = Current(j)
              /\ toService'[j] = toService[j] /\ fromService'[j] = fromService[j]
<1> USE DEF threadVars, serviceVars, sharedVars, streamVars
<1>1. UNCHANGED <<clientVars, backlog, order, acceptVars>>
  BY DEF Thread, Convert, BuildSet, SelectClients, ScanClients, RecvClient,
         RecvChoice, RelayReply
<1>2. \A d \in Clients : (Queued(d)' <=> Queued(d)) /\ (InOrder(d)' <=> InOrder(d))
  BY <1>1 DEF Queued, InOrder
<1>3. ASSUME NEW j \in Services, j # k
      PROVE  /\ tpc'[j] = tpc[j] /\ ti'[j] = ti[j]
             /\ toService'[j] = toService[j] /\ fromService'[j] = fromService[j]
  <2>1. /\ tpc \in [Services -> {"build", "select", "scan", "recv", "choice", "reply"}]
        /\ ti \in [Services -> Nat \ {0}]
        /\ toService \in [Services -> Seq(Seq(Items))]
        /\ fromService \in [Services -> Seq(Replies)]
    BY DEF Typed, TypeOK
  <2> QED BY <1>3, <2>1 DEF Thread, Convert, BuildSet, SelectClients, ScanClients,
                            RecvClient, RecvChoice, RelayReply, NextClient, Goto
<1>4. \A j \in Services : j # k => Current(j)' = Current(j)
  BY <1>1, <1>3 DEF Current
<1> QED BY <1>1, <1>2, <1>3, <1>4

\* It is enough to look at the thread itself and at the client it is at.
LEMMA ThreadSuffices ==
  ASSUME IInv, Conversing, NEW k \in Services, Thread(k) \/ Convert(k), Handling(k),
         NEW c \in Clients, c = Current(k),
         Current(k)' = c \/ tpc'[k] \notin {"choice", "reply"},
         \A d \in Clients : d # c => /\ toServer'[d] = toServer[d]
                                     /\ toClient'[d] = toClient[d]
                                     /\ serviceNumber'[d] = serviceNumber[d],
         Asks(c)', Number(c)', Serves(k)'
  PROVE  Conversing'
<1>1. /\ UNCHANGED <<clientVars, backlog, order, acceptVars>>
      /\ \A d \in Clients : (Queued(d)' <=> Queued(d)) /\ (InOrder(d)' <=> InOrder(d))
      /\ \A j \in Services : j # k =>
           /\ tpc'[j] = tpc[j] /\ Current(j)' = Current(j)
           /\ toService'[j] = toService[j] /\ fromService'[j] = fromService[j]
  BY ThreadFrame DEF IInv
<1>2. \A d \in Clients : d # c => (Busy(d)' <=> Busy(d))
  BY <1>1 DEF Busy
<1>3. ASSUME NEW d \in Clients, d # c PROVE Asks(d)' /\ Number(d)'
  <2>1. Asks(d) /\ Number(d) /\ toServer'[d] = toServer[d] /\ toClient'[d] = toClient[d]
        /\ serviceNumber'[d] = serviceNumber[d]
    BY <1>3 DEF Conversing
  <2>2. /\ cpc'[d] = cpc[d] /\ outer'[d] = outer[d] /\ svc'[d] = svc[d]
        /\ texts'[d] = texts[d] /\ changes'[d] = changes[d]
    BY <1>1, OtherThanClient
  <2>3. Asks(d)'
    BY <1>1, <1>2, <1>3, <2>1, <2>2, AsksFrame
  <2>4. Number(d)'
    BY <1>1, <2>1, <2>2 DEF Number, acceptVars
  <2> QED BY <2>3, <2>4
<1>4. ASSUME NEW j \in Services, j # k PROVE Serves(j)'
  <2>1. CASE ~ Handling(j)
    BY <1>1, <1>4, <2>1 DEF Handling, Serves
  <2>2. CASE Handling(j)
    <3>1. Current(j) \in Clients /\ Serves(j) /\ Current(j) # c
      BY <1>4, <2>2, HandledClient, BusyWith DEF Conversing
    <3>2. /\ toServer'[Current(j)] = toServer[Current(j)]
          /\ toClient'[Current(j)] = toClient[Current(j)]
      BY <3>1
    <3> QED BY <1>1, <1>4, <3>1, <3>2, OtherThanClient, ServesFrame
  <2> QED BY <2>1, <2>2
<1>5. Roles'
  <2>1. UNCHANGED <<outer, cpc, order, backlog, apc, anew>> /\ Roles
    BY <1>1 DEF clientVars, acceptVars, Conversing
  <2>2. apc = "message" => toClient'[anew] = toClient[anew]
    <3> SUFFICES ASSUME apc = "message" PROVE toClient'[anew] = toClient[anew]
      OBVIOUS
    <3>1. anew \in Clients /\ outer[anew] = PROXY
      BY <2>1 DEF IInv, Typed, TypeOK, Roles
    <3>2. outer[c] # PROXY
      BY HandledClient DEF Conversing
    <3> QED BY <3>1, <3>2
  <2> QED BY <2>1, <2>2 DEF Roles
<1> QED BY <1>3, <1>4, <1>5 DEF Conversing

\* A thread that has no client in hand changes nothing here.
LEMMA LoopConversing ==
  ASSUME IInv, Conversing, NEW k \in Services,
         BuildSet(k) \/ SelectClients(k) \/ ScanClients(k)
  PROVE  Conversing'
<1> USE DEF threadVars, serviceVars, sharedVars, streamVars, Goto
<1>1. /\ UNCHANGED <<clientVars, backlog, order, acceptVars>>
      /\ \A d \in Clients : (Queued(d)' <=> Queued(d)) /\ (InOrder(d)' <=> InOrder(d))
      /\ \A j \in Services : j # k =>
           /\ tpc'[j] = tpc[j] /\ Current(j)' = Current(j)
           /\ toService'[j] = toService[j] /\ fromService'[j] = fromService[j]
  BY ThreadFrame DEF IInv, Thread
<1>2. /\ tpc[k] \notin {"choice", "reply"} /\ tpc'[k] \notin {"choice", "reply"}
      /\ UNCHANGED <<streamVars, serviceVars, serviceNumber>>
  <2>1. tpc \in [Services -> {"build", "select", "scan", "recv", "choice", "reply"}]
    BY DEF IInv, Typed, TypeOK
  <2> QED BY <2>1 DEF BuildSet, SelectClients, ScanClients
<1>3. \A d \in Clients : Busy(d)' <=> Busy(d)
  BY <1>1, <1>2 DEF Busy
<1>4. \A d \in Clients : Asks(d)'
  BY <1>1, <1>2, <1>3, OtherThanClient, AsksFrame DEF Conversing
<1>5. ASSUME NEW d \in Clients PROVE Number(d)'
  BY <1>1, <1>2, OtherThanClient DEF Conversing, Number, acceptVars
<1>6. ASSUME NEW j \in Services PROVE Serves(j)'
  <2>1. CASE j = k \/ ~ Handling(j)
    BY <1>1, <1>2, <2>1 DEF Handling, Serves
  <2>2. CASE j # k /\ Handling(j)
    <3>1. Current(j) \in Clients /\ Serves(j)
      BY <2>2, HandledClient DEF Conversing
    <3> QED BY <1>1, <1>2, <2>2, <3>1, OtherThanClient, ServesFrame
  <2> QED BY <2>1, <2>2
<1>7. Roles'
  BY <1>1, <1>2 DEF Roles, Conversing, clientVars, acceptVars
<1> QED BY <1>4, <1>5, <1>6, <1>7 DEF Conversing

\* What a thread reads is the word CHANGE or the text, whole.
LEMMA RecvClientConversing ==
  ASSUME IInv, Conversing, Talk, NEW k \in Services, RecvClient(k)
  PROVE  Conversing'
<1>0. /\ tpc[k] = "recv" /\ Handling(k)
      /\ tpc \in [Services -> {"build", "select", "scan", "recv", "choice", "reply"}]
      /\ toServer \in [Clients -> Seq(Items)]
      /\ toService \in [Services -> Seq(Seq(Items))]
  BY DEF RecvClient, Handling, IInv, Typed, TypeOK
<1>1. PICK c \in Clients : c = Current(k)
  BY <1>0, HandledClient DEF Conversing
<1>2. /\ InOrder(c) /\ ~ Queued(c) /\ outer[c] # PROXY /\ cpc[c] # "start"
      /\ serviceNumber[c] = k /\ (apc \in {"store", "store2"} => anew # c)
      /\ Asks(c) /\ Number(c)
  BY <1>0, <1>1, HandledClient DEF Conversing
<1>3. ~ Busy(c)
  <2> SUFFICES ASSUME NEW j \in Services, tpc[j] \in {"choice", "reply"}, Current(j) = c
               PROVE  FALSE
    BY DEF Busy
  <2>1. j = k
    BY <1>0, <1>1, BusyWith DEF Handling
  <2> QED BY <1>0, <2>1
<1>4. Idle(c) /\ cpc[c] # "gone" /\ toServer[c] # <<>>
  BY <1>1, <1>2, <1>3 DEF Asks, RecvClient, Readable
<1>5. /\ UNCHANGED <<clientVars, backlog, order, acceptVars>>
      /\ ~ Queued(c)' /\ InOrder(c)'
  BY <1>2, ThreadFrame DEF IInv, Thread
<1>6. /\ cpc'[c] = cpc[c] /\ outer'[c] = outer[c] /\ svc'[c] = svc[c]
      /\ texts'[c] = texts[c] /\ changes'[c] = changes[c]
  BY <1>5, OtherThanClient
<1>7. /\ toServer' = [toServer EXCEPT ![c] = <<>>] /\ Current(k)' = c
      /\ UNCHANGED <<toClient, serviceNumber, fromService>>
  BY <1>1 DEF RecvClient, Current, sharedVars
<1>8. toService[k] = <<>>
  BY <1>0 DEF Talk, OneExchange
<1>9. tpc'[k] \in {"choice", "reply"}
  BY <1>0 DEF RecvClient, Goto
<1>10. Busy(c)'
  BY <1>7, <1>9 DEF Busy
<1>11. Asks(c)'
  BY <1>2, <1>4, <1>5, <1>6, <1>10 DEF Asks
<1>12. Number(c)'
  BY <1>2, <1>4, <1>5, <1>6, <1>7 DEF Number, Idle, acceptVars
<1>13. Serves(k)'
  <2>1. CASE cpc[c] = "menu"
    <3>1. toServer[c] = <<Item("CHANGE", c, changes[c])>> /\ toClient[c] = <<>>
      BY <1>4, <2>1 DEF Idle
    <3>2. IsChange(toServer[c])
      BY <3>1 DEF IsChange, Item
    <3>3. tpc'[k] = "choice"
      BY <1>0, <1>1, <3>2 DEF RecvClient, Goto
    <3>4. toServer'[c] = <<>>
      BY <1>0, <1>7
    <3> QED BY <1>6, <1>7, <2>1, <3>1, <3>3, <3>4 DEF Serves
  <2>2. CASE cpc[c] # "menu"
    <3>1. cpc[c] = "waiting" /\ toServer[c] = Text(c) /\ toClient[c] = <<>>
      BY <1>4, <2>2 DEF Idle
    <3>2. ~ IsChange(toServer[c])
      BY <3>1 DEF IsChange, Text, Item
    <3>3. tpc'[k] = "reply" /\ toService' = [toService EXCEPT ![k] = Append(toService[k], toServer[c])]
      BY <1>0, <1>1, <3>2 DEF RecvClient, Goto
    <3>4. toService'[k] = <<toServer[c]>>
      BY <1>0, <1>8, <3>3
    <3>5. svc[c] = k
      BY <1>2, <3>1 DEF Number
    <3>6. toServer'[c] = <<>>
      BY <1>0, <1>7
    <3>7. toService'[k] = <<Text(c)'>>
      BY <1>6, <3>1, <3>4 DEF Text
    <3> QED BY <1>6, <1>7, <3>1, <3>3, <3>5, <3>6, <3>7 DEF Serves
  <2> QED BY <2>1, <2>2
<1>14. \A d \in Clients : d # c => /\ toServer'[d] = toServer[d]
                                   /\ toClient'[d] = toClient[d]
                                   /\ serviceNumber'[d] = serviceNumber[d]
  BY <1>0, <1>7
<1> QED BY <1>0, <1>1, <1>7, <1>11, <1>12, <1>13, <1>14, ThreadSuffices DEF Thread

\* A thread that goes on leaves its client alone.
LEMMA LeavesClient ==
  ASSUME IInv, Conversing, NEW k \in Services, Thread(k), Handling(k), NextClient(k),
         NEW c \in Clients, c = Current(k)
  PROVE  ~ Busy(c)' /\ tpc'[k] = "scan"
<1>1. tpc'[k] = "scan"
  BY DEF NextClient, Goto, IInv, Typed, TypeOK
<1>2. ASSUME NEW j \in Services, tpc'[j] \in {"choice", "reply"}, Current(j)' = c
      PROVE  FALSE
  <2>1. j # k
    BY <1>1, <1>2
  <2>2. tpc'[j] = tpc[j] /\ Current(j) = c
    BY <1>2, <2>1, ThreadFrame DEF IInv
  <2> QED BY <1>2, <2>1, <2>2, BusyWith DEF Handling
<1> QED BY <1>1, <1>2 DEF Busy

\* A thread receives a choice, ...
LEMMA RecvChoiceConversing ==
  ASSUME IInv, Conversing, NEW k \in Services, RecvChoice(k)
  PROVE  Conversing'
<1>0. /\ tpc[k] = "choice" /\ Handling(k) /\ NextClient(k)
      /\ toServer \in [Clients -> Seq(Items)]
      /\ serviceNumber \in [Clients -> Nat]
  BY DEF RecvChoice, Handling, IInv, Typed, TypeOK
<1>1. PICK c \in Clients : c = Current(k)
  BY <1>0, HandledClient DEF Conversing
<1>2. /\ InOrder(c) /\ ~ Queued(c) /\ outer[c] # PROXY /\ cpc[c] # "start"
      /\ (apc \in {"store", "store2"} => anew # c) /\ Asks(c) /\ Number(c)
  BY <1>0, <1>1, HandledClient DEF Conversing
<1>3. /\ cpc[c] = "prompt" /\ toServer[c] = Choice(c) /\ toClient[c] = <<>>
  <2>1. Serves(k) /\ Readable(c)
    BY <1>1 DEF Conversing, RecvChoice
  <2> QED BY <1>0, <1>1, <2>1 DEF Serves, Readable
<1>4. /\ UNCHANGED <<clientVars, backlog, order, acceptVars>>
      /\ ~ Queued(c)' /\ InOrder(c)'
  BY <1>2, ThreadFrame DEF IInv, Thread
<1>5. /\ cpc'[c] = cpc[c] /\ outer'[c] = outer[c] /\ svc'[c] = svc[c]
      /\ texts'[c] = texts[c] /\ changes'[c] = changes[c]
  BY <1>4, OtherThanClient
<1>6. /\ toServer' = [toServer EXCEPT ![c] = <<>>]
      /\ serviceNumber' = [serviceNumber EXCEPT ![c] = svc[c]] /\ UNCHANGED toClient
  <2>1. Choice(c) # <<>> /\ Head(Choice(c)) = Item("choice", c, svc[c]) /\ Tail(Choice(c)) = <<>>
    BY DEF Choice
  <2>2. ChoiceIn(Choice(c)) = svc[c] /\ AfterChoice(Choice(c)) = <<>>
    BY <2>1 DEF ChoiceIn, AfterChoice, Item
  <2> QED BY <1>1, <1>3, <2>1, <2>2 DEF RecvChoice
<1>7. ~ Busy(c)' /\ tpc'[k] = "scan"
  BY <1>0, <1>1, LeavesClient DEF Thread
<1>7a. toServer'[c] = <<>> /\ toClient'[c] = <<>> /\ serviceNumber'[c] = svc[c]
  BY <1>0, <1>3, <1>6
<1>8. Asks(c)'
  <2>1. Idle(c)'
    BY <1>3, <1>5, <1>7a DEF Idle
  <2> QED BY <1>2, <1>3, <1>4, <1>5, <2>1 DEF Asks
<1>9. Number(c)'
  BY <1>2, <1>4, <1>5, <1>7a DEF Number, acceptVars
<1>10. Serves(k)'
  BY <1>7 DEF Serves
<1>11. \A d \in Clients : d # c => /\ toServer'[d] = toServer[d]
                                   /\ toClient'[d] = toClient[d]
                                   /\ serviceNumber'[d] = serviceNumber[d]
  BY <1>0, <1>6
<1>12. tpc'[k] \notin {"choice", "reply"}
  BY <1>7
<1> QED BY <1>0, <1>1, <1>8, <1>9, <1>10, <1>11, <1>12, ThreadSuffices DEF Thread

\* ... relays a reply, ...
LEMMA RelayReplyConversing ==
  ASSUME IInv, Conversing, Talk, NEW k \in Services, RelayReply(k)
  PROVE  Conversing'
<1>0. /\ tpc[k] = "reply" /\ Handling(k) /\ NextClient(k) /\ Typed
      /\ toClient \in [Clients -> Seq(Replies)] /\ fromService[k] # <<>>
  BY DEF RelayReply, Handling, IInv, Typed, TypeOK
<1>1. PICK c \in Clients : c = Current(k)
  BY <1>0, HandledClient DEF Conversing
<1>2. /\ InOrder(c) /\ ~ Queued(c) /\ outer[c] # PROXY /\ cpc[c] # "start"
      /\ (apc \in {"store", "store2"} => anew # c) /\ Asks(c) /\ Number(c)
  BY <1>0, <1>1, HandledClient DEF Conversing
<1>3. /\ cpc[c] = "waiting" /\ svc[c] = k /\ toServer[c] = <<>> /\ toClient[c] = <<>>
      /\ fromService[k] = << [by |-> k, msg |-> Text(c)] >>
  <2>1. Serves(k) /\ toService[k] = <<>>
    BY <1>0 DEF Conversing, Talk, OneExchange
  <2> QED BY <1>0, <1>1, <2>1 DEF Serves
<1>4. /\ UNCHANGED <<clientVars, backlog, order, acceptVars>>
      /\ ~ Queued(c)' /\ InOrder(c)'
  BY <1>2, ThreadFrame DEF IInv, Thread
<1>5. /\ cpc'[c] = cpc[c] /\ outer'[c] = outer[c] /\ svc'[c] = svc[c]
      /\ texts'[c] = texts[c] /\ changes'[c] = changes[c]
  BY <1>4, OtherThanClient
<1>6. /\ toClient' = [toClient EXCEPT ![c] = << [by |-> k, msg |-> Text(c)] >>]
      /\ UNCHANGED <<toServer, serviceNumber>>
  <2>1. Head(fromService[k]) = [by |-> k, msg |-> Text(c)]
    BY <1>3
  <2>2. Deliver(c, [by |-> k, msg |-> Text(c)]) /\ UNCHANGED <<toServer, serviceNumber>>
    BY <1>1, <2>1 DEF RelayReply, sharedVars
  <2> QED BY <1>0, <1>3, <2>2, DeliverTo
<1>7. ~ Busy(c)' /\ tpc'[k] = "scan"
  BY <1>0, <1>1, LeavesClient DEF Thread
<1>8. Asks(c)'
  <2>1. toClient'[c] = << [by |-> k, msg |-> Text(c)] >> /\ toServer'[c] = <<>>
    BY <1>0, <1>3, <1>6
  <2>2. Idle(c)'
    BY <1>3, <1>5, <2>1 DEF Idle, Text
  <2> QED BY <1>2, <1>3, <1>4, <1>5, <2>2 DEF Asks
<1>9. Number(c)'
  BY <1>2, <1>3, <1>4, <1>5, <1>6 DEF Number, acceptVars
<1>10. Serves(k)'
  BY <1>7 DEF Serves
<1>11. \A d \in Clients : d # c => /\ toServer'[d] = toServer[d]
                                   /\ toClient'[d] = toClient[d]
                                   /\ serviceNumber'[d] = serviceNumber[d]
  BY <1>0, <1>6
<1>12. tpc'[k] \notin {"choice", "reply"}
  BY <1>7
<1> QED BY <1>0, <1>1, <1>8, <1>9, <1>10, <1>11, <1>12, ThreadSuffices DEF Thread

\* ... or a server converts a text.
LEMMA ConvertConversing ==
  ASSUME IInv, Conversing, Talk, NEW k \in Services, Convert(k)
  PROVE  Conversing'
<1>0. /\ toService[k] # <<>> /\ tpc[k] = "reply" /\ fromService[k] = <<>> /\ Handling(k)
      /\ fromService \in [Services -> Seq(Replies)]
  BY DEF Convert, Talk, OneExchange, Handling, IInv, Typed, TypeOK
<1>1. PICK c \in Clients : c = Current(k)
  BY <1>0, HandledClient DEF Conversing
<1>2. /\ cpc[c] = "waiting" /\ svc[c] = k /\ toServer[c] = <<>> /\ toClient[c] = <<>>
      /\ toService[k] = <<Text(c)>> /\ Asks(c) /\ Number(c)
  <2>1. Serves(k) /\ Asks(c) /\ Number(c)
    BY DEF Conversing
  <2>2. fromService[k] # << [by |-> k, msg |-> Text(c)] >>
    BY <1>0
  <2> QED BY <1>0, <1>1, <2>1, <2>2 DEF Serves
<1>3. /\ UNCHANGED <<clientVars, backlog, order, acceptVars>>
      /\ (Queued(c)' <=> Queued(c)) /\ (InOrder(c)' <=> InOrder(c))
  BY ThreadFrame DEF IInv
<1>4. /\ cpc'[c] = cpc[c] /\ outer'[c] = outer[c] /\ svc'[c] = svc[c]
      /\ texts'[c] = texts[c] /\ changes'[c] = changes[c]
  BY <1>3, OtherThanClient
<1>5. /\ UNCHANGED <<toServer, toClient, serviceNumber, tpc>> /\ Current(k)' = c
  BY <1>1, <1>3 DEF Convert, streamVars, sharedVars, threadVars, Current
<1>6. fromService'[k] = << [by |-> k, msg |-> Text(c)] >>
  <2>1. Head(toService[k]) = Text(c) /\ Text(c) # <<>>
    BY <1>2 DEF Text
  <2>2. fromService' = [fromService EXCEPT ![k] =
                          Append(fromService[k], [by |-> k, msg |-> Text(c)])]
    BY <2>1 DEF Convert
  <2> QED BY <1>0, <2>2
<1>7. Busy(c) /\ Busy(c)'
  BY <1>0, <1>1, <1>5 DEF Busy
<1>8. Asks(c)'
  BY <1>2, <1>3, <1>4, <1>5, <1>7, AsksFrame
<1>9. Number(c)'
  BY <1>2, <1>3, <1>4, <1>5 DEF Number, acceptVars
<1>10. Serves(k)'
  BY <1>0, <1>2, <1>4, <1>5, <1>6 DEF Serves, Text
<1>11. \A d \in Clients : d # c => /\ toServer'[d] = toServer[d]
                                   /\ toClient'[d] = toClient[d]
                                   /\ serviceNumber'[d] = serviceNumber[d]
  BY <1>5
<1> QED BY <1>0, <1>1, <1>5, <1>8, <1>9, <1>10, <1>11, ThreadSuffices

\* With patient users that do not leave, and the stores of the accept thread in
\* the order of the -O2 build, a client reads the conversion of its latest text
\* by the service its user chose last, after any changes of service, whichever
\* threads have served it and whatever the others do.
THEOREM RightConversionHolds ==
  ASSUME Paced, ~ MayDisconnect, ~ CountFirst
  PROVE  Spec => []RightConversion
<1>1. Init => IInv /\ Talk /\ Conversing
  BY InitTyped, InitOwned, InitTalk, InitConversing DEF IInv
<1>2. ASSUME IInv, Talk, Conversing, [Next]_vars PROVE Conversing'
  <2>1. CASE Next
    BY <1>2, <2>1, ClientConversing, AcceptorConversing, LoopConversing,
       RecvClientConversing, RecvChoiceConversing, RelayReplyConversing,
       ConvertConversing DEF Next, Thread
  <2>2. CASE UNCHANGED vars
    <3>1. \A d \in Clients : /\ (Busy(d)' <=> Busy(d)) /\ (InOrder(d)' <=> InOrder(d))
                             /\ (Queued(d)' <=> Queued(d))
      BY <2>2 DEF vars, sharedVars, threadVars, Busy, InOrder, Queued, Current
    <3>2. \A d \in Clients : Asks(d)'
      BY <1>2, <2>2, <3>1, AsksFrame DEF Conversing, vars, clientVars, streamVars
    <3>3. \A d \in Clients : Number(d)'
      BY <1>2, <2>2, NumberFrame
         DEF Conversing, vars, clientVars, streamVars, sharedVars, acceptVars
    <3>4. \A k \in Services : Serves(k)'
      BY <1>2, <2>2 DEF Conversing, Serves, Current, Text, Choice, vars, clientVars,
         streamVars, sharedVars, threadVars, serviceVars
    <3>5. Roles'
      BY <1>2, <2>2 DEF Conversing, Roles, vars, clientVars, streamVars, sharedVars,
         acceptVars
    <3> QED BY <3>2, <3>3, <3>4, <3>5 DEF Conversing
  <2> QED BY <1>2, <2>1, <2>2
<1>3. Talk /\ Typed /\ [Next]_vars => Talk'
  <2> SUFFICES ASSUME Talk, Typed, [Next]_vars PROVE Talk'
    OBVIOUS
  <2>1. CASE Next
    BY <2>1, ClientTalk, AcceptorTalk, ThreadTalk DEF Next
  <2>2. CASE UNCHANGED vars
    BY <2>2 DEF vars, streamVars, serviceVars, sharedVars, threadVars, Talk,
                OneExchange, NoCrossTalk, SentBy, Current
  <2> QED BY <2>1, <2>2
<1>4. IInv => Typed
  BY DEF IInv
<1>5. Conversing => RightConversion
  <2> SUFFICES ASSUME Conversing, NEW c \in Clients, toClient[c] # <<>>,
                      outer[c] = PROXY => changes[c] = 0
               PROVE  toClient[c] = << [by |-> svc[c],
                                        msg |-> <<Item("text", c, texts[c])>>] >>
    BY DEF RightConversion
  <2>1. Asks(c) /\ \A k \in Services : Serves(k)
    BY DEF Conversing
  <2>2. ~ Busy(c)
    BY <2>1 DEF Busy, Serves
  <2>3. cpc[c] # "start" /\ ~ Queued(c)
    BY <2>1 DEF Asks
  <2>4. Idle(c)
    BY <2>1, <2>2, <2>3 DEF Asks
  <2> QED BY <2>4 DEF Idle, Text
<1>6. Spec => []IInv
  BY IInvAlways
<1> QED BY <1>1, <1>2, <1>3, <1>4, <1>5, <1>6, PTL DEF Spec
=============================================================================
