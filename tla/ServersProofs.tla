---------------------------- MODULE ServersProofs ----------------------------
(***************************************************************************)
(* What MCServers checks on small instances, proved for every number of    *)
(* clients, services, requests and slots.                                  *)
(***************************************************************************)
EXTENDS MCServers, TLAPS, FiniteSetTheorems, SequenceTheorems, WellFoundedInduction

-----------------------------------------------------------------------------
(* Sets and sequences.                                                     *)

\* A nonempty set of numbers has its minimum in it.
LEMMA MinMember ==
  ASSUME NEW S \in SUBSET Nat, S # {}
  PROVE  Min(S) \in S
<1> DEFINE R == {ss \in Nat \X Nat : ss[1] < ss[2]}
<1>1. IsWellFoundedOn(R, Nat)
  BY NatLessThanWellFounded DEF OpToRel
<1> HIDE DEF R
<1>2. PICK x \in S : \A y \in S : ~ (<<y, x>> \in R)
  BY <1>1, WFMin
<1>3. ASSUME NEW y \in S, y < x PROVE FALSE
  <2>1. <<y, x>> \in R
    BY <1>3 DEF R
  <2> QED BY <1>2, <2>1
<1>4. \A y \in S : x <= y
  BY <1>3
<1> QED BY <1>4 DEF Min

\* x is in the sequence q; q holds nothing twice.
In(q, x)    == \E k \in DOMAIN q : q[k] = x
Distinct(q) == \A j, k \in DOMAIN q : q[j] = q[k] => j = k

\* Nothing is in the empty sequence, ...
LEMMA InNone == ASSUME NEW x PROVE ~ In(<<>>, x) /\ Distinct(<<>>)
BY DEF In, Distinct

\* ... its one element in a sequence of one, ...
LEMMA InOne ==
  ASSUME NEW x, NEW y
  PROVE  (In(<<x>>, y) <=> y = x) /\ Distinct(<<x>>)
BY DEF In, Distinct

\* ... one more after Append, ...
LEMMA InAppend ==
  ASSUME NEW S, NEW q \in Seq(S), NEW x \in S
  PROVE  /\ Append(q, x) \in Seq(S) /\ Append(q, x) # <<>>
         /\ Len(Append(q, x)) = Len(q) + 1
         /\ \A k \in 1 .. Len(q) : Append(q, x)[k] = q[k]
         /\ \A y : In(Append(q, x), y) <=> In(q, y) \/ y = x
         /\ Distinct(q) /\ ~ In(q, x) => Distinct(Append(q, x))
BY AppendProperties, LenProperties DEF In, Distinct

\* ... and Tail has lost the first.
LEMMA InTail ==
  ASSUME NEW S, NEW q \in Seq(S), q # <<>>
  PROVE  /\ Head(q) \in S /\ In(q, Head(q))
         /\ Tail(q) \in Seq(S) /\ Len(Tail(q)) = Len(q) - 1
         /\ \A y : In(Tail(q), y) => In(q, y)
         /\ Distinct(q) => Distinct(Tail(q)) /\ ~ In(Tail(q), Head(q))
<1>1. /\ Head(q) \in S /\ Tail(q) \in Seq(S) /\ Len(Tail(q)) = Len(q) - 1
      /\ Head(q) = q[1] /\ \A k \in 1 .. Len(q) - 1 : Tail(q)[k] = q[k + 1]
      /\ Len(q) \in Nat \ {0}
  BY HeadTailProperties, LenProperties, EmptySeq
<1>2. DOMAIN q = 1 .. Len(q) /\ DOMAIN Tail(q) = 1 .. Len(q) - 1
  BY <1>1, LenProperties
<1>3. In(q, Head(q))
  BY <1>1, <1>2 DEF In
<1>4. \A y : In(Tail(q), y) => In(q, y)
  <2> SUFFICES ASSUME NEW y, NEW k \in DOMAIN Tail(q), Tail(q)[k] = y PROVE In(q, y)
    BY DEF In
  <2>1. k + 1 \in DOMAIN q /\ q[k + 1] = y
    BY <1>1, <1>2
  <2> QED BY <2>1 DEF In
<1>5. ASSUME Distinct(q) PROVE Distinct(Tail(q)) /\ ~ In(Tail(q), Head(q))
  BY <1>1, <1>2, <1>5, SMTT(30) DEF In, Distinct
<1> QED BY <1>1, <1>3, <1>4, <1>5

\* What is in a sequence over S is in S.
LEMMA InSeq ==
  ASSUME NEW S, NEW q \in Seq(S), NEW x, In(q, x)
  PROVE  x \in S /\ q # <<>>
BY ElementOfSeq, LenProperties DEF In

\* The sequence of one element.
LEMMA One ==
  ASSUME NEW x
  PROVE  /\ <<x>> # <<>> /\ Head(<<x>>) = x /\ Tail(<<x>>) = <<>> /\ Len(<<x>>) = 1
         /\ Append(<<>>, x) = <<x>> /\ <<x>>[1] = x /\ DOMAIN <<x>> = {1}
         /\ \A S : x \in S => <<x>> \in Seq(S)
OBVIOUS

\* The first of two sequences gives up its first item, and the second one its first to the
\* first one.
LEMMA TakeFirst ==
  ASSUME NEW S, NEW a \in Seq(S), a # <<>>, NEW b \in Seq(S)
  PROVE  /\ 1 \in 1 .. Len(a \o b)
         /\ SubSeq(a \o b, 1, 1) = <<Head(a)>>
         /\ SubSeq(a \o b, 2, Len(a \o b)) = Tail(a) \o b
<1>1. /\ Len(a) \in Nat \ {0} /\ Len(b) \in Nat /\ a \o b \in Seq(S)
      /\ Len(a \o b) = Len(a) + Len(b)
      /\ \A i \in 1 .. Len(a) + Len(b) : (a \o b)[i] = IF i <= Len(a) THEN a[i] ELSE b[i - Len(a)]
  BY ConcatProperties, LenProperties, EmptySeq
<1>2. /\ Head(a) = a[1] /\ Head(a) \in S /\ Tail(a) \in Seq(S) /\ Len(Tail(a)) = Len(a) - 1
      /\ \A i \in 1 .. Len(a) - 1 : Tail(a)[i] = a[i + 1]
  BY HeadTailProperties
<1>3. /\ Tail(a) \o b \in Seq(S) /\ Len(Tail(a) \o b) = Len(a) - 1 + Len(b)
      /\ \A i \in 1 .. Len(a) - 1 + Len(b) :
           (Tail(a) \o b)[i] = IF i <= Len(a) - 1 THEN Tail(a)[i] ELSE b[i - (Len(a) - 1)]
  BY <1>2, ConcatProperties
<1> DEFINE w == a \o b
           t == SubSeq(w, 2, Len(w))
<1>4. \A i \in 1 .. Len(w) : w[i] \in S
  BY <1>1, ElementOfSeq
<1> HIDE DEF w
<1>5. Len(w) = Len(a) + Len(b) /\ w[1] = a[1]
  BY <1>1 DEF w
<1>6. /\ t \in Seq(S) /\ Len(t) = Len(w) - 1
      /\ \A i \in 1 .. Len(w) - 1 : t[i] = w[i + 1]
  <2>1. \A i \in 2 .. Len(w) : w[i] \in S
    BY <1>4
  <2>2. 2 \in Int /\ Len(w) \in Int /\ Len(w) >= 1
    BY <1>1, <1>5
  <2>3. /\ t \in Seq(S) /\ Len(t) = IF 2 <= Len(w) THEN Len(w) - 2 + 1 ELSE 0
        /\ \A i \in 1 .. Len(w) - 2 + 1 : t[i] = w[2 + i - 1]
    BY <2>1, <2>2, SubSeqProperties
  <2> HIDE DEF t
  <2>4. Len(t) = Len(w) - 1
    <3>1. \A n \in Int : n >= 1 => (IF 2 <= n THEN n - 2 + 1 ELSE 0) = n - 1
      OBVIOUS
    <3> QED BY <2>2, <2>3, <3>1
  <2>5. ASSUME NEW i \in 1 .. Len(w) - 1 PROVE t[i] = w[i + 1]
    <3>1. i \in 1 .. Len(w) - 2 + 1 /\ 2 + i - 1 = i + 1
      BY <2>2
    <3> QED BY <2>3, <3>1
  <2> QED BY <2>3, <2>4, <2>5
<1>7. t = Tail(a) \o b
  <2> HIDE DEF t
  <2>1. \A i \in 1 .. Len(t) : t[i] = (Tail(a) \o b)[i]
    <3> TAKE i \in 1 .. Len(t)
    <3>1. i \in 1 .. Len(a) - 1 + Len(b) /\ t[i] = w[i + 1] /\ i + 1 \in 1 .. Len(a) + Len(b)
      BY <1>1, <1>5, <1>6
    <3>2. w[i + 1] = IF i + 1 <= Len(a) THEN a[i + 1] ELSE b[i + 1 - Len(a)]
      BY <1>1, <3>1 DEF w
    <3>3. CASE i <= Len(a) - 1
      BY <1>1, <1>2, <1>3, <3>1, <3>2, <3>3
    <3>4. CASE ~ (i <= Len(a) - 1)
      <4>1. i + 1 - Len(a) = i - (Len(a) - 1) /\ ~ (i + 1 <= Len(a))
        BY <1>1, <3>1, <3>4
      <4> QED BY <1>3, <3>1, <3>2, <3>4, <4>1
    <3> QED BY <3>3, <3>4
  <2>2. Len(t) = Len(Tail(a) \o b)
    BY <1>1, <1>3, <1>5, <1>6
  <2> QED BY <1>3, <1>6, <2>1, <2>2, SeqEqual
<1>8. SubSeq(w, 1, 1) = <<Head(a)>>
  <2>1. \A i \in 1 .. 1 : w[i] \in S
    BY <1>1, <1>4, <1>5
  <2>2. /\ SubSeq(w, 1, 1) \in Seq(S) /\ Len(SubSeq(w, 1, 1)) = 1
        /\ SubSeq(w, 1, 1)[1] = w[1]
    BY <2>1, SubSeqProperties
  <2>3. <<Head(a)>> \in Seq(S) /\ Len(<<Head(a)>>) = 1 /\ <<Head(a)>>[1] = Head(a)
    BY <1>2, One
  <2> DEFINE u == SubSeq(w, 1, 1)
             v == <<Head(a)>>
  <2>4. u \in Seq(S) /\ v \in Seq(S) /\ Len(u) = 1 /\ Len(v) = 1 /\ u[1] = v[1]
    BY <1>2, <1>5, <2>2, <2>3
  <2> HIDE DEF u, v
  <2>5. u = v
    BY <2>4, SeqEqual
  <2> QED BY <2>5 DEF u, v
<1> QED BY <1>1, <1>5, <1>7, <1>8 DEF w

\* The first of b goes to the end of a: the two together stay the same.
LEMMA MoveOne ==
  ASSUME NEW S, NEW a \in Seq(S), NEW b \in Seq(S), b # <<>>
  PROVE  Append(a, Head(b)) \o Tail(b) = a \o b
<1>1. Head(b) \in S /\ Tail(b) \in Seq(S) /\ <<Head(b)>> \in Seq(S)
  BY HeadTailProperties, One
<1>2. Append(a, Head(b)) = a \o <<Head(b)>>
  BY <1>1, AppendIsConcat
<1>3. (a \o <<Head(b)>>) \o Tail(b) = a \o (<<Head(b)>> \o Tail(b))
  BY <1>1, ConcatAssociative
<1>4. <<Head(b)>> \o Tail(b) = b
  OBVIOUS
<1> QED BY <1>2, <1>3, <1>4

\* A client has requests left when there are any.
LEMMA AskedBound ==
  ASSUME asked \in [Clients -> 0 .. Requests], RequestsLeft, NEW c \in Clients
  PROVE  asked[c] + 1 \in 1 .. Requests
<1> SUFFICES ASSUME asked[c] = Requests PROVE FALSE
  BY RequestsAssumption
<1> DEFINE f == [n \in 1 .. Requests |-> <<c, n>>]
<1>1. f \in Injection(1 .. Requests, Sent)
  <2>1. \A n \in 1 .. Requests : <<c, n>> \in Sent
    BY RequestsAssumption DEF Sent
  <2> QED BY <2>1 DEF Injection, IsInjective
<1>2. IsFiniteSet(Clients \X (1 .. Requests))
  <2>1. IsFiniteSet(1 .. Requests)
    BY FS_Interval, RequestsAssumption
  <2> QED BY <2>1, FS_Product, ClientsAssumption DEF ClientsAssumption
<1>3. IsFiniteSet(Sent)
  BY <1>2, FS_Subset DEF Sent
<1>4. Cardinality(1 .. Requests) <= Cardinality(Sent)
  BY <1>1, <1>3, FS_Injection
<1>5. Cardinality(1 .. Requests) = Requests
  BY FS_Interval, RequestsAssumption
<1> QED BY <1>3, <1>4, <1>5, FS_CardinalityType, RequestsAssumption DEF RequestsLeft

-----------------------------------------------------------------------------
(* The clients, which are those of TcpClients in four of the programs.     *)

Others(c) == \A d \in Clients \ {c} :
               UNCHANGED <<at[d], port[d], asked[d], up[d], down[d], conn[d]>>

Ends(c) == /\ at' = [at EXCEPT ![c] = "gone"]
           /\ \/ at[c] # "menu" /\ down'[c] = <<>> /\ conn'[c] # "open"
              \/ at[c] = "menu" /\ UNCHANGED <<down, conn>>
           /\ UNCHANGED <<asked, up>>

Asks(c) == /\ at[c] = "prompt" /\ at'[c] = "answer"
           /\ asked[c] + 1 \in 1 .. Requests
           /\ asked' = [asked EXCEPT ![c] = asked[c] + 1]
           /\ up' = [up EXCEPT ![c] = Append(up[c], asked[c] + 1)]
           /\ UNCHANGED <<down, conn>>

Reads(c) == /\ at[c] = "answer" /\ at'[c] = "prompt"
            /\ down[c] # <<>> /\ down' = [down EXCEPT ![c] = Tail(down[c])]
            /\ UNCHANGED <<asked, up, conn>>

\* What the steps of the clients change.
LEMMA ClientEffects ==
  ASSUME TcpTypeOK, NEW c \in Clients,
         \/ Refused(c) \/ SendRequest(c) \/ Leave(c)
         \/ Receive(c, "answer", "prompt") \/ Abandoned(c)
  PROVE  /\ TcpTypeOK' /\ UNCHANGED <<port, backlog>> /\ Others(c)
         /\ Ends(c) \/ Asks(c) \/ Reads(c)
<1> USE DEF TcpTypeOK
<1>1. CASE Refused(c)
  BY <1>1 DEF Refused, Others, Ends
<1>2. CASE SendRequest(c)
  <2> DEFINE n == asked[c] + 1
  <2>1. n \in 1 .. Requests
    BY <1>2, AskedBound DEF SendRequest
  <2>2. /\ at[c] = "prompt" /\ at' = [at EXCEPT ![c] = "answer"]
        /\ asked' = [asked EXCEPT ![c] = n] /\ up' = [up EXCEPT ![c] = Append(up[c], n)]
        /\ UNCHANGED <<port, down, conn, backlog>>
    BY <1>2 DEF SendRequest
  <2>3. Append(up[c], n) \in Seq(1 .. Requests)
    BY <2>1, AppendProperties
  <2>4. TcpTypeOK' /\ Others(c)
    BY <2>1, <2>2, <2>3, RequestsAssumption DEF Others
  <2>5. Asks(c)
    BY <2>1, <2>2 DEF Asks
  <2> QED BY <2>2, <2>4, <2>5
<1>3. CASE Leave(c)
  <2>1. /\ at' = [at EXCEPT ![c] = "gone"] /\ down' = [down EXCEPT ![c] = <<>>]
        /\ conn' \in [Clients -> {"none", "open", "left", "reset", "hungup"}]
        /\ conn'[c] # "open" /\ \A d \in Clients \ {c} : conn'[d] = conn[d]
        /\ at[c] # "menu" /\ UNCHANGED <<port, asked, up, backlog>>
    BY <1>3 DEF Leave
  <2> QED BY <2>1, EmptySeq DEF Others, Ends
<1>4. CASE Receive(c, "answer", "prompt")
  <2>1. /\ at[c] = "answer" /\ down[c] # <<>>
        /\ down' = [down EXCEPT ![c] = Tail(down[c])]
        /\ at' = [at EXCEPT ![c] = "prompt"]
        /\ UNCHANGED <<port, asked, up, conn, backlog>>
    BY <1>4 DEF Receive
  <2>2. Tail(down[c]) \in Seq(Messages)
    BY <2>1, HeadTailProperties
  <2>3. TcpTypeOK' /\ Others(c)
    BY <2>1, <2>2 DEF Others
  <2> QED BY <2>1, <2>3 DEF Reads
<1>5. CASE Abandoned(c)
  <2>1. /\ at' = [at EXCEPT ![c] = "gone"] /\ down[c] = <<>> /\ conn[c] = "hungup"
        /\ at[c] # "menu" /\ UNCHANGED <<port, asked, up, down, conn, backlog>>
    BY <1>5 DEF Abandoned
  <2>2. TcpTypeOK' /\ Others(c)
    BY <2>1 DEF Others
  <2> QED BY <2>1, <2>2 DEF Ends
<1> QED BY <1>1, <1>2, <1>3, <1>4, <1>5

-----------------------------------------------------------------------------
(* 15-Minor1/Q3.                                                           *)

Waiting(s, c)   == In(backlog[s], c)
Holds(s, c)     == In(nsfds[s], Connection(c))
Given(s, c)     == argument[s] = Connection(c)
Ungreeted(s, c) == Waiting(s, c) \/ (service[s] = "forked" /\ Given(s, c))

Q3Types ==
  /\ TcpTypeOK
  /\ pc \in {"poll", "accept", "close", "store", "exit"}
  /\ revents \in SUBSET Services
  /\ files \in [Numbers -> Descriptors]
  /\ nsfd \in Numbers
  /\ pids \in SUBSET Services
  /\ usr1 \in SUBSET Services /\ Cardinality(usr1) <= 1
  /\ reported \in SUBSET Services
  /\ service \in [Services -> {"off", "forked", "select", "round", "dead"}]
  /\ argument \in [Services -> Descriptors]
  /\ nsfds \in [Services -> Seq(Descriptors)]
  /\ readfds \in [Services -> SUBSET Nat]

\* The server has one listening socket less for each service it has forked, and a
\* connection only until it has closed it.
ServerInv ==
  /\ pc \in {"close", "store"} => revents # {}
  /\ \A n \in Services : files[n] \in {Free, Listener(n)} \/ (pc = "close" /\ n = nsfd)
  /\ files[NUMS + 1] = Free \/ (pc = "close" /\ nsfd = NUMS + 1)
  /\ pc = "close" => /\ nsfd # Min(revents)
                     /\ \E c \in Clients : files[nsfd] = Connection(c)
  /\ \A s \in Services : files[s] = Listener(s) /\ service[s] # "off" =>
                           pc = "close" /\ s = Min(revents)
  /\ pc \in {"accept", "close", "store"} =>
       \A s \in revents : s # Min(revents) \/ pc = "accept" =>
         service[s] = "off" /\ files[s] = Listener(s) /\ backlog[s] # <<>>

\* A connection waits once at the port it was made to, and is then in one slot of that
\* service at most.
PlaceInv(s) ==
  /\ Distinct(backlog[s]) /\ Distinct(nsfds[s])
  /\ \A c \in Clients : Waiting(s, c) \/ Holds(s, c) \/ Given(s, c) => port[c] = s
  /\ \A c \in Clients : Waiting(s, c) => ~ Holds(s, c) /\ ~ Given(s, c)

\* The slots of a service.
SlotsInv(s) ==
  /\ service[s] \in {"off", "forked", "dead"} => nsfds[s] = <<>>
  /\ service[s] \in {"select", "round"} => nsfds[s] # <<>>
  /\ service[s] = "forked" => argument[s] = Terminal \/ \E c \in Clients : Given(s, c)
  /\ \A k \in DOMAIN nsfds[s] :
       nsfds[s][k] = Terminal \/ \E c \in Clients : nsfds[s][k] = Connection(c)
  /\ Len(nsfds[s]) <= MAX_CLIENTS
  /\ service[s] # "round" => readfds[s] = {}
  /\ 0 \in readfds[s] => backlog[s] # <<>>
  /\ \A k \in readfds[s] \ {0} : k \in DOMAIN nsfds[s] /\ nsfds[s][k] # Terminal

\* A client has one request on its way or one answer, and nothing while it waits for its
\* greeting.
ClientInv(c) ==
  /\ at[c] = "menu" => /\ port[c] = 0 /\ asked[c] = 0 /\ down[c] = <<>>
                       /\ conn[c] # "open"
  /\ up[c] = <<>> \/ (up[c] = <<asked[c]>> /\ asked[c] # 0 /\ at[c] \in {"answer", "gone"})
  /\ at[c] = "greeting" => \/ down[c] = <<>>
                           \/ \E m \in Messages : down[c] = <<m>> /\ m.kind # "answer"
  /\ at[c] = "prompt" => down[c] = <<>>
  /\ at[c] = "answer" => \/ down[c] = <<>>
                         \/ up[c] = <<>> /\ down[c] = <<Answer(asked[c], port[c])>>
  /\ at[c] = "gone" => down[c] = <<>> /\ conn[c] # "open"

GreetInv(s, c) ==
  Ungreeted(s, c) => at[c] \in {"greeting", "gone"} /\ up[c] = <<>> /\ down[c] = <<>>

\* A service that has signalled is full.
FullInv ==
  \A s \in usr1 \cup reported : service[s] = "dead" \/ Len(nsfds[s]) = MAX_CLIENTS

Q3Inv ==
  /\ Q3Types /\ ServerInv /\ FullInv
  /\ \A s \in Services : PlaceInv(s) /\ SlotsInv(s)
  /\ \A c \in Clients : ClientInv(c)
  /\ \A s \in Services, c \in Clients : GreetInv(s, c)

\* Numbers, sockets and connections.
LEMMA Facts ==
  /\ Services \subseteq Nat /\ 0 \notin Services /\ NUMS + 1 \notin Services
  /\ Numbers = Services \cup {NUMS + 1}
  /\ \A s \in Services : Listener(s) \in Descriptors /\ Listener(s) # Free
  /\ \A r, s \in Services : Listener(r) = Listener(s) => r = s
  /\ Free \in Descriptors /\ Terminal \in Descriptors /\ Free # Terminal
  /\ \A c \in Clients : /\ Connection(c) \in Descriptors /\ Connection(c)[2] = c
                        /\ Connection(c) # Free /\ Connection(c) # Terminal
                        /\ \A s \in Services : Connection(c) # Listener(s)
  /\ \A c, d \in Clients : Connection(c) = Connection(d) => c = d
  /\ \A d \in Descriptors : \/ d = Free \/ d = Terminal \/ \E s \in Services : d = Listener(s)
                            \/ \E c \in Clients : d = Connection(c)
<1>1. /\ Services \subseteq Nat /\ 0 \notin Services /\ NUMS + 1 \notin Services
      /\ Numbers = Services \cup {NUMS + 1}
  BY NumsAssumption DEF Services, Numbers
<1> QED BY <1>1 DEF Listener, Free, Terminal, Connection, Descriptors

\* What a server sends and receives disturbs nobody else.
LEMMA MessageTypes ==
  ASSUME NEW s \in Services
  PROVE  /\ \A n \in 0 .. Requests : Answer(n, s) \in Messages /\ Answer(n, s).kind = "answer"
         /\ \A k \in {"First", "Connected", "Sorry"} :
              Greeting(k, s) \in Messages /\ Greeting(k, s).kind # "answer"
BY RequestsAssumption DEF Messages, Answer, Greeting

\* A client connects, ...
LEMMA Q3Connect ==
  ASSUME Q3Inv, NEW c \in Clients, NEW s \in Services, Connect(c, s, "greeting"),
         UNCHANGED <<serverVars, usr1, reported, serviceVars>>
  PROVE  Q3Inv'
<1> USE DEF Q3Inv
<1>1. /\ backlog' = [backlog EXCEPT ![s] = Append(backlog[s], c)] 
      /\ backlog \in [Services -> Seq(Clients)] /\ port \in [Clients -> Services \cup {0}]
      /\ port' = [port EXCEPT ![c] = s] /\ at[c] = "menu"
      /\ at' = [at EXCEPT ![c] = "greeting"] /\ conn' = [conn EXCEPT ![c] = "open"]
      /\ UNCHANGED <<asked, up, down, serverVars, usr1, reported, serviceVars>>
  BY DEF Connect, Q3Types, TcpTypeOK
<1>2. /\ port[c] = 0 /\ down[c] = <<>> /\ up[c] = <<>>
      /\ \A r \in Services : ~ Waiting(r, c) /\ ~ Holds(r, c) /\ ~ Given(r, c)
  BY <1>1, Facts DEF ClientInv, PlaceInv
<1>3. /\ backlog'[s] \in Seq(Clients) /\ backlog'[s] # <<>>
      /\ \A d : In(backlog'[s], d) <=> In(backlog[s], d) \/ d = c
      /\ Distinct(backlog[s]) => Distinct(backlog'[s])
      /\ \A r \in Services \ {s} : backlog'[r] = backlog[r]
  BY <1>1, <1>2, InAppend DEF Waiting
<1>4. Q3Types'
  BY <1>1, <1>3 DEF Q3Types, TcpTypeOK, serverVars, serviceVars
<1>5. ServerInv'
  BY <1>1, <1>3, Facts DEF ServerInv, serverVars, serviceVars, Q3Types
<1>6. \A r \in Services : PlaceInv(r)'
  <2> TAKE r \in Services
  <2> USE DEF PlaceInv, Waiting, Holds, Given, serviceVars
  <2>1. CASE r = s
    BY <1>1, <1>2, <1>3, <2>1
  <2>2. CASE r # s
    BY <1>1, <1>2, <1>3, <2>2
  <2> QED BY <2>1, <2>2
<1>7. \A r \in Services : SlotsInv(r)'
  BY <1>1, <1>3 DEF SlotsInv, serviceVars, Given
<1>8. \A d \in Clients : ClientInv(d)'
  BY <1>1, <1>2 DEF ClientInv, Q3Types, TcpTypeOK
<1>9. \A r \in Services, d \in Clients : GreetInv(r, d)'
  <2> TAKE r \in Services, d \in Clients
  <2>1. CASE d = c
    BY <1>1, <1>2, <2>1 DEF GreetInv, Q3Types, TcpTypeOK
  <2>2. CASE d # c
    <3>1. Ungreeted(r, d)' => Ungreeted(r, d)
      BY <1>1, <1>3, <2>2 DEF Ungreeted, Waiting, Given, serviceVars
    <3>2. at'[d] = at[d] /\ up'[d] = up[d] /\ down'[d] = down[d]
      BY <1>1, <2>2 DEF Q3Types, TcpTypeOK
    <3> QED BY <3>1, <3>2 DEF GreetInv
  <2> QED BY <2>1, <2>2
<1>10. FullInv'
  BY <1>1 DEF FullInv, serviceVars
<1> QED BY <1>4, <1>5, <1>6, <1>7, <1>8, <1>9, <1>10

\* What the clients do after they have connected only shows in ClientInv and GreetInv.
LEMMA Q3ClientFrame ==
  ASSUME Q3Inv, NEW c \in Clients, TcpTypeOK', ClientInv(c)',
         \A s \in Services : GreetInv(s, c)',
         UNCHANGED <<port, backlog, serverVars, usr1, reported, serviceVars>>,
         \A d \in Clients \ {c} : UNCHANGED <<at[d], asked[d], up[d], down[d], conn[d]>>
  PROVE  Q3Inv'
<1> USE DEF Q3Inv, serverVars, serviceVars
<1>1. Q3Types' /\ ServerInv' /\ FullInv'
  BY DEF Q3Types, ServerInv, FullInv
<1>2. \A s \in Services : PlaceInv(s)' /\ SlotsInv(s)'
  BY DEF PlaceInv, SlotsInv, Waiting, Holds, Given
<1>3. \A d \in Clients : ClientInv(d)'
  BY DEF ClientInv
<1>4. \A s \in Services, d \in Clients : GreetInv(s, d)'
  BY DEF GreetInv, Ungreeted, Waiting, Given
<1> QED BY <1>1, <1>2, <1>3, <1>4

\* ... or takes another step.
LEMMA Q3ClientSteps ==
  ASSUME Q3Inv, NEW c \in Clients,
         Refused(c) \/ SendRequest(c) \/ Leave(c) \/ ClientRuns(c),
         UNCHANGED <<serverVars, usr1, reported, serviceVars>>
  PROVE  Q3Inv'
<1> USE DEF Q3Inv, Q3Types, TcpTypeOK
<1>1. CASE Refused(c)
  <2>1. TcpTypeOK' /\ at' = [at EXCEPT ![c] = "gone"] /\ at[c] = "menu"
    BY <1>1 DEF Refused
  <2>2. ClientInv(c)'
    BY <1>1, <2>1 DEF Refused, ClientInv
  <2>3. \A s \in Services : GreetInv(s, c)'
    BY <1>1, <2>1 DEF Refused, GreetInv, Ungreeted, Waiting, Given, serviceVars
  <2> QED BY <1>1, <2>1, <2>2, <2>3, Q3ClientFrame DEF Refused
<1>2. CASE SendRequest(c)
  <2> DEFINE n == asked[c] + 1
  <2>1. n \in 1 .. Requests
    BY <1>2, AskedBound DEF SendRequest
  <2>2. up[c] = <<>> /\ down[c] = <<>> /\ at[c] = "prompt"
    BY <1>2 DEF SendRequest, ClientInv
  <2>3. /\ at' = [at EXCEPT ![c] = "answer"] /\ asked' = [asked EXCEPT ![c] = n]
        /\ up' = [up EXCEPT ![c] = <<n>>]
        /\ UNCHANGED <<port, down, conn, backlog>>
    BY <1>2, <2>2, One DEF SendRequest
  <2> HIDE DEF n
  <2>4. TcpTypeOK'
    BY <2>1, <2>3, One, RequestsAssumption
  <2>5. ClientInv(c)'
    BY <2>1, <2>2, <2>3 DEF ClientInv
  <2>6. \A s \in Services : GreetInv(s, c)'
    BY <2>2, <2>3 DEF GreetInv, Ungreeted, Waiting, Given, serviceVars
  <2> QED BY <2>3, <2>4, <2>5, <2>6, Q3ClientFrame
<1>3. CASE Leave(c)
  <2>1. /\ at' = [at EXCEPT ![c] = "gone"] /\ down' = [down EXCEPT ![c] = <<>>]
        /\ conn' \in [Clients -> {"none", "open", "left", "reset", "hungup"}]
        /\ conn'[c] # "open" /\ \A d \in Clients \ {c} : conn'[d] = conn[d]
        /\ UNCHANGED <<port, asked, up, backlog>>
    BY <1>3 DEF Leave
  <2>2. TcpTypeOK'
    BY <2>1
  <2>3. ClientInv(c)' /\ \A s \in Services : GreetInv(s, c)'
    BY <2>1 DEF ClientInv, GreetInv, Ungreeted, Waiting, Given, serviceVars
  <2> QED BY <2>1, <2>2, <2>3, Q3ClientFrame
<1>4. CASE Abandoned(c)
  <2>1. TcpTypeOK' /\ ClientInv(c)' /\ \A s \in Services : GreetInv(s, c)'
    BY <1>4 DEF Abandoned, ClientInv, GreetInv, Ungreeted, Waiting, Given, serviceVars
  <2> QED BY <1>4, <2>1, Q3ClientFrame DEF Abandoned
<1>5. ASSUME NEW from \in {"greeting", "answer"}, Receive(c, from, "prompt")
      PROVE  Q3Inv'
  <2>1. /\ at[c] = from /\ down[c] # <<>>
        /\ down' = [down EXCEPT ![c] = Tail(down[c])]
        /\ at' = [at EXCEPT ![c] = "prompt"]
        /\ UNCHANGED <<port, asked, up, conn, backlog>>
    BY <1>5 DEF Receive
  <2>2. \E m : down[c] = <<m>>
    BY <2>1 DEF ClientInv
  <2>3. Tail(down[c]) = <<>> /\ up[c] = <<>>
    BY <2>1, <2>2, One DEF ClientInv
  <2>4. TcpTypeOK' /\ ClientInv(c)'
    BY <2>1, <2>3 DEF ClientInv
  <2>5. \A s \in Services : GreetInv(s, c)'
    BY <2>1, <2>3 DEF GreetInv, Ungreeted, Waiting, Given, serviceVars
  <2> QED BY <2>1, <2>4, <2>5, Q3ClientFrame
<1>6. ASSUME /\ down[c] # <<>> /\ Head(down[c]).kind = "Sorry"
             /\ at[c] = "greeting"
             /\ at' = [at EXCEPT ![c] = "gone"]
             /\ conn' = [conn EXCEPT ![c] = IF @ = "hungup" THEN @ ELSE "left"]
             /\ down' = [down EXCEPT ![c] = <<>>]
             /\ UNCHANGED <<port, asked, up, backlog>>
      PROVE  Q3Inv'
  <2>1. TcpTypeOK' /\ ClientInv(c)'
    BY <1>6 DEF ClientInv
  <2>2. \A s \in Services : GreetInv(s, c)'
    BY <1>6 DEF GreetInv, Ungreeted, Waiting, Given, serviceVars
  <2> QED BY <1>6, <2>1, <2>2, Q3ClientFrame
<1> QED BY <1>1, <1>2, <1>3, <1>4, <1>5, <1>6 DEF ClientRuns, ReceiveFirst

\* The server.  Only AcceptAndFork takes a client out of a port, only for a service that
\* has not started.
LEMMA Q3Poll ==
  ASSUME Q3Inv, Poll
  PROVE  Q3Inv'
<1> USE DEF Q3Inv
<1>1. /\ revents' = {s \in Services : files[s] = Listener(s) /\ backlog[s] # <<>>}
      /\ pc = "poll" /\ pc' = "accept"
      /\ UNCHANGED <<tcpVars, files, nsfd, pids, usr1, reported, serviceVars>>
  BY DEF Poll
<1>2. Q3Types' /\ FullInv'
  BY <1>1 DEF Q3Types, TcpTypeOK, tcpVars, serviceVars, FullInv
<1>3. ServerInv'
  BY <1>1 DEF ServerInv, tcpVars, serviceVars
<1>4. \A s \in Services : PlaceInv(s)' /\ SlotsInv(s)'
  BY <1>1 DEF PlaceInv, SlotsInv, Waiting, Holds, Given, tcpVars, serviceVars
<1>5. \A c \in Clients : ClientInv(c)'
  BY <1>1 DEF ClientInv, tcpVars
<1>6. \A s \in Services, c \in Clients : GreetInv(s, c)'
  BY <1>1 DEF GreetInv, Ungreeted, Waiting, Given, tcpVars, serviceVars
<1> QED BY <1>2, <1>3, <1>4, <1>5, <1>6

\* The server accepts a client and forks, ...
LEMMA Q3AcceptAndFork ==
  ASSUME Q3Inv, AcceptAndFork
  PROVE  Q3Inv'
<1> USE DEF Q3Inv
<1> DEFINE s  == Min(revents)
           c  == Head(backlog[s])
           n  == NextNumber
           fs == [files EXCEPT ![n] = Connection(c)]
<1>1. s \in Services /\ s \in revents
  BY MinMember, Facts DEF AcceptAndFork, Q3Types
<1>2. service[s] = "off" /\ files[s] = Listener(s) /\ backlog[s] # <<>>
  BY <1>1 DEF AcceptAndFork, ServerInv
<1>3. n \in Numbers /\ files[n] = Free
  <2>1. NUMS + 1 \in {m \in Numbers : files[m] = Free}
    BY Facts DEF AcceptAndFork, ServerInv
  <2>2. {m \in Numbers : files[m] = Free} \subseteq Nat
    BY Facts, NumsAssumption
  <2> QED BY <2>1, <2>2, MinMember DEF NextNumber
<1>4. /\ c \in Clients /\ Waiting(s, c)
      /\ Tail(backlog[s]) \in Seq(Clients)
      /\ \A d : In(Tail(backlog[s]), d) => In(backlog[s], d)
      /\ Distinct(Tail(backlog[s])) /\ ~ In(Tail(backlog[s]), c)
  BY <1>1, <1>2, InTail DEF Q3Types, TcpTypeOK, Waiting, PlaceInv
<1>5. /\ files' = fs /\ nsfd' = n /\ pc = "accept" /\ pc' = "close"
      /\ backlog' = [backlog EXCEPT ![s] = Tail(backlog[s])]
      /\ service' = [service EXCEPT ![s] = "forked"]
      /\ \E d \in {Connection(c), Terminal} : argument' = [argument EXCEPT ![s] = d]
      /\ UNCHANGED <<at, port, asked, up, down, conn, revents, pids, usr1, reported, nsfds,
                     readfds>>
  BY DEF AcceptAndFork
<1> HIDE DEF s, c, n, fs
<1>6. /\ service' \in [Services -> {"off", "forked", "select", "round", "dead"}]
      /\ service'[s] = "forked" /\ backlog'[s] = Tail(backlog[s])
      /\ argument'[s] \in {Connection(c), Terminal}
      /\ \A r \in Services \ {s} : /\ service'[r] = service[r] /\ argument'[r] = argument[r]
                                   /\ backlog'[r] = backlog[r]
      /\ backlog' \in [Services -> Seq(Clients)]
      /\ argument' \in [Services -> Descriptors]
  BY <1>1, <1>4, <1>5, Facts DEF Q3Types, TcpTypeOK
<1>7. Q3Types'
  BY <1>1, <1>3, <1>4, <1>5, <1>6, Facts DEF Q3Types, TcpTypeOK, fs
<1>8. ServerInv'
  <2>1. n # s
    BY <1>1, <1>2, <1>3, Facts
  <2>2. files'[n] = Connection(c) /\ \A m \in Numbers \ {n} : files'[m] = files[m]
    BY <1>3, <1>5 DEF fs, Q3Types
  <2>3. Min(revents') = s
    BY <1>5 DEF s
  <2>4. \A r \in Services : files[r] = Listener(r) => service[r] = "off"
    BY <1>5 DEF ServerInv
  <2>5. \A r \in Services : files'[r] = Listener(r) => files[r] = Listener(r)
    BY <1>4, <2>2, Facts
  <2>6. \A r \in revents : r # s => service'[r] = "off" /\ files'[r] = Listener(r)
                                    /\ backlog'[r] # <<>>
    <3> TAKE r \in revents
    <3> HAVE r # s
    <3>1. service[r] = "off" /\ files[r] = Listener(r) /\ backlog[r] # <<>> /\ r \in Services
      BY <1>5 DEF ServerInv, Q3Types
    <3>2. r # n
      BY <1>3, <3>1, Facts
    <3> QED BY <1>6, <2>2, <3>1, <3>2, Facts
  <2>7. \A m \in Services : files'[m] \in {Free, Listener(m)} \/ m = nsfd'
    BY <1>5, <2>2, Facts DEF ServerInv
  <2>8. files'[NUMS + 1] = Free \/ nsfd' = NUMS + 1
    BY <1>5, <2>2, Facts DEF ServerInv
  <2> QED BY <1>1, <1>4, <1>5, <1>6, <2>1, <2>2, <2>3, <2>4, <2>5, <2>6, <2>7, <2>8
          DEF ServerInv
<1>9. nsfds[s] = <<>> /\ readfds[s] = {} /\ port[c] = s
  BY <1>1, <1>2, <1>4 DEF SlotsInv, PlaceInv
<1>10. \A r \in Services : PlaceInv(r)'
  <2> TAKE r \in Services
  <2>1. CASE r = s
    BY <1>4, <1>5, <1>6, <1>9, <2>1, Facts, InNone DEF PlaceInv, Waiting, Holds, Given
  <2>2. CASE r # s
    BY <1>5, <1>6, <2>2 DEF PlaceInv, Waiting, Holds, Given
  <2> QED BY <2>1, <2>2
<1>11. \A r \in Services : SlotsInv(r)'
  <2> TAKE r \in Services
  <2>1. CASE r = s
    BY <1>4, <1>5, <1>6, <1>9, <2>1 DEF SlotsInv, Given
  <2>2. CASE r # s
    BY <1>5, <1>6, <2>2 DEF SlotsInv, Given
  <2> QED BY <2>1, <2>2
<1>12. \A d \in Clients : ClientInv(d)'
  BY <1>5 DEF ClientInv
<1>13. \A r \in Services, d \in Clients : GreetInv(r, d)'
  <2> TAKE r \in Services, d \in Clients
  <2>1. Ungreeted(r, d)' => Ungreeted(r, d)
    BY <1>4, <1>6, Facts DEF Ungreeted, Waiting, Given
  <2> QED BY <1>5, <2>1 DEF GreetInv
<1>14. FullInv'
  BY <1>2, <1>5, <1>6, <1>9 DEF FullInv, Q3Types
<1> QED BY <1>7, <1>8, <1>10, <1>11, <1>12, <1>13, <1>14

ConnStates == {"none", "open", "left", "reset", "hungup"}

\* What a hang-up changes, ...
LEMMA HangUpFacts ==
  ASSUME conn \in [Clients -> ConnStates], NEW lost, HangUp(lost)
  PROVE  /\ conn' \in [Clients -> ConnStates]
         /\ \A c \in Clients : conn'[c] = "open" => conn[c] = "open"
BY DEF HangUp, ConnStates

\* The steps that leave the slots, the descriptors and the clients alone but for hanging
\* them up.
LEMMA Q3HangUpFrame ==
  ASSUME Q3Inv, NEW S \in SUBSET Services,
         \A s \in S : ~ Running(s),
         backlog' = [s \in Services |-> IF s \in S THEN <<>> ELSE backlog[s]],
         conn' \in [Clients -> ConnStates],
         \A c \in Clients : conn'[c] = "open" => conn[c] = "open",
         UNCHANGED <<at, port, asked, up, down, serviceVars>>
  PROVE  /\ TcpTypeOK'
         /\ \A s \in Services : PlaceInv(s)' /\ SlotsInv(s)'
         /\ \A c \in Clients : ClientInv(c)'
         /\ \A s \in Services, c \in Clients : GreetInv(s, c)'
<1> USE DEF Q3Inv
<1>1. \A s \in Services : backlog'[s] = IF s \in S THEN <<>> ELSE backlog[s]
  OBVIOUS
<1>2. TcpTypeOK'
  BY DEF Q3Types, TcpTypeOK, ConnStates
<1>3. \A s \in Services : PlaceInv(s)'
  BY <1>1, InNone DEF PlaceInv, Waiting, Holds, Given, serviceVars
<1>4. \A s \in Services : SlotsInv(s)'
  <2> TAKE s \in Services
  <2>1. s \in S => readfds[s] = {}
    BY DEF Running, SlotsInv
  <2> QED BY <1>1, <2>1 DEF SlotsInv, Given, serviceVars
<1>5. \A c \in Clients : ClientInv(c)'
  BY DEF ClientInv
<1>6. \A s \in Services, c \in Clients : GreetInv(s, c)'
  BY <1>1, InNone DEF GreetInv, Ungreeted, Waiting, Given, serviceVars
<1> QED BY <1>2, <1>3, <1>4, <1>5, <1>6

\* ... the server closes, ...
LEMMA Q3CloseBoth ==
  ASSUME Q3Inv, CloseBoth
  PROVE  Q3Inv'
<1> USE DEF Q3Inv
<1> DEFINE s == Min(revents)
           c == files[nsfd][2]
           S == IF Running(s) THEN {} ELSE {s}
<1>1. s \in Services /\ s \in revents
  BY MinMember, Facts DEF CloseBoth, ServerInv, Q3Types
<1>2. /\ files' = [files EXCEPT ![nsfd] = Free, ![s] = Free]
      /\ \E lost : HangUp(lost)
      /\ backlog' = IF Running(s) THEN backlog ELSE [backlog EXCEPT ![s] = <<>>]
      /\ pc = "close" /\ pc' = "store"
      /\ UNCHANGED <<at, port, asked, up, down, revents, nsfd, pids, usr1, reported,
                     serviceVars>>
  BY DEF CloseBoth
<1> HIDE DEF s, c
<1>3. /\ conn' \in [Clients -> ConnStates]
      /\ \A d \in Clients : conn'[d] = "open" => conn[d] = "open"
  BY <1>2, HangUpFacts DEF Q3Types, TcpTypeOK, ConnStates
<1>4. backlog' = [r \in Services |-> IF r \in S THEN <<>> ELSE backlog[r]]
  BY <1>1, <1>2 DEF Q3Types, TcpTypeOK
<1>5. S \in SUBSET Services /\ \A r \in S : ~ Running(r)
  BY <1>1
<1> HIDE DEF S
<1>6. /\ TcpTypeOK'
      /\ \A r \in Services : PlaceInv(r)' /\ SlotsInv(r)'
      /\ \A d \in Clients : ClientInv(d)'
      /\ \A r \in Services, d \in Clients : GreetInv(r, d)'
  BY <1>2, <1>3, <1>4, <1>5, Q3HangUpFrame
<1>7. nsfd \in Numbers /\ s \in Numbers /\ s # NUMS + 1
  BY <1>1, Facts DEF Q3Types
<1>8. /\ files' \in [Numbers -> Descriptors]
      /\ \A n \in Numbers : files'[n] = IF n \in {nsfd, s} THEN Free ELSE files[n]
  BY <1>2, <1>7, Facts DEF Q3Types
<1>9. Q3Types'
  BY <1>2, <1>6, <1>8 DEF Q3Types, serviceVars
<1>10. Min(revents') = s
  BY <1>2 DEF s
<1>11. ServerInv'
  <2>1. \A n \in Services : files'[n] \in {Free, Listener(n)}
    BY <1>8, Facts DEF ServerInv
  <2>2. files'[NUMS + 1] = Free
    BY <1>8, Facts DEF ServerInv
  <2>3. \A r \in Services : files'[r] = Listener(r) => service'[r] = "off"
    <3> TAKE r \in Services
    <3> HAVE files'[r] = Listener(r)
    <3>1. files[r] = Listener(r) /\ r # s
      BY <1>8, Facts
    <3> QED BY <1>2, <3>1 DEF ServerInv, serviceVars, s
  <2>4. ASSUME NEW r \in revents, r # s
        PROVE  service'[r] = "off" /\ files'[r] = Listener(r) /\ backlog'[r] # <<>>
    <3>1. service[r] = "off" /\ files[r] = Listener(r) /\ backlog[r] # <<>> /\ r \in Services
      BY <1>2, <2>4 DEF ServerInv, Q3Types, s
    <3>2. r # nsfd
      <4>1. \E d \in Clients : files[nsfd] = Connection(d)
        BY <1>2 DEF ServerInv
      <4> QED BY <3>1, <4>1, Facts
    <3>3. r \in Numbers
      BY <3>1, Facts
    <3> QED BY <1>2, <1>8, <2>4, <3>1, <3>2, <3>3 DEF serviceVars, Q3Types, TcpTypeOK
  <2> QED BY <1>1, <1>2, <1>10, <2>1, <2>2, <2>3, <2>4 DEF ServerInv
<1>12. FullInv'
  BY <1>2 DEF FullInv, serviceVars
<1> QED BY <1>6, <1>9, <1>11, <1>12

\* ... stores the pid of a child, ...
LEMMA Q3StorePid ==
  ASSUME Q3Inv, StorePid \/ GetPid
  PROVE  Q3Inv'
<1> USE DEF Q3Inv
<1>1. UNCHANGED <<tcpVars, files, nsfd, serviceVars>>
  BY DEF StorePid, GetPid, serverVars
<1>2. \A s \in Services : PlaceInv(s)' /\ SlotsInv(s)'
  BY <1>1 DEF PlaceInv, SlotsInv, Waiting, Holds, Given, tcpVars, serviceVars
<1>3. \A c \in Clients : ClientInv(c)'
  BY <1>1 DEF ClientInv, tcpVars
<1>4. \A s \in Services, c \in Clients : GreetInv(s, c)'
  BY <1>1 DEF GreetInv, Ungreeted, Waiting, Given, tcpVars, serviceVars
<1>5. CASE StorePid
  <2>1. Min(revents) \in revents /\ Min(revents) \in Services
    BY <1>5, MinMember, Facts DEF StorePid, ServerInv, Q3Types
  <2>2. Q3Types' /\ FullInv'
    BY <1>1, <1>5, <2>1 DEF StorePid, Q3Types, TcpTypeOK, tcpVars, serviceVars, FullInv
  <2>3. ServerInv'
    <3>1. pc = "store" /\ pc' \in {"poll", "accept"} /\ revents' = revents \ {Min(revents)}
      BY <1>5 DEF StorePid
    <3>2. \A r \in revents' : service[r] = "off" /\ files[r] = Listener(r) /\ backlog[r] # <<>>
      BY <3>1 DEF ServerInv
    <3>3. \A r \in Services : files[r] = Listener(r) => service[r] = "off"
      BY <3>1 DEF ServerInv
    <3> QED BY <1>1, <3>1, <3>2, <3>3 DEF ServerInv, serviceVars, tcpVars
  <2> QED BY <1>2, <1>3, <1>4, <2>2, <2>3
<1>6. CASE GetPid
  <2>1. /\ usr1' = {} /\ reported' = reported \cup (usr1 \cap pids)
        /\ UNCHANGED <<tcpVars, serverVars, serviceVars>>
    BY <1>6 DEF GetPid
  <2>2. Q3Types'
    BY <2>1, FS_EmptySet DEF Q3Types, TcpTypeOK, tcpVars, serverVars, serviceVars
  <2>3. FullInv'
    BY <2>1 DEF FullInv, serviceVars
  <2>4. ServerInv'
    BY <2>1 DEF ServerInv, tcpVars, serverVars, serviceVars
  <2> QED BY <1>2, <1>3, <1>4, <2>2, <2>3, <2>4
<1> QED BY <1>5, <1>6

\* ... cleans up after it, ...
LEMMA Q3Cleanup ==
  ASSUME Q3Inv, Cleanup
  PROVE  Q3Inv'
<1> USE DEF Q3Inv
<1> DEFINE S == {s \in Services : ~ Running(s)}
<1>1. /\ pc' = "exit" /\ usr1' = {}
      /\ files' = [n \in Numbers |-> Free]
      /\ \E lost : HangUp(lost)
      /\ backlog' = [s \in Services |-> IF s \in S THEN <<>> ELSE backlog[s]]
      /\ UNCHANGED <<at, port, asked, up, down, revents, nsfd, pids, reported, serviceVars>>
  BY DEF Cleanup
<1>2. /\ conn' \in [Clients -> ConnStates]
      /\ \A d \in Clients : conn'[d] = "open" => conn[d] = "open"
  BY <1>1, HangUpFacts DEF Q3Types, TcpTypeOK, ConnStates
<1>3. S \in SUBSET Services /\ \A s \in S : ~ Running(s)
  OBVIOUS
<1> HIDE DEF S
<1>4. /\ TcpTypeOK'
      /\ \A r \in Services : PlaceInv(r)' /\ SlotsInv(r)'
      /\ \A d \in Clients : ClientInv(d)'
      /\ \A r \in Services, d \in Clients : GreetInv(r, d)'
  BY <1>1, <1>2, <1>3, Q3HangUpFrame
<1>5. Q3Types'
  BY <1>1, <1>4, Facts, FS_EmptySet DEF Q3Types, serviceVars
<1>6. ServerInv'
  BY <1>1, Facts DEF ServerInv
<1>7. FullInv'
  BY <1>1 DEF FullInv, serviceVars
<1> QED BY <1>4, <1>5, <1>6, <1>7

\* What send does to a client that has nothing to receive.
LEMMA SendFacts ==
  ASSUME down \in [Clients -> Seq(Messages)], conn \in [Clients -> ConnStates],
         NEW c \in Clients, NEW m \in Messages, down[c] = <<>>, Send(c, m)
  PROVE  /\ down' \in [Clients -> Seq(Messages)] /\ conn' \in [Clients -> ConnStates]
         /\ down'[c] = IF conn[c] = "open" THEN <<m>> ELSE <<>>
         /\ \A d \in Clients \ {c} : down'[d] = down[d]
         /\ \A d \in Clients : conn'[d] = "open" => conn[d] = "open"
<1>1. Append(down[c], m) = <<m>> /\ <<m>> \in Seq(Messages) /\ <<>> \in Seq(Messages)
  BY One
<1>2. down' = [down EXCEPT ![c] = IF conn[c] = "open" THEN <<m>> ELSE <<>>]
  BY <1>1 DEF Send
<1>3. conn' = [conn EXCEPT ![c] = IF conn[c] = "left" THEN "reset" ELSE conn[c]]
  BY DEF Send
<1> QED BY <1>1, <1>2, <1>3 DEF ConnStates

\* A step of service s that leaves its clients' descriptors alone.
LEMMA Q3Select ==
  ASSUME Q3Inv, NEW s \in Services, Select(s)
  PROVE  Q3Inv'
<1> USE DEF Q3Inv
<1> DEFINE found == ReadableSlots(s) \cup (IF backlog[s] # <<>> THEN {0} ELSE {})
<1>1. /\ service[s] = "select" /\ service' = [service EXCEPT ![s] = "round"]
      /\ readfds' = [readfds EXCEPT ![s] = found]
      /\ UNCHANGED <<tcpVars, serverVars, usr1, reported, argument, nsfds>>
  BY DEF Select
<1>2. nsfds[s] \in Seq(Descriptors) /\ DOMAIN nsfds[s] = 1 .. Len(nsfds[s])
  BY LenProperties DEF Q3Types
<1>3. /\ found \in SUBSET Nat /\ (0 \in found => backlog[s] # <<>>)
      /\ \A k \in found \ {0} : k \in DOMAIN nsfds[s] /\ nsfds[s][k] # Terminal
  BY <1>2, LenProperties DEF ReadableSlots
<1> HIDE DEF found
<1>4. Q3Types'
  BY <1>1, <1>3 DEF Q3Types, TcpTypeOK, tcpVars, serverVars
<1>5. ServerInv' /\ FullInv'
  BY <1>1 DEF ServerInv, FullInv, tcpVars, serverVars, Q3Types
<1>6. \A r \in Services : PlaceInv(r)'
  BY <1>1 DEF PlaceInv, Waiting, Holds, Given, tcpVars
<1>7. \A r \in Services : SlotsInv(r)'
  <2> TAKE r \in Services
  <2>1. CASE r = s
    BY <1>1, <1>3, <2>1 DEF SlotsInv, Given, tcpVars, Q3Types
  <2>2. CASE r # s
    BY <1>1, <2>2 DEF SlotsInv, Given, tcpVars, Q3Types
  <2> QED BY <2>1, <2>2
<1>8. \A c \in Clients : ClientInv(c)'
  BY <1>1 DEF ClientInv, tcpVars
<1>9. \A r \in Services, c \in Clients : GreetInv(r, c)'
  BY <1>1 DEF GreetInv, Ungreeted, Waiting, Given, tcpVars, Q3Types
<1> QED BY <1>4, <1>5, <1>6, <1>7, <1>8, <1>9

\* ... starts a service.  A service: ...
LEMMA Q3Start ==
  ASSUME Q3Inv, NEW s \in Services, Start(s)
  PROVE  Q3Inv'
<1> USE DEF Q3Inv
<1>1. /\ service[s] = "forked" /\ service' = [service EXCEPT ![s] = "select"]
      /\ nsfds' = [nsfds EXCEPT ![s] = <<argument[s]>>]
      /\ IF argument[s] = Terminal THEN UNCHANGED <<down, conn>>
         ELSE Send(argument[s][2], Greeting("First", s))
      /\ UNCHANGED <<at, port, asked, up, backlog, serverVars, usr1, reported, argument,
                     readfds>>
  BY DEF Start
<1>2. /\ argument[s] \in Descriptors /\ <<argument[s]>> \in Seq(Descriptors)
      /\ <<argument[s]>> # <<>> /\ Len(<<argument[s]>>) = 1 /\ DOMAIN <<argument[s]>> = {1}
      /\ <<argument[s]>>[1] = argument[s] /\ Distinct(<<argument[s]>>)
      /\ \A d : In(<<argument[s]>>, d) <=> d = argument[s]
      /\ argument[s] = Terminal \/ \E c \in Clients : Given(s, c)
  BY <1>1, One, InOne DEF Q3Types, SlotsInv
<1>3. /\ nsfds'[s] = <<argument[s]>> /\ service'[s] = "select" /\ readfds[s] = {}
      /\ \A r \in Services \ {s} : nsfds'[r] = nsfds[r] /\ service'[r] = service[r]
      /\ nsfds' \in [Services -> Seq(Descriptors)]
      /\ service' \in [Services -> {"off", "forked", "select", "round", "dead"}]
  BY <1>1, <1>2 DEF Q3Types, SlotsInv
<1>4. \A c \in Clients : Given(s, c) =>
        /\ argument[s][2] = c /\ argument[s] # Terminal
        /\ at[c] \in {"greeting", "gone"} /\ up[c] = <<>> /\ down[c] = <<>>
        /\ port[c] = s
  BY <1>1, Facts DEF GreetInv, Ungreeted, Given, PlaceInv
<1>5. /\ down' \in [Clients -> Seq(Messages)] /\ conn' \in [Clients -> ConnStates]
      /\ \A c \in Clients : ~ Given(s, c) => down'[c] = down[c]
      /\ \A c \in Clients : Given(s, c) =>
           down'[c] = IF conn[c] = "open" THEN <<Greeting("First", s)>> ELSE <<>>
      /\ \A c \in Clients : conn'[c] = "open" => conn[c] = "open"
  <2>1. CASE argument[s] = Terminal
    BY <1>1, <2>1, Facts DEF Given, Q3Types, TcpTypeOK, ConnStates
  <2>2. ASSUME NEW c \in Clients, Given(s, c) PROVE <1>5!:
    <3>1. Send(c, Greeting("First", s)) /\ down[c] = <<>>
      BY <1>1, <1>4, <2>2
    <3>2. Greeting("First", s) \in Messages
      BY MessageTypes
    <3>3. /\ down' \in [Clients -> Seq(Messages)] /\ conn' \in [Clients -> ConnStates]
          /\ down'[c] = IF conn[c] = "open" THEN <<Greeting("First", s)>> ELSE <<>>
          /\ \A d \in Clients \ {c} : down'[d] = down[d]
          /\ \A d \in Clients : conn'[d] = "open" => conn[d] = "open"
      BY <3>1, <3>2, SendFacts DEF Q3Types, TcpTypeOK, ConnStates
    <3>4. \A d \in Clients : Given(s, d) <=> d = c
      BY <2>2, Facts DEF Given
    <3> QED BY <3>3, <3>4
  <2> QED BY <1>2, <2>1, <2>2
<1>6. Q3Types'
  BY <1>1, <1>3, <1>5 DEF Q3Types, TcpTypeOK, serverVars, ConnStates
<1>7. ServerInv'
  BY <1>1, <1>3 DEF ServerInv, serverVars, Q3Types
<1>8. \A r \in Services : PlaceInv(r)'
  <2> TAKE r \in Services
  <2>1. CASE r = s
    BY <1>1, <1>2, <1>3, <2>1 DEF PlaceInv, Waiting, Holds, Given
  <2>2. CASE r # s
    BY <1>1, <1>3, <2>2 DEF PlaceInv, Waiting, Holds, Given
  <2> QED BY <2>1, <2>2
<1>9. \A r \in Services : SlotsInv(r)'
  <2> TAKE r \in Services
  <2>1. CASE r = s
    BY <1>1, <1>2, <1>3, <2>1, MaxClientsAssumption DEF SlotsInv, Given
  <2>2. CASE r # s
    BY <1>1, <1>3, <2>2 DEF SlotsInv, Given
  <2> QED BY <2>1, <2>2
<1>10. \A c \in Clients : ClientInv(c)'
  <2> TAKE c \in Clients
  <2>1. CASE Given(s, c)
    <3>1. Greeting("First", s) \in Messages /\ Greeting("First", s).kind # "answer"
      BY MessageTypes
    <3> HIDE DEF Greeting
    <3> QED BY <1>1, <1>4, <1>5, <2>1, <3>1 DEF ClientInv
  <2>2. CASE ~ Given(s, c)
    BY <1>1, <1>5, <2>2 DEF ClientInv
  <2> QED BY <2>1, <2>2
<1>11. \A r \in Services, c \in Clients : GreetInv(r, c)'
  <2> TAKE r \in Services, c \in Clients
  <2>1. Ungreeted(r, c)' => Ungreeted(r, c) /\ ~ Given(s, c)
    BY <1>1, <1>3, <1>4 DEF Ungreeted, Waiting, Given, PlaceInv
  <2> QED BY <1>1, <1>5, <2>1 DEF GreetInv
<1>12. FullInv'
  <2>1. service[s] # "dead" /\ Len(nsfds[s]) # MAX_CLIENTS
    BY <1>1, MaxClientsAssumption DEF SlotsInv
  <2>2. s \notin usr1 \cup reported
    BY <2>1 DEF FullInv
  <2> QED BY <1>1, <1>3, <2>2 DEF FullInv, Q3Types
<1> QED BY <1>6, <1>7, <1>8, <1>9, <1>10, <1>11, <1>12

\* The slot that is served next is that of a client of s.
LEMMA NextSlot ==
  ASSUME Q3Inv, NEW s \in Services, readfds[s] \ {0} # {}
  PROVE  LET k == Min(readfds[s] \ {0})
         IN  /\ k \in readfds[s] \ {0} /\ k \in DOMAIN nsfds[s]
             /\ \E c \in Clients : /\ nsfds[s][k] = Connection(c) /\ nsfds[s][k][2] = c
                                   /\ Holds(s, c) /\ port[c] = s
<1> DEFINE k == Min(readfds[s] \ {0})
<1>1. readfds[s] \ {0} \in SUBSET Nat
  BY DEF Q3Inv, Q3Types
<1>2. k \in readfds[s] \ {0}
  BY <1>1, MinMember
<1> HIDE DEF k
<1>3. /\ k \in DOMAIN nsfds[s] /\ nsfds[s][k] # Terminal
      /\ nsfds[s][k] = Terminal \/ \E c \in Clients : nsfds[s][k] = Connection(c)
  BY <1>2 DEF Q3Inv, SlotsInv
<1>4. PICK c \in Clients : nsfds[s][k] = Connection(c)
  BY <1>3
<1>5. nsfds[s][k][2] = c /\ Holds(s, c) /\ port[c] = s
  BY <1>3, <1>4, Facts DEF Holds, In, Q3Inv, PlaceInv
<1> QED BY <1>2, <1>3, <1>4, <1>5 DEF k

\* ... serves, ...
LEMMA Q3Serve ==
  ASSUME Q3Inv, NEW s \in Services, Serve(s)
  PROVE  Q3Inv'
<1> USE DEF Q3Inv
<1> DEFINE k == Min(readfds[s] \ {0})
<1>1. /\ service[s] = "round" /\ readfds[s] \ {0} # {}
      /\ ReceiveAndSend(nsfds[s][k][2], s)
      /\ readfds' = [readfds EXCEPT ![s] = @ \ {k}]
      /\ service' = [service EXCEPT ![s] = IF readfds[s] = {k} THEN "select" ELSE "round"]
      /\ UNCHANGED <<at, port, asked, backlog, serverVars, usr1, reported, argument, nsfds>>
  BY DEF Serve, Visited
<1>2. PICK c \in Clients : nsfds[s][k][2] = c /\ Holds(s, c) /\ port[c] = s
  BY <1>1, NextSlot
<1>3. k # 0 /\ k \in readfds[s]
  BY <1>1, NextSlot
<1> HIDE DEF k
<1>4. /\ up' \in [Clients -> Seq(1 .. Requests)]
      /\ down' \in [Clients -> Seq(Messages)] /\ conn' \in [Clients -> ConnStates]
      /\ ClientInv(c)' /\ \A d \in Clients \ {c} : up'[d] = up[d] /\ down'[d] = down[d]
      /\ \A d \in Clients : conn'[d] = "open" => conn[d] = "open"
      /\ up[c] = <<>> => up'[c] = <<>> /\ down'[c] = down[c]
  <2> USE DEF Q3Types, TcpTypeOK, ConnStates
  <2>1. CASE up[c] = <<>>
    <3>1. UNCHANGED <<up, down, conn>>
      BY <1>1, <1>2, <2>1 DEF ReceiveAndSend
    <3> QED BY <1>1, <2>1, <3>1 DEF ClientInv
  <2>2. CASE up[c] # <<>>
    <3>1. /\ up[c] = <<asked[c]>> /\ asked[c] # 0 /\ asked[c] \in 0 .. Requests
          /\ at[c] \in {"answer", "gone"} /\ down[c] = <<>>
      BY <2>2 DEF ClientInv
    <3>2. Head(up[c]) = asked[c] /\ Tail(up[c]) = <<>>
      BY <3>1, One
    <3>3. Send(c, Answer(asked[c], s)) /\ up' = [up EXCEPT ![c] = <<>>]
      BY <1>1, <1>2, <2>2, <3>2 DEF ReceiveAndSend
    <3>4. Answer(asked[c], s) \in Messages
      BY <3>1, MessageTypes
    <3>5. /\ down' \in [Clients -> Seq(Messages)] /\ conn' \in [Clients -> ConnStates]
          /\ down'[c] = IF conn[c] = "open" THEN <<Answer(asked[c], s)>> ELSE <<>>
          /\ \A d \in Clients \ {c} : down'[d] = down[d]
          /\ \A d \in Clients : conn'[d] = "open" => conn[d] = "open"
      BY <3>1, <3>3, <3>4, SendFacts
    <3>6. ClientInv(c)'
      BY <1>1, <1>2, <3>1, <3>3, <3>5 DEF ClientInv
    <3>7. up' \in [Clients -> Seq(1 .. Requests)] /\ \A d \in Clients \ {c} : up'[d] = up[d]
      BY <3>3, EmptySeq
    <3> QED BY <2>2, <3>5, <3>6, <3>7
  <2> QED BY <2>1, <2>2
<1>5. /\ readfds' \in [Services -> SUBSET Nat] /\ readfds'[s] = readfds[s] \ {k}
      /\ service' \in [Services -> {"off", "forked", "select", "round", "dead"}]
      /\ service'[s] = (IF readfds[s] = {k} THEN "select" ELSE "round")
      /\ \A r \in Services \ {s} : readfds'[r] = readfds[r] /\ service'[r] = service[r]
  BY <1>1 DEF Q3Types
<1>6. Q3Types'
  BY <1>1, <1>4, <1>5 DEF Q3Types, TcpTypeOK, serverVars, ConnStates
<1>7. ServerInv' /\ FullInv'
  BY <1>1, <1>5 DEF ServerInv, FullInv, serverVars, Q3Types
<1>8. \A r \in Services : PlaceInv(r)'
  BY <1>1 DEF PlaceInv, Waiting, Holds, Given
<1>9. \A r \in Services : SlotsInv(r)'
  <2> TAKE r \in Services
  <2>1. CASE r = s
    BY <1>1, <1>3, <1>5, <2>1 DEF SlotsInv, Given
  <2>2. CASE r # s
    BY <1>1, <1>5, <2>2 DEF SlotsInv, Given
  <2> QED BY <2>1, <2>2
<1>10. \A d \in Clients : ClientInv(d)'
  <2> TAKE d \in Clients
  <2>1. CASE d = c
    BY <1>4, <2>1
  <2>2. CASE d # c
    BY <1>1, <1>4, <2>2 DEF ClientInv
  <2> QED BY <2>1, <2>2
<1>11. \A r \in Services, d \in Clients : GreetInv(r, d)'
  <2> TAKE r \in Services, d \in Clients
  <2>1. Ungreeted(r, d)' => Ungreeted(r, d)
    BY <1>1, <1>5 DEF Ungreeted, Waiting, Given
  <2> QED BY <1>1, <1>4, <2>1 DEF GreetInv
<1> QED BY <1>6, <1>7, <1>8, <1>9, <1>10, <1>11

\* ... ends, ...
LEMMA Q3Die ==
  ASSUME Q3Inv, NEW s \in Services, Die(s)
  PROVE  Q3Inv'
<1> USE DEF Q3Inv
<1>1. /\ service[s] = "round" /\ service' = [service EXCEPT ![s] = "dead"]
      /\ readfds' = [readfds EXCEPT ![s] = {}]
      /\ nsfds' = [nsfds EXCEPT ![s] = <<>>]
      /\ argument' = [argument EXCEPT ![s] = Free]
      /\ \E lost : HangUp(lost)
      /\ backlog' = IF ServerHas(Listener(s)) THEN backlog ELSE [backlog EXCEPT ![s] = <<>>]
      /\ UNCHANGED <<at, port, asked, up, down, serverVars, usr1, reported>>
  BY DEF Die
<1>2. /\ conn' \in [Clients -> ConnStates]
      /\ \A d \in Clients : conn'[d] = "open" => conn[d] = "open"
  BY <1>1, HangUpFacts DEF Q3Types, TcpTypeOK, ConnStates
<1>3. /\ backlog' \in [Services -> Seq(Clients)]
      /\ backlog'[s] \in {backlog[s], <<>>}
      /\ service' \in [Services -> {"off", "forked", "select", "round", "dead"}]
      /\ readfds' \in [Services -> SUBSET Nat] /\ nsfds' \in [Services -> Seq(Descriptors)]
      /\ argument' \in [Services -> Descriptors]
      /\ service'[s] = "dead" /\ readfds'[s] = {} /\ nsfds'[s] = <<>> /\ argument'[s] = Free
      /\ \A r \in Services \ {s} :
           /\ backlog'[r] = backlog[r] /\ service'[r] = service[r] /\ nsfds'[r] = nsfds[r]
           /\ readfds'[r] = readfds[r] /\ argument'[r] = argument[r]
  BY <1>1, Facts DEF Q3Types, TcpTypeOK
<1>4. Q3Types'
  BY <1>1, <1>2, <1>3 DEF Q3Types, TcpTypeOK, serverVars, ConnStates
<1>5. ServerInv'
  BY <1>1, <1>3 DEF ServerInv, serverVars, Q3Types
<1>6. FullInv'
  BY <1>1, <1>3 DEF FullInv, Q3Types
<1>7. \A r \in Services : PlaceInv(r)'
  <2> TAKE r \in Services
  <2>1. CASE r = s
    BY <1>1, <1>3, <2>1, InNone, Facts DEF PlaceInv, Waiting, Holds, Given
  <2>2. CASE r # s
    BY <1>1, <1>3, <2>2 DEF PlaceInv, Waiting, Holds, Given
  <2> QED BY <2>1, <2>2
<1>8. \A r \in Services : SlotsInv(r)'
  <2> TAKE r \in Services
  <2>1. CASE r = s
    BY <1>3, <2>1, MaxClientsAssumption DEF SlotsInv, Given
  <2>2. CASE r # s
    BY <1>1, <1>3, <2>2 DEF SlotsInv, Given
  <2> QED BY <2>1, <2>2
<1>9. \A d \in Clients : ClientInv(d)'
  BY <1>1, <1>2 DEF ClientInv
<1>10. \A r \in Services, d \in Clients : GreetInv(r, d)'
  <2> TAKE r \in Services, d \in Clients
  <2>1. Ungreeted(r, d)' => Ungreeted(r, d)
    BY <1>3, InNone DEF Ungreeted, Waiting, Given
  <2> QED BY <1>1, <2>1 DEF GreetInv
<1> QED BY <1>4, <1>5, <1>6, <1>7, <1>8, <1>9, <1>10

\* ... accepts.
LEMMA Q3AcceptClient ==
  ASSUME Q3Inv, NEW s \in Services, AcceptClient(s)
  PROVE  Q3Inv'
<1> USE DEF Q3Inv
<1> DEFINE c == Head(backlog[s])
<1>1. /\ service[s] = "round" /\ readfds[s] = {0}
      /\ \E k \in {"Connected", "Sorry"} : Send(c, Greeting(k, s))
      /\ backlog' = [backlog EXCEPT ![s] = Tail(backlog[s])]
      /\ readfds' = [readfds EXCEPT ![s] = @ \ {0}]
      /\ service' = [service EXCEPT ![s] = "select"]
      /\ UNCHANGED <<at, port, asked, up, serverVars, reported, argument>>
  BY DEF AcceptClient, Visited
<1>2. /\ c \in Clients /\ Waiting(s, c)
      /\ Tail(backlog[s]) \in Seq(Clients)
      /\ \A d : In(Tail(backlog[s]), d) => In(backlog[s], d)
      /\ Distinct(Tail(backlog[s])) /\ ~ In(Tail(backlog[s]), c)
  BY <1>1, InTail DEF Q3Types, TcpTypeOK, Waiting, PlaceInv, SlotsInv
<1>3. \/ /\ Len(nsfds[s]) < MAX_CLIENTS
         /\ nsfds' = [nsfds EXCEPT ![s] = Append(nsfds[s], Connection(c))]
         /\ usr1' = IF Len(nsfds'[s]) = MAX_CLIENTS /\ pc # "exit" /\ usr1 = {}
                    THEN {s} ELSE usr1
      \/ UNCHANGED <<nsfds, usr1>>
  BY DEF AcceptClient, Admit
<1> HIDE DEF c
<1>4. /\ Connection(c) \in Descriptors /\ ~ Holds(s, c) /\ ~ Given(s, c) /\ port[c] = s
      /\ at[c] \in {"greeting", "gone"} /\ up[c] = <<>> /\ down[c] = <<>>
  BY <1>2, Facts DEF PlaceInv, GreetInv, Ungreeted
<1>5. PICK k \in {"Connected", "Sorry"} : Send(c, Greeting(k, s))
  BY <1>1
<1>6. Greeting(k, s) \in Messages /\ Greeting(k, s).kind # "answer"
  BY MessageTypes
<1>7. /\ down' \in [Clients -> Seq(Messages)] /\ conn' \in [Clients -> ConnStates]
      /\ down'[c] = IF conn[c] = "open" THEN <<Greeting(k, s)>> ELSE <<>>
      /\ \A d \in Clients \ {c} : down'[d] = down[d]
      /\ \A d \in Clients : conn'[d] = "open" => conn[d] = "open"
  BY <1>2, <1>4, <1>5, <1>6, SendFacts DEF Q3Types, TcpTypeOK, ConnStates
<1> HIDE DEF Greeting
<1>8. /\ nsfds' \in [Services -> Seq(Descriptors)]
      /\ \A r \in Services \ {s} : nsfds'[r] = nsfds[r]
      /\ Distinct(nsfds'[s]) /\ nsfds'[s] # <<>> /\ Len(nsfds'[s]) <= MAX_CLIENTS
      /\ \A d : In(nsfds'[s], d) => In(nsfds[s], d) \/ d = Connection(c)
      /\ usr1' \in {usr1, {s}} /\ (Len(nsfds[s]) = MAX_CLIENTS => nsfds'[s] = nsfds[s])
      /\ usr1' # usr1 => Len(nsfds'[s]) = MAX_CLIENTS /\ usr1' = {s}
  <2>1. /\ nsfds[s] \in Seq(Descriptors) /\ Len(nsfds[s]) \in Nat /\ MAX_CLIENTS \in Nat
        /\ nsfds[s] # <<>> /\ Distinct(nsfds[s]) /\ Len(nsfds[s]) <= MAX_CLIENTS
    BY <1>1, LenProperties, MaxClientsAssumption DEF Q3Types, SlotsInv, PlaceInv
  <2>2. /\ Append(nsfds[s], Connection(c)) \in Seq(Descriptors)
        /\ Append(nsfds[s], Connection(c)) # <<>>
        /\ Len(Append(nsfds[s], Connection(c))) = Len(nsfds[s]) + 1
        /\ \A d : In(Append(nsfds[s], Connection(c)), d) <=> In(nsfds[s], d) \/ d = Connection(c)
        /\ Distinct(Append(nsfds[s], Connection(c)))
    BY <1>4, <2>1, InAppend DEF Holds
  <2>3. CASE UNCHANGED <<nsfds, usr1>>
    BY <2>1, <2>3 DEF Q3Types
  <2>4. CASE /\ Len(nsfds[s]) < MAX_CLIENTS
             /\ nsfds' = [nsfds EXCEPT ![s] = Append(nsfds[s], Connection(c))]
             /\ usr1' = IF Len(nsfds'[s]) = MAX_CLIENTS /\ pc # "exit" /\ usr1 = {}
                        THEN {s} ELSE usr1
    BY <2>1, <2>2, <2>4 DEF Q3Types
  <2> QED BY <1>3, <2>3, <2>4
<1>9. /\ backlog' \in [Services -> Seq(Clients)] /\ backlog'[s] = Tail(backlog[s])
      /\ readfds' \in [Services -> SUBSET Nat] /\ readfds'[s] = {}
      /\ service' \in [Services -> {"off", "forked", "select", "round", "dead"}]
      /\ service'[s] = "select"
      /\ \A r \in Services \ {s} : /\ readfds'[r] = readfds[r] /\ service'[r] = service[r]
                                   /\ backlog'[r] = backlog[r]
  BY <1>1, <1>2 DEF Q3Types, TcpTypeOK
<1>10. Q3Types'
  <2>1. Cardinality({s}) = 1
    BY FS_Singleton, Zenon
  <2>2. usr1' \in SUBSET Services /\ Cardinality(usr1') <= 1
    <3>1. CASE usr1' = usr1
      BY <3>1 DEF Q3Types
    <3>2. CASE usr1' = {s}
      BY <2>1, <3>2
    <3> QED BY <1>8, <3>1, <3>2
  <2> QED BY <1>1, <1>7, <1>8, <1>9, <2>2 DEF Q3Types, TcpTypeOK, serverVars, ConnStates
<1>11. ServerInv'
  BY <1>1, <1>9 DEF ServerInv, serverVars, Q3Types
<1>12. FullInv'
  BY <1>1, <1>8, <1>9 DEF FullInv, Q3Types
<1>13. \A r \in Services : PlaceInv(r)'
  <2> TAKE r \in Services
  <2>1. CASE r = s
    BY <1>1, <1>2, <1>4, <1>8, <1>9, <2>1, Facts DEF PlaceInv, Waiting, Holds, Given
  <2>2. CASE r # s
    BY <1>1, <1>8, <1>9, <2>2 DEF PlaceInv, Waiting, Holds, Given
  <2> QED BY <2>1, <2>2
<1>14. \A r \in Services : SlotsInv(r)'
  <2> TAKE r \in Services
  <2>1. CASE r = s
    <3>0. \A d : In(nsfds[s], d) => d = Terminal \/ \E e \in Clients : d = Connection(e)
      BY DEF SlotsInv, In
    <3>1. \A d : In(nsfds'[s], d) => d = Terminal \/ \E e \in Clients : d = Connection(e)
      BY <1>2, <1>8, <3>0
    <3>2. \A j \in DOMAIN nsfds'[s] :
            nsfds'[s][j] = Terminal \/ \E e \in Clients : nsfds'[s][j] = Connection(e)
      BY <3>1 DEF In
    <3> QED BY <1>8, <1>9, <2>1, <3>2 DEF SlotsInv, Given
  <2>2. CASE r # s
    <3>1. /\ readfds'[r] = readfds[r] /\ service'[r] = service[r] /\ nsfds'[r] = nsfds[r]
          /\ backlog'[r] = backlog[r] /\ argument'[r] = argument[r]
      BY <1>1, <1>8, <1>9, <2>2
    <3> QED BY <3>1 DEF SlotsInv, Given
  <2> QED BY <2>1, <2>2
<1>15. \A d \in Clients : ClientInv(d)'
  <2> TAKE d \in Clients
  <2>1. CASE d = c
    BY <1>1, <1>4, <1>6, <1>7, <2>1 DEF ClientInv
  <2>2. CASE d # c
    BY <1>1, <1>7, <2>2 DEF ClientInv
  <2> QED BY <2>1, <2>2
<1>16. \A r \in Services, d \in Clients : GreetInv(r, d)'
  <2> TAKE r \in Services, d \in Clients
  <2>1. Ungreeted(r, d)' => Ungreeted(r, d)
    BY <1>1, <1>2, <1>9 DEF Ungreeted, Waiting, Given
  <2>2. Ungreeted(r, d)' => d # c
    <3>1. r # s => ~ Ungreeted(r, c)
      BY <1>2, <1>4 DEF Ungreeted, PlaceInv
    <3>2. d = c => ~ Ungreeted(s, d)'
      BY <1>2, <1>9 DEF Ungreeted, Waiting
    <3> QED BY <2>1, <3>1, <3>2
  <2> QED BY <1>1, <1>7, <2>1, <2>2 DEF GreetInv
<1> QED BY <1>10, <1>11, <1>12, <1>13, <1>14, <1>15, <1>16

\* The program starts in Q3Inv, ...
LEMMA Q3Init == ASSUME Init PROVE Q3Inv
<1> USE DEF Init, TcpInit
<1>1. Q3Types
  BY Facts, EmptySeq, FS_EmptySet, NumsAssumption, RequestsAssumption
     DEF Q3Types, TcpTypeOK, CreateSocket
<1>2. ServerInv
  BY Facts DEF ServerInv, CreateSocket
<1>3. \A s \in Services : PlaceInv(s)
  BY Facts, InNone DEF PlaceInv, Waiting, Holds, Given
<1>4. \A s \in Services : SlotsInv(s)
  BY MaxClientsAssumption, Facts DEF SlotsInv, Given
<1>5. \A c \in Clients : ClientInv(c)
  BY DEF ClientInv
<1>6. \A s \in Services, c \in Clients : GreetInv(s, c)
  BY Facts, InNone DEF GreetInv, Ungreeted, Waiting, Given
<1>7. FullInv
  BY DEF FullInv
<1> QED BY <1>1, <1>2, <1>3, <1>4, <1>5, <1>6, <1>7 DEF Q3Inv

\* ... which a step of nothing keeps, ...
LEMMA Q3Stutter == ASSUME Q3Inv, UNCHANGED vars PROVE Q3Inv'
<1> USE DEF vars, tcpVars, serverVars, serviceVars, Q3Inv
<1>1. Q3Types' /\ ServerInv' /\ FullInv'
  BY DEF Q3Types, TcpTypeOK, ServerInv, FullInv
<1>2. \A s \in Services : PlaceInv(s)' /\ SlotsInv(s)'
  BY DEF PlaceInv, SlotsInv, Waiting, Holds, Given
<1>3. \A c \in Clients : ClientInv(c)'
  BY DEF ClientInv
<1>4. \A s \in Services, c \in Clients : GreetInv(s, c)'
  BY DEF GreetInv, Ungreeted, Waiting, Given
<1> QED BY <1>1, <1>2, <1>3, <1>4

\* ... and every other step.
LEMMA Q3Step ==
  ASSUME Q3Inv,
         \/ Server \/ GetPid \/ Cleanup
         \/ \E s \in Services : Service(s)
         \/ \E c \in Clients : Client(c)
  PROVE  Q3Inv'
<1>1. CASE Server \/ GetPid \/ Cleanup
  BY <1>1, Q3Poll, Q3AcceptAndFork, Q3CloseBoth, Q3StorePid, Q3Cleanup DEF Server
<1>2. ASSUME NEW s \in Services, Service(s) PROVE Q3Inv'
  BY <1>2, Q3Start, Q3Select, Q3Serve, Q3Die, Q3AcceptClient DEF Service
<1>3. ASSUME NEW c \in Clients, Client(c) PROVE Q3Inv'
  BY <1>3, Q3Connect, Q3ClientSteps DEF Client
<1> QED BY <1>1, <1>2, <1>3

\* A set whose elements are all the same has one at most.
LEMMA AtMostOne ==
  ASSUME NEW S, \A x, y \in S : x = y
  PROVE  Cardinality(S) <= 1
<1>1. CASE S = {}
  BY <1>1, FS_EmptySet
<1>2. ASSUME NEW x \in S PROVE Cardinality(S) <= 1
  <2>1. S = {x}
    BY <1>2
  <2>2. Cardinality(S) = 1
    BY <2>1, FS_Singleton, Zenon
  <2> QED BY <2>2
<1> QED BY <1>1, <1>2

\* What Q3Inv says of the answers and descriptors.
LEMMA Q3Properties ==
  ASSUME Q3Inv
  PROVE  TypeOK /\ OwnAnswer /\ OneHolder /\ ReportSound
<1> USE DEF Q3Inv
<1>1. TypeOK
  <2>1. \A s \in Services : readfds[s] \subseteq 0 .. Len(nsfds[s])
    <3> TAKE s \in Services
    <3>1. nsfds[s] \in Seq(Descriptors) /\ readfds[s] \subseteq Nat
      BY DEF Q3Types
    <3>2. DOMAIN nsfds[s] = 1 .. Len(nsfds[s]) /\ Len(nsfds[s]) \in Nat
      BY <3>1, LenProperties
    <3> QED BY <3>1, <3>2 DEF SlotsInv
  <2> QED BY <2>1 DEF TypeOK, Q3Types
<1>2. OwnAnswer
  <2> SUFFICES ASSUME NEW c \in Clients, NEW n \in DOMAIN down[c], down[c][n].kind = "answer"
               PROVE  down[c][n] = Answer(asked[c], port[c])
    BY DEF OwnAnswer
  <2>1. at[c] \in {"menu", "greeting", "prompt", "answer", "gone"} /\ down[c] # <<>>
    BY DEF Q3Types, TcpTypeOK
  <2>2. PICK m : down[c] = <<m>> /\ (m.kind # "answer" \/ m = Answer(asked[c], port[c]))
    BY <2>1 DEF ClientInv
  <2>3. down[c][n] = m
    BY <2>2, One
  <2> QED BY <2>2, <2>3
<1>3. OneHolder
  <2> SUFFICES ASSUME NEW c \in Clients
               PROVE  /\ Cardinality({slot \in Services \X (1 .. MAX_CLIENTS + 1) :
                           /\ slot[2] \in DOMAIN nsfds[slot[1]]
                           /\ nsfds[slot[1]][slot[2]] = Connection(c)}) <= 1
                      /\ pc \in {"poll", "accept"} => ~ ServerHas(Connection(c))
    BY DEF OneHolder
  <2>1. \A r, s \in Services : \A j \in DOMAIN nsfds[r], k \in DOMAIN nsfds[s] :
          nsfds[r][j] = Connection(c) /\ nsfds[s][k] = Connection(c) => r = s /\ j = k
    <3> TAKE r, s \in Services
    <3> TAKE j \in DOMAIN nsfds[r], k \in DOMAIN nsfds[s]
    <3> HAVE nsfds[r][j] = Connection(c) /\ nsfds[s][k] = Connection(c)
    <3>1. port[c] = r /\ port[c] = s
      BY DEF PlaceInv, Holds, In
    <3> QED BY <3>1 DEF PlaceInv, Distinct
  <2>2. Cardinality({slot \in Services \X (1 .. MAX_CLIENTS + 1) :
                       /\ slot[2] \in DOMAIN nsfds[slot[1]]
                       /\ nsfds[slot[1]][slot[2]] = Connection(c)}) <= 1
    <3> DEFINE S == {slot \in Services \X (1 .. MAX_CLIENTS + 1) :
                       /\ slot[2] \in DOMAIN nsfds[slot[1]]
                       /\ nsfds[slot[1]][slot[2]] = Connection(c)}
    <3>1. \A x, y \in S : x = y
      BY <2>1
    <3> HIDE DEF S
    <3>2. Cardinality(S) <= 1
      BY <3>1, AtMostOne
    <3> QED BY <3>2 DEF S
  <2>3. pc \in {"poll", "accept"} => ~ ServerHas(Connection(c))
    BY Facts DEF ServerInv, ServerHas
  <2> QED BY <2>2, <2>3
<1>4. ReportSound
  BY DEF FullInv, ReportSound
<1> QED BY <1>1, <1>2, <1>3, <1>4

-----------------------------------------------------------------------------
(* 16-UnixSockets/MultiServiceServer.                                      *)

PassedTypes ==
  /\ TcpTypeOK
  /\ pc \in {"services", "select", "visit", "exit"}
  /\ revents \in SUBSET Services
  /\ nusfds \in Seq(Services) /\ calling \in Seq(Services)
  /\ passed \in [Services -> Seq(Clients)] /\ nsfds \in [Services -> Seq(Clients)]
  /\ service \in [Services -> {"off", "select", "round", "dead"}]
  /\ readfds \in [Services -> SUBSET Nat]

\* The ports are open when each has a service, and each service has one port.
PortsInv ==
  /\ pc = "services" => Len(nusfds) < NUMS /\ \A c \in Clients : port[c] = 0
  /\ pc # "services" => Len(nusfds) = NUMS
  /\ pc = "visit" => revents # {} /\ \A p \in revents : backlog[p] # <<>>
  /\ Distinct(nusfds) /\ Distinct(calling)
  /\ \A s \in Services : /\ ~ (In(nusfds, s) /\ In(calling, s))
                         /\ In(nusfds, s) \/ In(calling, s) => service[s] # "off"

\* A connection waits once, is then once on its way to the service of its port, and then
\* in one slot of that service.
LineInv(s) ==
  /\ Distinct(backlog[s]) /\ Distinct(passed[s]) /\ Distinct(nsfds[s])
  /\ \A c \in Clients : In(backlog[s], c) => port[c] = s
  /\ \A c \in Clients : In(passed[s], c) \/ In(nsfds[s], c) =>
       /\ port[c] \in DOMAIN nusfds /\ nusfds[port[c]] = s
       /\ \A p \in Services : ~ In(backlog[p], c)
  /\ \A c \in Clients : ~ (In(passed[s], c) /\ In(nsfds[s], c))
  /\ 0 \in readfds[s] => passed[s] # <<>>
  /\ \A k \in readfds[s] \ {0} : k \in DOMAIN nsfds[s]

AnswerInv(c) ==
  /\ at[c] = "menu" => port[c] = 0 /\ asked[c] = 0 /\ down[c] = <<>> /\ conn[c] # "open"
  /\ up[c] = <<>> \/ (up[c] = <<asked[c]>> /\ asked[c] # 0 /\ at[c] \in {"answer", "gone"})
  /\ at[c] # "greeting"
  /\ at[c] = "prompt" => port[c] # 0 /\ down[c] = <<>>
  /\ at[c] = "answer" =>
       /\ port[c] # 0
       /\ down[c] = <<>> \/ (up[c] = <<>> /\ down[c] = <<Answer(asked[c], nusfds[port[c]])>>)
  /\ at[c] = "gone" => down[c] = <<>> /\ conn[c] # "open"

PassedInv ==
  /\ PassedTypes /\ PortsInv
  /\ \A s \in Services : LineInv(s)
  /\ \A c \in Clients : AnswerInv(c)

\* PassedService has these definitions of TcpClients, too.
LEMMA PassedTcp ==
  /\ Passed!Services = Services /\ Passed!Messages = Messages
  /\ Passed!TcpTypeOK <=> TcpTypeOK
  /\ Passed!TcpInit <=> TcpInit
  /\ \A n, s : Passed!Answer(n, s) = Answer(n, s)
  /\ \A c, s, x : Passed!Connect(c, s, x) <=> Connect(c, s, x)
  /\ \A c : Passed!Refused(c) <=> Refused(c)
  /\ \A c : Passed!SendRequest(c) <=> SendRequest(c)
  /\ \A c : Passed!Leave(c) <=> Leave(c)
  /\ \A c : Passed!Abandoned(c) <=> Abandoned(c)
  /\ \A c : Passed!Receive(c, "answer", "prompt") <=> Receive(c, "answer", "prompt")
  /\ \A c, s : Passed!ReceiveAndSend(c, s) <=> ReceiveAndSend(c, s)
  /\ \A lost : Passed!HangUp(lost) <=> HangUp(lost)
  /\ Passed!tcpVars = tcpVars
<1>1. Passed!Services = Services /\ Passed!Messages = Messages /\ Passed!tcpVars = tcpVars
  BY DEF Passed!Services, Services, Passed!Messages, Messages, Passed!tcpVars, tcpVars
<1>2. Passed!TcpTypeOK <=> TcpTypeOK
  BY <1>1 DEF Passed!TcpTypeOK, TcpTypeOK
<1>3. Passed!TcpInit <=> TcpInit
  BY <1>1 DEF Passed!TcpInit, TcpInit
<1>4. \A n, s : Passed!Answer(n, s) = Answer(n, s)
  BY DEF Passed!Answer, Answer
<1>5. \A c, s, x : Passed!Connect(c, s, x) <=> Connect(c, s, x)
  BY DEF Passed!Connect, Connect
<1>6. \A c : Passed!Refused(c) <=> Refused(c)
  BY DEF Passed!Refused, Refused
<1>7. \A c : Passed!SendRequest(c) <=> SendRequest(c)
  <2>1. Passed!Sent = Sent
    BY DEF Passed!Sent, Sent
  <2>2. Passed!RequestsLeft <=> RequestsLeft
    BY <2>1 DEF Passed!RequestsLeft, RequestsLeft, Passed!Cardinality, Cardinality
  <2> QED BY <2>2 DEF Passed!SendRequest, SendRequest
<1>8. \A c : Passed!Leave(c) <=> Leave(c)
  BY DEF Passed!Leave, Leave
<1>9. \A c : Passed!Abandoned(c) <=> Abandoned(c)
  BY DEF Passed!Abandoned, Abandoned
<1>10. \A c : Passed!Receive(c, "answer", "prompt") <=> Receive(c, "answer", "prompt")
  BY DEF Passed!Receive, Receive
<1>11. \A c, s : Passed!ReceiveAndSend(c, s) <=> ReceiveAndSend(c, s)
  BY DEF Passed!ReceiveAndSend, ReceiveAndSend, Passed!Send, Send, Passed!Answer, Answer
<1>12. \A lost : Passed!HangUp(lost) <=> HangUp(lost)
  BY DEF Passed!HangUp, HangUp
<1> QED BY <1>1, <1>2, <1>3, <1>4, <1>5, <1>6, <1>7, <1>8, <1>9, <1>10, <1>11, <1>12

\* Min is the same in PassedService.
LEMMA PassedMin == \A S : Passed!Min(S) = Min(S)
BY DEF Passed!Min, Min

PassedServer == <<pc, revents, nusfds, calling, passed, service, nsfds, readfds>>

\* A client connects, ...
LEMMA PassedConnect ==
  ASSUME PassedInv, NEW c \in Clients, NEW p \in Services, pc # "services",
         Connect(c, p, "prompt"), UNCHANGED PassedServer
  PROVE  PassedInv'
<1> USE DEF PassedInv
<1>1. /\ backlog' = [backlog EXCEPT ![p] = Append(backlog[p], c)]
      /\ port' = [port EXCEPT ![c] = p] /\ at[c] = "menu"
      /\ at' = [at EXCEPT ![c] = "prompt"] /\ conn' = [conn EXCEPT ![c] = "open"]
      /\ UNCHANGED <<asked, up, down, pc, revents, nusfds, calling, passed, service, nsfds,
                     readfds>>
  BY DEF Connect, PassedServer
<1>2. /\ port[c] = 0 /\ down[c] = <<>> /\ up[c] = <<>>
      /\ \A s \in Services : ~ In(backlog[s], c) /\ ~ In(passed[s], c) /\ ~ In(nsfds[s], c)
  <2>1. port[c] = 0 /\ down[c] = <<>> /\ up[c] = <<>>
    BY <1>1 DEF AnswerInv
  <2>2. 0 \notin DOMAIN nusfds
    BY LenProperties DEF PassedTypes
  <2> QED BY <2>1, <2>2, Facts DEF LineInv
<1>3. /\ backlog'[p] \in Seq(Clients) /\ backlog'[p] # <<>>
      /\ \A d : In(backlog'[p], d) <=> In(backlog[p], d) \/ d = c
      /\ Distinct(backlog[p]) => Distinct(backlog'[p])
      /\ \A s \in Services \ {p} : backlog'[s] = backlog[s]
  <2>1. backlog[p] \in Seq(Clients) /\ ~ In(backlog[p], c)
    BY <1>2 DEF PassedTypes, TcpTypeOK
  <2>2. backlog'[p] = Append(backlog[p], c) /\ \A s \in Services \ {p} : backlog'[s] = backlog[s]
    BY <1>1 DEF PassedTypes, TcpTypeOK
  <2> QED BY <2>1, <2>2, InAppend
<1>4. PassedTypes'
  BY <1>1, <1>3 DEF PassedTypes, TcpTypeOK
<1>5. PortsInv'
  BY <1>1, <1>3 DEF PortsInv, PassedTypes
<1>6. \A d \in Clients \ {c} : port'[d] = port[d]
  BY <1>1 DEF PassedTypes, TcpTypeOK
<1>7. \A s \in Services : LineInv(s)'
  <2> TAKE s \in Services
  <2>1. Distinct(backlog'[s]) /\ Distinct(passed'[s]) /\ Distinct(nsfds'[s])
    BY <1>1, <1>3 DEF LineInv
  <2>2. \A d \in Clients : In(backlog'[s], d) => port'[d] = s
    <3> TAKE d \in Clients
    <3>1. CASE d = c
      BY <1>1, <1>2, <1>3, <3>1 DEF PassedTypes, TcpTypeOK
    <3>2. CASE d # c
      BY <1>3, <1>6, <3>2 DEF LineInv
    <3> QED BY <3>1, <3>2
  <2>3. \A d \in Clients : In(passed'[s], d) \/ In(nsfds'[s], d) =>
          /\ port'[d] \in DOMAIN nusfds' /\ nusfds'[port'[d]] = s
          /\ \A q \in Services : ~ In(backlog'[q], d)
    <3> TAKE d \in Clients
    <3> HAVE In(passed'[s], d) \/ In(nsfds'[s], d)
    <3>1. In(passed[s], d) \/ In(nsfds[s], d)
      BY <1>1
    <3>2. d # c
      BY <1>2, <3>1
    <3>3. port'[d] = port[d]
      BY <1>6, <3>2
    <3> QED BY <1>1, <1>3, <3>1, <3>2, <3>3 DEF LineInv
  <2> QED BY <1>1, <1>3, <2>1, <2>2, <2>3 DEF LineInv
<1>8. \A d \in Clients : AnswerInv(d)'
  <2> TAKE d \in Clients
  <2>1. CASE d = c
    BY <1>1, <1>2, <2>1, Facts DEF AnswerInv, PassedTypes, TcpTypeOK
  <2>2. CASE d # c
    BY <1>1, <1>6, <2>2 DEF AnswerInv, PassedTypes, TcpTypeOK
  <2> QED BY <2>1, <2>2
<1> QED BY <1>4, <1>5, <1>7, <1>8

\* ... or takes another step.
LEMMA PassedClientSteps ==
  ASSUME PassedInv, NEW c \in Clients, UNCHANGED PassedServer,
         \/ Refused(c) \/ SendRequest(c) \/ Leave(c)
         \/ Receive(c, "answer", "prompt") \/ Abandoned(c)
  PROVE  PassedInv'
<1> USE DEF PassedInv
<1>1. /\ TcpTypeOK' /\ UNCHANGED <<port, backlog>> /\ Others(c)
      /\ Ends(c) \/ Asks(c) \/ Reads(c)
  BY ClientEffects DEF PassedTypes
<1>2. PassedTypes' /\ PortsInv' /\ \A s \in Services : LineInv(s)'
  BY <1>1 DEF PassedTypes, PortsInv, LineInv, PassedServer
<1>3. AnswerInv(c)'
  <2> USE DEF AnswerInv, PassedServer, PassedTypes, TcpTypeOK
  <2>1. CASE Ends(c)
    BY <1>1, <2>1 DEF Ends
  <2>2. CASE Asks(c)
    <3>1. up[c] = <<>> /\ down[c] = <<>>
      BY <2>2 DEF Asks
    <3>3. asked[c] \in Nat
      BY RequestsAssumption
    <3>2. up'[c] = <<asked'[c]>> /\ asked'[c] # 0
      BY <2>2, <3>1, <3>3, One DEF Asks
    <3> QED BY <1>1, <2>2, <3>1, <3>2 DEF Asks
  <2>3. CASE Reads(c)
    <3>1. up[c] = <<>> /\ \E m : down[c] = <<m>>
      BY <2>3 DEF Reads
    <3>2. Tail(down[c]) = <<>>
      BY <3>1, One
    <3> QED BY <1>1, <2>3, <3>1, <3>2 DEF Reads
  <2> QED BY <1>1, <2>1, <2>2, <2>3
<1>4. \A d \in Clients \ {c} : AnswerInv(d)'
  BY <1>1 DEF AnswerInv, Others, PassedServer
<1> QED BY <1>2, <1>3, <1>4

\* The server accepts a service or looks at the ports.
LEMMA PassedServerSteps ==
  ASSUME PassedInv, Passed!AcceptService \/ Passed!SelectPorts
  PROVE  PassedInv'
<1> USE DEF PassedInv
<1>1. CASE Passed!AcceptService
  <2>1. /\ pc = "services" /\ calling # <<>>
        /\ nusfds' = Append(nusfds, Head(calling)) /\ calling' = Tail(calling)
        /\ pc' = IF Len(nusfds') = NUMS THEN "select" ELSE "services"
        /\ UNCHANGED <<tcpVars, revents, passed, service, nsfds, readfds>>
    BY <1>1, PassedTcp DEF Passed!AcceptService, Passed!serviceVars, Passed!tcpVars, tcpVars
  <2>2. /\ Head(calling) \in Services /\ In(calling, Head(calling))
        /\ Tail(calling) \in Seq(Services)
        /\ \A s : In(Tail(calling), s) => In(calling, s)
        /\ Distinct(Tail(calling)) /\ ~ In(Tail(calling), Head(calling))
    BY <2>1, InTail DEF PassedTypes, PortsInv
  <2>3. /\ nusfds' \in Seq(Services) /\ Len(nusfds') = Len(nusfds) + 1
        /\ \A s : In(nusfds', s) <=> In(nusfds, s) \/ s = Head(calling)
        /\ Distinct(nusfds')
        /\ \A k \in DOMAIN nusfds : k \in DOMAIN nusfds' /\ nusfds'[k] = nusfds[k]
    <3>1. nusfds \in Seq(Services) /\ ~ In(nusfds, Head(calling)) /\ Distinct(nusfds)
      BY <2>2 DEF PassedTypes, PortsInv
    <3> QED BY <2>1, <2>2, <3>1, InAppend, LenProperties
  <2>4. PassedTypes'
    BY <2>1, <2>2, <2>3 DEF PassedTypes, TcpTypeOK, tcpVars
  <2>5. PortsInv'
    <3>1. pc' = "services" => Len(nusfds') < NUMS /\ \A c \in Clients : port'[c] = 0
      <4>1. Len(nusfds) \in Nat /\ Len(nusfds) < NUMS
        BY <2>1, LenProperties DEF PortsInv, PassedTypes
      <4> QED BY <2>1, <2>3, <4>1, NumsAssumption DEF PortsInv, tcpVars
    <3>2. \A s \in Services : /\ ~ (In(nusfds', s) /\ In(calling', s))
                              /\ In(nusfds', s) \/ In(calling', s) => service'[s] # "off"
      BY <2>1, <2>2, <2>3 DEF PortsInv
    <3> QED BY <2>1, <2>2, <2>3, <3>1, <3>2 DEF PortsInv
  <2>6. \A s \in Services : LineInv(s)'
    BY <2>1, <2>3 DEF LineInv, tcpVars
  <2>7. \A c \in Clients : AnswerInv(c)'
    BY <2>1 DEF AnswerInv, PortsInv, tcpVars
  <2> QED BY <2>4, <2>5, <2>6, <2>7
<1>2. CASE Passed!SelectPorts
  <2>1. /\ revents' = {p \in Services : backlog[p] # <<>>} /\ revents' # {}
        /\ pc = "select" /\ pc' = "visit"
        /\ UNCHANGED <<tcpVars, nusfds, calling, passed, service, nsfds, readfds>>
    BY <1>2, PassedTcp DEF Passed!SelectPorts, Passed!serviceVars, Passed!tcpVars, tcpVars
  <2>2. PassedTypes' /\ PortsInv'
    BY <2>1 DEF PassedTypes, TcpTypeOK, PortsInv, tcpVars
  <2>3. \A s \in Services : LineInv(s)'
    BY <2>1 DEF LineInv, tcpVars
  <2>4. \A c \in Clients : AnswerInv(c)'
    BY <2>1 DEF AnswerInv, tcpVars
  <2> QED BY <2>2, <2>3, <2>4
<1> QED BY <1>1, <1>2

\* What Pass does, unless it ends the server.
Passes(p, c) ==
  /\ p \in Services /\ c \in Clients /\ backlog[p] # <<>> /\ c = Head(backlog[p])
  /\ p \in DOMAIN nusfds /\ nusfds[p] \in Services
  /\ backlog' = [backlog EXCEPT ![p] = Tail(backlog[p])]
  /\ passed' = [passed EXCEPT ![nusfds[p]] = Append(passed[nusfds[p]], c)]
  /\ revents' = revents \ {p}
  /\ pc' = IF revents' = {} THEN "select" ELSE "visit"
  /\ UNCHANGED <<at, port, asked, up, down, conn, nusfds, calling, service, nsfds, readfds>>

\* What passing a descriptor changes, ...
LEMMA PassEffects ==
  ASSUME PassedInv, Passed!Pass
  PROVE  /\ pc = "visit"
         /\ \/ /\ pc' = "exit"
               /\ UNCHANGED <<tcpVars, revents, passed, nusfds, calling, service, nsfds,
                              readfds>>
            \/ \E p \in Services, c \in Clients : Passes(p, c)
<1> USE DEF PassedInv
<1> DEFINE p == Min(revents)
<1>1. p \in revents /\ p \in Services /\ backlog[p] # <<>> /\ Len(nusfds) = NUMS /\ pc = "visit"
  BY MinMember, Facts DEF Passed!Pass, PortsInv, PassedTypes
<1>2. p \in DOMAIN nusfds /\ nusfds[p] \in Services
  <2>1. nusfds \in Seq(Services)
    BY DEF PassedTypes
  <2> QED BY <1>1, <2>1, LenProperties, ElementOfSeq, NumsAssumption DEF Services
<1>3. Head(backlog[p]) \in Clients
  BY <1>1, HeadTailProperties DEF PassedTypes, TcpTypeOK
<1>4. IF service[nusfds[p]] = "dead"
      THEN pc' = "exit" /\ UNCHANGED <<revents, backlog, passed>>
      ELSE /\ backlog' = [backlog EXCEPT ![p] = Tail(backlog[p])]
           /\ passed' = [passed EXCEPT ![nusfds[p]] = Append(passed[nusfds[p]], Head(backlog[p]))]
           /\ revents' = revents \ {p}
           /\ pc' = IF revents' = {} THEN "select" ELSE "visit"
  BY PassedMin DEF Passed!Pass, Passed!Target, Passed!SendFd
<1>5. UNCHANGED <<at, port, asked, up, down, conn, nusfds, calling, service, nsfds, readfds>>
  BY DEF Passed!Pass, Passed!serviceVars
<1> HIDE DEF p
<1> QED BY <1>1, <1>2, <1>3, <1>4, <1>5 DEF Passes, tcpVars

\* ... and that it keeps the invariant.
LEMMA PassedPass ==
  ASSUME PassedInv, Passed!Pass
  PROVE  PassedInv'
<1> USE DEF PassedInv
<1>1. CASE /\ pc = "visit" /\ pc' = "exit"
           /\ UNCHANGED <<tcpVars, revents, passed, nusfds, calling, service, nsfds, readfds>>
  <2>1. PassedTypes' /\ PortsInv'
    BY <1>1 DEF PassedTypes, TcpTypeOK, PortsInv, tcpVars
  <2>2. \A s \in Services : LineInv(s)'
    BY <1>1 DEF LineInv, tcpVars
  <2>3. \A c \in Clients : AnswerInv(c)'
    BY <1>1 DEF AnswerInv, tcpVars
  <2> QED BY <2>1, <2>2, <2>3
<1>2. ASSUME NEW p \in Services, NEW c \in Clients, Passes(p, c), pc = "visit"
      PROVE  PassedInv'
  <2> DEFINE s == nusfds[p]
  <2>1. /\ backlog[p] \in Seq(Clients) /\ backlog[p] # <<>> /\ c = Head(backlog[p])
        /\ s \in Services /\ p \in DOMAIN nusfds /\ passed[s] \in Seq(Clients)
    BY <1>2 DEF Passes, PassedTypes, TcpTypeOK
  <2>2. /\ In(backlog[p], c) /\ Tail(backlog[p]) \in Seq(Clients)
        /\ \A d : In(Tail(backlog[p]), d) => In(backlog[p], d)
        /\ Distinct(Tail(backlog[p])) /\ ~ In(Tail(backlog[p]), c)
    BY <2>1, InTail DEF LineInv
  <2>3. /\ port[c] = p
        /\ \A r \in Services : ~ In(passed[r], c) /\ ~ In(nsfds[r], c)
        /\ \A r \in Services : In(backlog[r], c) => r = p
    BY <2>2 DEF LineInv
  <2>4. /\ Append(passed[s], c) \in Seq(Clients) /\ Append(passed[s], c) # <<>>
        /\ \A d : In(Append(passed[s], c), d) <=> In(passed[s], d) \/ d = c
        /\ Distinct(Append(passed[s], c))
    BY <2>1, <2>3, InAppend DEF LineInv
  <2>5. /\ backlog' \in [Services -> Seq(Clients)] /\ backlog'[p] = Tail(backlog[p])
        /\ \A r \in Services \ {p} : backlog'[r] = backlog[r]
    BY <1>2, <2>2 DEF Passes, PassedTypes, TcpTypeOK
  <2>6. /\ passed' \in [Services -> Seq(Clients)] /\ passed'[s] = Append(passed[s], c)
        /\ \A r \in Services \ {s} : passed'[r] = passed[r]
    BY <1>2, <2>1, <2>4 DEF Passes, PassedTypes
  <2>7. /\ UNCHANGED <<at, port, asked, up, down, conn, nusfds, calling, service, nsfds,
                       readfds>>
        /\ revents' = revents \ {p} /\ pc' = IF revents' = {} THEN "select" ELSE "visit"
    BY <1>2 DEF Passes
  <2> HIDE DEF s
  <2>8. PassedTypes'
    BY <2>5, <2>6, <2>7 DEF PassedTypes, TcpTypeOK
  <2>9. PortsInv'
    BY <1>2, <2>5, <2>7 DEF PortsInv, PassedTypes
  <2>10. \A r \in Services : LineInv(r)'
    <3> TAKE r \in Services
    <3>1. \A d : In(backlog'[r], d) => In(backlog[r], d)
      BY <2>2, <2>5
    <3>2. \A q \in Services : ~ In(backlog'[q], c)
      BY <2>2, <2>3, <2>5
    <3>3. \A d : In(passed'[r], d) => In(passed[r], d) \/ (r = s /\ d = c)
      BY <2>4, <2>6
    <3>4. Distinct(backlog'[r]) /\ Distinct(passed'[r]) /\ Distinct(nsfds'[r])
      BY <2>2, <2>4, <2>5, <2>6, <2>7 DEF LineInv
    <3>5. \A d \in Clients : In(passed'[r], d) \/ In(nsfds'[r], d) =>
            /\ port'[d] \in DOMAIN nusfds' /\ nusfds'[port'[d]] = r
            /\ \A q \in Services : ~ In(backlog'[q], d)
      <4> TAKE d \in Clients
      <4> HAVE In(passed'[r], d) \/ In(nsfds'[r], d)
      <4>1. CASE d = c /\ r = s
        BY <2>1, <2>3, <2>7, <3>2, <4>1 DEF s
      <4>2. CASE In(passed[r], d) \/ In(nsfds[r], d)
        <5>1. /\ port[d] \in DOMAIN nusfds /\ nusfds[port[d]] = r
              /\ \A q \in Services : ~ In(backlog[q], d)
          BY <4>2 DEF LineInv
        <5> QED BY <2>2, <2>5, <2>7, <5>1
      <4> QED BY <2>7, <3>3, <4>1, <4>2
    <3>6. \A d \in Clients : ~ (In(passed'[r], d) /\ In(nsfds'[r], d))
      BY <2>3, <2>7, <3>3 DEF LineInv
    <3>7. 0 \in readfds'[r] => passed'[r] # <<>>
      BY <2>4, <2>6, <2>7 DEF LineInv
    <3> QED BY <2>7, <3>1, <3>4, <3>5, <3>6, <3>7 DEF LineInv
  <2>11. \A d \in Clients : AnswerInv(d)'
    BY <2>7 DEF AnswerInv
  <2> QED BY <2>8, <2>9, <2>10, <2>11
<1> QED BY <1>1, <1>2, PassEffects

\* A service is started, ...
LEMMA PassedStart ==
  ASSUME PassedInv, NEW s \in Services, Passed!Start(s)
  PROVE  PassedInv'
<1> USE DEF PassedInv
<1>1. /\ service[s] = "off" /\ service' = [service EXCEPT ![s] = "select"]
      /\ calling' = Append(calling, s)
      /\ UNCHANGED <<tcpVars, pc, revents, nusfds, passed, nsfds, readfds>>
  BY DEF Passed!Start, Passed!tcpVars, tcpVars, Passed!serverVars
<1>2. calling \in Seq(Services) /\ ~ In(calling, s) /\ ~ In(nusfds, s) /\ Distinct(calling)
  BY <1>1 DEF PassedTypes, PortsInv
<1>3. /\ calling' \in Seq(Services) /\ Distinct(calling')
      /\ \A r : In(calling', r) <=> In(calling, r) \/ r = s
  BY <1>1, <1>2, InAppend
<1>4. PassedTypes'
  BY <1>1, <1>3 DEF PassedTypes, TcpTypeOK, tcpVars
<1>5. PortsInv'
  <2>1. \A r \in Services : /\ ~ (In(nusfds', r) /\ In(calling', r))
                            /\ In(nusfds', r) \/ In(calling', r) => service'[r] # "off"
    BY <1>1, <1>2, <1>3 DEF PortsInv, PassedTypes
  <2> QED BY <1>1, <1>3, <2>1 DEF PortsInv, tcpVars
<1>6. \A r \in Services : LineInv(r)'
  BY <1>1 DEF LineInv, tcpVars
<1>7. \A c \in Clients : AnswerInv(c)'
  BY <1>1 DEF AnswerInv, tcpVars
<1> QED BY <1>4, <1>5, <1>6, <1>7

\* The steps of a service that only change its round.
LEMMA PassedRound ==
  ASSUME PassedInv, NEW s \in Services, Passed!Select(s) \/ Passed!Die(s)
  PROVE  PassedInv'
<1> USE DEF PassedInv
<1>1. /\ service[s] # "off"
      /\ service' \in [Services -> {"off", "select", "round", "dead"}]
      /\ service'[s] # "off" /\ \A r \in Services \ {s} : service'[r] = service[r]
      /\ UNCHANGED <<tcpVars, pc, revents, nusfds, calling, passed, nsfds>>
  BY DEF Passed!Select, Passed!Die, Passed!tcpVars, tcpVars, Passed!serverVars, PassedTypes
<1>2. /\ readfds' \in [Services -> SUBSET Nat]
      /\ 0 \in readfds'[s] => passed[s] # <<>>
      /\ \A k \in readfds'[s] \ {0} : k \in DOMAIN nsfds[s]
      /\ \A r \in Services \ {s} : readfds'[r] = readfds[r]
  <2>1. nsfds[s] \in Seq(Clients) /\ DOMAIN nsfds[s] = 1 .. Len(nsfds[s])
    BY LenProperties DEF PassedTypes
  <2>2. DOMAIN nsfds[s] \subseteq Nat
    BY <2>1, LenProperties
  <2>3. CASE Passed!Die(s)
    BY <2>3 DEF Passed!Die, PassedTypes
  <2>4. CASE Passed!Select(s)
    <3> DEFINE found == {k \in DOMAIN nsfds[s] : Passed!Readable(nsfds[s][k])} \cup
                        (IF passed[s] # <<>> THEN {0} ELSE {})
    <3>1. readfds' = [readfds EXCEPT ![s] = found]
      BY <2>4 DEF Passed!Select
    <3>2. /\ found \in SUBSET Nat /\ (0 \in found => passed[s] # <<>>)
          /\ \A k \in found \ {0} : k \in DOMAIN nsfds[s]
      BY <2>1, <2>2
    <3> HIDE DEF found
    <3> QED BY <3>1, <3>2 DEF PassedTypes
  <2> QED BY <2>3, <2>4
<1>3. PassedTypes'
  BY <1>1, <1>2 DEF PassedTypes, TcpTypeOK, tcpVars
<1>4. PortsInv'
  BY <1>1 DEF PortsInv, tcpVars
<1>5. \A r \in Services : LineInv(r)'
  BY <1>1, <1>2 DEF LineInv, tcpVars
<1>6. \A c \in Clients : AnswerInv(c)'
  BY <1>1 DEF AnswerInv, tcpVars
<1> QED BY <1>3, <1>4, <1>5, <1>6

\* recv_fd: the first connection on its way to s gets the next slot.
Takes(s, c) ==
  /\ passed[s] # <<>> /\ c = Head(passed[s]) /\ c \in Clients
  /\ nsfds' = [nsfds EXCEPT ![s] = Append(nsfds[s], c)]
  /\ passed' = [passed EXCEPT ![s] = Tail(passed[s])]
  /\ UNCHANGED <<tcpVars, pc, revents, nusfds, calling>>

\* What taking a descriptor changes, ...
LEMMA AddClientEffects ==
  ASSUME PassedInv, NEW s \in Services, Passed!AddClient(s)
  PROVE  \E c \in Clients : Takes(s, c)
<1>1. passed[s] # <<>> /\ passed[s] \in Seq(Clients)
  BY DEF PassedInv, LineInv, PassedTypes, Passed!AddClient
<1>2. Head(passed[s]) \in Clients
  BY <1>1, HeadTailProperties
<1> QED BY <1>1, <1>2 DEF Passed!AddClient, Passed!RecvFd, Takes, Passed!tcpVars, tcpVars,
                          Passed!serverVars

\* ... and that it keeps the invariant.
LEMMA PassedAddClient ==
  ASSUME PassedInv, NEW s \in Services, Passed!AddClient(s)
  PROVE  PassedInv'
<1> USE DEF PassedInv
<1>1. PICK c \in Clients : Takes(s, c)
  BY AddClientEffects
<1>2. /\ service' \in [Services -> {"off", "select", "round", "dead"}]
      /\ service[s] # "off" /\ service'[s] # "off"
      /\ \A r \in Services \ {s} : service'[r] = service[r] /\ readfds'[r] = readfds[r]
      /\ readfds' \in [Services -> SUBSET Nat] /\ readfds'[s] = readfds[s] \ {0}
  BY DEF Passed!AddClient, Passed!Visited, PassedTypes
<1>3. /\ In(passed[s], c) /\ Tail(passed[s]) \in Seq(Clients)
      /\ \A d : In(Tail(passed[s]), d) => In(passed[s], d)
      /\ Distinct(Tail(passed[s])) /\ ~ In(Tail(passed[s]), c)
  <2>1. passed[s] \in Seq(Clients) /\ passed[s] # <<>> /\ c = Head(passed[s])
    BY <1>1 DEF Takes, PassedTypes
  <2> QED BY <2>1, InTail DEF LineInv
<1>4. ~ In(nsfds[s], c)
  BY <1>3 DEF LineInv
<1>5. /\ Append(nsfds[s], c) \in Seq(Clients)
      /\ DOMAIN nsfds[s] \subseteq DOMAIN Append(nsfds[s], c)
      /\ \A d : In(Append(nsfds[s], c), d) <=> In(nsfds[s], d) \/ d = c
      /\ Distinct(Append(nsfds[s], c))
  <2>1. nsfds[s] \in Seq(Clients) /\ Distinct(nsfds[s])
    BY DEF PassedTypes, LineInv
  <2> QED BY <1>4, <2>1, InAppend, LenProperties
<1>6. /\ nsfds' \in [Services -> Seq(Clients)] /\ passed' \in [Services -> Seq(Clients)]
      /\ nsfds'[s] = Append(nsfds[s], c) /\ passed'[s] = Tail(passed[s])
      /\ \A r \in Services \ {s} : nsfds'[r] = nsfds[r] /\ passed'[r] = passed[r]
      /\ UNCHANGED <<at, port, asked, up, down, conn, backlog, pc, revents, nusfds, calling>>
  BY <1>1, <1>3, <1>5 DEF Takes, PassedTypes, tcpVars
<1>7. PassedTypes'
  BY <1>2, <1>6 DEF PassedTypes, TcpTypeOK
<1>8. PortsInv'
  BY <1>2, <1>6 DEF PortsInv
<1>9. \A r \in Services : LineInv(r)'
  <2> TAKE r \in Services
  <2>1. \A d : In(passed'[r], d) \/ In(nsfds'[r], d) => In(passed[r], d) \/ In(nsfds[r], d)
    BY <1>3, <1>5, <1>6
  <2>2. \A d : ~ (In(passed'[r], d) /\ In(nsfds'[r], d)) \/ (In(passed[r], d) /\ In(nsfds[r], d))
    BY <1>3, <1>5, <1>6
  <2>3. /\ 0 \in readfds'[r] => passed'[r] # <<>>
        /\ \A k \in readfds'[r] \ {0} : k \in DOMAIN nsfds'[r]
    BY <1>2, <1>5, <1>6 DEF LineInv
  <2>4. Distinct(backlog'[r]) /\ Distinct(passed'[r]) /\ Distinct(nsfds'[r])
    BY <1>3, <1>5, <1>6 DEF LineInv
  <2> QED BY <1>6, <2>1, <2>2, <2>3, <2>4 DEF LineInv
<1>10. \A d \in Clients : AnswerInv(d)'
  BY <1>6 DEF AnswerInv
<1> QED BY <1>7, <1>8, <1>9, <1>10

\* A service serves.
LEMMA PassedServe ==
  ASSUME PassedInv, NEW s \in Services, Passed!Serve(s)
  PROVE  PassedInv'
<1> USE DEF PassedInv
<1> DEFINE k == Min(readfds[s])
           c == nsfds[s][k]
<1>1. /\ service[s] = "round" /\ readfds[s] # {} /\ 0 \notin readfds[s]
      /\ ReceiveAndSend(c, s)
      /\ readfds' = [readfds EXCEPT ![s] = @ \ {k}]
      /\ service' = [service EXCEPT ![s] = IF readfds[s] = {k} THEN "select" ELSE "round"]
      /\ UNCHANGED <<at, port, asked, backlog, pc, revents, nusfds, calling, passed, nsfds>>
  BY PassedMin, PassedTcp DEF Passed!Serve, Passed!Visited, Passed!serverVars
<1>2. k \in readfds[s] /\ k \in DOMAIN nsfds[s]
  <2>1. k \in readfds[s]
    BY <1>1, MinMember DEF PassedTypes
  <2> QED BY <1>1, <2>1 DEF LineInv
<1>3. c \in Clients /\ nusfds[port[c]] = s
  <2>1. c \in Clients
    BY <1>2, ElementOfSeq, LenProperties DEF PassedTypes
  <2> QED BY <1>2, <2>1 DEF LineInv, In
<1> HIDE DEF k, c
<1>4. /\ up' \in [Clients -> Seq(1 .. Requests)]
      /\ down' \in [Clients -> Seq(Messages)] /\ conn' \in [Clients -> ConnStates]
      /\ AnswerInv(c) => 
           \/ up'[c] = up[c] /\ down'[c] = down[c] 
           \/ /\ up[c] = <<asked[c]>> /\ asked[c] # 0 /\ at[c] \in {"answer", "gone"}
              /\ down[c] = <<>> /\ up'[c] = <<>>
              /\ down'[c] = IF conn[c] = "open" THEN <<Answer(asked[c], s)>> ELSE <<>>
      /\ \A d \in Clients \ {c} : up'[d] = up[d] /\ down'[d] = down[d]
      /\ \A d \in Clients : conn'[d] = "open" => conn[d] = "open"
  <2> USE DEF PassedTypes, TcpTypeOK, ConnStates
  <2>1. CASE up[c] = <<>>
    <3>1. UNCHANGED <<up, down, conn>>
      BY <1>1, <1>3, <2>1 DEF ReceiveAndSend
    <3> QED BY <3>1
  <2>2. CASE up[c] # <<>>
    <3>1. /\ up[c] = <<asked[c]>> /\ asked[c] # 0 /\ asked[c] \in 0 .. Requests
          /\ at[c] \in {"answer", "gone"} /\ down[c] = <<>>
      BY <1>3, <2>2 DEF AnswerInv
    <3>2. Head(up[c]) = asked[c] /\ Tail(up[c]) = <<>>
      BY <3>1, One
    <3>3. Send(c, Answer(asked[c], s)) /\ up' = [up EXCEPT ![c] = <<>>]
      BY <1>1, <1>3, <2>2, <3>2 DEF ReceiveAndSend
    <3>4. Answer(asked[c], s) \in Messages
      BY <3>1, MessageTypes
    <3>5. /\ down' \in [Clients -> Seq(Messages)] /\ conn' \in [Clients -> ConnStates]
          /\ down'[c] = IF conn[c] = "open" THEN <<Answer(asked[c], s)>> ELSE <<>>
          /\ \A d \in Clients \ {c} : down'[d] = down[d]
          /\ \A d \in Clients : conn'[d] = "open" => conn[d] = "open"
      BY <1>3, <3>1, <3>3, <3>4, SendFacts
    <3>6. up' \in [Clients -> Seq(1 .. Requests)] /\ \A d \in Clients \ {c} : up'[d] = up[d]
      BY <3>3, EmptySeq
    <3>7. up'[c] = <<>>
      BY <1>3, <3>3
    <3> QED BY <3>1, <3>5, <3>6, <3>7
  <2> QED BY <2>1, <2>2
<1>5. /\ service' \in [Services -> {"off", "select", "round", "dead"}]
      /\ service'[s] # "off" /\ \A r \in Services \ {s} : service'[r] = service[r]
      /\ readfds' \in [Services -> SUBSET Nat] /\ \A r \in Services : readfds'[r] \subseteq readfds[r]
  BY <1>1 DEF PassedTypes
<1>6. PassedTypes'
  BY <1>1, <1>4, <1>5 DEF PassedTypes, TcpTypeOK, ConnStates
<1>7. PortsInv'
  BY <1>1, <1>5 DEF PortsInv
<1>8. \A r \in Services : LineInv(r)'
  BY <1>1, <1>5 DEF LineInv
<1>9. \A d \in Clients : AnswerInv(d)'
  <2> TAKE d \in Clients
  <2>1. CASE d = c
    BY <1>1, <1>3, <1>4, <2>1 DEF AnswerInv
  <2>2. CASE d # c
    BY <1>1, <1>4, <2>2 DEF AnswerInv
  <2> QED BY <2>1, <2>2
<1> QED BY <1>6, <1>7, <1>8, <1>9

\* A service has ended and is cleaned up after.
LEMMA PassedCleanup ==
  ASSUME PassedInv, NEW s \in Services, Passed!Cleanup(s)
  PROVE  PassedInv'
<1> USE DEF PassedInv
<1>1. /\ service[s] = "select" /\ service' = [service EXCEPT ![s] = "dead"]
      /\ \E lost : HangUp(lost)
      /\ UNCHANGED <<at, port, asked, up, down, backlog, pc, revents, nusfds, calling, passed,
                     nsfds, readfds>>
  BY PassedTcp DEF Passed!Cleanup, Passed!serverVars
<1>2. /\ conn' \in [Clients -> ConnStates]
      /\ \A d \in Clients : conn'[d] = "open" => conn[d] = "open"
  BY <1>1, HangUpFacts DEF PassedTypes, TcpTypeOK, ConnStates
<1>3. PassedTypes' /\ PortsInv'
  BY <1>1, <1>2 DEF PassedTypes, TcpTypeOK, PortsInv, ConnStates
<1>4. \A r \in Services : LineInv(r)'
  BY <1>1 DEF LineInv
<1>5. \A d \in Clients : AnswerInv(d)'
  BY <1>1, <1>2 DEF AnswerInv
<1> QED BY <1>3, <1>4, <1>5

\* The program starts in PassedInv, ...
LEMMA PassedInit == ASSUME Passed!Init PROVE PassedInv
<1>1. /\ TcpInit
      /\ pc = "services" /\ revents = {} /\ nusfds = <<>>
      /\ calling = <<>> /\ passed = [s \in Services |-> <<>>]
      /\ service = [s \in Services |-> "off"]
      /\ nsfds = [s \in Services |-> <<>>] /\ readfds = [s \in Services |-> {}]
  BY PassedTcp DEF Passed!Init
<1>2. PassedTypes
  BY <1>1, EmptySeq, RequestsAssumption DEF PassedTypes, TcpTypeOK, TcpInit
<1>3. PortsInv
  BY <1>1, InNone, NumsAssumption DEF PortsInv, TcpInit
<1>4. \A s \in Services : LineInv(s)
  BY <1>1, InNone DEF LineInv, TcpInit
<1>5. \A c \in Clients : AnswerInv(c)
  BY <1>1 DEF AnswerInv, TcpInit
<1> QED BY <1>2, <1>3, <1>4, <1>5 DEF PassedInv

\* ... which a step of nothing keeps, ...
LEMMA PassedStutter == ASSUME PassedInv, UNCHANGED <<tcpVars, PassedServer>> PROVE PassedInv'
<1> USE DEF PassedServer, tcpVars, PassedInv
<1>1. PassedTypes' /\ PortsInv'
  BY DEF PassedTypes, TcpTypeOK, PortsInv
<1>2. \A s \in Services : LineInv(s)'
  BY DEF LineInv
<1>3. \A c \in Clients : AnswerInv(c)'
  BY DEF AnswerInv
<1> QED BY <1>1, <1>2, <1>3

\* The steps of the clients, and whether they connect.
LEMMA PassedClientMain ==
  ASSUME NEW c \in Clients, Passed!ClientMain(c)
  PROVE  /\ UNCHANGED PassedServer
         /\ \/ \E p \in Services : pc # "services" /\ Connect(c, p, "prompt")
            \/ \/ Refused(c) \/ SendRequest(c) \/ Leave(c)
               \/ Receive(c, "answer", "prompt") \/ Abandoned(c)
<1>1. UNCHANGED PassedServer
  BY DEF Passed!ClientMain, Passed!Client, Passed!ClientRuns, Passed!serverVars,
         Passed!serviceVars, PassedServer
<1>2. \/ \E p \in Services : IF Passed!PortsOpen THEN Connect(c, p, "prompt") ELSE Refused(c)
      \/ SendRequest(c) \/ Leave(c)
      \/ Receive(c, "answer", "prompt") \/ Abandoned(c)
  BY PassedTcp DEF Passed!ClientMain, Passed!Client, Passed!ClientRuns
<1> QED BY <1>1, <1>2 DEF Passed!PortsOpen

\* ... and every other step.
LEMMA PassedStep ==
  ASSUME PassedInv,
         \/ Passed!Server
         \/ \E s \in Services : Passed!ServiceMain(s)
         \/ \E c \in Clients : Passed!ClientMain(c)
  PROVE  PassedInv'
<1>1. CASE Passed!Server
  BY <1>1, PassedServerSteps, PassedPass DEF Passed!Server
<1>2. ASSUME NEW s \in Services, Passed!ServiceMain(s) PROVE PassedInv'
  BY <1>2, PassedStart, PassedRound, PassedAddClient, PassedServe, PassedCleanup
     DEF Passed!ServiceMain, Passed!Service
<1>3. ASSUME NEW c \in Clients, Passed!ClientMain(c) PROVE PassedInv'
  BY <1>3, PassedClientMain, PassedConnect, PassedClientSteps
<1> QED BY <1>1, <1>2, <1>3

\* A sequence without repetition over a finite set is no longer than the set is large.
LEMMA DistinctLen ==
  ASSUME NEW S, IsFiniteSet(S), NEW q \in Seq(S), Distinct(q)
  PROVE  Len(q) <= Cardinality(S)
<1>1. q \in Injection(1 .. Len(q), S)
  BY LenProperties DEF Distinct, Injection, IsInjective
<1>2. Cardinality(1 .. Len(q)) <= Cardinality(S)
  BY <1>1, FS_Injection
<1>3. Cardinality(1 .. Len(q)) = Len(q)
  <2>1. Len(q) \in Nat
    BY LenProperties
  <2>2. Cardinality(1 .. Len(q)) = IF 1 > Len(q) THEN 0 ELSE Len(q) - 1 + 1
    BY <2>1, FS_Interval
  <2> QED BY <2>1, <2>2
<1> QED BY <1>2, <1>3

\* What PassedInv says of the answers and descriptors.
LEMMA PassedProperties ==
  ASSUME PassedInv
  PROVE  Passed!TypeOK /\ Passed!AnswerAsConnected
<1> USE DEF PassedInv
<1>1. readfds \in [Services -> SUBSET (0 .. SLOTS)]
  <2>1. SLOTS \in Nat /\ Cardinality(Clients) <= SLOTS
    BY Assumptions DEF Passed!SlotsAssumption, Passed!Cardinality, Cardinality
  <2>2. ASSUME NEW s \in Services PROVE readfds[s] \subseteq 0 .. SLOTS
    <3>1. nsfds[s] \in Seq(Clients) /\ Distinct(nsfds[s])
      BY DEF PassedTypes, LineInv
    <3>2. Len(nsfds[s]) <= Cardinality(Clients) /\ Len(nsfds[s]) \in Nat
      BY <3>1, DistinctLen, LenProperties, ClientsAssumption DEF ClientsAssumption
    <3>3. DOMAIN nsfds[s] = 1 .. Len(nsfds[s])
      BY <3>1, LenProperties
    <3>4. Cardinality(Clients) \in Nat
      BY FS_CardinalityType, ClientsAssumption DEF ClientsAssumption
    <3> QED BY <2>1, <3>2, <3>3, <3>4 DEF LineInv
  <2> QED BY <2>2 DEF PassedTypes
<1>2. Passed!TypeOK
  BY <1>1, PassedTcp DEF Passed!TypeOK, PassedTypes
<1>3. Passed!AnswerAsConnected
  <2> SUFFICES ASSUME NEW c \in Clients, NEW n \in DOMAIN down[c]
               PROVE  down[c][n] = Answer(asked[c], nusfds[port[c]])
    BY PassedTcp DEF Passed!AnswerAsConnected
  <2>1. at[c] \in {"menu", "greeting", "prompt", "answer", "gone"} /\ down[c] # <<>>
    BY DEF PassedTypes, TcpTypeOK
  <2>2. down[c] = <<Answer(asked[c], nusfds[port[c]])>>
    BY <2>1 DEF AnswerInv
  <2> QED BY <2>2, One
<1> QED BY <1>2, <1>3

-----------------------------------------------------------------------------
(* Connections and lines arrive in order: the programs implement Channels. *)

Items  == {<<x>> : x \in Clients \cup 1 .. Requests}

OnWay  == [e \in Services \cup Clients |->
             CASE program = "passed" /\ e \in Services -> Passed!OnTheirWay[e]
               [] program = "polling" /\ e \in Clients -> up[e]
               [] OTHER -> <<>>]
There  == [e \in Services \cup Clients |->
             CASE program = "passed" /\ e \in Services -> Passed!Taken[e]
               [] program = "polling" /\ e \in Clients -> shown[e]
               [] OTHER -> <<>>]

\* What Channels says, in terms of OnWay and There: its first states and its steps, ...
LEMMA CarriedIs ==
  /\ Carried!Init <=> /\ OnWay = [e \in Services \cup Clients |-> <<>>]
                      /\ There = [e \in Services \cup Clients |-> <<>>]
  /\ \A e : Carried!Put(e) <=>
       /\ \E b \in Items : OnWay' = [OnWay EXCEPT ![e] = @ \o b]
       /\ UNCHANGED There
  /\ \A e : Carried!Take(e) <=>
       \E n \in 1 .. Len(OnWay[e]) :
         /\ There' = [There EXCEPT ![e] = @ \o SubSeq(OnWay[e], 1, n)]
         /\ OnWay' = [OnWay EXCEPT ![e] = SubSeq(@, n + 1, Len(@))]
  /\ Carried!Next <=> \E e \in Services \cup Clients : Carried!Put(e) \/ Carried!Take(e)
BY DEF Carried!Init, Carried!Put, Carried!Take, Carried!Next, OnWay, There, Items

\* ... and its specification.
LEMMA CarriedSpecIs == Carried!Spec <=> Carried!Init /\ [][Carried!Next]_<<OnWay, There>>
BY DEF Carried!Spec, OnWay, There

\* What is carried in PassedService, ...
LEMMA CarriedPassed ==
  ASSUME program = "passed"
  PROVE  \A e \in Services \cup Clients :
           /\ OnWay[e] = IF e \in Services /\ e \in DOMAIN nusfds
                         THEN passed[nusfds[e]] \o backlog[e] ELSE <<>>
           /\ There[e] = IF e \in Services /\ e \in DOMAIN nusfds
                         THEN nsfds[nusfds[e]] ELSE <<>>
BY PassedTcp DEF OnWay, There, Passed!OnTheirWay, Passed!Taken

\* ... after a step too, ...
LEMMA CarriedPassedNext ==
  ASSUME program' = "passed"
  PROVE  \A e \in Services \cup Clients :
           /\ OnWay'[e] = IF e \in Services /\ e \in DOMAIN nusfds'
                          THEN passed'[nusfds'[e]] \o backlog'[e] ELSE <<>>
           /\ There'[e] = IF e \in Services /\ e \in DOMAIN nusfds'
                          THEN nsfds'[nusfds'[e]] ELSE <<>>
BY DEF OnWay, There, Passed!OnTheirWay, Passed!Taken, Passed!Services, Services

\* ... is a function of the ends.
LEMMA CarriedFunctions ==
  /\ OnWay  = [e \in Services \cup Clients |-> OnWay[e]]
  /\ There  = [e \in Services \cup Clients |-> There[e]]
  /\ OnWay' = [e \in Services \cup Clients |-> OnWay'[e]]
  /\ There' = [e \in Services \cup Clients |-> There'[e]]
BY DEF OnWay, There

\* What leaves the sequences alone leaves alone what is carried.
LEMMA SameCarried ==
  ASSUME \A e \in Services \cup Clients : OnWay'[e] = OnWay[e] /\ There'[e] = There[e]
  PROVE  OnWay' = OnWay /\ There' = There
BY CarriedFunctions

\* An accept leaves what is carried alone, ...
LEMMA PassedAcceptInOrder ==
  ASSUME PassedInv, PassedInv', program = "passed", program' = program, Passed!AcceptService
  PROVE  OnWay' = OnWay /\ There' = There
<1> USE DEF PassedInv
<1>1. /\ pc = "services" /\ calling # <<>> /\ nusfds' = Append(nusfds, Head(calling))
      /\ UNCHANGED <<backlog, passed, nsfds, port>>
  BY DEF Passed!AcceptService, Passed!serviceVars, Passed!tcpVars
<1>2. nusfds \in Seq(Services) /\ Head(calling) \in Services /\ ~ In(nusfds, Head(calling))
  BY <1>1, InTail DEF PassedTypes, PortsInv
<1>3. /\ DOMAIN nusfds = 1 .. Len(nusfds) /\ DOMAIN nusfds' = 1 .. Len(nusfds) + 1
      /\ Len(nusfds) \in Nat /\ nusfds'[Len(nusfds) + 1] = Head(calling)
      /\ \A k \in DOMAIN nusfds : nusfds'[k] = nusfds[k]
  BY <1>1, <1>2, AppendProperties, LenProperties
<1>4. passed[Head(calling)] = <<>> /\ nsfds[Head(calling)] = <<>>
  <2>1. \A c \in Clients : ~ In(passed[Head(calling)], c) /\ ~ In(nsfds[Head(calling)], c)
    BY <1>2 DEF LineInv, In
  <2>2. passed[Head(calling)] \in Seq(Clients) /\ nsfds[Head(calling)] \in Seq(Clients)
    BY <1>2 DEF PassedTypes
  <2> QED BY <2>1, <2>2, InTail
<1>5. \A p \in Services : backlog[p] = <<>>
  <2> TAKE p \in Services
  <2>1. backlog[p] \in Seq(Clients) /\ \A c \in Clients : ~ In(backlog[p], c)
    BY <1>1, Facts DEF PassedTypes, TcpTypeOK, LineInv, PortsInv
  <2> QED BY <2>1, InTail
<1>6. \A e \in Services \cup Clients : OnWay'[e] = OnWay[e] /\ There'[e] = There[e]
  <2> TAKE e \in Services \cup Clients
  <2>1. CASE e \in Services /\ e = Len(nusfds) + 1
    <3>1. <<>> \o <<>> = <<>>
      OBVIOUS
    <3>2. OnWay'[e] = passed[Head(calling)] \o backlog[e] /\ There'[e] = nsfds[Head(calling)]
      <4>1. e \in DOMAIN nusfds' /\ nusfds'[e] = Head(calling)
        BY <1>3, <2>1
      <4> QED BY <1>1, <2>1, <4>1, CarriedPassedNext
    <3>3. OnWay[e] = <<>> /\ There[e] = <<>>
      BY <1>3, <2>1, CarriedPassed, CarriedPassedNext
    <3> QED BY <1>4, <1>5, <2>1, <3>1, <3>2, <3>3
  <2>2. CASE ~ (e \in Services /\ e = Len(nusfds) + 1)
    <3>1. e \in Services => (e \in DOMAIN nusfds' <=> e \in DOMAIN nusfds)
      BY <1>3, <2>2, Facts
    <3> QED BY <1>1, <1>3, <3>1, CarriedPassed, CarriedPassedNext
  <2> QED BY <2>1, <2>2
<1> QED BY <1>6, SameCarried

\* ... and so does passing a descriptor.
LEMMA PassedPassInOrder ==
  ASSUME PassedInv, program = "passed", program' = program, Passed!Pass
  PROVE  OnWay' = OnWay /\ There' = There
<1> USE DEF PassedInv
<1>1. CASE UNCHANGED <<tcpVars, passed, nusfds, nsfds>>
  BY <1>1, CarriedPassed, CarriedPassedNext, SameCarried DEF tcpVars
<1>2. ASSUME NEW p \in Services, NEW c \in Clients, Passes(p, c)
      PROVE  OnWay' = OnWay /\ There' = There
  <2> DEFINE s == nusfds[p]
  <2>1. /\ backlog[p] \in Seq(Clients) /\ backlog[p] # <<>> /\ c = Head(backlog[p])
        /\ s \in Services /\ p \in DOMAIN nusfds /\ passed[s] \in Seq(Clients)
    BY <1>2 DEF Passes, PassedTypes, TcpTypeOK
  <2>2. /\ backlog'[p] = Tail(backlog[p]) /\ passed'[s] = Append(passed[s], c)
        /\ \A r \in Services \ {p} : backlog'[r] = backlog[r]
        /\ \A r \in Services \ {s} : passed'[r] = passed[r]
        /\ UNCHANGED <<nusfds, nsfds>>
    BY <1>2, <2>1 DEF Passes, PassedTypes, TcpTypeOK
  <2>3. \A q \in DOMAIN nusfds : nusfds[q] = s => q = p
    BY <2>1 DEF PortsInv, Distinct
  <2>4. passed'[s] \o backlog'[p] = passed[s] \o backlog[p]
    BY <2>1, <2>2, MoveOne
  <2>5. \A q \in DOMAIN nusfds : nusfds[q] \in Services
    BY ElementOfSeq, LenProperties DEF PassedTypes
  <2> HIDE DEF s
  <2>6. \A e \in Services \cup Clients : OnWay'[e] = OnWay[e] /\ There'[e] = There[e]
    <3> TAKE e \in Services \cup Clients
    <3>1. CASE e = p
      BY <2>1, <2>2, <2>4, <3>1, CarriedPassed, CarriedPassedNext DEF s
    <3>2. CASE e # p
      BY <2>2, <2>3, <2>5, <3>2, CarriedPassed, CarriedPassedNext DEF s
    <3> QED BY <3>1, <3>2
  <2> QED BY <2>6, SameCarried
<1> QED BY <1>1, <1>2, PassEffects

\* A service takes the first of what is on its way, ...
LEMMA PassedAddInOrder ==
  ASSUME PassedInv, program = "passed", program' = program,
         NEW s \in Services, Passed!AddClient(s)
  PROVE  \E e \in Services : Carried!Take(e)
<1> USE DEF PassedInv
<1>1. PICK c \in Clients : Takes(s, c)
  BY AddClientEffects
<1>2. /\ passed[s] \in Seq(Clients) /\ passed[s] # <<>> /\ c = Head(passed[s])
      /\ nsfds'[s] = Append(nsfds[s], c) /\ passed'[s] = Tail(passed[s])
      /\ \A r \in Services \ {s} : nsfds'[r] = nsfds[r] /\ passed'[r] = passed[r]
      /\ UNCHANGED <<backlog, nusfds>> /\ nsfds[s] \in Seq(Clients)
  BY <1>1 DEF Takes, PassedTypes, tcpVars
<1> DEFINE p == port[c]
<1>3. p \in DOMAIN nusfds /\ nusfds[p] = s /\ \A q \in DOMAIN nusfds : nusfds[q] = s => q = p
  BY <1>2, InTail DEF LineInv, PortsInv, Distinct
<1>4. p \in Services /\ \A q \in DOMAIN nusfds : nusfds[q] \in Services
  <2>1. port[c] \in Services \cup {0} /\ nusfds \in Seq(Services)
    BY DEF PassedTypes, TcpTypeOK
  <2>2. 0 \notin DOMAIN nusfds /\ \A q \in DOMAIN nusfds : nusfds[q] \in Services
    BY <2>1, LenProperties, ElementOfSeq
  <2> QED BY <1>3, <2>1, <2>2
<1> HIDE DEF p
<1> DEFINE w == passed[s] \o backlog[p]
<1>5. /\ 1 \in 1 .. Len(w)
      /\ SubSeq(w, 1, 1) = <<c>> /\ SubSeq(w, 2, Len(w)) = Tail(passed[s]) \o backlog[p]
  <2>1. backlog[p] \in Seq(Clients)
    BY <1>4 DEF PassedTypes, TcpTypeOK
  <2> QED BY <1>2, <2>1, TakeFirst
<1>6. OnWay[p] = w /\ There[p] = nsfds[s]
  BY <1>3, <1>4, CarriedPassed, CarriedPassedNext
<1>7. nsfds'[s] = nsfds[s] \o <<c>>
  BY <1>2, AppendIsConcat
<1>8. OnWay'[p] = SubSeq(w, 2, Len(w)) /\ There'[p] = nsfds[s] \o SubSeq(w, 1, 1)
  BY <1>2, <1>3, <1>4, <1>5, <1>7, CarriedPassed, CarriedPassedNext
<1>9. \A e \in (Services \cup Clients) \ {p} : OnWay'[e] = OnWay[e] /\ There'[e] = There[e]
  BY <1>2, <1>3, <1>4, CarriedPassed, CarriedPassedNext
<1> HIDE DEF w
<1>10. There' = [There EXCEPT ![p] = @ \o SubSeq(OnWay[p], 1, 1)]
  BY <1>4, <1>6, <1>8, <1>9, CarriedFunctions
<1>11. OnWay' = [OnWay EXCEPT ![p] = SubSeq(@, 1 + 1, Len(@))]
  <2>1. OnWay'[p] = SubSeq(OnWay[p], 1 + 1, Len(OnWay[p]))
    BY <1>6, <1>8
  <2> QED BY <1>4, <1>9, <2>1, CarriedFunctions
<1> QED BY <1>4, <1>5, <1>6, <1>10, <1>11, CarriedIs

\* ... and a connect puts one more there.
LEMMA PassedConnectInOrder ==
  ASSUME PassedInv, program = "passed", program' = program,
         NEW c \in Clients, NEW p \in Services, pc # "services", Connect(c, p, "prompt"),
         UNCHANGED PassedServer
  PROVE  Carried!Put(p)
<1> USE DEF PassedInv
<1>1. /\ backlog' = [backlog EXCEPT ![p] = Append(backlog[p], c)]
      /\ UNCHANGED <<passed, nusfds, nsfds>>
  BY DEF Connect, PassedServer
<1>2. /\ backlog[p] \in Seq(Clients) /\ p \in DOMAIN nusfds /\ passed[nusfds[p]] \in Seq(Clients)
      /\ backlog'[p] = Append(backlog[p], c)
      /\ \A q \in Services \ {p} : backlog'[q] = backlog[q]
  <2>1. nusfds \in Seq(Services) /\ Len(nusfds) = NUMS
    BY DEF PassedTypes, PortsInv
  <2>2. p \in DOMAIN nusfds /\ nusfds[p] \in Services
    BY <2>1, LenProperties, ElementOfSeq DEF Services
  <2> QED BY <1>1, <2>2 DEF PassedTypes, TcpTypeOK
<1>3. passed[nusfds[p]] \o backlog'[p] = (passed[nusfds[p]] \o backlog[p]) \o <<c>>
  <2> DEFINE a == passed[nusfds[p]]
             b == backlog[p]
             x == <<c>>
  <2>1. backlog'[p] = b \o x /\ a \in Seq(Clients) /\ b \in Seq(Clients) /\ x \in Seq(Clients)
    BY <1>2, AppendIsConcat, One
  <2> HIDE DEF a, b, x
  <2>2. (a \o b) \o x = a \o (b \o x)
    BY <2>1, ConcatAssociative
  <2> QED BY <2>1, <2>2 DEF a, b, x
<1>4. OnWay'[p] = OnWay[p] \o <<c>>
  BY <1>1, <1>2, <1>3, CarriedPassed, CarriedPassedNext
<1>5. \A e \in (Services \cup Clients) \ {p} : OnWay'[e] = OnWay[e]
  BY <1>1, <1>2, CarriedPassed, CarriedPassedNext
<1>6. There' = There
  <2>1. \A e \in Services \cup Clients : There'[e] = There[e]
    BY <1>1, CarriedPassed, CarriedPassedNext
  <2> QED BY <2>1, CarriedFunctions
<1>7. OnWay' = [OnWay EXCEPT ![p] = @ \o <<c>>]
  BY <1>4, <1>5, CarriedFunctions
<1>8. <<c>> \in Items
  BY DEF Items
<1> QED BY <1>6, <1>7, <1>8, CarriedIs

\* The passing of connections implements Channels.
LEMMA PassedInOrder ==
  ASSUME PassedInv, PassedInv', program = "passed", program' = program,
         \/ Passed!Server
         \/ \E s \in Services : Passed!ServiceMain(s)
         \/ \E c \in Clients : Passed!ClientMain(c)
  PROVE  Carried!Next \/ UNCHANGED <<OnWay, There>>
<1>1. CASE UNCHANGED <<backlog, passed, nusfds, nsfds>>
  BY <1>1, CarriedPassed, CarriedPassedNext, SameCarried
<1>2. CASE Passed!Server
  <2>1. CASE Passed!SelectPorts
    BY <1>1, <2>1 DEF Passed!SelectPorts, Passed!tcpVars, Passed!serviceVars
  <2> QED BY <1>2, <2>1, PassedAcceptInOrder, PassedPassInOrder DEF Passed!Server
<1>3. ASSUME NEW s \in Services, Passed!ServiceMain(s)
      PROVE  Carried!Next \/ UNCHANGED <<OnWay, There>>
  <2>1. CASE Passed!AddClient(s)
    BY <2>1, PassedAddInOrder, CarriedIs
  <2>2. CASE Passed!Start(s) \/ Passed!Select(s) \/ Passed!Die(s)
    BY <1>1, <2>2 DEF Passed!Start, Passed!Select, Passed!Die, Passed!tcpVars, Passed!serverVars
  <2>3. CASE Passed!Serve(s) \/ Passed!Cleanup(s)
    BY <1>1, <2>3 DEF Passed!Serve, Passed!Cleanup, Passed!serverVars
  <2> QED BY <1>3, <2>1, <2>2, <2>3 DEF Passed!ServiceMain, Passed!Service
<1>4. ASSUME NEW c \in Clients, Passed!ClientMain(c)
      PROVE  Carried!Next \/ UNCHANGED <<OnWay, There>>
  <2>1. CASE \E p \in Services : pc # "services" /\ Connect(c, p, "prompt")
    BY <1>4, <2>1, PassedClientMain, PassedConnectInOrder, CarriedIs
  <2>2. CASE \/ Refused(c) \/ SendRequest(c) \/ Leave(c)
             \/ Receive(c, "answer", "prompt") \/ Abandoned(c)
    <3>1. UNCHANGED backlog
      BY <2>2 DEF Refused, SendRequest, Leave, Receive, Abandoned
    <3> QED BY <1>1, <1>4, <3>1, PassedClientMain DEF PassedServer
  <2> QED BY <1>4, <2>1, <2>2, PassedClientMain
<1> QED BY <1>2, <1>3, <1>4

\* At first nothing is carried.
LEMMA PassedCarriedInit ==
  ASSUME program = "passed", Passed!Init
  PROVE  Carried!Init
<1>1. nusfds = <<>>
  BY DEF Passed!Init
<1>2. \A e \in Services \cup Clients : OnWay[e] = <<>> /\ There[e] = <<>>
  BY <1>1, CarriedPassed
<1> QED BY <1>2, CarriedFunctions, CarriedIs

-----------------------------------------------------------------------------
(* The servers that fork.                                                  *)

Converts == edition \in {"poll", "select"}

ForkTypes ==
  /\ TcpTypeOK
  /\ edition \in Editions
  /\ pc \in {"wait", "visit", "close", "serve", "exit"}
  /\ revents \in SUBSET Services
  /\ nsfd \in Seq(Clients)
  /\ proc \in [Clients -> {"none", "child", "recv", "dead"}]

\* The parent holds a connection only between its accept and its close; the iterative
\* server is itself the process of its client.
ParentInv ==
  /\ pc = "visit" => revents # {}
  /\ edition = "iterative" => pc \in {"wait", "serve", "exit"}
  /\ edition # "iterative" =>
       /\ pc \in {"wait", "visit", "close"}
       /\ pc = "close" => \E c \in Clients : nsfd = <<c>>
       /\ pc # "close" => nsfd = <<>>

ChildInv(c) ==
  /\ at[c] # "greeting"
  /\ at[c] = "menu" => /\ proc[c] = "none" /\ conn[c] # "open"
                       /\ asked[c] = 0 /\ up[c] = <<>> /\ down[c] = <<>>
                       /\ \A p \in Services : ~ In(backlog[p], c)
  /\ at[c] \in {"prompt", "answer"} => port[c] # 0
  /\ at[c] = "gone" => down[c] = <<>> /\ conn[c] # "open"
  /\ proc[c] = "dead" => \/ conn[c] = "hungup"
                         \/ edition # "iterative" /\ pc = "close" /\ nsfd = <<c>>

\* A converting service has at most one request to answer.
OneInv(c) ==
  /\ up[c] = <<>> \/ (up[c] = <<asked[c]>> /\ asked[c] # 0 /\ at[c] \in {"answer", "gone"})
  /\ at[c] = "prompt" => down[c] = <<>>
  /\ at[c] = "answer" =>
       down[c] = <<>> \/ (up[c] = <<>> /\ down[c] = <<Answer(asked[c], port[c])>>)

\* The pieces on their way are in the order of the requests, and older than those that
\* were not received yet.
LagInv(c) ==
  /\ \A k \in DOMAIN up[c] : up[c][k] <= asked[c]
  /\ \A j, k \in DOMAIN up[c] : j < k => up[c][j] <= up[c][k]
  /\ \A j \in DOMAIN down[c] : down[c][j].of <= asked[c]
  /\ \A j, k \in DOMAIN down[c] : j < k => down[c][j].of <= down[c][k].of
  /\ \A j \in DOMAIN down[c], k \in DOMAIN up[c] : down[c][j].of <= up[c][k]

ForkInv ==
  /\ ForkTypes /\ ParentInv
  /\ \A c \in Clients : ChildInv(c) /\ (IF Converts THEN OneInv(c) ELSE LagInv(c))

\* ForkServer has these definitions of TcpClients, too.
LEMMA ForkTcp ==
  /\ Fork!Services = Services /\ Fork!Messages = Messages
  /\ Fork!TcpTypeOK <=> TcpTypeOK
  /\ Fork!TcpInit <=> TcpInit
  /\ \A n, s : Fork!Answer(n, s) = Answer(n, s)
  /\ \A c, s, x : Fork!Connect(c, s, x) <=> Connect(c, s, x)
  /\ \A c : Fork!Refused(c) <=> Refused(c)
  /\ \A c : Fork!SendRequest(c) <=> SendRequest(c)
  /\ \A c : Fork!Leave(c) <=> Leave(c)
  /\ \A c : Fork!Abandoned(c) <=> Abandoned(c)
  /\ \A c : Fork!Receive(c, "answer", "prompt") <=> Receive(c, "answer", "prompt")
  /\ \A c, s : Fork!ReceiveAndSend(c, s) <=> ReceiveAndSend(c, s)
  /\ \A lost : Fork!HangUp(lost) <=> HangUp(lost)
  /\ Fork!tcpVars = tcpVars
<1>1. Fork!Services = Services /\ Fork!Messages = Messages /\ Fork!tcpVars = tcpVars
  BY DEF Fork!Services, Services, Fork!Messages, Messages, Fork!tcpVars, tcpVars
<1>2. Fork!TcpTypeOK <=> TcpTypeOK
  BY <1>1 DEF Fork!TcpTypeOK, TcpTypeOK
<1>3. Fork!TcpInit <=> TcpInit
  BY <1>1 DEF Fork!TcpInit, TcpInit
<1>4. \A n, s : Fork!Answer(n, s) = Answer(n, s)
  BY DEF Fork!Answer, Answer
<1>5. \A c, s, x : Fork!Connect(c, s, x) <=> Connect(c, s, x)
  BY DEF Fork!Connect, Connect
<1>6. \A c : Fork!Refused(c) <=> Refused(c)
  BY DEF Fork!Refused, Refused
<1>7. \A c : Fork!SendRequest(c) <=> SendRequest(c)
  <2>1. Fork!Sent = Sent
    BY DEF Fork!Sent, Sent
  <2>2. Fork!RequestsLeft <=> RequestsLeft
    BY <2>1 DEF Fork!RequestsLeft, RequestsLeft, Fork!Cardinality, Cardinality
  <2> QED BY <2>2 DEF Fork!SendRequest, SendRequest
<1>8. \A c : Fork!Leave(c) <=> Leave(c)
  BY DEF Fork!Leave, Leave
<1>9. \A c : Fork!Abandoned(c) <=> Abandoned(c)
  BY DEF Fork!Abandoned, Abandoned
<1>10. \A c : Fork!Receive(c, "answer", "prompt") <=> Receive(c, "answer", "prompt")
  BY DEF Fork!Receive, Receive
<1>11. \A c, s : Fork!ReceiveAndSend(c, s) <=> ReceiveAndSend(c, s)
  BY DEF Fork!ReceiveAndSend, ReceiveAndSend, Fork!Send, Send, Fork!Answer, Answer
<1>12. \A lost : Fork!HangUp(lost) <=> HangUp(lost)
  BY DEF Fork!HangUp, HangUp
<1> QED BY <1>1, <1>2, <1>3, <1>4, <1>5, <1>6, <1>7, <1>8, <1>9, <1>10, <1>11, <1>12

\* Min is the same in ForkServer.
LEMMA ForkMin == \A S : Fork!Min(S) = Min(S)
BY DEF Fork!Min, Min

ForkProcs == <<edition, pc, revents, nsfd, proc>>

\* The ports are services.
LEMMA ForkPorts == Fork!Ports \in SUBSET Services
BY ForkTcp, NumsAssumption DEF Fork!Ports, Services

\* A client connects, ...
LEMMA ForkConnect ==
  ASSUME ForkInv, NEW c \in Clients, NEW p \in Services,
         Connect(c, p, "prompt"), UNCHANGED ForkProcs
  PROVE  ForkInv'
<1> USE DEF ForkInv
<1>1. /\ backlog' = [backlog EXCEPT ![p] = Append(backlog[p], c)]
      /\ port' = [port EXCEPT ![c] = p] /\ at[c] = "menu"
      /\ at' = [at EXCEPT ![c] = "prompt"] /\ conn' = [conn EXCEPT ![c] = "open"]
      /\ UNCHANGED <<asked, up, down, edition, pc, revents, nsfd, proc>>
  BY DEF Connect, ForkProcs
<1>2. backlog'[p] \in Seq(Clients) /\ \A d \in Clients : In(backlog'[p], d) <=> In(backlog[p], d) \/ d = c
  <2>1. backlog[p] \in Seq(Clients) /\ backlog'[p] = Append(backlog[p], c)
    BY <1>1 DEF ForkTypes, TcpTypeOK
  <2> QED BY <2>1, InAppend
<1>3. \A s \in Services \ {p} : backlog'[s] = backlog[s]
  BY <1>1 DEF ForkTypes, TcpTypeOK
<1>4. ForkTypes' /\ ParentInv'
  BY <1>1, <1>2, <1>3 DEF ForkTypes, TcpTypeOK, ParentInv
<1>5. ASSUME NEW d \in Clients
      PROVE  ChildInv(d)' /\ (IF Converts' THEN OneInv(d)' ELSE LagInv(d)')
  <2>1. CASE d = c
    <3>1. /\ proc[c] = "none" /\ asked[c] = 0 /\ up[c] = <<>> /\ down[c] = <<>>
          /\ at'[c] = "prompt" /\ port'[c] = p
      BY <1>1 DEF ChildInv, ForkTypes, TcpTypeOK
    <3>2. ChildInv(c)'
      BY <1>1, <3>1, Facts DEF ChildInv
    <3>3. OneInv(c)' /\ LagInv(c)'
      BY <1>1, <3>1 DEF OneInv, LagInv
    <3> QED BY <2>1, <3>2, <3>3
  <2>2. CASE d # c
    <3>1. /\ at'[d] = at[d] /\ port'[d] = port[d] /\ conn'[d] = conn[d]
          /\ \A s \in Services : In(backlog'[s], d) => In(backlog[s], d)
      BY <1>1, <1>2, <1>3, <2>2 DEF ForkTypes, TcpTypeOK
    <3>2. ChildInv(d)'
      BY <1>1, <3>1 DEF ChildInv
    <3>3. (OneInv(d) => OneInv(d)') /\ (LagInv(d) => LagInv(d)')
      BY <1>1, <3>1 DEF OneInv, LagInv
    <3> QED BY <1>1, <3>2, <3>3 DEF Converts
  <2> QED BY <2>1, <2>2
<1> QED BY <1>4, <1>5

\* The steps of a client that has connected keep the order of requests and pieces.
LEMMA LagClient ==
  ASSUME TcpTypeOK, NEW c \in Clients, LagInv(c), Ends(c) \/ Asks(c) \/ Reads(c)
  PROVE  LagInv(c)'
<1> USE DEF LagInv
<1>1. CASE Ends(c)
  BY <1>1 DEF Ends
<1>2. CASE Asks(c)
  <2> DEFINE n == asked[c] + 1
  <2>1. /\ asked'[c] = n /\ up'[c] = Append(up[c], n) /\ down' = down
        /\ up[c] \in Seq(1 .. Requests) /\ n \in 1 .. Requests /\ asked[c] \in Nat
    BY <1>2 DEF Asks, TcpTypeOK
  <2>2. /\ DOMAIN up[c] = 1 .. Len(up[c]) /\ DOMAIN up'[c] = 1 .. Len(up[c]) + 1
        /\ Len(up[c]) \in Nat /\ up'[c][Len(up[c]) + 1] = n
        /\ \A k \in DOMAIN up[c] : up'[c][k] = up[c][k] /\ up[c][k] \in Nat
    <3>1. /\ Len(up'[c]) = Len(up[c]) + 1 /\ up'[c] \in Seq(1 .. Requests)
          /\ \A k \in 1 .. Len(up[c]) : up'[c][k] = up[c][k]
          /\ up'[c][Len(up[c]) + 1] = n
      BY <2>1, AppendProperties
    <3>2. /\ DOMAIN up[c] = 1 .. Len(up[c]) /\ DOMAIN up'[c] = 1 .. Len(up'[c])
          /\ Len(up[c]) \in Nat
      BY <2>1, <3>1, LenProperties
    <3>3. \A k \in DOMAIN up[c] : up[c][k] \in 1 .. Requests
      BY <2>1, <3>2, ElementOfSeq
    <3>4. 1 .. Requests \subseteq Nat
      BY RequestsAssumption
    <3> QED BY <3>1, <3>2, <3>3, <3>4
  <2>3. \A k \in DOMAIN up[c] : up'[c][k] <= asked[c]
    BY <2>2
  <2>4. \A k \in DOMAIN up'[c] : \/ k \in DOMAIN up[c] /\ up'[c][k] = up[c][k]
                                 \/ k = Len(up[c]) + 1 /\ up'[c][k] = n
    BY <2>2
  <2>5. \A j \in DOMAIN down[c] : down[c][j].of \in Nat
    <3> TAKE j \in DOMAIN down[c]
    <3>1. down[c] \in Seq(Messages)
      BY DEF TcpTypeOK
    <3>2. down[c][j] \in Messages
      BY <3>1, LenProperties, ElementOfSeq
    <3> QED BY <3>2, RequestsAssumption DEF Messages
  <2> HIDE DEF n
  <2>6. asked[c] \in Nat /\ n = asked[c] + 1
    BY <2>1 DEF n
  <2>7. \A k \in DOMAIN up'[c] : up'[c][k] <= asked'[c]
    BY <2>1, <2>2, <2>3, <2>4, <2>6
  <2>8. \A j, k \in DOMAIN up'[c] : j < k => up'[c][j] <= up'[c][k]
    BY <2>2, <2>3, <2>4, <2>6
  <2>9. \A j \in DOMAIN down'[c] : down'[c][j].of <= asked'[c]
    BY <2>1, <2>5, <2>6
  <2>10. \A j \in DOMAIN down'[c], k \in DOMAIN up'[c] : down'[c][j].of <= up'[c][k]
    BY <2>1, <2>2, <2>4, <2>5, <2>6
  <2> QED BY <2>1, <2>7, <2>8, <2>9, <2>10
<1>3. CASE Reads(c)
  <2>1. /\ down[c] \in Seq(Messages) /\ down[c] # <<>> /\ down'[c] = Tail(down[c])
        /\ UNCHANGED <<asked, up>>
    BY <1>3 DEF Reads, TcpTypeOK
  <2>2. \A k \in DOMAIN down'[c] : k + 1 \in DOMAIN down[c] /\ down'[c][k] = down[c][k + 1]
    BY <2>1, HeadTailProperties, LenProperties, EmptySeq
  <2>3. DOMAIN down'[c] \in SUBSET Nat
    <3>1. Tail(down[c]) \in Seq(Messages)
      BY <2>1, HeadTailProperties
    <3> QED BY <2>1, <3>1, LenProperties
  <2>4. \A j, k \in DOMAIN down'[c] : j < k => down'[c][j].of <= down'[c][k].of
    <3> TAKE j, k \in DOMAIN down'[c]
    <3> HAVE j < k
    <3>1. j + 1 < k + 1
      BY <2>3
    <3> QED BY <2>2, <3>1
  <2> QED BY <2>1, <2>2, <2>4
<1> QED BY <1>1, <1>2, <1>3

\* ... or takes another step.
LEMMA ForkClientSteps ==
  ASSUME ForkInv, NEW c \in Clients, UNCHANGED ForkProcs,
         \/ Refused(c) \/ SendRequest(c) \/ Leave(c)
         \/ Receive(c, "answer", "prompt") \/ Abandoned(c)
  PROVE  ForkInv'
<1> USE DEF ForkInv
<1>1. /\ TcpTypeOK /\ TcpTypeOK' /\ UNCHANGED <<port, backlog>> /\ Others(c)
      /\ Ends(c) \/ Asks(c) \/ Reads(c)
  BY ClientEffects DEF ForkTypes
<1>2. ForkTypes' /\ ParentInv'
  BY <1>1 DEF ForkTypes, ParentInv, ForkProcs
<1>3. ChildInv(c)'
  <2>1. conn[c] = "hungup" => conn'[c] = "hungup"
    BY DEF Refused, SendRequest, Leave, Receive, Abandoned, ForkTypes, TcpTypeOK
  <2>2. CASE Ends(c)
    BY <1>1, <2>1, <2>2 DEF Ends, ChildInv, ForkProcs, TcpTypeOK
  <2>3. CASE Asks(c)
    BY <1>1, <2>1, <2>3 DEF Asks, ChildInv, ForkProcs
  <2>4. CASE Reads(c)
    BY <1>1, <2>1, <2>4 DEF Reads, ChildInv, ForkProcs
  <2> QED BY <1>1, <2>2, <2>3, <2>4
<1>4. Converts => OneInv(c)'
  <2> USE DEF OneInv
  <2> SUFFICES ASSUME OneInv(c) PROVE OneInv(c)'
    OBVIOUS
  <2>1. CASE Ends(c)
    BY <1>1, <2>1 DEF Ends, TcpTypeOK
  <2>2. CASE Asks(c)
    <3>1. up[c] = <<>> /\ down[c] = <<>>
      BY <2>2 DEF Asks
    <3>2. asked[c] \in Nat
      BY <1>1 DEF TcpTypeOK
    <3>3. up'[c] = <<asked'[c]>> /\ asked'[c] # 0
      BY <1>1, <2>2, <3>1, <3>2, One DEF Asks, TcpTypeOK
    <3> QED BY <1>1, <2>2, <3>1, <3>3 DEF Asks
  <2>3. CASE Reads(c)
    <3>1. up[c] = <<>> /\ down[c] = <<Answer(asked[c], port[c])>>
      BY <2>3 DEF Reads
    <3>2. Tail(down[c]) = <<>>
      BY <3>1, One
    <3> QED BY <1>1, <2>3, <3>1, <3>2 DEF Reads, TcpTypeOK
  <2> QED BY <1>1, <2>1, <2>2, <2>3
<1>5. ~ Converts => LagInv(c)'
  BY <1>1, LagClient
<1>6. \A d \in Clients \ {c} :
        ChildInv(d)' /\ (OneInv(d) => OneInv(d)') /\ (LagInv(d) => LagInv(d)')
  BY <1>1 DEF ChildInv, OneInv, LagInv, Others, ForkProcs
<1>7. Converts' <=> Converts
  BY DEF Converts, ForkProcs
<1> QED BY <1>2, <1>3, <1>4, <1>5, <1>6, <1>7

\* The clients see nothing of a step that leaves these as they are.
LEMMA ForkQuiet ==
  ASSUME NEW c \in Clients, UNCHANGED <<at, port, asked, up, down, edition>>
  PROVE  /\ OneInv(c) => OneInv(c)'
         /\ LagInv(c) => LagInv(c)'
         /\ Converts' <=> Converts
BY DEF OneInv, LagInv, Converts

\* The server waits, ...
LEMMA ForkWait ==
  ASSUME ForkInv, edition # "iterative", Fork!Wait
  PROVE  ForkInv'
<1> USE DEF ForkInv
<1>1. /\ pc = "wait" /\ pc' = "visit" /\ revents' # {} /\ revents' \in SUBSET Services
      /\ UNCHANGED <<at, port, asked, up, down, conn, backlog, edition, nsfd, proc>>
  BY ForkTcp, ForkPorts DEF Fork!Wait, Fork!tcpVars
<1>2. ForkTypes' /\ ParentInv'
  BY <1>1 DEF ForkTypes, TcpTypeOK, ParentInv
<1>3. \A c \in Clients : ChildInv(c)'
  BY <1>1 DEF ChildInv, ParentInv
<1> QED BY <1>1, <1>2, <1>3, ForkQuiet

\* accept on port p, and fork, or not.
LEMMA ForkAccept ==
  ASSUME ForkInv, NEW p \in Services, NEW pr \in {"child", "recv"}, Fork!Accept(p, pr),
         revents' \in SUBSET revents, pc \in {"wait", "visit"},
         IF edition = "iterative" THEN pc' = "serve" ELSE pc' = "close"
  PROVE  ForkInv'
<1> USE DEF ForkInv
<1> DEFINE c == Head(backlog[p])
<1>1. /\ backlog[p] # <<>> /\ backlog[p] \in Seq(Clients)
      /\ nsfd' = <<c>> \o nsfd /\ proc' = [proc EXCEPT ![c] = pr]
      /\ backlog' = [backlog EXCEPT ![p] = Tail(backlog[p])]
      /\ UNCHANGED <<at, port, asked, up, down, conn, edition>>
  BY DEF Fork!Accept, ForkTypes, TcpTypeOK
<1>2. /\ c \in Clients /\ In(backlog[p], c) /\ Tail(backlog[p]) \in Seq(Clients)
      /\ \A d : In(Tail(backlog[p]), d) => In(backlog[p], d)
  BY <1>1, InTail
<1> HIDE DEF c
<1>3. nsfd' \in Seq(Clients) /\ (edition # "iterative" => nsfd = <<>> /\ nsfd' = <<c>>)
  <2>1. <<c>> \in Seq(Clients) /\ nsfd \in Seq(Clients)
    BY <1>2, One DEF ForkTypes
  <2>2. <<c>> \o nsfd \in Seq(Clients)
    BY <2>1, ConcatProperties
  <2>3. <<c>> \o <<>> = <<c>>
    OBVIOUS
  <2> QED BY <1>1, <2>2, <2>3 DEF ParentInv
<1>4. ForkTypes' /\ ParentInv'
  BY <1>1, <1>2, <1>3 DEF ForkTypes, TcpTypeOK, ParentInv
<1>5. ASSUME NEW d \in Clients PROVE ChildInv(d)'
  <2>1. \A s \in Services : In(backlog'[s], d) => In(backlog[s], d)
    BY <1>1, <1>2 DEF ForkTypes, TcpTypeOK
  <2>2. CASE d = c
    BY <1>1, <1>2, <2>1, <2>2 DEF ChildInv, ForkTypes
  <2>3. CASE d # c
    BY <1>1, <2>1, <2>3 DEF ChildInv, ForkTypes
  <2> QED BY <2>2, <2>3
<1> QED BY <1>1, <1>4, <1>5, ForkQuiet

\* ... closes, ...
LEMMA ForkClose ==
  ASSUME ForkInv, edition # "iterative", Fork!CloseConnection
  PROVE  ForkInv'
<1> USE DEF ForkInv
<1>1. PICK c \in Clients : nsfd = <<c>>
  BY DEF Fork!CloseConnection, ParentInv
<1>2. nsfd[1] = c /\ Tail(nsfd) = <<>>
  BY <1>1, One
<1>3. /\ pc = "close" /\ nsfd' = <<>>
      /\ IF proc[c] = "dead" THEN HangUp({c}) ELSE UNCHANGED conn
      /\ pc' = IF revents = {} THEN "wait" ELSE "visit"
      /\ UNCHANGED <<at, port, asked, up, down, backlog, edition, revents, proc>>
  BY <1>2, ForkTcp DEF Fork!CloseConnection
<1>4. /\ conn' \in [Clients -> ConnStates]
      /\ \A d \in Clients : /\ conn'[d] = "open" => conn[d] = "open"
                            /\ conn[d] = "hungup" => conn'[d] = "hungup"
                            /\ proc[c] = "dead" /\ d = c => conn'[d] = "hungup"
  BY <1>3 DEF HangUp, ForkTypes, TcpTypeOK, ConnStates
<1>5. ForkTypes' /\ ParentInv'
  BY <1>3, <1>4 DEF ForkTypes, TcpTypeOK, ParentInv, ConnStates
<1>6. \A d \in Clients : ChildInv(d)'
  <2> TAKE d \in Clients
  <2>1. proc[d] = "dead" => conn'[d] = "hungup"
    BY <1>1, <1>2, <1>4, One DEF ChildInv
  <2> QED BY <1>3, <1>4, <2>1 DEF ChildInv
<1> QED BY <1>3, <1>5, <1>6, ForkQuiet

\* ... and does what it does, step by step: ...
LEMMA ForkServerSteps ==
  ASSUME ForkInv, Fork!Server
  PROVE  ForkInv'
<1>1. CASE edition # "iterative" /\ Fork!Wait
  BY <1>1, ForkWait
<1>2. CASE edition # "iterative" /\ Fork!Visit
  <2>1. /\ pc = "visit" /\ pc' = "close" /\ Fork!Accept(Min(revents), "child")
        /\ revents' = revents \ {Min(revents)}
    BY <1>2, ForkMin DEF Fork!Visit
  <2>2. Min(revents) \in Services
    <3>1. revents \in SUBSET Services /\ revents \in SUBSET Nat /\ revents # {}
      BY <2>1, Facts DEF ForkInv, ForkTypes, ParentInv
    <3> QED BY <3>1, MinMember
  <2> QED BY <1>2, <2>1, <2>2, ForkAccept
<1>3. CASE edition # "iterative" /\ Fork!CloseConnection
  BY <1>3, ForkClose
<1>4. CASE edition \in {"concurrent", "iterative"} /\ pc = "wait" /\ UNCHANGED revents
           /\ Fork!Accept(1, IF edition = "iterative" THEN "recv" ELSE "child")
           /\ pc' = IF edition = "iterative" THEN "serve" ELSE "close"
  <2>1. 1 \in Services
    BY NumsAssumption DEF Services
  <2> QED BY <1>4, <2>1, ForkAccept
<1> QED BY <1>1, <1>2, <1>3, <1>4
        DEF Fork!Server, Fork!PollServer, Fork!SelectServer, Fork!ConcurrentServer,
            Fork!IterativeServer

\* ... a child becomes a service, ...
LEMMA ForkExec ==
  ASSUME ForkInv, NEW c \in Clients, Fork!Exec(c)
  PROVE  ForkInv'
<1> USE DEF ForkInv
<1>1. /\ proc[c] = "child" /\ proc' = [proc EXCEPT ![c] = "recv"]
      /\ UNCHANGED <<at, port, asked, up, down, conn, backlog, edition, pc, revents, nsfd>>
  BY ForkTcp DEF Fork!Exec, Fork!tcpVars
<1>2. ForkTypes' /\ ParentInv'
  BY <1>1 DEF ForkTypes, TcpTypeOK, ParentInv
<1>3. \A d \in Clients : ChildInv(d)'
  <2> TAKE d \in Clients
  <2>1. CASE d = c
    BY <1>1, <2>1 DEF ChildInv, ForkTypes
  <2>2. CASE d # c
    BY <1>1, <2>2 DEF ChildInv, ForkTypes
  <2> QED BY <2>1, <2>2
<1> QED BY <1>1, <1>2, <1>3, ForkQuiet

\* ... which converts, ...
LEMMA ForkConvert ==
  ASSUME ForkInv, NEW c \in Clients, Fork!S1(c) \/ Fork!S2(c)
  PROVE  ForkInv'
<1> USE DEF ForkInv
<1>1. /\ Converts /\ up[c] # <<>> /\ ReceiveAndSend(c, port[c]) /\ port[c] \in {1, 2}
      /\ UNCHANGED <<at, port, asked, backlog, edition, pc, revents, nsfd, proc>>
  BY ForkTcp DEF Fork!S1, Fork!S2, Fork!Convert, Converts
<1>2. port[c] \in Services
  BY <1>1 DEF ForkTypes, TcpTypeOK
<1>3. /\ up[c] = <<asked[c]>> /\ asked[c] # 0 /\ asked[c] \in 0 .. Requests
      /\ at[c] \in {"answer", "gone"} /\ down[c] = <<>>
  BY <1>1 DEF OneInv, ChildInv, ForkTypes, TcpTypeOK
<1>4. Head(up[c]) = asked[c] /\ Tail(up[c]) = <<>>
  BY <1>3, One
<1>5. Send(c, Answer(asked[c], port[c])) /\ up' = [up EXCEPT ![c] = <<>>]
  BY <1>1, <1>4 DEF ReceiveAndSend
<1>6. /\ down' \in [Clients -> Seq(Messages)] /\ conn' \in [Clients -> ConnStates]
      /\ down'[c] = IF conn[c] = "open" THEN <<Answer(asked[c], port[c])>> ELSE <<>>
      /\ \A d \in Clients \ {c} : down'[d] = down[d]
      /\ \A d \in Clients : conn'[d] = "open" => conn[d] = "open"
  <2>1. Answer(asked[c], port[c]) \in Messages
    BY <1>2, <1>3, MessageTypes
  <2> QED BY <1>3, <1>5, <2>1, SendFacts DEF ForkTypes, TcpTypeOK, ConnStates
<1>7. \A d \in Clients : conn[d] = "hungup" => conn'[d] = "hungup"
  BY <1>5 DEF Send, ForkTypes, TcpTypeOK
<1>8. up' \in [Clients -> Seq(1 .. Requests)] /\ up'[c] = <<>>
      /\ \A d \in Clients \ {c} : up'[d] = up[d]
  BY <1>5, EmptySeq DEF ForkTypes, TcpTypeOK
<1>9. ForkTypes' /\ ParentInv'
  BY <1>1, <1>6, <1>8 DEF ForkTypes, TcpTypeOK, ParentInv, ConnStates
<1>10. ASSUME NEW d \in Clients PROVE ChildInv(d)' /\ OneInv(d)'
  <2>1. CASE d = c
    BY <1>1, <1>3, <1>6, <1>7, <1>8, <2>1 DEF ChildInv, OneInv
  <2>2. CASE d # c
    BY <1>1, <1>6, <1>7, <1>8, <2>2 DEF ChildInv, OneInv
  <2> QED BY <2>1, <2>2
<1>11. Converts'
  BY <1>1 DEF Converts
<1> QED BY <1>9, <1>10, <1>11

\* The first of a sequence, and the others, which are one place further in front in Tail.
LEMMA FirstRest ==
  ASSUME NEW S, NEW q \in Seq(S), q # <<>>
  PROVE  /\ Head(q) \in S /\ Tail(q) \in Seq(S) /\ Head(q) = q[1] /\ 1 \in DOMAIN q
         /\ \A k \in DOMAIN Tail(q) : /\ k + 1 \in DOMAIN q /\ Tail(q)[k] = q[k + 1]
                                      /\ k \in Nat /\ k >= 1
<1>1. /\ Head(q) \in S /\ Tail(q) \in Seq(S) /\ Len(Tail(q)) = Len(q) - 1
      /\ Head(q) = q[1] /\ \A k \in 1 .. Len(q) - 1 : Tail(q)[k] = q[k + 1]
      /\ Len(q) \in Nat \ {0}
  BY HeadTailProperties, LenProperties, EmptySeq
<1>2. DOMAIN q = 1 .. Len(q) /\ DOMAIN Tail(q) = 1 .. Len(q) - 1
  BY <1>1, LenProperties
<1> QED BY <1>1, <1>2

\* The pieces of an answer are put after those that are on their way.
LEMMA Pieced ==
  ASSUME NEW q \in Seq(Messages), NEW n \in Nat, NEW m \in Messages
  PROVE  LET w == q \o [k \in 1 .. n |-> m]
         IN /\ w \in Seq(Messages) /\ DOMAIN w = 1 .. Len(q) + n
            /\ \A k \in DOMAIN w : \/ k \in DOMAIN q /\ w[k] = q[k]
                                   \/ k > Len(q) /\ w[k] = m
            /\ DOMAIN q = 1 .. Len(q) /\ Len(q) \in Nat
<1> DEFINE r == [k \in 1 .. n |-> m]
           w == q \o r
<1>1. r \in Seq(Messages) /\ Len(r) = n
  <2>1. Len(r) = n /\ DOMAIN r = 1 .. n
    OBVIOUS
  <2>2. r \in Seq(Messages)
    BY SeqDef
  <2> QED BY <2>1, <2>2
<1>2. \A k \in 1 .. n : r[k] = m
  OBVIOUS
<1> HIDE DEF r
<1>3. /\ w \in Seq(Messages) /\ Len(w) = Len(q) + n /\ Len(q) \in Nat
      /\ \A k \in 1 .. Len(q) + n : w[k] = IF k <= Len(q) THEN q[k] ELSE r[k - Len(q)]
  BY <1>1, ConcatProperties, LenProperties
<1> HIDE DEF w
<1>4. DOMAIN w = 1 .. Len(q) + n /\ DOMAIN q = 1 .. Len(q)
  BY <1>3, LenProperties
<1>5. \A k \in DOMAIN w : \/ k \in DOMAIN q /\ w[k] = q[k]
                          \/ k > Len(q) /\ w[k] = m
  <2> TAKE k \in DOMAIN w
  <2>1. CASE k <= Len(q)
    BY <1>3, <1>4, <2>1
  <2>2. CASE ~ (k <= Len(q))
    <3>1. k - Len(q) \in 1 .. n /\ k > Len(q)
      BY <1>3, <1>4, <2>2
    <3> QED BY <1>2, <1>3, <1>4, <2>2, <3>1
  <2> QED BY <2>1, <2>2
<1> QED BY <1>3, <1>4, <1>5 DEF w, r

\* ... echoes ...
LEMMA ForkEcho ==
  ASSUME ForkInv, NEW c \in Clients, Fork!Echo(c)
  PROVE  ForkInv'
<1> USE DEF ForkInv
<1> DEFINE m == Answer(Head(up[c]), 1)
<1>1. PICK n \in 1 .. Pieces :
        down' = [down EXCEPT ![c] = IF conn[c] = "open" THEN down[c] \o [k \in 1 .. n |-> m]
                                    ELSE down[c]]
  BY ForkTcp DEF Fork!Echo
<1>2. /\ ~ Converts /\ up[c] # <<>> /\ conn[c] # "reset"
      /\ conn' = [conn EXCEPT ![c] = IF conn[c] = "left" THEN "reset" ELSE conn[c]]
      /\ up' = [up EXCEPT ![c] = Tail(up[c])]
      /\ UNCHANGED <<at, port, asked, backlog, edition, pc, revents, nsfd, proc>>
  BY DEF Fork!Echo, Converts
<1>3. /\ up[c] \in Seq(1 .. Requests) /\ Head(up[c]) \in 1 .. Requests
      /\ Tail(up[c]) \in Seq(1 .. Requests) /\ Head(up[c]) = up[c][1] /\ 1 \in DOMAIN up[c]
      /\ \A k \in DOMAIN Tail(up[c]) : /\ k + 1 \in DOMAIN up[c] /\ Tail(up[c])[k] = up[c][k + 1]
                                       /\ k \in Nat /\ k >= 1
  <2>1. up[c] \in Seq(1 .. Requests)
    BY DEF ForkTypes, TcpTypeOK
  <2> QED BY <1>2, <2>1, FirstRest
<1>4. m \in Messages /\ m.of = Head(up[c]) /\ n \in Nat
  <2>1. 1 \in Services /\ Head(up[c]) \in 0 .. Requests
    BY <1>3, NumsAssumption, RequestsAssumption DEF Services
  <2> QED BY <2>1, MessageTypes, Assumptions DEF Answer, Fork!PiecesAssumption
<1> HIDE DEF m
<1>5. down[c] \in Seq(Messages)
  BY DEF ForkTypes, TcpTypeOK
<1>6. /\ down'[c] \in Seq(Messages)
      /\ DOMAIN down[c] = 1 .. Len(down[c]) /\ Len(down[c]) \in Nat /\ DOMAIN down'[c] \subseteq Nat
      /\ \A k \in DOMAIN down'[c] : \/ k \in DOMAIN down[c] /\ down'[c][k] = down[c][k]
                                    \/ k > Len(down[c]) /\ down'[c][k] = m
      /\ conn[c] # "open" => down'[c] = down[c]
  <2>1. CASE conn[c] = "open"
    <3>1. down'[c] = down[c] \o [k \in 1 .. n |-> m]
      BY <1>1, <2>1 DEF ForkTypes, TcpTypeOK
    <3>2. DOMAIN down'[c] = 1 .. Len(down[c]) + n
      BY <1>4, <1>5, <3>1, Pieced
    <3> QED BY <1>4, <1>5, <2>1, <3>1, <3>2, Pieced
  <2>2. CASE conn[c] # "open"
    <3>1. down'[c] = down[c]
      BY <1>1, <2>2 DEF ForkTypes, TcpTypeOK
    <3> QED BY <1>5, <2>2, <3>1, LenProperties
  <2> QED BY <2>1, <2>2
<1>7. /\ down' \in [Clients -> Seq(Messages)] /\ \A d \in Clients \ {c} : down'[d] = down[d]
  BY <1>1, <1>6 DEF ForkTypes, TcpTypeOK
<1>8. /\ up' \in [Clients -> Seq(1 .. Requests)] /\ up'[c] = Tail(up[c])
      /\ \A d \in Clients \ {c} : up'[d] = up[d]
  BY <1>2, <1>3 DEF ForkTypes, TcpTypeOK
<1>9. /\ conn' \in [Clients -> ConnStates]
      /\ \A d \in Clients : /\ conn'[d] = "open" => conn[d] = "open"
                            /\ conn[d] = "hungup" => conn'[d] = "hungup"
  BY <1>2 DEF ForkTypes, TcpTypeOK, ConnStates
<1>10. ForkTypes' /\ ParentInv'
  BY <1>2, <1>7, <1>8, <1>9 DEF ForkTypes, TcpTypeOK, ParentInv, ConnStates
<1>11. LagInv(c)'
  <2> USE DEF LagInv
  <2>0. LagInv(c) /\ UNCHANGED asked
    BY <1>2
  <2>1. \A k \in DOMAIN up'[c] : up'[c][k] <= asked'[c] /\ m.of <= up'[c][k]
    <3> TAKE k \in DOMAIN up'[c]
    <3>1. k + 1 \in DOMAIN up[c] /\ up'[c][k] = up[c][k + 1] /\ 1 < k + 1
      BY <1>3, <1>8
    <3> QED BY <1>3, <1>4, <2>0, <3>1
  <2>2. \A j, k \in DOMAIN up'[c] : j < k => up'[c][j] <= up'[c][k]
    <3> TAKE j, k \in DOMAIN up'[c]
    <3>1. /\ j + 1 \in DOMAIN up[c] /\ up'[c][j] = up[c][j + 1] /\ j \in Nat
          /\ k + 1 \in DOMAIN up[c] /\ up'[c][k] = up[c][k + 1] /\ k \in Nat
      BY <1>3, <1>8
    <3>2. j < k => j + 1 < k + 1
      BY <3>1
    <3> QED BY <2>0, <3>1, <3>2
  <2>3. m.of <= asked[c] /\ \A j \in DOMAIN down[c] : down[c][j].of <= m.of
    BY <1>3, <1>4, <2>0
  <2>4. \A j \in DOMAIN down'[c] : down'[c][j].of <= asked'[c]
    BY <1>6, <2>0, <2>3
  <2>5. \A j, k \in DOMAIN down'[c] : j < k => down'[c][j].of <= down'[c][k].of
    <3> TAKE j, k \in DOMAIN down'[c]
    <3> HAVE j < k
    <3>1. CASE k \in DOMAIN down[c] /\ down'[c][k] = down[c][k]
      <4>1. ~ (j > Len(down[c])) /\ j \in Nat
        BY <1>6, <3>1
      <4> QED BY <1>6, <2>0, <3>1, <4>1
    <3>2. CASE down'[c][k] = m
      <4>1. m.of <= m.of
        BY <1>3, <1>4
      <4> QED BY <1>6, <2>3, <3>2, <4>1
    <3> QED BY <1>6, <3>1, <3>2
  <2>6. \A j \in DOMAIN down'[c], k \in DOMAIN up'[c] : down'[c][j].of <= up'[c][k]
    <3> TAKE j \in DOMAIN down'[c], k \in DOMAIN up'[c]
    <3>1. CASE j \in DOMAIN down[c] /\ down'[c][j] = down[c][j]
      BY <1>3, <1>8, <2>0, <3>1
    <3>2. CASE down'[c][j] = m
      BY <2>1, <3>2
    <3> QED BY <1>6, <3>1, <3>2
  <2> QED BY <2>1, <2>2, <2>4, <2>5, <2>6
<1>12. ASSUME NEW d \in Clients PROVE ChildInv(d)' /\ LagInv(d)'
  <2>1. CASE d = c
    <3>1. at[c] # "menu"
      BY <1>2 DEF ChildInv
    <3> QED BY <1>2, <1>6, <1>9, <1>11, <2>1, <3>1 DEF ChildInv
  <2>2. CASE d # c
    BY <1>2, <1>7, <1>8, <1>9, <2>2 DEF ChildInv, LagInv
  <2> QED BY <2>1, <2>2
<1> QED BY <1>2, <1>10, <1>12 DEF Converts

\* ... and ends.
LEMMA ForkDie ==
  ASSUME ForkInv, NEW c \in Clients, Fork!Die(c)
  PROVE  ForkInv'
<1> USE DEF ForkInv
<1>1. /\ proc[c] = "recv" /\ proc' = [proc EXCEPT ![c] = "dead"]
      /\ HangUp(Fork!HungUpBy(c))
      /\ pc' = IF edition = "iterative" THEN "exit" ELSE pc
      /\ backlog' = IF edition = "iterative" THEN [p \in Services |-> <<>>] ELSE backlog
      /\ UNCHANGED <<at, port, asked, up, down, edition, revents, nsfd>>
  BY ForkTcp DEF Fork!Die
<1>2. /\ conn' \in [Clients -> ConnStates]
      /\ \A d \in Clients : /\ conn'[d] = "open" => conn[d] = "open"
                            /\ conn[d] = "hungup" => conn'[d] = "hungup"
                            /\ d \in Fork!HungUpBy(c) => conn'[d] = "hungup"
  BY <1>1 DEF HangUp, ForkTypes, TcpTypeOK, ConnStates
<1>3. c \in Fork!HungUpBy(c) \/ (edition # "iterative" /\ pc = "close" /\ nsfd = <<c>>)
  <2>1. CASE edition = "iterative"
    BY <2>1 DEF Fork!HungUpBy
  <2>2. CASE edition # "iterative" /\ pc = "close"
    <3>1. PICK d \in Clients : nsfd = <<d>>
      BY <2>2 DEF ParentInv
    <3>2. Fork!Range(nsfd) = {d}
      BY <3>1, One DEF Fork!Range
    <3> QED BY <2>2, <3>1, <3>2 DEF Fork!HungUpBy
  <2>3. CASE edition # "iterative" /\ pc # "close"
    <3>1. nsfd = <<>>
      BY <2>3 DEF ParentInv
    <3>2. Fork!Range(nsfd) = {}
      BY <3>1 DEF Fork!Range
    <3> QED BY <2>3, <3>2 DEF Fork!HungUpBy
  <2> QED BY <2>1, <2>2, <2>3
<1>4. ForkTypes' /\ ParentInv'
  BY <1>1, <1>2, EmptySeq DEF ForkTypes, TcpTypeOK, ParentInv, ConnStates
<1>5. ASSUME NEW d \in Clients PROVE ChildInv(d)'
  <2>1. \A p \in Services : In(backlog'[p], d) => In(backlog[p], d)
    BY <1>1, InNone
  <2>2. CASE d = c
    BY <1>1, <1>2, <1>3, <2>1, <2>2 DEF ChildInv, ForkTypes
  <2>3. CASE d # c
    BY <1>1, <1>2, <2>1, <2>3 DEF ChildInv, ForkTypes, ParentInv
  <2> QED BY <2>2, <2>3
<1> QED BY <1>1, <1>4, <1>5, ForkQuiet

\* The program starts in ForkInv, ...
LEMMA ForkInit == ASSUME Fork!Init PROVE ForkInv
<1>1. /\ TcpInit /\ edition \in Editions
      /\ pc = "wait" /\ revents = {} /\ nsfd = <<>>
      /\ proc = [c \in Clients |-> "none"]
  BY ForkTcp DEF Fork!Init
<1>2. ForkTypes /\ ParentInv
  BY <1>1, EmptySeq, RequestsAssumption DEF ForkTypes, TcpTypeOK, TcpInit, ParentInv
<1>3. \A c \in Clients : ChildInv(c)
  BY <1>1, InNone DEF ChildInv, TcpInit
<1>4. \A c \in Clients : OneInv(c) /\ LagInv(c)
  BY <1>1 DEF OneInv, LagInv, TcpInit
<1> QED BY <1>2, <1>3, <1>4 DEF ForkInv

\* ... which a step of nothing keeps, ...
LEMMA ForkStutter == ASSUME ForkInv, UNCHANGED <<tcpVars, ForkProcs>> PROVE ForkInv'
<1> USE DEF ForkProcs, tcpVars, ForkInv
<1>1. ForkTypes' /\ ParentInv'
  BY DEF ForkTypes, TcpTypeOK, ParentInv
<1>2. \A c \in Clients : ChildInv(c)'
  BY DEF ChildInv
<1> QED BY <1>1, <1>2, ForkQuiet

\* ... and every other step.
LEMMA ForkStep ==
  ASSUME ForkInv,
         Fork!Server \/ \E c \in Clients : Fork!Process(c) \/ Fork!Client(c)
  PROVE  ForkInv'
<1>1. ASSUME NEW c \in Clients, Fork!Process(c) PROVE ForkInv'
  BY <1>1, ForkExec, ForkConvert, ForkEcho, ForkDie DEF Fork!Process
<1>2. ASSUME NEW c \in Clients, Fork!ClientMain(c) PROVE ForkInv'
  <2>1. UNCHANGED ForkProcs
    BY <1>2 DEF Fork!ClientMain, Fork!ClientRuns, ForkProcs
  <2>2. \/ \E p \in Services : Connect(c, p, "prompt")
        \/ \/ Refused(c) \/ SendRequest(c) \/ Leave(c)
           \/ Receive(c, "answer", "prompt") \/ Abandoned(c)
    BY <1>2, ForkTcp, ForkPorts DEF Fork!ClientMain, Fork!ClientRuns
  <2> QED BY <2>1, <2>2, ForkConnect, ForkClientSteps
<1> QED BY <1>1, <1>2, ForkServerSteps
        DEF Fork!Client, Fork!PollClient, Fork!SelectClient, Fork!ConcurrentClient,
            Fork!IterativeClient

\* What the forking servers promise follows.
LEMMA ForkProperties ==
  ASSUME ForkInv
  PROVE  Fork!TypeOK /\ Fork!OwnOrOlder /\ Fork!HungUpAtOnce
<1> USE DEF ForkInv
<1>1. Fork!TypeOK
  BY ForkTcp DEF Fork!TypeOK, ForkTypes
<1>2. Fork!OwnOrOlder
  <2> SUFFICES ASSUME NEW c \in Clients, NEW n \in DOMAIN down[c]
               PROVE  /\ down[c][n].of <= asked[c]
                      /\ Converts => down[c][n] = Answer(asked[c], port[c])
                      /\ n > 1 => down[c][n - 1].of <= down[c][n].of
    BY ForkTcp DEF Fork!OwnOrOlder, Converts
  <2>1. down[c] \in Seq(Messages) /\ asked[c] \in Nat
    BY RequestsAssumption DEF ForkTypes, TcpTypeOK
  <2>2. CASE Converts
    <3>1. at[c] = "answer"
      <4>1. at[c] \in {"menu", "greeting", "prompt", "answer", "gone"} /\ down[c] # <<>>
        BY DEF ForkTypes, TcpTypeOK
      <4> QED BY <2>2, <4>1 DEF ChildInv, OneInv
    <3>2. down[c] = <<Answer(asked[c], port[c])>>
      BY <2>2, <3>1 DEF OneInv
    <3>3. n = 1 /\ down[c][n] = Answer(asked[c], port[c])
      BY <3>2, One
    <3> QED BY <2>1, <3>3 DEF Answer
  <2>3. CASE ~ Converts
    <3>1. n > 1 => n - 1 \in DOMAIN down[c] /\ n - 1 < n
      BY <2>1, LenProperties
    <3> QED BY <2>3, <3>1 DEF LagInv
  <2> QED BY <2>2, <2>3
<1>3. Fork!HungUpAtOnce
  BY DEF Fork!HungUpAtOnce, ChildInv
<1> QED BY <1>1, <1>2, <1>3

-----------------------------------------------------------------------------
(* The polling server.                                                     *)

PollingTypes ==
  /\ TcpTypeOK
  /\ pc \in {"poll", "round"}
  /\ revents \in SUBSET Nat
  /\ fds \in Seq(Clients)
  /\ shown \in [Clients -> Seq(1 .. Requests)]

\* A connection waits or has one slot; a round visits slots that are in use, and the
\* listening socket only when a connection waits.
PollingInv ==
  /\ PollingTypes
  /\ pc = "round" => revents # {}
  /\ \A k \in revents \ {0} : k \in DOMAIN fds
  /\ 0 \in revents => backlog[1] # <<>>
  /\ Distinct(fds) /\ Distinct(backlog[1])
  /\ \A c \in Clients : /\ ~ (In(fds, c) /\ In(backlog[1], c))
                        /\ at[c] = "menu" => ~ In(fds, c) /\ ~ In(backlog[1], c)

PollingProcs == <<pc, revents, fds, shown>>

\* PollingServer has these definitions of TcpClients, too.
LEMMA PollingTcp ==
  /\ Polling!Services = Services
  /\ Polling!TcpTypeOK <=> TcpTypeOK
  /\ Polling!TcpInit <=> TcpInit
  /\ \A c, s, x : Polling!Connect(c, s, x) <=> Connect(c, s, x)
  /\ \A c : Polling!Leave(c) <=> Leave(c)
  /\ Polling!RequestsLeft <=> RequestsLeft
  /\ \A S : Polling!Min(S) = Min(S)
<1>1. Polling!Services = Services /\ Polling!Messages = Messages
  BY DEF Polling!Services, Services, Polling!Messages, Messages
<1>2. Polling!TcpTypeOK <=> TcpTypeOK
  BY <1>1 DEF Polling!TcpTypeOK, TcpTypeOK
<1>3. Polling!TcpInit <=> TcpInit
  BY <1>1 DEF Polling!TcpInit, TcpInit
<1>4. \A c, s, x : Polling!Connect(c, s, x) <=> Connect(c, s, x)
  BY DEF Polling!Connect, Connect
<1>5. Polling!RequestsLeft <=> RequestsLeft
  <2>1. Polling!Sent = Sent
    BY DEF Polling!Sent, Sent
  <2> QED BY <2>1 DEF Polling!RequestsLeft, RequestsLeft, Polling!Cardinality, Cardinality
<1>6. \A c : Polling!Leave(c) <=> Leave(c)
  BY DEF Polling!Leave, Leave
<1>7. \A S : Polling!Min(S) = Min(S)
  BY DEF Polling!Min, Min
<1> QED BY <1>1, <1>2, <1>3, <1>4, <1>5, <1>6, <1>7

\* The server polls, ...
LEMMA PollingPoll ==
  ASSUME PollingInv, Polling!Poll
  PROVE  PollingInv'
<1>1. /\ revents' \subseteq DOMAIN fds \cup {0} /\ (0 \in revents' => backlog[1] # <<>>)
      /\ revents' # {} /\ pc' = "round"
      /\ UNCHANGED <<at, port, asked, up, down, conn, backlog, fds, shown>>
  <2>1. 0 \notin DOMAIN fds
    BY LenProperties DEF PollingInv, PollingTypes
  <2> QED BY <2>1 DEF Polling!Poll, Polling!tcpVars
<1>2. DOMAIN fds \subseteq Nat
  BY LenProperties DEF PollingInv, PollingTypes
<1> QED BY <1>1, <1>2 DEF PollingInv, PollingTypes, TcpTypeOK

\* ... accepts, ...
LEMMA PollingAccept ==
  ASSUME PollingInv, Polling!Accept
  PROVE  PollingInv'
<1> DEFINE c == Head(backlog[1])
<1>1. /\ 0 \in revents /\ revents' = {} /\ pc' = "poll"
      /\ fds' = Append(fds, c) /\ backlog' = [backlog EXCEPT ![1] = Tail(backlog[1])]
      /\ UNCHANGED <<at, port, asked, up, down, conn, shown>>
  BY DEF Polling!Accept
<1>2. /\ 1 \in Services /\ backlog[1] \in Seq(Clients) /\ backlog[1] # <<>>
      /\ fds \in Seq(Clients)
  BY <1>1, NumsAssumption DEF PollingInv, PollingTypes, TcpTypeOK, Services
<1>3. /\ c \in Clients /\ In(backlog[1], c) /\ Tail(backlog[1]) \in Seq(Clients)
      /\ \A d : In(Tail(backlog[1]), d) => In(backlog[1], d)
      /\ Distinct(Tail(backlog[1])) /\ ~ In(Tail(backlog[1]), c)
  BY <1>2, InTail DEF PollingInv
<1> HIDE DEF c
<1>4. /\ fds' \in Seq(Clients) /\ Distinct(fds')
      /\ \A d : In(fds', d) <=> In(fds, d) \/ d = c
  BY <1>1, <1>2, <1>3, InAppend DEF PollingInv
<1>5. backlog'[1] = Tail(backlog[1]) /\ backlog' \in [Services -> Seq(Clients)]
  BY <1>1, <1>2, <1>3 DEF PollingInv, PollingTypes, TcpTypeOK
<1>6. PollingTypes'
  BY <1>1, <1>4, <1>5 DEF PollingInv, PollingTypes, TcpTypeOK
<1>7. \A d \in Clients : /\ ~ (In(fds', d) /\ In(backlog'[1], d))
                         /\ at'[d] = "menu" => ~ In(fds', d) /\ ~ In(backlog'[1], d)
  BY <1>1, <1>3, <1>4, <1>5 DEF PollingInv
<1> QED BY <1>1, <1>3, <1>4, <1>5, <1>6, <1>7 DEF PollingInv

\* Read takes all that has arrived from the client of one slot.
LEMMA ReadEffects ==
  ASSUME PollingInv, Polling!Read
  PROVE  \E c \in Clients :
           /\ shown' = [shown EXCEPT ![c] = shown[c] \o up[c]]
           /\ up' = [up EXCEPT ![c] = <<>>]
           /\ revents' \subseteq revents /\ pc' = IF revents' = {} THEN "poll" ELSE "round"
           /\ UNCHANGED <<at, port, asked, down, conn, backlog, fds>>
<1> DEFINE k == Min(revents)
<1>1. revents # {} /\ revents \in SUBSET Nat /\ 0 \notin revents
  BY DEF Polling!Read, PollingInv, PollingTypes
<1>2. k \in revents
  BY <1>1, MinMember
<1>3. k \in DOMAIN fds
  BY <1>1, <1>2 DEF PollingInv
<1>4. fds[k] \in Clients
  BY <1>3, ElementOfSeq, LenProperties DEF PollingInv, PollingTypes
<1>5. /\ shown' = [shown EXCEPT ![fds[k]] = shown[fds[k]] \o up[fds[k]]]
      /\ up' = [up EXCEPT ![fds[k]] = <<>>] /\ revents' = revents \ {k}
      /\ pc' = IF revents' = {} THEN "poll" ELSE "round"
      /\ UNCHANGED <<at, port, asked, down, conn, backlog, fds>>
  BY PollingTcp DEF Polling!Read
<1> HIDE DEF k
<1> QED BY <1>4, <1>5

\* ... reads a line ...
LEMMA PollingRead ==
  ASSUME PollingInv, Polling!Read
  PROVE  PollingInv'
<1>1. PICK c \in Clients :
           /\ shown' = [shown EXCEPT ![c] = shown[c] \o up[c]]
           /\ up' = [up EXCEPT ![c] = <<>>]
           /\ revents' \subseteq revents /\ pc' = IF revents' = {} THEN "poll" ELSE "round"
           /\ UNCHANGED <<at, port, asked, down, conn, backlog, fds>>
  BY ReadEffects
<1>2. shown[c] \o up[c] \in Seq(1 .. Requests)
  <2>1. shown[c] \in Seq(1 .. Requests) /\ up[c] \in Seq(1 .. Requests)
    BY DEF PollingInv, PollingTypes, TcpTypeOK
  <2> QED BY <2>1, ConcatProperties
<1>3. PollingTypes'
  BY <1>1, <1>2, EmptySeq DEF PollingInv, PollingTypes, TcpTypeOK
<1> QED BY <1>1, <1>3 DEF PollingInv

\* A client sends a line, ...
LEMMA PollingSendLine ==
  ASSUME PollingInv, NEW c \in Clients, Polling!SendLine(c), UNCHANGED PollingProcs
  PROVE  PollingInv'
<1>1. /\ at[c] = "prompt" /\ RequestsLeft
      /\ asked' = [asked EXCEPT ![c] = asked[c] + 1]
      /\ up' = [up EXCEPT ![c] = Append(up[c], asked[c] + 1)]
      /\ UNCHANGED <<at, port, down, conn, backlog, pc, revents, fds, shown>>
  BY PollingTcp DEF Polling!SendLine, PollingProcs
<1> DEFINE n == asked[c] + 1
<1>2. n \in 1 .. Requests
  BY <1>1, AskedBound DEF PollingInv, PollingTypes, TcpTypeOK
<1>3. Append(up[c], n) \in Seq(1 .. Requests)
  BY <1>2, AppendProperties DEF PollingInv, PollingTypes, TcpTypeOK
<1>4. n \in 0 .. Requests
  BY <1>2, RequestsAssumption
<1>5. asked' = [asked EXCEPT ![c] = n] /\ up' = [up EXCEPT ![c] = Append(up[c], n)]
  BY <1>1
<1> HIDE DEF n
<1>6. PollingTypes'
  BY <1>1, <1>3, <1>4, <1>5 DEF PollingInv, PollingTypes, TcpTypeOK
<1> QED BY <1>1, <1>6 DEF PollingInv

\* ... connects, ...
LEMMA PollingConnect ==
  ASSUME PollingInv, NEW c \in Clients, Connect(c, 1, "prompt"), UNCHANGED PollingProcs
  PROVE  PollingInv'
<1>1. /\ at[c] = "menu" /\ at' = [at EXCEPT ![c] = "prompt"]
      /\ port' = [port EXCEPT ![c] = 1] /\ conn' = [conn EXCEPT ![c] = "open"]
      /\ backlog' = [backlog EXCEPT ![1] = Append(backlog[1], c)]
      /\ UNCHANGED <<asked, up, down, pc, revents, fds, shown>>
  BY DEF Connect, PollingProcs
<1>2. /\ 1 \in Services /\ backlog[1] \in Seq(Clients) /\ Distinct(backlog[1])
      /\ ~ In(backlog[1], c) /\ ~ In(fds, c)
  BY <1>1, NumsAssumption DEF PollingInv, PollingTypes, TcpTypeOK, Services
<1>3. /\ backlog'[1] = Append(backlog[1], c)
      /\ backlog' \in [Services -> Seq(Clients)]
      /\ backlog'[1] # <<>> /\ Distinct(backlog'[1])
      /\ \A d : In(backlog'[1], d) <=> In(backlog[1], d) \/ d = c
  <2>1. Append(backlog[1], c) \in Seq(Clients)
    BY <1>2, InAppend
  <2>2. /\ backlog'[1] = Append(backlog[1], c)
        /\ backlog' \in [Services -> Seq(Clients)]
    BY <1>1, <1>2, <2>1 DEF PollingInv, PollingTypes, TcpTypeOK
  <2> DEFINE q == Append(backlog[1], c)
  <2>3. q # <<>> /\ Distinct(q) /\ \A d : In(q, d) <=> In(backlog[1], d) \/ d = c
    BY <1>2, InAppend
  <2> QED BY <2>2, <2>3
<1>4. PollingTypes'
  BY <1>1, <1>2, <1>3 DEF PollingInv, PollingTypes, TcpTypeOK
<1>5. \A d \in Clients : /\ ~ (In(fds', d) /\ In(backlog'[1], d))
                         /\ at'[d] = "menu" => ~ In(fds', d) /\ ~ In(backlog'[1], d)
  <2> TAKE d \in Clients
  <2>1. CASE d = c
    BY <1>1, <1>2, <2>1 DEF PollingInv, PollingTypes, TcpTypeOK
  <2>2. CASE d # c
    BY <1>1, <1>3, <2>2 DEF PollingInv, PollingTypes, TcpTypeOK
  <2> QED BY <2>1, <2>2
<1> QED BY <1>1, <1>3, <1>4, <1>5 DEF PollingInv

\* ... or leaves.
LEMMA PollingLeave ==
  ASSUME PollingInv, NEW c \in Clients, Leave(c), UNCHANGED PollingProcs
  PROVE  PollingInv'
<1>1. /\ TcpTypeOK' /\ UNCHANGED <<port, backlog>>
      /\ at' = [at EXCEPT ![c] = "gone"]
  BY ClientEffects DEF PollingInv, PollingTypes, Leave
<1>2. PollingTypes'
  BY <1>1 DEF PollingInv, PollingTypes, PollingProcs
<1>3. \A d \in Clients : at'[d] = "menu" => at[d] = "menu"
  BY <1>1 DEF PollingInv, PollingTypes, TcpTypeOK
<1> QED BY <1>1, <1>2, <1>3 DEF PollingInv, PollingProcs

\* The program starts in PollingInv, ...
LEMMA PollingInit == ASSUME Polling!Init PROVE PollingInv
<1>1. /\ TcpInit /\ pc = "poll" /\ revents = {} /\ fds = <<>>
      /\ shown = [c \in Clients |-> <<>>]
  BY PollingTcp DEF Polling!Init
<1>2. PollingTypes
  BY <1>1, EmptySeq, RequestsAssumption DEF PollingTypes, TcpTypeOK, TcpInit
<1>3. backlog[1] = <<>>
  BY <1>1, NumsAssumption DEF TcpInit, Services
<1> QED BY <1>1, <1>2, <1>3, InNone DEF PollingInv

\* ... which a step of nothing keeps, ...
LEMMA PollingStutter == ASSUME PollingInv, UNCHANGED <<tcpVars, PollingProcs>> PROVE PollingInv'
BY DEF PollingInv, PollingTypes, TcpTypeOK, PollingProcs, tcpVars

\* ... and every other step.
LEMMA PollingStep ==
  ASSUME PollingInv, Polling!Server \/ \E c \in Clients : Polling!Client(c)
  PROVE  PollingInv'
<1>1. ASSUME NEW c \in Clients, Polling!Client(c) PROVE PollingInv'
  <2>1. /\ Connect(c, 1, "prompt") \/ Polling!SendLine(c) \/ Leave(c)
        /\ UNCHANGED PollingProcs
    BY <1>1, PollingTcp DEF Polling!Client, PollingProcs
  <2> QED BY <2>1, PollingConnect, PollingSendLine, PollingLeave
<1> QED BY <1>1, PollingPoll, PollingAccept, PollingRead DEF Polling!Server

\* There is a slot for every client, so that fds is not left.
LEMMA PollingProperties == ASSUME PollingInv PROVE Polling!TypeOK
<1> USE DEF PollingInv
<1>1. revents \in SUBSET (0 .. SLOTS - 1)
  <2>1. /\ fds \in Seq(Clients) /\ Len(fds) \in Nat /\ DOMAIN fds = 1 .. Len(fds)
    BY LenProperties DEF PollingTypes
  <2>2. Len(fds) <= Cardinality(Clients)
    BY <2>1, DistinctLen, ClientsAssumption DEF ClientsAssumption
  <2>3. SLOTS \in Nat /\ Cardinality(Clients) < SLOTS
    BY Assumptions DEF Polling!SlotsAssumption, Polling!Cardinality, Cardinality
  <2>4. Cardinality(Clients) \in Nat
    BY FS_CardinalityType, ClientsAssumption DEF ClientsAssumption
  <2> QED BY <2>1, <2>2, <2>3, <2>4
<1> QED BY <1>1, PollingTcp DEF Polling!TypeOK, PollingTypes

-----------------------------------------------------------------------------
(* What the polling server prints is what arrived, in order.               *)

\* What is carried in PollingServer, ...
LEMMA CarriedPolling ==
  ASSUME program = "polling"
  PROVE  \A e \in Services \cup Clients :
           /\ OnWay[e] = IF e \in Clients THEN up[e] ELSE <<>>
           /\ There[e] = IF e \in Clients THEN shown[e] ELSE <<>>
BY DEF OnWay, There

\* ... after a step too.
LEMMA CarriedPollingNext ==
  ASSUME program' = "polling"
  PROVE  \A e \in Services \cup Clients :
           /\ OnWay'[e] = IF e \in Clients THEN up'[e] ELSE <<>>
           /\ There'[e] = IF e \in Clients THEN shown'[e] ELSE <<>>
BY DEF OnWay, There

\* A read is a step of Channels, ...
LEMMA PollingReadInOrder ==
  ASSUME PollingInv, program = "polling", program' = program, Polling!Read
  PROVE  Carried!Next \/ UNCHANGED <<OnWay, There>>
<1>1. PICK c \in Clients : /\ shown' = [shown EXCEPT ![c] = shown[c] \o up[c]]
                           /\ up' = [up EXCEPT ![c] = <<>>]
  BY ReadEffects
<1>2. /\ up[c] \in Seq(1 .. Requests) /\ shown[c] \in Seq(1 .. Requests)
      /\ up'[c] = <<>> /\ shown'[c] = shown[c] \o up[c]
      /\ \A d \in Clients \ {c} : up'[d] = up[d] /\ shown'[d] = shown[d]
  BY <1>1 DEF PollingInv, PollingTypes, TcpTypeOK
<1>3. CASE up[c] = <<>>
  <2>1. shown[c] \o <<>> = shown[c]
    BY <1>2, ConcatEmptySeq
  <2>2. \A d \in Clients : up'[d] = up[d] /\ shown'[d] = shown[d]
    BY <1>2, <1>3, <2>1
  <2> QED BY <2>2, CarriedPolling, CarriedPollingNext, SameCarried
<1>4. CASE up[c] # <<>>
  <2> DEFINE q == up[c]
             n == Len(q)
  <2>1. n \in 1 .. Len(q) /\ n \in Nat
    BY <1>2, <1>4, EmptySeq, LenProperties
  <2>2. SubSeq(q, 1, n) = q /\ SubSeq(q, n + 1, n) = <<>>
    BY <1>2, <2>1
  <2>3. OnWay[c] = q /\ There[c] = shown[c] /\ OnWay'[c] = <<>> /\ There'[c] = shown[c] \o q
    BY <1>2, CarriedPolling, CarriedPollingNext
  <2>4. \A e \in (Services \cup Clients) \ {c} : OnWay'[e] = OnWay[e] /\ There'[e] = There[e]
    BY <1>2, CarriedPolling, CarriedPollingNext
  <2> HIDE DEF q
  <2>5. There' = [There EXCEPT ![c] = @ \o SubSeq(OnWay[c], 1, n)]
    BY <2>2, <2>3, <2>4, CarriedFunctions
  <2>6. OnWay' = [OnWay EXCEPT ![c] = SubSeq(@, n + 1, Len(@))]
    BY <2>2, <2>3, <2>4, CarriedFunctions
  <2>7. Carried!Take(c)
    BY <2>1, <2>3, <2>5, <2>6, CarriedIs
  <2> QED BY <2>7, CarriedIs
<1> QED BY <1>3, <1>4

\* ... so is a line that is sent, ...
LEMMA PollingSendInOrder ==
  ASSUME PollingInv, program = "polling", program' = program,
         NEW c \in Clients, Polling!SendLine(c), UNCHANGED PollingProcs
  PROVE  Carried!Next
<1> DEFINE x == asked[c] + 1
<1>1. /\ RequestsLeft /\ up' = [up EXCEPT ![c] = Append(up[c], x)] /\ UNCHANGED shown
  BY PollingTcp DEF Polling!SendLine, PollingProcs
<1>2. x \in 1 .. Requests
  BY <1>1, AskedBound DEF PollingInv, PollingTypes, TcpTypeOK
<1> HIDE DEF x
<1>3. up'[c] = up[c] \o <<x>> /\ \A d \in Clients \ {c} : up'[d] = up[d]
  <2>1. up[c] \in Seq(1 .. Requests) /\ up'[c] = Append(up[c], x)
    BY <1>1 DEF PollingInv, PollingTypes, TcpTypeOK
  <2>2. Append(up[c], x) = up[c] \o <<x>>
    BY <1>2, <2>1, AppendIsConcat
  <2> QED BY <1>1, <2>1, <2>2 DEF PollingInv, PollingTypes, TcpTypeOK
<1>4. OnWay'[c] = OnWay[c] \o <<x>>
  BY <1>3, CarriedPolling, CarriedPollingNext
<1>5. /\ \A e \in (Services \cup Clients) \ {c} : OnWay'[e] = OnWay[e]
      /\ \A e \in Services \cup Clients : There'[e] = There[e]
  BY <1>1, <1>3, CarriedPolling, CarriedPollingNext
<1>6. OnWay' = [OnWay EXCEPT ![c] = @ \o <<x>>] /\ There' = There
  BY <1>4, <1>5, CarriedFunctions
<1>7. <<x>> \in Items
  BY <1>2 DEF Items
<1>8. Carried!Put(c)
  BY <1>6, <1>7, CarriedIs
<1> QED BY <1>8, CarriedIs

\* ... and every other step is one or none.
LEMMA PollingInOrder ==
  ASSUME PollingInv, program = "polling", program' = program,
         Polling!Server \/ \E c \in Clients : Polling!Client(c)
  PROVE  Carried!Next \/ UNCHANGED <<OnWay, There>>
<1>1. CASE UNCHANGED <<up, shown>>
  BY <1>1, CarriedPolling, CarriedPollingNext, SameCarried
<1>2. CASE Polling!Poll \/ Polling!Accept
  BY <1>1, <1>2 DEF Polling!Poll, Polling!Accept, Polling!tcpVars
<1>3. ASSUME NEW c \in Clients, Polling!Client(c)
      PROVE  Carried!Next \/ UNCHANGED <<OnWay, There>>
  <2>1. /\ Connect(c, 1, "prompt") \/ Polling!SendLine(c) \/ Leave(c)
        /\ UNCHANGED PollingProcs
    BY <1>3, PollingTcp DEF Polling!Client, PollingProcs
  <2>2. CASE Connect(c, 1, "prompt") \/ Leave(c)
    BY <1>1, <2>1, <2>2 DEF Connect, Leave, PollingProcs
  <2> QED BY <2>1, <2>2, PollingSendInOrder
<1> QED BY <1>2, <1>3, PollingReadInOrder DEF Polling!Server

\* At first nothing is carried.
LEMMA PollingCarriedInit ==
  ASSUME program = "polling", Polling!Init
  PROVE  Carried!Init
<1>1. TcpInit /\ shown = [c \in Clients |-> <<>>]
  BY PollingTcp DEF Polling!Init
<1>2. \A e \in Services \cup Clients : OnWay[e] = <<>> /\ There[e] = <<>>
  BY <1>1, CarriedPolling DEF TcpInit
<1> QED BY <1>2, CarriedFunctions, CarriedIs

-----------------------------------------------------------------------------
(* The UDP server.                                                         *)

\* A client has at most one datagram or reply under way, and only while it waits.
UdpInv ==
  /\ at \in [Clients -> {"prompt", "answer"}]
  /\ asked \in [Clients -> Nat]
  /\ inbox \in Seq(Clients) /\ Distinct(inbox)
  /\ clientAddress = <<>> \/ \E c \in Clients : clientAddress = <<c>>
  /\ down \in [Clients -> Seq(Nat)]
  /\ \A c \in Clients :
       /\ down[c] = <<>> \/ (at[c] = "answer" /\ down[c] = <<asked[c]>>)
       /\ In(inbox, c) => at[c] = "answer" /\ down[c] = <<>>
       /\ clientAddress = <<c>> => at[c] = "answer" /\ down[c] = <<>> /\ ~ In(inbox, c)

UdpVars == <<at, asked, inbox, clientAddress, down>>

\* A client sends a datagram, ...
LEMMA UdpSendTo ==
  ASSUME UdpInv, NEW c \in Clients, Datagram!SendTo(c)
  PROVE  UdpInv'
<1> USE DEF UdpInv
<1>1. /\ at[c] = "prompt" /\ at' = [at EXCEPT ![c] = "answer"]
      /\ asked' = [asked EXCEPT ![c] = asked[c] + 1]
      /\ inbox' = inbox \/ inbox' = Append(inbox, c)
      /\ UNCHANGED <<clientAddress, down>>
  BY DEF Datagram!SendTo
<1>2. ~ In(inbox, c) /\ clientAddress # <<c>> /\ down[c] = <<>>
  BY <1>1
<1>3. /\ inbox' \in Seq(Clients) /\ Distinct(inbox')
      /\ \A d : In(inbox', d) => In(inbox, d) \/ d = c
  <2> DEFINE q == Append(inbox, c)
  <2>1. q \in Seq(Clients) /\ Distinct(q) /\ \A d : In(q, d) <=> In(inbox, d) \/ d = c
    BY <1>2, InAppend
  <2> HIDE DEF q
  <2>2. CASE inbox' = inbox
    BY <2>2
  <2>3. CASE inbox' = q
    BY <2>1, <2>3
  <2> QED BY <1>1, <2>2, <2>3 DEF q
<1>4. ASSUME NEW d \in Clients
      PROVE  /\ down'[d] = <<>> \/ (at'[d] = "answer" /\ down'[d] = <<asked'[d]>>)
             /\ In(inbox', d) => at'[d] = "answer" /\ down'[d] = <<>>
             /\ clientAddress' = <<d>> => at'[d] = "answer" /\ down'[d] = <<>> /\ ~ In(inbox', d)
  <2>1. CASE d = c
    BY <1>1, <1>2, <2>1
  <2>2. CASE d # c
    <3>1. at'[d] = at[d] /\ asked'[d] = asked[d] /\ (In(inbox', d) => In(inbox, d))
      BY <1>1, <1>3, <2>2
    <3> QED BY <1>1, <3>1
  <2> QED BY <2>1, <2>2
<1>5. at' \in [Clients -> {"prompt", "answer"}] /\ asked' \in [Clients -> Nat]
  BY <1>1
<1> QED BY <1>1, <1>3, <1>4, <1>5

\* ... receives the reply; ...
LEMMA UdpRecvReply ==
  ASSUME UdpInv, NEW c \in Clients, Datagram!RecvReply(c)
  PROVE  UdpInv'
<1> USE DEF UdpInv
<1>1. /\ at' = [at EXCEPT ![c] = "prompt"] /\ down[c] # <<>>
      /\ down' = [down EXCEPT ![c] = Tail(down[c])]
      /\ UNCHANGED <<asked, inbox, clientAddress>>
  BY DEF Datagram!RecvReply
<1>2. Tail(down[c]) = <<>>
  <2>1. down[c] = <<asked[c]>>
    BY <1>1
  <2> QED BY <2>1, One
<1>3. /\ at' \in [Clients -> {"prompt", "answer"}] /\ down' \in [Clients -> Seq(Nat)]
      /\ down'[c] = <<>> /\ ~ In(inbox, c) /\ clientAddress # <<c>>
      /\ \A d \in Clients \ {c} : down'[d] = down[d] /\ at'[d] = at[d]
  BY <1>1, <1>2, EmptySeq
<1>4. ASSUME NEW d \in Clients
      PROVE  /\ down'[d] = <<>> \/ (at'[d] = "answer" /\ down'[d] = <<asked'[d]>>)
             /\ In(inbox', d) => at'[d] = "answer" /\ down'[d] = <<>>
             /\ clientAddress' = <<d>> => at'[d] = "answer" /\ down'[d] = <<>> /\ ~ In(inbox', d)
  BY <1>1, <1>3
<1> QED BY <1>1, <1>3, <1>4

\* ... the server receives ...
LEMMA UdpRecv ==
  ASSUME UdpInv, Datagram!Recv
  PROVE  UdpInv'
<1> USE DEF UdpInv
<1> DEFINE c == Head(inbox)
<1>1. /\ clientAddress = <<>> /\ inbox # <<>> /\ clientAddress' = <<c>> /\ inbox' = Tail(inbox)
      /\ UNCHANGED <<at, asked, down>>
  BY DEF Datagram!Recv
<1>2. /\ c \in Clients /\ In(inbox, c) /\ inbox' \in Seq(Clients)
      /\ \A d : In(inbox', d) => In(inbox, d)
      /\ Distinct(inbox') /\ ~ In(inbox', c)
  BY <1>1, InTail
<1> HIDE DEF c
<1>3. \A d : clientAddress' = <<d>> => d = c
  BY <1>1, One
<1> QED BY <1>1, <1>2, <1>3

\* ... and replies.
LEMMA UdpReply ==
  ASSUME UdpInv, Datagram!Reply
  PROVE  UdpInv'
<1> USE DEF UdpInv
<1>1. PICK c \in Clients : clientAddress = <<c>>
  BY DEF Datagram!Reply
<1>2. clientAddress[1] = c
  BY <1>1, One
<1>3. /\ down' = down \/ down' = [down EXCEPT ![c] = Append(down[c], asked[c])]
      /\ clientAddress' = <<>> /\ UNCHANGED <<at, asked, inbox>>
  BY <1>2 DEF Datagram!Reply
<1>4. Append(down[c], asked[c]) = <<asked[c]>> /\ <<asked[c]>> \in Seq(Nat)
  BY <1>1, One
<1>5. /\ down' \in [Clients -> Seq(Nat)]
      /\ down'[c] = <<>> \/ down'[c] = <<asked[c]>>
      /\ \A d \in Clients \ {c} : down'[d] = down[d]
  BY <1>1, <1>3, <1>4
<1>6. ASSUME NEW d \in Clients
      PROVE  /\ down'[d] = <<>> \/ (at'[d] = "answer" /\ down'[d] = <<asked'[d]>>)
             /\ In(inbox', d) => at'[d] = "answer" /\ down'[d] = <<>>
  BY <1>1, <1>3, <1>5
<1>7. \A d : clientAddress' # <<d>>
  BY <1>3, One
<1> QED BY <1>3, <1>5, <1>6, <1>7

\* The program starts in UdpInv, ...
LEMMA UdpInit == ASSUME Datagram!Init PROVE UdpInv
<1>1. /\ at = [c \in Clients |-> "prompt"] /\ asked = [c \in Clients |-> 0]
      /\ inbox = <<>> /\ clientAddress = <<>> /\ down = [c \in Clients |-> <<>>]
  BY DEF Datagram!Init
<1> QED BY <1>1, EmptySeq, InNone, One DEF UdpInv

\* ... which a step of nothing keeps, ...
LEMMA UdpStutter == ASSUME UdpInv, UNCHANGED UdpVars PROVE UdpInv'
BY DEF UdpInv, UdpVars

\* ... and every other step.
LEMMA UdpStep ==
  ASSUME UdpInv, Datagram!Server \/ \E c \in Clients : Datagram!Client(c)
  PROVE  UdpInv'
BY UdpSendTo, UdpRecvReply, UdpRecv, UdpReply DEF Datagram!Server, Datagram!Client

\* Every reply on its way answers the last datagram of its client.
LEMMA UdpProperties == ASSUME UdpInv PROVE Datagram!OwnReply
<1> SUFFICES ASSUME NEW c \in Clients, NEW n \in DOMAIN down[c]
             PROVE  at[c] = "answer" /\ down[c][n] = asked[c]
  BY DEF Datagram!OwnReply
<1>1. at[c] = "answer" /\ down[c] = <<asked[c]>>
  BY DEF UdpInv
<1> QED BY <1>1, One

-----------------------------------------------------------------------------
(* The programs together.                                                  *)

\* Each behaviour is one of the five programs, with the invariant of that program.
ServersInv ==
  /\ program \in AllPrograms
  /\ program = "Q3" => Q3Inv
  /\ program = "passed" => PassedInv
  /\ program = "fork" => ForkInv
  /\ program = "polling" => PollingInv
  /\ program = "udp" => UdpInv

\* Whichever program starts, it starts in its invariant, ...
LEMMA ServersInit == MCInit => ServersInv
BY Q3Init, PassedInit, ForkInit, PollingInit, UdpInit DEF MCInit, ServersInv, AllPrograms

\* One of the programs takes a step, and stays that program.
LEMMA ServersSteps ==
  ASSUME program \in AllPrograms, MCNext
  PROVE  /\ program' = program
         /\ \/ /\ program = "Q3"
               /\ \/ Server \/ GetPid \/ Cleanup
                  \/ \E s \in Services : Service(s)
                  \/ \E c \in Clients : Client(c)
            \/ /\ program = "passed"
               /\ \/ Passed!Server
                  \/ \E s \in Services : Passed!ServiceMain(s)
                  \/ \E c \in Clients : Passed!ClientMain(c)
            \/ /\ program = "fork"
               /\ Fork!Server \/ \E c \in Clients : Fork!Process(c) \/ Fork!Client(c)
            \/ /\ program = "polling"
               /\ Polling!Server \/ \E c \in Clients : Polling!Client(c)
            \/ /\ program = "udp"
               /\ Datagram!Server \/ \E c \in Clients : Datagram!Client(c)
<1>1. CASE ServerStep
  BY <1>1 DEF ServerStep, Q3Rest, PassedRest, ForkRest, PollingRest, DatagramRest
<1>2. ASSUME NEW s \in Services, ServiceStep(s) PROVE 
        /\ program' = program
        /\ \/ program = "Q3" /\ Service(s)
           \/ program = "passed" /\ Passed!ServiceMain(s)
  BY <1>2 DEF ServiceStep, Q3Rest, PassedRest
<1>3. ASSUME NEW c \in Clients, ProcessStep(c) \/ ClientStep(c) PROVE 
        /\ program' = program
        /\ \/ program = "Q3" /\ Client(c)
           \/ program = "passed" /\ Passed!ClientMain(c)
           \/ program = "fork" /\ (Fork!Process(c) \/ Fork!Client(c))
           \/ program = "polling" /\ Polling!Client(c)
           \/ program = "udp" /\ Datagram!Client(c)
  BY <1>3 DEF ProcessStep, ClientStep, Q3Rest, PassedRest, ForkRest, PollingRest, DatagramRest
<1> QED BY <1>1, <1>2, <1>3 DEF MCNext

\* ... which every step keeps, ...
LEMMA ServersStep == ServersInv /\ [MCNext]_allVars => ServersInv'
<1> SUFFICES ASSUME ServersInv, [MCNext]_allVars PROVE ServersInv'
  OBVIOUS
<1> USE DEF ServersInv
<1>1. CASE MCNext
  BY <1>1, ServersSteps, Q3Step, PassedStep, ForkStep, PollingStep, UdpStep DEF AllPrograms
<1>2. CASE UNCHANGED allVars
  <2>1. /\ program' = program /\ UNCHANGED vars /\ UNCHANGED <<tcpVars, PassedServer>>
        /\ UNCHANGED <<tcpVars, ForkProcs>> /\ UNCHANGED <<tcpVars, PollingProcs>>
        /\ UNCHANGED UdpVars
    BY <1>2 DEF allVars, vars, tcpVars, serverVars, serviceVars, passedVars, forkVars,
                pollingVars, datagramVars, PassedServer, ForkProcs, PollingProcs, UdpVars
  <2> QED BY <2>1, Q3Stutter, PassedStutter, ForkStutter, PollingStutter, UdpStutter
<1> QED BY <1>1, <1>2

\* ... and which says what the runs check.
LEMMA ServersProperties == ServersInv => MCTypeOK /\ RightAnswer /\ Holders
<1> SUFFICES ASSUME ServersInv PROVE MCTypeOK /\ RightAnswer /\ Holders
  OBVIOUS
<1>1. CASE program = "Q3"
  BY <1>1, Q3Properties DEF ServersInv, MCTypeOK, RightAnswer, Holders
<1>2. CASE program = "passed"
  BY <1>2, PassedProperties DEF ServersInv, MCTypeOK, RightAnswer, Holders
<1>3. CASE program = "fork"
  BY <1>3, ForkProperties DEF ServersInv, MCTypeOK, RightAnswer, Holders
<1>4. CASE program = "polling"
  BY <1>4, PollingProperties DEF ServersInv, MCTypeOK, RightAnswer, Holders
<1>5. CASE program = "udp"
  BY <1>5, UdpProperties DEF ServersInv, MCTypeOK, RightAnswer, Holders
<1> QED BY <1>1, <1>2, <1>3, <1>4, <1>5 DEF ServersInv, AllPrograms

\* ServersInv is an invariant.
LEMMA ServersInvariant == MCSpec => []ServersInv
<1> QED BY ServersInit, ServersStep, PTL DEF MCSpec

\* Every variable of the five kinds of server keeps its type (src/minor, src/14 to src/17).
THEOREM ServerTypes == MCSpec => []MCTypeOK
<1> QED BY ServersInvariant, ServersProperties, PTL

\* What is on its way to a client answers its own request (or an earlier one, where the
\* code lets answers lag behind), converted by the service it is connected to.
THEOREM AnswersRight == MCSpec => []RightAnswer
<1> QED BY ServersInvariant, ServersProperties, PTL

\* Q3 never has a connection in two slots and reports full services only; the server that
\* forks holds no connection of a process that has ended.
THEOREM HoldersSound == MCSpec => []Holders
<1> QED BY ServersInvariant, ServersProperties, PTL

\* At first nothing is carried.
LEMMA OrderInit == MCInit => Carried!Init
<1> SUFFICES ASSUME MCInit PROVE Carried!Init
  OBVIOUS
<1>1. CASE program = "passed"
  BY <1>1, PassedCarriedInit DEF MCInit
<1>2. CASE program = "polling"
  BY <1>2, PollingCarriedInit DEF MCInit
<1>3. CASE program \notin {"passed", "polling"}
  <2>1. \A e \in Services \cup Clients : OnWay[e] = <<>> /\ There[e] = <<>>
    BY <1>3 DEF OnWay, There
  <2> QED BY <2>1, CarriedFunctions, CarriedIs
<1> QED BY <1>1, <1>2, <1>3

\* Every step carries one thing, at the end it belongs to, or none.
LEMMA OrderStep ==
  ServersInv /\ ServersInv' /\ [MCNext]_allVars => [Carried!Next]_<<OnWay, There>>
<1> SUFFICES ASSUME ServersInv, ServersInv', [MCNext]_allVars
             PROVE  Carried!Next \/ UNCHANGED <<OnWay, There>>
  OBVIOUS
<1>1. CASE MCNext
  <2>1. program' = program
    BY <1>1, ServersSteps DEF ServersInv
  <2>2. CASE program = "passed"
    BY <1>1, <2>1, <2>2, ServersSteps, PassedInOrder DEF ServersInv
  <2>3. CASE program = "polling"
    BY <1>1, <2>1, <2>3, ServersSteps, PollingInOrder DEF ServersInv
  <2>4. CASE program \notin {"passed", "polling"}
    <3>1. \A e \in Services \cup Clients : OnWay'[e] = OnWay[e] /\ There'[e] = There[e]
      BY <2>1, <2>4 DEF OnWay, There
    <3> QED BY <3>1, SameCarried
  <2> QED BY <2>2, <2>3, <2>4
<1>2. CASE UNCHANGED allVars
  <2>1. UNCHANGED <<program, backlog, passed, nusfds, nsfds, up, shown>>
    BY <1>2 DEF allVars, vars, tcpVars, serviceVars, passedVars, pollingVars
  <2>2. CASE program = "passed"
    BY <2>1, <2>2, CarriedPassed, CarriedPassedNext, SameCarried
  <2>3. CASE program = "polling"
    BY <2>1, <2>3, CarriedPolling, CarriedPollingNext, SameCarried
  <2>4. CASE program \notin {"passed", "polling"}
    <3>1. \A e \in Services \cup Clients : OnWay'[e] = OnWay[e] /\ There'[e] = There[e]
      BY <2>1, <2>4 DEF OnWay, There
    <3> QED BY <3>1, SameCarried
  <2> QED BY <2>2, <2>3, <2>4
<1> QED BY <1>1, <1>2

\* What goes into a connection comes out of it in order and once (Channels).
THEOREM ConnectionsInOrder == MCSpec => InOrder
<1>1. Carried!Init /\ [][Carried!Next]_<<OnWay, There>> <=> Carried!Spec
  BY CarriedSpecIs
<1>2. MCSpec => Carried!Init /\ [][Carried!Next]_<<OnWay, There>>
  BY ServersInvariant, OrderInit, OrderStep, PTL DEF MCSpec
<1> QED BY <1>1, <1>2 DEF InOrder
=============================================================================
