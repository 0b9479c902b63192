---------------------------- MODULE PacketsProofs ----------------------------
(***************************************************************************)
(* Proofs about the programs of 18-RawSockets, for any number of processes *)
(* of Ping and TraceRoute on one host, and for every order of what the     *)
(* users and the network do:                                               *)
(*   - checksum() makes packets that their receiver accepts, as long as it *)
(*     sums up the whole packet;                                           *)
(*   - the packet of RecordedPath has been where it says;                  *)
(*   - Ping's statistics account for every request;                        *)
(*   - the requests of TraceRoute, summed up in part, are never answered   *)
(*     by the destination, up to 64 hops away, whoever else runs.          *)
(***************************************************************************)
EXTENDS MCPackets, Integers, TLAPS, FiniteSetTheorems, SequenceTheorems

-----------------------------------------------------------------------------
(* Sequences.                                                              *)

Distinct(q) == \A j, k \in DOMAIN q : q[j] = q[k] => j = k
In(q, x)    == \E k \in DOMAIN q : q[k] = x

\* A sequence of one item.
LEMMA SingleItem ==
  ASSUME NEW S, NEW x \in S
  PROVE  <<x>> \in Seq(S) /\ DOMAIN <<x>> = {1} /\ <<x>>[1] = x
OBVIOUS

\* Append puts one item behind the others.
LEMMA Appends ==
  ASSUME NEW S, NEW q \in Seq(S), NEW x \in S
  PROVE  /\ Append(q, x) \in Seq(S) /\ Append(q, x) # <<>>
         /\ Len(Append(q, x)) = Len(q) + 1 /\ Len(q) \in Nat
         /\ DOMAIN q = 1 .. Len(q) /\ DOMAIN Append(q, x) = 1 .. Len(q) + 1
         /\ \A k \in DOMAIN Append(q, x) : \/ k \in DOMAIN q /\ Append(q, x)[k] = q[k]
                                           \/ k = Len(q) + 1 /\ Append(q, x)[k] = x
         /\ \A k \in DOMAIN q : k \in DOMAIN Append(q, x) /\ Append(q, x)[k] = q[k]
         /\ Distinct(q) /\ ~ In(q, x) => Distinct(Append(q, x))
<1>1. /\ Append(q, x) \in Seq(S) /\ Append(q, x) # <<>>
      /\ Len(Append(q, x)) = Len(q) + 1
      /\ \A k \in 1 .. Len(q) : Append(q, x)[k] = q[k]
      /\ Append(q, x)[Len(q) + 1] = x
  BY AppendProperties
<1>2. /\ DOMAIN q = 1 .. Len(q) /\ DOMAIN Append(q, x) = 1 .. Len(q) + 1 /\ Len(q) \in Nat
  BY <1>1, LenProperties
<1> QED BY <1>1, <1>2 DEF Distinct, In

\* Tail takes the first item away.
LEMMA Tails ==
  ASSUME NEW S, NEW q \in Seq(S), q # <<>>
  PROVE  /\ Head(q) \in S /\ Tail(q) \in Seq(S) /\ Head(q) = q[1] /\ 1 \in DOMAIN q
         /\ Len(Tail(q)) = Len(q) - 1 /\ Len(q) \in Nat \ {0}
         /\ \A k \in DOMAIN Tail(q) : /\ k + 1 \in DOMAIN q /\ Tail(q)[k] = q[k + 1]
                                      /\ k \in Nat
<1>1. /\ Head(q) \in S /\ Tail(q) \in Seq(S) /\ Len(Tail(q)) = Len(q) - 1
      /\ Head(q) = q[1] /\ \A k \in 1 .. Len(q) - 1 : Tail(q)[k] = q[k + 1]
      /\ Len(q) \in Nat \ {0}
  BY HeadTailProperties, LenProperties, EmptySeq
<1>2. DOMAIN q = 1 .. Len(q) /\ DOMAIN Tail(q) = 1 .. Len(q) - 1
  BY <1>1, LenProperties
<1> QED BY <1>1, <1>2

\* The first n numbers are n.
LEMMA IntervalSize ==
  ASSUME NEW n \in Nat
  PROVE  IsFiniteSet(1 .. n) /\ Cardinality(1 .. n) = n
<1>1. IsFiniteSet(1 .. n)
  BY FS_Interval
<1>2. Cardinality(1 .. n) = IF 1 > n THEN 0 ELSE n - 1 + 1
  BY FS_Interval
<1> QED BY <1>1, <1>2

\* A sequence without repetition has as many items as places.
LEMMA DistinctItems ==
  ASSUME NEW S, NEW q \in Seq(S), Distinct(q)
  PROVE  Cardinality({q[i] : i \in DOMAIN q}) = Len(q)
<1>1. PICK T : T = {q[i] : i \in DOMAIN q}
  OBVIOUS
<1>2. DOMAIN q = 1 .. Len(q) /\ Len(q) \in Nat /\ q = [i \in 1 .. Len(q) |-> q[i]]
  BY LenProperties
<1>3. q \in Bijection(1 .. Len(q), T)
  BY <1>1, <1>2 DEF Distinct, Bijection, Injection, Surjection, IsInjective
<1>4. IsFiniteSet(1 .. Len(q)) /\ Cardinality(1 .. Len(q)) = Len(q)
  BY <1>2, IntervalSize
<1>5. Cardinality(T) = Cardinality(1 .. Len(q))
  BY <1>3, <1>4, FS_Bijection DEF ExistsBijection
<1> QED BY <1>1, <1>4, <1>5

-----------------------------------------------------------------------------
(* Path and TraceRoute-SimpleCopying: the path that a packet records.      *)

\* What a packet can record.
Names == Path!Nodes \cup {"client.c"}
Letters == [path : Seq(Names), by : Seq(Names)]
Letter(q) == [path |-> q, by |-> q]

\* What the packet that reaches n has recorded in the chain.
Before(n) ==
  CASE n = "b.cpp" -> <<"a.cpp">>
    [] n = "c.cpp" -> <<"a.cpp", "b.cpp">>
    [] n = "d.cpp" -> <<"a.cpp", "b.cpp", "c.cpp">>
    [] n = "e.cpp" -> <<"a.cpp", "b.cpp", "c.cpp", "d.cpp">>
    [] OTHER -> <<>>

\* Who has handed a packet on has ended, so that it cannot come back.
Ended == {x \in Path!Nodes : state[x] = "end"}

\* A packet for n records who has sent it: in Path each once, for each has ended since, and in
\* the chain those before n.
Fine(what, ended, n, q) ==
  /\ q \in Letters
  /\ what = "path" => /\ q.path = q.by /\ Distinct(q.by)
                      /\ \A i \in DOMAIN q.by : q.by[i] \in ended \cup {"client.c"}
  /\ what = "chain" => Before(n) # <<>> /\ q = Letter(Before(n))

\* Every packet in a socket, and every packet that a program is about to hand on, is fine, and
\* what has been printed was.
PathInv ==
  /\ kind \in {"path", "chain"}
  /\ state \in [Path!Nodes -> {"down", "recv", "ask", "end"}]
  /\ \A n \in Path!Nodes :
       /\ state[n] = "down" \/ n \in (IF kind = "path" THEN Path!PathNodes ELSE Path!ChainNodes)
       /\ arrived[n] \in Seq(Letters)
       /\ \A i \in DOMAIN arrived[n] : Fine(kind, Ended, n, arrived[n][i])
       /\ state[n] = "ask" => Fine(kind, Ended, n, packet[n])
  /\ arrived \in [Path!Nodes -> Seq(Letters)]
  /\ packet \in [Path!Nodes -> Letters]
  /\ printed # Path!NoPacket =>
       /\ printed \in Letters /\ printed.path = printed.by /\ Distinct(printed.by)
       /\ kind = "chain" => printed.by = <<"a.cpp", "b.cpp", "c.cpp", "d.cpp">>

\* What was recorded in order stays so when more programs end.
LEMMA LettersKept ==
  ASSUME NEW K, NEW G, NEW H, G \subseteq H, NEW n, NEW q, Fine(K, G, n, q)
  PROVE  Fine(K, H, n, q)
BY DEF Fine

\* Who has ended stays so.
LEMMA EndedKept ==
  ASSUME PathInv,
         \/ state' = state
         \/ \E m \in Path!Nodes : \E x : state[m] # "end" /\ state' = [state EXCEPT ![m] = x]
  PROVE  Ended \subseteq Ended'
BY DEF PathInv, Ended

\* One packet more for somebody.
LEMMA OneArrives ==
  ASSUME NEW K, NEW G, NEW n, NEW old \in Seq(Letters), NEW p, Fine(K, G, n, p),
         \A i \in DOMAIN old : Fine(K, G, n, old[i])
  PROVE  /\ Append(old, p) \in Seq(Letters)
         /\ \A i \in DOMAIN Append(old, p) : Fine(K, G, n, Append(old, p)[i])
<1>1. p \in Letters
  BY DEF Fine
<1> QED BY <1>1, Appends

\* Before the first program is started nothing is recorded.
LEMMA PathInitial == Path!Init => PathInv
<1> SUFFICES ASSUME Path!Init PROVE PathInv
  OBVIOUS
<1>1. <<>> \in Seq(Names) /\ <<>> \in Seq(Letters) /\ DOMAIN <<>> = {}
  OBVIOUS
<1>2. Path!NoPacket \in Letters
  BY <1>1 DEF Letters, Path!NoPacket
<1> QED BY <1>1, <1>2 DEF PathInv, Path!Init

\* A program that is started has nothing in its socket.
LEMMA PathStart ==
  ASSUME PathInv, NEW n \in Path!Nodes, Path!Start(n)
  PROVE  PathInv'
<1>1. /\ state[n] = "down" /\ n \in (IF kind = "path" THEN Path!PathNodes ELSE Path!ChainNodes)
      /\ state' = [state EXCEPT ![n] = "recv"]
      /\ kind' = kind /\ arrived' = arrived /\ packet' = packet /\ printed' = printed
  BY DEF Path!Start
<1>2. Ended \subseteq Ended'
  BY <1>1, EndedKept
<1>3. \A k, q : Fine(kind, Ended, k, q) => Fine(kind, Ended', k, q)
  BY <1>2, LettersKept
<1> QED BY <1>1, <1>3 DEF PathInv

\* The packet of client.c records client.c.
LEMMA PathClient ==
  ASSUME PathInv, NEW n, Path!Client(n)
  PROVE  PathInv'
<1> DEFINE p == [path |-> <<"client.c">>, by |-> <<"client.c">>]
<1>1. /\ kind = "path" /\ Path!Arrive(n, p)
      /\ state' = state /\ kind' = kind /\ packet' = packet /\ printed' = printed
  BY DEF Path!Client
<1>2. Ended' = Ended
  BY <1>1 DEF Ended
<1>3. Fine(kind, Ended', n, p)
  <2>1. /\ <<"client.c">> \in Seq(Names) /\ DOMAIN <<"client.c">> = {1}
        /\ <<"client.c">>[1] = "client.c"
    BY SingleItem DEF Names
  <2> QED BY <1>1, <2>1 DEF Fine, Letters, Distinct
<1> HIDE DEF p
<1>4. CASE ~ Path!Listens(n)
  BY <1>1, <1>2, <1>4 DEF PathInv, Path!Arrive
<1>5. CASE Path!Listens(n)
  <2>1. n \in Path!Nodes /\ arrived' = [arrived EXCEPT ![n] = Append(@, p)]
    BY <1>1, <1>5 DEF Path!Listens, Path!Arrive
  <2>2. /\ Append(arrived[n], p) \in Seq(Letters)
        /\ \A i \in DOMAIN Append(arrived[n], p) : Fine(kind, Ended', n, Append(arrived[n], p)[i])
    BY <1>2, <1>3, <2>1, OneArrives DEF PathInv
  <2>3. \A k \in Path!Nodes :
          /\ arrived'[k] \in Seq(Letters)
          /\ \A i \in DOMAIN arrived'[k] : Fine(kind, Ended', k, arrived'[k][i])
    BY <1>2, <2>1, <2>2 DEF PathInv
  <2>4. arrived' \in [Path!Nodes -> Seq(Letters)]
    BY <2>1, <2>2 DEF PathInv
  <2> QED BY <1>1, <1>2, <2>3, <2>4 DEF PathInv
<1> QED BY <1>4, <1>5

\* The packet that is received is one of those that have arrived.
LEMMA PathReceive ==
  ASSUME PathInv, NEW m \in Path!Nodes, Path!Receive(m)
  PROVE  PathInv'
<1>1. /\ state[m] = "recv" /\ arrived[m] # <<>>
      /\ packet' = [packet EXCEPT ![m] = Head(arrived[m])]
      /\ arrived' = [arrived EXCEPT ![m] = Tail(@)]
      /\ state' = [state EXCEPT ![m] = "ask"]
      /\ kind' = kind /\ printed' = printed
  BY DEF Path!Receive
<1>2. Ended \subseteq Ended'
  BY <1>1, EndedKept
<1>3. \A k, q : Fine(kind, Ended, k, q) => Fine(kind, Ended', k, q)
  BY <1>2, LettersKept
<1>4. /\ Head(arrived[m]) \in Letters /\ Fine(kind, Ended, m, Head(arrived[m]))
      /\ Tail(arrived[m]) \in Seq(Letters)
      /\ \A i \in DOMAIN Tail(arrived[m]) : Fine(kind, Ended, m, Tail(arrived[m])[i])
  BY <1>1, Tails DEF PathInv
<1>5. \A k \in Path!Nodes :
        /\ state'[k] = "down" \/ k \in (IF kind = "path" THEN Path!PathNodes ELSE Path!ChainNodes)
        /\ arrived'[k] \in Seq(Letters)
        /\ \A i \in DOMAIN arrived'[k] : Fine(kind, Ended', k, arrived'[k][i])
        /\ state'[k] = "ask" => Fine(kind, Ended', k, packet'[k])
  BY <1>1, <1>3, <1>4 DEF PathInv
<1>6. /\ state' \in [Path!Nodes -> {"down", "recv", "ask", "end"}]
      /\ arrived' \in [Path!Nodes -> Seq(Letters)] /\ packet' \in [Path!Nodes -> Letters]
  BY <1>1, <1>4 DEF PathInv
<1> QED BY <1>1, <1>5, <1>6 DEF PathInv

\* Whoever sends a packet ends, so that what the packet records is who has ended.
LEMMA PathSend ==
  ASSUME PathInv, NEW m \in Path!Nodes, NEW n, NEW p, state[m] # "down", state[m] # "end",
         Path!SendAndEnd(m, n, p), UNCHANGED <<kind, packet, clients, printed>>,
         n \in Path!Nodes => Fine(kind, Ended', n, p)
  PROVE  PathInv'
<1>1. /\ arrived' = [k \in Path!Nodes |->
                     CASE k = m -> <<>>
                       [] k # m /\ k = n /\ Path!Listens(n) -> Append(arrived[n], p)
                       [] OTHER -> arrived[k]]
      /\ state' = [state EXCEPT ![m] = "end"]
      /\ kind' = kind /\ packet' = packet /\ printed' = printed
  BY DEF Path!SendAndEnd
<1>2. Ended \subseteq Ended'
  BY <1>1, EndedKept
<1>3. \A k, q : Fine(kind, Ended, k, q) => Fine(kind, Ended', k, q)
  BY <1>2, LettersKept
<1>4. ASSUME NEW k \in Path!Nodes
      PROVE  /\ arrived'[k] \in Seq(Letters)
             /\ \A i \in DOMAIN arrived'[k] : Fine(kind, Ended', k, arrived'[k][i])
  <2>1. CASE k = m
    <3>1. arrived'[k] = <<>> /\ <<>> \in Seq(Letters) /\ DOMAIN <<>> = {}
      BY <1>1, <2>1
    <3> QED BY <3>1
  <2>2. CASE k # m /\ k = n /\ Path!Listens(n)
    <3>1. arrived'[k] = Append(arrived[k], p)
      BY <1>1, <2>2
    <3>2. /\ arrived[k] \in Seq(Letters) /\ Fine(kind, Ended', k, p)
          /\ \A i \in DOMAIN arrived[k] : Fine(kind, Ended', k, arrived[k][i])
      BY <1>3, <2>2 DEF PathInv
    <3> QED BY <3>1, <3>2, OneArrives
  <2>3. CASE k # m /\ ~ (k = n /\ Path!Listens(n))
    <3>1. arrived'[k] = arrived[k]
      BY <1>1, <2>3
    <3> QED BY <1>3, <3>1 DEF PathInv
  <2> QED BY <2>1, <2>2, <2>3
<1>5. arrived' \in [Path!Nodes -> Seq(Letters)]
  <2>1. DOMAIN arrived' = Path!Nodes /\ arrived' = [k \in Path!Nodes |-> arrived'[k]]
    BY <1>1
  <2> QED BY <1>4, <2>1
<1>6. \A k \in Path!Nodes :
        /\ state'[k] = "down" \/ k \in (IF kind = "path" THEN Path!PathNodes ELSE Path!ChainNodes)
        /\ state'[k] = "ask" => Fine(kind, Ended', k, packet'[k])
  BY <1>1, <1>3 DEF PathInv
<1>7. state' \in [Path!Nodes -> {"down", "recv", "ask", "end"}]
  BY <1>1 DEF PathInv
<1> QED BY <1>1, <1>4, <1>5, <1>6, <1>7 DEF PathInv

\* The last program prints what it has received.
LEMMA PathOutput ==
  ASSUME PathInv, NEW m \in Path!Nodes, NEW p, Path!Output(m, p),
         p \in Letters /\ p.path = p.by /\ Distinct(p.by),
         kind = "chain" => p.by = <<"a.cpp", "b.cpp", "c.cpp", "d.cpp">>
  PROVE  PathInv'
<1>1. /\ state[m] = "ask" /\ printed' = p
      /\ state' = [state EXCEPT ![m] = "end"] /\ arrived' = [arrived EXCEPT ![m] = <<>>]
      /\ kind' = kind /\ packet' = packet
  BY DEF Path!Output
<1>2. Ended \subseteq Ended'
  BY <1>1, EndedKept
<1>3. \A k, q : Fine(kind, Ended, k, q) => Fine(kind, Ended', k, q)
  BY <1>2, LettersKept
<1>4. <<>> \in Seq(Letters) /\ DOMAIN <<>> = {}
  OBVIOUS
<1> QED BY <1>1, <1>3, <1>4 DEF PathInv

\* a.c, b.c, c.c and server.c append an address that is not in the path yet.
LEMMA PathAppended ==
  ASSUME PathInv, NEW m \in Path!PathNodes, state[m] = "ask"
  PROVE  /\ kind = "path"
         /\ Path!Appended(m) \in Letters
         /\ Path!Appended(m).path = Path!Appended(m).by /\ Distinct(Path!Appended(m).by)
         /\ \A i \in DOMAIN Path!Appended(m).by :
              Path!Appended(m).by[i] \in Ended \cup {"client.c", m}
<1>1. m \in Path!Nodes /\ m \in Names /\ m \notin Path!ChainNodes /\ m # "client.c"
  BY DEF Names, Path!Nodes, Path!PathNodes, Path!ChainNodes
<1>2. kind = "path" /\ Fine(kind, Ended, m, packet[m]) /\ m \notin Ended
  BY <1>1 DEF PathInv, Ended
<1>3. PICK q : q = packet[m].by
  OBVIOUS
<1>4. /\ q \in Seq(Names) /\ packet[m].path = q /\ Distinct(q) /\ ~ In(q, m)
      /\ \A i \in DOMAIN q : q[i] \in Ended \cup {"client.c"}
  BY <1>1, <1>2, <1>3 DEF Fine, Letters, In
<1>5. Path!Appended(m) = [path |-> Append(q, m), by |-> Append(q, m)]
  BY <1>3, <1>4 DEF Path!Appended
<1>6. /\ Append(q, m) \in Seq(Names) /\ Distinct(Append(q, m))
      /\ \A i \in DOMAIN Append(q, m) : Append(q, m)[i] \in Ended \cup {"client.c", m}
  BY <1>1, <1>4, Appends
<1> QED BY <1>2, <1>5, <1>6 DEF Letters

\* a.c, b.c and c.c hand on what they have received, and append their own address.
LEMMA PathHandOn ==
  ASSUME PathInv, NEW m \in Path!PathNodes, NEW n, Path!HandOn(m, n)
  PROVE  PathInv'
<1>1. /\ m \in Path!Nodes /\ state[m] = "ask" /\ Path!SendAndEnd(m, n, Path!Appended(m))
      /\ UNCHANGED <<kind, packet, clients, printed>>
  BY DEF Path!HandOn, Path!Nodes
<1>2. Ended' = Ended \cup {m}
  BY <1>1 DEF Path!SendAndEnd, PathInv, Ended
<1>3. Fine(kind, Ended', n, Path!Appended(m))
  BY <1>1, <1>2, PathAppended DEF Fine
<1> QED BY <1>1, <1>3, PathSend

\* Who copies the addresses that are there and puts its own behind them, appends it.
LEMMA CopyAppends ==
  ASSUME NEW S, NEW q \in Seq(S), NEW m \in S, NEW k, k = Len(q) + 1
  PROVE  [i \in 1 .. k |-> IF i = k THEN m ELSE q[i]] = Append(q, m)
<1>1. PICK f : f = [i \in 1 .. k |-> IF i = k THEN m ELSE q[i]]
  OBVIOUS
<1>2. Len(q) \in Nat /\ DOMAIN f = 1 .. Len(q) + 1
  BY <1>1, LenProperties
<1>3. \A i \in 1 .. Len(q) + 1 : f[i] = Append(q, m)[i]
  BY <1>1, <1>2
<1>4. DOMAIN Append(q, m) = 1 .. Len(q) + 1
  BY <1>2
<1>5. f = [i \in 1 .. Len(q) + 1 |-> f[i]]
  BY <1>1, <1>2
<1>6. Append(q, m) = [i \in 1 .. Len(q) + 1 |-> Append(q, m)[i]]
  <2>1. PICK g : g = Append(q, m)
    OBVIOUS
  <2>2. g \in Seq(S) /\ Len(g) = Len(q) + 1
    BY <2>1, AppendProperties
  <2> QED BY <2>1, <2>2, LenProperties
<1> QED BY <1>1, <1>3, <1>5, <1>6

\* Append to a sequence of three.
LEMMA FourthItem ==
  ASSUME NEW a, NEW b, NEW c, NEW d
  PROVE  Append(<<a, b, c>>, d) = <<a, b, c, d>>
<1> DEFINE S == {a, b, c, d}
<1>1. PICK f : f = Append(<<a, b, c>>, d)
  OBVIOUS
<1>2. PICK g : g = <<a, b, c, d>>
  OBVIOUS
<1>3. <<a, b, c>> \in Seq(S) /\ d \in S /\ Len(<<a, b, c>>) = 3
  OBVIOUS
<1>4. f \in Seq(S) /\ Len(f) = 4 /\ f[1] = a /\ f[2] = b /\ f[3] = c /\ f[4] = d
  BY <1>1, <1>3, AppendProperties
<1>5. g \in Seq(S) /\ Len(g) = 4 /\ g[1] = a /\ g[2] = b /\ g[3] = c /\ g[4] = d
  BY <1>2
<1> HIDE DEF S
<1>6. \A i \in 1 .. 4 : f[i] = g[i]
  BY <1>4, <1>5
<1> QED BY <1>1, <1>2, <1>4, <1>5, <1>6, SeqEqual

\* What b.cpp, c.cpp and d.cpp send on is the path up to themselves.
LEMMA ChainCopied ==
  ASSUME NEW m, NEW n, NEW k, NEW q, q = Letter(Before(m)),
         \/ m = "b.cpp" /\ n = "c.cpp" /\ k = 2
         \/ m = "c.cpp" /\ n = "d.cpp" /\ k = 3
         \/ m = "d.cpp" /\ n = "e.cpp" /\ k = 4
  PROVE  [path |-> [i \in 1 .. k |-> IF i = k THEN m ELSE q.path[i]], by |-> Append(q.by, m)]
           = Letter(Before(n))
<1>1. PICK b : b = Before(m)
  OBVIOUS
<1>2. q.path = b /\ q.by = b
  BY <1>1 DEF Letter
<1>3. /\ b \in Seq(Names) /\ Len(b) = k - 1 /\ Append(b, m) = Before(n)
  <2>1. CASE m = "b.cpp"
    <3>1. b = <<"a.cpp">> /\ "a.cpp" \in Names
      BY <1>1, <2>1 DEF Before, Names, Path!Nodes, Path!ChainNodes
    <3> QED BY <2>1, <3>1 DEF Before
  <2>2. CASE m = "c.cpp"
    <3>1. b = <<"a.cpp", "b.cpp">> /\ "a.cpp" \in Names /\ "b.cpp" \in Names
      BY <1>1, <2>2 DEF Before, Names, Path!Nodes, Path!ChainNodes
    <3> QED BY <2>2, <3>1 DEF Before
  <2>3. CASE m = "d.cpp"
    <3>1. b = <<"a.cpp", "b.cpp", "c.cpp">> /\ \A x \in {"a.cpp", "b.cpp", "c.cpp"} : x \in Names
      BY <1>1, <2>3 DEF Before, Names, Path!Nodes, Path!ChainNodes
    <3>2. Append(<<"a.cpp", "b.cpp", "c.cpp">>, "d.cpp") = <<"a.cpp", "b.cpp", "c.cpp", "d.cpp">>
      BY FourthItem
    <3>3. b \in Seq(Names) /\ Len(b) = 3
      BY <3>1
    <3> QED BY <2>3, <3>1, <3>2, <3>3 DEF Before
  <2> QED BY <2>1, <2>2, <2>3
<1>4. [i \in 1 .. k |-> IF i = k THEN m ELSE b[i]] = Append(b, m)
  <2>1. k = Len(b) + 1
    BY <1>3
  <2>2. m \in Names
    BY DEF Names, Path!Nodes, Path!ChainNodes
  <2> QED BY <1>3, <2>1, <2>2, CopyAppends
<1> QED BY <1>2, <1>3, <1>4 DEF Letter

\* The packets of the chain.
LEMMA ChainLetters ==
  /\ Letter(Before("b.cpp")) \in Letters /\ Letter(Before("c.cpp")) \in Letters
  /\ Letter(Before("d.cpp")) \in Letters /\ Letter(Before("e.cpp")) \in Letters
  /\ Before("b.cpp") # <<>> /\ Before("c.cpp") # <<>> /\ Before("d.cpp") # <<>>
  /\ Before("e.cpp") # <<>> /\ Before("a.cpp") = <<>>
  /\ Distinct(Before("e.cpp"))
<1>1. /\ Before("b.cpp") = <<"a.cpp">> /\ Before("c.cpp") = <<"a.cpp", "b.cpp">>
      /\ Before("d.cpp") = <<"a.cpp", "b.cpp", "c.cpp">>
      /\ Before("e.cpp") = <<"a.cpp", "b.cpp", "c.cpp", "d.cpp">>
      /\ Before("a.cpp") = <<>>
  BY DEF Before
<1>2. /\ <<"a.cpp">> \in Seq(Names) /\ <<"a.cpp", "b.cpp">> \in Seq(Names)
      /\ <<"a.cpp", "b.cpp", "c.cpp">> \in Seq(Names)
      /\ <<"a.cpp", "b.cpp", "c.cpp", "d.cpp">> \in Seq(Names)
  <2>1. \A x \in {"a.cpp", "b.cpp", "c.cpp", "d.cpp"} : x \in Names
    BY DEF Names, Path!Nodes, Path!ChainNodes
  <2> QED BY <2>1
<1>3. Distinct(<<"a.cpp", "b.cpp", "c.cpp", "d.cpp">>)
  BY DEF Distinct
<1>4. /\ <<"a.cpp">> # <<>> /\ <<"a.cpp", "b.cpp">> # <<>> /\ <<"a.cpp", "b.cpp", "c.cpp">> # <<>>
      /\ <<"a.cpp", "b.cpp", "c.cpp", "d.cpp">> # <<>>
  OBVIOUS
<1> QED BY <1>1, <1>2, <1>3, <1>4 DEF Letter, Letters

\* b.cpp, c.cpp and d.cpp copy the packet for the next in the chain.
LEMMA PathCopy ==
  ASSUME PathInv, NEW m, NEW n, NEW k, Path!Copy(m, n, k),
         \/ m = "b.cpp" /\ n = "c.cpp" /\ k = 2
         \/ m = "c.cpp" /\ n = "d.cpp" /\ k = 3
         \/ m = "d.cpp" /\ n = "e.cpp" /\ k = 4
  PROVE  PathInv'
<1>1. /\ state[m] = "ask" /\ Path!SendAndEnd(m, n, Path!Copied(m, k))
      /\ UNCHANGED <<kind, packet, clients, printed>>
  BY DEF Path!Copy
<1>2. m \in Path!Nodes /\ m \in Path!ChainNodes /\ m \notin Path!PathNodes
  BY DEF Path!Nodes, Path!ChainNodes, Path!PathNodes
<1>3. kind = "chain" /\ packet[m] = Letter(Before(m))
  BY <1>1, <1>2 DEF PathInv, Fine
<1>4. Path!Copied(m, k) = Letter(Before(n))
  BY <1>3, ChainCopied DEF Path!Copied
<1>5. Fine(kind, Ended', n, Path!Copied(m, k))
  BY <1>3, <1>4, ChainLetters DEF Fine
<1> QED BY <1>1, <1>2, <1>5, PathSend

\* a.cpp starts the packet off.
LEMMA PathSendA ==
  ASSUME PathInv, Path!SendA
  PROVE  PathInv'
<1>1. /\ state["a.cpp"] = "recv" /\ UNCHANGED <<kind, packet, clients, printed>>
      /\ Path!SendAndEnd("a.cpp", "b.cpp", [path |-> <<"a.cpp">>, by |-> <<"a.cpp">>])
  BY DEF Path!SendA
<1>2. "a.cpp" \in Path!Nodes /\ "a.cpp" \notin Path!PathNodes
  BY DEF Path!Nodes, Path!ChainNodes, Path!PathNodes
<1>3. kind = "chain"
  BY <1>1, <1>2 DEF PathInv
<1>4. [path |-> <<"a.cpp">>, by |-> <<"a.cpp">>] = Letter(Before("b.cpp"))
  BY DEF Letter, Before
<1>5. Fine(kind, Ended', "b.cpp", [path |-> <<"a.cpp">>, by |-> <<"a.cpp">>])
  BY <1>3, <1>4, ChainLetters DEF Fine
<1> QED BY <1>1, <1>2, <1>5, PathSend

\* Every step of Path and TraceRoute-SimpleCopying keeps what is recorded in order.
LEMMA PathStepKept == PathInv /\ Path!Step => PathInv'
<1> SUFFICES ASSUME PathInv, Path!Step PROVE PathInv'
  OBVIOUS
<1>1. ASSUME NEW n \in Path!Nodes, Path!Start(n) PROVE PathInv'
  BY <1>1, PathStart
<1>2. ASSUME NEW n, Path!Client(n) PROVE PathInv'
  BY <1>2, PathClient
<1>3. ASSUME NEW m \in Path!Nodes, Path!Receive(m) PROVE PathInv'
  BY <1>3, PathReceive
<1>4. ASSUME NEW m \in Path!PathNodes, NEW n, Path!HandOn(m, n) PROVE PathInv'
  BY <1>4, PathHandOn
<1>5. CASE Path!Output("server.c", Path!Appended("server.c"))
  <2>1. "server.c" \in Path!PathNodes /\ "server.c" \in Path!Nodes
    BY DEF Path!PathNodes, Path!Nodes
  <2>2. state["server.c"] = "ask"
    BY <1>5 DEF Path!Output
  <2> QED BY <1>5, <2>1, <2>2, PathAppended, PathOutput
<1>6. CASE Path!Output("e.cpp", packet["e.cpp"])
  <2>1. "e.cpp" \in Path!Nodes /\ "e.cpp" \notin Path!PathNodes /\ state["e.cpp"] = "ask"
    BY <1>6 DEF Path!PathNodes, Path!Nodes, Path!ChainNodes, Path!Output
  <2>2. kind = "chain" /\ packet["e.cpp"] = Letter(Before("e.cpp"))
    BY <2>1 DEF PathInv, Fine
  <2>3. /\ packet["e.cpp"] \in Letters /\ packet["e.cpp"].path = packet["e.cpp"].by
        /\ packet["e.cpp"].by = <<"a.cpp", "b.cpp", "c.cpp", "d.cpp">>
        /\ Distinct(packet["e.cpp"].by)
    BY <2>2, ChainLetters DEF Letter, Before
  <2> QED BY <1>6, <2>1, <2>3, PathOutput
<1>7. /\ "a.c" \in Path!PathNodes /\ "b.c" \in Path!PathNodes /\ "c.c" \in Path!PathNodes
      /\ \A n \in {"a.c", "b.c", "c.c", "server.c", "b.cpp", "c.cpp", "d.cpp", "e.cpp"} :
           n \in Path!Nodes
  BY DEF Path!PathNodes, Path!Nodes, Path!ChainNodes
<1>8. CASE Path!PathStep
  BY <1>2, <1>3, <1>4, <1>5, <1>7, <1>8
     DEF Path!PathStep, Path!ProgramA, Path!ProgramB, Path!ProgramC, Path!Server
<1>9. CASE Path!ChainStep
  BY <1>3, <1>6, <1>7, <1>9, PathSendA, PathCopy
     DEF Path!ChainStep, Path!SendB, Path!SendC, Path!SendD, Path!OutputE
<1> QED BY <1>1, <1>8, <1>9 DEF Path!Step

\* So what is printed is the path that was taken.
LEMMA PathInvTakes == PathInv => Path!PathTaken
<1> SUFFICES ASSUME PathInv, printed # Path!NoPacket
             PROVE  /\ printed.path = printed.by
                    /\ Path!Cardinality({printed.by[i] : i \in DOMAIN printed.by}) = Len(printed.by)
                    /\ kind = "chain" => printed.by = <<"a.cpp", "b.cpp", "c.cpp", "d.cpp">>
  BY DEF Path!PathTaken
<1>1. printed.by \in Seq(Names) /\ Distinct(printed.by)
  BY DEF PathInv, Letters
<1>2. Cardinality({printed.by[i] : i \in DOMAIN printed.by}) = Len(printed.by)
  BY <1>1, DistinctItems
<1> QED BY <1>2 DEF PathInv, Path!Cardinality, Cardinality

-----------------------------------------------------------------------------
(***************************************************************************)
(* The checksum.                                                           *)
(***************************************************************************)

\* The halves of a sum are added up, with the carry.
LEMMA FoldOfHalves ==
  ASSUME NEW a \in Nat, a < Word, NEW b \in Nat, b < Word
  PROVE  /\ a + b < Word => Fold(a * Word + b) = a + b
         /\ a + b >= Word => Fold(a * Word + b) = (a + b) + 1
<1>1. (a * Word + b) \div Word = a /\ (a * Word + b) % Word = b
  BY SMT DEF Word
<1>2. FoldOnce(a * Word + b) = a + b
  BY <1>1 DEF FoldOnce
<1>3. /\ a + b < Word => (a + b) \div Word = 0
      /\ a + b >= Word => (a + b) \div Word = 1
  BY SMT DEF Word
<1>4. Fold(a * Word + b) = (a + b) + ((a + b) \div Word)
  BY <1>2 DEF Fold
<1> QED
  BY <1>3, <1>4

\* The checksum of a sum of two halves.
LEMMA ChecksumOfHalves ==
  ASSUME NEW a \in Nat, a < Word, NEW b \in Nat, b < Word
  PROVE  /\ a + b < Word => Checksum(a * Word + b) = (Word - 1) - (a + b)
         /\ a + b >= Word => Checksum(a * Word + b) = 2 * (Word - 1) - (a + b)
<1>1. PICK f : f = Fold(a * Word + b)
  OBVIOUS
<1>2. Checksum(a * Word + b) = Word - 1 - (f % Word)
  BY <1>1 DEF Checksum, Complement
<1>3. CASE a + b < Word
  <2>1. f = a + b /\ f % Word = f
    <3>1. f = a + b
      BY <1>1, <1>3, FoldOfHalves
    <3> QED
      BY <1>3, <3>1, SMTT(30) DEF Word
  <2> QED
    BY <1>2, <1>3, <2>1, SMT DEF Word
<1>4. CASE a + b >= Word
  <2>1. f = (a + b) + 1
    BY <1>1, <1>4, FoldOfHalves
  <2>2. f % Word = f - Word
    BY <1>4, <2>1, SMTT(30) DEF Word
  <2> QED
    BY <1>2, <1>4, <2>1, <2>2, SMT DEF Word
<1> QED
  BY <1>3, <1>4, SMT DEF Word

\* checksum() returns 16 bits, and who receives a packet with it accepts it: of every packet
\* whose words sum up to less than 2^32 - 2^16 without the checksum.
THEOREM ChecksumAccepted ==
  ASSUME NEW sum \in Nat, sum < Word * (Word - 1)
  PROVE  /\ Checksum(sum) \in Nat /\ Checksum(sum) < Word
         /\ Accepts(sum + Checksum(sum))
<1>1. PICK a \in Nat, b \in Nat : sum = a * Word + b /\ a < Word - 1 /\ b < Word
  <2>1. sum \div Word \in Nat /\ sum % Word \in Nat /\ sum % Word < Word
    BY SMT DEF Word
  <2>2. sum = (sum \div Word) * Word + (sum % Word) /\ sum \div Word < Word - 1
    BY SMT DEF Word
  <2> QED
    BY <2>1, <2>2
<1>2. PICK c : c = Checksum(sum)
  OBVIOUS
<1>3. /\ a + b < Word => c = (Word - 1) - (a + b)
      /\ a + b >= Word => c = 2 * (Word - 1) - (a + b)
  BY <1>1, <1>2, ChecksumOfHalves, SMT DEF Word
<1>4. c \in Nat /\ c < Word
  BY <1>1, <1>3, SMT DEF Word
<1>5. Checksum(sum + c) = 0
  <2>1. CASE b + c < Word
    <3>1. sum + c = a * Word + (b + c)
      BY <1>1, <1>4, SMT DEF Word
    <3>2. a + (b + c) = Word - 1 \/ a + (b + c) = 2 * (Word - 1)
      BY <1>1, <1>3, SMT DEF Word
    <3> QED
      BY <1>1, <1>4, <2>1, <3>1, <3>2, ChecksumOfHalves, SMT DEF Word
  <2>2. CASE b + c >= Word
    <3>1. sum + c = (a + 1) * Word + (b + c - Word)
      BY <1>1, <1>4, SMT DEF Word
    <3>2. (a + 1) + (b + c - Word) = Word - 1
      BY <1>1, <1>3, <2>2, SMT DEF Word
    <3>3. a + 1 \in Nat /\ a + 1 < Word /\ b + c - Word \in Nat /\ b + c - Word < Word
      BY <1>1, <1>4, <2>2, SMT DEF Word
    <3>4. (a + 1) + (b + c - Word) < Word
      BY <3>2, SMT DEF Word
    <3>5. Checksum((a + 1) * Word + (b + c - Word))
            = (Word - 1) - ((a + 1) + (b + c - Word))
      BY <3>3, <3>4, ChecksumOfHalves
    <3> QED
      BY <3>1, <3>2, <3>5, SMT DEF Word
  <2> QED
    BY <1>1, <1>4, <2>1, <2>2, SMT DEF Word
<1> QED
  BY <1>2, <1>4, <1>5 DEF Accepts

-----------------------------------------------------------------------------
(***************************************************************************)
(* The requests of a process that is alone.                                *)
(***************************************************************************)

\* What the buffer has in the place of the checksum before the request of hop h.
FieldAt(h, f) ==
  /\ f \in Nat
  /\ h = 1 => f = 0
  /\ h > 1 => 65515 - 81 * (h - 1) <= f /\ f <= 65522

\* The checksum of a small sum, and of one with a carry.
LEMMA ChecksumOfSmall ==
  ASSUME NEW s \in Nat
  PROVE  /\ s < Word => Checksum(s) = (Word - 1) - s
         /\ Word <= s /\ s < 2 * Word - 1 => Checksum(s) = 2 * (Word - 1) - s
<1>1. CASE s < Word
  <2>1. 0 * Word + s = s /\ 0 \in Nat /\ 0 < Word /\ 0 + s = s
    BY SMT DEF Word
  <2>2. Checksum(0 * Word + s) = (Word - 1) - (0 + s)
    BY <1>1, <2>1, ChecksumOfHalves
  <2>3. Checksum(s) = (Word - 1) - s
    BY <2>1, <2>2
  <2> QED
    BY <1>1, <2>3, SMT DEF Word
<1>2. CASE Word <= s /\ s < 2 * Word - 1
  <2>1. PICK b \in Nat : s = 1 * Word + b /\ b < Word - 1
    <3>1. s - Word \in Nat /\ s = 1 * Word + (s - Word) /\ s - Word < Word - 1
      BY <1>2, SMT DEF Word
    <3> QED
      BY <3>1
  <2>2. 1 + b < Word /\ b < Word /\ 1 < Word
    BY <2>1, SMT DEF Word
  <2>3. Checksum(1 * Word + b) = (Word - 1) - (1 + b)
    BY <2>2, ChecksumOfHalves
  <2> QED
    BY <1>2, <2>1, <2>3, SMT DEF Word
<1>3. CASE 2 * Word - 1 <= s
  BY <1>3, SMT DEF Word
<1> QED
  BY <1>1, <1>2, <1>3, SMT DEF Word

\* The destination does not accept the request of any hop, and what a router's packet leaves
\* in the buffer keeps it so.
LEMMA RequestRejected ==
  ASSUME NEW h \in Nat, 1 <= h, h <= 64, NEW f, FieldAt(h, f)
  PROVE  /\ Checksum(ECHO + f) \in Nat
         /\ ~Valid(Checksum(ECHO + f), h + 1)
         /\ FieldAt(h + 1, QuoteChecksum(Checksum(ECHO + f), h + 1))
<1>1. PICK c : c = Checksum(ECHO + f)
  OBVIOUS
<1>2. CASE h = 1
  <2>1. c = 65527
    BY <1>1, <1>2, ChecksumOfSmall, SMT DEF FieldAt, ECHO, Word
  <2>2. Checksum(65537) = 65533
    BY ChecksumOfSmall, SMT DEF Word
  <2>3. Checksum(2 * Word + 11) = (Word - 1) - (2 + 11)
    <3>1. 2 < Word /\ 11 < Word /\ 2 + 11 < Word
      BY SMT DEF Word
    <3> QED
      BY <3>1, ChecksumOfHalves
  <2>4. ECHO + c + (h + 1) = 65537
    BY <1>2, <2>1, SMT DEF ECHO
  <2>5. EXCEEDED + (Word - 1) + ECHO + c + (h + 1) = 2 * Word + 11
    BY <1>2, <2>1, SMT DEF ECHO, EXCEEDED, Word
  <2>6. QuoteChecksum(c, h + 1) = 65522
    BY <2>3, <2>5, SMT DEF QuoteChecksum, Word
  <2>7. ~Valid(c, h + 1)
    BY <2>2, <2>4 DEF Valid, Accepts
  <2>8. FieldAt(h + 1, 65522)
    BY <1>2, SMT DEF FieldAt
  <2> QED
    BY <1>1, <2>1, <2>6, <2>7, <2>8
<1>3. CASE h > 1
  <2>1. f \in Nat /\ 65515 - 81 * (h - 1) <= f /\ f <= 65522
    BY <1>3 DEF FieldAt
  <2>2. c = 65527 - f
    <3>1. ECHO + f \in Nat /\ ECHO + f < Word
      BY <2>1, SMT DEF ECHO, Word
    <3>2. c = (Word - 1) - (ECHO + f)
      BY <1>1, <3>1, ChecksumOfSmall
    <3> QED
      BY <2>1, <3>2, SMT DEF ECHO, Word
  <2>3. c \in Nat /\ 5 <= c /\ c <= 12 + 81 * (h - 1)
    BY <2>1, <2>2, SMT
  <2>4. ~Valid(c, h + 1)
    <3>1. ECHO + c + (h + 1) \in Nat /\ ECHO + c + (h + 1) < Word - 1
      BY <2>3, SMT DEF ECHO, Word
    <3>2. Checksum(ECHO + c + (h + 1)) = (Word - 1) - (ECHO + c + (h + 1))
      <4>1. ECHO + c + (h + 1) < Word
        BY <3>1, SMT DEF Word
      <4> QED
        BY <3>1, <4>1, ChecksumOfSmall
    <3>3. (Word - 1) - (ECHO + c + (h + 1)) # 0
      BY <3>1, SMT DEF Word
    <3> QED
      BY <3>2, <3>3 DEF Valid, Accepts
  <2>5. QuoteChecksum(c, h + 1) = 65515 - c - h
    <3>1. PICK s \in Nat : s = EXCEEDED + (Word - 1) + ECHO + c + (h + 1)
      BY <2>3, SMT DEF EXCEEDED, ECHO, Word
    <3>2. s = 65555 + c + h /\ Word <= s /\ s < 2 * Word - 1
      BY <2>3, <3>1, SMT DEF EXCEEDED, ECHO, Word
    <3>3. Checksum(s) = 2 * (Word - 1) - s
      BY <3>2, ChecksumOfSmall
    <3>4. QuoteChecksum(c, h + 1) = Checksum(s)
      BY <3>1 DEF QuoteChecksum
    <3> QED
      BY <2>3, <3>2, <3>3, <3>4, SMT DEF Word
  <2>6. FieldAt(h + 1, 65515 - c - h)
    BY <1>3, <2>3, SMT DEF FieldAt
  <2> QED
    BY <1>1, <2>3, <2>4, <2>5, <2>6
<1> QED
  BY <1>2, <1>3, SMT

-----------------------------------------------------------------------------
(* The ICMP packets, and what each process keeps.                          *)

\* Checksums have 16 bits.
Sums == 0 .. Word - 1
PacketSet == [kind : {"echo", "reply", "exceeded"}, of : Processes, seq : Nat, sum : Sums]

IcmpTypes ==
  /\ distance \in Distances /\ started \subseteq Processes /\ open \subseteq started
  /\ wire \subseteq PacketSet /\ inbox \in [Processes -> Seq(PacketSet)]

\* Who is not run does nothing, and a socket is open until its process ends.
TraceTypes ==
  /\ tpc \in [Tracers -> {"off", "send", "receive", "end"}]
  /\ hop \in [Tracers -> 1 .. MAX_HOPS + 1]
  /\ field \in [Tracers -> Sums]
  /\ shown \in [Tracers -> Seq(PacketSet)]
  /\ \A t \in Tracers : /\ tpc[t] = "receive" => hop[t] <= MAX_HOPS
                        /\ t \notin started => tpc[t] = "off"
                        /\ tpc[t] \in {"send", "receive"} => t \in open

PingTypes ==
  /\ program \in [Pingers -> {"s.cpp", "ping.c"}]
  /\ pc \in [Pingers -> {"off", "top", "send", "receive", "end", "failed", "fault"}]
  /\ done \in [Pingers -> BOOLEAN] /\ flag \in [Pingers -> BOOLEAN]
  /\ msg_count \in [Pingers -> 0 .. MAX_PINGS]
  /\ msg_received_count \in [Pingers -> Nat] /\ failure_count \in [Pingers -> Nat]
  /\ astray \in [Pingers -> BOOLEAN]
  /\ \A p \in Pingers \ started : pc[p] = "off"

\* The requests that have not been accounted for: the one that is being made.
Pending(p) == IF pc[p] \in {"send", "receive"} THEN 1 ELSE 0

\* Every request of p was answered, was waited for in vain, or is pending, unless a send has
\* failed: then ping.c has cleared flag, and s.cpp has failed.
Counted(p) ==
  /\ msg_received_count[p] + failure_count[p] + Pending(p) <= msg_count[p]
  /\ flag[p] /\ pc[p] # "failed" =>
       msg_received_count[p] + failure_count[p] + Pending(p) = msg_count[p]
  /\ program[p] = "s.cpp" => flag[p] /\ (pc[p] # "failed" => failure_count[p] < MAX_FAILURES)
  /\ pc[p] = "end" => msg_count[p] > 0

Types == IcmpTypes /\ TraceTypes /\ PingTypes /\ \A p \in Pingers : Counted(p)

-----------------------------------------------------------------------------
(* Ping has the host's packets in common with TraceRoute.                  *)

\* The initial state.
LEMMA SameInit == Echo!InitIcmp <=> InitIcmp
BY DEF Echo!InitIcmp, InitIcmp, Echo!Processes, Processes, Echo!Cardinality, Cardinality

\* sendto.
LEMMA SameRequest ==
  ASSUME NEW p, NEW seq, NEW s, NEW ttl, NEW valid, NEW expired
  PROVE  Echo!Request(p, seq, s, ttl, valid, expired) <=> Request(p, seq, s, ttl, valid, expired)
BY DEF Echo!Request, Request, Echo!ToAll, ToAll, Echo!Packet, Packet, Echo!Processes, Processes

\* recvfrom, and the end of a process.
LEMMA SameTake ==
  ASSUME NEW p
  PROVE  (Echo!Take(p) <=> Take(p)) /\ (Echo!Quit(p) <=> Quit(p))
BY DEF Echo!Take, Take, Echo!Quit, Quit

-----------------------------------------------------------------------------

\* Numbers of 16 bits.
LEMMA Words == Word \in Nat /\ Word > 257 /\ 0 \in Sums /\ 65527 \in Sums
BY DEF Word, Sums

\* checksum() returns 16 bits.
LEMMA SumFits ==
  ASSUME NEW n \in Nat
  PROVE  Checksum(n) \in Sums
<1>1. n \div Word \in Nat /\ n % Word \in Nat
  BY SMT DEF Word
<1>2. FoldOnce(n) \in Nat
  BY <1>1 DEF FoldOnce
<1>3. FoldOnce(n) \div Word \in Nat
  BY <1>2, SMT DEF Word
<1>4. Fold(n) \in Nat
  BY <1>2, <1>3 DEF Fold
<1>5. \A m \in Nat : m % Word \in Nat /\ m % Word < Word
  BY SMT DEF Word
<1> QED BY <1>4, <1>5, Words, SMT DEF Checksum, Complement, Sums

\* Packets that arrive at every socket are packets in every socket.
LEMMA ToAllTypes ==
  ASSUME IcmpTypes, NEW q \in Seq(PacketSet), ToAll(q)
  PROVE  inbox' \in [Processes -> Seq(PacketSet)]
<1>1. <<>> \in Seq(PacketSet)
  OBVIOUS
<1>2. \A p \in Processes : inbox[p] \o q \in Seq(PacketSet)
  BY ConcatProperties DEF IcmpTypes
<1> QED BY <1>1, <1>2 DEF ToAll

\* A request puts packets on the wire, or into the sockets.
LEMMA RequestTypes ==
  ASSUME IcmpTypes, NEW p \in Processes, NEW seq \in Nat, NEW s \in Sums, NEW ttl, NEW valid,
         NEW expired, ttl < distance => expired \in PacketSet,
         Request(p, seq, s, ttl, valid, expired)
  PROVE  wire' \subseteq PacketSet /\ inbox' \in [Processes -> Seq(PacketSet)]
<1>1. Packet("reply", p, seq, s) \in PacketSet /\ Packet("echo", p, seq, s) \in PacketSet
  BY DEF PacketSet, Packet
<1>2. CASE distance = 0
  <2>1. <<Packet("echo", p, seq, s)>> \o <<Packet("reply", p, seq, s)>> \in Seq(PacketSet)
    BY <1>1, SingleItem, ConcatProperties
  <2>2. <<Packet("echo", p, seq, s)>> \o <<>> \in Seq(PacketSet)
    BY <1>1, SingleItem, ConcatProperties
  <2>3. wire' = wire /\ \E q \in Seq(PacketSet) : ToAll(q)
    BY <1>2, <2>1, <2>2 DEF Request
  <2> QED BY <2>3, ToAllTypes DEF IcmpTypes
<1>3. CASE distance # 0
  BY <1>1, <1>3 DEF Request, IcmpTypes
<1> QED BY <1>2, <1>3

\* What is taken from a socket is a packet.
LEMMA TakeTypes ==
  ASSUME IcmpTypes, NEW p \in Processes
  PROVE  /\ inbox[p] # <<>> => Head(inbox[p]) \in PacketSet
         /\ inbox[p] # <<>> /\ Take(p) => inbox' \in [Processes -> Seq(PacketSet)]
         /\ Quit(p) => inbox' \in [Processes -> Seq(PacketSet)] /\ open' \subseteq open
<1>1. inbox[p] # <<>> => Head(inbox[p]) \in PacketSet /\ Tail(inbox[p]) \in Seq(PacketSet)
  BY Tails DEF IcmpTypes
<1>2. <<>> \in Seq(PacketSet)
  OBVIOUS
<1> QED BY <1>1, <1>2 DEF IcmpTypes, Take, Quit

\* A step of somebody else leaves the state of TraceRoute as it is.
LEMMA TraceKept ==
  ASSUME TraceTypes, UNCHANGED traceVars, started' = started,
         \A t \in Tracers : t \in open => t \in open'
  PROVE  TraceTypes'
BY DEF TraceTypes, traceVars

\* A step of somebody else leaves the state of Ping as it is.
LEMMA PingKept ==
  ASSUME PingTypes, \A p \in Pingers : Counted(p), UNCHANGED pingOwn, started' = started
  PROVE  PingTypes' /\ \A p \in Pingers : Counted(p)'
BY DEF PingTypes, Counted, Pending, pingOwn

\* The types at the start.
LEMMA TypesInit ==
  ASSUME Echo!Init, InitTrace
  PROVE  Types
<1>1. InitIcmp
  BY SameInit DEF Echo!Init
<1>2. IcmpTypes
  <2>1. <<>> \in Seq(PacketSet)
    OBVIOUS
  <2> QED BY <1>1, <2>1 DEF InitIcmp, IcmpTypes
<1>3. TraceTypes
  <2>1. <<>> \in Seq(PacketSet) /\ 1 \in 1 .. MAX_HOPS + 1 /\ 0 \in Sums
    BY MaxHopsAssumption, Words
  <2> QED BY <1>1, <2>1 DEF InitIcmp, InitTrace, TraceTypes
<1>4. PingTypes
  <2>1. 0 \in 0 .. MAX_PINGS
    BY Assumptions DEF Echo!PingAssumption
  <2> QED BY <2>1 DEF Echo!Init, PingTypes
<1>5. ASSUME NEW p \in Pingers PROVE Counted(p)
  <2>1. /\ msg_received_count[p] = 0 /\ failure_count[p] = 0 /\ msg_count[p] = 0 /\ flag[p] = TRUE
        /\ pc[p] \in {"top", "off"}
    BY DEF Echo!Init
  <2>2. 0 < MAX_FAILURES
    BY Assumptions DEF Echo!PingAssumption
  <2> QED BY <2>1, <2>2 DEF Counted, Pending
<1> QED BY <1>2, <1>3, <1>4, <1>5 DEF Types

-----------------------------------------------------------------------------
(* The steps of the network and of TraceRoute.                             *)

\* Deliver and Lose keep the types.
LEMMA NetworkTypes ==
  ASSUME Types, Network, UNCHANGED <<traceVars, pingOwn>>
  PROVE  Types'
<1>1. /\ distance' = distance /\ started' = started /\ open' = open
      /\ UNCHANGED traceVars /\ UNCHANGED pingOwn
  BY DEF Network, Deliver, Lose
<1>2. wire' \subseteq PacketSet /\ inbox' \in [Processes -> Seq(PacketSet)]
  <2>1. CASE Lose
    BY <2>1 DEF Lose, Types, IcmpTypes
  <2>2. CASE Deliver
    <3>1. PICK q \in wire : wire' = wire \ {q} /\ ToAll(<<q>>)
      BY <2>2 DEF Deliver
    <3>2. <<q>> \in Seq(PacketSet)
      BY SingleItem DEF Types, IcmpTypes
    <3> QED BY <3>1, <3>2, ToAllTypes DEF Types, IcmpTypes
  <2> QED BY <2>1, <2>2 DEF Network
<1> QED BY <1>1, <1>2, TraceKept, PingKept DEF Types, IcmpTypes

\* The checksum of a request, and that of the packet which quotes it.
LEMMA ProbeSums ==
  ASSUME TraceTypes, NEW t \in Tracers
  PROVE  /\ OwnChecksum(t) \in Sums /\ Sequence(t) \in Nat
         /\ \A s \in Sums : QuoteChecksum(s, Sequence(t)) \in Sums
<1>1. field[t] \in Nat /\ hop[t] \in Nat /\ ECHO \in Nat /\ EXCEEDED \in Nat
  BY Words DEF TraceTypes, Sums, ECHO, EXCEEDED
<1>2. Sequence(t) \in Nat
  BY <1>1 DEF Sequence
<1>3. OwnChecksum(t) \in Sums
  BY <1>1, SumFits DEF OwnChecksum
<1>4. ASSUME NEW s \in Sums PROVE QuoteChecksum(s, Sequence(t)) \in Sums
  <2>1. EXCEEDED + (Word - 1) + ECHO + s + Sequence(t) \in Nat
    BY <1>1, <1>2, Words DEF Sums
  <2> QED BY <2>1, SumFits DEF QuoteChecksum
<1> QED BY <1>2, <1>3, <1>4

\* Probe keeps the types.
LEMMA ProbeTypes ==
  ASSUME Types, NEW t \in Tracers, Probe(t), UNCHANGED pingOwn
  PROVE  Types'
<1>1. /\ tpc[t] = "send" /\ hop[t] <= MAX_HOPS
      /\ field' = [field EXCEPT ![t] = OwnChecksum(t)]
      /\ tpc' = [tpc EXCEPT ![t] = "receive"]
      /\ UNCHANGED <<distance, started, open, hop, shown>>
  BY DEF Probe
<1>2. OwnChecksum(t) \in Sums /\ Sequence(t) \in Nat /\ t \in Processes
  BY ProbeSums DEF Types, Processes
<1>3. Packet("exceeded", t, Sequence(t), QuoteChecksum(OwnChecksum(t), Sequence(t))) \in PacketSet
  BY <1>2, ProbeSums DEF Types, PacketSet, Packet
<1>4. wire' \subseteq PacketSet /\ inbox' \in [Processes -> Seq(PacketSet)]
  BY <1>2, <1>3, RequestTypes DEF Probe, SendTo, Types
<1>5. IcmpTypes'
  BY <1>1, <1>4 DEF Types, IcmpTypes
<1>6. TraceTypes'
  BY <1>1, <1>2 DEF Types, TraceTypes
<1> QED BY <1>1, <1>5, <1>6, PingKept DEF Types

\* ProbeFails keeps the types.
LEMMA ProbeFailsTypes ==
  ASSUME Types, NEW t \in Tracers, ProbeFails(t), UNCHANGED pingOwn
  PROVE  Types'
<1>1. /\ tpc[t] = "send" /\ tpc' = [tpc EXCEPT ![t] = "end"] /\ Quit(t) /\ open' = open \ {t}
      /\ UNCHANGED <<distance, started, wire, hop, field, shown>>
  BY DEF ProbeFails, Quit
<1>2. t \in Processes
  BY DEF Processes
<1>3. inbox' \in [Processes -> Seq(PacketSet)] /\ open' \subseteq open
  BY <1>1, <1>2, TakeTypes DEF Types
<1>4. IcmpTypes'
  BY <1>1, <1>3 DEF Types, IcmpTypes
<1>5. TraceTypes'
  BY <1>1 DEF Types, TraceTypes
<1> QED BY <1>1, <1>4, <1>5, PingKept DEF Types

\* Show keeps the types.
LEMMA ShowTypes ==
  ASSUME Types, NEW t \in Tracers, Show(t), UNCHANGED pingOwn
  PROVE  Types'
<1>1. PICK q : q = Head(inbox[t])
  OBVIOUS
<1>2. /\ tpc[t] = "receive" /\ inbox[t] # <<>>
      /\ shown' = [shown EXCEPT ![t] = Append(@, q)]
      /\ field' = [field EXCEPT ![t] = q.sum]
      /\ UNCHANGED <<distance, started, wire>>
  BY <1>1 DEF Show
<1>3. t \in Processes
  BY DEF Processes
<1>4. q \in PacketSet /\ q.sum \in Sums
  <2>1. q \in PacketSet
    BY <1>1, <1>2, <1>3, TakeTypes DEF Types
  <2> QED BY <2>1 DEF PacketSet
<1>5. /\ field' \in [Tracers -> Sums] /\ shown' \in [Tracers -> Seq(PacketSet)]
  <2>1. Append(shown[t], q) \in Seq(PacketSet)
    BY <1>4, Appends DEF Types, TraceTypes
  <2> QED BY <1>2, <1>4, <2>1 DEF Types, TraceTypes
<1>6. CASE q.kind = "reply"
  <2>1. tpc' = [tpc EXCEPT ![t] = "end"] /\ Quit(t) /\ open' = open \ {t} /\ hop' = hop
    BY <1>1, <1>6 DEF Show, Quit
  <2>2. inbox' \in [Processes -> Seq(PacketSet)] /\ open' \subseteq open
    BY <1>3, <2>1, TakeTypes DEF Types
  <2>3. IcmpTypes'
    BY <1>2, <2>2 DEF Types, IcmpTypes
  <2>4. TraceTypes'
    BY <1>2, <1>5, <2>1 DEF Types, TraceTypes
  <2> QED BY <1>2, <2>3, <2>4, PingKept DEF Types
<1>7. CASE q.kind # "reply"
  <2>1. /\ tpc' = [tpc EXCEPT ![t] = "send"] /\ Take(t) /\ open' = open
        /\ hop' = [hop EXCEPT ![t] = @ + 1]
    BY <1>1, <1>7 DEF Show, HopAfter
  <2>2. inbox' \in [Processes -> Seq(PacketSet)]
    BY <1>2, <1>3, <2>1, TakeTypes DEF Types
  <2>3. IcmpTypes'
    BY <1>2, <2>1, <2>2 DEF Types, IcmpTypes
  <2>4. hop[t] + 1 \in 1 .. MAX_HOPS + 1
    BY <1>2, MaxHopsAssumption DEF Types, TraceTypes
  <2>5. TraceTypes'
    BY <1>2, <1>5, <2>1, <2>4 DEF Types, TraceTypes
  <2> QED BY <1>2, <2>3, <2>5, PingKept DEF Types
<1> QED BY <1>6, <1>7

-----------------------------------------------------------------------------
(* The steps of Ping.                                                      *)

\* A process runs one program.
LEMMA NotATracer ==
  ASSUME NEW p \in Pingers
  PROVE  p \in Processes /\ p \notin Tracers
BY ProcessesAssumption DEF Processes

\* Who is not p has counted as before.
LEMMA OthersCounted ==
  ASSUME NEW p, NEW q \in Pingers, Counted(q), q # p,
         pc'[q] = pc[q], msg_count'[q] = msg_count[q], flag'[q] = flag[q],
         program'[q] = program[q], msg_received_count'[q] = msg_received_count[q],
         failure_count'[q] = failure_count[q]
  PROVE  Counted(q)'
BY DEF Counted, Pending

\* SIGINT keeps the types and the counts.
LEMMA InterruptTypes ==
  ASSUME Types, NEW p \in Pingers, Echo!hdfn(p), UNCHANGED traceVars
  PROVE  Types'
<1>1. /\ done' = [done EXCEPT ![p] = TRUE]
      /\ UNCHANGED <<distance, started, open, wire, inbox>>
      /\ UNCHANGED <<program, pc, msg_count, msg_received_count, failure_count, flag, astray>>
  BY DEF Echo!hdfn, Echo!icmpVars
<1>2. IcmpTypes' /\ TraceTypes'
  BY <1>1, TraceKept DEF Types, IcmpTypes
<1>3. PingTypes'
  BY <1>1 DEF Types, PingTypes
<1>4. \A q \in Pingers : Counted(q)'
  BY <1>1 DEF Types, Counted, Pending
<1> QED BY <1>2, <1>3, <1>4 DEF Types

\* Prepare keeps the types and the counts: one request more is pending.
LEMMA PrepareTypes ==
  ASSUME Types, NEW p \in Pingers, Echo!Prepare(p), UNCHANGED traceVars
  PROVE  Types'
<1>1. /\ pc[p] = "top" /\ msg_count[p] < MAX_PINGS
      /\ msg_count' = [msg_count EXCEPT ![p] = @ + 1] /\ pc' = [pc EXCEPT ![p] = "send"]
      /\ UNCHANGED <<distance, started, open, wire, inbox>>
      /\ UNCHANGED <<program, done, msg_received_count, failure_count, flag, astray>>
  BY DEF Echo!Prepare, Echo!icmpVars
<1>2. IcmpTypes' /\ TraceTypes'
  BY <1>1, TraceKept DEF Types, IcmpTypes
<1>3. msg_count[p] + 1 \in 0 .. MAX_PINGS /\ msg_count[p] \in Nat
      /\ msg_received_count[p] \in Nat /\ failure_count[p] \in Nat
  BY <1>1, Assumptions DEF Types, PingTypes, Echo!PingAssumption
<1>4. PingTypes'
  BY <1>1, <1>3 DEF Types, PingTypes
<1>5. Counted(p)'
  <2>1. /\ pc'[p] = "send" /\ msg_count'[p] = msg_count[p] + 1
        /\ UNCHANGED <<program, msg_received_count, failure_count, flag>>
    BY <1>1 DEF Types, PingTypes
  <2> QED BY <1>1, <1>3, <2>1 DEF Types, Counted, Pending
<1>6. ASSUME NEW q \in Pingers, q # p PROVE Counted(q)'
  BY <1>1, <1>6, OthersCounted DEF Types, PingTypes
<1> QED BY <1>2, <1>4, <1>5, <1>6 DEF Types

\* Send keeps the types and the counts.
LEMMA SendTypes ==
  ASSUME Types, NEW p \in Pingers, Echo!Send(p), UNCHANGED traceVars
  PROVE  Types'
<1>1. /\ pc[p] = "send" /\ Request(p, msg_count[p] - 1, PING_SUM, 64, TRUE, <<>>)
      /\ pc' = [pc EXCEPT ![p] = "receive"] /\ UNCHANGED <<distance, started, open>>
      /\ UNCHANGED <<program, done, msg_count, msg_received_count, failure_count, flag, astray>>
  BY SameRequest DEF Echo!Send, Echo!SequenceOf
<1>2. /\ msg_count[p] \in Nat /\ msg_received_count[p] \in Nat /\ failure_count[p] \in Nat
      /\ msg_received_count[p] + failure_count[p] + 1 <= msg_count[p]
  BY <1>1, Assumptions DEF Types, PingTypes, Counted, Pending, Echo!PingAssumption
<1>3. msg_count[p] - 1 \in Nat /\ PING_SUM \in Sums /\ ~ (64 < distance)
  <2>1. distance \in 0 .. 64
    BY DistancesAssumption DEF Types, IcmpTypes
  <2>2. PING_SUM \in Sums
    <3>1. PING_SUM \in Nat /\ PING_SUM < Word
      BY Assumptions DEF Echo!PingAssumption, Word
    <3> QED BY <3>1, Words DEF Sums
  <2> QED BY <1>2, <2>1, <2>2
<1>4. IcmpTypes'
  BY <1>1, <1>3, NotATracer, RequestTypes DEF Types, IcmpTypes
<1>5. TraceTypes'
  BY <1>1, TraceKept DEF Types
<1>6. PingTypes'
  BY <1>1 DEF Types, PingTypes
<1>7. Counted(p)'
  <2>1. /\ pc'[p] = "receive"
        /\ UNCHANGED <<program, msg_count, msg_received_count, failure_count, flag>>
    BY <1>1 DEF Types, PingTypes
  <2> QED BY <1>1, <2>1 DEF Types, Counted, Pending
<1>8. ASSUME NEW q \in Pingers, q # p PROVE Counted(q)'
  BY <1>1, <1>8, OthersCounted DEF Types, PingTypes
<1> QED BY <1>4, <1>5, <1>6, <1>7, <1>8 DEF Types

\* SendFails keeps the types and the counts, as ping.c remembers it in flag.
LEMMA SendFailsTypes ==
  ASSUME Types, NEW p \in Pingers, Echo!SendFails(p), UNCHANGED traceVars
  PROVE  Types'
<1>1. /\ pc[p] = "send"
      /\ UNCHANGED <<distance, started, wire>>
      /\ UNCHANGED <<program, done, msg_count, msg_received_count, failure_count, astray>>
      /\ \/ /\ program[p] = "s.cpp" /\ pc' = [pc EXCEPT ![p] = "failed"] /\ Quit(p)
            /\ open' = open \ {p} /\ flag' = flag
         \/ /\ program[p] # "s.cpp" /\ pc' = [pc EXCEPT ![p] = "receive"]
            /\ flag' = [flag EXCEPT ![p] = FALSE] /\ open' = open /\ inbox' = inbox
  BY SameTake DEF Echo!SendFails, Echo!Quit
<1>2. inbox' \in [Processes -> Seq(PacketSet)] /\ open' \subseteq open
  BY <1>1, NotATracer, TakeTypes DEF Types, IcmpTypes
<1>3. IcmpTypes'
  BY <1>1, <1>2 DEF Types, IcmpTypes
<1>4. TraceTypes'
  BY <1>1, NotATracer, TraceKept DEF Types
<1>5. PingTypes'
  BY <1>1 DEF Types, PingTypes
<1>6. Counted(p)'
  <2>1. /\ msg_count[p] \in Nat /\ msg_received_count[p] \in Nat /\ failure_count[p] \in Nat
        /\ UNCHANGED <<program, msg_count, msg_received_count, failure_count>>
    BY <1>1, Assumptions DEF Types, PingTypes, Echo!PingAssumption
  <2>2. CASE program[p] = "s.cpp"
    <3>1. pc'[p] = "failed" /\ flag' = flag
      BY <1>1, <2>2 DEF Types, PingTypes
    <3>2. flag[p] /\ msg_received_count[p] + failure_count[p] + 1 = msg_count[p]
      BY <1>1, <2>2 DEF Types, Counted, Pending
    <3> QED BY <2>1, <2>2, <3>1, <3>2 DEF Counted, Pending
  <2>3. CASE program[p] # "s.cpp"
    <3>1. pc'[p] = "receive" /\ flag'[p] = FALSE
      BY <1>1, <2>3 DEF Types, PingTypes
    <3> QED BY <1>1, <2>1, <2>3, <3>1 DEF Types, Counted, Pending
  <2> QED BY <2>2, <2>3
<1>7. ASSUME NEW q \in Pingers, q # p PROVE Counted(q)'
  BY <1>1, <1>7, OthersCounted DEF Types, PingTypes
<1> QED BY <1>3, <1>4, <1>5, <1>6, <1>7 DEF Types

\* Receive keeps the types and the counts: the pending request was answered.
LEMMA ReceiveTypes ==
  ASSUME Types, NEW p \in Pingers, Echo!Receive(p), UNCHANGED traceVars
  PROVE  Types'
<1>1. /\ pc[p] = "receive" /\ inbox[p] # <<>> /\ Take(p)
      /\ astray' = [astray EXCEPT ![p] = @ \/ ~ Echo!IsAnswer(p, Head(inbox[p]))]
      /\ msg_received_count' = [msg_received_count EXCEPT ![p] = IF flag[p] THEN @ + 1 ELSE @]
      /\ pc' = [pc EXCEPT ![p] = "top"]
      /\ UNCHANGED <<distance, started, open, wire>>
      /\ UNCHANGED <<program, done, msg_count, failure_count, flag>>
  BY SameTake DEF Echo!Receive
<1>2. IcmpTypes'
  BY <1>1, NotATracer, TakeTypes DEF Types, IcmpTypes
<1>3. TraceTypes'
  BY <1>1, TraceKept DEF Types
<1>4. /\ msg_count[p] \in Nat /\ msg_received_count[p] \in Nat /\ failure_count[p] \in Nat
  BY Assumptions DEF Types, PingTypes, Echo!PingAssumption
<1>5. PingTypes'
  <2>1. astray' \in [Pingers -> BOOLEAN]
    BY <1>1 DEF Types, PingTypes, Echo!IsAnswer
  <2> QED BY <1>1, <1>4, <2>1 DEF Types, PingTypes
<1>6. Counted(p)'
  <2>1. /\ pc'[p] = "top" /\ UNCHANGED <<program, msg_count, failure_count, flag>>
        /\ msg_received_count'[p] = IF flag[p] THEN msg_received_count[p] + 1
                                    ELSE msg_received_count[p]
    BY <1>1 DEF Types, PingTypes
  <2> QED BY <1>1, <1>4, <2>1 DEF Types, Counted, Pending
<1>7. ASSUME NEW q \in Pingers, q # p PROVE Counted(q)'
  BY <1>1, <1>7, OthersCounted DEF Types, PingTypes
<1> QED BY <1>2, <1>3, <1>5, <1>6, <1>7 DEF Types

\* Timeout keeps the types and the counts: the pending request was waited for in vain.
LEMMA TimeoutTypes ==
  ASSUME Types, NEW p \in Pingers, Echo!Timeout(p), UNCHANGED traceVars
  PROVE  Types'
<1>1. /\ pc[p] = "receive"
      /\ failure_count' = [failure_count EXCEPT ![p] = @ + 1]
      /\ UNCHANGED <<distance, started, wire>>
      /\ UNCHANGED <<program, done, msg_count, msg_received_count, flag, astray>>
      /\ \/ /\ pc' = [pc EXCEPT ![p] = "failed"] /\ Quit(p) /\ open' = open \ {p}
         \/ /\ ~ (program[p] = "s.cpp" /\ failure_count'[p] >= MAX_FAILURES)
            /\ pc' = [pc EXCEPT ![p] = "top"] /\ open' = open /\ inbox' = inbox
  BY SameTake DEF Echo!Timeout, Echo!Failure, Echo!Quit
<1>2. inbox' \in [Processes -> Seq(PacketSet)] /\ open' \subseteq open
  BY <1>1, NotATracer, TakeTypes DEF Types, IcmpTypes
<1>3. IcmpTypes'
  BY <1>1, <1>2 DEF Types, IcmpTypes
<1>4. TraceTypes'
  BY <1>1, NotATracer, TraceKept DEF Types
<1>5. /\ msg_count[p] \in Nat /\ msg_received_count[p] \in Nat /\ failure_count[p] \in Nat
      /\ MAX_FAILURES \in Nat
  BY Assumptions DEF Types, PingTypes, Echo!PingAssumption
<1>6. PingTypes'
  BY <1>1, <1>5 DEF Types, PingTypes
<1>7. Counted(p)'
  <2>1. /\ UNCHANGED <<program, msg_count, msg_received_count, flag>>
        /\ failure_count'[p] = failure_count[p] + 1
        /\ \/ pc'[p] = "failed"
           \/ pc'[p] = "top" /\ ~ (program[p] = "s.cpp" /\ failure_count'[p] >= MAX_FAILURES)
    BY <1>1 DEF Types, PingTypes
  <2> QED BY <1>1, <1>5, <2>1 DEF Types, Counted, Pending
<1>8. ASSUME NEW q \in Pingers, q # p PROVE Counted(q)'
  BY <1>1, <1>8, OthersCounted DEF Types, PingTypes
<1> QED BY <1>3, <1>4, <1>6, <1>7, <1>8 DEF Types

\* Statistics keeps the types and the counts.
LEMMA StatisticsTypes ==
  ASSUME Types, NEW p \in Pingers, Echo!Statistics(p), UNCHANGED traceVars
  PROVE  Types'
<1>1. /\ pc[p] = "top" /\ Quit(p) /\ open' = open \ {p}
      /\ pc' = [pc EXCEPT ![p] = IF msg_count[p] = 0 THEN "fault" ELSE "end"]
      /\ UNCHANGED <<distance, started, wire>>
      /\ UNCHANGED <<program, done, msg_count, msg_received_count, failure_count, flag, astray>>
  BY SameTake DEF Echo!Statistics, Echo!Quit
<1>2. IcmpTypes'
  BY <1>1, NotATracer, TakeTypes DEF Types, IcmpTypes
<1>3. TraceTypes'
  BY <1>1, NotATracer, TraceKept DEF Types
<1>4. msg_count[p] \in Nat
  BY Assumptions DEF Types, PingTypes, Echo!PingAssumption
<1>5. PingTypes'
  BY <1>1 DEF Types, PingTypes
<1>6. Counted(p)'
  <2>1. /\ pc'[p] = IF msg_count[p] = 0 THEN "fault" ELSE "end"
        /\ UNCHANGED <<program, msg_count, msg_received_count, failure_count, flag>>
    BY <1>1 DEF Types, PingTypes
  <2> QED BY <1>1, <1>4, <2>1 DEF Types, Counted, Pending
<1>7. ASSUME NEW q \in Pingers, q # p PROVE Counted(q)'
  BY <1>1, <1>7, OthersCounted DEF Types, PingTypes
<1> QED BY <1>2, <1>3, <1>5, <1>6, <1>7 DEF Types

\* Every step keeps the types and the counts.
LEMMA TypesStep ==
  ASSUME Types, suite = "icmp", MCNext
  PROVE  Types'
<1>1. ASSUME NEW p \in Pingers, Echo!hdfn(p) \/ Echo!Runs(p), UNCHANGED traceVars PROVE Types'
  BY <1>1, InterruptTypes, PrepareTypes, SendTypes, SendFailsTypes, ReceiveTypes, TimeoutTypes,
     StatisticsTypes DEF Echo!Runs
<1>2. ASSUME NEW t \in Tracers, Trace(t), UNCHANGED pingOwn PROVE Types'
  BY <1>2, ProbeTypes, ProbeFailsTypes, ShowTypes DEF Trace
<1>3. ASSUME Network, UNCHANGED <<traceVars, pingOwn>> PROVE Types'
  BY <1>3, NetworkTypes
<1> QED BY <1>1, <1>2, <1>3
        DEF MCNext, PingStep, TraceStep, NetworkStep, PathStep, Icmp, InPath

\* Which processes are run, and where the destination is, stays.
LEMMA StartedStays ==
  ASSUME MCNext
  PROVE  suite' = suite /\ started' = started /\ distance' = distance
<1>1. \A p : Echo!Runs(p) \/ Echo!hdfn(p) => started' = started /\ distance' = distance
  BY DEF Echo!Runs, Echo!hdfn, Echo!icmpVars, Echo!Prepare, Echo!Send, Echo!SendFails, Echo!Receive,
         Echo!Timeout, Echo!Statistics
<1>2. \A t : Trace(t) => started' = started /\ distance' = distance
  BY DEF Trace, Probe, ProbeFails, Show
<1>3. Network => started' = started /\ distance' = distance
  BY DEF Network, Deliver, Lose
<1> QED BY <1>1, <1>2, <1>3
        DEF MCNext, PingStep, TraceStep, NetworkStep, PathStep, Icmp, InPath, icmpVars

\* And so does no step.
LEMMA TypesStutter ==
  ASSUME Types, UNCHANGED allVars
  PROVE  Types'
<1>1. /\ UNCHANGED icmpVars /\ UNCHANGED traceVars /\ UNCHANGED pingOwn
  BY DEF allVars
<1>2. IcmpTypes' /\ started' = started /\ open' = open
  BY <1>1 DEF Types, IcmpTypes, icmpVars
<1> QED BY <1>1, <1>2, TraceKept, PingKept DEF Types

\* These types are those of the runs.
LEMMA TypesSuffice == Types => Echo!TypeOK /\ TraceTypeOK
<1> SUFFICES ASSUME Types PROVE Echo!TypeOK /\ TraceTypeOK
  OBVIOUS
<1>1. TraceTypeOK
  BY MaxHopsAssumption DEF Types, TraceTypes, TraceTypeOK, Sums
<1>2. ASSUME NEW p \in Pingers
      PROVE  msg_received_count[p] + failure_count[p] \in 0 .. msg_count[p]
  <2>1. /\ msg_count[p] \in Nat /\ msg_received_count[p] \in Nat /\ failure_count[p] \in Nat
    BY Assumptions DEF Types, PingTypes, Echo!PingAssumption
  <2> QED BY <2>1 DEF Types, Counted, Pending
<1>3. Echo!TypeOK
  BY <1>2 DEF Types, IcmpTypes, PingTypes, Echo!TypeOK, Echo!Processes, Processes
<1> QED BY <1>1, <1>3

\* In whole numbers, what is lost of n is all of it or nothing.
LEMMA WholeLoss ==
  ASSUME NEW n \in Nat \ {0}, NEW r \in Nat, r <= n
  PROVE  ((n - r) \div n) * 100 = IF r = 0 THEN 100 ELSE 0
<1>1. CASE r = 0
  <2>1. n \div n = 1
    BY SMT
  <2> QED BY <1>1, <2>1
<1>2. CASE r # 0
  <2>1. PICK d \in Nat : d = n - r /\ d < n
    BY <1>2
  <2>2. d \div n = 0
    BY <2>1, SMT
  <2> QED BY <1>2, <2>1, <2>2
<1> QED BY <1>1, <1>2

\* Where the process ends nothing is pending, so that the counts add up.
LEMMA TypesAccount == Types => Echo!Accounted
<1> SUFFICES ASSUME Types, NEW p \in Pingers, pc[p] = "end"
             PROVE  /\ flag[p] => msg_count[p] = msg_received_count[p] + failure_count[p]
                    /\ program[p] = "s.cpp" => flag[p] /\ failure_count[p] < MAX_FAILURES
                    /\ Echo!Loss(p) = IF msg_received_count[p] = 0 THEN 100 ELSE 0
  BY DEF Echo!Accounted
<1>1. /\ msg_count[p] \in Nat \ {0} /\ msg_received_count[p] \in Nat /\ failure_count[p] \in Nat
      /\ msg_received_count[p] <= msg_count[p]
      /\ flag[p] => msg_count[p] = msg_received_count[p] + failure_count[p]
      /\ program[p] = "s.cpp" => flag[p] /\ failure_count[p] < MAX_FAILURES
  <2>1. /\ msg_count[p] \in Nat /\ msg_received_count[p] \in Nat /\ failure_count[p] \in Nat
    BY Assumptions DEF Types, PingTypes, Echo!PingAssumption
  <2>2. Pending(p) = 0
    BY DEF Pending
  <2> QED BY <2>1, <2>2 DEF Types, Counted
<1> QED BY <1>1, WholeLoss DEF Echo!Loss

-----------------------------------------------------------------------------
(* A process of Ping that is alone.                                        *)

\* The answer to its last request, ...
Answer(p) == Packet("reply", p, msg_count[p] - 1, PING_SUM)

\* ... which is all that can be under way.
Quiet(p) ==
  /\ astray[p] = FALSE
  /\ pc[p] \in {"top", "send"} => wire = {} /\ inbox[p] = <<>>
  /\ pc[p] = "receive" => \/ wire = {} /\ inbox[p] = <<>>
                          \/ wire = {Answer(p)} /\ inbox[p] = <<>>
                          \/ wire = {} /\ inbox[p] = <<Answer(p)>>

StepInv == \A p \in Pingers :
  (started = {p} /\ distance > 0 /\ failure_count[p] = 0) => Quiet(p)

\* Nothing is under way at the start.
LEMMA StepInvInit ==
  ASSUME Echo!Init, InitTrace
  PROVE  StepInv
BY SameInit, NotATracer DEF Echo!Init, InitIcmp, StepInv, Quiet

\* One packet is put into an empty socket, or taken from it.
LEMMA OneItem ==
  ASSUME NEW x
  PROVE  /\ <<>> \o <<x>> = <<x>> /\ Head(<<x>>) = x /\ Tail(<<x>>) = <<>> /\ <<x>> # <<>>
OBVIOUS

\* What any step does to a process that is alone.
LEMMA QuietStep ==
  ASSUME Types, suite = "icmp", MCNext, NEW p \in Pingers, started = {p}, distance > 0,
         failure_count'[p] = 0, failure_count[p] = 0 => Quiet(p)
  PROVE  Quiet(p)'
<1> USE DEF Quiet
<1>1. /\ \A t \in Tracers : tpc[t] = "off"
      /\ \A q \in Pingers : q # p => pc[q] = "off"
      /\ distance # 0 /\ p \in Processes /\ failure_count[p] \in Nat
  <2>1. p \in Processes /\ p \notin Tracers
    BY NotATracer
  <2>2. distance # 0
    BY DistancesAssumption DEF Types, IcmpTypes
  <2> QED BY <2>1, <2>2 DEF Types, TraceTypes, PingTypes
<1>2. ASSUME NEW t \in Tracers, Trace(t) PROVE FALSE
  BY <1>1, <1>2 DEF Trace, Probe, ProbeFails, Show
<1>3. CASE Network /\ UNCHANGED <<traceVars, pingOwn>>
  <2>1. UNCHANGED <<pc, astray, msg_count, failure_count>> /\ Quiet(p) /\ Answer(p)' = Answer(p)
    BY <1>3 DEF pingOwn, Answer
  <2>2. CASE Lose
    BY <2>1, <2>2 DEF Lose
  <2>3. CASE Deliver
    <3>1. PICK q \in wire : wire' = wire \ {q} /\ ToAll(<<q>>)
      BY <2>3 DEF Deliver
    <3>2. pc[p] \notin {"top", "send"}
      BY <2>1, <3>1
    <3>3. ASSUME pc[p] = "receive"
          PROVE  wire' = {} /\ (inbox'[p] = <<>> \/ inbox'[p] = <<Answer(p)>>)
      <4>1. wire = {Answer(p)} /\ inbox[p] = <<>> /\ q = Answer(p)
        BY <2>1, <3>1, <3>3
      <4>2. inbox'[p] = IF p \in open THEN inbox[p] \o <<q>> ELSE <<>>
        BY <1>1, <3>1 DEF ToAll
      <4> QED BY <3>1, <4>1, <4>2, OneItem
    <3> QED BY <2>1, <3>2, <3>3
  <2> QED BY <1>3, <2>2, <2>3 DEF Network
<1>4. ASSUME NEW q \in Pingers, Echo!hdfn(q) \/ Echo!Runs(q) PROVE q = p
  BY <1>1, <1>4 DEF Echo!hdfn, Echo!Running, Echo!Runs, Echo!Prepare, Echo!Send, Echo!SendFails,
                    Echo!Receive, Echo!Timeout, Echo!Statistics
<1>5. CASE Echo!hdfn(p)
  BY <1>5 DEF Echo!hdfn, Echo!icmpVars, Answer
<1>6. CASE Echo!Prepare(p)
  BY <1>6 DEF Echo!Prepare, Echo!icmpVars, Types, PingTypes
<1>7. CASE Echo!Send(p)
  <2>1. /\ pc[p] = "send" /\ Request(p, msg_count[p] - 1, PING_SUM, 64, TRUE, <<>>)
        /\ pc' = [pc EXCEPT ![p] = "receive"]
        /\ UNCHANGED <<msg_count, failure_count, astray>>
    BY <1>7, SameRequest DEF Echo!Send, Echo!SequenceOf
  <2>2. wire = {} /\ inbox[p] = <<>> /\ astray[p] = FALSE
    BY <2>1
  <2>3. ~ (64 < distance)
    BY DistancesAssumption DEF Types, IcmpTypes
  <2>4. wire' = {Answer(p)} /\ inbox' = inbox
    BY <1>1, <2>1, <2>2, <2>3 DEF Request, Answer
  <2>5. pc'[p] = "receive" /\ Answer(p)' = Answer(p)
    BY <2>1 DEF Types, PingTypes, Answer
  <2> QED BY <2>1, <2>2, <2>4, <2>5
<1>8. CASE Echo!SendFails(p)
  BY <1>8, SameTake DEF Echo!SendFails, Types, PingTypes
<1>9. CASE Echo!Receive(p)
  <2>1. /\ pc[p] = "receive" /\ inbox[p] # <<>> /\ inbox' = [inbox EXCEPT ![p] = Tail(@)]
        /\ astray' = [astray EXCEPT ![p] = @ \/ ~ Echo!IsAnswer(p, Head(inbox[p]))]
        /\ pc' = [pc EXCEPT ![p] = "top"] /\ UNCHANGED <<wire, failure_count>>
    BY <1>9 DEF Echo!Receive, Echo!Take
  <2>2. wire = {} /\ inbox[p] = <<Answer(p)>> /\ astray[p] = FALSE
    BY <2>1
  <2>3. Head(inbox[p]) = Answer(p) /\ Tail(inbox[p]) = <<>>
    BY <2>2, OneItem
  <2>4. Echo!IsAnswer(p, Answer(p))
    BY DEF Echo!IsAnswer, Answer, Packet
  <2>5. astray'[p] = FALSE /\ pc'[p] = "top" /\ inbox'[p] = <<>>
    BY <1>1, <2>1, <2>2, <2>3, <2>4 DEF Types, PingTypes, IcmpTypes
  <2> QED BY <2>1, <2>2, <2>5
<1>10. CASE Echo!Timeout(p)
  <2>1. failure_count'[p] = failure_count[p] + 1
    BY <1>10 DEF Echo!Timeout, Echo!Failure, Types, PingTypes
  <2> QED BY <1>1, <2>1
<1>11. CASE Echo!Statistics(p)
  BY <1>11 DEF Echo!Statistics, Types, PingTypes
<1> QED BY <1>2, <1>3, <1>4, <1>5, <1>6, <1>7, <1>8, <1>9, <1>10, <1>11
        DEF MCNext, PingStep, TraceStep, NetworkStep, PathStep, Icmp, InPath, Echo!Runs

\* No step leaves a process that is alone out of step.
LEMMA StepInvStep ==
  ASSUME Types, suite = "icmp", StepInv, [MCNext]_allVars
  PROVE  StepInv'
<1>1. CASE UNCHANGED allVars
  BY <1>1 DEF allVars, icmpVars, pingOwn, StepInv, Quiet, Answer
<1>2. CASE MCNext
  <2>1. started' = started /\ distance' = distance
    BY <1>2, StartedStays
  <2> QED BY <1>2, <2>1, QuietStep DEF StepInv
<1> QED BY <1>1, <1>2

\* So it never receives a packet that is not its answer.
LEMMA StepInvSuffices == StepInv => Echo!InStep
BY DEF StepInv, Quiet, Echo!InStep

-----------------------------------------------------------------------------
(* Requests that the destination drops, whoever else runs.                 *)

\* What the buffer has in the place of the checksum before the request of hop h, if the
\* packets of other processes have been there.
Band(h, f) ==
  /\ f \in Nat
  /\ h = 1 => f = 0
  /\ h > 1 => 60412 <= f /\ f <= 65522 /\ (h <= 64 => 65515 - 81 * (h - 1) <= f)

\* What a packet of an earlier hop leaves in the buffer.
LEMMA FieldInBand ==
  ASSUME NEW s \in Nat, NEW h \in Nat, 2 <= s, s <= 64, s <= h, NEW f, FieldAt(s, f)
  PROVE  Band(h, f)
<1>1. f \in Nat /\ 65515 - 81 * (s - 1) <= f /\ f <= 65522
  BY DEF FieldAt
<1>2. h > 1 /\ 60412 <= f
  BY <1>1
<1>3. 65515 - 81 * (h - 1) <= f
  BY <1>1
<1> QED BY <1>1, <1>2, <1>3 DEF Band

\* The destination does not accept the request of any hop with it.
LEMMA BandRejected ==
  ASSUME NEW h \in Nat, 1 <= h, h < 256, NEW f, Band(h, f)
  PROVE  /\ ~ Valid(Checksum(ECHO + f), h + 1)
         /\ h < 64 => FieldAt(h + 1, QuoteChecksum(Checksum(ECHO + f), h + 1))
<1>1. CASE h <= 64
  <2>1. FieldAt(h, f)
    BY <1>1 DEF Band, FieldAt
  <2> QED BY <1>1, <2>1, RequestRejected
<1>2. CASE h > 64
  <2>1. f \in Nat /\ 60412 <= f /\ f <= 65522
    BY <1>2 DEF Band
  <2>2. PICK c : c = Checksum(ECHO + f)
    OBVIOUS
  <2>3. c = 65527 - f
    <3>1. ECHO + f \in Nat /\ ECHO + f < Word
      BY <2>1, SMT DEF ECHO, Word
    <3>2. c = (Word - 1) - (ECHO + f)
      BY <2>2, <3>1, ChecksumOfSmall
    <3> QED BY <2>1, <3>2, SMT DEF ECHO, Word
  <2>4. PICK s \in Nat : s = ECHO + c + (h + 1) /\ s < Word - 1
    BY <2>1, <2>3, SMT DEF ECHO, Word
  <2>5. Checksum(s) = (Word - 1) - s
    BY <2>4, ChecksumOfSmall, Words
  <2>6. (Word - 1) - s # 0
    BY <2>4, Words
  <2> QED BY <1>2, <2>2, <2>4, <2>5, <2>6 DEF Valid, Accepts
<1> QED BY <1>1, <1>2

\* On the host itself, its own requests are all that a process receives.
LEMMA OwnRejected ==
  ASSUME NEW h \in Nat, 1 <= h, h < 256, NEW f \in {0, 65527}
  PROVE  /\ Checksum(ECHO + f) \in {0, 65527}
         /\ ~ Valid(Checksum(ECHO + f), h + 1)
<1>1. Checksum(ECHO + 0) = 65527
  BY ChecksumOfSmall, SMT DEF ECHO, Word
<1>2. Checksum(ECHO + 65527) = 0
  BY ChecksumOfSmall, SMT DEF ECHO, Word
<1>3. Checksum(ECHO + 0 + (h + 1)) # 0
  <2>1. PICK s \in Nat : s = ECHO + 0 + (h + 1) /\ s < Word - 1
    BY SMT DEF ECHO, Word
  <2>2. Checksum(s) = (Word - 1) - s
    BY <2>1, ChecksumOfSmall, Words
  <2> QED BY <2>1, <2>2, Words
<1>4. Checksum(ECHO + 65527 + (h + 1)) # 0
  <2>1. PICK s \in Nat : s = ECHO + 65527 + (h + 1) /\ Word <= s /\ s < 2 * Word - 2
    BY SMT DEF ECHO, Word
  <2>2. s < 2 * Word - 1 /\ 2 * (Word - 1) - s # 0
    BY <2>1, Words
  <2>3. Checksum(s) = 2 * (Word - 1) - s
    BY <2>1, <2>2, ChecksumOfSmall
  <2> QED BY <2>1, <2>2, <2>3
<1>5. CASE f = 0
  BY <1>1, <1>4, <1>5 DEF Valid, Accepts
<1>6. CASE f = 65527
  BY <1>2, <1>3, <1>6 DEF Valid, Accepts
<1> QED BY <1>5, <1>6

\* What a process receives if the destination is elsewhere: an answer to Ping, or a router's
\* packet, whose checksum keeps the next request as invalid as the first.
FarPacket(q) ==
  \/ q.kind = "reply" /\ q.of \in Pingers
  \/ q.kind = "exceeded" /\ 2 <= q.seq /\ q.seq <= 64 /\ FieldAt(q.seq, q.sum)

\* The packets that have arrived at a process, and the first request.
Progress(t) == hop[t] + Len(inbox[t])

Listening == Tracers \cap open

\* Every packet arrives at all that are open, so that all have received as many.  Hence a
\* packet that one process has caused is never from a later hop than the other has got to when
\* it takes it: the buffer stays in the band of its own hop.
Far ==
  /\ \A q \in wire : FarPacket(q)
  /\ \A x \in Processes : \A i \in DOMAIN inbox[x] : FarPacket(inbox[x][i])
  /\ \A t, u \in Listening : Progress(t) = Progress(u)
  /\ \A t \in Listening : \A q \in wire : q.kind = "exceeded" => q.seq <= Progress(t) + 1
  /\ \A t \in Listening : \A i \in DOMAIN inbox[t] :
       inbox[t][i].kind = "exceeded" => inbox[t][i].seq <= hop[t] + i
  /\ \A t \in Tracers : tpc[t] = "send" => Band(hop[t], field[t])

\* What a process receives if the host is the destination and Ping is not run.
NearPacket(q) == q.kind = "echo" /\ q.sum \in {0, 65527}

Near ==
  /\ wire = {}
  /\ \A x \in Processes : \A i \in DOMAIN inbox[x] : NearPacket(inbox[x][i])
  /\ \A t \in Tracers : field[t] \in {0, 65527}

AnswerInv ==
  /\ distance # 0 => Far
  /\ distance = 0 /\ started \subseteq Tracers => Near
  /\ NeverAnswered

\* Nothing has been received at the start.
LEMMA AnswerInit ==
  ASSUME Echo!Init, InitTrace
  PROVE  AnswerInv
<1>1. InitIcmp
  BY SameInit DEF Echo!Init
<1>2. /\ wire = {} /\ inbox = [p \in Processes |-> <<>>] /\ DOMAIN <<>> = {} /\ Len(<<>>) = 0
      /\ hop = [t \in Tracers |-> 1] /\ field = [t \in Tracers |-> 0]
      /\ shown = [t \in Tracers |-> <<>>]
  BY <1>1 DEF InitIcmp, InitTrace
<1>3. \A t \in Tracers : Progress(t) = 1 /\ Band(hop[t], field[t])
  BY <1>2 DEF Progress, Band, Processes
<1> QED BY <1>2, <1>3 DEF AnswerInv, Far, Near, NeverAnswered, Listening, Processes

\* The state of a process of TraceRoute, and the packets in its socket.
LEMMA Positions ==
  ASSUME Types, NEW t \in Tracers
  PROVE  /\ t \in Processes /\ hop[t] \in Nat /\ 1 <= hop[t] /\ Len(inbox[t]) \in Nat
         /\ Progress(t) \in Nat /\ hop[t] <= Progress(t)
         /\ inbox[t] \in Seq(PacketSet) /\ DOMAIN inbox[t] = 1 .. Len(inbox[t])
         /\ tpc[t] \in {"send", "receive"} => t \in Listening
         /\ hop[t] <= MAX_HOPS => Ttl(hop[t]) = hop[t] /\ hop[t] < 256
<1>1. t \in Processes /\ hop[t] \in 1 .. MAX_HOPS + 1
  BY DEF Types, TraceTypes, Processes
<1>2. hop[t] \in Nat /\ 1 <= hop[t]
  BY <1>1, MaxHopsAssumption
<1>3. inbox[t] \in Seq(PacketSet)
  BY <1>1 DEF Types, IcmpTypes
<1>4. Len(inbox[t]) \in Nat /\ DOMAIN inbox[t] = 1 .. Len(inbox[t])
  BY <1>3, LenProperties
<1>5. \A h \in Nat : h < 256 => h % 256 = h
  BY SMT
<1>6. hop[t] <= MAX_HOPS => Ttl(hop[t]) = hop[t] /\ hop[t] < 256
  BY <1>2, <1>5, MaxHopsAssumption DEF Ttl
<1> QED BY <1>1, <1>2, <1>3, <1>4, <1>6 DEF Types, TraceTypes, Progress, Listening

\* A step of the process x that leaves the others as far.
LEMMA FarOthers ==
  ASSUME Far, NEW x \in Processes,
         \A y \in Processes : y # x => inbox'[y] = inbox[y],
         \A t \in Tracers : t # x => hop'[t] = hop[t] /\ field'[t] = field[t] /\ tpc'[t] = tpc[t],
         Listening' \subseteq Listening,
         \A q \in wire' :
           \/ q \in wire
           \/ /\ FarPacket(q)
              /\ q.kind = "exceeded" => \A t \in Listening : q.seq <= Progress(t) + 1,
         \A i \in DOMAIN inbox'[x] : FarPacket(inbox'[x][i]),
         x \in Listening' => /\ Progress(x)' = Progress(x)
                             /\ \A i \in DOMAIN inbox'[x] :
                                  inbox'[x][i].kind = "exceeded" => inbox'[x][i].seq <= hop'[x] + i,
         x \in Tracers /\ tpc'[x] = "send" => Band(hop'[x], field'[x])
  PROVE  Far'
<1>1. \A t \in Listening' : t \in Listening /\ t \in Processes /\ t \in Tracers
  BY DEF Listening, Processes
<1>2. \A t \in Listening' : Progress(t)' = Progress(t)
  BY <1>1 DEF Progress
<1>3. \A q \in wire' : FarPacket(q)
  BY DEF Far
<1>4. ASSUME NEW y \in Processes, NEW i \in DOMAIN inbox'[y] PROVE FarPacket(inbox'[y][i])
  <2>1. CASE y = x
    BY <1>4, <2>1
  <2>2. CASE y # x
    <3>1. inbox'[y] = inbox[y]
      BY <2>2
    <3> QED BY <1>4, <3>1 DEF Far
  <2> QED BY <2>1, <2>2
<1>5. \A t, u \in Listening' : Progress(t)' = Progress(u)'
  BY <1>1, <1>2 DEF Far
<1>6. \A t \in Listening' : \A q \in wire' : q.kind = "exceeded" => q.seq <= Progress(t)' + 1
  BY <1>1, <1>2 DEF Far
<1>7. ASSUME NEW t \in Listening', NEW i \in DOMAIN inbox'[t], inbox'[t][i].kind = "exceeded"
      PROVE  inbox'[t][i].seq <= hop'[t] + i
  <2>1. CASE t = x
    BY <1>7, <2>1
  <2>2. CASE t # x
    <3>1. inbox'[t] = inbox[t] /\ hop'[t] = hop[t] /\ t \in Listening
      BY <1>1, <2>2
    <3> QED BY <1>7, <3>1 DEF Far
  <2> QED BY <2>1, <2>2
<1>8. \A t \in Tracers : tpc'[t] = "send" => Band(hop'[t], field'[t])
  BY DEF Far
<1> QED BY <1>3, <1>4, <1>5, <1>6, <1>7, <1>8 DEF Far

\* A packet that arrives, arrives at all: they stay equally far.
LEMMA FarNetwork ==
  ASSUME Types, Far, Network, UNCHANGED traceVars
  PROVE  Far'
<1>1. /\ open' = open /\ hop' = hop /\ field' = field /\ tpc' = tpc /\ Listening' = Listening
  BY DEF Network, Deliver, Lose, traceVars, Listening
<1>2. CASE Lose
  <2>1. wire' \subseteq wire /\ inbox' = inbox
    BY <1>2 DEF Lose
  <2>2. \A t \in Tracers : Progress(t)' = Progress(t)
    BY <1>1, <2>1 DEF Progress
  <2> QED BY <1>1, <2>1, <2>2 DEF Far, Listening
<1>3. CASE Deliver
  <2>1. PICK q \in wire : wire' = wire \ {q} /\ ToAll(<<q>>)
    BY <1>3 DEF Deliver
  <2>2. q \in PacketSet /\ FarPacket(q)
    BY DEF Types, IcmpTypes, Far
  <2>3. ASSUME NEW x \in Processes
        PROVE  /\ x \in open => inbox'[x] = Append(inbox[x], q)
               /\ x \notin open => inbox'[x] = <<>>
               /\ inbox[x] \in Seq(PacketSet)
    <3>1. inbox[x] \in Seq(PacketSet)
      BY DEF Types, IcmpTypes
    <3>2. Append(inbox[x], q) = inbox[x] \o <<q>>
      BY <2>2, <3>1, AppendIsConcat
    <3> QED BY <2>1, <3>1, <3>2 DEF ToAll
  <2>4. ASSUME NEW x \in Processes, NEW i \in DOMAIN inbox'[x] PROVE FarPacket(inbox'[x][i])
    <3>1. CASE x \in open
      <4>1. i \in DOMAIN Append(inbox[x], q)
        BY <2>3, <2>4, <3>1
      <4>2. \/ i \in DOMAIN inbox[x] /\ Append(inbox[x], q)[i] = inbox[x][i]
            \/ Append(inbox[x], q)[i] = q
        BY <2>2, <2>3, <4>1, Appends
      <4> QED BY <2>2, <2>3, <3>1, <4>2 DEF Far
    <3>2. CASE x \notin open
      BY <2>3, <2>4, <3>2
    <3> QED BY <3>1, <3>2
  <2>5. ASSUME NEW t \in Listening
        PROVE  /\ Progress(t)' = Progress(t) + 1 /\ Progress(t) \in Nat
               /\ \A i \in DOMAIN inbox'[t] :
                    inbox'[t][i].kind = "exceeded" => inbox'[t][i].seq <= hop[t] + i
    <3>1. t \in Tracers /\ t \in open /\ t \in Processes
      BY DEF Listening, Processes
    <3>2. /\ hop[t] \in Nat /\ Len(inbox[t]) \in Nat /\ Progress(t) = hop[t] + Len(inbox[t])
      BY <3>1, Positions DEF Progress
    <3>3. inbox'[t] = Append(inbox[t], q) /\ inbox[t] \in Seq(PacketSet)
      BY <2>3, <3>1
    <3>4. Len(inbox'[t]) = Len(inbox[t]) + 1
      BY <2>2, <3>3, Appends
    <3>5. ASSUME NEW i \in DOMAIN inbox'[t], inbox'[t][i].kind = "exceeded"
          PROVE  inbox'[t][i].seq <= hop[t] + i
      <4>1. i \in DOMAIN Append(inbox[t], q)
        BY <3>3, <3>5
      <4>2. \/ i \in DOMAIN inbox[t] /\ Append(inbox[t], q)[i] = inbox[t][i]
            \/ i = Len(inbox[t]) + 1 /\ Append(inbox[t], q)[i] = q
        BY <2>2, <3>3, <4>1, Appends
      <4>3. CASE i \in DOMAIN inbox[t] /\ Append(inbox[t], q)[i] = inbox[t][i]
        BY <3>3, <3>5, <4>3 DEF Far
      <4>4. CASE i = Len(inbox[t]) + 1 /\ Append(inbox[t], q)[i] = q
        <5>1. q.kind = "exceeded"
          BY <3>3, <3>5, <4>4
        <5>2. q.seq <= Progress(t) + 1
          BY <5>1 DEF Far
        <5>3. q.seq \in Nat
          BY <2>2 DEF PacketSet
        <5> QED BY <3>2, <3>3, <4>4, <5>2, <5>3
      <4> QED BY <4>2, <4>3, <4>4
    <3>6. Progress(t)' = hop[t] + (Len(inbox[t]) + 1)
      BY <1>1, <3>4 DEF Progress
    <3>7. Progress(t)' = Progress(t) + 1 /\ Progress(t) \in Nat
      BY <3>2, <3>6
    <3> QED BY <3>5, <3>7
  <2>6. \A t, u \in Listening' : Progress(t)' = Progress(u)'
    BY <1>1, <2>5 DEF Far
  <2>7. ASSUME NEW t \in Listening', NEW r \in wire', r.kind = "exceeded"
        PROVE  r.seq <= Progress(t)' + 1
    <3>1. r \in wire /\ t \in Listening /\ r.seq <= Progress(t) + 1
      BY <1>1, <2>1, <2>7 DEF Far
    <3>2. r.seq \in Nat
      BY <3>1 DEF Types, IcmpTypes, PacketSet
    <3> QED BY <2>5, <3>1, <3>2
  <2>8. \A r \in wire' : FarPacket(r)
    BY <2>1 DEF Far
  <2>9. \A t \in Tracers : tpc'[t] = "send" => Band(hop'[t], field'[t])
    BY <1>1 DEF Far
  <2> QED BY <1>1, <2>4, <2>5, <2>6, <2>7, <2>8, <2>9 DEF Far
<1> QED BY <1>2, <1>3 DEF Network

\* A request is one hop further than what any process has got to, at most.
LEMMA FarProbe ==
  ASSUME Types, Far, distance # 0, NEW t \in Tracers, Probe(t)
  PROVE  Far'
<1>1. /\ tpc[t] = "send" /\ hop[t] <= MAX_HOPS /\ hop' = hop /\ open' = open
      /\ field' = [field EXCEPT ![t] = OwnChecksum(t)]
      /\ tpc' = [tpc EXCEPT ![t] = "receive"] /\ Listening' = Listening
  BY DEF Probe, Listening
<1>2. /\ t \in Processes /\ hop[t] \in Nat /\ 1 <= hop[t] /\ Ttl(hop[t]) = hop[t] /\ hop[t] < 256
      /\ t \in Listening /\ Progress(t) \in Nat /\ hop[t] <= Progress(t)
  BY <1>1, Positions
<1>3. PICK s : s = OwnChecksum(t)
  OBVIOUS
<1>4. PICK r : r = Packet("exceeded", t, hop[t] + 1, QuoteChecksum(s, hop[t] + 1))
  OBVIOUS
<1>5. /\ ~ Valid(s, hop[t] + 1)
      /\ hop[t] < 64 => FieldAt(hop[t] + 1, QuoteChecksum(s, hop[t] + 1))
  <2>1. Band(hop[t], field[t])
    BY <1>1 DEF Far
  <2> QED BY <1>2, <1>3, <2>1, BandRejected DEF OwnChecksum
<1>6. /\ inbox' = inbox
      /\ wire' = wire \cup (IF hop[t] < distance THEN {r} ELSE {})
  BY <1>2, <1>3, <1>4, <1>5 DEF Probe, SendTo, Request, Sequence
<1>7. ASSUME NEW q \in wire', q \notin wire
      PROVE  FarPacket(q) /\ \A u \in Listening : q.seq <= Progress(u) + 1
  <2>1. q = r /\ hop[t] < distance
    BY <1>6, <1>7
  <2>2. hop[t] < 64
    <3>1. distance \in 0 .. 64
      BY DistancesAssumption DEF Types, IcmpTypes
    <3> QED BY <1>2, <2>1, <3>1
  <2>3. r.kind = "exceeded" /\ r.seq = hop[t] + 1 /\ r.sum = QuoteChecksum(s, hop[t] + 1)
    BY <1>4 DEF Packet
  <2>4. FarPacket(r)
    BY <1>2, <1>5, <2>2, <2>3 DEF FarPacket
  <2>5. \A u \in Listening : Progress(u) = Progress(t)
    BY <1>2 DEF Far
  <2> QED BY <1>2, <2>1, <2>3, <2>4, <2>5
<1>8. tpc'[t] = "receive" /\ Progress(t)' = Progress(t)
  BY <1>1, <1>6 DEF Types, TraceTypes, Progress
<1>9. /\ \A u \in Tracers : u # t => field'[u] = field[u] /\ tpc'[u] = tpc[u]
  BY <1>1 DEF Types, TraceTypes
<1> QED BY <1>1, <1>2, <1>6, <1>7, <1>8, <1>9, FarOthers DEF Far

\* A process that ends leaves the others as they are.
LEMMA FarEnd ==
  ASSUME Types, Far, NEW x \in Processes, Quit(x), wire' = wire, hop' = hop,
         \A t \in Tracers : t # x => field'[t] = field[t] /\ tpc'[t] = tpc[t],
         x \in Tracers => tpc'[x] = "end"
  PROVE  Far'
<1>1. /\ open' = open \ {x} /\ inbox' = [inbox EXCEPT ![x] = <<>>]
      /\ inbox'[x] = <<>> /\ \A y \in Processes : y # x => inbox'[y] = inbox[y]
  BY DEF Quit, Types, IcmpTypes
<1>2. Listening' \subseteq Listening /\ x \notin Listening'
  BY <1>1 DEF Listening
<1>3. DOMAIN <<>> = {}
  OBVIOUS
<1> QED BY <1>1, <1>2, <1>3, FarOthers

\* Trace ends when its request cannot be sent.
LEMMA FarFails ==
  ASSUME Types, Far, NEW t \in Tracers, ProbeFails(t)
  PROVE  Far'
<1>1. /\ Quit(t) /\ tpc' = [tpc EXCEPT ![t] = "end"] /\ UNCHANGED <<wire, hop, field>>
      /\ t \in Processes
  BY DEF ProbeFails, Processes
<1> QED BY <1>1, FarEnd DEF Types, TraceTypes

\* Trace shows the packet that arrived first, and goes on to the next hop.
LEMMA FarShow ==
  ASSUME Types, Far, NEW t \in Tracers, Show(t)
  PROVE  Far'
<1>1. PICK q : q = Head(inbox[t])
  OBVIOUS
<1>2. /\ tpc[t] = "receive" /\ inbox[t] # <<>> /\ wire' = wire
      /\ field' = [field EXCEPT ![t] = q.sum]
  BY <1>1 DEF Show
<1>3. /\ t \in Processes /\ hop[t] \in Nat /\ 1 <= hop[t] /\ t \in Listening
      /\ inbox[t] \in Seq(PacketSet)
  BY <1>2, Positions
<1>4. CASE q.kind = "reply"
  <2>1. tpc' = [tpc EXCEPT ![t] = "end"] /\ Quit(t) /\ hop' = hop
    BY <1>1, <1>4 DEF Show
  <2> QED BY <1>2, <1>3, <2>1, FarEnd DEF Types, TraceTypes
<1>5. CASE q.kind # "reply"
  <2>1. /\ tpc' = [tpc EXCEPT ![t] = "send"] /\ inbox' = [inbox EXCEPT ![t] = Tail(@)]
        /\ hop' = [hop EXCEPT ![t] = @ + 1] /\ open' = open
    BY <1>1, <1>5 DEF Show, Take, HopAfter
  <2>2. PICK old \in Seq(PacketSet) : old = inbox[t]
    BY <1>3
  <2>3. /\ q = old[1] /\ 1 \in DOMAIN old /\ Len(Tail(old)) = Len(old) - 1
        /\ Len(old) \in Nat \ {0}
        /\ \A k \in DOMAIN Tail(old) :
             k + 1 \in DOMAIN old /\ Tail(old)[k] = old[k + 1] /\ k \in Nat
    BY <1>1, <1>2, <2>2, Tails
  <2>4. /\ \A i \in DOMAIN old : FarPacket(old[i])
        /\ \A i \in DOMAIN old : old[i].kind = "exceeded" => old[i].seq <= hop[t] + i
    BY <1>3, <2>2 DEF Far
  <2>5. /\ inbox'[t] = Tail(old) /\ hop'[t] = hop[t] + 1 /\ field'[t] = q.sum
        /\ Listening' = Listening
    BY <1>2, <1>3, <2>1, <2>2 DEF Types, TraceTypes, IcmpTypes, Listening
  <2>6. Band(hop'[t], field'[t])
    <3>1. q.kind = "exceeded" /\ 2 <= q.seq /\ q.seq <= 64 /\ FieldAt(q.seq, q.sum)
      BY <1>5, <2>3, <2>4 DEF FarPacket
    <3>2. q.seq <= hop[t] + 1
      BY <2>3, <2>4, <3>1
    <3>3. q.seq \in Nat
      <4>1. q \in PacketSet
        BY <1>1, <1>2, <2>2, Tails
      <4> QED BY <4>1 DEF PacketSet
    <3> QED BY <1>3, <2>5, <3>1, <3>2, <3>3, FieldInBand
  <2>7. Progress(t)' = Progress(t)
    <3>1. Progress(t)' = (hop[t] + 1) + (Len(old) - 1) /\ Progress(t) = hop[t] + Len(old)
      BY <2>2, <2>3, <2>5 DEF Progress
    <3>2. \A m \in Nat, n \in Nat \ {0} : (m + 1) + (n - 1) = m + n
      OBVIOUS
    <3> QED BY <1>3, <2>3, <3>1, <3>2
  <2>8. \A i \in DOMAIN inbox'[t] : FarPacket(inbox'[t][i])
    BY <2>3, <2>4, <2>5
  <2>9. ASSUME NEW i \in DOMAIN inbox'[t], inbox'[t][i].kind = "exceeded"
        PROVE  inbox'[t][i].seq <= hop'[t] + i
    <3>1. i + 1 \in DOMAIN old /\ inbox'[t][i] = old[i + 1] /\ i \in Nat
      BY <2>3, <2>5, <2>9
    <3>2. old[i + 1].seq <= hop[t] + (i + 1)
      BY <2>4, <2>9, <3>1
    <3>3. \A m, n \in Nat : m + (n + 1) = m + 1 + n
      OBVIOUS
    <3> QED BY <1>3, <2>5, <3>1, <3>2, <3>3
  <2>10. /\ \A y \in Processes : y # t => inbox'[y] = inbox[y]
         /\ \A u \in Tracers : u # t => hop'[u] = hop[u] /\ field'[u] = field[u] /\ tpc'[u] = tpc[u]
    BY <1>2, <2>1 DEF Types, TraceTypes, IcmpTypes
  <2> QED BY <1>2, <1>3, <2>5, <2>6, <2>7, <2>8, <2>9, <2>10, FarOthers
<1> QED BY <1>4, <1>5

\* Ping sends requests that are answered by the destination, for itself.
LEMMA FarPing ==
  ASSUME Types, Far, distance # 0, NEW p \in Pingers, Echo!hdfn(p) \/ Echo!Runs(p),
         UNCHANGED traceVars
  PROVE  Far'
<1>1. p \in Processes /\ p \notin Tracers /\ hop' = hop /\ field' = field /\ tpc' = tpc
  BY NotATracer DEF traceVars
<1>2. CASE Quit(p) /\ wire' = wire
  BY <1>1, <1>2, FarEnd
<1>3. CASE open' = open /\ wire' = wire /\ inbox' = inbox
  <2>1. Listening' = Listening /\ \A t \in Tracers : Progress(t)' = Progress(t)
    BY <1>1, <1>3 DEF Listening, Progress
  <2> QED BY <1>1, <1>3, <2>1 DEF Far, Listening
<1>4. CASE open' = open /\ wire' = wire /\ inbox[p] # <<>> /\ Take(p)
  <2>1. PICK old \in Seq(PacketSet) : old = inbox[p]
    BY <1>1 DEF Types, IcmpTypes
  <2>2. \A k \in DOMAIN Tail(old) : k + 1 \in DOMAIN old /\ Tail(old)[k] = old[k + 1]
    BY <1>4, <2>1, Tails
  <2>3. inbox'[p] = Tail(old) /\ \A y \in Processes : y # p => inbox'[y] = inbox[y]
    BY <1>1, <1>4, <2>1 DEF Take, Types, IcmpTypes
  <2>4. \A i \in DOMAIN inbox'[p] : FarPacket(inbox'[p][i])
    BY <1>1, <2>1, <2>2, <2>3 DEF Far
  <2>5. Listening' = Listening /\ p \notin Listening
    BY <1>1, <1>4 DEF Listening
  <2> QED BY <1>1, <1>4, <2>3, <2>4, <2>5, FarOthers
<1>5. CASE open' = open /\ Request(p, msg_count[p] - 1, PING_SUM, 64, TRUE, <<>>)
  <2>1. ~ (64 < distance)
    BY DistancesAssumption DEF Types, IcmpTypes
  <2>2. /\ inbox' = inbox
        /\ wire' = wire \cup {Packet("reply", p, msg_count[p] - 1, PING_SUM)}
    BY <1>5, <2>1 DEF Request
  <2>3. /\ FarPacket(Packet("reply", p, msg_count[p] - 1, PING_SUM))
        /\ Packet("reply", p, msg_count[p] - 1, PING_SUM).kind = "reply"
    BY DEF FarPacket, Packet
  <2>4. Listening' = Listening /\ p \notin Listening
    BY <1>1, <1>5 DEF Listening
  <2>5. \A i \in DOMAIN inbox'[p] : FarPacket(inbox'[p][i])
    BY <1>1, <2>2 DEF Far
  <2> QED BY <1>1, <2>2, <2>3, <2>4, <2>5, FarOthers
<1>6. CASE Echo!hdfn(p) \/ Echo!Prepare(p)
  BY <1>3, <1>6 DEF Echo!hdfn, Echo!Prepare, Echo!icmpVars
<1>7. CASE Echo!Send(p)
  BY <1>5, <1>7, SameRequest DEF Echo!Send, Echo!SequenceOf
<1>8. CASE Echo!SendFails(p)
  BY <1>2, <1>3, <1>8, SameTake DEF Echo!SendFails
<1>9. CASE Echo!Receive(p)
  BY <1>4, <1>9, SameTake DEF Echo!Receive
<1>10. CASE Echo!Timeout(p)
  BY <1>2, <1>3, <1>10, SameTake DEF Echo!Timeout, Echo!Failure
<1>11. CASE Echo!Statistics(p)
  BY <1>2, <1>11, SameTake DEF Echo!Statistics
<1> QED BY <1>6, <1>7, <1>8, <1>9, <1>10, <1>11 DEF Echo!Runs

\* On the host itself, without Ping, there are only requests.
LEMMA NearStep ==
  ASSUME Types, Near, distance = 0, started \subseteq Tracers, suite = "icmp", MCNext
  PROVE  Near'
<1>1. ASSUME NEW p \in Pingers, Echo!hdfn(p) \/ Echo!Runs(p) PROVE FALSE
  <2>1. pc[p] = "off"
    BY NotATracer DEF Types, PingTypes
  <2> QED BY <1>1, <2>1 DEF Echo!hdfn, Echo!Running, Echo!Runs, Echo!Prepare, Echo!Send,
                            Echo!SendFails, Echo!Receive, Echo!Timeout, Echo!Statistics
<1>2. ASSUME Network PROVE FALSE
  BY <1>2 DEF Network, Deliver, Lose, Near
<1>3. ASSUME NEW t \in Tracers, Probe(t) PROVE Near'
  <2>1. /\ hop[t] <= MAX_HOPS /\ field' = [field EXCEPT ![t] = OwnChecksum(t)]
    BY <1>3 DEF Probe
  <2>2. t \in Processes /\ hop[t] \in Nat /\ 1 <= hop[t] /\ hop[t] < 256
    BY <2>1, Positions
  <2>3. PICK s : s = OwnChecksum(t)
    OBVIOUS
  <2>4. s \in {0, 65527} /\ ~ Valid(s, hop[t] + 1)
    BY <2>2, <2>3, OwnRejected DEF Near, OwnChecksum
  <2>5. PICK q : q = Packet("echo", t, hop[t] + 1, s)
    OBVIOUS
  <2>6. wire' = wire /\ ToAll(<<q>> \o <<>>)
    BY <1>3, <2>3, <2>4, <2>5 DEF Probe, SendTo, Request, Sequence
  <2>7. NearPacket(q) /\ q \in PacketSet
    <3>1. s \in Sums /\ hop[t] + 1 \in Nat
      BY <2>2, <2>4, Words
    <3> QED BY <2>2, <2>4, <2>5, <3>1 DEF NearPacket, Packet, PacketSet
  <2>8. <<q>> \o <<>> = <<q>>
    OBVIOUS
  <2>9. ASSUME NEW x \in Processes, NEW i \in DOMAIN inbox'[x] PROVE NearPacket(inbox'[x][i])
    <3>1. CASE x \in open
      <4>1. PICK old \in Seq(PacketSet) : old = inbox[x]
        BY DEF Types, IcmpTypes
      <4>2. inbox'[x] = Append(old, q)
        BY <2>6, <2>7, <2>8, <3>1, <4>1, AppendIsConcat DEF ToAll
      <4>3. \/ i \in DOMAIN old /\ Append(old, q)[i] = old[i]
            \/ Append(old, q)[i] = q
        BY <2>7, <2>9, <4>2, Appends
      <4> QED BY <2>7, <4>1, <4>2, <4>3 DEF Near
    <3>2. CASE x \notin open
      <4>1. inbox'[x] = <<>> /\ DOMAIN <<>> = {}
        BY <2>6, <3>2 DEF ToAll
      <4> QED BY <2>9, <4>1
    <3> QED BY <3>1, <3>2
  <2>10. \A u \in Tracers : field'[u] \in {0, 65527}
    BY <2>1, <2>3, <2>4 DEF Near, Types, TraceTypes
  <2> QED BY <2>6, <2>9, <2>10 DEF Near
<1>4. ASSUME NEW t \in Tracers, ProbeFails(t) PROVE Near'
  <2>1. wire' = wire /\ field' = field /\ inbox' = [inbox EXCEPT ![t] = <<>>] /\ DOMAIN <<>> = {}
    BY <1>4 DEF ProbeFails, Quit
  <2> QED BY <2>1 DEF Near, Types, IcmpTypes
<1>5. ASSUME NEW t \in Tracers, Show(t) PROVE Near'
  <2>1. PICK old \in Seq(PacketSet) : old = inbox[t] /\ t \in Processes
    BY Positions
  <2>2. /\ old # <<>> /\ wire' = wire /\ field' = [field EXCEPT ![t] = Head(old).sum]
        /\ inbox' = [inbox EXCEPT ![t] = Tail(old)] \/ inbox' = [inbox EXCEPT ![t] = <<>>]
    BY <1>5, <2>1 DEF Show, Quit, Take
  <2>3. /\ Head(old) = old[1] /\ 1 \in DOMAIN old
        /\ \A k \in DOMAIN Tail(old) : k + 1 \in DOMAIN old /\ Tail(old)[k] = old[k + 1]
    BY <2>2, Tails
  <2>4. \A i \in DOMAIN old : NearPacket(old[i])
    BY <2>1 DEF Near
  <2>5. Head(old).sum \in {0, 65527} /\ \A i \in DOMAIN Tail(old) : NearPacket(Tail(old)[i])
    BY <2>3, <2>4 DEF NearPacket
  <2>6. DOMAIN <<>> = {}
    OBVIOUS
  <2>7. \A u \in Tracers : field'[u] \in {0, 65527}
    BY <2>2, <2>5 DEF Near, Types, TraceTypes
  <2>8. ASSUME NEW x \in Processes, NEW i \in DOMAIN inbox'[x] PROVE NearPacket(inbox'[x][i])
    <3>1. CASE x = t
      <4>1. inbox'[x] = Tail(old) \/ inbox'[x] = <<>>
        BY <2>2, <3>1 DEF Types, IcmpTypes
      <4>2. CASE inbox'[x] = Tail(old)
        <5>1. i \in DOMAIN Tail(old) /\ inbox'[x][i] = Tail(old)[i]
          BY <2>8, <4>2
        <5> QED BY <2>5, <5>1
      <4>3. CASE inbox'[x] = <<>>
        <5>1. i \in DOMAIN <<>>
          BY <2>8, <4>3
        <5> QED BY <2>6, <5>1
      <4> QED BY <4>1, <4>2, <4>3
    <3>2. CASE x # t
      <4>1. inbox'[x] = inbox[x]
        BY <2>2, <3>2 DEF Types, IcmpTypes
      <4> QED BY <2>8, <4>1 DEF Near
    <3> QED BY <3>1, <3>2
  <2> QED BY <2>2, <2>7, <2>8 DEF Near
<1> QED BY <1>1, <1>2, <1>3, <1>4, <1>5
        DEF MCNext, PingStep, TraceStep, NetworkStep, PathStep, Icmp, InPath, Trace

\* Who is shown an answer has received it.
LEMMA AnsweredStep ==
  ASSUME Types, AnswerInv, suite = "icmp", MCNext
  PROVE  NeverAnswered'
<1>1. started' = started /\ distance' = distance
  BY StartedStays
<1>2. ASSUME shown' = shown PROVE NeverAnswered'
  BY <1>1, <1>2 DEF AnswerInv, NeverAnswered
<1>3. ASSUME NEW t \in Tracers, Show(t) PROVE NeverAnswered'
  <2>1. SUFFICES ASSUME distance > 0 \/ started \subseteq Tracers, NEW u \in Tracers,
                        NEW i \in DOMAIN shown'[u], shown'[u][i].kind = "reply"
                 PROVE  shown'[u][i].of \in Pingers
    BY <1>1 DEF NeverAnswered
  <2>2. PICK old \in Seq(PacketSet) : old = inbox[t] /\ t \in Processes
    BY Positions
  <2>3. /\ old # <<>> /\ shown' = [shown EXCEPT ![t] = Append(@, Head(old))]
    BY <1>3, <2>2 DEF Show
  <2>4. Head(old) \in PacketSet /\ Head(old) = old[1] /\ 1 \in DOMAIN old
    BY <2>3, Tails
  <2>5. Head(old).kind = "reply" => Head(old).of \in Pingers
    <3>1. CASE distance # 0
      <4>1. FarPacket(Head(old))
        BY <2>2, <2>4, <3>1 DEF AnswerInv, Far
      <4> QED BY <4>1 DEF FarPacket
    <3>2. CASE distance = 0
      <4>1. NearPacket(Head(old))
        BY <2>1, <2>2, <2>4, <3>2 DEF AnswerInv, Near
      <4> QED BY <4>1 DEF NearPacket
    <3> QED BY <3>1, <3>2
  <2>6. CASE u = t
    <3>1. PICK s \in Seq(PacketSet) : s = shown[t]
      BY DEF Types, TraceTypes
    <3>2. shown'[u] = Append(s, Head(old))
      BY <2>3, <2>6, <3>1 DEF Types, TraceTypes
    <3>3. \/ i \in DOMAIN s /\ shown'[u][i] = s[i]
          \/ shown'[u][i] = Head(old)
      BY <2>1, <2>4, <3>2, Appends
    <3> QED BY <2>1, <2>5, <3>1, <3>3 DEF AnswerInv, NeverAnswered
  <2>7. CASE u # t
    <3>1. shown'[u] = shown[u]
      BY <2>3, <2>7 DEF Types, TraceTypes
    <3> QED BY <2>1, <3>1 DEF AnswerInv, NeverAnswered
  <2> QED BY <2>6, <2>7
<1> QED BY <1>2, <1>3 DEF MCNext, PingStep, TraceStep, NetworkStep, PathStep, Icmp, InPath, Trace,
                         Probe, ProbeFails, traceVars

\* No step brings an answer to a request of TraceRoute.
LEMMA AnswerStep ==
  ASSUME Types, AnswerInv, suite = "icmp", [MCNext]_allVars
  PROVE  AnswerInv'
<1>1. CASE MCNext
  <2>1. started' = started /\ distance' = distance
    BY <1>1, StartedStays
  <2>2. ASSUME distance # 0 PROVE Far'
    <3>1. Far
      BY <2>2 DEF AnswerInv
    <3> QED BY <1>1, <2>2, <3>1, FarNetwork, FarProbe, FarEnd, FarShow, FarPing, FarFails
            DEF MCNext, PingStep, TraceStep, NetworkStep, PathStep, Icmp, InPath, Trace
  <2>3. ASSUME distance = 0, started \subseteq Tracers PROVE Near'
    BY <1>1, <2>3, NearStep DEF AnswerInv
  <2> QED BY <1>1, <2>1, <2>2, <2>3, AnsweredStep DEF AnswerInv
<1>2. CASE UNCHANGED allVars
  <2>1. UNCHANGED icmpVars /\ UNCHANGED traceVars
    BY <1>2 DEF allVars
  <2> QED BY <2>1 DEF icmpVars, traceVars, AnswerInv, Far, Near, NeverAnswered, Listening, Progress
<1> QED BY <1>1, <1>2

\* So none is shown.
LEMMA AnswerSuffices == AnswerInv => NeverAnswered
BY DEF AnswerInv

-----------------------------------------------------------------------------
(* The route that a process of TraceRoute sees which is alone.             *)

\* The answer of a router to the request under way.
Quoted(t, s) == Packet("exceeded", t, hop[t] + 1, s)

InFlight(t) ==
  \/ wire = {} /\ inbox[t] = <<>>
  \/ \E s \in Nat : /\ hop[t] < distance /\ FieldAt(hop[t] + 1, s)
                    /\ \/ wire = {Quoted(t, s)} /\ inbox[t] = <<>>
                       \/ wire = {} /\ inbox[t] = <<Quoted(t, s)>>

\* The answer that it may expect, which always comes from a router, ...
Expected(t) ==
  /\ hop[t] <= distance
  /\ tpc[t] = "send" => FieldAt(hop[t], field[t])
  /\ tpc[t] = "receive" => InFlight(t)
  /\ tpc[t] # "receive" => wire = {} /\ inbox[t] = <<>>

\* ... and what it has shown.
Seen(t) ==
  /\ Len(shown[t]) = hop[t] - 1
  /\ \A i \in DOMAIN shown[t] : shown[t][i].kind = "exceeded" /\ shown[t][i].seq = i + 1

RouteInv == \A t \in Tracers : (started = {t} /\ distance > 0) => Expected(t) /\ Seen(t)

\* The first request is yet to be made.
LEMMA RouteInit ==
  ASSUME Echo!Init, InitTrace
  PROVE  RouteInv
<1> SUFFICES ASSUME NEW t \in Tracers, started = {t}, distance > 0
             PROVE  Expected(t) /\ Seen(t)
  BY DEF RouteInv
<1>1. InitIcmp
  BY SameInit DEF Echo!Init
<1>2. /\ tpc[t] = "send" /\ hop[t] = 1 /\ field[t] = 0 /\ wire = {}
      /\ shown[t] = <<>> /\ inbox[t] = <<>> /\ DOMAIN <<>> = {} /\ Len(<<>>) = 0
  BY <1>1 DEF InitIcmp, InitTrace, Processes
<1>3. 1 <= distance
  <2>1. distance \in Nat
    BY <1>1, DistancesAssumption DEF InitIcmp
  <2> QED BY <2>1
<1> QED BY <1>2, <1>3 DEF Expected, Seen, FieldAt

\* What any step does to a process that is alone.
LEMMA AloneStep ==
  ASSUME Types, NEW t \in Tracers, started = {t}, distance > 0, Expected(t), Seen(t),
         suite = "icmp", MCNext
  PROVE  (Expected(t) /\ Seen(t))'
<1>0. distance \in Nat /\ distance <= 64 /\ distance # 0
  <2>1. distance \in 0 .. 64
    BY DistancesAssumption DEF Types, IcmpTypes
  <2> QED BY <2>1
<1>1. /\ \A p \in Pingers : pc[p] = "off"
      /\ \A u \in Tracers : u # t => tpc[u] = "off"
  BY NotATracer DEF Types, TraceTypes, PingTypes
<1>2. ASSUME NEW p \in Pingers, Echo!hdfn(p) \/ Echo!Runs(p) PROVE FALSE
  BY <1>1, <1>2 DEF Echo!hdfn, Echo!Running, Echo!Runs, Echo!Prepare, Echo!Send,
                    Echo!SendFails, Echo!Receive, Echo!Timeout, Echo!Statistics
<1>3. ASSUME NEW u \in Tracers, Trace(u) PROVE u = t
  BY <1>1, <1>3 DEF Trace, Probe, ProbeFails, Show
<1>4. /\ t \in Processes /\ hop[t] \in Nat /\ 1 <= hop[t]
      /\ tpc[t] \in {"send", "receive"} => t \in open
      /\ hop[t] <= MAX_HOPS => Ttl(hop[t]) = hop[t]
  BY Positions DEF Listening
<1>5. CASE Network /\ UNCHANGED traceVars
  <2>1. /\ UNCHANGED <<hop, tpc, field, shown, distance>>
        /\ \A s : Quoted(t, s)' = Quoted(t, s)
    BY <1>5 DEF traceVars, Network, Deliver, Lose, Quoted
  <2>2. PICK q \in wire : wire' = wire \ {q}
    BY <1>5 DEF Network, Deliver, Lose
  <2>3. tpc[t] = "receive"
    BY <2>2 DEF Expected
  <2>4. PICK s \in Nat : /\ hop[t] < distance /\ FieldAt(hop[t] + 1, s)
                         /\ wire = {Quoted(t, s)} /\ inbox[t] = <<>>
    BY <2>2, <2>3 DEF Expected, InFlight
  <2>5. wire' = {} /\ (inbox'[t] = <<>> \/ inbox'[t] = <<Quoted(t, s)>>)
    <3>1. wire' = {} /\ \A r \in wire : r = Quoted(t, s)
      BY <2>2, <2>4
    <3>2. CASE Lose
      BY <2>4, <3>1, <3>2 DEF Lose
    <3>3. CASE Deliver
      <4>1. ToAll(<<Quoted(t, s)>>)
        BY <3>1, <3>3 DEF Deliver
      <4> QED BY <1>4, <2>3, <2>4, <3>1, <4>1, OneItem DEF ToAll
    <3> QED BY <1>5, <3>2, <3>3 DEF Network
  <2>6. InFlight(t)'
    BY <2>1, <2>4, <2>5 DEF InFlight
  <2> QED BY <2>1, <2>3, <2>6 DEF Expected, Seen
<1>6. CASE Probe(t)
  <2>1. /\ tpc[t] = "send" /\ hop[t] <= MAX_HOPS /\ tpc' = [tpc EXCEPT ![t] = "receive"]
        /\ UNCHANGED <<distance, started, open, hop, shown>>
    BY <1>6 DEF Probe
  <2>2. FieldAt(hop[t], field[t]) /\ wire = {} /\ inbox[t] = <<>> /\ hop[t] <= 64
    BY <1>0, <1>4, <2>1 DEF Expected
  <2>3. PICK s : s = OwnChecksum(t)
    OBVIOUS
  <2>4. PICK r : r = QuoteChecksum(s, hop[t] + 1)
    OBVIOUS
  <2>5. ~ Valid(s, hop[t] + 1) /\ FieldAt(hop[t] + 1, r)
    BY <1>4, <2>2, <2>3, <2>4, RequestRejected DEF OwnChecksum
  <2>6. /\ wire' = wire \cup (IF hop[t] < distance THEN {Quoted(t, r)} ELSE {})
        /\ inbox' = inbox
    BY <1>0, <1>4, <1>6, <2>1, <2>3, <2>4, <2>5 DEF Probe, SendTo, Request, Quoted, Sequence
  <2>7. Quoted(t, r)' = Quoted(t, r)
    BY <2>1 DEF Quoted
  <2>8. InFlight(t)'
    BY <2>1, <2>2, <2>5, <2>6, <2>7 DEF InFlight, FieldAt
  <2>9. tpc'[t] = "receive"
    BY <2>1 DEF Types, TraceTypes
  <2> QED BY <2>1, <2>8, <2>9 DEF Expected, Seen
<1>7. CASE ProbeFails(t)
  <2>1. /\ tpc[t] = "send" /\ tpc' = [tpc EXCEPT ![t] = "end"]
        /\ UNCHANGED <<distance, started, wire, hop, field, shown>>
        /\ inbox' = [inbox EXCEPT ![t] = <<>>]
    BY <1>7 DEF ProbeFails, Quit
  <2>2. tpc'[t] = "end" /\ inbox'[t] = <<>>
    BY <1>4, <2>1 DEF Types, TraceTypes, IcmpTypes
  <2> QED BY <2>1, <2>2 DEF Expected, Seen
<1>8. CASE Show(t)
  <2>1. tpc[t] = "receive" /\ inbox[t] # <<>>
    BY <1>8 DEF Show
  <2>2. PICK s \in Nat : /\ hop[t] < distance /\ FieldAt(hop[t] + 1, s)
                         /\ wire = {} /\ inbox[t] = <<Quoted(t, s)>>
    BY <2>1 DEF Expected, InFlight
  <2>3. PICK q : q = Quoted(t, s)
    OBVIOUS
  <2>4. q.kind = "exceeded" /\ q.seq = hop[t] + 1 /\ q.sum = s
    BY <2>3 DEF Quoted, Packet
  <2>5. Head(inbox[t]) = q /\ Tail(inbox[t]) = <<>>
    BY <2>2, <2>3, OneItem
  <2>6. /\ shown' = [shown EXCEPT ![t] = Append(@, q)]
        /\ field' = [field EXCEPT ![t] = s]
        /\ tpc' = [tpc EXCEPT ![t] = "send"]
        /\ hop' = [hop EXCEPT ![t] = @ + 1]
        /\ inbox' = [inbox EXCEPT ![t] = <<>>]
        /\ UNCHANGED <<distance, started, wire, open>>
    BY <1>8, <2>4, <2>5 DEF Show, HopAfter, Take
  <2>7. /\ tpc'[t] = "send" /\ hop'[t] = hop[t] + 1 /\ field'[t] = s /\ inbox'[t] = <<>>
    BY <1>4, <2>6 DEF Types, TraceTypes, IcmpTypes
  <2>8. Expected(t)'
    <3>1. hop[t] + 1 <= distance
      BY <1>0, <1>4, <2>2
    <3> QED BY <2>2, <2>6, <2>7, <3>1 DEF Expected
  <2>9. Seen(t)'
    <3>1. PICK old \in Seq(PacketSet) : old = shown[t]
      BY DEF Types, TraceTypes
    <3>2. q \in PacketSet
      BY <1>4, <2>1, <2>5, TakeTypes DEF Types
    <3>3. shown'[t] = Append(old, q)
      BY <2>6, <3>1 DEF Types, TraceTypes
    <3>4. /\ Len(Append(old, q)) = Len(old) + 1 /\ Len(old) = hop[t] - 1
          /\ \A i \in DOMAIN old : old[i].kind = "exceeded" /\ old[i].seq = i + 1
      BY <3>1, <3>2, Appends DEF Seen
    <3>5. ASSUME NEW i \in DOMAIN Append(old, q)
          PROVE  Append(old, q)[i].kind = "exceeded" /\ Append(old, q)[i].seq = i + 1
      <4>1. \/ i \in DOMAIN old /\ Append(old, q)[i] = old[i]
            \/ i = Len(old) + 1 /\ Append(old, q)[i] = q
        BY <3>2, Appends
      <4>2. i = Len(old) + 1 => i + 1 = hop[t] + 1
        BY <1>4, <3>4
      <4> QED BY <2>4, <3>4, <4>1, <4>2
    <3>6. Len(Append(old, q)) = (hop[t] + 1) - 1
      BY <1>4, <3>4
    <3> QED BY <2>7, <3>3, <3>5, <3>6 DEF Seen
  <2> QED BY <2>8, <2>9
<1> QED BY <1>2, <1>3, <1>5, <1>6, <1>7, <1>8
        DEF MCNext, PingStep, TraceStep, NetworkStep, PathStep, Icmp, InPath, Trace

\* No step shows a process that is alone anything else.
LEMMA RouteStep ==
  ASSUME Types, suite = "icmp", RouteInv, [MCNext]_allVars
  PROVE  RouteInv'
<1>1. CASE UNCHANGED allVars
  BY <1>1 DEF allVars, icmpVars, traceVars, RouteInv, Expected, Seen, InFlight, Quoted
<1>2. CASE MCNext
  <2>1. started' = started /\ distance' = distance
    BY <1>2, StartedStays
  <2> QED BY <1>2, <2>1, AloneStep DEF RouteInv
<1> QED BY <1>1, <1>2

\* So the routers on the way are what it shows.
LEMMA RouteSuffices == Types /\ RouteInv => Route
<1> SUFFICES ASSUME Types, RouteInv, NEW t \in Tracers, started = {t}, distance > 0
             PROVE  /\ Len(shown[t]) < distance
                    /\ \A i \in DOMAIN shown[t] :
                         shown[t][i].kind = "exceeded" /\ shown[t][i].seq = i + 1
  BY DEF Route
<1>1. Expected(t) /\ Seen(t) /\ hop[t] \in Nat
  BY Positions DEF RouteInv
<1>2. distance \in 0 .. 64
  BY DistancesAssumption DEF Types, IcmpTypes
<1> QED BY <1>1, <1>2 DEF Expected, Seen

-----------------------------------------------------------------------------
(* All of MCPackets.                                                       *)

\* The inductive invariant.
PacketsInv ==
  /\ suite = "icmp" => Types /\ StepInv /\ AnswerInv /\ RouteInv
  /\ suite = "path" => PathInv /\ started = {} /\ shown = [t \in Tracers |-> <<>>]
  /\ suite \in {"icmp", "path"}

\* It holds at the start, ...
LEMMA PacketsInit == MCInit => PacketsInv
<1> SUFFICES ASSUME MCInit PROVE PacketsInv
  OBVIOUS
<1>1. CASE suite = "icmp" /\ Echo!Init /\ InitTrace
  BY <1>1, TypesInit, StepInvInit, AnswerInit, RouteInit DEF PacketsInv
<1>2. CASE suite = "path" /\ Path!Init /\ NoIcmp
  BY <1>2, PathInitial DEF PacketsInv, NoIcmp
<1> QED BY <1>1, <1>2 DEF MCInit

\* ... every step keeps it, ...
LEMMA PacketsStep == PacketsInv /\ [MCNext]_allVars => PacketsInv'
<1> SUFFICES ASSUME PacketsInv, [MCNext]_allVars PROVE PacketsInv'
  OBVIOUS
<1>1. suite' = suite
  BY StartedStays DEF allVars
<1>2. CASE suite = "icmp"
  <2>1. Types'
    BY <1>2, TypesStep, TypesStutter DEF PacketsInv
  <2> QED BY <1>1, <1>2, <2>1, StepInvStep, AnswerStep, RouteStep DEF PacketsInv
<1>3. CASE suite = "path"
  <2>1. CASE MCNext
    <3>1. Path!Step /\ UNCHANGED <<icmpVars, traceVars, pingOwn>>
      BY <1>3, <2>1 DEF MCNext, PingStep, TraceStep, NetworkStep, PathStep, Icmp, InPath
    <3> QED BY <1>1, <1>3, <3>1, PathStepKept DEF PacketsInv, icmpVars, traceVars
  <2>2. CASE UNCHANGED allVars
    <3>1. UNCHANGED pathOwn /\ UNCHANGED icmpVars /\ UNCHANGED traceVars
      BY <2>2 DEF allVars
    <3>2. PathInv'
      BY <1>3, <3>1 DEF PacketsInv, PathInv, Ended, pathOwn
    <3> QED BY <1>1, <1>3, <3>1, <3>2 DEF PacketsInv, icmpVars, traceVars
  <2> QED BY <2>1, <2>2
<1> QED BY <1>2, <1>3 DEF PacketsInv

\* ... and it implies what the runs check.
LEMMA PacketsSuffice ==
  PacketsInv => MCTypeOK /\ Statistics /\ NeverAnswered /\ Route /\ PathShown
<1> SUFFICES ASSUME PacketsInv
             PROVE  MCTypeOK /\ Statistics /\ NeverAnswered /\ Route /\ PathShown
  OBVIOUS
<1>1. CASE suite = "icmp"
  BY <1>1, TypesSuffice, TypesAccount, StepInvSuffices, AnswerSuffices, RouteSuffices
     DEF PacketsInv, MCTypeOK, Statistics, PathShown
<1>2. CASE suite = "path"
  <2>1. /\ PathInv /\ started = {} /\ \A t \in Tracers : DOMAIN shown[t] = {}
    BY <1>2 DEF PacketsInv
  <2>2. NeverAnswered /\ Route
    BY <2>1 DEF NeverAnswered, Route
  <2> QED BY <1>2, <2>1, <2>2, PathInvTakes DEF MCTypeOK, Statistics, PathShown
<1> QED BY <1>1, <1>2 DEF PacketsInv

\* The fairness is not needed.
LEMMA PacketsSpec == FairSpec => MCInit /\ [][MCNext]_allVars
BY PTL DEF FairSpec

\* The inductive invariant of the programs of 18-RawSockets.
THEOREM PacketsInvariant == FairSpec => []PacketsInv
BY PacketsSpec, PacketsInit, PacketsStep, PTL

\* Ping and TraceRoute keep to their types, and Ping has never counted more answers and
\* failures than requests, for any number of processes.
THEOREM PacketTypes == FairSpec => []MCTypeOK
BY PacketsInvariant, PacketsSuffice, PTL

\* When Ping ends, its statistics account for every request, s.cpp has not failed
\* MAX_FAILURES times, and the loss is 0 or 100; and a process that is alone has got the answer
\* to each request in its second, until it waits for one in vain.
THEOREM StatisticsRight == FairSpec => []Statistics
BY PacketsInvariant, PacketsSuffice, PTL

\* Whoever else runs, and however far the destination, TraceRoute is only ever shown
\* an answer to a request of Ping: the destination drops all of its own.
THEOREM DestinationSilent == FairSpec => []NeverAnswered
BY PacketsInvariant, PacketsSuffice, PTL

\* Whoever runs Trace alone sees the routers in order, each once, and never the destination,
\* at any distance up to 64 hops, whatever is lost on the way.
THEOREM RouteSeen == FairSpec => []Route
BY PacketsInvariant, PacketsSuffice, PTL

\* Path and TraceRoute-SimpleCopying print the path that the packet has taken, which visits
\* nobody twice, however the programs are started and wherever the users send it.
THEOREM PathRecorded == FairSpec => []PathShown
BY PacketsInvariant, PacketsSuffice, PTL
=============================================================================
