------------------------- MODULE RailJunctionProofs -------------------------
(***************************************************************************)
(* Proofs about RailJunction.  With one train inside at a time, and trains *)
(* slower than the broadcast of a board, a platform is empty, or has been  *)
(* given back by a board on its way to the station, or is visited by one   *)
(* train, of which its queue then holds what it has not read yet: the      *)
(* board of the station, the coach sequence and the board of the departure.*)
(***************************************************************************)
EXTENDS RailJunction, TLAPS, SequenceTheorems, FiniteSetTheorems

-----------------------------------------------------------------------------
(* Types.  No assumption on the trains is needed for them.                  *)

\* What select has found readable still is when its turn comes.
ReadableInv ==
  spc # "select" => /\ \A e \in sready \cap Entries : entryQ[e] # <<>>
                    /\ SM \in sready => smQ # <<>>

Typed ==
  /\ TypeOK /\ ReadableInv
  /\ spc = "inform" => told # <<>>
  /\ \A t \in Trains : tpc[t] = "inside" => number[t] \in Platforms

\* Queues: what Append and Tail make of them.
LEMMA Appends ==
  ASSUME NEW S, NEW q \in Seq(S), NEW x \in S
  PROVE  /\ Append(q, x) \in Seq(S) /\ Append(q, x) # <<>>
         /\ Len(q) \in Nat /\ Len(Append(q, x)) = Len(q) + 1
         /\ \A i \in 1 .. Len(q) : Append(q, x)[i] = q[i] /\ q[i] \in S
         /\ Append(q, x)[Len(q) + 1] = x
BY AppendProperties, LenProperties, ElementOfSeq

\* Head and Tail of a queue with something in it.
LEMMA Tails ==
  ASSUME NEW S, NEW q \in Seq(S), q # <<>>
  PROVE  /\ Head(q) \in S /\ Tail(q) \in Seq(S) /\ Head(q) = q[1]
         /\ Len(q) \in Nat \ {0} /\ Len(Tail(q)) = Len(q) - 1
         /\ \A i \in 1 .. Len(q) - 1 : Tail(q)[i] = q[i + 1]
BY HeadTailProperties, LenProperties, EmptySeq

\* The datagrams that are sent.
LEMMA Sending ==
  ASSUME JunctionAssumption, NEW t \in Trains
  PROVE  /\ Coach(t) \in Datagrams
         /\ \A p \in Platforms : Board(t, p) \in Datagrams
BY DEF JunctionAssumption, Coach, Board, Datagrams, Platforms

\* Every step of the station keeps the types; what select found stays readable
\* until it is read (station.c:59-135).
LEMMA StationTypes ==
  ASSUME JunctionAssumption, Typed, Station
  PROVE  Typed'
<1> USE DEF JunctionAssumption
<1>1. CASE StationSelect
  <2>1. /\ spc' = "check" /\ sready' \in SUBSET (Entries \union {SM})
        /\ \A e \in sready' \cap Entries : entryQ[e] # <<>>
        /\ SM \in sready' => smQ # <<>>
    BY <1>1 DEF StationSelect, Entries, SM
  <2>2. UNCHANGED <<status, told, next, queueVars, platformVars, trainVars>>
    BY <1>1 DEF StationSelect
  <2> QED BY <2>1, <2>2 DEF Typed, TypeOK, ReadableInv, queueVars, platformVars, trainVars
<1>2. ASSUME NEW e \in Entries, AdmitTrain(e) PROVE Typed'
  <2>1. /\ spc = "check" /\ e \in sready /\ sready' = sready \ {e}
        /\ entryQ' = [entryQ EXCEPT ![e] = Tail(entryQ[e])]
        /\ UNCHANGED <<smQ, pfQ, platformVars, trainVars>>
    BY <1>2 DEF AdmitTrain
  <2>2. entryQ[e] \in Seq(Trains) /\ entryQ[e] # <<>>
    BY <2>1 DEF Typed, TypeOK, ReadableInv
  <2>3. Head(entryQ[e]) \in Trains /\ Tail(entryQ[e]) \in Seq(Trains)
    BY <2>2, Tails
  <2>t. PICK t \in Trains : t = Head(entryQ[e])
    BY <2>3
  <2>4. /\ entryQ' \in [Entries -> Seq(Trains)] /\ sready' \in SUBSET (Entries \union {SM})
        /\ \A d \in sready' \cap Entries : entryQ'[d] # <<>>
        /\ SM \in sready' => smQ' # <<>>
    BY <2>1, <2>3 DEF Typed, TypeOK, ReadableInv
  <2>5. CASE UNCHANGED <<status, trainQ, told, next, spc>>
    BY <2>1, <2>4, <2>5 DEF Typed, TypeOK, ReadableInv, platformVars, trainVars
  <2>6. ASSUME NEW p \in Platforms,
               status' = [status EXCEPT ![p] = 1],
               trainQ' = [trainQ EXCEPT ![t] = Append(@, p)],
               told' = <<Board(t, p)>>, next' = 1, spc' = "inform"
        PROVE  Typed'
    <3>1. trainQ' \in [Trains -> Seq(Platforms)]
      <4>1. trainQ \in [Trains -> Seq(Platforms)] /\ trainQ[t] \in Seq(Platforms)
        BY DEF Typed, TypeOK
      <4>2. Append(trainQ[t], p) \in Seq(Platforms)
        BY <4>1, Appends
      <4> QED BY <2>6, <4>1, <4>2
    <3>2. /\ told' \in Broadcasts /\ told' # <<>>
          /\ next' \in 1 .. NumPlatforms + 1 /\ spc' = "inform"
      BY <2>6 DEF Broadcasts
    <3>3. status' \in [Platforms -> {0, 1}]
      BY <2>6 DEF Typed, TypeOK
    <3>4. TypeOK'
      BY <2>1, <2>4, <3>1, <3>2, <3>3 DEF Typed, TypeOK, platformVars, trainVars
    <3> QED BY <2>1, <2>4, <3>2, <3>4 DEF Typed, ReadableInv, trainVars
  <2> QED BY <1>2, <2>t, <2>5, <2>6 DEF AdmitTrain
<1>3. CASE InformPlatform
  <2>1. /\ spc = "inform" /\ told # <<>>
        /\ UNCHANGED <<status, sready, entryQ, smQ, trainQ, platformVars, trainVars>>
    BY <1>3 DEF InformPlatform, Typed
  <2>2. PICK t \in Trains, x \in Platforms : told = <<Board(t, x)>>
    BY <2>1 DEF Typed, TypeOK, Broadcasts
  <2>3. told[1] \in Datagrams
    BY <2>2, Sending
  <2>4. CASE /\ next \in Platforms /\ pfQ' = [pfQ EXCEPT ![next] = Append(@, told[1])]
             /\ next' = next + 1 /\ UNCHANGED <<spc, told>>
    <3>1. pfQ[next] \in Seq(Datagrams)
      BY <2>4 DEF Typed, TypeOK
    <3>2. Append(pfQ[next], told[1]) \in Seq(Datagrams)
      BY <2>3, <3>1, Appends
    <3>3. next' \in 1 .. NumPlatforms + 1
      BY <2>4 DEF Platforms
    <3>4. pfQ' \in [Platforms -> Seq(Datagrams)]
      BY <2>4, <3>2 DEF Typed, TypeOK
    <3>5. TypeOK'
      BY <2>1, <2>4, <3>3, <3>4 DEF Typed, TypeOK, platformVars, trainVars
    <3> QED BY <2>1, <2>4, <3>5 DEF Typed, ReadableInv, platformVars, trainVars
  <2>5. CASE spc' = "check" /\ told' = <<>> /\ next' = 1 /\ UNCHANGED pfQ
    <3>1. next' \in 1 .. NumPlatforms + 1
      BY <2>5
    <3> QED BY <2>1, <2>5, <3>1 DEF Typed, TypeOK, ReadableInv, platformVars, trainVars
  <2> QED BY <1>3, <2>4, <2>5 DEF InformPlatform
<1>4. CASE FreePlatform
  <2>1. /\ smQ # <<>> /\ smQ \in Seq(Datagrams) /\ smQ' = Tail(smQ)
    BY <1>4 DEF FreePlatform, Typed, TypeOK, ReadableInv
  <2>2. smQ' \in Seq(Datagrams)
    BY <2>1, Tails
  <2>3. status' \in [Platforms -> {0, 1}]
    BY <1>4 DEF FreePlatform, Typed, TypeOK
  <2> QED BY <1>4, <2>2, <2>3
          DEF FreePlatform, Typed, TypeOK, ReadableInv, platformVars, trainVars
<1>5. CASE StationLoop
  BY <1>5 DEF StationLoop, Typed, TypeOK, ReadableInv, queueVars, platformVars, trainVars
<1> QED BY <1>1, <1>2, <1>3, <1>4, <1>5 DEF Station

\* Every recvfrom of a platform keeps the types (platform.c:34-60).
LEMMA PlatformTypes ==
  ASSUME JunctionAssumption, Typed, NEW p \in Platforms, Platform(p)
  PROVE  Typed'
<1>1. /\ pfQ[p] # <<>> /\ pfQ[p] \in Seq(Datagrams)
      /\ pfQ' = [pfQ EXCEPT ![p] = Tail(pfQ[p])]
      /\ UNCHANGED <<stationVars, entryQ, trainQ, trainVars>>
  BY DEF Platform, RecvBoard, RecvCoach, PassBoardOn, Receive, Typed, TypeOK
<1>2. Head(pfQ[p]) \in Datagrams /\ Tail(pfQ[p]) \in Seq(Datagrams)
  BY <1>1, Tails
<1>3. pfQ' \in [Platforms -> Seq(Datagrams)]
  BY <1>1, <1>2 DEF Typed, TypeOK
<1>4. Head(pfQ[p]).train \in Trains
  BY <1>2 DEF Datagrams
<1>5. <<Head(pfQ[p]).train>> \in Seq(Trains) /\ <<>> \in Seq(Trains)
  BY <1>4
<1>6. serving' \in [Platforms -> Seq(Trains)]
  <2>1. serving \in [Platforms -> Seq(Trains)]
    BY DEF Typed, TypeOK
  <2>2. \E x \in Seq(Trains) : serving' = serving \/ serving' = [serving EXCEPT ![p] = x]
    BY <1>5 DEF Platform, RecvBoard, RecvCoach, PassBoardOn, platformVars
  <2> QED BY <2>1, <2>2
<1>7. ppc' \in [Platforms -> {"board", "coach", "leave"}]
  BY DEF Platform, RecvBoard, RecvCoach, PassBoardOn, platformVars, Typed, TypeOK
<1>8. smQ' \in Seq(Datagrams) /\ (smQ # <<>> => smQ' # <<>>)
  <2>1. smQ \in Seq(Datagrams)
    BY DEF Typed, TypeOK
  <2>2. Append(smQ, Head(pfQ[p])) \in Seq(Datagrams) /\ Append(smQ, Head(pfQ[p])) # <<>>
    BY <2>1, <1>2, Appends
  <2> QED BY <2>1, <2>2 DEF Platform, RecvBoard, RecvCoach, PassBoardOn
<1> QED BY <1>1, <1>3, <1>6, <1>7, <1>8
        DEF Typed, TypeOK, ReadableInv, stationVars, trainVars

\* So does every step of a train: number names a platform when it is inside.
LEMMA TrainTypes ==
  ASSUME JunctionAssumption, Typed, NEW t \in Trains, Train(t)
  PROVE  Typed'
<1> USE DEF JunctionAssumption
<1>1. ASSUME NEW e \in Entries, Enter(t, e) PROVE Typed'
  <2>1. /\ tpc' = [tpc EXCEPT ![t] = "asked"] /\ entryQ' = [entryQ EXCEPT ![e] = Append(@, t)]
        /\ UNCHANGED <<stationVars, smQ, trainQ, pfQ, platformVars, number>>
    BY <1>1 DEF Enter
  <2>2. entryQ[e] \in Seq(Trains)
    BY DEF Typed, TypeOK
  <2>3. Append(entryQ[e], t) \in Seq(Trains) /\ Append(entryQ[e], t) # <<>>
    BY <2>2, Appends
  <2>4. /\ entryQ' \in [Entries -> Seq(Trains)]
        /\ \A d \in Entries : entryQ[d] # <<>> => entryQ'[d] # <<>>
    BY <2>1, <2>3 DEF Typed, TypeOK
  <2>5. tpc' \in [Trains -> {"away", "asked", "inside", "left"}]
    BY <2>1 DEF Typed, TypeOK
  <2>6. \A u \in Trains : tpc'[u] = "inside" => tpc[u] = "inside"
    BY <2>1 DEF Typed, TypeOK
  <2> QED BY <2>1, <2>4, <2>5, <2>6 DEF Typed, TypeOK, ReadableInv, stationVars, platformVars
<1>2. CASE Arrive(t)
  <2> DEFINE p == Head(trainQ[t])
  <2>1. trainQ[t] # <<>> /\ trainQ[t] \in Seq(Platforms)
    BY <1>2 DEF Arrive, Typed, TypeOK
  <2>2. p \in Platforms /\ Tail(trainQ[t]) \in Seq(Platforms)
    BY <2>1, Tails
  <2> HIDE DEF p
  <2>3. /\ trainQ' = [trainQ EXCEPT ![t] = Tail(@)] /\ number' = [number EXCEPT ![t] = p]
        /\ pfQ' = [pfQ EXCEPT ![p] = Append(@, Coach(t))] /\ tpc' = [tpc EXCEPT ![t] = "inside"]
        /\ UNCHANGED <<stationVars, entryQ, smQ, platformVars>>
    BY <1>2 DEF Arrive, p
  <2>4. trainQ' \in [Trains -> Seq(Platforms)]
    BY <2>2, <2>3 DEF Typed, TypeOK
  <2>5. pfQ' \in [Platforms -> Seq(Datagrams)]
    <3>1. pfQ \in [Platforms -> Seq(Datagrams)] /\ pfQ[p] \in Seq(Datagrams)
      BY <2>2 DEF Typed, TypeOK
    <3>2. Append(pfQ[p], Coach(t)) \in Seq(Datagrams)
      BY <3>1, Sending, Appends
    <3>3. pfQ' = [pfQ EXCEPT ![p] = Append(pfQ[p], Coach(t))]
      BY <2>3
    <3> QED BY <2>2, <3>1, <3>2, <3>3
  <2>6. tpc' \in [Trains -> {"away", "asked", "inside", "left"}]
    BY <2>3 DEF Typed, TypeOK
  <2>7. /\ number' \in [Trains -> 0 .. NumPlatforms]
        /\ \A u \in Trains : tpc'[u] = "inside" => number'[u] \in Platforms
    BY <2>2, <2>3 DEF Typed, TypeOK, Platforms
  <2>8. UNCHANGED <<stationVars, entryQ, smQ, platformVars>>
    BY <2>3
  <2> QED BY <2>4, <2>5, <2>6, <2>7, <2>8 DEF Typed, TypeOK, ReadableInv, stationVars, platformVars
<1>3. CASE Leave(t)
  <2>1. number[t] \in Platforms
    BY <1>3 DEF Leave, Typed
  <2>2. pfQ' \in [Platforms -> Seq(Datagrams)]
    <3>1. pfQ[number[t]] \in Seq(Datagrams)
      BY <2>1 DEF Typed, TypeOK
    <3>2. Append(pfQ[number[t]], Board(t, number[t])) \in Seq(Datagrams)
      BY <2>1, <3>1, Sending, Appends
    <3> QED BY <1>3, <3>2 DEF Leave, Typed, TypeOK
  <2>3. /\ tpc' \in [Trains -> {"away", "asked", "inside", "left"}]
        /\ \A u \in Trains : tpc'[u] = "inside" => tpc[u] = "inside"
    BY <1>3 DEF Leave, Typed, TypeOK
  <2> QED BY <1>3, <2>2, <2>3 DEF Leave, Typed, TypeOK, ReadableInv, stationVars, platformVars
<1> QED BY <1>1, <1>2, <1>3 DEF Train

\* The types hold at the start, ...
LEMMA TypesInit ==
  ASSUME JunctionAssumption, Init
  PROVE  Typed
<1>1. /\ <<>> \in Seq(Trains) /\ <<>> \in Seq(Platforms) /\ <<>> \in Seq(Datagrams)
  OBVIOUS
<1>2. 1 \in 1 .. NumPlatforms + 1 /\ 0 \in 0 .. NumPlatforms
  BY DEF JunctionAssumption
<1>3. TypeOK
  BY <1>1, <1>2 DEF Init, TypeOK
<1> QED BY <1>3 DEF Init, Typed, ReadableInv

\* ... and every step keeps them.
LEMMA TypesStep ==
  ASSUME JunctionAssumption, Typed, [Next]_vars
  PROVE  Typed'
<1>1. CASE UNCHANGED vars
  BY <1>1 DEF vars, stationVars, queueVars, platformVars, trainVars, Typed, TypeOK, ReadableInv
<1> QED BY <1>1, StationTypes, PlatformTypes, TrainTypes DEF Next

-----------------------------------------------------------------------------
(* Visits, of which the queue of a platform holds what is unread.           *)

\* A board for another platform.
Foreign(p, d) == d.kind = "board" /\ d.pf # p

\* The datagrams of a visit of t to p: the board of the station, the coach sequence
\* and the board with which t leaves.
Item(k, t, p) == IF k = 2 THEN Coach(t) ELSE Board(t, p)

\* q has those of which r have been read and s have been sent, with boards
\* for others before the first and after the third.
Shape(q, p, t, r, s) ==
  \E n \in 0 .. Len(q) :
    /\ r <= s /\ n + (s - r) <= Len(q)
    /\ r > 0 => n = 0
    /\ \A i \in 1 .. n : Foreign(p, q[i])
    /\ \A k \in r + 1 .. s : q[n + (k - r)] = Item(k, t, p)
    /\ \A i \in n + (s - r) + 1 .. Len(q) : s = 3 /\ Foreign(p, q[i])

Read(p) == CASE ppc[p] = "board" -> 0 [] ppc[p] = "coach" -> 1 [] OTHER -> 2

SentTo(t, p) == CASE tpc[t] = "asked"  -> IF spc = "inform" /\ next <= p THEN 0 ELSE 1
                  [] tpc[t] = "inside" -> 2
                  [] OTHER -> 3

\* Train t goes to p or is there.
Visits(t, p) == trainQ[t] = <<p>> \/ (tpc[t] = "inside" /\ number[t] = p)

NoBoard(p)  == \A i \in 1 .. Len(smQ) : smQ[i].pf # p
OneBoard(p) == \E i \in 1 .. Len(smQ) : /\ smQ[i].pf = p
                                        /\ \A j \in 1 .. Len(smQ) : smQ[j].pf = p => j = i

Quiet(p) == /\ ppc[p] = "board" /\ \A t \in Trains : ~ Visits(t, p)
            /\ \A i \in 1 .. Len(pfQ[p]) : Foreign(p, pfQ[p][i])

\* p is empty, ...
Empty(p) == status[p] = 0 /\ Quiet(p) /\ NoBoard(p)

\* ... or the station is yet to read that it is, ...
Given(p) == status[p] = 1 /\ Quiet(p) /\ OneBoard(p)

\* ... or t is on its way to it, at it, or has left it not long ago.
Visit(p, t) ==
  /\ status[p] = 1 /\ NoBoard(p)
  /\ \A u \in Trains : Visits(u, p) => u = t
  /\ tpc[t] # "away" /\ (tpc[t] # "left" => Visits(t, p))
  /\ ppc[p] # "board" => serving[p] = <<t>>
  /\ Shape(pfQ[p], p, t, Read(p), SentTo(t, p))

PlatformInv(p) == Empty(p) \/ Given(p) \/ \E t \in Trains : Visit(p, t)

\* One train is inside, ...
Alone == \A t, u \in Inside : t = u

\* ... which may wait at one entry, ...
EntriesInv ==
  /\ \A e \in Entries : entryQ[e] = <<>> \/ \E t \in Trains :
       entryQ[e] = <<t>> /\ tpc[t] = "asked" /\ trainQ[t] = <<>>
  /\ \A d, e \in Entries : entryQ[d] # <<>> /\ entryQ[e] # <<>> => d = e

\* ... or has been told its platform, as the platforms are, too.
ToldInv ==
  /\ \A t \in Trains : \/ trainQ[t] = <<>>
                       \/ tpc[t] = "asked" /\ \E p \in Platforms : trainQ[t] = <<p>>
  /\ spc = "inform" => \E t \in Trains, p \in Platforms :
       told = <<Board(t, p)>> /\ tpc[t] = "asked" /\ trainQ[t] = <<p>>

TrainsInv == Alone /\ EntriesInv /\ ToldInv

RailInv == Typed /\ TrainsInv /\ \A p \in Platforms : PlatformInv(p)

\* A queue with boards for others only has nothing of the visit that begins.
LEMMA ShapeBegins ==
  ASSUME NEW q, Len(q) \in Nat, NEW p, NEW t, \A i \in 1 .. Len(q) : Foreign(p, q[i])
  PROVE  Shape(q, p, t, 0, 0)
<1> DEFINE n == Len(q)
<1>1. /\ n \in 0 .. Len(q) /\ n + (0 - 0) <= Len(q)
      /\ \A k \in 0 + 1 .. 0 : FALSE
      /\ \A i \in n + (0 - 0) + 1 .. Len(q) : FALSE
      /\ \A i \in 1 .. n : Foreign(p, q[i])
  OBVIOUS
<1> QED BY <1>1 DEF Shape

\* The next datagram of the visit is sent.
LEMMA ShapeSent ==
  ASSUME NEW q \in Seq(Datagrams), NEW p, NEW t, NEW r \in 0 .. 2, NEW s \in 0 .. 2,
         Item(s + 1, t, p) \in Datagrams, Shape(q, p, t, r, s)
  PROVE  Shape(Append(q, Item(s + 1, t, p)), p, t, r, s + 1)
<1> DEFINE x == Item(s + 1, t, p)
           a == Append(q, x)
<1>1. /\ Len(q) \in Nat /\ Len(a) = Len(q) + 1
      /\ \A i \in 1 .. Len(q) : a[i] = q[i]
      /\ a[Len(q) + 1] = x
  BY Appends
<1>2. PICK n \in 0 .. Len(q) :
        /\ r <= s /\ n + (s - r) <= Len(q) /\ (r > 0 => n = 0)
        /\ \A i \in 1 .. n : Foreign(p, q[i])
        /\ \A k \in r + 1 .. s : q[n + (k - r)] = Item(k, t, p)
        /\ \A i \in n + (s - r) + 1 .. Len(q) : s = 3 /\ Foreign(p, q[i])
  BY DEF Shape
<1>3. n + (s - r) = Len(q)
  <2>1. ~ (n + (s - r) < Len(q))
    <3>1. SUFFICES ASSUME n + (s - r) < Len(q) PROVE FALSE
      OBVIOUS
    <3>2. Len(q) \in n + (s - r) + 1 .. Len(q)
      BY <1>1, <3>1
    <3> QED BY <1>2, <3>2
  <2> QED BY <1>1, <1>2, <2>1
<1> HIDE DEF a, x
<1>4. PICK z \in 1 .. 3 : z = s + 1
  OBVIOUS
<1>5. n \in 0 .. Len(a) /\ r <= z /\ n + (z - r) <= Len(a) /\ (r > 0 => n = 0)
  BY <1>1, <1>2, <1>3, <1>4
<1>6. \A i \in 1 .. n : Foreign(p, a[i])
  BY <1>1, <1>2
<1>7. ASSUME NEW k \in r + 1 .. z PROVE a[n + (k - r)] = Item(k, t, p)
  <2>1. CASE k = z
    <3>1. n + (k - r) = Len(q) + 1
      BY <1>1, <1>3, <1>4, <2>1
    <3> QED BY <1>1, <1>4, <2>1, <3>1 DEF x
  <2>2. CASE k # z
    <3>1. k \in r + 1 .. s /\ n + (k - r) \in 1 .. Len(q)
      BY <1>1, <1>3, <1>4, <2>2
    <3> QED BY <1>1, <1>2, <3>1
  <2> QED BY <2>1, <2>2
<1>8. \A i \in n + (z - r) + 1 .. Len(a) : z = 3 /\ Foreign(p, a[i])
  BY <1>1, <1>3, <1>4
<1>9. Shape(a, p, t, r, z)
  BY <1>5, <1>6, <1>7, <1>4, <1>8 DEF Shape
<1> QED BY <1>4, <1>9 DEF a, x

\* A board for another arrives behind all of a visit.
LEMMA ShapeBehind ==
  ASSUME NEW q \in Seq(Datagrams), NEW p, NEW t, NEW r \in 0 .. 2, NEW x \in Datagrams,
         Foreign(p, x), Shape(q, p, t, r, 3)
  PROVE  Shape(Append(q, x), p, t, r, 3)
<1> DEFINE a == Append(q, x)
<1>1. /\ Len(q) \in Nat /\ Len(a) = Len(q) + 1
      /\ \A i \in 1 .. Len(q) : a[i] = q[i]
      /\ a[Len(q) + 1] = x
  BY Appends
<1>2. PICK n \in 0 .. Len(q) :
        /\ r <= 3 /\ n + (3 - r) <= Len(q) /\ (r > 0 => n = 0)
        /\ \A i \in 1 .. n : Foreign(p, q[i])
        /\ \A k \in r + 1 .. 3 : q[n + (k - r)] = Item(k, t, p)
        /\ \A i \in n + (3 - r) + 1 .. Len(q) : Foreign(p, q[i])
  BY DEF Shape
<1> HIDE DEF a
<1>3. n \in 0 .. Len(a) /\ n + (3 - r) <= Len(a)
  BY <1>1, <1>2
<1>4. \A i \in 1 .. n : Foreign(p, a[i])
  BY <1>1, <1>2
<1>5. ASSUME NEW k \in r + 1 .. 3 PROVE a[n + (k - r)] = Item(k, t, p)
  <2>1. n + (k - r) \in 1 .. Len(q)
    BY <1>1, <1>2
  <2> QED BY <1>1, <1>2, <2>1
<1>6. ASSUME NEW i \in n + (3 - r) + 1 .. Len(a) PROVE Foreign(p, a[i])
  <2>1. i = Len(q) + 1 \/ i \in n + (3 - r) + 1 .. Len(q)
    BY <1>1, <1>2
  <2>2. i # Len(q) + 1 => i \in 1 .. Len(q)
    BY <1>1, <1>2, <2>1
  <2> QED BY <1>1, <1>2, <2>1, <2>2
<1>7. Shape(a, p, t, r, 3)
  BY <1>2, <1>3, <1>4, <1>5, <1>6 DEF Shape
<1> QED BY <1>7 DEF a

\* What is read is a board for another before the visit, or the next datagram of it.
LEMMA ShapeRead ==
  ASSUME NEW q \in Seq(Datagrams), q # <<>>, NEW p, NEW t, NEW r \in 0 .. 2, NEW s \in 0 .. 3,
         Shape(q, p, t, r, s)
  PROVE  \/ r = 0 /\ Foreign(p, Head(q)) /\ Shape(Tail(q), p, t, r, s)
         \/ /\ r < s /\ Head(q) = Item(r + 1, t, p) /\ Shape(Tail(q), p, t, r + 1, s)
<1> DEFINE b == Tail(q)
<1>1. /\ Head(q) = q[1] /\ Len(q) \in Nat \ {0} /\ Len(b) = Len(q) - 1
      /\ \A i \in 1 .. Len(q) - 1 : b[i] = q[i + 1]
  BY Tails
<1>2. PICK n \in 0 .. Len(q) :
        /\ r <= s /\ n + (s - r) <= Len(q) /\ (r > 0 => n = 0)
        /\ \A i \in 1 .. n : Foreign(p, q[i])
        /\ \A k \in r + 1 .. s : q[n + (k - r)] = Item(k, t, p)
        /\ \A i \in n + (s - r) + 1 .. Len(q) : s = 3 /\ Foreign(p, q[i])
  BY DEF Shape
<1> HIDE DEF b
<1>3. CASE n > 0
  <2>m. PICK m \in Nat : m = n - 1
    BY <1>3
  <2>1. r = 0 /\ 1 \in 1 .. n /\ m \in 0 .. Len(b) /\ m + (s - r) <= Len(b)
    BY <1>1, <1>2, <1>3, <2>m
  <2>2. \A i \in 1 .. m : Foreign(p, b[i])
    <3> SUFFICES ASSUME NEW i \in 1 .. m PROVE Foreign(p, b[i])
      OBVIOUS
    <3>1. i + 1 \in 1 .. n /\ i \in 1 .. Len(q) - 1
      BY <1>1, <1>2, <2>m
    <3> QED BY <1>1, <1>2, <3>1
  <2>3. \A k \in r + 1 .. s : b[m + (k - r)] = Item(k, t, p)
    <3> SUFFICES ASSUME NEW k \in r + 1 .. s PROVE b[m + (k - r)] = Item(k, t, p)
      OBVIOUS
    <3>1. m + (k - r) \in 1 .. Len(q) - 1 /\ (m + (k - r)) + 1 = n + (k - r)
      BY <1>1, <1>2, <1>3, <2>m
    <3> QED BY <1>1, <1>2, <3>1
  <2>4. \A i \in m + (s - r) + 1 .. Len(b) : s = 3 /\ Foreign(p, b[i])
    <3> SUFFICES ASSUME NEW i \in m + (s - r) + 1 .. Len(b) PROVE s = 3 /\ Foreign(p, b[i])
      OBVIOUS
    <3>1. i + 1 \in n + (s - r) + 1 .. Len(q) /\ i \in 1 .. Len(q) - 1
      BY <1>1, <1>2, <1>3, <2>m
    <3> QED BY <1>1, <1>2, <3>1
  <2>5. r <= s /\ (r > 0 => m = 0)
    BY <1>2, <2>1
  <2>6. Shape(b, p, t, r, s)
    BY <2>1, <2>2, <2>3, <2>4, <2>5 DEF Shape
  <2> QED BY <1>1, <1>2, <2>1, <2>6 DEF b
<1>4. CASE n = 0
  <2>1. r < s
    <3>1. SUFFICES ASSUME r = s PROVE FALSE
      BY <1>2
    <3>2. 1 \in n + (s - r) + 1 .. Len(q)
      BY <1>1, <1>4, <3>1
    <3> QED BY <1>1, <1>2, <3>1, <3>2
  <2>2. Head(q) = Item(r + 1, t, p)
    <3>1. r + 1 \in r + 1 .. s /\ n + ((r + 1) - r) = 1
      BY <1>4, <2>1
    <3> QED BY <1>1, <1>2, <3>1
  <2>3. 0 \in 0 .. Len(b) /\ r + 1 <= s /\ 0 + (s - (r + 1)) <= Len(b)
    BY <1>1, <1>2, <1>4, <2>1
  <2>4. \A k \in (r + 1) + 1 .. s : b[0 + (k - (r + 1))] = Item(k, t, p)
    <3> SUFFICES ASSUME NEW k \in (r + 1) + 1 .. s PROVE b[0 + (k - (r + 1))] = Item(k, t, p)
      OBVIOUS
    <3>1. 0 + (k - (r + 1)) \in 1 .. Len(q) - 1 /\ (0 + (k - (r + 1))) + 1 = n + (k - r)
          /\ k \in r + 1 .. s
      BY <1>1, <1>2, <1>4
    <3> QED BY <1>1, <1>2, <3>1
  <2>5. \A i \in 0 + (s - (r + 1)) + 1 .. Len(b) : s = 3 /\ Foreign(p, b[i])
    <3> SUFFICES ASSUME NEW i \in 0 + (s - (r + 1)) + 1 .. Len(b) PROVE s = 3 /\ Foreign(p, b[i])
      OBVIOUS
    <3>1. i + 1 \in n + (s - r) + 1 .. Len(q) /\ i \in 1 .. Len(q) - 1
      BY <1>1, <1>2, <1>4, <2>1
    <3> QED BY <1>1, <1>2, <3>1
  <2>6. \A i \in 1 .. 0 : Foreign(p, b[i])
    OBVIOUS
  <2>7. Shape(b, p, t, r + 1, s)
    BY <2>3, <2>4, <2>5, <2>6 DEF Shape
  <2> QED BY <2>1, <2>2, <2>7 DEF b
<1> QED BY <1>2, <1>3, <1>4

\* After the third there are boards for others only.
LEMMA ShapeEnds ==
  ASSUME NEW q, Len(q) \in Nat, NEW p, NEW t, Shape(q, p, t, 3, 3)
  PROVE  \A i \in 1 .. Len(q) : Foreign(p, q[i])
<1>1. PICK n \in 0 .. Len(q) :
        /\ 3 > 0 => n = 0
        /\ \A i \in n + (3 - 3) + 1 .. Len(q) : Foreign(p, q[i])
  BY DEF Shape
<1>2. n + (3 - 3) + 1 = 1
  BY <1>1
<1> QED BY <1>1, <1>2

\* The platform is for the train of the item.
LEMMA Items ==
  ASSUME NEW p \in Platforms, NEW t
  PROVE  /\ Item(1, t, p) = Board(t, p) /\ Item(2, t, p) = Coach(t) /\ Item(3, t, p) = Board(t, p)
         /\ Board(t, p).pf = p /\ Board(t, p).train = t /\ Board(t, p).kind = "board"
         /\ ~ Foreign(p, Board(t, p)) /\ ~ Foreign(p, Coach(t))
BY DEF Item, Board, Coach, Foreign

-----------------------------------------------------------------------------
(* The station: it begins visits, and a board on its socket ends one.       *)

\* A platform that a step leaves alone.
LEMMA Frame ==
  ASSUME NEW p \in Platforms, PlatformInv(p),
         status'[p] = status[p], ppc'[p] = ppc[p], serving'[p] = serving[p], pfQ'[p] = pfQ[p],
         NoBoard(p) => NoBoard(p)', OneBoard(p) => OneBoard(p)',
         \A u \in Trains : Visits(u, p)' => Visits(u, p),
         \A t \in Trains : Visit(p, t) => /\ tpc'[t] # "away"
                                          /\ tpc'[t] # "left" => Visits(t, p)'
                                          /\ SentTo(t, p)' = SentTo(t, p)
  PROVE  PlatformInv(p)'
<1>0. Read(p)' = Read(p)
  BY DEF Read
<1>1. Quiet(p) => Quiet(p)'
  BY DEF Quiet
<1>2. CASE Empty(p) \/ Given(p)
  BY <1>1, <1>2 DEF Empty, Given, PlatformInv
<1>3. ASSUME NEW t \in Trains, Visit(p, t) PROVE PlatformInv(p)'
  <2>1. Shape(pfQ'[p], p, t, Read(p)', SentTo(t, p)')
    BY <1>0, <1>3 DEF Visit
  <2>2. Visit(p, t)'
    BY <1>3, <2>1 DEF Visit
  <2> QED BY <2>2 DEF PlatformInv
<1> QED BY <1>2, <1>3 DEF PlatformInv

\* All platforms, if a step leaves them and the trains alone.
LEMMA FrameAll ==
  ASSUME \A p \in Platforms : PlatformInv(p),
         UNCHANGED <<status, smQ, trainQ, pfQ, platformVars, trainVars>>,
         \A t \in Trains : \A p \in Platforms : SentTo(t, p)' = SentTo(t, p)
  PROVE  \A p \in Platforms : PlatformInv(p)'
<1> SUFFICES ASSUME NEW p \in Platforms PROVE PlatformInv(p)'
  OBVIOUS
<1>1. \A u \in Trains : Visits(u, p)' <=> Visits(u, p)
  BY DEF Visits, trainVars
<1>2. (NoBoard(p)' <=> NoBoard(p)) /\ (OneBoard(p)' <=> OneBoard(p))
  BY DEF NoBoard, OneBoard
<1>3. \A t \in Trains : Visit(p, t) => tpc'[t] # "away" /\ (tpc'[t] # "left" => Visits(t, p)')
  BY <1>1 DEF Visit, trainVars
<1> QED BY <1>1, <1>2, <1>3, Frame DEF platformVars

\* select, and the end of the loop over its sockets, change no platform.
LEMMA SelectKeeps ==
  ASSUME RailInv, StationSelect \/ StationLoop
  PROVE  TrainsInv' /\ \A p \in Platforms : PlatformInv(p)'
<1>1. /\ spc # "inform" /\ spc' # "inform"
      /\ UNCHANGED <<status, entryQ, smQ, trainQ, pfQ, platformVars, trainVars>>
  BY DEF StationSelect, StationLoop, queueVars
<1>2. \A t \in Trains : \A p \in Platforms : SentTo(t, p)' = SentTo(t, p)
  BY <1>1 DEF SentTo, trainVars
<1>3. TrainsInv'
  BY <1>1 DEF RailInv, TrainsInv, Alone, EntriesInv, ToldInv, Inside, Away, trainVars
<1> QED BY <1>1, <1>2, <1>3, FrameAll DEF RailInv

\* An empty platform begins a visit when a train is admitted to it.
LEMMA AdmitKeeps ==
  ASSUME JunctionAssumption, RailInv, NEW e \in Entries, AdmitTrain(e)
  PROVE  TrainsInv' /\ \A p \in Platforms : PlatformInv(p)'
<1>1. /\ spc = "check" /\ entryQ[e] # <<>>
      /\ entryQ' = [entryQ EXCEPT ![e] = Tail(@)]
      /\ UNCHANGED <<smQ, pfQ, platformVars, trainVars>>
  BY DEF AdmitTrain, RailInv, Typed, ReadableInv
<1>2. PICK t \in Trains : entryQ[e] = <<t>> /\ tpc[t] = "asked" /\ trainQ[t] = <<>>
  BY <1>1 DEF RailInv, TrainsInv, EntriesInv
<1>3. Head(entryQ[e]) = t /\ Tail(entryQ[e]) = <<>>
  BY <1>2
<1>4. \A d \in Entries : entryQ'[d] = <<>>
  <2>1. entryQ \in [Entries -> Seq(Trains)]
    BY DEF RailInv, Typed, TypeOK
  <2> QED BY <1>1, <1>3, <2>1 DEF RailInv, TrainsInv, EntriesInv
<1>5. EntriesInv' /\ Alone'
  BY <1>1, <1>4 DEF EntriesInv, Alone, RailInv, TrainsInv, Inside, Away, trainVars
<1>6. CASE UNCHANGED <<status, trainQ, told, next, spc>>
  <2>1. \A u \in Trains : \A p \in Platforms : SentTo(u, p)' = SentTo(u, p)
    BY <1>1, <1>6 DEF SentTo, trainVars
  <2>2. ToldInv'
    BY <1>1, <1>6 DEF RailInv, TrainsInv, ToldInv, trainVars
  <2> QED BY <1>1, <1>5, <1>6, <2>1, <2>2, FrameAll DEF RailInv, TrainsInv
<1>7. ASSUME NEW p \in Platforms, status[p] = 0,
             status' = [status EXCEPT ![p] = 1],
             trainQ' = [trainQ EXCEPT ![t] = Append(@, p)],
             told' = <<Board(t, p)>>, next' = 1, spc' = "inform"
      PROVE  TrainsInv' /\ \A x \in Platforms : PlatformInv(x)'
  <2>1. /\ trainQ \in [Trains -> Seq(Platforms)] /\ status \in [Platforms -> {0, 1}]
    BY DEF RailInv, Typed, TypeOK
  <2>2. /\ trainQ'[t] = <<p>> /\ \A u \in Trains \ {t} : trainQ'[u] = trainQ[u]
        /\ status'[p] = 1 /\ \A x \in Platforms \ {p} : status'[x] = status[x]
    BY <1>2, <1>7, <2>1
  <2>3. ToldInv'
    BY <1>1, <1>2, <1>7, <2>2 DEF RailInv, TrainsInv, ToldInv, trainVars
  <2>4. \A u \in Trains \ {t} : Away(u)
    BY <1>2 DEF RailInv, TrainsInv, Alone, Inside, Away
  <2>5. Empty(p)
    <3>1. PlatformInv(p)
      BY DEF RailInv
    <3> QED BY <1>7, <3>1 DEF PlatformInv, Given, Visit
  <2>6. Visit(p, t)'
    <3>1. SentTo(t, p)' = 0
      BY <1>1, <1>2, <1>7 DEF SentTo, trainVars, Platforms
    <3>2. Read(p)' = 0 /\ ppc'[p] = "board"
      BY <1>1, <2>5 DEF Empty, Quiet, Read, platformVars
    <3>3. Shape(pfQ[p], p, t, 0, 0)
      <4>1. Len(pfQ[p]) \in Nat
        BY LenProperties DEF RailInv, Typed, TypeOK
      <4> QED BY <4>1, <2>5, ShapeBegins DEF Empty, Quiet
    <3>4. NoBoard(p)'
      BY <1>1, <2>5 DEF Empty, NoBoard
    <3>5. Visits(t, p)' /\ \A u \in Trains : Visits(u, p)' => u = t
      BY <1>1, <2>2, <2>5 DEF Empty, Quiet, Visits, trainVars
    <3>6. tpc'[t] = "asked"
      BY <1>1, <1>2 DEF trainVars
    <3> QED BY <1>1, <2>2, <3>1, <3>2, <3>3, <3>4, <3>5, <3>6 DEF Visit
  <2>7. ASSUME NEW x \in Platforms, x # p PROVE PlatformInv(x)'
    <3>1. \A u \in Trains : Visits(u, x)' => Visits(u, x)
      <4>1. <<p>> # <<x>>
        BY <2>7
      <4> QED BY <1>1, <2>2, <4>1 DEF Visits, trainVars
    <3>2. ASSUME NEW u \in Trains, Visit(x, u)
          PROVE  /\ tpc'[u] # "away" /\ (tpc'[u] # "left" => Visits(u, x)')
                 /\ SentTo(u, x)' = SentTo(u, x)
      <4>0. <<x>> # <<>> /\ tpc[t] # "left" /\ ~ Visits(t, x)
        BY <1>2 DEF Visits
      <4>1. u # t
        BY <3>2, <4>0 DEF Visit
      <4>2. tpc[u] = "left"
        BY <2>4, <3>2, <4>1 DEF Away, Visit
      <4> QED BY <1>1, <4>2 DEF SentTo, trainVars
    <3>3. (NoBoard(x)' <=> NoBoard(x)) /\ (OneBoard(x)' <=> OneBoard(x))
      BY <1>1 DEF NoBoard, OneBoard
    <3>4. PlatformInv(x)
      BY DEF RailInv
    <3>5. /\ status'[x] = status[x] /\ ppc'[x] = ppc[x] /\ serving'[x] = serving[x]
          /\ pfQ'[x] = pfQ[x]
      BY <1>1, <2>2, <2>7 DEF platformVars
    <3> QED BY <3>1, <3>2, <3>3, <3>4, <3>5, Frame
  <2> QED BY <1>5, <2>3, <2>6, <2>7 DEF TrainsInv, PlatformInv
<1>8. \/ UNCHANGED <<status, trainQ, told, next, spc>>
      \/ \E p \in Platforms :
           /\ status[p] = 0 /\ status' = [status EXCEPT ![p] = 1]
           /\ trainQ' = [trainQ EXCEPT ![t] = Append(@, p)]
           /\ told' = <<Board(t, p)>> /\ next' = 1 /\ spc' = "inform"
  BY <1>3 DEF AdmitTrain, IsFirstFree
<1> QED BY <1>6, <1>7, <1>8

\* A board for others arrives at a platform that is empty or being emptied.
LEMMA QuietBehind ==
  ASSUME NEW p \in Platforms, Quiet(p), NEW x \in Datagrams, Foreign(p, x),
         pfQ \in [Platforms -> Seq(Datagrams)],
         pfQ'[p] = Append(pfQ[p], x), ppc'[p] = ppc[p],
         \A u \in Trains : Visits(u, p)' => Visits(u, p)
  PROVE  Quiet(p)'
<1>1. /\ Len(pfQ[p]) \in Nat /\ Len(pfQ'[p]) = Len(pfQ[p]) + 1
      /\ \A i \in 1 .. Len(pfQ[p]) : pfQ'[p][i] = pfQ[p][i]
      /\ pfQ'[p][Len(pfQ[p]) + 1] = x
  BY Appends
<1>2. \A i \in 1 .. Len(pfQ[p]) + 1 : i \in 1 .. Len(pfQ[p]) \/ i = Len(pfQ[p]) + 1
  BY <1>1
<1>3. \A i \in 1 .. Len(pfQ'[p]) : Foreign(p, pfQ'[p][i])
  BY <1>1, <1>2 DEF Quiet
<1> QED BY <1>3 DEF Quiet

\* The board that is broadcast is of the visit for one platform, and for another
\* to all others.
LEMMA InformKeeps ==
  ASSUME JunctionAssumption, RailInv, InformPlatform
  PROVE  TrainsInv' /\ \A p \in Platforms : PlatformInv(p)'
<1>1. /\ spc = "inform"
      /\ UNCHANGED <<status, sready, entryQ, smQ, trainQ, platformVars, trainVars>>
  BY DEF InformPlatform
<1>2. PICK t \in Trains, p \in Platforms :
        told = <<Board(t, p)>> /\ tpc[t] = "asked" /\ trainQ[t] = <<p>>
  BY <1>1 DEF RailInv, TrainsInv, ToldInv
<1>3. \A u \in Trains \ {t} : Away(u)
  BY <1>2 DEF RailInv, TrainsInv, Alone, Inside, Away
<1>4. EntriesInv' /\ Alone'
  BY <1>1 DEF EntriesInv, Alone, RailInv, TrainsInv, Inside, Away, trainVars
<1>5. ToldInv'
  <2>1. spc' = "inform" => told' = told
    BY <1>1 DEF InformPlatform
  <2> QED BY <1>1, <2>1 DEF RailInv, TrainsInv, ToldInv, trainVars
<1>6. CASE next \notin Platforms /\ spc' = "check" /\ UNCHANGED pfQ
  <2>1. \A x \in Platforms : ~ (next <= x)
    BY <1>6 DEF Platforms, JunctionAssumption, RailInv, Typed, TypeOK
  <2>2. \A u \in Trains : \A x \in Platforms : SentTo(u, x)' = SentTo(u, x)
    BY <1>1, <1>6, <2>1 DEF SentTo, trainVars
  <2> QED BY <1>1, <1>4, <1>5, <1>6, <2>2, FrameAll DEF RailInv, TrainsInv
<1>7. CASE /\ next \in Platforms /\ next' = next + 1 /\ UNCHANGED spc
           /\ pfQ' = [pfQ EXCEPT ![next] = Append(@, told[1])]
  <2>0. PICK m \in Platforms : m = next
    BY <1>7
  <2>1. /\ pfQ \in [Platforms -> Seq(Datagrams)] /\ pfQ[m] \in Seq(Datagrams)
        /\ Board(t, p) \in Datagrams /\ told[1] = Board(t, p)
    BY <1>2, Sending DEF RailInv, Typed, TypeOK
  <2>2. /\ pfQ'[m] = Append(pfQ[m], Board(t, p))
        /\ \A x \in Platforms \ {m} : pfQ'[x] = pfQ[x]
    BY <1>7, <2>0, <2>1
  <2>3. \A x \in Platforms : (next + 1 <= x <=> next <= x /\ x # m)
    BY <2>0 DEF Platforms, JunctionAssumption
  <2>4. \A u \in Trains : \A x \in Platforms : Visits(u, x)' <=> Visits(u, x)
    BY <1>1 DEF Visits, trainVars
  <2>5. \A x \in Platforms : (NoBoard(x)' <=> NoBoard(x)) /\ (OneBoard(x)' <=> OneBoard(x))
    BY <1>1 DEF NoBoard, OneBoard
  <2>6. \A x \in Platforms : Read(x)' = Read(x) /\ Read(x) \in 0 .. 2
    BY <1>1 DEF Read, platformVars
  <2>7. ASSUME NEW x \in Platforms, x # m PROVE PlatformInv(x)'
    <3>1. ASSUME NEW u \in Trains
          PROVE  SentTo(u, x)' = SentTo(u, x)
      BY <1>1, <1>7, <2>3, <2>7 DEF SentTo, trainVars
    <3>2. \A u \in Trains : Visit(x, u) => tpc'[u] # "away" /\ (tpc'[u] # "left" => Visits(u, x)')
      BY <1>1, <2>4 DEF Visit, trainVars
    <3>3. /\ status'[x] = status[x] /\ ppc'[x] = ppc[x] /\ serving'[x] = serving[x]
          /\ pfQ'[x] = pfQ[x]
      BY <1>1, <2>2, <2>7 DEF platformVars
    <3>4. PlatformInv(x)
      BY DEF RailInv
    <3> QED BY <2>4, <2>5, <3>1, <3>2, <3>3, <3>4, Frame
  <2>8. PlatformInv(m)'
    <3>1. CASE m = p
      <4>1. Visits(t, m) /\ Board(t, m) = Item(0 + 1, t, m)
        BY <1>2, <3>1 DEF Visits, Item
      <4>2. Visit(m, t)
        <5>1. PlatformInv(m)
          BY DEF RailInv
        <5> QED BY <4>1, <5>1 DEF PlatformInv, Empty, Given, Quiet, Visit
      <4>3. SentTo(t, m) = 0 /\ SentTo(t, m)' = 0 + 1
        <5>1. next <= m /\ ~ (next + 1 <= m)
          BY <2>0 DEF Platforms, JunctionAssumption
        <5> QED BY <1>1, <1>2, <1>7, <5>1 DEF SentTo, trainVars
      <4>4. Shape(Append(pfQ[m], Item(0 + 1, t, m)), m, t, Read(m), 0 + 1)
        <5>1. Shape(pfQ[m], m, t, Read(m), 0) /\ Read(m) \in 0 .. 2 /\ 0 \in 0 .. 2
          BY <2>6, <4>2, <4>3 DEF Visit
        <5> QED BY <2>1, <3>1, <4>1, <5>1, ShapeSent
      <4>5. Shape(pfQ'[m], m, t, Read(m)', SentTo(t, m)')
        BY <2>2, <2>6, <3>1, <4>1, <4>3, <4>4
      <4>6. Visit(m, t)'
        BY <1>1, <2>4, <2>5, <4>2, <4>5 DEF Visit, platformVars, trainVars
      <4> QED BY <4>6 DEF PlatformInv
    <3>2. CASE m # p
      <4>1. Foreign(m, Board(t, p))
        BY <3>2 DEF Foreign, Board
      <4>2. CASE Empty(m) \/ Given(m)
        <5>1. Quiet(m)'
          BY <1>1, <2>1, <2>2, <2>4, <4>1, <4>2, QuietBehind DEF Empty, Given, platformVars
        <5> QED BY <1>1, <2>5, <4>2, <5>1 DEF Empty, Given, PlatformInv
      <4>3. ASSUME NEW u \in Trains, Visit(m, u) PROVE PlatformInv(m)'
        <5>0. <<m>> # <<p>>
          BY <3>2
        <5>1. u # t
          BY <1>2, <4>3, <5>0 DEF Visit, Visits
        <5>2. tpc[u] = "left"
          BY <1>3, <4>3, <5>1 DEF Away, Visit
        <5>3. SentTo(u, m) = 3 /\ SentTo(u, m)' = 3
          BY <1>1, <5>2 DEF SentTo, trainVars
        <5>4. Shape(pfQ'[m], m, u, Read(m), 3)
          BY <2>1, <2>2, <2>6, <4>1, <4>3, <5>3, ShapeBehind DEF Visit
        <5>5. Visit(m, u)'
          BY <1>1, <2>4, <2>5, <2>6, <4>3, <5>3, <5>4 DEF Visit, platformVars, trainVars
        <5> QED BY <5>5 DEF PlatformInv
      <4>4. PlatformInv(m)
        BY DEF RailInv
      <4> QED BY <4>2, <4>3, <4>4 DEF PlatformInv
    <3> QED BY <3>1, <3>2
  <2> QED BY <1>4, <1>5, <2>7, <2>8 DEF TrainsInv
<1> QED BY <1>6, <1>7 DEF InformPlatform

\* The board that frees a platform is the only one on the way for it.
LEMMA FreeKeeps ==
  ASSUME JunctionAssumption, RailInv, FreePlatform
  PROVE  TrainsInv' /\ \A p \in Platforms : PlatformInv(p)'
<1>1. /\ spc = "check" /\ spc' = "select" /\ smQ # <<>> /\ smQ' = Tail(smQ)
      /\ UNCHANGED <<told, next, entryQ, trainQ, pfQ, platformVars, trainVars>>
  BY DEF FreePlatform, RailInv, Typed, ReadableInv
<1>2. TrainsInv'
  BY <1>1 DEF TrainsInv, EntriesInv, Alone, ToldInv, RailInv, Inside, Away, trainVars
<1>3. smQ \in Seq(Datagrams) /\ status \in [Platforms -> {0, 1}]
  BY DEF RailInv, Typed, TypeOK
<1>4. /\ Head(smQ) = smQ[1] /\ Len(smQ) \in Nat \ {0} /\ Len(smQ') = Len(smQ) - 1
      /\ \A i \in 1 .. Len(smQ) - 1 : smQ'[i] = smQ[i + 1]
  BY <1>1, <1>3, Tails
<1>5. \A i \in 1 .. Len(smQ') : i + 1 \in 1 .. Len(smQ) /\ i + 1 # 1 /\ smQ'[i] = smQ[i + 1]
  BY <1>4
<1>6. 1 \in 1 .. Len(smQ)
  BY <1>4
<1>7. \A u \in Trains : \A x \in Platforms : Visits(u, x)' <=> Visits(u, x)
  BY <1>1 DEF Visits, trainVars
<1>8. \A u \in Trains : \A x \in Platforms : SentTo(u, x)' = SentTo(u, x)
  BY <1>1 DEF SentTo, trainVars
<1>9. ASSUME NEW p \in Platforms PROVE PlatformInv(p)'
  <2>0. PlatformInv(p)
    BY DEF RailInv
  <2>1. CASE smQ[1].pf = p
    <3>1. Given(p)
      BY <1>6, <2>0, <2>1 DEF PlatformInv, Empty, Visit, NoBoard
    <3>2. NoBoard(p)'
      BY <1>5, <1>6, <2>1, <3>1 DEF Given, OneBoard, NoBoard
    <3>3. status'[p] = 0
      BY <1>3, <1>4, <2>1 DEF FreePlatform
    <3>4. Quiet(p)'
      BY <1>1, <1>7, <3>1 DEF Given, Quiet, platformVars
    <3> QED BY <3>2, <3>3, <3>4 DEF PlatformInv, Empty
  <2>2. CASE smQ[1].pf # p
    <3>1. status'[p] = status[p]
      BY <1>3, <1>4, <2>2 DEF FreePlatform
    <3>2. NoBoard(p) => NoBoard(p)'
      BY <1>5 DEF NoBoard
    <3>3. OneBoard(p) => OneBoard(p)'
      <4>1. SUFFICES ASSUME OneBoard(p) PROVE OneBoard(p)'
        OBVIOUS
      <4>2. PICK i \in 1 .. Len(smQ) : /\ smQ[i].pf = p
                                       /\ \A j \in 1 .. Len(smQ) : smQ[j].pf = p => j = i
        BY <4>1 DEF OneBoard
      <4>3. i # 1
        BY <2>2, <4>2
      <4>4. i - 1 \in 1 .. Len(smQ') /\ (i - 1) + 1 = i
        BY <1>4, <4>3
      <4>5. smQ'[i - 1].pf = p
        BY <1>5, <4>2, <4>4
      <4>6. ASSUME NEW j \in 1 .. Len(smQ'), smQ'[j].pf = p PROVE j = i - 1
        <5>1. j + 1 = i
          BY <1>5, <4>2, <4>6
        <5> QED BY <1>4, <4>3, <5>1
      <4> QED BY <4>4, <4>5, <4>6 DEF OneBoard
    <3>4. \A u \in Trains : Visit(p, u) => tpc'[u] # "away" /\ (tpc'[u] # "left" => Visits(u, p)')
      BY <1>1, <1>7 DEF Visit, trainVars
    <3>5. ppc'[p] = ppc[p] /\ serving'[p] = serving[p] /\ pfQ'[p] = pfQ[p]
      BY <1>1 DEF platformVars
    <3> QED BY <1>7, <1>8, <2>0, <3>1, <3>2, <3>3, <3>4, <3>5, Frame
  <2> QED BY <2>1, <2>2
<1> QED BY <1>2, <1>9

-----------------------------------------------------------------------------
(* The platforms: each reads its visit in the order in which it was sent.   *)

\* What a platform reads, and what it is in doing so.
LEMMA PlatformReads ==
  ASSUME RailInv, NEW p \in Platforms, Platform(p)
  PROVE  /\ pfQ[p] \in Seq(Datagrams) /\ pfQ[p] # <<>>
         /\ pfQ'[p] = Tail(pfQ[p]) /\ pfQ' \in [Platforms -> Seq(Datagrams)]
         /\ \A x \in Platforms \ {p} : /\ pfQ'[x] = pfQ[x] /\ ppc'[x] = ppc[x]
                                       /\ serving'[x] = serving[x]
         /\ UNCHANGED <<stationVars, entryQ, trainQ, trainVars>>
<1>1. /\ pfQ \in [Platforms -> Seq(Datagrams)]
      /\ ppc \in [Platforms -> {"board", "coach", "leave"}]
      /\ serving \in [Platforms -> Seq(Trains)]
  BY DEF RailInv, Typed, TypeOK
<1>2. /\ pfQ[p] # <<>> /\ pfQ' = [pfQ EXCEPT ![p] = Tail(pfQ[p])]
      /\ UNCHANGED <<stationVars, entryQ, trainQ, trainVars>>
  BY DEF Platform, RecvBoard, RecvCoach, PassBoardOn, Receive
<1>3. Tail(pfQ[p]) \in Seq(Datagrams)
  BY <1>1, <1>2, Tails
<1>4. \A x \in Platforms \ {p} : ppc'[x] = ppc[x] /\ serving'[x] = serving[x]
  BY <1>1 DEF Platform, RecvBoard, RecvCoach, PassBoardOn, platformVars
<1> QED BY <1>1, <1>2, <1>3, <1>4

\* A visit that has been read of: the datagram is the next of it.
LEMMA VisitReads ==
  ASSUME RailInv, NEW p \in Platforms, pfQ[p] # <<>>, NEW t \in Trains, Visit(p, t)
  PROVE  \/ /\ Read(p) = 0 /\ Foreign(p, Head(pfQ[p]))
            /\ Shape(Tail(pfQ[p]), p, t, Read(p), SentTo(t, p))
         \/ /\ Read(p) < SentTo(t, p) /\ Head(pfQ[p]) = Item(Read(p) + 1, t, p)
            /\ Shape(Tail(pfQ[p]), p, t, Read(p) + 1, SentTo(t, p))
<1>1. pfQ[p] \in Seq(Datagrams)
  BY DEF RailInv, Typed, TypeOK
<1>2. Read(p) \in 0 .. 2 /\ SentTo(t, p) \in 0 .. 3
  BY DEF Read, SentTo
<1> QED BY <1>1, <1>2, ShapeRead DEF Visit

\* The platforms that do not read, and the trains.
LEMMA OthersRead ==
  ASSUME RailInv, NEW p \in Platforms, Platform(p)
  PROVE  /\ TrainsInv'
         /\ \A x \in Platforms \ {p} : PlatformInv(x)'
         /\ \A u \in Trains : \A x \in Platforms : Visits(u, x)' <=> Visits(u, x)
         /\ \A u \in Trains : \A x \in Platforms : SentTo(u, x)' = SentTo(u, x)
<1>1. /\ \A x \in Platforms \ {p} : /\ pfQ'[x] = pfQ[x] /\ ppc'[x] = ppc[x]
                                    /\ serving'[x] = serving[x]
      /\ UNCHANGED <<stationVars, entryQ, trainQ, trainVars>>
      /\ pfQ[p] \in Seq(Datagrams) /\ pfQ[p] # <<>>
  BY PlatformReads
<1>2. TrainsInv'
  BY <1>1 DEF RailInv, TrainsInv, EntriesInv, Alone, ToldInv, Inside, Away, trainVars, stationVars
<1>3. \A u \in Trains : \A x \in Platforms : Visits(u, x)' <=> Visits(u, x)
  BY <1>1 DEF Visits, trainVars
<1>4. \A u \in Trains : \A x \in Platforms : SentTo(u, x)' = SentTo(u, x)
  BY <1>1 DEF SentTo, trainVars, stationVars
<1>5. ASSUME NEW x \in Platforms, x # p PROVE PlatformInv(x)'
  <2>1. (NoBoard(x) => NoBoard(x)') /\ (OneBoard(x) => OneBoard(x)')
    <3>1. CASE smQ' = smQ
      BY <3>1 DEF NoBoard, OneBoard
    <3>2. CASE smQ' = Append(smQ, Head(pfQ[p])) /\ Head(pfQ[p]).pf # x
      <4>1. /\ Head(pfQ[p]) \in Datagrams /\ smQ \in Seq(Datagrams)
        BY <1>1, Tails DEF RailInv, Typed, TypeOK
      <4>2. /\ Len(smQ) \in Nat /\ Len(smQ') = Len(smQ) + 1
            /\ \A i \in 1 .. Len(smQ) : smQ'[i] = smQ[i]
            /\ smQ'[Len(smQ) + 1] = Head(pfQ[p])
        BY <3>2, <4>1, Appends
      <4>3. \A i \in 1 .. Len(smQ') : i \in 1 .. Len(smQ) \/ i = Len(smQ) + 1
        BY <4>2
      <4>4. \A i \in 1 .. Len(smQ) : i \in 1 .. Len(smQ')
        BY <4>2
      <4> QED BY <3>2, <4>2, <4>3, <4>4 DEF NoBoard, OneBoard
    <3>3. PassBoardOn(p) => Head(pfQ[p]).pf = p
      <4> SUFFICES ASSUME PassBoardOn(p) PROVE Head(pfQ[p]).pf = p
        OBVIOUS
      <4>1. ppc[p] = "leave" /\ Read(p) = 2
        BY DEF PassBoardOn, Read
      <4>2. PICK t \in Trains : Visit(p, t)
        BY <4>1 DEF RailInv, PlatformInv, Empty, Given, Quiet
      <4>3. Head(pfQ[p]) = Item(2 + 1, t, p)
        BY <1>1, <4>1, <4>2, VisitReads
      <4> QED BY <4>3, Items
    <3> QED BY <1>5, <3>1, <3>2, <3>3 DEF Platform, RecvBoard, RecvCoach, PassBoardOn
  <2>2. \A u \in Trains : Visit(x, u) => tpc'[u] # "away" /\ (tpc'[u] # "left" => Visits(u, x)')
    BY <1>1, <1>3 DEF Visit, trainVars
  <2>3. PlatformInv(x) /\ status'[x] = status[x]
    BY <1>1 DEF RailInv, stationVars
  <2> QED BY <1>1, <1>3, <1>4, <1>5, <2>1, <2>2, <2>3, Frame
<1> QED BY <1>2, <1>3, <1>4, <1>5

\* A platform reads on in its visit, or over a board for another.
LEMMA PlatformKeeps ==
  ASSUME JunctionAssumption, RailInv, NEW p \in Platforms, Platform(p)
  PROVE  TrainsInv' /\ \A x \in Platforms : PlatformInv(x)'
<1>1. /\ pfQ[p] \in Seq(Datagrams) /\ pfQ[p] # <<>> /\ pfQ'[p] = Tail(pfQ[p])
      /\ UNCHANGED <<stationVars, entryQ, trainQ, trainVars>>
  BY PlatformReads
<1>2. /\ Head(pfQ[p]) = pfQ[p][1] /\ Len(pfQ[p]) \in Nat \ {0}
      /\ Len(pfQ'[p]) = Len(pfQ[p]) - 1
      /\ \A i \in 1 .. Len(pfQ[p]) - 1 : pfQ'[p][i] = pfQ[p][i + 1]
  BY <1>1, Tails
<1>3. /\ 1 \in 1 .. Len(pfQ[p])
      /\ \A i \in 1 .. Len(pfQ'[p]) : i + 1 \in 1 .. Len(pfQ[p]) /\ pfQ'[p][i] = pfQ[p][i + 1]
  BY <1>2
<1>4. status'[p] = status[p] /\ tpc' = tpc
  BY <1>1 DEF stationVars, trainVars
<1>5. /\ \A u \in Trains : Visits(u, p)' <=> Visits(u, p)
      /\ \A u \in Trains : SentTo(u, p)' = SentTo(u, p)
  BY OthersRead
<1>6. /\ ppc \in [Platforms -> {"board", "coach", "leave"}]
      /\ serving \in [Platforms -> Seq(Trains)] /\ smQ \in Seq(Datagrams)
  BY DEF RailInv, Typed, TypeOK
<1>7. PlatformInv(p)
  BY DEF RailInv
<1>8. ASSUME Quiet(p)
      PROVE  Quiet(p)' /\ smQ' = smQ
  <2>1. ppc[p] = "board" /\ Head(pfQ[p]).pf # p
    BY <1>2, <1>3, <1>8 DEF Quiet, Foreign
  <2>2. smQ' = smQ /\ ppc' = ppc
    BY <2>1 DEF Platform, RecvBoard, RecvCoach, PassBoardOn, platformVars
  <2>3. \A i \in 1 .. Len(pfQ'[p]) : Foreign(p, pfQ'[p][i])
    BY <1>3, <1>8 DEF Quiet
  <2> QED BY <1>5, <1>8, <2>2, <2>3 DEF Quiet
<1>9. CASE Empty(p) \/ Given(p)
  <2>1. Quiet(p)' /\ smQ' = smQ
    BY <1>8, <1>9 DEF Empty, Given
  <2>2. PlatformInv(p)'
    BY <1>4, <1>9, <2>1 DEF PlatformInv, Empty, Given, NoBoard, OneBoard
  <2> QED BY <2>2, OthersRead
<1>10. ASSUME NEW t \in Trains, Visit(p, t) PROVE PlatformInv(p)'
  <2>1. \/ /\ Read(p) = 0 /\ Foreign(p, Head(pfQ[p]))
           /\ Shape(pfQ'[p], p, t, Read(p), SentTo(t, p)')
        \/ /\ Read(p) < SentTo(t, p) /\ Head(pfQ[p]) = Item(Read(p) + 1, t, p)
           /\ Shape(pfQ'[p], p, t, Read(p) + 1, SentTo(t, p)')
    BY <1>1, <1>5, <1>10, VisitReads
  <2>2. CASE RecvBoard(p)
    <3>1. /\ Read(p) = 0 /\ ppc[p] = "board" /\ smQ' = smQ
          /\ Read(p) + 1 = 1 /\ Item(1, t, p) = Board(t, p)
          /\ Board(t, p).pf = p /\ Board(t, p).train = t
      BY <2>2, Items DEF RecvBoard, Read
    <3>2. CASE Foreign(p, Head(pfQ[p])) /\ Shape(pfQ'[p], p, t, Read(p), SentTo(t, p)')
      <4>1. ppc' = ppc /\ serving' = serving /\ Read(p)' = Read(p)
        BY <2>2, <3>2 DEF RecvBoard, Foreign, platformVars, Read
      <4>2. Visit(p, t)'
        BY <1>4, <1>5, <1>10, <3>1, <3>2, <4>1 DEF Visit, NoBoard
      <4> QED BY <4>2 DEF PlatformInv
    <3>3. CASE Head(pfQ[p]) = Item(Read(p) + 1, t, p)
               /\ Shape(pfQ'[p], p, t, Read(p) + 1, SentTo(t, p)')
      <4>1. Head(pfQ[p]) = Board(t, p)
        BY <3>1, <3>3
      <4>2. ppc'[p] = "coach" /\ serving'[p] = <<t>>
        BY <1>6, <2>2, <3>1, <4>1 DEF RecvBoard
      <4>3. Read(p)' = Read(p) + 1
        BY <3>1, <4>2 DEF Read
      <4>4. Visit(p, t)'
        BY <1>4, <1>5, <1>10, <3>1, <3>3, <4>2, <4>3 DEF Visit, NoBoard
      <4> QED BY <4>4 DEF PlatformInv
    <3> QED BY <2>1, <3>2, <3>3
  <2>3. CASE RecvCoach(p)
    <3>1. /\ Read(p) = 1 /\ ppc[p] = "coach" /\ smQ' = smQ /\ serving' = serving
          /\ ppc'[p] = "leave"
      BY <1>6, <2>3 DEF RecvCoach, Read
    <3>2. Read(p)' = Read(p) + 1
      BY <3>1 DEF Read
    <3>3. Visit(p, t)'
      BY <1>4, <1>5, <1>10, <2>1, <3>1, <3>2 DEF Visit, NoBoard
    <3> QED BY <3>3 DEF PlatformInv
  <2>4. CASE PassBoardOn(p)
    <3>1. /\ Read(p) = 2 /\ ppc'[p] = "board" /\ smQ' = Append(smQ, Head(pfQ[p]))
      BY <1>6, <2>4 DEF PassBoardOn, Read
    <3>2. SentTo(t, p) = 3
      BY <2>1, <3>1 DEF SentTo
    <3>3. Read(p) + 1 = 3
      BY <3>1
    <3>4. /\ Head(pfQ[p]) = Board(t, p) /\ Shape(pfQ'[p], p, t, 3, 3)
      BY <1>5, <2>1, <3>1, <3>2, <3>3, Items
    <3>5. \A i \in 1 .. Len(pfQ'[p]) : Foreign(p, pfQ'[p][i])
      <4>1. Len(pfQ'[p]) \in Nat
        BY <1>2
      <4> QED BY <3>4, <4>1, ShapeEnds
    <3>6. tpc[t] = "left"
      BY <1>10, <3>2 DEF SentTo, Visit, RailInv, Typed, TypeOK
    <3>7. \A u \in Trains : ~ Visits(u, p)
      <4>1. trainQ[t] = <<>> /\ <<p>> # <<>>
        BY <3>6 DEF RailInv, TrainsInv, ToldInv
      <4>2. ~ Visits(t, p)
        BY <3>6, <4>1 DEF Visits
      <4> QED BY <1>10, <4>2 DEF Visit
    <3>8. Quiet(p)'
      BY <1>5, <3>1, <3>5, <3>7 DEF Quiet
    <3>9. OneBoard(p)'
      <4>1. Head(pfQ[p]) \in Datagrams /\ Head(pfQ[p]).pf = p
        BY <1>1, <3>4, Tails, Items
      <4>2. /\ Len(smQ) \in Nat /\ Len(smQ') = Len(smQ) + 1
            /\ \A i \in 1 .. Len(smQ) : smQ'[i] = smQ[i]
            /\ smQ'[Len(smQ) + 1].pf = p
        BY <1>6, <3>1, <4>1, Appends
      <4>3. /\ \A i \in 1 .. Len(smQ') : i \in 1 .. Len(smQ) \/ i = Len(smQ) + 1
            /\ Len(smQ) + 1 \in 1 .. Len(smQ')
        BY <4>2
      <4> QED BY <1>10, <4>2, <4>3 DEF Visit, NoBoard, OneBoard
    <3> QED BY <1>4, <1>10, <3>8, <3>9 DEF Visit, PlatformInv, Given
  <2> QED BY <2>2, <2>3, <2>4 DEF Platform
<1> QED BY <1>7, <1>9, <1>10, OthersRead DEF PlatformInv

-----------------------------------------------------------------------------
(* The trains: one at a time, each sends its part of a visit.               *)

\* What the invariant says of the types.
LEMMA InvTypes ==
  ASSUME RailInv
  PROVE  /\ trainQ \in [Trains -> Seq(Platforms)] /\ pfQ \in [Platforms -> Seq(Datagrams)]
         /\ entryQ \in [Entries -> Seq(Trains)]
         /\ tpc \in [Trains -> {"away", "asked", "inside", "left"}]
         /\ number \in [Trains -> 0 .. NumPlatforms]
         /\ \A t \in Trains : tpc[t] = "inside" => number[t] \in Platforms
BY DEF RailInv, Typed, TypeOK

\* While a train is at a platform or on its way there, the platform serves it.
LEMMA VisitOf ==
  ASSUME RailInv, NEW p \in Platforms, NEW t \in Trains, Visits(t, p)
  PROVE  Visit(p, t)
BY DEF RailInv, PlatformInv, Empty, Given, Quiet, Visit

\* A train enters only when no other is inside.
LEMMA EnterKeeps ==
  ASSUME JunctionAssumption, MaxInside = 1, RailInv,
         NEW t \in Trains, NEW e \in Entries, Enter(t, e)
  PROVE  TrainsInv' /\ \A x \in Platforms : PlatformInv(x)'
<1>1. /\ tpc[t] = "away" /\ tpc' = [tpc EXCEPT ![t] = "asked"]
      /\ entryQ' = [entryQ EXCEPT ![e] = Append(entryQ[e], t)]
      /\ UNCHANGED <<stationVars, smQ, trainQ, pfQ, platformVars, number>>
  BY DEF Enter
<1>2. Inside = {}
  <2>1. IsFiniteSet(Inside)
    BY FS_Subset DEF JunctionAssumption, Inside
  <2>2. Cardinality(Inside) \in Nat /\ Cardinality(Inside) < 1
    BY <2>1, FS_CardinalityType DEF Enter
  <2>3. Cardinality(Inside) = 0
    BY <2>2
  <2> QED BY <2>1, <2>3, FS_EmptySet
<1>3. \A u \in Trains : tpc[u] \in {"away", "left"}
  BY <1>2 DEF Inside, Away
<1>4. /\ \A d \in Entries : entryQ[d] = <<>>
      /\ \A u \in Trains : trainQ[u] = <<>>
      /\ spc # "inform"
  BY <1>3 DEF RailInv, TrainsInv, EntriesInv, ToldInv
<1>5. /\ tpc'[t] = "asked" /\ \A u \in Trains \ {t} : tpc'[u] = tpc[u]
      /\ entryQ'[e] = <<t>> /\ \A d \in Entries \ {e} : entryQ'[d] = <<>>
  <2>1. Append(<<>>, t) = <<t>>
    OBVIOUS
  <2>2. entryQ[e] = <<>>
    BY <1>4
  <2> QED BY <1>1, <1>4, <2>1, <2>2, InvTypes
<1>6. Alone'
  BY <1>3, <1>5 DEF Alone, Inside, Away
<1>7. EntriesInv'
  BY <1>1, <1>4, <1>5 DEF EntriesInv
<1>8. ToldInv'
  BY <1>1, <1>4 DEF ToldInv, stationVars
<1>9. ASSUME NEW x \in Platforms PROVE PlatformInv(x)'
  <2>1. \A u \in Trains : Visits(u, x)' => Visits(u, x)
    BY <1>1, <1>5 DEF Visits
  <2>2. ASSUME NEW u \in Trains, Visit(x, u)
        PROVE  /\ tpc'[u] # "away" /\ (tpc'[u] # "left" => Visits(u, x)')
               /\ SentTo(u, x)' = SentTo(u, x)
    <3>1. tpc[u] = "left" /\ u # t
      BY <1>1, <1>3, <2>2 DEF Visit
    <3> QED BY <1>5, <3>1 DEF SentTo
  <2>3. (NoBoard(x)' <=> NoBoard(x)) /\ (OneBoard(x)' <=> OneBoard(x))
    BY <1>1 DEF NoBoard, OneBoard
  <2>4. PlatformInv(x)
    BY DEF RailInv
  <2> QED BY <1>1, <2>1, <2>2, <2>3, <2>4, Frame DEF stationVars, platformVars
<1> QED BY <1>6, <1>7, <1>8, <1>9 DEF TrainsInv

\* The coach sequence follows the board of the station.
LEMMA ArriveKeeps ==
  ASSUME JunctionAssumption, Slow, RailInv, NEW t \in Trains, Arrive(t)
  PROVE  TrainsInv' /\ \A x \in Platforms : PlatformInv(x)'
<1>1. PICK p \in Platforms : trainQ[t] = <<p>>
  BY DEF Arrive, RailInv, TrainsInv, ToldInv
<1>2. /\ tpc[t] = "asked" /\ spc # "inform" /\ Head(trainQ[t]) = p /\ Tail(trainQ[t]) = <<>>
      /\ trainQ' = [trainQ EXCEPT ![t] = <<>>]
      /\ number' = [number EXCEPT ![t] = p]
      /\ pfQ' = [pfQ EXCEPT ![p] = Append(pfQ[p], Coach(t))]
      /\ tpc' = [tpc EXCEPT ![t] = "inside"]
      /\ UNCHANGED <<stationVars, entryQ, smQ, platformVars>>
  BY <1>1 DEF Arrive
<1>3. /\ tpc'[t] = "inside" /\ \A u \in Trains \ {t} : tpc'[u] = tpc[u]
      /\ trainQ'[t] = <<>> /\ \A u \in Trains \ {t} : trainQ'[u] = trainQ[u]
      /\ number'[t] = p /\ \A u \in Trains \ {t} : number'[u] = number[u]
      /\ pfQ'[p] = Append(pfQ[p], Coach(t)) /\ \A x \in Platforms \ {p} : pfQ'[x] = pfQ[x]
  BY <1>2, InvTypes
<1>4. \A u \in Trains \ {t} : tpc[u] \in {"away", "left"}
  BY <1>2 DEF RailInv, TrainsInv, Alone, Inside, Away
<1>5. \A d \in Entries : entryQ[d] = <<>>
  <2>1. trainQ[t] # <<>>
    BY <1>1
  <2> QED BY <1>4, <2>1 DEF RailInv, TrainsInv, EntriesInv
<1>6. Alone'
  BY <1>3, <1>4 DEF Alone, Inside, Away
<1>7. EntriesInv'
  BY <1>2, <1>5 DEF EntriesInv
<1>8. ToldInv'
  BY <1>2, <1>3 DEF RailInv, TrainsInv, ToldInv, stationVars
<1>9. Visit(p, t)
  BY <1>1, VisitOf DEF Visits
<1>10. Visit(p, t)'
  <2>1. SentTo(t, p) = 1 /\ SentTo(t, p)' = 1 + 1 /\ Read(p)' = Read(p) /\ Read(p) \in 0 .. 2
    BY <1>2, <1>3 DEF SentTo, Read, platformVars
  <2>2. Item(1 + 1, t, p) = Coach(t) /\ Coach(t) \in Datagrams
    BY Sending DEF Item
  <2>3. Shape(pfQ[p], p, t, Read(p), 1)
    BY <1>9, <2>1 DEF Visit
  <2>4. pfQ[p] \in Seq(Datagrams) /\ 1 \in 0 .. 2
    BY InvTypes
  <2>5. Shape(pfQ'[p], p, t, Read(p)', SentTo(t, p)')
    BY <1>3, <2>1, <2>2, <2>3, <2>4, ShapeSent
  <2>6. /\ status' = status /\ serving' = serving /\ ppc' = ppc /\ smQ' = smQ
    BY <1>2 DEF stationVars, platformVars
  <2>7. Visits(t, p)' /\ \A u \in Trains : Visits(u, p)' => u = t
    BY <1>3, <1>4, <1>9 DEF Visits, Visit
  <2> QED BY <1>3, <1>9, <2>5, <2>6, <2>7 DEF Visit, NoBoard
<1>11. ASSUME NEW x \in Platforms, x # p PROVE PlatformInv(x)'
  <2>0. <<p>> # <<x>> /\ <<x>> # <<>> /\ ~ Visits(t, x)
    BY <1>1, <1>2, <1>11 DEF Visits
  <2>1. \A u \in Trains : Visits(u, x)' => Visits(u, x)
    BY <1>3, <1>11, <2>0 DEF Visits
  <2>2. ASSUME NEW u \in Trains, Visit(x, u)
        PROVE  /\ tpc'[u] # "away" /\ (tpc'[u] # "left" => Visits(u, x)')
               /\ SentTo(u, x)' = SentTo(u, x)
    <3>1. u # t
      BY <1>2, <2>0, <2>2 DEF Visit
    <3>2. tpc[u] = "left"
      BY <1>4, <2>2, <3>1 DEF Visit
    <3> QED BY <1>3, <3>1, <3>2 DEF SentTo
  <2>3. (NoBoard(x)' <=> NoBoard(x)) /\ (OneBoard(x)' <=> OneBoard(x))
    BY <1>2 DEF NoBoard, OneBoard
  <2>4. PlatformInv(x)
    BY DEF RailInv
  <2> QED BY <1>2, <1>3, <1>11, <2>1, <2>2, <2>3, <2>4, Frame DEF stationVars, platformVars
<1>12. PlatformInv(p)'
  BY <1>10 DEF PlatformInv
<1> QED BY <1>6, <1>7, <1>8, <1>11, <1>12 DEF TrainsInv

\* The last board of the visit is the one of its train.
LEMMA LeaveKeeps ==
  ASSUME JunctionAssumption, RailInv, NEW t \in Trains, Leave(t)
  PROVE  TrainsInv' /\ \A x \in Platforms : PlatformInv(x)'
<1>1. PICK p \in Platforms : number[t] = p
  BY InvTypes DEF Leave
<1>2. /\ tpc[t] = "inside" /\ tpc' = [tpc EXCEPT ![t] = "left"]
      /\ pfQ' = [pfQ EXCEPT ![p] = Append(pfQ[p], Board(t, p))]
      /\ UNCHANGED <<stationVars, entryQ, smQ, trainQ, platformVars, number>>
  BY <1>1 DEF Leave
<1>3. /\ tpc'[t] = "left" /\ \A u \in Trains \ {t} : tpc'[u] = tpc[u]
      /\ pfQ'[p] = Append(pfQ[p], Board(t, p)) /\ \A x \in Platforms \ {p} : pfQ'[x] = pfQ[x]
  BY <1>2, InvTypes
<1>4. \A u \in Trains \ {t} : tpc[u] \in {"away", "left"}
  BY <1>2 DEF RailInv, TrainsInv, Alone, Inside, Away
<1>5. /\ \A d \in Entries : entryQ[d] = <<>>
      /\ \A u \in Trains : trainQ[u] = <<>>
      /\ spc # "inform"
  BY <1>2, <1>4 DEF RailInv, TrainsInv, EntriesInv, ToldInv
<1>6. Alone'
  BY <1>3, <1>4 DEF Alone, Inside, Away
<1>7. EntriesInv'
  BY <1>2, <1>5 DEF EntriesInv
<1>8. ToldInv'
  BY <1>2, <1>5 DEF ToldInv, stationVars
<1>9. Visit(p, t)
  BY <1>1, <1>2, VisitOf DEF Visits
<1>10. Visit(p, t)'
  <2>1. SentTo(t, p) = 2 /\ SentTo(t, p)' = 2 + 1 /\ Read(p)' = Read(p) /\ Read(p) \in 0 .. 2
    BY <1>2, <1>3 DEF SentTo, Read, platformVars
  <2>2. Item(2 + 1, t, p) = Board(t, p) /\ Board(t, p) \in Datagrams
    BY Sending DEF Item
  <2>3. Shape(pfQ[p], p, t, Read(p), 2)
    BY <1>9, <2>1 DEF Visit
  <2>4. pfQ[p] \in Seq(Datagrams) /\ 2 \in 0 .. 2
    BY InvTypes
  <2>5. Shape(pfQ'[p], p, t, Read(p)', SentTo(t, p)')
    BY <1>3, <2>1, <2>2, <2>3, <2>4, ShapeSent
  <2>6. /\ status' = status /\ serving' = serving /\ ppc' = ppc /\ smQ' = smQ
    BY <1>2 DEF stationVars, platformVars
  <2>7. \A u \in Trains : Visits(u, p)' => u = t
    BY <1>2, <1>3, <1>9 DEF Visits, Visit
  <2> QED BY <1>3, <1>9, <2>5, <2>6, <2>7 DEF Visit, NoBoard
<1>11. ASSUME NEW x \in Platforms, x # p PROVE PlatformInv(x)'
  <2>0. ~ Visits(t, x)
    <3>1. trainQ[t] = <<>> /\ <<>> # <<x>>
      BY <1>5
    <3> QED BY <1>1, <1>11, <3>1 DEF Visits
  <2>1. \A u \in Trains : Visits(u, x)' => Visits(u, x)
    BY <1>2, <1>3 DEF Visits
  <2>2. ASSUME NEW u \in Trains, Visit(x, u)
        PROVE  /\ tpc'[u] # "away" /\ (tpc'[u] # "left" => Visits(u, x)')
               /\ SentTo(u, x)' = SentTo(u, x)
    <3>1. u # t
      BY <1>2, <2>0, <2>2 DEF Visit
    <3>2. tpc[u] = "left"
      BY <1>4, <2>2, <3>1 DEF Visit
    <3> QED BY <1>3, <3>1, <3>2 DEF SentTo
  <2>3. (NoBoard(x)' <=> NoBoard(x)) /\ (OneBoard(x)' <=> OneBoard(x))
    BY <1>2 DEF NoBoard, OneBoard
  <2>4. PlatformInv(x)
    BY DEF RailInv
  <2> QED BY <1>2, <1>3, <1>11, <2>1, <2>2, <2>3, <2>4, Frame DEF stationVars, platformVars
<1>12. PlatformInv(p)'
  BY <1>10 DEF PlatformInv
<1> QED BY <1>6, <1>7, <1>8, <1>11, <1>12 DEF TrainsInv

-----------------------------------------------------------------------------
(* The invariant is inductive.                                             *)

\* The invariant, which a broadcast slower than the trains or two trains inside
\* would break.
LEMMA RailInvInit ==
  ASSUME JunctionAssumption, Init
  PROVE  RailInv
<1>1. Typed
  BY TypesInit
<1>2. TrainsInv
  BY DEF Init, TrainsInv, Alone, EntriesInv, ToldInv, Inside, Away
<1>3. ASSUME NEW p \in Platforms PROVE Empty(p)
  <2>1. Len(<<>>) = 0 /\ <<>> # <<p>>
    OBVIOUS
  <2>2. status[p] = 0 /\ ppc[p] = "board" /\ pfQ[p] = <<>> /\ smQ = <<>>
    BY DEF Init
  <2>3. \A t \in Trains : tpc[t] = "away" /\ trainQ[t] = <<>>
    BY DEF Init
  <2> QED BY <2>1, <2>2, <2>3 DEF Empty, Quiet, NoBoard, Visits
<1> QED BY <1>1, <1>2, <1>3 DEF RailInv, PlatformInv

\* Every step keeps the invariant.
LEMMA RailInvStep ==
  ASSUME JunctionAssumption, MaxInside = 1, Slow, RailInv, [Next]_vars
  PROVE  RailInv'
<1>1. Typed'
  BY TypesStep DEF RailInv
<1>2. TrainsInv' /\ \A p \in Platforms : PlatformInv(p)'
  <2>1. CASE Station
    BY <2>1, SelectKeeps, AdmitKeeps, InformKeeps, FreeKeeps DEF Station
  <2>2. CASE \E p \in Platforms : Platform(p)
    BY <2>2, PlatformKeeps
  <2>3. CASE \E t \in Trains : Train(t)
    BY <2>3, EnterKeeps, ArriveKeeps, LeaveKeeps DEF Train
  <2>4. CASE UNCHANGED vars
    <3>1. UNCHANGED <<status, smQ, trainQ, pfQ, platformVars, trainVars>>
      BY <2>4 DEF vars, stationVars, queueVars
    <3>2. \A t \in Trains : \A p \in Platforms : SentTo(t, p)' = SentTo(t, p)
      BY <2>4 DEF SentTo, vars, stationVars, trainVars
    <3>3. TrainsInv'
      BY <2>4 DEF RailInv, TrainsInv, Alone, EntriesInv, ToldInv, Inside, Away,
                  vars, stationVars, queueVars, trainVars
    <3> QED BY <3>1, <3>2, <3>3, FrameAll DEF RailInv
  <2> QED BY <2>1, <2>2, <2>3, <2>4 DEF Next
<1> QED BY <1>1, <1>2 DEF RailInv

\* A platform reads its datagrams in the order in which a visit sends them.
LEMMA ProtocolStep ==
  ASSUME RailInv, NEW p \in Platforms, [Next]_vars
  PROVE  /\ ppc[p] = "coach" /\ ppc'[p] = "leave" => Head(pfQ[p]) = Coach(serving[p][1])
         /\ ppc[p] = "leave" /\ ppc'[p] = "board" =>
              /\ Head(pfQ[p]) = Board(serving[p][1], p)
              /\ tpc[serving[p][1]] = "left"
<1> SUFFICES ASSUME ppc[p] # "board", ppc'[p] # ppc[p]
             PROVE  /\ ppc[p] = "coach" => Head(pfQ[p]) = Coach(serving[p][1])
                    /\ ppc[p] = "leave" => /\ Head(pfQ[p]) = Board(serving[p][1], p)
                                           /\ tpc[serving[p][1]] = "left"
  OBVIOUS
<1>1. Platform(p)
  <2>1. CASE Station
    BY <2>1 DEF Station, StationSelect, AdmitTrain, InformPlatform, FreePlatform, StationLoop,
                platformVars
  <2>2. ASSUME NEW x \in Platforms, Platform(x) PROVE Platform(p)
    <3>1. x = p
      BY <2>2, PlatformReads
    <3> QED BY <2>2, <3>1
  <2>3. CASE \E t \in Trains : Train(t)
    BY <2>3 DEF Train, Enter, Arrive, Leave, platformVars
  <2>4. CASE UNCHANGED vars
    BY <2>4 DEF vars, platformVars
  <2> QED BY <2>1, <2>2, <2>3, <2>4 DEF Next
<1>2. pfQ[p] # <<>>
  BY <1>1, PlatformReads
<1>3. PICK t \in Trains : Visit(p, t)
  BY DEF RailInv, PlatformInv, Empty, Given, Quiet
<1>4. serving[p] = <<t>> /\ serving[p][1] = t
  BY <1>3 DEF Visit
<1>5. Read(p) # 0 /\ Read(p) < SentTo(t, p) /\ Head(pfQ[p]) = Item(Read(p) + 1, t, p)
  <2>1. Read(p) # 0
    BY DEF Read, RailInv, Typed, TypeOK
  <2> QED BY <1>2, <1>3, <2>1, VisitReads
<1>6. CASE ppc[p] = "coach"
  <2>1. Read(p) + 1 = 2
    BY <1>6 DEF Read
  <2> QED BY <1>4, <1>5, <1>6, <2>1 DEF Item
<1>7. CASE ppc[p] = "leave"
  <2>1. Read(p) = 2 /\ Read(p) + 1 = 3
    BY <1>7 DEF Read
  <2>2. tpc[t] = "left"
    <3>1. 2 < SentTo(t, p)
      BY <1>5, <2>1
    <3>2. tpc[t] # "asked" /\ tpc[t] # "inside"
      BY <3>1 DEF SentTo
    <3> QED BY <1>3, <3>2 DEF Visit, RailInv, Typed, TypeOK
  <2> QED BY <1>4, <1>5, <1>7, <2>1, <2>2 DEF Item
<1> QED BY <1>6, <1>7

-----------------------------------------------------------------------------
(* What follows from it.                                                   *)

\* Types, for any trains and any number of platforms.
THEOREM JunctionTypes ==
  ASSUME JunctionAssumption
  PROVE  Spec => []TypeOK
<1>1. Init => Typed
  BY TypesInit
<1>2. Typed /\ [Next]_vars => Typed'
  BY TypesStep
<1>3. Typed => TypeOK
  BY DEF Typed
<1> QED BY <1>1, <1>2, <1>3, PTL DEF Spec

\* The inductive invariant.
THEOREM JunctionInvariant ==
  ASSUME JunctionAssumption, MaxInside = 1, Slow
  PROVE  Spec => []RailInv
<1>1. Init => RailInv
  BY RailInvInit
<1>2. RailInv /\ [Next]_vars => RailInv'
  BY RailInvStep
<1> QED BY <1>1, <1>2, PTL DEF Spec

\* No platform with a train at it is taken for empty (station.c:129).
THEOREM StatusSoundHolds ==
  ASSUME JunctionAssumption, MaxInside = 1, Slow
  PROVE  Spec => []StatusSound
<1>1. RailInv => StatusSound
  <2> SUFFICES ASSUME RailInv, NEW t \in Trains, tpc[t] = "inside" PROVE status[number[t]] = 1
    BY DEF StatusSound
  <2>1. number[t] \in Platforms /\ Visits(t, number[t])
    BY InvTypes DEF Visits
  <2> QED BY <2>1, VisitOf DEF Visit
<1> QED BY <1>1, JunctionInvariant, PTL

\* A platform takes no datagram for another (platform.c:46-57).
THEOREM PlatformProtocolHolds ==
  ASSUME JunctionAssumption, MaxInside = 1, Slow
  PROVE  Spec => PlatformProtocol
<1>1. RailInv /\ [Next]_vars =>
        [ \A p \in Platforms :
            LET d == Head(pfQ[p])
            IN  /\ ppc[p] = "coach" /\ ppc'[p] = "leave" => d = Coach(serving[p][1])
                /\ ppc[p] = "leave" /\ ppc'[p] = "board" =>
                     /\ d = Board(serving[p][1], p)
                     /\ tpc[serving[p][1]] = "left" ]_vars
  BY ProtocolStep
<1> QED BY <1>1, JunctionInvariant, PTL DEF Spec, PlatformProtocol
=============================================================================
