---------------------------- MODULE RailJunction ----------------------------
(***************************************************************************)
(* The railway junction of 14-NITWRailJunction: a station master           *)
(* (station.c), one process per platform (platform.c) and one per train    *)
(* (train.c), which exchange UDP datagrams over the loopback interface.    *)
(*                                                                         *)
(* A train announces itself on the port of the direction it comes from,    *)
(* gets the number of a platform, sends its coach sequence to the platform *)
(* and, when its driver types G, a board that the platform passes on to    *)
(* the station.  Loopback datagrams to one socket arrive in the order in   *)
(* which they were sent; each recvfrom takes one.                          *)
(***************************************************************************)
EXTENDS Naturals, Sequences, FiniteSets

CONSTANTS
  Trains,      \* the train processes
  NumPlatforms,\* 3 in the code
  MaxInside,   \* trains the drivers let into the junction at once
  Slow         \* TRUE: a train is slower than the three sendto of a broadcast

JunctionAssumption == IsFiniteSet(Trains) /\ NumPlatforms \in Nat

Platforms == 1 .. NumPlatforms
Entries   == 1 .. 3            \* Hyderabad, Vijayawada, Delhi: the order of fds[]
SM        == 4                 \* the socket of the station master

VARIABLES
  status,        \* station: 0 -> empty
  spc, sready,   \* station: where it is, and the sockets select found readable
  told, next,    \* station: the board being sent, and the platform it goes to
  entryQ, smQ,   \* datagrams waiting at the station's sockets
  trainQ,        \* platform numbers waiting at each train
  pfQ,           \* datagrams waiting at each platform
  ppc, serving,  \* platforms: where each is, and the train it is waiting on
  tpc, number    \* trains: where each is, and its platform (0: none yet)

stationVars  == <<status, spc, sready, told, next>>
queueVars    == <<entryQ, smQ, trainQ, pfQ>>
platformVars == <<ppc, serving>>
trainVars    == <<tpc, number>>
vars == <<stationVars, queueVars, platformVars, trainVars>>

\* struct board, and a coach sequence: its bytes read as a board name no
\* platform.
Board(t, p) == [kind |-> "board", train |-> t, pf |-> p]
Coach(t)    == [kind |-> "coach", train |-> t, pf |-> 0]
Broadcasts  == {<<Board(t, p)>> : t \in Trains, p \in Platforms}
Datagrams   == [kind : {"board", "coach"}, train : Trains, pf : 0 .. NumPlatforms]

Away(t)   == tpc[t] \in {"away", "left"}
Inside    == {t \in Trains : ~ Away(t)}

TypeOK ==
  /\ status \in [Platforms -> {0, 1}]
  /\ spc \in {"select", "check", "inform"}
  /\ sready \in SUBSET (Entries \union {SM})
  /\ told \in {<<>>} \union Broadcasts
  /\ next \in 1 .. NumPlatforms + 1
  /\ entryQ \in [Entries -> Seq(Trains)]
  /\ smQ \in Seq(Datagrams)
  /\ trainQ \in [Trains -> Seq(Platforms)]
  /\ pfQ \in [Platforms -> Seq(Datagrams)]
  /\ ppc \in [Platforms -> {"board", "coach", "leave"}]
  /\ serving \in [Platforms -> Seq(Trains)]
  /\ tpc \in [Trains -> {"away", "asked", "inside", "left"}]
  /\ number \in [Trains -> 0 .. NumPlatforms]

Init ==
  /\ status = [p \in Platforms |-> 0]
  /\ spc = "select" /\ sready = {}
  /\ told = <<>> /\ next = 1
  /\ entryQ = [e \in Entries |-> <<>>] /\ smQ = <<>>
  /\ trainQ = [t \in Trains |-> <<>>]
  /\ pfQ = [p \in Platforms |-> <<>>]
  /\ ppc = [p \in Platforms |-> "board"]
  /\ serving = [p \in Platforms |-> <<>>]
  /\ tpc = [t \in Trains |-> "away"]
  /\ number = [t \in Trains |-> 0]

-----------------------------------------------------------------------------
(* The station master. *)

\* select on the four sockets.
StationSelect ==
  /\ spc = "select"
  /\ sready' = {e \in Entries : entryQ[e] # <<>>}
               \union {x \in {SM} : smQ # <<>>}
  /\ sready' # {}
  /\ spc' = "check"
  /\ UNCHANGED <<status, told, next, queueVars, platformVars, trainVars>>

\* Mutant of IsFirstFree: the loop does not look at status[].
FirstAnyway(p) == p = 1

\* Mutant of IsFirstFree: the loop ends one platform early.
FirstButLast(p) == p < NumPlatforms /\ status[p] = 0 /\ \A q \in 1 .. p - 1 : status[q] # 0

\* The first platform whose status is 0.
IsFirstFree(p) == status[p] = 0 /\ \A q \in 1 .. p - 1 : status[q] # 0

\* A train at entry e: take the first free platform and tell the train.
AdmitTrain(e) ==
  LET t == Head(entryQ[e])
  IN  /\ spc = "check"
      /\ e \in sready \ {SM}
      /\ \A d \in sready : e <= d
      /\ sready' = sready \ {e}
      /\ entryQ' = [entryQ EXCEPT ![e] = Tail(@)]
      /\ \/ \E p \in Platforms :
              /\ IsFirstFree(p)
              /\ status' = [status EXCEPT ![p] = 1]
              /\ trainQ' = [trainQ EXCEPT ![t] = Append(@, p)]
              /\ told' = <<Board(t, p)>>
              /\ next' = 1
              /\ spc' = "inform"
         \/ /\ \A p \in Platforms : status[p] # 0      \* No empty platforms!
            /\ UNCHANGED <<status, trainQ, told, next, spc>>
      /\ UNCHANGED <<smQ, pfQ, platformVars, trainVars>>

\* Mutant of InformPlatform: the last platform is not informed.
InformAllButLast ==
  /\ spc = "inform"
  /\ \/ /\ next < NumPlatforms
        /\ pfQ' = [pfQ EXCEPT ![next] = Append(@, told[1])]
        /\ next' = next + 1
        /\ UNCHANGED <<spc, told>>
     \/ /\ next = NumPlatforms
        /\ spc' = "check" /\ told' = <<>> /\ next' = 1
        /\ UNCHANGED pfQ
  /\ UNCHANGED <<status, sready, entryQ, smQ, trainQ, platformVars, trainVars>>

\* Send the board to one platform after the other.
InformPlatform ==
  /\ spc = "inform"
  /\ \/ /\ next \in Platforms
        /\ pfQ' = [pfQ EXCEPT ![next] = Append(@, told[1])]
        /\ next' = next + 1
        /\ UNCHANGED <<spc, told>>
     \/ /\ next \notin Platforms
        /\ spc' = "check" /\ told' = <<>> /\ next' = 1
        /\ UNCHANGED pfQ
  /\ UNCHANGED <<status, sready, entryQ, smQ, trainQ, platformVars, trainVars>>

\* A board says that a platform is empty again.  The bytes of a coach
\* sequence index outside of status[].
FreePlatform ==
  LET p == Head(smQ).pf
  IN  /\ spc = "check" /\ sready = {SM}
      /\ status' = IF p \in Platforms THEN [status EXCEPT ![p] = 0] ELSE status
      /\ smQ' = Tail(smQ)
      /\ sready' = {}
      /\ spc' = "select"
      /\ UNCHANGED <<told, next, entryQ, trainQ, pfQ, platformVars, trainVars>>

\* All sockets found readable have been served.
StationLoop ==
  /\ spc = "check" /\ sready = {}
  /\ spc' = "select"
  /\ UNCHANGED <<status, sready, told, next, queueVars, platformVars, trainVars>>

Station == \/ StationSelect
           \/ \E e \in Entries : AdmitTrain(e)
           \/ InformPlatform
           \/ FreePlatform
           \/ StationLoop

-----------------------------------------------------------------------------
(* Platform p: three recvfrom on one socket, none of which looks at who sent *)
(* the datagram or at what it is.                                            *)

Receive(p) == pfQ[p] # <<>> /\ pfQ' = [pfQ EXCEPT ![p] = Tail(@)]

\* Mutant of RecvBoard: boards for other platforms are not skipped.
RecvAnyBoard(p) ==
  /\ ppc[p] = "board"
  /\ Receive(p)
  /\ ppc' = [ppc EXCEPT ![p] = "coach"]
  /\ serving' = [serving EXCEPT ![p] = <<Head(pfQ[p]).train>>]
  /\ UNCHANGED <<stationVars, entryQ, smQ, trainQ, trainVars>>

RecvBoard(p) ==
  /\ ppc[p] = "board"
  /\ Receive(p)
  /\ IF Head(pfQ[p]).pf = p
     THEN /\ ppc' = [ppc EXCEPT ![p] = "coach"]
          /\ serving' = [serving EXCEPT ![p] = <<Head(pfQ[p]).train>>]
     ELSE UNCHANGED platformVars
  /\ UNCHANGED <<stationVars, entryQ, smQ, trainQ, trainVars>>

RecvCoach(p) ==
  /\ ppc[p] = "coach"
  /\ Receive(p)
  /\ ppc' = [ppc EXCEPT ![p] = "leave"]
  /\ UNCHANGED <<stationVars, entryQ, smQ, trainQ, serving, trainVars>>

\* The board of a leaving train is passed on to the station.
PassBoardOn(p) ==
  /\ ppc[p] = "leave"
  /\ Receive(p)
  /\ smQ' = Append(smQ, Head(pfQ[p]))
  /\ ppc' = [ppc EXCEPT ![p] = "board"]
  /\ serving' = [serving EXCEPT ![p] = <<>>]
  /\ UNCHANGED <<stationVars, entryQ, trainQ, trainVars>>

Platform(p) == RecvBoard(p) \/ RecvCoach(p) \/ PassBoardOn(p)

-----------------------------------------------------------------------------
(* Train t. *)

\* Its driver names the direction; the station is told.
Enter(t, e) ==
  /\ tpc[t] = "away"
  /\ Cardinality(Inside) < MaxInside
  /\ tpc' = [tpc EXCEPT ![t] = "asked"]
  /\ entryQ' = [entryQ EXCEPT ![e] = Append(@, t)]
  /\ UNCHANGED <<stationVars, smQ, trainQ, pfQ, platformVars, number>>

\* recvfrom of the platform number, sendto of the coach sequence.
Arrive(t) ==
  LET p == Head(trainQ[t])
  IN  /\ tpc[t] = "asked"
      /\ trainQ[t] # <<>>
      /\ Slow => spc # "inform"
      /\ trainQ' = [trainQ EXCEPT ![t] = Tail(@)]
      /\ number' = [number EXCEPT ![t] = p]
      /\ pfQ' = [pfQ EXCEPT ![p] = Append(@, Coach(t))]
      /\ tpc' = [tpc EXCEPT ![t] = "inside"]
      /\ UNCHANGED <<stationVars, entryQ, smQ, platformVars>>

\* G: the board goes to the platform and the program ends.
Leave(t) ==
  /\ tpc[t] = "inside"
  /\ pfQ' = [pfQ EXCEPT ![number[t]] = Append(@, Board(t, number[t]))]
  /\ tpc' = [tpc EXCEPT ![t] = "left"]
  /\ UNCHANGED <<stationVars, entryQ, smQ, trainQ, platformVars, number>>

Train(t) == (\E e \in Entries : Enter(t, e)) \/ Arrive(t) \/ Leave(t)

-----------------------------------------------------------------------------
Next == \/ Station
        \/ \E p \in Platforms : Platform(p)
        \/ \E t \in Trains : Train(t)

Spec == Init /\ [][Next]_vars

\* The scheduler runs the station, the platforms and a train that has been
\* given its number; drivers may take their time for ever.
FairSpec == /\ Spec
            /\ WF_vars(Station)
            /\ \A p \in Platforms : WF_vars(Platform(p))
            /\ \A t \in Trains : WF_vars(Arrive(t))

-----------------------------------------------------------------------------
(***************************************************************************)
(* What should be true.                                                    *)
(***************************************************************************)

\* The station takes no platform for empty while a train is at it or on its
\* way to it (station.c:6, 0->empty, and line 129): no board that comes late,
\* from another train or from another platform frees it.
StatusSound ==
  \A t \in Trains : tpc[t] = "inside" => status[number[t]] = 1

\* A platform that expects the coach sequence of its train reads that, and
\* what it passes on to the station is the board with which that train leaves
\* (platform.c:46-57), although boards of all trains arrive at its socket.
PlatformProtocol ==
  [][ \A p \in Platforms :
        LET d == Head(pfQ[p])
        IN  /\ ppc[p] = "coach" /\ ppc'[p] = "leave" => d = Coach(serving[p][1])
            /\ ppc[p] = "leave" /\ ppc'[p] = "board" =>
                 /\ d = Board(serving[p][1], p)
                 /\ tpc[serving[p][1]] = "left" ]_vars

\* A platform that is taken, and at which no train stands, becomes free or
\* gets the train it was given to: no board on the way from a train over its
\* platform to the station is lost or taken for another (platform.c:52-57,
\* station.c:126-129).
Freed ==
  \A p \in Platforms :
    status[p] = 1 ~> \/ status[p] = 0
                     \/ \E t \in Trains : tpc[t] = "inside" /\ number[t] = p

\* A train whose request finds a platform free is answered (train.c:64-72): no
\* request is lost between the three entries and select.
Granted ==
  \A t \in Trains : \A e \in Entries :
    entryQ[e] = <<t>> /\ (\E p \in Platforms : status[p] = 0) ~> tpc[t] # "asked"
=============================================================================
