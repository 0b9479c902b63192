------------------------------ MODULE Channels ------------------------------
(***************************************************************************)
(* What queues, pipes, FIFOs and ports promise: the items put into one of  *)
(* them come out again, each once and in the order they were put in.       *)
(***************************************************************************)
EXTENDS Naturals, Sequences

CONSTANTS
  Ends,
  Batches   \* the sequences of items that are put in at once

VARIABLES waiting, delivered

Init == /\ waiting = [e \in Ends |-> <<>>]
        /\ delivered = [e \in Ends |-> <<>>]

Put(e) == /\ \E b \in Batches : waiting' = [waiting EXCEPT ![e] = @ \o b]
          /\ UNCHANGED delivered

Take(e) == \E n \in 1 .. Len(waiting[e]) :
             /\ delivered' = [delivered EXCEPT ![e] = @ \o SubSeq(waiting[e], 1, n)]
             /\ waiting' = [waiting EXCEPT ![e] = SubSeq(@, n + 1, Len(@))]

Next == \E e \in Ends : Put(e) \/ Take(e)

Spec == Init /\ [][Next]_<<waiting, delivered>>
=============================================================================
