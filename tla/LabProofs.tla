------------------------------ MODULE LabProofs ------------------------------
(***************************************************************************)
(* Proofs about sequences, what FlattenSeq and RemoveFirst of the          *)
(* community modules compute among them, and about Facilitator, for every  *)
(* number of clients, services and requests.                               *)
(*                                                                         *)
(* The invariant LabInv says what F keeps, where a client stands, and that *)
(* a request is in one place once.  It is an invariant of MCMessages when  *)
(* the lab is the program that runs, which MessagesProofs shows.           *)
(***************************************************************************)
EXTENDS MCMessages, Integers, TLAPS, FiniteSetTheorems, SequenceTheorems, WellFoundedInduction

-----------------------------------------------------------------------------
(* Sequences.                                                                *)

\* Induction over the numbers, for a set of them.
LEMMA Induction ==
  ASSUME NEW S, 0 \in S, \A n \in Nat : n \in S => n + 1 \in S
  PROVE  Nat \subseteq S
<1> DEFINE R == {ss \in Nat \X Nat : ss[1] < ss[2]}
<1>1. IsWellFoundedOn(R, Nat)
  BY NatLessThanWellFounded DEF OpToRel
<1>2. SUFFICES ASSUME Nat \ S # {} PROVE FALSE
  OBVIOUS
<1> DEFINE T == Nat \ S
<1>3. PICK x \in T : \A y \in T : ~ (<<y, x>> \in R)
  <2> HIDE DEF R
  <2>1. T \subseteq Nat /\ T # {}
    BY <1>2
  <2> HIDE DEF T
  <2> QED BY <1>1, <2>1, WFMin
<1>4. x \in Nat /\ x # 0
  OBVIOUS
<1>5. x - 1 \in Nat /\ x - 1 < x /\ x - 1 + 1 = x
  BY <1>4
<1>6. x - 1 \in S
  BY <1>3, <1>5
<1> QED BY <1>5, <1>6

\* The sequences that FlattenSeq builds one behind the other.
Stages(ss, n, S, g) ==
  /\ g \in [1 .. n -> Seq(S)]
  /\ \A i \in 1 .. n : g[i] = IF i = 1 THEN ss[i] ELSE g[i-1] \o ss[i]

\* The stages exist, whatever is put together.
LEMMA StagesExist ==
  ASSUME NEW S, NEW ss \in Seq(Seq(S))
  PROVE  \A n \in Nat : n <= Len(ss) => \E g : Stages(ss, n, S, g)
<1> DEFINE P == {n \in Nat : n <= Len(ss) => \E g : Stages(ss, n, S, g)}
<1>0. Len(ss) \in Nat /\ \A i \in 1 .. Len(ss) : ss[i] \in Seq(S)
  OBVIOUS
<1>1. 0 \in P
  <2>1. Stages(ss, 0, S, [i \in 1 .. 0 |-> <<>>])
    BY DEF Stages
  <2> QED BY <2>1
<1>2. ASSUME NEW n \in Nat, n \in P PROVE n + 1 \in P
  <2>1. CASE ~ (n + 1 <= Len(ss))
    BY <2>1
  <2>2. CASE n + 1 <= Len(ss)
    <3>1. n <= Len(ss) /\ n + 1 \in 1 .. Len(ss)
      BY <1>0, <2>2
    <3>2. PICK g : Stages(ss, n, S, g)
      BY <1>2, <3>1
    <3> DEFINE t == IF n = 0 THEN ss[n+1] ELSE g[n] \o ss[n+1]
               h == [i \in 1 .. n + 1 |-> IF i = n + 1 THEN t ELSE g[i]]
    <3>3. t \in Seq(S)
      <4>1. CASE n = 0
        BY <1>0, <3>1, <4>1
      <4>2. CASE n # 0
        <5>1. n \in 1 .. n
          BY <4>2
        <5>2. g[n] \in Seq(S) /\ ss[n+1] \in Seq(S)
          BY <1>0, <3>1, <3>2, <5>1 DEF Stages
        <5> QED BY <4>2, <5>2
      <4> QED BY <4>1, <4>2
    <3>4. \A i \in 1 .. n + 1 : i = n + 1 \/ i \in 1 .. n
      OBVIOUS
    <3>5. h \in [1 .. n + 1 -> Seq(S)]
      <4> HIDE DEF t
      <4>1. \A i \in 1 .. n : g[i] \in Seq(S)
        BY <3>2 DEF Stages
      <4> QED BY <3>3, <3>4, <4>1
    <3>6. ASSUME NEW i \in 1 .. n + 1
          PROVE  h[i] = IF i = 1 THEN ss[i] ELSE h[i-1] \o ss[i]
      <4>1. CASE i = n + 1
        <5>1. h[i] = t
          BY <4>1
        <5>2. CASE n = 0
          BY <4>1, <5>1, <5>2
        <5>3. CASE n # 0
          <6>1. i # 1 /\ i - 1 = n /\ n \in 1 .. n + 1 /\ n # n + 1
            BY <4>1, <5>3
          <6>2. h[n] = g[n]
            BY <6>1
          <6> QED BY <4>1, <5>1, <5>3, <6>1, <6>2
        <5> QED BY <5>2, <5>3
      <4>2. CASE i \in 1 .. n
        <5>1. i # n + 1 /\ (i # 1 => i - 1 \in 1 .. n + 1 /\ i - 1 # n + 1)
          BY <4>2
        <5>2. h[i] = g[i] /\ (i # 1 => h[i-1] = g[i-1])
          BY <5>1
        <5>3. g[i] = IF i = 1 THEN ss[i] ELSE g[i-1] \o ss[i]
          BY <3>2, <4>2 DEF Stages
        <5> HIDE DEF h
        <5> QED BY <5>2, <5>3
      <4> QED BY <3>4, <4>1, <4>2
    <3>7. Stages(ss, n + 1, S, h)
      <4> HIDE DEF h
      <4> QED BY <3>5, <3>6 DEF Stages
    <3> QED BY <3>7
  <2> QED BY <2>1, <2>2
<1>3. Nat \subseteq P
  <2> HIDE DEF P
  <2> QED BY <1>1, <1>2, Induction
<1> QED BY <1>3

\* There is one such function.
LEMMA StagesAgree ==
  ASSUME NEW S, NEW ss, NEW tt, NEW n \in Nat, NEW k \in Nat, NEW g, NEW h,
         Stages(ss, n, S, g), Stages(tt, k, S, h), n <= k, \A i \in 1 .. n : ss[i] = tt[i]
  PROVE  \A i \in 1 .. n : g[i] = h[i]
<1> DEFINE P == {i \in Nat : i \in 1 .. n => g[i] = h[i]}
<1>1. 0 \in P
  OBVIOUS
<1>2. ASSUME NEW i \in Nat, i \in P PROVE i + 1 \in P
  <2>1. SUFFICES ASSUME i + 1 \in 1 .. n PROVE g[i+1] = h[i+1]
    OBVIOUS
  <2>2. i + 1 \in 1 .. k /\ ss[i+1] = tt[i+1] /\ i + 1 - 1 = i
    BY <2>1
  <2>0. PICK j : j = i + 1
    OBVIOUS
  <2>00. j \in 1 .. n /\ j \in 1 .. k /\ j - 1 = i
    BY <2>0, <2>1, <2>2
  <2>3. /\ g[j] = IF j = 1 THEN ss[j] ELSE g[j-1] \o ss[j]
        /\ h[j] = IF j = 1 THEN tt[j] ELSE h[j-1] \o tt[j]
    BY <2>00 DEF Stages
  <2>4. CASE i = 0
    BY <2>0, <2>2, <2>3, <2>4
  <2>5. CASE i # 0
    <3>1. i \in 1 .. n
      BY <2>1, <2>5
    <3>2. g[i] = h[i]
      BY <1>2, <3>1
    <3>3. j # 1
      BY <2>0, <2>5
    <3> QED BY <2>0, <2>00, <2>2, <2>3, <3>2, <3>3
  <2> QED BY <2>4, <2>5
<1>3. Nat \subseteq P
  <2> HIDE DEF P
  <2> QED BY <1>1, <1>2, Induction
<1> QED BY <1>3

\* FlattenSeq is the last stage.
LEMMA FlattenIs ==
  ASSUME NEW S, NEW ss \in Seq(Seq(S)), ss # <<>>
  PROVE  \E g : Stages(ss, Len(ss), S, g) /\ FlattenSeq(ss) = g[Len(ss)]
<1>1. Len(ss) \in Nat /\ Len(ss) # 0 /\ Len(ss) <= Len(ss)
  OBVIOUS
<1>2. PICK g : Stages(ss, Len(ss), S, g)
  BY <1>1, StagesExist
<1> DEFINE Step(fl, i) == IF i = 1 THEN ss[i] ELSE fl[i-1] \o ss[i]
           flatten == CHOOSE fl : fl = [i \in 1 .. Len(ss) |-> Step(fl, i)]
<1>3. g = [i \in 1 .. Len(ss) |-> Step(g, i)]
  BY <1>2 DEF Stages
<1>4. flatten = [i \in 1 .. Len(ss) |-> Step(flatten, i)]
  BY <1>3
<1>5. FlattenSeq(ss) = flatten[Len(ss)]
  BY <1>1 DEF FlattenSeq
<1>6. \A i \in 1 .. Len(ss) : flatten[i] = Step(flatten, i)
  <2>1. PICK fl : fl = flatten
    OBVIOUS
  <2>2. fl = [i \in 1 .. Len(ss) |-> Step(fl, i)]
    <3> HIDE DEF Step, flatten
    <3> QED BY <1>4, <2>1
  <2>3. \A i \in 1 .. Len(ss) : fl[i] = Step(fl, i)
    <3> HIDE DEF Step
    <3> QED BY <2>2
  <2> HIDE DEF flatten
  <2> QED BY <2>1, <2>3
<1> HIDE DEF flatten
<1> DEFINE P == {i \in Nat : i \in 1 .. Len(ss) => flatten[i] = g[i]}
<1>7. 0 \in P
  OBVIOUS
<1>8. ASSUME NEW i \in Nat, i \in P PROVE i + 1 \in P
  <2>1. SUFFICES ASSUME i + 1 \in 1 .. Len(ss) PROVE flatten[i+1] = g[i+1]
    OBVIOUS
  <2>2. PICK j : j = i + 1
    OBVIOUS
  <2>22. j \in 1 .. Len(ss) /\ j - 1 = i
    BY <2>1, <2>2
  <2>3. /\ g[j] = IF j = 1 THEN ss[j] ELSE g[j-1] \o ss[j]
        /\ flatten[j] = IF j = 1 THEN ss[j] ELSE flatten[j-1] \o ss[j]
    BY <1>2, <1>6, <2>22 DEF Stages
  <2>4. CASE i = 0
    BY <2>2, <2>3, <2>4
  <2>5. CASE i # 0
    <3>1. i \in 1 .. Len(ss)
      BY <1>1, <2>1, <2>5
    <3>2. flatten[i] = g[i]
      BY <1>8, <3>1
    <3>3. j # 1
      BY <2>2, <2>5
    <3> QED BY <2>2, <2>22, <2>3, <3>2, <3>3
  <2> QED BY <2>4, <2>5
<1>9. Nat \subseteq P
  <2> HIDE DEF P
  <2> QED BY <1>7, <1>8, Induction
<1>10. flatten[Len(ss)] = g[Len(ss)]
  <2>1. Len(ss) \in 1 .. Len(ss)
    BY <1>1
  <2> QED BY <1>1, <1>9, <2>1
<1> QED BY <1>2, <1>5, <1>10

\* What is flattened is a sequence of the elements of the parts ...
LEMMA FlattenType ==
  ASSUME NEW S, NEW ss \in Seq(Seq(S))
  PROVE  FlattenSeq(ss) \in Seq(S)
<1>1. CASE ss = <<>>
  <2>1. FlattenSeq(ss) = <<>>
    BY <1>1 DEF FlattenSeq
  <2> QED BY <2>1
<1>2. CASE ss # <<>>
  <2>1. PICK g : Stages(ss, Len(ss), S, g) /\ FlattenSeq(ss) = g[Len(ss)]
    BY <1>2, FlattenIs
  <2>2. Len(ss) \in 1 .. Len(ss)
    BY <1>2
  <2> QED BY <2>1, <2>2 DEF Stages
<1> QED BY <1>1, <1>2

\* ... and one part more comes at the end.
LEMMA FlattenAppend ==
  ASSUME NEW S, NEW ss \in Seq(Seq(S)), NEW t \in Seq(S)
  PROVE  FlattenSeq(Append(ss, t)) = FlattenSeq(ss) \o t
<1>1. PICK tt : tt = Append(ss, t)
  OBVIOUS
<1>2. /\ tt \in Seq(Seq(S)) /\ tt # <<>> /\ Len(tt) = Len(ss) + 1 /\ Len(ss) \in Nat
      /\ \A i \in 1 .. Len(ss) : tt[i] = ss[i]
      /\ tt[Len(ss) + 1] = t
  BY <1>1, AppendProperties
<1>3. PICK h : Stages(tt, Len(tt), S, h) /\ FlattenSeq(tt) = h[Len(tt)]
  BY <1>2, FlattenIs
<1>4. PICK n : n = Len(ss)
  OBVIOUS
<1>44. n \in Nat /\ Len(tt) = n + 1 /\ Stages(tt, n + 1, S, h)
  BY <1>2, <1>3, <1>4
<1>5. h[n + 1] = IF n + 1 = 1 THEN tt[n + 1] ELSE h[n] \o t
  <2>1. PICK j : j = n + 1
    OBVIOUS
  <2>2. j \in 1 .. n + 1 /\ j - 1 = n
    BY <1>44, <2>1
  <2>3. h[j] = IF j = 1 THEN tt[j] ELSE h[j-1] \o tt[j]
    BY <1>44, <2>2 DEF Stages
  <2> QED BY <1>2, <1>4, <2>1, <2>2, <2>3
<1>6. CASE ss = <<>>
  <2>1. FlattenSeq(ss) = <<>> /\ n = 0
    BY <1>4, <1>6 DEF FlattenSeq
  <2>2. FlattenSeq(tt) = t
    BY <1>2, <1>3, <1>4, <1>5, <2>1
  <2> QED BY <1>1, <2>1, <2>2, ConcatEmptySeq
<1>7. CASE ss # <<>>
  <2>1. PICK g : Stages(ss, Len(ss), S, g) /\ FlattenSeq(ss) = g[Len(ss)]
    BY <1>7, FlattenIs
  <2>2. n \in 1 .. n /\ n + 1 # 1 /\ n \in Nat /\ n + 1 \in Nat /\ n <= n + 1
    BY <1>2, <1>4, <1>7
  <2>3. \A i \in 1 .. n : g[i] = h[i]
    <3>1. Stages(ss, n, S, g) /\ \A i \in 1 .. n : ss[i] = tt[i]
      BY <1>2, <1>4, <2>1
    <3>2. PICK k : k = n + 1
      OBVIOUS
    <3>3. n \in Nat /\ k \in Nat /\ n <= k /\ Stages(tt, k, S, h)
      BY <1>44, <2>2, <3>2
    <3> QED BY <3>1, <3>3, StagesAgree
  <2> QED BY <1>1, <1>2, <1>3, <1>4, <1>5, <2>1, <2>2, <2>3
<1> QED BY <1>6, <1>7

\* The smallest of some positions.
Least(I) == CHOOSE i \in I : \A j \in I : i <= j

\* Some positions, when there are any, have a smallest.
LEMMA LeastIs ==
  ASSUME NEW I, I \subseteq Nat, I # {}
  PROVE  Least(I) \in I /\ \A j \in I : Least(I) <= j
<1> DEFINE R == {ss \in Nat \X Nat : ss[1] < ss[2]}
<1>1. IsWellFoundedOn(R, Nat)
  BY NatLessThanWellFounded DEF OpToRel
<1>2. PICK x \in I : \A y \in I : ~ (<<y, x>> \in R)
  <2> HIDE DEF R
  <2> QED BY <1>1, WFMin
<1>3. ASSUME NEW y \in I PROVE x <= y
  <2>1. x \in Nat /\ y \in Nat
    OBVIOUS
  <2>2. ~ (<<y, x>> \in R)
    BY <1>2
  <2>3. ~ (y < x)
    BY <2>1, <2>2
  <2> HIDE DEF R
  <2> QED BY <2>1, <2>3
<1> QED BY <1>3 DEF Least

\* A sequence without one of its elements: the elements behind it move up.
LEMMA RemoveAtIs ==
  ASSUME NEW S, NEW ss \in Seq(S), NEW k \in 1 .. Len(ss)
  PROVE  /\ RemoveAt(ss, k) \in Seq(S)
         /\ Len(RemoveAt(ss, k)) = Len(ss) - 1
         /\ \A i \in 1 .. Len(ss) - 1 : RemoveAt(ss, k)[i] = IF i < k THEN ss[i] ELSE ss[i+1]
<1>1. PICK n : n = Len(ss)
  OBVIOUS
<1>2. n \in Nat /\ k \in 1 .. n
  BY <1>1
<1>3. PICK u : u = SubSeq(ss, 1, k-1)
  OBVIOUS
<1>4. PICK v : v = SubSeq(ss, k+1, n)
  OBVIOUS
<1>5. u \in Seq(S) /\ Len(u) = k - 1 /\ \A i \in 1 .. k - 1 : u[i] = ss[i]
  BY <1>1, <1>2, <1>3
<1>6. v \in Seq(S) /\ Len(v) = n - k /\ \A i \in 1 .. n - k : v[i] = ss[k + i]
  BY <1>1, <1>2, <1>4
<1>7. RemoveAt(ss, k) = u \o v
  BY <1>1, <1>3, <1>4 DEF RemoveAt
<1>8. u \o v \in Seq(S) /\ Len(u \o v) = n - 1
  BY <1>2, <1>5, <1>6
<1>9. ASSUME NEW i \in 1 .. n - 1 PROVE (u \o v)[i] = IF i < k THEN ss[i] ELSE ss[i+1]
  <2>1. CASE i < k
    <3>1. i \in 1 .. Len(u) /\ i \in 1 .. k - 1
      BY <1>2, <1>5, <2>1
    <3> QED BY <1>5, <1>6, <2>1, <3>1
  <2>2. CASE ~ (i < k)
    <3>1. PICK j : j = i - (k - 1)
      OBVIOUS
    <3>2. j \in 1 .. n - k /\ k + j = i + 1 /\ i = (k - 1) + j
      BY <1>2, <2>2, <3>1
    <3>3. (u \o v)[i] = v[j]
      BY <1>2, <1>5, <1>6, <2>2, <3>1, <3>2
    <3> QED BY <1>6, <2>2, <3>2, <3>3
  <2> QED BY <2>1, <2>2
<1> QED BY <1>1, <1>7, <1>8, <1>9

\* A sequence without duplicates keeps everything but the element that is removed.
LEMMA RemoveFirstIs ==
  ASSUME NEW S, NEW ss \in Seq(S), IsInjective(ss), NEW e
  PROVE  /\ RemoveFirst(ss, e) \in Seq(S)
         /\ IsInjective(RemoveFirst(ss, e))
         /\ Range(RemoveFirst(ss, e)) = Range(ss) \ {e}
<1>1. CASE ~ \E i \in 1 .. Len(ss) : ss[i] = e
  BY <1>1 DEF RemoveFirst, Range
<1>2. CASE \E i \in 1 .. Len(ss) : ss[i] = e
  <2>1. PICK k : k = SelectInSeq(ss, LAMBDA v: v = e)
    OBVIOUS
  <2>2. RemoveFirst(ss, e) = RemoveAt(ss, k)
    BY <1>2, <2>1 DEF RemoveFirst
  <2>3. k = Min({i \in 1 .. Len(ss) : ss[i] = e})
    BY <1>2, <2>1 DEF SelectInSeq
  <2>4. k \in {i \in 1 .. Len(ss) : ss[i] = e}
    <3>1. PICK I : I = {i \in 1 .. Len(ss) : ss[i] = e}
      OBVIOUS
    <3>2. I \subseteq Nat /\ I # {}
      BY <1>2, <3>1
    <3>3. k = Least(I)
      BY <2>3, <3>1 DEF Min, Least
    <3>4. k \in I
      BY ONLY <3>2, <3>3, LeastIs
    <3> QED BY <3>1, <3>4
  <2>5. PICK r : r = RemoveAt(ss, k)
    OBVIOUS
  <2>6. /\ r \in Seq(S) /\ Len(r) = Len(ss) - 1
        /\ \A i \in 1 .. Len(ss) - 1 : r[i] = IF i < k THEN ss[i] ELSE ss[i+1]
    BY <2>4, <2>5, RemoveAtIs
  <2>7. \A i, j \in 1 .. Len(ss) : ss[i] = ss[j] => i = j
    BY DEF IsInjective
  <2>8. \A i, j \in 1 .. Len(r) : r[i] = r[j] => i = j
    BY <2>4, <2>6, <2>7
  <2>9. IsInjective(r)
    BY <2>6, <2>8 DEF IsInjective
  <2>10. \A i \in 1 .. Len(r) : r[i] \in Range(ss) /\ r[i] # e
    BY <2>4, <2>6, <2>7 DEF Range
  <2>11. \A j \in 1 .. Len(ss) : ss[j] # e => \E i \in 1 .. Len(r) : r[i] = ss[j]
    <3>1. SUFFICES ASSUME NEW j \in 1 .. Len(ss), ss[j] # e
                   PROVE  \E i \in 1 .. Len(r) : r[i] = ss[j]
      OBVIOUS
    <3>2. CASE j < k
      <4>1. j \in 1 .. Len(ss) - 1
        BY <2>4, <3>2
      <4> QED BY <2>6, <3>2, <4>1
    <3>3. CASE j > k
      <4>1. j - 1 \in 1 .. Len(ss) - 1 /\ ~ (j - 1 < k) /\ j - 1 + 1 = j
        BY <2>4, <3>3
      <4> QED BY <2>6, <4>1
    <3>4. j # k
      BY <2>4, <3>1
    <3> QED BY <2>4, <3>2, <3>3, <3>4
  <2>12. Range(r) = Range(ss) \ {e}
    <3>1. \A x : x \in Range(r) <=> \E i \in 1 .. Len(r) : r[i] = x
      BY <2>6 DEF Range
    <3>2. \A x : x \in Range(ss) <=> \E i \in 1 .. Len(ss) : ss[i] = x
      BY DEF Range
    <3> QED BY <2>10, <2>11, <3>1, <3>2
  <2> QED BY <2>2, <2>5, <2>6, <2>9, <2>12
<1> QED BY <1>1, <1>2
\* What is left of a sequence are its other elements ...
LeftOver(ss, k, r) ==
  /\ \A i \in 1 .. Len(r) : \E j \in 1 .. Len(ss) : j # k /\ r[i] = ss[j]
  /\ \A j \in 1 .. Len(ss) : j # k => \E i \in 1 .. Len(r) : r[i] = ss[j]

\* What RemoveAt leaves.
LEMMA RemovedRest ==
  ASSUME NEW S, NEW ss \in Seq(S), NEW k \in 1 .. Len(ss), NEW r, r = RemoveAt(ss, k)
  PROVE  LeftOver(ss, k, r)
<1>1. /\ r \in Seq(S) /\ Len(r) = Len(ss) - 1
      /\ \A i \in 1 .. Len(ss) - 1 : r[i] = IF i < k THEN ss[i] ELSE ss[i+1]
  BY RemoveAtIs
<1>2. ASSUME NEW i \in 1 .. Len(r) PROVE \E j \in 1 .. Len(ss) : j # k /\ r[i] = ss[j]
  <2>1. CASE i < k
    <3>1. i \in 1 .. Len(ss) /\ i # k /\ r[i] = ss[i]
      BY <1>1, <2>1
    <3> QED BY <3>1
  <2>2. CASE ~ (i < k)
    <3>1. i + 1 \in 1 .. Len(ss) /\ i + 1 # k /\ r[i] = ss[i+1]
      BY <1>1, <2>2
    <3> QED BY <3>1
  <2> QED BY <2>1, <2>2
<1>3. ASSUME NEW j \in 1 .. Len(ss), j # k PROVE \E i \in 1 .. Len(r) : r[i] = ss[j]
  <2>1. CASE j < k
    <3>1. j \in 1 .. Len(r) /\ r[j] = ss[j]
      BY <1>1, <2>1
    <3> QED BY <3>1
  <2>2. CASE ~ (j < k)
    <3>1. PICK i : i = j - 1
      OBVIOUS
    <3>2. i \in 1 .. Len(r) /\ ~ (i < k) /\ i + 1 = j
      BY <1>1, <1>3, <2>2, <3>1
    <3> QED BY <1>1, <3>2
  <2> QED BY <2>1, <2>2
<1> QED BY <1>2, <1>3 DEF LeftOver

\* ... and what holds of every two of them still does.
LEMMA RemovedPairs ==
  ASSUME NEW S, NEW ss \in Seq(S), NEW k \in 1 .. Len(ss), NEW r, r = RemoveAt(ss, k),
         NEW i \in 1 .. Len(r), NEW j \in 1 .. Len(r), i < j
  PROVE  \E x, y \in 1 .. Len(ss) : x < y /\ r[i] = ss[x] /\ r[j] = ss[y]
<1>1. /\ r \in Seq(S) /\ Len(r) = Len(ss) - 1
      /\ \A z \in 1 .. Len(ss) - 1 : r[z] = IF z < k THEN ss[z] ELSE ss[z+1]
  BY RemoveAtIs
<1>2. PICK x : x = IF i < k THEN i ELSE i + 1
  OBVIOUS
<1>3. PICK y : y = IF j < k THEN j ELSE j + 1
  OBVIOUS
<1>4. x \in 1 .. Len(ss) /\ y \in 1 .. Len(ss) /\ x < y
  BY <1>1, <1>2, <1>3
<1>5. r[i] = ss[x] /\ r[j] = ss[y]
  BY <1>1, <1>2, <1>3
<1> QED BY <1>4, <1>5

-----------------------------------------------------------------------------
(* 17-LABMID.                                                                *)

LabNext == TypeLine \/ F \/ S1 \/ S2 \/ \E c \in Clients : Client(c)

Datagrams == [kind : {"enq", "review"}, from : Clients]
               \cup [kind : {"rev"}, from : Clients, server : Nat]
Reviews == [service : Services, from : Clients]
Requests == [from : Clients, number : Nat]
Answers == [from : Clients, number : Nat, by : Services]

\* What F keeps: its services were started and those only, it has no two of a kind, and what
\* select has reported is still there when F comes to it.
Facilities ==
  /\ servers \in Seq(Services) /\ Len(servers) <= MAXSER /\ IsInjective(servers)
  /\ keyboard \in Seq(Lines)
  /\ f \in {"loop", "rev", "down"}
  /\ readfds \subseteq {"keyboard", "cless_sfd"} \cup Services
  /\ f # "loop" => readfds \subseteq Services
  /\ "keyboard" \in readfds => keyboard # <<>>
  /\ "cless_sfd" \in readfds => inbox # <<>>
  /\ inbox \in Seq(Datagrams)
  /\ service \in [Services -> {"off", "started", "loop", "accept", "dead"}]
  /\ \A s \in Services : service[s] # "off" <=> s \in Range(servers)

\* A list that F has sent is the beginning of its own.
Begins(u, v) == Len(u) <= Len(v) /\ \A i \in 1 .. Len(u) : u[i] = v[i]
Lists ==
  /\ reply \in [Clients -> Seq(Seq(Services))] /\ list \in [Clients -> Seq(Services)]
  /\ \A c \in Clients : /\ Begins(list[c], servers)
                        /\ \A i \in 1 .. Len(reply[c]) : Begins(reply[c][i], servers)

\* A client stands with the service that it has chosen, and with no other.
Seated(c, s, a, b) == c \in Range(a[s]) \/ c \in Range(b[s])
Served(pc) == pc \in {"use", "recv", "review", "rev", "end"}
Seats ==
  /\ accepted \in [Services -> Seq(Clients)] /\ backlog \in [Services -> Seq(Clients)]
  /\ cpc \in [Clients -> {"off", "wait", "menu", "use", "recv", "review", "rev", "end"}]
  /\ server \in [Clients -> Nat]
  /\ \A c \in Clients :
       Served(cpc[c]) => /\ server[c] \in 1 .. Len(list[c])
                         /\ Seated(c, list[c][server[c]], accepted, backlog)
  /\ \A c \in Clients : \A s \in Services :
       Seated(c, s, accepted, backlog) => Served(cpc[c]) /\ s = list[c][server[c]]

\* A thread works with a client of its own service.
Threads ==
  /\ thread \in [Clients -> [at : {"none", "call", "recv", "send", "review", "end"},
                             fd : Clients, buff : Seq(Requests)]]
  /\ \A c \in Clients : thread[c].at # "none" <=> \E s \in Services : c \in Range(accepted[s])
  /\ \A c \in Clients : \A s \in Services :
       c \in Range(accepted[s]) /\ thread[c].at \in {"recv", "send", "review"}
         => thread[c].fd \in Range(accepted[s])
  /\ \A c \in Clients : \A i \in 1 .. Len(thread[c].buff) : thread[c].buff[i].from = thread[c].fd
  /\ sent \in [Clients -> Seq(Requests)]
  /\ \A c \in Clients : \A i \in 1 .. Len(sent[c]) : sent[c][i].from = c

\* A review is on its way from a client that is done, and was put into the message queue for
\* the service that the client stands with.
Reviewed ==
  /\ reviews \in Seq(Reviews)
  /\ \A i \in 1 .. Len(inbox) : inbox[i].kind = "rev" =>
       cpc[inbox[i].from] = "end" /\ inbox[i].server = server[inbox[i].from]
  /\ \A i \in 1 .. Len(reviews) : Seated(reviews[i].from, reviews[i].service, accepted, backlog)

\* What was answered, by whom, and to whom.
Answered ==
  /\ answers \in [Clients -> Seq(Answers)] /\ got \in [Clients -> Seq(Answers)]
  /\ \A c \in Clients : \A i \in 1 .. Len(Given(c)) :
       Before(Given(c)[i].by, Given(c)[i].from, c)

\* Where a request can be: in the socket of its client, in a thread, or in an answer.
Request(a) == [from |-> a.from, number |-> a.number]
Whereabouts == {"sent", "buff", "given"} \X Clients
Gives(g, a, d) == g[d] \o a[d]
Asked(q) == [i \in DOMAIN q |-> Request(q[i])]
Found(sn, th, g, a) ==
  [h \in Whereabouts |-> IF h[1] = "sent" THEN sn[h[2]]
                         ELSE IF h[1] = "buff" THEN th[h[2]].buff
                         ELSE Asked(Gives(g, a, h[2]))]
Requested == Found(sent, thread, got, answers)

\* A request is in one place, once.
Once(z) == \A h, k \in DOMAIN z : \A i \in 1 .. Len(z[h]), j \in 1 .. Len(z[k]) :
             z[h][i] = z[k][j] => h = k /\ i = j

\* The requests of a client have the numbers up to the last one it has sent; 0 stands for stop.
Issued(t, a, w) == t.number <= a[t.from] /\ (t.number = 0 => w[t.from] \in {"review", "rev", "end"})
Requesting ==
  /\ asked \in [Clients -> Nat]
  /\ \A h \in Whereabouts : \A i \in 1 .. Len(Requested[h]) : Issued(Requested[h][i], asked, cpc)
  /\ Once(Requested)

LabInv == Facilities /\ Lists /\ Seats /\ Threads /\ Reviewed /\ Answered /\ Requesting

\* The program starts so.
LEMMA LabInit == ASSUME LinesAssumption, Init PROVE LabInv
<1>1. \A x : x \notin Range(<<>>)
  BY DEF Range
<1>2. \A i \in 1 .. Len(<<>>) : FALSE
  OBVIOUS
<1>3. Facilities
  <2>1. MAXSER \in Nat /\ Len(<<>>) = 0 /\ IsInjective(<<>>)
    BY DEF LinesAssumption, IsInjective
  <2> QED BY <1>1, <2>1 DEF Init, Facilities
<1>4. Lists
  <2>1. servers = <<>> /\ \A c \in Clients : list[c] = <<>> /\ reply[c] = <<>>
    BY DEF Init
  <2>2. Begins(<<>>, <<>>)
    BY <1>2 DEF Begins
  <2>3. reply \in [Clients -> Seq(Seq(Services))] /\ list \in [Clients -> Seq(Services)]
    BY DEF Init
  <2> QED BY <1>2, <2>1, <2>2, <2>3 DEF Lists
<1>5. Seats
  BY <1>1 DEF Init, Seats, Seated, Served
<1>6. Threads
  <2>1. \A c \in Clients : sent[c] = <<>> /\ thread[c].buff = <<>> /\ thread[c].at = "none"
    BY DEF Init
  <2>2. \A s \in Services : accepted[s] = <<>>
    BY DEF Init
  <2>3. /\ thread \in [Clients -> [at : {"none", "call", "recv", "send", "review", "end"},
                                   fd : Clients, buff : Seq(Requests)]]
        /\ sent \in [Clients -> Seq(Requests)]
    BY DEF Init
  <2> QED BY <1>1, <1>2, <2>1, <2>2, <2>3 DEF Threads
<1>7. Reviewed
  <2>1. inbox = <<>> /\ reviews = <<>>
    BY DEF Init
  <2> QED BY <1>2, <2>1 DEF Reviewed
<1>8. \A c \in Clients : Given(c) = <<>>
  <2>1. ASSUME NEW c \in Clients PROVE Given(c) = <<>>
    <3>1. got[c] = <<>> /\ answers[c] = <<>>
      BY DEF Init
    <3>2. <<>> \o <<>> = <<>>
      OBVIOUS
    <3> QED BY <3>1, <3>2 DEF Given
  <2> QED BY <2>1
<1>9. Answered
  <2>1. answers \in [Clients -> Seq(Answers)] /\ got \in [Clients -> Seq(Answers)]
    BY DEF Init
  <2> QED BY <1>2, <1>8, <2>1 DEF Answered
<1>10. Requesting
  <2>1. ASSUME NEW h \in Whereabouts PROVE Len(Requested[h]) = 0
    <3>1. h[2] \in Clients
      BY DEF Whereabouts
    <3>2. /\ sent[h[2]] = <<>> /\ thread[h[2]].buff = <<>> /\ Gives(got, answers, h[2]) = <<>>
          /\ Len(<<>>) = 0 /\ Len(Asked(<<>>)) = 0
      BY <1>8, <3>1 DEF Init, Given, Gives, Asked
    <3> QED BY <3>2 DEF Requested, Found
  <2>2. \A h \in Whereabouts : \A i \in 1 .. Len(Requested[h]) : FALSE
    BY <2>1
  <2>3. DOMAIN Requested = Whereabouts
    BY DEF Requested, Found
  <2>4. asked \in [Clients -> Nat]
    BY DEF Init
  <2> QED BY <2>2, <2>3, <2>4 DEF Requesting, Once
<1> QED BY <1>3, <1>4, <1>5, <1>6, <1>7, <1>9, <1>10 DEF LabInv

\* The steps of the program.
ServiceStep(s) == Ready(s) \/ Handle(s) \/ NewClient(s)
ThreadStep(s, c) ==
  c \in Range(accepted[s]) /\ (CallRecv(s, c) \/ Recv(c) \/ SendAnswer(s, c) \/ TakeReview(s, c))

\* The steps of LabNext, one by one.
LEMMA LabSteps ==
  ASSUME LabNext
  PROVE  \/ TypeLine \/ Select \/ ReadKeyboard \/ ReadDatagram \/ ReadReview \/ Notify
         \/ \E s \in Services : ServiceStep(s)
         \/ \E s \in Services : \E c \in Clients : ThreadStep(s, c)
         \/ \E c \in Clients : Client(c)
<1>1. ASSUME NEW s \in Services, Service(s)
      PROVE  ServiceStep(s) \/ \E c \in Clients : ThreadStep(s, c)
  BY <1>1 DEF Service, ServiceStep, ClientHandler, ThreadStep
<1> QED BY <1>1 DEF LabNext, F, S1, S2, Services

\* A sequence without its first element.
LEMMA TailIs ==
  ASSUME NEW S, NEW ss \in Seq(S), ss # <<>>
  PROVE  /\ Head(ss) = ss[1] /\ ss[1] \in S /\ 1 \in 1 .. Len(ss)
         /\ Tail(ss) \in Seq(S) /\ Len(Tail(ss)) = Len(ss) - 1
         /\ \A i \in 1 .. Len(Tail(ss)) : i + 1 \in 1 .. Len(ss) /\ Tail(ss)[i] = ss[i+1]
         /\ \A x : x \in Range(ss) <=> x = Head(ss) \/ x \in Range(Tail(ss))
<1>1. /\ Head(ss) = ss[1] /\ ss[1] \in S /\ 1 \in 1 .. Len(ss)
      /\ Tail(ss) \in Seq(S) /\ Len(Tail(ss)) = Len(ss) - 1 /\ Len(ss) \in Nat
  OBVIOUS
<1>2. \A i \in 1 .. Len(Tail(ss)) : i + 1 \in 1 .. Len(ss) /\ Tail(ss)[i] = ss[i+1]
  BY <1>1
<1>3. PICK t : t = Tail(ss)
  OBVIOUS
<1>4. /\ t \in Seq(S) /\ Len(t) = Len(ss) - 1
      /\ \A i \in 1 .. Len(t) : i + 1 \in 1 .. Len(ss) /\ t[i] = ss[i+1]
  BY <1>1, <1>2, <1>3
<1>5. \A x : x \in Range(ss) <=> \E i \in 1 .. Len(ss) : ss[i] = x
  BY DEF Range
<1>6. \A x : x \in Range(t) <=> \E i \in 1 .. Len(t) : t[i] = x
  BY <1>4 DEF Range
<1>7. ASSUME NEW i \in 1 .. Len(ss) PROVE ss[i] = ss[1] \/ ss[i] \in Range(t)
  <2>1. CASE i = 1
    BY <2>1
  <2>2. CASE i # 1
    <3>1. PICK j : j = i - 1
      OBVIOUS
    <3>2. j \in 1 .. Len(t) /\ j + 1 = i
      BY <1>1, <1>4, <2>2, <3>1
    <3>3. t[j] = ss[i]
      BY <1>4, <3>2
    <3> QED BY <1>6, <3>2, <3>3
  <2> QED BY <2>1, <2>2
<1>8. ASSUME NEW x, x \in Range(t) PROVE x \in Range(ss)
  BY <1>4, <1>5, <1>6, <1>8
<1>9. \A x : x \in Range(ss) <=> x = Head(ss) \/ x \in Range(t)
  <2>1. ss[1] \in Range(ss)
    BY <1>1, <1>5
  <2> QED BY <1>1, <1>5, <1>7, <1>8, <2>1
<1> QED BY <1>1, <1>2, <1>3, <1>9

\* A sequence with an element more.
LEMMA AppendIs ==
  ASSUME NEW S, NEW ss \in Seq(S), NEW e \in S
  PROVE  /\ Append(ss, e) \in Seq(S) /\ Len(Append(ss, e)) = Len(ss) + 1 /\ Len(ss) \in Nat
         /\ Append(ss, e)[Len(ss) + 1] = e
         /\ \A i \in 1 .. Len(ss) : Append(ss, e)[i] = ss[i] /\ i \in 1 .. Len(Append(ss, e))
         /\ \A i \in 1 .. Len(Append(ss, e)) : i \in 1 .. Len(ss) \/ i = Len(ss) + 1
         /\ \A x : x \in Range(Append(ss, e)) <=> x \in Range(ss) \/ x = e
<1>1. PICK t : t = Append(ss, e)
  OBVIOUS
<1>2. /\ t \in Seq(S) /\ Len(t) = Len(ss) + 1 /\ Len(ss) \in Nat /\ t[Len(ss) + 1] = e
      /\ \A i \in 1 .. Len(ss) : t[i] = ss[i]
  BY <1>1
<1>3. /\ \A i \in 1 .. Len(ss) : i \in 1 .. Len(t)
      /\ \A i \in 1 .. Len(t) : i \in 1 .. Len(ss) \/ i = Len(ss) + 1
  BY <1>2
<1>4. \A x : x \in Range(ss) <=> \E i \in 1 .. Len(ss) : ss[i] = x
  BY DEF Range
<1>5. \A x : x \in Range(t) <=> \E i \in 1 .. Len(t) : t[i] = x
  BY <1>2 DEF Range
<1>6. \A x : x \in Range(t) => x \in Range(ss) \/ x = e
  BY <1>2, <1>3, <1>4, <1>5
<1>7. \A x : x \in Range(ss) => x \in Range(t)
  BY <1>2, <1>3, <1>4, <1>5
<1>8. e \in Range(t)
  <2>1. Len(ss) + 1 \in 1 .. Len(t)
    BY <1>2
  <2> QED BY <1>2, <1>5, <2>1
<1> QED BY <1>1, <1>2, <1>3, <1>6, <1>7, <1>8

\* F and its services.
LEMMA FacilitiesStay ==
  ASSUME LinesAssumption, Facilities, Seats, LabNext \/ UNCHANGED labVars PROVE Facilities'
<1>0. /\ servers \in Seq(Services) /\ keyboard \in Seq(Lines) /\ inbox \in Seq(Datagrams)
      /\ service \in [Services -> {"off", "started", "loop", "accept", "dead"}]
      /\ readfds \subseteq {"keyboard", "cless_sfd"} \cup Services
      /\ {"keyboard", "cless_sfd", "invalid"} \cap Services = {} /\ MAXSER \in Nat
      /\ Lines \subseteq Services \cup {"invalid"}
  BY DEF Facilities, LinesAssumption
<1>1. CASE TypeLine
  <2>1. PICK l \in Lines : keyboard' = Append(keyboard, l)
    BY <1>1 DEF TypeLine
  <2>2. UNCHANGED <<servers, readfds, f, inbox, service>>
    BY <1>1 DEF TypeLine, udpVars, serviceVars
  <2>3. keyboard' \in Seq(Lines) /\ keyboard' # <<>>
    BY <1>0, <2>1
  <2> QED BY <2>2, <2>3 DEF Facilities
<1>2. CASE Select
  <2>1. UNCHANGED <<servers, keyboard, f, inbox, service>> /\ f = "loop"
    BY <1>2 DEF Select, udpVars, serviceVars
  <2>2. readfds' = {d \in {"keyboard"} : keyboard # <<>>}
                     \cup {d \in {"cless_sfd"} : inbox # <<>>}
                     \cup {s \in Range(servers) : backlog[s] # <<>>}
    BY <1>2 DEF Select
  <2>3. Range(servers) \subseteq Services
    BY <1>0 DEF Range
  <2>4. /\ readfds' \subseteq {"keyboard", "cless_sfd"} \cup Services
        /\ "keyboard" \in readfds' => keyboard # <<>>
        /\ "cless_sfd" \in readfds' => inbox # <<>>
    BY <1>0, <2>2, <2>3
  <2> QED BY <2>1, <2>4 DEF Facilities
<1>3. CASE ReadKeyboard
  <2>1. UNCHANGED <<f, inbox>> /\ "keyboard" \in readfds /\ keyboard # <<>>
    BY <1>3 DEF ReadKeyboard, udpVars, Facilities
  <2>2. f = "loop"
    BY <1>0, <2>1 DEF Facilities
  <2>3. CASE UNCHANGED <<servers, keyboard, service>> /\ readfds' = {}
    BY <2>1, <2>3 DEF Facilities
  <2>4. PICK l : l = Head(keyboard)
    OBVIOUS
  <2>5. l \in Lines /\ Tail(keyboard) \in Seq(Lines)
    BY <1>0, <2>1, <2>4
  <2>6. CASE /\ keyboard' = Tail(keyboard) /\ readfds' = {} /\ UNCHANGED <<servers, service>>
    BY <2>1, <2>5, <2>6 DEF Facilities
  <2>7. CASE /\ Len(servers) < MAXSER /\ keyboard' = Tail(keyboard) /\ ~ Refused(l)
             /\ servers' = Append(servers, l)
             /\ service' = [service EXCEPT ![l] = "started"]
             /\ readfds' = readfds \ {"keyboard"}
    <3>1. l \in Services /\ l \notin Range(servers)
      BY <1>0, <2>5, <2>7 DEF Refused
    <3>2. /\ servers' \in Seq(Services) /\ Len(servers') = Len(servers) + 1 /\ Len(servers) \in Nat
          /\ servers'[Len(servers) + 1] = l
          /\ \A i \in 1 .. Len(servers) : servers'[i] = servers[i]
          /\ \A i \in 1 .. Len(servers') : i \in 1 .. Len(servers) \/ i = Len(servers) + 1
          /\ \A x : x \in Range(servers') <=> x \in Range(servers) \/ x = l
      <4>1. PICK t : t = Append(servers, l)
        OBVIOUS
      <4>2. servers' = t
        BY <2>7, <4>1
      <4> QED BY <1>0, <3>1, <4>1, <4>2, AppendIs
    <3>3. Len(servers') <= MAXSER
      BY <1>0, <2>7, <3>2
    <3>4. IsInjective(servers')
      <4>1. \A i, j \in 1 .. Len(servers) : servers[i] = servers[j] => i = j
        BY <1>0 DEF Facilities, IsInjective
      <4>2. \A i \in 1 .. Len(servers) : servers[i] # l
        BY <1>0, <3>1 DEF Range
      <4>3. \A i, j \in 1 .. Len(servers') : servers'[i] = servers'[j] => i = j
        BY <3>2, <4>1, <4>2
      <4> QED BY <3>2, <4>3 DEF IsInjective
    <3>5. service' \in [Services -> {"off", "started", "loop", "accept", "dead"}]
      BY <1>0, <2>7, <3>1
    <3>6. \A s \in Services : service'[s] # "off" <=> s \in Range(servers')
      <4>1. ASSUME NEW s \in Services PROVE service'[s] # "off" <=> s \in Range(servers')
        <5>1. CASE s = l
          BY <1>0, <2>7, <3>1, <3>2, <5>1
        <5>2. CASE s # l
          BY <1>0, <2>7, <3>2, <5>2 DEF Facilities
        <5> QED BY <5>1, <5>2
      <4> QED BY <4>1
    <3>7. /\ readfds' \subseteq {"keyboard", "cless_sfd"} \cup Services
          /\ "keyboard" \notin readfds' /\ ("cless_sfd" \in readfds' => inbox # <<>>)
      BY <1>0, <2>7 DEF Facilities
    <3> QED BY <2>1, <2>2, <2>5, <2>7, <3>2, <3>3, <3>4, <3>5, <3>6, <3>7 DEF Facilities
  <2> QED
    <3>1. CASE Len(servers) >= MAXSER
      BY <1>3, <2>3, <3>1 DEF ReadKeyboard
    <3>2. CASE ~ (Len(servers) >= MAXSER)
      <4>1. Len(servers) \in Nat
        BY <1>0
      <4>2. Len(servers) < MAXSER
        BY <1>0, <3>2, <4>1
      <4> QED BY <1>3, <2>4, <2>6, <2>7, <3>2, <4>2 DEF ReadKeyboard, LinesAfter
    <3> QED BY <3>1, <3>2
<1>4. CASE ReadDatagram
  <2>1. /\ UNCHANGED <<servers, keyboard, service>> /\ f' \in {"loop", "rev"}
        /\ readfds' = readfds \ {"cless_sfd"} /\ "keyboard" \notin readfds
        /\ "cless_sfd" \in readfds /\ inbox' = Tail(inbox)
    BY <1>4 DEF ReadDatagram, serviceVars
  <2>2. inbox' \in Seq(Datagrams)
    BY <1>0, <2>1 DEF Facilities
  <2>3. readfds' \subseteq Services /\ "keyboard" \notin readfds' /\ "cless_sfd" \notin readfds'
    BY <1>0, <2>1
  <2> QED BY <1>0, <2>1, <2>2, <2>3 DEF Facilities
<1>5. CASE ReadReview
  <2>1. /\ UNCHANGED <<servers, keyboard, readfds, service>> /\ f = "rev" /\ inbox # <<>>
        /\ inbox' = Tail(inbox) /\ f' \in {"loop", "down"}
    BY <1>5 DEF ReadReview, serviceVars
  <2>2. inbox' \in Seq(Datagrams)
    BY <1>0, <2>1
  <2>3. readfds \subseteq Services
    BY <2>1 DEF Facilities
  <2> QED BY <1>0, <2>1, <2>2, <2>3 DEF Facilities
<1>6. CASE Notify
  <2>1. UNCHANGED <<servers, keyboard, f, inbox>> /\ readfds' = {}
    BY <1>6 DEF Notify, udpVars
  <2>2. PICK x : x = Notified
    OBVIOUS
  <2>3. \/ service[x] = "started" /\ service' = [service EXCEPT ![x] = "dead"]
        \/ service' = service
    BY <1>6, <2>2 DEF Notify
  <2>4. /\ service' \in [Services -> {"off", "started", "loop", "accept", "dead"}]
        /\ \A s \in Services : service'[s] # "off" <=> service[s] # "off"
    <3>1. CASE service' = service
      BY <1>0, <3>1
    <3>2. CASE service[x] = "started" /\ service' = [service EXCEPT ![x] = "dead"]
      BY <1>0, <3>2
    <3> QED BY <2>3, <3>1, <3>2
  <2> QED BY <2>1, <2>4 DEF Facilities
<1>7. ASSUME NEW s \in Services, ServiceStep(s) PROVE Facilities'
  <2>1. UNCHANGED <<servers, keyboard, readfds, f, inbox>>
    BY <1>7 DEF ServiceStep, Ready, Handle, NewClient, fVars, udpVars
  <2>2. PICK x \in {"loop", "accept"} : service' = [service EXCEPT ![s] = x]
    BY <1>7 DEF ServiceStep, Ready, Handle, NewClient
  <2>3. service[s] \in {"started", "loop", "accept"}
    BY <1>7 DEF ServiceStep, Ready, Handle, NewClient
  <2>4. /\ service' \in [Services -> {"off", "started", "loop", "accept", "dead"}]
        /\ \A t \in Services : service'[t] # "off" <=> service[t] # "off"
    BY <1>0, <2>2, <2>3
  <2> QED BY <2>1, <2>4 DEF Facilities
<1>8. CASE UNCHANGED <<servers, keyboard, readfds, f, inbox, service>>
  BY <1>8 DEF Facilities
<1>9. ASSUME NEW s \in Services, NEW c \in Clients, ThreadStep(s, c)
      PROVE  UNCHANGED <<servers, keyboard, readfds, f, inbox, service>>
  BY <1>9 DEF ThreadStep, CallRecv, Recv, SendAnswer, TakeReview, fVars, udpVars
<1>10. ASSUME NEW c \in Clients, NEW d \in Datagrams, SendTo(d),
              UNCHANGED <<servers, keyboard, readfds, f, service>>
       PROVE  Facilities'
  <2>1. inbox' = Append(inbox, d)
    BY <1>10 DEF SendTo
  <2>2. inbox' \in Seq(Datagrams) /\ inbox' # <<>>
    BY <1>0, <2>1
  <2> QED BY <1>10, <2>2 DEF Facilities
<1>11. ASSUME NEW c \in Clients, Client(c) PROVE Facilities'
  <2>1. CASE Enquire(c)
    <3>1. [kind |-> "enq", from |-> c] \in Datagrams
      BY DEF Datagrams
    <3> QED BY <1>10, <2>1, <3>1 DEF Enquire, fVars, serviceVars
  <2>2. CASE SendReviewKey(c)
    <3>1. [kind |-> "review", from |-> c] \in Datagrams
      BY DEF Datagrams
    <3> QED BY <1>10, <2>2, <3>1 DEF SendReviewKey, fVars, serviceVars
  <2>3. CASE SendReview(c)
    <3>1. [kind |-> "rev", from |-> c, server |-> server[c]] \in Datagrams
      BY DEF Datagrams, Seats
    <3> QED BY <1>10, <2>3, <3>1 DEF SendReview, fVars, serviceVars
  <2>4. CASE GetServers(c) \/ Connect(c)
    <3>1. UNCHANGED <<servers, keyboard, readfds, f, inbox, service>>
      BY <2>4 DEF GetServers, Connect, fVars, udpVars, serviceVars
    <3> QED BY <1>8, <3>1
  <2>5. CASE SendRequest(c) \/ RecvAnswer(c) \/ SendStop(c)
    <3>1. UNCHANGED <<servers, keyboard, readfds, f, inbox, service>>
      BY <2>5 DEF SendRequest, RecvAnswer, SendStop, fVars, udpVars, serviceVars
    <3> QED BY <1>8, <3>1
  <2> QED BY <1>11, <2>1, <2>2, <2>3, <2>4, <2>5 DEF Client, ClientRuns, ClientUser
<1>12. CASE UNCHANGED labVars
  BY <1>8, <1>12 DEF labVars, fVars, udpVars, serviceVars
<1> QED BY <1>1, <1>2, <1>3, <1>4, <1>5, <1>6, <1>7, <1>8, <1>9, <1>11, <1>12, LabSteps

\* The lists of the services.
LEMMA BeginsStays ==
  ASSUME NEW u \in Seq(Services), NEW v \in Seq(Services), NEW l \in Services, Begins(u, v)
  PROVE  Begins(u, Append(v, l))
<1>1. PICK t : t = Append(v, l)
  OBVIOUS
<1>2. Len(t) = Len(v) + 1 /\ Len(v) \in Nat /\ Len(u) \in Nat /\ \A i \in 1 .. Len(v) : t[i] = v[i]
  BY <1>1
<1>3. Begins(u, t)
  BY <1>2 DEF Begins
<1> QED BY <1>1, <1>3

\* F's own list only grows, and what a client has of it stays its beginning.
LEMMA ListsStay ==
  ASSUME LinesAssumption, Facilities, Lists, LabNext \/ UNCHANGED labVars PROVE Lists'
<1>0. /\ servers \in Seq(Services) /\ reply \in [Clients -> Seq(Seq(Services))]
      /\ list \in [Clients -> Seq(Services)]
      /\ \A c \in Clients : /\ Begins(list[c], servers)
                            /\ \A i \in 1 .. Len(reply[c]) : Begins(reply[c][i], servers)
  BY DEF Facilities, Lists
<1>1. CASE UNCHANGED <<servers, reply, list>>
  BY <1>1 DEF Lists
<1>2. CASE ReadKeyboard
  <2>1. UNCHANGED <<reply, list>>
    BY <1>2 DEF ReadKeyboard, udpVars, clientVars
  <2>2. CASE servers' = servers
    BY <1>1, <2>1, <2>2
  <2>3. CASE servers' # servers
    <3>1. PICK l : l = Head(keyboard)
      OBVIOUS
    <3>2. servers' = Append(servers, l) /\ ~ Refused(l) /\ keyboard # <<>>
      BY <1>2, <2>3, <3>1 DEF ReadKeyboard, Facilities
    <3>3. l \in Services
      <4>1. l \in Lines
        BY <3>1, <3>2 DEF Facilities
      <4> QED BY <3>2, <4>1 DEF LinesAssumption, Refused
    <3>4. ASSUME NEW c \in Clients
          PROVE  /\ Begins(list[c], servers')
                 /\ \A i \in 1 .. Len(reply[c]) : Begins(reply[c][i], servers')
      <4>1. list[c] \in Seq(Services) /\ \A i \in 1 .. Len(reply[c]) : reply[c][i] \in Seq(Services)
        BY <1>0
      <4> QED BY <1>0, <3>2, <3>3, <4>1, BeginsStays
    <3> QED BY <1>0, <2>1, <3>4 DEF Lists
  <2> QED BY <2>2, <2>3
<1>3. CASE ReadDatagram
  <2>1. UNCHANGED <<servers, list>>
    BY <1>3 DEF ReadDatagram, clientVars
  <2>2. PICK x : x = Head(inbox).from
    OBVIOUS
  <2>3. reply' = [reply EXCEPT ![x] = Append(@, servers)] \/ reply' = reply
    BY <1>3, <2>2 DEF ReadDatagram
  <2>4. CASE reply' = reply
    BY <1>1, <2>1, <2>4
  <2>5. CASE reply' = [reply EXCEPT ![x] = Append(@, servers)]
    <3>1. ASSUME NEW c \in Clients
          PROVE  /\ reply'[c] \in Seq(Seq(Services))
                 /\ \A i \in 1 .. Len(reply'[c]) : Begins(reply'[c][i], servers)
      <4>1. CASE c # x
        BY <1>0, <2>5, <4>1
      <4>2. CASE c = x
        <5>1. PICK q : q = reply[c]
          OBVIOUS
        <5>2. q \in Seq(Seq(Services)) /\ \A i \in 1 .. Len(q) : Begins(q[i], servers)
          BY <1>0, <5>1
        <5>3. PICK t : t = Append(q, servers)
          OBVIOUS
        <5>4. reply'[c] = t
          BY <1>0, <2>5, <4>2, <5>1, <5>3
        <5>5. /\ t \in Seq(Seq(Services)) /\ t[Len(q) + 1] = servers
              /\ \A i \in 1 .. Len(q) : t[i] = q[i]
              /\ \A i \in 1 .. Len(t) : i \in 1 .. Len(q) \/ i = Len(q) + 1
          BY <1>0, <5>2, <5>3, AppendIs
        <5>6. Begins(servers, servers)
          BY <1>0 DEF Begins
        <5>7. \A i \in 1 .. Len(t) : Begins(t[i], servers)
          BY <5>2, <5>5, <5>6
        <5> QED BY <5>4, <5>5, <5>7
      <4> QED BY <4>1, <4>2
    <3>2. DOMAIN reply' = Clients /\ reply' = [c \in Clients |-> reply'[c]]
      BY <1>0, <2>5
    <3>3. reply' \in [Clients -> Seq(Seq(Services))]
      BY <3>1, <3>2
    <3> QED BY <1>0, <2>1, <3>1, <3>3 DEF Lists
  <2> QED BY <2>3, <2>4, <2>5
<1>4. ASSUME NEW c \in Clients, GetServers(c) PROVE Lists'
  <2>1. /\ UNCHANGED servers /\ reply[c] # <<>>
        /\ list' = [list EXCEPT ![c] = Head(reply[c])]
        /\ reply' = [reply EXCEPT ![c] = Tail(reply[c])]
    BY <1>4 DEF GetServers, fVars
  <2>2. PICK q : q = reply[c]
    OBVIOUS
  <2>3. q \in Seq(Seq(Services)) /\ q # <<>> /\ \A i \in 1 .. Len(q) : Begins(q[i], servers)
    BY <1>0, <2>1, <2>2
  <2>4. PICK t : t = Tail(q)
    OBVIOUS
  <2>5. /\ Head(q) = q[1] /\ q[1] \in Seq(Services) /\ 1 \in 1 .. Len(q)
        /\ t \in Seq(Seq(Services))
        /\ \A i \in 1 .. Len(t) : i + 1 \in 1 .. Len(q) /\ t[i] = q[i+1]
    BY <2>3, <2>4, TailIs
  <2>6. Begins(Head(q), servers) /\ Head(q) \in Seq(Services)
    BY <2>3, <2>5
  <2>7. \A i \in 1 .. Len(t) : Begins(t[i], servers)
    BY <2>3, <2>5
  <2>8. /\ list' = [list EXCEPT ![c] = Head(q)] /\ reply' = [reply EXCEPT ![c] = t]
    BY <2>1, <2>2, <2>4
  <2>9. list' \in [Clients -> Seq(Services)] /\ reply' \in [Clients -> Seq(Seq(Services))]
    BY <1>0, <2>5, <2>6, <2>8
  <2>10. ASSUME NEW d \in Clients
         PROVE  /\ Begins(list'[d], servers')
                /\ \A i \in 1 .. Len(reply'[d]) : Begins(reply'[d][i], servers')
    <3>1. CASE d = c
      BY <1>0, <2>1, <2>6, <2>7, <2>8, <3>1
    <3>2. CASE d # c
      BY <1>0, <2>1, <2>8, <3>2
    <3> QED BY <3>1, <3>2
  <2> QED BY <2>9, <2>10 DEF Lists
<1>5. CASE TypeLine \/ Select \/ ReadReview \/ Notify
  <2>1. UNCHANGED <<servers, reply, list>>
    BY <1>5 DEF TypeLine, Select, ReadReview, Notify, udpVars, clientVars
  <2> QED BY <1>1, <2>1
<1>6. ASSUME NEW s \in Services, ServiceStep(s) PROVE Lists'
  <2>1. UNCHANGED <<servers, reply, list>>
    BY <1>6 DEF ServiceStep, Ready, Handle, NewClient, fVars, udpVars, clientVars
  <2> QED BY <1>1, <2>1
<1>7. ASSUME NEW s \in Services, NEW c \in Clients, ThreadStep(s, c) PROVE Lists'
  <2>1. UNCHANGED <<servers, reply, list>>
    BY <1>7 DEF ThreadStep, CallRecv, Recv, SendAnswer, TakeReview, fVars, udpVars, clientVars
  <2> QED BY <1>1, <2>1
<1>8. ASSUME NEW c \in Clients, Client(c) PROVE Lists'
  <2>1. CASE GetServers(c)
    BY <1>4, <2>1
  <2>2. CASE Enquire(c) \/ Connect(c) \/ SendReviewKey(c) \/ SendReview(c)
    <3>1. UNCHANGED <<servers, reply, list>>
      BY <2>2 DEF Enquire, Connect, SendReviewKey, SendReview, fVars, udpVars
    <3> QED BY <1>1, <3>1
  <2>3. CASE SendRequest(c) \/ RecvAnswer(c) \/ SendStop(c)
    <3>1. UNCHANGED <<servers, reply, list>>
      BY <2>3 DEF SendRequest, RecvAnswer, SendStop, fVars, udpVars
    <3> QED BY <1>1, <3>1
  <2> QED BY <1>8, <2>1, <2>2, <2>3 DEF Client, ClientRuns, ClientUser
<1>9. CASE UNCHANGED labVars
  BY <1>1, <1>9 DEF labVars, fVars, udpVars, clientVars
<1> QED BY <1>2, <1>3, <1>5, <1>6, <1>7, <1>8, <1>9, LabSteps

\* The steps that do not move a client.
LEMMA SeatsAside ==
  ASSUME LabNext
  PROVE  \/ UNCHANGED <<accepted, backlog, cpc, server, list>>
         \/ \E s \in Services : NewClient(s)
         \/ \E c \in Clients : Client(c)
<1>1. CASE TypeLine \/ Select \/ ReadKeyboard
  BY <1>1 DEF TypeLine, Select, ReadKeyboard, serviceVars, tcpVars, clientVars
<1>2. CASE ReadDatagram \/ ReadReview \/ Notify
  BY <1>2 DEF ReadDatagram, ReadReview, Notify, serviceVars, tcpVars, clientVars
<1>3. ASSUME NEW s \in Services, ServiceStep(s)
      PROVE  NewClient(s) \/ UNCHANGED <<accepted, backlog, cpc, server, list>>
  BY <1>3 DEF ServiceStep, Ready, Handle, serviceVars, tcpVars, clientVars
<1>4. ASSUME NEW s \in Services, NEW c \in Clients, ThreadStep(s, c)
      PROVE  UNCHANGED <<accepted, backlog, cpc, server, list>>
  BY <1>4 DEF ThreadStep, CallRecv, Recv, SendAnswer, TakeReview, tcpVars, clientVars
<1> QED BY <1>1, <1>2, <1>3, <1>4, LabSteps

\* What a new client changes.
LEMMA Accepts ==
  ASSUME Seats, NEW s \in Services, NewClient(s)
  PROVE  /\ Head(backlog[s]) \in Range(backlog[s]) /\ Head(backlog[s]) \in Clients
         /\ accepted' \in [Services -> Seq(Clients)] /\ backlog' \in [Services -> Seq(Clients)]
         /\ accepted'[s] = Append(accepted[s], Head(backlog[s]))
         /\ \A t \in Services : t # s => accepted'[t] = accepted[t] /\ backlog'[t] = backlog[t]
         /\ \A x : x \in Range(accepted'[s]) <=> x \in Range(accepted[s]) \/ x = Head(backlog[s])
         /\ \A x : x \in Range(backlog[s]) <=> x = Head(backlog[s]) \/ x \in Range(backlog'[s])
<1>1. accepted \in [Services -> Seq(Clients)] /\ backlog \in [Services -> Seq(Clients)]
  BY DEF Seats
<1>2. PICK q : q = backlog[s]
  OBVIOUS
<1>3. PICK a : a = accepted[s]
  OBVIOUS
<1>4. q \in Seq(Clients) /\ a \in Seq(Clients) /\ q # <<>>
  BY <1>1, <1>2, <1>3 DEF NewClient
<1>5. PICK e : e = Head(q)
  OBVIOUS
<1>6. PICK t : t = Tail(q)
  OBVIOUS
<1>7. PICK b : b = Append(a, e)
  OBVIOUS
<1>8. /\ e \in Clients /\ t \in Seq(Clients)
      /\ \A x : x \in Range(q) <=> x = e \/ x \in Range(t)
  BY <1>4, <1>5, <1>6, TailIs
<1>9. b \in Seq(Clients) /\ \A x : x \in Range(b) <=> x \in Range(a) \/ x = e
  BY <1>4, <1>7, <1>8, AppendIs
<1>10. accepted' = [accepted EXCEPT ![s] = b] /\ backlog' = [backlog EXCEPT ![s] = t]
  <2>1. /\ accepted' = [accepted EXCEPT ![s] = Append(accepted[s], Head(backlog[s]))]
        /\ backlog' = [backlog EXCEPT ![s] = Tail(backlog[s])]
    BY DEF NewClient
  <2> QED BY <1>2, <1>3, <1>5, <1>6, <1>7, <2>1
<1>11. /\ accepted' \in [Services -> Seq(Clients)] /\ backlog' \in [Services -> Seq(Clients)]
       /\ accepted'[s] = b /\ backlog'[s] = t
       /\ \A u \in Services : u # s => accepted'[u] = accepted[u] /\ backlog'[u] = backlog[u]
  BY <1>1, <1>8, <1>9, <1>10
<1>12. /\ e \in Range(q)
       /\ e \in Clients
       /\ \A x : x \in Range(accepted'[s]) <=> x \in Range(a) \/ x = e
       /\ \A x : x \in Range(q) <=> x = e \/ x \in Range(backlog'[s])
  BY <1>8, <1>9, <1>11
<1> QED BY <1>2, <1>3, <1>5, <1>7, <1>11, <1>12

\* A client that has connected keeps its seat; nobody gets a second one.
LEMMA SeatsStay ==
  ASSUME LinesAssumption, Facilities, Lists, Seats, LabNext \/ UNCHANGED labVars
  PROVE  Seats' /\ \A c \in Clients, s \in Services :
                     Seated(c, s, accepted, backlog) => Seated(c, s, accepted', backlog')
<1>0. /\ accepted \in [Services -> Seq(Clients)] /\ backlog \in [Services -> Seq(Clients)]
      /\ cpc \in [Clients -> {"off", "wait", "menu", "use", "recv", "review", "rev", "end"}]
      /\ server \in [Clients -> Nat]
      /\ list \in [Clients -> Seq(Services)]
      /\ \A c \in Clients :
           Served(cpc[c]) => /\ server[c] \in 1 .. Len(list[c])
                             /\ Seated(c, list[c][server[c]], accepted, backlog)
      /\ \A c \in Clients : \A s \in Services :
           Seated(c, s, accepted, backlog) => Served(cpc[c]) /\ s = list[c][server[c]]
  BY DEF Seats, Lists
<1>1. CASE UNCHANGED <<accepted, backlog, cpc, server, list>>
  BY <1>1 DEF Seats
<1>2. ASSUME NEW s \in Services, NewClient(s)
      PROVE  Seats' /\ \A c \in Clients, u \in Services :
                         Seated(c, u, accepted, backlog) => Seated(c, u, accepted', backlog')
  <2>1. UNCHANGED <<cpc, server, list>>
    BY <1>2 DEF NewClient, clientVars
  <2>2. ASSUME NEW c \in Clients, NEW u \in Services
        PROVE  Seated(c, u, accepted, backlog) <=> Seated(c, u, accepted', backlog')
    <3>1. CASE u = s
      BY <1>2, <3>1, Accepts DEF Seated
    <3>2. CASE u # s
      BY <1>2, <3>2, Accepts DEF Seated
    <3> QED BY <3>1, <3>2
  <2>3. accepted' \in [Services -> Seq(Clients)] /\ backlog' \in [Services -> Seq(Clients)]
    BY <1>2, Accepts
  <2>4. ASSUME NEW c \in Clients, Served(cpc'[c])
        PROVE  /\ server'[c] \in 1 .. Len(list'[c])
               /\ Seated(c, list'[c][server'[c]], accepted', backlog')
    <3>1. server[c] \in 1 .. Len(list[c]) /\ Seated(c, list[c][server[c]], accepted, backlog)
      BY <1>0, <2>1, <2>4
    <3>2. list[c][server[c]] \in Services
      BY <1>0, <3>1
    <3> QED BY <2>1, <2>2, <3>1, <3>2
  <2>5. ASSUME NEW c \in Clients, NEW u \in Services, Seated(c, u, accepted', backlog')
        PROVE  Served(cpc'[c]) /\ u = list'[c][server'[c]]
    BY <1>0, <2>1, <2>2, <2>5
  <2> QED BY <1>0, <2>1, <2>2, <2>3, <2>4, <2>5 DEF Seats
<1>3. ASSUME NEW c \in Clients,
             NEW x \in {"off", "wait", "menu", "use", "recv", "review", "rev", "end"},
             cpc' = [cpc EXCEPT ![c] = x], Served(x) <=> Served(cpc[c]),
             UNCHANGED <<accepted, backlog, server>>,
             list' \in [Clients -> Seq(Services)],
             \A d \in Clients : d # c \/ Served(x) => list'[d] = list[d]
      PROVE  Seats' /\ \A d \in Clients, u \in Services :
                         Seated(d, u, accepted, backlog) => Seated(d, u, accepted', backlog')
  <2>1. ASSUME NEW d \in Clients PROVE Served(cpc'[d]) <=> Served(cpc[d])
    <3>1. CASE d = c
      BY <1>0, <1>3, <3>1
    <3>2. CASE d # c
      BY <1>0, <1>3, <3>2
    <3> QED BY <3>1, <3>2
  <2>2. ASSUME NEW d \in Clients, Served(cpc[d]) PROVE list'[d] = list[d]
    BY <1>3, <2>2
  <2>3. cpc' \in [Clients -> {"off", "wait", "menu", "use", "recv", "review", "rev", "end"}]
    BY <1>0, <1>3
  <2>4. ASSUME NEW d \in Clients, Served(cpc'[d])
        PROVE  /\ server'[d] \in 1 .. Len(list'[d])
               /\ Seated(d, list'[d][server'[d]], accepted', backlog')
    BY <1>0, <1>3, <2>1, <2>2, <2>4
  <2>5. ASSUME NEW d \in Clients, NEW u \in Services, Seated(d, u, accepted', backlog')
        PROVE  Served(cpc'[d]) /\ u = list'[d][server'[d]]
    BY <1>0, <1>3, <2>1, <2>2, <2>5
  <2>6. \A d \in Clients, u \in Services :
          Seated(d, u, accepted, backlog) => Seated(d, u, accepted', backlog')
    BY <1>3
  <2> QED BY <1>0, <1>3, <2>3, <2>4, <2>5, <2>6 DEF Seats
<1>4. ASSUME NEW c \in Clients, Connect(c)
      PROVE  Seats' /\ \A d \in Clients, u \in Services :
                         Seated(d, u, accepted, backlog) => Seated(d, u, accepted', backlog')
  <2>1. PICK i \in DOMAIN list[c] :
          /\ server' = [server EXCEPT ![c] = i]
          /\ backlog' = [backlog EXCEPT ![list[c][i]] = Append(backlog[list[c][i]], c)]
    BY <1>4 DEF Connect
  <2>2. /\ cpc[c] = "menu" /\ cpc' = [cpc EXCEPT ![c] = "use"]
        /\ UNCHANGED <<accepted, list>>
    BY <1>4 DEF Connect, serviceVars
  <2>3. i \in 1 .. Len(list[c]) /\ i \in Nat
    BY <1>0
  <2>4. PICK s : s = list[c][i]
    OBVIOUS
  <2>5. s \in Services
    BY <1>0, <2>3, <2>4
  <2>6. PICK q : q = backlog[s]
    OBVIOUS
  <2>7. PICK b : b = Append(q, c)
    OBVIOUS
  <2>8. b \in Seq(Clients) /\ \A x : x \in Range(b) <=> x \in Range(q) \/ x = c
    BY <1>0, <2>5, <2>6, <2>7, AppendIs
  <2>9. backlog' = [backlog EXCEPT ![s] = b]
    BY <2>1, <2>4, <2>6, <2>7
  <2>10. /\ backlog' \in [Services -> Seq(Clients)] /\ backlog'[s] = b
         /\ \A u \in Services : u # s => backlog'[u] = backlog[u]
    BY <1>0, <2>5, <2>8, <2>9
  <2>11. ASSUME NEW d \in Clients, NEW u \in Services
         PROVE  Seated(d, u, accepted', backlog')
                  <=> Seated(d, u, accepted, backlog) \/ (d = c /\ u = s)
    <3>1. CASE u = s
      BY <2>2, <2>6, <2>8, <2>10, <3>1 DEF Seated
    <3>2. CASE u # s
      BY <2>2, <2>10, <3>2 DEF Seated
    <3> QED BY <3>1, <3>2
  <2>12. /\ server' \in [Clients -> Nat]
         /\ cpc' \in [Clients -> {"off", "wait", "menu", "use", "recv", "review", "rev", "end"}]
         /\ server'[c] = i /\ cpc'[c] = "use"
         /\ \A d \in Clients : d # c => server'[d] = server[d] /\ cpc'[d] = cpc[d]
    BY <1>0, <2>1, <2>2, <2>3
  <2>13. ~ Served(cpc[c]) /\ Served(cpc'[c])
    BY <2>2, <2>12 DEF Served
  <2>14. ASSUME NEW d \in Clients, Served(cpc'[d])
         PROVE  /\ server'[d] \in 1 .. Len(list'[d])
                /\ Seated(d, list'[d][server'[d]], accepted', backlog')
    <3>1. CASE d = c
      BY <2>2, <2>3, <2>4, <2>5, <2>11, <2>12, <3>1
    <3>2. CASE d # c
      <4>1. server[d] \in 1 .. Len(list[d]) /\ Seated(d, list[d][server[d]], accepted, backlog)
        BY <1>0, <2>12, <2>14, <3>2
      <4>2. list[d][server[d]] \in Services
        BY <1>0, <4>1
      <4> QED BY <2>2, <2>11, <2>12, <3>2, <4>1, <4>2
    <3> QED BY <3>1, <3>2
  <2>15. ASSUME NEW d \in Clients, NEW u \in Services, Seated(d, u, accepted', backlog')
         PROVE  Served(cpc'[d]) /\ u = list'[d][server'[d]]
    <3>1. CASE d = c
      <4>1. ~ Seated(d, u, accepted, backlog)
        BY <1>0, <2>13, <3>1
      <4> QED BY <2>2, <2>4, <2>11, <2>12, <2>13, <2>15, <3>1, <4>1
    <3>2. CASE d # c
      <4>1. Seated(d, u, accepted, backlog)
        BY <2>11, <2>15, <3>2
      <4>2. Served(cpc[d]) /\ u = list[d][server[d]]
        BY <1>0, <4>1
      <4>3. cpc'[d] = cpc[d] /\ server'[d] = server[d] /\ list'[d] = list[d]
        BY <2>2, <2>12, <3>2
      <4> QED BY <4>2, <4>3
    <3> QED BY <3>1, <3>2
  <2> QED BY <1>0, <2>2, <2>10, <2>11, <2>12, <2>14, <2>15 DEF Seats
<1>5. ASSUME NEW c \in Clients, Client(c)
      PROVE  Seats' /\ \A d \in Clients, u \in Services :
                         Seated(d, u, accepted, backlog) => Seated(d, u, accepted', backlog')
  <2>1. CASE Connect(c)
    BY <1>4, <2>1
  <2>2. CASE GetServers(c)
    <3>1. /\ cpc[c] = "wait" /\ cpc' = [cpc EXCEPT ![c] = "menu"]
          /\ UNCHANGED <<accepted, backlog, server>>
          /\ list' = [list EXCEPT ![c] = Head(reply[c])]
      BY <2>2 DEF GetServers, serviceVars, tcpVars
    <3>2. ~ Served("menu") /\ ~ Served("wait")
      BY DEF Served
    <3>3. list' \in [Clients -> Seq(Services)]
      <4>1. reply[c] # <<>> /\ reply[c] \in Seq(Seq(Services))
        BY <2>2 DEF GetServers, Lists
      <4>2. Head(reply[c]) \in Seq(Services)
        BY <4>1
      <4> QED BY <1>0, <3>1, <4>2
    <3>4. \A d \in Clients : d # c \/ Served("menu") => list'[d] = list[d]
      BY <1>0, <3>1, <3>2
    <3>5. Served("menu") <=> Served(cpc[c])
      BY <3>1, <3>2
    <3> QED BY <1>3, <3>1, <3>3, <3>4, <3>5
  <2>3. CASE Enquire(c)
    <3>1. /\ cpc[c] \in {"off", "menu"} /\ cpc' = [cpc EXCEPT ![c] = "wait"]
          /\ UNCHANGED <<accepted, backlog, server, list>>
      BY <2>3 DEF Enquire, serviceVars, tcpVars
    <3>2. ~ Served("wait") /\ ~ Served(cpc[c])
      BY <3>1 DEF Served
    <3> QED BY <1>0, <1>3, <3>1, <3>2
  <2>4. CASE SendRequest(c) \/ RecvAnswer(c) \/ SendStop(c) \/ SendReviewKey(c) \/ SendReview(c)
    <3>1. UNCHANGED <<accepted, backlog, server, list>>
      BY <2>4 DEF SendRequest, RecvAnswer, SendStop, SendReviewKey, SendReview, serviceVars, tcpVars
    <3>2. cpc[c] \in {"use", "recv", "review", "rev"}
      BY <2>4 DEF SendRequest, RecvAnswer, SendStop, SendReviewKey, SendReview
    <3>3. PICK x \in {"use", "recv", "review", "rev", "end"} : cpc' = [cpc EXCEPT ![c] = x]
      BY <2>4 DEF SendRequest, RecvAnswer, SendStop, SendReviewKey, SendReview
    <3>4. Served(x) /\ Served(cpc[c])
      BY <3>2, <3>3 DEF Served
    <3> QED BY <1>0, <1>3, <3>1, <3>3, <3>4
  <2> QED BY <1>5, <2>1, <2>2, <2>3, <2>4 DEF Client, ClientRuns, ClientUser
<1>6. CASE UNCHANGED labVars
  BY <1>1, <1>6 DEF labVars, serviceVars, tcpVars, clientVars
<1> QED BY <1>1, <1>2, <1>5, <1>6, SeatsAside

Thread ==
  [at : {"none", "call", "recv", "send", "review", "end"}, fd : Clients, buff : Seq(Requests)]

\* The steps that leave the threads alone.
LEMMA ThreadsAside ==
  ASSUME LabNext
  PROVE  \/ UNCHANGED <<accepted, thread, sent>>
         \/ \E s \in Services : NewClient(s)
         \/ \E s \in Services : \E c \in Clients : ThreadStep(s, c)
         \/ \E c \in Clients : SendRequest(c) \/ SendStop(c)
<1>1. CASE TypeLine \/ Select \/ ReadKeyboard
  BY <1>1 DEF TypeLine, Select, ReadKeyboard, serviceVars, tcpVars
<1>2. CASE ReadDatagram \/ ReadReview \/ Notify
  BY <1>2 DEF ReadDatagram, ReadReview, Notify, serviceVars, tcpVars
<1>3. ASSUME NEW s \in Services, ServiceStep(s)
      PROVE  NewClient(s) \/ UNCHANGED <<accepted, thread, sent>>
  BY <1>3 DEF ServiceStep, Ready, Handle, tcpVars
<1>4. ASSUME NEW c \in Clients, Client(c)
      PROVE  SendRequest(c) \/ SendStop(c) \/ UNCHANGED <<accepted, thread, sent>>
  <2>1. CASE Enquire(c) \/ GetServers(c) \/ Connect(c)
    BY <2>1 DEF Enquire, GetServers, Connect, serviceVars, tcpVars
  <2>2. CASE RecvAnswer(c) \/ SendReviewKey(c) \/ SendReview(c)
    BY <2>2 DEF RecvAnswer, SendReviewKey, SendReview, serviceVars, tcpVars
  <2> QED BY <1>4, <2>1, <2>2 DEF Client, ClientRuns, ClientUser
<1> QED BY <1>1, <1>2, <1>3, <1>4, LabSteps

\* A client is with one service.
LEMMA OneService ==
  ASSUME Seats, NEW c \in Clients, NEW s \in Services, NEW u \in Services,
         c \in Range(accepted[s]), c \in Range(accepted[u])
  PROVE  s = u
<1>1. Seated(c, s, accepted, backlog) /\ Seated(c, u, accepted, backlog)
  BY DEF Seated
<1>2. \A v \in Services : Seated(c, v, accepted, backlog) => v = list[c][server[c]]
  BY DEF Seats
<1>3. PICK w : w = list[c][server[c]]
  OBVIOUS
<1>4. \A v \in Services : Seated(c, v, accepted, backlog) => v = w
  BY <1>2, <1>3
<1>5. s = w
  BY <1>1, <1>4
<1>6. u = w
  BY <1>1, <1>4
<1> QED BY <1>5, <1>6

\* nsfds[0].
LEMMA NsfdIs ==
  ASSUME Seats, NEW s \in Services, NEW c \in Range(accepted[s])
  PROVE  Nsfd(s) \in Range(accepted[s]) /\ Nsfd(s) \in Clients
<1>1. PICK a : a = accepted[s]
  OBVIOUS
<1>2. a \in Seq(Clients) /\ c \in Range(a)
  BY <1>1 DEF Seats
<1>3. PICK i \in 1 .. Len(a) : a[i] = c
  BY <1>2 DEF Range
<1>4. Len(a) \in 1 .. Len(a)
  BY <1>2, <1>3
<1>5. a[Len(a)] \in Range(a) /\ a[Len(a)] \in Clients
  BY <1>2, <1>4 DEF Range
<1> QED BY <1>1, <1>5 DEF Nsfd, Last

\* A thread is changed.
LEMMA OneThread ==
  ASSUME Seats, Threads, NEW s \in Services, NEW c \in Clients, NEW r \in Thread,
         UNCHANGED accepted, c \in Range(accepted[s]), thread' = [thread EXCEPT ![c] = r],
         r.at # "none", r.at \in {"recv", "send", "review"} => r.fd \in Range(accepted[s]),
         \A i \in 1 .. Len(r.buff) : r.buff[i].from = r.fd,
         sent' \in [Clients -> Seq(Requests)],
         \A d \in Clients : \A i \in 1 .. Len(sent'[d]) : sent'[d][i].from = d
  PROVE  Threads'
<1>1. thread \in [Clients -> Thread]
  BY DEF Threads, Thread
<1>2. /\ thread' \in [Clients -> Thread] /\ thread'[c] = r
      /\ \A d \in Clients : d # c => thread'[d] = thread[d]
  BY <1>1
<1>3. ASSUME NEW d \in Clients
      PROVE  /\ thread'[d].at # "none" <=> \E u \in Services : d \in Range(accepted'[u])
             /\ \A u \in Services :
                  d \in Range(accepted'[u]) /\ thread'[d].at \in {"recv", "send", "review"}
                    => thread'[d].fd \in Range(accepted'[u])
             /\ \A i \in 1 .. Len(thread'[d].buff) : thread'[d].buff[i].from = thread'[d].fd
  <2>1. CASE d = c
    <3>1. ASSUME NEW u \in Services, d \in Range(accepted'[u]),
                 thread'[d].at \in {"recv", "send", "review"}
          PROVE  thread'[d].fd \in Range(accepted'[u])
      <4>1. u = s
        BY <2>1, <3>1, OneService
      <4> QED BY <1>2, <2>1, <3>1, <4>1
    <3> QED BY <1>2, <2>1, <3>1
  <2>2. CASE d # c
    <3>1. thread'[d] = thread[d] /\ accepted' = accepted
      BY <1>2, <2>2
    <3> QED BY <3>1 DEF Threads
  <2> QED BY <2>1, <2>2
<1> QED BY <1>2, <1>3 DEF Threads, Thread

\* A client sends.
LEMMA SendsMore ==
  ASSUME Threads, NEW c \in Clients, NEW t \in Requests, t.from = c,
         UNCHANGED <<accepted, thread>>, sent' = [sent EXCEPT ![c] = Append(sent[c], t)]
  PROVE  Threads'
<1>1. /\ sent \in [Clients -> Seq(Requests)]
      /\ \A d \in Clients : \A i \in 1 .. Len(sent[d]) : sent[d][i].from = d
  BY DEF Threads
<1>2. PICK q : q = sent[c]
  OBVIOUS
<1>3. PICK z : z = Append(q, t)
  OBVIOUS
<1>4. q \in Seq(Requests) /\ \A i \in 1 .. Len(q) : q[i].from = c
  BY <1>1, <1>2
<1>5. /\ z \in Seq(Requests) /\ z[Len(q) + 1] = t /\ \A i \in 1 .. Len(q) : z[i] = q[i]
      /\ \A i \in 1 .. Len(z) : i \in 1 .. Len(q) \/ i = Len(q) + 1
  BY <1>3, <1>4, AppendIs
<1>6. \A i \in 1 .. Len(z) : z[i].from = c
  BY <1>4, <1>5
<1>7. sent' = [sent EXCEPT ![c] = z]
  BY <1>2, <1>3
<1>8. sent' \in [Clients -> Seq(Requests)]
  BY <1>1, <1>5, <1>7
<1>9. ASSUME NEW d \in Clients PROVE \A i \in 1 .. Len(sent'[d]) : sent'[d][i].from = d
  <2>1. CASE d = c
    BY <1>1, <1>6, <1>7, <2>1
  <2>2. CASE d # c
    BY <1>1, <1>7, <2>2
  <2> QED BY <2>1, <2>2
<1> QED BY <1>8, <1>9 DEF Threads

\* A thread goes on with a client of its own service, and keeps what that client sent.
LEMMA ThreadsStay ==
  ASSUME Seats, Threads, Requesting, LabNext \/ UNCHANGED labVars PROVE Threads'
<1>0. /\ accepted \in [Services -> Seq(Clients)]
      /\ thread \in [Clients -> Thread]
      /\ \A c \in Clients : thread[c].at # "none" <=> \E s \in Services : c \in Range(accepted[s])
      /\ \A c \in Clients : \A s \in Services :
           c \in Range(accepted[s]) /\ thread[c].at \in {"recv", "send", "review"}
             => thread[c].fd \in Range(accepted[s])
      /\ \A c \in Clients : \A i \in 1 .. Len(thread[c].buff) :
           thread[c].buff[i].from = thread[c].fd
      /\ sent \in [Clients -> Seq(Requests)]
      /\ \A c \in Clients : \A i \in 1 .. Len(sent[c]) : sent[c][i].from = c
      /\ \A c \in Clients : thread[c].fd \in Clients /\ thread[c].buff \in Seq(Requests)
  BY DEF Seats, Threads, Thread
<1>1. CASE UNCHANGED <<accepted, thread, sent>>
  BY <1>1 DEF Threads
<1>2. ASSUME NEW s \in Services, NewClient(s) PROVE Threads'
  <2>1. PICK e : e = Head(backlog[s])
    OBVIOUS
  <2>2. /\ e \in Clients /\ \A x : x \in Range(accepted'[s]) <=> x \in Range(accepted[s]) \/ x = e
        /\ \A u \in Services : u # s => accepted'[u] = accepted[u]
    BY <1>2, <2>1, Accepts
  <2>3. thread' = [thread EXCEPT ![e].at = "call"] /\ UNCHANGED sent
    BY <1>2, <2>1 DEF NewClient
  <2>4. PICK r : r = [thread[e] EXCEPT !.at = "call"]
    OBVIOUS
  <2>5. thread[e] \in Thread
    BY <1>0, <2>2
  <2>6. r \in Thread /\ r.at = "call" /\ r.fd = thread[e].fd /\ r.buff = thread[e].buff
    BY <2>4, <2>5 DEF Thread
  <2>7. thread' = [thread EXCEPT ![e] = r]
    BY <2>3, <2>4
  <2>8. /\ thread' \in [Clients -> Thread] /\ thread'[e] = r
        /\ \A d \in Clients : d # e => thread'[d] = thread[d]
    BY <1>0, <2>2, <2>6, <2>7
  <2>9. \A d \in Clients, u \in Services :
          d \in Range(accepted'[u]) <=> d \in Range(accepted[u]) \/ (d = e /\ u = s)
    BY <2>2
  <2>10. ASSUME NEW d \in Clients
         PROVE  /\ thread'[d].at # "none" <=> \E u \in Services : d \in Range(accepted'[u])
                /\ \A u \in Services :
                     d \in Range(accepted'[u]) /\ thread'[d].at \in {"recv", "send", "review"}
                       => thread'[d].fd \in Range(accepted'[u])
                /\ \A i \in 1 .. Len(thread'[d].buff) : thread'[d].buff[i].from = thread'[d].fd
    <3>1. CASE d = e
      <4>1. e \in Range(accepted'[s])
        BY <2>2
      <4>2. /\ thread'[d].at = "call" /\ thread'[d].fd = thread[e].fd
            /\ thread'[d].buff = thread[e].buff
        BY <2>6, <2>8, <3>1
      <4>3. \A i \in 1 .. Len(thread[e].buff) : thread[e].buff[i].from = thread[e].fd
        BY <1>0, <2>2
      <4> QED BY <3>1, <4>1, <4>2, <4>3
    <3>2. CASE d # e
      <4>1. thread'[d] = thread[d]
        BY <2>8, <3>2
      <4>2. \A u \in Services : d \in Range(accepted'[u]) <=> d \in Range(accepted[u])
        BY <2>9, <3>2
      <4>3. \A u \in Services :
              d \in Range(accepted[u]) /\ thread[d].at \in {"recv", "send", "review"}
                => thread[d].fd \in Range(accepted'[u])
        BY <1>0, <2>9
      <4>4. thread'[d].at # "none" <=> \E u \in Services : d \in Range(accepted'[u])
        BY <1>0, <4>1, <4>2
      <4> QED BY <1>0, <4>1, <4>2, <4>3, <4>4
    <3> QED BY <3>1, <3>2
  <2> QED BY <1>0, <2>3, <2>8, <2>10 DEF Threads, Thread
<1>3. ASSUME NEW s \in Services, NEW c \in Clients, ThreadStep(s, c) PROVE Threads'
  <2>1. c \in Range(accepted[s]) /\ UNCHANGED accepted
    BY <1>3 DEF ThreadStep, CallRecv, Recv, SendAnswer, TakeReview
  <2>2. Nsfd(s) \in Range(accepted[s]) /\ Nsfd(s) \in Clients
    BY <2>1, NsfdIs
  <2>3. <<>> \in Seq(Requests) /\ \A i \in 1 .. Len(<<>>) : FALSE
    OBVIOUS
  <2>4. CASE CallRecv(s, c)
    <3>1. PICK r : r = [at |-> "recv", fd |-> Nsfd(s), buff |-> <<>>]
      OBVIOUS
    <3>2. r \in Thread /\ r.at = "recv" /\ r.fd \in Range(accepted[s]) /\ r.buff = <<>>
      BY <2>2, <2>3, <3>1 DEF Thread
    <3>3. thread' = [thread EXCEPT ![c] = r] /\ UNCHANGED sent
      BY <2>4, <3>1 DEF CallRecv, tcpVars
    <3> QED BY <1>0, <2>1, <2>3, <3>2, <3>3, OneThread
  <2>5. CASE TakeReview(s, c)
    <3>1. PICK r : r = [at |-> "end", fd |-> c, buff |-> <<>>]
      OBVIOUS
    <3>2. r \in Thread /\ r.at = "end" /\ r.buff = <<>>
      BY <2>3, <3>1 DEF Thread
    <3>3. thread' = [thread EXCEPT ![c] = r] /\ UNCHANGED sent
      BY <2>5, <3>1 DEF TakeReview, tcpVars
    <3> QED BY <1>0, <2>1, <2>3, <3>2, <3>3, OneThread
  <2>6. CASE SendAnswer(s, c)
    <3>1. PICK r : r = [[thread[c] EXCEPT !.at = "call"] EXCEPT !.buff = <<>>]
      OBVIOUS
    <3>2. thread[c] \in Thread
      BY <1>0
    <3>3. r \in Thread /\ r.at = "call" /\ r.buff = <<>>
      BY <2>3, <3>1, <3>2 DEF Thread
    <3>4. thread' = [thread EXCEPT ![c] = r] /\ UNCHANGED sent
      BY <1>0, <2>6, <3>1 DEF SendAnswer
    <3> QED BY <1>0, <2>1, <2>3, <3>3, <3>4, OneThread
  <2>7. CASE Recv(c)
    <3>1. PICK fd : fd = thread[c].fd
      OBVIOUS
    <3>2. fd \in Clients /\ fd \in Range(accepted[s])
      BY <1>0, <2>1, <2>7, <3>1 DEF Recv
    <3>3. PICK a : a = IF sent[fd] = <<Stop(fd)>> THEN "review" ELSE "send"
      OBVIOUS
    <3>4. PICK r : r = [[thread[c] EXCEPT !.buff = sent[fd]] EXCEPT !.at = a]
      OBVIOUS
    <3>5. thread[c] \in Thread /\ a \in {"review", "send"}
      BY <1>0, <3>3
    <3>6. r \in Thread /\ r.at = a /\ r.buff = sent[fd] /\ r.fd = fd
      BY <1>0, <3>1, <3>2, <3>4, <3>5 DEF Thread
    <3>7. thread' = [thread EXCEPT ![c] = r] /\ sent' = [sent EXCEPT ![fd] = <<>>]
      <4>1. /\ thread' = [thread EXCEPT ![c].buff = sent[fd], ![c].at = a]
            /\ sent' = [sent EXCEPT ![fd] = <<>>]
        BY <2>7, <3>1, <3>3 DEF Recv
      <4> QED BY <1>0, <3>4, <4>1
    <3>8. /\ sent' \in [Clients -> Seq(Requests)]
          /\ \A d \in Clients : \A i \in 1 .. Len(sent'[d]) : sent'[d][i].from = d
      BY <1>0, <2>3, <3>2, <3>7
    <3>9. /\ r.at # "none" /\ r.fd \in Range(accepted[s])
          /\ \A i \in 1 .. Len(r.buff) : r.buff[i].from = r.fd
      BY <1>0, <3>2, <3>5, <3>6
    <3> QED BY <2>1, <3>6, <3>7, <3>8, <3>9, OneThread
  <2> QED BY <1>3, <2>4, <2>5, <2>6, <2>7 DEF ThreadStep
<1>4. ASSUME NEW c \in Clients, SendRequest(c) \/ SendStop(c) PROVE Threads'
  <2>1. UNCHANGED <<accepted, thread>>
    BY <1>4 DEF SendRequest, SendStop, serviceVars
  <2>2. CASE SendRequest(c)
    <3>1. asked[c] + 1 \in Nat
      BY DEF Requesting
    <3>2. [from |-> c, number |-> asked[c] + 1] \in Requests
      BY <3>1 DEF Requests
    <3>3. sent' = [sent EXCEPT ![c] = Append(sent[c], [from |-> c, number |-> asked[c] + 1])]
      BY <2>2 DEF SendRequest
    <3> QED BY <2>1, <3>2, <3>3, SendsMore
  <2>3. CASE SendStop(c)
    <3>1. Stop(c) \in Requests /\ Stop(c).from = c
      BY DEF Requests, Stop
    <3>2. sent' = [sent EXCEPT ![c] = Append(sent[c], Stop(c))]
      BY <2>3 DEF SendStop
    <3> QED BY <2>1, <3>1, <3>2, SendsMore
  <2> QED BY <1>4, <2>2, <2>3
<1>5. CASE UNCHANGED labVars
  BY <1>1, <1>5 DEF labVars, serviceVars, tcpVars
<1> QED BY <1>1, <1>2, <1>3, <1>4, <1>5, ThreadsAside

\* A client that is done stays so.
LEMMA Done ==
  ASSUME Seats, NEW c \in Clients, cpc[c] = "end", LabNext \/ UNCHANGED labVars
  PROVE  cpc'[c] = "end" /\ server'[c] = server[c]
<1>1. /\ cpc \in [Clients -> {"off", "wait", "menu", "use", "recv", "review", "rev", "end"}]
      /\ server \in [Clients -> Nat]
  BY DEF Seats
<1>2. ASSUME NEW d \in Clients, Client(d)
      PROVE  /\ cpc[d] # "end"
             /\ \A x \in Clients : x # d => cpc'[x] = cpc[x] /\ server'[x] = server[x]
  <2>1. CASE Enquire(d) \/ GetServers(d)
    BY <1>1, <2>1 DEF Enquire, GetServers
  <2>2. CASE Connect(d)
    <3>1. PICK i \in DOMAIN list[d] : server' = [server EXCEPT ![d] = i]
      BY <2>2 DEF Connect
    <3>2. cpc[d] = "menu" /\ cpc' = [cpc EXCEPT ![d] = "use"]
      BY <2>2 DEF Connect
    <3> QED BY <1>1, <3>1, <3>2
  <2>3. CASE SendRequest(d) \/ RecvAnswer(d) \/ SendStop(d)
    BY <1>1, <2>3 DEF SendRequest, RecvAnswer, SendStop
  <2>4. CASE SendReviewKey(d) \/ SendReview(d)
    BY <1>1, <2>4 DEF SendReviewKey, SendReview
  <2> QED BY <1>2, <2>1, <2>2, <2>3, <2>4 DEF Client, ClientRuns, ClientUser
<1>3. CASE UNCHANGED <<accepted, backlog, cpc, server, list>>
  BY <1>3
<1>4. ASSUME NEW s \in Services, NewClient(s) PROVE UNCHANGED <<cpc, server>>
  BY <1>4 DEF NewClient, clientVars
<1>5. CASE UNCHANGED labVars
  BY <1>5 DEF labVars, clientVars
<1>6. ASSUME NEW d \in Clients, Client(d) PROVE cpc'[c] = "end" /\ server'[c] = server[c]
  <2>1. c # d
    BY <1>2, <1>6
  <2> QED BY <1>2, <1>6, <2>1
<1> QED BY <1>3, <1>4, <1>5, <1>6, SeatsAside

\* The datagrams with reviews.
FromDone(q, pc, sv) ==
  \A i \in 1 .. Len(q) : q[i].kind = "rev" => pc[q[i].from] = "end" /\ q[i].server = sv[q[i].from]

\* What the datagrams have in common.
LEMMA DatagramIs ==
  ASSUME NEW d \in Datagrams
  PROVE  d.from \in Clients /\ (d.kind = "rev" => d.server \in Nat)
BY DEF Datagrams

\* It stays so when the first datagram is taken and when another one is sent.
LEMMA FromDoneStays ==
  ASSUME Seats, NEW q \in Seq(Datagrams), FromDone(q, cpc, server), LabNext \/ UNCHANGED labVars
  PROVE  /\ FromDone(q, cpc', server')
         /\ q # <<>> => FromDone(Tail(q), cpc', server')
         /\ \A d \in Datagrams :
              (d.kind = "rev" => cpc'[d.from] = "end" /\ d.server = server'[d.from])
                => FromDone(Append(q, d), cpc', server')
<1>1. ASSUME NEW i \in 1 .. Len(q), q[i].kind = "rev"
      PROVE  cpc'[q[i].from] = "end" /\ q[i].server = server'[q[i].from]
  <2>1. PICK d : d = q[i]
    OBVIOUS
  <2>2. d.from \in Clients /\ cpc[d.from] = "end" /\ d.server = server[d.from]
    BY <1>1, <2>1, DatagramIs DEF FromDone
  <2>3. cpc'[d.from] = "end" /\ server'[d.from] = server[d.from]
    BY <2>2, Done
  <2> QED BY <2>1, <2>2, <2>3
<1>2. FromDone(q, cpc', server')
  BY <1>1 DEF FromDone
<1>3. ASSUME q # <<>> PROVE FromDone(Tail(q), cpc', server')
  <2>1. PICK t : t = Tail(q)
    OBVIOUS
  <2>2. \A i \in 1 .. Len(t) : i + 1 \in 1 .. Len(q) /\ t[i] = q[i+1]
    BY <1>3, <2>1, TailIs
  <2>3. FromDone(t, cpc', server')
    BY <1>2, <2>2 DEF FromDone
  <2> QED BY <2>1, <2>3
<1>4. ASSUME NEW d \in Datagrams,
             d.kind = "rev" => cpc'[d.from] = "end" /\ d.server = server'[d.from]
      PROVE  FromDone(Append(q, d), cpc', server')
  <2>1. PICK t : t = Append(q, d)
    OBVIOUS
  <2>2. /\ t[Len(q) + 1] = d /\ \A i \in 1 .. Len(q) : t[i] = q[i]
        /\ \A i \in 1 .. Len(t) : i \in 1 .. Len(q) \/ i = Len(q) + 1
    BY <2>1, AppendIs
  <2>3. FromDone(t, cpc', server')
    BY <1>2, <1>4, <2>2 DEF FromDone
  <2> QED BY <2>1, <2>3
<1> QED BY <1>2, <1>3, <1>4

\* The message queue.
OfSeated(q, a, b) == \A i \in 1 .. Len(q) : Seated(q[i].from, q[i].service, a, b)

\* A review stays one for the service that its author stands with.
LEMMA OfSeatedStays ==
  ASSUME NEW q \in Seq(Reviews), OfSeated(q, accepted, backlog),
         \A c \in Clients, s \in Services :
           Seated(c, s, accepted, backlog) => Seated(c, s, accepted', backlog')
  PROVE  OfSeated(q, accepted', backlog')
<1>1. ASSUME NEW i \in 1 .. Len(q) PROVE Seated(q[i].from, q[i].service, accepted', backlog')
  <2>1. q[i] \in Reviews
    OBVIOUS
  <2>2. q[i].from \in Clients /\ q[i].service \in Services
    BY <2>1 DEF Reviews
  <2> QED BY <2>2 DEF OfSeated
<1> QED BY <1>1 DEF OfSeated

\* The reviews among the datagrams are of clients that are done, after every step.
LEMMA InboxStays ==
  ASSUME Facilities, Seats, Reviewed, LabNext \/ UNCHANGED labVars
  PROVE  FromDone(inbox', cpc', server')
<1>0. inbox \in Seq(Datagrams) /\ FromDone(inbox, cpc, server)
  BY DEF Facilities, Reviewed, FromDone
<1>1. CASE inbox' = inbox
  BY <1>0, <1>1, FromDoneStays
<1>2. CASE inbox # <<>> /\ inbox' = Tail(inbox)
  BY <1>0, <1>2, FromDoneStays
<1>3. ASSUME NEW d \in Datagrams, inbox' = Append(inbox, d),
             d.kind = "rev" => cpc'[d.from] = "end" /\ d.server = server'[d.from]
      PROVE  FromDone(inbox', cpc', server')
  BY <1>0, <1>3, FromDoneStays
<1>4. CASE TypeLine \/ Select \/ ReadKeyboard \/ Notify
  BY <1>1, <1>4 DEF TypeLine, Select, ReadKeyboard, Notify, udpVars
<1>5. CASE ReadDatagram \/ ReadReview
  BY <1>2, <1>5 DEF ReadDatagram, ReadReview, Facilities
<1>6. ASSUME NEW s \in Services, ServiceStep(s) PROVE inbox' = inbox
  BY <1>6 DEF ServiceStep, Ready, Handle, NewClient, udpVars
<1>7. ASSUME NEW s \in Services, NEW c \in Clients, ThreadStep(s, c) PROVE inbox' = inbox
  BY <1>7 DEF ThreadStep, CallRecv, Recv, SendAnswer, TakeReview, udpVars
<1>8. ASSUME NEW c \in Clients, Client(c) PROVE FromDone(inbox', cpc', server')
  <2>1. CASE Enquire(c)
    <3>1. PICK d : d = [kind |-> "enq", from |-> c]
      OBVIOUS
    <3>2. d \in Datagrams /\ d.kind # "rev"
      BY <3>1 DEF Datagrams
    <3> QED BY <1>3, <2>1, <3>1, <3>2 DEF Enquire, SendTo
  <2>2. CASE SendReviewKey(c)
    <3>1. PICK d : d = [kind |-> "review", from |-> c]
      OBVIOUS
    <3>2. d \in Datagrams /\ d.kind # "rev"
      BY <3>1 DEF Datagrams
    <3> QED BY <1>3, <2>2, <3>1, <3>2 DEF SendReviewKey, SendTo
  <2>3. CASE SendReview(c)
    <3>1. PICK d : d = [kind |-> "rev", from |-> c, server |-> server[c]]
      OBVIOUS
    <3>2. d \in Datagrams /\ d.from = c /\ d.server = server[c]
      BY <3>1 DEF Datagrams, Seats
    <3>3. cpc' = [cpc EXCEPT ![c] = "end"] /\ server' = server
      BY <2>3 DEF SendReview
    <3>4. cpc'[c] = "end" /\ server'[c] = server[c]
      BY <3>3 DEF Seats
    <3> QED BY <1>3, <2>3, <3>1, <3>2, <3>4 DEF SendReview, SendTo
  <2>4. CASE GetServers(c) \/ Connect(c) \/ SendRequest(c) \/ RecvAnswer(c) \/ SendStop(c)
    BY <1>1, <2>4 DEF GetServers, Connect, SendRequest, RecvAnswer, SendStop, udpVars
  <2> QED BY <1>8, <2>1, <2>2, <2>3, <2>4 DEF Client, ClientRuns, ClientUser
<1>9. CASE UNCHANGED labVars
  BY <1>1, <1>9 DEF labVars, udpVars
<1> QED BY <1>1, <1>4, <1>5, <1>6, <1>7, <1>8, <1>9, LabSteps

\* The service that F puts into a review is the one its author has chosen.
LEMMA ReviewedStay ==
  ASSUME LinesAssumption, Facilities, Lists, Seats, Reviewed, LabNext \/ UNCHANGED labVars
  PROVE  Reviewed'
<1>0. /\ inbox \in Seq(Datagrams) /\ FromDone(inbox, cpc, server)
      /\ reviews \in Seq(Reviews) /\ OfSeated(reviews, accepted, backlog)
  BY DEF Facilities, Reviewed, FromDone, OfSeated
<1>1. /\ OfSeated(reviews, accepted', backlog')
      /\ \A c \in Clients, s \in Services :
           Seated(c, s, accepted, backlog) => Seated(c, s, accepted', backlog')
  BY <1>0, SeatsStay, OfSeatedStays
<1>2. ASSUME reviews' \in Seq(Reviews), OfSeated(reviews', accepted', backlog') PROVE Reviewed'
  BY <1>2, InboxStays DEF Reviewed, FromDone, OfSeated
<1>3. CASE reviews' = reviews
  BY <1>0, <1>1, <1>2, <1>3
<1>4. CASE ReadReview
  <2>1. CASE reviews' = reviews
    BY <1>3, <2>1
  <2>2. CASE reviews' # reviews
    <3>1. PICK d : d = Head(inbox)
      OBVIOUS
    <3>2. /\ inbox # <<>> /\ d.kind = "rev"
          /\ reviews' = Append(reviews, [service |-> servers[d.server], from |-> d.from])
      BY <1>4, <2>2, <3>1 DEF ReadReview, ServiceOf
    <3>3. d \in Datagrams /\ d = inbox[1] /\ 1 \in 1 .. Len(inbox)
      BY <1>0, <3>1, <3>2
    <3>4. d.from \in Clients /\ cpc[d.from] = "end" /\ d.server = server[d.from]
      BY <1>0, <3>2, <3>3, DatagramIs DEF FromDone
    <3>5. PICK c \in Clients : c = d.from
      BY <3>4
    <3>6. Served(cpc[c])
      BY <3>4, <3>5 DEF Served
    <3>7. server[c] \in 1 .. Len(list[c]) /\ Seated(c, list[c][server[c]], accepted, backlog)
      BY <3>6 DEF Seats
    <3>8. servers[server[c]] = list[c][server[c]] /\ list[c][server[c]] \in Services
      BY <3>7 DEF Lists, Begins
    <3>9. PICK s \in Services : s = servers[d.server]
      BY <3>4, <3>5, <3>8
    <3>10. Seated(c, s, accepted', backlog')
      BY <1>1, <3>4, <3>5, <3>7, <3>8, <3>9
    <3>11. PICK r : r = [service |-> s, from |-> c]
      OBVIOUS
    <3>12. r \in Reviews /\ r.from = c /\ r.service = s
      BY <3>11 DEF Reviews
    <3>13. PICK q : q = reviews
      OBVIOUS
    <3>14. PICK t : t = Append(q, r)
      OBVIOUS
    <3>15. reviews' = t
      BY <3>2, <3>5, <3>9, <3>11, <3>13, <3>14
    <3>16. /\ t \in Seq(Reviews) /\ t[Len(q) + 1] = r /\ \A i \in 1 .. Len(q) : t[i] = q[i]
           /\ \A i \in 1 .. Len(t) : i \in 1 .. Len(q) \/ i = Len(q) + 1
      BY <1>0, <3>12, <3>13, <3>14, AppendIs
    <3>17. \A i \in 1 .. Len(q) : Seated(q[i].from, q[i].service, accepted', backlog')
      BY <1>1, <3>13 DEF OfSeated
    <3>18. \A i \in 1 .. Len(t) : Seated(t[i].from, t[i].service, accepted', backlog')
      BY <3>10, <3>12, <3>16, <3>17
    <3> QED BY <1>2, <3>15, <3>16, <3>18 DEF OfSeated
  <2> QED BY <2>1, <2>2
<1>5. ASSUME NEW s \in Services, NEW c \in Clients, TakeReview(s, c) PROVE Reviewed'
  <2>1. PICK k \in DOMAIN reviews : reviews' = RemoveAt(reviews, k)
    BY <1>5 DEF TakeReview
  <2>2. PICK q : q = reviews
    OBVIOUS
  <2>3. PICK t : t = RemoveAt(q, k)
    OBVIOUS
  <2>4. k \in 1 .. Len(q) /\ q \in Seq(Reviews) /\ reviews' = t
    BY <1>0, <2>1, <2>2, <2>3
  <2>5. /\ t \in Seq(Reviews)
        /\ \A i \in 1 .. Len(t) : \E j \in 1 .. Len(q) : t[i] = q[j]
    <3>1. /\ t \in Seq(Reviews) /\ Len(t) = Len(q) - 1
          /\ \A i \in 1 .. Len(q) - 1 : t[i] = IF i < k THEN q[i] ELSE q[i+1]
      BY <2>3, <2>4, RemoveAtIs
    <3>2. ASSUME NEW i \in 1 .. Len(t) PROVE \E j \in 1 .. Len(q) : t[i] = q[j]
      <4>1. i \in 1 .. Len(q) - 1 /\ i \in 1 .. Len(q) /\ i + 1 \in 1 .. Len(q)
        BY <2>4, <3>1
      <4> QED BY <3>1, <4>1
    <3> QED BY <3>1, <3>2
  <2>6. \A i \in 1 .. Len(q) : Seated(q[i].from, q[i].service, accepted', backlog')
    BY <1>1, <2>2 DEF OfSeated
  <2>7. OfSeated(t, accepted', backlog')
    BY <2>5, <2>6 DEF OfSeated
  <2> QED BY <1>2, <2>4, <2>5, <2>7
<1>6. CASE TypeLine \/ Select \/ ReadKeyboard \/ ReadDatagram \/ Notify
  BY <1>3, <1>6 DEF TypeLine, Select, ReadKeyboard, ReadDatagram, Notify, udpVars
<1>7. ASSUME NEW s \in Services, ServiceStep(s) PROVE reviews' = reviews
  BY <1>7 DEF ServiceStep, Ready, Handle, NewClient, udpVars
<1>8. ASSUME NEW s \in Services, NEW c \in Clients, ThreadStep(s, c) PROVE Reviewed'
  <2>1. CASE TakeReview(s, c)
    BY <1>5, <2>1
  <2>2. CASE CallRecv(s, c) \/ Recv(c) \/ SendAnswer(s, c)
    BY <1>3, <2>2 DEF CallRecv, Recv, SendAnswer, udpVars
  <2> QED BY <1>8, <2>1, <2>2 DEF ThreadStep
<1>9. ASSUME NEW c \in Clients, Client(c) PROVE reviews' = reviews
  <2>1. CASE Enquire(c) \/ GetServers(c) \/ Connect(c)
    BY <2>1 DEF Enquire, GetServers, Connect, udpVars
  <2>2. CASE SendRequest(c) \/ RecvAnswer(c) \/ SendStop(c)
    BY <2>2 DEF SendRequest, RecvAnswer, SendStop, udpVars
  <2>3. CASE SendReviewKey(c) \/ SendReview(c)
    BY <2>3 DEF SendReviewKey, SendReview
  <2> QED BY <1>9, <2>1, <2>2, <2>3 DEF Client, ClientRuns, ClientUser
<1>10. CASE UNCHANGED labVars
  BY <1>3, <1>10 DEF labVars, udpVars
<1> QED BY <1>3, <1>4, <1>6, <1>7, <1>8, <1>9, <1>10, LabSteps

\* The types of the answers.
AnswerTypes == answers \in [Clients -> Seq(Answers)] /\ got \in [Clients -> Seq(Answers)]
Converted(b, s) == [i \in DOMAIN b |-> Convert(b[i], s)]

\* What has been given.
LEMMA GivenType ==
  ASSUME AnswerTypes, NEW c \in Clients
  PROVE  /\ Given(c) \in Seq(Answers) /\ got[c] \in Seq(Answers) /\ answers[c] \in Seq(Answers)
BY DEF AnswerTypes, Given, Gives

\* The texts converted.
LEMMA ConvertedIs ==
  ASSUME NEW b \in Seq(Requests), NEW s \in Services
  PROVE  /\ Converted(b, s) \in Seq(Answers) /\ Len(Converted(b, s)) = Len(b)
         /\ \A i \in 1 .. Len(b) : /\ Converted(b, s)[i].from = b[i].from
                                   /\ Converted(b, s)[i].number = b[i].number
                                   /\ Converted(b, s)[i].by = s
<1>1. PICK k \in Nat : k = Len(b) /\ DOMAIN b = 1 .. k
  OBVIOUS
<1>2. ASSUME NEW i \in 1 .. k
      PROVE  /\ Convert(b[i], s) \in Answers /\ Convert(b[i], s).from = b[i].from
             /\ Convert(b[i], s).number = b[i].number /\ Convert(b[i], s).by = s
  <2>1. b[i] \in Requests
    BY <1>1
  <2> QED BY <2>1 DEF Convert, Answers, Requests
<1>3. PICK z : z = [i \in 1 .. k |-> Convert(b[i], s)]
  OBVIOUS
<1>4. Converted(b, s) = z
  BY <1>1, <1>3 DEF Converted
<1>5. z \in Seq(Answers) /\ Len(z) = k
  BY <1>2, <1>3
<1> QED BY <1>1, <1>2, <1>3, <1>4, <1>5

\* An answer is added.
LEMMA GivenGrows ==
  ASSUME Threads, AnswerTypes, NEW s \in Services, NEW c \in Clients, SendAnswer(s, c),
         Nsfd(s) \in Clients
  PROVE  /\ AnswerTypes'
         /\ Gives(got', answers', Nsfd(s)) = Given(Nsfd(s)) \o Converted(thread[c].buff, s)
         /\ \A d \in Clients : d # Nsfd(s) => Gives(got', answers', d) = Given(d)
<1>1. PICK n \in Clients : n = Nsfd(s)
  OBVIOUS
<1>2. PICK z : z = Converted(thread[c].buff, s)
  OBVIOUS
<1>3. thread[c].buff \in Seq(Requests)
  BY DEF Threads
<1>4. z \in Seq(Answers)
  BY <1>2, <1>3, ConvertedIs
<1>5. answers' = [answers EXCEPT ![n] = answers[n] \o z] /\ UNCHANGED got
  BY <1>1, <1>2 DEF SendAnswer, Converted, clientVars
<1>6. PICK x : x = answers[n]
  OBVIOUS
<1>7. PICK y : y = got[n]
  OBVIOUS
<1>8. x \in Seq(Answers) /\ y \in Seq(Answers)
  BY <1>6, <1>7, GivenType
<1>9. PICK w : w = x \o z
  OBVIOUS
<1>10. w \in Seq(Answers)
  BY <1>4, <1>8, <1>9
<1>11. answers' = [answers EXCEPT ![n] = w]
  BY <1>5, <1>6, <1>9
<1>12. AnswerTypes'
  BY <1>5, <1>10, <1>11 DEF AnswerTypes
<1>13. answers'[n] = w /\ got'[n] = y
  BY <1>5, <1>7, <1>11 DEF AnswerTypes
<1>14. y \o (x \o z) = (y \o x) \o z
  BY ONLY <1>4, <1>8, ConcatAssociative
<1>15. Gives(got', answers', n) = Given(n) \o z
  BY <1>6, <1>7, <1>9, <1>13, <1>14 DEF Given, Gives
<1>16. ASSUME NEW d \in Clients, d # n PROVE Gives(got', answers', d) = Given(d)
  <2>1. answers'[d] = answers[d] /\ got'[d] = got[d]
    BY <1>5, <1>11, <1>16 DEF AnswerTypes
  <2> QED BY <2>1 DEF Given, Gives
<1> QED BY <1>1, <1>2, <1>12, <1>15, <1>16

\* What has been given stays as it is in the other steps.
LEMMA GivenStays ==
  ASSUME AnswerTypes, LabNext \/ UNCHANGED labVars,
         ~ \E s \in Services : \E c \in Clients : ThreadStep(s, c) /\ SendAnswer(s, c)
  PROVE  AnswerTypes' /\ \A d \in Clients : Gives(got', answers', d) = Given(d)
<1>1. CASE UNCHANGED <<answers, got>>
  BY <1>1 DEF AnswerTypes, Given, Gives
<1>2. ASSUME NEW c \in Clients, RecvAnswer(c)
      PROVE  AnswerTypes' /\ \A d \in Clients : Gives(got', answers', d) = Given(d)
  <2>1. PICK g : g = Given(c)
    OBVIOUS
  <2>2. g \in Seq(Answers)
    BY <2>1, GivenType
  <2>3. /\ got' = [got EXCEPT ![c] = g] /\ answers' = [answers EXCEPT ![c] = <<>>]
    BY <1>2, <2>1 DEF RecvAnswer, Given, Gives
  <2>4. AnswerTypes' /\ got'[c] = g /\ answers'[c] = <<>>
    BY <2>2, <2>3 DEF AnswerTypes
  <2>5. g \o <<>> = g
    BY <2>2
  <2>6. Gives(got', answers', c) = Given(c)
    BY <2>1, <2>4, <2>5 DEF Given, Gives
  <2>7. ASSUME NEW d \in Clients, d # c PROVE Gives(got', answers', d) = Given(d)
    <3>1. answers'[d] = answers[d] /\ got'[d] = got[d]
      BY <2>3, <2>7 DEF AnswerTypes
    <3> QED BY <3>1 DEF Given, Gives
  <2> QED BY <2>4, <2>6, <2>7
<1>3. CASE TypeLine \/ Select \/ ReadKeyboard
  BY <1>1, <1>3 DEF TypeLine, Select, ReadKeyboard, tcpVars, clientVars
<1>4. CASE ReadDatagram \/ ReadReview \/ Notify
  BY <1>1, <1>4 DEF ReadDatagram, ReadReview, Notify, tcpVars, clientVars
<1>5. ASSUME NEW s \in Services, ServiceStep(s) PROVE UNCHANGED <<answers, got>>
  BY <1>5 DEF ServiceStep, Ready, Handle, NewClient, tcpVars, clientVars
<1>6. ASSUME NEW s \in Services, NEW c \in Clients, ThreadStep(s, c)
      PROVE  UNCHANGED <<answers, got>>
  <2>1. CallRecv(s, c) \/ Recv(c) \/ TakeReview(s, c)
    BY <1>6 DEF ThreadStep
  <2> QED BY <2>1 DEF CallRecv, Recv, TakeReview, tcpVars, clientVars
<1>7. ASSUME NEW c \in Clients, Client(c) PROVE RecvAnswer(c) \/ UNCHANGED <<answers, got>>
  <2>1. CASE Enquire(c) \/ GetServers(c) \/ Connect(c)
    BY <2>1 DEF Enquire, GetServers, Connect, tcpVars
  <2>2. CASE SendRequest(c) \/ SendStop(c)
    BY <2>2 DEF SendRequest, SendStop
  <2>3. CASE SendReviewKey(c) \/ SendReview(c)
    BY <2>3 DEF SendReviewKey, SendReview, tcpVars
  <2> QED BY <1>7, <2>1, <2>2, <2>3 DEF Client, ClientRuns, ClientUser
<1>8. CASE UNCHANGED labVars
  BY <1>1, <1>8 DEF labVars, tcpVars, clientVars
<1> QED BY <1>1, <1>2, <1>3, <1>4, <1>5, <1>6, <1>7, <1>8, LabSteps

\* Client c was accepted before client d.
Earlier(a, c, d) == \E i, j \in 1 .. Len(a) : i <= j /\ a[i] = c /\ a[j] = d

\* Before, in terms of one sequence.
LEMMA BeforeIs ==
  ASSUME Seats, NEW s \in Services
  PROVE  /\ accepted[s] \in Seq(Clients)
         /\ \A c, d : Before(s, c, d) <=> Earlier(accepted[s], c, d)
<1>1. accepted[s] \in Seq(Clients) /\ DOMAIN accepted[s] = 1 .. Len(accepted[s])
  BY DEF Seats
<1> QED BY <1>1 DEF Before, Earlier

\* Who was accepted before whom stays so.
LEMMA BeforeStays ==
  ASSUME Seats, Seats', LabNext \/ UNCHANGED labVars,
         NEW u \in Services, NEW c \in Clients, NEW d \in Clients, Before(u, c, d)
  PROVE  Earlier(accepted'[u], c, d)
<1>1. Earlier(accepted[u], c, d)
  BY BeforeIs
<1>3. CASE accepted'[u] = accepted[u]
  BY <1>1, <1>3
<1>4. ASSUME NEW s \in Services, NewClient(s) PROVE Earlier(accepted'[u], c, d)
  <2>1. CASE u # s
    BY <1>1, <1>4, <2>1, Accepts
  <2>2. CASE u = s
    <3>1. PICK a : a = accepted[u]
      OBVIOUS
    <3>2. PICK e : e = Head(backlog[u])
      OBVIOUS
    <3>3. PICK t : t = Append(a, e)
      OBVIOUS
    <3>4. e \in Clients /\ accepted'[u] = t
      BY <1>4, <2>2, <3>1, <3>2, <3>3, Accepts
    <3>5. a \in Seq(Clients)
      BY <3>1, BeforeIs
    <3>6. \A i \in 1 .. Len(a) : t[i] = a[i] /\ i \in 1 .. Len(t)
      BY <3>3, <3>4, <3>5, AppendIs
    <3>7. PICK i \in 1 .. Len(a), j \in 1 .. Len(a) : i <= j /\ a[i] = c /\ a[j] = d
      BY <1>1, <3>1 DEF Earlier
    <3>8. i \in 1 .. Len(t) /\ j \in 1 .. Len(t) /\ t[i] = c /\ t[j] = d /\ i <= j
      BY <3>6, <3>7
    <3>9. Earlier(t, c, d)
      BY <3>8 DEF Earlier
    <3> QED BY <3>4, <3>9
  <2> QED BY <2>1, <2>2
<1>5. ASSUME NEW x \in Clients, Client(x) PROVE accepted' = accepted
  <2>1. CASE Enquire(x) \/ GetServers(x) \/ Connect(x) \/ SendRequest(x)
    BY <2>1 DEF Enquire, GetServers, Connect, SendRequest, serviceVars
  <2>2. CASE SendStop(x) \/ RecvAnswer(x) \/ SendReviewKey(x) \/ SendReview(x)
    BY <2>2 DEF SendStop, RecvAnswer, SendReviewKey, SendReview, serviceVars
  <2> QED BY <1>5, <2>1, <2>2 DEF Client, ClientRuns, ClientUser
<1>6. CASE UNCHANGED <<accepted, backlog, cpc, server, list>>
  BY <1>3, <1>6
<1>7. CASE UNCHANGED labVars
  BY <1>3, <1>7 DEF labVars, serviceVars
<1>8. accepted' = accepted \/ \E s \in Services : NewClient(s)
  BY <1>5, <1>6, <1>7, SeatsAside DEF labVars, serviceVars
<1> QED BY <1>3, <1>4, <1>8

\* An answer goes to a client that was accepted no earlier than the one that asked.
LEMMA AnsweredStay ==
  ASSUME Seats, Seats', Threads, Answered, LabNext \/ UNCHANGED labVars
  PROVE  Answered'
<1>0. ASSUME AnswerTypes',
             \A d \in Clients : \A i \in 1 .. Len(Gives(got', answers', d)) :
               Earlier(accepted'[Gives(got', answers', d)[i].by],
                       Gives(got', answers', d)[i].from, d)
      PROVE  Answered'
  <2>1. ASSUME NEW d \in Clients, NEW g, g = Gives(got', answers', d), NEW i \in 1 .. Len(g)
        PROVE  Before(g[i].by, g[i].from, d)'
    <3>1. g \in Seq(Answers)
      BY <1>0, <2>1 DEF AnswerTypes, Gives
    <3>2. PICK e \in Answers : e = g[i]
      BY <3>1
    <3>3. e.by \in Services /\ Earlier(accepted'[e.by], e.from, d)
      BY <1>0, <2>1, <3>2 DEF Answers
    <3>4. DOMAIN accepted'[e.by] = 1 .. Len(accepted'[e.by])
      BY <3>3 DEF Seats
    <3> QED BY <3>2, <3>3, <3>4 DEF Before, Earlier
  <2> QED BY <1>0, <2>1 DEF AnswerTypes, Answered, Given, Gives
<1>1. AnswerTypes
  BY DEF Answered, AnswerTypes
<1>2. ASSUME NEW d \in Clients, NEW i \in 1 .. Len(Given(d))
      PROVE  Earlier(accepted'[Given(d)[i].by], Given(d)[i].from, d)
  <2>1. PICK a : a = Given(d)[i]
    OBVIOUS
  <2>2. Given(d) \in Seq(Answers)
    BY <1>1, GivenType
  <2>3. a \in Answers
    BY <2>1, <2>2
  <2>4. a.by \in Services /\ a.from \in Clients
    BY <2>3 DEF Answers
  <2>5. Before(a.by, a.from, d)
    BY <2>1 DEF Answered
  <2>6. PICK u \in Services : u = a.by
    BY <2>4
  <2>7. PICK c \in Clients : c = a.from
    BY <2>4
  <2>8. Earlier(accepted'[u], c, d)
    BY <2>5, <2>6, <2>7, BeforeStays
  <2> QED BY <2>1, <2>6, <2>7, <2>8
<1>3. CASE ~ \E s \in Services : \E c \in Clients : ThreadStep(s, c) /\ SendAnswer(s, c)
  <2>1. AnswerTypes' /\ \A d \in Clients : Gives(got', answers', d) = Given(d)
    BY <1>1, <1>3, GivenStays
  <2>2. ASSUME NEW d \in Clients, NEW i \in 1 .. Len(Gives(got', answers', d))
        PROVE  Earlier(accepted'[Gives(got', answers', d)[i].by],
                       Gives(got', answers', d)[i].from, d)
    BY <1>2, <2>1, <2>2
  <2> QED BY <1>0, <2>1, <2>2
<1>4. ASSUME NEW s \in Services, NEW c \in Clients, ThreadStep(s, c), SendAnswer(s, c)
      PROVE  Answered'
  <2>1. c \in Range(accepted[s])
    BY <1>4 DEF ThreadStep
  <2>2. PICK n \in Clients : n = Nsfd(s)
    BY <2>1, NsfdIs
  <2>3. PICK b : b = thread[c].buff
    OBVIOUS
  <2>4. PICK z : z = Converted(b, s)
    OBVIOUS
  <2>5. /\ AnswerTypes' /\ Gives(got', answers', n) = Given(n) \o z
        /\ \A d \in Clients : d # n => Gives(got', answers', d) = Given(d)
    BY <1>1, <1>4, <2>2, <2>3, <2>4, GivenGrows
  <2>6. b \in Seq(Requests) /\ \A i \in 1 .. Len(b) : b[i].from = thread[c].fd
    BY <2>3 DEF Threads
  <2>7. thread[c].fd \in Range(accepted[s]) /\ thread[c].fd \in Clients
    BY <1>4, <2>1 DEF SendAnswer, Threads
  <2>8. Before(s, thread[c].fd, n)
    <3>1. PICK a : a = accepted[s]
      OBVIOUS
    <3>2. a \in Seq(Clients) /\ thread[c].fd \in Range(a) /\ n = a[Len(a)]
      BY <2>2, <2>7, <3>1, BeforeIs DEF Nsfd, Last
    <3>3. PICK i \in 1 .. Len(a) : a[i] = thread[c].fd
      BY <3>2 DEF Range
    <3>4. Len(a) \in 1 .. Len(a) /\ i <= Len(a)
      BY <3>2, <3>3
    <3>5. Earlier(a, thread[c].fd, n)
      BY <3>2, <3>3, <3>4 DEF Earlier
    <3> QED BY <3>1, <3>5, BeforeIs
  <2>9. Earlier(accepted'[s], thread[c].fd, n)
    BY <2>7, <2>8, BeforeStays
  <2>10. /\ z \in Seq(Answers) /\ Len(z) = Len(b)
         /\ \A i \in 1 .. Len(z) : z[i].by = s /\ z[i].from = b[i].from
    BY <2>4, <2>6, ConvertedIs
  <2>11. \A i \in 1 .. Len(z) : z[i].by = s /\ z[i].from = thread[c].fd
    BY <2>6, <2>10
  <2>12. PICK g : g = Given(n)
    OBVIOUS
  <2>13. g \in Seq(Answers)
    BY <1>1, <2>12, GivenType
  <2>14. PICK w : w = g \o z
    OBVIOUS
  <2>15. /\ Len(w) = Len(g) + Len(z)
         /\ \A i \in 1 .. Len(g) + Len(z) :
              w[i] = IF i <= Len(g) THEN g[i] ELSE z[i - Len(g)]
    <3>1. z \in Seq(Answers)
      BY <2>10
    <3> QED BY ONLY <2>13, <2>14, <3>1, ConcatProperties
  <2>16. ASSUME NEW i \in 1 .. Len(w) PROVE Earlier(accepted'[w[i].by], w[i].from, n)
    <3>1. PICK k, nz : k = Len(g) /\ nz = Len(z)
      OBVIOUS
    <3>2. k \in Nat /\ nz \in Nat
      BY <2>10, <2>13, <3>1
    <3>3. i \in 1 .. k + nz /\ w[i] = IF i <= k THEN g[i] ELSE z[i - k]
      BY <2>15, <3>1
    <3>4. CASE i <= k
      <4>1. i \in 1 .. k
        BY <3>2, <3>3, <3>4
      <4> QED BY <1>2, <2>12, <3>1, <3>3, <3>4, <4>1
    <3>5. CASE ~ (i <= k)
      <4>1. i - k \in 1 .. nz
        BY <3>2, <3>3, <3>5
      <4>2. w[i].by = s /\ w[i].from = thread[c].fd
        BY <2>11, <3>1, <3>3, <3>5, <4>1
      <4> QED BY <2>9, <4>2
    <3> QED BY <3>4, <3>5
  <2>17. Gives(got', answers', n) = w
    BY <2>5, <2>12, <2>14
  <2>18. ASSUME NEW d \in Clients, NEW i \in 1 .. Len(Gives(got', answers', d))
         PROVE  Earlier(accepted'[Gives(got', answers', d)[i].by],
                        Gives(got', answers', d)[i].from, d)
    <3>1. CASE d = n
      BY <2>16, <2>17, <2>18, <3>1
    <3>2. CASE d # n
      BY <1>2, <2>5, <2>18, <3>2
    <3> QED BY <3>1, <3>2
  <2> QED BY <1>0, <2>5, <2>18
<1> QED BY <1>3, <1>4

\* The requests that two answers, or none, are to.
LEMMA AskedIs ==
  ASSUME NEW q \in Seq(Answers)
  PROVE  /\ Asked(q) \in Seq(Requests) /\ Len(Asked(q)) = Len(q)
         /\ \A i \in 1 .. Len(q) : Asked(q)[i] = Request(q[i])
<1>1. PICK k \in Nat : k = Len(q) /\ DOMAIN q = 1 .. k
  OBVIOUS
<1>2. ASSUME NEW i \in 1 .. k PROVE Request(q[i]) \in Requests
  <2>1. q[i] \in Answers
    BY <1>1
  <2> QED BY <2>1 DEF Request, Requests, Answers
<1>3. PICK z : z = [i \in 1 .. k |-> Request(q[i])]
  OBVIOUS
<1>4. Asked(q) = z
  BY <1>1, <1>3 DEF Asked
<1>5. z \in Seq(Requests) /\ Len(z) = k
  BY <1>2, <1>3
<1> QED BY <1>1, <1>3, <1>4, <1>5

\* Where the requests are.
LEMMA FoundIs ==
  ASSUME NEW sn \in [Clients -> Seq(Requests)], NEW th \in [Clients -> Thread],
         NEW g \in [Clients -> Seq(Answers)], NEW a \in [Clients -> Seq(Answers)]
  PROVE  /\ Found(sn, th, g, a) \in [Whereabouts -> Seq(Requests)]
         /\ \A c \in Clients : /\ Found(sn, th, g, a)[<<"sent", c>>] = sn[c]
                               /\ Found(sn, th, g, a)[<<"buff", c>>] = th[c].buff
                               /\ Found(sn, th, g, a)[<<"given", c>>] = Asked(Gives(g, a, c))
<1>1. ASSUME NEW c \in Clients
      PROVE  sn[c] \in Seq(Requests) /\ th[c].buff \in Seq(Requests)
               /\ Asked(Gives(g, a, c)) \in Seq(Requests)
  <2>1. th[c] \in Thread /\ Gives(g, a, c) \in Seq(Answers)
    BY DEF Gives
  <2> QED BY <2>1, AskedIs DEF Thread
<1>2. ASSUME NEW h \in Whereabouts PROVE h[2] \in Clients
  BY DEF Whereabouts
<1>3. ASSUME NEW h \in Whereabouts PROVE Found(sn, th, g, a)[h] \in Seq(Requests)
  BY <1>1, <1>2 DEF Found
<1>4. Found(sn, th, g, a) = [h \in Whereabouts |-> Found(sn, th, g, a)[h]]
  BY DEF Found
<1>5. Found(sn, th, g, a) \in [Whereabouts -> Seq(Requests)]
  BY <1>3, <1>4
<1>6. ASSUME NEW c \in Clients
      PROVE  /\ Found(sn, th, g, a)[<<"sent", c>>] = sn[c]
             /\ Found(sn, th, g, a)[<<"buff", c>>] = th[c].buff
             /\ Found(sn, th, g, a)[<<"given", c>>] = Asked(Gives(g, a, c))
  <2>1. \A x \in {"sent", "buff", "given"} : <<x, c>> \in Whereabouts
    BY DEF Whereabouts
  <2> QED BY <2>1 DEF Found
<1> QED BY <1>5, <1>6

\* Two places are the same when their parts are.
LEMMA PlaceIs ==
  /\ \A h \in Whereabouts : \E x \in {"sent", "buff", "given"}, c \in Clients : h = <<x, c>>
  /\ \A x \in {"sent", "buff", "given"}, c \in Clients : <<x, c>> \in Whereabouts
BY DEF Whereabouts

\* Requests that are dropped.
SameRequests(z, z2) == \A g \in DOMAIN z2 : \A i \in 1 .. Len(z2[g]) :
                 \E k \in DOMAIN z : \E j \in 1 .. Len(z[k]) : z2[g][i] = z[k][j]

\* Dropping requests leaves the others where they were, each once.
LEMMA Drops ==
  ASSUME NEW D, NEW z, NEW z2, DOMAIN z = D, DOMAIN z2 = D, Once(z),
         \A g \in D : z2[g] = z[g] \/ Len(z2[g]) = 0
  PROVE  Once(z2) /\ SameRequests(z, z2)
<1>1. \A g \in D : \A i \in 1 .. Len(z2[g]) : i \in 1 .. Len(z[g]) /\ z2[g][i] = z[g][i]
  OBVIOUS
<1>2. Once(z2)
  BY <1>1 DEF Once
<1> QED BY <1>1, <1>2 DEF SameRequests

\* Requests that go from place k to the end of place h, after the first m there.
GoOver(D, z, z2, h, k, n) ==
  /\ DOMAIN z = D /\ DOMAIN z2 = D /\ h \in D /\ k \in D /\ h # k /\ n \in Nat
  /\ Len(z2[k]) = 0 /\ \A g \in D : g # h /\ g # k => z2[g] = z[g]
  /\ \A g \in D : Len(z[g]) \in Nat /\ Len(z2[g]) \in Nat
  /\ \A i \in 1 .. Len(z2[h]) : IF i <= n THEN i \in 1 .. Len(z[h]) /\ z2[h][i] = z[h][i]
                                ELSE i - n \in 1 .. Len(z[k]) /\ z2[h][i] = z[k][i - n]

\* So does moving those of one place to the end of another.
LEMMA Moves ==
  ASSUME NEW D, NEW z, NEW z2, NEW h, NEW k, NEW n, GoOver(D, z, z2, h, k, n), Once(z)
  PROVE  Once(z2) /\ SameRequests(z, z2)
<1>0. /\ DOMAIN z = D /\ DOMAIN z2 = D /\ h \in D /\ k \in D /\ h # k /\ n \in Nat
      /\ Len(z2[k]) = 0 /\ \A g \in D : g # h /\ g # k => z2[g] = z[g]
      /\ \A g \in D : Len(z[g]) \in Nat /\ Len(z2[g]) \in Nat
      /\ \A i \in 1 .. Len(z2[h]) : IF i <= n THEN i \in 1 .. Len(z[h]) /\ z2[h][i] = z[h][i]
                                    ELSE i - n \in 1 .. Len(z[k]) /\ z2[h][i] = z[k][i - n]
  BY DEF GoOver
<1> DEFINE Moved(g, i) == g = h /\ i > n
<1>1. ASSUME NEW g \in D, NEW i \in 1 .. Len(z2[g]) PROVE g # k /\ i \in Nat
  BY <1>0
<1>2. ASSUME NEW g \in D, NEW i \in 1 .. Len(z2[g]), ~ Moved(g, i)
      PROVE  i \in 1 .. Len(z[g]) /\ z2[g][i] = z[g][i]
  <2>1. CASE g = h
    <3>1. i <= n
      BY <1>0, <1>1, <1>2, <2>1
    <3> QED BY <1>0, <2>1, <3>1
  <2>2. CASE g # h
    BY <1>0, <1>1, <2>2
  <2> QED BY <2>1, <2>2
<1>3. ASSUME NEW g \in D, NEW i \in 1 .. Len(z2[g]), Moved(g, i)
      PROVE  g = h /\ i - n \in 1 .. Len(z[k]) /\ z2[g][i] = z[k][i - n]
  <2>1. ~ (i <= n) /\ g = h
    BY <1>0, <1>1, <1>3
  <2> QED BY <1>0, <2>1
<1>4. ASSUME NEW g \in D, NEW d \in D, NEW i \in 1 .. Len(z2[g]), NEW j \in 1 .. Len(z2[d]),
             z2[g][i] = z2[d][j]
      PROVE  g = d /\ i = j
  <2>1. CASE Moved(g, i) /\ Moved(d, j)
    <3>1. /\ g = h /\ d = h /\ i - n \in 1 .. Len(z[k]) /\ j - n \in 1 .. Len(z[k])
          /\ z[k][i - n] = z[k][j - n]
      BY <1>3, <1>4, <2>1
    <3>2. i - n = j - n
      <4>1. \A u, v \in 1 .. Len(z[k]) : z[k][u] = z[k][v] => u = v
        BY <1>0 DEF Once
      <4> QED BY <3>1, <4>1
    <3>3. i = j
      BY <1>0, <1>1, <3>2
    <3> QED BY <3>1, <3>3
  <2>2. CASE Moved(g, i) /\ ~ Moved(d, j)
    <3>1. /\ i - n \in 1 .. Len(z[k]) /\ j \in 1 .. Len(z[d]) /\ z[k][i - n] = z[d][j]
      BY <1>2, <1>3, <1>4, <2>2
    <3>2. k = d
      BY <1>0, <3>1 DEF Once
    <3> QED BY <1>0, <1>1, <3>2
  <2>3. CASE ~ Moved(g, i) /\ Moved(d, j)
    <3>1. /\ j - n \in 1 .. Len(z[k]) /\ i \in 1 .. Len(z[g]) /\ z[g][i] = z[k][j - n]
      BY <1>2, <1>3, <1>4, <2>3
    <3>2. g = k
      BY <1>0, <3>1 DEF Once
    <3> QED BY <1>0, <1>1, <3>2
  <2>4. CASE ~ Moved(g, i) /\ ~ Moved(d, j)
    <3>1. i \in 1 .. Len(z[g]) /\ j \in 1 .. Len(z[d]) /\ z[g][i] = z[d][j]
      BY <1>2, <1>4, <2>4
    <3> QED BY <1>0, <3>1 DEF Once
  <2> QED BY <2>1, <2>2, <2>3, <2>4
<1>5. Once(z2)
  BY <1>0, <1>4 DEF Once
<1>6. ASSUME NEW g \in D, NEW i \in 1 .. Len(z2[g])
      PROVE  \E d \in D : \E j \in 1 .. Len(z[d]) : z2[g][i] = z[d][j]
  <2>1. CASE Moved(g, i)
    BY <1>0, <1>3, <2>1
  <2>2. CASE ~ Moved(g, i)
    BY <1>2, <2>2
  <2> QED BY <2>1, <2>2
<1> QED BY <1>0, <1>5, <1>6 DEF SameRequests

\* A request that is nowhere is sent.
ComeIn(D, S, z, z2, h, t) ==
  /\ z \in [D -> Seq(S)] /\ z2 \in [D -> Seq(S)] /\ h \in D /\ t \in S
  /\ z2[h] = Append(z[h], t) /\ \A g \in D : g # h => z2[g] = z[g]
  /\ \A g \in D : \A i \in 1 .. Len(z[g]) : z[g][i] # t

\* And one that was nowhere is somewhere once.
LEMMA Adds ==
  ASSUME NEW D, NEW S, NEW z, NEW z2, NEW h, NEW t, ComeIn(D, S, z, z2, h, t), Once(z)
  PROVE  /\ Once(z2)
         /\ \A g \in D : \A i \in 1 .. Len(z2[g]) :
              z2[g][i] = t \/ \E d \in D : \E j \in 1 .. Len(z[d]) : z2[g][i] = z[d][j]
<1>0. /\ z \in [D -> Seq(S)] /\ z2 \in [D -> Seq(S)] /\ h \in D /\ t \in S
      /\ z2[h] = Append(z[h], t) /\ \A g \in D : g # h => z2[g] = z[g]
      /\ \A g \in D : \A i \in 1 .. Len(z[g]) : z[g][i] # t
  BY DEF ComeIn
<1>1. PICK q : q = z[h]
  OBVIOUS
<1>2. PICK w : w = z2[h]
  OBVIOUS
<1>3. q \in Seq(S) /\ w = Append(q, t)
  BY <1>0, <1>1, <1>2
<1>4. /\ w[Len(q) + 1] = t /\ \A i \in 1 .. Len(q) : w[i] = q[i]
      /\ \A i \in 1 .. Len(w) : i \in 1 .. Len(q) \/ i = Len(q) + 1
  BY <1>0, <1>3, AppendIs
<1>5. ASSUME NEW g \in D, NEW i \in 1 .. Len(z2[g]), z2[g][i] # t
      PROVE  i \in 1 .. Len(z[g]) /\ z2[g][i] = z[g][i]
  <2>1. CASE g = h
    BY <1>0, <1>1, <1>2, <1>4, <1>5, <2>1
  <2>2. CASE g # h
    BY <1>0, <2>2
  <2> QED BY <1>0, <2>1, <2>2
<1>6. ASSUME NEW g \in D, NEW i \in 1 .. Len(z2[g]), z2[g][i] = t
      PROVE  g = h /\ i = Len(q) + 1
  <2>1. g = h
    BY <1>0, <1>6
  <2>2. i \notin 1 .. Len(q)
    BY <1>0, <1>1, <1>2, <1>4, <1>6, <2>1
  <2> QED BY <1>0, <1>2, <1>4, <2>1, <2>2
<1>7. ASSUME NEW g \in D, NEW d \in D, NEW i \in 1 .. Len(z2[g]), NEW j \in 1 .. Len(z2[d]),
             z2[g][i] = z2[d][j]
      PROVE  g = d /\ i = j
  <2>1. CASE z2[g][i] = t
    BY <1>0, <1>6, <1>7, <2>1
  <2>2. CASE z2[g][i] # t
    <3>1. i \in 1 .. Len(z[g]) /\ j \in 1 .. Len(z[d]) /\ z[g][i] = z[d][j]
      BY <1>0, <1>5, <1>7, <2>2
    <3> QED BY <1>0, <3>1 DEF Once
  <2> QED BY <1>0, <2>1, <2>2
<1>8. Once(z2)
  BY <1>0, <1>7 DEF Once
<1> QED BY <1>0, <1>5, <1>8

\* What a client has asked, and what it is doing.
Stopped(pc) == pc \in {"review", "rev", "end"}

\* The numbers of the requests only grow, and a client that has stopped stays so.
LEMMA AskedGrows ==
  ASSUME Seats, asked \in [Clients -> Nat], LabNext \/ UNCHANGED labVars
  PROVE  /\ asked' \in [Clients -> Nat]
         /\ \A c \in Clients : asked[c] <= asked'[c] /\ (Stopped(cpc[c]) => Stopped(cpc'[c]))
<1>0. cpc \in [Clients -> {"off", "wait", "menu", "use", "recv", "review", "rev", "end"}]
  BY DEF Seats
<1>1. CASE UNCHANGED <<asked, cpc>>
  BY <1>1
<1>2. ASSUME NEW d \in Clients, Client(d)
      PROVE  /\ asked' \in [Clients -> Nat]
             /\ \A c \in Clients : asked[c] <= asked'[c] /\ (Stopped(cpc[c]) => Stopped(cpc'[c]))
  <2>1. CASE Enquire(d) \/ GetServers(d) \/ Connect(d) \/ RecvAnswer(d)
    <3>1. asked' = asked /\ cpc[d] \in {"off", "wait", "menu", "recv"}
      BY <2>1 DEF Enquire, GetServers, Connect, RecvAnswer
    <3>2. PICK x : cpc' = [cpc EXCEPT ![d] = x]
      BY <2>1 DEF Enquire, GetServers, Connect, RecvAnswer
    <3> QED BY <1>0, <3>1, <3>2 DEF Stopped
  <2>2. CASE SendStop(d) \/ SendReviewKey(d) \/ SendReview(d)
    BY <1>0, <2>2 DEF SendStop, SendReviewKey, SendReview, Stopped
  <2>3. CASE SendRequest(d)
    BY <1>0, <2>3 DEF SendRequest, Stopped
  <2> QED BY <1>2, <2>1, <2>2, <2>3 DEF Client, ClientRuns, ClientUser
<1>3. CASE TypeLine \/ Select \/ ReadKeyboard \/ ReadDatagram \/ ReadReview \/ Notify
  BY <1>1, <1>3 DEF TypeLine, Select, ReadKeyboard, ReadDatagram, ReadReview, Notify, clientVars
<1>4. ASSUME NEW s \in Services, ServiceStep(s) PROVE UNCHANGED <<asked, cpc>>
  BY <1>4 DEF ServiceStep, Ready, Handle, NewClient, clientVars
<1>5. ASSUME NEW s \in Services, NEW c \in Clients, ThreadStep(s, c)
      PROVE  UNCHANGED <<asked, cpc>>
  BY <1>5 DEF ThreadStep, CallRecv, Recv, SendAnswer, TakeReview, clientVars
<1>6. CASE UNCHANGED labVars
  BY <1>1, <1>6 DEF labVars, clientVars
<1> QED BY <1>1, <1>2, <1>3, <1>4, <1>5, <1>6, LabSteps

\* What was issued stays so.
LEMMA IssuedStays ==
  ASSUME Seats, asked \in [Clients -> Nat], LabNext \/ UNCHANGED labVars,
         NEW t \in Requests, Issued(t, asked, cpc)
  PROVE  Issued(t, asked', cpc')
<1>1. PICK c \in Clients : c = t.from
  BY DEF Requests
<1>2. PICK n \in Nat : n = t.number
  BY DEF Requests
<1>3. n <= asked[c] /\ (n = 0 => Stopped(cpc[c]))
  BY <1>1, <1>2 DEF Issued, Stopped
<1>4. asked'[c] \in Nat /\ asked[c] \in Nat /\ asked[c] <= asked'[c]
  BY AskedGrows
<1>5. n <= asked'[c]
  BY <1>3, <1>4
<1>6. n = 0 => Stopped(cpc'[c])
  BY <1>3, AskedGrows
<1> QED BY <1>1, <1>2, <1>5, <1>6 DEF Issued, Stopped

\* The places, before and after a step.
LEMMA PlacesAre ==
  ASSUME Threads, AnswerTypes
  PROVE  /\ Requested \in [Whereabouts -> Seq(Requests)]
         /\ \A c \in Clients : /\ Requested[<<"sent", c>>] = sent[c]
                               /\ Requested[<<"buff", c>>] = thread[c].buff
                               /\ Requested[<<"given", c>>] = Asked(Given(c))
<1>1. sent \in [Clients -> Seq(Requests)] /\ thread \in [Clients -> Thread]
  BY DEF Threads, Thread
<1>2. got \in [Clients -> Seq(Answers)] /\ answers \in [Clients -> Seq(Answers)]
  BY DEF AnswerTypes
<1>3. \A c \in Clients : Given(c) = Gives(got, answers, c)
  BY DEF Given, Gives
<1>4. /\ Found(sent, thread, got, answers) \in [Whereabouts -> Seq(Requests)]
      /\ \A c \in Clients :
           /\ Found(sent, thread, got, answers)[<<"sent", c>>] = sent[c]
           /\ Found(sent, thread, got, answers)[<<"buff", c>>] = thread[c].buff
           /\ Found(sent, thread, got, answers)[<<"given", c>>] = Asked(Gives(got, answers, c))
  BY <1>1, <1>2, FoundIs
<1>5. Requested = Found(sent, thread, got, answers)
  BY DEF Requested
<1> QED BY <1>3, <1>4, <1>5

\* The same of the next state.
LEMMA NextPlacesAre ==
  ASSUME Threads', AnswerTypes'
  PROVE  /\ Requested' \in [Whereabouts -> Seq(Requests)]
         /\ \A c \in Clients : /\ Requested'[<<"sent", c>>] = sent'[c]
                               /\ Requested'[<<"buff", c>>] = thread'[c].buff
                               /\ Requested'[<<"given", c>>] = Asked(Gives(got', answers', c))
<1>1. sent' \in [Clients -> Seq(Requests)] /\ thread' \in [Clients -> Thread]
  BY DEF Threads, Thread
<1>2. got' \in [Clients -> Seq(Answers)] /\ answers' \in [Clients -> Seq(Answers)]
  BY DEF AnswerTypes
<1>3. /\ Found(sent', thread', got', answers') \in [Whereabouts -> Seq(Requests)]
      /\ \A c \in Clients :
           /\ Found(sent', thread', got', answers')[<<"sent", c>>] = sent'[c]
           /\ Found(sent', thread', got', answers')[<<"buff", c>>] = thread'[c].buff
           /\ Found(sent', thread', got', answers')[<<"given", c>>]
                = Asked(Gives(got', answers', c))
  BY <1>1, <1>2, FoundIs
<1>4. Requested' = Found(sent', thread', got', answers')
  BY DEF Requested
<1> QED BY <1>3, <1>4

\* A step that adds no request that was not issued.
LEMMA RequestingIf ==
  ASSUME Seats, Threads, AnswerTypes, Requesting, LabNext \/ UNCHANGED labVars,
         NEW z, z = Requested', z \in [Whereabouts -> Seq(Requests)], Once(z),
         \A g \in Whereabouts : \A i \in 1 .. Len(z[g]) :
           \/ Issued(z[g][i], asked', cpc')
           \/ \E d \in Whereabouts : \E j \in 1 .. Len(Requested[d]) : z[g][i] = Requested[d][j]
  PROVE  Requesting'
<1>1. asked \in [Clients -> Nat]
  BY DEF Requesting
<1>2. asked' \in [Clients -> Nat]
  BY <1>1, AskedGrows
<1>3. PICK y : y = Requested
  OBVIOUS
<1>4. y \in [Whereabouts -> Seq(Requests)]
  BY <1>3, PlacesAre
<1>5. \A d \in Whereabouts : \A j \in 1 .. Len(y[d]) : Issued(y[d][j], asked, cpc)
  BY <1>3 DEF Requesting
<1>6. ASSUME NEW g \in Whereabouts, NEW i \in 1 .. Len(z[g]) PROVE Issued(z[g][i], asked', cpc')
  <2>1. ASSUME NEW d \in Whereabouts, NEW j \in 1 .. Len(y[d]), z[g][i] = y[d][j]
        PROVE  Issued(z[g][i], asked', cpc')
    <3>1. y[d][j] \in Requests
      BY <1>4
    <3> QED BY <1>1, <1>5, <2>1, <3>1, IssuedStays
  <2> QED BY <1>3, <2>1
<1> QED BY <1>2, <1>6 DEF Requesting

\* No step doubles a request: it is sent once, taken by one thread, and answered once.
LEMMA RequestingStay ==
  ASSUME Seats, Threads, Threads', Answered, Requesting, LabNext \/ UNCHANGED labVars
  PROVE  Requesting'
<1>1. AnswerTypes /\ Once(Requested) /\ asked \in [Clients -> Nat]
  BY DEF Answered, AnswerTypes, Requesting
<1>2. PICK y : y = Requested
  OBVIOUS
<1>3. PICK z : z = Requested'
  OBVIOUS
<1>4. /\ y \in [Whereabouts -> Seq(Requests)] /\ Once(y)
      /\ \A c \in Clients : /\ y[<<"sent", c>>] = sent[c]
                            /\ y[<<"buff", c>>] = thread[c].buff
                            /\ y[<<"given", c>>] = Asked(Given(c))
  BY <1>1, <1>2, PlacesAre
<1>5. ASSUME AnswerTypes'
      PROVE  /\ z \in [Whereabouts -> Seq(Requests)]
             /\ \A c \in Clients : /\ z[<<"sent", c>>] = sent'[c]
                                   /\ z[<<"buff", c>>] = thread'[c].buff
                                   /\ z[<<"given", c>>] = Asked(Gives(got', answers', c))
  BY <1>3, <1>5, NextPlacesAre
<1>6. ASSUME AnswerTypes', Once(z), SameRequests(y, z) PROVE Requesting'
  BY <1>1, <1>2, <1>3, <1>4, <1>5, <1>6, RequestingIf DEF SameRequests
<1>7. ASSUME AnswerTypes',
             \A c \in Clients : /\ sent'[c] = sent[c]
                                /\ thread'[c].buff = thread[c].buff \/ thread'[c].buff = <<>>
                                /\ Gives(got', answers', c) = Given(c)
      PROVE  Requesting'
  <2>1. ASSUME NEW h \in Whereabouts PROVE z[h] = y[h] \/ Len(z[h]) = 0
    <3>1. PICK x \in {"sent", "buff", "given"}, c \in Clients : h = <<x, c>>
      BY PlaceIs
    <3>2. CASE x = "sent"
      BY <1>4, <1>5, <1>7, <3>1, <3>2
    <3>3. CASE x = "buff"
      <4>1. Len(<<>>) = 0
        OBVIOUS
      <4> QED BY <1>4, <1>5, <1>7, <3>1, <3>3, <4>1
    <3>4. CASE x = "given"
      BY <1>4, <1>5, <1>7, <3>1, <3>4
    <3> QED BY <3>2, <3>3, <3>4
  <2>2. DOMAIN y = Whereabouts /\ DOMAIN z = Whereabouts
    BY <1>4, <1>5, <1>7
  <2>3. Once(z) /\ SameRequests(y, z)
    BY <1>4, <2>1, <2>2, Drops
  <2> QED BY <1>6, <1>7, <2>3
<1>8. ASSUME NEW c \in Clients, NEW t \in Requests, UNCHANGED <<thread, got, answers>>,
             sent' = [sent EXCEPT ![c] = Append(sent[c], t)], Issued(t, asked', cpc'),
             ~ Issued(t, asked, cpc)
      PROVE  Requesting'
  <2>1. AnswerTypes' /\ \A d \in Clients : Gives(got', answers', d) = Given(d)
    BY <1>1, <1>8 DEF AnswerTypes, Given, Gives
  <2>2. z \in [Whereabouts -> Seq(Requests)]
    BY <1>5, <2>1
  <2>3. PICK h \in Whereabouts : h = <<"sent", c>>
    BY PlaceIs
  <2>4. sent'[c] = Append(sent[c], t) /\ \A d \in Clients : d # c => sent'[d] = sent[d]
    BY <1>8 DEF Threads
  <2>5. z[h] = Append(y[h], t)
    BY <1>4, <1>5, <2>1, <2>3, <2>4
  <2>6. ASSUME NEW g \in Whereabouts, g # h PROVE z[g] = y[g]
    <3>1. PICK x \in {"sent", "buff", "given"}, d \in Clients : g = <<x, d>>
      BY PlaceIs
    <3>2. CASE x = "sent"
      <4>1. d # c
        BY <2>3, <2>6, <3>1, <3>2
      <4> QED BY <1>4, <1>5, <2>1, <2>4, <3>1, <3>2, <4>1
    <3>3. CASE x = "buff"
      BY <1>4, <1>5, <1>8, <2>1, <3>1, <3>3
    <3>4. CASE x = "given"
      BY <1>4, <1>5, <2>1, <3>1, <3>4
    <3> QED BY <3>2, <3>3, <3>4
  <2>7. \A g \in Whereabouts : \A i \in 1 .. Len(y[g]) : y[g][i] # t
    BY <1>2, <1>8 DEF Requesting
  <2>8. /\ Once(z)
        /\ \A g \in Whereabouts : \A i \in 1 .. Len(z[g]) :
             z[g][i] = t \/ \E d \in Whereabouts : \E j \in 1 .. Len(y[d]) : z[g][i] = y[d][j]
    <3>1. \A g \in Whereabouts : g # h => z[g] = y[g]
      BY <2>6
    <3>2. y \in [Whereabouts -> Seq(Requests)] /\ Once(y)
      BY <1>4
    <3>3. h \in Whereabouts /\ t \in Requests
      OBVIOUS
    <3>4. ComeIn(Whereabouts, Requests, y, z, h, t)
      BY <2>2, <2>5, <2>7, <3>1, <3>2, <3>3 DEF ComeIn
    <3> QED BY <3>2, <3>4, Adds
  <2> QED BY <1>1, <1>2, <1>3, <1>8, <2>2, <2>8, RequestingIf
<1>9. ASSUME NEW s \in Services, NEW c \in Clients, ThreadStep(s, c), Recv(c) PROVE Requesting'
  <2>1. PICK d : d = thread[c].fd
    OBVIOUS
  <2>2. d \in Clients
    BY <2>1 DEF Threads
  <2>3. sent' = [sent EXCEPT ![d] = <<>>] /\ UNCHANGED <<got, answers>>
    BY <1>9, <2>1 DEF Recv, clientVars
  <2>4. PICK a : a = IF sent[d] = <<Stop(d)>> THEN "review" ELSE "send"
    OBVIOUS
  <2>5. thread' = [thread EXCEPT ![c].buff = sent[d], ![c].at = a]
    BY <1>9, <2>1, <2>4 DEF Recv
  <2>6. thread'[c].buff = sent[d] /\ \A x \in Clients : x # c => thread'[x] = thread[x]
    <3>1. thread \in [Clients -> Thread]
      BY DEF Threads, Thread
    <3>2. thread[c] \in Thread
      BY <3>1
    <3> QED BY <2>5, <3>1, <3>2 DEF Thread
  <2>7. AnswerTypes' /\ \A x \in Clients : Gives(got', answers', x) = Given(x)
    BY <1>1, <2>3 DEF AnswerTypes, Given, Gives
  <2>8. PICK h \in Whereabouts : h = <<"buff", c>>
    BY PlaceIs
  <2>9. PICK k \in Whereabouts : k = <<"sent", d>>
    BY <2>2, PlaceIs
  <2>10. h # k
    BY <2>8, <2>9
  <2>11. sent'[d] = <<>> /\ \A x \in Clients : x # d => sent'[x] = sent[x]
    BY <2>2, <2>3 DEF Threads
  <2>12. z[h] = y[k]
    BY <1>4, <1>5, <2>2, <2>6, <2>7, <2>8, <2>9
  <2>13. Len(z[k]) = 0
    <3>1. z[k] = <<>>
      BY <1>5, <2>2, <2>7, <2>9, <2>11
    <3> QED BY <3>1
  <2>14. ASSUME NEW g \in Whereabouts, g # h, g # k PROVE z[g] = y[g]
    <3>1. PICK x \in {"sent", "buff", "given"}, e \in Clients : g = <<x, e>>
      BY PlaceIs
    <3>2. CASE x = "sent"
      <4>1. e # d
        BY <2>9, <2>14, <3>1, <3>2
      <4>2. y[<<"sent", e>>] = sent[e]
        BY <1>4
      <4>3. z[<<"sent", e>>] = sent'[e]
        BY <1>5, <2>7
      <4> QED BY <4>2, <4>3, <2>11, <3>1, <3>2, <4>1
    <3>3. CASE x = "buff"
      <4>1. e # c
        BY <2>8, <2>14, <3>1, <3>3
      <4>2. y[<<"buff", e>>] = thread[e].buff
        BY <1>4
      <4>3. z[<<"buff", e>>] = thread'[e].buff
        BY <1>5, <2>7
      <4> QED BY <4>2, <4>3, <2>6, <3>1, <3>3, <4>1
    <3>4. CASE x = "given"
      <4>2. y[<<"given", e>>] = Asked(Given(e))
        BY <1>4
      <4>3. z[<<"given", e>>] = Asked(Gives(got', answers', e))
        BY <1>5, <2>7
      <4> QED BY <4>2, <4>3, <2>7, <3>1, <3>4
    <3> QED BY <3>2, <3>3, <3>4
  <2>15. z \in [Whereabouts -> Seq(Requests)]
    BY <1>5, <2>7
  <2>16. \A g \in Whereabouts : Len(y[g]) \in Nat /\ Len(z[g]) \in Nat
    BY <1>4, <2>15
  <2>17. \A i \in 1 .. Len(z[h]) :
           IF i <= 0 THEN i \in 1 .. Len(y[h]) /\ z[h][i] = y[h][i]
                     ELSE i - 0 \in 1 .. Len(y[k]) /\ z[h][i] = y[k][i - 0]
    BY <2>12, <2>16
  <2>18. DOMAIN y = Whereabouts /\ DOMAIN z = Whereabouts
    BY <1>4, <2>15
  <2>19. Once(z) /\ SameRequests(y, z)
    <3>1. \A g \in Whereabouts : g # h /\ g # k => z[g] = y[g]
      BY <2>14
    <3>2. Once(y)
      BY <1>4
    <3>3. 0 \in Nat
      OBVIOUS
    <3>4. h \in Whereabouts /\ k \in Whereabouts
      OBVIOUS
    <3>5. GoOver(Whereabouts, y, z, h, k, 0)
      BY <2>10, <2>13, <2>16, <2>17, <2>18, <3>1, <3>3, <3>4 DEF GoOver
    <3> QED BY <3>2, <3>5, Moves
  <2> QED BY <1>6, <2>7, <2>19
<1>10. ASSUME NEW s \in Services, NEW c \in Clients, ThreadStep(s, c), SendAnswer(s, c)
       PROVE  Requesting'
  <2>1. PICK n \in Clients : n = Nsfd(s)
    <3>1. c \in Range(accepted[s])
      BY <1>10 DEF ThreadStep
    <3> QED BY <3>1, NsfdIs
  <2>2. PICK b : b = thread[c].buff
    OBVIOUS
  <2>3. PICK w : w = Converted(b, s)
    OBVIOUS
  <2>4. PICK q : q = Given(n)
    OBVIOUS
  <2>5. /\ AnswerTypes' /\ Gives(got', answers', n) = q \o w
        /\ \A d \in Clients : d # n => Gives(got', answers', d) = Given(d)
    BY <1>1, <1>10, <2>1, <2>2, <2>3, <2>4, GivenGrows
  <2>6. b \in Seq(Requests) /\ q \in Seq(Answers)
    BY <1>1, <2>2, <2>4, GivenType DEF Threads
  <2>7. /\ w \in Seq(Answers) /\ Len(w) = Len(b)
        /\ \A i \in 1 .. Len(b) : w[i].from = b[i].from /\ w[i].number = b[i].number
    BY <2>3, <2>6, ConvertedIs
  <2>8. UNCHANGED sent /\ thread' = [thread EXCEPT ![c].at = "call", ![c].buff = <<>>]
    BY <1>10 DEF SendAnswer
  <2>9. thread'[c].buff = <<>> /\ \A x \in Clients : x # c => thread'[x] = thread[x]
    <3>1. thread \in [Clients -> Thread]
      BY DEF Threads, Thread
    <3>2. thread[c] \in Thread
      BY <3>1
    <3> QED BY <2>8, <3>1, <3>2 DEF Thread
  <2>10. PICK h \in Whereabouts : h = <<"given", n>>
    BY PlaceIs
  <2>11. PICK k \in Whereabouts : k = <<"buff", c>>
    BY PlaceIs
  <2>12. h # k
    BY <2>10, <2>11
  <2>13. y[h] = Asked(q) /\ y[k] = b /\ z[h] = Asked(q \o w) /\ z[k] = <<>>
    BY <1>4, <1>5, <2>2, <2>4, <2>5, <2>9, <2>10, <2>11
  <2>14. ASSUME NEW g \in Whereabouts, g # h, g # k PROVE z[g] = y[g]
    <3>1. PICK x \in {"sent", "buff", "given"}, e \in Clients : g = <<x, e>>
      BY PlaceIs
    <3>2. CASE x = "sent"
      <4>2. y[<<"sent", e>>] = sent[e]
        BY <1>4
      <4>3. z[<<"sent", e>>] = sent'[e]
        BY <1>5, <2>5
      <4> QED BY <4>2, <4>3, <2>8, <3>1, <3>2
    <3>3. CASE x = "buff"
      <4>1. e # c
        BY <2>11, <2>14, <3>1, <3>3
      <4>2. y[<<"buff", e>>] = thread[e].buff
        BY <1>4
      <4>3. z[<<"buff", e>>] = thread'[e].buff
        BY <1>5, <2>5
      <4> QED BY <4>2, <4>3, <2>9, <3>1, <3>3, <4>1
    <3>4. CASE x = "given"
      <4>1. e # n
        BY <2>10, <2>14, <3>1, <3>4
      <4>2. y[<<"given", e>>] = Asked(Given(e))
        BY <1>4
      <4>3. z[<<"given", e>>] = Asked(Gives(got', answers', e))
        BY <1>5, <2>5
      <4> QED BY <4>2, <4>3, <2>5, <3>1, <3>4, <4>1
    <3> QED BY <3>2, <3>3, <3>4
  <2>15. PICK u : u = q \o w
    OBVIOUS
  <2>16. /\ u \in Seq(Answers) /\ Len(u) = Len(q) + Len(w)
         /\ \A i \in 1 .. Len(q) + Len(w) :
              u[i] = IF i <= Len(q) THEN q[i] ELSE w[i - Len(q)]
    <3>1. q \in Seq(Answers) /\ w \in Seq(Answers)
      BY <2>6, <2>7
    <3> QED BY ONLY <2>15, <3>1, ConcatProperties
  <2>17. PICK lq \in Nat : lq = Len(q)
    BY <2>6
  <2>18. PICK lb \in Nat : lb = Len(b)
    BY <2>6
  <2>19. /\ Len(Asked(u)) = lq + lb /\ Len(Asked(q)) = lq
         /\ \A i \in 1 .. lq + lb : Asked(u)[i] = Request(u[i])
         /\ \A i \in 1 .. lq : Asked(q)[i] = Request(q[i])
    BY <2>6, <2>7, <2>16, <2>17, <2>18, AskedIs
  <2>20. ASSUME NEW i \in 1 .. lb PROVE Request(w[i]) = b[i]
    <3>1. b[i] \in Requests
      BY <2>6, <2>18
    <3>2. w[i].from = b[i].from /\ w[i].number = b[i].number
      BY <2>7, <2>18
    <3> QED BY <3>1, <3>2 DEF Request, Requests
  <2>21. ASSUME NEW i \in 1 .. Len(z[h])
         PROVE  IF i <= lq THEN i \in 1 .. Len(y[h]) /\ z[h][i] = y[h][i]
                           ELSE i - lq \in 1 .. Len(y[k]) /\ z[h][i] = y[k][i - lq]
    <3>1. i \in 1 .. lq + lb
      BY <2>13, <2>15, <2>19
    <3>2. z[h][i] = Request(u[i])
      BY <2>13, <2>15, <2>19, <3>1
    <3>3. u[i] = IF i <= lq THEN q[i] ELSE w[i - lq]
      BY <2>7, <2>16, <2>17, <2>18, <3>1
    <3>4. CASE i <= lq
      <4>1. i \in 1 .. lq
        BY <3>1, <3>4
      <4> QED BY <2>13, <2>19, <3>2, <3>3, <3>4, <4>1
    <3>5. CASE ~ (i <= lq)
      <4>1. i - lq \in 1 .. lb
        BY <3>1, <3>5
      <4> QED BY <2>13, <2>18, <2>20, <3>2, <3>3, <3>5, <4>1
    <3> QED BY <3>4, <3>5
  <2>22. z \in [Whereabouts -> Seq(Requests)]
    BY <1>5, <2>5
  <2>23. \A g \in Whereabouts : Len(y[g]) \in Nat /\ Len(z[g]) \in Nat
    BY <1>4, <2>22
  <2>24. DOMAIN y = Whereabouts /\ DOMAIN z = Whereabouts
    BY <1>4, <2>22
  <2>25. Len(z[k]) = 0
    BY <2>13
  <2>26. Once(z) /\ SameRequests(y, z)
    <3>1. \A g \in Whereabouts : g # h /\ g # k => z[g] = y[g]
      BY <2>14
    <3>2. Once(y)
      BY <1>4
    <3>3. \A i \in 1 .. Len(z[h]) :
            IF i <= lq THEN i \in 1 .. Len(y[h]) /\ z[h][i] = y[h][i]
                       ELSE i - lq \in 1 .. Len(y[k]) /\ z[h][i] = y[k][i - lq]
      BY <2>21
    <3>4. h \in Whereabouts /\ k \in Whereabouts /\ lq \in Nat
      OBVIOUS
    <3>5. GoOver(Whereabouts, y, z, h, k, lq)
      BY <2>12, <2>23, <2>24, <2>25, <3>1, <3>3, <3>4 DEF GoOver
    <3> QED BY <3>2, <3>5, Moves
  <2> QED BY <1>6, <2>5, <2>26
<1>11. ASSUME ~ \E s \in Services : \E c \in Clients : ThreadStep(s, c) /\ SendAnswer(s, c),
              \A c \in Clients : /\ sent'[c] = sent[c]
                                 /\ thread'[c].buff = thread[c].buff \/ thread'[c].buff = <<>>
       PROVE  Requesting'
  BY <1>1, <1>7, <1>11, GivenStays
<1>12. CASE UNCHANGED <<accepted, thread, sent>>
  <2>1. ASSUME NEW s \in Services, NEW c \in Clients, ThreadStep(s, c), SendAnswer(s, c)
        PROVE  Requesting'
    BY <1>10, <2>1
  <2> QED BY <1>11, <1>12, <2>1
<1>13. ASSUME NEW s \in Services, NewClient(s) PROVE Requesting'
  <2>1. PICK e : e = Head(backlog[s])
    OBVIOUS
  <2>2. thread' = [thread EXCEPT ![e].at = "call"] /\ UNCHANGED <<sent, answers, got>>
    BY <1>13, <2>1 DEF NewClient, clientVars
  <2>3. ASSUME NEW c \in Clients PROVE thread'[c].buff = thread[c].buff
    <3>1. thread \in [Clients -> Thread]
      BY DEF Threads, Thread
    <3>2. thread[c] \in Thread
      BY <3>1
    <3> QED BY <2>2, <3>1, <3>2 DEF Thread
  <2>4. AnswerTypes' /\ \A c \in Clients : Gives(got', answers', c) = Given(c)
    BY <1>1, <2>2 DEF AnswerTypes, Given, Gives
  <2> QED BY <1>7, <2>2, <2>3, <2>4
<1>14. ASSUME NEW s \in Services, NEW c \in Clients, CallRecv(s, c) \/ TakeReview(s, c)
       PROVE  Requesting'
  <2>1. UNCHANGED <<sent, answers, got>>
    BY <1>14 DEF CallRecv, TakeReview, tcpVars, clientVars
  <2>2. PICK r : r.buff = <<>> /\ thread' = [thread EXCEPT ![c] = r]
    <3>1. CASE CallRecv(s, c)
      BY <3>1 DEF CallRecv
    <3>2. CASE TakeReview(s, c)
      BY <3>2 DEF TakeReview
    <3> QED BY <1>14, <3>1, <3>2
  <2>3. ASSUME NEW d \in Clients
        PROVE  thread'[d].buff = thread[d].buff \/ thread'[d].buff = <<>>
    BY <2>2 DEF Threads
  <2>4. AnswerTypes' /\ \A d \in Clients : Gives(got', answers', d) = Given(d)
    BY <1>1, <2>1 DEF AnswerTypes, Given, Gives
  <2> QED BY <1>7, <2>1, <2>3, <2>4
<1>15. ASSUME NEW s \in Services, NEW c \in Clients, ThreadStep(s, c) PROVE Requesting'
  BY <1>9, <1>10, <1>14, <1>15 DEF ThreadStep
<1>16. ASSUME NEW c \in Clients, SendRequest(c) PROVE Requesting'
  <2>1. PICK n \in Nat : n = asked[c]
    BY <1>1
  <2>2. PICK t : t = [from |-> c, number |-> n + 1]
    OBVIOUS
  <2>3. t \in Requests /\ t.from = c /\ t.number = n + 1
    BY <2>2 DEF Requests
  <2>4. /\ UNCHANGED <<thread, got, answers>> /\ asked' = [asked EXCEPT ![c] = asked[c] + 1]
        /\ sent' = [sent EXCEPT ![c] = Append(sent[c], t)]
    BY <1>16, <2>1, <2>2 DEF SendRequest, serviceVars
  <2>5. asked'[c] = n + 1
    BY <1>1, <2>1, <2>4
  <2>6. Issued(t, asked', cpc') /\ ~ Issued(t, asked, cpc)
    <3>1. ~ (n + 1 <= n) /\ n + 1 # 0 /\ n + 1 <= n + 1
      BY <2>1
    <3> QED BY <2>1, <2>3, <2>5, <3>1 DEF Issued
  <2> QED BY <1>8, <2>3, <2>4, <2>6
<1>17. ASSUME NEW c \in Clients, SendStop(c) PROVE Requesting'
  <2>1. PICK t : t = Stop(c)
    OBVIOUS
  <2>2. t \in Requests /\ t.from = c /\ t.number = 0
    BY <2>1 DEF Requests, Stop
  <2>3. /\ UNCHANGED <<thread, got, answers, asked>> /\ cpc[c] = "use"
        /\ cpc' = [cpc EXCEPT ![c] = "review"]
        /\ sent' = [sent EXCEPT ![c] = Append(sent[c], t)]
    BY <1>17, <2>1 DEF SendStop, serviceVars
  <2>4. cpc'[c] = "review" /\ asked'[c] \in Nat
    BY <1>1, <2>3 DEF Seats
  <2>5. Issued(t, asked', cpc') /\ ~ Issued(t, asked, cpc)
    BY <2>2, <2>3, <2>4 DEF Issued
  <2> QED BY <1>8, <2>2, <2>3, <2>5
<1>18. CASE UNCHANGED labVars
  BY <1>12, <1>18 DEF labVars, serviceVars, tcpVars
<1> QED BY <1>12, <1>13, <1>15, <1>16, <1>17, <1>18, ThreadsAside

\* Every step keeps the invariant.
LEMMA LabStays ==
  ASSUME LinesAssumption, LabInv, LabNext \/ UNCHANGED labVars PROVE LabInv'
<1>0. Facilities /\ Lists /\ Seats /\ Threads /\ Reviewed /\ Answered /\ Requesting
  BY DEF LabInv
<1>1. Facilities'
  BY <1>0, FacilitiesStay
<1>2. Lists'
  BY <1>0, ListsStay
<1>3. Seats'
  BY <1>0, SeatsStay
<1>4. Threads'
  BY <1>0, ThreadsStay
<1>5. Reviewed'
  BY <1>0, ReviewedStay
<1>6. Answered'
  BY <1>0, <1>3, AnsweredStay
<1>7. Requesting'
  BY <1>0, <1>4, RequestingStay
<1> QED BY <1>1, <1>2, <1>3, <1>4, <1>5, <1>6, <1>7 DEF LabInv

\* What stands in one of two sequences stands in the two together.
LEMMA RangeOfBoth ==
  ASSUME NEW S, NEW u \in Seq(S), NEW v \in Seq(S), NEW x, x \in Range(u) \/ x \in Range(v)
  PROVE  x \in Range(u \o v)
<1>1. PICK w : w = u \o v
  OBVIOUS
<1>2. PICK k, n : k = Len(u) /\ n = Len(v)
  OBVIOUS
<1>3. k \in Nat /\ n \in Nat
  BY <1>2
<1>4. /\ w \in Seq(S) /\ Len(w) = k + n
      /\ \A i \in 1 .. k + n : w[i] = IF i <= k THEN u[i] ELSE v[i - k]
  <2>1. /\ w \in Seq(S) /\ Len(w) = Len(u) + Len(v)
        /\ \A i \in 1 .. Len(u) + Len(v) : w[i] = IF i <= Len(u) THEN u[i] ELSE v[i - Len(u)]
    BY <1>1, ConcatProperties
  <2> QED BY <1>2, <2>1
<1>5. \A i \in 1 .. k + n : w[i] \in Range(w)
  <2>1. DOMAIN w = 1 .. k + n
    BY <1>4
  <2> QED BY <2>1 DEF Range
<1>6. CASE x \in Range(u)
  <2>1. PICK i \in 1 .. k : u[i] = x
    BY <1>2, <1>6 DEF Range
  <2>2. i \in 1 .. k + n /\ i <= k
    BY <1>3
  <2>3. w[i] = x
    BY <1>4, <2>1, <2>2
  <2> QED BY <1>1, <1>5, <2>2, <2>3
<1>7. CASE x \in Range(v)
  <2>1. PICK i \in 1 .. n : v[i] = x
    BY <1>2, <1>7 DEF Range
  <2>2. k + i \in 1 .. k + n /\ ~ (k + i <= k) /\ (k + i) - k = i
    BY <1>3
  <2>3. w[k + i] = x
    BY <1>4, <2>1, <2>2
  <2> QED BY <1>1, <1>5, <2>2, <2>3
<1> QED BY <1>6, <1>7

\* What the invariant says of the answers and of the reviews.
LEMMA LabHandsOver ==
  ASSUME LabInv PROVE TypeOK /\ AnswerOfEarlier /\ AnsweredOnce /\ ReviewRight
<1>0. Facilities /\ Lists /\ Seats /\ Threads /\ Reviewed /\ Answered /\ Requesting /\ AnswerTypes
  BY DEF LabInv, Answered, AnswerTypes
<1>1. TypeOK
  BY <1>0 DEF TypeOK, Facilities, Threads
<1>2. \A c \in Clients : Given(c) \in Seq(Answers) /\ DOMAIN Given(c) = 1 .. Len(Given(c))
  <2>1. ASSUME NEW c \in Clients
        PROVE  Given(c) \in Seq(Answers) /\ DOMAIN Given(c) = 1 .. Len(Given(c))
    <3>1. Given(c) \in Seq(Answers)
      BY <1>0, GivenType
    <3> QED BY <3>1
  <2> QED BY <2>1
<1>3. AnswerOfEarlier
  <2>1. ASSUME NEW c \in Clients, NEW a \in Range(Given(c)) PROVE Before(a.by, a.from, c)
    <3>1. PICK i \in 1 .. Len(Given(c)) : Given(c)[i] = a
      BY <1>2 DEF Range
    <3> QED BY <1>0, <3>1 DEF Answered
  <2> QED BY <2>1 DEF AnswerOfEarlier
<1>4. AnsweredOnce
  <2>1. ASSUME NEW c \in Clients, NEW d \in Clients, NEW i \in 1 .. Len(Given(c)),
               NEW j \in 1 .. Len(Given(d)), Given(c)[i] = Given(d)[j]
        PROVE  c = d /\ i = j
    <3>1. PICK h \in Whereabouts : h = <<"given", c>>
      BY PlaceIs
    <3>2. PICK k \in Whereabouts : k = <<"given", d>>
      BY PlaceIs
    <3>3. PICK z : z = Requested
      OBVIOUS
    <3>4. PICK u : u = Given(c)
      OBVIOUS
    <3>5. PICK v : v = Given(d)
      OBVIOUS
    <3>6. u \in Seq(Answers) /\ v \in Seq(Answers)
      BY <1>2, <3>4, <3>5
    <3>7. DOMAIN z = Whereabouts /\ z[h] = Asked(u) /\ z[k] = Asked(v)
      BY <1>0, <3>1, <3>2, <3>3, <3>4, <3>5, PlacesAre
    <3>8. i \in 1 .. Len(z[h]) /\ z[h][i] = Request(u[i])
      BY <2>1, <3>4, <3>6, <3>7, AskedIs
    <3>9. j \in 1 .. Len(z[k]) /\ z[k][j] = Request(v[j])
      BY <2>1, <3>5, <3>6, <3>7, AskedIs
    <3>10. z[h][i] = z[k][j]
      BY <2>1, <3>4, <3>5, <3>8, <3>9
    <3>11. h = k /\ i = j
      BY <1>0, <3>3, <3>7, <3>8, <3>9, <3>10 DEF Requesting, Once
    <3> QED BY <3>1, <3>2, <3>11
  <2> QED BY <1>2, <2>1 DEF AnsweredOnce
<1>5. ReviewRight
  <2>1. ASSUME NEW i \in DOMAIN reviews
        PROVE  reviews[i].from
                 \in Range(accepted[reviews[i].service] \o backlog[reviews[i].service])
    <3>1. i \in 1 .. Len(reviews) /\ reviews[i] \in Reviews
      BY <1>0 DEF Reviewed
    <3>2. PICK s \in Services : s = reviews[i].service
      BY <3>1 DEF Reviews
    <3>3. PICK c \in Clients : c = reviews[i].from
      BY <3>1 DEF Reviews
    <3>4. c \in Range(accepted[s]) \/ c \in Range(backlog[s])
      BY <1>0, <3>1, <3>2, <3>3 DEF Reviewed, Seated
    <3>5. accepted[s] \in Seq(Clients) /\ backlog[s] \in Seq(Clients)
      BY <1>0 DEF Seats
    <3>6. c \in Range(accepted[s] \o backlog[s])
      BY <3>4, <3>5, RangeOfBoth
    <3> QED BY <3>2, <3>3, <3>6
  <2> QED BY <2>1 DEF ReviewRight
<1> QED BY <1>1, <1>3, <1>4, <1>5
=============================================================================
