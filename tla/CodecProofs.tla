----------------------------- MODULE CodecProofs -----------------------------
(***************************************************************************)
(* The codecs, for every stream, every text and every message, and for     *)
(* every size of their buffers: what a rolled-back page leaves behind, what*)
(* the compressor's tokens stand for and what they cost, what the hash is  *)
(* computed from, and that the decoder reads back, bit by bit, what the    *)
(* compressor wrote.  The files of other encoders, with stored and dynamic *)
(* blocks, are left to TLC.                                                *)
(***************************************************************************)
EXTENDS InflateReplay, Inflate, Sha256, FiniteSetTheorems, SequenceTheorems, TLAPS

(***************************************************************************)
(* Numbers.                                                                *)
(***************************************************************************)

(* A non-empty set of naturals has a least element.                        *)
LEMMA NatMin ==
  ASSUME NEW T \in SUBSET Nat, T # {}
  PROVE  \E x \in T : \A y \in T : x <= y
<1> DEFINE U == { 1..n : n \in T }
           R == StrictSubsetOrdering(Nat)
<1>1. U \subseteq FiniteSubsetsOf(Nat)
  <2> SUFFICES ASSUME NEW n \in T PROVE 1..n \in FiniteSubsetsOf(Nat)
    OBVIOUS
  <2>1. IsFiniteSet(1..n)
    BY FS_Interval
  <2> QED BY <2>1 DEF FiniteSubsetsOf
<1>2. IsWellFoundedOn(R, FiniteSubsetsOf(Nat))
  BY FS_StrictSubsetOrderingWellFounded
<1>3. U # {}
  OBVIOUS
<1>4. PICK a \in U : \A b \in U : <<b, a>> \notin R
  <2> HIDE DEF R, U
  <2> QED BY <1>1, <1>2, <1>3, WFMin
<1>5. PICK x \in T : a = 1..x
  OBVIOUS
<1>6. ASSUME NEW y \in T PROVE x <= y
  <2> SUFFICES ASSUME y < x PROVE FALSE
    OBVIOUS
  <2>1. /\ 1..y \in SUBSET Nat /\ 1..x \in SUBSET Nat
        /\ 1..y \subseteq 1..x /\ x \in 1..x /\ x \notin 1..y
    OBVIOUS
  <2>2. 1..y # 1..x
    BY <2>1
  <2>3. <<1..y, 1..x>> \in R
    BY <2>1, <2>2 DEF StrictSubsetOrdering
  <2> QED BY <1>4, <1>5, <2>3
<1> QED BY <1>6

(* Induction: a set of naturals that holds 0, and with every number the     *)
(* next one.                                                               *)
LEMMA NatInduct ==
  ASSUME NEW T \in SUBSET Nat, 0 \in T, \A n \in T : n + 1 \in T
  PROVE  T = Nat
<1> SUFFICES ASSUME Nat \ T # {} PROVE FALSE
  OBVIOUS
<1>1. PICK x \in Nat \ T : \A y \in Nat \ T : x <= y
  BY NatMin
<1>2. x - 1 \in Nat /\ x = (x - 1) + 1
  OBVIOUS
<1>3. x - 1 \in T
  BY <1>1, <1>2
<1> QED BY <1>1, <1>2, <1>3

(* A remainder is less than its divisor.                                   *)
LEMMA ModRange ==
  ASSUME NEW x \in Int, NEW n \in Nat \ {0}
  PROVE  x % n \in 0..(n - 1)
BY SMT

(* Two places less than a round apart are two places of the ring.          *)
LEMMA PlacesApart ==
  ASSUME NEW n \in Nat \ {0}, NEW j \in Nat, NEW k \in Nat, j < k, k < j + n
  PROVE  j % n # k % n
<1> SUFFICES ASSUME j % n = k % n PROVE FALSE
  OBVIOUS
<1>1. /\ j = n * (j \div n) + (j % n) /\ j \div n \in Int
      /\ k = n * (k \div n) + (k % n) /\ k \div n \in Int
      /\ j % n \in Int /\ k % n \in Int
  BY SMT
<1> DEFINE a == j \div n
           b == k \div n
<1>2. k - j = n * (b - a) /\ b - a \in Int
  <2>1. n * (b - a) = n * b - n * a
    BY <1>1, SMT
  <2> QED BY <1>1, <2>1
<1> DEFINE c == b - a
<1> HIDE DEF a, b, c
<1>3. c \in Int /\ n * c > 0 /\ n * c < n
  BY <1>2 DEF c
<1>4. c >= 1 => n * c >= n
  BY <1>3, SMT
<1>5. c <= 0 => n * c <= 0
  BY <1>3, SMT
<1> QED BY <1>3, <1>4, <1>5

LEMMA TupleIsSeq ==
  ASSUME NEW X, NEW n \in Nat, NEW f \in [1..n -> X]
  PROVE  f \in Seq(X) /\ Len(f) = n
OBVIOUS

(***************************************************************************)
(* The replay.  First what the stream means.                               *)
(***************************************************************************)

OriginStep(d, g, p) == IF d[p] = 0 THEN p - 1 ELSE g[p - d[p]]

OriginOf(d) == CHOOSE g : g = [ p \in DOMAIN d |-> OriginStep(d, g, p) ]

\* A byte is copied from an earlier one.
ReachesBack(d) == \A p \in 1..Len(d) : d[p] \in 0..(p - 1)

LEMMA OriginIs == Origin = OriginOf(dist) /\ Origin' = OriginOf(dist')
BY DEF Origin, OriginOf, OriginStep

(* The recursive function exists. *)
LEMMA OriginExists ==
  ASSUME NEW d \in Seq(Nat), ReachesBack(d), NEW n \in 0..Len(d)
  PROVE  \E g : g = [ p \in 1..n |-> OriginStep(d, g, p) ]
<1> DEFINE Built(k) == \E g : g = [ p \in 1..k |-> OriginStep(d, g, p) ]
           T == { k \in Nat : k <= Len(d) => Built(k) }
<1>0. Len(d) \in Nat
  BY LenProperties
<1>1. 0 \in T
  <2> DEFINE g == [ p \in 1..0 |-> 0 ]
  <2>1. g = [ p \in 1..0 |-> OriginStep(d, g, p) ]
    OBVIOUS
  <2>2. Built(0)
    <3> HIDE DEF g
    <3> QED BY <2>1
  <2> HIDE DEF Built
  <2> QED BY <2>2
<1>2. ASSUME NEW k \in T PROVE k + 1 \in T
  <2> SUFFICES ASSUME k + 1 <= Len(d) PROVE Built(k + 1)
    OBVIOUS
  <2>1. k \in Nat /\ k <= Len(d)
    BY <1>0
  <2>2. PICK g : g = [ p \in 1..k |-> OriginStep(d, g, p) ]
    BY <2>1
  <2> DEFINE h == [ p \in 1..(k + 1) |-> IF p <= k THEN g[p] ELSE OriginStep(d, g, p) ]
  <2>3. ASSUME NEW p \in 1..(k + 1) PROVE h[p] = OriginStep(d, h, p)
    <3>1. p \in 1..Len(d) /\ d[p] \in 0..(p - 1)
      BY <1>0, <2>1 DEF ReachesBack
    <3>2. CASE d[p] = 0
      <4>1. h[p] = p - 1
        BY <3>2, <2>1, <2>2 DEF OriginStep
      <4> QED BY <3>2, <4>1 DEF OriginStep
    <3>3. CASE d[p] # 0
      <4>1. p - d[p] \in 1..k
        BY <3>1, <3>3, <2>1
      <4>2. h[p - d[p]] = g[p - d[p]]
        BY <4>1, <2>1
      <4>3. h[p] = OriginStep(d, g, p)
        <5>1. CASE p <= k
          <6>1. p \in 1..k /\ h[p] = g[p]
            BY <5>1, <2>1
          <6> HIDE DEF h
          <6> QED BY <6>1, <2>2
        <5>2. CASE ~(p <= k)
          BY <5>2
        <5> QED BY <5>1, <5>2
      <4> HIDE DEF h
      <4> QED BY <3>3, <4>2, <4>3 DEF OriginStep
    <3> QED BY <3>2, <3>3
  <2>4. h = [ p \in 1..(k + 1) |-> OriginStep(d, h, p) ]
    BY <2>3
  <2> HIDE DEF h
  <2> QED BY <2>4
<1>3. T = Nat
  <2> HIDE DEF T
  <2>1. T \in SUBSET Nat
    BY DEF T
  <2> QED BY <1>1, <1>2, <2>1, NatInduct
<1>4. n \in Nat /\ n <= Len(d)
  BY <1>0
<1>5. n \in T
  <2> HIDE DEF T
  <2> QED BY <1>3, <1>4
<1> QED BY <1>4, <1>5

LEMMA OriginSteps ==
  ASSUME NEW d \in Seq(Nat), ReachesBack(d)
  PROVE  \A p \in 1..Len(d) : OriginOf(d)[p] = OriginStep(d, OriginOf(d), p)
<1>1. DOMAIN d = 1..Len(d) /\ Len(d) \in 0..Len(d)
  BY LenProperties
<1>2. \E g : g = [ p \in 1..Len(d) |-> OriginStep(d, g, p) ]
  BY <1>1, OriginExists
<1>3. OriginOf(d) = [ p \in 1..Len(d) |-> OriginStep(d, OriginOf(d), p) ]
  BY <1>1, <1>2 DEF OriginOf
<1> HIDE DEF OriginOf
<1> QED BY <1>3

(* One more byte changes nothing about the others. *)
LEMMA OriginGrows ==
  ASSUME NEW d \in Seq(Nat), ReachesBack(d), NEW v \in 0..Len(d)
  PROVE  /\ ReachesBack(Append(d, v))
         /\ \A p \in 1..Len(d) : OriginOf(Append(d, v))[p] = OriginOf(d)[p]
<1> DEFINE e == Append(d, v)
           n == Len(d)
           F == OriginOf(d)
           G == OriginOf(e)
           T == { k \in Nat : \A p \in 1..k : p <= n => G[p] = F[p] }
<1>1. n \in Nat /\ v \in Nat
  BY LenProperties
<1>2. e \in Seq(Nat) /\ Len(e) = n + 1 /\ e[n + 1] = v /\ \A p \in 1..n : e[p] = d[p]
  BY <1>1, AppendProperties
<1> HIDE DEF e, n
<1>3. ReachesBack(e)
  <2>1. \A p \in 1..n : d[p] \in 0..(p - 1)
    BY DEF ReachesBack, n
  <2>2. v \in 0..((n + 1) - 1)
    BY <1>1 DEF n
  <2>3. ASSUME NEW p \in 1..(n + 1) PROVE e[p] \in 0..(p - 1)
    <3>1. p \in 1..n \/ p = n + 1
      BY <1>1
    <3> QED BY <3>1, <1>2, <2>1, <2>2
  <2> QED BY <1>2, <2>3 DEF ReachesBack
<1>4. \A p \in 1..n : F[p] = OriginStep(d, F, p) /\ d[p] \in 0..(p - 1)
  BY OriginSteps DEF ReachesBack, n
<1>5. \A p \in 1..(n + 1) : G[p] = OriginStep(e, G, p)
  BY <1>2, <1>3, OriginSteps
<1> HIDE DEF F, G
<1>6. 0 \in T
  OBVIOUS
<1>7. ASSUME NEW k \in T PROVE k + 1 \in T
  <2>1. k \in Nat /\ \A p \in 1..k : p <= n => G[p] = F[p]
    OBVIOUS
  <2>2. ASSUME k + 1 <= n PROVE G[k + 1] = F[k + 1]
    <3>1. k + 1 \in 1..n /\ k + 1 \in 1..(n + 1)
      BY <1>1, <2>1, <2>2
    <3>2. /\ F[k + 1] = OriginStep(d, F, k + 1) /\ d[k + 1] \in 0..((k + 1) - 1)
          /\ G[k + 1] = OriginStep(e, G, k + 1) /\ e[k + 1] = d[k + 1]
      BY <1>2, <1>4, <1>5, <3>1
    <3>3. CASE d[k + 1] = 0
      BY <3>2, <3>3 DEF OriginStep
    <3>4. CASE d[k + 1] # 0
      <4>1. (k + 1) - d[k + 1] \in 1..k /\ (k + 1) - d[k + 1] <= n
        BY <1>1, <2>1, <2>2, <3>2, <3>4
      <4>2. G[(k + 1) - d[k + 1]] = F[(k + 1) - d[k + 1]]
        BY <2>1, <4>1
      <4> QED BY <3>2, <3>4, <4>2 DEF OriginStep
    <3> QED BY <3>3, <3>4
  <2>3. \A p \in 1..(k + 1) : p \in 1..k \/ p = k + 1
    BY <2>1
  <2>4. \A p \in 1..(k + 1) : p <= n => G[p] = F[p]
    BY <2>1, <2>2, <2>3
  <2> QED BY <2>1, <2>4
<1>8. n \in T
  <2> HIDE DEF T
  <2>1. T \in SUBSET Nat
    BY DEF T
  <2>2. T = Nat
    BY <1>6, <1>7, <2>1, NatInduct
  <2> QED BY <1>1, <2>2
<1>9. \A p \in 1..n : G[p] = F[p]
  BY <1>1, <1>8
<1> QED BY <1>3, <1>9 DEF e, n, F, G

\* The ring holds all that a page's first byte may copy, and the page.
RingHoldsPage == MaxDist + Page <= Ring

\* The page is what was decoded since the snapshot.
Paged ==
  /\ pc = "wait" => page = <<>> /\ pos = base
  /\ pc = "inflate" => /\ pos = base + Len(page)
                       /\ \A j \in 1..Len(page) : page[j] = Origin[base + j]
  /\ pc = "done" => pos = Len(dist)

\* The pages before it are the output.
Drained ==
  /\ Len(drained) = IF pc = "done" THEN Len(dist) ELSE base
  /\ \A i \in 1..Len(drained) : drained[i] = Origin[i]

\* The bytes that count are those before the snapshot, and behind it those of
\* an attempt that has not starved.
Behind == IF pc = "inflate" THEN pos ELSE base

\* The places of the ring that no attempt at this page can have reached hold
\* the bytes before the snapshot.
RingKept ==
  pc # "done" => \A j \in Nat : base + Page - Ring <= j /\ j < Behind =>
                                  ring[j % Ring] = Origin[j + 1]

ReplayInv == TypeOK /\ ReachesBack(dist) /\ Paged /\ Drained /\ RingKept

LEMMA ReplayShape ==
  TypeOK => /\ dist \in Seq(Nat) /\ Len(dist) \in Nat /\ base \in Nat /\ pos \in Nat
            /\ Len(page) \in Nat /\ Len(drained) \in Nat
            /\ Ring \in Nat \ {0} /\ Page \in Nat \ {0} /\ MaxDist \in Nat
<1> SUFFICES ASSUME TypeOK
             PROVE  /\ dist \in Seq(Nat) /\ Len(dist) \in Nat /\ base \in Nat /\ pos \in Nat
                    /\ Len(page) \in Nat /\ Len(drained) \in Nat
                    /\ Ring \in Nat \ {0} /\ Page \in Nat \ {0} /\ MaxDist \in Nat
  OBVIOUS
<1>1. Ring \in Nat \ {0} /\ Page \in Nat \ {0} /\ MaxDist \in Nat
  BY InflateAssumption
<1>2. dist \in Seq(0..MaxDist) /\ 0..MaxDist \subseteq Nat
  BY <1>1 DEF TypeOK
<1>3. dist \in Seq(Nat) /\ Len(dist) \in Nat
  BY <1>2, SeqMonotonic, LenProperties
<1>4. pos \in Nat /\ base \in Nat
  BY <1>3 DEF TypeOK
<1>5. Len(page) \in Nat /\ Len(drained) \in Nat
  BY LenProperties DEF TypeOK
<1> QED BY <1>1, <1>3, <1>4, <1>5

LEMMA ReplayInit == Init => ReplayInv
<1> SUFFICES ASSUME Init PROVE ReplayInv
  OBVIOUS
<1>1. TypeOK
  <2>1. ring \in [0..(Ring - 1) -> Byte]
    BY DEF Init, Byte
  <2>2. Page \in Nat /\ MaxLen \in Nat
    BY InflateAssumption
  <2>3. /\ dist \in Seq(0..MaxDist) /\ page \in Seq(Byte) /\ drained \in Seq(Byte)
        /\ Len(dist) = 0 /\ Len(page) = 0
    BY DEF Init
  <2>6. ended \in BOOLEAN
    BY Zenon DEF Init
  <2>4. /\ avail \in 0..(MaxLen + 1) /\ base \in 0..pos /\ pos \in 0..Len(dist) /\ pos <= avail
        /\ Len(page) <= Page
    BY <2>2, <2>3 DEF Init
  <2>5. pc \in {"wait", "inflate", "phantom", "done"}
    BY DEF Init
  <2> QED BY <2>1, <2>3, <2>4, <2>5, <2>6 DEF TypeOK
<1>2. ReachesBack(dist)
  BY DEF Init, ReachesBack
<1>3. Paged
  BY DEF Init, Paged
<1>4. Drained
  BY DEF Init, Drained
<1>5. RingKept
  BY DEF Init, RingKept, Behind
<1> QED BY <1>1, <1>2, <1>3, <1>4, <1>5 DEF ReplayInv

(* The byte that is put goes to a place no earlier byte that counts is in. *)
LEMMA PutKeeps ==
  ASSUME TypeOK, NEW c \in Byte, Put(c), Room, NEW j \in Nat,
         base + Page - Ring <= j, j < base + Len(page)
  PROVE  ring'[j % Ring] = ring[j % Ring]
<1>1. /\ base \in Nat /\ Len(page) \in Nat /\ Len(page) < Page
      /\ Ring \in Nat \ {0} /\ Page \in Nat
  BY ReplayShape DEF Room
<1> DEFINE k == base + Len(page)
<1>2. k \in Nat /\ j < k /\ j < k + Ring /\ k < j + Ring
  BY <1>1
<1> HIDE DEF k
<1>3. j % Ring # k % Ring
  BY <1>1, <1>2, PlacesApart
<1>5. j % Ring \in 0..(Ring - 1)
  BY <1>1, SMT
<1>4. ring' = [ring EXCEPT ![k % Ring] = c] /\ ring \in [0..(Ring - 1) -> Byte]
  BY DEF Put, k, TypeOK
<1> QED BY <1>3, <1>4, <1>5

(* ... and stays there. *)
LEMMA PutPuts ==
  ASSUME TypeOK, NEW c \in Byte, Put(c), Room
  PROVE  /\ ring' \in [0..(Ring - 1) -> Byte]
         /\ ring'[(base + Len(page)) % Ring] = c
         /\ page' \in Seq(Byte) /\ Len(page') = Len(page) + 1 /\ Len(page') <= Page
         /\ page'[Len(page) + 1] = c /\ \A i \in 1..Len(page) : page'[i] = page[i]
<1>1. /\ base \in Nat /\ Len(page) \in Nat /\ Len(page) < Page /\ page \in Seq(Byte)
      /\ Ring \in Nat \ {0} /\ Page \in Nat /\ ring \in [0..(Ring - 1) -> Byte]
  BY ReplayShape DEF Room, TypeOK
<1> DEFINE k == base + Len(page)
<1>2. k % Ring \in 0..(Ring - 1)
  <2>1. k \in Int
    BY <1>1
  <2> HIDE DEF k
  <2> QED BY <1>1, <2>1, ModRange
<1>3. ring' = [ring EXCEPT ![k % Ring] = c]
  BY DEF Put
<1> HIDE DEF k
<1>4. ring' \in [0..(Ring - 1) -> Byte] /\ ring'[k % Ring] = c
  BY <1>1, <1>2, <1>3
<1>5. page' = Append(page, c)
  BY DEF Put
<1>6. /\ page' \in Seq(Byte) /\ Len(page') = Len(page) + 1
      /\ page'[Len(page) + 1] = c /\ \A i \in 1..Len(page) : page'[i] = page[i]
  BY <1>1, <1>5, AppendProperties
<1> QED BY <1>1, <1>4, <1>6 DEF k

(* A distance reaches a place of the ring that was kept: what is decoded   *)
(* is what the stream means.                                               *)
LEMMA DecodesOrigin ==
  ASSUME RingHoldsPage, ReplayInv, pc = "inflate", Room,
         NEW d \in 0..MaxDist, d <= pos
  PROVE  /\ Decoded(d) \in Byte
         /\ Decoded(d) = IF d = 0 THEN pos ELSE Origin[(pos + 1) - d]
<1>1. /\ TypeOK /\ base \in Nat /\ pos \in Nat /\ Len(page) \in Nat /\ base <= pos
      /\ Ring \in Nat \ {0} /\ Page \in Nat /\ MaxDist \in Nat /\ d \in Nat
  BY ReplayShape DEF ReplayInv, TypeOK
<1>2. ring \in [0..(Ring - 1) -> Byte]
  BY DEF ReplayInv, TypeOK
<1>3. CASE d = 0
  BY <1>1, <1>3 DEF Decoded, Byte
<1>4. CASE d # 0
  <2> DEFINE j == pos - d
  <2>1. j \in Nat /\ j < pos /\ base + Page - Ring <= j /\ j + 1 = (pos + 1) - d
    BY <1>1, <1>4 DEF RingHoldsPage
  <2>2. j % Ring \in 0..(Ring - 1)
    BY <1>1, <2>1, ModRange
  <2>3. Decoded(d) = ring[j % Ring]
    BY <1>4 DEF Decoded
  <2> HIDE DEF j
  <2>4. ring[j % Ring] = Origin[j + 1]
    BY <2>1 DEF ReplayInv, RingKept, Behind
  <2>5. ring[j % Ring] \in Byte
    BY <1>2, <2>2
  <2> QED BY <1>4, <2>1, <2>3, <2>4, <2>5
<1> QED BY <1>3, <1>4

(***************************************************************************)
(* The replay, step by step.                                               *)
(***************************************************************************)

LEMMA ArriveStep == ReplayInv /\ Arrive => ReplayInv'
<1> SUFFICES ASSUME ReplayInv, Arrive PROVE ReplayInv'
  OBVIOUS
<1>1. /\ pc' = "inflate" /\ pc = "wait" /\ dist' = dist /\ ended' = ended /\ base' = base
      /\ pos' = pos /\ ring' = ring /\ page' = page /\ drained' = drained
      /\ avail' \in (avail + 1)..(MaxLen + 1)
  BY DEF Arrive, uz
<1>2. page = <<>> /\ pos = base
  BY <1>1 DEF ReplayInv, Paged
<1>3. TypeOK'
  <2>1. TypeOK /\ pos \in Nat /\ MaxLen \in Nat
    BY ReplayShape, InflateAssumption DEF ReplayInv
  <2>2. avail' \in 0..(MaxLen + 1) /\ pos <= avail'
    BY <1>1, <2>1 DEF TypeOK
  <2> QED BY <1>1, <2>1, <2>2 DEF TypeOK
<1>4. Origin' = Origin
  BY <1>1, OriginIs
<1>5. Paged'
  <2>1. base \in Nat
    BY ReplayShape DEF ReplayInv
  <2> QED BY <1>1, <1>2, <2>1 DEF Paged
<1>6. Drained'
  BY <1>1, <1>4 DEF ReplayInv, Drained
<1>7. RingKept'
  BY <1>1, <1>2, <1>4 DEF ReplayInv, RingKept, Behind
<1>8. ReachesBack(dist)'
  BY <1>1 DEF ReplayInv
<1> QED BY <1>3, <1>5, <1>6, <1>7, <1>8 DEF ReplayInv

LEMMA DrainStep == ReplayInv /\ Drain => ReplayInv'
<1> SUFFICES ASSUME ReplayInv, Drain PROVE ReplayInv'
  OBVIOUS
<1>1. /\ pc' = "inflate" /\ pc = "inflate" /\ dist' = dist /\ ended' = ended /\ avail' = avail
      /\ pos' = pos /\ ring' = ring /\ page' = <<>> /\ base' = pos
      /\ drained' = drained \o page /\ ~Room
  BY DEF Drain, stream
<1>2. /\ TypeOK /\ pos \in Nat /\ base \in Nat /\ Len(page) \in Nat /\ Len(drained) \in Nat
      /\ page \in Seq(Byte) /\ drained \in Seq(Byte) /\ Page \in Nat /\ Len(page) <= Page
      /\ Ring \in Nat
  BY ReplayShape DEF ReplayInv, TypeOK
<1>3. /\ pos = base + Len(page) /\ Len(page) = Page
      /\ \A j \in 1..Len(page) : page[j] = Origin[base + j]
      /\ Len(drained) = base /\ \A i \in 1..Len(drained) : drained[i] = Origin[i]
  BY <1>1, <1>2 DEF ReplayInv, Paged, Drained, Room
<1>4. Origin' = Origin
  BY <1>1, OriginIs
<1>5. /\ drained \o page \in Seq(Byte) /\ Len(drained \o page) = pos
      /\ \A i \in 1..pos : (drained \o page)[i] =
                              IF i <= base THEN drained[i] ELSE page[i - base]
  BY <1>2, <1>3, ConcatProperties, Zenon
<1>6. TypeOK'
  <2>1. Len(<<>>) <= Page /\ <<>> \in Seq(Byte) /\ pos \in 0..pos
    BY <1>2
  <2> QED BY <1>1, <1>2, <1>5, <2>1 DEF TypeOK
<1>7. Paged'
  BY <1>1, <1>2 DEF Paged
<1>8. Drained'
  <2>1. ASSUME NEW i \in 1..pos PROVE (drained \o page)[i] = Origin[i]
    <3>1. CASE i <= base
      BY <3>1, <1>2, <1>3, <1>5
    <3>2. CASE ~(i <= base)
      <4>1. i - base \in 1..Len(page) /\ base + (i - base) = i
        BY <3>2, <1>2, <1>3
      <4> QED BY <3>2, <4>1, <1>3, <1>5
    <3> QED BY <3>1, <3>2
  <2> QED BY <1>1, <1>4, <1>5, <2>1 DEF Drained
<1>9. RingKept'
  <2> SUFFICES ASSUME NEW j \in Nat, pos + Page - Ring <= j, j < pos
               PROVE  ring[j % Ring] = Origin[j + 1]
    BY <1>1, <1>4 DEF RingKept, Behind
  <2>1. base + Page - Ring <= j
    BY <1>2, <1>3
  <2> QED BY <2>1, <1>1 DEF ReplayInv, RingKept, Behind
<1>10. ReachesBack(dist)'
  BY <1>1 DEF ReplayInv
<1> QED BY <1>6, <1>7, <1>8, <1>9, <1>10 DEF ReplayInv

LEMMA DoneStep == ReplayInv /\ Done => ReplayInv'
<1> SUFFICES ASSUME ReplayInv, Done PROVE ReplayInv'
  OBVIOUS
<1>1. /\ pc' = "done" /\ pc = "inflate" /\ dist' = dist /\ avail' = avail
      /\ pos' = pos /\ ring' = ring /\ page' = <<>> /\ base' = base /\ ended' = TRUE
      /\ drained' = drained \o page /\ pos = Len(dist)
  BY DEF Done
<1>2. /\ TypeOK /\ pos \in Nat /\ base \in Nat /\ Len(page) \in Nat /\ Len(drained) \in Nat
      /\ page \in Seq(Byte) /\ drained \in Seq(Byte) /\ Page \in Nat
  BY ReplayShape DEF ReplayInv, TypeOK
<1>3. /\ pos = base + Len(page)
      /\ \A j \in 1..Len(page) : page[j] = Origin[base + j]
      /\ Len(drained) = base /\ \A i \in 1..Len(drained) : drained[i] = Origin[i]
  BY <1>1, <1>2 DEF ReplayInv, Paged, Drained
<1>4. Origin' = Origin
  BY <1>1, OriginIs
<1>5. /\ drained \o page \in Seq(Byte) /\ Len(drained \o page) = pos
      /\ \A i \in 1..pos : (drained \o page)[i] =
                              IF i <= base THEN drained[i] ELSE page[i - base]
  BY <1>2, <1>3, ConcatProperties, Zenon
<1>6. TypeOK'
  <2>1. Len(<<>>) <= Page /\ <<>> \in Seq(Byte)
    BY <1>2
  <2>2. ended' \in BOOLEAN
    BY <1>1, Zenon
  <2> QED BY <1>1, <1>2, <1>5, <2>1, <2>2 DEF TypeOK
<1>7. Paged'
  BY <1>1 DEF Paged
<1>8. Drained'
  <2>1. ASSUME NEW i \in 1..pos PROVE (drained \o page)[i] = Origin[i]
    <3>1. CASE i <= base
      BY <3>1, <1>2, <1>3, <1>5
    <3>2. CASE ~(i <= base)
      <4>1. i - base \in 1..Len(page) /\ base + (i - base) = i
        BY <3>2, <1>2, <1>3
      <4> QED BY <3>2, <4>1, <1>3, <1>5
    <3> QED BY <3>1, <3>2
  <2> QED BY <1>1, <1>4, <1>5, <2>1 DEF Drained
<1>9. RingKept'
  BY <1>1 DEF RingKept
<1>10. ReachesBack(dist)'
  BY <1>1 DEF ReplayInv
<1> QED BY <1>6, <1>7, <1>8, <1>9, <1>10 DEF ReplayInv

LEMMA StarveStep == ReplayInv /\ Starve => ReplayInv'
<1> SUFFICES ASSUME ReplayInv, Starve PROVE ReplayInv'
  OBVIOUS
<1>1. /\ pc' = "phantom" /\ pc = "inflate" /\ dist' = dist /\ avail' = avail /\ ended' = ended
      /\ pos' = pos /\ ring' = ring /\ page' = page /\ base' = base /\ drained' = drained
  BY DEF Starve, stream, uz
<1>2. Origin' = Origin
  BY <1>1, OriginIs
<1>3. TypeOK'
  BY <1>1 DEF ReplayInv, TypeOK
<1>4. Paged' /\ Drained'
  BY <1>1, <1>2 DEF ReplayInv, Paged, Drained
<1>5. RingKept'
  <2>1. base <= pos /\ base \in Nat /\ pos \in Nat
    BY ReplayShape DEF ReplayInv, TypeOK
  <2> QED BY <2>1, <1>1, <1>2 DEF ReplayInv, RingKept, Behind
<1>6. ReachesBack(dist)'
  BY <1>1 DEF ReplayInv
<1> QED BY <1>3, <1>4, <1>5, <1>6 DEF ReplayInv

LEMMA PhantomStep == ReplayInv /\ Phantom => ReplayInv'
<1> SUFFICES ASSUME ReplayInv, Phantom PROVE ReplayInv'
  OBVIOUS
<1>1. /\ pc' = "phantom" /\ pc = "phantom" /\ dist' = dist /\ avail' = avail /\ ended' = ended
      /\ pos' = pos /\ base' = base /\ drained' = drained /\ Put(Garbage) /\ Room
  BY DEF Phantom, stream
<1>2. Origin' = Origin
  BY <1>1, OriginIs
<1>3. TypeOK /\ Garbage \in Byte
  BY DEF ReplayInv, Byte
<1>4. TypeOK'
  <2>1. /\ ring' \in [0..(Ring - 1) -> Byte] /\ page' \in Seq(Byte) /\ Len(page') <= Page
    BY <1>1, <1>3, PutPuts
  <2> QED BY <1>1, <1>3, <2>1 DEF TypeOK
<1>5. Paged' /\ Drained'
  BY <1>1, <1>2 DEF ReplayInv, Paged, Drained
<1>6. RingKept'
  <2> SUFFICES ASSUME NEW j \in Nat, base + Page - Ring <= j, j < base
               PROVE  ring'[j % Ring] = Origin[j + 1]
    BY <1>1, <1>2 DEF RingKept, Behind
  <2>1. j < base + Len(page)
    BY <1>3, ReplayShape
  <2>2. ring'[j % Ring] = ring[j % Ring]
    BY <1>1, <1>3, <2>1, PutKeeps
  <2>3. ring[j % Ring] = Origin[j + 1]
    BY <1>1 DEF ReplayInv, RingKept, Behind
  <2> QED BY <2>2, <2>3
<1>7. ReachesBack(dist)'
  BY <1>1 DEF ReplayInv
<1> QED BY <1>4, <1>5, <1>6, <1>7 DEF ReplayInv

LEMMA RollBackStep == ReplayInv /\ RollBack => ReplayInv'
<1> SUFFICES ASSUME ReplayInv, RollBack PROVE ReplayInv'
  OBVIOUS
<1>1. /\ pc' = "wait" /\ pc = "phantom" /\ dist' = dist /\ avail' = avail /\ ended' = ended
      /\ pos' = base /\ page' = <<>> /\ base' = base /\ ring' = ring /\ drained' = drained
  BY DEF RollBack, RolledBack, stream
<1>2. Origin' = Origin
  BY <1>1, OriginIs
<1>3. TypeOK'
  <2>1. /\ TypeOK /\ base \in Nat /\ pos \in Nat /\ Len(dist) \in Nat /\ Page \in Nat
    BY ReplayShape DEF ReplayInv
  <2>2. MaxLen \in Nat
    BY InflateAssumption
  <2>3. base \in 0..base /\ base \in 0..Len(dist) /\ base <= avail
    BY <2>1, <2>2 DEF TypeOK
  <2>4. Len(<<>>) <= Page /\ <<>> \in Seq(Byte)
    BY <2>1
  <2> QED BY <1>1, <2>1, <2>3, <2>4 DEF TypeOK
<1>4. Paged' /\ Drained'
  BY <1>1, <1>2 DEF ReplayInv, Paged, Drained
<1>5. RingKept'
  BY <1>1, <1>2 DEF ReplayInv, RingKept, Behind
<1>6. ReachesBack(dist)'
  BY <1>1 DEF ReplayInv
<1> QED BY <1>3, <1>4, <1>5, <1>6 DEF ReplayInv

(* The stream a byte is decoded from goes on where it is not decided on.   *)
LEMMA DecodesNext ==
  ASSUME ReplayInv, Decode
  PROVE  /\ dist' \in Seq(0..MaxDist) /\ Len(dist') \in Nat /\ pos + 1 \in 1..Len(dist')
         /\ ReachesBack(dist') /\ Len(dist) <= Len(dist')
         /\ \A p \in 1..Len(dist) : OriginOf(dist')[p] = OriginOf(dist)[p]
         /\ ended' = ended
<1>1. /\ TypeOK /\ dist \in Seq(Nat) /\ Len(dist) \in Nat /\ pos \in Nat /\ MaxDist \in Nat
      /\ dist \in Seq(0..MaxDist) /\ pos <= Len(dist) /\ ReachesBack(dist)
  BY ReplayShape DEF ReplayInv, TypeOK
<1>2. CASE pos < Len(dist)
  <2>1. dist' = dist /\ ended' = ended
    BY <1>2 DEF Decode
  <2>2. pos + 1 \in 1..Len(dist) /\ Len(dist) <= Len(dist)
    BY <1>1, <1>2
  <2> QED BY <1>1, <2>1, <2>2
<1>3. CASE ~(pos < Len(dist))
  <2>1. PICK d \in 0..(IF pos < MaxDist THEN pos ELSE MaxDist) : dist' = Append(dist, d)
    BY <1>3 DEF Decode
  <2>2. d \in 0..MaxDist /\ d \in 0..Len(dist) /\ pos = Len(dist)
    BY <1>1, <1>3, <2>1
  <2>3. dist' \in Seq(0..MaxDist) /\ Len(dist') = Len(dist) + 1
    BY <1>1, <2>1, <2>2, AppendProperties
  <2>4. /\ ReachesBack(dist')
        /\ \A p \in 1..Len(dist) : OriginOf(dist')[p] = OriginOf(dist)[p]
    BY <1>1, <2>1, <2>2, OriginGrows
  <2>5. ended' = ended
    BY <1>3 DEF Decode
  <2>6. Len(dist') \in Nat /\ pos + 1 \in 1..Len(dist') /\ Len(dist) <= Len(dist')
    BY <1>1, <2>2, <2>3
  <2> QED BY <2>3, <2>4, <2>5, <2>6
<1> QED BY <1>2, <1>3

LEMMA DecodeStep == RingHoldsPage /\ ReplayInv /\ Decode => ReplayInv'
<1> SUFFICES ASSUME RingHoldsPage, ReplayInv, Decode PROVE ReplayInv'
  OBVIOUS
<1> DEFINE v == dist'[pos + 1]
           c == Decoded(v)
           n == Len(page)
<1>1. /\ pc' = "inflate" /\ pc = "inflate" /\ avail' = avail /\ pos' = pos + 1
      /\ base' = base /\ drained' = drained /\ pos < avail /\ Room /\ Put(c)
  BY DEF Decode
<1>2. /\ TypeOK /\ pos \in Nat /\ base \in Nat /\ n \in Nat /\ Len(dist) \in Nat
      /\ Ring \in Nat \ {0} /\ Page \in Nat /\ MaxDist \in Nat /\ pos <= Len(dist)
      /\ Len(drained) \in Nat
  BY ReplayShape DEF ReplayInv, TypeOK
<1>3. /\ dist' \in Seq(0..MaxDist) /\ Len(dist') \in Nat /\ pos + 1 \in 1..Len(dist')
      /\ ReachesBack(dist') /\ Len(dist) <= Len(dist')
      /\ \A p \in 1..Len(dist) : Origin'[p] = Origin[p]
      /\ ended' = ended
  BY DecodesNext, OriginIs
<1>4. v \in 0..MaxDist /\ v \in 0..pos
  <2>1. v \in 0..MaxDist
    BY <1>3, ElementOfSeq
  <2>2. v \in 0..((pos + 1) - 1)
    BY <1>3 DEF ReachesBack
  <2> HIDE DEF v
  <2> QED BY <1>2, <2>1, <2>2
<1>5. Origin'[pos + 1] = IF v = 0 THEN pos ELSE Origin'[(pos + 1) - v]
  <2> DEFINE X == 0..MaxDist
             e == dist'
             k == pos + 1
  <2>1. e \in Seq(Nat)
    <3>1. X \subseteq Nat /\ e \in Seq(X)
      BY <1>2, <1>3
    <3> HIDE DEF X, e
    <3> QED BY <3>1, SeqMonotonic
  <2>2. ReachesBack(e) /\ k \in 1..Len(e) /\ k - 1 = pos
    BY <1>2, <1>3
  <2> HIDE DEF e, k
  <2>3. OriginOf(e)[k] = OriginStep(e, OriginOf(e), k)
    BY <2>1, <2>2, OriginSteps
  <2> QED BY <2>2, <2>3, OriginIs DEF OriginStep, e, k
<1> HIDE DEF v
<1>6. c \in Byte /\ c = IF v = 0 THEN pos ELSE Origin[(pos + 1) - v]
  <2>1. v <= pos
    BY <1>2, <1>4
  <2> QED BY <1>1, <1>4, <2>1, DecodesOrigin
<1> HIDE DEF c
<1>7. c = Origin'[pos + 1]
  <2>1. CASE v = 0
    BY <2>1, <1>5, <1>6
  <2>2. CASE v # 0
    <3>1. (pos + 1) - v \in 1..Len(dist)
      BY <2>2, <1>2, <1>4
    <3> QED BY <2>2, <3>1, <1>3, <1>5, <1>6
  <2> QED BY <2>1, <2>2
<1>8. /\ ring' \in [0..(Ring - 1) -> Byte] /\ ring'[(base + n) % Ring] = c
      /\ page' \in Seq(Byte) /\ Len(page') = n + 1 /\ Len(page') <= Page
      /\ page'[n + 1] = c /\ \A i \in 1..n : page'[i] = page[i]
  BY <1>1, <1>2, <1>6, PutPuts
<1>9. /\ pos = base + n /\ \A j \in 1..n : page[j] = Origin[base + j]
      /\ Len(drained) = base /\ \A i \in 1..Len(drained) : drained[i] = Origin[i]
  BY <1>1 DEF ReplayInv, Paged, Drained
<1> HIDE DEF n
<1>10. TypeOK'
  <2>1. pos + 1 \in 0..Len(dist') /\ base \in 0..(pos + 1)
    BY <1>2, <1>3, <1>9
  <2>2. pos + 1 <= avail
    BY <1>1, <1>2, InflateAssumption DEF TypeOK
  <2> QED BY <1>1, <1>2, <1>3, <1>8, <2>1, <2>2 DEF TypeOK
<1>11. Paged'
  <2>1. ASSUME NEW j \in 1..(n + 1) PROVE page'[j] = Origin'[base + j]
    <3>1. CASE j = n + 1
      <4>1. base + j = pos + 1
        BY <3>1, <1>2, <1>9
      <4> QED BY <3>1, <4>1, <1>7, <1>8
    <3>2. CASE j # n + 1
      <4>1. j \in 1..n /\ base + j \in 1..Len(dist)
        BY <3>2, <1>2, <1>9
      <4> QED BY <4>1, <1>3, <1>8, <1>9
    <3> QED BY <3>1, <3>2
  <2>2. pos + 1 = base + (n + 1)
    BY <1>2, <1>9
  <2> QED BY <1>1, <1>8, <2>1, <2>2 DEF Paged
<1>12. Drained'
  <2>1. ASSUME NEW i \in 1..Len(drained) PROVE drained[i] = Origin'[i]
    <3>1. i \in 1..Len(dist)
      BY <1>2, <1>9
    <3> QED BY <3>1, <1>3, <1>9
  <2> QED BY <1>1, <1>9, <2>1 DEF Drained
<1>13. RingKept'
  <2> SUFFICES ASSUME NEW j \in Nat, base + Page - Ring <= j, j < pos + 1
               PROVE  ring'[j % Ring] = Origin'[j + 1]
    BY <1>1 DEF RingKept, Behind
  <2>1. CASE j = pos
    BY <2>1, <1>7, <1>8, <1>9
  <2>2. CASE j # pos
    <3>1. j < pos /\ j < base + Len(page) /\ j + 1 \in 1..Len(dist)
      BY <2>2, <1>2, <1>9 DEF n
    <3>2. ring'[j % Ring] = ring[j % Ring]
      BY <3>1, <1>1, <1>2, <1>6, PutKeeps
    <3>3. ring[j % Ring] = Origin[j + 1]
      BY <3>1, <1>1 DEF ReplayInv, RingKept, Behind
    <3> QED BY <3>1, <3>2, <3>3, <1>3
  <2> QED BY <2>1, <2>2
<1>14. ReachesBack(dist)'
  BY <1>3
<1> QED BY <1>10, <1>11, <1>12, <1>13, <1>14 DEF ReplayInv

LEMMA ReplayInvariant == RingHoldsPage => (Spec => []ReplayInv)
<1> SUFFICES ASSUME RingHoldsPage PROVE Spec => []ReplayInv
  OBVIOUS
<1>1. ReplayInv /\ [Next \/ Stopped]_vars => ReplayInv'
  <2> SUFFICES ASSUME ReplayInv, [Next \/ Stopped]_vars PROVE ReplayInv'
    OBVIOUS
  <2>1. CASE Next
    BY <2>1, ArriveStep, DecodeStep, DrainStep, DoneStep, StarveStep, PhantomStep,
       RollBackStep DEF Next
  <2>2. CASE UNCHANGED vars
    <3>1. /\ pc' = pc /\ dist' = dist /\ avail' = avail /\ ended' = ended
          /\ pos' = pos /\ page' = page /\ base' = base /\ ring' = ring /\ drained' = drained
      BY <2>2 DEF vars, stream, uz
    <3>2. Origin' = Origin
      BY <3>1, OriginIs
    <3>3. TypeOK' /\ Paged' /\ Drained' /\ ReachesBack(dist)'
      BY <3>1, <3>2 DEF ReplayInv, TypeOK, Paged, Drained
    <3>4. RingKept'
      BY <3>1, <3>2 DEF ReplayInv, RingKept, Behind
    <3> QED BY <3>3, <3>4 DEF ReplayInv
  <2> QED BY <2>1, <2>2 DEF Stopped
<1> QED BY <1>1, ReplayInit, PTL DEF Spec

LEMMA TypeStep == TypeOK /\ [Next \/ Stopped]_vars => TypeOK'
<1> SUFFICES ASSUME TypeOK, [Next \/ Stopped]_vars PROVE TypeOK'
  OBVIOUS
<1>0. /\ Len(dist) \in Nat /\ base \in Nat /\ pos \in Nat /\ Len(page) \in Nat
      /\ Len(drained) \in Nat /\ Ring \in Nat \ {0} /\ Page \in Nat /\ MaxDist \in Nat
      /\ MaxLen \in Nat /\ pos <= Len(dist) /\ base <= pos
      /\ page \in Seq(Byte) /\ drained \in Seq(Byte) /\ drained \o page \in Seq(Byte)
      /\ Len(<<>>) <= Page /\ <<>> \in Seq(Byte)
  BY ReplayShape, InflateAssumption, ConcatProperties DEF TypeOK
<1>1. CASE Arrive
  <2>1. avail' \in 0..(MaxLen + 1) /\ pos <= avail'
    BY <1>0, <1>1 DEF TypeOK, Arrive
  <2> QED BY <1>1, <2>1 DEF TypeOK, Arrive, uz
<1>2. CASE Decode
  <2> DEFINE v == dist'[pos + 1]
             c == Decoded(v)
  <2>1. /\ pc' = "inflate" /\ avail' = avail /\ pos' = pos + 1 /\ base' = base
        /\ drained' = drained /\ pos < avail /\ Room /\ Put(c)
    BY <1>2 DEF Decode
  <2>2. /\ dist' \in Seq(0..MaxDist) /\ pos + 1 \in 0..Len(dist') /\ pos + 1 \in 1..Len(dist')
        /\ ended' = ended
    <3>1. CASE pos < Len(dist)
      <4>1. dist' = dist /\ ended' = ended
        BY <1>2, <3>1 DEF Decode
      <4> QED BY <1>0, <3>1, <4>1 DEF TypeOK
    <3>2. CASE ~(pos < Len(dist))
      <4>1. PICK d \in 0..(IF pos < MaxDist THEN pos ELSE MaxDist) : dist' = Append(dist, d)
        BY <1>2, <3>2 DEF Decode
      <4>2. d \in 0..MaxDist /\ dist \in Seq(0..MaxDist) /\ pos = Len(dist)
        BY <1>0, <3>2 DEF TypeOK
      <4>3. dist' \in Seq(0..MaxDist) /\ Len(dist') = Len(dist) + 1
        BY <4>1, <4>2, AppendProperties
      <4>4. ended' = ended
        BY <1>2, <3>2 DEF Decode
      <4> QED BY <1>0, <4>2, <4>3, <4>4
    <3> QED BY <3>1, <3>2
  <2>3. v \in 0..MaxDist
    BY <2>2, ElementOfSeq
  <2> HIDE DEF v
  <2>4. c \in Byte
    <3>1. CASE v = 0
      BY <1>0, <3>1 DEF Decoded, Byte
    <3>2. CASE v # 0
      <4> DEFINE k == (pos - v) % Ring
      <4>1. k \in 0..(Ring - 1)
        BY <1>0, <2>3, SMT
      <4>2. c = ring[k]
        BY <3>2 DEF Decoded
      <4> HIDE DEF k, c
      <4> QED BY <4>1, <4>2 DEF TypeOK
    <3> QED BY <3>1, <3>2
  <2> HIDE DEF c
  <2>5. /\ ring' \in [0..(Ring - 1) -> Byte] /\ page' \in Seq(Byte) /\ Len(page') <= Page
    BY <2>1, <2>4, PutPuts
  <2>6. base \in 0..(pos + 1)
    BY <1>0
  <2>7. pos + 1 <= avail
    BY <1>0, <2>1 DEF TypeOK
  <2> QED BY <2>1, <2>2, <2>5, <2>6, <2>7 DEF TypeOK
<1>3. CASE Drain
  <2>1. pos \in 0..pos
    BY <1>0
  <2> QED BY <1>0, <1>3, <2>1 DEF TypeOK, Drain, stream
<1>4. CASE Done
  <2>1. ended' \in BOOLEAN
    BY <1>4, Zenon DEF Done
  <2> QED BY <1>0, <1>4, <2>1 DEF TypeOK, Done
<1>5. CASE Starve
  BY <1>5 DEF TypeOK, Starve, stream, uz
<1>6. CASE Phantom
  <2>1. Garbage \in Byte
    BY DEF Byte
  <2>2. /\ ring' \in [0..(Ring - 1) -> Byte] /\ page' \in Seq(Byte) /\ Len(page') <= Page
    BY <1>6, <2>1, PutPuts DEF Phantom
  <2> QED BY <1>6, <2>2 DEF TypeOK, Phantom, stream
<1>7. CASE RollBack
  <2>1. base \in 0..base /\ base \in 0..Len(dist) /\ base <= avail
    BY <1>0 DEF TypeOK
  <2> QED BY <1>0, <1>7, <2>1 DEF TypeOK, RollBack, RolledBack, stream
<1>8. CASE UNCHANGED vars
  BY <1>8 DEF TypeOK, vars, stream, uz
<1> QED BY <1>1, <1>2, <1>3, <1>4, <1>5, <1>6, <1>7, <1>8 DEF Next, Stopped

(* The decoder's state keeps its type: it is never past its input, and its *)
(* page never past its end.                                                *)
THEOREM ReplayTypeCorrect == Spec => []TypeOK
<1>1. Init => TypeOK
  BY ReplayInit DEF ReplayInv
<1> QED BY <1>1, TypeStep, PTL DEF Spec

(* Wherever the pieces of the body end and however often a page is         *)
(* inflated again, what is drained into the slot is what the stream stands *)
(* for, and all of it, if the ring holds a page beyond the longest         *)
(* distance.                                                               *)
THEOREM OutputCorrect == RingHoldsPage => (Spec => []DrainedRight)
<1>1. ReplayInv => DrainedRight
  <2> SUFFICES ASSUME ReplayInv PROVE DrainedRight
    OBVIOUS
  <2>1. /\ Len(dist) \in Nat /\ Len(drained) \in Nat /\ base \in Nat /\ pos \in Nat
        /\ base <= pos /\ pos <= Len(dist)
        /\ DOMAIN dist = 1..Len(dist) /\ DOMAIN drained = 1..Len(drained)
    BY ReplayShape, LenProperties DEF ReplayInv, TypeOK
  <2>2. /\ Len(drained) = IF pc = "done" THEN Len(dist) ELSE base
        /\ \A i \in 1..Len(drained) : drained[i] = Origin[i]
    BY DEF ReplayInv, Drained
  <2>3. \A i \in 1..Len(drained) : i \in 1..Len(dist)
    BY <2>1, <2>2
  <2> HIDE DEF Origin
  <2> QED BY <2>1, <2>2, <2>3 DEF DrainedRight
<1> QED BY <1>1, ReplayInvariant, PTL

(***************************************************************************)
(* The compressor.  First how long the code of a token is.                 *)
(***************************************************************************)

\* A sequence of n bits, or of anything.
OfLength(b, n) == n \in Nat /\ \E S : b \in Seq(S) /\ Len(b) = n

LEMMA ArrayOfLength ==
  ASSUME NEW n \in Nat, NEW f, f = [ i \in 1..n |-> f[i] ]
  PROVE  OfLength(f, n)
<1> DEFINE S == { f[i] : i \in 1..n }
<1>1. f \in [1..n -> S]
  <2>1. \A i \in 1..n : f[i] \in S
    OBVIOUS
  <2> HIDE DEF S
  <2> QED BY <2>1
<1> HIDE DEF S
<1>2. f \in Seq(S) /\ Len(f) = n
  BY <1>1, TupleIsSeq
<1> QED BY <1>2 DEF OfLength

LEMMA Lengthen ==
  ASSUME NEW a, NEW b, NEW m, NEW n, OfLength(a, m), OfLength(b, n)
  PROVE  OfLength(a \o b, m + n)
<1>1. PICK S : a \in Seq(S) /\ Len(a) = m
  BY DEF OfLength
<1>2. PICK T : b \in Seq(T) /\ Len(b) = n
  BY DEF OfLength
<1> DEFINE U == S \cup T
<1>3. a \in Seq(U)
  <2>1. S \subseteq U
    OBVIOUS
  <2> HIDE DEF U
  <2> QED BY <1>1, <2>1, SeqMonotonic
<1>4. b \in Seq(U)
  <2>1. T \subseteq U
    OBVIOUS
  <2> HIDE DEF U
  <2> QED BY <1>2, <2>1, SeqMonotonic
<1> HIDE DEF U
<1>5. a \o b \in Seq(U) /\ Len(a \o b) = m + n
  BY <1>1, <1>2, <1>3, <1>4, ConcatProperties
<1>6. m + n \in Nat
  BY DEF OfLength
<1> QED BY <1>5, <1>6 DEF OfLength

LEMMA OutBitsLength == ASSUME NEW v, NEW n \in Nat PROVE OfLength(OutBits(v, n), n)
<1>1. OutBits(v, n) = [ i \in 1..n |-> OutBits(v, n)[i] ]
  BY DEF OutBits
<1> QED BY <1>1, ArrayOfLength

LEMMA MirroredLength == ASSUME NEW v, NEW n \in Nat PROVE OfLength(Mirrored(v, n), n)
<1>1. Mirrored(v, n) = [ i \in 1..n |-> Mirrored(v, n)[i] ]
  BY DEF Mirrored
<1> QED BY <1>1, ArrayOfLength

\* The codes that stand for the value v.
In(codes, v) == { k \in DOMAIN codes : codes[k][2] <= v /\ v <= codes[k][3] }

(* The search finds a code that stands for the value, where there is one.  *)
LEMMA CodeFound ==
  ASSUME NEW codes, NEW v, In(codes, v) # {}
  PROVE  CodeOf(codes, v) \in In(codes, v)
<1>1. \E k : k \in In(codes, v)
  OBVIOUS
<1> QED BY <1>1 DEF CodeOf, In

(* The tables leave no length and no distance out.                         *)
LEMMA LengthTable == DOMAIN LenCodes = 1..29
BY DEF LenCodes

LEMMA LengthExtra == ASSUME NEW k \in 1..29 PROVE LenCodes[k][1] \in 0..5
BY DEF LenCodes

LEMMA ShortestLength ==
  /\ LenCodes[1][1] = 0
  /\ \A k \in 2..29 : ~(LenCodes[k][2] <= 3)
BY DEF LenCodes

LEMMA LengthsCovered ==
  ASSUME NEW v \in Nat, 3 <= v, v <= 258 PROVE In(LenCodes, v) # {}
<1>1. \E k \in 1..29 : LenCodes[k][2] <= v /\ v <= LenCodes[k][3]
  BY DEF LenCodes
<1> QED BY <1>1, LengthTable DEF In

LEMMA DistanceTable == DOMAIN DistCodes = 1..30
BY DEF DistCodes

LEMMA DistanceExtra == ASSUME NEW k \in 1..30 PROVE DistCodes[k][1] \in 0..13
BY DEF DistCodes

LEMMA NearCovered ==
  ASSUME NEW v \in Nat, 1 <= v, v <= 256 PROVE In(DistCodes, v) # {}
<1>1. \E k \in 1..30 : DistCodes[k][2] <= v /\ v <= DistCodes[k][3]
  BY DEF DistCodes
<1> QED BY <1>1, DistanceTable DEF In

LEMMA FarCovered ==
  ASSUME NEW v \in Nat, 257 <= v, v <= 32768 PROVE In(DistCodes, v) # {}
<1>1. \E k \in 1..30 : DistCodes[k][2] <= v /\ v <= DistCodes[k][3]
  BY DEF DistCodes
<1> QED BY <1>1, DistanceTable DEF In

LEMMA DistancesCovered ==
  ASSUME NEW v \in Nat, 1 <= v, v <= 32768 PROVE In(DistCodes, v) # {}
<1>1. v <= 256 \/ 257 <= v
  OBVIOUS
<1> QED BY <1>1, NearCovered, FarCovered

(* A literal costs at most nine bits.                                      *)
LEMMA LiteralCost ==
  ASSUME NEW c PROVE \E n \in 0..9 : OfLength(Literal(c), n)
<1>1. OfLength(Mirrored(48 + c, 8), 8) /\ OfLength(Mirrored(c, 8), 8)
  BY MirroredLength
<1>2. OfLength(<<1>>, 1)
  <2>1. <<1>> \in Seq(Nat) /\ Len(<<1>>) = 1
    OBVIOUS
  <2> QED BY <2>1 DEF OfLength
<1>3. OfLength(<<1>> \o Mirrored(c, 8), 1 + 8)
  BY <1>1, <1>2, Lengthen
<1>4. 1 + 8 = 9 /\ 8 \in 0..9 /\ 9 \in 0..9
  OBVIOUS
<1> QED BY <1>1, <1>3, <1>4 DEF Literal

(* A match costs at most nine bits for each byte it stands for: 25 for one *)
(* of three bytes, 31 for any other.                                       *)
LEMMA MatchCost ==
  ASSUME NEW d \in Nat, 1 <= d, d <= 32768, NEW n \in MinMatch..MaxMatch
  PROVE  \E m \in 0..(9 * n) : OfLength(Match(d, n), m)
<1> DEFINE l == CodeOf(LenCodes, n)
           k == CodeOf(DistCodes, d)
           A == LengthCode(l + 256)
           B == Extra(LenCodes[l], n)
           C == Mirrored((k - 1) * 8, 5)
           D == Extra(DistCodes[k], d)
           x == LenCodes[l][1]
           y == DistCodes[k][1]
<1>0. n \in Nat /\ 3 <= n /\ n <= 258
  BY DEF MinMatch, MaxMatch
<1>1. l \in In(LenCodes, n)
  BY <1>0, LengthsCovered, CodeFound
<1>2. k \in In(DistCodes, d)
  BY DistancesCovered, CodeFound
<1> HIDE DEF l, k
<1>3. /\ l \in 1..29 /\ k \in 1..30
      /\ LenCodes[l][2] <= n
  <2>1. l \in DOMAIN LenCodes /\ k \in DOMAIN DistCodes /\ LenCodes[l][2] <= n
    BY <1>1, <1>2 DEF In
  <2> QED BY <2>1, LengthTable, DistanceTable
<1>31. x \in 0..5 /\ y \in 0..13
  BY <1>3, LengthExtra, DistanceExtra
<1>4. n = 3 => l = 1 /\ x = 0
  <2> SUFFICES ASSUME n = 3 PROVE l = 1 /\ x = 0
    OBVIOUS
  <2>1. l \notin 2..29
    BY <1>3, ShortestLength
  <2>2. l = 1
    BY <1>3, <2>1
  <2> QED BY <2>2, ShortestLength
<1> HIDE DEF x, y
<1>5. PICK a \in 7..8 : OfLength(A, a) /\ (l = 1 => a = 7)
  <2>1. CASE l + 256 <= 279
    <3>1. OfLength(Mirrored(((l + 256) - 256) * 2, 7), 7)
      BY MirroredLength
    <3> QED BY <2>1, <3>1 DEF LengthCode
  <2>2. CASE ~(l + 256 <= 279)
    <3>1. OfLength(Mirrored(192 - 280 + (l + 256), 8), 8)
      BY MirroredLength
    <3>2. l # 1
      BY <2>2
    <3> QED BY <2>2, <3>1, <3>2 DEF LengthCode
  <2> QED BY <2>1, <2>2
<1>6. OfLength(B, x) /\ OfLength(D, y)
  BY <1>31, OutBitsLength DEF Extra, x, y
<1>7. OfLength(C, 5)
  BY MirroredLength
<1>8. Match(d, n) = ((A \o B) \o C) \o D
  BY DEF Match, l, k
<1> HIDE DEF A, B, C, D
<1>9. OfLength(((A \o B) \o C) \o D, ((a + x) + 5) + y)
  <2>1. OfLength(A \o B, a + x)
    BY <1>5, <1>6, Lengthen
  <2>2. OfLength((A \o B) \o C, (a + x) + 5)
    BY <2>1, <1>7, Lengthen
  <2> QED BY <2>2, <1>6, Lengthen
<1>10. ((a + x) + 5) + y \in 0..(9 * n)
  <2>1. CASE n = 3
    BY <2>1, <1>31, <1>4, <1>5
  <2>2. CASE n # 3
    BY <2>2, <1>0, <1>31, <1>5
  <2> QED BY <2>1, <2>2
<1> DEFINE m == ((a + x) + 5) + y
<1> HIDE DEF m
<1>11. m \in 0..(9 * n) /\ OfLength(Match(d, n), m)
  BY <1>8, <1>9, <1>10 DEF m
<1> QED BY <1>11

(* Where the tokens start.                                                 *)
StartStep(s, g, k) ==
  IF k = 1 THEN 0 ELSE g[k - 1] + (IF s[k - 1].dist = 0 THEN 1 ELSE s[k - 1].len)

StartOf(s) == CHOOSE g : g = [ k \in DOMAIN s |-> StartStep(s, g, k) ]

LEMMA StartIs == Start = StartOf(sent) /\ Start' = StartOf(sent')
BY DEF Start, StartOf, StartStep

(* The recursive function exists. *)
LEMMA StartExists ==
  ASSUME NEW s, NEW n \in Nat
  PROVE  \E g : g = [ k \in 1..n |-> StartStep(s, g, k) ]
<1> DEFINE Built(m) == \E g : g = [ k \in 1..m |-> StartStep(s, g, k) ]
           T == { m \in Nat : Built(m) }
<1>1. 0 \in T
  <2> DEFINE g == [ k \in 1..0 |-> 0 ]
  <2>1. g = [ k \in 1..0 |-> StartStep(s, g, k) ]
    OBVIOUS
  <2>2. Built(0)
    <3> HIDE DEF g
    <3> QED BY <2>1
  <2> HIDE DEF Built
  <2> QED BY <2>2
<1>2. ASSUME NEW m \in T PROVE m + 1 \in T
  <2>1. m \in Nat
    OBVIOUS
  <2>2. PICK g : g = [ k \in 1..m |-> StartStep(s, g, k) ]
    OBVIOUS
  <2> DEFINE h == [ k \in 1..(m + 1) |-> IF k <= m THEN g[k] ELSE StartStep(s, g, k) ]
  <2>3. ASSUME NEW k \in 1..(m + 1) PROVE h[k] = StartStep(s, h, k)
    <3>1. h[k] = StartStep(s, g, k)
      <4>1. CASE k <= m
        <5>1. k \in 1..m /\ h[k] = g[k]
          BY <4>1, <2>1
        <5> HIDE DEF h
        <5> QED BY <5>1, <2>2
      <4>2. CASE ~(k <= m)
        BY <4>2
      <4> QED BY <4>1, <4>2
    <3>2. CASE k = 1
      <4> HIDE DEF h
      <4> QED BY <3>1, <3>2 DEF StartStep
    <3>3. CASE k # 1
      <4>1. k - 1 \in 1..(m + 1) /\ k - 1 <= m
        BY <3>3, <2>1
      <4>2. h[k - 1] = g[k - 1]
        BY <4>1
      <4> HIDE DEF h
      <4> QED BY <3>1, <3>3, <4>2 DEF StartStep
    <3> QED BY <3>2, <3>3
  <2>4. h = [ k \in 1..(m + 1) |-> StartStep(s, h, k) ]
    BY <2>3
  <2> HIDE DEF h
  <2>5. Built(m + 1)
    BY <2>4
  <2> HIDE DEF Built
  <2> QED BY <2>1, <2>5
<1>3. T = Nat
  <2> HIDE DEF T
  <2>1. T \in SUBSET Nat
    BY DEF T
  <2> QED BY <1>1, <1>2, <2>1, NatInduct
<1>4. n \in T
  <2> HIDE DEF T
  <2> QED BY <1>3
<1> QED BY <1>4

LEMMA StartSteps ==
  ASSUME NEW S, NEW s \in Seq(S)
  PROVE  \A k \in 1..Len(s) : StartOf(s)[k] = StartStep(s, StartOf(s), k)
<1>1. DOMAIN s = 1..Len(s) /\ Len(s) \in Nat
  BY LenProperties
<1>2. \E g : g = [ k \in 1..Len(s) |-> StartStep(s, g, k) ]
  BY <1>1, StartExists
<1>3. StartOf(s) = [ k \in 1..Len(s) |-> StartStep(s, StartOf(s), k) ]
  BY <1>1, <1>2 DEF StartOf
<1> HIDE DEF StartOf
<1> QED BY <1>3

(* One more token moves none of the others. *)
LEMMA StartGrows ==
  ASSUME NEW S, NEW s \in Seq(S), NEW t \in S
  PROVE  /\ \A k \in 1..Len(s) : StartOf(Append(s, t))[k] = StartOf(s)[k]
         /\ StartOf(Append(s, t))[Len(s) + 1] = StartStep(s, StartOf(s), Len(s) + 1)
<1> DEFINE e == Append(s, t)
           n == Len(s)
           F == StartOf(s)
           G == StartOf(e)
           T == { m \in Nat : \A k \in 1..m : k <= n => G[k] = F[k] }
<1>1. n \in Nat
  BY LenProperties
<1>2. e \in Seq(S) /\ Len(e) = n + 1 /\ \A k \in 1..n : e[k] = s[k]
  BY <1>1, AppendProperties
<1> HIDE DEF e
<1>3. \A k \in 1..n : F[k] = StartStep(s, F, k)
  BY StartSteps
<1>4. \A k \in 1..(n + 1) : G[k] = StartStep(e, G, k)
  BY <1>2, StartSteps
<1> HIDE DEF n, F, G
<1>5. 0 \in T
  OBVIOUS
<1>6. ASSUME NEW m \in T PROVE m + 1 \in T
  <2>1. m \in Nat /\ \A k \in 1..m : k <= n => G[k] = F[k]
    OBVIOUS
  <2>2. ASSUME m + 1 <= n PROVE G[m + 1] = F[m + 1]
    <3>1. m + 1 \in 1..n /\ m + 1 \in 1..(n + 1)
      BY <1>1, <2>1, <2>2
    <3>2. G[m + 1] = StartStep(e, G, m + 1) /\ F[m + 1] = StartStep(s, F, m + 1)
      BY <1>3, <1>4, <3>1
    <3>3. (m + 1) - 1 = m
      BY <2>1
    <3>4. CASE m = 0
      BY <3>2, <3>4 DEF StartStep
    <3>5. CASE m # 0
      <4>1. m \in 1..m /\ m <= n /\ m \in 1..n /\ m + 1 # 1
        BY <1>1, <2>1, <2>2, <3>5
      <4>2. G[m] = F[m] /\ e[m] = s[m]
        BY <1>2, <2>1, <4>1
      <4> QED BY <3>2, <3>3, <4>1, <4>2 DEF StartStep
    <3> QED BY <3>4, <3>5
  <2>3. \A k \in 1..(m + 1) : k \in 1..m \/ k = m + 1
    BY <2>1
  <2>4. \A k \in 1..(m + 1) : k <= n => G[k] = F[k]
    BY <2>1, <2>2, <2>3
  <2> QED BY <2>1, <2>4
<1>7. n \in T
  <2> HIDE DEF T
  <2>1. T \in SUBSET Nat
    BY DEF T
  <2>2. T = Nat
    BY <1>5, <1>6, <2>1, NatInduct
  <2> QED BY <1>1, <2>2
<1>8. \A k \in 1..n : G[k] = F[k]
  BY <1>1, <1>7
<1>9. G[n + 1] = StartStep(s, F, n + 1)
  <2>1. n + 1 \in 1..(n + 1) /\ (n + 1) - 1 = n
    BY <1>1
  <2>2. G[n + 1] = StartStep(e, G, n + 1)
    BY <1>4, <2>1
  <2>3. CASE n = 0
    BY <2>2, <2>3 DEF StartStep
  <2>4. CASE n # 0
    <3>1. n \in 1..n /\ n + 1 # 1
      BY <1>1, <2>4
    <3>2. G[n] = F[n] /\ e[n] = s[n]
      BY <1>2, <1>8, <3>1
    <3> QED BY <2>1, <2>2, <3>1, <3>2 DEF StartStep
  <2> QED BY <2>3, <2>4
<1> QED BY <1>8, <1>9 DEF e, n, F, G

TokenType == [ dist : Nat, len : Nat ]

\* What the bits written so far cost.
Cost == \E m \in 0..(9 * at + 3) : OfLength(bits, m)

\* The data, the place in it, and what the hash remembers: earlier places.
Placed ==
  /\ src \in Seq(0..255) /\ at \in 0..Len(src)
  /\ \A h \in DOMAIN bucket : bucket[h] \in Nat /\ bucket[h] < at

CompressInv ==
  stage = "compress" =>
    /\ Placed /\ Cost
    /\ sent \in Seq(TokenType) /\ (sent = <<>> => at = 0)
    /\ TokensMeanData

LEMMA CompressInit == DeflateInit => CompressInv
<1> SUFFICES ASSUME DeflateInit, stage = "compress"
             PROVE  /\ Placed /\ Cost
                    /\ sent \in Seq(TokenType) /\ (sent = <<>> => at = 0)
                    /\ TokensMeanData
  BY DEF CompressInv
<1>1. /\ src \in Inputs /\ sent = <<>> /\ bits = BlockStart /\ at = 0 /\ bucket = NoBucket
  BY DEF DeflateInit
<1>2. Placed
  <2>1. src \in Seq(0..255)
    BY <1>1, DeflateAssumption
  <2>2. Len(src) \in Nat
    BY <2>1, LenProperties
  <2>3. DOMAIN bucket = {}
    BY <1>1 DEF NoBucket
  <2> QED BY <1>1, <2>1, <2>2, <2>3 DEF Placed
<1>3. Cost
  <2>1. OfLength(OutBits(1, 1), 1) /\ OfLength(OutBits(1, 2), 2)
    BY OutBitsLength
  <2>2. OfLength(BlockStart, 1 + 2)
    BY <2>1, Lengthen DEF BlockStart
  <2>3. 1 + 2 = 3 /\ 3 \in 0..(9 * 0 + 3)
    OBVIOUS
  <2> QED BY <1>1, <2>2, <2>3 DEF Cost
<1>4. TokensMeanData
  BY <1>1 DEF TokensMeanData
<1> QED BY <1>1, <1>2, <1>3, <1>4

(* Sending a token that stands for j bytes and costs at most nine bits for *)
(* each.                                                                   *)
LEMMA SendCost ==
  ASSUME NEW token, Send(token), Cost, at \in Nat, NEW j \in Nat, at' = at + j,
         NEW k \in 0..(9 * j), OfLength(Encoded(token), k)
  PROVE  Cost'
<1>1. PICK m \in 0..(9 * at + 3) : OfLength(bits, m)
  BY DEF Cost
<1>2. OfLength(bits', m + k)
  BY <1>1, Lengthen DEF Send
<1>3. m + k \in 0..(9 * (at + j) + 3)
  BY <1>1
<1> QED BY <1>2, <1>3 DEF Cost

\* A token that begins at `start` and ends at `end` stands for the data.
StandsFor(t, start, end) ==
  IF t.dist = 0
    THEN end = start + 1 /\ src[end] = t.len
    ELSE /\ t.dist <= DictSize /\ t.dist <= start
         /\ t.len \in MinMatch..MaxMatch /\ end = start + t.len
         /\ \A i \in (start + 1)..end : src[i] = src[i - t.dist]

LEMMA Meanings ==
  /\ TokensMeanData <=>
       (stage = "compress" =>
          \A k \in DOMAIN sent :
            StandsFor(sent[k], Start[k], IF k = Len(sent) THEN at ELSE Start[k + 1]))
  /\ TokensMeanData' <=>
       (stage' = "compress" =>
          \A k \in DOMAIN sent' :
            StandsFor(sent[k], Start[k], IF k = Len(sent) THEN at ELSE Start[k + 1])')
BY DEF TokensMeanData, StandsFor

(* Sending a token that stands for the data from `at` on. *)
LEMMA SendMeans ==
  ASSUME stage = "compress", TokensMeanData, sent \in Seq(TokenType), sent = <<>> => at = 0,
         NEW token \in TokenType, Send(token), UNCHANGED <<stage, src>>,
         StandsFor(token, at, at')
  PROVE  /\ sent' \in Seq(TokenType) /\ sent' # <<>>
         /\ TokensMeanData'
<1> DEFINE n == Len(sent)
           F == Start
           G == Start'
           EndOf(k) == IF k = n THEN at ELSE F[k + 1]
           Ending(k) == IF k = n + 1 THEN at' ELSE G[k + 1]
<1>1. /\ sent' = Append(sent, token) /\ n \in Nat /\ DOMAIN sent = 1..n
      /\ sent' \in Seq(TokenType) /\ Len(sent') = n + 1 /\ DOMAIN sent' = 1..(n + 1)
      /\ \A k \in 1..n : sent'[k] = sent[k]
      /\ sent'[n + 1] = token
  <2>1. sent' = Append(sent, token)
    BY DEF Send
  <2>2. sent' \in Seq(TokenType) /\ n \in Nat /\ DOMAIN sent = 1..n
    BY <2>1, AppendProperties, LenProperties
  <2>3. Len(sent') = n + 1 /\ DOMAIN sent' = 1..(n + 1)
    BY <2>1, <2>2, AppendProperties, LenProperties
  <2>4. (\A k \in 1..n : sent'[k] = sent[k]) /\ sent'[n + 1] = token
    BY <2>1, AppendProperties
  <2> QED BY <2>1, <2>2, <2>3, <2>4
<1>2. \A k \in 1..n : StandsFor(sent[k], F[k], EndOf(k))
  BY <1>1, Meanings
<1>3. /\ \A k \in 1..n : G[k] = F[k]
      /\ G[n + 1] = StartStep(sent, F, n + 1)
  BY <1>1, StartIs, StartGrows
<1>4. G[n + 1] = at
  <2>1. CASE n = 0
    <3>1. sent = <<>>
      BY <2>1, EmptySeq
    <3> QED BY <2>1, <3>1, <1>3 DEF StartStep
  <2>2. CASE n # 0
    <3>1. n \in 1..n /\ n + 1 # 1 /\ (n + 1) - 1 = n
      BY <2>2, <1>1
    <3>2. G[n + 1] = F[n] + (IF sent[n].dist = 0 THEN 1 ELSE sent[n].len)
      BY <3>1, <1>3 DEF StartStep
    <3>3. StandsFor(sent[n], F[n], at)
      BY <3>1, <1>2
    <3> HIDE DEF F, G, n
    <3> QED BY <3>2, <3>3 DEF StandsFor
  <2> QED BY <2>1, <2>2
<1> HIDE DEF F, G, n
<1>5. ASSUME NEW k \in 1..(n + 1) PROVE StandsFor(sent'[k], G[k], Ending(k))
  <2>1. CASE k = n + 1
    BY <2>1, <1>1, <1>4
  <2>2. CASE k # n + 1
    <3>1. k \in 1..n /\ (k # n => k + 1 \in 1..n)
      <4>1. n \in Nat
        BY <1>1
      <4> QED BY <2>2, <4>1
    <3>2. Ending(k) = EndOf(k)
      <4>1. CASE k = n
        BY <4>1, <2>2, <1>4
      <4>2. CASE k # n
        BY <4>2, <2>2, <3>1, <1>3
      <4> QED BY <4>1, <4>2
    <3> HIDE DEF EndOf, Ending
    <3> QED BY <3>1, <3>2, <1>1, <1>2, <1>3
  <2> QED BY <2>1, <2>2
<1>6. sent' # <<>>
  BY <1>1
<1>7. TokensMeanData'
  <2>1. ASSUME NEW k \in DOMAIN sent'
        PROVE  StandsFor(sent[k], Start[k], IF k = Len(sent) THEN at ELSE Start[k + 1])'
    <3>1. StandsFor(sent'[k], G[k], Ending(k))
      BY <1>1, <1>5
    <3>2. Ending(k) = IF k = Len(sent') THEN at' ELSE Start[k + 1]'
      BY <1>1 DEF G
    <3> QED BY <3>1, <3>2 DEF StandsFor, G
  <2> QED BY <2>1, Meanings
<1> QED BY <1>1, <1>6, <1>7

(* A literal is the byte in its place. *)
LEMMA LiteralStep ==
  ASSUME CompressInv, stage = "compress", at < Len(src),
         Send([ dist |-> 0, len |-> src[at + 1] ]), at' = at + 1, UNCHANGED <<stage, src>>
  PROVE  /\ Cost' /\ sent' \in Seq(TokenType) /\ sent' # <<>> /\ TokensMeanData'
         /\ src' \in Seq(0..255) /\ at' \in 0..Len(src')
<1> DEFINE token == [ dist |-> 0, len |-> src[at + 1] ]
<1>1. /\ src \in Seq(0..255) /\ at \in Nat /\ Len(src) \in Nat /\ at + 1 \in 1..Len(src)
      /\ at + 1 \in 0..Len(src)
      /\ Cost /\ sent \in Seq(TokenType) /\ (sent = <<>> => at = 0) /\ TokensMeanData
  BY LenProperties DEF CompressInv, Placed
<1>2. src[at + 1] \in Nat
  <2> DEFINE byte == src[at + 1]
             Range255 == 0..255
  <2>1. byte \in Range255
    BY <1>1, ElementOfSeq
  <2> HIDE DEF byte
  <2>2. byte \in Nat
    BY <2>1
  <2> QED BY <2>2 DEF byte
<1>3. token \in TokenType /\ token.dist = 0 /\ token.len = src[at + 1]
  BY <1>2 DEF TokenType
<1> HIDE DEF token
<1>4. StandsFor(token, at, at')
  BY <1>3 DEF StandsFor
<1>5. Send(token)
  BY DEF token
<1>6. sent' \in Seq(TokenType) /\ sent' # <<>> /\ TokensMeanData'
  BY <1>1, <1>3, <1>4, <1>5, SendMeans
<1>7. Cost'
  <2>1. PICK k \in 0..9 : OfLength(Encoded(token), k)
    BY <1>3, LiteralCost DEF Encoded
  <2>2. k \in 0..(9 * 1) /\ 1 \in Nat
    OBVIOUS
  <2> QED BY <2>1, <2>2, <1>1, <1>5, SendCost
<1> QED BY <1>1, <1>6, <1>7

(* A match copies what the hash remembers, and stays within the data. *)
LEMMA MatchStep ==
  ASSUME CompressInv, stage = "compress", at < Top, NEW h \in DOMAIN bucket,
         Matches(bucket[h]), NEW n \in MinMatch..MaxMatch, Reaches(bucket[h], n),
         Send([ dist |-> at - bucket[h], len |-> n ]), at' = at + n, UNCHANGED <<stage, src>>
  PROVE  /\ Cost' /\ sent' \in Seq(TokenType) /\ sent' # <<>> /\ TokensMeanData'
         /\ src' \in Seq(0..255) /\ at' \in 0..Len(src')
<1> DEFINE subs == bucket[h]
           d == at - subs
           token == [ dist |-> d, len |-> n ]
<1>1. /\ src \in Seq(0..255) /\ at \in Nat /\ Len(src) \in Nat
      /\ subs \in Nat /\ subs < at
      /\ Cost /\ sent \in Seq(TokenType) /\ (sent = <<>> => at = 0) /\ TokensMeanData
  BY LenProperties DEF CompressInv, Placed
<1>2. n \in Nat /\ 3 <= n /\ n <= 258
  BY DEF MinMatch, MaxMatch
<1>3. at + n \in 0..Len(src)
  BY <1>1, <1>2 DEF Reaches, Top, MinMatch
<1>4. \A i \in 1..n : src[at + i] = src[subs + i]
  <2>1. \A i \in 1..n : i \in 1..MinMatch \/ i \in (MinMatch + 1)..n
    BY <1>2 DEF MinMatch
  <2> QED BY <2>1 DEF Matches, Reaches
<1>5. d \in Nat /\ 1 <= d /\ d <= DictSize /\ d <= at /\ d <= 32768
  <2>1. d <= DictSize /\ DictSize \in Nat /\ DictSize <= 32768
    <3>1. d <= DictSize
      BY Zenon DEF Matches
    <3>2. DictSize \in Nat /\ DictSize <= 32768
      <4> HIDE DEF d, subs, token
      <4> QED BY DeflateAssumption
    <3> QED BY <3>1, <3>2
  <2>2. d \in Nat /\ 1 <= d /\ d <= at
    BY <1>1
  <2> HIDE DEF d, subs
  <2> QED BY <2>1, <2>2
<1>6. \A i \in (at + 1)..(at + n) : src[i] = src[i - d]
  <2> SUFFICES ASSUME NEW i \in (at + 1)..(at + n) PROVE src[i] = src[i - d]
    OBVIOUS
  <2>1. /\ i - at \in 1..n /\ at + (i - at) = i /\ subs + (i - at) = i - d
    BY <1>1, <1>2
  <2> HIDE DEF d, subs
  <2>2. src[at + (i - at)] = src[subs + (i - at)]
    BY <2>1, <1>4
  <2> QED BY <2>1, <2>2
<1> HIDE DEF d
<1>7. token \in TokenType /\ token.dist = d /\ token.len = n /\ d # 0
  BY <1>2, <1>5 DEF TokenType
<1>8. Send(token)
  BY DEF d
<1> HIDE DEF token
<1>9. StandsFor(token, at, at')
  BY <1>5, <1>6, <1>7 DEF StandsFor
<1>10. sent' \in Seq(TokenType) /\ sent' # <<>> /\ TokensMeanData'
  BY <1>1, <1>7, <1>8, <1>9, SendMeans
<1>11. Cost'
  <2>1. PICK k \in 0..(9 * n) : OfLength(Match(d, n), k)
    BY <1>5, MatchCost
  <2>2. Encoded(token) = Match(d, n)
    BY <1>7 DEF Encoded
  <2>3. OfLength(Encoded(token), k)
    BY <2>1, <2>2
  <2> HIDE DEF subs
  <2> QED BY <2>1, <2>3, <1>1, <1>2, <1>8, SendCost
<1> QED BY <1>1, <1>3, <1>10, <1>11

LEMMA CompressStep == CompressInv /\ [DeflateNext]_deflateVars => CompressInv'
<1> SUFFICES ASSUME CompressInv, [DeflateNext]_deflateVars, stage' = "compress"
             PROVE  /\ Placed' /\ Cost'
                    /\ sent' \in Seq(TokenType) /\ (sent' = <<>> => at' = 0)
                    /\ TokensMeanData'
  BY DEF CompressInv
<1>1. CASE Compress
  <2>1. stage = "compress" /\ at < Top /\ UNCHANGED <<stage, src>>
    BY <1>1 DEF Compress
  <2>2. /\ src \in Seq(0..255) /\ at \in Nat /\ Len(src) \in Nat /\ at < Len(src)
        /\ \A k \in DOMAIN bucket : bucket[k] \in Nat /\ bucket[k] < at
    BY <2>1, LenProperties DEF CompressInv, Placed, Top, MinMatch
  <2>3. PICK h \in {Hash(at)} :
          /\ bucket' = [ k \in DOMAIN bucket \cup {h} |-> IF k = h THEN at ELSE bucket[k] ]
          /\ IF h \in DOMAIN bucket /\ Matches(bucket[h])
               THEN \E n \in MinMatch..MaxMatch :
                      /\ Reaches(bucket[h], n)
                      /\ Send([ dist |-> at - bucket[h], len |-> n ])
                      /\ at' = at + n
               ELSE /\ Send([ dist |-> 0, len |-> src[at + 1] ])
                    /\ at' = at + 1
    BY <1>1 DEF Compress
  <2>4. ASSUME at' \in Nat, at < at', src' \in Seq(0..255), at' \in 0..Len(src')
        PROVE  Placed'
    <3>1. ASSUME NEW k \in DOMAIN bucket'
          PROVE  bucket'[k] \in Nat /\ bucket'[k] < at'
      <4>1. k \in DOMAIN bucket \cup {h} /\ bucket'[k] = IF k = h THEN at ELSE bucket[k]
        BY <2>3
      <4>2. bucket'[k] \in Nat /\ bucket'[k] <= at
        BY <2>2, <4>1
      <4> QED BY <4>2, <2>2, <2>4
    <3> QED BY <2>4, <3>1 DEF Placed
  <2>5. CASE h \in DOMAIN bucket /\ Matches(bucket[h])
    <3>1. PICK n \in MinMatch..MaxMatch :
            /\ Reaches(bucket[h], n)
            /\ Send([ dist |-> at - bucket[h], len |-> n ])
            /\ at' = at + n
      BY <2>3, <2>5
    <3>2. /\ Cost' /\ sent' \in Seq(TokenType) /\ sent' # <<>> /\ TokensMeanData'
          /\ src' \in Seq(0..255) /\ at' \in 0..Len(src')
      BY <2>1, <2>5, <3>1, MatchStep
    <3>3. at' \in Nat /\ at < at'
      BY <2>2, <3>1 DEF MinMatch, MaxMatch
    <3> QED BY <2>4, <3>2, <3>3
  <2>6. CASE ~(h \in DOMAIN bucket /\ Matches(bucket[h]))
    <3>1. Send([ dist |-> 0, len |-> src[at + 1] ]) /\ at' = at + 1
      BY <2>3, <2>6
    <3>2. /\ Cost' /\ sent' \in Seq(TokenType) /\ sent' # <<>> /\ TokensMeanData'
          /\ src' \in Seq(0..255) /\ at' \in 0..Len(src')
      BY <2>1, <2>2, <3>1, LiteralStep
    <3>3. at' \in Nat /\ at < at'
      BY <2>2, <3>1
    <3> QED BY <2>4, <3>2, <3>3
  <2> QED BY <2>5, <2>6
<1>2. CASE CompressTail
  <2>1. /\ stage = "compress" /\ at < Len(src) /\ UNCHANGED <<stage, src, bucket>>
        /\ Send([ dist |-> 0, len |-> src[at + 1] ]) /\ at' = at + 1
    BY <1>2 DEF CompressTail
  <2>2. /\ Cost' /\ sent' \in Seq(TokenType) /\ sent' # <<>> /\ TokensMeanData'
        /\ src' \in Seq(0..255) /\ at' \in 0..Len(src')
    BY <2>1, LiteralStep
  <2>3. at \in Nat /\ \A k \in DOMAIN bucket : bucket[k] \in Nat /\ bucket[k] < at
    BY <2>1, LenProperties DEF CompressInv, Placed
  <2>4. \A k \in DOMAIN bucket' : bucket'[k] \in Nat /\ bucket'[k] < at'
    BY <2>1, <2>3
  <2> QED BY <2>2, <2>4 DEF Placed
<1>3. CASE WriteToken
  BY <1>3 DEF WriteToken
<1>4. CASE FinishBlock
  BY <1>4 DEF FinishBlock
<1>5. CASE UNCHANGED deflateVars
  <2>1. UNCHANGED <<stage, src, at, bucket, sent, bits>> /\ stage = "compress"
    BY <1>5 DEF deflateVars
  <2>2. Placed' /\ Cost' /\ sent' \in Seq(TokenType) /\ (sent' = <<>> => at' = 0)
    BY <2>1 DEF CompressInv, Placed, Cost
  <2>3. TokensMeanData'
    <3>1. TokensMeanData
      BY <2>1 DEF CompressInv
    <3>2. Start' = Start
      BY <2>1, StartIs
    <3> QED BY <2>1, <3>1, <3>2 DEF TokensMeanData
  <2> QED BY <2>2, <2>3
<1> QED BY <1>1, <1>2, <1>3, <1>4, <1>5 DEF DeflateNext

LEMMA CompressInvariant == DeflateSpec => []CompressInv
<1> QED BY CompressInit, CompressStep, PTL DEF DeflateSpec

(* What uzlib_compress() has written stands for the data it has consumed,  *)
(* for every input, every hash size and every window: a bucket holds only  *)
(* earlier places, so a match, which the hash alone does not make one, is  *)
(* a copy of earlier data within the format's distances and lengths, and   *)
(* the last match ends within the data.                                    *)
THEOREM CompressionCorrect == DeflateSpec => []TokensMeanData
<1>1. CompressInv => TokensMeanData
  BY DEF CompressInv, TokensMeanData
<1> QED BY <1>1, CompressInvariant, PTL

(* Compression never costs more than nine bits a byte and the 17 of the    *)
(* block: what uploadNow() sizes its buffers by holds for every log.       *)
THEOREM CompressionFits == DeflateSpec => []NineBitsAByte
<1>1. CompressInv => NineBitsAByte
  <2> SUFFICES ASSUME CompressInv, stage = "compress"
               PROVE  Len(bits) + Len(BlockEnd) <= 9 * at + 17
    BY DEF NineBitsAByte
  <2>1. PICK m \in 0..(9 * at + 3) : OfLength(bits, m)
    BY DEF CompressInv, Cost
  <2>2. OfLength(BlockEnd, 7 + 7)
    BY OutBitsLength, Lengthen DEF BlockEnd
  <2>3. Len(bits) = m /\ Len(BlockEnd) = 7 + 7
    BY <2>1, <2>2 DEF OfLength
  <2>4. at \in Nat
    BY LenProperties DEF CompressInv, Placed
  <2> QED BY <2>3, <2>4
<1> QED BY <1>1, CompressInvariant, PTL

(***************************************************************************)
(* The hash.  First what sequences hold at each place.                     *)
(***************************************************************************)

LEMMA LengthIs ==
  ASSUME NEW b, NEW n, OfLength(b, n)
  PROVE  n \in Nat /\ Len(b) = n /\ DOMAIN b = 1..n
BY LenProperties DEF OfLength

LEMMA SameArray ==
  ASSUME NEW a, NEW b, NEW n, OfLength(a, n), OfLength(b, n), \A i \in 1..n : a[i] = b[i]
  PROVE  a = b
<1>1. PICK S : a \in Seq(S)
  BY DEF OfLength
<1>2. PICK T : b \in Seq(T)
  BY DEF OfLength
<1> DEFINE U == S \cup T
<1>3. a \in Seq(U)
  <2>1. S \subseteq U
    OBVIOUS
  <2> HIDE DEF U
  <2> QED BY <1>1, <2>1, SeqMonotonic
<1>4. b \in Seq(U)
  <2>1. T \subseteq U
    OBVIOUS
  <2> HIDE DEF U
  <2> QED BY <1>2, <2>1, SeqMonotonic
<1> HIDE DEF U
<1>5. Len(a) = n /\ Len(b) = n
  BY LengthIs
<1> QED BY <1>3, <1>4, <1>5, SeqEqual

(* What stands at each place of two sequences in a row. *)
Joined(c, a, b, m, n) ==
  /\ OfLength(c, m + n)
  /\ \A i \in 1..m : c[i] = a[i]
  /\ \A i \in 1..n : c[m + i] = b[i]

LEMMA JoinAt ==
  ASSUME NEW a, NEW b, NEW m, NEW n, OfLength(a, m), OfLength(b, n)
  PROVE  Joined(a \o b, a, b, m, n)
<1>1. PICK S : a \in Seq(S)
  BY DEF OfLength
<1>2. PICK T : b \in Seq(T)
  BY DEF OfLength
<1> DEFINE U == S \cup T
<1>3. a \in Seq(U)
  <2>1. S \subseteq U
    OBVIOUS
  <2> HIDE DEF U
  <2> QED BY <1>1, <2>1, SeqMonotonic
<1>4. b \in Seq(U)
  <2>1. T \subseteq U
    OBVIOUS
  <2> HIDE DEF U
  <2> QED BY <1>2, <2>1, SeqMonotonic
<1> HIDE DEF U
<1>5. m \in Nat /\ n \in Nat /\ Len(a) = m /\ Len(b) = n
  BY LengthIs
<1>6. \A i \in 1..(m + n) : (a \o b)[i] = IF i <= m THEN a[i] ELSE b[i - m]
  BY <1>3, <1>4, <1>5, ConcatProperties
<1>7. ASSUME NEW i \in 1..m PROVE (a \o b)[i] = a[i]
  <2>1. i \in 1..(m + n) /\ i <= m
    BY <1>5
  <2> QED BY <2>1, <1>6
<1>8. ASSUME NEW i \in 1..n PROVE (a \o b)[m + i] = b[i]
  <2>1. m + i \in 1..(m + n) /\ ~(m + i <= m) /\ (m + i) - m = i
    BY <1>5
  <2> QED BY <2>1, <1>6
<1>9. OfLength(a \o b, m + n)
  BY Lengthen
<1> DEFINE c == a \o b
<1> HIDE DEF c
<1>10. \A i \in 1..m : c[i] = a[i]
  BY <1>7 DEF c
<1>11. \A i \in 1..n : c[m + i] = b[i]
  BY <1>8 DEF c
<1>12. Joined(c, a, b, m, n)
  BY <1>9, <1>10, <1>11 DEF c, Joined
<1> QED BY <1>12 DEF c

\* c is the n elements of s behind the first o.
Piece(c, s, o, n) ==
  /\ OfLength(c, n)
  /\ \A k \in 1..n : c[k] = s[o + k]

LEMMA CutAt ==
  ASSUME NEW s, NEW m, OfLength(s, m), NEW o \in Nat, NEW n \in Nat, o + n <= m
  PROVE  Piece(SubSeq(s, o + 1, o + n), s, o, n)
<1>1. PICK S : s \in Seq(S)
  BY DEF OfLength
<1>2. m \in Nat /\ Len(s) = m
  BY LengthIs
<1> DEFINE i == o + 1
           j == o + n
           c == SubSeq(s, i, j)
<1>3. \A k \in i..j : s[k] \in S
  <2> SUFFICES ASSUME NEW k \in i..j PROVE s[k] \in S
    OBVIOUS
  <2>1. k \in 1..Len(s)
    BY <1>2
  <2> QED BY <1>1, <2>1, ElementOfSeq
<1>4. i \in Int /\ j \in Int /\ (IF i <= j THEN j - i + 1 ELSE 0) = n /\ j - i + 1 = n
  OBVIOUS
<1> HIDE DEF i, j
<1>5. /\ c \in Seq(S)
      /\ Len(c) = IF i <= j THEN j - i + 1 ELSE 0
      /\ \A k \in 1..(j - i + 1) : c[k] = s[i + k - 1]
  BY <1>3, <1>4, SubSeqProperties
<1> HIDE DEF c
<1>6. OfLength(c, n)
  BY <1>4, <1>5 DEF OfLength
<1>7. \A k \in 1..n : c[k] = s[o + k]
  <2> SUFFICES ASSUME NEW k \in 1..n PROVE c[k] = s[o + k]
    OBVIOUS
  <2>1. i + k - 1 = o + k
    BY DEF i
  <2>2. c[k] = s[i + k - 1]
    BY <1>4, <1>5
  <2> QED BY <2>1, <2>2
<1>8. Piece(c, s, o, n)
  BY <1>6, <1>7 DEF Piece
<1> QED BY <1>8 DEF c, i, j

(* Blocks laid end to end. *)
LEMMA BlockSizeIs == BlockSize \in Nat \ {0} /\ 2 <= BlockSize
BY Sha256Assumption

LEMMA Product ==
  ASSUME NEW k \in Nat, NEW n \in Nat \ {0}
  PROVE  k * n \in Nat /\ (k + 1) * n = k * n + n /\ (k > 0 => k * n >= n)
<1>1. k * n \in Nat /\ (k + 1) * n = k * n + n
  BY SMT
<1>2. ASSUME k > 0 PROVE k * n >= n
  <2> DEFINE j == k - 1
  <2>1. j \in Nat /\ k = j + 1
    BY <1>2
  <2> HIDE DEF j
  <2>2. j * n \in Nat /\ k * n = j * n + n
    BY <2>1, SMT
  <2> QED BY <2>2
<1> QED BY <1>1, <1>2

LEMMA InBlocks ==
  ASSUME NEW B \in Nat \ {0}, NEW n \in Nat, NEW k \in 1..n, NEW i \in 1..B
  PROVE  (k - 1) * B + i \in 1..(n * B)
<1> DEFINE j == k - 1
           d == n - k
<1>1. j \in Nat /\ d \in Nat /\ n = (j + 1) + d
  OBVIOUS
<1> HIDE DEF j, d
<1>2. n * B = (j * B + B) + d * B /\ j * B \in Nat /\ d * B \in Nat
  BY <1>1, SMT
<1>3. j * B + i \in 1..(n * B)
  BY <1>1, <1>2
<1> QED BY <1>3 DEF j

(* Every place is in a block. *)
LEMMA EveryPlace ==
  ASSUME NEW B \in Nat \ {0}, NEW n \in Nat, NEW p \in 1..(n * B)
  PROVE  \E k \in 1..n, i \in 1..B : p = (k - 1) * B + i
<1> DEFINE q == (p - 1) \div B
           r == (p - 1) % B
<1>1. p - 1 \in Nat
  OBVIOUS
<1>2. q \in Nat /\ r \in 0..(B - 1) /\ p - 1 = B * q + r
  BY <1>1, SMT
<1> HIDE DEF q, r
<1>3. q < n
  <2> SUFFICES ASSUME q >= n PROVE FALSE
    BY <1>2
  <2> DEFINE d == q - n
  <2>1. d \in Nat /\ q = n + d
    BY <1>2
  <2> HIDE DEF d
  <2>2. B * q = n * B + B * d /\ B * d \in Nat /\ n * B \in Nat
    BY <1>1, <2>1, SMT
  <2>3. p <= n * B
    OBVIOUS
  <2> QED BY <1>2, <2>2, <2>3
<1>4. B * q = q * B /\ q * B \in Nat
  BY <1>1, <1>2, SMT
<1>5. q + 1 \in 1..n /\ (q + 1) - 1 = q
  BY <1>2, <1>3
<1>6. r + 1 \in 1..B
  BY <1>1, <1>2
<1>7. p = q * B + (r + 1)
  BY <1>2, <1>4
<1> QED BY <1>5, <1>6, <1>7

\* f is the first n blocks of s, end to end.
EndToEnd(f, s, n, B) ==
  /\ OfLength(f, n * B)
  /\ \A k \in 1..n, i \in 1..B : f[(k - 1) * B + i] = s[k][i]

LEMMA EndToEndGrows ==
  ASSUME NEW B \in Nat \ {0}, NEW f, NEW s, NEW n \in Nat, EndToEnd(f, s, n, B),
         OfLength(s[n + 1], B)
  PROVE  EndToEnd(f \o s[n + 1], s, n + 1, B)
<1> DEFINE c == s[n + 1]
           g == f \o c
           q == n * B
<1>1. OfLength(f, q) /\ OfLength(c, B)
  BY DEF EndToEnd
<1>2. q \in Nat /\ (n + 1) * B = q + B
  BY Product
<1>3. \A k \in 1..n, i \in 1..B :
        (k - 1) * B + i \in 1..q /\ f[(k - 1) * B + i] = s[k][i]
  BY InBlocks DEF EndToEnd
<1>4. n = (n + 1) - 1 /\ q = ((n + 1) - 1) * B
  OBVIOUS
<1> HIDE DEF q, c
<1>5. Joined(g, f, c, q, B)
  BY <1>1, JoinAt
<1> HIDE DEF g
<1>6. /\ OfLength(g, q + B)
      /\ \A i \in 1..q : g[i] = f[i]
      /\ \A i \in 1..B : g[q + i] = c[i]
  BY <1>5 DEF Joined
<1>7. ASSUME NEW k \in 1..(n + 1), NEW i \in 1..B
      PROVE  g[(k - 1) * B + i] = s[k][i]
  <2>1. CASE k \in 1..n
    <3> DEFINE p == (k - 1) * B + i
    <3>1. p \in 1..q /\ f[p] = s[k][i]
      BY <1>3, <2>1
    <3> HIDE DEF p
    <3>2. g[p] = s[k][i]
      BY <3>1, <1>6
    <3> QED BY <3>2 DEF p
  <2>2. CASE k = n + 1
    <3>1. (k - 1) * B = q
      BY <2>2, <1>4
    <3>2. g[q + i] = s[k][i]
      BY <2>2, <1>6 DEF c
    <3> QED BY <3>1, <3>2
  <2>3. k \in 1..n \/ k = n + 1
    OBVIOUS
  <2> QED BY <2>1, <2>2, <2>3
<1>8. OfLength(g, (n + 1) * B)
  BY <1>2, <1>6
<1>9. EndToEnd(g, s, n + 1, B)
  BY <1>7, <1>8 DEF EndToEnd
<1> QED BY <1>9 DEF g, c

(* Two sequences that are the same blocks end to end are the same. *)
LEMMA EndToEndUnique ==
  ASSUME NEW B \in Nat \ {0}, NEW f, NEW g, NEW s, NEW n \in Nat,
         EndToEnd(f, s, n, B), EndToEnd(g, s, n, B)
  PROVE  f = g
<1>1. ASSUME NEW p \in 1..(n * B) PROVE f[p] = g[p]
  <2>1. PICK k \in 1..n, i \in 1..B : p = (k - 1) * B + i
    BY EveryPlace
  <2>2. f[(k - 1) * B + i] = s[k][i] /\ g[(k - 1) * B + i] = s[k][i]
    BY DEF EndToEnd
  <2> QED BY <2>1, <2>2
<1>2. OfLength(f, n * B) /\ OfLength(g, n * B)
  BY DEF EndToEnd
<1> HIDE DEF EndToEnd
<1> QED BY <1>1, <1>2, SameArray

\* n blocks.
Blocky(s, n, B) == OfLength(s, n) /\ \A k \in 1..n : OfLength(s[k], B)

(* FlattenSeq: its recursive function exists, and lays the blocks end to   *)
(* end.                                                                    *)
LEMMA FlattenBlocks ==
  ASSUME NEW B \in Nat \ {0}, NEW s, NEW n \in Nat, Blocky(s, n, B)
  PROVE  EndToEnd(FlattenSeq(s), s, n, B)
<1> DEFINE Flat(f, i) == IF i = 1 THEN s[i] ELSE f[i - 1] \o s[i]
           Built(m) == \E f : f = [ i \in 1..m |-> Flat(f, i) ]
           T == { m \in Nat : Built(m) }
<1>1. Len(s) = n /\ OfLength(s, n)
  BY LengthIs DEF Blocky
<1>2. EndToEnd(<<>>, s, 0, B)
  <2>1. 0 * B = 0
    OBVIOUS
  <2>2. OfLength(<<>>, 0)
    <3>1. <<>> \in Seq(Nat) /\ Len(<<>>) = 0
      OBVIOUS
    <3> QED BY <3>1 DEF OfLength
  <2> QED BY <2>1, <2>2 DEF EndToEnd
<1>3. CASE n = 0
  <2>1. s = <<>>
    <3>1. PICK S : s \in Seq(S)
      BY <1>1 DEF OfLength
    <3> QED BY <3>1, <1>1, <1>3, EmptySeq
  <2>2. FlattenSeq(s) = s
    BY <1>1, <1>3 DEF FlattenSeq
  <2> QED BY <1>2, <1>3, <2>1, <2>2
<1>4. CASE n # 0
  <2>1. 0 \in T
    <3>1. \E f : f = [ i \in 1..0 |-> Flat(f, i) ]
      <4> DEFINE f == [ i \in 1..0 |-> 0 ]
      <4>1. f = [ i \in 1..0 |-> Flat(f, i) ]
        OBVIOUS
      <4> QED BY <4>1
    <3> QED BY <3>1
  <2>2. ASSUME NEW m \in T PROVE m + 1 \in T
    <3>1. PICK f : f = [ i \in 1..m |-> Flat(f, i) ]
      OBVIOUS
    <3> DEFINE g == [ i \in 1..(m + 1) |-> IF i = m + 1 THEN Flat(f, i) ELSE f[i] ]
    <3>2. \A i \in 1..(m + 1) : g[i] = Flat(g, i)
      <4> SUFFICES ASSUME NEW i \in 1..(m + 1) PROVE g[i] = Flat(g, i)
        OBVIOUS
      <4>1. i # 1 => g[i - 1] = f[i - 1]
        OBVIOUS
      <4>2. g[i] = Flat(f, i)
        <5>1. CASE i = m + 1
          BY <5>1
        <5>2. CASE i # m + 1
          <6>1. i \in 1..m /\ g[i] = f[i]
            BY <5>2
          <6> HIDE DEF g
          <6> QED BY <6>1, <3>1
        <5> QED BY <5>1, <5>2
      <4> HIDE DEF g
      <4> QED BY <4>1, <4>2
    <3>3. g = [ i \in 1..(m + 1) |-> Flat(g, i) ]
      BY <3>2
    <3>4. Built(m + 1)
      <4> HIDE DEF g
      <4> QED BY <3>3
    <3> HIDE DEF Built
    <3> QED BY <3>4
  <2>3. T = Nat
    <3> HIDE DEF T
    <3>1. T \in SUBSET Nat
      BY Zenon DEF T
    <3> QED BY <2>1, <2>2, <3>1, NatInduct
  <2> DEFINE F == CHOOSE f : f = [ i \in 1..n |-> Flat(f, i) ]
  <2>4. F = [ i \in 1..n |-> Flat(F, i) ]
    <3>1. \E f : f = [ i \in 1..n |-> Flat(f, i) ]
      BY <2>3
    <3> QED BY <3>1
  <2>5. FlattenSeq(s) = F[n]
    BY <1>1, <1>4 DEF FlattenSeq
  <2> HIDE DEF F
  <2>6. F[1] = s[1] /\ \A i \in 2..n : F[i] = F[i - 1] \o s[i]
    <3>1. 1 \in 1..n /\ \A i \in 2..n : i \in 1..n /\ i # 1
      BY <1>4
    <3> QED BY <3>1, <2>4
  <2>7. \A k \in 1..n : OfLength(s[k], B)
    BY DEF Blocky
  <2> DEFINE R == { m \in Nat : m + 1 <= n => EndToEnd(F[m + 1], s, m + 1, B) }
  <2>8. 0 \in R
    <3>1. OfLength(s[0 + 1], B)
      BY <1>4, <2>7
    <3>2. EndToEnd(<<>> \o s[0 + 1], s, 0 + 1, B)
      BY <3>1, <1>2, EndToEndGrows
    <3>3. PICK S : s[0 + 1] \in Seq(S)
      BY <3>1 DEF OfLength
    <3>4. <<>> \o s[0 + 1] = s[0 + 1]
      BY <3>3, ConcatEmptySeq
    <3>5. F[0 + 1] = s[0 + 1]
      BY <2>6
    <3> QED BY <3>2, <3>4, <3>5
  <2>9. ASSUME NEW m \in R PROVE m + 1 \in R
    <3> SUFFICES ASSUME (m + 1) + 1 <= n
                 PROVE  EndToEnd(F[(m + 1) + 1], s, (m + 1) + 1, B)
      OBVIOUS
    <3> DEFINE k == m + 1
    <3>1. k \in Nat /\ k + 1 \in 2..n /\ k + 1 \in 1..n /\ (k + 1) - 1 = k
      OBVIOUS
    <3>2. EndToEnd(F[k], s, k, B)
      OBVIOUS
    <3> HIDE DEF k, R
    <3>3. OfLength(s[k + 1], B)
      BY <3>1, <2>7
    <3>4. EndToEnd(F[k] \o s[k + 1], s, k + 1, B)
      BY <3>1, <3>2, <3>3, EndToEndGrows
    <3>5. F[k + 1] = F[k] \o s[k + 1]
      BY <3>1, <2>6
    <3> QED BY <3>4, <3>5 DEF k
  <2>10. R = Nat
    <3> HIDE DEF R
    <3>1. R \in SUBSET Nat
      BY DEF R
    <3> QED BY <2>8, <2>9, <3>1, NatInduct
  <2>11. EndToEnd(F[n], s, n, B)
    <3> DEFINE m == n - 1
    <3>1. m \in Nat /\ m + 1 = n
      BY <1>4
    <3> HIDE DEF m
    <3>2. EndToEnd(F[m + 1], s, m + 1, B)
      <4>1. m \in R
        <5> HIDE DEF R
        <5> QED BY <2>10, <3>1
      <4>2. m + 1 <= n
        BY <3>1
      <4> QED BY <4>1, <4>2
    <3> QED BY <3>1, <3>2
  <2> QED BY <2>5, <2>11
<1> QED BY <1>3, <1>4

(* What the context has been fed.                                          *)
ByteAtOf(h, p) == h * (MaxMessage + 1) + p

BlockOf(h, k) == [ i \in 1..BlockSize |-> ByteAtOf(h, (k - 1) * BlockSize + i) ]

BlocksOf(h, n) == [ k \in 1..n |-> BlockOf(h, k) ]

LEMMA BytesAre ==
  /\ \A i : ByteOf(i) = ByteAtOf(hashes, i)
  /\ \A i : ByteOf(i)' = ByteAtOf(hashes', i)
BY DEF ByteOf, ByteAtOf

LEMMA BlocksAre ==
  ASSUME NEW h, NEW n \in Nat
  PROVE  /\ Blocky(BlocksOf(h, n), n, BlockSize)
         /\ \A k \in 1..n, i \in 1..BlockSize :
              BlocksOf(h, n)[k][i] = ByteAtOf(h, (k - 1) * BlockSize + i)
<1> DEFINE s == BlocksOf(h, n)
<1>1. \A k \in 1..n : s[k] = BlockOf(h, k)
  BY DEF BlocksOf
<1>2. OfLength(s, n)
  <2>1. s = [ k \in 1..n |-> s[k] ]
    BY DEF BlocksOf
  <2> HIDE DEF s
  <2> QED BY <2>1, ArrayOfLength
<1> HIDE DEF s
<1>3. ASSUME NEW k \in 1..n
      PROVE  /\ OfLength(s[k], BlockSize)
             /\ \A i \in 1..BlockSize : s[k][i] = ByteAtOf(h, (k - 1) * BlockSize + i)
  <2> DEFINE b == BlockOf(h, k)
  <2>1. b = [ i \in 1..BlockSize |-> b[i] ]
    BY DEF BlockOf
  <2>2. \A i \in 1..BlockSize : b[i] = ByteAtOf(h, (k - 1) * BlockSize + i)
    BY DEF BlockOf
  <2>3. s[k] = b
    BY <1>1
  <2> HIDE DEF b
  <2>4. OfLength(b, BlockSize)
    BY <2>1, BlockSizeIs, ArrayOfLength
  <2> QED BY <2>2, <2>3, <2>4
<1>4. Blocky(s, n, BlockSize)
  BY <1>2, <1>3 DEF Blocky
<1> QED BY <1>3, <1>4 DEF s

\* Of f bytes of message h, k whole blocks were hashed and l bytes are held in b.
Fits(h, f, b, l, blks, k) ==
  /\ k \in Nat /\ l \in Nat /\ l < BlockSize
  /\ f = k * BlockSize + l
  /\ blks = BlocksOf(h, k)
  /\ \A i \in 1..l : b[i] = ByteAtOf(h, k * BlockSize + i)

ShaInv ==
  /\ hashes \in Nat /\ fed \in Nat /\ total = fed
  /\ hashes > 0 =>
       IF finished THEN FlattenSeq(blocks) = Padded
       ELSE \E k : Fits(hashes, fed, buffer, held, blocks, k)

LEMMA ShaStart == ShaInit => ShaInv
BY DEF ShaInit, ShaInv

LEMMA StartsStep == ShaInv /\ Starts => ShaInv'
<1> SUFFICES ASSUME ShaInv, Starts PROVE ShaInv'
  OBVIOUS
<1>1. /\ hashes' = hashes + 1 /\ fed' = 0 /\ finished' = FALSE
      /\ total' = 0 /\ held' = 0 /\ blocks' = <<>> /\ hashes \in Nat
  BY DEF Starts, ShaInv
<1>2. Fits(hashes', fed', buffer', held', blocks', 0)
  <2>1. BlocksOf(hashes', 0) = <<>>
    BY DEF BlocksOf
  <2>2. 0 * BlockSize + 0 = 0 /\ 0 < BlockSize
    BY BlockSizeIs
  <2> QED BY <1>1, <2>1, <2>2 DEF Fits
<1> QED BY <1>1, <1>2 DEF ShaInv

(* One update: what is held is topped up, whole blocks are hashed where    *)
(* they lie, and the tail is held.                                         *)
LEMMA UpdateStep == ASSUME ShaInv, NEW n \in 1..MaxMessage, Update(n) PROVE ShaInv'
<1> DEFINE B == BlockSize
           h == hashes
           data == [ i \in 1..n |-> ByteOf(fed + i) ]
           fill == IF held = 0 THEN 0
                   ELSE IF B - held < n THEN B - held ELSE n
           first == SubSeq(data, 1, fill)
           topped == Filled(held, first)
           full == held + fill = B
           rest == SubSeq(data, fill + 1, n)
           whole == Len(rest) \div B
           tail == SubSeq(rest, whole * B + 1, Len(rest))
           one == IF full THEN <<topped>> ELSE <<>>
           cut == [ k \in 1..whole |-> SubSeq(rest, (k - 1) * B + 1, k * B) ]
<1>1. /\ ~finished /\ hashes > 0 /\ hashes \in Nat /\ fed \in Nat /\ total = fed
      /\ total' = total + n /\ fed' = fed + n /\ UNCHANGED <<hashes, finished>>
  BY Zenon DEF Update, ShaInv
<1>2. /\ blocks' = (blocks \o one) \o cut
      /\ buffer' = [ i \in 1..B |-> IF i <= Len(tail) THEN tail[i] ELSE topped[i] ]
      /\ held' = IF tail # <<>> THEN Len(tail) ELSE IF full THEN 0 ELSE held + fill
  BY DEF Update
<1>3. PICK K : Fits(h, fed, buffer, held, blocks, K)
  BY <1>1 DEF ShaInv
<1>4. /\ K \in Nat /\ held \in Nat /\ held < B /\ B \in Nat /\ 2 <= B
      /\ n \in Nat /\ 1 <= n
      /\ fed = K * B + held /\ K * B \in Nat
  BY <1>3, BlockSizeIs, Sha256Assumption DEF Fits
<1>5. /\ blocks = BlocksOf(h, K)
      /\ \A i \in 1..held : buffer[i] = ByteAtOf(h, K * B + i)
  BY <1>3 DEF Fits
<1>6. /\ fill \in Nat /\ fill <= n /\ held + fill <= B
      /\ held = 0 => fill = 0
      /\ held # 0 /\ held + fill # B => fill = n
  BY <1>4
<1>7. OfLength(data, n) /\ \A i \in 1..n : data[i] = ByteAtOf(h, fed + i)
  <2>1. data = [ i \in 1..n |-> data[i] ]
    OBVIOUS
  <2>2. \A i \in 1..n : data[i] = ByteAtOf(h, fed + i)
    BY BytesAre
  <2> HIDE DEF data
  <2> QED BY <2>1, <2>2, <1>4, ArrayOfLength
<1> HIDE DEF data, fill
<1>8. Piece(first, data, 0, fill)
  <2>1. Piece(SubSeq(data, 0 + 1, 0 + fill), data, 0, fill)
    BY <1>4, <1>6, <1>7, CutAt
  <2>2. 0 + 1 = 1 /\ 0 + fill = fill
    BY <1>6
  <2> QED BY <2>1, <2>2
<1> DEFINE m == n - fill
<1>9. m \in Nat /\ fill + m = n
  BY <1>4, <1>6
<1>10. Piece(rest, data, fill, m)
  <2>1. Piece(SubSeq(data, fill + 1, fill + m), data, fill, m)
    BY <1>4, <1>6, <1>7, <1>9, CutAt
  <2> QED BY <2>1, <1>9
<1>11. Len(first) = fill /\ \A i \in 1..fill : first[i] = data[i]
  <2>1. OfLength(first, fill) /\ \A i \in 1..fill : first[i] = data[0 + i]
    BY <1>8 DEF Piece
  <2>2. \A i \in 1..fill : 0 + i = i
    BY <1>6
  <2> HIDE DEF first
  <2> QED BY <2>1, <2>2, LengthIs
<1>12. OfLength(rest, m) /\ Len(rest) = m /\ \A i \in 1..m : rest[i] = data[fill + i]
  <2>1. OfLength(rest, m) /\ \A i \in 1..m : rest[i] = data[fill + i]
    BY <1>10 DEF Piece
  <2> HIDE DEF rest, m
  <2> QED BY <2>1, LengthIs
<1> HIDE DEF first, rest
\* What the buffer holds when it is topped up.
<1>13. \A i \in 1..(held + fill) : topped[i] = ByteAtOf(h, K * B + i)
  <2> SUFFICES ASSUME NEW i \in 1..(held + fill) PROVE topped[i] = ByteAtOf(h, K * B + i)
    OBVIOUS
  <2>0. i \in 1..B /\ i \in Nat
    BY <1>4, <1>6
  <2>1. topped[i] = IF i \in (held + 1)..(held + fill) THEN first[i - held] ELSE buffer[i]
    BY <2>0, <1>11 DEF Filled
  <2> HIDE DEF topped
  <2>2. CASE i <= held
    <3>1. i \in 1..held /\ i \notin (held + 1)..(held + fill)
      BY <2>2, <2>0, <1>4
    <3> QED BY <3>1, <2>1, <1>5
  <2>3. CASE ~(i <= held)
    <3> DEFINE j == i - held
    <3>1. j \in 1..fill /\ j \in 1..n /\ i \in (held + 1)..(held + fill) /\ fed + j = K * B + i
      BY <2>3, <2>0, <1>4, <1>6
    <3>2. topped[i] = first[j]
      BY <2>1, <3>1
    <3> HIDE DEF j
    <3>3. first[j] = data[j] /\ data[j] = ByteAtOf(h, fed + j)
      BY <3>1, <1>7, <1>11
    <3> QED BY <3>1, <3>2, <3>3
  <2> QED BY <2>2, <2>3
<1>14. OfLength(topped, B)
  <2>1. topped = [ i \in 1..B |-> topped[i] ]
    BY DEF Filled
  <2> HIDE DEF topped
  <2> QED BY <2>1, <1>4, ArrayOfLength
<1> HIDE DEF topped, m, B
<1> DEFINE T == m % B
           K1 == IF full THEN K + 1 ELSE K
           H1 == IF full THEN 0 ELSE held + fill
<1>15. /\ whole \in Nat /\ T \in Nat /\ T < B /\ m = B * whole + T
       /\ B * whole = whole * B /\ whole * B \in Nat
  <2>1. whole = m \div B
    BY <1>12
  <2> HIDE DEF whole
  <2>2. whole \in Nat /\ T \in Nat /\ T < B /\ m = B * whole + T
    <3>1. B \in Nat \ {0} /\ m \in Nat
      BY <1>4, <1>9
    <3>2. m \div B \in Nat /\ m % B \in Nat /\ m % B < B /\ m = B * (m \div B) + (m % B)
      BY <3>1, SMT
    <3> QED BY <3>2, <2>1
  <2>3. B * whole = whole * B /\ whole * B \in Nat
    BY <2>2, <1>4, SMT
  <2> QED BY <2>2, <2>3
<1> HIDE DEF whole
<1>16. Len(tail) = T /\ \A i \in 1..T : tail[i] = rest[whole * B + i]
  <2> DEFINE o == whole * B
  <2>1. o \in Nat /\ T \in Nat /\ o + T = m /\ Len(rest) = m /\ OfLength(rest, m)
    BY <1>12, <1>15
  <2>2. tail = SubSeq(rest, o + 1, o + T)
    BY <2>1
  <2> HIDE DEF o, T, tail
  <2>3. Piece(tail, rest, o, T)
    <3>1. o + T <= m
      BY <2>1, <1>9
    <3> QED BY <3>1, <2>1, <2>2, CutAt
  <2>4. OfLength(tail, T) /\ \A i \in 1..T : tail[i] = rest[o + i]
    BY <2>3 DEF Piece
  <2> QED BY <2>4, LengthIs DEF o
<1>17. tail # <<>> <=> T # 0
  <2> DEFINE o == whole * B
  <2>1. tail # <<>> => Len(tail) # 0
    <3>1. tail = SubSeq(rest, o + 1, m)
      BY <1>12
    <3>2. T = 0 => m < o + 1
      BY <1>9, <1>15
    <3>3. o + 1 \in Int /\ m \in Int
      BY <1>9, <1>15
    <3> HIDE DEF o, T, tail
    <3>4. T = 0 => tail = <<>>
      BY <3>1, <3>2, <3>3, SubSeqEmpty
    <3> QED BY <3>4, <1>16
  <2>2. tail = <<>> => Len(tail) = 0
    <3> HIDE DEF tail
    <3> QED OBVIOUS
  <2>3. Len(tail) = T
    BY <1>16
  <2> HIDE DEF tail, T
  <2> QED BY <2>1, <2>2, <2>3
<1> HIDE DEF tail, T
<1>18. held' = H1 + T /\ (m # 0 => H1 = 0)
  <2>1. m # 0 => H1 = 0
    <3>1. m = 0 <=> fill = n
      BY <1>9, <1>4, <1>6
    <3> QED BY <3>1, <1>4, <1>6
  <2>2. H1 \in Nat
    BY <1>4, <1>6
  <2>3. T # 0 => m # 0
    BY <1>15
  <2>4. held' = IF T # 0 THEN T ELSE H1
    BY <1>2, <1>16, <1>17
  <2> HIDE DEF H1
  <2> QED BY <2>1, <2>2, <2>3, <2>4, <1>15
<1>19. /\ K1 \in Nat /\ H1 \in Nat /\ H1 < B /\ K1 * B \in Nat
       /\ fed + fill = K1 * B + H1
  <2>1. (K + 1) * B = K * B + B
    BY <1>4, Product
  <2>2. CASE full
    BY <2>1, <2>2, <1>4, <1>6
  <2>3. CASE ~full
    <3>1. held + fill < B
      BY <2>3, <1>4, <1>6
    <3> QED BY <2>3, <3>1, <1>4, <1>6
  <2> QED BY <2>2, <2>3
<1>20. whole > 0 => m # 0
  <2>1. whole > 0 => whole * B >= B
    BY <1>4, <1>15, Product
  <2> QED BY <2>1, <1>4, <1>9, <1>15
<1> DEFINE K2 == K1 + whole
<1>21. K2 \in Nat /\ K2 * B = K1 * B + whole * B /\ fed' = K2 * B + held' /\ held' \in Nat /\ held' < B
  <2>1. (K1 + whole) * B = K1 * B + whole * B
    BY <1>4, <1>15, <1>19, SMT
  <2>2. held' < B
    <3>1. T # 0 => H1 = 0
      BY <1>15, <1>18, <1>9
    <3> QED BY <3>1, <1>15, <1>18, <1>19
  <2> HIDE DEF K1, H1
  <2>3. fed' = (K1 * B + whole * B) + (H1 + T)
    BY <1>1, <1>9, <1>15, <1>19, <1>4, <1>6
  <2> QED BY <2>1, <2>2, <2>3, <1>18, <1>19, <1>15
\* The places of the rest in the message.
<1>22. ASSUME m # 0, NEW p \in 1..m PROVE rest[p] = ByteAtOf(h, K1 * B + p)
  <2>1. fill + p \in 1..n /\ fed + (fill + p) = K1 * B + p
    <3>1. H1 = 0
      BY <1>18, <1>22
    <3> HIDE DEF K1, H1
    <3> QED BY <3>1, <1>4, <1>6, <1>9, <1>19
  <2>2. rest[p] = data[fill + p]
    BY <1>12
  <2> QED BY <2>1, <2>2, <1>7
\* The blocks hashed where they lie.
<1>23. ASSUME NEW k \in 1..whole PROVE cut[k] = BlockOf(h, K1 + k)
  <2> DEFINE j == k - 1
             o == j * B
             c == SubSeq(rest, o + 1, o + B)
             b == BlockOf(h, K1 + k)
  <2>1. j \in Nat /\ k = j + 1 /\ whole - k \in Nat /\ whole > 0
    BY <1>15
  <2>2. o \in Nat /\ k * B = o + B /\ o + B <= m
    <3> DEFINE w == whole - k
    <3>1. whole = k + w /\ w \in Nat /\ k \in Nat
      BY <2>1, <1>15
    <3> HIDE DEF j, w
    <3>2. whole * B = k * B + w * B /\ w * B \in Nat /\ k * B = j * B + B /\ j * B \in Nat
      BY <3>1, <2>1, <1>4, SMT
    <3> DEFINE x == k * B
               y == w * B
               z == whole * B
               r == j * B
    <3>3. z = x + y /\ y \in Nat /\ x = r + B /\ r \in Nat /\ m = z + T /\ T \in Nat
      BY <3>2, <1>15
    <3> HIDE DEF x, y, z, r
    <3>4. r \in Nat /\ x = r + B /\ r + B <= m
      BY <3>3, <1>4
    <3> QED BY <3>4 DEF x, r
  <2>3. cut[k] = c
    BY <2>2
  <2>4. (K1 + k - 1) * B = K1 * B + o
    <3>1. K1 + k - 1 = K1 + j
      BY <2>1, <1>19
    <3> HIDE DEF K1, j
    <3>2. (K1 + j) * B = K1 * B + j * B
      BY <2>1, <1>4, <1>19, SMT
    <3> QED BY <3>1, <3>2
  <2>5. OfLength(b, B) /\ \A i \in 1..B : b[i] = ByteAtOf(h, (K1 + k - 1) * B + i)
    <3>1. b = [ i \in 1..B |-> b[i] ] /\ \A i \in 1..B : b[i] = ByteAtOf(h, (K1 + k - 1) * B + i)
      <4> DEFINE q == K1 + k
      <4> HIDE DEF q
      <4>1. b = BlockOf(h, q)
        BY DEF q
      <4> HIDE DEF b
      <4>2. b = [ i \in 1..B |-> ByteAtOf(h, (q - 1) * B + i) ]
        BY <4>1 DEF BlockOf, B
      <4>3. b = [ i \in 1..B |-> b[i] ] /\ \A i \in 1..B : b[i] = ByteAtOf(h, (q - 1) * B + i)
        BY <4>2
      <4> DEFINE x == (q - 1) * B
                 y == (K1 + k - 1) * B
      <4>4. x = y
        <5> HIDE DEF K1
        <5>1. K1 \in Nat /\ k \in Nat
          BY <1>19, <2>1
        <5>2. q - 1 = K1 + k - 1
          BY <5>1 DEF q
        <5> QED BY <5>2
      <4> HIDE DEF x, y
      <4>5. b = [ i \in 1..B |-> b[i] ] /\ \A i \in 1..B : b[i] = ByteAtOf(h, x + i)
        BY <4>3 DEF x
      <4>6. \A i \in 1..B : b[i] = ByteAtOf(h, y + i)
        BY <4>4, <4>5
      <4> QED BY <4>5, <4>6 DEF y
    <3> HIDE DEF b
    <3> QED BY <3>1, <1>4, ArrayOfLength
  <2> HIDE DEF o
  <2>6. Piece(c, rest, o, B)
    BY <2>2, <1>4, <1>9, <1>12, CutAt
  <2> HIDE DEF c, b
  <2>7. OfLength(c, B) /\ \A i \in 1..B : c[i] = rest[o + i]
    BY <2>6 DEF Piece
  <2>8. ASSUME NEW i \in 1..B PROVE c[i] = b[i]
    <3>1. o + i \in 1..m /\ m # 0
      BY <2>2, <1>4, <1>9
    <3>2. rest[o + i] = ByteAtOf(h, K1 * B + (o + i))
      BY <3>1, <1>22
    <3>3. K1 * B + (o + i) = (K1 + k - 1) * B + i
      <4> DEFINE x == K1 * B
                 y == (K1 + k - 1) * B
      <4>1. x \in Nat /\ y = x + o
        BY <2>4, <1>19
      <4> HIDE DEF x, y
      <4>2. x + (o + i) = y + i
        BY <4>1, <2>2, <1>4
      <4> QED BY <4>2 DEF x, y
    <3> QED BY <3>2, <3>3, <2>5, <2>7
  <2> QED BY <2>3, <2>5, <2>7, <2>8, SameArray DEF b
<1>24. OfLength(cut, whole)
  <2>1. cut = [ k \in 1..whole |-> cut[k] ]
    OBVIOUS
  <2> HIDE DEF cut
  <2> QED BY <2>1, <1>15, ArrayOfLength
<1> DEFINE d == IF full THEN 1 ELSE 0
<1>25. /\ d \in Nat /\ K + d = K1
       /\ OfLength(one, d) /\ \A k \in 1..d : one[k] = BlockOf(h, K + k)
  <2>1. CASE full
    <3> DEFINE b == BlockOf(h, K + 1)
    <3>1. OfLength(b, B) /\ \A i \in 1..B : b[i] = ByteAtOf(h, K * B + i)
      <4>1. (K + 1) - 1 = K
        BY <1>4
      <4>2. b = [ i \in 1..B |-> b[i] ] /\ \A i \in 1..B : b[i] = ByteAtOf(h, ((K + 1) - 1) * B + i)
        BY DEF BlockOf, B
      <4> HIDE DEF b
      <4> QED BY <4>1, <4>2, <1>4, ArrayOfLength
    <3> HIDE DEF b
    <3>2. topped = b
      <4>1. \A i \in 1..B : topped[i] = b[i]
        BY <2>1, <3>1, <1>13
      <4> QED BY <4>1, <3>1, <1>14, SameArray
    <3>3. one = <<b>> /\ d = 1
      BY <2>1, <3>2
    <3>4. OfLength(<<b>>, 1) /\ <<b>>[1] = b
      <4>1. <<b>> \in Seq({b}) /\ Len(<<b>>) = 1 /\ <<b>>[1] = b
        OBVIOUS
      <4> QED BY <4>1 DEF OfLength
    <3>5. \A k \in 1..1 : k = 1
      OBVIOUS
    <3>6. K + 1 = K1
      BY <2>1
    <3> QED BY <3>3, <3>4, <3>5, <3>6 DEF b
  <2>2. CASE ~full
    <3>1. one = <<>> /\ d = 0 /\ K1 = K
      BY <2>2
    <3>2. OfLength(<<>>, 0)
      <4>1. <<>> \in Seq(Nat) /\ Len(<<>>) = 0
        OBVIOUS
      <4> QED BY <4>1 DEF OfLength
    <3> QED BY <3>1, <3>2, <1>4
  <2> QED BY <2>1, <2>2
<1>26. blocks' = BlocksOf(h, K2)
  <2> DEFINE s == BlocksOf(h, K2)
             t == BlocksOf(h, K)
  <2>1. OfLength(s, K2) /\ \A k \in 1..K2 : s[k] = BlockOf(h, k)
    <3>1. Blocky(s, K2, BlockSize)
      BY <1>21, BlocksAre
    <3> QED BY <3>1 DEF Blocky, BlocksOf
  <2>2. OfLength(t, K) /\ \A k \in 1..K : t[k] = BlockOf(h, k)
    <3>1. Blocky(t, K, BlockSize)
      BY <1>4, BlocksAre
    <3> QED BY <3>1 DEF Blocky, BlocksOf
  <2> HIDE DEF s, t, one, cut, d, K1
  <2>3. Joined(t \o one, t, one, K, d)
    BY <2>2, <1>25, JoinAt
  <2> DEFINE u == t \o one
  <2> HIDE DEF u
  <2>4. /\ OfLength(u, K1) /\ \A k \in 1..K : u[k] = t[k]
        /\ \A k \in 1..d : u[K + k] = one[k]
    BY <2>3, <1>25 DEF Joined, u
  <2>5. ASSUME NEW k \in 1..K1 PROVE u[k] = BlockOf(h, k)
    <3>1. CASE k <= K
      <4>1. k \in 1..K
        BY <3>1, <1>4
      <4> QED BY <4>1, <2>2, <2>4
    <3>2. CASE ~(k <= K)
      <4> DEFINE j == k - K
      <4>1. j \in 1..d /\ K + j = k
        BY <3>2, <1>4, <1>25
      <4> HIDE DEF j
      <4>2. u[K + j] = one[j] /\ one[j] = BlockOf(h, K + j)
        BY <4>1, <2>4, <1>25
      <4> QED BY <4>1, <4>2
    <3> QED BY <3>1, <3>2
  <2>6. Joined(u \o cut, u, cut, K1, whole)
    BY <2>4, <1>24, JoinAt
  <2> DEFINE v == u \o cut
  <2> HIDE DEF v
  <2>7. /\ OfLength(v, K1 + whole) /\ \A k \in 1..K1 : v[k] = u[k]
        /\ \A k \in 1..whole : v[K1 + k] = cut[k]
    BY <2>6 DEF Joined, v
  <2>8. ASSUME NEW k \in 1..(K1 + whole) PROVE v[k] = BlockOf(h, k)
    <3>1. CASE k <= K1
      <4>1. k \in 1..K1
        BY <3>1, <1>19
      <4> QED BY <4>1, <2>5, <2>7
    <3>2. CASE ~(k <= K1)
      <4> DEFINE j == k - K1
      <4>1. j \in 1..whole /\ K1 + j = k
        BY <3>2, <1>19, <1>15
      <4> HIDE DEF j
      <4>2. v[K1 + j] = cut[j] /\ cut[j] = BlockOf(h, K1 + j)
        BY <4>1, <2>7, <1>23
      <4> QED BY <4>1, <4>2
    <3> QED BY <3>1, <3>2
  <2>9. v = s
    BY <2>1, <2>7, <2>8, SameArray
  <2>10. blocks' = (t \o one) \o cut
    BY <1>2, <1>5 DEF t
  <2> QED BY <2>9, <2>10 DEF u, v, s
<1>27. ASSUME NEW i \in 1..held' PROVE buffer'[i] = ByteAtOf(h, K2 * B + i)
  <2>1. i \in 1..B /\ i \in Nat /\ buffer'[i] = IF i <= T THEN tail[i] ELSE topped[i]
    <3>1. i \in 1..B /\ i \in Nat
      BY <1>21, <1>4
    <3> QED BY <3>1, <1>2, <1>16
  <2>2. CASE T # 0
    <3> DEFINE o == whole * B
    <3>1. H1 = 0 /\ m # 0
      BY <2>2, <1>9, <1>15, <1>18
    <3>2. i \in 1..T /\ i <= T
      BY <3>1, <1>15, <1>18
    <3>3. o + i \in 1..m /\ K2 * B + i = K1 * B + (o + i)
      <4>1. o \in Nat /\ m = o + T
        BY <1>15
      <4>2. K2 * B = K1 * B + o /\ K1 * B \in Nat
        BY <1>19, <1>21
      <4> DEFINE x == K1 * B
                 y == K2 * B
      <4> HIDE DEF x, y, o
      <4>3. x \in Nat /\ y = x + o
        BY <4>2 DEF x, y
      <4>4. o + i \in 1..m /\ y + i = x + (o + i)
        BY <4>1, <4>3, <3>2, <1>9, <1>15
      <4> QED BY <4>4 DEF x, y
    <3>4. tail[i] = rest[o + i]
      BY <3>2, <1>16
    <3> HIDE DEF o, K1, K2
    <3>5. rest[o + i] = ByteAtOf(h, K1 * B + (o + i))
      BY <3>1, <3>3, <1>22
    <3> QED BY <3>2, <3>3, <3>4, <3>5, <2>1
  <2>3. CASE T = 0
    <3>1. i \in 1..H1 /\ H1 # 0 /\ ~(i <= T)
      BY <2>1, <2>3, <1>18, <1>19, <1>15
    <3>2. ~full /\ H1 = held + fill /\ K1 = K
      BY <3>1
    <3>3. m = 0 /\ whole = 0
      BY <3>1, <1>15, <1>18, <1>20
    <3>4. K2 = K
      BY <3>2, <3>3, <1>4
    <3>5. topped[i] = ByteAtOf(h, K * B + i)
      BY <3>1, <3>2, <1>13
    <3> QED BY <3>1, <3>4, <3>5, <2>1
  <2> QED BY <2>2, <2>3
<1> HIDE DEF K2
<1>28. Fits(h, fed', buffer', held', blocks', K2)
  BY <1>21, <1>26, <1>27 DEF Fits, B
<1>29. fed' \in Nat
  BY <1>1, <1>4
<1> QED BY <1>1, <1>28, <1>29, Zenon DEF ShaInv

(* The padding.                                                            *)
LengthBytes(t) ==
  [ i \in 1..LengthSize |-> ((8 * t) \div Radix^(LengthSize - i)) % Radix ]

ZerosFor(f) == CHOOSE z \in 0..(BlockSize - 1) : (f + 1 + z + LengthSize) % BlockSize = 0

MessageOf(h, f) == [ i \in 1..f |-> ByteAtOf(h, i) ]

PaddedOf(h, f) ==
  MessageOf(h, f) \o <<Eighty>> \o [ i \in 1..ZerosFor(f) |-> 0 ] \o LengthBytes(f)

LEMMA PaddedIs == Padded = PaddedOf(hashes, fed) /\ Padded' = PaddedOf(hashes', fed')
BY DEF Padded, PaddedOf, Message, MessageOf, ByteOf, ByteAtOf, ZerosFor, LengthBytes

(* The zeros of the padding are the only number of them that fills a block.*)
LEMMA ZerosAre ==
  ASSUME NEW f \in Nat, NEW z \in Nat, z < BlockSize, NEW c \in Nat,
         f + 1 + z + LengthSize = c * BlockSize
  PROVE  ZerosFor(f) = z
<1> DEFINE B == BlockSize
           g == f + 1 + LengthSize
<1>1. B \in Nat \ {0} /\ LengthSize \in Nat /\ g \in Nat
  BY BlockSizeIs, Sha256Assumption
<1>2. \A y \in Nat : f + 1 + y + LengthSize = g + y
  BY <1>1
<1>3. g + z = c * B
  BY <1>2
<1>4. (c * B) % B = 0
  <2> HIDE DEF B
  <2> QED BY <1>1, SMT
<1> HIDE DEF g, B
<1>5. ASSUME NEW y \in Nat, y < B, (g + y) % B = 0 PROVE y = z
  <2>1. (g + z) % B = 0 /\ g + y \in Nat /\ g + z \in Nat
    BY <1>1, <1>3, <1>4
  <2>2. ~(y < z)
    <3> SUFFICES ASSUME y < z PROVE FALSE
      OBVIOUS
    <3>1. g + y < g + z /\ g + z < (g + y) + B
      BY <1>1 DEF B
    <3> QED BY <1>1, <1>5, <2>1, <3>1, PlacesApart
  <2>3. ~(z < y)
    <3> SUFFICES ASSUME z < y PROVE FALSE
      OBVIOUS
    <3>1. g + z < g + y /\ g + y < (g + z) + B
      BY <1>1, <1>5
    <3> QED BY <1>1, <1>5, <2>1, <3>1, PlacesApart
  <2> QED BY <2>2, <2>3
<1>6. z \in 0..(B - 1) /\ (f + 1 + z + LengthSize) % B = 0
  <2>1. z \in 0..(B - 1)
    BY <1>1 DEF B
  <2>2. f + 1 + z + LengthSize = g + z
    BY <1>2
  <2> QED BY <2>1, <2>2, <1>3, <1>4
<1>7. ASSUME NEW y \in 0..(B - 1), (f + 1 + y + LengthSize) % B = 0 PROVE y = z
  <2>1. y \in Nat /\ y < B
    BY <1>1
  <2>2. f + 1 + y + LengthSize = g + y
    BY <2>1, <1>2
  <2> QED BY <2>1, <2>2, <1>5, <1>7
<1>8. ZerosFor(f) = CHOOSE y \in 0..(B - 1) : (f + 1 + y + LengthSize) % B = 0
  BY DEF ZerosFor, B
<1> QED BY <1>6, <1>7, <1>8

\* The padded message, place by place.
PaddedAs(P, h, f, z) ==
  /\ OfLength(P, ((f + 1) + z) + LengthSize)
  /\ \A i \in 1..f : P[i] = ByteAtOf(h, i)
  /\ P[f + 1] = Eighty
  /\ \A i \in 1..z : P[(f + 1) + i] = 0
  /\ \A i \in 1..LengthSize : P[((f + 1) + z) + i] = LengthBytes(f)[i]

LEMMA PaddedPlaces ==
  ASSUME NEW h, NEW f \in Nat, NEW z \in Nat, ZerosFor(f) = z
  PROVE  PaddedAs(PaddedOf(h, f), h, f, z)
<1> DEFINE M == MessageOf(h, f)
           e == <<Eighty>>
           Z == [ i \in 1..z |-> 0 ]
           L == LengthBytes(f)
           a == M \o e
           b == a \o Z
           P == b \o L
<1>0. LengthSize \in Nat
  BY Sha256Assumption
<1>1. PaddedOf(h, f) = P
  BY DEF PaddedOf
<1>2. OfLength(M, f) /\ \A i \in 1..f : M[i] = ByteAtOf(h, i)
  <2>1. M = [ i \in 1..f |-> M[i] ] /\ \A i \in 1..f : M[i] = ByteAtOf(h, i)
    BY DEF MessageOf
  <2> HIDE DEF M
  <2> QED BY <2>1, ArrayOfLength
<1>3. OfLength(e, 1) /\ e[1] = Eighty
  <2>1. e \in Seq({Eighty}) /\ Len(e) = 1 /\ e[1] = Eighty
    OBVIOUS
  <2> QED BY <2>1 DEF OfLength
<1>4. OfLength(Z, z) /\ \A i \in 1..z : Z[i] = 0
  <2>1. Z = [ i \in 1..z |-> Z[i] ] /\ \A i \in 1..z : Z[i] = 0
    OBVIOUS
  <2> HIDE DEF Z
  <2> QED BY <2>1, ArrayOfLength
<1>5. OfLength(L, LengthSize)
  <2>1. L = [ i \in 1..LengthSize |-> L[i] ]
    BY DEF LengthBytes
  <2> HIDE DEF L
  <2> QED BY <2>1, <1>0, ArrayOfLength
<1> HIDE DEF M, e, Z, L
<1>6. Joined(a, M, e, f, 1)
  BY <1>2, <1>3, JoinAt
<1> HIDE DEF a
<1>7. /\ OfLength(a, f + 1) /\ \A i \in 1..f : a[i] = M[i]
      /\ a[f + 1] = e[1]
  <2>1. 1 \in 1..1
    OBVIOUS
  <2> QED BY <1>6, <2>1 DEF Joined
<1> DEFINE m == f + 1
<1>8. Joined(b, a, Z, m, z)
  BY <1>4, <1>7, JoinAt
<1> HIDE DEF b, m
<1>9. /\ OfLength(b, m + z) /\ \A i \in 1..m : b[i] = a[i]
      /\ \A i \in 1..z : b[m + i] = Z[i]
  BY <1>8 DEF Joined
<1> DEFINE n == m + z
<1>10. Joined(P, b, L, n, LengthSize)
  BY <1>5, <1>9, JoinAt
<1> HIDE DEF P, n
<1>11. /\ OfLength(P, n + LengthSize) /\ \A i \in 1..n : P[i] = b[i]
       /\ \A i \in 1..LengthSize : P[n + i] = L[i]
  BY <1>10 DEF Joined
<1>12. \A i \in 1..f : P[i] = ByteAtOf(h, i)
  <2> SUFFICES ASSUME NEW i \in 1..f PROVE P[i] = ByteAtOf(h, i)
    OBVIOUS
  <2>1. i \in 1..n /\ i \in 1..m
    BY DEF m, n
  <2> QED BY <2>1, <1>2, <1>7, <1>9, <1>11
<1>13. P[m] = Eighty
  <2>1. m \in 1..n /\ m \in 1..m /\ m = f + 1
    BY DEF m, n
  <2> QED BY <2>1, <1>3, <1>7, <1>9, <1>11
<1>14. \A i \in 1..z : P[m + i] = 0
  <2> SUFFICES ASSUME NEW i \in 1..z PROVE P[m + i] = 0
    OBVIOUS
  <2>1. m + i \in 1..n
    BY DEF m, n
  <2> QED BY <2>1, <1>4, <1>9, <1>11
<1>15. PaddedAs(P, h, f, z)
  BY <1>11, <1>12, <1>13, <1>14 DEF PaddedAs, m, n, L
<1> QED BY <1>1, <1>15

\* The first n blocks of P are those of t.
Carries(P, t, n) ==
  /\ Blocky(t, n, BlockSize)
  /\ \A k \in 1..n, i \in 1..BlockSize : P[(k - 1) * BlockSize + i] = t[k][i]

LEMMA CarriesMore ==
  ASSUME NEW P, NEW t, NEW n \in Nat, Carries(P, t, n), NEW b, OfLength(b, BlockSize),
         \A i \in 1..BlockSize : P[n * BlockSize + i] = b[i]
  PROVE  Carries(P, t \o <<b>>, n + 1)
<1> DEFINE e == <<b>>
           u == t \o e
<1>1. OfLength(t, n) /\ \A k \in 1..n : OfLength(t[k], BlockSize)
  BY DEF Carries, Blocky
<1>2. OfLength(e, 1) /\ e[1] = b /\ 1 \in 1..1
  <2>1. e \in Seq({b}) /\ Len(e) = 1 /\ e[1] = b /\ 1 \in 1..1
    OBVIOUS
  <2> QED BY <2>1 DEF OfLength
<1> HIDE DEF e
<1>3. Joined(u, t, e, n, 1)
  BY <1>1, <1>2, JoinAt
<1> HIDE DEF u
<1>4. OfLength(u, n + 1) /\ (\A k \in 1..n : u[k] = t[k]) /\ u[n + 1] = b
  BY <1>2, <1>3 DEF Joined
<1>5. \A k \in 1..(n + 1) : k \in 1..n \/ (k = n + 1 /\ k - 1 = n)
  OBVIOUS
<1>6. Blocky(u, n + 1, BlockSize)
  BY <1>1, <1>4, <1>5 DEF Blocky
<1>7. ASSUME NEW k \in 1..(n + 1), NEW i \in 1..BlockSize
      PROVE  P[(k - 1) * BlockSize + i] = u[k][i]
  <2>1. CASE k \in 1..n
    BY <2>1, <1>4 DEF Carries
  <2>2. CASE k = n + 1 /\ k - 1 = n
    BY <2>2, <1>4
  <2> QED BY <2>1, <2>2, <1>5
<1>8. Carries(P, u, n + 1)
  BY <1>6, <1>7 DEF Carries
<1> QED BY <1>8 DEF u, e

LEMMA CarriesAll ==
  ASSUME NEW P, NEW t, NEW n \in Nat, Carries(P, t, n), OfLength(P, n * BlockSize)
  PROVE  FlattenSeq(t) = P
<1>1. Blocky(t, n, BlockSize)
  BY DEF Carries
<1>2. EndToEnd(FlattenSeq(t), t, n, BlockSize)
  BY <1>1, BlockSizeIs, FlattenBlocks
<1>3. EndToEnd(P, t, n, BlockSize)
  BY DEF Carries, EndToEnd
<1> QED BY <1>2, <1>3, BlockSizeIs, EndToEndUnique

(* The last blocks, as finish() builds them in the buffer.                 *)
LEMMA FinishStep == ShaInv /\ Finish => ShaInv'
<1> SUFFICES ASSUME ShaInv, Finish PROVE ShaInv'
  OBVIOUS
<1> DEFINE B == BlockSize
           S == LengthSize
           h == hashes
           l == held
           marked == Filled(l, <<Eighty>>)
           zeroed(b, n, last) == [ i \in 1..B |-> IF i \in (n + 1)..last THEN 0 ELSE b[i] ]
           spilled == Spills(l + 1)
           begin == IF spilled THEN 0 ELSE l + 1
           body == IF spilled THEN zeroed(marked, l + 1, B) ELSE marked
           padded == zeroed(body, begin, B - S)
           closing == [ i \in 1..B |->
                        IF i > B - S THEN LengthField[i - (B - S)] ELSE padded[i] ]
           one == IF spilled THEN <<body>> ELSE <<>>
           c == IF spilled THEN 2 ELSE 1
<1>1. /\ ~finished /\ hashes > 0 /\ hashes \in Nat /\ fed \in Nat /\ total = fed
      /\ finished' = TRUE /\ UNCHANGED <<hashes, fed, total>>
      /\ blocks' = (blocks \o one) \o <<closing>>
  BY DEF Finish, ShaInv
<1>2. PICK K : Fits(h, fed, buffer, l, blocks, K)
  BY <1>1 DEF ShaInv
<1>3. /\ K \in Nat /\ l \in Nat /\ l < B /\ B \in Nat /\ 2 <= B
      /\ S \in Nat /\ 1 <= S /\ S < B
      /\ fed = K * B + l /\ K * B \in Nat
      /\ blocks = BlocksOf(h, K)
      /\ \A i \in 1..l : buffer[i] = ByteAtOf(h, K * B + i)
  BY <1>2, BlockSizeIs, Sha256Assumption DEF Fits
<1> DEFINE z == (c * B) - ((S + l) + 1)
           x == K * B
<1>4. /\ c * B = (IF spilled THEN B + B ELSE B)
      /\ spilled <=> l + 1 > B - S
  BY <1>3 DEF Spills
<1>5. z \in Nat /\ z < B
  <2> HIDE DEF B, spilled
  <2>1. CASE spilled
    BY <2>1, <1>3, <1>4
  <2>2. CASE ~spilled
    BY <2>2, <1>3, <1>4
  <2> QED BY <2>1, <2>2
<1>6. K + c \in Nat /\ (K + c) * B = x + c * B
  BY <1>3, SMT
<1> HIDE DEF x
<1>7. /\ fed + 1 + z + S = (K + c) * B
      /\ ((fed + 1) + z) + S = (K + c) * B
      /\ fed = x + l /\ x \in Nat
  <2>1. fed = x + l /\ x \in Nat
    BY <1>3 DEF x
  <2> DEFINE y == c * B
             t == (K + c) * B
  <2>2. y \in Nat /\ t = x + y /\ z = y - ((S + l) + 1)
    BY <1>3, <1>4, <1>6
  <2> HIDE DEF y, t, z
  <2>3. fed + 1 + z + S = t /\ ((fed + 1) + z) + S = t
    BY <2>1, <2>2, <1>3
  <2> QED BY <2>1, <2>3 DEF t
<1> DEFINE P == PaddedOf(h, fed)
<1>8. PaddedAs(P, h, fed, z)
  <2> HIDE DEF z, c
  <2>1. ZerosFor(fed) = z
    BY <1>1, <1>5, <1>6, <1>7, ZerosAre
  <2> QED BY <2>1, <1>1, <1>5, PaddedPlaces
<1> HIDE DEF P
<1>9. LengthField = LengthBytes(fed)
  BY <1>1 DEF LengthField, LengthBytes
\* What the padded message has in the block that holds the last of the data.
<1>10. /\ \A i \in 1..x : P[i] = ByteAtOf(h, i)
       /\ \A i \in 1..l : P[x + i] = buffer[i]
       /\ P[x + (l + 1)] = Eighty
       /\ \A i \in 1..z : P[x + ((l + 1) + i)] = 0
       /\ \A i \in 1..S : P[x + (((l + 1) + z) + i)] = LengthField[i]
  <2> HIDE DEF z
  <2>1. \A i \in 1..x : P[i] = ByteAtOf(h, i)
    <3> SUFFICES ASSUME NEW i \in 1..x PROVE P[i] = ByteAtOf(h, i)
      OBVIOUS
    <3>1. i \in 1..fed
      BY <1>3, <1>7
    <3> QED BY <3>1, <1>8 DEF PaddedAs
  <2>2. \A i \in 1..l : P[x + i] = buffer[i]
    <3> SUFFICES ASSUME NEW i \in 1..l PROVE P[x + i] = buffer[i]
      OBVIOUS
    <3>1. x + i \in 1..fed
      BY <1>3, <1>7
    <3>2. P[x + i] = ByteAtOf(h, x + i)
      BY <3>1, <1>8 DEF PaddedAs
    <3>3. buffer[i] = ByteAtOf(h, x + i)
      BY <1>3 DEF x
    <3> QED BY <3>2, <3>3
  <2>3. P[x + (l + 1)] = Eighty
    <3>1. x + (l + 1) = fed + 1
      BY <1>3, <1>7
    <3> QED BY <3>1, <1>8 DEF PaddedAs
  <2>4. \A i \in 1..z : P[x + ((l + 1) + i)] = 0
    <3> SUFFICES ASSUME NEW i \in 1..z PROVE P[x + ((l + 1) + i)] = 0
      OBVIOUS
    <3>1. x + ((l + 1) + i) = (fed + 1) + i
      BY <1>3, <1>5, <1>7
    <3> QED BY <3>1, <1>8 DEF PaddedAs
  <2>5. \A i \in 1..S : P[x + (((l + 1) + z) + i)] = LengthField[i]
    <3> SUFFICES ASSUME NEW i \in 1..S PROVE P[x + (((l + 1) + z) + i)] = LengthField[i]
      OBVIOUS
    <3>1. x + (((l + 1) + z) + i) = ((fed + 1) + z) + i
      BY <1>3, <1>5, <1>7
    <3>2. P[((fed + 1) + z) + i] = LengthBytes(fed)[i]
      BY <1>8 DEF PaddedAs
    <3> QED BY <3>1, <3>2, <1>9
  <2> QED BY <2>1, <2>2, <2>3, <2>4, <2>5
<1>11. \A i \in 1..B : marked[i] = IF i = l + 1 THEN Eighty ELSE buffer[i]
  <2> SUFFICES ASSUME NEW i \in 1..B
               PROVE  marked[i] = IF i = l + 1 THEN Eighty ELSE buffer[i]
    OBVIOUS
  <2>1. Len(<<Eighty>>) = 1 /\ <<Eighty>>[1] = Eighty
    OBVIOUS
  <2>2. i \in (l + 1)..(l + 1) <=> i = l + 1
    BY <1>3
  <2>3. i = l + 1 => i - l = 1
    BY <1>3
  <2>4. marked[i] = IF i \in (l + 1)..(l + Len(<<Eighty>>)) THEN <<Eighty>>[i - l] ELSE buffer[i]
    BY DEF Filled
  <2> QED BY <2>1, <2>2, <2>3, <2>4
<1> HIDE DEF marked
<1>12. OfLength(closing, B) /\ \A i \in 1..B :
          closing[i] = IF i > B - S THEN LengthField[i - (B - S)]
                     ELSE IF i \in (begin + 1)..(B - S) THEN 0 ELSE body[i]
  <2>1. closing = [ i \in 1..B |-> closing[i] ]
    OBVIOUS
  <2>2. \A i \in 1..B : closing[i] = IF i > B - S THEN LengthField[i - (B - S)] ELSE padded[i]
    OBVIOUS
  <2>3. \A i \in 1..B : padded[i] = IF i \in (begin + 1)..(B - S) THEN 0 ELSE body[i]
    OBVIOUS
  <2> HIDE DEF closing, padded
  <2> QED BY <2>1, <2>2, <2>3, <1>3, ArrayOfLength
<1> HIDE DEF closing, padded
<1> HIDE DEF B
<1>13. x = K * B /\ \A k \in 1..K, i \in 1..B : (k - 1) * B + i \in 1..x
  BY <1>3, InBlocks DEF x, B
<1>14. Carries(P, blocks, K)
  <2>1. /\ Blocky(blocks, K, BlockSize)
        /\ \A k \in 1..K, i \in 1..B : blocks[k][i] = ByteAtOf(h, (k - 1) * B + i)
    BY <1>3, BlocksAre DEF B
  <2>2. ASSUME NEW k \in 1..K, NEW i \in 1..B PROVE P[(k - 1) * B + i] = blocks[k][i]
    <3> DEFINE p == (k - 1) * B + i
    <3>1. p \in 1..x /\ blocks[k][i] = ByteAtOf(h, p)
      BY <1>13, <2>1
    <3> HIDE DEF p
    <3>2. P[p] = ByteAtOf(h, p)
      BY <3>1, <1>10
    <3> QED BY <3>1, <3>2 DEF p
  <2> QED BY <2>1, <2>2 DEF Carries, B
\* The block that holds the last of the data, and the one behind it, if any.
<1>15. ASSUME spilled PROVE Carries(P, blocks', K + c)
  <2>1. c = 2 /\ begin = 0 /\ one = <<body>> /\ z = (B + B) - ((S + l) + 1) /\ l + 1 > B - S
    BY <1>15, <1>3, <1>4
  <2>2. OfLength(body, B) /\ \A i \in 1..B :
          body[i] = IF i \in ((l + 1) + 1)..B THEN 0 ELSE marked[i]
    <3>1. body = [ i \in 1..B |-> body[i] ] /\ \A i \in 1..B :
            body[i] = IF i \in ((l + 1) + 1)..B THEN 0 ELSE marked[i]
      BY <1>15
    <3> HIDE DEF body
    <3> QED BY <3>1, <1>3, ArrayOfLength
  <2> HIDE DEF body, begin, z, spilled, c, one
  <2>3. ASSUME NEW i \in 1..B PROVE P[x + i] = body[i]
    <3>1. CASE i <= l
      <4>1. i \in 1..l /\ i \notin ((l + 1) + 1)..B /\ i # l + 1
        BY <3>1, <1>3
      <4> QED BY <4>1, <2>2, <1>10, <1>11
    <3>2. CASE i = l + 1
      <4>1. i \notin ((l + 1) + 1)..B
        BY <3>2, <1>3
      <4> QED BY <3>2, <4>1, <2>2, <1>10, <1>11
    <3>3. CASE i > l + 1
      <4> DEFINE j == i - (l + 1)
      <4>1. j \in 1..z /\ (l + 1) + j = i /\ i \in ((l + 1) + 1)..B
        BY <3>3, <2>1, <1>3
      <4> HIDE DEF j
      <4> QED BY <4>1, <2>2, <1>10
    <3> QED BY <3>1, <3>2, <3>3, <1>3
  <2>4. ASSUME NEW i \in 1..B PROVE P[(x + B) + i] = closing[i]
    <3>1. CASE i <= B - S
      <4> DEFINE j == (B + i) - (l + 1)
      <4>1. j \in 1..z /\ x + ((l + 1) + j) = (x + B) + i
        BY <3>1, <2>1, <1>3, <1>7
      <4>2. ~(i > B - S) /\ i \in (begin + 1)..(B - S)
        BY <3>1, <2>1, <1>3
      <4> HIDE DEF j
      <4>3. P[(x + B) + i] = 0
        BY <4>1, <1>10
      <4> QED BY <4>2, <4>3, <1>12
    <3>2. CASE i > B - S
      <4> DEFINE j == i - (B - S)
      <4>1. j \in 1..S /\ x + (((l + 1) + z) + j) = (x + B) + i
        BY <3>2, <2>1, <1>3, <1>5, <1>7
      <4>2. closing[i] = LengthField[j]
        BY <3>2, <1>12
      <4> HIDE DEF j
      <4>3. P[x + (((l + 1) + z) + j)] = LengthField[j]
        BY <4>1, <1>10
      <4> QED BY <4>1, <4>2, <4>3
    <3> QED BY <3>1, <3>2, <1>3
  <2>5. Carries(P, blocks \o <<body>>, K + 1)
    BY <2>2, <2>3, <1>3, <1>14, CarriesMore DEF x, B
  <2>6. Carries(P, (blocks \o <<body>>) \o <<closing>>, (K + 1) + 1)
    <3> DEFINE y == (K + 1) * B
    <3>1. y = x + B /\ K + 1 \in Nat
      <4>1. K + 1 \in Nat /\ (K + 1) * B = K * B + B
        BY <1>3, SMT
      <4> QED BY <4>1 DEF x
    <3> HIDE DEF y
    <3>2. \A i \in 1..B : P[y + i] = closing[i]
      BY <2>4, <3>1
    <3> QED BY <2>5, <3>1, <3>2, <1>12, CarriesMore DEF y, B
  <2>7. (K + 1) + 1 = K + c
    BY <2>1, <1>3
  <2>8. blocks' = (blocks \o <<body>>) \o <<closing>>
    BY <2>1, <1>1
  <2> QED BY <2>6, <2>7, <2>8
<1>16. ASSUME ~spilled PROVE Carries(P, blocks', K + c)
  <2>1. c = 1 /\ begin = l + 1 /\ one = <<>> /\ z = B - ((S + l) + 1) /\ l + 1 <= B - S /\ body = marked
    BY <1>16, <1>3, <1>4
  <2> HIDE DEF body, begin, z, spilled, c, one
  <2>2. ASSUME NEW i \in 1..B PROVE P[x + i] = closing[i]
    <3>1. CASE i <= l
      <4>1. i \in 1..l /\ i \notin (begin + 1)..(B - S) /\ ~(i > B - S) /\ i # l + 1
        BY <3>1, <2>1, <1>3
      <4> QED BY <4>1, <2>1, <1>10, <1>11, <1>12
    <3>2. CASE i = l + 1
      <4>1. i \notin (begin + 1)..(B - S) /\ ~(i > B - S)
        BY <3>2, <2>1, <1>3
      <4> QED BY <3>2, <4>1, <2>1, <1>10, <1>11, <1>12
    <3>3. CASE i > l + 1 /\ i <= B - S
      <4> DEFINE j == i - (l + 1)
      <4>1. j \in 1..z /\ (l + 1) + j = i /\ i \in (begin + 1)..(B - S) /\ ~(i > B - S)
        BY <3>3, <2>1, <1>3
      <4> HIDE DEF j
      <4> QED BY <4>1, <1>10, <1>12
    <3>4. CASE i > B - S
      <4> DEFINE j == i - (B - S)
      <4>1. j \in 1..S /\ ((l + 1) + z) + j = i
        BY <3>4, <2>1, <1>3
      <4>2. closing[i] = LengthField[j]
        BY <3>4, <1>12
      <4> HIDE DEF j
      <4>3. P[x + (((l + 1) + z) + j)] = LengthField[j]
        BY <4>1, <1>10
      <4> QED BY <4>1, <4>2, <4>3
    <3>5. i <= l \/ i = l + 1 \/ (i > l + 1 /\ i <= B - S) \/ i > B - S
      BY <1>3
    <3> QED BY <3>1, <3>2, <3>3, <3>4, <3>5
  <2>3. Carries(P, blocks \o <<closing>>, K + 1)
    BY <2>2, <1>3, <1>12, <1>14, CarriesMore DEF x, B
  <2>4. blocks \o <<>> = blocks
    <3>1. PICK X : blocks \in Seq(X)
      BY <1>14 DEF Carries, Blocky, OfLength
    <3> QED BY <3>1, ConcatEmptySeq
  <2>5. K + 1 = K + c /\ blocks' = blocks \o <<closing>>
    BY <2>1, <2>4, <1>1
  <2> QED BY <2>3, <2>5
<1>17. Carries(P, blocks', K + c)
  BY <1>15, <1>16
<1>18. OfLength(P, (K + c) * BlockSize)
  <2>1. OfLength(P, ((fed + 1) + z) + S)
    BY <1>8 DEF PaddedAs
  <2> HIDE DEF z, c
  <2> QED BY <2>1, <1>7 DEF B
<1>19. FlattenSeq(blocks') = P
  <2> HIDE DEF c
  <2> QED BY <1>6, <1>17, <1>18, CarriesAll
<1>20. Padded' = P
  BY <1>1, PaddedIs DEF P
<1> QED BY <1>1, <1>19, <1>20 DEF ShaInv

LEMMA ShaStep == ShaInv /\ [ShaNext]_shaVars => ShaInv'
<1> SUFFICES ASSUME ShaInv, [ShaNext]_shaVars PROVE ShaInv'
  OBVIOUS
<1>1. CASE Starts
  BY <1>1, StartsStep
<1>2. CASE \E n \in 1..MaxMessage : Update(n)
  BY <1>2, UpdateStep
<1>3. CASE Finish
  BY <1>3, FinishStep
<1>4. CASE UNCHANGED shaVars
  <2>1. UNCHANGED <<hashes, fed, total, buffer, held, blocks, finished>>
    BY <1>4 DEF shaVars
  <2>2. Padded' = Padded
    BY <2>1, PaddedIs
  <2> QED BY <2>1, <2>2 DEF ShaInv
<1> QED BY <1>1, <1>2, <1>3, <1>4 DEF ShaNext

LEMMA ShaInvariant == ShaSpec => []ShaInv
<1> QED BY ShaStart, ShaStep, PTL DEF ShaSpec

(* The digest is computed from the padded message and nothing else, for    *)
(* every size of a block and of its length field, and however the message  *)
(* is cut: what was hashed is the message as far as the last whole block,  *)
(* the buffer holds the rest, and what the buffer still has of an earlier  *)
(* message reaches no block.                                               *)
THEOREM HashCorrect == ShaSpec => []HashesTheMessage
<1>1. ShaInv => HashesTheMessage
  <2> SUFFICES ASSUME ShaInv, hashes > 0
               PROVE  FlattenSeq(blocks) =
                        IF finished THEN Padded ELSE SubSeq(Message, 1, fed - held)
    BY DEF HashesTheMessage
  <2>1. CASE finished
    BY <2>1 DEF ShaInv
  <2>2. CASE ~finished
    <3>1. PICK k : Fits(hashes, fed, buffer, held, blocks, k)
      BY <2>2 DEF ShaInv
    <3> DEFINE x == k * BlockSize
    <3>2. /\ k \in Nat /\ held \in Nat /\ fed = x + held /\ x \in Nat /\ fed \in Nat
          /\ blocks = BlocksOf(hashes, k)
      BY <3>1, BlockSizeIs, Product DEF Fits, ShaInv
    <3>3. OfLength(Message, fed) /\ \A p \in 1..fed : Message[p] = ByteAtOf(hashes, p)
      <4>1. Message = [ p \in 1..fed |-> Message[p] ]
        BY DEF Message
      <4>2. \A p \in 1..fed : Message[p] = ByteAtOf(hashes, p)
        BY BytesAre DEF Message
      <4> QED BY <4>1, <4>2, <3>2, ArrayOfLength
    <3>4. \A j \in 1..k, i \in 1..BlockSize : (j - 1) * BlockSize + i \in 1..x
      BY <3>2, BlockSizeIs, InBlocks
    <3> DEFINE c == SubSeq(Message, 1, x)
    <3>5. Piece(c, Message, 0, x)
      <4> HIDE DEF x
      <4>1. 0 + x <= fed /\ 0 + 1 = 1 /\ 0 + x = x
        BY <3>2
      <4>2. Piece(SubSeq(Message, 0 + 1, 0 + x), Message, 0, x)
        BY <3>2, <3>3, <4>1, CutAt
      <4> QED BY <4>1, <4>2
    <3> HIDE DEF c, x
    <3>6. OfLength(c, x) /\ \A p \in 1..x : c[p] = ByteAtOf(hashes, p)
      <4>1. OfLength(c, x) /\ \A p \in 1..x : c[p] = Message[0 + p]
        BY <3>5 DEF Piece
      <4>2. ASSUME NEW p \in 1..x PROVE c[p] = ByteAtOf(hashes, p)
        <5>1. 0 + p = p /\ p \in 1..fed
          BY <3>2
        <5> QED BY <4>1, <5>1, <3>3
      <4> QED BY <4>1, <4>2
    <3>7. Carries(c, blocks, k)
      <4>1. /\ Blocky(blocks, k, BlockSize)
            /\ \A j \in 1..k, i \in 1..BlockSize :
                 blocks[j][i] = ByteAtOf(hashes, (j - 1) * BlockSize + i)
        BY <3>2, BlocksAre
      <4>2. ASSUME NEW j \in 1..k, NEW i \in 1..BlockSize
            PROVE  c[(j - 1) * BlockSize + i] = blocks[j][i]
        <5> DEFINE p == (j - 1) * BlockSize + i
        <5>1. p \in 1..x /\ blocks[j][i] = ByteAtOf(hashes, p)
          BY <3>4, <4>1
        <5> HIDE DEF p
        <5>2. c[p] = ByteAtOf(hashes, p)
          BY <5>1, <3>6
        <5> QED BY <5>1, <5>2 DEF p
      <4> QED BY <4>1, <4>2 DEF Carries
    <3>8. FlattenSeq(blocks) = c
      BY <3>2, <3>6, <3>7, CarriesAll DEF x
    <3>9. fed - held = x
      BY <3>2
    <3> QED BY <2>2, <3>8, <3>9 DEF c
  <2> QED BY <2>1, <2>2
<1> QED BY <1>1, ShaInvariant, PTL

(***************************************************************************)
(* The decoder.  First the functions that it accumulates in.               *)
(***************************************************************************)

\* f is the accumulation of d from c, each time multiplied by a.
Accumulates(f, a, c, d, N) ==
  /\ f \in [0..N -> Int] /\ f[0] = c
  /\ \A n \in 1..N : f[n] = a * f[n - 1] + d[n]

LEMMA AccumulationExists ==
  ASSUME NEW N \in Nat, NEW a \in Int, NEW c \in Int, NEW d \in [1..N -> Int]
  PROVE  \E f : Accumulates(f, a, c, d, N)
<1> DEFINE Upto(f, k) == /\ f \in [0..k -> Int] /\ f[0] = c
                         /\ \A n \in 1..k : f[n] = a * f[n - 1] + d[n]
           Built(k) == \E f : Upto(f, k)
           T == { k \in Nat : k <= N => Built(k) }
<1>1. 0 \in T
  <2> DEFINE g == [ n \in 0..0 |-> c ]
  <2>1. Upto(g, 0)
    OBVIOUS
  <2>2. Built(0)
    BY <2>1
  <2> QED BY <2>2
<1>2. ASSUME NEW k \in T PROVE k + 1 \in T
  <2> SUFFICES ASSUME k + 1 <= N PROVE Built(k + 1)
    <3> HIDE DEF Built
    <3> QED OBVIOUS
  <2>1. k \in Nat /\ k <= N /\ k + 1 \in 1..N
    OBVIOUS
  <2>2. PICK f : Upto(f, k)
    BY <2>1
  <2> DEFINE v == a * f[k] + d[k + 1]
             g == [ n \in 0..(k + 1) |-> IF n <= k THEN f[n] ELSE v ]
  <2>3. f[k] \in Int /\ d[k + 1] \in Int
    BY <2>1, <2>2
  <2>4. v \in Int
    <3> DEFINE x == f[k]
    <3>1. x \in Int
      BY <2>3
    <3> HIDE DEF x
    <3>2. a * x \in Int
      BY <3>1, SMT
    <3> QED BY <3>2, <2>3 DEF x
  <2> HIDE DEF v
  <2>5. \A n \in 0..k : g[n] = f[n] /\ f[n] \in Int
    BY <2>1, <2>2
  <2>6. g[k + 1] = v
    BY <2>1
  <2>7. g \in [0..(k + 1) -> Int]
    <3> HIDE DEF g
    <3>1. \A n \in 0..(k + 1) : g[n] \in Int
      <4> SUFFICES ASSUME NEW n \in 0..(k + 1) PROVE g[n] \in Int
        OBVIOUS
      <4>1. n \in 0..k \/ n = k + 1
        BY <2>1
      <4> QED BY <4>1, <2>4, <2>5, <2>6
    <3>2. g = [ n \in 0..(k + 1) |-> g[n] ]
      BY DEF g
    <3> QED BY <3>1, <3>2
  <2> HIDE DEF g
  <2>8. ASSUME NEW n \in 1..(k + 1) PROVE g[n] = a * g[n - 1] + d[n]
    <3>1. n - 1 \in 0..k
      BY <2>1
    <3>2. CASE n = k + 1
      <4>1. n - 1 = k
        BY <2>1, <3>2
      <4> QED BY <2>5, <2>6, <3>1, <3>2, <4>1 DEF v
    <3>3. CASE n # k + 1
      <4>1. n \in 1..k /\ n \in 0..k
        BY <2>1, <3>3
      <4> QED BY <2>2, <2>5, <3>1, <4>1
    <3> QED BY <3>2, <3>3
  <2>9. g[0] = c
    BY <2>1, <2>2, <2>5
  <2>10. Upto(g, k + 1)
    BY <2>7, <2>8, <2>9
  <2> QED BY <2>10
<1>3. T = Nat
  <2> HIDE DEF T
  <2>1. T \in SUBSET Nat
    BY DEF T
  <2> QED BY <1>1, <1>2, <2>1, NatInduct
<1>4. Built(N)
  <2> HIDE DEF Built
  <2> QED BY <1>3
<1>5. PICK f : Upto(f, N)
  BY <1>4
<1>6. Accumulates(f, a, c, d, N)
  BY <1>5 DEF Accumulates
<1> QED BY <1>6

LEMMA StaysInt ==
  ASSUME NEW F, NEW N \in Nat, F[0] \in Int, \A n \in 1..N : F[n - 1] \in Int => F[n] \in Int
  PROVE  \A n \in 0..N : F[n] \in Int
<1> DEFINE T == { n \in Nat : n <= N => F[n] \in Int }
<1>1. 0 \in T
  OBVIOUS
<1>2. ASSUME NEW n \in T PROVE n + 1 \in T
  <2> SUFFICES ASSUME n + 1 <= N PROVE F[n + 1] \in Int
    OBVIOUS
  <2>1. n + 1 \in 1..N /\ (n + 1) - 1 = n /\ F[n] \in Int
    OBVIOUS
  <2> QED BY <2>1
<1> HIDE DEF T
<1>3. T \in SUBSET Nat
  BY DEF T
<1>4. T = Nat
  BY <1>1, <1>2, <1>3, NatInduct
<1> QED BY <1>4 DEF T

\* The functions of DecodeSymbol() and ReadBits().
Sums(tree) ==
  CHOOSE sum : sum = [ n \in 0..15 |-> IF n = 0 THEN 0 ELSE sum[n - 1] + tree.table[n] ]

Curs(p, tree) ==
  CHOOSE cur : cur = [ n \in 0..15 |->
    IF n = 0 THEN 0 ELSE 2 * cur[n - 1] + BitAt(p + n - 1) - tree.table[n] ]

Vals(p, num, from) ==
  CHOOSE val : val = [ n \in 0..num |->
    IF n = 0 THEN from ELSE val[n - 1] + 2^(n - 1) * BitAt(p + n - 1) ]

Below0(cur) == { n \in 1..15 : cur[n] < 0 }

LEMMA DecodeIs ==
  ASSUME NEW p, NEW tree
  PROVE  DecodeSymbol(p, tree) =
           IF Below0(Curs(p, tree)) = {} THEN [ sym |-> TINF_DATA_ERROR, next |-> p + 16 ]
           ELSE [ sym |-> tree.trans[Sums(tree)[Min(Below0(Curs(p, tree)))]
                                       + Curs(p, tree)[Min(Below0(Curs(p, tree)))]],
                  next |-> p + Min(Below0(Curs(p, tree))) ]
BY DEF DecodeSymbol, Sums, Curs, Below0

LEMMA ReadIs ==
  ASSUME NEW p, NEW num, NEW from PROVE ReadBits(p, num, from) = Vals(p, num, from)[num]
BY DEF ReadBits, Vals

\* A table of how many codes there are of each length.
Counts(tree) == \A n \in 0..15 : tree.table[n] \in Int

LEMMA SumSteps ==
  ASSUME NEW tree, Counts(tree)
  PROVE  /\ Sums(tree)[0] = 0
         /\ \A n \in 1..15 : /\ Sums(tree)[n] \in Int /\ Sums(tree)[n - 1] \in Int
                             /\ Sums(tree)[n] = Sums(tree)[n - 1] + tree.table[n]
<1> DEFINE d == [ n \in 1..15 |-> tree.table[n] ]
<1>1. d \in [1..15 -> Int]
  BY DEF Counts
<1>2. PICK f : Accumulates(f, 1, 0, d, 15)
  <2> HIDE DEF d
  <2>1. 15 \in Nat /\ 1 \in Int /\ 0 \in Int
    OBVIOUS
  <2> QED BY <2>1, <1>1, AccumulationExists
<1>3. \A n \in 1..15 : n \in 0..15 /\ n - 1 \in 0..15 /\ n # 0 /\ d[n] = tree.table[n]
  OBVIOUS
<1>4. \A n \in 0..15 : n # 0 => n \in 1..15
  OBVIOUS
<1>5. \A n \in 1..15 : f[n] \in Int /\ f[n - 1] \in Int /\ f[n] = f[n - 1] + tree.table[n]
  <2> SUFFICES ASSUME NEW n \in 1..15
               PROVE  f[n] \in Int /\ f[n - 1] \in Int /\ f[n] = f[n - 1] + tree.table[n]
    OBVIOUS
  <2>1. f[n] \in Int /\ f[n - 1] \in Int /\ d[n] \in Int
    BY <1>1, <1>2, <1>3 DEF Accumulates
  <2>2. f[n] = 1 * f[n - 1] + d[n]
    BY <1>2 DEF Accumulates
  <2> QED BY <1>3, <2>1, <2>2
<1>6. f = [ n \in 0..15 |-> IF n = 0 THEN 0 ELSE f[n - 1] + tree.table[n] ]
  BY <1>2, <1>4, <1>5, Zenon DEF Accumulates
<1>7. Sums(tree) = [ n \in 0..15 |-> IF n = 0 THEN 0 ELSE Sums(tree)[n - 1] + tree.table[n] ]
  BY <1>6 DEF Sums
<1> DEFINE F == Sums(tree)
<1> HIDE DEF F
<1>8. F = [ n \in 0..15 |-> IF n = 0 THEN 0 ELSE F[n - 1] + tree.table[n] ]
  BY <1>7 DEF F
<1>9. F[0] = 0 /\ \A n \in 1..15 : F[n] = F[n - 1] + tree.table[n]
  BY <1>3, <1>8
<1>10. \A n \in 1..15 : F[n - 1] \in Int => F[n] \in Int
  BY <1>9 DEF Counts
<1>11. \A n \in 0..15 : F[n] \in Int
  <2>1. 15 \in Nat /\ F[0] \in Int
    BY <1>9
  <2> QED BY <2>1, <1>10, StaysInt
<1>12. \A n \in 1..15 : F[n] \in Int /\ F[n - 1] \in Int
  BY <1>3, <1>11
<1> QED BY <1>9, <1>12 DEF F

(* What has arrived of a file. *)
FileBits == bits \in Seq({0, 1}) /\ limit \in Nat /\ 8 * limit <= Len(bits)

LEMMA BitType == ASSUME FileBits, NEW q \in Nat PROVE BitAt(q) \in {0, 1}
<1>1. CASE q < 8 * limit
  <2>1. Len(bits) \in Nat
    BY LenProperties DEF FileBits
  <2>2. q + 1 \in 1..Len(bits)
    BY <1>1, <2>1 DEF FileBits
  <2>3. bits[q + 1] \in {0, 1}
    BY <2>2, ElementOfSeq DEF FileBits
  <2> QED BY <1>1, <2>3 DEF BitAt
<1>2. CASE ~(q < 8 * limit)
  BY <1>2 DEF BitAt
<1> QED BY <1>1, <1>2

LEMMA CurSteps ==
  ASSUME FileBits, NEW p \in Nat, NEW tree, Counts(tree)
  PROVE  /\ Curs(p, tree)[0] = 0
         /\ \A n \in 1..15 :
              /\ Curs(p, tree)[n] \in Int /\ Curs(p, tree)[n - 1] \in Int
              /\ Curs(p, tree)[n] =
                   2 * Curs(p, tree)[n - 1] + BitAt(p + n - 1) - tree.table[n]
<1> DEFINE d == [ n \in 1..15 |-> BitAt(p + n - 1) - tree.table[n] ]
<1>1. \A n \in 1..15 : BitAt(p + n - 1) \in Int /\ tree.table[n] \in Int
  <2> SUFFICES ASSUME NEW n \in 1..15
               PROVE  BitAt(p + n - 1) \in Int /\ tree.table[n] \in Int
    OBVIOUS
  <2>1. p + n - 1 \in Nat
    OBVIOUS
  <2>2. BitAt(p + n - 1) \in {0, 1}
    BY <2>1, BitType
  <2> QED BY <2>2 DEF Counts
<1>2. d \in [1..15 -> Int]
  BY <1>1
<1>3. PICK f : Accumulates(f, 2, 0, d, 15)
  <2> HIDE DEF d
  <2>1. 15 \in Nat /\ 2 \in Int /\ 0 \in Int
    OBVIOUS
  <2> QED BY <2>1, <1>2, AccumulationExists
<1>4. \A n \in 1..15 : /\ n \in 0..15 /\ n - 1 \in 0..15 /\ n # 0
                        /\ d[n] = BitAt(p + n - 1) - tree.table[n]
  OBVIOUS
<1>5. \A n \in 0..15 : n # 0 => n \in 1..15
  OBVIOUS
<1> HIDE DEF d
<1>6. \A n \in 1..15 : f[n] = 2 * f[n - 1] + BitAt(p + n - 1) - tree.table[n]
  <2> SUFFICES ASSUME NEW n \in 1..15
               PROVE  f[n] = 2 * f[n - 1] + BitAt(p + n - 1) - tree.table[n]
    OBVIOUS
  <2>1. f[n] \in Int /\ f[n - 1] \in Int
    BY <1>3, <1>4 DEF Accumulates
  <2>2. f[n] = 2 * f[n - 1] + d[n]
    BY <1>3 DEF Accumulates
  <2> QED BY <1>1, <1>4, <2>1, <2>2
<1>7. f = [ n \in 0..15 |->
              IF n = 0 THEN 0 ELSE 2 * f[n - 1] + BitAt(p + n - 1) - tree.table[n] ]
  BY <1>3, <1>5, <1>6, Zenon DEF Accumulates
<1> DEFINE F == Curs(p, tree)
<1>8. F = [ n \in 0..15 |->
              IF n = 0 THEN 0 ELSE 2 * F[n - 1] + BitAt(p + n - 1) - tree.table[n] ]
  BY <1>7 DEF Curs
<1> HIDE DEF F
<1>9. F[0] = 0 /\ \A n \in 1..15 : F[n] = 2 * F[n - 1] + BitAt(p + n - 1) - tree.table[n]
  BY <1>4, <1>8
<1>10. \A n \in 1..15 : F[n - 1] \in Int => F[n] \in Int
  BY <1>1, <1>9
<1>11. \A n \in 0..15 : F[n] \in Int
  <2>1. 15 \in Nat /\ F[0] \in Int
    BY <1>9
  <2> QED BY <2>1, <1>10, StaysInt
<1>12. \A n \in 1..15 : F[n] \in Int /\ F[n - 1] \in Int
  BY <1>4, <1>11
<1> QED BY <1>9, <1>12 DEF F

LEMMA Powers ==
  /\ 2^0 = 1 /\ 2^1 = 2 /\ 2^2 = 4 /\ 2^3 = 8 /\ 2^4 = 16 /\ 2^5 = 32 /\ 2^6 = 64
  /\ 2^7 = 128 /\ 2^8 = 256 /\ 2^9 = 512 /\ 2^10 = 1024 /\ 2^11 = 2048 /\ 2^12 = 4096
  /\ 2^13 = 8192
BY SMT

LEMMA PowerType == ASSUME NEW k \in 0..13 PROVE 2^k \in Nat /\ 2^k > 0
<1>0. CASE k = 0
  BY <1>0, 2^0 \in Nat /\ 2^0 > 0, Zenon
<1>1. CASE k = 1
  BY <1>1, 2^1 \in Nat /\ 2^1 > 0, Zenon
<1>2. CASE k = 2
  BY <1>2, 2^2 \in Nat /\ 2^2 > 0, Zenon
<1>3. CASE k = 3
  BY <1>3, 2^3 \in Nat /\ 2^3 > 0, Zenon
<1>4. CASE k = 4
  BY <1>4, 2^4 \in Nat /\ 2^4 > 0, Zenon
<1>5. CASE k = 5
  BY <1>5, 2^5 \in Nat /\ 2^5 > 0, Zenon
<1>6. CASE k = 6
  BY <1>6, 2^6 \in Nat /\ 2^6 > 0, Zenon
<1>7. CASE k = 7
  BY <1>7, 2^7 \in Nat /\ 2^7 > 0, Zenon
<1>8. CASE k = 8
  BY <1>8, 2^8 \in Nat /\ 2^8 > 0, Zenon
<1>9. CASE k = 9
  BY <1>9, 2^9 \in Nat /\ 2^9 > 0, Zenon
<1>10. CASE k = 10
  BY <1>10, 2^10 \in Nat /\ 2^10 > 0, Zenon
<1>11. CASE k = 11
  BY <1>11, 2^11 \in Nat /\ 2^11 > 0, Zenon
<1>12. CASE k = 12
  BY <1>12, 2^12 \in Nat /\ 2^12 > 0, Zenon
<1>13. CASE k = 13
  BY <1>13, 2^13 \in Nat /\ 2^13 > 0, Zenon
<1> QED BY <1>0, <1>1, <1>2, <1>3, <1>4, <1>5, <1>6, <1>7, <1>8, <1>9, <1>10, <1>11, <1>12, <1>13

LEMMA ValSteps ==
  ASSUME FileBits, NEW p \in Nat, NEW num \in 0..13, NEW from \in Nat
  PROVE  /\ Vals(p, num, from)[0] = from
         /\ \A n \in 1..num :
              /\ Vals(p, num, from)[n] \in Int /\ Vals(p, num, from)[n - 1] \in Int
              /\ Vals(p, num, from)[n] =
                   Vals(p, num, from)[n - 1] + 2^(n - 1) * BitAt(p + n - 1)
<1> DEFINE e(n) == 2^(n - 1) * BitAt(p + n - 1)
           d == [ n \in 1..num |-> e(n) ]
<1>1. \A n \in 1..num : e(n) \in Int
  <2> SUFFICES ASSUME NEW n \in 1..num PROVE e(n) \in Int
    OBVIOUS
  <2> DEFINE x == 2^(n - 1)
             y == BitAt(p + n - 1)
  <2>1. p + n - 1 \in Nat /\ n - 1 \in 0..13
    OBVIOUS
  <2>2. y \in {0, 1} /\ x \in Nat
    BY <2>1, BitType, PowerType
  <2> HIDE DEF x, y
  <2>3. x * y \in Int
    BY <2>2
  <2> QED BY <2>3 DEF x, y
<1> HIDE DEF e
<1>2. d \in [1..num -> Int]
  BY <1>1
<1>3. PICK f : Accumulates(f, 1, from, d, num)
  <2> HIDE DEF d
  <2>1. num \in Nat /\ 1 \in Int /\ from \in Int
    OBVIOUS
  <2> QED BY <2>1, <1>2, AccumulationExists
<1>4. \A n \in 1..num : n \in 0..num /\ n - 1 \in 0..num /\ n # 0 /\ d[n] = e(n)
  OBVIOUS
<1>5. \A n \in 0..num : n # 0 => n \in 1..num
  OBVIOUS
<1> HIDE DEF d
<1>6. \A n \in 1..num : f[n] = f[n - 1] + e(n)
  <2> SUFFICES ASSUME NEW n \in 1..num PROVE f[n] = f[n - 1] + e(n)
    OBVIOUS
  <2>1. f[n] \in Int /\ f[n - 1] \in Int
    BY <1>3, <1>4 DEF Accumulates
  <2>2. f[n] = 1 * f[n - 1] + d[n]
    BY <1>3 DEF Accumulates
  <2> QED BY <1>1, <1>4, <2>1, <2>2
<1>7. f = [ n \in 0..num |-> IF n = 0 THEN from ELSE f[n - 1] + e(n) ]
  BY <1>3, <1>5, <1>6 DEF Accumulates
<1> DEFINE F == Vals(p, num, from)
<1>8. F = [ n \in 0..num |-> IF n = 0 THEN from ELSE F[n - 1] + e(n) ]
  BY <1>7 DEF Vals, e
<1> HIDE DEF F
<1>9. F[0] = from /\ \A n \in 1..num : F[n] = F[n - 1] + e(n)
  <2>1. 0 \in 0..num
    OBVIOUS
  <2> QED BY <1>4, <1>8, <2>1
<1>10. \A n \in 1..num : F[n - 1] \in Int => F[n] \in Int
  BY <1>1, <1>9
<1>11. \A n \in 0..num : F[n] \in Int
  <2>1. num \in Nat /\ F[0] \in Int
    BY <1>9
  <2> QED BY <2>1, <1>10, StaysInt
<1>12. \A n \in 1..num : F[n] \in Int /\ F[n - 1] \in Int
  BY <1>4, <1>11
<1> QED BY <1>9, <1>12 DEF F, e

LEMMA NextDigit ==
  ASSUME NEW v \in Nat, NEW k \in 0..12
  PROVE  v % 2^(k + 1) = (v % 2^k) + 2^k * ((v \div 2^k) % 2)
<1>0. CASE k = 0
  <2> DEFINE x == 2^0
             y == 2^(0 + 1)
  <2>1. x = 1 /\ y = 2
    BY SMT
  <2> HIDE DEF x, y
  <2>2. v % y = (v % x) + x * ((v \div x) % 2)
    BY <2>1, SMT
  <2> QED BY <1>0, <2>2, Zenon DEF x, y
<1>1. CASE k = 1
  <2> DEFINE x == 2^1
             y == 2^(1 + 1)
  <2>1. x = 2 /\ y = 4
    BY SMT
  <2> HIDE DEF x, y
  <2>2. v % y = (v % x) + x * ((v \div x) % 2)
    BY <2>1, SMT
  <2> QED BY <1>1, <2>2, Zenon DEF x, y
<1>2. CASE k = 2
  <2> DEFINE x == 2^2
             y == 2^(2 + 1)
  <2>1. x = 4 /\ y = 8
    BY SMT
  <2> HIDE DEF x, y
  <2>2. v % y = (v % x) + x * ((v \div x) % 2)
    BY <2>1, SMT
  <2> QED BY <1>2, <2>2, Zenon DEF x, y
<1>3. CASE k = 3
  <2> DEFINE x == 2^3
             y == 2^(3 + 1)
  <2>1. x = 8 /\ y = 16
    BY SMT
  <2> HIDE DEF x, y
  <2>2. v % y = (v % x) + x * ((v \div x) % 2)
    BY <2>1, SMT
  <2> QED BY <1>3, <2>2, Zenon DEF x, y
<1>4. CASE k = 4
  <2> DEFINE x == 2^4
             y == 2^(4 + 1)
  <2>1. x = 16 /\ y = 32
    BY SMT
  <2> HIDE DEF x, y
  <2>2. v % y = (v % x) + x * ((v \div x) % 2)
    BY <2>1, SMT
  <2> QED BY <1>4, <2>2, Zenon DEF x, y
<1>5. CASE k = 5
  <2> DEFINE x == 2^5
             y == 2^(5 + 1)
  <2>1. x = 32 /\ y = 64
    BY SMT
  <2> HIDE DEF x, y
  <2>2. v % y = (v % x) + x * ((v \div x) % 2)
    BY <2>1, SMT
  <2> QED BY <1>5, <2>2, Zenon DEF x, y
<1>6. CASE k = 6
  <2> DEFINE x == 2^6
             y == 2^(6 + 1)
  <2>1. x = 64 /\ y = 128
    BY SMT
  <2> HIDE DEF x, y
  <2>2. v % y = (v % x) + x * ((v \div x) % 2)
    BY <2>1, SMT
  <2> QED BY <1>6, <2>2, Zenon DEF x, y
<1>7. CASE k = 7
  <2> DEFINE x == 2^7
             y == 2^(7 + 1)
  <2>1. x = 128 /\ y = 256
    BY SMT
  <2> HIDE DEF x, y
  <2>2. v % y = (v % x) + x * ((v \div x) % 2)
    BY <2>1, SMT
  <2> QED BY <1>7, <2>2, Zenon DEF x, y
<1>8. CASE k = 8
  <2> DEFINE x == 2^8
             y == 2^(8 + 1)
  <2>1. x = 256 /\ y = 512
    BY SMT
  <2> HIDE DEF x, y
  <2>2. v % y = (v % x) + x * ((v \div x) % 2)
    BY <2>1, SMT
  <2> QED BY <1>8, <2>2, Zenon DEF x, y
<1>9. CASE k = 9
  <2> DEFINE x == 2^9
             y == 2^(9 + 1)
  <2>1. x = 512 /\ y = 1024
    BY SMT
  <2> HIDE DEF x, y
  <2>2. v % y = (v % x) + x * ((v \div x) % 2)
    BY <2>1, SMT
  <2> QED BY <1>9, <2>2, Zenon DEF x, y
<1>10. CASE k = 10
  <2> DEFINE x == 2^10
             y == 2^(10 + 1)
  <2>1. x = 1024 /\ y = 2048
    BY SMT
  <2> HIDE DEF x, y
  <2>2. v % y = (v % x) + x * ((v \div x) % 2)
    BY <2>1, SMT
  <2> QED BY <1>10, <2>2, Zenon DEF x, y
<1>11. CASE k = 11
  <2> DEFINE x == 2^11
             y == 2^(11 + 1)
  <2>1. x = 2048 /\ y = 4096
    BY SMT
  <2> HIDE DEF x, y
  <2>2. v % y = (v % x) + x * ((v \div x) % 2)
    BY <2>1, SMT
  <2> QED BY <1>11, <2>2, Zenon DEF x, y
<1>12. CASE k = 12
  <2> DEFINE x == 2^12
             y == 2^(12 + 1)
  <2>1. x = 4096 /\ y = 8192
    BY SMT
  <2> HIDE DEF x, y
  <2>2. v % y = (v % x) + x * ((v \div x) % 2)
    BY <2>1, SMT
  <2> QED BY <1>12, <2>2, Zenon DEF x, y
<1> QED BY <1>0, <1>1, <1>2, <1>3, <1>4, <1>5, <1>6, <1>7, <1>8, <1>9, <1>10, <1>11, <1>12

\* The decoder gets the num bits of v, the lowest first.
Valued(p, num, v) == \A j \in 1..num : BitAt(p + j - 1) = (v \div 2^(j - 1)) % 2

\* v has n binary digits.
InBits(v, n) == v < 2^n

(* Bits are read as the number that they are the digits of. *)
LEMMA ReadsBack ==
  ASSUME FileBits, NEW p \in Nat, NEW num \in 0..13, NEW from \in Nat,
         NEW v \in Nat, InBits(v, num), Valued(p, num, v)
  PROVE  ReadBits(p, num, from) = from + v
<1> DEFINE F == Vals(p, num, from)
           Low(n) == v % 2^n
           T == { n \in Nat : n <= num => F[n] = from + Low(n) }
<1>1. /\ F[0] = from
      /\ \A n \in 1..num : /\ F[n] \in Int /\ F[n - 1] \in Int
                           /\ F[n] = F[n - 1] + 2^(n - 1) * BitAt(p + n - 1)
  BY ValSteps
<1> HIDE DEF F
<1>2. 0 \in T
  <2>1. 2^0 = 1 /\ v % 1 = 0
    BY SMT
  <2>2. Low(0) = 0
    BY <2>1, Zenon
  <2> HIDE DEF Low
  <2>3. F[0] = from + Low(0)
    BY <1>1, <2>2
  <2> QED BY <2>3
<1>3. ASSUME NEW k \in T PROVE k + 1 \in T
  <2> DEFINE x == 2^k
             y == (v \div 2^k) % 2
  <2> SUFFICES ASSUME k + 1 <= num PROVE F[k + 1] = from + Low(k + 1)
    <3> HIDE DEF Low
    <3> QED OBVIOUS
  <2>1. k \in 0..12 /\ k \in 0..13 /\ k + 1 \in 1..num /\ (k + 1) - 1 = k
    OBVIOUS
  <2>2. Low(k + 1) = Low(k) + x * y /\ x * y \in Int /\ Low(k) \in Int
    <3>1. Low(k + 1) = Low(k) + x * y
      BY <2>1, NextDigit
    <3>2. x \in Nat /\ x > 0
      BY <2>1, PowerType
    <3> DEFINE q == v \div x
               r == v % x
    <3>3. y = q % 2 /\ Low(k) = r
      OBVIOUS
    <3> HIDE DEF x
    <3>4. q \in Int /\ r \in Int
      BY <3>2
    <3> HIDE DEF q, r, y, Low
    <3>5. y \in Int /\ Low(k) \in Int
      BY <3>3, <3>4
    <3> QED BY <3>1, <3>2, <3>5
  <2> HIDE DEF Low
  <2>3. BitAt(p + (k + 1) - 1) = y
    <3>1. BitAt(p + (k + 1) - 1) = (v \div 2^((k + 1) - 1)) % 2
      BY <2>1 DEF Valued
    <3> QED BY <2>1, <3>1
  <2>4. F[k + 1] = F[k] + x * y
    <3>1. F[k + 1] = F[(k + 1) - 1] + 2^((k + 1) - 1) * BitAt(p + (k + 1) - 1)
      BY <1>1, <2>1
    <3> HIDE DEF y
    <3> QED BY <3>1, <2>1, <2>3
  <2>5. F[k] = from + Low(k)
    <3>1. k <= num
      BY <2>1
    <3> QED BY <3>1
  <2> HIDE DEF x, y
  <2> QED BY <2>2, <2>4, <2>5
<1>4. Low(num) = v
  <2> DEFINE x == 2^num
  <2>1. x \in Nat /\ x > 0 /\ v < x
    BY PowerType DEF InBits
  <2> HIDE DEF x
  <2>2. v % x = v
    BY <2>1
  <2> QED BY <2>2 DEF x
<1> HIDE DEF T, Low
<1>5. T \in SUBSET Nat
  BY DEF T
<1>6. T = Nat
  BY <1>2, <1>3, <1>5, NatInduct
<1>7. F[num] = from + Low(num)
  BY <1>6 DEF T
<1> QED BY <1>4, <1>7, ReadIs DEF F

(* Past what has arrived there are zeros. *)
LEMMA ReadsNothing ==
  ASSUME FileBits, NEW p \in Nat, NEW num \in 0..13, NEW from \in Nat, 8 * limit <= p
  PROVE  ReadBits(p, num, from) = from
<1> DEFINE x == 2^num
<1>1. x \in Nat /\ x > 0
  BY PowerType
<1> HIDE DEF x
<1>2. InBits(0, num)
  BY <1>1 DEF x, InBits
<1>3. ASSUME NEW j \in 1..num PROVE BitAt(p + j - 1) = (0 \div 2^(j - 1)) % 2
  <2>1. ~(p + j - 1 < 8 * limit)
    BY DEF FileBits
  <2>2. BitAt(p + j - 1) = 0
    BY <2>1 DEF BitAt
  <2> DEFINE y == 2^(j - 1)
  <2>3. j - 1 \in 0..13
    OBVIOUS
  <2>4. y \in Nat /\ y > 0
    BY <2>3, PowerType
  <2> HIDE DEF y
  <2>5. (0 \div y) % 2 = 0
    BY <2>4
  <2> QED BY <2>2, <2>5 DEF y
<1>4. Valued(p, num, 0)
  BY <1>3 DEF Valued
<1>5. ReadBits(p, num, from) = from + 0
  BY <1>2, <1>4, ReadsBack
<1> QED BY <1>5

\* b holds the n elements of c from place p on.
Written(b, p, c, n) == \A i \in 1..n : b[p + i] = c[i]

LEMMA WrittenBit ==
  ASSUME FileBits, NEW p \in Nat, NEW c, NEW n \in Nat, Written(bits, p, c, n),
         NEW i \in 1..n, p + i <= 8 * limit
  PROVE  BitAt(p + i - 1) = c[i]
<1>1. p + i - 1 < 8 * limit /\ (p + i - 1) + 1 = p + i
  BY DEF FileBits
<1>2. bits[p + i] = c[i]
  BY DEF Written
<1> QED BY <1>1, <1>2 DEF BitAt

LEMMA WrittenValue ==
  ASSUME FileBits, NEW p \in Nat, NEW n \in Nat, NEW v, Written(bits, p, OutBits(v, n), n),
         p + n <= 8 * limit
  PROVE  Valued(p, n, v)
<1> SUFFICES ASSUME NEW j \in 1..n PROVE BitAt(p + j - 1) = (v \div 2^(j - 1)) % 2
  BY DEF Valued
<1>1. p + j <= 8 * limit
  BY DEF FileBits
<1>2. BitAt(p + j - 1) = OutBits(v, n)[j]
  BY <1>1, WrittenBit
<1> QED BY <1>2 DEF OutBits

(***************************************************************************)
(* Decoding a symbol.                                                      *)
(***************************************************************************)

LEMMA DecodeAt ==
  ASSUME NEW p \in Nat, NEW tree, NEW m \in 1..15, Curs(p, tree)[m] < 0,
         \A n \in 1..15 : Curs(p, tree)[n] \in Int,
         \A n \in 1..15 : n < m => Curs(p, tree)[n] >= 0
  PROVE  DecodeSymbol(p, tree) =
           [ sym |-> tree.trans[Sums(tree)[m] + Curs(p, tree)[m]], next |-> p + m ]
<1> DEFINE S == Below0(Curs(p, tree))
<1>1. m \in S
  BY DEF Below0
<1>2. \A n \in S : n \in 1..15 /\ m <= n
  <2> SUFFICES ASSUME NEW n \in S, ~(m <= n) PROVE FALSE
    BY DEF Below0
  <2>1. n \in 1..15 /\ Curs(p, tree)[n] < 0
    BY DEF Below0
  <2>2. n < m /\ Curs(p, tree)[n] >= 0 /\ Curs(p, tree)[n] \in Int
    BY <2>1
  <2> QED BY <2>1, <2>2
<1> HIDE DEF S
<1>3. Min(S) = m
  <2> DEFINE P(x) == x \in S /\ \A y \in S : x <= y
  <2>1. P(m)
    BY <1>1, <1>2
  <2>2. Min(S) \in S /\ \A y \in S : Min(S) <= y
    BY <2>1 DEF Min
  <2>3. Min(S) <= m /\ m <= Min(S) /\ Min(S) \in 1..15
    BY <1>1, <1>2, <2>2
  <2> QED BY <2>3
<1>4. S # {}
  BY <1>1
<1> QED BY <1>3, <1>4, DecodeIs DEF S

LEMMA DecodeBeyond ==
  ASSUME NEW p \in Nat, NEW tree, NEW r \in 0..15,
         \A n \in 1..15 : Curs(p, tree)[n] \in Int,
         \A n \in 1..15 : n <= r => Curs(p, tree)[n] >= 0
  PROVE  DecodeSymbol(p, tree).next \in Nat /\ DecodeSymbol(p, tree).next > p + r
<1> DEFINE S == Below0(Curs(p, tree))
<1>1. \A n \in S : n \in 1..15 /\ n > r
  <2> SUFFICES ASSUME NEW n \in S, ~(n > r) PROVE FALSE
    BY DEF Below0
  <2>1. n \in 1..15 /\ Curs(p, tree)[n] < 0
    BY DEF Below0
  <2>2. n <= r /\ Curs(p, tree)[n] >= 0 /\ Curs(p, tree)[n] \in Int
    BY <2>1
  <2> QED BY <2>1, <2>2
<1>2. CASE S = {}
  <2>1. DecodeSymbol(p, tree).next = p + 16
    BY <1>2, DecodeIs
  <2> QED BY <2>1
<1>3. CASE S # {}
  <2>1. DecodeSymbol(p, tree).next = p + Min(S)
    BY <1>3, DecodeIs
  <2> HIDE DEF S
  <2>2. S \in SUBSET Nat
    BY <1>1
  <2>3. \E x \in S : \A y \in S : x <= y
    BY <1>3, <2>2, NatMin
  <2>4. Min(S) \in S
    BY <2>3 DEF Min
  <2> QED BY <1>1, <2>1, <2>4
<1> QED BY <1>2, <1>3

\* The bits from p on, as far as they have arrived, spell the number u in m
\* bits, the highest first.
Spelled(p, m, u) ==
  \A n \in 1..m : p + n <= 8 * limit => BitAt(p + n - 1) = (u \div 2^(m - n)) % 2

\* From p on the tree has the symbol s, of m bits, or the file ends in it.
Decodes(p, tree, m, s) ==
  IF p + m <= 8 * limit
    THEN DecodeSymbol(p, tree) = [ sym |-> s, next |-> p + m ]
    ELSE DecodeSymbol(p, tree).next \in Nat /\ Exhausted(DecodeSymbol(p, tree).next)

(* The codes before the one that is spelled are those of no symbol.        *)
LEMMA DecodesBy ==
  ASSUME FileBits, NEW p \in Nat, p <= 8 * limit, NEW tree, NEW m \in 1..15,
         \A n \in 1..15 : Curs(p, tree)[n] \in Int,
         \A n \in 1..15 : n < m /\ p + n <= 8 * limit => Curs(p, tree)[n] >= 0,
         p + m <= 8 * limit => Curs(p, tree)[m] < 0
  PROVE  Decodes(p, tree, m, tree.trans[Sums(tree)[m] + Curs(p, tree)[m]])
<1>1. CASE p + m <= 8 * limit
  <2>1. \A n \in 1..15 : n < m => p + n <= 8 * limit
    BY <1>1 DEF FileBits
  <2> QED BY <1>1, <2>1, DecodeAt DEF Decodes
<1>2. CASE ~(p + m <= 8 * limit)
  <2> DEFINE r == 8 * limit - p
  <2>1. /\ r \in 0..15 /\ p + r = 8 * limit
        /\ \A n \in 1..15 : n <= r => n < m /\ p + n <= 8 * limit
    <3> DEFINE L == 8 * limit
    <3>1. L \in Nat /\ p <= L /\ ~(p + m <= L) /\ r = L - p
      BY <1>2 DEF FileBits
    <3> HIDE DEF L, r
    <3>2. /\ r \in 0..15 /\ p + r = L /\ r < m
          /\ \A n \in 1..15 : n <= r => n < m /\ p + n <= L
      BY <3>1
    <3> QED BY <3>2 DEF L
  <2> HIDE DEF r
  <2>2. DecodeSymbol(p, tree).next \in Nat /\ DecodeSymbol(p, tree).next > p + r
    BY <2>1, DecodeBeyond
  <2> QED BY <1>2, <2>1, <2>2 DEF Decodes, Exhausted
<1> QED BY <1>1, <1>2

LEMMA HighDigit ==
  ASSUME NEW u \in Nat, NEW k \in 0..8
  PROVE  u \div 2^k = 2 * (u \div 2^(k + 1)) + ((u \div 2^k) % 2)
<1>0. CASE k = 0
  <2> DEFINE x == 2^0
             y == 2^(0 + 1)
  <2>1. x = 1 /\ y = 2
    BY SMT
  <2> HIDE DEF x, y
  <2>2. u \div x = 2 * (u \div y) + ((u \div x) % 2)
    BY <2>1, SMT
  <2> QED BY <1>0, <2>2, Zenon DEF x, y
<1>1. CASE k = 1
  <2> DEFINE x == 2^1
             y == 2^(1 + 1)
  <2>1. x = 2 /\ y = 4
    BY SMT
  <2> HIDE DEF x, y
  <2>2. u \div x = 2 * (u \div y) + ((u \div x) % 2)
    BY <2>1, SMT
  <2> QED BY <1>1, <2>2, Zenon DEF x, y
<1>2. CASE k = 2
  <2> DEFINE x == 2^2
             y == 2^(2 + 1)
  <2>1. x = 4 /\ y = 8
    BY SMT
  <2> HIDE DEF x, y
  <2>2. u \div x = 2 * (u \div y) + ((u \div x) % 2)
    BY <2>1, SMT
  <2> QED BY <1>2, <2>2, Zenon DEF x, y
<1>3. CASE k = 3
  <2> DEFINE x == 2^3
             y == 2^(3 + 1)
  <2>1. x = 8 /\ y = 16
    BY SMT
  <2> HIDE DEF x, y
  <2>2. u \div x = 2 * (u \div y) + ((u \div x) % 2)
    BY <2>1, SMT
  <2> QED BY <1>3, <2>2, Zenon DEF x, y
<1>4. CASE k = 4
  <2> DEFINE x == 2^4
             y == 2^(4 + 1)
  <2>1. x = 16 /\ y = 32
    BY SMT
  <2> HIDE DEF x, y
  <2>2. u \div x = 2 * (u \div y) + ((u \div x) % 2)
    BY <2>1, SMT
  <2> QED BY <1>4, <2>2, Zenon DEF x, y
<1>5. CASE k = 5
  <2> DEFINE x == 2^5
             y == 2^(5 + 1)
  <2>1. x = 32 /\ y = 64
    BY SMT
  <2> HIDE DEF x, y
  <2>2. u \div x = 2 * (u \div y) + ((u \div x) % 2)
    BY <2>1, SMT
  <2> QED BY <1>5, <2>2, Zenon DEF x, y
<1>6. CASE k = 6
  <2> DEFINE x == 2^6
             y == 2^(6 + 1)
  <2>1. x = 64 /\ y = 128
    BY SMT
  <2> HIDE DEF x, y
  <2>2. u \div x = 2 * (u \div y) + ((u \div x) % 2)
    BY <2>1, SMT
  <2> QED BY <1>6, <2>2, Zenon DEF x, y
<1>7. CASE k = 7
  <2> DEFINE x == 2^7
             y == 2^(7 + 1)
  <2>1. x = 128 /\ y = 256
    BY SMT
  <2> HIDE DEF x, y
  <2>2. u \div x = 2 * (u \div y) + ((u \div x) % 2)
    BY <2>1, SMT
  <2> QED BY <1>7, <2>2, Zenon DEF x, y
<1>8. CASE k = 8
  <2> DEFINE x == 2^8
             y == 2^(8 + 1)
  <2>1. x = 256 /\ y = 512
    BY SMT
  <2> HIDE DEF x, y
  <2>2. u \div x = 2 * (u \div y) + ((u \div x) % 2)
    BY <2>1, SMT
  <2> QED BY <1>8, <2>2, Zenon DEF x, y
<1> QED BY <1>0, <1>1, <1>2, <1>3, <1>4, <1>5, <1>6, <1>7, <1>8

NoneUpTo(z, tree) == \A n \in 1..z : tree.table[n] = 0

Gathered(p, tree, m, z, u) ==
  \A n \in 0..z : p + n <= 8 * limit => Curs(p, tree)[n] = u \div 2^(m - n)

(* Below the shortest code the decoder only gathers what is spelled. *)
LEMMA Gathers ==
  ASSUME FileBits, NEW p \in Nat, NEW tree, Counts(tree), NEW m \in 1..9, NEW z \in 0..m,
         NoneUpTo(z, tree), NEW u \in Nat, u < 2^m, Spelled(p, m, u)
  PROVE  Gathered(p, tree, m, z, u)
<1> DEFINE F == Curs(p, tree)
           L == 8 * limit
           High(n) == u \div 2^(m - n)
           T == { n \in Nat : n <= z /\ p + n <= L => F[n] = High(n) }
<1>1. /\ F[0] = 0
      /\ \A n \in 1..15 : /\ F[n] \in Int /\ F[n - 1] \in Int
                          /\ F[n] = 2 * F[n - 1] + BitAt(p + n - 1) - tree.table[n]
  BY CurSteps
<1>2. L \in Nat
  BY DEF FileBits
<1>3. \A n \in 1..m : p + n <= L => BitAt(p + n - 1) = High(n) % 2
  BY DEF Spelled
<1> HIDE DEF F, L
<1>4. 0 \in T
  <2> DEFINE x == 2^m
  <2>1. m \in 0..13
    OBVIOUS
  <2>2. x \in Nat /\ x > 0 /\ u < x
    BY <2>1, PowerType
  <2>3. High(0) = u \div x
    <3>1. m - 0 = m
      OBVIOUS
    <3> QED BY <3>1
  <2> HIDE DEF x, High
  <2>4. u \div x = 0
    BY <2>2
  <2> QED BY <1>1, <2>3, <2>4
<1>5. ASSUME NEW k \in T PROVE k + 1 \in T
  <2> SUFFICES ASSUME k + 1 <= z, p + (k + 1) <= L PROVE F[k + 1] = High(k + 1)
    <3> HIDE DEF High
    <3> QED OBVIOUS
  <2>1. /\ k + 1 \in 1..z /\ k + 1 \in 1..m /\ k + 1 \in 1..15 /\ (k + 1) - 1 = k
        /\ k <= z /\ p + k <= L /\ k \in Nat
    BY <1>2
  <2>2. F[k] = High(k)
    <3> HIDE DEF High
    <3> QED BY <2>1
  <2>3. High(k) = u \div 2^((m - (k + 1)) + 1)
    <3>1. (m - (k + 1)) + 1 = m - k
      BY <2>1
    <3> QED BY <3>1
  <2>4. High(k + 1) = 2 * High(k) + (High(k + 1) % 2)
    <3>1. m - (k + 1) \in 0..8
      BY <2>1
    <3> QED BY <2>3, <3>1, HighDigit
  <2>5. BitAt(p + (k + 1) - 1) = High(k + 1) % 2
    BY <1>3, <2>1
  <2> HIDE DEF High
  <2>6. F[k + 1] = 2 * F[k] + (High(k + 1) % 2) - 0
    <3>1. F[k + 1] = 2 * F[(k + 1) - 1] + BitAt(p + (k + 1) - 1) - tree.table[k + 1]
      BY <1>1, <2>1
    <3> QED BY <2>1, <2>5, <3>1 DEF NoneUpTo
  <2>7. F[k + 1] \in Int /\ F[k] \in Int
    <3>1. F[k + 1] \in Int /\ F[(k + 1) - 1] \in Int
      BY <1>1, <2>1
    <3> QED BY <2>1, <3>1
  <2>8. High(k + 1) % 2 \in Int
    <3>1. p + (k + 1) - 1 \in Nat
      BY <2>1
    <3> QED BY <2>5, <3>1, BitType
  <2> QED BY <2>2, <2>4, <2>6, <2>7, <2>8
<1> HIDE DEF T, High
<1>6. T \in SUBSET Nat
  BY DEF T
<1>7. T = Nat
  BY <1>4, <1>5, <1>6, NatInduct
<1>8. \A n \in 0..z : n \in Nat /\ n <= z
  OBVIOUS
<1> QED BY <1>7, <1>8 DEF T, F, L, High, Gathered

LEMMA GathersNat ==
  ASSUME FileBits, NEW p \in Nat, NEW tree, Counts(tree), NEW m \in 1..9, NEW z \in 0..m,
         NoneUpTo(z, tree), NEW u \in Nat, u < 2^m, Spelled(p, m, u)
  PROVE  \A n \in 1..15 : n <= z /\ p + n <= 8 * limit => Curs(p, tree)[n] >= 0
<1> SUFFICES ASSUME NEW n \in 1..15, n <= z, p + n <= 8 * limit PROVE Curs(p, tree)[n] >= 0
  OBVIOUS
<1>1. n \in 0..z /\ m - n \in 0..13
  OBVIOUS
<1>2. Curs(p, tree)[n] = u \div 2^(m - n)
  BY <1>1, Gathers, Zenon DEF Gathered
<1> DEFINE x == 2^(m - n)
<1>3. x \in Nat /\ x > 0
  BY <1>1, PowerType
<1> HIDE DEF x
<1>4. u \div x >= 0
  BY <1>3
<1> QED BY <1>2, <1>4 DEF x

Taken(p, tree, m, n, u) ==
  p + n <= 8 * limit =>
    Curs(p, tree)[n] = 2 * Curs(p, tree)[n - 1] + ((u \div 2^(m - n)) % 2) - tree.table[n]

LEMMA TakesBit ==
  ASSUME FileBits, NEW p \in Nat, NEW tree, Counts(tree), NEW m \in 1..9, NEW n \in 1..m,
         NEW u, Spelled(p, m, u)
  PROVE  Taken(p, tree, m, n, u)
<1> SUFFICES ASSUME p + n <= 8 * limit
             PROVE  Curs(p, tree)[n] =
                      2 * Curs(p, tree)[n - 1] + ((u \div 2^(m - n)) % 2) - tree.table[n]
  BY DEF Taken
<1>1. n \in 1..15
  OBVIOUS
<1>2. BitAt(p + n - 1) = (u \div 2^(m - n)) % 2
  BY DEF Spelled
<1> QED BY <1>1, <1>2, CurSteps

LEMMA FixedTreeIs ==
  /\ Counts(FixedTree)
  /\ NoneUpTo(6, FixedTree)
  /\ FixedTree.table[7] = 24 /\ FixedTree.table[8] = 152 /\ FixedTree.table[9] = 112
  /\ Sums(FixedTree)[7] = 24 /\ Sums(FixedTree)[8] = 176 /\ Sums(FixedTree)[9] = 288
<1> DEFINE T == FixedTree
           S == Sums(FixedTree)
<1>1. Counts(T) /\ \A n \in 1..6 : T.table[n] = 0
  BY DEF FixedTree, Counts
<1> USE DEF NoneUpTo
<1>2. T.table[7] = 24 /\ T.table[8] = 152 /\ T.table[9] = 112
  BY DEF FixedTree
<1>3. S[0] = 0 /\ \A n \in 1..15 : S[n] \in Int /\ S[n - 1] \in Int
                                   /\ S[n] = S[n - 1] + T.table[n]
  BY <1>1, SumSteps
<1> HIDE DEF T, S
<1>4. S[1] = 0
  BY <1>1, <1>3
<1>5. S[2] = 0
  BY <1>1, <1>3, <1>4
<1>6. S[3] = 0
  BY <1>1, <1>3, <1>5
<1>7. S[4] = 0
  BY <1>1, <1>3, <1>6
<1>8. S[5] = 0
  BY <1>1, <1>3, <1>7
<1>9. S[6] = 0
  BY <1>1, <1>3, <1>8
<1>10. S[7] = 24
  BY <1>2, <1>3, <1>9
<1>11. S[8] = 176
  BY <1>2, <1>3, <1>10
<1>12. S[9] = 288
  BY <1>2, <1>3, <1>11
<1> QED BY <1>1, <1>2, <1>10, <1>11, <1>12 DEF T, S

LEMMA FixedDistTreeIs ==
  /\ Counts(FixedDistTree)
  /\ NoneUpTo(4, FixedDistTree)
  /\ FixedDistTree.table[5] = 32 /\ Sums(FixedDistTree)[5] = 32
<1> DEFINE T == FixedDistTree
           S == Sums(FixedDistTree)
<1>1. Counts(T) /\ \A n \in 1..4 : T.table[n] = 0
  BY DEF FixedDistTree, Counts
<1> USE DEF NoneUpTo
<1>2. T.table[5] = 32
  BY DEF FixedDistTree
<1>3. S[0] = 0 /\ \A n \in 1..15 : S[n] \in Int /\ S[n - 1] \in Int
                                   /\ S[n] = S[n - 1] + T.table[n]
  BY <1>1, SumSteps
<1> HIDE DEF T, S
<1>4. S[1] = 0
  BY <1>1, <1>3
<1>5. S[2] = 0
  BY <1>1, <1>3, <1>4
<1>6. S[3] = 0
  BY <1>1, <1>3, <1>5
<1>7. S[4] = 0
  BY <1>1, <1>3, <1>6
<1>8. S[5] = 32
  BY <1>2, <1>3, <1>7
<1> QED BY <1>1, <1>2, <1>8 DEF T, S

(* The codes of seven bits: the end of a block, and lengths. *)
LEMMA SevenBits ==
  ASSUME FileBits, NEW p \in Nat, p <= 8 * limit, NEW u \in Nat, u < 24, Spelled(p, 7, u)
  PROVE  Decodes(p, FixedTree, 7, 256 + u)
<1> DEFINE T == FixedTree
           F == Curs(p, T)
           L == 8 * limit
           x == 2^7
<1>1. x = 128 /\ 2^(7 - 6) = 2 /\ 2^(7 - 7) = 1
  BY SMT
<1> HIDE DEF x
<1>2. u < x /\ Counts(T) /\ NoneUpTo(6, T)
  BY <1>1, FixedTreeIs
<1>3. 7 \in 1..9 /\ 6 \in 0..7 /\ 6 \in 0..6 /\ 7 \in 1..15 /\ 7 \in 1..7
  OBVIOUS
<1>4. p + 6 <= L => F[6] = u \div 2
  <2>1. Gathered(p, T, 7, 6, u)
    BY <1>2, <1>3, Gathers, Zenon DEF x
  <2> QED BY <2>1, <1>1, <1>3, Zenon DEF Gathered
<1>5. \A n \in 1..15 : n <= 6 /\ p + n <= L => F[n] >= 0
  BY <1>2, <1>3, GathersNat DEF x
<1>6. /\ p + 7 <= L => F[7] = 2 * F[7 - 1] + ((u \div 2^(7 - 7)) % 2) - T.table[7]
  <2>1. Taken(p, T, 7, 7, u)
    BY <1>2, <1>3, TakesBit
  <2> QED BY <2>1 DEF Taken
<1>7. \A n \in 1..15 : F[n] \in Int
  BY <1>2, CurSteps
<1>8. L \in Nat /\ T.table[7] = 24
  BY FixedTreeIs DEF FileBits
<1> HIDE DEF F, L, T
<1>9. p + 7 <= L => F[7] = u - 24
  <2> SUFFICES ASSUME p + 7 <= L PROVE F[7] = u - 24
    OBVIOUS
  <2>1. F[7] = 2 * F[7 - 1] + ((u \div 1) % 2) - 24
    BY <1>1, <1>6, <1>8
  <2>2. F[7 - 1] = (u \div 2)
    BY <1>4, <1>8
  <2>3. u \div 1 = 2 * (u \div 2) + ((u \div 1) % 2)
    BY SMT
  <2>4. u \div 1 = u
    BY SMT
  <2> QED BY <2>1, <2>2, <2>3, <2>4
<1>10. \A n \in 1..15 : n < 7 /\ p + n <= L => F[n] >= 0
  BY <1>5, <1>9
<1>11. p + 7 <= L => F[7] < 0
  BY <1>9
<1>12. Decodes(p, T, 7, T.trans[Sums(T)[7] + F[7]])
  BY <1>3, <1>7, <1>10, <1>11, DecodesBy DEF F, L
<1>13. p + 7 <= L => T.trans[Sums(T)[7] + F[7]] = 256 + u
  <2>1. Sums(T)[7] = 24
    BY FixedTreeIs DEF T
  <2>2. T.trans[u] = 256 + u
    BY DEF T, FixedTree
  <2>3. p + 7 <= L => Sums(T)[7] + F[7] = u
    BY <1>9, <2>1
  <2> QED BY <2>2, <2>3
<1> QED BY <1>12, <1>13 DEF Decodes, T, L

(* The codes of eight bits: literals, and the longest lengths. *)
LEMMA EightBits ==
  ASSUME FileBits, NEW p \in Nat, p <= 8 * limit, NEW u \in Nat, 48 <= u, u < 200, Spelled(p, 8, u)
  PROVE  Decodes(p, FixedTree, 8, FixedTree.trans[u - 24])
<1> DEFINE T == FixedTree
           F == Curs(p, T)
           L == 8 * limit
           x == 2^8
<1>1. x = 256 /\ 2^(8 - 6) = 4 /\ 2^(8 - 7) = 2 /\ 2^(8 - 8) = 1
  BY SMT
<1> HIDE DEF x
<1>2. u < x /\ Counts(T) /\ NoneUpTo(6, T)
  BY <1>1, FixedTreeIs
<1>3. 8 \in 1..9 /\ 6 \in 0..8 /\ 6 \in 0..6 /\ 8 \in 1..15 /\ 7 \in 1..8 /\ 8 \in 1..8
  OBVIOUS
<1>4. p + 6 <= L => F[6] = u \div 4
  <2>1. Gathered(p, T, 8, 6, u)
    BY <1>2, <1>3, Gathers, Zenon DEF x
  <2> QED BY <2>1, <1>1, <1>3, Zenon DEF Gathered
<1>5. \A n \in 1..15 : n <= 6 /\ p + n <= L => F[n] >= 0
  BY <1>2, <1>3, GathersNat DEF x
<1>6. /\ p + 7 <= L => F[7] = 2 * F[7 - 1] + ((u \div 2^(8 - 7)) % 2) - T.table[7]
      /\ p + 8 <= L => F[8] = 2 * F[8 - 1] + ((u \div 2^(8 - 8)) % 2) - T.table[8]
  <2>1. Taken(p, T, 8, 7, u)
    BY <1>2, <1>3, TakesBit
  <2>2. Taken(p, T, 8, 8, u)
    BY <1>2, <1>3, TakesBit
  <2> QED BY <2>1, <2>2 DEF Taken
<1>7. \A n \in 1..15 : F[n] \in Int
  BY <1>2, CurSteps
<1>8. L \in Nat /\ T.table[7] = 24 /\ T.table[8] = 152
  BY FixedTreeIs DEF FileBits
<1> HIDE DEF F, L, T
<1>9. p + 7 <= L => F[7] = (u \div 2) - 24 /\ F[7] >= 0
  <2> SUFFICES ASSUME p + 7 <= L PROVE F[7] = (u \div 2) - 24 /\ F[7] >= 0
    OBVIOUS
  <2>1. F[7] = 2 * F[7 - 1] + ((u \div 2) % 2) - 24
    BY <1>1, <1>6, <1>8
  <2>2. F[7 - 1] = (u \div 4)
    BY <1>4, <1>8
  <2>3. u \div 2 = 2 * (u \div 4) + ((u \div 2) % 2)
    BY SMT
  <2>4. u \div 1 = u
    BY SMT
  <2> QED BY <2>1, <2>2, <2>3, <2>4
<1>10. p + 8 <= L => F[8] = u - 200
  <2> SUFFICES ASSUME p + 8 <= L PROVE F[8] = u - 200
    OBVIOUS
  <2>1. F[8] = 2 * F[8 - 1] + ((u \div 1) % 2) - 152
    BY <1>1, <1>6, <1>8
  <2>2. F[8 - 1] = (u \div 2) - 24
    BY <1>9, <1>8
  <2>3. u \div 1 = 2 * (u \div 2) + ((u \div 1) % 2)
    BY SMT
  <2>4. u \div 1 = u
    BY SMT
  <2> QED BY <2>1, <2>2, <2>3, <2>4
<1>11. \A n \in 1..15 : n < 8 /\ p + n <= L => F[n] >= 0
  BY <1>5, <1>9, <1>10
<1>12. p + 8 <= L => F[8] < 0
  BY <1>10
<1>13. Decodes(p, T, 8, T.trans[Sums(T)[8] + F[8]])
  BY <1>3, <1>7, <1>11, <1>12, DecodesBy DEF F, L
<1>14. p + 8 <= L => T.trans[Sums(T)[8] + F[8]] = FixedTree.trans[u - 24]
  <2>1. Sums(T)[8] = 176
    BY FixedTreeIs DEF T
  <2>2. T = FixedTree
    BY DEF T
  <2>3. p + 8 <= L => Sums(T)[8] + F[8] = u - 24
    BY <1>10, <2>1
  <2> QED BY <2>2, <2>3
<1> QED BY <1>13, <1>14 DEF Decodes, T, L

(* The codes of nine bits: the other literals. *)
LEMMA NineBits ==
  ASSUME FileBits, NEW p \in Nat, p <= 8 * limit, NEW u \in Nat, 400 <= u, u < 512, Spelled(p, 9, u)
  PROVE  Decodes(p, FixedTree, 9, FixedTree.trans[u - 224])
<1> DEFINE T == FixedTree
           F == Curs(p, T)
           L == 8 * limit
           x == 2^9
<1>1. x = 512 /\ 2^(9 - 6) = 8 /\ 2^(9 - 7) = 4 /\ 2^(9 - 8) = 2 /\ 2^(9 - 9) = 1
  BY SMT
<1> HIDE DEF x
<1>2. u < x /\ Counts(T) /\ NoneUpTo(6, T)
  BY <1>1, FixedTreeIs
<1>3. 9 \in 1..9 /\ 6 \in 0..9 /\ 6 \in 0..6 /\ 9 \in 1..15 /\ 7 \in 1..9 /\ 8 \in 1..9 /\ 9 \in 1..9
  OBVIOUS
<1>4. p + 6 <= L => F[6] = u \div 8
  <2>1. Gathered(p, T, 9, 6, u)
    BY <1>2, <1>3, Gathers, Zenon DEF x
  <2> QED BY <2>1, <1>1, <1>3, Zenon DEF Gathered
<1>5. \A n \in 1..15 : n <= 6 /\ p + n <= L => F[n] >= 0
  BY <1>2, <1>3, GathersNat DEF x
<1>6. /\ p + 7 <= L => F[7] = 2 * F[7 - 1] + ((u \div 2^(9 - 7)) % 2) - T.table[7]
      /\ p + 8 <= L => F[8] = 2 * F[8 - 1] + ((u \div 2^(9 - 8)) % 2) - T.table[8]
      /\ p + 9 <= L => F[9] = 2 * F[9 - 1] + ((u \div 2^(9 - 9)) % 2) - T.table[9]
  <2>1. Taken(p, T, 9, 7, u)
    BY <1>2, <1>3, TakesBit
  <2>2. Taken(p, T, 9, 8, u)
    BY <1>2, <1>3, TakesBit
  <2>3. Taken(p, T, 9, 9, u)
    BY <1>2, <1>3, TakesBit
  <2> QED BY <2>1, <2>2, <2>3 DEF Taken
<1>7. \A n \in 1..15 : F[n] \in Int
  BY <1>2, CurSteps
<1>8. L \in Nat /\ T.table[7] = 24 /\ T.table[8] = 152 /\ T.table[9] = 112
  BY FixedTreeIs DEF FileBits
<1> HIDE DEF F, L, T
<1>9. p + 7 <= L => F[7] = (u \div 4) - 24 /\ F[7] >= 0
  <2> SUFFICES ASSUME p + 7 <= L PROVE F[7] = (u \div 4) - 24 /\ F[7] >= 0
    OBVIOUS
  <2>1. F[7] = 2 * F[7 - 1] + ((u \div 4) % 2) - 24
    BY <1>1, <1>6, <1>8
  <2>2. F[7 - 1] = (u \div 8)
    BY <1>4, <1>8
  <2>3. u \div 4 = 2 * (u \div 8) + ((u \div 4) % 2)
    BY SMT
  <2>4. u \div 1 = u
    BY SMT
  <2> QED BY <2>1, <2>2, <2>3, <2>4
<1>10. p + 8 <= L => F[8] = (u \div 2) - 200 /\ F[8] >= 0
  <2> SUFFICES ASSUME p + 8 <= L PROVE F[8] = (u \div 2) - 200 /\ F[8] >= 0
    OBVIOUS
  <2>1. F[8] = 2 * F[8 - 1] + ((u \div 2) % 2) - 152
    BY <1>1, <1>6, <1>8
  <2>2. F[8 - 1] = (u \div 4) - 24
    BY <1>9, <1>8
  <2>3. u \div 2 = 2 * (u \div 4) + ((u \div 2) % 2)
    BY SMT
  <2>4. u \div 1 = u
    BY SMT
  <2> QED BY <2>1, <2>2, <2>3, <2>4
<1>11. p + 9 <= L => F[9] = u - 512
  <2> SUFFICES ASSUME p + 9 <= L PROVE F[9] = u - 512
    OBVIOUS
  <2>1. F[9] = 2 * F[9 - 1] + ((u \div 1) % 2) - 112
    BY <1>1, <1>6, <1>8
  <2>2. F[9 - 1] = (u \div 2) - 200
    BY <1>10, <1>8
  <2>3. u \div 1 = 2 * (u \div 2) + ((u \div 1) % 2)
    BY SMT
  <2>4. u \div 1 = u
    BY SMT
  <2> QED BY <2>1, <2>2, <2>3, <2>4
<1>12. \A n \in 1..15 : n < 9 /\ p + n <= L => F[n] >= 0
  BY <1>5, <1>9, <1>10, <1>11
<1>13. p + 9 <= L => F[9] < 0
  BY <1>11
<1>14. Decodes(p, T, 9, T.trans[Sums(T)[9] + F[9]])
  BY <1>3, <1>7, <1>12, <1>13, DecodesBy DEF F, L
<1>15. p + 9 <= L => T.trans[Sums(T)[9] + F[9]] = FixedTree.trans[u - 224]
  <2>1. Sums(T)[9] = 288
    BY FixedTreeIs DEF T
  <2>2. T = FixedTree
    BY DEF T
  <2>3. p + 9 <= L => Sums(T)[9] + F[9] = u - 224
    BY <1>11, <2>1
  <2> QED BY <2>2, <2>3
<1> QED BY <1>14, <1>15 DEF Decodes, T, L

(* The codes of distances. *)
LEMMA FiveBits ==
  ASSUME FileBits, NEW p \in Nat, p <= 8 * limit, NEW u \in Nat, u < 32, Spelled(p, 5, u)
  PROVE  Decodes(p, FixedDistTree, 5, u)
<1> DEFINE T == FixedDistTree
           F == Curs(p, T)
           L == 8 * limit
           x == 2^5
<1>1. x = 32 /\ 2^(5 - 4) = 2 /\ 2^(5 - 5) = 1
  BY SMT
<1> HIDE DEF x
<1>2. u < x /\ Counts(T) /\ NoneUpTo(4, T)
  BY <1>1, FixedDistTreeIs
<1>3. 5 \in 1..9 /\ 4 \in 0..5 /\ 4 \in 0..4 /\ 5 \in 1..15 /\ 5 \in 1..5
  OBVIOUS
<1>4. p + 4 <= L => F[4] = u \div 2
  <2>1. Gathered(p, T, 5, 4, u)
    BY <1>2, <1>3, Gathers, Zenon DEF x
  <2> QED BY <2>1, <1>1, <1>3, Zenon DEF Gathered
<1>5. \A n \in 1..15 : n <= 4 /\ p + n <= L => F[n] >= 0
  BY <1>2, <1>3, GathersNat DEF x
<1>6. /\ p + 5 <= L => F[5] = 2 * F[5 - 1] + ((u \div 2^(5 - 5)) % 2) - T.table[5]
  <2>1. Taken(p, T, 5, 5, u)
    BY <1>2, <1>3, TakesBit
  <2> QED BY <2>1 DEF Taken
<1>7. \A n \in 1..15 : F[n] \in Int
  BY <1>2, CurSteps
<1>8. L \in Nat /\ T.table[5] = 32
  BY FixedDistTreeIs DEF FileBits
<1> HIDE DEF F, L, T
<1>9. p + 5 <= L => F[5] = u - 32
  <2> SUFFICES ASSUME p + 5 <= L PROVE F[5] = u - 32
    OBVIOUS
  <2>1. F[5] = 2 * F[5 - 1] + ((u \div 1) % 2) - 32
    BY <1>1, <1>6, <1>8
  <2>2. F[5 - 1] = (u \div 2)
    BY <1>4, <1>8
  <2>3. u \div 1 = 2 * (u \div 2) + ((u \div 1) % 2)
    BY SMT
  <2>4. u \div 1 = u
    BY SMT
  <2> QED BY <2>1, <2>2, <2>3, <2>4
<1>10. \A n \in 1..15 : n < 5 /\ p + n <= L => F[n] >= 0
  BY <1>5, <1>9
<1>11. p + 5 <= L => F[5] < 0
  BY <1>9
<1>12. Decodes(p, T, 5, T.trans[Sums(T)[5] + F[5]])
  BY <1>3, <1>7, <1>10, <1>11, DecodesBy DEF F, L
<1>13. p + 5 <= L => T.trans[Sums(T)[5] + F[5]] = u
  <2>1. Sums(T)[5] = 32
    BY FixedDistTreeIs DEF T
  <2>2. T.trans[u] = u
    BY DEF T, FixedDistTree
  <2>3. p + 5 <= L => Sums(T)[5] + F[5] = u
    BY <1>9, <2>1
  <2> QED BY <2>2, <2>3
<1> QED BY <1>12, <1>13 DEF Decodes, T, L

(* What defl_static.c writes with its mirrored bytes.                      *)
LEMMA SpelledAs ==
  ASSUME FileBits, NEW p \in Nat, NEW m \in Nat, NEW u, NEW c, Written(bits, p, c, m),
         \A n \in 1..m : c[n] = (u \div 2^(m - n)) % 2
  PROVE  Spelled(p, m, u)
BY WrittenBit DEF Spelled

LEMMA SpelledTwice ==
  ASSUME FileBits, NEW p \in Nat, NEW u \in Nat, Written(bits, p, Mirrored(u * 2, 7), 7)
  PROVE  Spelled(p, 7, u)
<1>1. \A n \in 1..7 : Mirrored(u * 2, 7)[n] = (u \div 2^(7 - n)) % 2
  <2> SUFFICES ASSUME NEW n \in 1..7 PROVE ((u * 2) \div 2^(8 - n)) % 2 = (u \div 2^(7 - n)) % 2
    BY DEF Mirrored
  <2>1. CASE n = 1
    <3> DEFINE x == 2^(8 - 1)
               y == 2^(7 - 1)
    <3>1. x = 128 /\ y = 64
      BY SMT
    <3> HIDE DEF x, y
    <3>2. (u * 2) \div x = u \div y
      BY <3>1, SMT
    <3> QED BY <2>1, <3>2, Zenon DEF x, y
  <2>2. CASE n = 2
    <3> DEFINE x == 2^(8 - 2)
               y == 2^(7 - 2)
    <3>1. x = 64 /\ y = 32
      BY SMT
    <3> HIDE DEF x, y
    <3>2. (u * 2) \div x = u \div y
      BY <3>1, SMT
    <3> QED BY <2>2, <3>2, Zenon DEF x, y
  <2>3. CASE n = 3
    <3> DEFINE x == 2^(8 - 3)
               y == 2^(7 - 3)
    <3>1. x = 32 /\ y = 16
      BY SMT
    <3> HIDE DEF x, y
    <3>2. (u * 2) \div x = u \div y
      BY <3>1, SMT
    <3> QED BY <2>3, <3>2, Zenon DEF x, y
  <2>4. CASE n = 4
    <3> DEFINE x == 2^(8 - 4)
               y == 2^(7 - 4)
    <3>1. x = 16 /\ y = 8
      BY SMT
    <3> HIDE DEF x, y
    <3>2. (u * 2) \div x = u \div y
      BY <3>1, SMT
    <3> QED BY <2>4, <3>2, Zenon DEF x, y
  <2>5. CASE n = 5
    <3> DEFINE x == 2^(8 - 5)
               y == 2^(7 - 5)
    <3>1. x = 8 /\ y = 4
      BY SMT
    <3> HIDE DEF x, y
    <3>2. (u * 2) \div x = u \div y
      BY <3>1, SMT
    <3> QED BY <2>5, <3>2, Zenon DEF x, y
  <2>6. CASE n = 6
    <3> DEFINE x == 2^(8 - 6)
               y == 2^(7 - 6)
    <3>1. x = 4 /\ y = 2
      BY SMT
    <3> HIDE DEF x, y
    <3>2. (u * 2) \div x = u \div y
      BY <3>1, SMT
    <3> QED BY <2>6, <3>2, Zenon DEF x, y
  <2>7. CASE n = 7
    <3> DEFINE x == 2^(8 - 7)
               y == 2^(7 - 7)
    <3>1. x = 2 /\ y = 1
      BY SMT
    <3> HIDE DEF x, y
    <3>2. (u * 2) \div x = u \div y
      BY <3>1, SMT
    <3> QED BY <2>7, <3>2, Zenon DEF x, y
  <2> QED BY <2>1, <2>2, <2>3, <2>4, <2>5, <2>6, <2>7
<1> QED BY <1>1, SpelledAs

LEMMA SpelledFive ==
  ASSUME FileBits, NEW p \in Nat, NEW u \in Nat, Written(bits, p, Mirrored(u * 8, 5), 5)
  PROVE  Spelled(p, 5, u)
<1>1. \A n \in 1..5 : Mirrored(u * 8, 5)[n] = (u \div 2^(5 - n)) % 2
  <2> SUFFICES ASSUME NEW n \in 1..5 PROVE ((u * 8) \div 2^(8 - n)) % 2 = (u \div 2^(5 - n)) % 2
    BY DEF Mirrored
  <2>1. CASE n = 1
    <3> DEFINE x == 2^(8 - 1)
               y == 2^(5 - 1)
    <3>1. x = 128 /\ y = 16
      BY SMT
    <3> HIDE DEF x, y
    <3>2. (u * 8) \div x = u \div y
      BY <3>1, SMT
    <3> QED BY <2>1, <3>2, Zenon DEF x, y
  <2>2. CASE n = 2
    <3> DEFINE x == 2^(8 - 2)
               y == 2^(5 - 2)
    <3>1. x = 64 /\ y = 8
      BY SMT
    <3> HIDE DEF x, y
    <3>2. (u * 8) \div x = u \div y
      BY <3>1, SMT
    <3> QED BY <2>2, <3>2, Zenon DEF x, y
  <2>3. CASE n = 3
    <3> DEFINE x == 2^(8 - 3)
               y == 2^(5 - 3)
    <3>1. x = 32 /\ y = 4
      BY SMT
    <3> HIDE DEF x, y
    <3>2. (u * 8) \div x = u \div y
      BY <3>1, SMT
    <3> QED BY <2>3, <3>2, Zenon DEF x, y
  <2>4. CASE n = 4
    <3> DEFINE x == 2^(8 - 4)
               y == 2^(5 - 4)
    <3>1. x = 16 /\ y = 2
      BY SMT
    <3> HIDE DEF x, y
    <3>2. (u * 8) \div x = u \div y
      BY <3>1, SMT
    <3> QED BY <2>4, <3>2, Zenon DEF x, y
  <2>5. CASE n = 5
    <3> DEFINE x == 2^(8 - 5)
               y == 2^(5 - 5)
    <3>1. x = 8 /\ y = 1
      BY SMT
    <3> HIDE DEF x, y
    <3>2. (u * 8) \div x = u \div y
      BY <3>1, SMT
    <3> QED BY <2>5, <3>2, Zenon DEF x, y
  <2> QED BY <2>1, <2>2, <2>3, <2>4, <2>5
<1> QED BY <1>1, SpelledAs

LEMMA SpelledByte ==
  ASSUME FileBits, NEW p \in Nat, NEW u \in Nat, Written(bits, p, Mirrored(u, 8), 8)
  PROVE  Spelled(p, 8, u)
<1>1. \A n \in 1..8 : Mirrored(u, 8)[n] = (u \div 2^(8 - n)) % 2
  BY DEF Mirrored
<1> QED BY <1>1, SpelledAs

LEMMA SpelledNine ==
  ASSUME FileBits, NEW p \in Nat, NEW u \in Nat, u < 256,
         Written(bits, p, << 1 >> \o Mirrored(u, 8), 9)
  PROVE  Spelled(p, 9, 256 + u)
<1> DEFINE c == <<1>> \o Mirrored(u, 8)
           w == 256 + u
<1>1. c[1] = 1 /\ \A i \in 1..8 : c[1 + i] = (u \div 2^(8 - i)) % 2
  <2>1. <<1>> \in Seq(Nat) /\ Len(<<1>>) = 1 /\ <<1>>[1] = 1
    OBVIOUS
  <2>2. OfLength(<<1>>, 1) /\ OfLength(Mirrored(u, 8), 8)
    BY <2>1, MirroredLength DEF OfLength
  <2>3. Joined(c, <<1>>, Mirrored(u, 8), 1, 8)
    BY <2>2, JoinAt
  <2> QED BY <2>1, <2>3 DEF Joined, Mirrored
<1> HIDE DEF c
<1>2. w \in Nat
  OBVIOUS
<1>3. \A n \in 1..9 : c[n] = (w \div 2^(9 - n)) % 2
  <2> SUFFICES ASSUME NEW n \in 1..9 PROVE c[n] = (w \div 2^(9 - n)) % 2
    OBVIOUS
  <2>1. CASE n = 1
    <3> DEFINE x == 2^(9 - 1)
    <3>1. x = 256
      BY SMT
    <3> HIDE DEF x
    <3>2. (w \div x) % 2 = 1
      BY <3>1, SMT
    <3> QED BY <1>1, <2>1, <3>2, Zenon DEF x
  <2>2. CASE n = 2
    <3> DEFINE x == 2^(8 - 1)
               y == 2^(9 - 2)
    <3>1. x = 128 /\ y = 128
      BY SMT
    <3> HIDE DEF x, y
    <3>2. (u \div x) % 2 = (w \div y) % 2
      BY <3>1, SMT
    <3>3. 1 + 1 = 2 /\ 1 \in 1..8
      OBVIOUS
    <3>4. c[1 + 1] = (u \div 2^(8 - 1)) % 2
      BY <1>1, <3>3, Zenon
    <3> HIDE DEF w
    <3> QED BY <2>2, <3>2, <3>3, <3>4, Zenon DEF x, y
  <2>3. CASE n = 3
    <3> DEFINE x == 2^(8 - 2)
               y == 2^(9 - 3)
    <3>1. x = 64 /\ y = 64
      BY SMT
    <3> HIDE DEF x, y
    <3>2. (u \div x) % 2 = (w \div y) % 2
      BY <3>1, SMT
    <3>3. 1 + 2 = 3 /\ 2 \in 1..8
      OBVIOUS
    <3>4. c[1 + 2] = (u \div 2^(8 - 2)) % 2
      BY <1>1, <3>3, Zenon
    <3> HIDE DEF w
    <3> QED BY <2>3, <3>2, <3>3, <3>4, Zenon DEF x, y
  <2>4. CASE n = 4
    <3> DEFINE x == 2^(8 - 3)
               y == 2^(9 - 4)
    <3>1. x = 32 /\ y = 32
      BY SMT
    <3> HIDE DEF x, y
    <3>2. (u \div x) % 2 = (w \div y) % 2
      BY <3>1, SMT
    <3>3. 1 + 3 = 4 /\ 3 \in 1..8
      OBVIOUS
    <3>4. c[1 + 3] = (u \div 2^(8 - 3)) % 2
      BY <1>1, <3>3, Zenon
    <3> HIDE DEF w
    <3> QED BY <2>4, <3>2, <3>3, <3>4, Zenon DEF x, y
  <2>5. CASE n = 5
    <3> DEFINE x == 2^(8 - 4)
               y == 2^(9 - 5)
    <3>1. x = 16 /\ y = 16
      BY SMT
    <3> HIDE DEF x, y
    <3>2. (u \div x) % 2 = (w \div y) % 2
      BY <3>1, SMT
    <3>3. 1 + 4 = 5 /\ 4 \in 1..8
      OBVIOUS
    <3>4. c[1 + 4] = (u \div 2^(8 - 4)) % 2
      BY <1>1, <3>3, Zenon
    <3> HIDE DEF w
    <3> QED BY <2>5, <3>2, <3>3, <3>4, Zenon DEF x, y
  <2>6. CASE n = 6
    <3> DEFINE x == 2^(8 - 5)
               y == 2^(9 - 6)
    <3>1. x = 8 /\ y = 8
      BY SMT
    <3> HIDE DEF x, y
    <3>2. (u \div x) % 2 = (w \div y) % 2
      BY <3>1, SMT
    <3>3. 1 + 5 = 6 /\ 5 \in 1..8
      OBVIOUS
    <3>4. c[1 + 5] = (u \div 2^(8 - 5)) % 2
      BY <1>1, <3>3, Zenon
    <3> HIDE DEF w
    <3> QED BY <2>6, <3>2, <3>3, <3>4, Zenon DEF x, y
  <2>7. CASE n = 7
    <3> DEFINE x == 2^(8 - 6)
               y == 2^(9 - 7)
    <3>1. x = 4 /\ y = 4
      BY SMT
    <3> HIDE DEF x, y
    <3>2. (u \div x) % 2 = (w \div y) % 2
      BY <3>1, SMT
    <3>3. 1 + 6 = 7 /\ 6 \in 1..8
      OBVIOUS
    <3>4. c[1 + 6] = (u \div 2^(8 - 6)) % 2
      BY <1>1, <3>3, Zenon
    <3> HIDE DEF w
    <3> QED BY <2>7, <3>2, <3>3, <3>4, Zenon DEF x, y
  <2>8. CASE n = 8
    <3> DEFINE x == 2^(8 - 7)
               y == 2^(9 - 8)
    <3>1. x = 2 /\ y = 2
      BY SMT
    <3> HIDE DEF x, y
    <3>2. (u \div x) % 2 = (w \div y) % 2
      BY <3>1, SMT
    <3>3. 1 + 7 = 8 /\ 7 \in 1..8
      OBVIOUS
    <3>4. c[1 + 7] = (u \div 2^(8 - 7)) % 2
      BY <1>1, <3>3, Zenon
    <3> HIDE DEF w
    <3> QED BY <2>8, <3>2, <3>3, <3>4, Zenon DEF x, y
  <2>9. CASE n = 9
    <3> DEFINE x == 2^(8 - 8)
               y == 2^(9 - 9)
    <3>1. x = 1 /\ y = 1
      BY SMT
    <3> HIDE DEF x, y
    <3>2. (u \div x) % 2 = (w \div y) % 2
      BY <3>1, SMT
    <3>3. 1 + 8 = 9 /\ 8 \in 1..8
      OBVIOUS
    <3>4. c[1 + 8] = (u \div 2^(8 - 8)) % 2
      BY <1>1, <3>3, Zenon
    <3> HIDE DEF w
    <3> QED BY <2>9, <3>2, <3>3, <3>4, Zenon DEF x, y
  <2> QED BY <2>1, <2>2, <2>3, <2>4, <2>5, <2>6, <2>7, <2>8, <2>9
<1>4. Written(bits, p, c, 9)
  BY DEF c
<1> QED BY <1>2, <1>3, <1>4, SpelledAs

(* The symbols that the device writes are the symbols that are read.       *)
LiteralSize(c) == IF c <= 143 THEN 8 ELSE 9

LEMMA ReadsLiteral ==
  ASSUME FileBits, NEW p \in Nat, p <= 8 * limit, NEW c \in Nat, c <= 255,
         Written(bits, p, Literal(c), LiteralSize(c))
  PROVE  Decodes(p, FixedTree, LiteralSize(c), c)
<1>1. CASE c <= 143
  <2> DEFINE u == 48 + c
  <2>1. u \in Nat /\ 48 <= u /\ u < 200 /\ u - 24 = 24 + c
    BY <1>1
  <2>2. Spelled(p, 8, u)
    <3>1. Written(bits, p, Mirrored(u, 8), 8)
      BY <1>1 DEF Literal, LiteralSize
    <3> HIDE DEF u
    <3> QED BY <2>1, <3>1, SpelledByte
  <2> HIDE DEF u
  <2>3. Decodes(p, FixedTree, 8, FixedTree.trans[u - 24])
    BY <2>1, <2>2, EightBits
  <2>4. FixedTree.trans[24 + c] = c
    BY <1>1 DEF FixedTree
  <2> QED BY <1>1, <2>1, <2>3, <2>4 DEF LiteralSize
<1>2. CASE ~(c <= 143)
  <2> DEFINE u == 256 + c
  <2>1. u \in Nat /\ 400 <= u /\ u < 512 /\ u - 224 = 32 + c /\ c < 256
    BY <1>2
  <2>2. Spelled(p, 9, u)
    <3>1. Written(bits, p, <<1>> \o Mirrored(c, 8), 9)
      BY <1>2 DEF Literal, LiteralSize
    <3> QED BY <2>1, <3>1, SpelledNine
  <2> HIDE DEF u
  <2>3. Decodes(p, FixedTree, 9, FixedTree.trans[u - 224])
    BY <2>1, <2>2, NineBits
  <2>4. FixedTree.trans[32 + c] = c
    BY <1>2 DEF FixedTree
  <2> QED BY <1>2, <2>1, <2>3, <2>4 DEF LiteralSize
<1> QED BY <1>1, <1>2

LengthCodeSize(l) == IF l + 256 <= 279 THEN 7 ELSE 8

LEMMA ReadsLength ==
  ASSUME FileBits, NEW p \in Nat, p <= 8 * limit, NEW l \in 1..29,
         Written(bits, p, LengthCode(l + 256), LengthCodeSize(l))
  PROVE  Decodes(p, FixedTree, LengthCodeSize(l), l + 256)
<1>1. CASE l + 256 <= 279
  <2>1. (l + 256) - 256 = l /\ l \in Nat /\ l < 24 /\ 256 + l = l + 256
    BY <1>1
  <2>2. Written(bits, p, Mirrored(l * 2, 7), 7)
    BY <1>1, <2>1 DEF LengthCode, LengthCodeSize
  <2>3. Spelled(p, 7, l)
    BY <2>1, <2>2, SpelledTwice
  <2>4. Decodes(p, FixedTree, 7, 256 + l)
    BY <2>1, <2>3, SevenBits
  <2> QED BY <1>1, <2>1, <2>4 DEF LengthCodeSize
<1>2. CASE ~(l + 256 <= 279)
  <2> DEFINE u == 192 - 280 + (l + 256)
  <2>1. u \in Nat /\ 48 <= u /\ u < 200 /\ u - 24 = l + 144
    BY <1>2
  <2>2. Spelled(p, 8, u)
    <3>1. Written(bits, p, Mirrored(u, 8), 8)
      BY <1>2 DEF LengthCode, LengthCodeSize
    <3> HIDE DEF u
    <3> QED BY <2>1, <3>1, SpelledByte
  <2> HIDE DEF u
  <2>3. Decodes(p, FixedTree, 8, FixedTree.trans[u - 24])
    BY <2>1, <2>2, EightBits
  <2>4. FixedTree.trans[l + 144] = l + 256
    <3>1. 24 <= l
      BY <1>2
    <3> QED BY <3>1 DEF FixedTree
  <2> QED BY <1>2, <2>1, <2>3, <2>4 DEF LengthCodeSize
<1> QED BY <1>1, <1>2

LEMMA ReadsDistance ==
  ASSUME FileBits, NEW p \in Nat, p <= 8 * limit, NEW k \in 1..30,
         Written(bits, p, Mirrored((k - 1) * 8, 5), 5)
  PROVE  Decodes(p, FixedDistTree, 5, k - 1)
<1> DEFINE u == k - 1
<1>1. u \in Nat /\ u < 32
  OBVIOUS
<1>2. Written(bits, p, Mirrored(u * 8, 5), 5)
  OBVIOUS
<1> HIDE DEF u
<1>3. Spelled(p, 5, u)
  BY <1>1, <1>2, SpelledFive
<1>4. Decodes(p, FixedDistTree, 5, u)
  BY <1>1, <1>3, FiveBits
<1> QED BY <1>4 DEF u

LEMMA ReadsEnd ==
  ASSUME FileBits, NEW p \in Nat, p <= 8 * limit, \A i \in 1..7 : bits[p + i] = 0
  PROVE  Decodes(p, FixedTree, 7, 256)
<1>1. Written(bits, p, Mirrored(0 * 2, 7), 7)
  <2> SUFFICES ASSUME NEW i \in 1..7 PROVE Mirrored(0 * 2, 7)[i] = 0
    BY DEF Written
  <2> DEFINE x == 2^(8 - i)
  <2>1. 8 - i \in 0..13
    OBVIOUS
  <2>2. x \in Nat /\ x > 0
    BY <2>1, PowerType
  <2> HIDE DEF x
  <2>3. ((0 * 2) \div x) % 2 = 0
    BY <2>2
  <2> QED BY <2>3 DEF x, Mirrored
<1>2. Spelled(p, 7, 0)
  BY <1>1, SpelledTwice
<1>3. Decodes(p, FixedTree, 7, 256 + 0)
  BY <1>2, SevenBits
<1> QED BY <1>3

LEMMA LengthTables ==
  ASSUME NEW k \in 1..29
  PROVE  /\ LenCodes[k][1] = LengthBits[k] /\ LenCodes[k][1] \in 0..5
         /\ LenCodes[k][2] = LengthBase[k] /\ LenCodes[k][2] \in Nat /\ LenCodes[k][3] \in Nat
BY DEF LenCodes, LengthBits, LengthBase

LEMMA LengthWidths ==
  ASSUME NEW k \in 1..29, NEW v \in Nat, LenCodes[k][2] <= v, v <= LenCodes[k][3]
  PROVE  InBits(v - LenCodes[k][2], LenCodes[k][1])
<1> DEFINE x == LenCodes[k][1]
           d == LenCodes[k][3] - LenCodes[k][2]
<1>1. /\ x = 0 => d < 1
      /\ x = 1 => d < 2
      /\ x = 2 => d < 4
      /\ x = 3 => d < 8
      /\ x = 4 => d < 16
      /\ x = 5 => d < 32
  BY DEF LenCodes
<1>2. x \in 0..5 /\ d \in Int /\ v - LenCodes[k][2] \in Int /\ v - LenCodes[k][2] <= d
  BY LengthTables
<1> HIDE DEF x, d
<1>3. x = 0 => d < 2^x
  <2> DEFINE y == 2^0
  <2>1. y = 1
    BY SMT
  <2> HIDE DEF y
  <2>2. x = 0 => d < y
    BY <1>1, <2>1
  <2> QED BY <2>2, Zenon DEF y
<1>4. x = 1 => d < 2^x
  <2> DEFINE y == 2^1
  <2>1. y = 2
    BY SMT
  <2> HIDE DEF y
  <2>2. x = 1 => d < y
    BY <1>1, <2>1
  <2> QED BY <2>2, Zenon DEF y
<1>5. x = 2 => d < 2^x
  <2> DEFINE y == 2^2
  <2>1. y = 4
    BY SMT
  <2> HIDE DEF y
  <2>2. x = 2 => d < y
    BY <1>1, <2>1
  <2> QED BY <2>2, Zenon DEF y
<1>6. x = 3 => d < 2^x
  <2> DEFINE y == 2^3
  <2>1. y = 8
    BY SMT
  <2> HIDE DEF y
  <2>2. x = 3 => d < y
    BY <1>1, <2>1
  <2> QED BY <2>2, Zenon DEF y
<1>7. x = 4 => d < 2^x
  <2> DEFINE y == 2^4
  <2>1. y = 16
    BY SMT
  <2> HIDE DEF y
  <2>2. x = 4 => d < y
    BY <1>1, <2>1
  <2> QED BY <2>2, Zenon DEF y
<1>8. x = 5 => d < 2^x
  <2> DEFINE y == 2^5
  <2>1. y = 32
    BY SMT
  <2> HIDE DEF y
  <2>2. x = 5 => d < y
    BY <1>1, <2>1
  <2> QED BY <2>2, Zenon DEF y
<1> DEFINE z == 2^x
<1>9. d < z
  <2> HIDE DEF z
  <2>1. x \in 0..5
    BY <1>2
  <2> QED BY <2>1, <1>3, <1>4, <1>5, <1>6, <1>7, <1>8 DEF z
<1>10. z \in Nat
  <2>1. x \in 0..13
    BY <1>2
  <2> QED BY <2>1, PowerType
<1> HIDE DEF z
<1>11. v - LenCodes[k][2] < z
  BY <1>2, <1>9, <1>10
<1> QED BY <1>11 DEF z, x, InBits

LEMMA DistanceTables ==
  ASSUME NEW k \in 1..30
  PROVE  /\ DistCodes[k][1] = DistBits[k] /\ DistCodes[k][1] \in 0..13
         /\ DistCodes[k][2] = DistBase[k] /\ DistCodes[k][2] \in Nat /\ DistCodes[k][3] \in Nat
BY DEF DistCodes, DistBits, DistBase

LEMMA DistanceWidths ==
  ASSUME NEW k \in 1..30, NEW v \in Nat, DistCodes[k][2] <= v, v <= DistCodes[k][3]
  PROVE  InBits(v - DistCodes[k][2], DistCodes[k][1])
<1> DEFINE x == DistCodes[k][1]
           d == DistCodes[k][3] - DistCodes[k][2]
<1>1. /\ x = 0 => d < 1
      /\ x = 1 => d < 2
      /\ x = 2 => d < 4
      /\ x = 3 => d < 8
      /\ x = 4 => d < 16
      /\ x = 5 => d < 32
      /\ x = 6 => d < 64
      /\ x = 7 => d < 128
      /\ x = 8 => d < 256
      /\ x = 9 => d < 512
      /\ x = 10 => d < 1024
      /\ x = 11 => d < 2048
      /\ x = 12 => d < 4096
      /\ x = 13 => d < 8192
  BY DEF DistCodes
<1>2. x \in 0..13 /\ d \in Int /\ v - DistCodes[k][2] \in Int /\ v - DistCodes[k][2] <= d
  BY DistanceTables
<1> HIDE DEF x, d
<1>3. x = 0 => d < 2^x
  <2> DEFINE y == 2^0
  <2>1. y = 1
    BY SMT
  <2> HIDE DEF y
  <2>2. x = 0 => d < y
    BY <1>1, <2>1
  <2> QED BY <2>2, Zenon DEF y
<1>4. x = 1 => d < 2^x
  <2> DEFINE y == 2^1
  <2>1. y = 2
    BY SMT
  <2> HIDE DEF y
  <2>2. x = 1 => d < y
    BY <1>1, <2>1
  <2> QED BY <2>2, Zenon DEF y
<1>5. x = 2 => d < 2^x
  <2> DEFINE y == 2^2
  <2>1. y = 4
    BY SMT
  <2> HIDE DEF y
  <2>2. x = 2 => d < y
    BY <1>1, <2>1
  <2> QED BY <2>2, Zenon DEF y
<1>6. x = 3 => d < 2^x
  <2> DEFINE y == 2^3
  <2>1. y = 8
    BY SMT
  <2> HIDE DEF y
  <2>2. x = 3 => d < y
    BY <1>1, <2>1
  <2> QED BY <2>2, Zenon DEF y
<1>7. x = 4 => d < 2^x
  <2> DEFINE y == 2^4
  <2>1. y = 16
    BY SMT
  <2> HIDE DEF y
  <2>2. x = 4 => d < y
    BY <1>1, <2>1
  <2> QED BY <2>2, Zenon DEF y
<1>8. x = 5 => d < 2^x
  <2> DEFINE y == 2^5
  <2>1. y = 32
    BY SMT
  <2> HIDE DEF y
  <2>2. x = 5 => d < y
    BY <1>1, <2>1
  <2> QED BY <2>2, Zenon DEF y
<1>9. x = 6 => d < 2^x
  <2> DEFINE y == 2^6
  <2>1. y = 64
    BY SMT
  <2> HIDE DEF y
  <2>2. x = 6 => d < y
    BY <1>1, <2>1
  <2> QED BY <2>2, Zenon DEF y
<1>10. x = 7 => d < 2^x
  <2> DEFINE y == 2^7
  <2>1. y = 128
    BY SMT
  <2> HIDE DEF y
  <2>2. x = 7 => d < y
    BY <1>1, <2>1
  <2> QED BY <2>2, Zenon DEF y
<1>11. x = 8 => d < 2^x
  <2> DEFINE y == 2^8
  <2>1. y = 256
    BY SMT
  <2> HIDE DEF y
  <2>2. x = 8 => d < y
    BY <1>1, <2>1
  <2> QED BY <2>2, Zenon DEF y
<1>12. x = 9 => d < 2^x
  <2> DEFINE y == 2^9
  <2>1. y = 512
    BY SMT
  <2> HIDE DEF y
  <2>2. x = 9 => d < y
    BY <1>1, <2>1
  <2> QED BY <2>2, Zenon DEF y
<1>13. x = 10 => d < 2^x
  <2> DEFINE y == 2^10
  <2>1. y = 1024
    BY SMT
  <2> HIDE DEF y
  <2>2. x = 10 => d < y
    BY <1>1, <2>1
  <2> QED BY <2>2, Zenon DEF y
<1>14. x = 11 => d < 2^x
  <2> DEFINE y == 2^11
  <2>1. y = 2048
    BY SMT
  <2> HIDE DEF y
  <2>2. x = 11 => d < y
    BY <1>1, <2>1
  <2> QED BY <2>2, Zenon DEF y
<1>15. x = 12 => d < 2^x
  <2> DEFINE y == 2^12
  <2>1. y = 4096
    BY SMT
  <2> HIDE DEF y
  <2>2. x = 12 => d < y
    BY <1>1, <2>1
  <2> QED BY <2>2, Zenon DEF y
<1>16. x = 13 => d < 2^x
  <2> DEFINE y == 2^13
  <2>1. y = 8192
    BY SMT
  <2> HIDE DEF y
  <2>2. x = 13 => d < y
    BY <1>1, <2>1
  <2> QED BY <2>2, Zenon DEF y
<1> DEFINE z == 2^x
<1>17. d < z
  <2> HIDE DEF z
  <2>1. x \in 0..13
    BY <1>2
  <2> QED BY <2>1, <1>3, <1>4, <1>5, <1>6, <1>7, <1>8, <1>9, <1>10, <1>11, <1>12, <1>13, <1>14, <1>15, <1>16 DEF z
<1>18. z \in Nat
  <2>1. x \in 0..13
    BY <1>2
  <2> QED BY <2>1, PowerType
<1> HIDE DEF z
<1>19. v - DistCodes[k][2] < z
  BY <1>2, <1>17, <1>18
<1> QED BY <1>19 DEF z, x, InBits

(***************************************************************************)
(* Reading a token.                                                        *)
(***************************************************************************)

IsLiteral(t) == t.dist = 0 /\ t.len \in Nat /\ t.len <= 255

IsMatch(t) ==
  /\ t.dist \in Nat /\ t.dist # 0 /\ 1 <= t.dist /\ t.dist <= 32768
  /\ t.len \in Nat /\ 3 <= t.len /\ t.len <= 258

LEMMA CodedIs ==
  ASSUME NEW t \in Coded
  PROVE  /\ IsLiteral(t) \/ IsMatch(t)
         /\ t = [ dist |-> t.dist, len |-> t.len ]
<1>1. CASE t \in [ dist : {0}, len : 0..255 ]
  BY <1>1 DEF IsLiteral
<1>2. CASE t \in [ dist : 1..MaxDistance, len : MinMatch..MaxMatch ]
  <2> DEFINE D == 1..MaxDistance
             N == MinMatch..MaxMatch
             d == t.dist
             n == t.len
  <2>1. \A i \in D : i \in Nat /\ i # 0 /\ 1 <= i /\ i <= 32768
    BY DEF MaxDistance
  <2>2. \A i \in N : i \in Nat /\ 3 <= i /\ i <= 258
    BY DEF MinMatch, MaxMatch
  <2> HIDE DEF D, N
  <2>3. t \in [ dist : D, len : N ]
    BY <1>2, Zenon DEF D, N
  <2>4. d \in D /\ n \in N /\ t = [ dist |-> d, len |-> n ]
    BY <2>3
  <2> HIDE DEF d, n
  <2>5. d \in Nat /\ d # 0 /\ 1 <= d /\ d <= 32768 /\ n \in Nat /\ 3 <= n /\ n <= 258
    BY <2>1, <2>2, <2>4
  <2>6. IsMatch(t)
    BY <2>5 DEF d, n, IsMatch
  <2> QED BY <2>4, <2>6, Zenon DEF d, n
<1> QED BY <1>1, <1>2, Zenon DEF Coded

LengthOf(t) == CodeOf(LenCodes, t.len)
DistOf(t) == CodeOf(DistCodes, t.dist)

LEMMA CodesFit ==
  ASSUME NEW t, IsMatch(t)
  PROVE  /\ LengthOf(t) \in 1..29 /\ DistOf(t) \in 1..30
         /\ LenCodes[LengthOf(t)][2] <= t.len /\ t.len <= LenCodes[LengthOf(t)][3]
         /\ DistCodes[DistOf(t)][2] <= t.dist /\ t.dist <= DistCodes[DistOf(t)][3]
<1>1. LengthOf(t) \in In(LenCodes, t.len)
  BY LengthsCovered, CodeFound DEF IsMatch, LengthOf
<1>2. DistOf(t) \in In(DistCodes, t.dist)
  BY DistancesCovered, CodeFound DEF IsMatch, DistOf
<1> QED BY <1>1, <1>2, LengthTable, DistanceTable DEF In

LEMMA WrittenParts ==
  ASSUME NEW b, NEW p \in Nat, NEW a, NEW c, NEW m, NEW n, OfLength(a, m), OfLength(c, n),
         Written(b, p, a \o c, m + n)
  PROVE  Written(b, p, a, m) /\ Written(b, p + m, c, n)
<1> DEFINE j == a \o c
<1>1. Joined(j, a, c, m, n)
  BY JoinAt
<1>2. m \in Nat /\ n \in Nat
  BY DEF OfLength
<1>3. Written(b, p, j, m + n)
  OBVIOUS
<1> HIDE DEF j
<1>4. ASSUME NEW i \in 1..m PROVE b[p + i] = a[i]
  <2>1. i \in 1..(m + n)
    BY <1>2
  <2> QED BY <2>1, <1>1, <1>3 DEF Joined, Written
<1>5. ASSUME NEW i \in 1..n PROVE b[(p + m) + i] = c[i]
  <2>1. m + i \in 1..(m + n) /\ p + (m + i) = (p + m) + i
    BY <1>2
  <2>2. b[p + (m + i)] = j[m + i] /\ j[m + i] = c[i]
    BY <2>1, <1>1, <1>3 DEF Joined, Written
  <2> QED BY <2>1, <2>2
<1> QED BY <1>4, <1>5 DEF Written

\* The parts of a match: where each begins, from place p on.
ExtraAt(t, p) == p + LengthCodeSize(LengthOf(t))
DistAt(t, p) == ExtraAt(t, p) + LenCodes[LengthOf(t)][1]
DistExtraAt(t, p) == DistAt(t, p) + 5
MatchEnd(t, p) == DistExtraAt(t, p) + DistCodes[DistOf(t)][1]

LEMMA MatchPlaces ==
  ASSUME NEW t, IsMatch(t), NEW p \in Nat
  PROVE  /\ LengthCodeSize(LengthOf(t)) \in {7, 8}
         /\ LenCodes[LengthOf(t)][1] \in 0..5 /\ DistCodes[DistOf(t)][1] \in 0..13
         /\ ExtraAt(t, p) \in Nat /\ DistAt(t, p) \in Nat /\ DistExtraAt(t, p) \in Nat
         /\ MatchEnd(t, p) \in Nat
         /\ p < ExtraAt(t, p) /\ ExtraAt(t, p) <= DistAt(t, p)
         /\ DistAt(t, p) < DistExtraAt(t, p) /\ DistExtraAt(t, p) <= MatchEnd(t, p)
<1> DEFINE a == LengthCodeSize(LengthOf(t))
           x == LenCodes[LengthOf(t)][1]
           y == DistCodes[DistOf(t)][1]
<1>1. a \in {7, 8}
  BY DEF LengthCodeSize
<1>2. x \in 0..5 /\ y \in 0..13
  BY CodesFit, LengthTables, DistanceTables
<1> HIDE DEF a, x, y
<1>3. /\ p + a \in Nat /\ (p + a) + x \in Nat /\ ((p + a) + x) + 5 \in Nat
      /\ (((p + a) + x) + 5) + y \in Nat
      /\ p < p + a /\ p + a <= (p + a) + x /\ (p + a) + x < ((p + a) + x) + 5
      /\ ((p + a) + x) + 5 <= (((p + a) + x) + 5) + y
  BY <1>1, <1>2
<1> QED BY <1>1, <1>2, <1>3 DEF a, x, y, ExtraAt, DistAt, DistExtraAt, MatchEnd

LEMMA LengthCodeLength ==
  ASSUME NEW l PROVE OfLength(LengthCode(l + 256), LengthCodeSize(l))
BY MirroredLength DEF LengthCode, LengthCodeSize

LEMMA MatchLength ==
  ASSUME NEW t, IsMatch(t), NEW p \in Nat
  PROVE  OfLength(Encoded(t), MatchEnd(t, p) - p)
<1> DEFINE l == LengthOf(t)
           k == DistOf(t)
           A == LengthCode(l + 256)
           B == Extra(LenCodes[l], t.len)
           C == Mirrored((k - 1) * 8, 5)
           D == Extra(DistCodes[k], t.dist)
           a == LengthCodeSize(l)
           x == LenCodes[l][1]
           y == DistCodes[k][1]
<1>1. OfLength(A, a) /\ OfLength(C, 5)
  BY LengthCodeLength, MirroredLength
<1>2. x \in Nat /\ y \in Nat /\ a \in Nat
  BY MatchPlaces
<1>3. OfLength(B, x) /\ OfLength(D, y)
  BY <1>2, OutBitsLength DEF Extra
<1>4. Encoded(t) = ((A \o B) \o C) \o D
  BY DEF Encoded, Match, IsMatch, LengthOf, DistOf
<1>5. MatchEnd(t, p) - p = ((a + x) + 5) + y
  <2>1. MatchEnd(t, p) = (((p + a) + x) + 5) + y
    BY DEF MatchEnd, DistExtraAt, DistAt, ExtraAt
  <2> HIDE DEF a, x, y
  <2> QED BY <2>1, <1>2
<1> HIDE DEF A, B, C, D, a, x, y
<1>6. OfLength(A \o B, a + x)
  BY <1>1, <1>3, Lengthen
<1>7. OfLength((A \o B) \o C, (a + x) + 5)
  BY <1>6, <1>1, Lengthen
<1>8. OfLength(((A \o B) \o C) \o D, ((a + x) + 5) + y)
  BY <1>7, <1>3, Lengthen
<1> QED BY <1>4, <1>5, <1>8

(* The code of a match, part by part. *)
LEMMA MatchParts ==
  ASSUME NEW b, NEW t, IsMatch(t), NEW p \in Nat,
         Written(b, p, Encoded(t), MatchEnd(t, p) - p)
  PROVE  /\ Written(b, p, LengthCode(LengthOf(t) + 256), LengthCodeSize(LengthOf(t)))
         /\ Written(b, ExtraAt(t, p), Extra(LenCodes[LengthOf(t)], t.len),
                    LenCodes[LengthOf(t)][1])
         /\ Written(b, DistAt(t, p), Mirrored((DistOf(t) - 1) * 8, 5), 5)
         /\ Written(b, DistExtraAt(t, p), Extra(DistCodes[DistOf(t)], t.dist),
                    DistCodes[DistOf(t)][1])
<1> DEFINE l == LengthOf(t)
           k == DistOf(t)
           A == LengthCode(l + 256)
           B == Extra(LenCodes[l], t.len)
           C == Mirrored((k - 1) * 8, 5)
           D == Extra(DistCodes[k], t.dist)
           a == LengthCodeSize(l)
           x == LenCodes[l][1]
           y == DistCodes[k][1]
<1>1. OfLength(A, a) /\ OfLength(C, 5)
  BY LengthCodeLength, MirroredLength
<1>2. x \in Nat /\ y \in Nat /\ a \in Nat
  BY MatchPlaces
<1>3. OfLength(B, x) /\ OfLength(D, y)
  BY <1>2, OutBitsLength DEF Extra
<1>4. Encoded(t) = ((A \o B) \o C) \o D
  BY DEF Encoded, Match, IsMatch, LengthOf, DistOf
<1>5. /\ ExtraAt(t, p) = p + a /\ DistAt(t, p) = (p + a) + x
      /\ DistExtraAt(t, p) = ((p + a) + x) + 5
      /\ MatchEnd(t, p) = (((p + a) + x) + 5) + y
  BY DEF MatchEnd, DistExtraAt, DistAt, ExtraAt
<1> HIDE DEF A, B, C, D, a, x, y
<1>6. OfLength(A \o B, a + x)
  BY <1>1, <1>3, Lengthen
<1>7. OfLength((A \o B) \o C, (a + x) + 5)
  BY <1>6, <1>1, Lengthen
<1>8. /\ MatchEnd(t, p) - p = ((a + x) + 5) + y
      /\ p + ((a + x) + 5) = ((p + a) + x) + 5
      /\ p + (a + x) = (p + a) + x
  BY <1>2, <1>5
<1>9. Written(b, p, (A \o B) \o C, (a + x) + 5) /\ Written(b, p + ((a + x) + 5), D, y)
  BY <1>3, <1>4, <1>7, <1>8, WrittenParts
<1>10. Written(b, p, A \o B, a + x) /\ Written(b, p + (a + x), C, 5)
  BY <1>1, <1>6, <1>9, WrittenParts
<1>11. Written(b, p, A, a) /\ Written(b, p + a, B, x)
  BY <1>1, <1>3, <1>10, WrittenParts
<1>12. /\ Written(b, p, A, a) /\ Written(b, ExtraAt(t, p), B, x)
       /\ Written(b, DistAt(t, p), C, 5) /\ Written(b, DistExtraAt(t, p), D, y)
  BY <1>5, <1>8, <1>9, <1>10, <1>11
<1> QED BY <1>12 DEF A, B, C, D, a, x, y

LEMMA LiteralLength ==
  ASSUME NEW c PROVE OfLength(Literal(c), LiteralSize(c))
<1>1. OfLength(Mirrored(48 + c, 8), 8) /\ OfLength(Mirrored(c, 8), 8)
  BY MirroredLength
<1>2. OfLength(<<1>>, 1)
  <2>1. <<1>> \in Seq(Nat) /\ Len(<<1>>) = 1
    OBVIOUS
  <2> QED BY <2>1 DEF OfLength
<1>3. OfLength(<<1>> \o Mirrored(c, 8), 1 + 8)
  BY <1>1, <1>2, Lengthen
<1>4. 1 + 8 = 9
  OBVIOUS
<1> QED BY <1>1, <1>3, <1>4 DEF Literal, LiteralSize

\* Where the code of a token ends that begins at p.
EndsAt(t, p) == IF t.dist = 0 THEN p + LiteralSize(t.len) ELSE MatchEnd(t, p)

LEMMA TokenLength ==
  ASSUME NEW t, IsLiteral(t) \/ IsMatch(t), NEW p \in Nat
  PROVE  EndsAt(t, p) \in Nat /\ p < EndsAt(t, p) /\ OfLength(Encoded(t), EndsAt(t, p) - p)
<1>1. CASE IsLiteral(t)
  <2>1. LiteralSize(t.len) \in {8, 9}
    BY DEF LiteralSize
  <2>2. OfLength(Encoded(t), LiteralSize(t.len))
    BY <1>1, LiteralLength DEF Encoded, IsLiteral
  <2> DEFINE n == LiteralSize(t.len)
  <2>3. EndsAt(t, p) = p + n
    BY <1>1 DEF EndsAt, IsLiteral
  <2> HIDE DEF n
  <2>4. p + n \in Nat /\ p < p + n /\ (p + n) - p = n
    BY <2>1 DEF n
  <2> QED BY <2>2, <2>3, <2>4 DEF n
<1>2. CASE IsMatch(t)
  <2>1. EndsAt(t, p) = MatchEnd(t, p)
    BY <1>2 DEF EndsAt, IsMatch
  <2>2. MatchEnd(t, p) \in Nat /\ p < MatchEnd(t, p)
    <3> DEFINE a == ExtraAt(t, p)
               b == DistAt(t, p)
               c == DistExtraAt(t, p)
               d == MatchEnd(t, p)
    <3>1. /\ a \in Nat /\ b \in Nat /\ c \in Nat /\ d \in Nat
          /\ p < a /\ a <= b /\ b < c /\ c <= d
      BY <1>2, MatchPlaces
    <3> HIDE DEF a, b, c, d
    <3>2. d \in Nat /\ p < d
      BY <3>1
    <3> QED BY <3>2 DEF d
  <2> QED BY <1>2, <2>1, <2>2, MatchLength
<1> QED BY <1>1, <1>2

(* The call that has run out of input says so. *)
LEMMA Starving == ASSUME NEW r, eof', End(r) PROVE reading' = "end" /\ result' = "starved"
BY DEF End

LEMMA ReadPast == ASSUME NEW p, Read(p), Exhausted(p) PROVE eof'
BY DEF Read

LEMMA ReadWithin == ASSUME NEW p, Read(p), ~Exhausted(p), ~eof PROVE ~eof' /\ rd' = p
BY DEF Read

\* A token has been read, up to place q, or the file has run out in it.
TokenRead(t, q) ==
  IF q <= 8 * limit
    THEN got' = Append(got, t) /\ rd' = q /\ ~eof' /\ UNCHANGED <<reading, result>>
    ELSE /\ eof'
         /\ \/ reading' = "end" /\ result' = "starved"
            \/ UNCHANGED <<reading, result>>

(* A symbol that the file ends in. *)
LEMMA SymbolCut ==
  ASSUME trees = Fixed, ReadToken, Exhausted(DecodeSymbol(rd, FixedTree).next)
  PROVE  eof' /\ reading' = "end" /\ result' = "starved"
<1> DEFINE l == DecodeSymbol(rd, FixedTree)
<1>1. LitTree = FixedTree
  BY DEF LitTree, Fixed
<1>2. Read(l.next) /\ End("error")
  BY <1>1 DEF ReadToken
<1>3. eof'
  BY <1>2, ReadPast
<1> QED BY <1>2, <1>3, Starving

LEMMA LiteralRead ==
  ASSUME FileBits, rd \in Nat, rd <= 8 * limit, ~eof, trees = Fixed, ReadToken,
         NEW t, t = [ dist |-> t.dist, len |-> t.len ], IsLiteral(t),
         Written(bits, rd, Encoded(t), EndsAt(t, rd) - rd)
  PROVE  TokenRead(t, EndsAt(t, rd))
<1> DEFINE l == DecodeSymbol(rd, FixedTree)
           c == t.len
           n == LiteralSize(c)
           q == rd + n
<1>1. c \in Nat /\ c <= 255 /\ t.dist = 0 /\ Encoded(t) = Literal(c) /\ EndsAt(t, rd) = q
  BY DEF IsLiteral, Encoded, EndsAt
<1>2. q - rd = n
  <2>1. n \in {8, 9}
    BY DEF LiteralSize
  <2> HIDE DEF n
  <2> QED BY <2>1
<1>3. Decodes(rd, FixedTree, n, c)
  BY <1>1, <1>2, ReadsLiteral
<1>4. CASE q <= 8 * limit
  <2>1. l = [ sym |-> c, next |-> q ]
    BY <1>3, <1>4 DEF Decodes
  <2>2. ~Exhausted(q)
    <3>1. q \in Nat /\ 8 * limit \in Nat
      BY <1>1 DEF FileBits, LiteralSize
    <3> HIDE DEF q
    <3> QED BY <3>1, <1>4 DEF Exhausted
  <2>3. LitTree = FixedTree
    BY DEF LitTree, Fixed
  <2>4. l.sym = c /\ l.next = q
    BY <2>1
  <2> HIDE DEF l, q
  <2>5. \/ l.sym < 256 /\ Read(l.next) /\ Token(0, l.sym)
        \/ l.sym = 256
        \/ l.sym > 256
    BY <2>2, <2>3, <2>4 DEF ReadToken, l
  <2>6. Read(q) /\ Token(0, c)
    BY <1>1, <2>4, <2>5
  <2>7. ~eof' /\ rd' = q
    BY <2>2, <2>6, ReadWithin
  <2>8. got' = Append(got, t) /\ UNCHANGED <<reading, result>>
    <3>1. t = [ dist |-> 0, len |-> c ]
      BY <1>1
    <3> QED BY <2>6, <3>1 DEF Token
  <2> QED BY <1>1, <1>4, <2>7, <2>8 DEF TokenRead
<1>5. CASE ~(q <= 8 * limit)
  <2>1. Exhausted(l.next)
    BY <1>3, <1>5 DEF Decodes
  <2>2. eof' /\ reading' = "end" /\ result' = "starved"
    BY <2>1, SymbolCut
  <2> HIDE DEF q
  <2> QED BY <1>1, <1>5, <2>2 DEF TokenRead
<1> QED BY <1>4, <1>5

LEMMA ExtraRead ==
  ASSUME FileBits, NEW p \in Nat, NEW v \in Nat, NEW from \in Nat, NEW num \in 0..13,
         from <= v, InBits(v - from, num), Written(bits, p, OutBits(v - from, num), num),
         p + num <= 8 * limit
  PROVE  ReadBits(p, num, from) = v
<1> DEFINE w == v - from
<1>1. w \in Nat /\ from + w = v /\ num \in Nat
  OBVIOUS
<1>2. InBits(w, num) /\ Written(bits, p, OutBits(w, num), num)
  OBVIOUS
<1> HIDE DEF w
<1>3. Valued(p, num, w)
  BY <1>1, <1>2, WrittenValue
<1>4. ReadBits(p, num, from) = from + w
  BY <1>1, <1>2, <1>3, ReadsBack
<1> QED BY <1>1, <1>4

\* A distance is looked for at p, and is not there, or is past its end.
DistanceCut(p) ==
  DecodeSymbol(p, FixedDistTree).next \in Nat /\ Exhausted(DecodeSymbol(p, FixedDistTree).next)

LEMMA DistanceBeyond ==
  ASSUME FileBits, NEW p \in Nat, 8 * limit <= p PROVE DistanceCut(p)
<1> DEFINE T == FixedDistTree
           x == DecodeSymbol(p, T).next
<1>1. \A n \in 1..15 : Curs(p, T)[n] \in Int
  BY FixedDistTreeIs, CurSteps
<1>2. \A n \in 1..15 : n <= 0 => Curs(p, T)[n] >= 0
  OBVIOUS
<1>3. 0 \in 0..15
  OBVIOUS
<1>4. x \in Nat /\ x > p + 0
  BY <1>1, <1>2, <1>3, DecodeBeyond
<1> HIDE DEF x
<1>5. x > 8 * limit
  BY <1>4 DEF FileBits
<1> QED BY <1>4, <1>5 DEF x, DistanceCut, Exhausted

\* The two calls that read a match's distance.
DistanceOf(t) == DecodeSymbol(DistAt(t, rd), FixedDistTree)

LEMMA WindowIs == Window \in Nat
BY DecoderAssumption

LEMMA MatchRead ==
  ASSUME FileBits, rd \in Nat, rd <= 8 * limit, ~eof, trees = Fixed, ReadToken,
         NEW t, t = [ dist |-> t.dist, len |-> t.len ], IsMatch(t), t.dist <= Window,
         Written(bits, rd, Encoded(t), EndsAt(t, rd) - rd)
  PROVE  TokenRead(t, EndsAt(t, rd))
<1> DEFINE L == 8 * limit
           s == DecodeSymbol(rd, FixedTree)
           l == LengthOf(t)
           k == DistOf(t)
           p1 == ExtraAt(t, rd)
           p2 == DistAt(t, rd)
           p3 == DistExtraAt(t, rd)
           q == MatchEnd(t, rd)
           x == LenCodes[l][1]
           y == DistCodes[k][1]
<1>1. /\ l \in 1..29 /\ k \in 1..30
      /\ LenCodes[l][2] <= t.len /\ t.len <= LenCodes[l][3]
      /\ DistCodes[k][2] <= t.dist /\ t.dist <= DistCodes[k][3]
  BY CodesFit
<1>2. /\ x \in 0..5 /\ y \in 0..13 /\ L \in Nat
      /\ p1 \in Nat /\ p2 \in Nat /\ p3 \in Nat /\ q \in Nat
      /\ p1 <= p2 /\ p2 < p3 /\ p3 <= q
  BY MatchPlaces DEF FileBits
<1>3. /\ EndsAt(t, rd) = q /\ p1 = rd + LengthCodeSize(l)
      /\ p2 = p1 + x /\ p3 = p2 + 5 /\ q = p3 + y
  BY DEF EndsAt, IsMatch, MatchEnd, DistExtraAt, DistAt, ExtraAt
<1>4. /\ Written(bits, rd, LengthCode(l + 256), LengthCodeSize(l))
      /\ Written(bits, p1, Extra(LenCodes[l], t.len), x)
      /\ Written(bits, p2, Mirrored((k - 1) * 8, 5), 5)
      /\ Written(bits, p3, Extra(DistCodes[k], t.dist), y)
  BY <1>3, MatchParts
<1>5. /\ x = LengthBits[l] /\ LenCodes[l][2] = LengthBase[l] /\ LengthBase[l] \in Nat
      /\ y = DistBits[k] /\ DistCodes[k][2] = DistBase[k] /\ DistBase[k] \in Nat
  BY <1>1, LengthTables, DistanceTables
<1>6. Decodes(rd, FixedTree, LengthCodeSize(l), l + 256)
  BY <1>1, <1>4, ReadsLength
<1>7. CASE ~(p1 <= L)
  <2>1. Exhausted(s.next)
    BY <1>3, <1>6, <1>7 DEF Decodes
  <2>2. eof' /\ reading' = "end" /\ result' = "starved"
    BY <2>1, SymbolCut
  <2>3. ~(q <= L)
    <3> HIDE DEF L, p1, p2, p3, q
    <3> QED BY <1>2, <1>7
  <2> HIDE DEF q
  <2> QED BY <1>3, <2>2, <2>3 DEF TokenRead
<1>8. CASE p1 <= L
  <2>1. s = [ sym |-> l + 256, next |-> p1 ]
    BY <1>3, <1>6, <1>8 DEF Decodes
  <2>2. s.sym = l + 256 /\ s.next = p1
    BY <2>1
  <2>3. ~Exhausted(p1)
    <3> HIDE DEF p1
    <3>1. ~(p1 > L)
      <4> HIDE DEF L
      <4> QED BY <1>2, <1>8
    <3> QED BY <3>1 DEF Exhausted
  <2>4. LitTree = FixedTree /\ DistTree = FixedDistTree
    BY DEF LitTree, DistTree, Fixed
  <2>5. ReadMatch(s)
    <3>1. l + 256 > 256
      <4> HIDE DEF l
      <4> QED BY <1>1
    <3> HIDE DEF p1, l, s
    <3>2. ~(l + 256 < 256) /\ l + 256 # 256
      BY <1>1
    <3> QED BY <2>2, <2>3, <2>4, <3>1, <3>2 DEF ReadToken, s
  <2> DEFINE d == DistanceOf(t)
             n == ReadBits(p1, x, LengthBase[l])
             m == ReadBits(d.next, DistBits[d.sym + 1], DistBase[d.sym + 1])
  <2>6. IF d.sym \notin 0..29 THEN Read(d.next) /\ End("error")
        ELSE /\ Read(d.next + DistBits[d.sym + 1])
             /\ IF m > Window THEN End("error") ELSE Token(m, n)
    <3>1. s.sym - 256 = l /\ ~(l > 29)
      <4> HIDE DEF l
      <4> QED BY <1>1, <2>2
    <3> HIDE DEF l, k, x, y, s
    <3>2. p1 + LengthBits[l] = p2
      BY <1>3, <1>5
    <3> HIDE DEF p1, p2
    <3>3. \E e \in {DecodeSymbol(p2, FixedDistTree)} :
            IF e.sym \notin 0..29 THEN Read(e.next) /\ End("error")
            ELSE /\ Read(e.next + DistBits[e.sym + 1])
                 /\ LET i == ReadBits(p1, LengthBits[l], LengthBase[l])
                        j == ReadBits(e.next, DistBits[e.sym + 1], DistBase[e.sym + 1])
                    IN  IF j > Window THEN End("error") ELSE Token(j, i)
      BY <2>2, <2>4, <2>5, <3>1, <3>2 DEF ReadMatch
    <3> QED BY <1>5, <3>3 DEF DistanceOf, p2
  <2>7. CASE p3 <= L
    <3>1. Decodes(p2, FixedDistTree, 5, k - 1)
      <4>1. p2 <= L
        <5> HIDE DEF L, p2, p3
        <5> QED BY <1>2, <2>7
      <4> QED BY <1>1, <1>2, <1>4, <4>1, ReadsDistance
    <3>2. d.sym = k - 1 /\ d.next = p3
      <4>1. d = [ sym |-> k - 1, next |-> p3 ]
        BY <1>3, <2>7, <3>1 DEF Decodes, DistanceOf
      <4> QED BY <4>1
    <3>3. d.sym \in 0..29 /\ d.sym + 1 = k
      <4> HIDE DEF k, d
      <4> QED BY <1>1, <3>2
    <3>4. Read(q) /\ IF m > Window THEN End("error") ELSE Token(m, n)
      <4> HIDE DEF d, n, m, q, p3, y, k
      <4> QED BY <1>3, <1>5, <2>6, <3>2, <3>3
    <3>5. n = t.len
      <4>1. p1 + x <= L
        <5> HIDE DEF p1, p2, p3, L
        <5> QED BY <1>2, <1>3, <2>7
      <4>2. t.len \in Nat /\ x \in 0..13
        <5> HIDE DEF x
        <5> QED BY <1>2 DEF IsMatch
      <4>3. InBits(t.len - LenCodes[l][2], x)
        BY <1>1, <4>2, LengthWidths
      <4>4. Written(bits, p1, OutBits(t.len - LengthBase[l], x), x)
        BY <1>4, <1>5 DEF Extra
      <4> HIDE DEF p1, l, x
      <4>5. LengthBase[l] <= t.len /\ InBits(t.len - LengthBase[l], x)
        BY <1>1, <1>5, <4>3, Zenon
      <4> QED BY <1>2, <1>5, <4>1, <4>2, <4>4, <4>5, ExtraRead
    <3>6. CASE q <= L
      <4>1. m = t.dist
        <5>1. p3 + y <= L
          BY <1>3, <3>6
        <5>2. t.dist \in Nat
          BY DEF IsMatch
        <5>3. InBits(t.dist - DistCodes[k][2], y)
          BY <1>1, <5>2, DistanceWidths
        <5>4. Written(bits, p3, OutBits(t.dist - DistBase[k], y), y)
          BY <1>4, <1>5 DEF Extra
        <5>5. m = ReadBits(p3, y, DistBase[k])
          BY <1>5, <3>2, <3>3
        <5> HIDE DEF m, p3, k, y
        <5>6. DistBase[k] <= t.dist /\ InBits(t.dist - DistBase[k], y)
          BY <1>1, <1>5, <5>3, Zenon
        <5> QED BY <1>2, <1>5, <5>1, <5>2, <5>4, <5>5, <5>6, ExtraRead
      <4>2. ~(m > Window)
        <5>1. Window \in Nat /\ t.dist \in Nat
          BY WindowIs DEF IsMatch
        <5> HIDE DEF m
        <5> QED BY <4>1, <5>1
      <4>3. Token(t.dist, t.len)
        <5> HIDE DEF m, n
        <5> QED BY <3>4, <3>5, <4>1, <4>2
      <4>4. ~Exhausted(q)
        <5> HIDE DEF q
        <5>1. ~(q > L)
          <6> HIDE DEF L
          <6> QED BY <1>2, <3>6
        <5> QED BY <5>1 DEF Exhausted
      <4> HIDE DEF q, m, n
      <4>5. ~eof' /\ rd' = q
        BY <3>4, <4>4, ReadWithin
      <4> QED BY <1>3, <3>6, <4>3, <4>5 DEF TokenRead, Token
    <3>7. CASE ~(q <= L)
      <4>1. Exhausted(q)
        <5> HIDE DEF q
        <5>1. q > L
          <6> HIDE DEF L
          <6> QED BY <1>2, <3>7
        <5> QED BY <5>1 DEF Exhausted
      <4> HIDE DEF q, m, n
      <4>2. eof'
        BY <3>4, <4>1, ReadPast
      <4>3. \/ reading' = "end" /\ result' = "starved"
            \/ UNCHANGED <<reading, result>>
        BY <3>4, <4>2, Starving DEF Token
      <4> QED BY <1>3, <3>7, <4>2, <4>3 DEF TokenRead
    <3> QED BY <3>6, <3>7
  <2>8. CASE ~(p3 <= L)
    <3>1. d.next \in Nat /\ Exhausted(d.next)
      <4>1. CASE p2 <= L
        <5>1. Decodes(p2, FixedDistTree, 5, k - 1)
          BY <1>1, <1>2, <1>4, <4>1, ReadsDistance
        <5> QED BY <1>3, <2>8, <5>1 DEF Decodes, DistanceOf
      <4>2. CASE ~(p2 <= L)
        <5>1. L <= p2
          <6> HIDE DEF L, p2
          <6> QED BY <1>2, <4>2
        <5>2. DistanceCut(p2)
          BY <1>2, <5>1, DistanceBeyond
        <5> QED BY <5>2 DEF DistanceCut, DistanceOf
      <4> QED BY <4>1, <4>2
    <3>2. eof'
      <4>1. CASE d.sym \notin 0..29
        <5> HIDE DEF d, m, n
        <5> QED BY <2>6, <3>1, <4>1, ReadPast
      <4>2. CASE d.sym \in 0..29
        <5> DEFINE z == DistBits[d.sym + 1]
        <5>1. z \in Nat
          <6>1. d.sym + 1 \in 1..30
            <7> HIDE DEF d
            <7> QED BY <4>2
          <6>2. \A i \in 1..30 : DistBits[i] \in Nat
            BY DistanceTables
          <6> QED BY <6>1, <6>2
        <5>2. Read(d.next + z)
          <6> HIDE DEF d, m, n
          <6> QED BY <2>6, <4>2
        <5> HIDE DEF z, d
        <5>3. Exhausted(d.next + z)
          <6>1. d.next > L
            BY <3>1 DEF Exhausted
          <6>2. d.next + z > L
            <7> HIDE DEF L
            <7> QED BY <1>2, <3>1, <5>1, <6>1
          <6> QED BY <6>2 DEF Exhausted
        <5> QED BY <5>2, <5>3, ReadPast
      <4> QED BY <4>1, <4>2
    <3>3. \/ reading' = "end" /\ result' = "starved"
          \/ UNCHANGED <<reading, result>>
      <4> HIDE DEF d, m, n
      <4> QED BY <2>6, <3>2, Starving DEF Token
    <3>4. ~(q <= L)
      <4> HIDE DEF L, p1, p2, p3, q
      <4> QED BY <1>2, <2>8
    <3> HIDE DEF q
    <3> QED BY <1>3, <3>2, <3>3, <3>4 DEF TokenRead
  <2> QED BY <2>7, <2>8
<1> QED BY <1>7, <1>8

\* The tokens that Window lets the decoder take.
Near == { t \in Coded : t.dist <= Window }

LEMMA TokenReads ==
  ASSUME FileBits, rd \in Nat, rd <= 8 * limit, ~eof, trees = Fixed, ReadToken,
         NEW t \in Near, Written(bits, rd, Encoded(t), EndsAt(t, rd) - rd)
  PROVE  TokenRead(t, EndsAt(t, rd))
<1>1. t \in Coded /\ t.dist <= Window
  BY DEF Near
<1>2. t = [ dist |-> t.dist, len |-> t.len ] /\ (IsLiteral(t) \/ IsMatch(t))
  BY <1>1, CodedIs
<1>3. CASE IsLiteral(t)
  BY <1>2, <1>3, LiteralRead
<1>4. CASE IsMatch(t)
  BY <1>1, <1>2, <1>4, MatchRead
<1> QED BY <1>2, <1>3, <1>4

(* The end of the block is read where it is. *)
LEMMA EndReads ==
  ASSUME FileBits, rd \in Nat, rd <= 8 * limit, ~eof, trees = Fixed, ReadToken,
         \A i \in 1..7 : bits[rd + i] = 0
  PROVE  IF rd + 7 <= 8 * limit
           THEN BlockEnds /\ rd' = rd + 7 /\ ~eof' /\ UNCHANGED <<got, result>>
           ELSE eof' /\ reading' = "end" /\ result' = "starved"
<1> DEFINE l == DecodeSymbol(rd, FixedTree)
           q == rd + 7
<1>1. Decodes(rd, FixedTree, 7, 256)
  BY ReadsEnd
<1>2. CASE q <= 8 * limit
  <2>1. l = [ sym |-> 256, next |-> q ]
    BY <1>1, <1>2 DEF Decodes
  <2>2. ~Exhausted(q)
    <3>1. q \in Nat /\ 8 * limit \in Nat
      BY DEF FileBits
    <3> HIDE DEF q
    <3> QED BY <3>1, <1>2 DEF Exhausted
  <2>3. LitTree = FixedTree
    BY DEF LitTree, Fixed
  <2>4. l.sym = 256 /\ l.next = q
    BY <2>1
  <2> HIDE DEF l, q
  <2>5. \/ l.sym < 256
        \/ l.sym = 256 /\ Read(l.next) /\ BlockEnds /\ UNCHANGED <<got, result>>
        \/ l.sym > 256
    BY <2>2, <2>3, <2>4 DEF ReadToken, l
  <2>6. Read(q) /\ BlockEnds /\ UNCHANGED <<got, result>>
    BY <2>4, <2>5
  <2>7. ~eof' /\ rd' = q
    BY <2>2, <2>6, ReadWithin
  <2> QED BY <1>2, <2>6, <2>7 DEF q
<1>3. CASE ~(q <= 8 * limit)
  <2>1. Exhausted(l.next)
    BY <1>1, <1>3 DEF Decodes
  <2>2. eof' /\ reading' = "end" /\ result' = "starved"
    BY <2>1, SymbolCut
  <2> HIDE DEF q
  <2> QED BY <1>3, <2>2 DEF q
<1> QED BY <1>2, <1>3

(***************************************************************************)
(* Where in a member everything is.                                        *)
(***************************************************************************)

\* The tokens s are written in b one behind the other, each k from o[k] on.
Laid(o, b, s, from) ==
  /\ o[1] = from
  /\ \A k \in 1..(Len(s) + 1) : o[k] \in Nat /\ o[k] <= Len(b)
  /\ \A k \in 1..Len(s) :
       o[k + 1] = EndsAt(s[k], o[k]) /\ Written(b, o[k], Encoded(s[k]), o[k + 1] - o[k])

Framed(e) ==
  /\ Len(bits) = 8 * (Aligned(e + 7) + 8) /\ Len(bits) > 88
  /\ \A i \in 1..7 : bits[e + i] = 0
  /\ Written(bits, 80, OutBits(1, 1), 1) /\ Written(bits, 81, OutBits(1, 2), 2)
  /\ \A k \in 0..9 : Written(bits, 8 * k, OutBits(MemberHeader[k + 1], 8), 8)

Member(o) ==
  /\ bits \in Seq({0, 1}) /\ sent \in Seq(Near)
  /\ Laid(o, bits, sent, 83) /\ Framed(o[Len(sent) + 1])

(* How far the decoder is in it. *)
ReaderKeeps ==
  /\ limit \in Nat /\ 8 * limit <= Len(bits)
  /\ eof => 8 * limit < Len(bits)
  /\ ~eof => rd \in Nat /\ rd <= 8 * limit
  /\ trees = Fixed
  /\ reading # "end" => result = "more"

InData(o) == \E g \in 0..Len(sent) : got = SubSeq(sent, 1, g) /\ rd = o[g + 1]

ReaderIsAt(o) ==
  \/ reading \in {"no", "header"} /\ ~eof /\ rd = 0 /\ got = <<>>
  \/ reading = "block" /\ ~eof /\ rd = 80 /\ got = <<>>
  \/ reading = "length" /\ eof /\ rd = 83 /\ limit = 10
  \/ reading = "data" /\ final = 1 /\ (eof \/ InData(o))
  \/ reading = "trailer" /\ ~eof /\ got = sent /\ rd = o[Len(sent) + 1] + 7
  \/ reading = "end" /\ eof /\ result = "starved"
  \/ reading = "end" /\ ~eof /\ result = "done" /\ got = sent

Reader(o) == ReaderKeeps /\ ReaderIsAt(o)

LEMMA MemberBits ==
  ASSUME NEW o, Member(o), Reader(o)
  PROVE  FileBits /\ Len(bits) \in Nat /\ Len(sent) \in Nat
BY LenProperties DEF Member, Reader, ReaderKeeps, FileBits

LEMMA HeaderByte ==
  ASSUME NEW o, Member(o), Reader(o), NEW k \in 0..9
  PROVE  /\ k < limit => ByteAt(k) = MemberHeader[k + 1]
         /\ ~(k < limit) => ByteAt(k) = 0
<1> DEFINE v == MemberHeader[k + 1]
<1>1. v \in Nat /\ v <= 255
  BY DEF MemberHeader
<1>2. Written(bits, 8 * k, OutBits(v, 8), 8)
  BY DEF Member, Framed
<1> HIDE DEF v
<1>3. FileBits /\ 8 * k \in Nat /\ 8 \in 0..13 /\ 0 \in Nat
  BY MemberBits
<1>4. ASSUME k < limit PROVE ByteAt(k) = v
  <2>1. 8 * k + 8 <= 8 * limit
    BY <1>3, <1>4 DEF FileBits
  <2> DEFINE x == 2^8
  <2>2. x = 256
    BY SMT
  <2> HIDE DEF x
  <2>3. v < x /\ v - 0 = v /\ 0 <= v
    BY <1>1, <2>2
  <2>4. InBits(v, 8)
    BY <2>3, Zenon DEF x, InBits
  <2>5. ReadBits(8 * k, 8, 0) = v
    BY <1>1, <1>2, <1>3, <2>1, <2>3, <2>4, ExtraRead
  <2> QED BY <2>5 DEF ByteAt
<1>5. ASSUME ~(k < limit) PROVE ByteAt(k) = 0
  <2>1. 8 * limit <= 8 * k
    BY <1>3, <1>5 DEF FileBits
  <2>2. ReadBits(8 * k, 8, 0) = 0
    BY <1>3, <2>1, ReadsNothing
  <2> QED BY <2>2 DEF ByteAt
<1> QED BY <1>4, <1>5 DEF v

LEMMA HeaderStep ==
  ASSUME NEW o, Member(o), Reader(o), ParseHeader, UNCHANGED deflateVars PROVE Reader(o)'
<1> DEFINE wrong == { k \in 0..2 : ByteAt(k) # MemberHeader[k + 1] }
           M == Min(wrong \cup {3})
<1>1. /\ ~eof /\ rd = 0 /\ got = <<>> /\ reading = "header" /\ result = "more"
      /\ limit \in Nat /\ 8 * limit <= Len(bits) /\ trees = Fixed
      /\ Len(bits) \in Nat /\ Len(bits) > 88
  BY MemberBits DEF ParseHeader, Reader, ReaderKeeps, ReaderIsAt, Member, Framed
<1>2. ByteAt(3) = 0
  <2>1. MemberHeader[3 + 1] = 0
    BY DEF MemberHeader
  <2> QED BY <2>1, HeaderByte
<1>3. \A k \in wrong : k \in 0..2 /\ limit <= k
  <2> SUFFICES ASSUME NEW k \in 0..2, ByteAt(k) # MemberHeader[k + 1] PROVE limit <= k
    OBVIOUS
  <2>1. k \in 0..9
    OBVIOUS
  <2>2. ~(k < limit)
    BY <2>1, HeaderByte
  <2> QED BY <1>1, <2>2
<1>4. /\ UNCHANGED <<limit, block, got>>
      /\ IF wrong # {} THEN Read(8 * (1 + M)) /\ End("error")
         ELSE Read(80) /\ IF eof' THEN End("starved") ELSE reading' = "block" /\ UNCHANGED result
  <2>1. (0 \div 2) % 2 = 0 /\ (0 \div 4) % 2 = 0 /\ (0 \div 8) % 2 = 0 /\ (0 \div 16) % 2 = 0
    BY SMT
  <2>2. ~(0 >= 32) /\ 8 * (10 + 0) = 80 /\ 0 # 1
    OBVIOUS
  <2> QED BY <1>2, <2>1, <2>2 DEF ParseHeader
<1>5. UNCHANGED <<limit, bits, sent, trees, final, got>>
  BY <1>4 DEF block, deflateVars
<1>6. CASE wrong # {}
  <2>1. PICK k \in wrong : k \in 0..2 /\ limit <= k
    BY <1>3, <1>6
  <2> HIDE DEF wrong
  <2>2. wrong \cup {3} \in SUBSET Nat /\ wrong \cup {3} # {}
    BY <1>3
  <2>3. M \in wrong \cup {3}
    <3>1. \E x \in wrong \cup {3} : \A y \in wrong \cup {3} : x <= y
      BY <2>2, NatMin
    <3> QED BY <3>1 DEF Min
  <2>4. M \in Nat /\ limit <= M
    <3> HIDE DEF M
    <3>1. CASE M \in wrong
      BY <3>1, <1>3
    <3>2. CASE M = 3
      BY <3>2, <1>1, <2>1
    <3> QED BY <2>3, <3>1, <3>2
  <2>5. Exhausted(8 * (1 + M))
    <3> HIDE DEF M
    <3> QED BY <1>1, <2>4 DEF Exhausted
  <2>6. eof' /\ reading' = "end" /\ result' = "starved"
    <3> HIDE DEF M
    <3>1. eof'
      BY <1>4, <1>6, <2>5, ReadPast
    <3> QED BY <1>4, <1>6, <3>1, Starving
  <2>7. 8 * limit < Len(bits)
    BY <1>1, <2>1
  <2> QED BY <1>1, <1>5, <2>6, <2>7 DEF Reader, ReaderKeeps, ReaderIsAt
<1>7. CASE wrong = {}
  <2>1. Read(80) /\ IF eof' THEN End("starved") ELSE reading' = "block" /\ UNCHANGED result
    BY <1>4, <1>7
  <2>2. CASE eof'
    <3>1. reading' = "end" /\ result' = "starved"
      BY <2>1, <2>2, Starving
    <3>2. Exhausted(80)
      BY <1>1, <2>1, <2>2 DEF Read
    <3>3. 8 * limit < Len(bits)
      BY <1>1, <3>2 DEF Exhausted
    <3> QED BY <1>1, <1>5, <2>2, <3>1, <3>3 DEF Reader, ReaderKeeps, ReaderIsAt
  <2>3. CASE ~eof'
    <3>1. reading' = "block" /\ result' = result /\ rd' = 80 /\ ~Exhausted(80)
      BY <2>1, <2>3 DEF Read
    <3>2. 80 <= 8 * limit
      BY <1>1, <3>1 DEF Exhausted
    <3> QED BY <1>1, <1>5, <2>3, <3>1, <3>2 DEF Reader, ReaderKeeps, ReaderIsAt
  <2> QED BY <2>2, <2>3
<1> QED BY <1>6, <1>7

LEMMA Alignment ==
  ASSUME NEW p \in Nat PROVE Aligned(p) \in Nat /\ p <= 8 * Aligned(p)
BY DEF Aligned

LEMMA OpenStep ==
  ASSUME NEW o, Member(o), Reader(o), Open, UNCHANGED deflateVars PROVE Reader(o)'
<1>1. /\ reading = "no" /\ reading' = "header" /\ limit' = Len(bits) \div 8
      /\ UNCHANGED <<rd, eof, trees, got, result, bits>>
      /\ ~eof /\ rd = 0 /\ got = <<>> /\ trees = Fixed /\ result = "more"
  BY DEF Open, block, deflateVars, Reader, ReaderKeeps, ReaderIsAt
<1>2. Len(bits) \in Nat
  BY MemberBits
<1>3. limit' \in Nat /\ 8 * limit' <= Len(bits)
  BY <1>1, <1>2
<1> QED BY <1>1, <1>3 DEF Reader, ReaderKeeps, ReaderIsAt

LEMMA CutStep ==
  ASSUME NEW o, Member(o), Reader(o), Cut, UNCHANGED deflateVars PROVE Reader(o)'
<1>1. /\ reading \notin {"no", "end"} /\ limit = Len(bits) \div 8
      /\ limit' \in Aligned(rd)..(limit - 1)
      /\ UNCHANGED <<reading, rd, eof, final, trees, got, result, bits, sent>>
  BY DEF Cut, block, deflateVars
<1>2. Len(bits) \in Nat /\ Len(bits) = 8 * (Aligned(o[Len(sent) + 1] + 7) + 8)
  BY MemberBits DEF Member, Framed
<1>3. ~eof
  <2>1. Len(sent) + 1 \in 1..(Len(sent) + 1)
    BY MemberBits
  <2>2. o[Len(sent) + 1] \in Nat
    BY <2>1 DEF Member, Laid
  <2> DEFINE A == Aligned(o[Len(sent) + 1] + 7)
  <2>3. A \in Nat
    <3>1. o[Len(sent) + 1] + 7 \in Nat
      BY <2>2
    <3> QED BY <3>1, Alignment
  <2> HIDE DEF A
  <2>4. 8 * limit = Len(bits)
    BY <1>1, <1>2, <2>3 DEF A
  <2> QED BY <1>2, <2>4 DEF Reader, ReaderKeeps
<1>4. rd \in Nat /\ limit \in Nat /\ 8 * limit <= Len(bits) /\ trees = Fixed /\ result = "more"
  BY <1>1, <1>3 DEF Reader, ReaderKeeps
<1>5. limit' \in Nat /\ 8 * limit' < Len(bits) /\ rd <= 8 * limit'
  <2> DEFINE A == Aligned(rd)
  <2>1. A \in Nat /\ rd <= 8 * A
    BY <1>4, Alignment
  <2> HIDE DEF A
  <2>2. limit' \in A..(limit - 1)
    BY <1>1 DEF A
  <2>3. limit' \in Nat /\ limit' < limit /\ A <= limit'
    BY <1>4, <2>1, <2>2
  <2>4. Len(bits) \in Nat
    BY <1>2
  <2>5. 8 * limit' < Len(bits)
    BY <1>4, <2>3, <2>4
  <2>6. rd <= 8 * limit'
    <3>1. \A p, a, n \in Nat : p <= 8 * a /\ a <= n => p <= 8 * n
      OBVIOUS
    <3> QED BY <1>4, <2>1, <2>3, <3>1
  <2> QED BY <2>3, <2>5, <2>6
<1>6. ReaderKeeps'
  <2>1. Len(bits) \in Nat /\ 8 * limit' <= Len(bits) /\ ~eof'
    BY <1>1, <1>2, <1>3, <1>5
  <2>2. bits' = bits /\ rd' = rd /\ trees' = trees /\ result' = result
    BY <1>1
  <2> QED BY <1>4, <1>5, <2>1, <2>2 DEF ReaderKeeps
<1>7. ReaderIsAt(o)'
  BY <1>1, <1>3 DEF Reader, ReaderIsAt, InData
<1> QED BY <1>6, <1>7 DEF Reader

LEMMA BlockHeadStep ==
  ASSUME NEW o, Member(o), Reader(o), StartBlock, UNCHANGED deflateVars PROVE Reader(o)'
<1>1. /\ ~eof /\ rd = 80 /\ got = <<>> /\ reading = "block" /\ result = "more"
      /\ limit \in Nat /\ 8 * limit <= Len(bits) /\ trees = Fixed /\ rd <= 8 * limit
      /\ Len(bits) \in Nat /\ Len(bits) > 88
      /\ UNCHANGED <<limit, bits, sent, got>>
      /\ final' = BitAt(80)
  BY MemberBits DEF StartBlock, Reader, ReaderKeeps, ReaderIsAt, Member, Framed, deflateVars
<1>2. /\ trees' = Fixed
      /\ ReadBits(81, 2, 0) = 0 => Read(83) /\ reading' = "length" /\ result' = result
      /\ ReadBits(81, 2, 0) = 1 => Read(83) /\ reading' = "data" /\ result' = result
  <2>1. 80 + 1 = 81 /\ 80 + 3 = 83
    OBVIOUS
  <2> QED BY <1>1, <2>1 DEF StartBlock
<1>3. FileBits /\ 80 \in Nat /\ 81 \in Nat
  BY MemberBits
<1>4. CASE limit >= 11
  <2>1. 81 <= 8 * limit /\ 83 <= 8 * limit
    BY <1>1, <1>4
  <2> DEFINE x == 2^(1 - 1)
             y == 2^2
  <2>2. x = 1 /\ y = 4
    BY SMT
  <2> HIDE DEF x, y
  <2>3. (1 \div x) % 2 = 1 /\ 1 < y
    BY <2>2
  <2>4. BitAt(80) = 1
    <3>1. Written(bits, 80, OutBits(1, 1), 1)
      BY DEF Member, Framed
    <3>2. 1 \in 1..1 /\ 80 + 1 <= 8 * limit /\ 80 + 1 - 1 = 80
      BY <2>1
    <3>3. BitAt(80 + 1 - 1) = OutBits(1, 1)[1]
      BY <1>3, <3>1, <3>2, WrittenBit
    <3>4. OutBits(1, 1)[1] = (1 \div 2^(1 - 1)) % 2
      BY <3>2, Zenon DEF OutBits
    <3>5. OutBits(1, 1)[1] = 1
      BY <2>3, <3>4, Zenon DEF x
    <3> QED BY <3>2, <3>3, <3>5
  <2>5. ReadBits(81, 2, 0) = 1
    <3>1. InBits(1, 2)
      BY <2>3, Zenon DEF y, InBits
    <3>2. /\ 2 \in 0..13 /\ 1 - 0 = 1 /\ 0 <= 1 /\ 81 + 2 <= 8 * limit
          /\ Written(bits, 81, OutBits(1, 2), 2)
      BY <2>1 DEF Member, Framed
    <3> QED BY <1>3, <3>1, <3>2, ExtraRead
  <2>6. ~Exhausted(83)
    BY <1>1, <2>1 DEF Exhausted
  <2>7. ~eof' /\ rd' = 83 /\ reading' = "data" /\ result' = "more"
    BY <1>1, <1>2, <2>5, <2>6, ReadWithin
  <2>8. InData(o)'
    <3>1. Len(sent) \in Nat /\ 0 \in 0..Len(sent) /\ 0 + 1 = 1
      BY MemberBits
    <3>2. SubSeq(sent, 1, 0) = <<>>
      BY SubSeqEmpty
    <3>3. o[1] = 83
      BY DEF Member, Laid
    <3>4. got' = SubSeq(sent', 1, 0) /\ rd' = o[0 + 1] /\ 0 \in 0..Len(sent')
      BY <1>1, <2>7, <3>1, <3>2, <3>3
    <3> QED BY <3>4 DEF InData
  <2> QED BY <1>1, <1>2, <2>1, <2>4, <2>7, <2>8 DEF Reader, ReaderKeeps, ReaderIsAt
<1>5. CASE ~(limit >= 11)
  <2>1. limit = 10
    BY <1>1, <1>5
  <2>2. 8 * limit <= 81 /\ 2 \in 0..13
    BY <2>1
  <2>3. ReadBits(81, 2, 0) = 0
    BY <1>3, <2>2, ReadsNothing
  <2>4. Exhausted(83)
    BY <2>1 DEF Exhausted
  <2>5. Read(83) /\ reading' = "length" /\ result' = "more"
    BY <1>1, <1>2, <2>3
  <2>6. eof' /\ rd' = 83
    BY <2>4, <2>5, ReadPast DEF Read
  <2> QED BY <1>1, <1>2, <2>1, <2>5, <2>6 DEF Reader, ReaderKeeps, ReaderIsAt
<1> QED BY <1>4, <1>5

LEMMA StoredLengthStep ==
  ASSUME NEW o, Member(o), Reader(o), StoredLength, UNCHANGED deflateVars PROVE Reader(o)'
<1>1. /\ eof /\ rd = 83 /\ reading = "length" /\ limit = 10 /\ trees = Fixed
      /\ 8 * limit <= Len(bits) /\ 8 * limit < Len(bits)
      /\ UNCHANGED <<limit, trees, bits>>
  BY DEF StoredLength, Reader, ReaderKeeps, ReaderIsAt, deflateVars
<1>2. ASSUME NEW k \in 11..14 PROVE ByteAt(k) = 0
  <2>1. 8 * k \in Nat /\ 8 * limit <= 8 * k /\ 8 \in 0..13 /\ 0 \in Nat /\ FileBits
    BY <1>1, MemberBits
  <2>2. ReadBits(8 * k, 8, 0) = 0
    BY <2>1, ReadsNothing
  <2> QED BY <2>2 DEF ByteAt
<1>3. Uint16At(11) = 0 /\ Uint16At(13) = 0
  <2>1. ByteAt(11) = 0 /\ ByteAt(12) = 0 /\ ByteAt(13) = 0 /\ ByteAt(14) = 0
    BY <1>2
  <2>2. 11 + 1 = 12 /\ 13 + 1 = 14
    OBVIOUS
  <2> QED BY <2>1, <2>2 DEF Uint16At
<1>4. Aligned(83) = 11
  BY DEF Aligned
<1>5. Read(8 * (11 + 4)) /\ End("error")
  <2>1. 11 + 2 = 13 /\ 0 + 0 # 65535
    OBVIOUS
  <2> QED BY <1>1, <1>3, <1>4, <2>1 DEF StoredLength
<1>6. eof'
  BY <1>1, <1>5 DEF Read
<1>7. reading' = "end" /\ result' = "starved"
  BY <1>5, <1>6, Starving
<1> QED BY <1>1, <1>6, <1>7 DEF Reader, ReaderKeeps, ReaderIsAt

LEMMA TrailerStep ==
  ASSUME NEW o, Member(o), Reader(o), ReadTrailer, UNCHANGED deflateVars PROVE Reader(o)'
<1>1. /\ ~eof /\ reading = "trailer" /\ got = sent /\ rd = o[Len(sent) + 1] + 7
      /\ trees = Fixed /\ limit \in Nat /\ 8 * limit <= Len(bits) /\ Len(bits) \in Nat
      /\ Read(8 * (Aligned(rd) + 8)) /\ End("done")
      /\ UNCHANGED <<limit, trees, bits, sent, got>>
  BY MemberBits DEF ReadTrailer, Reader, ReaderKeeps, ReaderIsAt, deflateVars, block
<1>2. 8 * (Aligned(rd) + 8) = Len(bits)
  BY <1>1 DEF Member, Framed
<1>3. CASE eof'
  <2>1. reading' = "end" /\ result' = "starved"
    BY <1>1, <1>3, Starving
  <2>2. Exhausted(Len(bits))
    BY <1>1, <1>2, <1>3 DEF Read
  <2>3. 8 * limit < Len(bits)
    BY <1>1, <2>2 DEF Exhausted
  <2> QED BY <1>1, <1>3, <2>1, <2>3 DEF Reader, ReaderKeeps, ReaderIsAt
<1>4. CASE ~eof'
  <2>1. reading' = "end" /\ result' = "done"
    BY <1>1, <1>4 DEF End
  <2>2. ~Exhausted(Len(bits)) /\ rd' = Len(bits)
    BY <1>1, <1>2, <1>4 DEF Read
  <2>3. Len(bits) <= 8 * limit
    BY <1>1, <2>2 DEF Exhausted
  <2> QED BY <1>1, <1>4, <2>1, <2>2, <2>3 DEF Reader, ReaderKeeps, ReaderIsAt
<1> QED BY <1>3, <1>4

LEMMA PrefixGrows ==
  ASSUME NEW S, NEW s \in Seq(S), NEW g \in Nat, g + 1 <= Len(s)
  PROVE  Append(SubSeq(s, 1, g), s[g + 1]) = SubSeq(s, 1, g + 1)
<1>1. Len(s) \in Nat
  BY LenProperties
<1>2. SubSeq(s, 1, g + 1) \in Seq(S) /\ SubSeq(s, 1, g) \in Seq(S) /\ s[g + 1] \in S
  BY <1>1, ElementOfSeq, SubSeqProperties
<1>3. Len(SubSeq(s, 1, g)) = g /\ Len(SubSeq(s, 1, g + 1)) = g + 1
  BY <1>1, SubSeqProperties
<1>4. \A i \in 1..g : SubSeq(s, 1, g)[i] = s[i]
  BY <1>1, SubSeqProperties
<1>5. \A i \in 1..(g + 1) : SubSeq(s, 1, g + 1)[i] = s[i]
  BY <1>1, SubSeqProperties
<1> DEFINE a == SubSeq(s, 1, g)
           b == SubSeq(s, 1, g + 1)
           c == Append(a, s[g + 1])
<1> HIDE DEF a, b
<1>6. c \in Seq(S) /\ Len(c) = g + 1 /\ c[g + 1] = s[g + 1] /\ \A i \in 1..g : c[i] = a[i]
  BY <1>2, <1>3, AppendProperties DEF a
<1>7. \A i \in 1..(g + 1) : c[i] = b[i]
  <2> SUFFICES ASSUME NEW i \in 1..(g + 1) PROVE c[i] = b[i]
    OBVIOUS
  <2>1. i \in 1..g \/ i = g + 1
    OBVIOUS
  <2>2. b[i] = s[i]
    BY <1>5 DEF b
  <2>3. i \in 1..g => a[i] = s[i]
    BY <1>4 DEF a
  <2> HIDE DEF c
  <2> QED BY <1>6, <2>1, <2>2, <2>3
<1>8. b \in Seq(S) /\ Len(b) = g + 1
  BY <1>2, <1>3 DEF b
<1> HIDE DEF c
<1>9. c = b
  BY <1>6, <1>7, <1>8, SeqEqual
<1> QED BY <1>9 DEF a, b, c

LEMMA DataStep ==
  ASSUME NEW o, Member(o), Reader(o), ReadToken, UNCHANGED deflateVars PROVE Reader(o)'
<1>1. /\ reading = "data" /\ final = 1 /\ (eof \/ InData(o)) /\ result = "more"
      /\ limit \in Nat /\ 8 * limit <= Len(bits) /\ trees = Fixed
      /\ eof => 8 * limit < Len(bits)
      /\ UNCHANGED <<limit, final, trees, bits, sent>>
  BY DEF ReadToken, Reader, ReaderKeeps, ReaderIsAt, block, deflateVars
<1>2. FileBits /\ Len(bits) \in Nat /\ Len(sent) \in Nat
  BY MemberBits
<1>3. ASSUME eof', reading' = "end", result' = "starved", 8 * limit < Len(bits)
      PROVE  Reader(o)'
  BY <1>1, <1>3 DEF Reader, ReaderKeeps, ReaderIsAt
<1>4. ASSUME eof', UNCHANGED <<reading, result>>, 8 * limit < Len(bits) PROVE Reader(o)'
  BY <1>1, <1>4 DEF Reader, ReaderKeeps, ReaderIsAt
<1>5. CASE eof
  <2>1. \E p : Read(p) /\ End("error")
    BY <1>5 DEF ReadToken
  <2>2. eof'
    BY <1>5, <2>1 DEF Read
  <2>3. reading' = "end" /\ result' = "starved"
    BY <2>1, <2>2, Starving
  <2> QED BY <1>1, <1>3, <1>5, <2>2, <2>3
<1>6. CASE ~eof
  <2>1. PICK g \in 0..Len(sent) : got = SubSeq(sent, 1, g) /\ rd = o[g + 1]
    BY <1>1, <1>6 DEF InData
  <2>2. rd \in Nat /\ rd <= 8 * limit
    BY <1>6 DEF Reader, ReaderKeeps
  <2>3. CASE g # Len(sent)
    <3> DEFINE t == sent[g + 1]
               q == o[(g + 1) + 1]
    <3>1. /\ g + 1 \in 1..Len(sent) /\ g + 1 \in 0..Len(sent)
          /\ (g + 1) + 1 \in 1..(Len(sent) + 1)
      BY <1>2, <2>3
    <3>2. /\ q = EndsAt(t, rd) /\ Written(bits, rd, Encoded(t), q - rd)
          /\ q \in Nat /\ q <= Len(bits)
      BY <2>1, <3>1 DEF Member, Laid
    <3>3. t \in Near
      BY <3>1, ElementOfSeq DEF Member
    <3> HIDE DEF t, q
    <3>4. TokenRead(t, q)
      BY <1>1, <1>2, <1>6, <2>2, <3>2, <3>3, TokenReads
    <3>5. CASE q <= 8 * limit
      <4>1. got' = Append(got, t) /\ rd' = q /\ ~eof' /\ UNCHANGED <<reading, result>>
        BY <3>4, <3>5 DEF TokenRead
      <4>2. got' = SubSeq(sent, 1, g + 1)
        <5>1. sent \in Seq(Near) /\ g \in Nat /\ g + 1 <= Len(sent)
          BY <2>1, <3>1 DEF Member
        <5> QED BY <2>1, <4>1, <5>1, PrefixGrows DEF t
      <4>3. InData(o)'
        BY <1>1, <3>1, <4>1, <4>2 DEF InData, q
      <4> QED BY <1>1, <3>2, <3>5, <4>1, <4>3 DEF Reader, ReaderKeeps, ReaderIsAt
    <3>6. CASE ~(q <= 8 * limit)
      <4>1. 8 * limit < Len(bits)
        BY <1>1, <1>2, <3>2, <3>6
      <4>2. eof' /\ (\/ reading' = "end" /\ result' = "starved"
                     \/ UNCHANGED <<reading, result>>)
        BY <3>4, <3>6 DEF TokenRead
      <4> QED BY <1>3, <1>4, <4>1, <4>2
    <3> QED BY <3>5, <3>6
  <2>4. CASE g = Len(sent)
    <3>1. /\ rd = o[Len(sent) + 1] /\ \A i \in 1..7 : bits[rd + i] = 0
          /\ Len(bits) = 8 * (Aligned(rd + 7) + 8)
      BY <2>1, <2>4 DEF Member, Framed
    <3>2. IF rd + 7 <= 8 * limit
            THEN BlockEnds /\ rd' = rd + 7 /\ ~eof' /\ UNCHANGED <<got, result>>
            ELSE eof' /\ reading' = "end" /\ result' = "starved"
      BY <1>1, <1>2, <1>6, <2>2, <3>1, EndReads
    <3>3. CASE rd + 7 <= 8 * limit
      <4>1. reading' = "trailer" /\ rd' = rd + 7 /\ ~eof' /\ UNCHANGED <<got, result>>
        BY <1>1, <3>2, <3>3 DEF BlockEnds
      <4>2. got = sent
        <5>1. sent \in Seq(Near)
          BY DEF Member
        <5> QED BY <2>1, <2>4, <5>1, SubSeqFull
      <4>3. rd' \in Nat /\ rd' <= 8 * limit' /\ rd' = o[Len(sent) + 1] + 7
        <5>1. rd' = o[Len(sent) + 1] + 7 /\ rd' = rd + 7 /\ limit' = limit
          BY <1>1, <3>1, <4>1
        <5>2. rd + 7 \in Nat /\ rd + 7 <= 8 * limit
          BY <2>2, <3>3
        <5> QED BY <5>1, <5>2
      <4>4. ReaderKeeps'
        BY <1>1, <4>1, <4>3 DEF ReaderKeeps
      <4>5. ReaderIsAt(o)'
        BY <1>1, <4>1, <4>2, <4>3 DEF ReaderIsAt
      <4> QED BY <4>4, <4>5 DEF Reader
    <3>4. CASE ~(rd + 7 <= 8 * limit)
      <4>1. rd + 7 \in Nat /\ Aligned(rd + 7) \in Nat /\ rd + 7 <= 8 * Aligned(rd + 7)
        <5>1. rd + 7 \in Nat
          BY <2>2
        <5> QED BY <5>1, Alignment
      <4>2. 8 * limit < Len(bits)
        BY <1>1, <3>1, <3>4, <4>1
      <4> QED BY <1>3, <3>2, <3>4, <4>2
    <3> QED BY <3>3, <3>4
  <2> QED BY <2>3, <2>4
<1> QED BY <1>5, <1>6

LEMMA ReaderStep ==
  ASSUME NEW o, Member(o), Reader(o), Reads, UNCHANGED deflateVars PROVE Reader(o)'
<1>1. reading \notin {"stored", "lengths"}
  BY DEF Reader, ReaderIsAt
<1>2. ~StoredByte /\ ~ReadLength /\ ~BuildTrees
  BY <1>1 DEF StoredByte, ReadLength, BuildTrees
<1> QED BY <1>2, OpenStep, CutStep, HeaderStep, BlockHeadStep, StoredLengthStep, DataStep,
           TrailerStep DEF Reads

(***************************************************************************)
(* Writing a member.                                                       *)
(***************************************************************************)

\* A sequence of n bits.
Binary(b, n) == OfLength(b, n) /\ \A i \in 1..n : b[i] \in {0, 1}

LEMMA BinarySeq ==
  ASSUME NEW b, NEW n, Binary(b, n) PROVE b \in Seq({0, 1}) /\ Len(b) = n /\ n \in Nat
<1>1. PICK S : b \in Seq(S) /\ Len(b) = n
  BY DEF Binary, OfLength
<1>2. n \in Nat /\ \A i \in 1..n : b[i] \in {0, 1}
  BY DEF Binary, OfLength
<1>3. b \in [1..n -> {0, 1}]
  <2>1. b = [ i \in 1..n |-> b[i] ]
    BY <1>1, LenProperties
  <2> QED BY <1>2, <2>1
<1> QED BY <1>2, <1>3, TupleIsSeq

LEMMA SeqBinary ==
  ASSUME NEW b \in Seq({0, 1}) PROVE Binary(b, Len(b))
BY ElementOfSeq, LenProperties DEF Binary, OfLength

LEMMA BinaryJoin ==
  ASSUME NEW a, NEW b, NEW m, NEW n, Binary(a, m), Binary(b, n)
  PROVE  Binary(a \o b, m + n)
<1> DEFINE c == a \o b
<1>1. Joined(c, a, b, m, n)
  BY JoinAt DEF Binary
<1>2. m \in Nat /\ n \in Nat
  BY DEF Binary, OfLength
<1> HIDE DEF c
<1>3. ASSUME NEW i \in 1..(m + n) PROVE c[i] \in {0, 1}
  <2>1. CASE i \in 1..m
    BY <1>1, <2>1 DEF Joined, Binary
  <2>2. CASE i \notin 1..m
    <3>1. i - m \in 1..n /\ m + (i - m) = i
      BY <1>2, <2>2
    <3>2. c[m + (i - m)] = b[i - m] /\ b[i - m] \in {0, 1}
      BY <1>1, <3>1 DEF Joined, Binary
    <3> QED BY <3>1, <3>2
  <2> QED BY <2>1, <2>2
<1>4. OfLength(c, m + n)
  BY <1>1 DEF Joined
<1>5. Binary(c, m + n)
  BY <1>3, <1>4 DEF Binary
<1> QED BY <1>5 DEF c

LEMMA Parity == ASSUME NEW v \in Int PROVE v % 2 \in {0, 1}
OBVIOUS

LEMMA OutBitsBinary ==
  ASSUME NEW v \in Int, NEW n \in 0..14 PROVE Binary(OutBits(v, n), n)
<1>1. n \in Nat /\ OfLength(OutBits(v, n), n)
  BY OutBitsLength
<1>2. ASSUME NEW i \in 1..n PROVE OutBits(v, n)[i] \in {0, 1}
  <2> DEFINE x == 2^(i - 1)
  <2>1. i - 1 \in 0..13
    OBVIOUS
  <2>2. x \in Nat /\ x > 0
    BY <2>1, PowerType
  <2> HIDE DEF x
  <2>3. v \div x \in Int
    BY <2>2
  <2>4. (v \div x) % 2 \in {0, 1}
    BY <2>3, Parity
  <2> QED BY <2>4 DEF x, OutBits
<1> QED BY <1>1, <1>2 DEF Binary

LEMMA MirroredBinary ==
  ASSUME NEW v \in Int, NEW n \in 0..8 PROVE Binary(Mirrored(v, n), n)
<1>1. n \in Nat /\ OfLength(Mirrored(v, n), n)
  BY MirroredLength
<1>2. ASSUME NEW i \in 1..n PROVE Mirrored(v, n)[i] \in {0, 1}
  <2> DEFINE x == 2^(8 - i)
  <2>1. 8 - i \in 0..13
    OBVIOUS
  <2>2. x \in Nat /\ x > 0
    BY <2>1, PowerType
  <2> HIDE DEF x
  <2>3. v \div x \in Int
    BY <2>2
  <2>4. (v \div x) % 2 \in {0, 1}
    BY <2>3, Parity
  <2> QED BY <2>4 DEF x, Mirrored
<1> QED BY <1>1, <1>2 DEF Binary

LEMMA LiteralBinary ==
  ASSUME NEW c \in Nat PROVE \E n : Binary(Literal(c), n)
<1>1. 48 + c \in Int /\ c \in Int /\ 8 \in 0..8
  OBVIOUS
<1>2. Binary(Mirrored(48 + c, 8), 8) /\ Binary(Mirrored(c, 8), 8)
  BY <1>1, MirroredBinary
<1>3. Binary(<<1>>, 1)
  <2>1. <<1>> \in Seq({0, 1}) /\ Len(<<1>>) = 1
    OBVIOUS
  <2> QED BY <2>1, SeqBinary
<1>4. Binary(<<1>> \o Mirrored(c, 8), 1 + 8)
  BY <1>2, <1>3, BinaryJoin
<1> QED BY <1>2, <1>4 DEF Literal

LEMMA MatchBinary ==
  ASSUME NEW t, IsMatch(t) PROVE \E n : Binary(Match(t.dist, t.len), n)
<1> DEFINE l == LengthOf(t)
           k == DistOf(t)
           A == LengthCode(l + 256)
           B == Extra(LenCodes[l], t.len)
           C == Mirrored((k - 1) * 8, 5)
           D == Extra(DistCodes[k], t.dist)
<1>1. l \in 1..29 /\ k \in 1..30
  BY CodesFit
<1>2. \E n : Binary(A, n)
  <2>1. ((l + 256) - 256) * 2 \in Int /\ 192 - 280 + (l + 256) \in Int /\ 7 \in 0..8 /\ 8 \in 0..8
    <3> HIDE DEF l
    <3> QED BY <1>1
  <2>2. /\ Binary(Mirrored(((l + 256) - 256) * 2, 7), 7)
        /\ Binary(Mirrored(192 - 280 + (l + 256), 8), 8)
    <3> HIDE DEF l
    <3> QED BY <2>1, MirroredBinary
  <2> QED BY <2>2 DEF LengthCode
<1>3. \E n : Binary(B, n)
  <2>1. LenCodes[l][1] \in 0..5 /\ LenCodes[l][2] \in Nat /\ t.len \in Nat
    BY <1>1, LengthTables DEF IsMatch
  <2> DEFINE x == LenCodes[l][1]
             v == t.len - LenCodes[l][2]
  <2>2. v \in Int /\ x \in 0..14
    BY <2>1
  <2> HIDE DEF x, v
  <2>3. Binary(OutBits(v, x), x)
    BY <2>2, OutBitsBinary
  <2> QED BY <2>3 DEF x, v, Extra
<1>4. \E n : Binary(C, n)
  <2>1. (k - 1) * 8 \in Int /\ 5 \in 0..8
    <3> HIDE DEF k
    <3> QED BY <1>1
  <2> HIDE DEF k
  <2> QED BY <2>1, MirroredBinary
<1>5. \E n : Binary(D, n)
  <2>1. DistCodes[k][1] \in 0..13 /\ DistCodes[k][2] \in Nat /\ t.dist \in Nat
    BY <1>1, DistanceTables DEF IsMatch
  <2> DEFINE x == DistCodes[k][1]
             v == t.dist - DistCodes[k][2]
  <2>2. v \in Int /\ x \in 0..14
    BY <2>1
  <2> HIDE DEF x, v
  <2>3. Binary(OutBits(v, x), x)
    BY <2>2, OutBitsBinary
  <2> QED BY <2>3 DEF x, v, Extra
<1>6. Match(t.dist, t.len) = ((A \o B) \o C) \o D
  BY DEF Match, LengthOf, DistOf
<1> HIDE DEF A, B, C, D
<1>7. \E n : Binary(A \o B, n)
  BY <1>2, <1>3, BinaryJoin
<1>8. \E n : Binary((A \o B) \o C, n)
  BY <1>4, <1>7, BinaryJoin
<1>9. \E n : Binary(((A \o B) \o C) \o D, n)
  BY <1>5, <1>8, BinaryJoin
<1> QED BY <1>6, <1>9

LEMMA EncodedBinary ==
  ASSUME NEW t \in Near PROVE \E n : Binary(Encoded(t), n)
<1>1. IsLiteral(t) \/ IsMatch(t)
  BY CodedIs DEF Near
<1>2. CASE IsLiteral(t)
  BY <1>2, LiteralBinary DEF IsLiteral, Encoded
<1>3. CASE IsMatch(t)
  BY <1>3, MatchBinary DEF IsMatch, Encoded
<1> QED BY <1>1, <1>2, <1>3

(* The tokens written so far: a block head, and one token behind the other.*)
Writing(o) ==
  /\ bits \in Seq({0, 1}) /\ sent \in Seq(Near)
  /\ Laid(o, bits, sent, 3) /\ o[Len(sent) + 1] = Len(bits)
  /\ Written(bits, 0, OutBits(1, 1), 1) /\ Written(bits, 1, OutBits(1, 2), 2)

LEMMA WritingStarts ==
  ASSUME sent = <<>>, bits = BlockStart PROVE \E o : Writing(o)
<1>1. Binary(OutBits(1, 1), 1) /\ Binary(OutBits(1, 2), 2)
  <2>1. 1 \in Int /\ 1 \in 0..14 /\ 2 \in 0..14
    OBVIOUS
  <2> QED BY <2>1, OutBitsBinary
<1>2. Binary(bits, 1 + 2)
  BY <1>1, BinaryJoin DEF BlockStart
<1>3. bits \in Seq({0, 1}) /\ Len(bits) = 3
  <2>1. 1 + 2 = 3
    OBVIOUS
  <2> QED BY <1>2, <2>1, BinarySeq
<1>4. Written(bits, 0, OutBits(1, 1), 1) /\ Written(bits, 1, OutBits(1, 2), 2)
  <2>1. Joined(bits, OutBits(1, 1), OutBits(1, 2), 1, 2)
    BY <1>1, JoinAt DEF BlockStart, Binary
  <2>2. ASSUME NEW i \in 1..1 PROVE bits[0 + i] = OutBits(1, 1)[i]
    <3>1. 0 + i = i
      OBVIOUS
    <3> QED BY <2>1, <3>1 DEF Joined
  <2> QED BY <2>1, <2>2 DEF Joined, Written
<1> DEFINE o == [ k \in 1..1 |-> 3 ]
<1>5. o[1] = 3 /\ Len(sent) = 0 /\ sent \in Seq(Near)
  OBVIOUS
<1> HIDE DEF o
<1>6. Laid(o, bits, sent, 3)
  BY <1>3, <1>5 DEF Laid
<1> QED BY <1>3, <1>4, <1>5, <1>6 DEF Writing

(* What is written in a sequence is written where that one is.             *)
LEMMA WrittenWithin ==
  ASSUME NEW c, NEW z \in Nat, NEW b, NEW n \in Nat, Written(c, z, b, n),
         NEW p \in Nat, NEW x, NEW q \in Nat, p + q <= n, Written(b, p, x, q)
  PROVE  Written(c, z + p, x, q)
<1> SUFFICES ASSUME NEW i \in 1..q PROVE c[(z + p) + i] = x[i]
  BY DEF Written
<1>1. p + i \in 1..n /\ z + (p + i) = (z + p) + i
  OBVIOUS
<1>2. c[z + (p + i)] = b[p + i] /\ b[p + i] = x[i]
  BY <1>1 DEF Written
<1> QED BY <1>1, <1>2

LEMMA EndsMoved ==
  ASSUME NEW t, IsLiteral(t) \/ IsMatch(t), NEW p \in Nat, NEW z \in Nat
  PROVE  EndsAt(t, z + p) = z + EndsAt(t, p)
<1>1. CASE IsLiteral(t)
  <2> DEFINE n == LiteralSize(t.len)
  <2>1. n \in Nat
    BY DEF LiteralSize
  <2>2. EndsAt(t, z + p) = (z + p) + n /\ EndsAt(t, p) = p + n
    BY <1>1 DEF IsLiteral, EndsAt
  <2> HIDE DEF n
  <2> QED BY <2>1, <2>2
<1>2. CASE IsMatch(t)
  <2> DEFINE a == LengthCodeSize(LengthOf(t))
             x == LenCodes[LengthOf(t)][1]
             y == DistCodes[DistOf(t)][1]
  <2>1. a \in Nat /\ x \in Nat /\ y \in Nat
    <3>1. a \in {7, 8} /\ x \in 0..5 /\ y \in 0..13
      BY <1>2, MatchPlaces, Zenon
    <3> HIDE DEF a, x, y
    <3> QED BY <3>1
  <2>2. /\ EndsAt(t, z + p) = ((((z + p) + a) + x) + 5) + y
        /\ EndsAt(t, p) = (((p + a) + x) + 5) + y
    BY <1>2 DEF IsMatch, EndsAt, MatchEnd, DistExtraAt, DistAt, ExtraAt
  <2> HIDE DEF a, x, y
  <2> QED BY <2>1, <2>2
<1> QED BY <1>1, <1>2

Moved(o, z, n) == [ k \in 1..(n + 1) |-> z + o[k] ]

(* Tokens laid out in a sequence are laid out where that one is written.   *)
LEMMA LaidMoves ==
  ASSUME NEW o, NEW b, NEW s \in Seq(Near), NEW from \in Nat, Laid(o, b, s, from),
         Len(b) \in Nat, NEW c, NEW z \in Nat, Len(c) \in Nat, z + Len(b) <= Len(c),
         Written(c, z, b, Len(b))
  PROVE  Laid(Moved(o, z, Len(s)), c, s, z + from)
<1> DEFINE n == Len(s)
           m == Moved(o, z, n)
<1>1. n \in Nat
  BY LenProperties
<1>2. \A k \in 1..(n + 1) : m[k] = z + o[k]
  BY DEF Moved
<1>3. m[1] = z + from
  <2>1. 1 \in 1..(n + 1)
    BY <1>1
  <2> QED BY <1>2, <2>1 DEF Laid
<1> HIDE DEF m
<1>4. ASSUME NEW k \in 1..(n + 1) PROVE m[k] \in Nat /\ m[k] <= Len(c)
  <2>1. o[k] \in Nat /\ o[k] <= Len(b) /\ m[k] = z + o[k]
    BY <1>2 DEF Laid
  <2> QED BY <2>1
<1>5. ASSUME NEW k \in 1..n
      PROVE  m[k + 1] = EndsAt(s[k], m[k]) /\ Written(c, m[k], Encoded(s[k]), m[k + 1] - m[k])
  <2> DEFINE p == o[k]
             q == o[k + 1]
             t == s[k]
  <2>1. k \in 1..(n + 1) /\ k + 1 \in 1..(n + 1)
    BY <1>1
  <2>2. m[k] = z + p /\ m[k + 1] = z + q
    BY <1>2, <2>1
  <2>3. q = EndsAt(t, p) /\ Written(b, p, Encoded(t), q - p) /\ p \in Nat /\ q \in Nat /\ q <= Len(b)
    BY <2>1 DEF Laid
  <2>4. IsLiteral(t) \/ IsMatch(t)
    <3>1. t \in Near
      BY ElementOfSeq
    <3> QED BY <3>1, CodedIs DEF Near
  <2> HIDE DEF p, q, t, n
  <2>5. p < q
    BY <2>3, <2>4, TokenLength
  <2>6. q - p \in Nat /\ p + (q - p) <= Len(b) /\ (z + q) - (z + p) = q - p
    BY <2>3, <2>5
  <2>7. Written(c, z + p, Encoded(t), q - p)
    BY <2>3, <2>6, WrittenWithin
  <2>8. EndsAt(t, z + p) = z + q
    BY <2>3, <2>4, EndsMoved
  <2>9. m[k + 1] = EndsAt(t, m[k]) /\ Written(c, m[k], Encoded(t), m[k + 1] - m[k])
    BY <2>2, <2>6, <2>7, <2>8
  <2> QED BY <2>9 DEF t
<1> QED BY <1>3, <1>4, <1>5 DEF Laid, m

(* One more token, behind the others. *)
LEMMA LaidGrows ==
  ASSUME NEW o, NEW b \in Seq({0, 1}), NEW s \in Seq(Near), NEW from \in Nat,
         Laid(o, b, s, from), o[Len(s) + 1] = Len(b), NEW t \in Near
  PROVE  /\ b \o Encoded(t) \in Seq({0, 1}) /\ Append(s, t) \in Seq(Near)
         /\ Written(b \o Encoded(t), 0, b, Len(b)) /\ Len(b) <= Len(b \o Encoded(t))
         /\ \E u : /\ Laid(u, b \o Encoded(t), Append(s, t), from)
                   /\ u[Len(Append(s, t)) + 1] = Len(b \o Encoded(t))
<1> DEFINE n == Len(s)
           m == Len(b)
           e == EndsAt(t, m)
           c == b \o Encoded(t)
           r == Append(s, t)
           v == Moved(o, 0, n)
           u == [ k \in 1..(n + 2) |-> IF k = n + 2 THEN e ELSE v[k] ]
<1>1. m \in Nat /\ n \in Nat
  BY LenProperties
<1>2. IsLiteral(t) \/ IsMatch(t)
  BY CodedIs DEF Near
<1>3. e \in Nat /\ m < e /\ OfLength(Encoded(t), e - m)
  BY <1>1, <1>2, TokenLength
<1>4. c \in Seq({0, 1}) /\ Len(c) = e /\ Joined(c, b, Encoded(t), m, e - m)
  <2>1. PICK k : Binary(Encoded(t), k)
    BY EncodedBinary
  <2>2. Binary(c, m + k)
    BY <2>1, SeqBinary, BinaryJoin
  <2>3. Len(Encoded(t)) = k /\ Len(Encoded(t)) = e - m
    BY <1>3, <2>1, LengthIs DEF Binary
  <2>4. c \in Seq({0, 1}) /\ Len(c) = m + k
    BY <2>2, BinarySeq
  <2> HIDE DEF c, e, m
  <2>5. Len(c) = e
    <3>1. k = e - m
      BY <2>3
    <3>2. m + (e - m) = e
      BY <1>1, <1>3
    <3> QED BY <2>4, <3>1, <3>2
  <2>6. Joined(c, b, Encoded(t), m, e - m)
    <3>1. OfLength(b, m)
      BY SeqBinary DEF Binary, m
    <3> QED BY <3>1, <1>3, JoinAt DEF c
  <2> QED BY <2>4, <2>5, <2>6
<1>5. Written(c, 0, b, m)
  <2> SUFFICES ASSUME NEW i \in 1..m PROVE c[0 + i] = b[i]
    BY DEF Written
  <2>1. 0 + i = i
    OBVIOUS
  <2> HIDE DEF c, m
  <2> QED BY <2>1, <1>4 DEF Joined
<1>6. Written(c, m, Encoded(t), e - m)
  <2> HIDE DEF c, m, e
  <2> QED BY <1>4 DEF Joined, Written
<1>7. /\ r \in Seq(Near) /\ Len(r) = n + 1 /\ r[n + 1] = t
      /\ \A k \in 1..n : r[k] = s[k]
  BY AppendProperties
<1> HIDE DEF c, r, e
<1>8. Laid(v, c, s, 0 + from)
  <2>1. Len(c) \in Nat /\ 0 + Len(b) <= Len(c)
    BY <1>1, <1>3, <1>4
  <2> QED BY <1>1, <1>5, <2>1, LaidMoves
<1>9. v[n + 1] = m
  <2>1. n + 1 \in 1..(n + 1) /\ 0 + m = m
    BY <1>1
  <2> QED BY <2>1 DEF Moved
<1> HIDE DEF v, m, n
<1>10. /\ u[n + 2] = e /\ \A k \in 1..(n + 1) : u[k] = v[k]
  BY <1>1
<1> HIDE DEF u
<1>11. u[1] = from
  <2>1. 1 \in 1..(n + 1) /\ 0 + from = from
    BY <1>1
  <2> QED BY <2>1, <1>8, <1>10 DEF Laid
<1>12. ASSUME NEW k \in 1..(Len(r) + 1) PROVE u[k] \in Nat /\ u[k] <= Len(c)
  <2>1. CASE k = n + 2
    BY <2>1, <1>3, <1>4, <1>10
  <2>2. CASE k # n + 2
    <3>1. k \in 1..(n + 1)
      BY <1>1, <1>7, <2>2
    <3> QED BY <3>1, <1>8, <1>10 DEF Laid, n
  <2> QED BY <2>1, <2>2
<1>13. ASSUME NEW k \in 1..Len(r)
       PROVE  u[k + 1] = EndsAt(r[k], u[k]) /\ Written(c, u[k], Encoded(r[k]), u[k + 1] - u[k])
  <2>1. CASE k = n + 1
    <3>1. u[k + 1] = e /\ u[k] = m /\ r[k] = t
      <4>1. k + 1 = n + 2 /\ k \in 1..(n + 1)
        BY <2>1, <1>1
      <4> QED BY <4>1, <2>1, <1>7, <1>9, <1>10
    <3> QED BY <3>1, <1>6 DEF e
  <2>2. CASE k # n + 1
    <3>1. k \in 1..n /\ k \in 1..(n + 1) /\ k + 1 \in 1..(n + 1)
      BY <1>1, <1>7, <2>2
    <3>2. r[k] = s[k] /\ u[k] = v[k] /\ u[k + 1] = v[k + 1]
      BY <3>1, <1>7, <1>10
    <3>3. v[k + 1] = EndsAt(s[k], v[k]) /\ Written(c, v[k], Encoded(s[k]), v[k + 1] - v[k])
      BY <3>1, <1>8 DEF Laid, n
    <3> QED BY <3>2, <3>3
  <2> QED BY <2>1, <2>2
<1>14. Laid(u, c, r, from) /\ u[Len(r) + 1] = Len(c)
  <2>1. Len(r) + 1 = n + 2
    BY <1>1, <1>7
  <2> QED BY <2>1, <1>4, <1>10, <1>11, <1>12, <1>13 DEF Laid
<1>15. m <= Len(c)
  BY <1>1, <1>3, <1>4
<1> QED BY <1>4, <1>5, <1>7, <1>14, <1>15 DEF c, r, m

LEMMA WritingGrows ==
  ASSUME NEW o, Writing(o), NEW t \in Near, Send(t) PROVE \E u : Writing(u)'
<1>1. bits' = bits \o Encoded(t) /\ sent' = Append(sent, t)
  BY DEF Send
<1>2. /\ bits' \in Seq({0, 1}) /\ sent' \in Seq(Near)
      /\ Written(bits', 0, bits, Len(bits)) /\ Len(bits) <= Len(bits')
      /\ \E u : Laid(u, bits', sent', 3) /\ u[Len(sent') + 1] = Len(bits')
  BY <1>1, LaidGrows DEF Writing
<1>3. Len(bits) \in Nat /\ 3 <= Len(bits)
  <2>1. Len(bits) \in Nat /\ Len(sent) \in Nat
    BY LenProperties DEF Writing
  <2>2. 1 \in 1..(Len(sent) + 1)
    BY <2>1
  <2>3. o[1] = 3 /\ o[1] <= Len(bits)
    BY <2>2 DEF Writing, Laid
  <2> QED BY <2>1, <2>3
<1>4. Written(bits', 0, OutBits(1, 1), 1) /\ Written(bits', 1, OutBits(1, 2), 2)
  <2>1. Written(bits', 0 + 0, OutBits(1, 1), 1)
    <3>1. 0 + 1 <= Len(bits) /\ 0 \in Nat /\ 1 \in Nat
      BY <1>3
    <3>2. Written(bits, 0, OutBits(1, 1), 1)
      BY DEF Writing
    <3> QED BY <1>2, <1>3, <3>1, <3>2, WrittenWithin
  <2>2. Written(bits', 0 + 1, OutBits(1, 2), 2)
    <3>1. 1 + 2 <= Len(bits) /\ 0 \in Nat /\ 1 \in Nat /\ 2 \in Nat
      BY <1>3
    <3>2. Written(bits, 1, OutBits(1, 2), 2)
      BY DEF Writing
    <3> QED BY <1>2, <1>3, <3>1, <3>2, WrittenWithin
  <2>3. 0 + 0 = 0 /\ 0 + 1 = 1
    OBVIOUS
  <2> QED BY <2>1, <2>2, <2>3
<1> QED BY <1>2, <1>4 DEF Writing

(* The header, byte by byte. *)
LEMMA HeaderWritten ==
  /\ Binary(ByteBits(MemberHeader), 80)
  /\ \A k \in 0..9 : Written(ByteBits(MemberHeader), 8 * k, OutBits(MemberHeader[k + 1], 8), 8)
<1> DEFINE h == MemberHeader
           s == [ i \in DOMAIN h |-> OutBits(h[i], 8) ]
           f == FlattenSeq(s)
<1>1. DOMAIN h = 1..10 /\ \A i \in 1..10 : h[i] \in Int
  BY DEF MemberHeader
<1> HIDE DEF h
<1>2. DOMAIN s = 1..10 /\ \A i \in 1..10 : s[i] = OutBits(h[i], 8)
  BY <1>1
<1>3. s = [ i \in 1..10 |-> s[i] ]
  BY <1>1
<1> HIDE DEF s
<1>4. ASSUME NEW i \in 1..10 PROVE Binary(s[i], 8)
  <2>1. h[i] \in Int /\ 8 \in 0..14
    BY <1>1
  <2>2. Binary(OutBits(h[i], 8), 8)
    BY <2>1, OutBitsBinary
  <2> QED BY <1>2, <2>2
<1>5. Blocky(s, 10, 8)
  <2>1. 10 \in Nat
    OBVIOUS
  <2>2. OfLength(s, 10)
    BY <1>3, <2>1, ArrayOfLength
  <2> QED BY <1>4, <2>2 DEF Blocky, Binary
<1>6. EndToEnd(f, s, 10, 8)
  <2>1. 10 \in Nat /\ 8 \in Nat \ {0}
    OBVIOUS
  <2> QED BY <1>5, <2>1, FlattenBlocks
<1> HIDE DEF f
<1>7. OfLength(f, 80)
  <2>1. 10 * 8 = 80
    OBVIOUS
  <2> QED BY <1>6, <2>1 DEF EndToEnd
<1>8. ASSUME NEW p \in 1..80 PROVE f[p] \in {0, 1}
  <2>1. 10 \in Nat /\ 8 \in Nat \ {0} /\ p \in 1..(10 * 8)
    OBVIOUS
  <2>2. PICK k \in 1..10, i \in 1..8 : p = (k - 1) * 8 + i
    BY <2>1, EveryPlace
  <2>3. f[(k - 1) * 8 + i] = s[k][i]
    BY <1>6 DEF EndToEnd
  <2>4. s[k][i] \in {0, 1}
    BY <1>4 DEF Binary
  <2> QED BY <2>2, <2>3, <2>4
<1>9. ASSUME NEW k \in 0..9 PROVE Written(f, 8 * k, OutBits(h[k + 1], 8), 8)
  <2> SUFFICES ASSUME NEW i \in 1..8 PROVE f[8 * k + i] = OutBits(h[k + 1], 8)[i]
    BY DEF Written
  <2>1. k + 1 \in 1..10 /\ ((k + 1) - 1) * 8 + i = 8 * k + i
    OBVIOUS
  <2>2. f[((k + 1) - 1) * 8 + i] = s[k + 1][i]
    BY <1>6, <2>1 DEF EndToEnd
  <2> QED BY <1>2, <2>1, <2>2
<1>10. f = ByteBits(MemberHeader)
  BY DEF f, s, h, ByteBits
<1>11. Binary(f, 80)
  BY <1>7, <1>8 DEF Binary
<1> QED BY <1>9, <1>10, <1>11 DEF h

LEMMA BlockEndIs ==
  Binary(BlockEnd, 14) /\ \A i \in 1..7 : BlockEnd[i] = 0
<1> DEFINE z == OutBits(0, 7)
           b == z \o z
<1>1. Binary(z, 7)
  <2>1. 0 \in Int /\ 7 \in 0..14
    OBVIOUS
  <2> QED BY <2>1, OutBitsBinary
<1>2. ASSUME NEW i \in 1..7 PROVE z[i] = 0
  <2> DEFINE x == 2^(i - 1)
  <2>1. i - 1 \in 0..13
    OBVIOUS
  <2>2. x \in Nat /\ x > 0
    BY <2>1, PowerType
  <2> HIDE DEF x
  <2>3. (0 \div x) % 2 = 0
    BY <2>2
  <2> QED BY <2>3 DEF x, OutBits
<1> HIDE DEF z
<1>3. Binary(b, 7 + 7) /\ Joined(b, z, z, 7, 7)
  BY <1>1, BinaryJoin, JoinAt DEF Binary
<1> HIDE DEF b
<1>4. 7 + 7 = 14
  OBVIOUS
<1>5. \A i \in 1..7 : b[i] = 0
  BY <1>2, <1>3 DEF Joined
<1>6. Binary(b, 14)
  BY <1>3, <1>4
<1>7. b = BlockEnd
  BY DEF b, z, BlockEnd
<1> QED BY <1>5, <1>6, <1>7

(* The bits of a stream that fill whole bytes. *)
LEMMA WholeBytesAre ==
  ASSUME NEW s, NEW n \in Nat, Binary(s, n), NEW w \in Nat, w = n \div 8
  PROVE  Binary(WholeBytes(s), 8 * w) /\ \A i \in 1..(8 * w) : WholeBytes(s)[i] = s[i]
<1>1. Len(s) = n /\ OfLength(s, n)
  BY LengthIs DEF Binary
<1> DEFINE m == 8 * w
           c == WholeBytes(s)
<1>2. m \in Nat /\ 0 + m <= n /\ 0 + m = w * 8 /\ 0 + m = m /\ 0 \in Nat /\ 0 + 1 = 1
  OBVIOUS
<1>3. c = SubSeq(s, 0 + 1, 0 + m)
  BY <1>1, <1>2 DEF WholeBytes
<1> HIDE DEF c, m
<1>4. Piece(c, s, 0, m)
  BY <1>1, <1>2, <1>3, CutAt
<1>5. ASSUME NEW i \in 1..m PROVE c[i] = s[i] /\ c[i] \in {0, 1}
  <2>1. 0 + i = i /\ i \in 1..n
    BY <1>2
  <2>2. c[i] = s[0 + i]
    BY <1>4 DEF Piece
  <2>3. s[i] \in {0, 1}
    BY <2>1 DEF Binary
  <2> QED BY <2>1, <2>2, <2>3
<1>6. Binary(c, m)
  BY <1>4, <1>5 DEF Piece, Binary
<1> QED BY <1>5, <1>6 DEF c, m

(* The numbers of a member's length. *)
LEMMA MemberNumbers ==
  ASSUME NEW n \in Nat, 3 <= n, NEW w \in Nat, w = (n + 14) \div 8
  PROVE  /\ n + 7 <= 8 * w /\ (80 + 8 * w) + 64 > 88
         /\ (80 + 8 * w) + 64 = 8 * (Aligned((80 + n) + 7) + 8)
         /\ 80 + n <= (80 + 8 * w) + 64
<1>1. n + 7 <= 8 * w
  OBVIOUS
<1>2. Aligned((80 + n) + 7) = 10 + w
  <2>1. ((80 + n) + 7) + 7 = 8 * 10 + (n + 14)
    OBVIOUS
  <2>2. (8 * 10 + (n + 14)) \div 8 = 10 + ((n + 14) \div 8)
    OBVIOUS
  <2> QED BY <2>1, <2>2 DEF Aligned
<1> QED BY <1>1, <1>2

(* The file of a stream of n bits, place by place. *)
LEMMA FileIs ==
  ASSUME NEW b \in Seq({0, 1}), 3 <= Len(b)
  PROVE  LET c == GzipFile(MemberHeader, b \o BlockEnd)
             e == 80 + Len(b)
         IN  /\ c \in Seq({0, 1}) /\ Written(c, 80, b, Len(b)) /\ e <= Len(c)
             /\ Len(c) = 8 * (Aligned(e + 7) + 8) /\ Len(c) > 88
             /\ \A i \in 1..7 : c[e + i] = 0
             /\ \A k \in 0..9 : Written(c, 8 * k, OutBits(MemberHeader[k + 1], 8), 8)
<1> DEFINE n == Len(b)
           w == (n + 14) \div 8
           s == b \o BlockEnd
           h == ByteBits(MemberHeader)
           W == WholeBytes(s)
           ones == [ i \in 1..64 |-> 1 ]
           m == 8 * w
           d == h \o W
           c == d \o ones
           e == 80 + n
<1>1. n \in Nat /\ Binary(b, n) /\ 3 <= n
  BY SeqBinary, LenProperties
<1>2. Binary(BlockEnd, 14) /\ \A i \in 1..7 : BlockEnd[i] = 0
  BY BlockEndIs
<1>3. Binary(s, n + 14) /\ Joined(s, b, BlockEnd, n, 14)
  BY <1>1, <1>2, BinaryJoin, JoinAt DEF Binary
<1> HIDE DEF s
<1>4. w \in Nat /\ n + 14 \in Nat
  BY <1>1
<1>5. /\ n + 7 <= m /\ (80 + m) + 64 > 88 /\ (80 + m) + 64 = 8 * (Aligned(e + 7) + 8)
      /\ e <= (80 + m) + 64
  BY <1>1, <1>4, MemberNumbers
<1>6. Binary(W, m) /\ \A i \in 1..m : W[i] = s[i]
  BY <1>3, <1>4, WholeBytesAre
<1>7. Binary(ones, 64)
  <2>1. 64 \in Nat /\ ones = [ i \in 1..64 |-> ones[i] ]
    OBVIOUS
  <2>2. \A i \in 1..64 : ones[i] \in {0, 1}
    OBVIOUS
  <2> HIDE DEF ones
  <2>3. OfLength(ones, 64)
    BY <2>1, ArrayOfLength
  <2> QED BY <2>2, <2>3 DEF Binary
<1>8. Binary(h, 80) /\ \A k \in 0..9 : Written(h, 8 * k, OutBits(MemberHeader[k + 1], 8), 8)
  BY HeaderWritten
<1>9. c = GzipFile(MemberHeader, b \o BlockEnd)
  BY DEF GzipFile, s
<1> HIDE DEF h, W, ones, w
<1>10. m \in Nat /\ 80 + m \in Nat /\ m <= n + 14
  BY <1>4 DEF w
<1> HIDE DEF m
<1>11. Binary(d, 80 + m) /\ Joined(d, h, W, 80, m)
  BY <1>6, <1>8, BinaryJoin, JoinAt, Zenon DEF Binary
<1> HIDE DEF d
<1>12. Binary(c, (80 + m) + 64) /\ Joined(c, d, ones, 80 + m, 64)
  BY <1>7, <1>11, BinaryJoin, JoinAt, Zenon DEF Binary
<1> HIDE DEF c
<1>13. c \in Seq({0, 1}) /\ Len(c) = (80 + m) + 64
  BY <1>12, BinarySeq
<1>14. ASSUME NEW i \in 1..(n + 7) PROVE c[80 + i] = s[i]
  <2>1. i \in 1..m /\ 80 + i \in 1..(80 + m)
    BY <1>1, <1>5, <1>10
  <2>2. c[80 + i] = d[80 + i] /\ d[80 + i] = W[i] /\ W[i] = s[i]
    BY <2>1, <1>6, <1>11, <1>12 DEF Joined
  <2> QED BY <2>2
<1>15. Written(c, 80, b, n)
  <2> SUFFICES ASSUME NEW i \in 1..n PROVE c[80 + i] = b[i]
    BY DEF Written
  <2>1. i \in 1..(n + 7)
    BY <1>1
  <2> QED BY <2>1, <1>3, <1>14 DEF Joined
<1>16. ASSUME NEW i \in 1..7 PROVE c[e + i] = 0
  <2>1. n + i \in 1..(n + 7) /\ 80 + (n + i) = e + i
    BY <1>1
  <2>2. c[80 + (n + i)] = s[n + i]
    BY <2>1, <1>14
  <2>3. s[n + i] = BlockEnd[i] /\ BlockEnd[i] = 0
    <3>1. i \in 1..14
      OBVIOUS
    <3> QED BY <3>1, <1>2, <1>3 DEF Joined
  <2> QED BY <2>1, <2>2, <2>3
<1>17. ASSUME NEW k \in 0..9
       PROVE  Written(c, 8 * k, OutBits(MemberHeader[k + 1], 8), 8)
  <2> DEFINE x == OutBits(MemberHeader[k + 1], 8)
  <2>1. Written(h, 8 * k, x, 8)
    BY <1>8
  <2> HIDE DEF x
  <2> SUFFICES ASSUME NEW i \in 1..8 PROVE c[8 * k + i] = x[i]
    BY DEF Written, x
  <2>2. 8 * k + i \in 1..80 /\ 8 * k + i \in 1..(80 + m)
    BY <1>10
  <2>3. c[8 * k + i] = d[8 * k + i] /\ d[8 * k + i] = h[8 * k + i]
    BY <2>2, <1>11, <1>12 DEF Joined
  <2>4. h[8 * k + i] = x[i]
    BY <2>1 DEF Written
  <2> QED BY <2>3, <2>4
<1> HIDE DEF e
<1>18. e <= Len(c) /\ Len(c) = 8 * (Aligned(e + 7) + 8) /\ Len(c) > 88
  BY <1>5, <1>13
<1>19. /\ c \in Seq({0, 1}) /\ Written(c, 80, b, n) /\ e <= Len(c)
       /\ Len(c) = 8 * (Aligned(e + 7) + 8) /\ Len(c) > 88
       /\ \A i \in 1..7 : c[e + i] = 0
       /\ \A k \in 0..9 : Written(c, 8 * k, OutBits(MemberHeader[k + 1], 8), 8)
  BY <1>13, <1>15, <1>16, <1>17, <1>18
<1> QED BY <1>9, <1>19 DEF e, n

(* The last block's end makes a member of what has been written. *)
LEMMA MemberWritten ==
  ASSUME NEW o, Writing(o), FinishBlock PROVE \E u : Member(u)'
<1> DEFINE n == Len(bits)
           m == Len(sent)
           c == bits'
<1>00. PICK z \in Nat, x \in Nat : z = 80 /\ x = 3
  OBVIOUS
<1>0. PICK e, u : e = 80 + n /\ u = Moved(o, z, m)
  OBVIOUS
<1>1. c = GzipFile(MemberHeader, bits \o BlockEnd) /\ UNCHANGED sent
  BY DEF FinishBlock
<1>2. /\ bits \in Seq({0, 1}) /\ sent \in Seq(Near) /\ n \in Nat /\ m \in Nat
      /\ Laid(o, bits, sent, 3) /\ o[m + 1] = n
      /\ Written(bits, 0, OutBits(1, 1), 1) /\ Written(bits, 1, OutBits(1, 2), 2)
  BY LenProperties DEF Writing
<1>3. 3 <= n
  <2>1. 1 \in 1..(m + 1)
    BY <1>2
  <2>2. o[1] = 3 /\ o[1] <= n
    BY <1>2, <2>1 DEF Laid
  <2> QED BY <2>2
<1>4. /\ c \in Seq({0, 1}) /\ Written(c, 80, bits, n) /\ e <= Len(c)
      /\ Len(c) = 8 * (Aligned(e + 7) + 8) /\ Len(c) > 88
      /\ \A i \in 1..7 : c[e + i] = 0
      /\ \A k \in 0..9 : Written(c, 8 * k, OutBits(MemberHeader[k + 1], 8), 8)
  BY <1>0, <1>1, <1>2, <1>3, FileIs
<1> HIDE DEF c
<1>5. Laid(u, c, sent, 83)
  <2>1. Len(c) \in Nat /\ z + x = 83
    BY <1>00, <1>4, LenProperties
  <2>2. z + n <= Len(c)
    BY <1>0, <1>00, <1>4
  <2>3. Laid(o, bits, sent, x) /\ Written(c, z, bits, n)
    BY <1>00, <1>2, <1>4
  <2>4. Laid(Moved(o, z, m), c, sent, z + x)
    BY <1>2, <2>1, <2>2, <2>3, LaidMoves
  <2> QED BY <1>0, <2>1, <2>4
<1>6. u[m + 1] = e
  <2>1. m + 1 \in 1..(m + 1)
    BY <1>2
  <2> QED BY <1>0, <1>00, <1>2, <2>1 DEF Moved
<1>7. Written(c, 80, OutBits(1, 1), 1) /\ Written(c, 81, OutBits(1, 2), 2)
  <2>1. Written(c, 80 + 0, OutBits(1, 1), 1)
    <3>1. 0 + 1 <= n /\ 0 \in Nat /\ 1 \in Nat /\ 80 \in Nat
      BY <1>2, <1>3
    <3> QED BY <1>2, <1>4, <3>1, WrittenWithin
  <2>2. Written(c, 80 + 1, OutBits(1, 2), 2)
    <3>1. 1 + 2 <= n /\ 1 \in Nat /\ 2 \in Nat /\ 80 \in Nat
      BY <1>2, <1>3
    <3> QED BY <1>2, <1>4, <3>1, WrittenWithin
  <2>3. 80 + 0 = 80 /\ 80 + 1 = 81
    OBVIOUS
  <2> QED BY <2>1, <2>2, <2>3
<1>8. /\ bits' \in Seq({0, 1}) /\ sent' \in Seq(Near) /\ Laid(u, bits', sent', 83)
      /\ u[Len(sent') + 1] = e
  BY <1>1, <1>2, <1>4, <1>5, <1>6 DEF c
<1>9. Framed(e)'
  BY <1>4, <1>7 DEF Framed, c
<1>10. Member(u)'
  BY <1>8, <1>9 DEF Member
<1> QED BY <1>10

(***************************************************************************)
(* A member is written and read.                                           *)
(***************************************************************************)

\* No match reaches farther back than the decoder's dictionary.
WithinWindow ==
  DictSize <= Window /\ \A t \in Plans : \A k \in DOMAIN t : t[k].dist <= Window

LEMMA LiteralNear ==
  ASSUME CompressInv, stage = "compress", at < Len(src)
  PROVE  [ dist |-> 0, len |-> src[at + 1] ] \in Near
<1>1. src \in Seq(0..255) /\ at + 1 \in 1..Len(src)
  BY LenProperties DEF CompressInv, Placed
<1> DEFINE byte == src[at + 1]
           D == {0}
           N == 0..255
           t == [ dist |-> 0, len |-> byte ]
<1>2. byte \in N
  BY <1>1, ElementOfSeq
<1> HIDE DEF byte, N
<1>3. t \in [ dist : D, len : N ] /\ t.dist = 0
  BY <1>2
<1> HIDE DEF t, D
<1>4. t \in Coded
  BY <1>3, Zenon DEF Coded, D, N
<1>5. t.dist <= Window
  BY <1>3, WindowIs
<1> QED BY <1>4, <1>5 DEF Near, t, byte

LEMMA MatchNear ==
  ASSUME WithinWindow, CompressInv, stage = "compress", NEW h \in DOMAIN bucket,
         Matches(bucket[h]), NEW n \in MinMatch..MaxMatch
  PROVE  [ dist |-> at - bucket[h], len |-> n ] \in Near
<1> DEFINE d == at - bucket[h]
           t == [ dist |-> d, len |-> n ]
           D == 1..MaxDistance
           N == MinMatch..MaxMatch
<1>1. /\ at \in Nat /\ bucket[h] \in Nat /\ bucket[h] < at /\ d <= DictSize
  BY LenProperties DEF CompressInv, Placed, Matches
<1>2. DictSize \in Nat /\ DictSize <= MaxDistance /\ DictSize <= Window /\ MaxDistance \in Nat
  BY DeflateAssumption DEF WithinWindow, MaxDistance
<1>3. d \in D /\ d <= Window
  BY <1>1, <1>2, WindowIs
<1>4. n \in N
  OBVIOUS
<1> HIDE DEF d, D, N
<1>5. t \in [ dist : D, len : N ] /\ t.dist = d
  BY <1>3, <1>4
<1> HIDE DEF t
<1>6. t \in Coded
  BY <1>5, Zenon DEF Coded, D, N
<1>7. t.dist <= Window
  BY <1>3, <1>5
<1> QED BY <1>6, <1>7 DEF Near, t, d

LEMMA PlanNear ==
  ASSUME WithinWindow, src \in Plans, at \in Nat, at < Len(src) PROVE src[at + 1] \in Near
<1>1. src \in Seq(Coded)
  BY PlansAssumption
<1>2. at + 1 \in 1..Len(src) /\ DOMAIN src = 1..Len(src)
  BY <1>1, LenProperties
<1>3. src[at + 1] \in Coded
  BY <1>1, <1>2, ElementOfSeq
<1>4. src[at + 1].dist <= Window
  BY <1>2 DEF WithinWindow
<1> QED BY <1>3, <1>4 DEF Near

\* The decoder has not been started.
Unread ==
  /\ reading = "no" /\ limit = 0 /\ ~eof /\ rd = 0 /\ got = <<>> /\ result = "more"
  /\ trees = Fixed

InflateInv ==
  /\ stage \in {"compress", "plan", "file"} /\ CompressInv
  /\ stage = "plan" => src \in Plans /\ at \in Nat
  /\ stage # "file" => Unread /\ \E o : Writing(o)
  /\ stage = "file" => \E o : Member(o) /\ Reader(o)

LEMMA InflateStart == DeflateInit /\ InflateInit => InflateInv
<1> SUFFICES ASSUME DeflateInit, InflateInit PROVE InflateInv
  OBVIOUS
<1>2. CompressInv
  BY CompressInit
<1>3. /\ stage \in {"compress", "plan"} /\ at = 0 /\ sent = <<>> /\ bits = BlockStart
      /\ stage = "plan" => src \in Plans
  BY DEF DeflateInit
<1>4. \E o : Writing(o)
  BY <1>3, WritingStarts
<1>5. Unread
  BY DEF InflateInit, Unread
<1> QED BY <1>2, <1>3, <1>4, <1>5 DEF InflateInv

(* A token is sent. *)
LEMMA SendStep ==
  ASSUME InflateInv, stage # "file", NEW t \in Near, Send(t), UNCHANGED <<stage, inflateVars>>,
         CompressInv', stage = "plan" => src' \in Plans /\ at' \in Nat
  PROVE  InflateInv'
<1>1. \E o : Writing(o)'
  BY WritingGrows DEF InflateInv
<1>2. Unread'
  BY DEF InflateInv, Unread, inflateVars, block
<1> QED BY <1>1, <1>2 DEF InflateInv

LEMMA FinishedStep ==
  ASSUME InflateInv, FinishBlock, UNCHANGED inflateVars, CompressInv' PROVE InflateInv'
<1>1. stage # "file" /\ stage' = "file"
  BY DEF FinishBlock
<1>2. PICK o : Member(o)'
  BY <1>1, MemberWritten DEF InflateInv
<1>3. Unread'
  BY <1>1 DEF InflateInv, Unread, inflateVars, block
<1>4. Len(bits') \in Nat /\ 8 * 0 = 0
  BY <1>2, LenProperties DEF Member
<1>5. Reader(o)'
  BY <1>3, <1>4 DEF Unread, Reader, ReaderKeeps, ReaderIsAt
<1> QED BY <1>1, <1>2, <1>5 DEF InflateInv

LEMMA InflateStep ==
  WithinWindow /\ InflateInv /\ [InflateNext]_<<deflateVars, inflateVars>>
    => InflateInv'
<1> SUFFICES ASSUME WithinWindow, InflateInv,
                    [InflateNext]_<<deflateVars, inflateVars>>
             PROVE  InflateInv'
  OBVIOUS
<1>1. ~WriteFile
  BY DEF InflateInv, WriteFile
<1>2. CompressInv'
  <2>1. [DeflateNext]_deflateVars
    BY <1>1 DEF InflateNext
  <2> QED BY <2>1, CompressStep DEF InflateInv
<1>3. CASE Compress /\ UNCHANGED inflateVars
  <2>1. /\ stage = "compress" /\ at < Top /\ UNCHANGED <<stage, src>> /\ CompressInv
        /\ UNCHANGED inflateVars
    BY <1>3 DEF Compress, InflateInv
  <2>2. at < Len(src)
    BY <2>1, LenProperties DEF CompressInv, Placed, Top, MinMatch
  <2>3. PICK h \in {Hash(at)} :
          IF h \in DOMAIN bucket /\ Matches(bucket[h])
            THEN \E n \in MinMatch..MaxMatch :
                   /\ Reaches(bucket[h], n)
                   /\ Send([ dist |-> at - bucket[h], len |-> n ])
                   /\ at' = at + n
            ELSE /\ Send([ dist |-> 0, len |-> src[at + 1] ])
                 /\ at' = at + 1
    BY <1>3 DEF Compress
  <2>4. \E t \in Near : Send(t)
    <3>1. CASE h \in DOMAIN bucket /\ Matches(bucket[h])
      <4>1. PICK n \in MinMatch..MaxMatch : Send([ dist |-> at - bucket[h], len |-> n ])
        BY <2>3, <3>1
      <4>2. [ dist |-> at - bucket[h], len |-> n ] \in Near
        BY <2>1, <3>1, MatchNear
      <4> QED BY <4>1, <4>2
    <3>2. CASE ~(h \in DOMAIN bucket /\ Matches(bucket[h]))
      BY <2>1, <2>2, <2>3, <3>2, LiteralNear
    <3> QED BY <3>1, <3>2
  <2> QED BY <1>2, <2>1, <2>4, SendStep
<1>4. CASE CompressTail /\ UNCHANGED inflateVars
  <2>1. /\ stage = "compress" /\ at < Len(src) /\ UNCHANGED <<stage, src>>
        /\ Send([ dist |-> 0, len |-> src[at + 1] ]) /\ UNCHANGED inflateVars
    BY <1>4 DEF CompressTail
  <2>2. [ dist |-> 0, len |-> src[at + 1] ] \in Near
    BY <2>1, LiteralNear DEF InflateInv
  <2> QED BY <1>2, <2>1, <2>2, SendStep
<1>5. CASE WriteToken /\ UNCHANGED inflateVars
  <2>1. /\ stage = "plan" /\ at < Len(src) /\ UNCHANGED <<stage, src>> /\ at' = at + 1
        /\ Send(src[at + 1]) /\ UNCHANGED inflateVars
    BY <1>5 DEF WriteToken
  <2>2. src \in Plans /\ at \in Nat /\ at' \in Nat /\ src' \in Plans
    BY <2>1 DEF InflateInv
  <2>3. src[at + 1] \in Near
    BY <2>1, <2>2, PlanNear
  <2> QED BY <1>2, <2>1, <2>2, <2>3, SendStep
<1>6. CASE FinishBlock /\ UNCHANGED inflateVars
  BY <1>2, <1>6, FinishedStep
<1>7. CASE Reads /\ UNCHANGED deflateVars
  <2>1. CASE stage = "file"
    <3>1. PICK o : Member(o) /\ Reader(o)
      BY <2>1 DEF InflateInv
    <3>2. Reader(o)'
      BY <1>7, <3>1, ReaderStep
    <3>3. Member(o)'
      BY <1>7, <3>1 DEF Member, Framed, deflateVars
    <3> QED BY <1>2, <1>7, <2>1, <3>2, <3>3 DEF InflateInv, deflateVars
  <2>2. CASE stage # "file"
    <3>1. reading = "no"
      BY <2>2 DEF InflateInv, Unread
    <3> QED BY <1>7, <2>2, <3>1 DEF Reads, Open, Cut, ParseHeader, StartBlock, StoredLength,
             StoredByte, ReadLength, BuildTrees, ReadToken, ReadTrailer
  <2> QED BY <2>1, <2>2
<1>8. CASE UNCHANGED <<deflateVars, inflateVars>>
  <2>1. \A o : (Member(o) => Member(o)') /\ (Reader(o) => Reader(o)') /\ (Writing(o) => Writing(o)')
    BY <1>8 DEF Member, Framed, Reader, ReaderKeeps, ReaderIsAt, InData, Writing, deflateVars,
                inflateVars, block
  <2>2. Unread => Unread'
    BY <1>8 DEF Unread, inflateVars, block
  <2> QED BY <1>2, <1>8, <2>1, <2>2 DEF InflateInv, deflateVars
<1> QED BY <1>1, <1>3, <1>4, <1>5, <1>6, <1>7, <1>8 DEF InflateNext, DeflateNext

LEMMA ReadingIsRight == InflateInv => ReadsWhatWasWritten
<1> SUFFICES ASSUME InflateInv PROVE ReadsWhatWasWritten
  OBVIOUS
<1>1. CASE stage # "file"
  <2>1. ~eof /\ got = <<>> /\ result = "more"
    BY <1>1 DEF InflateInv, Unread
  <2>2. PICK o : Writing(o)
    BY <1>1 DEF InflateInv
  <2>3. sent \in Seq(Near) /\ Len(sent) \in Nat
    BY <2>2, LenProperties DEF Writing
  <2>4. SubSeq(sent, 1, 0) = <<>>
    BY <2>3, SubSeqEmpty
  <2>5. IsPrefix(got, sent)
    BY <2>1, <2>3, <2>4 DEF IsPrefix
  <2> QED BY <2>1, <2>5 DEF ReadsWhatWasWritten
<1>2. CASE stage = "file"
  <2>1. PICK o : Member(o) /\ Reader(o)
    BY <1>2 DEF InflateInv
  <2>2. /\ bits \in Seq({0, 1}) /\ sent \in Seq(Near) /\ Len(bits) \in Nat /\ Len(sent) \in Nat
    BY <2>1, LenProperties DEF Member
  <2>3. result # "error"
    BY <2>1 DEF Reader, ReaderKeeps, ReaderIsAt
  <2>4. result = "done" => got = sent
    BY <2>1 DEF Reader, ReaderKeeps, ReaderIsAt
  <2>5. ASSUME result = "starved" PROVE limit < Len(bits) \div 8
    <3>1. 8 * limit < Len(bits) /\ limit \in Nat
      BY <2>1, <2>5 DEF Reader, ReaderKeeps, ReaderIsAt
    <3>2. \E w \in Nat : Len(bits) = 8 * w
      <4> DEFINE e == o[Len(sent) + 1]
                 a == Aligned(e + 7)
      <4>1. Len(sent) + 1 \in 1..(Len(sent) + 1)
        BY <2>2
      <4>2. e + 7 \in Nat
        BY <2>1, <4>1 DEF Member, Laid
      <4>3. a \in Nat
        BY <4>2, Alignment
      <4>4. Len(bits) = 8 * (a + 8)
        BY <2>1 DEF Member, Framed
      <4> HIDE DEF a
      <4>5. a + 8 \in Nat
        BY <4>3
      <4> QED BY <4>4, <4>5
    <3>3. PICK w \in Nat : Len(bits) = 8 * w
      BY <3>2
    <3>4. limit < w /\ (8 * w) \div 8 = w
      BY <3>1, <3>3
    <3> QED BY <3>3, <3>4
  <2>6. ASSUME ~eof PROVE IsPrefix(got, sent)
    <3>1. \E g \in 0..Len(sent) : got = SubSeq(sent, 1, g)
      <4>1. CASE got = <<>>
        <5>1. SubSeq(sent, 1, 0) = <<>> /\ 0 \in 0..Len(sent)
          <6>1. SubSeq(sent, 1, 0) = <<>>
            BY <2>2, SubSeqEmpty
          <6> QED BY <2>2, <6>1
        <5> QED BY <4>1, <5>1
      <4>2. CASE got = sent
        <5>1. SubSeq(sent, 1, Len(sent)) = sent /\ Len(sent) \in 0..Len(sent)
          BY <2>2, SubSeqFull
        <5> QED BY <4>2, <5>1
      <4>3. CASE InData(o)
        BY <4>3 DEF InData
      <4> QED BY <2>1, <2>6, <4>1, <4>2, <4>3 DEF Reader, ReaderIsAt
    <3>2. PICK g \in 0..Len(sent) : got = SubSeq(sent, 1, g)
      BY <3>1
    <3>3. Len(SubSeq(sent, 1, g)) = g
      BY <2>2, SubSeqProperties
    <3> QED BY <2>2, <3>2, <3>3, SubSeqFull DEF IsPrefix
  <2> QED BY <2>3, <2>4, <2>5, <2>6 DEF ReadsWhatWasWritten
<1>3. stage # "file" \/ stage = "file"
  OBVIOUS
<1> QED BY <1>1, <1>2, <1>3

(* The decoder of tinflate.c reads back what the device's own compressor   *)
(* wrote, token for token, whatever the data or the tokens, wherever the   *)
(* file is cut and however the reader's steps fall: it ends where the file *)
(* ends, and never takes the zeros behind a cut for data, an end or an     *)
(* error.  Matches have to lie within its dictionary.                      *)
THEOREM MembersReadBack ==
  WithinWindow => (DeflateInit /\ InflateSpec => []ReadsWhatWasWritten)
<1> SUFFICES ASSUME WithinWindow PROVE DeflateInit /\ InflateSpec => []ReadsWhatWasWritten
  OBVIOUS
<1>1. DeflateInit /\ InflateInit => InflateInv
  BY InflateStart
<1>2. InflateInv /\ [InflateNext]_<<deflateVars, inflateVars>> => InflateInv'
  BY InflateStep
<1>3. InflateInv => ReadsWhatWasWritten
  BY ReadingIsRight
<1> QED BY <1>1, <1>2, <1>3, PTL DEF InflateSpec
==============================================================================
