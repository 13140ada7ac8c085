---------------------------- MODULE AirtimeProofs ----------------------------
(***************************************************************************)
(* Proofs about Airtime, for any number and length of bins, any packets    *)
(* and any limits.                                                         *)
(*                                                                         *)
(* The sum of a ring is a fold over its bins. What is needed of it is      *)
(* proved by taking a least set of bins for which it fails: LeastNumber    *)
(* and LeastSet stand for induction.                                       *)
(*                                                                         *)
(* TypesHold: the bins keep their width.                                   *)
(*                                                                         *)
(* DutyCycleHolds: no packet is sent while what was really sent is at a    *)
(* limit, though the lock looks at sums made earlier. The bins never say   *)
(* less than the truth (Duty), as long as none of them wraps; the long-    *)
(* term limit sees to that (Capped), or updates that come often enough     *)
(* (Regular).                                                              *)
(*                                                                         *)
(* AirtimeExactHolds: where they do, the sums are the truth.               *)
(***************************************************************************)
EXTENDS Airtime, TLAPS, FiniteSetTheorems, WellFoundedInduction

(* A set of numbers has a least one: what stands here for induction.       *)
LEMMA LeastNumber == ASSUME NEW S \in SUBSET Nat, S # {} PROVE \E m \in S : \A n \in S : m =< n
<1> DEFINE R == {ss \in Nat \X Nat : ss[1] < ss[2]}
<1>1. IsWellFoundedOn(R, Nat)
  BY NatLessThanWellFounded DEF OpToRel
<1>2. \E m \in S : \A n \in S : ~(<<n, m>> \in R)
  <2> HIDE DEF R
  <2> QED BY <1>1, WFMin
<1>3. PICK m \in S : \A n \in S : ~(<<n, m>> \in R)
  BY <1>2
<1>4. \A n \in S : ~(n < m)
  BY <1>3
<1> QED BY <1>3, <1>4

(* Every set of bins has its number.                                       *)
LEMMA Counted ==
    ASSUME NEW s \in SUBSET Bin
    PROVE  /\ Cardinality(s) \in Nat /\ (Cardinality(s) = 0 <=> s = {})
           /\ \A x \in s : Cardinality(s \ {x}) = Cardinality(s) - 1
<1>1. IsFiniteSet(Bin)
  <2>1. Bins - 1 \in Int
    BY AirtimeAssumption
  <2> QED BY <2>1, FS_Interval DEF Bin
<1>2. IsFiniteSet(s)
  BY <1>1, FS_Subset
<1> QED BY <1>2, FS_CardinalityType, FS_EmptySet, FS_RemoveElement

(* Among the sets of bins that are wanting, one of which nothing can be    *)
(* taken away.                                                             *)
LEMMA LeastSet ==
    ASSUME NEW F \in SUBSET (SUBSET Bin), F # {}
    PROVE  \E s \in F : \A x \in s : s \ {x} \notin F
<1> DEFINE S == {Cardinality(s) : s \in F}
<1>1. S \in SUBSET Nat /\ S # {}
  BY Counted
<1>2. PICK m \in S : \A n \in S : m =< n
  BY <1>1, LeastNumber
<1>3. PICK s \in F : m = Cardinality(s)
  BY <1>2
<1>4. ASSUME NEW x \in s, s \ {x} \in F PROVE FALSE
  <2>1. Cardinality(s \ {x}) = Cardinality(s) - 1 /\ Cardinality(s) \in Nat
    BY Counted
  <2>2. Cardinality(s \ {x}) \in S
    BY <1>4
  <2>3. m =< Cardinality(s \ {x})
    BY <1>2, <2>2
  <2> QED BY <1>3, <2>1, <2>3
<1> QED BY <1>3, <1>4

-----------------------------------------------------------------------------
(* The sum over a ring, as the library adds it up: one bin after another.  *)
Pick(s) == CHOOSE x \in s : TRUE
Adds(ring, f, s) == IF s = {} THEN 0 ELSE ring[Pick(s)] + f[s \ {Pick(s)}]
Sums(ring) == CHOOSE f : f = [s \in SUBSET Bin |-> Adds(ring, f, s)]

(* The sum of the library is the one of the whole ring.                    *)
LEMMA TotalSums == ASSUME NEW ring PROVE Total(ring) = Sums(ring)[Bin]
  BY Zenon DEF Total, MapThenSumSet, MapThenFoldSet, Sums, Adds, Pick

(* There is such a function.                                               *)
LEMMA SumsExist ==
    ASSUME NEW ring PROVE \E f : f = [s \in SUBSET Bin |-> Adds(ring, f, s)]
<1> DEFINE Upto(n) == {s \in SUBSET Bin : Cardinality(s) =< n}
           Good(n) == \E f : f = [s \in Upto(n) |-> Adds(ring, f, s)]
           S == {n \in Nat : ~Good(n)}
<1>1. ASSUME NEW n \in Nat, n = 0 \/ (n - 1 \in Nat /\ Good(n - 1)) PROVE Good(n)
  <2>1. CASE n = 0
    <3> DEFINE f == [s \in Upto(n) |-> 0]
    <3>1. \A s \in Upto(n) : s = {}
      BY <2>1, Counted
    <3>2. f = [s \in Upto(n) |-> Adds(ring, f, s)]
      BY <3>1 DEF Adds
    <3> QED BY <3>2
  <2>2. CASE n - 1 \in Nat /\ Good(n - 1)
    <3>1. PICK f : f = [s \in Upto(n - 1) |-> Adds(ring, f, s)]
      BY <2>2
    <3> DEFINE g == [s \in Upto(n) |-> Adds(ring, f, s)]
    <3>2. \A s \in Upto(n - 1) : s \in Upto(n) /\ g[s] = f[s]
      <4>1. \A s \in Upto(n - 1) : s \in Upto(n)
        BY <2>2, Counted
      <4> QED BY <3>1, <4>1
    <3>3. ASSUME NEW s \in Upto(n) PROVE Adds(ring, g, s) = Adds(ring, f, s)
      <4>1. CASE s = {}
        BY <4>1 DEF Adds
      <4>2. CASE s # {}
        <5>1. Pick(s) \in s
          BY <4>2 DEF Pick
        <5>2. s \ {Pick(s)} \in Upto(n - 1)
          BY <2>2, <5>1, Counted
        <5> QED BY <3>2, <4>2, <5>2 DEF Adds
      <4> QED BY <4>1, <4>2
    <3>4. g = [s \in Upto(n) |-> Adds(ring, g, s)]
      BY <3>3
    <3> QED BY <3>4
  <2> QED BY <1>1, <2>1, <2>2
<1> HIDE DEF Good
<1>2. ASSUME NEW m \in S, \A n \in S : m =< n PROVE FALSE
  <2>1. m \in Nat /\ (m = 0 \/ (m - 1 \in Nat /\ m - 1 \notin S))
    BY <1>2
  <2> QED BY <1>1, <2>1
<1>3. \A n \in Nat : Good(n)
  <2>1. S \in SUBSET Nat /\ (S = {} => \A n \in Nat : Good(n))
    OBVIOUS
  <2> HIDE DEF S
  <2> QED BY <1>2, <2>1, LeastNumber
<1>4. PICK n \in Nat : Upto(n) = SUBSET Bin
  <2>1. IsFiniteSet(Bin) /\ Cardinality(Bin) \in Nat
    <3>1. Bins - 1 \in Int
      BY AirtimeAssumption
    <3> QED BY <3>1, Counted, FS_Interval DEF Bin
  <2>2. Upto(Cardinality(Bin)) = SUBSET Bin
    BY <2>1, FS_Subset
  <2> QED BY <2>1, <2>2
<1> QED BY <1>3, <1>4 DEF Good

(* So the sum is that of one bin and the others.                           *)
LEMMA SumsIs ==
    ASSUME NEW ring
    PROVE  /\ Sums(ring)[{}] = 0
           /\ \A s \in SUBSET Bin : s # {} =>
                  /\ Pick(s) \in s /\ s \ {Pick(s)} \in SUBSET Bin
                  /\ Sums(ring)[s] = ring[Pick(s)] + Sums(ring)[s \ {Pick(s)}]
<1>1. Sums(ring) = [s \in SUBSET Bin |-> Adds(ring, Sums(ring), s)]
  BY SumsExist, Zenon DEF Sums
<1>2. \A s \in SUBSET Bin : Sums(ring)[s] = Adds(ring, Sums(ring), s)
  <2> DEFINE h == Sums(ring)
  <2>1. h = [s \in SUBSET Bin |-> Adds(ring, h, s)]
    BY <1>1
  <2> HIDE DEF h
  <2>2. \A s \in SUBSET Bin : h[s] = Adds(ring, h, s)
    BY <2>1
  <2> QED BY <2>2 DEF h
<1>3. \A s \in SUBSET Bin : s # {} => Pick(s) \in s
  BY DEF Pick
<1> QED BY <1>2, <1>3 DEF Adds

(* The sum of numbers is a number.                                         *)
LEMMA SumsNat ==
    ASSUME NEW ring \in [Bin -> Nat], NEW s \in SUBSET Bin PROVE Sums(ring)[s] \in Nat
<1> DEFINE F == {u \in SUBSET Bin : Sums(ring)[u] \notin Nat}
<1>1. ASSUME NEW u \in F, \A x \in u : u \ {x} \notin F PROVE FALSE
  <2>1. CASE u = {}
    BY <2>1, SumsIs
  <2>2. CASE u # {}
    <3>1. /\ Pick(u) \in u /\ u \ {Pick(u)} \in SUBSET Bin
          /\ Sums(ring)[u] = ring[Pick(u)] + Sums(ring)[u \ {Pick(u)}]
      BY <2>2, SumsIs
    <3>2. Sums(ring)[u \ {Pick(u)}] \in Nat /\ ring[Pick(u)] \in Nat
      BY <1>1, <3>1
    <3> QED BY <3>1, <3>2
  <2> QED BY <2>1, <2>2
<1>2. F \in SUBSET (SUBSET Bin) /\ (F = {} => Sums(ring)[s] \in Nat)
  OBVIOUS
<1> HIDE DEF F
<1> QED BY <1>1, <1>2, LeastSet

(* One bin changes: so does the sum, if the bin is in it.                  *)
LEMMA SumsExcept ==
    ASSUME NEW ring \in [Bin -> Nat], NEW b \in Bin, NEW v \in Nat, NEW s \in SUBSET Bin
    PROVE  Sums([ring EXCEPT ![b] = v])[s] =
               IF b \in s THEN Sums(ring)[s] - ring[b] + v ELSE Sums(ring)[s]
<1> DEFINE new == [ring EXCEPT ![b] = v]
           Right(u) == Sums(new)[u] = IF b \in u THEN Sums(ring)[u] - ring[b] + v ELSE Sums(ring)[u]
           F == {u \in SUBSET Bin : ~Right(u)}
<1>0. new \in [Bin -> Nat] /\ new[b] = v /\ \A x \in Bin \ {b} : new[x] = ring[x]
  OBVIOUS
<1> HIDE DEF new
<1>1. ASSUME NEW u \in F, \A x \in u : u \ {x} \notin F PROVE FALSE
  <2>1. CASE u = {}
    BY <2>1, SumsIs
  <2>2. CASE u # {}
    <3> DEFINE x == Pick(u)
               r == u \ {Pick(u)}
    <3>1. /\ x \in u /\ r \in SUBSET Bin
          /\ Sums(ring)[u] = ring[x] + Sums(ring)[r] /\ Sums(new)[u] = new[x] + Sums(new)[r]
      BY <2>2, SumsIs
    <3>2. /\ Right(r) /\ Sums(ring)[r] \in Nat /\ Sums(new)[r] \in Nat
          /\ ring[x] \in Nat /\ ring[b] \in Nat
      BY <1>0, <1>1, <3>1, SumsNat
    <3>3. ~Right(u) /\ u \in SUBSET Bin
      BY <1>1
    <3>4. b \in r <=> (b \in u /\ b # x)
      OBVIOUS
    <3> HIDE DEF x, r
    <3>5. CASE x = b
      BY <1>0, <3>1, <3>2, <3>3, <3>4, <3>5
    <3>6. CASE x # b
      <4>1. new[x] = ring[x]
        BY <1>0, <3>1, <3>3, <3>6
      <4> QED BY <3>1, <3>2, <3>3, <3>4, <3>6, <4>1
    <3> QED BY <3>5, <3>6
  <2> QED BY <2>1, <2>2
<1>2. F \in SUBSET (SUBSET Bin) /\ (F = {} => Right(s))
  OBVIOUS
<1>3. Right(s)
  <2> HIDE DEF F, Right
  <2> QED BY <1>1, <1>2, LeastSet
<1> QED BY <1>3 DEF new

(* Bin by bin no more, in all no more.                                     *)
LEMMA SumsOrder ==
    ASSUME NEW ring \in [Bin -> Nat], NEW more \in [Bin -> Nat], \A b \in Bin : ring[b] =< more[b],
           NEW s \in SUBSET Bin
    PROVE  Sums(ring)[s] =< Sums(more)[s]
<1> DEFINE F == {u \in SUBSET Bin : ~(Sums(ring)[u] =< Sums(more)[u])}
<1>1. ASSUME NEW u \in F, \A x \in u : u \ {x} \notin F PROVE FALSE
  <2>1. CASE u = {}
    <3>1. Sums(ring)[u] = 0 /\ Sums(more)[u] = 0
      BY <2>1, SumsIs
    <3> QED BY <3>1
  <2>2. CASE u # {}
    <3>1. /\ Pick(u) \in u /\ u \ {Pick(u)} \in SUBSET Bin
          /\ Sums(ring)[u] = ring[Pick(u)] + Sums(ring)[u \ {Pick(u)}]
          /\ Sums(more)[u] = more[Pick(u)] + Sums(more)[u \ {Pick(u)}]
      BY <2>2, SumsIs
    <3>2. Sums(ring)[u \ {Pick(u)}] \in Nat /\ Sums(more)[u \ {Pick(u)}] \in Nat
      BY <3>1, SumsNat
    <3>3. Sums(ring)[u \ {Pick(u)}] =< Sums(more)[u \ {Pick(u)}]
      BY <1>1, <3>1
    <3>4. ring[Pick(u)] \in Nat /\ more[Pick(u)] \in Nat /\ ring[Pick(u)] =< more[Pick(u)]
      BY <3>1
    <3>5. Sums(ring)[u] =< Sums(more)[u]
      BY ONLY <3>1, <3>2, <3>3, <3>4
    <3> QED BY <1>1, <3>5
  <2> QED BY <2>1, <2>2
<1>2. F \in SUBSET (SUBSET Bin) /\ (F = {} => Sums(ring)[s] =< Sums(more)[s])
  OBVIOUS
<1> HIDE DEF F
<1> QED BY <1>1, <1>2, LeastSet

(* What this comes to for the sum of the whole ring.                       *)
LEMMA TotalNat == ASSUME NEW ring \in [Bin -> Nat] PROVE Total(ring) \in Nat
  BY TotalSums, SumsNat

(* One bin changes.                                                        *)
LEMMA TotalExcept ==
    ASSUME NEW ring \in [Bin -> Nat], NEW b \in Bin, NEW v \in Nat
    PROVE  Total([ring EXCEPT ![b] = v]) = Total(ring) - ring[b] + v
  BY TotalSums, SumsExcept, ZenonT(60)

(* Bin by bin no more.                                                     *)
LEMMA TotalOrder ==
    ASSUME NEW ring \in [Bin -> Nat], NEW more \in [Bin -> Nat], \A b \in Bin : ring[b] =< more[b]
    PROVE  Total(ring) =< Total(more)
  BY TotalSums, SumsOrder

(* A bin is no more than all of them.                                      *)
LEMMA TotalPart == ASSUME NEW ring \in [Bin -> Nat], NEW b \in Bin PROVE ring[b] =< Total(ring)
<1>1. [ring EXCEPT ![b] = 0] \in [Bin -> Nat]
  OBVIOUS
<1>2. Total([ring EXCEPT ![b] = 0]) \in Nat /\ Total(ring) \in Nat /\ ring[b] \in Nat
  BY <1>1, TotalNat
<1>3. Total([ring EXCEPT ![b] = 0]) = Total(ring) - ring[b] + 0
  BY TotalExcept
<1> QED BY <1>2, <1>3

-----------------------------------------------------------------------------
(* The clock: from bin to bin, each as long as the others.                 *)
LEMMA DivIs ==
    ASSUME NEW n \in Nat, NEW m \in Nat \ {0}
    PROVE  n \div m \in Nat /\ n % m \in 0 .. m - 1 /\ n = m * (n \div m) + (n % m)
  BY Z3

(* and there is but one quotient and one remainder.                        *)
LEMMA DivUnique ==
    ASSUME NEW m \in Nat \ {0}, NEW q \in Nat, NEW r \in 0 .. m - 1, NEW n \in Nat, n = m * q + r
    PROVE  n \div m = q /\ n % m = r
  BY DivIs, Z3

Hour == Bins * BinLen
Offset == now % BinLen

(* The current bin, the one before and the one after are three.            *)
LEMMA ThreeBins ==
    ASSUME now \in 0 .. Hour - 1
    PROVE  /\ now = BinLen * Cb + Offset /\ Offset \in 0 .. BinLen - 1
           /\ {Cb, Pb, Nb} \subseteq Bin /\ Cb # Pb /\ Cb # Nb /\ Pb # Nb
<1>1. /\ Bins \in Nat /\ Bins >= 3 /\ BinLen \in Nat \ {0} /\ Hour \in Nat
  BY AirtimeAssumption DEF Hour
<1>2. now \in Nat /\ now < Bins * BinLen
  BY <1>1 DEF Hour
<1>3. Cb \in Nat /\ Offset \in 0 .. BinLen - 1 /\ now = BinLen * Cb + Offset
  BY <1>1, <1>2, DivIs DEF Cb, Offset
<1>4. Cb < Bins
  <2> DEFINE c == Cb
             o == Offset
  <2>1. c \in Nat /\ o \in Nat /\ BinLen * c + o < Bins * BinLen
    BY <1>2, <1>3
  <2> HIDE DEF c, o
  <2>2. c < Bins
    BY <2>1, <1>1, Z3
  <2> QED BY <2>2 DEF c
<1>5. Cb \in 0 .. Bins - 1
  BY <1>1, <1>3, <1>4
<1> DEFINE c == Cb
<1> HIDE DEF c
<1>6. /\ c \in 0 .. Bins - 1
      /\ Pb = IF c = 0 THEN Bins - 1 ELSE c - 1
      /\ Nb = IF c + 1 = Bins THEN 0 ELSE c + 1
  BY <1>5 DEF c, Pb, Nb
<1>7. {c, Pb, Nb} \subseteq Bin /\ c # Pb /\ c # Nb /\ Pb # Nb
  BY ONLY <1>1, <1>6 DEF Bin
<1> QED BY <1>3, <1>7 DEF c

(* A tick stays in the bin, or goes on to the next.                        *)
LEMMA Ticks ==
    ASSUME now \in 0 .. Hour - 1, now' = (now + 1) % Hour
    PROVE  /\ now' \in 0 .. Hour - 1
           /\ \/ Offset + 1 < BinLen /\ Cb' = Cb /\ Offset' = Offset + 1
              \/ Offset + 1 = BinLen /\ Cb' = Nb /\ Offset' = 0
<1>1. /\ Bins \in Nat /\ Bins >= 3 /\ BinLen \in Nat \ {0}
      /\ now \in Nat /\ now < Hour /\ Hour = Bins * BinLen
  BY AirtimeAssumption DEF Hour
<1>2. Hour \in Nat \ {0}
  BY <1>1
<1>3. /\ now = BinLen * Cb + Offset /\ Offset \in 0 .. BinLen - 1 /\ Cb \in 0 .. Bins - 1
      /\ Nb = IF Cb + 1 = Bins THEN 0 ELSE Cb + 1
  BY ThreeBins DEF Bin, Nb
<1> DEFINE c == Cb
           o == Offset
<1>4. now = BinLen * c + o /\ o \in 0 .. BinLen - 1 /\ c \in 0 .. Bins - 1
  BY <1>3
<1> HIDE DEF c, o
<1>5. CASE now + 1 < Hour
  <2>1. now' = now + 1
    <3>1. now + 1 = Hour * 0 + (now + 1) /\ now + 1 \in 0 .. Hour - 1 /\ now + 1 \in Nat
      BY ONLY <1>1, <1>2, <1>5
    <3>2. (now + 1) % Hour = now + 1
      BY ONLY <1>2, <3>1, DivUnique, 0 \in Nat
    <3> QED BY <3>2
  <2>2. CASE o + 1 < BinLen
    <3>1. now' = BinLen * c + (o + 1) /\ o + 1 \in 0 .. BinLen - 1 /\ now' \in Nat
      BY <1>1, <1>4, <2>1, <2>2
    <3>2. now' \div BinLen = c /\ now' % BinLen = o + 1
      BY ONLY <1>1, <1>4, <3>1, DivUnique
    <3> QED BY <1>1, <1>5, <2>1, <2>2, <3>2 DEF Cb, Offset, c, o
  <2>3. CASE o + 1 = BinLen
    <3>1. now' = BinLen * (c + 1) + 0 /\ 0 \in 0 .. BinLen - 1 /\ now' \in Nat /\ c + 1 \in Nat
      <4>1. BinLen * (c + 1) = BinLen * c + BinLen
        BY <1>1, <1>4
      <4> QED BY <1>1, <1>4, <2>1, <2>3, <4>1
    <3>2. now' \div BinLen = c + 1 /\ now' % BinLen = 0
      <4> DEFINE d == c + 1
                 z == 0
      <4>1. now' = BinLen * d + z /\ d \in Nat /\ z \in 0 .. BinLen - 1
        BY <3>1
      <4> HIDE DEF d, z
      <4>2. now' \div BinLen = d /\ now' % BinLen = z
        <5> DEFINE n == now'
        <5>1. n = BinLen * d + z /\ n \in Nat
          BY <3>1, <4>1
        <5> HIDE DEF n
        <5>2. n \div BinLen = d /\ n % BinLen = z
          BY <1>1, <4>1, <5>1, DivUnique
        <5> QED BY <5>2 DEF n
      <4> QED BY <4>2 DEF d, z
    <3>3. c + 1 # Bins
      BY <1>1, <1>5, <2>1, <3>1
    <3>4. now' \in 0 .. Hour - 1
      BY <1>1, <1>2, <1>5, <2>1
    <3> QED BY <1>3, <2>3, <3>2, <3>3, <3>4 DEF Cb, Offset, c, o
  <2> QED BY <1>1, <1>4, <2>2, <2>3
<1>6. CASE now + 1 = Hour
  <2>1. now' = 0
    <3>1. now + 1 = Hour * 1 + 0 /\ 0 \in 0 .. Hour - 1 /\ now + 1 \in Nat
      BY ONLY <1>1, <1>2, <1>6
    <3>2. (now + 1) % Hour = 0
      BY ONLY <1>2, <3>1, DivUnique, 1 \in Nat
    <3> QED BY <3>2
  <2>2. o + 1 = BinLen /\ c + 1 = Bins
    <3>1. BinLen * c + o + 1 = Bins * BinLen
      BY <1>1, <1>4, <1>6
    <3>2. BinLen * (c + 1) = BinLen * c + BinLen
      BY <1>1, <1>4
    <3>3. o + 1 \in 1 .. BinLen /\ c + 1 \in 1 .. Bins
      BY <1>1, <1>4
    <3>4. BinLen * (c + 1) =< Bins * BinLen
      BY ONLY <1>1, <3>3, Z3
    <3>5. c + 1 = Bins
      BY ONLY <1>1, <1>4, <3>1, <3>3, Z3
    <3>6. BinLen * (c + 1) = Bins * BinLen
      BY ONLY <1>1, <3>5
    <3> QED BY ONLY <1>1, <1>4, <3>1, <3>2, <3>5, <3>6
  <2>3. now' \div BinLen = 0 /\ now' % BinLen = 0
    <3>1. 0 = BinLen * 0 + 0 /\ 0 \in 0 .. BinLen - 1 /\ 0 \in Nat
      BY <1>1
    <3> QED BY ONLY <1>1, <2>1, <3>1, DivUnique
  <2> QED BY <1>2, <1>3, <2>1, <2>2, <2>3 DEF Cb, Offset, c, o
<1> QED BY <1>1, <1>5, <1>6

-----------------------------------------------------------------------------
(* The band of contention windows is one of the four.                      *)
LEMMA BandIs == ASSUME NEW percent \in Nat PROVE Band(percent) \in 1 .. 4
<1>1. CASE percent =< 7
  BY <1>1 DEF Band
<1>2. CASE percent > 7
  <2> DEFINE w == (percent * 2) \div 78 + 2
             S == {w, 4}
  <2>1. w \in Nat /\ w >= 2
    <3>1. percent * 2 \in Nat /\ 78 \in Nat \ {0}
      OBVIOUS
    <3>2. (percent * 2) \div 78 \in Nat
      BY ONLY <3>1, DivIs
    <3> QED BY <3>2
  <2> HIDE DEF w
  <2>3. \E x \in S : \A y \in S : x =< y
    BY <2>1
  <2>4. Min(S) \in S /\ \A y \in S : Min(S) =< y
    BY <2>3 DEF Min
  <2>5. Min(S) \in 1 .. 4
    BY <2>1, <2>4
  <2> QED BY <1>2, <2>5 DEF Band, w
<1> QED BY <1>1, <1>2

(* What is left of a transmission counts down to nothing.                  *)
LEMMA LeftIs == ASSUME left \in Nat PROVE Max({left - 1, 0}) = IF left = 0 THEN 0 ELSE left - 1
<1> DEFINE S == {left - 1, 0}
<1>1. \E x \in S : \A y \in S : x >= y
  OBVIOUS
<1>2. Max(S) \in S /\ \A y \in S : Max(S) >= y
  BY <1>1 DEF Max
<1> QED BY <1>2

-----------------------------------------------------------------------------
(* What csma_update_airtime makes of the bins are numbers.                 *)
LEMMA UpdateTypes ==
    ASSUME TypeOK, Update
    PROVE  /\ bins' \in [Bin -> 0 .. Width - 1] /\ airtime' \in Nat /\ longterm_airtime' \in Nat
           /\ cw_band' \in 1 .. 4
           /\ bins' = [bins EXCEPT ![Nb] = 0]
           /\ airtime' = bins'[Cb] + bins'[Pb] /\ longterm_airtime' = Total(bins')
<1>1. now \in 0 .. Hour - 1
  BY DEF TypeOK, Hour
<1>2. {Cb, Pb, Nb} \subseteq Bin
  BY <1>1, ThreeBins
<1>3. bins' = [bins EXCEPT ![Nb] = 0]
  BY DEF Update
<1>4. bins' \in [Bin -> 0 .. Width - 1]
  <2>1. bins \in [Bin -> 0 .. Width - 1]
    BY DEF TypeOK
  <2>2. 0 \in 0 .. Width - 1
    BY AirtimeAssumption
  <2> QED BY <1>3, <2>1, <2>2
<1>5. bins' \in [Bin -> Nat]
  BY <1>4, AirtimeAssumption
<1>6. longterm_airtime' = Total(bins') /\ Total(bins') \in Nat
  BY <1>5, TotalNat DEF Update
<1>7. airtime' = bins'[Cb] + bins'[Pb] /\ airtime' \in Nat
  <2>1. bins'[Cb] \in Nat /\ bins'[Pb] \in Nat
    BY <1>2, <1>5
  <2>2. airtime' = bins'[Cb] + bins'[Pb]
    BY DEF Update
  <2> QED BY <2>1, <2>2
<1>8. cw_band' \in 1 .. 4
  <2>1. 100 * airtime' \in Nat /\ 2 * BinLen \in Nat \ {0}
    BY <1>7, AirtimeAssumption
  <2>2. (100 * airtime') \div (2 * BinLen) \in Nat
    BY <2>1, DivIs
  <2>3. cw_band' = Band((100 * airtime') \div (2 * BinLen))
    BY DEF Update
  <2> QED BY <2>2, <2>3, BandIs
<1> QED BY <1>3, <1>4, <1>6, <1>7, <1>8

(* Every step keeps the types,                                             *)
LEMMA TypeNext == TypeOK /\ [Next]_vars => TypeOK'
<1> SUFFICES ASSUME TypeOK, [Next]_vars PROVE TypeOK'
  OBVIOUS
<1>0. now \in 0 .. Hour - 1 /\ {Cb, Pb, Nb} \subseteq Bin
  BY ThreeBins DEF TypeOK, Hour
<1>1. CASE UNCHANGED vars
  BY <1>1 DEF vars, TypeOK
<1>2. CASE Tick
  <2>1. now' \in 0 .. Hour - 1 /\ Cb' \in {Cb, Nb}
    BY <1>0, <1>2, Ticks DEF Tick, Hour
  <2>2. since' \in 0 .. Period /\ left' \in Nat /\ fresh' \in BOOLEAN
    <3>1. left' = (IF left = 0 THEN 0 ELSE left - 1) /\ left \in Nat
      BY <1>2, LeftIs DEF Tick, TypeOK
    <3>2. /\ since \in 0 .. Period /\ Period \in Nat /\ (left = 0 => since < Period)
          /\ since' = IF left = 0 THEN since + 1 ELSE since
      BY <1>2, AirtimeAssumption DEF Tick, TypeOK
    <3>3. fresh' \in BOOLEAN
      BY <1>2 DEF Tick
    <3> QED BY <3>1, <3>2, <3>3
  <2>3. truth' \in [Bin -> Nat]
    BY <1>2 DEF Tick, TypeOK
  <2> QED BY <1>2, <2>1, <2>2, <2>3 DEF Tick, TypeOK, Hour
<1>3. ASSUME NEW ms \in Cost, Add(ms) PROVE TypeOK'
  <2>1. ms \in Nat
    BY AirtimeAssumption
  <2>2. (bins[Cb] + ms) % Width \in 0 .. Width - 1
    <3>1. bins[Cb] + ms \in Nat /\ Width \in Nat \ {0}
      BY <1>0, <2>1, AirtimeAssumption DEF TypeOK
    <3> QED BY <3>1, DivIs
  <2>3. bins' \in [Bin -> 0 .. Width - 1]
    <3>1. bins' = [bins EXCEPT ![Cb] = (bins[Cb] + ms) % Width, ![Nb] = 0]
      BY <1>3 DEF Add
    <3>2. bins \in [Bin -> 0 .. Width - 1]
      BY DEF TypeOK
    <3>3. 0 \in 0 .. Width - 1
      BY AirtimeAssumption
    <3> QED BY <2>2, <3>1, <3>2, <3>3
  <2>4. truth' \in [Bin -> Nat]
    BY <1>0, <1>3, <2>1 DEF Add, TypeOK
  <2>5. sent' \in BOOLEAN /\ fresh' \in BOOLEAN
    BY <1>3 DEF Add
  <2>6. left' = ms /\ UNCHANGED <<now, since, airtime, longterm_airtime, cw_band>>
    BY <1>3 DEF Add
  <2> QED BY <2>1, <2>3, <2>4, <2>5, <2>6 DEF TypeOK
<1>4. CASE UpdateForPacket \/ UpdateForSamples
  <2>1. Update /\ UNCHANGED <<now, left, truth>>
    BY <1>4 DEF UpdateForPacket, UpdateForSamples, Update
  <2>2. since' \in 0 .. Period /\ sent' \in BOOLEAN /\ fresh' \in BOOLEAN
    <3>1. sent' \in BOOLEAN /\ fresh' \in BOOLEAN
      BY <1>4 DEF UpdateForPacket, UpdateForSamples, Update, TypeOK
    <3>2. since' = since \/ since' = 0
      BY <1>4 DEF UpdateForPacket, UpdateForSamples
    <3>3. since \in 0 .. Period /\ Period \in Nat
      BY AirtimeAssumption DEF TypeOK
    <3> QED BY <3>1, <3>2, <3>3
  <2> QED BY <2>1, <2>2, UpdateTypes DEF TypeOK
<1> QED BY <1>1, <1>2, <1>3, <1>4 DEF Next

(* which hold at the start.                                                *)
LEMMA TypeInit == Init => TypeOK
<1> SUFFICES ASSUME Init PROVE TypeOK
  OBVIOUS
<1>1. 0 \in 0 .. Bins * BinLen - 1
  <2>1. Bins \in Nat /\ Bins >= 1 /\ BinLen \in Nat /\ BinLen >= 1
    BY AirtimeAssumption
  <2>2. Bins * BinLen >= 1 /\ Bins * BinLen \in Nat
    BY ONLY <2>1, Z3
  <2> QED BY <2>2
<1>2. 0 \in 0 .. Period /\ 0 \in 0 .. Width - 1 /\ 1 \in 1 .. 4
  BY AirtimeAssumption
<1>3. sent \in BOOLEAN /\ fresh \in BOOLEAN
  BY DEF Init
<1> QED BY <1>1, <1>2, <1>3 DEF Init, TypeOK

(* Whatever is sent, and however late the statistics are made: the bins    *)
(* keep within 16 bits, and the band of windows is one of the four.        *)
THEOREM TypesHold == Spec => []TypeOK
  BY TypeInit, TypeNext, PTL DEF Spec

-----------------------------------------------------------------------------
(* A bin holds what was sent in it, or more: what was left of an hour ago. *)
Over == \A b \in Bin \ {Nb} : truth[b] =< bins[b]
Behind == ~sent => /\ longterm_airtime = Total(bins)
                   /\ Recent =< airtime /\ LastHour =< longterm_airtime
Duty == Over /\ Behind

(* No bin reaches the width of its type.                                   *)
NoWrap == \A ms \in Cost : Add(ms) => bins[Cb] + ms < Width

(* The sums of what is in the bins and of what was sent.                   *)
LEMMA LastHourIs ==
    ASSUME TypeOK
    PROVE  /\ Total([truth EXCEPT ![Nb] = 0]) = LastHour
           /\ [truth EXCEPT ![Nb] = 0] \in [Bin -> Nat] /\ Recent \in Nat /\ LastHour \in Nat
<1>1. {Cb, Pb, Nb} \subseteq Bin
  BY ThreeBins DEF TypeOK, Hour
<1>2. truth \in [Bin -> Nat] /\ [truth EXCEPT ![Nb] = 0] \in [Bin -> Nat]
  BY <1>1 DEF TypeOK
<1>3. Total([truth EXCEPT ![Nb] = 0]) = Total(truth) - truth[Nb] + 0
  BY <1>1, <1>2, TotalExcept, ZenonT(60)
<1>4. Total([truth EXCEPT ![Nb] = 0]) \in Nat /\ Total(truth) \in Nat /\ truth[Nb] \in Nat
  BY <1>1, <1>2, TotalNat
<1>5. Recent \in Nat
  BY <1>1, <1>2 DEF Recent
<1> QED BY <1>2, <1>3, <1>4, <1>5 DEF LastHour

(* A tick, as the ring sees it.                                            *)
LEMMA TickIs ==
    ASSUME TypeOK, Tick
    PROVE  /\ UNCHANGED <<bins, airtime, longterm_airtime, sent>>
           /\ \/ /\ Offset + 1 < BinLen /\ Offset' = Offset + 1
                 /\ UNCHANGED truth /\ Cb' = Cb /\ Pb' = Pb /\ Nb' = Nb
              \/ /\ Offset + 1 = BinLen /\ Offset' = 0
                 /\ truth' = [truth EXCEPT ![Nb] = 0] /\ Cb' = Nb /\ Pb' = Cb /\ Nb' \in Bin
                 /\ Nb' # Nb /\ Nb' # Cb
<1>1. now \in 0 .. Hour - 1 /\ now' = (now + 1) % Hour
  BY DEF TypeOK, Hour, Tick
<1>2. /\ now' \in 0 .. Hour - 1
      /\ \/ Offset + 1 < BinLen /\ Cb' = Cb /\ Offset' = Offset + 1
         \/ Offset + 1 = BinLen /\ Cb' = Nb /\ Offset' = 0
  BY <1>1, Ticks
<1>3. truth' = IF Cb' = Cb THEN truth ELSE [truth EXCEPT ![Cb'] = 0]
  BY DEF Tick, Cb
<1>4. {Cb, Pb, Nb} \subseteq Bin /\ Cb # Nb /\ Nb = (IF Cb + 1 = Bins THEN 0 ELSE Cb + 1)
  BY <1>1, ThreeBins DEF Nb
<1>5. /\ Pb' = IF Cb' = 0 THEN Bins - 1 ELSE Cb' - 1
      /\ Nb' = IF Cb' + 1 = Bins THEN 0 ELSE Cb' + 1
  BY DEF Pb, Nb
<1>6. CASE Cb' = Cb
  <2>1. Pb' = Pb /\ Nb' = Nb
    BY <1>5, <1>6 DEF Pb, Nb
  <2> QED BY <1>2, <1>3, <1>4, <1>6, <2>1 DEF Tick
<1>7. CASE Cb' = Nb
  <2> DEFINE c == Cb
             n == Nb
  <2>1. /\ c \in 0 .. Bins - 1 /\ n = (IF c + 1 = Bins THEN 0 ELSE c + 1) /\ Bins \in Nat /\ Bins >= 3
        /\ Pb' = (IF n = 0 THEN Bins - 1 ELSE n - 1) /\ Nb' = IF n + 1 = Bins THEN 0 ELSE n + 1
    BY <1>4, <1>5, <1>7, AirtimeAssumption DEF Bin
  <2> HIDE DEF c, n
  <2>2. Pb' = c /\ Nb' \in 0 .. Bins - 1 /\ Nb' # n /\ Nb' # c
    BY <2>1
  <2>3. Pb' = Cb /\ Nb' \in Bin /\ Nb' # Nb /\ Nb' # Cb
    BY <2>2 DEF c, n, Bin
  <2> QED BY <1>2, <1>3, <1>4, <1>7, <2>3 DEF Tick
<1> QED BY <1>2, <1>6, <1>7

(* Where no bin wraps, every step keeps the bins from falling below the    *)
(* truth: a tick takes from the truth alone, a packet adds to both, and an *)
(* update clears the one bin that no longer counts.                        *)
LEMMA DutyNext == ASSUME TypeOK, TypeOK', Duty, NoWrap, [Next]_vars PROVE Duty'
<1>0. /\ {Cb, Pb, Nb} \subseteq Bin /\ Cb # Pb /\ Cb # Nb /\ Pb # Nb
      /\ truth \in [Bin -> Nat] /\ bins \in [Bin -> Nat] /\ airtime \in Nat /\ longterm_airtime \in Nat
  BY ThreeBins, AirtimeAssumption DEF TypeOK, Hour
<1>1. CASE UNCHANGED vars
  BY <1>1 DEF vars, Duty, Over, Behind, Recent, LastHour, Cb, Pb, Nb
<1>2. CASE Tick
  <2>1. CASE UNCHANGED truth /\ Cb' = Cb /\ Pb' = Pb /\ Nb' = Nb
    BY <1>2, <2>1, TickIs DEF Duty, Over, Behind, Recent, LastHour
  <2>2. CASE /\ truth' = [truth EXCEPT ![Nb] = 0] /\ Cb' = Nb /\ Pb' = Cb /\ Nb' \in Bin
             /\ Nb' # Nb /\ Nb' # Cb
    <3>1. UNCHANGED <<bins, airtime, longterm_airtime, sent>>
      BY <1>2, TickIs
    <3>2. Over'
      <4> SUFFICES ASSUME NEW b \in Bin, b # Nb' PROVE truth'[b] =< bins'[b]
        BY DEF Over
      <4>1. CASE b = Nb
        <5>1. truth'[b] = 0 /\ bins'[b] \in Nat
          BY <1>0, <2>2, <3>1, <4>1
        <5> QED BY <5>1
      <4>2. CASE b # Nb
        BY <1>0, <2>2, <3>1, <4>2 DEF Duty, Over
      <4> QED BY <4>1, <4>2
    <3>3. Recent' =< Recent
      <4>1. truth'[Nb] = 0 /\ truth'[Cb] = truth[Cb] /\ truth[Cb] \in Nat /\ truth[Pb] \in Nat
        BY <1>0, <2>2
      <4>2. Recent' = truth'[Nb] + truth'[Cb] /\ Recent = truth[Cb] + truth[Pb]
        BY <2>2 DEF Recent
      <4> QED BY <4>1, <4>2
    <3>4. LastHour' =< LastHour
      <4>1. LastHour' = Total(truth') - truth'[Nb'] /\ Total(truth') = LastHour /\ LastHour \in Nat
        BY <2>2, LastHourIs DEF LastHour
      <4>2. truth'[Nb'] \in Nat
        BY <1>0, <2>2
      <4> QED BY <4>1, <4>2
    <3>5. Recent \in Nat /\ LastHour \in Nat /\ Recent' \in Nat /\ LastHour' \in Nat
      <4>1. LastHour' \in Nat
        <5>1. LastHour' = Total(truth') - truth'[Nb'] /\ truth' \in [Bin -> Nat]
          BY <1>0, <2>2 DEF LastHour
        <5>2. truth'[Nb'] =< Total(truth') /\ Total(truth') \in Nat /\ truth'[Nb'] \in Nat
          BY <2>2, <5>1, TotalPart, TotalNat
        <5> QED BY <5>1, <5>2
      <4>2. Recent' \in Nat
        BY <1>0, <2>2 DEF Recent
      <4> QED BY <4>1, <4>2, LastHourIs
    <3>6. Behind'
      BY <1>0, <3>1, <3>3, <3>4, <3>5 DEF Duty, Behind
    <3> QED BY <3>2, <3>6 DEF Duty
  <2> QED BY <1>2, <2>1, <2>2, TickIs
<1>3. ASSUME NEW ms \in Cost, Add(ms) PROVE Duty'
  <2>1. bins[Cb] + ms < Width /\ ms \in Nat /\ bins[Cb] \in Nat
    BY <1>0, <1>3, AirtimeAssumption DEF NoWrap
  <2>2. (bins[Cb] + ms) % Width = bins[Cb] + ms
    <3>1. bins[Cb] + ms \in Nat /\ Width \in Nat \ {0}
      BY <2>1, AirtimeAssumption
    <3> QED BY <2>1, <3>1
  <2>3. /\ bins' = [bins EXCEPT ![Cb] = bins[Cb] + ms, ![Nb] = 0]
        /\ truth' = [truth EXCEPT ![Cb] = truth[Cb] + ms] /\ sent' = TRUE /\ Nb' = Nb
    BY <1>3, <2>2 DEF Add, Nb, Cb
  <2>4. Over'
    <3> SUFFICES ASSUME NEW b \in Bin \ {Nb} PROVE truth'[b] =< bins'[b]
      BY <2>3 DEF Over
    <3>1. truth[b] =< bins[b] /\ truth[b] \in Nat /\ bins[b] \in Nat
      BY <1>0 DEF Duty, Over
    <3>2. CASE b = Cb
      <4>1. truth'[b] = truth[b] + ms /\ bins'[b] = bins[b] + ms
        BY <1>0, <2>3, <3>2
      <4> QED BY <2>1, <3>1, <4>1
    <3>3. CASE b # Cb
      BY <1>0, <2>3, <3>1, <3>3
    <3> QED BY <3>2, <3>3
  <2> QED BY <2>3, <2>4 DEF Duty, Behind
<1>4. CASE UpdateForPacket \/ UpdateForSamples
  <2>1. Update /\ UNCHANGED <<now, truth>> /\ Cb' = Cb /\ Pb' = Pb /\ Nb' = Nb
    BY <1>4 DEF UpdateForPacket, UpdateForSamples, Update, Cb, Pb, Nb
  <2>2. /\ bins' = [bins EXCEPT ![Nb] = 0] /\ bins' \in [Bin -> Nat]
        /\ airtime' = bins'[Cb] + bins'[Pb] /\ longterm_airtime' = Total(bins')
    BY <1>0, <2>1, UpdateTypes
  <2>3. Over'
    BY <1>0, <2>1, <2>2 DEF Duty, Over
  <2>4. Recent' =< airtime'
    <3>1. /\ truth[Cb] =< bins'[Cb] /\ truth[Pb] =< bins'[Pb]
          /\ truth[Cb] \in Nat /\ truth[Pb] \in Nat /\ bins'[Cb] \in Nat /\ bins'[Pb] \in Nat
      BY <1>0, <2>2 DEF Duty, Over
    <3>2. Recent' = truth[Cb] + truth[Pb]
      BY <2>1 DEF Recent
    <3> QED BY <2>2, <3>1, <3>2
  <2>5. LastHour' =< longterm_airtime'
    <3> DEFINE kept == [truth EXCEPT ![Nb] = 0]
    <3>1. kept \in [Bin -> Nat] /\ Total(kept) = LastHour
      BY LastHourIs
    <3>2. \A b \in Bin : kept[b] =< bins'[b]
      BY <1>0, <2>2 DEF Duty, Over
    <3>3. Total(kept) =< Total(bins')
      <4> HIDE DEF kept
      <4> QED BY <2>2, <3>1, <3>2, TotalOrder
    <3>4. LastHour' = LastHour
      BY <2>1 DEF LastHour
    <3> QED BY <2>2, <3>1, <3>3, <3>4
  <2> QED BY <2>2, <2>3, <2>4, <2>5 DEF Duty, Behind
<1> QED BY <1>1, <1>2, <1>3, <1>4 DEF Next

-----------------------------------------------------------------------------
(* With a long-term limit that, together with any packet, fits a bin, the  *)
(* lock itself keeps the bins from wrapping.                               *)
Capped == LongLimit # 0 /\ \A c \in Cost : LongLimit + c =< Width

(* The bin is no more than their sum, which the lock has just found below  *)
(* the limit.                                                              *)
LEMMA CappedFits == ASSUME TypeOK, Behind, Capped PROVE NoWrap
<1> SUFFICES ASSUME NEW ms \in Cost, Add(ms) PROVE bins[Cb] + ms < Width
  BY DEF NoWrap
<1>1. /\ Cb \in Bin /\ bins \in [Bin -> Nat] /\ ms \in Nat
      /\ longterm_airtime \in Nat /\ LongLimit \in Nat /\ Width \in Nat
  BY ThreeBins, AirtimeAssumption DEF TypeOK, Hour
<1>2. longterm_airtime < LongLimit /\ longterm_airtime = Total(bins)
  BY <1>1 DEF Add, Locked, Capped, Behind
<1>3. bins[Cb] =< Total(bins) /\ bins[Cb] \in Nat
  BY <1>1, TotalPart
<1>4. LongLimit + ms =< Width
  BY DEF Capped
<1> QED BY <1>1, <1>2, <1>3, <1>4

(* With updates often enough, each bin is cleared before it is used: the   *)
(* samples of an update, and a packet on top of them, take no longer than  *)
(* a bin, and a bin and a packet fit the width.                            *)
Regular == Period =< BinLen /\ \A c \in Cost : c + Period =< BinLen /\ BinLen + c =< Width

(* How long until the samples of the next update are there, at most.       *)
Due == left + (Period - since)

(* The bins hold what was sent, and the next one is clear, or there will   *)
(* be an update before the current one ends.                               *)
Exact == \A b \in Bin \ {Nb} : bins[b] = truth[b]
Cleared == bins[Nb] = 0 \/ Offset + Due < BinLen
OnTime == Due =< BinLen /\ truth[Cb] =< Offset + left
Reg == Exact /\ Cleared /\ OnTime /\ AirtimeExact

(* Then a bin holds no more than what it has lasted, and cannot wrap.      *)
LEMMA RegularFits == ASSUME TypeOK, Reg, Regular PROVE NoWrap
<1> SUFFICES ASSUME NEW ms \in Cost, Add(ms) PROVE bins[Cb] + ms < Width
  BY DEF NoWrap
<1>1. /\ Cb \in Bin /\ Cb # Nb /\ Offset \in 0 .. BinLen - 1 /\ bins \in [Bin -> Nat]
      /\ ms \in Nat /\ BinLen \in Nat /\ Width \in Nat
  BY ThreeBins, AirtimeAssumption DEF TypeOK, Hour
<1>2. left = 0 /\ bins[Cb] = truth[Cb] /\ truth[Cb] =< Offset + left /\ bins[Cb] \in Nat
  BY <1>1 DEF Add, Reg, Exact, OnTime
<1>3. BinLen + ms =< Width
  BY DEF Regular
<1> QED BY <1>1, <1>2, <1>3

(* A tick brings the next update nearer by one.                            *)
LEMMA DueTick ==
    ASSUME TypeOK, Tick
    PROVE  /\ Due' = Due - 1 /\ Due \in Nat /\ Due >= 1 /\ left \in Nat
           /\ left' = IF left = 0 THEN 0 ELSE left - 1
<1>1. /\ left \in Nat /\ since \in 0 .. Period /\ Period \in Nat
      /\ left' = (IF left = 0 THEN 0 ELSE left - 1)
      /\ since' = (IF left = 0 THEN since + 1 ELSE since) /\ (left = 0 => since < Period)
  BY LeftIs, AirtimeAssumption DEF TypeOK, Tick
<1> QED BY <1>1 DEF Due

(* A bin that begins has been cleared in time,                             *)
LEMMA RegTick == ASSUME TypeOK, Reg, Regular, Tick PROVE Reg'
<1>0. /\ {Cb, Pb, Nb} \subseteq Bin /\ Cb # Nb /\ truth \in [Bin -> Nat] /\ bins \in [Bin -> Nat]
      /\ Offset \in 0 .. BinLen - 1 /\ BinLen \in Nat
  BY ThreeBins, AirtimeAssumption DEF TypeOK, Hour
<1>1. bins' = bins /\ ~fresh'
  BY DEF Tick
<1>2. /\ Due' = Due - 1 /\ Due \in Nat /\ Due >= 1 /\ left \in Nat
      /\ left' = IF left = 0 THEN 0 ELSE left - 1
  BY DueTick
<1>3. Due =< BinLen /\ truth[Cb] =< Offset + left /\ truth[Cb] \in Nat
  BY <1>0 DEF Reg, OnTime
<1>4. CASE Offset + 1 < BinLen /\ Offset' = Offset + 1 /\ truth' = truth /\ Cb' = Cb /\ Nb' = Nb
  <2>1. Exact'
    BY <1>1, <1>4 DEF Reg, Exact
  <2>2. Cleared'
    BY <1>0, <1>1, <1>2, <1>4 DEF Reg, Cleared
  <2>3. OnTime'
    BY <1>0, <1>2, <1>3, <1>4 DEF OnTime
  <2> QED BY <1>1, <2>1, <2>2, <2>3 DEF Reg, AirtimeExact
<1>5. CASE /\ Offset + 1 = BinLen /\ Offset' = 0 /\ truth' = [truth EXCEPT ![Nb] = 0]
           /\ Cb' = Nb /\ Nb' \in Bin /\ Nb' # Nb
  <2>1. bins[Nb] = 0
    BY <1>0, <1>2, <1>5 DEF Reg, Cleared
  <2>2. Exact'
    <3> SUFFICES ASSUME NEW b \in Bin, b # Nb' PROVE bins'[b] = truth'[b]
      BY DEF Exact
    <3>1. CASE b = Nb
      BY <1>0, <1>1, <1>5, <2>1, <3>1
    <3>2. CASE b # Nb
      BY <1>0, <1>1, <1>5, <3>2 DEF Reg, Exact
    <3> QED BY <3>1, <3>2
  <2>3. Cleared'
    BY <1>0, <1>2, <1>3, <1>5 DEF Cleared
  <2>4. OnTime'
    <3>1. truth'[Cb'] = 0
      BY <1>0, <1>5
    <3> QED BY <1>0, <1>2, <1>3, <1>5, <3>1 DEF OnTime
  <2> QED BY <1>1, <2>2, <2>3, <2>4 DEF Reg, AirtimeExact
<1> QED BY <1>4, <1>5, TickIs

(* a packet goes into a bin that can take it,                              *)
LEMMA RegAdd == ASSUME TypeOK, Reg, Regular, NEW ms \in Cost, Add(ms) PROVE Reg'
<1>0. /\ {Cb, Pb, Nb} \subseteq Bin /\ Cb # Nb /\ truth \in [Bin -> Nat] /\ bins \in [Bin -> Nat]
      /\ Offset \in 0 .. BinLen - 1 /\ BinLen \in Nat /\ ms \in Nat /\ Width \in Nat \ {0}
      /\ since \in 0 .. Period /\ Period \in Nat
  BY ThreeBins, AirtimeAssumption DEF TypeOK, Hour
<1>1. bins[Cb] + ms < Width
  BY RegularFits DEF NoWrap
<1>2. (bins[Cb] + ms) % Width = bins[Cb] + ms
  <2>1. bins[Cb] + ms \in Nat
    BY <1>0
  <2> QED BY <1>0, <1>1, <2>1
<1>3. /\ bins' = [bins EXCEPT ![Cb] = bins[Cb] + ms, ![Nb] = 0] /\ left = 0 /\ left' = ms
      /\ truth' = [truth EXCEPT ![Cb] = truth[Cb] + ms] /\ since' = since
      /\ Nb' = Nb /\ Cb' = Cb /\ Offset' = Offset /\ ~fresh'
  BY <1>2 DEF Add, Nb, Cb, Offset
<1>4. truth'[Cb] = truth[Cb] + ms /\ bins'[Nb] = 0 /\ truth[Cb] \in Nat
  BY <1>0, <1>3
<1>5. Exact'
  <2> SUFFICES ASSUME NEW b \in Bin \ {Nb} PROVE bins'[b] = truth'[b]
    BY <1>3 DEF Exact
  <2>1. bins[b] = truth[b]
    BY DEF Reg, Exact
  <2>2. CASE b = Cb
    BY <1>0, <1>3, <2>1, <2>2
  <2>3. CASE b # Cb
    BY <1>0, <1>3, <2>1, <2>3
  <2> QED BY <2>2, <2>3
<1>6. Cleared'
  BY <1>3, <1>4 DEF Cleared
<1>7. OnTime'
  <2>1. ms + Period =< BinLen
    BY DEF Regular
  <2>2. truth[Cb] =< Offset + left
    BY DEF Reg, OnTime
  <2> QED BY <1>0, <1>3, <1>4, <2>1, <2>2 DEF OnTime, Due
<1> QED BY <1>3, <1>5, <1>6, <1>7 DEF Reg, AirtimeExact

(* an update counts what was sent,                                         *)
LEMMA RegUpdate == ASSUME TypeOK, Reg, Regular, UpdateForPacket \/ UpdateForSamples PROVE Reg'
<1>0. /\ {Cb, Pb, Nb} \subseteq Bin /\ Cb # Nb /\ Pb # Nb
      /\ truth \in [Bin -> Nat] /\ bins \in [Bin -> Nat]
      /\ since \in 0 .. Period /\ Period \in Nat /\ BinLen \in Nat /\ left \in Nat
  BY ThreeBins, AirtimeAssumption DEF TypeOK, Hour
<1>1. /\ Update /\ UNCHANGED <<now, left, truth>>
      /\ Cb' = Cb /\ Pb' = Pb /\ Nb' = Nb /\ Offset' = Offset
  BY DEF UpdateForPacket, UpdateForSamples, Update, Cb, Pb, Nb, Offset
<1>2. /\ bins' = [bins EXCEPT ![Nb] = 0] /\ airtime' = bins'[Cb] + bins'[Pb]
      /\ longterm_airtime' = Total(bins')
  BY <1>1, UpdateTypes
<1>3. bins' = [truth EXCEPT ![Nb] = 0]
  BY <1>0, <1>2 DEF Reg, Exact
<1>4. Exact'
  BY <1>0, <1>1, <1>3 DEF Exact
<1>5. Cleared'
  BY <1>0, <1>1, <1>2 DEF Cleared
<1>6. OnTime'
  <2>1. truth'[Cb'] =< Offset' + left'
    BY <1>1 DEF Reg, OnTime
  <2>2. since' = since \/ (since' = 0 /\ left = 0)
    BY DEF UpdateForPacket, UpdateForSamples
  <2>3. Due =< BinLen /\ Period =< BinLen /\ left' = left
    BY <1>1 DEF Reg, OnTime, Regular
  <2>4. Due' =< BinLen
    BY <1>0, <2>2, <2>3 DEF Due
  <2> QED BY <2>1, <2>4 DEF OnTime
<1>7. AirtimeExact'
  <2>1. longterm_airtime' = LastHour /\ LastHour' = LastHour /\ Recent' = Recent
    BY <1>1, <1>2, <1>3, LastHourIs DEF LastHour, Recent
  <2>2. airtime' = Recent
    BY <1>0, <1>2, <1>3 DEF Recent
  <2> QED BY <2>1, <2>2 DEF AirtimeExact
<1> QED BY <1>4, <1>5, <1>6, <1>7 DEF Reg

(* and so every step keeps the statistics regular.                         *)
LEMMA RegNext == ASSUME TypeOK, Reg, Regular, [Next]_vars PROVE Reg'
<1>1. CASE UNCHANGED vars
  BY <1>1 DEF vars, Reg, Exact, Cleared, OnTime, AirtimeExact, Due, Offset, Recent, LastHour, Cb,
              Pb, Nb
<1>2. CASE Tick
  BY <1>2, RegTick
<1>3. ASSUME NEW ms \in Cost, Add(ms) PROVE Reg'
  BY <1>3, RegAdd
<1>4. CASE UpdateForPacket \/ UpdateForSamples
  BY <1>4, RegUpdate
<1> QED BY <1>1, <1>2, <1>3, <1>4 DEF Next

(* The empty ring is up to date, and nothing was sent yet.                 *)
LEMMA RingInit == ASSUME Init PROVE Duty /\ (Regular => Reg)
<1>1. TypeOK /\ {Cb, Pb, Nb} \subseteq Bin
  BY TypeInit, ThreeBins DEF TypeOK, Hour
<1>2. \A b \in Bin : bins[b] = 0 /\ truth[b] = 0
  BY DEF Init
<1>3. bins = truth /\ truth \in [Bin -> Nat]
  BY <1>1 DEF Init, TypeOK
<1>4. Total(truth) = 0
  <2> DEFINE F == {u \in SUBSET Bin : Sums(truth)[u] # 0}
  <2>1. ASSUME NEW u \in F, \A x \in u : u \ {x} \notin F PROVE FALSE
    <3>1. u # {} /\ u \in SUBSET Bin
      BY SumsIs
    <3>2. /\ Pick(u) \in u /\ u \ {Pick(u)} \in SUBSET Bin
          /\ Sums(truth)[u] = truth[Pick(u)] + Sums(truth)[u \ {Pick(u)}]
      BY <3>1, SumsIs
    <3>3. Sums(truth)[u \ {Pick(u)}] = 0 /\ truth[Pick(u)] = 0
      BY <1>2, <2>1, <3>1, <3>2
    <3> QED BY <2>1, <3>2, <3>3
  <2>2. F \in SUBSET (SUBSET Bin) /\ (F = {} => Sums(truth)[Bin] = 0)
    OBVIOUS
  <2> HIDE DEF F
  <2> QED BY <2>1, <2>2, LeastSet, TotalSums
<1>5. Recent = 0 /\ LastHour = 0
  BY <1>1, <1>2, <1>4 DEF Recent, LastHour
<1>6. Duty
  <2>1. Over
    BY <1>2 DEF Over
  <2>2. Behind
    BY <1>3, <1>4, <1>5 DEF Behind, Init
  <2> QED BY <2>1, <2>2 DEF Duty
<1>7. ASSUME Regular PROVE Reg
  <2>1. Exact /\ Cleared
    BY <1>1, <1>2 DEF Exact, Cleared
  <2>2. Period =< BinLen /\ left = 0 /\ since = 0 /\ ~fresh /\ Period \in Nat
    BY <1>7, AirtimeAssumption DEF Init, Regular
  <2>3. Offset \in Nat
    BY <1>1, ThreeBins, AirtimeAssumption DEF TypeOK, Hour
  <2>4. OnTime
    BY <1>1, <1>2, <2>2, <2>3 DEF OnTime, Due
  <2> QED BY <2>1, <2>2, <2>4 DEF Reg, AirtimeExact
<1> QED BY <1>6, <1>7

(* A packet goes out under a lock whose sums are no less than the truth.   *)
LEMMA DutyStep ==
    ASSUME TypeOK, Duty, [Next]_vars
    PROVE  [~sent /\ sent' => /\ Limit # 0 => Recent < Limit
                              /\ LongLimit # 0 => LastHour < LongLimit]_vars
<1> SUFFICES ASSUME ~sent, sent'
             PROVE  (Limit # 0 => Recent < Limit) /\ (LongLimit # 0 => LastHour < LongLimit)
  OBVIOUS
<1>1. PICK ms \in Cost : Add(ms)
  BY DEF Next, Tick, UpdateForPacket, UpdateForSamples, vars
<1>2. /\ airtime \in Nat /\ longterm_airtime \in Nat /\ Limit \in Nat /\ LongLimit \in Nat
      /\ Recent \in Nat /\ LastHour \in Nat
  BY LastHourIs, AirtimeAssumption DEF TypeOK
<1>3. /\ Limit # 0 => airtime < Limit
      /\ LongLimit # 0 => longterm_airtime < LongLimit
  BY <1>1, <1>2 DEF Add, Locked
<1>4. Recent =< airtime /\ LastHour =< longterm_airtime
  BY DEF Duty, Behind
<1> QED BY <1>2, <1>3, <1>4

(* However late the statistics are made, no packet is sent while what was  *)
(* really sent lately, or in the last hour, is at its limit: what the lock *)
(* looks at may count an hour-old bin again, but never leaves a packet     *)
(* out.  It takes that no bin wraps, which either of the two ensures.      *)
THEOREM DutyCycleHolds == ASSUME Capped \/ Regular PROVE Spec => DutyCycle
<1> DEFINE Inv == TypeOK /\ Duty /\ (Regular => Reg)
<1>1. Init => Inv
  BY TypeInit, RingInit
<1>2. Inv /\ [Next]_vars => Inv'
  <2> SUFFICES ASSUME Inv, [Next]_vars PROVE Inv'
    OBVIOUS
  <2>1. TypeOK'
    BY TypeNext
  <2>2. NoWrap
    BY CappedFits, RegularFits DEF Duty
  <2> QED BY <2>1, <2>2, DutyNext, RegNext
<1>3. Inv /\ [Next]_vars =>
          [~sent /\ sent' => /\ Limit # 0 => Recent < Limit
                             /\ LongLimit # 0 => LastHour < LongLimit]_vars
  BY DutyStep
<1> HIDE DEF Inv
<1> QED BY <1>1, <1>2, <1>3, PTL DEF Spec, DutyCycle

(* Where the updates are regular, what the statistics say when they are    *)
(* made is what was sent: no bin an hour old is counted again.             *)
THEOREM AirtimeExactHolds == ASSUME Regular PROVE Spec => []AirtimeExact
<1> DEFINE Inv == TypeOK /\ Reg
<1>1. Init => Inv
  BY TypeInit, RingInit
<1>2. Inv /\ [Next]_vars => Inv'
  BY TypeNext, RegNext
<1>3. Inv => AirtimeExact
  BY DEF Reg
<1> HIDE DEF Inv
<1> QED BY <1>1, <1>2, <1>3, PTL DEF Spec
=============================================================================
