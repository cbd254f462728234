---------------------------- MODULE SeqNumProofs ----------------------------
(***************************************************************************)
(* Lemmas about circular sequence numbers, for every SeqSpace and          *)
(* MAX_WINDOW_SIZE that satisfy SeqNumAssumption.                          *)
(***************************************************************************)
EXTENDS SeqNum, WellFoundedInduction, TLAPS

(* A nonempty set of naturals has a least element: the only induction that *)
(* the proofs of this project use.                                         *)
LEMMA LeastElement ==
  ASSUME NEW T, T \subseteq Nat, T # {}
  PROVE  \E x \in T : \A y \in T : x <= y
<1>1. PICK x \in T : \A y \in T : <<y, x>> \notin OpToRel(<, Nat)
  BY NatLessThanWellFounded, WFMin, Zenon
<1>2. ASSUME NEW y \in T
      PROVE  x <= y
  <2>1. <<y, x>> \notin OpToRel(<, Nat)
    BY <1>1
  <2>2. ~(y < x)
    BY <2>1 DEF OpToRel
  <2> QED
    BY <2>2
<1> QED
  BY <1>2

(* Where a property that fails somewhere in 0 .. n - 1 fails first. *)
LEMMA LeastIndex ==
  ASSUME NEW n \in Nat, NEW T
  PROVE  \E k \in 0 .. n : /\ \A i \in 0 .. k - 1 : i \in T
                           /\ k = n \/ k \notin T
<1> DEFINE Out == {k \in 0 .. n : k = n \/ k \notin T}
<1>1. Out \subseteq Nat /\ Out # {}
  OBVIOUS
<1>2. PICK k \in Out : \A y \in Out : k <= y
  BY <1>1, LeastElement
<1> QED
  BY <1>2

LEMMA WrapType ==
  ASSUME NEW n \in Nat
  PROVE  Wrap(n) \in SeqNums
BY SeqNumAssumption DEF Wrap, SeqNums

LEMMA WrapSmall ==
  ASSUME NEW n \in SeqNums
  PROVE  Wrap(n) = n
BY SeqNumAssumption DEF Wrap, SeqNums

LEMMA WrapMultiple ==
  ASSUME NEW q \in Int, NEW r \in SeqNums
  PROVE  (SeqSpace * q + r) % SeqSpace = r
BY SeqNumAssumption DEF SeqNums

(* Moving d places forward from n. *)
LEMMA WrapAdd ==
  ASSUME NEW n \in Nat, NEW d \in 0 .. SeqSpace - 1
  PROVE  Wrap(n + d) = IF Wrap(n) + d < SeqSpace THEN Wrap(n) + d
                       ELSE Wrap(n) + d - SeqSpace
<1>1. PICK q \in Nat, r \in SeqNums : n = SeqSpace * q + r
  <2>1. n \div SeqSpace \in Nat /\ n % SeqSpace \in SeqNums
    BY SeqNumAssumption DEF SeqNums
  <2>2. n = SeqSpace * (n \div SeqSpace) + (n % SeqSpace)
    BY SeqNumAssumption
  <2> QED
    BY <2>1, <2>2
<1>2. Wrap(n) = r
  BY <1>1, WrapMultiple DEF Wrap
<1>3. CASE r + d < SeqSpace
  <2>1. r + d \in SeqNums
    BY <1>3, SeqNumAssumption DEF SeqNums
  <2>2. (SeqSpace * q + (r + d)) % SeqSpace = r + d
    BY <2>1, WrapMultiple
  <2>3. n + d = SeqSpace * q + (r + d)
    BY <1>1, SeqNumAssumption DEF SeqNums
  <2> QED
    BY <2>2, <2>3, <1>2, <1>3 DEF Wrap
<1>4. CASE ~(r + d < SeqSpace)
  <2>1. r + d - SeqSpace \in SeqNums
    BY <1>4, SeqNumAssumption DEF SeqNums
  <2>2. (SeqSpace * (q + 1) + (r + d - SeqSpace)) % SeqSpace = r + d - SeqSpace
    BY <2>1, WrapMultiple
  <2>3. n + d = SeqSpace * (q + 1) + (r + d - SeqSpace)
    BY <1>1, SeqNumAssumption DEF SeqNums
  <2> QED
    BY <2>2, <2>3, <1>2, <1>4 DEF Wrap
<1> QED
  BY <1>3, <1>4

(* Congruences: equal residues stay equal d places further. *)
LEMMA WrapCongruent ==
  ASSUME NEW a \in Nat, NEW b \in Nat, NEW d \in 0 .. SeqSpace - 1,
         Wrap(a) = Wrap(b)
  PROVE  Wrap(a + d) = Wrap(b + d)
BY WrapAdd

LEMMA WrapWrap ==
  ASSUME NEW a \in Nat, NEW d \in 0 .. SeqSpace - 1
  PROVE  Wrap(Wrap(a) + d) = Wrap(a + d)
<1>1. Wrap(a) \in SeqNums
  BY WrapType
<1>2. Wrap(a) \in Nat /\ Wrap(Wrap(a)) = Wrap(a)
  BY <1>1, WrapSmall, SeqNumAssumption DEF SeqNums
<1> QED
  BY <1>2, WrapCongruent

-----------------------------------------------------------------------------
(* Distance from the number that follows last to s, going forward. *)
Dist(last, s) == compare_seqnums(last, s, (last + 1) % SeqSpace)

LEMMA DistValue ==
  ASSUME NEW last \in SeqNums, NEW s \in SeqNums
  PROVE  /\ Dist(last, s) = IF s <= last THEN s + SeqSpace - last - 1
                            ELSE s - last - 1
         /\ Dist(last, s) \in 0 .. SeqSpace - 1
<1>1. CASE last = SeqSpace - 1
  <2>1. (last + 1) % SeqSpace = 0
    BY <1>1, SeqNumAssumption
  <2> QED
    BY <1>1, <2>1, SeqNumAssumption DEF Dist, compare_seqnums, SeqNums
<1>2. CASE last < SeqSpace - 1
  <2>1. (last + 1) % SeqSpace = last + 1
    BY <1>2, SeqNumAssumption DEF SeqNums
  <2> QED
    BY <1>2, <2>1, SeqNumAssumption DEF Dist, compare_seqnums, SeqNums
<1> QED
  BY <1>1, <1>2, SeqNumAssumption DEF SeqNums

(* compare_seqnums orders numbers by their distance. *)
LEMMA CompareIsDist ==
  ASSUME NEW last \in SeqNums, NEW s \in SeqNums, NEW t \in SeqNums
  PROVE  compare_seqnums(last, s, t) = Dist(last, s) - Dist(last, t)
<1>1. Dist(last, s) = IF s <= last THEN s + SeqSpace - last - 1 ELSE s - last - 1
  BY DistValue
<1>2. Dist(last, t) = IF t <= last THEN t + SeqSpace - last - 1 ELSE t - last - 1
  BY DistValue
<1> QED
  BY <1>1, <1>2, SeqNumAssumption DEF compare_seqnums, SeqNums

LEMMA DistInjective ==
  ASSUME NEW last \in SeqNums, NEW s \in SeqNums, NEW t \in SeqNums,
         Dist(last, s) = Dist(last, t)
  PROVE  s = t
<1>1. Dist(last, s) = IF s <= last THEN s + SeqSpace - last - 1 ELSE s - last - 1
  BY DistValue
<1>2. Dist(last, t) = IF t <= last THEN t + SeqSpace - last - 1 ELSE t - last - 1
  BY DistValue
<1>3. \A n \in Nat : \A l, a, b \in 0 .. n - 1 :
        (IF a <= l THEN a + n - l - 1 ELSE a - l - 1)
          = (IF b <= l THEN b + n - l - 1 ELSE b - l - 1) => a = b
  OBVIOUS
<1> QED
  BY <1>1, <1>2, <1>3, SeqNumAssumption DEF SeqNums

(* Reduction of a sum of two numbers below SeqSpace. *)
LEMMA WrapSum ==
  ASSUME NEW a \in SeqNums, NEW k \in 0 .. SeqSpace
  PROVE  /\ Wrap(a + k) = IF a + k < SeqSpace THEN a + k ELSE a + k - SeqSpace
         /\ Wrap(a + k) \in SeqNums
<1>1. a + k \in Nat /\ a + k < 2 * SeqSpace
  BY SeqNumAssumption DEF SeqNums
<1>2. CASE a + k < SeqSpace
  <2>1. a + k \in SeqNums
    BY <1>1, <1>2, SeqNumAssumption DEF SeqNums
  <2> QED
    BY <2>1, <1>2, WrapSmall
<1>3. CASE ~(a + k < SeqSpace)
  <2>1. SeqSpace <= a + k
    BY <1>1, <1>3, SeqNumAssumption
  <2>2. Wrap(a + k) = a + k - SeqSpace
    BY <2>1, <1>1, SeqNumAssumption DEF Wrap, SeqNums
  <2> QED
    BY <2>2, <2>1, <1>1, <1>3, SeqNumAssumption DEF SeqNums
<1> QED
  BY <1>2, <1>3

(* The number k places after the expected one is at distance k. *)
LEMMA DistAt ==
  ASSUME NEW last \in SeqNums, NEW k \in 0 .. SeqSpace - 1
  PROVE  Dist(last, Wrap(last + 1 + k)) = k
<1> DEFINE s == Wrap(last + (k + 1))
<1>1. k + 1 \in 0 .. SeqSpace /\ last + 1 + k = last + (k + 1)
  BY SeqNumAssumption DEF SeqNums
<1>2. /\ s = IF last + (k + 1) < SeqSpace THEN last + (k + 1)
             ELSE last + (k + 1) - SeqSpace
      /\ s \in SeqNums
  BY <1>1, WrapSum
<1> HIDE DEF s
<1>3. Dist(last, s) = IF s <= last THEN s + SeqSpace - last - 1 ELSE s - last - 1
  BY <1>2, DistValue
<1>4. Dist(last, s) = k
  BY <1>2, <1>3, SeqNumAssumption DEF SeqNums
<1> QED
  BY <1>1, <1>4 DEF s

(* When last moves k places forward, numbers at k or more come k closer. *)
LEMMA DistMove ==
  ASSUME NEW last \in SeqNums, NEW s \in SeqNums,
         NEW k \in 0 .. SeqSpace - 1, k <= Dist(last, s)
  PROVE  Dist(Wrap(last + k), s) = Dist(last, s) - k
<1> DEFINE new == Wrap(last + k)
<1>1. /\ new = IF last + k < SeqSpace THEN last + k ELSE last + k - SeqSpace
      /\ new \in SeqNums
  BY WrapSum, SeqNumAssumption
<1> HIDE DEF new
<1>2. Dist(last, s) = IF s <= last THEN s + SeqSpace - last - 1 ELSE s - last - 1
  BY DistValue
<1>3. Dist(new, s) = IF s <= new THEN s + SeqSpace - new - 1 ELSE s - new - 1
  BY <1>1, DistValue
<1>4. Dist(new, s) = Dist(last, s) - k
  BY <1>1, <1>2, <1>3, SeqNumAssumption DEF SeqNums
<1> QED
  BY <1>4 DEF new
=============================================================================
