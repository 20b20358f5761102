------------------------------ MODULE Induction -------------------------------
(***************************************************************************)
(* Induction over the naturals for sets in place of predicates, so that a  *)
(* recursive function of a model can be reasoned about: to show P(n) for   *)
(* every n, show that {n \in Nat : P(n)} is all of Nat.                    *)
(***************************************************************************)
EXTENDS Integers, WellFoundedInduction, TLAPS

\* Every nonempty set of naturals has a least element.
LEMMA LeastNatural ==
  ASSUME NEW T \in SUBSET Nat, T # {}
  PROVE  \E x \in T : \A y \in T : x <= y
<1> DEFINE Less == OpToRel(<, Nat)
<1>1. \A x, y \in Nat : x < y => <<x, y>> \in Less
  BY DEF OpToRel
<1>2. IsWellFoundedOn(Less, Nat)
  BY NatLessThanWellFounded
<1> HIDE DEF Less
<1>3. PICK x \in T : \A y \in T : ~(<<y, x>> \in Less)
  BY <1>2, WFMin
<1>4. ASSUME NEW y \in T PROVE x <= y
  <2>1. x \in Nat /\ y \in Nat
    OBVIOUS
  <2>2. ~(y < x)
    BY <1>1, <1>3, <2>1
  <2>3. QED
    BY <2>1, <2>2
<1>5. QED
  BY <1>4

\* A set with 0 and with the successor of each of its naturals has them all.
LEMMA NatSetInduction ==
  ASSUME NEW S, 0 \in S, \A n \in Nat : n \in S => n + 1 \in S
  PROVE  Nat \subseteq S
<1>1. SUFFICES ASSUME Nat \ S # {} PROVE FALSE
  OBVIOUS
<1>2. PICK x \in Nat \ S : \A y \in Nat \ S : x <= y
  <2>1. Nat \ S \in SUBSET Nat
    OBVIOUS
  <2>2. QED
    BY <1>1, <2>1, LeastNatural
<1>3. x # 0 /\ x - 1 \in Nat /\ ~(x <= x - 1)
  BY <1>2
<1>4. x - 1 \in S
  BY <1>2, <1>3
<1>5. (x - 1) + 1 \in S
  BY <1>3, <1>4
<1>6. QED
  BY <1>2, <1>5

\* The same over an interval that starts at a.
LEMMA IntervalInduction ==
  ASSUME NEW a \in Nat, NEW n \in Nat, NEW S,
         a <= n => a \in S,
         \A k \in a..n - 1 : k \in S => k + 1 \in S
  PROVE  a..n \subseteq S
<1> DEFINE W == {i \in Nat : a + i \in S \/ a + i > n}
<1>1. 0 \in W
  OBVIOUS
<1>2. \A i \in Nat : i \in W => i + 1 \in W
  <2> SUFFICES ASSUME NEW i \in Nat, i \in W PROVE a + (i + 1) \in S \/ a + (i + 1) > n
    OBVIOUS
  <2>1. CASE a + i > n
    BY <2>1
  <2>2. CASE a + i = n
    BY <2>2
  <2>3. CASE a + i < n
    <3>1. a + i \in S /\ a + i \in a..n - 1
      BY <2>3
    <3>2. (a + i) + 1 \in S
      BY <3>1
    <3>3. (a + i) + 1 = a + (i + 1)
      OBVIOUS
    <3>4. QED
      BY <3>2, <3>3
  <2>4. QED
    BY <2>1, <2>2, <2>3
<1>3. Nat \subseteq W
  <2> HIDE DEF W
  <2>1. QED
    BY <1>1, <1>2, NatSetInduction
<1>4. ASSUME NEW k \in a..n PROVE k \in S
  <2>1. k - a \in Nat /\ a + (k - a) = k
    OBVIOUS
  <2>2. k - a \in W
    BY <1>3, <2>1
  <2>3. QED
    BY <2>1, <2>2
<1>5. QED
  BY <1>4
=============================================================================
