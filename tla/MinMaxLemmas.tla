--------------------------- MODULE MinMaxLemmas ---------------------------
(***************************************************************************)
(* Min and Max of FiniteSetsExt for sets of descriptor numbers: that they  *)
(* are members and bound the set.  The other proof modules cite these for  *)
(* items_max_fd, the walk of handle_iteration and the kernel's choice of   *)
(* the lowest free number.                                                 *)
(***************************************************************************)
EXTENDS FiniteSetsExt, WellFoundedInduction, TLAPS

\* The naturals are well ordered, as a fact about sets.
LEMMA LeastNatural ==
  ASSUME NEW T, T \subseteq Nat, T # {}
  PROVE  \E m \in T : \A n \in T : m <= n
<1> DEFINE less == {p \in Nat \X Nat : p[1] < p[2]}
<1>1. IsWellFoundedOn(less, Nat)
  BY NatLessThanWellFounded DEF OpToRel
<1>2. PICK m \in T : \A n \in T : ~(<<n, m>> \in less)
  <2> HIDE DEF less
  <2> QED
    BY <1>1, WFMin
<1>3. ASSUME NEW n \in T
      PROVE  m <= n
  <2>1. ~(<<n, m>> \in less) /\ n \in Nat /\ m \in Nat
    BY <1>2
  <2> QED
    BY <2>1
<1> QED
  BY <1>3

\* Induction over the naturals, as a fact about sets.
LEMMA SetInduction ==
  ASSUME NEW P, P \subseteq Nat, 0 \in P, \A n \in P : n + 1 \in P
  PROVE  P = Nat
<1> SUFFICES ASSUME Nat \ P # {}
             PROVE  FALSE
  OBVIOUS
<1>1. PICK m \in Nat \ P : \A n \in Nat \ P : m <= n
  <2> DEFINE T == Nat \ P
  <2>1. T \subseteq Nat /\ T # {}
    OBVIOUS
  <2> HIDE DEF T
  <2>2. \E m \in T : \A n \in T : m <= n
    BY <2>1, LeastNatural
  <2> QED
    BY <2>2 DEF T
<1>2. m - 1 \in Nat
  BY <1>1
<1>3. m - 1 \in P
  BY <1>1, <1>2
<1> QED
  BY <1>1, <1>2, <1>3

\* The smallest of a nonempty set of naturals.
LEMMA MinIsLeast ==
  ASSUME NEW T, T \subseteq Nat, T # {}
  PROVE  Min(T) \in T /\ \A n \in T : Min(T) <= n
<1>1. \E m \in T : \A n \in T : m <= n
  BY LeastNatural
<1> QED
  BY <1>1 DEF Min

\* The largest of a nonempty set of naturals with an upper bound.
LEMMA MaxIsGreatest ==
  ASSUME NEW bound \in Nat, NEW T, T \subseteq 0..bound, T # {}
  PROVE  Max(T) \in T /\ \A n \in T : n <= Max(T)
<1> DEFINE U == {k \in Nat : \A n \in T : n <= k}
<1>1. bound \in U
  OBVIOUS
<1>2. PICK m \in U : \A k \in U : m <= k
  <2>1. U \subseteq Nat /\ U # {}
    BY <1>1
  <2> HIDE DEF U
  <2> QED
    BY <2>1, LeastNatural
<1>3. m \in T
  <2> SUFFICES ASSUME m \notin T
               PROVE  FALSE
    OBVIOUS
  <2>1. PICK t \in T : TRUE
    OBVIOUS
  <2>2. m \in Nat /\ m >= 1
    <3>1. t <= m /\ t # m /\ t \in Nat /\ m \in Nat
      BY <1>2, <2>1
    <3> QED
      BY <3>1
  <2>3. \A n \in T : n <= m - 1
    <3> TAKE n \in T
    <3>1. n <= m /\ n # m /\ n \in Nat
      BY <1>2
    <3> QED
      BY <2>2, <3>1
  <2>4. m - 1 \in U
    BY <2>2, <2>3
  <2> QED
    BY <1>2, <2>2, <2>4
<1>4. \A n \in T : m >= n
  BY <1>2
<1>5. Max(T) \in T /\ \A n \in T : Max(T) >= n
  BY <1>3, <1>4 DEF Max
<1> QED
  BY <1>5
=============================================================================
