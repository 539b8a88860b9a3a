------------------------------ MODULE Minimum -------------------------------
(***************************************************************************)
(* Every nonempty set of natural numbers has a least element.  It follows  *)
(* from the finite subsets of Nat being well-founded under inclusion.      *)
(***************************************************************************)
EXTENDS Integers, FiniteSetTheorems, TLAPS

\* What numbers of attempts, and places in a log, are found by.
LEMMA Least ==
    ASSUME NEW T, T \subseteq Nat, T # {}
    PROVE  \E x \in T : \A y \in T : x <= y
  <1> DEFINE upTo == {0 .. x : x \in T}
             Smaller == StrictSubsetOrdering(Nat)
  <1>1. IsWellFoundedOn(Smaller, FiniteSubsetsOf(Nat))
    BY FS_StrictSubsetOrderingWellFounded
  <1>2. upTo \subseteq FiniteSubsetsOf(Nat) /\ upTo # {}
    <2>1. \A x \in T : 0 .. x \subseteq Nat /\ IsFiniteSet(0 .. x)
      BY FS_Interval
    <2>2. QED
      BY <2>1 DEF FiniteSubsetsOf
  <1>3. \E B \in upTo : \A C \in upTo : ~(<<C, B>> \in Smaller)
    <2> HIDE DEF upTo, Smaller
    <2>1. QED
      BY <1>1, <1>2, WFMin
  <1>4. PICK x \in T : \A y \in T : ~(<<0 .. y, 0 .. x>> \in Smaller)
    BY <1>3
  <1> HIDE DEF upTo
  <1>5. ASSUME NEW y \in T, y < x PROVE FALSE
    <2>1. x \in 0 .. x /\ x \notin 0 .. y
      BY <1>5
    <2>2. 0 .. y \subseteq 0 .. x /\ 0 .. y # 0 .. x /\ 0 .. x \subseteq Nat
      BY <1>5, <2>1
    <2>3. QED
      BY <1>4, <2>2 DEF StrictSubsetOrdering
  <1>6. QED
    BY <1>5
=============================================================================
