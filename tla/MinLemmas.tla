------------------------------ MODULE MinLemmas ------------------------------
(***************************************************************************)
(* That a set of natural numbers has a least element, which is its Min,    *)
(* and induction as a statement about sets: the proofs about the model's   *)
(* sequences rest on both.                                                 *)
(***************************************************************************)
EXTENDS Naturals, FiniteSetsExt, WellFoundedInduction, TLAPS

LEMMA MinIsLeast ==
  ASSUME NEW S, S \subseteq Nat, S # {}
  PROVE  Min(S) \in S /\ \A y \in S : Min(S) <= y
<1> DEFINE R == OpToRel(<, Nat)
<1>1. PICK x \in S : \A y \in S : ~ (<<y, x>> \in R)
  <2> HIDE DEF R
  <2>1. IsWellFoundedOn(R, Nat)
    BY NatLessThanWellFounded DEF R
  <2> QED
    BY <2>1, WFMin
<1>2. \A y \in S : x <= y
  <2> SUFFICES ASSUME NEW y \in S, y < x PROVE FALSE
    OBVIOUS
  <2>1. <<y, x>> \in Nat \X Nat /\ <<y, x>>[1] < <<y, x>>[2]
    OBVIOUS
  <2>2. <<y, x>> \in R
    BY ONLY <2>1, Zenon DEF OpToRel
  <2> QED
    BY <2>2, <1>1
<1> QED
  BY <1>2 DEF Min

\* A set of naturals that has 0 and, with each number, the next one has them all.
LEMMA NextReachesAll ==
  ASSUME NEW T, T \subseteq Nat, 0 \in T, \A n \in T : n + 1 \in T
  PROVE  T = Nat
<1> SUFFICES ASSUME Nat \ T # {} PROVE FALSE
  OBVIOUS
<1>1. /\ Min(Nat \ T) \in Nat \ T
      /\ \A y \in Nat \ T : Min(Nat \ T) <= y
  BY MinIsLeast
<1> DEFINE m == Min(Nat \ T)
<1>2. m \in Nat /\ m \notin T /\ m # 0
  BY <1>1
<1>3. m - 1 \in Nat /\ m - 1 < m
  BY <1>2
<1>4. m - 1 \in T
  BY <1>1, <1>3
<1>5. (m - 1) + 1 \in T
  BY <1>4
<1> QED
  BY <1>2, <1>5
=============================================================================
