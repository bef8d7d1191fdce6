---------------------------- MODULE BitSetProofs ----------------------------
(***************************************************************************)
(* What TestAndSet (util.go:230) returns, for every size and every array.  *)
(***************************************************************************)
EXTENDS BitSet, WellFoundedInduction, TLAPS

(* A set of naturals that is not empty has a smallest element. *)
LEMMA SmallestProps ==
  ASSUME NEW S \in SUBSET Nat, S # {}
  PROVE  Smallest(S) \in S /\ \A j \in S : Smallest(S) <= j
<1>1. \E x \in S : \A y \in S : ~ (<<y, x>> \in OpToRel(<, Nat))
  BY NatLessThanWellFounded, WFMin, Zenon
<1>2. PICK x \in S : \A y \in S : ~ (<<y, x>> \in OpToRel(<, Nat))
  BY <1>1, Zenon
<1>3. \A y \in S : x <= y
  <2> SUFFICES ASSUME NEW y \in S, y < x PROVE FALSE
    OBVIOUS
  <2>1. <<y, x>> \in OpToRel(<, Nat)
    BY Zenon DEF OpToRel
  <2> QED BY <1>2, <2>1, Zenon
<1> QED BY <1>3 DEF Smallest

(* TestAndSet sets exactly one bit, one that was free and below which all  *)
(* bits are set, and returns its 1 based index; with all bits set it       *)
(* changes nothing and returns size + 1.                                   *)
THEOREM TestAndSetTakesSmallestFree ==
  ASSUME NEW size \in Nat, NEW bits \in SUBSET (0 .. size - 1)
  PROVE  LET t == TestAndSet(bits, size)
             b == t.pos - 1
         IN  \/ /\ b \in (0 .. size - 1) \ bits
                /\ t.bits = bits \cup {b}
                /\ 0 .. b - 1 \subseteq bits
             \/ /\ b = size
                /\ t.bits = bits
                /\ bits = 0 .. size - 1
<1>1. CASE Free(bits, size) = {}
  <2>1. bits = 0 .. size - 1
    BY <1>1 DEF Free
  <2>2. TestAndSet(bits, size) = [bits |-> bits, pos |-> size + 1]
    BY <1>1 DEF TestAndSet
  <2> QED BY <2>1, <2>2
<1>2. CASE Free(bits, size) # {}
  <2> DEFINE i == Smallest(Free(bits, size))
  <2>1. i \in Free(bits, size) /\ \A j \in Free(bits, size) : i <= j
    BY <1>2, SmallestProps DEF Free
  <2>2. 0 .. i - 1 \subseteq bits
    BY <2>1 DEF Free
  <2>3. TestAndSet(bits, size) = [bits |-> bits \cup {i}, pos |-> i + 1]
    BY <1>2 DEF TestAndSet, Set
  <2> HIDE DEF i
  <2> QED BY <2>1, <2>2, <2>3 DEF Free
<1> QED BY <1>1, <1>2
=============================================================================
