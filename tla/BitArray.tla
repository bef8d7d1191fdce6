------------------------------ MODULE BitArray ------------------------------
(***************************************************************************)
(* The bit array functions of util/util.go on the bytes they work on: bit  *)
(* k of the array a is bit k % 8 of the byte a[k / 8], counted from the    *)
(* least significant one.  The bitmaps of ipStore and vlanStore are such   *)
(* arrays.                                                                 *)
(***************************************************************************)
EXTENDS Integers

CONSTANTS ByteBits,  \* bits in a byte: 8
          NBytes     \* len(a)

ASSUME LengthAssumption == ByteBits \in Nat \ {0} /\ NBytes \in Nat

VARIABLES a,     \* the array
          call,  \* the last call: the function and its index
          ret    \* what it returned; 0 if it returns nothing

vars == <<a, call, ret>>

Byte == 0 .. 2 ^ ByteBits - 1
Index == 0 .. NBytes * ByteBits - 1

test(k) == (a[k \div ByteBits] \div 2 ^ (k % ByteBits)) % 2 # 0

(* Mutant of Set: an addition for the or. *)
SetAdds(k) == a' = [a EXCEPT ![k \div ByteBits] = @ + 2 ^ (k % ByteBits)]

(* The or and the and-not with 1 << (k % 8). *)
Set(k) ==
  a' = [a EXCEPT ![k \div ByteBits] =
          IF test(k) THEN @ ELSE @ + 2 ^ (k % ByteBits)]

(* Mutant of Clear: an exclusive or. *)
ClearToggles(k) ==
  a' = [a EXCEPT ![k \div ByteBits] =
          IF test(k) THEN @ - 2 ^ (k % ByteBits) ELSE @ + 2 ^ (k % ByteBits)]

Clear(k) ==
  a' = [a EXCEPT ![k \div ByteBits] =
          IF test(k) THEN @ - 2 ^ (k % ByteBits) ELSE @]

(* The loop of TestAndSet: the first index from i on whose bit is 0, and   *)
(* the length of the array if there is none.                               *)
Scan[i \in 0 .. NBytes * ByteBits] ==
  IF i < NBytes * ByteBits /\ test(i) THEN Scan[i + 1] ELSE i

TestAndSet ==
  LET i == Scan[0]
  IN  /\ IF i \in Index THEN Set(i) ELSE UNCHANGED a
      /\ ret' = i + 1

Init == a = [i \in 0 .. NBytes - 1 |-> 0] /\ call = <<"none", 0>> /\ ret = 0

Next ==
  \/ \E k \in Index : Set(k) /\ call' = <<"Set", k>> /\ ret' = 0
  \/ \E k \in Index : Clear(k) /\ call' = <<"Clear", k>> /\ ret' = 0
  \/ TestAndSet /\ call' = <<"TestAndSet", 0>>

Spec == Init /\ [][Next]_vars

-----------------------------------------------------------------------------
TypeOK ==
  /\ a \in [0 .. NBytes - 1 -> Byte]
  /\ call \in {"none", "Set", "Clear", "TestAndSet"} \X (Index \cup {0})
  /\ ret \in 0 .. NBytes * ByteBits + 1

(* The byte arithmetic of Set, Clear, test and TestAndSet (util.go:213) is *)
(* the set arithmetic of BitSet, call by call, across byte boundaries and  *)
(* when the array is full.                                                 *)
Bits == INSTANCE BitSetSpec WITH
          Len <- NBytes * ByteBits, bits <- {k \in Index : test(k)}
ImplementsBitSet == Bits!Spec
=============================================================================
