----------------------------- MODULE BitSetSpec -----------------------------
(***************************************************************************)
(* What the bit array functions of util/util.go promise, stated on the set *)
(* of the bits that are 1: Set and Clear change the given bit, TestAndSet  *)
(* takes the smallest free one and returns its 1 based index.              *)
(***************************************************************************)
EXTENDS BitSet

CONSTANT Len       \* bits of the array
VARIABLES bits,    \* the bits that are 1
          call,    \* the last call: the function and its index
          ret      \* what it returned; 0 if it returns nothing

Init == bits = {} /\ call = <<"none", 0>> /\ ret = 0

Next ==
  \/ \E k \in 0 .. Len - 1 :
       bits' = Set(bits, k) /\ call' = <<"Set", k>> /\ ret' = 0
  \/ \E k \in 0 .. Len - 1 :
       bits' = Clear(bits, k) /\ call' = <<"Clear", k>> /\ ret' = 0
  \/ LET t == TestAndSet(bits, Len)
     IN  bits' = t.bits /\ call' = <<"TestAndSet", 0>> /\ ret' = t.pos

Spec == Init /\ [][Next]_<<bits, call, ret>>
=============================================================================
