------------------------------- MODULE BitSet -------------------------------
(***************************************************************************)
(* The bit arrays of util/util.go seen as sets: an array of size bits is   *)
(* the set of the indices, 0 based, of the bits that are 1.  BitArray      *)
(* relates this view to the bytes of the code.                             *)
(***************************************************************************)
EXTENDS Integers

Set(bits, k) == bits \cup {k}

Clear(bits, k) == bits \ {k}

Free(bits, size) == (0 .. size - 1) \ bits

Smallest(S) == CHOOSE i \in S : \A j \in S : i <= j

(* Mutant of TestAndSet: it sets the bit of the 1 based index. *)
TestAndSetNext(bits, size) ==
  IF Free(bits, size) = {}
  THEN [bits |-> bits, pos |-> size + 1]
  ELSE LET i == Smallest(Free(bits, size))
       IN  [bits |-> Set(bits, i + 1), pos |-> i + 1]

(* The smallest 0 bit is set; its index, 1 based, is returned, and         *)
(* size + 1 when all bits are set.                                         *)
TestAndSet(bits, size) ==
  IF Free(bits, size) = {}
  THEN [bits |-> bits, pos |-> size + 1]
  ELSE LET i == Smallest(Free(bits, size))
       IN  [bits |-> Set(bits, i), pos |-> i + 1]
=============================================================================
