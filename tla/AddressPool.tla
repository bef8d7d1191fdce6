---------------------------- MODULE AddressPool -----------------------------
(***************************************************************************)
(* What the address pool of a network promises to the callers of           *)
(* RequestIP, MarkUsed and ReleaseIP: the marks change one bit at a time,  *)
(* only for the address a caller takes or gives back, and callers own      *)
(* different addresses until one is handed out unmarked.  IPAM implements  *)
(* this with several calls to consul per operation.                        *)
(***************************************************************************)
EXTENDS Integers

CONSTANTS Procs,  \* the callers
          Size    \* bits of the bitmap

Bit == 0 .. Size - 1
Addr == 1 .. Size + 1
None == 0

VARIABLES
  bits,       \* the marked bits: bit a - 1 is the mark of address a
  held,       \* the address each caller uses
  returning,  \* the address it is giving back
  unmarked,   \* an address was handed out without being marked for its caller
  kept        \* a mark was left behind by a caller that gave its address back

vars == <<bits, held, returning, unmarked, kept>>

Init ==
  /\ bits = {}
  /\ held = [p \in Procs |-> None]
  /\ returning = [p \in Procs |-> None]
  /\ unmarked = FALSE
  /\ kept = FALSE

Idle(p) == held[p] = None /\ returning[p] = None

(* The promise: a free address is marked and handed out in one step. *)
Grant(p, b) ==
  /\ Idle(p) /\ b \in Bit \ bits
  /\ bits' = bits \cup {b}
  /\ held' = [held EXCEPT ![p] = b + 1]
  /\ UNCHANGED <<returning, unmarked, kept>>

(* The exception: any address, without a mark of its own. *)
GrantUnmarked(p, a) ==
  /\ Idle(p)
  /\ held' = [held EXCEPT ![p] = a]
  /\ unmarked' = TRUE
  /\ UNCHANGED <<bits, returning, kept>>

GiveBack(p) ==
  /\ held[p] # None
  /\ returning' = [returning EXCEPT ![p] = held[p]]
  /\ held' = [held EXCEPT ![p] = None]
  /\ UNCHANGED <<bits, unmarked, kept>>

Unmark(p) ==
  /\ returning[p] - 1 \in bits
  /\ bits' = bits \ {returning[p] - 1}
  /\ returning' = [returning EXCEPT ![p] = None]
  /\ UNCHANGED <<held, unmarked, kept>>

(* The exception: the caller is told that its address is released. *)
Keep(p) ==
  /\ returning[p] # None
  /\ returning' = [returning EXCEPT ![p] = None]
  /\ kept' = TRUE
  /\ UNCHANGED <<bits, held, unmarked>>

Next ==
  \E p \in Procs :
    \/ \E b \in Bit : Grant(p, b)
    \/ \E a \in Addr : GrantUnmarked(p, a)
    \/ GiveBack(p)
    \/ Unmark(p)
    \/ Keep(p)

Spec == Init /\ [][Next]_vars

-----------------------------------------------------------------------------
TypeOK ==
  /\ bits \subseteq Bit
  /\ held \in [Procs -> Addr \cup {None}]
  /\ returning \in [Procs -> Addr \cup {None}]
  /\ unmarked \in BOOLEAN
  /\ kept \in BOOLEAN

(* A caller uses an address or gives one back, never both. *)
OneAddress == \A p \in Procs : held[p] = None \/ returning[p] = None

Owns(p, a) == held[p] = a \/ returning[p] = a

(* Every owned address is marked, and owned once. *)
OwnedOnce ==
  ~unmarked => \A p \in Procs : \A a \in Addr : Owns(p, a) =>
                 /\ a - 1 \in bits
                 /\ \A q \in Procs \ {p} : ~Owns(q, a)

(* Every mark belongs to a caller that uses its address or gives it back. *)
MarksOwned ==
  ~kept => \A b \in bits : \E p \in Procs : Owns(p, b + 1)
=============================================================================
