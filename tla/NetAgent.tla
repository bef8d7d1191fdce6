------------------------------ MODULE NetAgent ------------------------------
(***************************************************************************)
(* The key/value calls of netAgent/netAgent.go: Get, Put and the           *)
(* check-and-set of consul they are built on.                              *)
(*                                                                         *)
(* The value kept under a key is an entry [val, idx]: idx is consul's      *)
(* ModifyIndex, and 0 when the key does not exist.  An absent key is the   *)
(* entry Absent(nil), with nil the value the caller sees then.             *)
(*                                                                         *)
(* A Get that cannot reach consul, or is answered with an error status,    *)
(* returns exactly what a Get of an absent key returns: nil, 0, false.     *)
(***************************************************************************)
EXTENDS Integers

(* The return codes of Put and Delete. *)
OK == 0
OUTDATED == 1
ERROR == 2

Absent(nil) == [val |-> nil, idx |-> 0]

(* The third result of Get: was a value found? *)
Found(reply) == reply.idx # 0

(* What a Get of the entry e can return; faulty says whether it may fail. *)
Get(e, nil, faulty) == {e} \cup IF faulty THEN {Absent(nil)} ELSE {}

(* Mutants of Outdated: no comparison; "ok" is not tested. *)
OutdatedNever(reply, oldVal) == FALSE
OutdatedWhenAbsent(reply, oldVal) == ~Found(reply) \/ reply.val # oldVal

(* Put compares the caller's old value with the value its own Get found.   *)
Outdated(reply, oldVal) == Found(reply) /\ reply.val # oldVal

(* Mutant of CasApplies: a PUT without "cas". *)
CasAppliesAlways(e, i) == TRUE

(* consul applies "PUT ?cas=i" when i is the ModifyIndex of the key, which *)
(* for i = 0 means that the key does not exist.                            *)
CasApplies(e, i) == e.idx = i

(***************************************************************************)
(* How the PUT of Put can end: was the value written, and what does Put    *)
(* return?  A body of "false" is ERROR.  A faulty PUT may be lost on its   *)
(* way there or back (ERROR), or be answered with an error page, whose     *)
(* body is not "false": Put then returns OK.                               *)
(***************************************************************************)
CasOutcomes(e, i, faulty) ==
  LET applied == CasApplies(e, i)
  IN  {[applied |-> applied, res |-> IF applied THEN OK ELSE ERROR]}
      \cup IF faulty
           THEN {[applied |-> FALSE, res |-> r] : r \in {OK, ERROR}}
                \cup {[applied |-> applied, res |-> ERROR]}
           ELSE {}

(* The entry after a write: a new value under a new ModifyIndex. *)
Written(e, v) == [val |-> v, idx |-> e.idx + 1]
=============================================================================
