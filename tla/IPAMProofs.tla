----------------------------- MODULE IPAMProofs -----------------------------
(***************************************************************************)
(* Proofs about IPAM, for any number of callers, any subnet and any number *)
(* of operations and failed calls.                                         *)
(***************************************************************************)
EXTENDS IPAM, BitSetProofs, TLAPS

IInv == TypeOK /\ CallInv

(* The bitmap has a whole number of bits. *)
LEMMA SizeNat == Size \in Nat
<1>1. IPCount \div ByteBits \in Nat
  BY ConstantsAssumption
<1>2. bc \in Nat
  BY <1>1, ConstantsAssumption DEF bc
<1> QED BY <1>2, ConstantsAssumption DEF Size

(* What the three operations compute from the array they read: an address  *)
(* of the pool and an array that differs from the old one in its bit only. *)
LEMMA ComputeProps ==
  ASSUME NEW o \in {"RequestIP", "MarkUsed", "ReleaseIP"},
         NEW a \in Addr \cup {None}, o # "RequestIP" => a \in Addr,
         o = "MarkUsed" => a - 1 \in Bit,
         NEW array \in SUBSET Bit
  PROVE  LET c == Compute(o, a, array)
         IN  /\ c.pos \in Addr
             /\ o # "RequestIP" => c.pos = a
             /\ c.bits \in SUBSET Bit
             /\ IF o = "ReleaseIP" THEN c.bits = array \ {c.pos - 1}
                ELSE \/ c.bits = array
                     \/ c.pos - 1 \in Bit /\ c.bits = array \cup {c.pos - 1}
<1> USE SizeNat
<1>1. CASE o = "RequestIP"
  <2> DEFINE t == TestAndSet(array, Size)
  <2>1. Compute(o, a, array) = t
    BY <1>1 DEF Compute
  <2>2. \/ t.pos - 1 \in Bit \ array /\ t.bits = array \cup {t.pos - 1}
        \/ t.pos - 1 = Size /\ t.bits = array
    BY Zenon, TestAndSetTakesSmallestFree DEF Bit
  <2>3. t.pos \in Int
    <3>1. CASE Free(array, Size) = {}
      BY <3>1 DEF TestAndSet
    <3>2. CASE Free(array, Size) # {}
      <4>1. Smallest(Free(array, Size)) \in Int
        BY <3>2, SmallestProps DEF Free
      <4> QED BY <3>2, <4>1 DEF TestAndSet
    <3> QED BY <3>1, <3>2
  <2> HIDE DEF t
  <2> QED BY <1>1, <2>1, <2>2, <2>3 DEF Bit, Addr
<1>2. CASE o = "MarkUsed"
  BY <1>2 DEF Compute, Set, Bit
<1>3. CASE o = "ReleaseIP"
  BY <1>3 DEF Compute, Clear, Bit
<1> QED BY <1>1, <1>2, <1>3

(* No call is running and there is no bitmap yet. *)
LEMMA InitIInv == Init => IInv
<1> SUFFICES ASSUME Init PROVE IInv
  OBVIOUS
<1> USE SizeNat, ConstantsAssumption
<1>1. unmarked \in BOOLEAN /\ kept \in BOOLEAN
  BY Zenon DEF Init
<1>2. TypeOK
  BY <1>1 DEF Init, TypeOK, Absent, NoCall, Call, Frame, Addr, None
<1>3. CallInv
  BY DEF Init, CallInv, Absent, NoCall, Call, None
<1> QED BY <1>2, <1>3 DEF IInv

(* A new call owns no pending write. *)
LEMMA StartIInv ==
  ASSUME IInv, NEW p \in Procs,
         \/ RequestIP(p)
         \/ \E a \in Chosen : MarkUsed(p, a)
         \/ ReleaseIP(p)
  PROVE  IInv'
<1> USE SizeNat, ConstantsAssumption DEF None
<1>1. CASE RequestIP(p)
  <2>1. TypeOK'
    BY <1>1 DEF IInv, TypeOK, RequestIP, Start, Call, Frame, Addr
  <2>2. CallInv'
    BY <1>1 DEF IInv, TypeOK, CallInv, PendingWrite, RequestIP, Start, Call, Frame
  <2> QED BY <2>1, <2>2 DEF IInv
<1>2. ASSUME NEW a \in Chosen, MarkUsed(p, a) PROVE IInv'
  <2>1. TypeOK'
    BY <1>2 DEF IInv, TypeOK, MarkUsed, Start, Call, Frame, Addr
  <2>2. CallInv'
    BY <1>2 DEF IInv, TypeOK, CallInv, PendingWrite, MarkUsed, Start, Call, Frame
  <2> QED BY <2>1, <2>2 DEF IInv
<1>3. CASE ReleaseIP(p)
  <2>1. TypeOK'
    BY <1>3 DEF IInv, TypeOK, ReleaseIP, Start, Call, Frame, Addr
  <2>2. CallInv'
    BY <1>3 DEF IInv, TypeOK, CallInv, PendingWrite, ReleaseIP, Start, Call, Frame
  <2> QED BY <2>1, <2>2 DEF IInv
<1> QED BY <1>1, <1>2, <1>3

(* A call that returns leaves no frame behind. *)
LEMMA ReturnIInv ==
  ASSUME IInv, NEW p \in Procs, frame[p].pc # "idle", NEW flipped \in BOOLEAN,
         Return(p, flipped),
         frame[p].op = "RequestIP" => frame[p].addr \in Addr,
         UNCHANGED <<store, ops>>, faults' \in 0 .. MaxFaults
  PROVE  IInv'
<1> USE SizeNat, ConstantsAssumption DEF None
<1>1. unmarked' \in BOOLEAN /\ kept' \in BOOLEAN
  BY Zenon DEF Return
<1>2. TypeOK'
  BY <1>1 DEF IInv, TypeOK, Return, NoCall, Call, Frame, Addr
<1>3. CallInv'
  BY DEF IInv, TypeOK, CallInv, PendingWrite, Return, NoCall, Call, Frame
<1> QED BY <1>2, <1>3 DEF IInv

(* The array computed from a Get, or a call that gives up without one. *)
LEMMA GetArrayIInv ==
  ASSUME IInv, NEW p \in Procs, GetArray(p)
  PROVE  IInv'
<1> USE SizeNat, ConstantsAssumption DEF None
<1> DEFINE f == frame[p]
<1>1. PICK reply \in ArrayReplies(f) :
        /\ IF f.op # "RequestIP" /\ ~Found(reply)
           THEN Return(p, FALSE)
           ELSE LET c == Compute(f.op, f.addr, reply.val)
                IN  /\ frame' = [frame EXCEPT ![p] =
                         [f EXCEPT !.pc = "putget", !.addr = c.pos,
                                   !.oldArray = reply.val,
                                   !.newArray = c.bits]]
                    /\ UNCHANGED <<held, unmarked, kept>>
        /\ faults' = IF store \in ArrayReplies(f) /\ reply # store
                     THEN faults + 1 ELSE faults
  BY Zenon DEF GetArray
<1>2. f.pc = "get" /\ f \in Frame /\ UNCHANGED <<store, ops>>
  BY DEF GetArray, IInv, TypeOK
<1>3. /\ reply \in {store, Absent({})}
      /\ reply # store /\ store \in ArrayReplies(f) => faults < MaxFaults
  BY DEF ArrayReplies, Get, mayFail
<1>4. faults' \in 0 .. MaxFaults
  BY <1>1, <1>3 DEF IInv, TypeOK
<1>5. CASE f.op # "RequestIP" /\ ~Found(reply)
  BY Zenon, <1>1, <1>2, <1>4, <1>5, ReturnIInv
<1>6. CASE f.op = "RequestIP" \/ Found(reply)
  <2> DEFINE c == Compute(f.op, f.addr, reply.val)
             g == [f EXCEPT !.pc = "putget", !.addr = c.pos,
                            !.oldArray = reply.val, !.newArray = c.bits]
  <2>1. reply.val \in SUBSET Bit /\ (store.idx = 0 => reply.val = {})
    BY <1>3 DEF IInv, TypeOK, CallInv, Absent
  <2>2. /\ c.pos \in Addr /\ c.bits \in SUBSET Bit
        /\ f.op # "RequestIP" => c.pos = f.addr
        /\ IF f.op = "ReleaseIP" THEN c.bits = reply.val \ {c.pos - 1}
           ELSE \/ c.bits = reply.val
                \/ c.pos - 1 \in Bit /\ c.bits = reply.val \cup {c.pos - 1}
    <3>1. /\ f.op \in {"RequestIP", "MarkUsed", "ReleaseIP"}
          /\ f.addr \in Addr \cup {None}
          /\ f.op # "RequestIP" => f.addr \in Addr
          /\ f.op = "MarkUsed" => f.addr - 1 \in Bit
      BY <1>2 DEF IInv, CallInv, Frame, Addr, Bit
    <3> QED BY <3>1, <2>1, ComputeProps
  <2>3. frame' = [frame EXCEPT ![p] = g] /\ UNCHANGED <<held, unmarked, kept>>
    BY Zenon, <1>1, <1>6
  <2> HIDE DEF c
  <2>4. g \in Frame /\ PendingWrite(g)
    BY ZenonT(30), <1>2, <2>1, <2>2 DEF Frame, PendingWrite
  <2>5. g.op = f.op /\ g.pc = "putget" /\ g.addr = c.pos /\ g.oldArray = reply.val
    BY <1>2 DEF Frame
  <2> HIDE DEF g
  <2>6. TypeOK'
    BY <1>2, <1>4, <2>3, <2>4 DEF IInv, TypeOK
  <2>7. CallInv'
    BY <1>2, <2>1, <2>2, <2>3, <2>4, <2>5 DEF IInv, TypeOK, CallInv
  <2> QED BY <2>6, <2>7 DEF IInv
<1> QED BY SMTT(30), <1>5, <1>6

(* A PUT is sent with the ModifyIndex of an array equal to oldArray, or    *)
(* with 0 by a caller that found no bitmap or could not read it.           *)
LEMMA PutGetIInv ==
  ASSUME IInv, NEW p \in Procs, PutGet(p)
  PROVE  IInv'
<1> USE SizeNat, ConstantsAssumption DEF None
<1> DEFINE f == frame[p]
<1>1. f.pc = "putget" /\ f \in Frame /\ UNCHANGED <<store, held, ops, unmarked, kept>>
  BY DEF PutGet, IInv, TypeOK
<1>2. PICK reply \in Get(store, {}, mayFail) :
        /\ frame' = [frame EXCEPT ![p] =
             IF Outdated(reply, f.oldArray)
             THEN Call(f.op, IF f.op = "RequestIP" THEN None ELSE f.addr)
             ELSE [f EXCEPT !.pc = "cas", !.casIndex = reply.idx]]
        /\ faults' = IF reply # store THEN faults + 1 ELSE faults
  BY Zenon DEF PutGet
<1>3. /\ reply \in {store, Absent({})}
      /\ reply # store => faults < MaxFaults
  BY DEF Get, mayFail
<1>4. faults' \in 0 .. MaxFaults /\ reply.idx \in Nat
  BY <1>2, <1>3 DEF IInv, TypeOK, Absent
<1>5. CASE Outdated(reply, f.oldArray)
  <2>1. TypeOK'
    BY <1>1, <1>2, <1>4, <1>5 DEF IInv, TypeOK, Call, Frame, Addr
  <2>2. CallInv'
    BY <1>1, <1>2, <1>5 DEF IInv, TypeOK, CallInv, Call, Frame
  <2> QED BY <2>1, <2>2 DEF IInv
<1>6. CASE ~Outdated(reply, f.oldArray)
  <2> DEFINE g == [f EXCEPT !.pc = "cas", !.casIndex = reply.idx]
  <2>1. frame' = [frame EXCEPT ![p] = g]
    BY <1>2, <1>6
  <2>2. /\ g \in Frame /\ PendingWrite(g) /\ g.op = f.op /\ g.pc = "cas"
        /\ g.addr = f.addr /\ g.oldArray = f.oldArray /\ g.casIndex = reply.idx
    BY Zenon, <1>1, <1>4 DEF IInv, CallInv, PendingWrite, Frame
  <2>3. /\ reply.idx <= store.idx
        /\ reply.idx = store.idx => store.val = f.oldArray
    <3>1. store.idx \in Nat /\ (store.idx = 0 => store.val = {} /\ f.oldArray = {})
      BY <1>1 DEF IInv, TypeOK, CallInv
    <3>2. CASE reply = store
      BY <1>6, <3>1, <3>2 DEF Outdated, Found
    <3>3. CASE reply = Absent({})
      <4>1. reply.idx = 0
        BY <3>3, Zenon DEF Absent
      <4> QED BY <3>1, <4>1
    <3> QED BY <1>3, <3>2, <3>3
  <2> HIDE DEF g
  <2>4. TypeOK'
    BY <1>1, <1>4, <2>1, <2>2 DEF IInv, TypeOK
  <2>5. CallInv'
    BY <1>1, <2>1, <2>2, <2>3 DEF IInv, TypeOK, CallInv
  <2> QED BY <2>4, <2>5 DEF IInv
<1> QED BY <1>5, <1>6

(* The outcomes of a PUT: it is applied only if consul accepts casIndex. *)
LEMMA OutcomeProps ==
  ASSUME NEW e, NEW i, NEW faulty, NEW o \in CasOutcomes(e, i, faulty)
  PROVE  o.applied \in BOOLEAN /\ (o.applied => e.idx = i)
<1> DEFINE applied == CasApplies(e, i)
<1>1. applied \in BOOLEAN
  BY DEF CasApplies
<1> HIDE DEF applied
<1>2. PICK x \in {FALSE, applied}, r \in {OK, ERROR} : o = [applied |-> x, res |-> r]
  BY Zenon DEF CasOutcomes, applied
<1>3. o.applied = x
  BY <1>2, Zenon
<1> QED BY Zenon, <1>1, <1>3 DEF applied, CasApplies

(* A PUT that is applied finds the array its caller started from. *)
LEMMA AppliedFindsOldArray ==
  ASSUME IInv, NEW p \in Procs, frame[p].pc = "cas",
         NEW o \in CasOutcomes(store, frame[p].casIndex, mayFail), o.applied
  PROVE  store.val = frame[p].oldArray
<1>1. store.idx = frame[p].casIndex
  BY OutcomeProps
<1> QED BY <1>1 DEF IInv, CallInv

(* A write moves the ModifyIndex on, past the casIndex of all others. *)
LEMMA PutCasIInv ==
  ASSUME IInv, NEW p \in Procs, PutCas(p)
  PROVE  IInv'
<1> USE SizeNat, ConstantsAssumption DEF None
<1> DEFINE f == frame[p]
<1>1. f.pc = "cas" /\ f \in Frame /\ f.addr \in Addr /\ UNCHANGED ops
  BY DEF PutCas, IInv, TypeOK, CallInv
<1>2. PICK o \in CasOutcomes(store, f.casIndex, mayFail) :
        /\ store' = IF o.applied THEN Written(store, f.newArray) ELSE store
        /\ faults' = IF o \in CasOutcomes(store, f.casIndex, FALSE)
                     THEN faults ELSE faults + 1
        /\ Return(p, o.applied /\ f.newArray # store.val)
  BY Zenon DEF PutCas
<1>3. faults' \in 0 .. MaxFaults
  BY <1>2 DEF IInv, TypeOK, CasOutcomes, mayFail
<1>4. o.applied \in BOOLEAN
  BY OutcomeProps
<1>5. CASE ~o.applied
  BY Zenon, <1>1, <1>2, <1>3, <1>5, ReturnIInv
<1>6. CASE o.applied
  <2>1. store' = [val |-> f.newArray, idx |-> store.idx + 1]
    BY <1>2, <1>6 DEF Written
  <2>2. unmarked' \in BOOLEAN /\ kept' \in BOOLEAN
    BY <1>2, Zenon DEF Return
  <2>3. TypeOK'
    <3>1. store' \in [val : SUBSET Bit, idx : Nat]
      BY <1>1, <2>1 DEF IInv, TypeOK, Frame
    <3>2. frame' \in [Procs -> Frame] /\ held' \in [Procs -> Addr \cup {None}]
      BY <1>1, <1>2 DEF IInv, TypeOK, Return, NoCall, Call, Frame
    <3> QED BY <1>1, <1>3, <2>2, <3>1, <3>2 DEF IInv, TypeOK
  <2>4. CallInv'
    BY <1>1, <1>2, <2>1
    DEF IInv, TypeOK, CallInv, PendingWrite, Return, NoCall, Call, Frame
  <2> QED BY <2>3, <2>4 DEF IInv
<1> QED BY <1>4, <1>5, <1>6

(* One step of any caller preserves the invariant. *)
LEMMA NextIInv == IInv /\ [Next]_vars => IInv'
<1> SUFFICES ASSUME IInv, [Next]_vars PROVE IInv'
  OBVIOUS
<1>1. CASE UNCHANGED vars
  BY <1>1 DEF vars, IInv, TypeOK, CallInv
<1>2. CASE Next
  BY <1>2, StartIInv, GetArrayIInv, PutGetIInv, PutCasIInv DEF Next, Step
<1> QED BY <1>1, <1>2

(* The invariant holds in every state. *)
LEMMA SpecIInv == Spec => []IInv
<1>1. Init => IInv
  BY InitIInv
<1>2. IInv /\ [Next]_vars => IInv'
  BY SMTT(30), NextIInv
<1> QED BY <1>1, <1>2, PTL DEF Spec

(* The variables of IPAM keep their types, through every interleaving of   *)
(* calls and every failed call to consul.                                  *)
THEOREM TypeCorrect == Spec => []TypeOK
<1>1. IInv => TypeOK
  BY DEF IInv
<1> QED BY <1>1, SpecIInv, PTL

(* A PUT of netAgent (netAgent.go:252) that the store would still accept   *)
(* was computed from what the store holds, and sets or clears one bit.     *)
THEOREM WritesStartFromTheStore == Spec => []CallInv
<1>1. IInv => CallInv
  BY DEF IInv
<1> QED BY <1>1, SpecIInv, PTL

-----------------------------------------------------------------------------
(* Only the frame of the caller that takes the step changes, and only its  *)
(* PUT writes to the store.                                                *)
LEMMA OnlyPutWrites ==
  ASSUME IInv, NEW p \in Procs,
         \/ RequestIP(p)
         \/ \E a \in Chosen : MarkUsed(p, a)
         \/ ReleaseIP(p)
         \/ GetArray(p)
         \/ PutGet(p)
  PROVE  store' = store
  BY Zenon DEF RequestIP, MarkUsed, ReleaseIP, Start, GetArray, PutGet

(* A PUT writes the array of its caller, in which only its own bit differs *)
(* from the array in the store.                                            *)
LEMMA PutWritesOwnBit ==
  ASSUME IInv, NEW p \in Procs, PutCas(p)
  PROVE  LET b == frame[p].addr - 1
         IN  store'.val \ {b} = store.val \ {b}
<1> DEFINE f == frame[p]
<1>1. f.pc = "cas" /\ PendingWrite(f)
  BY DEF PutCas, IInv, CallInv
<1>2. PICK o \in CasOutcomes(store, f.casIndex, mayFail) :
        store' = IF o.applied THEN Written(store, f.newArray) ELSE store
  BY DEF PutCas
<1>3. CASE o.applied
  BY <1>1, <1>2, <1>3, AppliedFindsOldArray DEF Written, PendingWrite
<1>4. CASE ~o.applied
  BY <1>2, <1>4
<1> QED BY <1>3, <1>4

(* No caller overwrites a bit another caller set or cleared, for any       *)
(* interleaving and with failing calls to consul (netAgent.go:252).        *)
THEOREM LosesNoUpdate == Spec => WritesOwnBit
<1> DEFINE A == \A p \in Procs : frame'[p] # frame[p] =>
                  LET b == frame[p].addr - 1 IN store'.val \ {b} = store.val \ {b}
<1>1. IInv /\ [Next]_vars => [A]_vars
  <2> SUFFICES ASSUME IInv, Next, NEW p \in Procs, frame'[p] # frame[p]
               PROVE  LET b == frame[p].addr - 1
                      IN  store'.val \ {b} = store.val \ {b}
    OBVIOUS
  <2>1. PICK q \in Procs : \/ RequestIP(q)
                           \/ \E a \in Chosen : MarkUsed(q, a)
                           \/ ReleaseIP(q)
                           \/ GetArray(q)
                           \/ PutGet(q)
                           \/ PutCas(q)
    BY DEF Next, Step
  <2>2. CASE PutCas(q)
    <3>1. p = q
      BY <2>2 DEF PutCas, Return, IInv, TypeOK
    <3> QED BY <2>2, <3>1, PutWritesOwnBit
  <2>3. CASE ~PutCas(q)
    BY <2>1, <2>3, OnlyPutWrites
  <2> QED BY <2>2, <2>3
<1>2. Spec => []IInv
  BY SpecIInv
<1> QED BY <1>1, <1>2, PTL DEF Spec, WritesOwnBit

-----------------------------------------------------------------------------
(* The calls that begin: only ReleaseIP is a step of the pool. *)
LEMMA StartRefines ==
  ASSUME IInv, NEW p \in Procs,
         \/ RequestIP(p)
         \/ \E a \in Chosen : MarkUsed(p, a)
         \/ ReleaseIP(p)
  PROVE  Pool!Next \/ UNCHANGED Pool!vars
<1> USE DEF Pool!None, None
<1>1. CASE RequestIP(p) \/ \E a \in Chosen : MarkUsed(p, a)
  BY <1>1 DEF RequestIP, MarkUsed, Start, Call, returning, Releasing, IInv, TypeOK,
              CallInv, Pool!vars
<1>2. CASE ReleaseIP(p)
  <2>1. Pool!GiveBack(p)
    BY Zenon, <1>2 DEF ReleaseIP, Start, Call, returning, Releasing, IInv, TypeOK, CallInv,
                Pool!GiveBack
  <2> QED BY <2>1 DEF Pool!Next
<1> QED BY <1>1, <1>2

(* A call that ends without having flipped its bit is one of the two       *)
(* exceptions of the pool.                                                 *)
LEMMA ReturnRefines ==
  ASSUME IInv, NEW p \in Procs, frame[p].pc # "idle", frame[p].addr \in Addr,
         Return(p, FALSE), store'.val = store.val
  PROVE  Pool!Next
<1> USE DEF Pool!None, None
<1>1. frame' = [frame EXCEPT ![p] = NoCall] /\ NoCall.op = "none"
  BY DEF Return, NoCall, Call
<1>2. CASE frame[p].op = "ReleaseIP"
  <2>1. held' = held /\ unmarked' = unmarked /\ kept' = TRUE
    <3>1. unmarked \in BOOLEAN
      BY DEF IInv, TypeOK
    <3> QED BY <1>2, <3>1, Zenon DEF Return
  <2>2. Pool!Keep(p)
    <3>1. frame[p].addr # None
      BY SizeNat DEF Addr
    <3> QED BY ZenonT(30), <1>1, <1>2, <2>1, <3>1 DEF returning, Releasing, IInv, TypeOK, Pool!Keep
  <2> QED BY <2>2 DEF Pool!Next
<1>3. CASE frame[p].op # "ReleaseIP"
  <2>1. /\ held' = [held EXCEPT ![p] = frame[p].addr]
        /\ unmarked' = TRUE /\ kept' = kept
    <3>1. kept \in BOOLEAN
      BY DEF IInv, TypeOK
    <3> QED BY <1>3, <3>1, Zenon DEF Return
  <2>2. Pool!GrantUnmarked(p, frame[p].addr)
    BY <1>1, <1>3, <2>1
    DEF returning, Releasing, IInv, TypeOK, CallInv, Pool!GrantUnmarked, Pool!Idle
  <2> QED BY <2>2 DEF Pool!Next, Pool!Addr, Addr
<1> QED BY <1>2, <1>3

(* Reading the array changes nothing for the pool, unless the call gives   *)
(* up.                                                                     *)
LEMMA GetArrayRefines ==
  ASSUME IInv, NEW p \in Procs, GetArray(p)
  PROVE  Pool!Next \/ UNCHANGED Pool!vars
<1> USE DEF None
<1> DEFINE f == frame[p]
<1>1. PICK reply \in ArrayReplies(f) :
        IF f.op # "RequestIP" /\ ~Found(reply)
        THEN Return(p, FALSE)
        ELSE LET c == Compute(f.op, f.addr, reply.val)
             IN  /\ frame' = [frame EXCEPT ![p] =
                      [f EXCEPT !.pc = "putget", !.addr = c.pos,
                                !.oldArray = reply.val,
                                !.newArray = c.bits]]
                 /\ UNCHANGED <<held, unmarked, kept>>
  BY Zenon DEF GetArray
<1>2. f.pc = "get" /\ f \in Frame /\ store' = store
  BY DEF GetArray, IInv, TypeOK
<1>3. CASE f.op # "RequestIP" /\ ~Found(reply)
  <2>1. f.addr \in Addr
    BY <1>2, <1>3, SizeNat DEF IInv, CallInv, Frame, Addr
  <2> QED BY Zenon, <1>1, <1>2, <1>3, <2>1, ReturnRefines
<1>4. CASE f.op = "RequestIP" \/ Found(reply)
  <2> DEFINE c == Compute(f.op, f.addr, reply.val)
             g == [f EXCEPT !.pc = "putget", !.addr = c.pos,
                            !.oldArray = reply.val, !.newArray = c.bits]
  <2>1. frame' = [frame EXCEPT ![p] = g] /\ UNCHANGED <<held, unmarked, kept>>
    BY Zenon, <1>1, <1>4
  <2>2. f.op = "ReleaseIP" => c.pos = f.addr
    BY DEF Compute
  <2> HIDE DEF c
  <2>3. g.op = f.op /\ g.addr = c.pos
    BY <1>2 DEF Frame
  <2> HIDE DEF g
  <2>4. \A q \in Procs : Releasing(q)' = Releasing(q)
    BY <2>1, <2>2, <2>3 DEF Releasing, IInv, TypeOK
  <2> QED BY <1>2, <2>1, <2>4 DEF returning, Pool!vars
<1> QED BY <1>3, <1>4

(* Neither does the Get inside Put, with or without a retry. *)
LEMMA PutGetRefines ==
  ASSUME IInv, NEW p \in Procs, PutGet(p)
  PROVE  UNCHANGED Pool!vars
<1> DEFINE f == frame[p]
<1>1. PICK g : /\ frame' = [frame EXCEPT ![p] = g]
              /\ g.op = f.op /\ (f.op = "ReleaseIP" => g.addr = f.addr)
  <2>1. f \in Frame
    BY SMTT(30) DEF IInv, TypeOK
  <2>2. PICK reply \in Get(store, {}, mayFail) :
          frame' = [frame EXCEPT ![p] =
            IF Outdated(reply, f.oldArray)
            THEN Call(f.op, IF f.op = "RequestIP" THEN None ELSE f.addr)
            ELSE [f EXCEPT !.pc = "cas", !.casIndex = reply.idx]]
    BY Zenon DEF PutGet
  <2>3. CASE Outdated(reply, f.oldArray)
    <3> DEFINE g == Call(f.op, IF f.op = "RequestIP" THEN None ELSE f.addr)
    <3>1. g.op = f.op /\ (f.op = "ReleaseIP" => g.addr = f.addr)
      BY DEF Call
    <3>2. frame' = [frame EXCEPT ![p] = g]
      BY <2>2, <2>3
    <3> QED BY Zenon, <3>1, <3>2
  <2>4. CASE ~Outdated(reply, f.oldArray)
    <3> DEFINE g == [f EXCEPT !.pc = "cas", !.casIndex = reply.idx]
    <3>1. g.op = f.op /\ g.addr = f.addr
      BY <2>1 DEF Frame
    <3>2. frame' = [frame EXCEPT ![p] = g]
      BY <2>2, <2>4
    <3> QED BY Zenon, <3>1, <3>2
  <2> QED BY <2>3, <2>4
<1>2. \A q \in Procs : Releasing(q)' = Releasing(q)
  BY <1>1 DEF Releasing, IInv, TypeOK
<1> QED BY <1>2 DEF PutGet, returning, Pool!vars

(* The PUT is the step at which an operation takes effect. *)
LEMMA PutCasRefines ==
  ASSUME IInv, NEW p \in Procs, PutCas(p)
  PROVE  Pool!Next
<1> USE DEF Pool!None, None
<1> DEFINE f == frame[p]
           b == f.addr - 1
<1>1. f.pc = "cas" /\ f.addr \in Addr /\ PendingWrite(f) /\ held[p] = None
  BY DEF PutCas, IInv, CallInv
<1>2. PICK o \in CasOutcomes(store, f.casIndex, mayFail) :
        /\ store' = IF o.applied THEN Written(store, f.newArray) ELSE store
        /\ Return(p, o.applied /\ f.newArray # store.val)
  BY DEF PutCas
<1>3. CASE ~(o.applied /\ f.newArray # store.val)
  <2>1. store'.val = store.val
    BY <1>2, <1>3, OutcomeProps DEF Written
  <2>2. Return(p, FALSE)
    BY <1>2, <1>3, Zenon DEF Return
  <2> QED BY Zenon, <1>1, <2>1, <2>2, ReturnRefines
<1>4. CASE o.applied /\ f.newArray # store.val
  <2>1. store.val = f.oldArray /\ store'.val = f.newArray
    BY <1>1, <1>2, <1>4, AppliedFindsOldArray DEF Written
  <2>2. frame' = [frame EXCEPT ![p] = NoCall] /\ NoCall.op = "none"
    BY <1>2 DEF Return, NoCall, Call
  <2>3. /\ held' = IF f.op = "ReleaseIP" THEN held ELSE [held EXCEPT ![p] = f.addr]
        /\ unmarked' = unmarked /\ kept' = kept
    <3>1. unmarked \in BOOLEAN /\ kept \in BOOLEAN
      BY DEF IInv, TypeOK
    <3> QED BY <1>2, <1>4, <3>1, Zenon DEF Return
  <2>4. CASE f.op = "ReleaseIP"
    <3>1. store'.val = store.val \ {b} /\ b \in store.val
      BY <1>1, <1>4, <2>1, <2>4 DEF PendingWrite
    <3>2. Pool!Unmark(p)
      BY Zenon, <2>2, <2>3, <2>4, <3>1 DEF returning, Releasing, IInv, TypeOK, Pool!Unmark
    <3> QED BY <3>2 DEF Pool!Next
  <2>5. CASE f.op # "ReleaseIP"
    <3>1. b \in Bit /\ b \notin store.val /\ store'.val = store.val \cup {b}
      BY <1>1, <1>4, <2>1, <2>5 DEF PendingWrite
    <3>2. b + 1 = f.addr
      BY <1>1 DEF Addr
    <3>3. Pool!Grant(p, b)
      BY Zenon, <1>1, <2>2, <2>3, <2>5, <3>1, <3>2
      DEF returning, Releasing, IInv, TypeOK, Pool!Grant, Pool!Idle, Pool!Bit, Bit
    <3> QED BY <3>1, <3>3 DEF Pool!Next, Pool!Bit, Bit
  <2> QED BY <2>4, <2>5
<1> QED BY <1>3, <1>4

(* RequestIP, MarkUsed and ReleaseIP, each a loop of calls to consul       *)
(* interleaved with those of other callers, implement the atomic pool.     *)
THEOREM ImplementsAddressPool == Spec => ImplementsPool
<1>1. Init => Pool!Init
  BY DEF Init, Pool!Init, Pool!None, None, Absent, NoCall, Call, returning, Releasing
<1>2. IInv /\ [Next]_vars => [Pool!Next]_(Pool!vars)
  <2> SUFFICES ASSUME IInv, [Next]_vars PROVE Pool!Next \/ UNCHANGED Pool!vars
    OBVIOUS
  <2>1. CASE UNCHANGED vars
    BY <2>1 DEF vars, Pool!vars, returning, Releasing
  <2>2. CASE Next
    BY <2>2, StartRefines, GetArrayRefines, PutGetRefines, PutCasRefines
    DEF Next, Step
  <2> QED BY <2>1, <2>2
<1>3. Spec => []IInv
  BY SpecIInv
<1> QED BY <1>1, <1>2, <1>3, PTL DEF Spec, ImplementsPool, Pool!Spec

-----------------------------------------------------------------------------
PoolInv == Pool!TypeOK /\ Pool!OneAddress /\ Pool!OwnedOnce /\ Pool!MarksOwned

(* The empty pool satisfies the invariant. *)
LEMMA PoolInitInv == Pool!Init => PoolInv
<1> SUFFICES ASSUME Pool!Init PROVE PoolInv
  OBVIOUS
<1>1. Pool!TypeOK
  BY Zenon DEF Pool!Init, Pool!TypeOK
<1>2. Pool!OneAddress /\ Pool!OwnedOnce /\ Pool!MarksOwned
  BY DEF Pool!Init, Pool!OneAddress, Pool!OwnedOnce, Pool!MarksOwned, Pool!Owns,
         Pool!Addr, Pool!None
<1> QED BY <1>1, <1>2 DEF PoolInv

(* Marking a free bit and handing its address out in one step. *)
LEMMA PoolGrantInv ==
  ASSUME PoolInv, NEW p \in Procs, NEW b \in Pool!Bit, Pool!Grant(p, b)
  PROVE  PoolInv'
<1> USE SizeNat DEF Pool!Bit, Pool!Addr, Pool!None
<1>1. Pool!TypeOK' /\ Pool!OneAddress'
  BY DEF PoolInv, Pool!TypeOK, Pool!OneAddress, Pool!Grant, Pool!Idle
<1>2. Pool!OwnedOnce'
  BY DEF PoolInv, Pool!TypeOK, Pool!OneAddress, Pool!OwnedOnce,
         Pool!Owns, Pool!Grant, Pool!Idle
<1>3. Pool!MarksOwned'
  BY DEF PoolInv, Pool!TypeOK, Pool!OneAddress, Pool!MarksOwned,
         Pool!Owns, Pool!Grant, Pool!Idle
<1> QED BY <1>1, <1>2, <1>3 DEF PoolInv

(* Handing out an unmarked address gives up the first promise only. *)
LEMMA PoolGrantUnmarkedInv ==
  ASSUME PoolInv, NEW p \in Procs, NEW a \in Pool!Addr, Pool!GrantUnmarked(p, a)
  PROVE  PoolInv'
<1> USE SizeNat DEF Pool!Bit, Pool!Addr, Pool!None
<1>1. Pool!TypeOK' /\ Pool!OneAddress' /\ Pool!OwnedOnce'
  BY DEF PoolInv, Pool!TypeOK, Pool!OneAddress, Pool!OwnedOnce, Pool!GrantUnmarked, Pool!Idle
<1>2. Pool!MarksOwned'
  BY DEF PoolInv, Pool!TypeOK, Pool!OneAddress, Pool!MarksOwned,
         Pool!Owns, Pool!GrantUnmarked, Pool!Idle
<1> QED BY <1>1, <1>2 DEF PoolInv

(* A caller that gives its address back still owns it. *)
LEMMA PoolGiveBackInv ==
  ASSUME PoolInv, NEW p \in Procs, Pool!GiveBack(p)
  PROVE  PoolInv'
<1> USE SizeNat DEF Pool!Bit, Pool!Addr, Pool!None
<1>1. Pool!TypeOK' /\ Pool!OneAddress'
  BY DEF PoolInv, Pool!TypeOK, Pool!OneAddress, Pool!GiveBack
<1>2. \A q \in Procs : \A a \in Pool!Addr : Pool!Owns(q, a)' <=> Pool!Owns(q, a)
  BY DEF PoolInv, Pool!TypeOK, Pool!OneAddress, Pool!Owns, Pool!GiveBack
<1>3. Pool!OwnedOnce' /\ Pool!MarksOwned'
  BY <1>2 DEF PoolInv, Pool!TypeOK, Pool!OwnedOnce, Pool!MarksOwned, Pool!GiveBack
<1> QED BY <1>1, <1>3 DEF PoolInv

(* Clearing the mark of the address given back touches no other owner. *)
LEMMA PoolUnmarkInv ==
  ASSUME PoolInv, NEW p \in Procs, Pool!Unmark(p)
  PROVE  PoolInv'
<1> USE SizeNat DEF Pool!Bit, Pool!Addr, Pool!None
<1>1. Pool!TypeOK' /\ Pool!OneAddress'
  BY DEF PoolInv, Pool!TypeOK, Pool!OneAddress, Pool!Unmark
<1>2. Pool!OwnedOnce'
  BY DEF PoolInv, Pool!TypeOK, Pool!OneAddress, Pool!OwnedOnce,
         Pool!Owns, Pool!Unmark
<1>3. Pool!MarksOwned'
  BY DEF PoolInv, Pool!TypeOK, Pool!OneAddress, Pool!MarksOwned,
         Pool!Owns, Pool!Unmark
<1> QED BY <1>1, <1>2, <1>3 DEF PoolInv

(* Leaving a mark behind gives up the second promise only. *)
LEMMA PoolKeepInv ==
  ASSUME PoolInv, NEW p \in Procs, Pool!Keep(p)
  PROVE  PoolInv'
<1> USE SizeNat DEF Pool!Bit, Pool!Addr, Pool!None
<1>1. Pool!TypeOK' /\ Pool!OneAddress' /\ Pool!MarksOwned'
  BY DEF PoolInv, Pool!TypeOK, Pool!OneAddress, Pool!MarksOwned, Pool!Keep
<1>2. Pool!OwnedOnce'
  BY DEF PoolInv, Pool!TypeOK, Pool!OwnedOnce, Pool!Owns, Pool!Keep
<1> QED BY <1>1, <1>2 DEF PoolInv

(* Every behaviour of the abstract pool keeps both promises. *)
THEOREM PoolSafe == Pool!Spec => []PoolInv
<1>1. Pool!Init => PoolInv
  BY PoolInitInv
<1>2. PoolInv /\ [Pool!Next]_(Pool!vars) => PoolInv'
  <2> SUFFICES ASSUME PoolInv, [Pool!Next]_(Pool!vars) PROVE PoolInv'
    OBVIOUS
  <2>1. CASE UNCHANGED Pool!vars
    BY <2>1 DEF Pool!vars, PoolInv, Pool!TypeOK, Pool!OneAddress, Pool!OwnedOnce,
                Pool!MarksOwned, Pool!Owns
  <2>2. CASE Pool!Next
    BY <2>2, PoolGrantInv, PoolGrantUnmarkedInv, PoolGiveBackInv, PoolUnmarkInv,
       PoolKeepInv DEF Pool!Next
  <2> QED BY <2>1, <2>2
<1> QED BY <1>1, <1>2, PTL DEF Pool!Spec

(* IPAM inherits the invariant of the pool it implements. *)
LEMMA PoolInvariant == Spec => []PoolInv
BY ImplementsAddressPool, PoolSafe, PTL DEF ImplementsPool

(* Until RequestIP or MarkUsed hands out an address it did not mark, two   *)
(* callers never own the same address, and every owned address is marked.  *)
THEOREM ExclusiveUntilUnmarked == Spec => []Exclusive
<1>1. PoolInv => Exclusive
  BY DEF PoolInv, Pool!OwnedOnce, Pool!Owns, Pool!Addr,
         Exclusive, Owns, Addr, returning
<1> QED BY <1>1, PoolInvariant, PTL

(* Until a ReleaseIP returns without clearing its bit, every marked        *)
(* address is in use or being released: none is lost.                      *)
THEOREM NoLeakUntilKept == Spec => []NoLeak
<1>1. PoolInv => NoLeak
  BY DEF PoolInv, Pool!MarksOwned, Pool!Owns, NoLeak, Owns, returning
<1> QED BY <1>1, PoolInvariant, PTL
=============================================================================
