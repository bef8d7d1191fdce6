-------------------------------- MODULE IPAM --------------------------------
(***************************************************************************)
(* The address pool of one network (server/network.go): RequestIP,         *)
(* MarkUsed and ReleaseIP on one bitmap of ipStore, run by callers on      *)
(* several nodes.  Every call to consul is a step of its own, so the       *)
(* callers interleave between a Get, the Get inside Put and its PUT.       *)
(*                                                                         *)
(* A caller is what owns an address: addConnection for a container, or     *)
(* CreateNetwork for a gateway.  It asks for one address (RequestIP, or    *)
(* MarkUsed for an address chosen by the user), keeps it, and gives it     *)
(* back with ReleaseIP.  Each caller stands for a goroutine of its own:    *)
(* the connHandler of a node, or an API request.                           *)
(*                                                                         *)
(* An address is its offset from the base of the subnet: RequestIP returns *)
(* base + pos, the other two operations compute addr - base - 1.           *)
(***************************************************************************)
EXTENDS NetAgent, BitSet

CONSTANTS
  Procs,      \* the callers
  IPCount,    \* number of addresses of the subnet, a power of two
  ByteBits,   \* bits in a byte of the bitmap: 8 in the code
  Chosen,     \* the addresses users ask for by name
  MaxOps,     \* bound: addresses the callers ask for, all together
  MaxFaults   \* bound: calls to consul that fail

(* The bytes of the bitmap: IPCount bits, the last byte filled up. *)
bc == IPCount \div ByteBits + IF IPCount % ByteBits # 0 THEN 1 ELSE 0

Size == bc * ByteBits
Bit == 0 .. Size - 1

(* The offsets RequestIP can return; Size + 1 is its answer when all bits  *)
(* are set.  None stands for "no address".                                 *)
Addr == 1 .. Size + 1
None == 0

ASSUME ConstantsAssumption ==
  /\ IPCount \in Nat \ {0}
  /\ ByteBits \in Nat \ {0}
  /\ Chosen \subseteq 1 .. Size
  /\ MaxOps \in Nat
  /\ MaxFaults \in Nat

VARIABLES
  store,     \* the ipStore entry of the network: its marked bits
  frame,     \* the call each caller is in: its local variables
  held,      \* the address each caller uses
  ops,       \* addresses asked for so far
  faults,    \* failed calls to consul so far
  unmarked,  \* history: an address was handed out that its caller did not mark
  kept       \* history: a ReleaseIP returned without clearing the bit

vars == <<store, frame, held, ops, faults, unmarked, kept>>

(* The local variables of a call: pc is the call to consul that comes      *)
(* next, casIndex the ModifyIndex found by the Get inside Put.             *)
Frame == [pc : {"idle", "get", "putget", "cas"},
          op : {"none", "RequestIP", "MarkUsed", "ReleaseIP"},
          addr : Addr \cup {None},
          oldArray : SUBSET Bit,
          newArray : SUBSET Bit,
          casIndex : Nat]

Call(o, a) == [pc |-> "get", op |-> o, addr |-> a,
               oldArray |-> {}, newArray |-> {}, casIndex |-> 0]

NoCall == [Call("none", None) EXCEPT !.pc = "idle"]

Init ==
  /\ store = Absent({})
  /\ frame = [p \in Procs |-> NoCall]
  /\ held = [p \in Procs |-> None]
  /\ ops = 0
  /\ faults = 0
  /\ unmarked = FALSE
  /\ kept = FALSE

mayFail == faults < MaxFaults

-----------------------------------------------------------------------------
(* The calls of the owner of an address. *)

Start(p, o, a) ==
  /\ frame[p].pc = "idle"
  /\ frame' = [frame EXCEPT ![p] = Call(o, a)]
  /\ UNCHANGED <<store, faults, unmarked, kept>>

RequestIP(p) ==
  /\ held[p] = None /\ ops < MaxOps
  /\ Start(p, "RequestIP", None)
  /\ ops' = ops + 1
  /\ UNCHANGED held

(* The address is the user's choice; one outside the bitmap would index    *)
(* the array out of range and is not an input here.                        *)
MarkUsed(p, a) ==
  /\ held[p] = None /\ ops < MaxOps
  /\ Start(p, "MarkUsed", a)
  /\ ops' = ops + 1
  /\ UNCHANGED held

(* deleteConnection removes the port, then releases the address. *)
ReleaseIP(p) ==
  /\ held[p] # None
  /\ Start(p, "ReleaseIP", held[p])
  /\ held' = [held EXCEPT ![p] = None]
  /\ UNCHANGED ops

-----------------------------------------------------------------------------
(* The end of an operation: a caller of RequestIP or MarkUsed uses the     *)
(* address whatever the operation returned.  flipped says whether the      *)
(* operation itself changed the bit of its address.                        *)
Return(p, flipped) ==
  LET release == frame[p].op = "ReleaseIP"
  IN  /\ frame' = [frame EXCEPT ![p] = NoCall]
      /\ held' = IF release THEN held ELSE [held EXCEPT ![p] = frame[p].addr]
      /\ unmarked' = (unmarked \/ (~release /\ ~flipped))
      /\ kept' = (kept \/ (release /\ ~flipped))

(* Mutants of Compute: MarkUsed does not subtract the base of the subnet;  *)
(* ReleaseIP clears the bit of the 1 based index.                          *)
ComputeWithoutBase(o, a, array) ==
  CASE o = "RequestIP" -> TestAndSet(array, Size)
    [] o = "MarkUsed"  -> [bits |-> Set(array, Size + a - 1), pos |-> a]
    [] o = "ReleaseIP" -> [bits |-> Clear(array, a - 1), pos |-> a]

ComputeClearsNext(o, a, array) ==
  CASE o = "RequestIP" -> TestAndSet(array, Size)
    [] o = "MarkUsed"  -> [bits |-> Set(array, a - 1), pos |-> a]
    [] o = "ReleaseIP" -> [bits |-> Clear(array, a), pos |-> a]

(* What the array becomes, and the address the operation is about. *)
Compute(o, a, array) ==
  CASE o = "RequestIP" -> TestAndSet(array, Size)
    [] o = "MarkUsed"  -> [bits |-> Set(array, a - 1), pos |-> a]
    [] o = "ReleaseIP" -> [bits |-> Clear(array, a - 1), pos |-> a]

(* deleteConnection takes the subnet from the address itself: for an       *)
(* offset past the subnet it is another subnet, whose key does not exist.  *)
ArrayReplies(f) ==
  IF f.op = "ReleaseIP" /\ f.addr >= IPCount
  THEN {Absent({})} ELSE Get(store, {}, mayFail)

(* Without a bitmap MarkUsed and ReleaseIP return false, and RequestIP     *)
(* starts from zeros.                                                      *)
GetArray(p) ==
  LET f == frame[p]
  IN  /\ f.pc = "get"
      /\ \E reply \in ArrayReplies(f) :
           /\ IF f.op # "RequestIP" /\ ~Found(reply)
              THEN Return(p, FALSE)
              ELSE LET c == Compute(f.op, f.addr, reply.val)
                   IN  /\ frame' = [frame EXCEPT ![p] =
                            [f EXCEPT !.pc = "putget", !.addr = c.pos,
                                      !.oldArray = reply.val,
                                      !.newArray = c.bits]]
                       /\ UNCHANGED <<held, unmarked, kept>>
           /\ faults' = IF store \in ArrayReplies(f) /\ reply # store
                        THEN faults + 1 ELSE faults
      /\ UNCHANGED <<store, ops>>

(* Put's own Get.  OUTDATED: the operation calls itself and starts over. *)
PutGet(p) ==
  LET f == frame[p]
  IN  /\ f.pc = "putget"
      /\ \E reply \in Get(store, {}, mayFail) :
           /\ frame' = [frame EXCEPT ![p] =
                IF Outdated(reply, f.oldArray)
                THEN Call(f.op, IF f.op = "RequestIP" THEN None ELSE f.addr)
                ELSE [f EXCEPT !.pc = "cas", !.casIndex = reply.idx]]
           /\ faults' = IF reply # store THEN faults + 1 ELSE faults
      /\ UNCHANGED <<store, held, ops, unmarked, kept>>

(* Put's PUT.  It does not return OUTDATED, and OK and ERROR are the same  *)
(* to all three operations: they return.                                   *)
PutCas(p) ==
  LET f == frame[p]
  IN  /\ f.pc = "cas"
      /\ \E o \in CasOutcomes(store, f.casIndex, mayFail) :
           /\ store' = IF o.applied THEN Written(store, f.newArray) ELSE store
           /\ faults' = IF o \in CasOutcomes(store, f.casIndex, FALSE)
                        THEN faults ELSE faults + 1
           /\ Return(p, o.applied /\ f.newArray # store.val)
      /\ UNCHANGED ops

Step(p) == GetArray(p) \/ PutGet(p) \/ PutCas(p)

Next ==
  \E p \in Procs :
    \/ RequestIP(p)
    \/ \E a \in Chosen : MarkUsed(p, a)
    \/ ReleaseIP(p)
    \/ Step(p)

Spec == Init /\ [][Next]_vars

(* A call that has begun goes on: goroutines are scheduled and consul      *)
(* answers, if only with an error.                                         *)
FairSpec == Spec /\ \A p \in Procs : WF_vars(Step(p))

-----------------------------------------------------------------------------
TypeOK ==
  /\ store \in [val : SUBSET Bit, idx : Nat]
  /\ frame \in [Procs -> Frame]
  /\ held \in [Procs -> Addr \cup {None}]
  /\ ops \in 0 .. MaxOps
  /\ faults \in 0 .. MaxFaults
  /\ unmarked \in BOOLEAN
  /\ kept \in BOOLEAN

(***************************************************************************)
(* What makes the interleaved calls safe.  A pending write changes only    *)
(* the bit of its address, starting from oldArray; and if its PUT would be *)
(* applied, oldArray is what the store holds, so that nothing another      *)
(* caller wrote since then is overwritten.  For a create (casIndex 0) this *)
(* rests on bitmaps never being deleted: a caller that found one never     *)
(* meets an absent key afterwards.                                         *)
(***************************************************************************)
PendingWrite(f) ==
  LET b == f.addr - 1
  IN  IF f.op = "ReleaseIP"
      THEN f.newArray = f.oldArray \ {b}
      ELSE \/ f.newArray = f.oldArray
           \/ b \in Bit /\ f.newArray = f.oldArray \cup {b}

CallInv ==
  /\ store.idx = 0 => store.val = {}
  /\ \A p \in Procs :
       LET f == frame[p]
       IN  /\ f.pc = "idle" <=> f.op = "none"
           /\ f.pc # "idle" => held[p] = None
           /\ f.op = "MarkUsed" => f.addr \in 1 .. Size
           /\ f.op = "ReleaseIP" => f.addr \in Addr
           /\ f.pc \in {"putget", "cas"} =>
                /\ f.addr \in Addr
                /\ PendingWrite(f)
                /\ store.idx = 0 => f.oldArray = {}
           /\ f.pc = "cas" =>
                /\ f.casIndex <= store.idx
                /\ f.casIndex = store.idx => store.val = f.oldArray

(* The address p is responsible for: it uses it, or is giving it back. *)
Releasing(p) == IF frame[p].op = "ReleaseIP" THEN frame[p].addr ELSE None
Owns(p, a) == held[p] = a \/ Releasing(p) = a

(* As long as every RequestIP and MarkUsed flipped the bit of the address  *)
(* it handed out (network.go:422, 476), two callers never own the same     *)
(* address and every owned address is marked, whatever the interleaving.   *)
Exclusive ==
  ~unmarked => \A p \in Procs : \A a \in Addr : Owns(p, a) =>
                 /\ a - 1 \in store.val
                 /\ \A q \in Procs \ {p} : ~Owns(q, a)

(* As long as every ReleaseIP flipped its bit (network.go:510), no address *)
(* is lost: every mark belongs to a caller that uses its address or is in  *)
(* ReleaseIP for it, even when addresses were handed out unmarked.         *)
NoLeak ==
  ~kept => \A b \in store.val : \E p \in Procs : Owns(p, b + 1)

(* The check-and-set loop (netAgent.go:252) loses no update: a write       *)
(* leaves every bit as it is but the one of the address of its operation,  *)
(* also after failed Gets.                                                 *)
WritesOwnBit ==
  [][\A p \in Procs : frame'[p] # frame[p] =>
       LET b == frame[p].addr - 1 IN store'.val \ {b} = store.val \ {b}]_vars

(* The retries after OUTDATED (network.go:426, 480, 514) come to an end:   *)
(* every call returns once the other callers ask for no more addresses.    *)
CallsReturn == \A p \in Procs : frame[p].pc # "idle" ~> frame[p].pc = "idle"

(* The operations, each several calls to consul, implement the steps of    *)
(* the abstract pool.                                                      *)
returning == [p \in Procs |-> Releasing(p)]
Pool == INSTANCE AddressPool WITH bits <- store.val
ImplementsPool == Pool!Spec

-----------------------------------------------------------------------------
(* "Get an IP from the unused subnet and mark it as used"                  *)
(* (network.go:402): an address in use is marked, and used once.           *)
UsedIsMarked ==
  \A p \in Procs : held[p] # None =>
    held[p] - 1 \in store.val /\ \A q \in Procs \ {p} : held[q] # held[p]
=============================================================================
