--------------------------- MODULE NetworkProofs ----------------------------
(***************************************************************************)
(* Proofs about Network, for any number of nodes, names, subnets, VNIs,    *)
(* addresses, requests and failed calls.                                   *)
(***************************************************************************)
EXTENDS Network, BitSetProofs, TLAPS

Loop == [pc : {"poll", "add", "setUp"}, snap : [Names -> Network],
         todo : SUBSET Names, cur : Names \cup {"none"}]

PutPcs == {"putVNI", "casVNI"}
CreatePcs == {"allocateVNI", "getIfaceAddr", "addInternalPort", "setUp", "putNet", "casNet",
              "releaseIP"}

(* The request has no gateway yet. *)
Early(f) == \/ f.pc \in {"getNetwork", "allocateVNI", "getIfaceAddr"}
            \/ f.pc \in PutPcs /\ f.op = "allocate"

(* The local variables of a request agree with where it is. *)
Local(f) ==
  /\ f.pc = "idle" <=> f.act = "none"
  /\ f.pc # "idle" => f.node \in Nodes /\ f.name \in Names
  /\ f.act = "create" =>
       /\ f.subnet \in Subnets
       /\ IF Early(f) THEN f.gateway = 0 ELSE f.gateway \in 1 .. Hosts + 1
  /\ f.pc \in CreatePcs => f.act = "create"
  /\ f.pc \in {"delete", "deletePort"} => f.act = "delete"
  /\ f.pc \in PutPcs => f.op = "release" \/ (f.op = "allocate" /\ f.act = "create")
  /\ f.pc \notin {"idle", "getNetwork", "allocateVNI"} => f.vni \in VNI
  /\ f.pc = "delete" => f.read # NoNet /\ f.vni = f.read.vni

(* A network that is stored, or was when syncNetwork read it, is complete. *)
Complete(net) ==
  net # NoNet => net.subnet \in Subnets /\ net.gateway \in 1 .. Hosts + 1 /\ net.vni \in VNI

LoopInv(g) ==
  /\ \A a \in Names : Complete(g.snap[a])
  /\ g.todo \subseteq {a \in Names : g.snap[a] # NoNet}
  /\ g.pc = "setUp" => g.cur \in Names /\ g.snap[g.cur] # NoNet

(* A pending write of the pool changes the mark of its VNI only, and if    *)
(* its PUT would be applied it starts from what the store holds.           *)
WriteInv(f) ==
  /\ f.pc \in PutPcs =>
       /\ IF f.op = "release" THEN f.newVal = f.oldVal \ {f.vni - 1}
          ELSE f.vni - 1 \notin f.oldVal /\ f.newVal = f.oldVal \cup {f.vni - 1}
       /\ vlan.idx = 0 => f.oldVal = {}
  /\ f.pc = "casVNI" =>
       /\ f.casIndex <= vlan.idx
       /\ f.casIndex = vlan.idx => vlan.val = f.oldVal

Shape ==
  /\ TypeOK
  /\ \A r \in Reqs : Local(req[r])
  /\ \A a \in Names : Complete(nets[a])
  /\ \A n \in Nodes : LoopInv(sync[n])

PoolInv ==
  /\ vlan.idx = 0 => vlan.val = {}
  /\ \A r \in Reqs : WriteInv(req[r])

(* The gateways that creations in progress have asked for are marked, and  *)
(* neither two of them nor one of them and a stored network's are the same *)
(* address.                                                                *)
Reserved ==
  ~unreserved => \A r \in Reqs : Reserves(r) =>
    /\ req[r].gateway - 1 \in ips[Key(req[r])]
    /\ \A q \in Reqs \ {r} : Reserves(q) /\ Key(req[q]) = Key(req[r]) =>
         req[q].gateway # req[r].gateway
    /\ \A a \in Names : Key(nets[a]) = Key(req[r]) => nets[a].gateway # req[r].gateway

IInv == Shape /\ PoolInv /\ UniqueVNI /\ Reserved /\ GatewaysMarked

-----------------------------------------------------------------------------
(* Frames: what a step that changes one request leaves alone. *)

Others(r) == \A q \in Reqs \ {r} : req'[q] = req[q]

(* All but the label stays. *)
Same(r) ==
  /\ req'[r].act = req[r].act /\ req'[r].node = req[r].node /\ req'[r].name = req[r].name
  /\ req'[r].subnet = req[r].subnet /\ req'[r].vni = req[r].vni
  /\ req'[r].gateway = req[r].gateway /\ req'[r].read = req[r].read /\ req'[r].op = req[r].op
  /\ req'[r].oldVal = req[r].oldVal /\ req'[r].newVal = req[r].newVal

LEMMA NoNetType == NoNet \in Network /\ NoNet.vni = 0 /\ NoNet.gateway = 0
  BY NetworkAssumption DEF NoNet, Network

LEMMA NoReqType ==
  /\ NoReq \in Request /\ NoReq.pc = "idle" /\ NoReq.act = "none"
  /\ Local(NoReq)
<1>1. /\ NoReq.pc = "idle" /\ NoReq.act = "none"
  BY Zenon DEF NoReq
<1>2. NoReq \in Request
  <2>1. NoNet \in Network /\ {} \in Bits /\ 0 \in 0 .. vlanCount /\ 0 \in 0 .. Hosts + 1
    BY NoNetType, NetworkAssumption DEF Bits
  <2> QED BY Zenon, <2>1 DEF NoReq, Request, Labels
<1> QED BY Zenon, <1>1, <1>2 DEF Local, CreatePcs, PutPcs

LEMMA GotoProps ==
  ASSUME TypeOK, NEW r \in Reqs, NEW label \in Labels, Goto(r, label)
  PROVE  req' \in [Reqs -> Request] /\ Others(r) /\ Same(r) /\ req'[r].pc = label
<1>1. req \in [Reqs -> Request] /\ req[r] \in Request
  BY Zenon DEF TypeOK
<1> DEFINE f == [req[r] EXCEPT !.pc = label]
<1>2. /\ f \in Request /\ f.pc = label
      /\ f.act = req[r].act /\ f.node = req[r].node /\ f.name = req[r].name
      /\ f.subnet = req[r].subnet /\ f.vni = req[r].vni
      /\ f.gateway = req[r].gateway /\ f.read = req[r].read /\ f.op = req[r].op
      /\ f.oldVal = req[r].oldVal /\ f.newVal = req[r].newVal
  BY Zenon, <1>1 DEF Request
<1>3. req' = [req EXCEPT ![r] = f]
  BY Zenon DEF Goto
<1> HIDE DEF f
<1>4. req' \in [Reqs -> Request] /\ req'[r] = f /\ Others(r)
  BY Zenon, <1>1, <1>2, <1>3 DEF Others
<1> QED BY Zenon, <1>2, <1>4 DEF Same

LEMMA ReturnProps ==
  ASSUME TypeOK, NEW r \in Reqs, Return(r)
  PROVE  /\ req' \in [Reqs -> Request] /\ Others(r) /\ req'[r] = NoReq
         /\ Local(req'[r]) /\ req'[r].pc = "idle" /\ req'[r].act = "none"
<1>1. req' = [req EXCEPT ![r] = NoReq] /\ req \in [Reqs -> Request]
  BY Zenon DEF Return, TypeOK
<1>2. req' \in [Reqs -> Request] /\ req'[r] = NoReq /\ Others(r)
  BY Zenon, <1>1, NoReqType DEF Others
<1> QED BY Zenon, <1>2, NoReqType

LEMMA FaultType ==
  ASSUME TypeOK, faults' = faults \/ (mayFail /\ faults' = faults + 1)
  PROVE  faults' \in 0 .. MaxFaults
  BY NetworkAssumption DEF TypeOK, mayFail

(* A step of one request that neither marks nor stores nor takes a         *)
(* gateway.                                                                *)
LEMMA GatewaysStay ==
  ASSUME IInv, NEW r \in Reqs, Others(r), ips' = ips, nets' = nets,
         ~unreserved' => ~unreserved, ~abandoned' => ~abandoned,
         Reserves(r)' => /\ Reserves(r) /\ Key(req'[r]) = Key(req[r])
                         /\ req'[r].gateway = req[r].gateway,
         Reserves(r) /\ ~abandoned' => Reserves(r)'
  PROVE  Reserved' /\ GatewaysMarked'
<1>1. \A q \in Reqs \ {r} : req'[q] = req[q]
  BY Zenon DEF Others
<1>2. /\ \A q \in Reqs : Reserves(q)' => /\ Reserves(q) /\ Key(req'[q]) = Key(req[q])
                                         /\ req'[q].gateway = req[q].gateway
      /\ \A q \in Reqs : Reserves(q) /\ ~abandoned' => Reserves(q)'
  BY Zenon, <1>1 DEF Reserves
<1>3. Reserved'
  BY Zenon, <1>2 DEF IInv, Reserved
<1>4. GatewaysMarked'
  BY <1>2 DEF IInv, GatewaysMarked
<1> QED BY Zenon, <1>3, <1>4

LEMMA ShapeStays ==
  ASSUME IInv, NEW r \in Reqs, TypeOK', Others(r), Local(req'[r]), nets' = nets, sync' = sync
  PROVE  Shape'
<1>1. \A q \in Reqs : Local(req'[q])
  BY Zenon DEF IInv, Shape, Others
<1>2. (\A a \in Names : Complete(nets'[a])) /\ \A n \in Nodes : LoopInv(sync'[n])
  BY Zenon DEF IInv, Shape
<1> QED BY Zenon, <1>1, <1>2 DEF Shape

LEMMA PoolStays ==
  ASSUME IInv, NEW r \in Reqs, Others(r), vlan' = vlan, WriteInv(req[r])'
  PROVE  PoolInv'
<1>1. \A q \in Reqs \ {r} : WriteInv(req[q])'
  BY DEF IInv, PoolInv, WriteInv, Others
<1> QED BY Zenon, <1>1 DEF IInv, PoolInv

(* No VNI is taken, or that is recorded. *)
LEMMA VNIsStay ==
  ASSUME IInv, NEW r \in Reqs, Others(r), vlan' = vlan, nets' = nets,
         ~discarded' => ~discarded, ~stale' => ~stale,
         ~discarded' /\ Holds(r)' => Holds(r) /\ req'[r].vni = req[r].vni
  PROVE  UniqueVNI'
<1>1. \A q \in Reqs : ~discarded' /\ Holds(q)' => Holds(q) /\ req'[q].vni = req[q].vni
  BY Zenon DEF Others, Holds
<1> QED BY Zenon, <1>1 DEF IInv, UniqueVNI

(* A step of one request that changes neither the pools nor the stored     *)
(* networks, and does not take a VNI or a gateway.                         *)
LEMMA QuietIInv ==
  ASSUME IInv, NEW r \in Reqs, TypeOK', Others(r), Local(req'[r]),
         vlan' = vlan, ips' = ips, nets' = nets, sync' = sync,
         ~discarded' => ~discarded, ~stale' => ~stale,
         ~unreserved' => ~unreserved, ~abandoned' => ~abandoned,
         WriteInv(req[r])',
         ~discarded' /\ Holds(r)' => Holds(r) /\ req'[r].vni = req[r].vni,
         Reserves(r)' => /\ Reserves(r) /\ Key(req'[r]) = Key(req[r])
                         /\ req'[r].gateway = req[r].gateway,
         Reserves(r) /\ ~abandoned' => Reserves(r)'
  PROVE  IInv'
<1>1. Shape' /\ PoolInv' /\ UniqueVNI'
  BY Zenon, ShapeStays, PoolStays, VNIsStay
<1>2. Reserved' /\ GatewaysMarked'
  BY Zenon, GatewaysStay
<1> QED BY Zenon, <1>1, <1>2 DEF IInv

(* A step of a loop changes neither. *)
LEMMA LoopIInv ==
  ASSUME IInv, NEW n \in Nodes, TypeOK',
         UNCHANGED <<vlan, ips, nets, req, history>>,
         \A m \in Nodes \ {n} : sync'[m] = sync[m], LoopInv(sync'[n])
  PROVE  IInv'
<1>1. UNCHANGED <<discarded, stale, unreserved, abandoned>>
  BY Zenon DEF history
<1>2. Shape'
  BY Zenon DEF IInv, Shape
<1>3. PoolInv'
  BY Zenon DEF IInv, PoolInv, WriteInv
<1>4. UniqueVNI'
  BY Zenon, <1>1 DEF IInv, UniqueVNI, Holds
<1>5. Reserved' /\ GatewaysMarked'
  BY <1>1 DEF IInv, Reserved, GatewaysMarked, Reserves, Key
<1> QED BY Zenon, <1>2, <1>3, <1>4, <1>5 DEF IInv

-----------------------------------------------------------------------------
(* No network, no request, empty pools. *)
LEMMA NoSyncType ==
  /\ NoSync \in Loop /\ NoSync.pc = "poll" /\ NoSync.todo = {} /\ NoSync.cur = "none"
  /\ NoSync.snap = [a \in Names |-> NoNet]
  BY Zenon, NoNetType DEF NoSync, Loop

LEMMA InitIInv == Init => IInv
<1> SUFFICES ASSUME Init PROVE IInv
  BY Zenon
<1>1. /\ vlan = [val |-> {}, idx |-> 0] /\ \A a \in Names : nets[a] = NoNet
      /\ \A r \in Reqs : req[r] = NoReq
      /\ \A n \in Nodes : sync[n] = NoSync
      /\ \A k \in VNI \X Subnets : ips[k] = {}
  BY Zenon DEF Init, Absent
<1>2. TypeOK
  <2>1. NoIface \in Interface
    BY NetworkAssumption DEF NoIface, Interface
  <2>2. sync \in [Nodes -> Loop]
    BY Zenon, NoSyncType DEF Init
  <2>3. req \in [Reqs -> Request] /\ nets \in [Names -> Network]
    BY Zenon, NoReqType, NoNetType DEF Init
  <2>4. {discarded, stale, unreserved, abandoned} \subseteq BOOLEAN
    BY Zenon DEF Init
  <2>5. made \in 0 .. MaxReqs /\ faults \in 0 .. MaxFaults
    BY NetworkAssumption DEF Init
  <2>6. /\ iface \in [Nodes -> [Names -> Interface]] /\ Gateways \in [Nodes -> SUBSET Names]
    BY Zenon, <2>1 DEF Init
  <2>7. vlan \in [val : Bits, idx : Nat]
    BY Zenon, <1>1 DEF Bits
  <2>8. ips \in [VNI \X Subnets -> SUBSET (0 .. Hosts - 1)]
    BY Zenon DEF Init
  <2>9. missed \subseteq Nodes \X Names
    BY Zenon DEF Init
  <2> QED BY Zenon, <2>2, <2>3, <2>4, <2>5, <2>6, <2>7, <2>8, <2>9 DEF TypeOK, Loop
<1>3. Shape
  <2>1. \A r \in Reqs : Local(req[r])
    BY Zenon, <1>1, NoReqType
  <2>2. \A a \in Names : Complete(nets[a])
    BY Zenon, <1>1 DEF Complete
  <2>3. \A n \in Nodes : LoopInv(sync[n])
    BY Zenon, <1>1, NoSyncType DEF LoopInv, Complete
  <2> QED BY Zenon, <1>2, <2>1, <2>2, <2>3 DEF Shape
<1>4. PoolInv
  BY Zenon, <1>1, NoReqType DEF PoolInv, WriteInv, PutPcs
<1>5. UniqueVNI
  BY Zenon, <1>1, NoReqType DEF UniqueVNI, Holds
<1>6. Reserved /\ GatewaysMarked
  BY Zenon, <1>1, NoReqType DEF Reserved, GatewaysMarked, Reserves
<1> QED BY Zenon, <1>3, <1>4, <1>5, <1>6 DEF IInv

-----------------------------------------------------------------------------
(* The interfaces of a node. *)

LEMMA DeletedPort ==
  ASSUME TypeOK, NEW n \in Nodes, NEW a \in Names, deletePort(n, a)
  PROVE  /\ iface' \in [Nodes -> [Names -> Interface]]
         /\ missed' \subseteq Nodes \X Names
         /\ faults' \in 0 .. MaxFaults
<1>1. NoIface \in Interface
  BY NetworkAssumption DEF NoIface, Interface
<1>2. CASE iface' = [iface EXCEPT ![n][a] = NoIface] /\ UNCHANGED <<missed, faults>>
  <2>1. iface' \in [Nodes -> [Names -> Interface]]
    BY Zenon, <1>1, <1>2 DEF TypeOK
  <2> QED BY Zenon, <1>2, <2>1 DEF TypeOK
<1>3. CASE /\ mayFail /\ faults' = faults + 1 /\ missed' = missed \cup {<<n, a>>}
           /\ iface' = iface
  <2>1. faults' \in 0 .. MaxFaults
    BY Zenon, <1>3, FaultType
  <2>2. missed' \subseteq Nodes \X Names
    <3>1. <<n, a>> \in Nodes \X Names /\ missed \subseteq Nodes \X Names
      BY Zenon DEF TypeOK
    <3> QED BY <1>3, <3>1
  <2> QED BY Zenon, <1>3, <2>1, <2>2 DEF TypeOK
<1> QED BY Zenon, <1>2, <1>3 DEF deletePort

LEMMA AddedPort ==
  ASSUME TypeOK, NEW n \in Nodes, NEW a \in Names, NEW tag \in 0 .. vlanCount,
         AddInternalPort(n, a, tag)
  PROVE  iface' \in [Nodes -> [Names -> Interface]]
<1>1. [tag |-> tag, ip |-> <<>>] \in Interface
  BY Zenon DEF Interface
<1> QED BY Zenon, <1>1 DEF TypeOK, AddInternalPort

(* Whether the port was added or not. *)
LEMMA AddPortFaults ==
  ASSUME TypeOK, NEW n \in Nodes, NEW a \in Names, NEW tag,
         AddInternalPort(n, a, tag) \/ AddInternalPortFails(n, a)
  PROVE  faults' \in 0 .. MaxFaults
<1>1. faults' = faults \/ (mayFail /\ faults' = faults + 1)
  BY Zenon DEF AddInternalPort, AddInternalPortFails, Fault
<1> QED BY Zenon, <1>1, FaultType

LEMMA SetUpType ==
  ASSUME NEW i \in Interface, NEW ip \in Subnets \X (1 .. Hosts + 1),
         NEW o \in SetUpOutcomes(i, ip)
  PROVE  o.iface \in Interface /\ o.ok \in BOOLEAN
<1> DEFINE set == [i EXCEPT !.ip = IF i.ip = <<>> THEN ip ELSE i.ip]
<1>1. set \in Interface
  BY Zenon DEF Interface
<1> HIDE DEF set
<1>2. \/ o = [iface |-> i, ok |-> FALSE]
      \/ o = [iface |-> set, ok |-> TRUE]
      \/ o = [iface |-> set, ok |-> FALSE]
  BY Zenon DEF SetUpOutcomes, set
<1>3. o.iface \in Interface
  BY <1>1, <1>2
<1>4. o.ok \in BOOLEAN
  <2>1. CASE o = [iface |-> i, ok |-> FALSE]
    <3>1. o.ok = FALSE
      BY Zenon, <2>1
    <3> QED BY <3>1, Zenon
  <2>2. CASE o = [iface |-> set, ok |-> TRUE]
    <3>1. o.ok = TRUE
      BY Zenon, <2>2
    <3> QED BY <3>1, Zenon
  <2>3. CASE o = [iface |-> set, ok |-> FALSE]
    <3>1. o.ok = FALSE
      BY Zenon, <2>3
    <3> QED BY <3>1, Zenon
  <2> QED BY Zenon, <1>2, <2>1, <2>2, <2>3
<1> QED BY Zenon, <1>3, <1>4

(* The flag of Fault: the counter stays, or a failure was possible. *)
LEMMA SetUpFault ==
  ASSUME NEW i, NEW ip, NEW o \in SetUpOutcomes(i, ip),
         Fault(~o.ok /\ \E x \in SetUpOutcomes(i, ip) : x.ok)
  PROVE  faults' = faults \/ (mayFail /\ faults' = faults + 1)
<1>1. CASE mayFail
  BY Zenon, <1>1 DEF Fault
<1>2. CASE ~mayFail
  <2>1. ~(~o.ok /\ \E x \in SetUpOutcomes(i, ip) : x.ok)
    BY <1>2, Zenon DEF SetUpOutcomes
  <2> QED BY Zenon, <2>1 DEF Fault
<1> QED BY Zenon, <1>1, <1>2

-----------------------------------------------------------------------------
(* syncNetwork. *)

LEMMA PollIInv ==
  ASSUME IInv, NEW n \in Nodes, Poll(n)
  PROVE  IInv'
<1>1. PICK snap \in {nets} \cup IF mayFail THEN {NoSync.snap} ELSE {} :
        /\ Fault(snap # nets)
        /\ sync' = [sync EXCEPT ![n] =
             [NoSync EXCEPT !.pc = "add", !.snap = snap,
                            !.todo = {a \in Names : snap[a] # NoNet}]]
  BY Zenon DEF Poll
<1>2. UNCHANGED <<vlan, ips, nets, iface, Gateways, req, made, missed, history>>
  BY Zenon DEF Poll
<1>3. faults' \in 0 .. MaxFaults
  <2>1. faults' = faults \/ (mayFail /\ faults' = faults + 1)
    BY Zenon, <1>1 DEF Fault
  <2> QED BY Zenon, <2>1, FaultType DEF IInv, Shape
<1>4. snap \in [Names -> Network] /\ \A a \in Names : Complete(snap[a])
  BY SMTT(30), <1>1, NoSyncType, NoNetType DEF IInv, Shape, TypeOK, Complete
<1> DEFINE g == [NoSync EXCEPT !.pc = "add", !.snap = snap,
                               !.todo = {a \in Names : snap[a] # NoNet}]
<1>5. /\ g \in Loop /\ g.pc = "add" /\ g.snap = snap
      /\ g.todo = {a \in Names : snap[a] # NoNet}
  BY ZenonT(30), <1>4, NoSyncType DEF Loop
<1> HIDE DEF g
<1>6. /\ sync' \in [Nodes -> Loop] /\ sync'[n] = g
      /\ \A m \in Nodes \ {n} : sync'[m] = sync[m]
  BY Zenon, <1>1, <1>5 DEF IInv, Shape, TypeOK, Loop, g
<1>7. TypeOK'
  BY Zenon, <1>2, <1>3, <1>6 DEF IInv, Shape, TypeOK, Loop, history
<1>8. LoopInv(sync'[n])
  BY Zenon, <1>4, <1>5, <1>6 DEF LoopInv
<1> QED BY SMTT(30), <1>2, <1>6, <1>7, <1>8, LoopIInv

(* The fields of a loop that a step does not name stay. *)
LEMMA SyncAddIInv ==
  ASSUME IInv, NEW n \in Nodes, SyncAdd(n)
  PROVE  IInv'
<1>1. /\ UNCHANGED <<vlan, ips, nets, Gateways, req, made, missed, history>>
      /\ sync[n].pc = "add" /\ sync[n] \in Loop /\ LoopInv(sync[n])
  BY SMTT(30) DEF SyncAdd, IInv, Shape, TypeOK, Loop
<1>2. PICK a \in sync[n].todo :
        LET done == [sync[n] EXCEPT !.todo = @ \ {a}]
        IN  \/ /\ AddInternalPort(n, a, sync[n].snap[a].vni)
               /\ sync' = [sync EXCEPT ![n] = [done EXCEPT !.pc = "setUp", !.cur = a]]
            \/ /\ AddInternalPortFails(n, a)
               /\ sync' = [sync EXCEPT ![n] = done]
  BY Zenon DEF SyncAdd
<1>3. a \in Names /\ sync[n].snap[a] # NoNet /\ sync[n].snap[a].vni \in 0 .. vlanCount
  <2>1. a \in Names /\ sync[n].snap[a] # NoNet
    BY Zenon, <1>1, <1>2 DEF LoopInv
  <2>2. sync[n].snap[a] \in Network
    BY Zenon, <1>1, <2>1 DEF Loop
  <2> QED BY Zenon, <2>1, <2>2 DEF Network
<1> DEFINE done == [sync[n] EXCEPT !.todo = @ \ {a}]
           up == [done EXCEPT !.pc = "setUp", !.cur = a]
<1>4. /\ done \in Loop /\ done.pc = "add" /\ done.snap = sync[n].snap
      /\ done.todo = sync[n].todo \ {a}
  BY Zenon, <1>1 DEF Loop
<1>5. /\ up \in Loop /\ up.pc = "setUp" /\ up.cur = a /\ up.snap = sync[n].snap
      /\ up.todo = sync[n].todo \ {a}
  BY Zenon, <1>1, <1>3 DEF Loop
<1>6. LoopInv(done) /\ LoopInv(up)
  BY Zenon, <1>1, <1>3, <1>4, <1>5 DEF LoopInv
<1>7. /\ iface' \in [Nodes -> [Names -> Interface]]
      /\ faults' \in 0 .. MaxFaults
      /\ sync' = [sync EXCEPT ![n] = done] \/ sync' = [sync EXCEPT ![n] = up]
  <2>1. CASE /\ AddInternalPort(n, a, sync[n].snap[a].vni)
             /\ sync' = [sync EXCEPT ![n] = up]
    BY Zenon, <1>3, <2>1, AddedPort, AddPortFaults DEF IInv, Shape
  <2>2. CASE AddInternalPortFails(n, a) /\ sync' = [sync EXCEPT ![n] = done]
    <3>1. faults' \in 0 .. MaxFaults
      BY Zenon, <1>3, <2>2, AddPortFaults DEF IInv, Shape
    <3> QED BY Zenon, <2>2, <3>1 DEF AddInternalPortFails, IInv, Shape, TypeOK
  <2> QED BY Zenon, <1>2, <2>1, <2>2
<1> HIDE DEF done, up
<1>8. /\ sync' \in [Nodes -> Loop] /\ sync'[n] \in {done, up}
      /\ \A m \in Nodes \ {n} : sync'[m] = sync[m]
  <2>1. sync \in [Nodes -> Loop] /\ done \in Loop /\ up \in Loop
    BY Zenon, <1>4, <1>5 DEF IInv, Shape, TypeOK, Loop
  <2> QED BY Zenon, <1>7, <2>1
<1>9. TypeOK'
  BY Zenon, <1>1, <1>7, <1>8 DEF IInv, Shape, TypeOK, Loop, history
<1> QED BY <1>1, <1>6, <1>8, <1>9, LoopIInv

LEMMA SyncSetUpIInv ==
  ASSUME IInv, NEW n \in Nodes, SyncSetUp(n)
  PROVE  IInv'
<1> DEFINE a == sync[n].cur
           net == sync[n].snap[a]
           ip == <<net.subnet, net.gateway>>
           out == SetUpOutcomes(iface[n][a], ip)
<1>1. /\ UNCHANGED <<vlan, ips, nets, req, made, missed, history>>
      /\ sync[n].pc = "setUp" /\ sync[n] \in Loop /\ LoopInv(sync[n])
      /\ sync' = [sync EXCEPT ![n].pc = "add", ![n].cur = "none"]
  BY SMTT(30) DEF SyncSetUp, IInv, Shape, TypeOK, Loop
<1>2. PICK o \in out :
        /\ iface' = [iface EXCEPT ![n][a] = o.iface]
        /\ Fault(~o.ok /\ \E x \in out : x.ok)
        /\ Gateways' = IF o.ok THEN [Gateways EXCEPT ![n] = @ \cup {a}] ELSE Gateways
  BY Zenon DEF SyncSetUp
<1>3. a \in Names /\ ip \in Subnets \X (1 .. Hosts + 1)
  BY Zenon, <1>1 DEF LoopInv, Complete
<1>4. faults' \in 0 .. MaxFaults
  <2>1. faults' = faults \/ (mayFail /\ faults' = faults + 1)
    BY SMTT(30), <1>2, SetUpFault
  <2> QED BY SMTT(30), <2>1, FaultType DEF IInv, Shape
<1>5. iface' \in [Nodes -> [Names -> Interface]]
  <2>1. iface \in [Nodes -> [Names -> Interface]] /\ iface[n][a] \in Interface
    BY <1>3 DEF IInv, Shape, TypeOK
  <2>2. o.iface \in Interface
    BY Zenon, <1>2, <1>3, <2>1, SetUpType
  <2> QED BY ZenonT(30), <1>2, <2>1, <2>2
<1>6. Gateways' \in [Nodes -> SUBSET Names]
  BY <1>2, <1>3 DEF IInv, Shape, TypeOK
<1> DEFINE g == [sync[n] EXCEPT !.pc = "add", !.cur = "none"]
<1>7. g \in Loop /\ g.pc = "add" /\ g.snap = sync[n].snap /\ g.todo = sync[n].todo
  BY Zenon, <1>1 DEF Loop
<1>8. /\ sync' \in [Nodes -> Loop] /\ sync'[n] = g
      /\ \A m \in Nodes \ {n} : sync'[m] = sync[m]
  <2>1. sync' = [sync EXCEPT ![n] = g] /\ sync \in [Nodes -> Loop]
    BY Zenon, <1>1 DEF IInv, Shape, TypeOK, Loop
  <2> HIDE DEF g
  <2> QED BY Zenon, <1>7, <2>1
<1>9. TypeOK'
  BY <1>1, <1>4, <1>5, <1>6, <1>8 DEF IInv, Shape, TypeOK, Loop, history
<1>10. LoopInv(sync'[n])
  BY <1>1, <1>7, <1>8 DEF LoopInv
<1> QED BY SMTT(30), <1>1, <1>8, <1>9, <1>10, LoopIInv

LEMMA SyncPruneIInv ==
  ASSUME IInv, NEW n \in Nodes, SyncPrune(n)
  PROVE  IInv'
<1> DEFINE unused == {a \in Gateways[n] : sync[n].snap[a] = NoNet}
<1>1. /\ UNCHANGED <<vlan, ips, nets, req, made, history>>
      /\ \/ \E a \in unused : /\ deletePort(n, a)
                              /\ Gateways' = [Gateways EXCEPT ![n] = @ \ {a}]
                              /\ UNCHANGED sync
         \/ /\ sync' = [sync EXCEPT ![n] = NoSync]
            /\ UNCHANGED <<iface, Gateways, missed, faults>>
  BY Zenon DEF SyncPrune
<1>2. ASSUME NEW a \in unused, deletePort(n, a), sync' = sync,
             Gateways' = [Gateways EXCEPT ![n] = @ \ {a}]
      PROVE  IInv'
  <2>1. a \in Names
    BY Zenon DEF IInv, Shape, TypeOK
  <2>2. /\ iface' \in [Nodes -> [Names -> Interface]]
        /\ missed' \subseteq Nodes \X Names /\ faults' \in 0 .. MaxFaults
    BY Zenon, <1>2, <2>1, DeletedPort DEF IInv, Shape
  <2>3. Gateways' \in [Nodes -> SUBSET Names]
    BY Zenon, <1>2 DEF IInv, Shape, TypeOK
  <2>4. TypeOK'
    BY Zenon, <1>1, <1>2, <2>2, <2>3 DEF IInv, Shape, TypeOK, history
  <2> QED BY Zenon, <1>1, <1>2, <2>4, LoopIInv DEF IInv, Shape
<1>3. CASE sync' = [sync EXCEPT ![n] = NoSync] /\ UNCHANGED <<iface, Gateways, missed, faults>>
  <2>1. /\ sync' \in [Nodes -> Loop] /\ sync'[n] = NoSync
        /\ \A m \in Nodes \ {n} : sync'[m] = sync[m]
    BY Zenon, <1>3, NoSyncType DEF IInv, Shape, TypeOK, Loop
  <2>2. TypeOK'
    BY Zenon, <1>1, <1>3, <2>1 DEF IInv, Shape, TypeOK, Loop, history
  <2>3. LoopInv(sync'[n])
    BY Zenon, <2>1, NoSyncType DEF LoopInv, Complete
  <2> QED BY Zenon, <1>1, <2>1, <2>2, <2>3, LoopIInv
<1> QED BY Zenon, <1>1, <1>2, <1>3

-----------------------------------------------------------------------------
(* Steps of a request. *)

(* A request at its start: it has no VNI and no gateway. *)
LEMMA StartOfCreate ==
  ASSUME NEW n \in Nodes, NEW a \in Names, NEW s \in Subnets
  PROVE  LET f == [NoReq EXCEPT !.pc = "getNetwork", !.act = "create", !.node = n,
                                !.name = a, !.subnet = s]
         IN  f \in Request /\ Local(f) /\ f.pc = "getNetwork" /\ f.gateway = 0
<1> DEFINE f == [NoReq EXCEPT !.pc = "getNetwork", !.act = "create", !.node = n,
                              !.name = a, !.subnet = s]
<1>1. /\ f.pc = "getNetwork" /\ f.act = "create" /\ f.node = n /\ f.name = a
      /\ f.subnet = s /\ f.gateway = 0
  BY Zenon DEF NoReq
<1>2. f \in Request
  BY Zenon, NoReqType DEF Request, Labels
<1> HIDE DEF f
<1>3. Local(f)
  BY Zenon, <1>1 DEF Local, Early, CreatePcs, PutPcs
<1> QED BY Zenon, <1>1, <1>2, <1>3 DEF f

LEMMA StartOfDelete ==
  ASSUME NEW n \in Nodes, NEW a \in Names
  PROVE  LET f == [NoReq EXCEPT !.pc = "getNetwork", !.act = "delete", !.node = n, !.name = a]
         IN  f \in Request /\ Local(f) /\ f.pc = "getNetwork" /\ f.gateway = 0
<1> DEFINE f == [NoReq EXCEPT !.pc = "getNetwork", !.act = "delete", !.node = n, !.name = a]
<1>1. /\ f.pc = "getNetwork" /\ f.act = "delete" /\ f.node = n /\ f.name = a /\ f.gateway = 0
  BY Zenon DEF NoReq
<1>2. f \in Request
  BY Zenon, NoReqType DEF Request, Labels
<1> HIDE DEF f
<1>3. Local(f)
  BY Zenon, <1>1 DEF Local, CreatePcs, PutPcs
<1> QED BY Zenon, <1>1, <1>2, <1>3 DEF f

LEMMA BeginIInv ==
  ASSUME IInv, NEW r \in Reqs, NEW f \in Request, Local(f), f.pc = "getNetwork",
         f.gateway = 0, Begin(r, f)
  PROVE  IInv'
<1>1. /\ req[r].pc = "idle" /\ made < MaxReqs /\ made' = made + 1
      /\ req' = [req EXCEPT ![r] = f]
      /\ UNCHANGED <<vlan, ips, nets, iface, Gateways, sync, missed, faults, history>>
  BY Zenon DEF Begin
<1>2. req' \in [Reqs -> Request] /\ req'[r] = f /\ Others(r)
  BY Zenon, <1>1 DEF IInv, Shape, TypeOK, Others
<1>3. made' \in 0 .. MaxReqs
  BY <1>1, NetworkAssumption DEF IInv, Shape, TypeOK
<1>4. TypeOK'
  BY Zenon, <1>1, <1>2, <1>3 DEF IInv, Shape, TypeOK, history
<1>5. WriteInv(req[r])' /\ ~Holds(r)' /\ ~Reserves(r)' /\ ~Reserves(r)
  BY SMTT(30), <1>1, <1>2 DEF WriteInv, PutPcs, Holds, Reserves
<1> QED BY Zenon, <1>1, <1>2, <1>4, <1>5, QuietIInv DEF history

LEMMA CreateNetworkIInv ==
  ASSUME IInv, NEW r \in Reqs, CreateNetwork(r)
  PROVE  IInv'
<1>1. PICK n \in Nodes, a \in Names, s \in Subnets :
        Begin(r, [NoReq EXCEPT !.pc = "getNetwork", !.act = "create", !.node = n,
                               !.name = a, !.subnet = s])
  BY ZenonT(30) DEF CreateNetwork
<1> QED BY ZenonT(30), <1>1, StartOfCreate, BeginIInv

LEMMA DeleteNetworkIInv ==
  ASSUME IInv, NEW r \in Reqs, DeleteNetwork(r)
  PROVE  IInv'
<1>1. PICK n \in Nodes, a \in Names :
        Begin(r, [NoReq EXCEPT !.pc = "getNetwork", !.act = "delete", !.node = n, !.name = a])
  BY Zenon DEF DeleteNetwork
<1> QED BY ZenonT(30), <1>1, StartOfDelete, BeginIInv

(* A request that ends without having stored anything. *)
LEMMA ReturnIInv ==
  ASSUME IInv, NEW r \in Reqs, Return(r), TypeOK',
         vlan' = vlan, ips' = ips, nets' = nets, sync' = sync,
         ~discarded' => ~discarded, ~stale' => ~stale,
         ~unreserved' => ~unreserved, ~abandoned' => ~abandoned,
         Reserves(r) => abandoned'
  PROVE  IInv'
<1>1. Others(r) /\ Local(req'[r]) /\ req'[r].pc = "idle"
  BY Zenon, ReturnProps DEF IInv, Shape
<1>2. WriteInv(req[r])' /\ ~Holds(r)' /\ ~Reserves(r)'
  BY Zenon, <1>1 DEF WriteInv, PutPcs, Holds, Reserves
<1> QED BY Zenon, <1>1, <1>2, QuietIInv

(* What a Get can return, and when it counts as a failure. *)
LEMMA GetFault ==
  ASSUME TypeOK, NEW e, NEW nil, NEW reply \in Get(e, nil, mayFail), NEW b \in BOOLEAN,
         b => reply # e, Fault(b)
  PROVE  (reply = e \/ reply = Absent(nil)) /\ faults' \in 0 .. MaxFaults
<1>1. reply = e \/ (mayFail /\ reply = Absent(nil))
  BY Zenon DEF Get
<1>2. faults' = faults \/ (mayFail /\ faults' = faults + 1)
  BY Zenon, <1>1 DEF Fault
<1> QED BY Zenon, <1>1, <1>2, FaultType

LEMMA Replaced ==
  ASSUME TypeOK, NEW r \in Reqs, NEW f \in Request, req' = [req EXCEPT ![r] = f]
  PROVE  req' \in [Reqs -> Request] /\ req'[r] = f /\ Others(r)
<1>1. req \in [Reqs -> Request]
  BY Zenon DEF TypeOK
<1> QED BY Zenon, <1>1 DEF Others

LEMMA TypeStays ==
  ASSUME TypeOK, req' \in [Reqs -> Request], faults' \in 0 .. MaxFaults,
         UNCHANGED <<vlan, ips, nets, iface, Gateways, sync, made, missed>>,
         {discarded', stale', unreserved', abandoned'} \subseteq BOOLEAN
  PROVE  TypeOK'
  BY Zenon DEF TypeOK

LEMMA HistoryType ==
  ASSUME TypeOK, UNCHANGED history
  PROVE  /\ {discarded', stale', unreserved', abandoned'} \subseteq BOOLEAN
         /\ discarded' = discarded /\ stale' = stale /\ unreserved' = unreserved
         /\ abandoned' = abandoned
  BY Zenon DEF TypeOK, history

(* Of a step that takes no gateway, of a request that has none. *)
LEMMA EarlyReq ==
  ASSUME IInv, NEW r \in Reqs
  PROVE  /\ req[r] \in Request /\ Local(req[r]) /\ TypeOK
         /\ Early(req[r]) => ~Reserves(r)
<1>1. req[r] \in Request /\ Local(req[r]) /\ TypeOK
  BY Zenon DEF IInv, Shape, TypeOK
<1> QED BY Zenon, <1>1 DEF Local, Reserves

(* A request that goes on, with the VNI and the gateway it has. *)
LEMMA GotoIInv ==
  ASSUME IInv, NEW r \in Reqs, NEW label \in Labels \ PutPcs, Goto(r, label), TypeOK',
         vlan' = vlan, ips' = ips, nets' = nets, sync' = sync,
         ~discarded' => ~discarded, ~stale' => ~stale,
         ~unreserved' => ~unreserved, ~abandoned' => ~abandoned,
         Local(req'[r]), req[r].pc # "idle", label # "idle",
         ~discarded' /\ Holds(r)' => Holds(r)
  PROVE  IInv'
<1>1. Others(r) /\ Same(r) /\ req'[r].pc = label
  BY Zenon, GotoProps DEF IInv, Shape
<1>2. WriteInv(req[r])'
  BY Zenon, <1>1 DEF WriteInv, PutPcs
<1>3. /\ req'[r].vni = req[r].vni /\ Key(req'[r]) = Key(req[r])
      /\ req'[r].gateway = req[r].gateway /\ req'[r].act = req[r].act
  BY Zenon, <1>1 DEF Same, Key
<1>4. Reserves(r)' <=> Reserves(r)
  BY Zenon, <1>1, <1>3 DEF Reserves
<1> QED BY Zenon, <1>1, <1>2, <1>3, <1>4, QuietIInv

LEMMA GetNetworkIInv ==
  ASSUME IInv, NEW r \in Reqs, GetNetwork(r)
  PROVE  IInv'
<1> DEFINE f == req[r]
           e == Entry(nets[f.name])
<1>1. /\ f.pc = "getNetwork" /\ UNCHANGED <<vlan, ips, nets, iface, Gateways, sync, made, missed>>
      /\ UNCHANGED history
  BY SMTT(30) DEF GetNetwork
<1>2. PICK reply \in Get(e, NoNet, mayFail) :
       /\ Fault(reply.val # nets[f.name])
       /\ IF f.act = "create"
          THEN IF Found(reply) THEN Return(r) ELSE Goto(r, "allocateVNI")
          ELSE IF Found(reply)
               THEN req' = [req EXCEPT ![r].pc = "delete", ![r].read = reply.val,
                                       ![r].vni = reply.val.vni]
               ELSE Return(r)
  BY Zenon DEF GetNetwork
<1>3. f \in Request /\ Local(f) /\ TypeOK /\ ~Reserves(r)
  BY Zenon, <1>1, EarlyReq DEF Early
<1>4. (reply = e \/ reply = Absent(NoNet)) /\ faults' \in 0 .. MaxFaults
  <2>1. e.val = nets[f.name] /\ (reply.val # nets[f.name]) \in BOOLEAN
    BY Zenon DEF Entry
  <2>2. (reply.val # nets[f.name]) => reply # e
    BY Zenon, <2>1
  <2> HIDE DEF e
  <2> QED BY Zenon, <1>2, <1>3, <2>1, <2>2, GetFault
<1>5. /\ {discarded', stale', unreserved', abandoned'} \subseteq BOOLEAN
      /\ discarded' = discarded /\ stale' = stale /\ unreserved' = unreserved
      /\ abandoned' = abandoned
  BY Zenon, <1>1, <1>3, HistoryType
<1>6. f.name \in Names /\ f.node \in Nodes /\ f.act \in {"create", "delete"}
  BY Zenon, <1>1, <1>3 DEF Local, Request
<1>7. CASE Return(r)
  <2>1. TypeOK'
    BY Zenon, <1>1, <1>3, <1>4, <1>5, <1>7, ReturnProps, TypeStays
  <2> QED BY Zenon, <1>1, <1>3, <1>5, <1>7, <2>1, ReturnIInv
<1>8. CASE f.act = "create" /\ Goto(r, "allocateVNI")
  <2>1. /\ req' \in [Reqs -> Request] /\ Others(r) /\ Same(r)
        /\ req'[r].pc = "allocateVNI"
    BY Zenon, <1>3, <1>8, GotoProps DEF Labels
  <2>2. TypeOK'
    BY Zenon, <1>1, <1>3, <1>4, <1>5, <2>1, TypeStays
  <2>3. Local(req'[r])
    BY Zenon, <1>1, <1>3, <1>8, <2>1 DEF Local, Same, Early, CreatePcs, PutPcs
  <2>4. ~Holds(r)'
    BY Zenon, <2>1 DEF Holds
  <2> QED BY Zenon, <1>1, <1>5, <1>8, <2>2, <2>3, <2>4, GotoIInv DEF Labels, PutPcs
<1>9. CASE /\ f.act # "create" /\ Found(reply)
           /\ req' = [req EXCEPT ![r].pc = "delete", ![r].read = reply.val,
                                 ![r].vni = reply.val.vni]
  <2> DEFINE g == [f EXCEPT !.pc = "delete", !.read = reply.val, !.vni = reply.val.vni]
  <2>1. reply.val = nets[f.name] /\ nets[f.name] # NoNet
    BY <1>4, <1>9 DEF Found, Absent, Entry
  <2>2. reply.val \in Network /\ reply.val # NoNet /\ reply.val.vni \in VNI
    <3>1. nets[f.name] \in Network /\ Complete(nets[f.name])
      BY Zenon, <1>6 DEF IInv, Shape, TypeOK
    <3> QED BY Zenon, <2>1, <3>1 DEF Complete
  <2>3. /\ g \in Request /\ g.pc = "delete" /\ g.act = "delete" /\ g.node = f.node
        /\ g.name = f.name /\ g.read = reply.val /\ g.vni = reply.val.vni
    <3>1. f.act = "delete" /\ reply.val.vni \in 0 .. vlanCount
      BY Zenon, <1>6, <1>9, <2>2 DEF Network
    <3>2. /\ g.pc = "delete" /\ g.act = "delete" /\ g.node = f.node
          /\ g.name = f.name /\ g.read = reply.val /\ g.vni = reply.val.vni
      BY Zenon, <1>3, <3>1 DEF Request
    <3>3. g \in Request
      BY Zenon, <1>3, <2>2, <3>1 DEF Request, Labels
    <3> QED BY Zenon, <3>2, <3>3
  <2>4. req' = [req EXCEPT ![r] = g]
    BY Zenon, <1>9
  <2> HIDE DEF g
  <2>5. req' \in [Reqs -> Request] /\ req'[r] = g /\ Others(r)
    BY Zenon, <1>3, <2>3, <2>4, Replaced
  <2>6. TypeOK'
    BY Zenon, <1>1, <1>3, <1>4, <1>5, <2>5, TypeStays
  <2>7. Local(req'[r])
    BY Zenon, <1>6, <2>2, <2>3, <2>5 DEF Local, CreatePcs, PutPcs
  <2>8. ~Holds(r)' /\ ~Reserves(r)' /\ WriteInv(req[r])'
    BY Zenon, <2>3, <2>5 DEF Holds, Reserves, WriteInv, PutPcs
  <2> QED BY Zenon, <1>1, <1>3, <1>5, <2>5, <2>6, <2>7, <2>8, QuietIInv
<1> QED BY Zenon, <1>2, <1>7, <1>8, <1>9

-----------------------------------------------------------------------------
(* The VNI pool. *)

(* What a Get of the pool returns: if the pool has never been written it   *)
(* is empty.                                                               *)
LEMMA PoolReply ==
  ASSUME IInv, NEW reply \in Get(vlan, {}, mayFail), Fault(reply # vlan)
  PROVE  /\ reply.val \in Bits /\ reply.idx \in Nat /\ faults' \in 0 .. MaxFaults
         /\ vlan.idx = 0 => reply.val = {}
         /\ reply = vlan \/ (reply.val = {} /\ reply.idx = 0)
<1>1. (reply = vlan \/ reply = Absent({})) /\ faults' \in 0 .. MaxFaults
  <2>1. TypeOK /\ (reply # vlan) \in BOOLEAN
    BY Zenon DEF IInv, Shape
  <2> QED BY Zenon, <2>1, GetFault
<1>2. vlan.val \in Bits /\ vlan.idx \in Nat /\ (vlan.idx = 0 => vlan.val = {})
  BY Zenon DEF IInv, Shape, PoolInv, TypeOK
<1>3. Absent({}).val = {} /\ Absent({}).idx = 0 /\ {} \in Bits
  BY Zenon DEF Absent, Bits
<1> QED BY <1>1, <1>2, <1>3

LEMMA releaseVNIIInv ==
  ASSUME IInv, NEW r \in Reqs, releaseVNI(r)
  PROVE  IInv'
<1> DEFINE f == req[r]
<1>1. /\ f.pc = "releaseVNI" /\ UNCHANGED <<vlan, ips, nets, iface, Gateways, sync, made, missed>>
      /\ UNCHANGED history
  BY Zenon DEF releaseVNI
<1>2. PICK reply \in Get(vlan, {}, mayFail) :
       /\ Fault(reply # vlan)
       /\ req' = [req EXCEPT ![r].pc = "putVNI", ![r].op = "release",
                             ![r].oldVal = reply.val,
                             ![r].newVal = Clear(reply.val, f.vni - 1)]
  BY Zenon DEF releaseVNI
<1>3. f \in Request /\ Local(f) /\ TypeOK
  BY Zenon, EarlyReq
<1>4. /\ reply.val \in Bits /\ faults' \in 0 .. MaxFaults
      /\ vlan.idx = 0 => reply.val = {}
  BY Zenon, <1>2, PoolReply
<1>5. /\ {discarded', stale', unreserved', abandoned'} \subseteq BOOLEAN
      /\ discarded' = discarded /\ stale' = stale /\ unreserved' = unreserved
      /\ abandoned' = abandoned
  BY Zenon, <1>1, <1>3, HistoryType
<1> DEFINE new == Clear(reply.val, f.vni - 1)
           g == [f EXCEPT !.pc = "putVNI", !.op = "release", !.oldVal = reply.val,
                          !.newVal = new]
<1>6. new \in Bits /\ new = reply.val \ {f.vni - 1}
  BY Zenon, <1>4 DEF Clear, Bits
<1> HIDE DEF new
<1>7. /\ g.pc = "putVNI" /\ g.op = "release" /\ g.vni = f.vni /\ g.oldVal = reply.val
      /\ g.newVal = new /\ g.act = f.act /\ g.node = f.node /\ g.name = f.name
      /\ g.subnet = f.subnet /\ g.gateway = f.gateway
  BY Zenon, <1>3 DEF Request
<1>8. g \in Request
  BY ZenonT(30), <1>3, <1>4, <1>6 DEF Request, Labels
<1>9. req' = [req EXCEPT ![r] = g]
  BY Zenon, <1>2 DEF new
<1> HIDE DEF g
<1>10. req' \in [Reqs -> Request] /\ req'[r] = g /\ Others(r)
  BY Zenon, <1>3, <1>8, <1>9, Replaced
<1>11. TypeOK'
  BY Zenon, <1>1, <1>3, <1>4, <1>5, <1>10, TypeStays
<1>12. Local(req'[r])
  BY Zenon, <1>1, <1>3, <1>7, <1>10 DEF Local, Early, CreatePcs, PutPcs
<1>13. WriteInv(req[r])'
  BY Zenon, <1>1, <1>4, <1>6, <1>7, <1>10 DEF WriteInv
<1>14. /\ Holds(r) /\ req'[r].vni = f.vni /\ Key(req'[r]) = Key(f)
       /\ req'[r].gateway = f.gateway /\ (Reserves(r)' <=> Reserves(r))
  BY Zenon, <1>1, <1>7, <1>10 DEF Holds, Reserves, Key
<1> QED BY Zenon, <1>1, <1>5, <1>10, <1>11, <1>12, <1>13, <1>14, QuietIInv

LEMMA putVNIIInv ==
  ASSUME IInv, NEW r \in Reqs, putVNI(r)
  PROVE  IInv'
<1> DEFINE f == req[r]
<1>1. /\ f.pc = "putVNI" /\ UNCHANGED <<vlan, ips, nets, iface, Gateways, sync, made, missed>>
      /\ UNCHANGED <<stale, unreserved, abandoned>>
  BY SMTT(30) DEF putVNI
<1>2. PICK reply \in Get(vlan, {}, mayFail) :
        /\ Fault(reply # vlan)
        /\ discarded' = (discarded \/ (Outdated(reply, f.oldVal) /\ f.op = "allocate"))
        /\ req' = [req EXCEPT ![r] =
             CASE ~Outdated(reply, f.oldVal) -> [f EXCEPT !.pc = "casVNI", !.casIndex = reply.idx]
               [] Outdated(reply, f.oldVal) /\ f.op = "release" -> [f EXCEPT !.pc = "releaseVNI"]
               [] Outdated(reply, f.oldVal) /\ f.op = "allocate" -> [f EXCEPT !.pc = AfterVNI(f)]]
  BY Zenon DEF putVNI
<1> DEFINE lost == Outdated(reply, f.oldVal)
<1>3. f \in Request /\ Local(f) /\ TypeOK /\ WriteInv(f)
  BY Zenon, EarlyReq DEF IInv, PoolInv
<1>4. /\ reply.val \in Bits /\ reply.idx \in Nat /\ faults' \in 0 .. MaxFaults
      /\ reply = vlan \/ (reply.val = {} /\ reply.idx = 0)
  BY Zenon, <1>2, PoolReply
<1>5. /\ {discarded', stale', unreserved', abandoned'} \subseteq BOOLEAN
      /\ ~discarded' => ~discarded
  <2>1. discarded' \in BOOLEAN
    BY <1>2, Zenon
  <2>2. {stale, unreserved, abandoned} \subseteq BOOLEAN
    BY Zenon, <1>3 DEF TypeOK
  <2> QED BY Zenon, <1>1, <1>2, <2>1, <2>2
<1>6. f.op = "release" \/ (f.op = "allocate" /\ f.act = "create")
  BY Zenon, <1>1, <1>3 DEF Local, PutPcs
<1>7. CASE ~lost
  <2> DEFINE g == [f EXCEPT !.pc = "casVNI", !.casIndex = reply.idx]
  <2>1. req' = [req EXCEPT ![r] = g]
    BY Zenon, <1>2, <1>7
  <2>2. /\ g.pc = "casVNI" /\ g.op = f.op /\ g.vni = f.vni /\ g.oldVal = f.oldVal
        /\ g.newVal = f.newVal /\ g.act = f.act /\ g.node = f.node /\ g.name = f.name
        /\ g.subnet = f.subnet /\ g.gateway = f.gateway /\ g.casIndex = reply.idx
    BY Zenon, <1>3 DEF Request
  <2>3. g \in Request
    BY Zenon, <1>3, <1>4 DEF Request, Labels
  <2> HIDE DEF g
  <2>4. req' \in [Reqs -> Request] /\ req'[r] = g /\ Others(r)
    BY Zenon, <1>3, <2>1, <2>3, Replaced
  <2>5. TypeOK'
    BY Zenon, <1>1, <1>3, <1>4, <1>5, <2>4, TypeStays
  <2>6. Local(req'[r])
    BY Zenon, <1>1, <1>3, <2>2, <2>4 DEF Local, Early, CreatePcs, PutPcs
  <2>7. WriteInv(req[r])'
    <3>1. /\ vlan.idx \in Nat /\ (vlan.idx = 0 => vlan.val = {})
          /\ vlan.idx = 0 => f.oldVal = {}
      BY Zenon, <1>1, <1>3 DEF IInv, PoolInv, TypeOK, WriteInv, PutPcs
    <3>2. reply.idx = 0 \/ reply.val = f.oldVal
      BY Zenon, <1>7 DEF Outdated, Found
    <3>3. reply.idx <= vlan.idx /\ (reply.idx = vlan.idx => vlan.val = f.oldVal)
      BY SMTT(30), <1>4, <3>1, <3>2
    <3> QED BY Zenon, <1>1, <1>3, <2>2, <2>4, <3>3 DEF WriteInv, PutPcs
  <2>8. /\ Holds(r)' <=> Holds(r)
        /\ req'[r].vni = f.vni /\ Key(req'[r]) = Key(f)
        /\ req'[r].gateway = f.gateway /\ (Reserves(r)' <=> Reserves(r))
    BY Zenon, <1>1, <2>2, <2>4 DEF Holds, Reserves, Key
  <2> QED BY Zenon, <1>1, <1>5, <2>4, <2>5, <2>6, <2>7, <2>8, QuietIInv
<1>8. ASSUME NEW label \in {"releaseVNI", "getIfaceAddr"},
             req' = [req EXCEPT ![r] = [f EXCEPT !.pc = label]],
             label = "releaseVNI" => f.op = "release",
             label = "getIfaceAddr" => f.op = "allocate" /\ discarded'
      PROVE  IInv'
  <2>1. Goto(r, label) /\ label \in Labels \ PutPcs
    BY Zenon, <1>8 DEF Goto, Labels, PutPcs
  <2>2. /\ req' \in [Reqs -> Request] /\ Same(r) /\ req'[r].pc = label
    BY Zenon, <1>3, <2>1, GotoProps
  <2>3. TypeOK'
    BY Zenon, <1>1, <1>3, <1>4, <1>5, <2>2, TypeStays
  <2>4. Local(req'[r])
    BY Zenon, <1>1, <1>3, <1>6, <1>8, <2>2 DEF Local, Same, Early, CreatePcs, PutPcs
  <2>5. ~discarded' /\ Holds(r)' => Holds(r)
    BY Zenon, <1>1, <1>8, <2>2 DEF Holds
  <2> QED BY Zenon, <1>1, <1>5, <1>8, <2>1, <2>3, <2>4, <2>5, GotoIInv
<1>9. CASE lost /\ f.op = "release"
  BY Zenon, <1>2, <1>8, <1>9
<1>10. CASE lost /\ f.op = "allocate"
  <2>1. AfterVNI(f) = "getIfaceAddr" /\ discarded'
    BY Zenon, <1>2, <1>10 DEF AfterVNI
  <2> QED BY Zenon, <1>2, <1>8, <1>10, <2>1
<1> QED BY Zenon, <1>6, <1>7, <1>9, <1>10

(* How a PUT ends: it is applied only under its index. *)
LEMMA CasProps ==
  ASSUME TypeOK, NEW e, NEW i, NEW o \in CasOutcomes(e, i, mayFail),
         Fault(o \notin CasOutcomes(e, i, FALSE))
  PROVE  /\ o.applied \in BOOLEAN /\ (o.applied => e.idx = i)
         /\ faults' \in 0 .. MaxFaults
<1>1. \/ o = [applied |-> e.idx = i, res |-> IF e.idx = i THEN OK ELSE ERROR]
      \/ /\ mayFail
         /\ \/ \E x \in {OK, ERROR} : o = [applied |-> FALSE, res |-> x]
            \/ o = [applied |-> e.idx = i, res |-> ERROR]
  BY Zenon DEF CasOutcomes, CasApplies
<1>2. o.applied = (e.idx = i) \/ o.applied = FALSE
  BY <1>1
<1>3. o.applied \in BOOLEAN /\ (o.applied => e.idx = i)
  BY <1>2, Zenon
<1>4. faults' \in 0 .. MaxFaults
  <2>1. CASE mayFail
    <3>1. faults' = faults \/ (mayFail /\ faults' = faults + 1)
      BY Zenon, <2>1 DEF Fault
    <3> QED BY Zenon, <3>1, FaultType
  <2>2. CASE ~mayFail
    <3>1. o \in CasOutcomes(e, i, FALSE)
      BY Zenon, <2>2 DEF CasOutcomes
    <3>2. faults' = faults
      BY Zenon, <3>1 DEF Fault
    <3> QED BY Zenon, <3>2, FaultType
  <2> QED BY Zenon, <2>1, <2>2
<1> QED BY Zenon, <1>3, <1>4

(* Bits of different VNIs are different. *)
LEMMA BitOfVNI ==
  ASSUME NEW v \in Int, NEW w \in Int, v - 1 = w - 1
  PROVE  v = w
  OBVIOUS

(* Whoever holds a VNI, or has stored it, has an integer. *)
LEMMA VNIType ==
  ASSUME IInv
  PROVE  /\ \A r \in Reqs : req[r].vni \in Int
         /\ \A a \in Names : nets[a].vni \in Int
         /\ \A a \in Names : nets[a] = NoNet => nets[a].vni = 0
<1>1. \A r \in Reqs : req[r].vni \in 0 .. vlanCount
  BY Zenon DEF IInv, Shape, TypeOK, Request
<1>2. \A a \in Names : nets[a].vni \in 0 .. vlanCount
  BY Zenon DEF IInv, Shape, TypeOK, Network
<1> QED BY <1>1, <1>2, NoNetType

LEMMA casVNIIInv ==
  ASSUME IInv, NEW r \in Reqs, casVNI(r)
  PROVE  IInv'
<1> DEFINE f == req[r]
<1>1. /\ f.pc = "casVNI" /\ UNCHANGED <<ips, nets, iface, Gateways, sync, made, missed>>
      /\ UNCHANGED <<stale, unreserved, abandoned>>
  BY Zenon DEF casVNI
<1>2. PICK o \in CasOutcomes(vlan, f.casIndex, mayFail) :
        /\ vlan' = IF o.applied THEN Written(vlan, f.newVal) ELSE vlan
        /\ Fault(o \notin CasOutcomes(vlan, f.casIndex, FALSE))
        /\ discarded' = (discarded \/ (~o.applied /\ f.op = "allocate"))
        /\ Goto(r, AfterVNI(f))
  BY Zenon DEF casVNI
<1>3. f \in Request /\ Local(f) /\ TypeOK /\ WriteInv(f)
  BY Zenon, EarlyReq DEF IInv, PoolInv
<1>4. /\ o.applied \in BOOLEAN /\ (o.applied => vlan.idx = f.casIndex)
      /\ faults' \in 0 .. MaxFaults
  BY Zenon, <1>2, <1>3, CasProps
<1>5. /\ {discarded', stale', unreserved', abandoned'} \subseteq BOOLEAN
      /\ ~discarded' => ~discarded
  <2>1. discarded' \in BOOLEAN
    BY <1>2, Zenon
  <2>2. {stale, unreserved, abandoned} \subseteq BOOLEAN
    BY Zenon, <1>3 DEF TypeOK
  <2> QED BY Zenon, <1>1, <1>2, <2>1, <2>2
<1>6. /\ f.op = "release" \/ (f.op = "allocate" /\ f.act = "create")
      /\ f.act \in {"create", "delete"} /\ f.vni \in VNI
  BY Zenon, <1>1, <1>3 DEF Local, PutPcs, Request
<1> DEFINE label == AfterVNI(f)
<1>7. \/ label = "getIfaceAddr" /\ f.op = "allocate" /\ f.act = "create"
      \/ label = "releaseIP" /\ f.op = "release" /\ f.act = "create"
      \/ label = "deletePort" /\ f.op = "release" /\ f.act = "delete"
  BY Zenon, <1>6 DEF AfterVNI
<1>8. label \in Labels \ PutPcs /\ label # "idle"
  BY Zenon, <1>7 DEF Labels, PutPcs
<1> HIDE DEF label
<1>9. /\ req' \in [Reqs -> Request] /\ Same(r) /\ Others(r) /\ req'[r].pc = label
  BY Zenon, <1>2, <1>3, <1>8, GotoProps DEF label
<1>10. Local(req'[r])
  BY Zenon, <1>1, <1>3, <1>7, <1>9 DEF Local, Same, Early, CreatePcs, PutPcs
<1>11. Holds(r)' <=> f.op = "allocate"
  BY Zenon, <1>7, <1>9 DEF Holds
<1>12. CASE ~o.applied
  <2>1. vlan' = vlan /\ (f.op = "allocate" => discarded')
    BY Zenon, <1>2, <1>12
  <2>2. TypeOK'
    BY Zenon, <1>1, <1>3, <1>4, <1>5, <1>9, <2>1, TypeStays
  <2> QED BY Zenon, <1>1, <1>2, <1>5, <1>8, <1>10, <1>11, <2>1, <2>2, GotoIInv DEF label
<1>13. CASE o.applied
  <2>1. /\ vlan' = [val |-> f.newVal, idx |-> vlan.idx + 1]
        /\ vlan.val = f.oldVal /\ vlan.idx \in Nat
    BY Zenon, <1>1, <1>2, <1>3, <1>4, <1>13 DEF Written, WriteInv, TypeOK
  <2>2. /\ vlan'.val = f.newVal /\ vlan'.idx = vlan.idx + 1 /\ vlan'.idx # 0
        /\ vlan' \in [val : Bits, idx : Nat]
    BY <1>3, <2>1 DEF Request
  <2>3. TypeOK'
    BY SMTT(30), <1>1, <1>3, <1>4, <1>5, <1>9, <2>2 DEF TypeOK
  <2>4. Shape'
    <3>1. \A q \in Reqs : Local(req'[q])
      BY Zenon, <1>9, <1>10 DEF Others, IInv, Shape
    <3> QED BY Zenon, <1>1, <2>3, <3>1 DEF IInv, Shape
  <2>5. PoolInv'
    <3> SUFFICES ASSUME NEW q \in Reqs PROVE WriteInv(req[q])'
      BY Zenon, <2>2 DEF PoolInv
    <3>1. CASE q = r
      BY Zenon, <1>8, <1>9, <3>1 DEF WriteInv, PutPcs
    <3>2. CASE q # r
      <4>1. req'[q] = req[q] /\ req[q].casIndex \in Nat /\ WriteInv(req[q])
        BY Zenon, <1>9, <3>2 DEF Others, IInv, Shape, PoolInv, TypeOK, Request
      <4>2. req[q].pc = "casVNI" => req[q].casIndex < vlan'.idx
        BY <2>1, <2>2, <4>1 DEF WriteInv
      <4> QED BY <2>1, <2>2, <4>1, <4>2 DEF WriteInv
    <3> QED BY Zenon, <3>1, <3>2
  <2>6. UniqueVNI'
    <3> SUFFICES ASSUME ~discarded', ~stale' PROVE UniqueVNI'
      BY Zenon DEF UniqueVNI
    <3>1. ~discarded /\ ~stale
      BY Zenon, <1>1, <1>5
    <3>2. \A q \in Reqs \ {r} : req'[q] = req[q] /\ (Holds(q)' <=> Holds(q))
      BY Zenon, <1>9 DEF Others, Holds
    <3>3. req'[r].vni = f.vni /\ f.vni # 0
      BY <1>6, <1>9, NetworkAssumption DEF Same, VNI
    <3>4. CASE f.op = "allocate"
      <4>1. f.vni - 1 \notin vlan.val /\ vlan'.val = vlan.val \cup {f.vni - 1}
        BY Zenon, <1>1, <1>3, <2>1, <2>2, <3>4 DEF WriteInv, PutPcs
      <4>2. \A a \in Names : nets[a].vni # f.vni
        BY Zenon, <3>1, <3>3, <4>1, VNIType DEF IInv, UniqueVNI
      <4>3. \A q \in Reqs \ {r} : Holds(q) => req[q].vni # f.vni
        BY Zenon, <3>1, <4>1 DEF IInv, UniqueVNI
      <4>4. ASSUME NEW a \in Names, nets[a] # NoNet
            PROVE  /\ nets[a].vni - 1 \in vlan'.val
                   /\ \A b \in Names \ {a} : nets[b].vni # nets[a].vni
        BY Zenon, <3>1, <4>1, <4>4 DEF IInv, UniqueVNI
      <4>5. ASSUME NEW q \in Reqs, Holds(q)'
            PROVE  /\ req'[q].vni - 1 \in vlan'.val
                   /\ \A a \in Names : nets[a].vni # req'[q].vni
                   /\ \A p \in Reqs \ {q} : Holds(p)' => req'[p].vni # req'[q].vni
        <5>1. CASE q = r
          BY Zenon, <3>2, <3>3, <4>1, <4>2, <4>3, <5>1
        <5>2. CASE q # r
          <6>1. req'[q] = req[q] /\ Holds(q)
            BY Zenon, <3>2, <4>5, <5>2
          <6>2. /\ req[q].vni - 1 \in vlan.val
                /\ \A a \in Names : nets[a].vni # req[q].vni
                /\ \A p \in Reqs \ {q} : Holds(p) => req[p].vni # req[q].vni
            BY Zenon, <3>1, <6>1 DEF IInv, UniqueVNI
          <6> QED BY Zenon, <3>2, <3>3, <4>1, <4>3, <5>2, <6>1, <6>2
        <5> QED BY Zenon, <5>1, <5>2
      <4> QED BY Zenon, <1>1, <4>4, <4>5 DEF UniqueVNI
    <3>5. CASE f.op = "release"
      <4>1. Holds(r) /\ ~Holds(r)' /\ vlan'.val = vlan.val \ {f.vni - 1}
        BY Zenon, <1>1, <1>3, <1>11, <2>1, <2>2, <3>5 DEF WriteInv, PutPcs, Holds
      <4>2. \A a \in Names : nets[a].vni # f.vni
        BY Zenon, <3>1, <4>1 DEF IInv, UniqueVNI
      <4>3. \A q \in Reqs \ {r} : Holds(q) => req[q].vni # f.vni
        BY Zenon, <3>1, <4>1 DEF IInv, UniqueVNI
      <4>4. ASSUME NEW a \in Names, nets[a] # NoNet
            PROVE  /\ nets[a].vni - 1 \in vlan'.val
                   /\ \A b \in Names \ {a} : nets[b].vni # nets[a].vni
        <5>1. nets[a].vni - 1 \in vlan.val /\ nets[a].vni - 1 # f.vni - 1
          BY Zenon, <3>1, <4>2, <4>4, VNIType, BitOfVNI DEF IInv, UniqueVNI
        <5> QED BY Zenon, <3>1, <4>1, <4>4, <5>1 DEF IInv, UniqueVNI
      <4>5. ASSUME NEW q \in Reqs, Holds(q)'
            PROVE  /\ req'[q].vni - 1 \in vlan'.val
                   /\ \A a \in Names : nets[a].vni # req'[q].vni
                   /\ \A p \in Reqs \ {q} : Holds(p)' => req'[p].vni # req'[q].vni
        <5>1. q # r /\ req'[q] = req[q] /\ Holds(q)
          BY Zenon, <3>2, <4>1, <4>5
        <5>2. /\ req[q].vni - 1 \in vlan.val
              /\ \A a \in Names : nets[a].vni # req[q].vni
              /\ \A p \in Reqs \ {q} : Holds(p) => req[p].vni # req[q].vni
          BY Zenon, <3>1, <5>1 DEF IInv, UniqueVNI
        <5>3. req[q].vni - 1 # f.vni - 1
          BY Zenon, <4>3, <5>1, VNIType, BitOfVNI
        <5> QED BY Zenon, <3>2, <4>1, <5>1, <5>2, <5>3
      <4> QED BY Zenon, <1>1, <4>4, <4>5 DEF UniqueVNI
    <3> QED BY Zenon, <1>6, <3>4, <3>5
  <2>7. Reserved' /\ GatewaysMarked'
    <3>1. /\ Key(req'[r]) = Key(f) /\ req'[r].gateway = f.gateway
          /\ Reserves(r)' <=> Reserves(r)
      BY Zenon, <1>1, <1>8, <1>9 DEF Same, Key, Reserves
    <3> QED BY Zenon, <1>1, <1>9, <3>1, GatewaysStay
  <2> QED BY Zenon, <2>4, <2>5, <2>6, <2>7 DEF IInv
<1> QED BY Zenon, <1>4, <1>12, <1>13

-----------------------------------------------------------------------------
(* CreateNetwork, once it has a VNI. *)

(* A gateway is under a key of ipStore. *)
LEMMA KeyTypes ==
  ASSUME IInv
  PROVE  /\ \A q \in Reqs : Reserves(q) =>
              Key(req[q]) \in VNI \X Subnets /\ req[q].gateway \in 1 .. Hosts + 1
         /\ \A a \in Names : nets[a] # NoNet =>
              Key(nets[a]) \in VNI \X Subnets /\ nets[a].gateway \in 1 .. Hosts + 1
         /\ \A a \in Names : Key(nets[a]) \in VNI \X Subnets => nets[a] # NoNet
<1>1. ASSUME NEW q \in Reqs, Reserves(q)
      PROVE  Key(req[q]) \in VNI \X Subnets /\ req[q].gateway \in 1 .. Hosts + 1
  <2>1. Local(req[q]) /\ ~Early(req[q]) /\ req[q].act = "create" /\ req[q].pc # "idle"
    BY Zenon, <1>1, EarlyReq DEF Reserves
  <2>2. req[q].subnet \in Subnets /\ req[q].gateway \in 1 .. Hosts + 1 /\ req[q].vni \in VNI
    BY Zenon, <2>1 DEF Local, Early
  <2> QED BY Zenon, <2>2 DEF Key
<1>2. ASSUME NEW a \in Names, nets[a] # NoNet
      PROVE  Key(nets[a]) \in VNI \X Subnets /\ nets[a].gateway \in 1 .. Hosts + 1
  BY Zenon, <1>2 DEF IInv, Shape, Complete, Key
<1>3. ASSUME NEW a \in Names, Key(nets[a]) \in VNI \X Subnets
      PROVE  nets[a] # NoNet
  <2>1. nets[a].vni \in VNI
    BY Zenon, <1>3 DEF Key
  <2> QED BY <2>1, NoNetType, NetworkAssumption DEF VNI
<1> QED BY Zenon, <1>1, <1>2, <1>3

LEMMA IfaceTypeStays ==
  ASSUME TypeOK, req' \in [Reqs -> Request], faults' \in 0 .. MaxFaults,
         iface' \in [Nodes -> [Names -> Interface]],
         UNCHANGED <<vlan, ips, nets, Gateways, sync, made, missed>>,
         {discarded', stale', unreserved', abandoned'} \subseteq BOOLEAN
  PROVE  TypeOK'
  BY Zenon DEF TypeOK

(* Where a CreateNetwork with a gateway is. *)
LEMMA Creating ==
  ASSUME IInv, NEW r \in Reqs,
         req[r].pc \in {"addInternalPort", "setUp", "putNet", "casNet", "releaseIP"}
  PROVE  /\ req[r].act = "create" /\ req[r].node \in Nodes /\ req[r].name \in Names
         /\ req[r].subnet \in Subnets /\ req[r].gateway \in 1 .. Hosts + 1
         /\ req[r].vni \in VNI /\ Reserves(r)
         /\ \A label \in {"setUp", "putNet", "casNet", "releaseVNI"} :
              Goto(r, label) => Local(req'[r])
<1>1. Local(req[r]) /\ TypeOK
  BY Zenon, EarlyReq
<1>2. /\ req[r].act = "create" /\ req[r].node \in Nodes /\ req[r].name \in Names
      /\ req[r].subnet \in Subnets /\ req[r].gateway \in 1 .. Hosts + 1
      /\ req[r].vni \in VNI
  BY Zenon, <1>1 DEF Local, CreatePcs, Early, PutPcs
<1>3. Reserves(r)
  BY <1>2 DEF Reserves
<1>4. ASSUME NEW label \in {"setUp", "putNet", "casNet", "releaseVNI"}, Goto(r, label)
      PROVE  Local(req'[r])
  <2>1. Same(r) /\ req'[r].pc = label
    BY Zenon, <1>1, <1>4, GotoProps DEF Labels
  <2> QED BY Zenon, <1>2, <2>1 DEF Local, Same, CreatePcs, Early, PutPcs
<1> QED BY Zenon, <1>2, <1>3, <1>4

LEMMA CreateInterfaceIInv ==
  ASSUME IInv, NEW r \in Reqs, CreateInterface(r)
  PROVE  IInv'
<1> DEFINE f == req[r]
<1>1. /\ f.pc = "addInternalPort"
      /\ UNCHANGED <<vlan, ips, nets, Gateways, sync, made, missed, discarded, stale, unreserved>>
      /\ abandoned' = (abandoned \/ req'[r] = NoReq)
  BY Zenon DEF CreateInterface
<1>2. \/ AddInternalPort(f.node, f.name, f.vni) /\ Goto(r, "setUp")
      \/ AddInternalPortFails(f.node, f.name) /\ Return(r)
  BY Zenon DEF CreateInterface
<1>3. /\ f.node \in Nodes /\ f.name \in Names /\ f.vni \in VNI /\ TypeOK
      /\ \A label \in {"setUp", "putNet", "casNet", "releaseVNI"} :
           Goto(r, label) => Local(req'[r])
  BY Zenon, <1>1, Creating, EarlyReq
<1>4. faults' \in 0 .. MaxFaults
  BY Zenon, <1>2, <1>3, AddPortFaults
<1>5. {discarded', stale', unreserved', abandoned'} \subseteq BOOLEAN
  <2>1. abandoned' \in BOOLEAN
    BY <1>1, Zenon
  <2> QED BY Zenon, <1>1, <1>3, <2>1 DEF TypeOK
<1>6. CASE AddInternalPort(f.node, f.name, f.vni) /\ Goto(r, "setUp")
  <2>1. iface' \in [Nodes -> [Names -> Interface]]
    <3>1. f.vni \in 0 .. vlanCount
      BY <1>3 DEF VNI
    <3> QED BY Zenon, <1>3, <1>6, <3>1, AddedPort
  <2>2. req' \in [Reqs -> Request]
    BY Zenon, <1>3, <1>6, GotoProps DEF Labels
  <2>3. TypeOK'
    BY Zenon, <1>1, <1>3, <1>4, <1>5, <2>1, <2>2, IfaceTypeStays
  <2>4. Holds(r) /\ Local(req'[r]) /\ "setUp" \in Labels \ PutPcs
    BY Zenon, <1>1, <1>3, <1>6 DEF Holds, Labels, PutPcs
  <2> QED BY Zenon, <1>1, <1>6, <2>3, <2>4, GotoIInv
<1>7. CASE AddInternalPortFails(f.node, f.name) /\ Return(r)
  <2>1. req' \in [Reqs -> Request] /\ req'[r] = NoReq
    BY Zenon, <1>3, <1>7, ReturnProps
  <2>2. TypeOK'
    BY Zenon, <1>1, <1>3, <1>4, <1>5, <1>7, <2>1, TypeStays DEF AddInternalPortFails
  <2> QED BY Zenon, <1>1, <1>7, <2>1, <2>2, ReturnIInv
<1> QED BY Zenon, <1>2, <1>6, <1>7

LEMMA SetUpInterfaceIInv ==
  ASSUME IInv, NEW r \in Reqs, SetUpInterface(r)
  PROVE  IInv'
<1> DEFINE f == req[r]
           ip == <<f.subnet, f.gateway>>
           out == SetUpOutcomes(iface[f.node][f.name], ip)
<1>1. /\ f.pc = "setUp"
      /\ UNCHANGED <<vlan, ips, nets, Gateways, sync, made, missed, discarded, stale, unreserved>>
  BY SMTT(30) DEF SetUpInterface
<1>2. PICK o \in out :
        /\ iface' = [iface EXCEPT ![f.node][f.name] = o.iface]
        /\ Fault(~o.ok /\ \E x \in out : x.ok)
        /\ IF o.ok THEN Goto(r, "putNet") ELSE Return(r)
        /\ abandoned' = (abandoned \/ ~o.ok)
  BY Zenon DEF SetUpInterface
<1>3. /\ f.node \in Nodes /\ f.name \in Names /\ ip \in Subnets \X (1 .. Hosts + 1) /\ TypeOK
      /\ \A label \in {"setUp", "putNet", "casNet", "releaseVNI"} :
           Goto(r, label) => Local(req'[r])
  BY Zenon, <1>1, Creating, EarlyReq
<1>4. faults' \in 0 .. MaxFaults
  <2>1. faults' = faults \/ (mayFail /\ faults' = faults + 1)
    BY Zenon, <1>2, SetUpFault
  <2> QED BY Zenon, <1>3, <2>1, FaultType
<1>5. iface' \in [Nodes -> [Names -> Interface]] /\ o.ok \in BOOLEAN
  <2>1. iface \in [Nodes -> [Names -> Interface]] /\ iface[f.node][f.name] \in Interface
    BY <1>3 DEF TypeOK
  <2>2. o.iface \in Interface /\ o.ok \in BOOLEAN
    BY Zenon, <1>2, <1>3, <2>1, SetUpType
  <2> QED BY Zenon, <1>2, <2>1, <2>2
<1>6. {discarded', stale', unreserved', abandoned'} \subseteq BOOLEAN
  <2>1. abandoned' \in BOOLEAN
    BY <1>2, Zenon
  <2> QED BY Zenon, <1>1, <1>3, <2>1 DEF TypeOK
<1>7. CASE o.ok
  <2>1. Goto(r, "putNet")
    BY Zenon, <1>2, <1>7
  <2>2. req' \in [Reqs -> Request]
    BY Zenon, <1>3, <2>1, GotoProps DEF Labels
  <2>3. TypeOK'
    BY Zenon, <1>1, <1>3, <1>4, <1>5, <1>6, <2>2, IfaceTypeStays
  <2>4. Holds(r) /\ Local(req'[r]) /\ "putNet" \in Labels \ PutPcs
    BY Zenon, <1>1, <1>3, <2>1 DEF Holds, Labels, PutPcs
  <2>5. ~abandoned' => ~abandoned
    BY Zenon, <1>2
  <2> QED BY Zenon, <1>1, <2>1, <2>3, <2>4, <2>5, GotoIInv
<1>8. CASE ~o.ok
  <2>1. Return(r) /\ abandoned'
    BY Zenon, <1>2, <1>8
  <2>2. req' \in [Reqs -> Request]
    BY Zenon, <1>3, <2>1, ReturnProps
  <2>3. TypeOK'
    BY Zenon, <1>1, <1>3, <1>4, <1>5, <1>6, <2>2, IfaceTypeStays
  <2> QED BY Zenon, <1>1, <2>1, <2>3, ReturnIInv
<1> QED BY Zenon, <1>7, <1>8

LEMMA putNetIInv ==
  ASSUME IInv, NEW r \in Reqs, putNet(r)
  PROVE  IInv'
<1> DEFINE f == req[r]
           e == Entry(nets[f.name])
<1>1. /\ f.pc = "putNet" /\ UNCHANGED <<vlan, ips, nets, iface, Gateways, sync, made, missed>>
      /\ UNCHANGED history
  BY Zenon DEF putNet
<1>2. PICK reply \in Get(e, NoNet, mayFail) :
        /\ Fault(reply.val # nets[f.name])
        /\ Goto(r, IF Outdated(reply, NoNet) THEN "releaseVNI" ELSE "casNet")
  BY Zenon DEF putNet
<1>3. /\ TypeOK
      /\ \A label \in {"setUp", "putNet", "casNet", "releaseVNI"} :
           Goto(r, label) => Local(req'[r])
  BY Zenon, <1>1, Creating, EarlyReq
<1>4. faults' \in 0 .. MaxFaults
  <2>1. e.val = nets[f.name] /\ (reply.val # nets[f.name]) \in BOOLEAN
    BY Zenon DEF Entry
  <2>2. (reply.val # nets[f.name]) => reply # e
    BY Zenon, <2>1
  <2> HIDE DEF e
  <2> QED BY Zenon, <1>2, <1>3, <2>1, <2>2, GetFault
<1>5. /\ {discarded', stale', unreserved', abandoned'} \subseteq BOOLEAN
      /\ discarded' = discarded /\ stale' = stale /\ unreserved' = unreserved
      /\ abandoned' = abandoned
  BY Zenon, <1>1, <1>3, HistoryType
<1>6. PICK label \in {"casNet", "releaseVNI"} : Goto(r, label)
  BY Zenon, <1>2
<1>7. label \in Labels \ PutPcs /\ label # "idle" /\ Local(req'[r]) /\ Holds(r)
  BY Zenon, <1>1, <1>3, <1>6 DEF Labels, PutPcs, Holds
<1>8. TypeOK'
  BY Zenon, <1>1, <1>3, <1>4, <1>5, <1>6, <1>7, GotoProps, TypeStays
<1> QED BY Zenon, <1>1, <1>5, <1>6, <1>7, <1>8, GotoIInv

LEMMA casNetIInv ==
  ASSUME IInv, NEW r \in Reqs, casNet(r)
  PROVE  IInv'
<1> DEFINE f == req[r]
           a0 == f.name
           e == Entry(nets[a0])
           net == [subnet |-> f.subnet, gateway |-> f.gateway, vni |-> f.vni]
<1>1. /\ f.pc = "casNet"
      /\ UNCHANGED <<vlan, ips, iface, Gateways, sync, made, missed, discarded, stale, unreserved>>
  BY Zenon DEF casNet
<1>2. PICK o \in CasOutcomes(e, 0, mayFail) :
        /\ nets' = IF o.applied THEN [nets EXCEPT ![a0] = net] ELSE nets
        /\ Fault(o \notin CasOutcomes(e, 0, FALSE))
        /\ abandoned' = (abandoned \/ ~o.applied)
        /\ Return(r)
  BY Zenon DEF casNet
<1>3. /\ a0 \in Names /\ f.subnet \in Subnets /\ f.gateway \in 1 .. Hosts + 1 /\ f.vni \in VNI
      /\ TypeOK /\ Reserves(r) /\ Holds(r)
  BY Zenon, <1>1, Creating, EarlyReq DEF Holds
<1>4. /\ o.applied \in BOOLEAN /\ (o.applied => e.idx = 0) /\ faults' \in 0 .. MaxFaults
  <2> HIDE DEF e
  <2> QED BY Zenon, <1>2, <1>3, CasProps
<1>5. /\ req' \in [Reqs -> Request] /\ Others(r) /\ Local(req'[r]) /\ req'[r].pc = "idle"
  BY Zenon, <1>2, <1>3, ReturnProps
<1>6. {discarded', stale', unreserved', abandoned'} \subseteq BOOLEAN
  <2>1. abandoned' \in BOOLEAN
    BY <1>2, Zenon
  <2> QED BY Zenon, <1>1, <1>3, <2>1 DEF TypeOK
<1>7. CASE ~o.applied
  <2>1. nets' = nets /\ abandoned'
    BY Zenon, <1>2, <1>7
  <2>2. TypeOK'
    BY Zenon, <1>1, <1>3, <1>4, <1>5, <1>6, <2>1, TypeStays
  <2> QED BY Zenon, <1>1, <1>2, <2>1, <2>2, ReturnIInv
<1>8. CASE o.applied
  <2>1. nets[a0] = NoNet /\ nets' = [nets EXCEPT ![a0] = net] /\ abandoned' = abandoned
    <3>1. nets[a0] = NoNet
      BY <1>4, <1>8 DEF Entry
    <3>2. abandoned' = abandoned
      BY Zenon, <1>2, <1>3, <1>8 DEF TypeOK
    <3> QED BY Zenon, <1>2, <1>8, <3>1, <3>2
  <2>2. /\ net \in Network /\ net.vni = f.vni /\ net.gateway = f.gateway /\ Key(net) = Key(f)
        /\ net # NoNet /\ Complete(net)
    <3>1. f.vni \in 0 .. vlanCount /\ f.gateway \in 0 .. Hosts + 1 /\ f.vni # 0
      BY <1>3, NetworkAssumption DEF VNI
    <3>2. net \in Network /\ net.vni = f.vni /\ net.gateway = f.gateway /\ Key(net) = Key(f)
      BY Zenon, <1>3, <3>1 DEF Network, Key
    <3> QED BY Zenon, <1>3, <3>1, <3>2, NoNetType DEF Complete
  <2> HIDE DEF net
  <2>3. /\ nets' \in [Names -> Network] /\ nets'[a0] = net
        /\ \A a \in Names \ {a0} : nets'[a] = nets[a]
    BY Zenon, <1>3, <2>1, <2>2 DEF TypeOK
  <2>4. TypeOK'
    BY Zenon, <1>1, <1>3, <1>4, <1>5, <1>6, <2>3 DEF TypeOK
  <2>5. Shape'
    <3>1. \A q \in Reqs : Local(req'[q])
      BY Zenon, <1>5 DEF IInv, Shape, Others
    <3>2. \A a \in Names : Complete(nets'[a])
      BY Zenon, <2>2, <2>3 DEF IInv, Shape
    <3> QED BY Zenon, <1>1, <2>4, <3>1, <3>2 DEF IInv, Shape
  <2>6. PoolInv'
    <3>1. WriteInv(req[r])'
      BY Zenon, <1>5 DEF WriteInv, PutPcs
    <3> QED BY Zenon, <1>1, <1>5, <3>1, PoolStays
  <2>7. /\ ~Holds(r)' /\ ~Reserves(r)'
        /\ \A q \in Reqs \ {r} : req'[q] = req[q] /\ (Holds(q)' <=> Holds(q))
                                  /\ (Reserves(q)' <=> Reserves(q))
    BY Zenon, <1>5 DEF Others, Holds, Reserves
  <2>8. UniqueVNI'
    <3> SUFFICES ASSUME ~discarded, ~stale PROVE UniqueVNI'
      BY Zenon, <1>1 DEF UniqueVNI
    <3>1. /\ f.vni - 1 \in vlan.val /\ \A a \in Names : nets[a].vni # f.vni
          /\ \A q \in Reqs \ {r} : Holds(q) => req[q].vni # f.vni
      BY Zenon, <1>3 DEF IInv, UniqueVNI
    <3>2. ASSUME NEW a \in Names, nets'[a] # NoNet
          PROVE  /\ nets'[a].vni - 1 \in vlan.val
                 /\ \A b \in Names \ {a} : nets'[b].vni # nets'[a].vni
      BY <2>2, <2>3, <3>1, <3>2 DEF IInv, UniqueVNI
    <3>3. ASSUME NEW q \in Reqs, Holds(q)'
          PROVE  /\ req'[q].vni - 1 \in vlan.val
                 /\ \A a \in Names : nets'[a].vni # req'[q].vni
                 /\ \A p \in Reqs \ {q} : Holds(p)' => req'[p].vni # req'[q].vni
      <4>1. q # r /\ req'[q] = req[q] /\ Holds(q)
        BY Zenon, <2>7, <3>3
      <4>2. /\ req[q].vni - 1 \in vlan.val
            /\ \A a \in Names : nets[a].vni # req[q].vni
            /\ \A p \in Reqs \ {q} : Holds(p) => req[p].vni # req[q].vni
        BY Zenon, <4>1 DEF IInv, UniqueVNI
      <4> QED BY <2>2, <2>3, <2>7, <3>1, <4>1, <4>2
    <3> QED BY Zenon, <1>1, <3>2, <3>3 DEF UniqueVNI
  <2>9. Reserved'
    <3> SUFFICES ASSUME ~unreserved, NEW q \in Reqs, Reserves(q)'
                 PROVE  /\ req'[q].gateway - 1 \in ips[Key(req'[q])]
                        /\ \A p \in Reqs \ {q} : Reserves(p)' /\ Key(req'[p]) = Key(req'[q]) =>
                             req'[p].gateway # req'[q].gateway
                        /\ \A a \in Names : Key(nets'[a]) = Key(req'[q]) =>
                             nets'[a].gateway # req'[q].gateway
      BY Zenon, <1>1 DEF Reserved
    <3>1. q # r /\ req'[q] = req[q] /\ Reserves(q)
      BY Zenon, <2>7
    <3>2. /\ req[q].gateway - 1 \in ips[Key(req[q])]
          /\ \A p \in Reqs \ {q} : Reserves(p) /\ Key(req[p]) = Key(req[q]) =>
               req[p].gateway # req[q].gateway
          /\ \A a \in Names : Key(nets[a]) = Key(req[q]) => nets[a].gateway # req[q].gateway
      BY Zenon, <3>1 DEF IInv, Reserved
    <3>3. Key(net) = Key(req[q]) => net.gateway # req[q].gateway
      BY Zenon, <1>3, <2>2, <3>1, <3>2
    <3> QED BY Zenon, <2>3, <2>7, <3>1, <3>2, <3>3
  <2>10. GatewaysMarked'
    <3> SUFFICES ASSUME ~unreserved PROVE GatewaysMarked'
      BY Zenon, <1>1 DEF GatewaysMarked
    <3>1. /\ f.gateway - 1 \in ips[Key(f)]
          /\ \A a \in Names : Key(nets[a]) = Key(f) => nets[a].gateway # f.gateway
      BY Zenon, <1>3 DEF IInv, Reserved
    <3>2. ASSUME NEW a \in Names, nets'[a] # NoNet
          PROVE  /\ nets'[a].gateway - 1 \in ips[Key(nets'[a])]
                 /\ \A b \in Names \ {a} : Key(nets'[b]) = Key(nets'[a]) =>
                      nets'[b].gateway # nets'[a].gateway
      <4>1. CASE a = a0
        BY Zenon, <2>2, <2>3, <3>1, <4>1
      <4>2. CASE a # a0
        <5>1. /\ nets'[a] = nets[a] /\ nets[a] # NoNet
          BY Zenon, <2>3, <3>2, <4>2
        <5>2. /\ nets[a].gateway - 1 \in ips[Key(nets[a])]
              /\ \A b \in Names \ {a} : Key(nets[b]) = Key(nets[a]) =>
                   nets[b].gateway # nets[a].gateway
          BY Zenon, <5>1 DEF IInv, GatewaysMarked
        <5>3. Key(net) = Key(nets[a]) => net.gateway # nets[a].gateway
          BY Zenon, <2>2, <3>1
        <5> QED BY Zenon, <2>3, <5>1, <5>2, <5>3
      <4> QED BY Zenon, <4>1, <4>2
    <3>3. ASSUME ~abandoned, NEW k \in VNI \X Subnets, NEW b \in ips[k]
          PROVE  \/ \E a \in Names : Key(nets'[a]) = k /\ nets'[a].gateway = b + 1
                 \/ \E q \in Reqs : Reserves(q)' /\ Key(req'[q]) = k /\ req'[q].gateway = b + 1
      <4>1. \/ \E a \in Names : Key(nets[a]) = k /\ nets[a].gateway = b + 1
            \/ \E q \in Reqs : Reserves(q) /\ Key(req[q]) = k /\ req[q].gateway = b + 1
        BY Zenon, <3>3 DEF IInv, GatewaysMarked
      <4>2. CASE \E a \in Names : Key(nets[a]) = k /\ nets[a].gateway = b + 1
        <5>1. PICK a \in Names : Key(nets[a]) = k /\ nets[a].gateway = b + 1
          BY Zenon, <4>2
        <5>2. a # a0
          BY Zenon, <2>1, <5>1, KeyTypes
        <5> QED BY Zenon, <2>3, <5>1, <5>2
      <4>3. CASE \E q \in Reqs : Reserves(q) /\ Key(req[q]) = k /\ req[q].gateway = b + 1
        <5>1. PICK q \in Reqs : Reserves(q) /\ Key(req[q]) = k /\ req[q].gateway = b + 1
          BY Zenon, <4>3
        <5>2. CASE q = r
          BY Zenon, <1>3, <2>2, <2>3, <5>1, <5>2
        <5>3. CASE q # r
          BY Zenon, <2>7, <5>1, <5>3
        <5> QED BY Zenon, <5>2, <5>3
      <4> QED BY Zenon, <4>1, <4>2, <4>3
    <3> QED BY Zenon, <1>1, <2>1, <3>2, <3>3 DEF GatewaysMarked
  <2> QED BY Zenon, <2>5, <2>6, <2>8, <2>9, <2>10 DEF IInv
<1> QED BY Zenon, <1>4, <1>7, <1>8

(* A request reserves a gateway whose mark was free under its key. *)
LEMMA Reserving ==
  ASSUME IInv, NEW r \in Reqs, Others(r), nets' = nets, abandoned' = abandoned, ~unreserved,
         ~Reserves(r), Reserves(r)', NEW k \in VNI \X Subnets, NEW g \in Int,
         Key(req'[r]) = k, req'[r].gateway = g, g - 1 \notin ips[k],
         ips'[k] = ips[k] \cup {g - 1}, \A j \in VNI \X Subnets : j # k => ips'[j] = ips[j]
  PROVE  Reserved' /\ GatewaysMarked'
<1>1. \A q \in Reqs \ {r} : req'[q] = req[q] /\ (Reserves(q)' <=> Reserves(q))
  BY Zenon DEF Others, Reserves
<1>2. \A j \in VNI \X Subnets : ips[j] \subseteq ips'[j]
  BY Zenon
<1>3. \A q \in Reqs : Reserves(q) =>
        /\ q # r /\ Key(req[q]) \in VNI \X Subnets
        /\ req[q].gateway - 1 \in ips[Key(req[q])]
        /\ Key(req[q]) = k => req[q].gateway # g
  BY Zenon, KeyTypes DEF IInv, Reserved
<1>4. \A a \in Names : nets[a] # NoNet =>
        /\ Key(nets[a]) \in VNI \X Subnets
        /\ nets[a].gateway - 1 \in ips[Key(nets[a])]
        /\ Key(nets[a]) = k => nets[a].gateway # g
  BY Zenon, KeyTypes DEF IInv, GatewaysMarked
<1>5. Reserved'
  <2> SUFFICES ASSUME NEW q \in Reqs, Reserves(q)'
               PROVE  /\ req'[q].gateway - 1 \in ips'[Key(req'[q])]
                      /\ \A p \in Reqs \ {q} : Reserves(p)' /\ Key(req'[p]) = Key(req'[q]) =>
                           req'[p].gateway # req'[q].gateway
                      /\ \A a \in Names : Key(nets[a]) = Key(req'[q]) =>
                           nets[a].gateway # req'[q].gateway
    BY Zenon DEF Reserved
  <2>1. CASE q = r
    BY <1>1, <1>3, <1>4, <2>1, KeyTypes
  <2>2. CASE q # r
    <3>1. req'[q] = req[q] /\ Reserves(q)
      BY Zenon, <1>1, <2>2
    <3>2. req[q].gateway - 1 \in ips'[Key(req[q])]
      BY Zenon, <1>2, <1>3, <3>1
    <3>3. ASSUME NEW p \in Reqs \ {q}, Reserves(p)', Key(req'[p]) = Key(req[q])
          PROVE  req'[p].gateway # req[q].gateway
      <4>1. CASE p = r
        BY Zenon, <1>3, <3>1, <3>3, <4>1
      <4>2. CASE p # r
        BY <1>1, <3>1, <3>3, <4>2 DEF IInv, Reserved
      <4> QED BY Zenon, <4>1, <4>2
    <3>4. \A a \in Names : Key(nets[a]) = Key(req[q]) => nets[a].gateway # req[q].gateway
      BY Zenon, <3>1 DEF IInv, Reserved
    <3> QED BY Zenon, <3>1, <3>2, <3>3, <3>4
  <2> QED BY Zenon, <2>1, <2>2
<1>6. ASSUME NEW a \in Names, nets[a] # NoNet
      PROVE  /\ nets[a].gateway - 1 \in ips'[Key(nets[a])]
             /\ \A b \in Names \ {a} : Key(nets[b]) = Key(nets[a]) =>
                  nets[b].gateway # nets[a].gateway
  BY Zenon, <1>2, <1>4, <1>6 DEF IInv, GatewaysMarked
<1>7. ASSUME ~abandoned, NEW j \in VNI \X Subnets, NEW b \in ips'[j]
      PROVE  \/ \E a \in Names : Key(nets[a]) = j /\ nets[a].gateway = b + 1
             \/ \E q \in Reqs : Reserves(q)' /\ Key(req'[q]) = j /\ req'[q].gateway = b + 1
  <2>1. CASE b \in ips[j]
    <3>1. \/ \E a \in Names : Key(nets[a]) = j /\ nets[a].gateway = b + 1
          \/ \E q \in Reqs : Reserves(q) /\ Key(req[q]) = j /\ req[q].gateway = b + 1
      BY <1>7, <2>1 DEF IInv, GatewaysMarked
    <3> QED BY Zenon, <1>1, <1>3, <3>1
  <2>2. CASE j = k /\ b = g - 1
    BY <2>2
  <2> QED BY Zenon, <1>7, <2>1, <2>2
<1>8. GatewaysMarked'
  BY <1>6, <1>7 DEF GatewaysMarked
<1> QED BY Zenon, <1>5, <1>8

(* The gateway that is released is nobody else's. *)
LEMMA Releasing ==
  ASSUME IInv, NEW r \in Reqs, Others(r), nets' = nets, abandoned' = abandoned, ~unreserved,
         Reserves(r), ~Reserves(r)', NEW k, NEW g, Key(req[r]) = k, req[r].gateway = g,
         ips'[k] = ips[k] \ {g - 1}, \A j \in VNI \X Subnets : j # k => ips'[j] = ips[j]
  PROVE  Reserved' /\ GatewaysMarked'
<1>1. \A q \in Reqs \ {r} : req'[q] = req[q] /\ (Reserves(q)' <=> Reserves(q))
  BY Zenon DEF Others, Reserves
<1>2. g \in Int /\ k \in VNI \X Subnets
  BY KeyTypes, NetworkAssumption
<1>3. \A q \in Reqs \ {r} : Reserves(q) => req[q].gateway - 1 \in ips'[Key(req[q])]
  <2> SUFFICES ASSUME NEW q \in Reqs \ {r}, Reserves(q)
               PROVE  req[q].gateway - 1 \in ips'[Key(req[q])]
    BY Zenon
  <2>1. /\ req[q].gateway - 1 \in ips[Key(req[q])]
        /\ Key(req[q]) = k => req[q].gateway # g
        /\ Key(req[q]) \in VNI \X Subnets /\ req[q].gateway \in Int
    BY KeyTypes, NetworkAssumption DEF IInv, Reserved
  <2>2. Key(req[q]) = k => req[q].gateway - 1 # g - 1
    BY <1>2, <2>1
  <2> QED BY Zenon, <2>1, <2>2
<1>4. Reserved'
  <2> SUFFICES ASSUME NEW q \in Reqs, Reserves(q)'
               PROVE  /\ req'[q].gateway - 1 \in ips'[Key(req'[q])]
                      /\ \A p \in Reqs \ {q} : Reserves(p)' /\ Key(req'[p]) = Key(req'[q]) =>
                           req'[p].gateway # req'[q].gateway
                      /\ \A a \in Names : Key(nets[a]) = Key(req'[q]) =>
                           nets[a].gateway # req'[q].gateway
    BY Zenon DEF Reserved
  <2>1. q # r /\ req'[q] = req[q] /\ Reserves(q)
    BY Zenon, <1>1
  <2>2. /\ \A p \in Reqs \ {q} : Reserves(p) /\ Key(req[p]) = Key(req[q]) =>
             req[p].gateway # req[q].gateway
        /\ \A a \in Names : Key(nets[a]) = Key(req[q]) => nets[a].gateway # req[q].gateway
    BY Zenon, <2>1 DEF IInv, Reserved
  <2> QED BY Zenon, <1>1, <1>3, <2>1, <2>2
<1>5. ASSUME NEW a \in Names, nets[a] # NoNet
      PROVE  /\ nets[a].gateway - 1 \in ips'[Key(nets[a])]
             /\ \A b \in Names \ {a} : Key(nets[b]) = Key(nets[a]) =>
                  nets[b].gateway # nets[a].gateway
  <2>1. /\ nets[a].gateway - 1 \in ips[Key(nets[a])]
        /\ \A b \in Names \ {a} : Key(nets[b]) = Key(nets[a]) =>
             nets[b].gateway # nets[a].gateway
    BY Zenon, <1>5 DEF IInv, GatewaysMarked
  <2>2. /\ Key(nets[a]) = k => nets[a].gateway # g
        /\ Key(nets[a]) \in VNI \X Subnets /\ nets[a].gateway \in Int
    BY <1>5, KeyTypes, NetworkAssumption DEF IInv, Reserved
  <2>3. Key(nets[a]) = k => nets[a].gateway - 1 # g - 1
    BY <1>2, <2>2
  <2> QED BY Zenon, <2>1, <2>2, <2>3
<1>6. ASSUME ~abandoned, NEW j \in VNI \X Subnets, NEW b \in ips'[j]
      PROVE  \/ \E a \in Names : Key(nets[a]) = j /\ nets[a].gateway = b + 1
             \/ \E q \in Reqs : Reserves(q)' /\ Key(req'[q]) = j /\ req'[q].gateway = b + 1
  <2>1. b \in ips[j] /\ (j = k => b # g - 1)
    BY Zenon, <1>6
  <2>2. b \in Int
    BY <2>1 DEF IInv, Shape, TypeOK
  <2>3. j = k => b + 1 # g
    BY <1>2, <2>1, <2>2
  <2>4. \/ \E a \in Names : Key(nets[a]) = j /\ nets[a].gateway = b + 1
        \/ \E q \in Reqs : Reserves(q) /\ Key(req[q]) = j /\ req[q].gateway = b + 1
    BY <1>6, <2>1 DEF IInv, GatewaysMarked
  <2> QED BY Zenon, <1>1, <2>3, <2>4
<1>7. GatewaysMarked'
  BY <1>5, <1>6 DEF GatewaysMarked
<1> QED BY Zenon, <1>4, <1>7

LEMMA ReleaseGatewayIInv ==
  ASSUME IInv, NEW r \in Reqs, ReleaseGateway(r)
  PROVE  IInv'
<1> DEFINE f == req[r]
           k == <<f.vni, f.subnet>>
           g == [NoReq EXCEPT !.pc = "getNetwork", !.act = "create", !.node = f.node,
                              !.name = f.name, !.subnet = f.subnet]
<1>1. /\ f.pc = "releaseIP"
      /\ UNCHANGED <<vlan, nets, iface, Gateways, sync, made, missed, discarded, stale, unreserved>>
  BY Zenon DEF ReleaseGateway
<1>2. \/ /\ ips' = [ips EXCEPT ![k] = Clear(@, f.gateway - 1)]
         /\ req' = [req EXCEPT ![r] = g]
         /\ faults' = faults /\ abandoned' = abandoned
      \/ /\ mayFail /\ faults' = faults + 1 /\ req' = [req EXCEPT ![r] = g]
         /\ abandoned' = TRUE /\ ips' = ips
      \/ Return(r) /\ abandoned' = TRUE /\ ips' = ips /\ faults' = faults
  BY Zenon DEF ReleaseGateway
<1>3. /\ f.node \in Nodes /\ f.name \in Names /\ f.subnet \in Subnets /\ f.vni \in VNI
      /\ TypeOK /\ Reserves(r)
  BY Zenon, <1>1, Creating, EarlyReq
<1>4. g \in Request /\ Local(g) /\ g.pc = "getNetwork" /\ g.gateway = 0
  BY Zenon, <1>3, StartOfCreate
<1> HIDE DEF g
<1>5. ASSUME req' = [req EXCEPT ![r] = g]
      PROVE  /\ req' \in [Reqs -> Request] /\ req'[r] = g /\ Others(r)
             /\ WriteInv(req[r])' /\ ~Holds(r)' /\ ~Reserves(r)'
  <2>1. req' \in [Reqs -> Request] /\ req'[r] = g /\ Others(r)
    BY Zenon, <1>3, <1>4, <1>5, Replaced
  <2> QED BY Zenon, <1>4, <2>1 DEF WriteInv, PutPcs, Holds, Reserves
<1>6. faults' \in 0 .. MaxFaults
  BY Zenon, <1>2, <1>3, FaultType
<1>7. {discarded', stale', unreserved', abandoned'} \subseteq BOOLEAN
  <2>1. abandoned' \in BOOLEAN
    <3>1. abandoned \in BOOLEAN
      BY Zenon, <1>3 DEF TypeOK
    <3>2. abandoned' = abandoned \/ abandoned' = TRUE
      BY <1>2, Zenon
    <3> QED BY <3>1, <3>2, Zenon
  <2> QED BY Zenon, <1>1, <1>3, <2>1 DEF TypeOK
<1>8. CASE Return(r) /\ abandoned' = TRUE /\ ips' = ips
  <2>1. req' \in [Reqs -> Request]
    BY Zenon, <1>3, <1>8, ReturnProps
  <2>2. TypeOK'
    BY Zenon, <1>1, <1>3, <1>8, <1>6, <1>7, <2>1, TypeStays
  <2> QED BY Zenon, <1>1, <1>8, <2>2, ReturnIInv
<1>9. CASE ips' = ips /\ abandoned' = TRUE /\ req' = [req EXCEPT ![r] = g]
  <2>1. TypeOK'
    BY Zenon, <1>1, <1>3, <1>5, <1>6, <1>7, <1>9, TypeStays
  <2> QED BY Zenon, <1>1, <1>4, <1>5, <1>9, <2>1, QuietIInv
<1>10. CASE /\ ips' = [ips EXCEPT ![k] = Clear(@, f.gateway - 1)]
            /\ req' = [req EXCEPT ![r] = g]
            /\ faults' = faults /\ abandoned' = abandoned
  <2>1. k \in VNI \X Subnets /\ Key(f) = k
    BY Zenon, <1>3 DEF Key
  <2> HIDE DEF k
  <2>2. /\ ips' \in [VNI \X Subnets -> SUBSET (0 .. Hosts - 1)]
        /\ ips'[k] = ips[k] \ {f.gateway - 1}
        /\ \A j \in VNI \X Subnets : j # k => ips'[j] = ips[j]
    BY Zenon, <1>3, <1>10, <2>1 DEF TypeOK, Clear
  <2>3. TypeOK'
    BY Zenon, <1>1, <1>3, <1>5, <1>6, <1>7, <1>10, <2>2 DEF TypeOK
  <2>4. Shape' /\ PoolInv' /\ UniqueVNI'
    BY Zenon, <1>1, <1>4, <1>5, <1>10, <2>3, ShapeStays, PoolStays, VNIsStay
  <2>5. CASE unreserved
    <3>1. Reserved' /\ GatewaysMarked'
      BY Zenon, <1>1, <2>5 DEF Reserved, GatewaysMarked
    <3> QED BY Zenon, <2>4, <3>1 DEF IInv
  <2>6. CASE ~unreserved
    <3>1. Reserved' /\ GatewaysMarked'
      BY <1>1, <1>3, <1>5, <1>10, <2>1, <2>2, <2>6, Releasing
    <3> QED BY Zenon, <2>4, <3>1 DEF IInv
  <2> QED BY Zenon, <2>5, <2>6
<1> QED BY Zenon, <1>2, <1>8, <1>9, <1>10

-----------------------------------------------------------------------------
(* DeleteNetwork, once it has read the network. *)

LEMMA DeleteNetIInv ==
  ASSUME IInv, NEW r \in Reqs, DeleteNet(r)
  PROVE  IInv'
<1> DEFINE f == req[r]
           a0 == f.name
<1>1. f.pc = "delete" /\ UNCHANGED <<vlan, ips, iface, Gateways, sync, made, missed, discarded, unreserved>>
  BY Zenon DEF DeleteNet
<1>2. PICK applied \in BOOLEAN, ok \in BOOLEAN :
        /\ (applied /\ ok) \/ mayFail
        /\ Fault(~(applied /\ ok))
        /\ nets' = IF applied THEN [nets EXCEPT ![a0] = NoNet] ELSE nets
        /\ stale' = (stale \/ (ok /\ ~(applied /\ nets[a0] = f.read)))
        /\ abandoned' = (abandoned \/ applied)
        /\ IF ok THEN Goto(r, "releaseVNI") ELSE Return(r)
  BY Zenon DEF DeleteNet
<1>3. f \in Request /\ Local(f) /\ TypeOK
  BY Zenon, EarlyReq
<1>4. f.act = "delete" /\ f.node \in Nodes /\ a0 \in Names /\ f.vni \in VNI /\ f.vni = f.read.vni
  BY Zenon, <1>1, <1>3 DEF Local
<1>5. faults' \in 0 .. MaxFaults
  <2>1. faults' = faults \/ (mayFail /\ faults' = faults + 1)
    BY Zenon, <1>2 DEF Fault
  <2> QED BY Zenon, <1>3, <2>1, FaultType
<1>6. {discarded', stale', unreserved', abandoned'} \subseteq BOOLEAN
  <2>1. stale' \in BOOLEAN /\ abandoned' \in BOOLEAN
    BY <1>2, Zenon
  <2> QED BY Zenon, <1>1, <1>3, <2>1 DEF TypeOK
<1>7. /\ ~stale' => ~stale /\ (ok => applied /\ nets[a0] = f.read)
      /\ ~abandoned' => ~abandoned /\ ~applied
  BY Zenon, <1>2
<1>8. /\ req' \in [Reqs -> Request] /\ Others(r) /\ Local(req'[r])
      /\ req'[r].pc = (IF ok THEN "releaseVNI" ELSE "idle")
      /\ ok => req'[r].vni = f.vni
      /\ ~Reserves(r)'
  <2>1. CASE ok
    <3>1. Goto(r, "releaseVNI")
      BY Zenon, <1>2, <2>1
    <3>2. /\ req' \in [Reqs -> Request] /\ Others(r) /\ Same(r) /\ req'[r].pc = "releaseVNI"
      BY Zenon, <1>3, <3>1, GotoProps DEF Labels
    <3>3. Local(req'[r])
      BY Zenon, <1>4, <3>2 DEF Local, Same, CreatePcs, PutPcs
    <3>4. ~Reserves(r)' /\ req'[r].vni = f.vni
      BY Zenon, <1>4, <3>2 DEF Same, Reserves
    <3> QED BY Zenon, <2>1, <3>2, <3>3, <3>4
  <2>2. CASE ~ok
    <3>1. Return(r)
      BY Zenon, <1>2, <2>2
    <3>2. req' \in [Reqs -> Request] /\ Others(r) /\ Local(req'[r]) /\ req'[r].pc = "idle"
      BY Zenon, <1>3, <3>1, ReturnProps
    <3> QED BY Zenon, <2>2, <3>2 DEF Reserves
  <2> QED BY Zenon, <2>1, <2>2
<1>9. /\ nets' \in [Names -> Network]
      /\ \A a \in Names : nets'[a] = nets[a] \/ nets'[a] = NoNet
      /\ applied => nets'[a0] = NoNet /\ \A a \in Names \ {a0} : nets'[a] = nets[a]
      /\ ~applied => nets' = nets
  BY Zenon, <1>2, <1>3, <1>4, NoNetType DEF TypeOK
<1>10. TypeOK'
  BY <1>1, <1>3, <1>5, <1>6, <1>8, <1>9 DEF TypeOK
<1>11. Shape'
  <2>1. \A q \in Reqs : Local(req'[q])
    BY Zenon, <1>8 DEF IInv, Shape, Others
  <2>2. \A a \in Names : Complete(nets'[a])
    BY Zenon, <1>9 DEF IInv, Shape, Complete
  <2> QED BY Zenon, <1>1, <1>10, <2>1, <2>2 DEF IInv, Shape
<1>12. PoolInv'
  <2>1. WriteInv(req[r])'
    BY Zenon, <1>8 DEF WriteInv, PutPcs
  <2> QED BY Zenon, <1>1, <1>8, <2>1, PoolStays
<1>13. /\ ~Holds(r) /\ (Holds(r)' <=> ok) /\ ~Reserves(r)
       /\ \A q \in Reqs \ {r} : req'[q] = req[q] /\ (Holds(q)' <=> Holds(q))
                                 /\ (Reserves(q)' <=> Reserves(q))
  BY Zenon, <1>1, <1>4, <1>8 DEF Others, Holds, Reserves
<1>14. \A q \in Reqs : Holds(q) => req[q].vni # 0
  <2>1. \A q \in Reqs : Holds(q) => req[q].vni \in VNI
    BY EarlyReq DEF Holds, Local
  <2> QED BY <2>1, NetworkAssumption DEF VNI
<1>15. UniqueVNI'
  <2> SUFFICES ASSUME ~discarded, ~stale' PROVE UniqueVNI'
    BY Zenon, <1>1 DEF UniqueVNI
  <2>1. ~stale /\ (ok => applied /\ nets[a0] = f.read)
    BY Zenon, <1>7
  <2>2. ASSUME NEW a \in Names, nets'[a] # NoNet
        PROVE  /\ nets'[a].vni - 1 \in vlan.val
               /\ \A b \in Names \ {a} : nets'[b].vni # nets'[a].vni
    <3>1. nets'[a] = nets[a] /\ nets[a] # NoNet
      BY Zenon, <1>9, <2>2
    <3>2. nets[a].vni # 0
      BY <3>1, NetworkAssumption DEF IInv, Shape, Complete, VNI
    <3>3. /\ nets[a].vni - 1 \in vlan.val
          /\ \A b \in Names \ {a} : nets[b].vni # nets[a].vni
      BY Zenon, <2>1, <3>1 DEF IInv, UniqueVNI
    <3> QED BY Zenon, <1>9, <3>1, <3>2, <3>3, NoNetType
  <2>3. ASSUME NEW q \in Reqs \ {r}, Holds(q)
        PROVE  /\ req[q].vni - 1 \in vlan.val
               /\ \A a \in Names : nets'[a].vni # req[q].vni
               /\ \A p \in Reqs \ {q} : Holds(p) => req[p].vni # req[q].vni
               /\ ok => req[q].vni # f.vni
    <3>1. /\ req[q].vni - 1 \in vlan.val
          /\ \A a \in Names : nets[a].vni # req[q].vni
          /\ \A p \in Reqs \ {q} : Holds(p) => req[p].vni # req[q].vni
      BY Zenon, <2>1, <2>3 DEF IInv, UniqueVNI
    <3>2. \A a \in Names : nets'[a].vni # req[q].vni
      BY SMTT(30), <1>9, <1>14, <2>3, <3>1, NoNetType
    <3> QED BY Zenon, <1>4, <2>1, <3>1, <3>2
  <2>4. ASSUME ok
        PROVE  f.vni - 1 \in vlan.val /\ \A a \in Names : nets'[a].vni # f.vni
    <3>1. f.vni = nets[a0].vni /\ f.vni # 0 /\ nets[a0] # NoNet
      BY SMTT(30), <1>4, <2>1, <2>4, NoNetType, NetworkAssumption DEF VNI
    <3>2. f.vni - 1 \in vlan.val /\ \A a \in Names \ {a0} : nets[a].vni # f.vni
      BY <1>4, <2>1, <3>1 DEF IInv, UniqueVNI
    <3> QED BY <1>9, <2>1, <2>4, <3>1, <3>2, NoNetType
  <2>5. ASSUME NEW q \in Reqs, Holds(q)'
        PROVE  /\ req'[q].vni - 1 \in vlan.val
               /\ \A a \in Names : nets'[a].vni # req'[q].vni
               /\ \A p \in Reqs \ {q} : Holds(p)' => req'[p].vni # req'[q].vni
    <3>1. CASE q = r
      BY <1>8, <1>13, <2>3, <2>4, <2>5, <3>1
    <3>2. CASE q # r
      BY Zenon, <1>8, <1>13, <2>3, <2>5, <3>2
    <3> QED BY Zenon, <3>1, <3>2
  <2> QED BY Zenon, <1>1, <2>2, <2>5 DEF UniqueVNI
<1>16. \A a \in Names, k \in VNI \X Subnets :
         Key(nets'[a]) = k => nets'[a] = nets[a]
  <2>1. \A k \in VNI \X Subnets : Key(NoNet) # k
    BY NoNetType, NetworkAssumption DEF Key, VNI
  <2> QED BY Zenon, <1>9, <2>1
<1>17. Reserved'
  <2> SUFFICES ASSUME ~unreserved, NEW q \in Reqs, Reserves(q)'
               PROVE  /\ req'[q].gateway - 1 \in ips[Key(req'[q])]
                      /\ \A p \in Reqs \ {q} : Reserves(p)' /\ Key(req'[p]) = Key(req'[q]) =>
                           req'[p].gateway # req'[q].gateway
                      /\ \A a \in Names : Key(nets'[a]) = Key(req'[q]) =>
                           nets'[a].gateway # req'[q].gateway
    BY Zenon, <1>1 DEF Reserved
  <2>1. q # r /\ req'[q] = req[q] /\ Reserves(q)
    BY Zenon, <1>8, <1>13
  <2>2. /\ req[q].gateway - 1 \in ips[Key(req[q])]
        /\ \A p \in Reqs \ {q} : Reserves(p) /\ Key(req[p]) = Key(req[q]) =>
             req[p].gateway # req[q].gateway
        /\ \A a \in Names : Key(nets[a]) = Key(req[q]) => nets[a].gateway # req[q].gateway
    BY Zenon, <2>1 DEF IInv, Reserved
  <2>3. Key(req[q]) \in VNI \X Subnets
    BY Zenon, <2>1, KeyTypes
  <2>4. \A a \in Names : Key(nets'[a]) = Key(req[q]) => nets'[a].gateway # req[q].gateway
    BY Zenon, <1>16, <2>2, <2>3
  <2>5. \A p \in Reqs : Reserves(p)' => p # r /\ req'[p] = req[p] /\ Reserves(p)
    BY Zenon, <1>8, <1>13
  <2> QED BY Zenon, <2>1, <2>2, <2>4, <2>5
<1>18. GatewaysMarked'
  <2> SUFFICES ASSUME ~unreserved PROVE GatewaysMarked'
    BY Zenon, <1>1 DEF GatewaysMarked
  <2>1. ASSUME NEW a \in Names, nets'[a] # NoNet
        PROVE  /\ nets'[a].gateway - 1 \in ips[Key(nets'[a])]
               /\ \A b \in Names \ {a} : Key(nets'[b]) = Key(nets'[a]) =>
                    nets'[b].gateway # nets'[a].gateway
    <3>1. nets'[a] = nets[a] /\ nets[a] # NoNet /\ Key(nets[a]) \in VNI \X Subnets
      BY Zenon, <1>9, <2>1, KeyTypes
    <3> QED BY <1>16, <3>1 DEF IInv, GatewaysMarked
  <2>2. ASSUME ~abandoned', NEW k \in VNI \X Subnets, NEW b \in ips[k]
        PROVE  \/ \E a \in Names : Key(nets'[a]) = k /\ nets'[a].gateway = b + 1
               \/ \E q \in Reqs : Reserves(q)' /\ Key(req'[q]) = k /\ req'[q].gateway = b + 1
    <3>1. ~abandoned /\ nets' = nets
      BY Zenon, <1>7, <1>9, <2>2
    <3> QED BY <1>13, <2>2, <3>1 DEF IInv, GatewaysMarked
  <2> QED BY Zenon, <1>1, <2>1, <2>2 DEF GatewaysMarked
<1> QED BY Zenon, <1>11, <1>12, <1>15, <1>17, <1>18 DEF IInv

LEMMA DeleteInterfaceIInv ==
  ASSUME IInv, NEW r \in Reqs, DeleteInterface(r)
  PROVE  IInv'
<1>1. /\ req[r].pc = "deletePort" /\ deletePort(req[r].node, req[r].name) /\ Return(r)
      /\ UNCHANGED <<vlan, ips, nets, Gateways, sync, made>> /\ UNCHANGED history
  BY Zenon DEF DeleteInterface
<1>2. Local(req[r]) /\ TypeOK
  BY Zenon, EarlyReq
<1>3. req[r].node \in Nodes /\ req[r].name \in Names /\ ~Reserves(r)
  BY Zenon, <1>1, <1>2 DEF Local, Reserves
<1>4. /\ iface' \in [Nodes -> [Names -> Interface]]
      /\ missed' \subseteq Nodes \X Names /\ faults' \in 0 .. MaxFaults
  BY Zenon, <1>1, <1>2, <1>3, DeletedPort
<1>5. /\ {discarded', stale', unreserved', abandoned'} \subseteq BOOLEAN
      /\ discarded' = discarded /\ stale' = stale /\ unreserved' = unreserved
      /\ abandoned' = abandoned
  BY Zenon, <1>1, <1>2, HistoryType
<1>6. TypeOK'
  BY Zenon, <1>1, <1>2, <1>4, <1>5, ReturnProps DEF TypeOK
<1> QED BY Zenon, <1>1, <1>3, <1>5, <1>6, ReturnIInv


(* TestAndSet takes a free bit, or leaves the bits and says there is none. *)
LEMMA Took ==
  ASSUME NEW size \in Nat, NEW bits \in SUBSET (0 .. size - 1)
  PROVE  LET t == TestAndSet(bits, size)
         IN  /\ t.pos \in 1 .. size + 1 /\ t.bits \in SUBSET (0 .. size - 1)
             /\ t.pos <= size => t.pos - 1 \notin bits /\ t.bits = bits \cup {t.pos - 1}
             /\ t.pos = size + 1 => t.bits = bits
<1>1. CASE Free(bits, size) = {}
  <2>1. TestAndSet(bits, size) = [bits |-> bits, pos |-> size + 1]
    BY Zenon, <1>1 DEF TestAndSet
  <2> QED BY <2>1
<1>2. CASE Free(bits, size) # {}
  <2> DEFINE i == Smallest(Free(bits, size))
  <2>1. i \in (0 .. size - 1) \ bits
    <3>1. Free(bits, size) \in SUBSET Nat
      BY DEF Free
    <3> QED BY Zenon, <1>2, <3>1, SmallestProps DEF Free
  <2>2. TestAndSet(bits, size) = [bits |-> bits \cup {i}, pos |-> i + 1]
    BY Zenon, <1>2 DEF TestAndSet, Set
  <2> HIDE DEF i
  <2>3. i \in Int /\ i + 1 - 1 = i /\ i + 1 \in 1 .. size
    BY <2>1
  <2> QED BY <2>1, <2>2, <2>3
<1> QED BY Zenon, <1>1, <1>2

LEMMA allocateVNIIInv ==
  ASSUME IInv, NEW r \in Reqs, allocateVNI(r)
  PROVE  IInv'
<1> DEFINE f == req[r]
<1>1. /\ f.pc = "allocateVNI" /\ UNCHANGED <<vlan, ips, nets, iface, Gateways, sync, made, missed>>
      /\ UNCHANGED history
  BY SMTT(30) DEF allocateVNI
<1>2. PICK reply \in Get(vlan, {}, mayFail) :
       LET t == TestAndSet(reply.val, vlanCount)
       IN  /\ Fault(reply # vlan)
           /\ IF t.pos > vlanCount
              THEN Return(r)
              ELSE req' = [req EXCEPT ![r].pc = "putVNI", ![r].op = "allocate",
                                      ![r].vni = t.pos, ![r].oldVal = reply.val,
                                      ![r].newVal = t.bits]
  BY Zenon DEF allocateVNI
<1>3. f \in Request /\ Local(f) /\ TypeOK /\ ~Reserves(r)
  BY Zenon, <1>1, EarlyReq DEF Early
<1>4. /\ reply.val \in Bits /\ faults' \in 0 .. MaxFaults
      /\ vlan.idx = 0 => reply.val = {}
  BY Zenon, <1>2, PoolReply
<1>5. /\ {discarded', stale', unreserved', abandoned'} \subseteq BOOLEAN
      /\ discarded' = discarded /\ stale' = stale /\ unreserved' = unreserved
      /\ abandoned' = abandoned
  BY Zenon, <1>1, <1>3, HistoryType
<1> DEFINE t == TestAndSet(reply.val, vlanCount)
<1>6. CASE Return(r)
  <2>1. TypeOK'
    BY Zenon, <1>1, <1>3, <1>4, <1>5, <1>6, ReturnProps, TypeStays
  <2> QED BY Zenon, <1>1, <1>3, <1>5, <1>6, <2>1, ReturnIInv
<1>7. CASE /\ ~(t.pos > vlanCount)
           /\ req' = [req EXCEPT ![r].pc = "putVNI", ![r].op = "allocate",
                                 ![r].vni = t.pos, ![r].oldVal = reply.val,
                                 ![r].newVal = t.bits]
  <2>1. /\ t.pos \in VNI /\ t.bits \in Bits
        /\ t.pos - 1 \notin reply.val /\ t.bits = reply.val \cup {t.pos - 1}
    BY <1>4, <1>7, Took, NetworkAssumption DEF VNI, Bits
  <2> HIDE DEF t
  <2> DEFINE g == [f EXCEPT !.pc = "putVNI", !.op = "allocate", !.vni = t.pos,
                            !.oldVal = reply.val, !.newVal = t.bits]
  <2>2. /\ g.pc = "putVNI" /\ g.op = "allocate" /\ g.vni = t.pos /\ g.oldVal = reply.val
        /\ g.newVal = t.bits /\ g.act = f.act /\ g.node = f.node /\ g.name = f.name
        /\ g.subnet = f.subnet /\ g.gateway = f.gateway
    BY Zenon, <1>3 DEF Request
  <2>3. g \in Request
    <3>1. t.pos \in 0 .. vlanCount
      BY <2>1 DEF VNI
    <3> QED BY ZenonT(30), <1>3, <1>4, <2>1, <3>1 DEF Request, Labels
  <2>4. req' = [req EXCEPT ![r] = g]
    BY Zenon, <1>7
  <2> HIDE DEF g
  <2>5. req' \in [Reqs -> Request] /\ req'[r] = g /\ Others(r)
    BY Zenon, <1>3, <2>3, <2>4, Replaced
  <2>6. TypeOK'
    BY Zenon, <1>1, <1>3, <1>4, <1>5, <2>5, TypeStays
  <2>7. Local(req'[r])
    BY Zenon, <1>1, <1>3, <2>1, <2>2, <2>5 DEF Local, Early, CreatePcs, PutPcs
  <2>8. WriteInv(req[r])'
    BY Zenon, <1>1, <1>4, <2>1, <2>2, <2>5 DEF WriteInv
  <2>9. ~Holds(r)' /\ ~Reserves(r)'
    BY Zenon, <1>1, <1>3, <2>2, <2>5 DEF Holds, Reserves, Local, Early, CreatePcs
  <2> QED BY Zenon, <1>1, <1>3, <1>5, <2>5, <2>6, <2>7, <2>8, <2>9, QuietIInv
<1> QED BY Zenon, <1>2, <1>6, <1>7

LEMMA RequestGatewayIInv ==
  ASSUME IInv, NEW r \in Reqs, RequestGateway(r)
  PROVE  IInv'
<1> DEFINE f == req[r]
           ip == GetIfaceAddr(f.node, f.name)
           k == <<f.vni, f.subnet>>
           t == TestAndSet(ips[k], Hosts)
<1>1. /\ f.pc = "getIfaceAddr" /\ UNCHANGED <<vlan, nets, iface, Gateways, sync, made, missed>>
      /\ UNCHANGED <<discarded, stale, abandoned>>
      /\ unreserved' = (unreserved \/ ip # <<>> \/ ips' = ips)
  BY SMTT(30) DEF RequestGateway
<1>2. PICK pos \in 1 .. Hosts + 1 :
        /\ RequestIP(f.vni, f.subnet, pos)
        /\ req' = [req EXCEPT ![r] =
             IF ip = <<>>
             THEN [f EXCEPT !.pc = "addInternalPort", !.gateway = pos]
             ELSE [f EXCEPT !.pc = "putNet", !.subnet = ip[1], !.gateway = ip[2]]]
  BY Zenon DEF RequestGateway
<1>3. f \in Request /\ Local(f) /\ TypeOK /\ ~Reserves(r)
  BY Zenon, <1>1, EarlyReq DEF Early
<1>4. /\ f.act = "create" /\ f.node \in Nodes /\ f.name \in Names /\ f.subnet \in Subnets
      /\ f.vni \in VNI /\ k \in VNI \X Subnets
  BY Zenon, <1>1, <1>3 DEF Local, CreatePcs
<1>5. ip = <<>> \/ ip \in Subnets \X (1 .. Hosts + 1)
  BY <1>3, <1>4 DEF GetIfaceAddr, TypeOK, Interface
<1> HIDE DEF ip
<1>6. /\ pos = t.pos /\ t.bits \in SUBSET (0 .. Hosts - 1)
      /\ t.pos <= Hosts => t.pos - 1 \notin ips[k] /\ t.bits = ips[k] \cup {t.pos - 1}
      /\ t.pos = Hosts + 1 => t.bits = ips[k]
  <2>1. ips[k] \in SUBSET (0 .. Hosts - 1) /\ Hosts \in Nat
    BY Zenon, <1>3, <1>4, NetworkAssumption DEF TypeOK
  <2> QED BY Zenon, <1>2, <2>1, Took DEF RequestIP
<1>7. \/ ips' = [ips EXCEPT ![k] = t.bits] /\ faults' = faults
      \/ mayFail /\ faults' = faults + 1 /\ ips' = ips
  BY Zenon, <1>2 DEF RequestIP
<1> HIDE DEF t
<1>8. faults' \in 0 .. MaxFaults
  BY Zenon, <1>3, <1>7, FaultType
<1>9. ips' \in [VNI \X Subnets -> SUBSET (0 .. Hosts - 1)]
  BY Zenon, <1>3, <1>4, <1>6, <1>7 DEF TypeOK
<1>10. /\ req'[r] \in Request /\ req' = [req EXCEPT ![r] = req'[r]]
       /\ req'[r].act = "create" /\ req'[r].node = f.node /\ req'[r].name = f.name
       /\ req'[r].vni = f.vni /\ req'[r].subnet \in Subnets
       /\ req'[r].gateway \in 1 .. Hosts + 1
       /\ req'[r].pc \in {"addInternalPort", "putNet"}
       /\ ip = <<>> => req'[r].subnet = f.subnet /\ req'[r].gateway = pos
  <2>1. CASE ip = <<>>
    <3> DEFINE g == [f EXCEPT !.pc = "addInternalPort", !.gateway = pos]
    <3>1. /\ g.act = f.act /\ g.node = f.node /\ g.name = f.name /\ g.vni = f.vni
          /\ g.subnet = f.subnet /\ g.gateway = pos /\ g.pc = "addInternalPort"
      BY Zenon, <1>3 DEF Request
    <3>2. pos \in 0 .. Hosts + 1
      BY <1>2
    <3>3. g \in Request
      BY Zenon, <1>3, <3>2 DEF Request, Labels
    <3>4. req' = [req EXCEPT ![r] = g]
      BY Zenon, <1>2, <2>1
    <3> HIDE DEF g
    <3>5. req'[r] = g
      BY Zenon, <1>3, <3>3, <3>4, Replaced
    <3> QED BY Zenon, <1>2, <1>4, <3>1, <3>3, <3>4, <3>5
  <2>2. CASE ip # <<>>
    <3> DEFINE g == [f EXCEPT !.pc = "putNet", !.subnet = ip[1], !.gateway = ip[2]]
    <3>1. ip[1] \in Subnets /\ ip[2] \in 1 .. Hosts + 1 /\ ip[2] \in 0 .. Hosts + 1
      BY <1>5, <2>2
    <3>2. /\ g.act = f.act /\ g.node = f.node /\ g.name = f.name /\ g.vni = f.vni
          /\ g.subnet = ip[1] /\ g.gateway = ip[2] /\ g.pc = "putNet"
      BY Zenon, <1>3 DEF Request
    <3>3. g \in Request
      BY Zenon, <1>3, <3>1 DEF Request, Labels
    <3>4. req' = [req EXCEPT ![r] = g]
      BY Zenon, <1>2, <2>2
    <3> HIDE DEF g
    <3>5. req'[r] = g
      BY Zenon, <1>3, <3>3, <3>4, Replaced
    <3> QED BY Zenon, <1>4, <2>2, <3>1, <3>2, <3>3, <3>4, <3>5
  <2> QED BY Zenon, <2>1, <2>2
<1>11. req' \in [Reqs -> Request] /\ Others(r)
  BY Zenon, <1>3, <1>10, Replaced
<1>12. TypeOK'
  <2>1. unreserved' \in BOOLEAN
    BY <1>1, Zenon
  <2>2. {discarded', stale', unreserved', abandoned'} \subseteq BOOLEAN
    BY Zenon, <1>1, <1>3, <2>1 DEF TypeOK
  <2> QED BY <1>1, <1>3, <1>8, <1>9, <1>11, <2>2 DEF TypeOK
<1>13. Local(req'[r])
  BY Zenon, <1>4, <1>10 DEF Local, Early, CreatePcs, PutPcs
<1>14. WriteInv(req[r])' /\ Holds(r)
  BY Zenon, <1>1, <1>10 DEF WriteInv, PutPcs, Holds
<1>15. Shape' /\ PoolInv' /\ UniqueVNI'
  BY <1>1, <1>10, <1>11, <1>12, <1>13, <1>14, ShapeStays, PoolStays, VNIsStay
<1>16. CASE unreserved'
  <2>1. Reserved' /\ GatewaysMarked'
    BY Zenon, <1>16 DEF Reserved, GatewaysMarked
  <2> QED BY Zenon, <1>15, <2>1 DEF IInv
<1>17. CASE ~unreserved'
  <2>1. ~unreserved /\ ip = <<>> /\ ips' # ips
    BY Zenon, <1>1, <1>17
  <2>2. ips' = [ips EXCEPT ![k] = t.bits] /\ ips \in [VNI \X Subnets -> SUBSET (0 .. Hosts - 1)]
    BY Zenon, <1>3, <1>7, <2>1 DEF TypeOK
  <2>3. pos \in Int /\ pos <= Hosts
    <3>1. t.bits # ips[k]
      BY Zenon, <1>4, <2>1, <2>2
    <3> QED BY <1>2, <1>6, <3>1, NetworkAssumption
  <2>4. /\ pos - 1 \notin ips[k] /\ ips'[k] = ips[k] \cup {pos - 1}
        /\ \A j \in VNI \X Subnets : j # k => ips'[j] = ips[j]
    BY Zenon, <1>4, <1>6, <2>2, <2>3
  <2>5. Key(req'[r]) = k /\ req'[r].gateway = pos /\ Reserves(r)'
    BY <1>2, <1>10, <2>1 DEF Key, Reserves
  <2> HIDE DEF k
  <2>6. k \in VNI \X Subnets
    BY Zenon, <1>4
  <2>7. Reserved' /\ GatewaysMarked'
    BY <1>1, <1>3, <1>11, <2>1, <2>3, <2>4, <2>5, <2>6, Reserving
  <2> QED BY Zenon, <1>15, <2>7 DEF IInv
<1> QED BY Zenon, <1>16, <1>17

-----------------------------------------------------------------------------
LEMMA StepIInv ==
  ASSUME IInv, NEW r \in Reqs, Step(r)
  PROVE  IInv'
<1>1. CASE GetNetwork(r) \/ allocateVNI(r) \/ releaseVNI(r) \/ putVNI(r) \/ casVNI(r)
  BY Zenon, <1>1, GetNetworkIInv, allocateVNIIInv, releaseVNIIInv, putVNIIInv, casVNIIInv
<1>2. CASE RequestGateway(r) \/ CreateInterface(r) \/ SetUpInterface(r) \/ putNet(r)
  BY Zenon, <1>2, RequestGatewayIInv, CreateInterfaceIInv, SetUpInterfaceIInv, putNetIInv
<1>3. CASE casNet(r) \/ ReleaseGateway(r) \/ DeleteNet(r) \/ DeleteInterface(r)
  BY Zenon, <1>3, casNetIInv, ReleaseGatewayIInv, DeleteNetIInv, DeleteInterfaceIInv
<1> QED BY Zenon, <1>1, <1>2, <1>3 DEF Step

LEMMA NextIInv == IInv /\ [Next]_vars => IInv'
<1> SUFFICES ASSUME IInv, [Next]_vars PROVE IInv'
  BY Zenon
<1>1. CASE UNCHANGED vars
  <2>1. /\ UNCHANGED <<vlan, ips, nets, iface, Gateways, req, sync, made, missed, faults>>
        /\ UNCHANGED <<discarded, stale, unreserved, abandoned>>
    BY Zenon, <1>1 DEF vars
  <2>2. Shape'
    BY Zenon, <2>1 DEF IInv, Shape, TypeOK
  <2>3. PoolInv'
    BY Zenon, <2>1 DEF IInv, PoolInv, WriteInv
  <2>4. UniqueVNI'
    BY <2>1 DEF IInv, UniqueVNI, Holds
  <2>5. Reserved' /\ GatewaysMarked'
    BY <2>1 DEF IInv, Reserved, GatewaysMarked, Reserves, Key
  <2> QED BY Zenon, <2>2, <2>3, <2>4, <2>5 DEF IInv
<1>2. ASSUME NEW r \in Reqs, CreateNetwork(r) \/ DeleteNetwork(r) \/ Step(r)
      PROVE  IInv'
  BY Zenon, <1>2, CreateNetworkIInv, DeleteNetworkIInv, StepIInv
<1>3. ASSUME NEW n \in Nodes, syncNetwork(n)
      PROVE  IInv'
  BY Zenon, <1>3, PollIInv, SyncAddIInv, SyncSetUpIInv, SyncPruneIInv DEF syncNetwork
<1> QED BY Zenon, <1>1, <1>2, <1>3 DEF Next

LEMMA SpecIInv == Spec => []IInv
  BY InitIInv, NextIInv, PTL DEF Spec

(* Every variable of Network keeps its type. *)
THEOREM TypeCorrect == Spec => []TypeOK
<1>1. IInv => TypeOK
  BY Zenon DEF IInv, Shape
<1> QED BY <1>1, SpecIInv, PTL

(* A VNI belongs to one stored network or one request in progress and is   *)
(* marked (network.go:327-375), however many nodes create and delete       *)
(* networks at once and whichever calls to consul fail, until allocateVNI  *)
(* ignores a failed Put or DeleteNetwork removes another network than it   *)
(* read.                                                                   *)
THEOREM NetworksHaveTheirOwnVNI == Spec => []UniqueVNI
<1>1. IInv => UniqueVNI
  BY Zenon DEF IInv
<1> QED BY <1>1, SpecIInv, PTL

(* The gateway of a stored network is marked in ipStore and no other       *)
(* network's under the same key, and no mark is left without its network   *)
(* or its request (network.go:139, 205), whatever happens to the VNIs.     *)
THEOREM StoredGatewaysAreMarked == Spec => []GatewaysMarked
<1>1. IInv => GatewaysMarked
  BY SMTT(30) DEF IInv
<1> QED BY <1>1, SpecIInv, PTL

(* A step of anything but casVNI leaves the pool of VNIs alone, and one of *)
(* anything but casNet and DeleteNet the stored networks.                  *)
LEMMA OnlyCasVNIWrites ==
  ASSUME Next, vlan' # vlan
  PROVE  \E r \in Reqs : casVNI(r)
  BY ZenonT(30)
  DEF Next, CreateNetwork, DeleteNetwork, Begin, Step, GetNetwork, allocateVNI, releaseVNI,
      putVNI, RequestGateway, CreateInterface, SetUpInterface, putNet, casNet, ReleaseGateway,
      DeleteNet, DeleteInterface, syncNetwork, Poll, SyncAdd, SyncSetUp, SyncPrune

LEMMA OnlyTwoStoreNetworks ==
  ASSUME Next, nets' # nets
  PROVE  \E r \in Reqs : casNet(r) \/ DeleteNet(r)
  BY ZenonT(30)
  DEF Next, CreateNetwork, DeleteNetwork, Begin, Step, GetNetwork, allocateVNI, releaseVNI,
      putVNI, casVNI, RequestGateway, CreateInterface, SetUpInterface, putNet, ReleaseGateway,
      DeleteInterface, syncNetwork, Poll, SyncAdd, SyncSetUp, SyncPrune

(* The check-and-set on the pool of VNIs loses no update (netAgent.go:252):*)
(* a write leaves the mark of every VNI but its own.                       *)
THEOREM PoolLosesNoUpdate == Spec => WritesOwnVNI
<1> DEFINE A == \A r \in Reqs : req'[r] # req[r] =>
                  LET b == req[r].vni - 1 IN vlan'.val \ {b} = vlan.val \ {b}
<1>1. IInv /\ [Next]_vars => [A]_vars
  <2> SUFFICES ASSUME IInv, Next, NEW r \in Reqs, req'[r] # req[r], vlan' # vlan
               PROVE  LET b == req[r].vni - 1 IN vlan'.val \ {b} = vlan.val \ {b}
    BY Zenon
  <2>1. PICK q \in Reqs : casVNI(q)
    BY Zenon, OnlyCasVNIWrites
  <2>2. PICK o \in CasOutcomes(vlan, req[q].casIndex, mayFail) :
          /\ vlan' = IF o.applied THEN Written(vlan, req[q].newVal) ELSE vlan
          /\ Fault(o \notin CasOutcomes(vlan, req[q].casIndex, FALSE))
          /\ Goto(q, AfterVNI(req[q]))
    BY Zenon, <2>1 DEF casVNI
  <2>3. q = r /\ req[r].pc = "casVNI"
    BY Zenon, <2>1, <2>2 DEF casVNI, Goto, IInv, Shape, TypeOK
  <2>4. o.applied => vlan.idx = req[q].casIndex
    BY Zenon, <2>2, CasProps DEF IInv, Shape
  <2>5. vlan'.val = req[r].newVal /\ vlan.val = req[r].oldVal
    BY Zenon, <2>2, <2>3, <2>4 DEF Written, IInv, PoolInv, WriteInv
  <2>6. \/ req[r].newVal = req[r].oldVal \ {req[r].vni - 1}
        \/ req[r].newVal = req[r].oldVal \cup {req[r].vni - 1}
    BY Zenon, <2>3 DEF IInv, PoolInv, WriteInv, PutPcs
  <2> QED BY Zenon, <2>5, <2>6
<1> QED BY <1>1, SpecIInv, PTL DEF Spec, WritesOwnVNI

(* A stored network is never changed (network.go:157), also not by a       *)
(* CreateNetwork that had read that there was none.                        *)
THEOREM StoredNetworksStay == Spec => NetworksImmutable
<1> DEFINE A == \A a \in Names : nets[a] # NoNet => nets'[a] \in {nets[a], NoNet}
<1>1. IInv /\ [Next]_vars => [A]_vars
  <2> SUFFICES ASSUME IInv, Next, nets' # nets, NEW a \in Names, nets[a] # NoNet
               PROVE  nets'[a] \in {nets[a], NoNet}
    BY Zenon
  <2>1. PICK r \in Reqs : casNet(r) \/ DeleteNet(r)
    BY Zenon, OnlyTwoStoreNetworks
  <2>2. nets \in [Names -> Network] /\ TypeOK
    BY Zenon DEF IInv, Shape, TypeOK
  <2>3. CASE casNet(r)
    <3> DEFINE e == Entry(nets[req[r].name])
    <3>1. PICK o \in CasOutcomes(e, 0, mayFail) :
            /\ nets' = IF o.applied
                       THEN [nets EXCEPT ![req[r].name] =
                              [subnet |-> req[r].subnet, gateway |-> req[r].gateway,
                               vni |-> req[r].vni]]
                       ELSE nets
            /\ Fault(o \notin CasOutcomes(e, 0, FALSE))
      BY Zenon, <2>3 DEF casNet
    <3>2. o.applied => e.idx = 0
      <4> HIDE DEF e
      <4> QED BY Zenon, <2>2, <3>1, CasProps
    <3>3. nets[req[r].name] = NoNet
      BY <3>1, <3>2 DEF Entry
    <3> QED BY Zenon, <2>2, <3>1, <3>3
  <2>4. CASE DeleteNet(r)
    <3>1. nets' = [nets EXCEPT ![req[r].name] = NoNet]
      BY <2>4, Zenon DEF DeleteNet
    <3> QED BY Zenon, <2>2, <3>1
  <2> QED BY Zenon, <2>1, <2>3, <2>4
<1> QED BY <1>1, SpecIInv, PTL DEF Spec, NetworksImmutable
=============================================================================
