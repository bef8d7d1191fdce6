------------------------------ MODULE Network -------------------------------
(***************************************************************************)
(* Networks across the cluster (server/network.go): CreateNetwork,         *)
(* DeleteNetwork and the syncNetwork loop of every node, over the keys of  *)
(* networkStore, vlanStore and ipStore and the interfaces of each node.    *)
(*                                                                         *)
(* The VNI pool and the network entries are read and written one consul    *)
(* call at a time.  RequestIP and ReleaseIP are single steps, which is     *)
(* what IPAM is proved to implement (AddressPool).                         *)
(***************************************************************************)
EXTENDS NetAgent, BitSet

CONSTANTS
  Nodes,      \* the daemons
  Names,      \* names of networks
  Subnets,    \* subnets asked for
  Reqs,       \* API requests that can run at the same time
  Deletes,    \* whether networks are deleted
  vlanCount,  \* VNIs of the pool
  Hosts,      \* addresses of a bitmap of ipStore
  MaxReqs,    \* bound: requests made
  MaxFaults   \* bound: calls to consul and Open vSwitch that fail

ASSUME NetworkAssumption ==
  /\ vlanCount \in Nat \ {0} /\ Hosts \in Nat \ {0}
  /\ MaxReqs \in Nat /\ MaxFaults \in Nat /\ Deletes \in BOOLEAN

VNI == 1 .. vlanCount
NoNet == [subnet |-> "none", gateway |-> 0, vni |-> 0]
NoIface == [tag |-> 0, ip |-> <<>>]

VARIABLES
  vlan,      \* the vlanStore entry: the VNIs in use, bit v - 1 for VNI v
  ips,       \* ipStore: the marked addresses under each key vni-subnet
  nets,      \* networkStore
  iface,     \* the internal port of each network on each node: VLAN tag, address
  Gateways,  \* the interfaces syncNetwork of a node has created
  req,       \* the requests in progress: their local variables
  sync,      \* the syncNetwork loop of each node: its local variables
  made,      \* requests made so far
  missed,    \* history: interfaces of a node that deletePort left
  faults,    \* failed calls so far
  discarded, \* history: allocateVNI returned a VNI it had not marked
  stale,     \* history: DeleteNetwork removed another network than it read
  unreserved,\* history: a network has a gateway it did not mark
  abandoned  \* history: a gateway stays marked without its network

vars == <<vlan, ips, nets, iface, Gateways, req, sync, made, missed, faults,
          discarded, stale, unreserved, abandoned>>
history == <<discarded, stale, unreserved, abandoned>>

NoReq == [pc |-> "idle", act |-> "none", node |-> "none", name |-> "none",
          subnet |-> "none", vni |-> 0, gateway |-> 0, read |-> NoNet,
          op |-> "none", oldVal |-> {}, newVal |-> {}, casIndex |-> 0]

NoSync == [pc |-> "poll", snap |-> [a \in Names |-> NoNet], todo |-> {},
           cur |-> "none"]

Init ==
  /\ vlan = Absent({})
  /\ ips = [k \in VNI \X Subnets |-> {}]
  /\ nets = [a \in Names |-> NoNet]
  /\ iface = [n \in Nodes |-> [a \in Names |-> NoIface]]
  /\ Gateways = [n \in Nodes |-> {}]
  /\ req = [r \in Reqs |-> NoReq]
  /\ sync = [n \in Nodes |-> NoSync]
  /\ made = 0
  /\ missed = {}
  /\ faults = 0
  /\ discarded = FALSE
  /\ stale = FALSE
  /\ unreserved = FALSE
  /\ abandoned = FALSE

mayFail == faults < MaxFaults
Fault(failed) == faults' = IF failed THEN faults + 1 ELSE faults

(* Network entries are only created, never changed: that an entry is there *)
(* is all that matters of its ModifyIndex.                                 *)
Entry(net) == [val |-> net, idx |-> IF net = NoNet THEN 0 ELSE 1]

Goto(r, label) == req' = [req EXCEPT ![r].pc = label]
Return(r) == req' = [req EXCEPT ![r] = NoReq]

-----------------------------------------------------------------------------
(* Requests of the API: createNet and delNet; at start every server also   *)
(* makes one for the default network (CreateDefaultNetwork).               *)
Begin(r, f) ==
  /\ req[r].pc = "idle" /\ made < MaxReqs
  /\ req' = [req EXCEPT ![r] = f]
  /\ made' = made + 1
  /\ UNCHANGED <<vlan, ips, nets, iface, Gateways, sync, missed, faults, history>>

CreateNetwork(r) ==
  \E n \in Nodes, a \in Names, s \in Subnets :
    Begin(r, [NoReq EXCEPT !.pc = "getNetwork", !.act = "create", !.node = n,
                           !.name = a, !.subnet = s])

DeleteNetwork(r) ==
  /\ Deletes
  /\ \E n \in Nodes, a \in Names :
       Begin(r, [NoReq EXCEPT !.pc = "getNetwork", !.act = "delete",
                              !.node = n, !.name = a])

(* Both begin with GetNetwork: a network that exists is not created, one   *)
(* that does not is not deleted.                                           *)
GetNetwork(r) ==
  /\ req[r].pc = "getNetwork"
  /\ \E reply \in Get(Entry(nets[req[r].name]), NoNet, mayFail) :
       /\ Fault(reply.val # nets[req[r].name])
       /\ IF req[r].act = "create"
          THEN IF Found(reply) THEN Return(r) ELSE Goto(r, "allocateVNI")
          ELSE IF Found(reply)
               THEN req' = [req EXCEPT ![r].pc = "delete", ![r].read = reply.val,
                                       ![r].vni = reply.val.vni]
               ELSE Return(r)
  /\ UNCHANGED <<vlan, ips, nets, iface, Gateways, sync, made, missed, history>>

-----------------------------------------------------------------------------
(* The VNI pool. *)

(* Mutant of allocateVNI: a full pool is not noticed. *)
allocateVNIUnchecked(r) ==
  /\ req[r].pc = "allocateVNI"
  /\ LET t == TestAndSet(vlan.val, vlanCount)
     IN  req' = [req EXCEPT ![r].pc = "putVNI", ![r].op = "allocate",
                            ![r].vni = t.pos, ![r].oldVal = vlan.val,
                            ![r].newVal = t.bits]
  /\ UNCHANGED <<vlan, ips, nets, iface, Gateways, sync, made, missed, faults, history>>

allocateVNI(r) ==
  /\ req[r].pc = "allocateVNI"
  /\ \E reply \in Get(vlan, {}, mayFail) :
       LET t == TestAndSet(reply.val, vlanCount)
       IN  /\ Fault(reply # vlan)
           /\ IF t.pos > vlanCount
              THEN Return(r)
              ELSE req' = [req EXCEPT ![r].pc = "putVNI", ![r].op = "allocate",
                                      ![r].vni = t.pos, ![r].oldVal = reply.val,
                                      ![r].newVal = t.bits]
  /\ UNCHANGED <<vlan, ips, nets, iface, Gateways, sync, made, missed, history>>

(* Mutant of releaseVNI: it clears the bit of the next VNI. *)
releaseVNINext(r) ==
  /\ req[r].pc = "releaseVNI"
  /\ req' = [req EXCEPT ![r].pc = "putVNI", ![r].op = "release",
                        ![r].oldVal = vlan.val,
                        ![r].newVal = Clear(vlan.val, req[r].vni)]
  /\ UNCHANGED <<vlan, ips, nets, iface, Gateways, sync, made, missed, faults, history>>

releaseVNI(r) ==
  /\ req[r].pc = "releaseVNI"
  /\ \E reply \in Get(vlan, {}, mayFail) :
       /\ Fault(reply # vlan)
       /\ req' = [req EXCEPT ![r].pc = "putVNI", ![r].op = "release",
                             ![r].oldVal = reply.val,
                             ![r].newVal = Clear(reply.val, req[r].vni - 1)]
  /\ UNCHANGED <<vlan, ips, nets, iface, Gateways, sync, made, missed, history>>

(* What follows the Put of a VNI operation: CreateNetwork goes on with its *)
(* interface, or after releaseVNI releases the gateway; DeleteNetwork      *)
(* deletes the port.                                                       *)
AfterVNI(f) ==
  CASE f.op = "allocate" -> "getIfaceAddr"
    [] f.op = "release" /\ f.act = "create" -> "releaseIP"
    [] f.op = "release" /\ f.act = "delete" -> "deletePort"

(* Put's own Get: releaseVNI starts over when it is OUTDATED, allocateVNI  *)
(* ignores what Put returns.                                               *)
putVNI(r) ==
  LET f == req[r]
  IN  /\ f.pc = "putVNI"
      /\ \E reply \in Get(vlan, {}, mayFail) :
           LET lost == Outdated(reply, f.oldVal)
           IN  /\ Fault(reply # vlan)
               /\ discarded' = (discarded \/ (lost /\ f.op = "allocate"))
               /\ req' = [req EXCEPT ![r] =
                    CASE ~lost -> [f EXCEPT !.pc = "casVNI", !.casIndex = reply.idx]
                      [] lost /\ f.op = "release" -> [f EXCEPT !.pc = "releaseVNI"]
                      [] lost /\ f.op = "allocate" -> [f EXCEPT !.pc = AfterVNI(f)]]
      /\ UNCHANGED <<vlan, ips, nets, iface, Gateways, sync, made, missed, stale, unreserved,
                     abandoned>>

(* Put's PUT, whose ERROR both operations ignore. *)
casVNI(r) ==
  LET f == req[r]
  IN  /\ f.pc = "casVNI"
      /\ \E o \in CasOutcomes(vlan, f.casIndex, mayFail) :
           /\ vlan' = IF o.applied THEN Written(vlan, f.newVal) ELSE vlan
           /\ Fault(o \notin CasOutcomes(vlan, f.casIndex, FALSE))
           /\ discarded' = (discarded \/ (~o.applied /\ f.op = "allocate"))
           /\ Goto(r, AfterVNI(f))
      /\ UNCHANGED <<ips, nets, iface, Gateways, sync, made, missed, stale, unreserved, abandoned>>

-----------------------------------------------------------------------------
(* The interfaces of a node. *)

(* GetIfaceAddr fails without an interface, and without an address. *)
GetIfaceAddr(n, a) == iface[n][a].ip

(* The transaction, when it succeeds. *)
AddInternalPort(n, a, tag) ==
  /\ iface[n][a] = NoIface
  /\ iface' = [iface EXCEPT ![n][a] = [tag |-> tag, ip |-> <<>>]]
  /\ UNCHANGED faults

(* It is refused when a port of this name exists, and may fail otherwise. *)
AddInternalPortFails(n, a) ==
  /\ iface[n][a] # NoIface \/ mayFail
  /\ Fault(iface[n][a] = NoIface)
  /\ UNCHANGED iface

(* A port that is missing from the table cache, or whose transaction fails *)
(* (only logged), stays; the callers do not learn of it.                   *)
deletePort(n, a) ==
  \/ /\ iface' = [iface EXCEPT ![n][a] = NoIface]
     /\ UNCHANGED <<missed, faults>>
  \/ /\ iface[n][a] # NoIface /\ mayFail
     /\ missed' = missed \cup {<<n, a>>}
     /\ faults' = faults + 1
     /\ UNCHANGED iface

(* SetMtu, SetInterfaceIp and InterfaceUp: what becomes of the interface,  *)
(* and did all three succeed?  Any of them may fail: before or after the   *)
(* address is set.  A second address does not change the first.            *)
SetUpOutcomes(i, ip) ==
  LET set == [i EXCEPT !.ip = IF i.ip = <<>> THEN ip ELSE i.ip]
  IN  IF i = NoIface \/ i.ip = ip
      THEN {[iface |-> i, ok |-> FALSE]}
      ELSE {[iface |-> set, ok |-> TRUE]}
           \cup IF mayFail
                THEN {[iface |-> j, ok |-> FALSE] : j \in {i, set}} ELSE {}

-----------------------------------------------------------------------------
(* CreateNetwork, once it has a VNI. *)

(* RequestIP as one step of the abstract pool; as a fault, the address is  *)
(* handed out unmarked.                                                    *)
RequestIP(v, s, pos) ==
  LET t == TestAndSet(ips[<<v, s>>], Hosts)
  IN  /\ pos = t.pos
      /\ \/ ips' = [ips EXCEPT ![<<v, s>>] = t.bits] /\ UNCHANGED faults
         \/ mayFail /\ faults' = faults + 1 /\ UNCHANGED ips

(* An interface that is already there keeps its address and its VLAN tag:  *)
(* the network takes the address for its gateway.                          *)
RequestGateway(r) ==
  LET f == req[r]
      ip == GetIfaceAddr(f.node, f.name)
  IN  /\ f.pc = "getIfaceAddr"
      /\ \E pos \in 1 .. Hosts + 1 :
           /\ RequestIP(f.vni, f.subnet, pos)
           /\ req' = [req EXCEPT ![r] =
                IF ip = <<>>
                THEN [f EXCEPT !.pc = "addInternalPort", !.gateway = pos]
                ELSE [f EXCEPT !.pc = "putNet", !.subnet = ip[1], !.gateway = ip[2]]]
      /\ unreserved' = (unreserved \/ ip # <<>> \/ ips' = ips)
      /\ UNCHANGED <<vlan, nets, iface, Gateways, sync, made, missed, discarded, stale, abandoned>>

(* On an error CreateNetwork returns; what it has allocated stays so. *)
CreateInterface(r) ==
  LET f == req[r]
  IN  /\ f.pc = "addInternalPort"
      /\ \/ AddInternalPort(f.node, f.name, f.vni) /\ Goto(r, "setUp")
         \/ AddInternalPortFails(f.node, f.name) /\ Return(r)
      /\ abandoned' = (abandoned \/ req'[r] = NoReq)
      /\ UNCHANGED <<vlan, ips, nets, Gateways, sync, made, missed, discarded, stale,
                     unreserved>>

SetUpInterface(r) ==
  LET f == req[r]
      out == SetUpOutcomes(iface[f.node][f.name], <<f.subnet, f.gateway>>)
  IN  /\ f.pc = "setUp"
      /\ \E o \in out :
           /\ iface' = [iface EXCEPT ![f.node][f.name] = o.iface]
           /\ Fault(~o.ok /\ \E x \in out : x.ok)
           /\ IF o.ok THEN Goto(r, "putNet") ELSE Return(r)
           /\ abandoned' = (abandoned \/ ~o.ok)
      /\ UNCHANGED <<vlan, ips, nets, Gateways, sync, made, missed, discarded, stale, unreserved>>

(* Put of the network, with no old value: its Get, then its PUT.  ERROR is *)
(* taken for success.  Setting up iptables changes no state of the model.  *)
putNet(r) ==
  LET f == req[r]
  IN  /\ f.pc = "putNet"
      /\ \E reply \in Get(Entry(nets[f.name]), NoNet, mayFail) :
           /\ Fault(reply.val # nets[f.name])
           /\ Goto(r, IF Outdated(reply, NoNet) THEN "releaseVNI" ELSE "casNet")
      /\ UNCHANGED <<vlan, ips, nets, iface, Gateways, sync, made, missed, history>>

(* Mutant of casNet: a PUT without "cas". *)
casNetPlain(r) ==
  LET f == req[r]
  IN  /\ f.pc = "casNet"
      /\ nets' = [nets EXCEPT ![f.name] =
           [subnet |-> f.subnet, gateway |-> f.gateway, vni |-> f.vni]]
      /\ Return(r)
      /\ UNCHANGED <<vlan, ips, iface, Gateways, sync, made, missed, faults, history>>

casNet(r) ==
  LET f == req[r]
      net == [subnet |-> f.subnet, gateway |-> f.gateway, vni |-> f.vni]
  IN  /\ f.pc = "casNet"
      /\ \E o \in CasOutcomes(Entry(nets[f.name]), 0, mayFail) :
           /\ nets' = IF o.applied THEN [nets EXCEPT ![f.name] = net] ELSE nets
           /\ Fault(o \notin CasOutcomes(Entry(nets[f.name]), 0, FALSE))
           /\ abandoned' = (abandoned \/ ~o.applied)
           /\ Return(r)
      /\ UNCHANGED <<vlan, ips, iface, Gateways, sync, made, missed, discarded, stale, unreserved>>

(* Mutant of ReleaseGateway: only the VNI is released. *)
ReleaseGatewayNot(r) ==
  LET f == req[r]
  IN  /\ f.pc = "releaseIP"
      /\ req' = [req EXCEPT ![r] =
           [NoReq EXCEPT !.pc = "getNetwork", !.act = "create", !.node = f.node,
                         !.name = f.name, !.subnet = f.subnet]]
      /\ UNCHANGED <<vlan, ips, nets, iface, Gateways, sync, made, missed, faults, history>>

(* OUTDATED: the gateway is released as well, the interface stays, and     *)
(* CreateNetwork starts over.  For a gateway past a bitmap that exists,    *)
(* Clear panics, which the HTTP server catches.                            *)
ReleaseGateway(r) ==
  LET f == req[r]
      k == <<f.vni, f.subnet>>
      past == f.gateway > Hosts
      again == [req EXCEPT ![r] =
        [NoReq EXCEPT !.pc = "getNetwork", !.act = "create", !.node = f.node,
                      !.name = f.name, !.subnet = f.subnet]]
  IN  /\ f.pc = "releaseIP"
      /\ \/ /\ ~past \/ ips[k] = {}
            /\ ips' = [ips EXCEPT ![k] = Clear(@, f.gateway - 1)]
            /\ req' = again
            /\ UNCHANGED <<faults, abandoned>>
         \/ /\ mayFail /\ faults' = faults + 1
            /\ req' = again
            /\ abandoned' = TRUE
            /\ UNCHANGED ips
         \/ /\ past /\ Return(r)
            /\ abandoned' = TRUE
            /\ UNCHANGED <<ips, faults>>
      /\ UNCHANGED <<vlan, nets, iface, Gateways, sync, made, missed, discarded, stale, unreserved>>

-----------------------------------------------------------------------------
(* DeleteNetwork, once it has read the network. *)

(* Delete removes whatever the key holds.  As a fault it may fail before   *)
(* or after it was applied (ERROR), or be answered with an error status,   *)
(* which is OK.                                                            *)
DeleteNet(r) ==
  LET f == req[r]
  IN  /\ f.pc = "delete"
      /\ \E applied, ok \in BOOLEAN :
           /\ (applied /\ ok) \/ mayFail
           /\ Fault(~(applied /\ ok))
           /\ nets' = IF applied THEN [nets EXCEPT ![f.name] = NoNet] ELSE nets
           /\ stale' = (stale \/ (ok /\ ~(applied /\ nets[f.name] = f.read)))
           /\ abandoned' = (abandoned \/ applied)
           /\ IF ok THEN Goto(r, "releaseVNI") ELSE Return(r)
      /\ UNCHANGED <<vlan, ips, iface, Gateways, sync, made, missed, discarded, unreserved>>

DeleteInterface(r) ==
  /\ req[r].pc = "deletePort"
  /\ deletePort(req[r].node, req[r].name)
  /\ Return(r)
  /\ UNCHANGED <<vlan, ips, nets, Gateways, sync, made, history>>

-----------------------------------------------------------------------------
(* syncNetwork. *)

(* GetNetworks: a GetAll that fails returns no networks and no error. *)
Poll(n) ==
  /\ sync[n].pc = "poll"
  /\ \E snap \in {nets} \cup IF mayFail THEN {NoSync.snap} ELSE {} :
       /\ Fault(snap # nets)
       /\ sync' = [sync EXCEPT ![n] =
            [NoSync EXCEPT !.pc = "add", !.snap = snap,
                           !.todo = {a \in Names : snap[a] # NoNet}]]
  /\ UNCHANGED <<vlan, ips, nets, iface, Gateways, req, made, missed, history>>

(* The next network of the list: nothing to do when its interface has an   *)
(* address; no more can be done when it exists without one.  When the      *)
(* transaction fails the next round tries again.                           *)
SyncAdd(n) ==
  /\ sync[n].pc = "add"
  /\ \E a \in sync[n].todo :
       LET done == [sync[n] EXCEPT !.todo = @ \ {a}]
       IN  \/ /\ AddInternalPort(n, a, sync[n].snap[a].vni)
              /\ sync' = [sync EXCEPT ![n] = [done EXCEPT !.pc = "setUp", !.cur = a]]
           \/ /\ AddInternalPortFails(n, a)
              /\ sync' = [sync EXCEPT ![n] = done]
  /\ UNCHANGED <<vlan, ips, nets, Gateways, req, made, missed, history>>

SyncSetUp(n) ==
  LET a == sync[n].cur
      net == sync[n].snap[a]
      out == SetUpOutcomes(iface[n][a], <<net.subnet, net.gateway>>)
  IN  /\ sync[n].pc = "setUp"
      /\ \E o \in out :
           /\ iface' = [iface EXCEPT ![n][a] = o.iface]
           /\ Fault(~o.ok /\ \E x \in out : x.ok)
           /\ Gateways' = IF o.ok THEN [Gateways EXCEPT ![n] = @ \cup {a}]
                          ELSE Gateways
      /\ sync' = [sync EXCEPT ![n].pc = "add", ![n].cur = "none"]
      /\ UNCHANGED <<vlan, ips, nets, req, made, missed, history>>

(* Mutants of SyncPrune: the test of found is inverted; the port stays. *)
SyncPruneFound(n) ==
  LET found == {a \in Gateways[n] : sync[n].snap[a] # NoNet}
  IN  /\ sync[n].pc = "add" /\ sync[n].todo = {}
      /\ \/ \E a \in found : /\ deletePort(n, a)
                             /\ Gateways' = [Gateways EXCEPT ![n] = @ \ {a}]
                             /\ UNCHANGED sync
         \/ /\ found = {} /\ sync' = [sync EXCEPT ![n] = NoSync]
            /\ UNCHANGED <<iface, Gateways, missed, faults>>
      /\ UNCHANGED <<vlan, ips, nets, req, made, history>>

SyncPruneKeepsPort(n) ==
  /\ sync[n].pc = "add" /\ sync[n].todo = {}
  /\ Gateways' = [Gateways EXCEPT ![n] = {a \in @ : sync[n].snap[a] # NoNet}]
  /\ sync' = [sync EXCEPT ![n] = NoSync]
  /\ UNCHANGED <<vlan, ips, nets, iface, req, made, missed, faults, history>>

(* The end of a round: the interfaces of Gateways whose network was not in *)
(* the list are deleted, one after the other.                              *)
SyncPrune(n) ==
  LET unused == {a \in Gateways[n] : sync[n].snap[a] = NoNet}
  IN  /\ sync[n].pc = "add" /\ sync[n].todo = {}
      /\ \/ \E a \in unused : /\ deletePort(n, a)
                              /\ Gateways' = [Gateways EXCEPT ![n] = @ \ {a}]
                              /\ UNCHANGED sync
         \/ /\ unused = {} /\ sync' = [sync EXCEPT ![n] = NoSync]
            /\ UNCHANGED <<iface, Gateways, missed, faults>>
      /\ UNCHANGED <<vlan, ips, nets, req, made, history>>

-----------------------------------------------------------------------------
Step(r) ==
  \/ GetNetwork(r) \/ allocateVNI(r) \/ releaseVNI(r) \/ putVNI(r) \/ casVNI(r)
  \/ RequestGateway(r) \/ CreateInterface(r) \/ SetUpInterface(r)
  \/ putNet(r) \/ casNet(r) \/ ReleaseGateway(r)
  \/ DeleteNet(r) \/ DeleteInterface(r)

syncNetwork(n) == Poll(n) \/ SyncAdd(n) \/ SyncSetUp(n) \/ SyncPrune(n)

Next ==
  \/ \E r \in Reqs : CreateNetwork(r) \/ DeleteNetwork(r) \/ Step(r)
  \/ \E n \in Nodes : syncNetwork(n)

Spec == Init /\ [][Next]_vars

(* Goroutines are scheduled, consul and Open vSwitch answer, and the       *)
(* sleeps of syncNetwork end.                                              *)
FairSpec ==
  /\ Spec
  /\ \A r \in Reqs : WF_vars(Step(r))
  /\ \A n \in Nodes : WF_vars(syncNetwork(n))

-----------------------------------------------------------------------------
Network == [subnet : Subnets \cup {"none"}, gateway : 0 .. Hosts + 1, vni : 0 .. vlanCount]
Bits == SUBSET (0 .. vlanCount - 1)
Labels == {"idle", "getNetwork", "allocateVNI", "releaseVNI", "putVNI", "casVNI",
           "getIfaceAddr", "addInternalPort", "setUp", "putNet", "casNet",
           "releaseIP", "delete", "deletePort"}
Request == [pc : Labels, act : {"none", "create", "delete"},
            node : Nodes \cup {"none"}, name : Names \cup {"none"},
            subnet : Subnets \cup {"none"}, vni : 0 .. vlanCount,
            gateway : 0 .. Hosts + 1, read : Network,
            op : {"none", "allocate", "release"},
            oldVal : Bits, newVal : Bits, casIndex : Nat]
Interface == [tag : 0 .. vlanCount, ip : {<<>>} \cup (Subnets \X (1 .. Hosts + 1))]

TypeOK ==
  /\ vlan \in [val : Bits, idx : Nat]
  /\ ips \in [VNI \X Subnets -> SUBSET (0 .. Hosts - 1)]
  /\ nets \in [Names -> Network]
  /\ iface \in [Nodes -> [Names -> Interface]]
  /\ Gateways \in [Nodes -> SUBSET Names]
  /\ req \in [Reqs -> Request]
  /\ sync \in [Nodes -> [pc : {"poll", "add", "setUp"}, snap : [Names -> Network],
                         todo : SUBSET Names, cur : Names \cup {"none"}]]
  /\ made \in 0 .. MaxReqs
  /\ missed \subseteq Nodes \X Names
  /\ faults \in 0 .. MaxFaults
  /\ {discarded, stale, unreserved, abandoned} \subseteq BOOLEAN

(* The request is responsible for its VNI: CreateNetwork between           *)
(* allocateVNI and the stored network, both operations until releaseVNI    *)
(* has written the pool.                                                   *)
Holds(r) ==
  \/ req[r].pc \in {"getIfaceAddr", "addInternalPort", "setUp", "putNet",
                    "casNet", "releaseVNI"}
  \/ req[r].pc \in {"putVNI", "casVNI"} /\ req[r].op = "release"

(***************************************************************************)
(* As long as allocateVNI marked every VNI it returned (network.go:339)    *)
(* and DeleteNetwork removed the network it had read (network.go:236), a   *)
(* VNI belongs to one stored network or one request in progress, and is    *)
(* marked in the pool: no interleaving of creations, deletions and lost    *)
(* creations gives two networks the same VNI.                              *)
(***************************************************************************)
UniqueVNI ==
  ~discarded /\ ~stale =>
    /\ \A a \in Names : nets[a] # NoNet =>
         /\ nets[a].vni - 1 \in vlan.val
         /\ \A b \in Names \ {a} : nets[b].vni # nets[a].vni
    /\ \A r \in Reqs : Holds(r) =>
         /\ req[r].vni - 1 \in vlan.val
         /\ \A a \in Names : nets[a].vni # req[r].vni
         /\ \A q \in Reqs \ {r} : Holds(q) => req[q].vni # req[r].vni

(* The key of ipStore under which the gateway of x is marked. *)
Key(x) == <<x.vni, x.subnet>>

(* The gateway a CreateNetwork in progress has asked for. *)
Reserves(r) ==
  /\ req[r].act = "create" /\ req[r].gateway # 0
  /\ req[r].pc # "idle"

(* As long as no creation took over an interface or got a gateway without  *)
(* marking it (network.go:139), the gateway of every stored network is     *)
(* marked under its key, so no container gets it, and two networks under   *)
(* one key, when they were given the same VNI, have different gateways.    *)
(* And until a creation is given up half way or a network is deleted,      *)
(* neither of which releases the gateway (network.go:240), every mark is   *)
(* the gateway of a stored network or of a creation in progress.           *)
GatewaysMarked ==
  ~unreserved =>
    /\ \A a \in Names : nets[a] # NoNet =>
         /\ nets[a].gateway - 1 \in ips[Key(nets[a])]
         /\ \A b \in Names \ {a} : Key(nets[b]) = Key(nets[a]) =>
              nets[b].gateway # nets[a].gateway
    /\ ~abandoned => \A k \in VNI \X Subnets : \A b \in ips[k] :
         \/ \E a \in Names : Key(nets[a]) = k /\ nets[a].gateway = b + 1
         \/ \E r \in Reqs : /\ Reserves(r) /\ Key(req[r]) = k
                             /\ req[r].gateway = b + 1

(* The check-and-set on the pool (netAgent.go:252) loses no update: a      *)
(* write leaves the mark of every VNI but the one of its operation.        *)
WritesOwnVNI ==
  [][\A r \in Reqs : req'[r] # req[r] =>
       LET b == req[r].vni - 1 IN vlan'.val \ {b} = vlan.val \ {b}]_vars

(* A stored network is never changed: CreateNetwork only creates           *)
(* (network.go:157), also when the Get inside Put failed, and              *)
(* DeleteNetwork only deletes.                                             *)
NetworksImmutable ==
  [][\A a \in Names : nets[a] # NoNet => nets'[a] \in {nets[a], NoNet}]_vars

(* The interface of node n for network a is what the store says. *)
Matches(n, a) ==
  iface[n][a] = [tag |-> nets[a].vni, ip |-> <<nets[a].subnet, nets[a].gateway>>]

(* As long as no name is used again after its network was deleted,         *)
(* syncNetwork (network.go:262) gives every node an interface for each     *)
(* network, and the ones it made itself carry the VNI and the gateway of   *)
(* the store.                                                              *)
NodesFollow ==
  \A n \in Nodes, a \in Names :
    <>[](nets[a] # NoNet => /\ iface[n][a] # NoIface
                            /\ a \in Gateways[n] => Matches(n, a))

(* An interface syncNetwork made is removed from its node when the network *)
(* is deleted anywhere (network.go:301), unless the name is used again or  *)
(* deletePort itself left the port: syncNetwork then forgets it all the    *)
(* same (network.go:315).                                                  *)
PrunesUnused ==
  \A n \in Nodes, a \in Names :
    (a \in Gateways[n] /\ nets[a] = NoNet)
      ~> (iface[n][a] = NoIface \/ nets[a] # NoNet \/ <<n, a>> \in missed)

-----------------------------------------------------------------------------
(* "used for client node to sync the network from network Store"           *)
(* (network.go:249): the interfaces of every node become those of the      *)
(* store.                                                                  *)
NodesConverge ==
  \A n \in Nodes, a \in Names : <>[](nets[a] # NoNet => Matches(n, a))
=============================================================================
