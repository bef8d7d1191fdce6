---------------------------- MODULE PeersProofs -----------------------------
(***************************************************************************)
(* Proofs about Peers, for any cluster, any number of requests, changes,   *)
(* restarts and failures, and a table cache that is updated in any order.  *)
(***************************************************************************)
EXTENDS Peers, TLAPS

(* What the goroutine of the watch is about to notify (netAgent.go:452):   *)
(* of the nodes in nodeCache those it has to add, and no node both ways.   *)
(* Until Run is done with CreateBridge it has notified nobody.             *)
WatchInv ==
  /\ watch.pc = "ready" => isReady
  /\ watch.pc = "off" => ~isReady
  /\ watch.toAdd \subseteq nodeCache
  /\ watch.toDelete \cap nodeCache = {}
  /\ main # "work" => watch.toDelete = {} /\ nodeCache \subseteq watch.toAdd

IInv == TypeOK /\ WatchInv /\ BridgeFirst /\ NotifiedHasTunnel /\ TunnelsKnown

peerVars == <<nodeCache, watch, isReady, main, switchVars, starts>>

(* The daemon that has just started has no bridge and knows no node. *)
LEMMA InitIInv == Init => IInv
<1> SUFFICES ASSUME Init PROVE IInv
  OBVIOUS
<1> USE AgentAssumption, PeersAssumption DEF Init, AgentInit, Off, NoPort
<1>1. TypeOK
  <2>1. isReady \in BOOLEAN /\ bridge \in BOOLEAN /\ isServer \in BOOLEAN
    BY Zenon
  <2> QED BY <2>1 DEF TypeOK, AgentTypeOK
<1>2. WatchInv /\ BridgeFirst /\ NotifiedHasTunnel /\ TunnelsKnown
  BY DEF WatchInv, BridgeFirst, NotifiedHasTunnel, TunnelsKnown
<1> QED BY <1>1, <1>2 DEF IInv

(* The agent, its requests and the other nodes touch no tunnel. *)
LEMMA AgentIInv ==
  ASSUME IInv, AgentNext, UNCHANGED peerVars
  PROVE  IInv'
<1> USE AgentAssumption
<1>1. AgentTypeOK'
  <2> USE DEF IInv, TypeOK, AgentTypeOK, Reqs, Others, Fault, mayFail
  <2>1. CASE Change
    BY <2>1 DEF Change
  <2>2. CASE Execute
    BY <2>2 DEF Execute
  <2>3. CASE Shutdown
    BY <2>3 DEF Shutdown
  <2>4. CASE StartAgent
    BY <2>4 DEF StartAgent
  <2>5. CASE nodeHandler
    BY <2>5 DEF nodeHandler, join, leave, Receive
  <2>6. CASE \E r \in Reqs : joinCluster(r) \/ leaveCluster(r)
    BY <2>6 DEF joinCluster, leaveCluster, Send
  <2> QED BY <2>1, <2>2, <2>3, <2>4, <2>5, <2>6 DEF AgentNext
<1>2. TypeOK'
  BY <1>1 DEF IInv, TypeOK, peerVars, switchVars
<1>3. WatchInv' /\ BridgeFirst' /\ NotifiedHasTunnel' /\ TunnelsKnown'
  BY DEF IInv, WatchInv, BridgeFirst, NotifiedHasTunnel, TunnelsKnown, peerVars, switchVars
<1> QED BY <1>2, <1>3 DEF IInv

(* When CreateBridge makes the bridge no node has been notified: there is  *)
(* none that lacks its tunnel.                                             *)
LEMMA CreateBridgeIInv ==
  ASSUME IInv, CreateBridge
  PROVE  IInv'
<1>1. TypeOK'
  <2>1. bridge' \in BOOLEAN
    BY Zenon DEF IInv, TypeOK, CreateBridge, CreateOVSBridge
  <2>2. faults' \in 0 .. MaxFaults
    BY AgentAssumption
    DEF IInv, TypeOK, AgentTypeOK, CreateBridge, CreateOVSBridge, Fault, mayFail
  <2> QED BY <2>1, <2>2 DEF IInv, TypeOK, AgentTypeOK, CreateBridge
<1>2. WatchInv' /\ BridgeFirst' /\ TunnelsKnown'
  BY DEF IInv, WatchInv, BridgeFirst, TunnelsKnown, CreateBridge
<1>3. NotifiedHasTunnel'
  BY DEF IInv, WatchInv, NotifiedHasTunnel, CreateBridge
<1> QED BY <1>1, <1>2, <1>3 DEF IInv

(* A notification of the database changes the cache only. *)
LEMMA populateCacheIInv ==
  ASSUME IInv, NEW u \in updates, populateCache(u)
  PROVE  IInv'
<1>1. TypeOK'
  BY DEF IInv, TypeOK, AgentTypeOK, populateCache, agentVars
<1>2. WatchInv' /\ BridgeFirst' /\ NotifiedHasTunnel' /\ TunnelsKnown'
  BY DEF IInv, WatchInv, BridgeFirst, NotifiedHasTunnel, TunnelsKnown, populateCache
<1> QED BY <1>1, <1>2 DEF IInv

(* Registering the listener starts the watch, which has notified nobody. *)
LEMMA RegisterIInv ==
  ASSUME IInv, RegisterForNodeUpdates
  PROVE  IInv'
<1>1. TypeOK'
  BY DEF IInv, TypeOK, AgentTypeOK, RegisterForNodeUpdates, agentVars, switchVars
<1>2. WatchInv' /\ BridgeFirst' /\ NotifiedHasTunnel' /\ TunnelsKnown'
  BY DEF IInv, TypeOK, WatchInv, BridgeFirst, NotifiedHasTunnel, TunnelsKnown,
         RegisterForNodeUpdates, switchVars
<1> QED BY <1>1, <1>2 DEF IInv

(* The two differences of nodeCache and the members have no node in        *)
(* common; what is in neither keeps its tunnel.                            *)
LEMMA updateNodeListenersIInv ==
  ASSUME IInv, updateNodeListeners
  PROVE  IInv'
<1> USE DEF compare
<1>1. TypeOK'
  BY ZenonT(30) DEF IInv, TypeOK, AgentTypeOK, updateNodeListeners, agentVars, switchVars
<1>2. WatchInv' /\ BridgeFirst'
  BY DEF IInv, TypeOK, WatchInv, BridgeFirst, updateNodeListeners
<1>3. NotifiedHasTunnel' /\ TunnelsKnown'
  BY DEF IInv, TypeOK, NotifiedHasTunnel, TunnelsKnown, updateNodeListeners, switchVars
<1> QED BY <1>1, <1>2, <1>3 DEF IInv

(* The rendezvous on readyChan: the goroutine of the watch arrives ... *)
LEMMA NotifyFirstIInv ==
  ASSUME IInv, NotifyFirst
  PROVE  IInv'
<1>1. TypeOK'
  BY DEF IInv, TypeOK, AgentTypeOK, NotifyFirst, agentVars, switchVars
<1>2. WatchInv' /\ BridgeFirst' /\ NotifiedHasTunnel' /\ TunnelsKnown'
  BY DEF IInv, TypeOK, WatchInv, BridgeFirst, NotifiedHasTunnel, TunnelsKnown,
         NotifyFirst, switchVars
<1> QED BY <1>1, <1>2 DEF IInv

(* ... and the goroutine of Run. *)
LEMMA ReadyIInv ==
  ASSUME IInv, Ready
  PROVE  IInv'
<1>1. TypeOK'
  BY DEF IInv, TypeOK, AgentTypeOK, Ready, agentVars, switchVars
<1>2. WatchInv' /\ BridgeFirst' /\ NotifiedHasTunnel' /\ TunnelsKnown'
  BY DEF IInv, TypeOK, WatchInv, BridgeFirst, NotifiedHasTunnel, TunnelsKnown,
         Ready, switchVars
<1> QED BY <1>1, <1>2 DEF IInv

(* The variables of the agent a notification leaves alone. *)
otherAgentVars == <<isServer, members, agent, start, handler, reqs, changes>>

(* AddPeer gives the node a tunnel if there is a bridge, or the            *)
(* transaction failed, and takes none away.                                *)
LEMMA AddPeerProps ==
  ASSUME TypeOK, NEW n \in Nodes, AddPeer(n)
  PROVE  /\ uuids' \in Nat /\ uuids <= uuids'
         /\ port' \in [Nodes -> 0 .. uuids']
         /\ updates' \subseteq [name : Nodes, uuid : 1 .. uuids', new : BOOLEAN]
         /\ missed' = missed \ {n}
         /\ \A m \in Nodes \ {n} : port'[m] = port[m]
         /\ refused' \in {refused \ {n}, refused \cup {n}}
         /\ bridge /\ n \notin refused' => port'[n] # NoPort
         /\ faults' \in 0 .. MaxFaults
<1> USE DEF NoPort
<1>1. CASE /\ bridge /\ port[n] = NoPort /\ Insert(n) /\ UNCHANGED faults
           /\ refused' = refused \ {n}
  <2>1. /\ uuids' = uuids + 1 /\ uuids \in Nat
        /\ port' = [port EXCEPT ![n] = uuids + 1]
        /\ updates' = updates \cup {[name |-> n, uuid |-> uuids + 1, new |-> TRUE]}
        /\ missed' = missed \ {n}
    BY <1>1 DEF TypeOK, AddPeer, Insert
  <2>2. updates' \subseteq [name : Nodes, uuid : 1 .. uuids', new : BOOLEAN]
    <3>1. uuids + 1 \in 1 .. uuids' /\ 1 .. uuids \subseteq 1 .. uuids'
      BY <2>1
    <3>2. [name |-> n, uuid |-> uuids + 1, new |-> TRUE]
            \in [name : Nodes, uuid : 1 .. uuids', new : BOOLEAN]
      BY <3>1, Zenon
    <3>3. updates \subseteq [name : Nodes, uuid : 1 .. uuids', new : BOOLEAN]
      BY <3>1 DEF TypeOK
    <3> QED BY <2>1, <3>2, <3>3, Zenon
  <2>3. port' \in [Nodes -> 0 .. uuids']
    BY <2>1 DEF TypeOK
  <2> QED BY <1>1, <2>1, <2>2, <2>3 DEF TypeOK, AgentTypeOK
<1>2. CASE /\ ~(bridge /\ port[n] = NoPort) /\ NoChange /\ UNCHANGED <<uuids, faults>>
           /\ refused' = refused \ {n}
  BY <1>2 DEF TypeOK, AgentTypeOK, AddPeer, NoChange
<1>3. CASE Fault /\ NoChange /\ UNCHANGED uuids /\ refused' = refused \cup {n}
  BY <1>3, AgentAssumption DEF TypeOK, AgentTypeOK, AddPeer, NoChange, Fault, mayFail
<1> QED BY <1>1, <1>2, <1>3, Zenon DEF AddPeer

(* DeletePeer takes the tunnel of its node only, or says that it did not. *)
LEMMA DeletePeerProps ==
  ASSUME TypeOK, NEW n \in Nodes, DeletePeer(n)
  PROVE  /\ uuids' = uuids
         /\ port' \in [Nodes -> 0 .. uuids]
         /\ updates' \subseteq [name : Nodes, uuid : 1 .. uuids, new : BOOLEAN]
         /\ missed' \subseteq Nodes
         /\ \A m \in Nodes \ {n} : port'[m] = port[m] /\ (m \in missed => m \in missed')
         /\ port'[n] # NoPort => n \in missed'
         /\ refused' = refused \ {n} /\ faults' \in 0 .. MaxFaults
<1> USE DEF NoPort
<1> DEFINE known == {row.uuid : row \in {r \in cache : r.name = n}}
<1>1. known \subseteq 1 .. uuids
  BY DEF TypeOK
<1>2. CASE port[n] \in known /\ Remove(n) /\ UNCHANGED faults /\ missed' = missed \ {n}
  <2> HIDE DEF known
  <2>1. /\ uuids' = uuids /\ uuids \in Nat /\ port[n] \in 1 .. uuids
        /\ port' = [port EXCEPT ![n] = NoPort]
        /\ updates' = updates \cup {[name |-> n, uuid |-> port[n], new |-> FALSE]}
    BY <1>1, <1>2 DEF TypeOK, DeletePeer, Remove
  <2>2. updates' \subseteq [name : Nodes, uuid : 1 .. uuids, new : BOOLEAN]
    <3>1. [name |-> n, uuid |-> port[n], new |-> FALSE]
            \in [name : Nodes, uuid : 1 .. uuids, new : BOOLEAN]
      BY <2>1, Zenon
    <3> QED BY <2>1, <3>1, Zenon DEF TypeOK
  <2>3. port' \in [Nodes -> 0 .. uuids] /\ port'[n] = NoPort
    BY <2>1 DEF TypeOK
  <2> QED BY <1>2, <2>1, <2>2, <2>3 DEF TypeOK, AgentTypeOK, DeletePeer
<1>3. CASE /\ NoChange /\ UNCHANGED faults
           /\ missed' = IF port[n] = NoPort THEN missed ELSE missed \cup {n}
  BY <1>3 DEF TypeOK, AgentTypeOK, DeletePeer, NoChange
<1>4. CASE Fault /\ NoChange /\ missed' = missed \cup {n}
  BY <1>4, AgentAssumption DEF TypeOK, AgentTypeOK, DeletePeer, NoChange, Fault, mayFail
<1> QED BY <1>2, <1>3, <1>4, Zenon DEF DeletePeer

(* A notification is done when its node is no longer pending. *)
LEMMA NotifyNodeUpdateIInv ==
  ASSUME IInv, NotifyNodeUpdate
  PROVE  IInv'
<1>1. PICK n \in Pending :
        IF watch.toDelete # {}
        THEN /\ watch' = [watch EXCEPT !.toDelete = @ \ {n}]
             /\ DeletePeer(n)
        ELSE /\ watch' = [watch EXCEPT !.toAdd = @ \ {n}]
             /\ IF n # MyIP THEN AddPeer(n)
                ELSE NoChange /\ UNCHANGED <<missed, refused, uuids, faults>>
  BY DEF NotifyNodeUpdate
<1>2. n \in Nodes /\ TypeOK
  BY DEF IInv, TypeOK, Pending
<1>3. /\ watch.pc = "run" /\ isReady /\ main = "work"
      /\ UNCHANGED <<otherAgentVars, nodeCache, isReady, main, bridge, cache, starts>>
  BY DEF IInv, BridgeFirst, NotifyNodeUpdate, otherAgentVars
<1>4. CASE watch.toDelete # {}
  <2>1. /\ watch' = [watch EXCEPT !.toDelete = @ \ {n}]
        /\ DeletePeer(n) /\ n \in watch.toDelete
    BY <1>1, <1>4 DEF Pending
  <2>2. TypeOK'
    BY <1>2, <1>3, <2>1, DeletePeerProps DEF TypeOK, AgentTypeOK, otherAgentVars
  <2>3. WatchInv' /\ BridgeFirst'
    BY <1>2, <1>3, <2>1 DEF IInv, TypeOK, WatchInv, BridgeFirst
  <2>4. NotifiedHasTunnel' /\ TunnelsKnown'
    BY <1>2, <1>3, <2>1, DeletePeerProps
    DEF IInv, TypeOK, WatchInv, NotifiedHasTunnel, TunnelsKnown
  <2> QED BY <2>2, <2>3, <2>4 DEF IInv
<1>5. CASE watch.toDelete = {}
  <2>1. watch' = [watch EXCEPT !.toAdd = @ \ {n}] /\ n \in watch.toAdd
    BY <1>1, <1>5 DEF Pending
  <2>2. WatchInv' /\ BridgeFirst'
    BY <1>2, <1>3, <2>1 DEF IInv, TypeOK, WatchInv, BridgeFirst
  <2>3. CASE n = MyIP
    <3>1. UNCHANGED <<port, updates, missed, refused, uuids, faults>>
      BY <1>1, <1>5, <2>3 DEF NoChange
    <3>2. TypeOK'
      BY <1>2, <1>3, <2>1, <3>1 DEF TypeOK, AgentTypeOK, otherAgentVars
    <3>3. NotifiedHasTunnel' /\ TunnelsKnown'
      BY <1>2, <1>3, <2>1, <2>3, <3>1 DEF IInv, TypeOK, NotifiedHasTunnel, TunnelsKnown
    <3> QED BY <2>2, <3>2, <3>3 DEF IInv
  <2>4. CASE n # MyIP
    <3>1. AddPeer(n)
      BY <1>1, <1>5, <2>4
    <3>2. TypeOK'
      BY <1>2, <1>3, <2>1, <3>1, AddPeerProps DEF TypeOK, AgentTypeOK, otherAgentVars
    <3>3. NotifiedHasTunnel' /\ TunnelsKnown'
      BY <1>2, <1>3, <2>1, <3>1, AddPeerProps
      DEF IInv, TypeOK, WatchInv, NotifiedHasTunnel, TunnelsKnown
    <3> QED BY <2>2, <3>2, <3>3 DEF IInv
  <2> QED BY <2>3, <2>4
<1> QED BY <1>4, <1>5

(* A new daemon finds its bridge and tunnels, or none, and has the cache   *)
(* filled with them.                                                       *)
LEMMA RestartIInv ==
  ASSUME IInv, Restart
  PROVE  IInv'
<1> USE DEF NoPort, Off
<1>1. AgentTypeOK'
  BY DEF IInv, TypeOK, AgentTypeOK, Restart, AgentRestart
<1>2. bridge' \in BOOLEAN /\ isReady' \in BOOLEAN
  BY Zenon DEF IInv, TypeOK, Restart, DeleteBridge
<1>3. port' \in [Nodes -> 0 .. uuids] /\ uuids' = uuids /\ uuids \in Nat
  BY DEF IInv, TypeOK, Restart, DeleteBridge
<1>4. cache' \subseteq [name : Nodes, uuid : 1 .. uuids]
  BY <1>3 DEF Restart, ovs_connect
<1>5. TypeOK'
  BY <1>1, <1>2, <1>3, <1>4, PeersAssumption DEF IInv, TypeOK, Restart, ovs_connect
<1>6. WatchInv' /\ BridgeFirst' /\ NotifiedHasTunnel' /\ TunnelsKnown'
  BY DEF WatchInv, BridgeFirst, NotifiedHasTunnel, TunnelsKnown, Restart
<1> QED BY <1>5, <1>6 DEF IInv

(* Every step of the daemon, of the cluster and of the database. *)
LEMMA NextIInv == IInv /\ [Next]_vars => IInv'
<1> SUFFICES ASSUME IInv, [Next]_vars PROVE IInv'
  OBVIOUS
<1>1. CASE UNCHANGED vars
  BY <1>1 DEF vars, agentVars, switchVars, IInv, TypeOK, AgentTypeOK, WatchInv,
              BridgeFirst, NotifiedHasTunnel, TunnelsKnown
<1>2. CASE Next
  BY <1>2, AgentIInv, CreateBridgeIInv, RegisterIInv, updateNodeListenersIInv,
     NotifyFirstIInv, ReadyIInv, NotifyNodeUpdateIInv, populateCacheIInv, RestartIInv
  DEF Next, Work, peerVars
<1> QED BY <1>1, <1>2

(* The inductive invariant holds in every reachable state. *)
LEMMA SpecIInv == Spec => []IInv
<1> QED BY InitIInv, NextIInv, PTL DEF Spec

(* The variables of the agent, of the watch and of the switch have their   *)
(* types.                                                                  *)
THEOREM TypeCorrect == Spec => []TypeOK
<1>1. IInv => TypeOK
  BY DEF IInv
<1> QED BY <1>1, SpecIInv, PTL

(* The rendezvous on readyChan (backend.go:70) works however late the      *)
(* agent starts and whatever CreateBridge returns: the goroutine of Run    *)
(* goes on exactly when the watch has found a node and has been let in.    *)
THEOREM BridgeBeforePeers == Spec => []BridgeFirst
<1>1. IInv => BridgeFirst
  BY DEF IInv
<1> QED BY <1>1, SpecIInv, PTL

(* A node the watch has told Listener of (backend.go:67) has its tunnel if *)
(* there is a bridge, for every order in which the table cache learns of   *)
(* the ports, unless the transaction of addVxlanPort (ovs_driver.go:216)   *)
(* failed when the node was last notified.  A failure for one node takes   *)
(* no other node's tunnel.                                                 *)
THEOREM NotifiedNodesHaveTunnels == Spec => []NotifiedHasTunnel
<1>1. IInv => NotifiedHasTunnel
  BY DEF IInv
<1> QED BY <1>1, SpecIInv, PTL

(* The only tunnels nobody will delete are those deletePort did not find   *)
(* in the table cache (ovs_driver.go:273) or an earlier daemon left.       *)
THEOREM NoTunnelForgotten == Spec => []TunnelsKnown
<1>1. IInv => TunnelsKnown
  BY DEF IInv
<1> QED BY <1>1, SpecIInv, PTL

(* No tunnel is made or deleted before the goroutine of Run is done with   *)
(* CreateBridge (daemon.go:131): a step that changes a tunnel is one of a  *)
(* daemon that works, or starts the daemon again.                          *)
THEOREM TunnelsChangeAfterBridge ==
  Spec => [][port' # port => main = "work" \/ starts' # starts]_vars
<1>1. IInv /\ [Next]_vars => [port' # port => main = "work" \/ starts' # starts]_vars
  <2> SUFFICES ASSUME IInv, Next, port' # port, starts' = starts PROVE main = "work"
    OBVIOUS
  <2>1. ~Restart
    BY DEF IInv, TypeOK, Restart
  <2>2. NotifyNodeUpdate
    BY <2>1 DEF Next, Work, CreateBridge, RegisterForNodeUpdates, updateNodeListeners,
                NotifyFirst, Ready, populateCache, switchVars
  <2> QED BY <2>2 DEF IInv, BridgeFirst, NotifyNodeUpdate
<1> QED BY <1>1, SpecIInv, PTL DEF Spec
=============================================================================
