------------------------------- MODULE Peers --------------------------------
(***************************************************************************)
(* The VXLAN tunnels of one node: the watch on the nodes of the cluster    *)
(* (netAgent/netAgent.go), NotifyNodeUpdate (server/backend.go) that adds  *)
(* and deletes peers, the main goroutine of Daemon.Run that creates the    *)
(* bridge, and the cache of the tables of Open vSwitch                     *)
(* (server/ovs_driver.go), which goroutines of the OVSDB client keep up to *)
(* date one notification each, in any order.  The watch asks the agent of  *)
(* module Agent.                                                           *)
(***************************************************************************)
EXTENDS Agent

CONSTANTS
  MyIP,       \* what util.MyIP returns: Self, or another address of this host
  MaxStarts   \* bound: times the daemon is started again

ASSUME PeersAssumption == MyIP \notin Others /\ MaxStarts \in Nat

VARIABLES
  nodeCache,  \* the nodes of the last notification
  watch,      \* the goroutine of the watch, "off" before it is registered:
              \* nodes it has still to notify
  isReady,    \* daemon.isReady
  main,       \* the goroutine of Run: "bridge", "wait" on readyChan, "work"
  bridge,     \* ovs-br0 exists
  port,       \* the tunnel port to each node: its UUID, 0 if there is none
  cache,      \* the rows of the Port table in the cache: name, UUID
  updates,    \* notifications of the database not yet applied to the cache
  missed,     \* history: nodes whose tunnel DeletePeer did not delete, or that
              \* a daemon left behind when it crashed
  refused,    \* history: nodes of nodeCache whose tunnel AddPeer failed to add
  uuids, starts   \* counters

switchVars == <<bridge, port, cache, updates, missed, refused, uuids>>
vars == <<agentVars, nodeCache, watch, isReady, main, switchVars, starts>>

NoPort == 0
Off == [pc |-> "off", toDelete |-> {}, toAdd |-> {}]

Init ==
  /\ AgentInit
  /\ nodeCache = {} /\ watch = Off /\ isReady = FALSE
  /\ main = "bridge" /\ bridge = FALSE
  /\ port = [n \in Nodes |-> NoPort]
  /\ cache = {} /\ updates = {} /\ missed = {} /\ refused = {}
  /\ uuids = 0 /\ starts = 0

-----------------------------------------------------------------------------
(* The goroutine of Daemon.Run. *)

(* The bridge has a port of its own name. *)
portExists == bridge

(* The transaction adds the bridge, or fails as a whole. *)
CreateOVSBridge ==
  \/ bridge' = TRUE /\ UNCHANGED faults
  \/ Fault /\ UNCHANGED bridge

(* An error is logged, and the goroutine goes on to wait on readyChan. *)
CreateBridge ==
  /\ main = "bridge" /\ main' = "wait"
  /\ IF portExists THEN UNCHANGED <<bridge, faults>> ELSE CreateOVSBridge
  /\ UNCHANGED <<isServer, members, agent, start, handler, reqs, changes,
                 nodeCache, watch, isReady, port, cache, updates, missed, refused,
                 uuids, starts>>

-----------------------------------------------------------------------------
(* Open vSwitch, external: a port added to or deleted from the bridge is   *)
(* announced to the client.                                                *)
Insert(n) ==
  /\ uuids' = uuids + 1
  /\ port' = [port EXCEPT ![n] = uuids + 1]
  /\ updates' = updates \cup {[name |-> n, uuid |-> uuids + 1, new |-> TRUE]}

Remove(n) ==
  /\ port' = [port EXCEPT ![n] = NoPort]
  /\ updates' = updates \cup {[name |-> n, uuid |-> port[n], new |-> FALSE]}

NoChange == UNCHANGED <<port, updates>>

(* addVxlanPort fails when the port exists; without a bridge the new rows  *)
(* are not referenced, and vanish.  Any other transaction may fail as      *)
(* well.  A failure is logged, and never retried.                          *)
AddPeer(n) ==
  /\ \/ bridge /\ port[n] = NoPort /\ Insert(n) /\ UNCHANGED faults
        /\ refused' = refused \ {n}
     \/ ~(bridge /\ port[n] = NoPort) /\ NoChange /\ UNCHANGED <<uuids, faults>>
        /\ refused' = refused \ {n}
     \/ bridge /\ port[n] = NoPort /\ Fault /\ NoChange /\ UNCHANGED uuids
        /\ refused' = refused \cup {n}
  /\ missed' = missed \ {n}

(* Mutant of DeletePeer: the UUID is not looked up. *)
DeletePeerUnknown(n) == Remove(n) /\ UNCHANGED <<missed, refused, uuids, faults>>

(* deletePort looks the UUID up in the cache, and does nothing when it is  *)
(* not there.  With the UUID of an earlier port of this name the bridge    *)
(* still refers to the port, and the transaction is refused; with the      *)
(* right one it may fail.                                                  *)
DeletePeer(n) ==
  LET known == {row.uuid : row \in {r \in cache : r.name = n}}
  IN  /\ \/ /\ port[n] \in known /\ Remove(n) /\ UNCHANGED faults
            /\ missed' = missed \ {n}
         \/ /\ known \ {port[n]} # {} \/ known = {}
            /\ NoChange /\ UNCHANGED faults
            /\ missed' = IF port[n] = NoPort THEN missed ELSE missed \cup {n}
         \/ port[n] \in known /\ Fault /\ NoChange /\ missed' = missed \cup {n}
      /\ refused' = refused \ {n}
      /\ UNCHANGED uuids

(* populateCache, run by a goroutine for each notification. *)
populateCache(u) ==
  /\ updates' = updates \ {u}
  /\ LET row == [name |-> u.name, uuid |-> u.uuid]
     IN  cache' = IF u.new THEN cache \cup {row} ELSE cache \ {row}
  /\ UNCHANGED <<agentVars, nodeCache, watch, isReady, main, bridge, port, missed,
                 refused, uuids, starts>>

-----------------------------------------------------------------------------
(* The goroutine of the watch. *)

(* RegisterForNodeUpdates of InitAgent, once StartAgent has returned nil:  *)
(* the listener is the first, so the watch is run.                         *)
RegisterForNodeUpdates ==
  /\ start = "nil" /\ watch.pc = "off"
  /\ watch' = [watch EXCEPT !.pc = "run"]
  /\ UNCHANGED <<agentVars, nodeCache, isReady, main, switchVars, starts>>

(* The agent answers the watch when it knows a server, which has a leader  *)
(* (the servers StartAgent is told to expect have met); the watch repeats  *)
(* a query that fails.                                                     *)
Answers ==
  agent \in {"up", "leaving"} /\ (isServer \/ members \ {Self} # {})

(* Mutant of compare: Y - X. *)
compareSwapped(X, Y) == Y \ X

compare(X, Y) == X \ Y

(* Mutant of updateNodeListeners: only new nodes are looked for. *)
updateNodeListenersAdds ==
  /\ watch.pc = "run" /\ watch.toDelete = {} /\ watch.toAdd = {}
  /\ Answers /\ members # nodeCache
  /\ watch' = [watch EXCEPT !.toAdd = compare(members, nodeCache)]
  /\ nodeCache' = members
  /\ UNCHANGED <<agentVars, isReady, main, switchVars, starts>>

updateNodeListeners ==
  /\ watch.pc = "run" /\ watch.toDelete = {} /\ watch.toAdd = {}
  /\ Answers /\ members # nodeCache
  /\ watch' = [watch EXCEPT !.toDelete = compare(nodeCache, members),
                            !.toAdd = compare(members, nodeCache)]
  /\ nodeCache' = members
  /\ UNCHANGED <<agentVars, isReady, main, switchVars, starts>>

(* The node the listener is called for next: those that left come first. *)
Pending == IF watch.toDelete # {} THEN watch.toDelete ELSE watch.toAdd

(* Mutant of NotifyFirst: readyChan has a buffer. *)
NotifyFirstBuffered ==
  /\ watch.pc = "run" /\ Pending # {} /\ ~isReady
  /\ isReady' = TRUE
  /\ UNCHANGED <<agentVars, nodeCache, watch, main, switchVars, starts>>

(* NotifyNodeUpdate.  The first call waits on readyChan for Run. *)
NotifyFirst ==
  /\ watch.pc = "run" /\ Pending # {} /\ ~isReady
  /\ isReady' = TRUE
  /\ watch' = [watch EXCEPT !.pc = "ready"]
  /\ UNCHANGED <<agentVars, nodeCache, main, switchVars, starts>>

Ready ==
  /\ watch.pc = "ready" /\ main = "wait"
  /\ watch' = [watch EXCEPT !.pc = "run"]
  /\ main' = "work"
  /\ UNCHANGED <<agentVars, nodeCache, isReady, switchVars, starts>>

NotifyNodeUpdate ==
  /\ watch.pc = "run" /\ isReady
  /\ \E n \in Pending :
       IF watch.toDelete # {}
       THEN /\ watch' = [watch EXCEPT !.toDelete = @ \ {n}]
            /\ DeletePeer(n)
       ELSE /\ watch' = [watch EXCEPT !.toAdd = @ \ {n}]
            /\ IF n # MyIP THEN AddPeer(n)
               ELSE NoChange /\ UNCHANGED <<missed, refused, uuids, faults>>
  /\ UNCHANGED <<isServer, members, agent, start, handler, reqs, changes,
                 nodeCache, isReady, main, bridge, cache, starts>>

-----------------------------------------------------------------------------
(* The signal handler of Run deletes the bridge, and with it its ports. *)
DeleteBridge == bridge' = FALSE /\ port' = [n \in Nodes |-> NoPort]

(* The tables are read anew. *)
ovs_connect ==
  /\ cache' = {[name |-> n, uuid |-> port'[n]] : n \in {m \in Nodes : port'[m] # NoPort}}
  /\ updates' = {}

(* The daemon is started again, after a signal or, with all its ports, a   *)
(* crash or a DeleteBridge that failed.                                    *)
Restart ==
  /\ starts < MaxStarts /\ starts' = starts + 1
  /\ AgentRestart
  /\ nodeCache' = {} /\ watch' = Off /\ isReady' = FALSE /\ main' = "bridge"
  /\ DeleteBridge \/ UNCHANGED <<bridge, port>>
  /\ ovs_connect
  /\ missed' = {n \in Nodes : port'[n] # NoPort} /\ refused' = {}
  /\ UNCHANGED uuids

Work ==
  \/ CreateBridge \/ RegisterForNodeUpdates \/ updateNodeListeners
  \/ NotifyFirst \/ Ready \/ NotifyNodeUpdate

Next ==
  \/ AgentNext /\ UNCHANGED <<nodeCache, watch, isReady, main, switchVars, starts>>
  \/ Work
  \/ \E u \in updates : populateCache(u)
  \/ Restart

Spec == Init /\ [][Next]_vars

(* The goroutines of the daemon are scheduled, and the notifications of    *)
(* the database are handled.                                               *)
FairSpec ==
  /\ Spec /\ AgentFairness
  /\ WF_vars(CreateBridge) /\ WF_vars(RegisterForNodeUpdates)
  /\ WF_vars(updateNodeListeners) /\ WF_vars(NotifyFirst)
  /\ WF_vars(Ready) /\ WF_vars(NotifyNodeUpdate)
  /\ WF_vars(\E u \in updates : populateCache(u))

-----------------------------------------------------------------------------
TypeOK ==
  /\ AgentTypeOK
  /\ nodeCache \subseteq Nodes
  /\ watch \in [pc : {"off", "run", "ready"}, toDelete : SUBSET Nodes, toAdd : SUBSET Nodes]
  /\ isReady \in BOOLEAN /\ main \in {"bridge", "wait", "work"} /\ bridge \in BOOLEAN
  /\ port \in [Nodes -> 0 .. uuids]
  /\ cache \subseteq [name : Nodes, uuid : 1 .. uuids]
  /\ updates \subseteq [name : Nodes, uuid : 1 .. uuids, new : BOOLEAN]
  /\ missed \subseteq Nodes /\ refused \subseteq Nodes
  /\ uuids \in Nat /\ starts \in 0 .. MaxStarts

(* The rendezvous on readyChan (backend.go:70): a peer is added or deleted *)
(* only after the main goroutine is done with CreateBridge, and the main   *)
(* goroutine goes on only after the watch has found a node.                *)
BridgeFirst == main = "work" <=> (isReady /\ watch.pc = "run")

(* What has been notified is done: a node of nodeCache whose notification  *)
(* is not pending has its tunnel, whatever the cache of the tables holds.  *)
(* It lacks one only where there is no bridge, or where the transaction of *)
(* addVxlanPort failed (ovs_driver.go:216) when the node was last notified:*)
(* nodeCache holds the node already (netAgent.go:455), so nobody tries     *)
(* again.                                                                  *)
NotifiedHasTunnel ==
  \A n \in nodeCache \ (watch.toAdd \cup {MyIP}) :
    bridge /\ n \notin refused => port[n] # NoPort

(* No tunnel is forgotten: one to a node that is not, or no longer, in     *)
(* nodeCache is about to be deleted, unless deletePort did not find it in  *)
(* the cache (ovs_driver.go:273) or an earlier daemon left it.             *)
TunnelsKnown ==
  \A n \in Nodes :
    port[n] # NoPort => n \in nodeCache \cup watch.toDelete \cup missed

(* Every node of the cluster is reached in the end as long as the agent    *)
(* runs, however late it started (netAgent.go:60), after joins, leaves,    *)
(* crashes and restarts in any order (backend.go:73).  A failed            *)
(* transaction (ovs_driver.go:216) costs the node it was made for its      *)
(* tunnel, until that node leaves and joins again or the daemon restarts;  *)
(* it costs no other node.                                                 *)
MembersReached ==
  \A n \in Others :
    <>[](agent = "up" /\ n \in members /\ bridge /\ n \notin refused => port[n] # NoPort)
=============================================================================
