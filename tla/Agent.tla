------------------------------- MODULE Agent --------------------------------
(***************************************************************************)
(* The consul agent inside the daemon: StartAgent and startConsul          *)
(* (netAgent/netAgent.go), InitAgent and nodeHandler (server/backend.go),  *)
(* and the requests of the API that join and leave a cluster.  The agent   *)
(* runs in a goroutine of the daemon; its exit code goes through errChan,  *)
(* which StartAgent reads for five seconds only.                           *)
(*                                                                         *)
(* Peers composes this with the watch that the agent answers.              *)
(***************************************************************************)
EXTENDS Integers

CONSTANTS
  Nodes,       \* the nodes, by address
  Self,        \* this node
  MaxReqs,     \* bound: requests of the API to join or to leave
  MaxChanges,  \* bound: other nodes that join or leave
  MaxFaults    \* bound: an agent, a leave or a transaction fails

ASSUME AgentAssumption ==
  Self \in Nodes /\ MaxReqs \in Nat /\ MaxChanges \in Nat /\ MaxFaults \in Nat

VARIABLES
  isServer,   \* d.isServer
  members,    \* the nodes of the cluster this node belongs to
  agent,      \* the goroutine of startConsul: "starting", "up", "leaving",
              \* "exited" (it waits to send on errChan), "done"
  start,      \* StartAgent: in its "select", then returned "nil" or "error"
  handler,    \* nodeHandler: "idle", or the action it executes
  reqs,       \* each request: "new", waiting on clusterChan with its action,
              \* "done"
  changes, faults   \* counters

agentVars == <<isServer, members, agent, start, handler, reqs, changes, faults>>

Reqs == 1 .. MaxReqs   \* in the order they are made
Others == Nodes \ {Self}

mayFail == faults < MaxFaults
Fault == mayFail /\ faults' = faults + 1

AgentInit ==
  /\ isServer \in BOOLEAN /\ members = {}
  /\ agent = "starting" /\ start = "select"
  /\ handler = "idle" /\ reqs = [r \in Reqs |-> "new"]
  /\ changes = 0 /\ faults = 0

-----------------------------------------------------------------------------
(* Other nodes enter the cluster through one of its members, and leave.    *)
Change ==
  /\ changes < MaxChanges /\ changes' = changes + 1
  /\ \/ members # {} /\ \E n \in Others \ members : members' = members \cup {n}
     \/ \E n \in members \ {Self} : members' = members \ {n}
  /\ UNCHANGED <<isServer, agent, start, handler, reqs, faults>>

(* Execute of the agent command: it runs, in the cluster its data          *)
(* directory names if any, or returns an error, however late.              *)
Execute ==
  /\ agent = "starting"
  /\ \/ agent' = "up" /\ members' = members \cup {Self} /\ UNCHANGED faults
     \/ agent' = "exited" /\ Fault /\ UNCHANGED members
  /\ UNCHANGED <<isServer, start, handler, reqs, changes>>

(* A leave is answered before the agent is shut down. *)
Shutdown ==
  /\ agent = "leaving" /\ agent' = "exited" /\ members' = {}
  /\ UNCHANGED <<isServer, start, handler, reqs, changes, faults>>

(* Mutant of StartAgent: the timeout is an error as well. *)
StartAgentStrict ==
  /\ start = "select" /\ start' = "error"
  /\ agent' = IF agent = "exited" THEN "done" ELSE agent
  /\ UNCHANGED <<isServer, members, handler, reqs, changes, faults>>

(* The select of StartAgent: errChan, or the timeout at any time.  After   *)
(* the timeout startConsul waits for ever to send on errChan.              *)
StartAgent ==
  /\ start = "select"
  /\ \/ agent = "exited" /\ agent' = "done" /\ start' = "error"
     \/ start' = "nil" /\ UNCHANGED agent
  /\ UNCHANGED <<isServer, members, handler, reqs, changes, faults>>

-----------------------------------------------------------------------------
(* joinCluster and leaveCluster send on the unbuffered clusterChan. *)
Send(r, action) ==
  /\ reqs[r] = "new" /\ \A q \in 1 .. r - 1 : reqs[q] # "new"
  /\ reqs' = [reqs EXCEPT ![r] = action]
  /\ UNCHANGED <<isServer, members, agent, start, handler, changes, faults>>

joinCluster(r) == Send(r, "join")
leaveCluster(r) == Send(r, "leave")

Receive(r) ==
  /\ handler = "idle" /\ reqs[r] \in {"join", "leave"}
  /\ handler' = reqs[r] /\ reqs' = [reqs EXCEPT ![r] = "done"]
  /\ UNCHANGED <<isServer, members, agent, start, changes, faults>>

(* Through the running agent the two clusters become one.  An error, for   *)
(* an address that does not answer or without an agent, is logged.         *)
join ==
  /\ handler = "join" /\ handler' = "idle"
  /\ \/ /\ agent = "up"
        /\ \E cluster \in SUBSET Others \ {{}} : members' = members \cup cluster
     \/ UNCHANGED members
  /\ UNCHANGED <<isServer, agent, start, reqs, changes, faults>>

(* Mutant of leave: with no agent it does not return. *)
leaveWaits ==
  /\ handler = "leave" /\ agent = "up" /\ handler' = "idle"
  /\ agent' = "leaving" /\ members' = members \ {Self}
  /\ UNCHANGED <<isServer, start, reqs, changes, faults>>

(* Leave, then the data directory is removed; consul itself has forgotten  *)
(* the cluster.  Without an agent Leave is an error, which is logged.      *)
leave ==
  /\ handler = "leave" /\ handler' = "idle"
  /\ \/ /\ agent = "up" /\ agent' = "leaving" /\ members' = members \ {Self}
        /\ UNCHANGED faults
     \/ agent = "up" /\ Fault /\ UNCHANGED <<agent, members>>
     \/ agent # "up" /\ UNCHANGED <<agent, members, faults>>
  /\ UNCHANGED <<isServer, start, reqs, changes>>

nodeHandler == join \/ leave \/ \E r \in Reqs : Receive(r)

(* A new daemon; the data directory may be lost with the old one, and then *)
(* it names no cluster.                                                    *)
AgentRestart ==
  /\ members' \in {members \ {Self}, {}}
  /\ agent' = "starting" /\ start' = "select" /\ handler' = "idle"
  /\ reqs' = [r \in Reqs |-> IF reqs[r] = "new" THEN "new" ELSE "done"]
  /\ UNCHANGED <<isServer, changes, faults>>

AgentNext ==
  \/ Change \/ Execute \/ Shutdown \/ StartAgent \/ nodeHandler
  \/ \E r \in Reqs : joinCluster(r) \/ leaveCluster(r)

(* The goroutines run, the timer fires, commands to the agent return, and  *)
(* a channel serves its senders in turn.                                   *)
AgentFairness ==
  /\ WF_agentVars(Execute) /\ WF_agentVars(Shutdown) /\ WF_agentVars(StartAgent)
  /\ WF_agentVars(join \/ leave)
  /\ \A r \in Reqs : SF_agentVars(Receive(r))

-----------------------------------------------------------------------------
AgentTypeOK ==
  /\ isServer \in BOOLEAN /\ members \subseteq Nodes
  /\ agent \in {"starting", "up", "leaving", "exited", "done"}
  /\ start \in {"select", "nil", "error"}
  /\ handler \in {"idle", "join", "leave"}
  /\ reqs \in [Reqs -> {"new", "join", "leave", "done"}]
  /\ changes \in 0 .. MaxChanges /\ faults \in 0 .. MaxFaults

(* No request of the API to join or leave waits for ever (api.go:258),     *)
(* whatever became of the agent: nodeHandler comes back to clusterChan.    *)
ClusterServed == \A r \in Reqs : reqs[r] \in {"join", "leave"} ~> reqs[r] = "done"
=============================================================================
