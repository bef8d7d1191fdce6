----------------------------- MODULE Isolation ------------------------------
(***************************************************************************)
(* What keeps the networks of a node apart: setupIPTables                  *)
(* (server/connection.go), called by CreateNetwork and by the syncNetwork  *)
(* loop of the node (server/network.go).  It appends a rule that drops the *)
(* traffic from the new interface to each other network it finds in the    *)
(* store; nobody adds a rule to an older interface.                        *)
(*                                                                         *)
(* This is one node: of the others it sees what they store and delete.     *)
(* Networks are kept by name; VNIs, addresses and the single steps of      *)
(* making an interface are in Network.  A rule names interfaces and        *)
(* outlives them.                                                          *)
(***************************************************************************)
EXTENDS Integers

CONSTANTS
  Names,      \* names of networks
  Reqs,       \* API requests that can run at the same time
  NoName,     \* no network
  MaxReqs,    \* bound: requests made, on this node and elsewhere
  MaxFaults   \* bound: steps that fail

ASSUME IsolationAssumption ==
  MaxReqs \in Nat /\ MaxFaults \in Nat /\ NoName \notin Names

Sync == "syncNetwork"   \* its goroutine
Procs == Reqs \cup {Sync}

VARIABLES
  nets,      \* networkStore: 0, or which creation of a network this one is
  iface,     \* the interfaces of the node: "none", "half" without address, "up"
  Gateways,  \* the interfaces syncNetwork has created
  rules,     \* the DROP rules: from interface, to interface
  proc,      \* the requests and loops in progress: their local variables
  made,      \* requests made
  stored,    \* networks stored so far
  faults,    \* failed steps so far
  done,      \* history: the creation of each network setupIPTables was done for
  spoiled    \* history: interfaces whose rules nobody will set up

vars == <<nets, iface, Gateways, rules, proc, made, stored, faults, done, spoiled>>

NoProc == [pc |-> "idle", name |-> NoName, snap |-> {}, todo |-> {}, seen |-> {}, of |-> 0]
Loop == [NoProc EXCEPT !.pc = "poll"]

Init ==
  /\ nets = [a \in Names |-> 0]
  /\ iface = [a \in Names |-> "none"]
  /\ Gateways = {} /\ rules = {}
  /\ proc = [p \in Procs |-> IF p = Sync THEN Loop ELSE NoProc]
  /\ made = 0 /\ stored = 0 /\ faults = 0
  /\ done = [a \in Names |-> 0] /\ spoiled = {}

mayFail == faults < MaxFaults
Fault(failed) == faults' = IF failed THEN faults + 1 ELSE faults
Stored == {a \in Names : nets[a] # 0}
Goto(p, label) == proc' = [proc EXCEPT ![p].pc = label]
Spoil(a) == spoiled' = spoiled \cup {a}

(* An operation of a request is over, or one network of a round. *)
Continue(p) ==
  proc' = [proc EXCEPT ![p] =
    IF p = Sync THEN [@ EXCEPT !.pc = "add", !.name = NoName, !.seen = {}, !.of = 0]
    ELSE NoProc]

-----------------------------------------------------------------------------
(* Requests of the API. *)

Begin(r, label) ==
  /\ proc[r].pc = "idle" /\ made < MaxReqs /\ made' = made + 1
  /\ \E a \in Names :
       proc' = [proc EXCEPT ![r] = [NoProc EXCEPT !.pc = label, !.name = a]]
  /\ UNCHANGED <<nets, iface, Gateways, rules, stored, faults, done, spoiled>>

CreateNetwork(r) == Begin(r, "getNetwork")
DeleteNetwork(r) == Begin(r, "getDeleted")

(* Both look the network up first; a Get that fails finds none. *)
GetNetwork(r) ==
  /\ proc[r].pc \in {"getNetwork", "getDeleted"}
  /\ \E found \in {proc[r].name \in Stored} \cup IF mayFail THEN {FALSE} ELSE {} :
       /\ Fault(found # (proc[r].name \in Stored))
       /\ \/ found /\ proc[r].pc = "getDeleted" /\ Goto(r, "delete")
          \/ ~found /\ proc[r].pc = "getNetwork" /\ Goto(r, "iface")
          \/ found = (proc[r].pc = "getNetwork") /\ Continue(r)
  /\ UNCHANGED <<nets, iface, Gateways, rules, made, stored, done, spoiled>>

(* An interface with an address is taken over; one without blocks.  A      *)
(* failure leaves it without address or not up.                            *)
CreateInterface(r) ==
  LET a == proc[r].name
  IN  /\ proc[r].pc = "iface"
      /\ \/ /\ iface[a] = "up" /\ Goto(r, "put")
            /\ UNCHANGED <<iface, faults, spoiled>>
         \/ /\ iface[a] = "half" /\ Continue(r)
            /\ UNCHANGED <<iface, faults, spoiled>>
         \/ /\ iface[a] = "none" /\ Goto(r, "put")
            /\ iface' = [iface EXCEPT ![a] = "up"]
            /\ UNCHANGED <<faults, spoiled>>
         \/ /\ iface[a] = "none" /\ mayFail /\ Fault(TRUE) /\ Continue(r)
            /\ \E i \in {"half", "up"} : iface' = [iface EXCEPT ![a] = i]
            /\ Spoil(a)
      /\ UNCHANGED <<nets, Gateways, rules, made, stored, done>>

(* Put: OUTDATED when its Get finds the network; CreateNetwork starts over *)
(* and leaves the interface.                                               *)
PutGet(r) ==
  LET a == proc[r].name
  IN  /\ proc[r].pc = "put"
      /\ \/ a \notin Stored /\ Goto(r, "cas") /\ UNCHANGED <<faults, spoiled>>
         \/ a \in Stored /\ Goto(r, "getNetwork") /\ UNCHANGED faults /\ Spoil(a)
         \/ a \in Stored /\ mayFail /\ Fault(TRUE) /\ Goto(r, "cas") /\ UNCHANGED spoiled
      /\ UNCHANGED <<nets, iface, Gateways, rules, made, stored, done>>

(* The PUT, whose result is not looked at. *)
PutCas(r) ==
  LET a == proc[r].name
  IN  /\ proc[r].pc = "cas"
      /\ \/ /\ a \notin Stored /\ stored' = stored + 1
            /\ nets' = [nets EXCEPT ![a] = stored + 1]
            /\ UNCHANGED faults
         \/ /\ a \in Stored \/ mayFail
            /\ Fault(a \notin Stored)
            /\ UNCHANGED <<nets, stored>>
      /\ Goto(r, "list")
      /\ UNCHANGED <<iface, Gateways, rules, made, done, spoiled>>

(* Delete, which may fail before or after it has taken effect. *)
DeleteNet(r) ==
  LET deleted == [nets EXCEPT ![proc[r].name] = 0]
  IN  /\ proc[r].pc = "delete"
      /\ \/ nets' = deleted /\ Goto(r, "deletePort") /\ UNCHANGED faults
         \/ mayFail /\ Fault(TRUE) /\ nets' \in {nets, deleted} /\ Continue(r)
      /\ UNCHANGED <<iface, Gateways, rules, made, stored, done, spoiled>>

deletePorts(A) ==
  /\ iface' = [a \in Names |-> IF a \in A THEN "none" ELSE iface[a]]
  /\ done' = [a \in Names |-> IF a \in A THEN 0 ELSE done[a]]
  /\ spoiled' = spoiled \ A

DeleteInterface(r) ==
  /\ proc[r].pc = "deletePort"
  /\ deletePorts({proc[r].name})
  /\ Continue(r)
  /\ UNCHANGED <<nets, Gateways, rules, made, stored, faults>>

(* Another node stores or deletes a network.  An interface this node has   *)
(* for the name by then will not be set up again.                          *)
Elsewhere ==
  /\ made < MaxReqs /\ made' = made + 1
  /\ \E a \in Names :
       IF a \in Stored
       THEN nets' = [nets EXCEPT ![a] = 0] /\ UNCHANGED <<stored, spoiled>>
       ELSE /\ nets' = [nets EXCEPT ![a] = stored + 1] /\ stored' = stored + 1
            /\ spoiled' = spoiled \cup {b \in {a} : iface[b] # "none"}
  /\ UNCHANGED <<iface, Gateways, rules, proc, faults, done>>

-----------------------------------------------------------------------------
(* setupIPTables, called by CreateNetwork and by syncNetwork.              *)

(* Mutant of Failed: an error ends the loop of the node. *)
FailedEnds(p) ==
  /\ Fault(TRUE) /\ Spoil(proc[p].name)
  /\ IF p = Sync THEN Goto(p, "idle") ELSE Continue(p)

(* A rule that cannot be installed: the rest is left out. *)
Failed(p) ==
  Fault(TRUE) /\ Spoil(proc[p].name) /\ Continue(p)

(* Mutants of ListNetworks: the network itself is not passed over; the     *)
(* list the caller has read is used.                                       *)
ListNetworksSelf(p) ==
  /\ proc[p].pc = "list"
  /\ proc' = [proc EXCEPT ![p].pc = "rules", ![p].seen = Stored,
                          ![p].of = nets[proc[p].name]]
  /\ UNCHANGED <<nets, iface, Gateways, rules, made, stored, faults, done, spoiled>>

ListNetworksRead(p) ==
  /\ proc[p].pc = "list"
  /\ proc' = [proc EXCEPT ![p].pc = "rules", ![p].seen = proc[p].snap \ {proc[p].name},
                          ![p].of = nets[proc[p].name]]
  /\ UNCHANGED <<nets, iface, Gateways, rules, made, stored, faults, done, spoiled>>

(* The rule for NAT, then GetNetworks, whose failure is an empty list and  *)
(* no error.                                                               *)
ListNetworks(p) ==
  LET a == proc[p].name
  IN  /\ proc[p].pc = "list"
      /\ \/ /\ proc' = [proc EXCEPT ![p].pc = "rules", ![p].seen = Stored \ {a},
                                    ![p].of = nets[a]]
            /\ UNCHANGED <<faults, spoiled>>
         \/ mayFail /\ Failed(p)
         \/ /\ mayFail /\ Fault(TRUE) /\ Spoil(a)
            /\ Goto(p, "rules")
      /\ UNCHANGED <<nets, iface, Gateways, rules, made, stored, done>>

(* One rule for each network of the list. *)
InstallRule(p) ==
  /\ proc[p].pc = "rules"
  /\ \E b \in proc[p].seen :
       \/ /\ rules' = rules \cup {<<proc[p].name, b>>}
          /\ proc' = [proc EXCEPT ![p].seen = @ \ {b}]
          /\ UNCHANGED <<faults, spoiled>>
       \/ mayFail /\ Failed(p) /\ UNCHANGED rules
  /\ UNCHANGED <<nets, iface, Gateways, made, stored, done>>

SetUp(p) ==
  /\ proc[p].pc = "rules" /\ proc[p].seen = {}
  /\ done' = [done EXCEPT ![proc[p].name] = IF proc[p].of > @ THEN proc[p].of ELSE @]
  /\ Continue(p)
  /\ UNCHANGED <<nets, iface, Gateways, rules, made, stored, faults, spoiled>>

setupIPTables(p) == ListNetworks(p) \/ InstallRule(p) \/ SetUp(p)

-----------------------------------------------------------------------------
(* syncNetwork. *)

Poll ==
  /\ proc[Sync].pc = "poll"
  /\ \E snap \in {Stored} \cup IF mayFail THEN {{}} ELSE {} :
       /\ Fault(snap # Stored)
       /\ proc' = [proc EXCEPT ![Sync] =
            [NoProc EXCEPT !.pc = "add", !.snap = snap, !.todo = snap]]
  /\ UNCHANGED <<nets, iface, Gateways, rules, made, stored, done, spoiled>>

(* The next network of the list, unless its interface is there. *)
SyncAdd ==
  /\ proc[Sync].pc = "add"
  /\ \E a \in proc[Sync].todo :
       LET rest == [proc[Sync] EXCEPT !.todo = @ \ {a}]
       IN  \/ /\ iface[a] = "none"
              /\ iface' = [iface EXCEPT ![a] = "up"]
              /\ Gateways' = Gateways \cup {a}
              /\ proc' = [proc EXCEPT ![Sync] = [rest EXCEPT !.pc = "list", !.name = a]]
              /\ UNCHANGED <<faults, spoiled>>
           \/ /\ iface[a] = "none" /\ mayFail /\ Fault(TRUE)
              /\ \E i \in {"half", "up"} : iface' = [iface EXCEPT ![a] = i]
              /\ Spoil(a)
              /\ proc' = [proc EXCEPT ![Sync] = rest]
              /\ UNCHANGED Gateways
           \/ /\ iface[a] # "none"
              /\ proc' = [proc EXCEPT ![Sync] = rest]
              /\ UNCHANGED <<iface, Gateways, faults, spoiled>>
  /\ UNCHANGED <<nets, rules, made, stored, done>>

SyncPrune ==
  LET unused == Gateways \ proc[Sync].snap
  IN  /\ proc[Sync].pc = "add" /\ proc[Sync].todo = {}
      /\ deletePorts(unused)
      /\ Gateways' = Gateways \ unused
      /\ proc' = [proc EXCEPT ![Sync] = Loop]
      /\ UNCHANGED <<nets, rules, made, stored, faults>>

-----------------------------------------------------------------------------
Step(r) ==
  \/ GetNetwork(r) \/ CreateInterface(r) \/ PutGet(r) \/ PutCas(r)
  \/ DeleteNet(r) \/ DeleteInterface(r) \/ setupIPTables(r)

syncNetwork == Poll \/ SyncAdd \/ SyncPrune \/ setupIPTables(Sync)

Next ==
  \/ \E r \in Reqs : CreateNetwork(r) \/ DeleteNetwork(r) \/ Step(r)
  \/ syncNetwork
  \/ Elsewhere

Spec == Init /\ [][Next]_vars

(* Goroutines are scheduled, and consul, iptables and the sleeps return. *)
FairSpec ==
  /\ Spec
  /\ \A r \in Reqs : WF_vars(Step(r))
  /\ WF_vars(syncNetwork)

-----------------------------------------------------------------------------
TypeOK ==
  /\ nets \in [Names -> 0 .. stored]
  /\ iface \in [Names -> {"none", "half", "up"}]
  /\ Gateways \subseteq Names
  /\ rules \subseteq {e \in Names \X Names : e[1] # e[2]}
  /\ proc \in [Procs -> [pc : {"idle", "poll", "add", "getNetwork", "getDeleted", "iface",
                               "put", "cas", "list", "rules", "delete", "deletePort"},
                         name : Names \cup {NoName}, snap : SUBSET Names,
                         todo : SUBSET Names, seen : SUBSET Names, of : 0 .. stored]]
  /\ made \in 0 .. MaxReqs /\ stored \in 0 .. MaxReqs /\ faults \in 0 .. MaxFaults
  /\ done \in [Names -> 0 .. stored]
  /\ spoiled \subseteq Names

IsSetUp(a) == a \in Stored /\ done[a] = nets[a]

(* "disable outgoing connections on other vlan gateway"                    *)
(* (connection.go:366): of two stored networks that the node has set up,   *)
(* whoever did so and in whatever order, one is cut off from the other.    *)
(* Each lists the networks after it was stored itself, so the later of the *)
(* two finds the other.                                                    *)
Isolated ==
  \A a, b \in Names :
    a # b /\ IsSetUp(a) /\ IsSetUp(b) => {<<a, b>>, <<b, a>>} \cap rules # {}

(* The node sets up the rules of every network in the end                  *)
(* (network.go:289), by CreateNetwork or by syncNetwork, unless a step for *)
(* it failed, a creation of it was lost on this node, or the node had an   *)
(* interface of that name when another one stored the network.             *)
RulesFollow ==
  \A a \in Names : <>[](a \in Stored /\ a \notin spoiled => IsSetUp(a))
=============================================================================
