# cxy-sdn: specifications, model checking and proofs

cxy-sdn connects docker containers of several hosts: every host runs a daemon
(`src/server`), the daemons share a consul key/value store (`src/netAgent`), and
each drives its own Open vSwitch bridge. This directory holds TLA+ modules that
model the daemon, TLC runs over small instances, and proofs checked by TLAPS.

## Inventory

| Part | State | Operations | Interacts with |
|---|---|---|---|
| Key/value calls (`netAgent.go`) | entries with a ModifyIndex | `Get`, `GetAll`, `Put` (a Get and a check-and-set), `Delete` | consul; every store user |
| Bit arrays (`util.go`) | a byte array | `Set`, `Clear`, `TestAndSet` | IPAM, VNI pool |
| IP addresses (`network.go`) | one bitmap per VNI and subnet | `RequestIP`, `MarkUsed`, `ReleaseIP` | store; networks, connections |
| Networks (`network.go`) | networks, VNI pool, interfaces, `d.Gateways` | `CreateNetwork`, `DeleteNetwork`, `syncNetwork` | store, IPAM, Open vSwitch |
| Connections (`connection.go`, `api.go`, `daemon.go`) | `d.connections`, ports, links in `/var/run/netns` | `createConn`, `delConn`, `connHandler`, `getInterfaceInfo` | API goroutines, IPAM, Open vSwitch |
| Peers (`netAgent.go`, `backend.go`, `daemon.go`) | `nodeCache`, `isReady`, tunnels | `updateNodeListeners`, `NotifyNodeUpdate`, `Run` | consul watch, Open vSwitch |
| Table cache (`ovs_driver.go`) | copy of the OVSDB tables | `populateCache`, `deletePort` | peers, networks, connections |
| Default subnets (`network.go`, `util.go`) | the routes of the host | `GetAvailableSubnet`, `CheckRouteOverlaps` | networks |
| QoS (`connection.go`, `api.go`) | queues of a port, values noted in a `Connection` | `createQos`, `updateQos`, `installQos` | connections, the kernel |
| Isolation (`connection.go`) | iptables rules | `setupIPTables` | networks, `syncNetwork` |
| Cluster (`netAgent.go`, `backend.go`, `api.go`) | the consul agent, `clusterChan` | `StartAgent`, `Join`, `Leave`, `nodeHandler` | API goroutines, peers |
| Key watches (`netAgent.go`) | `watches`, a watch plan | `RegisterForKeyUpdates`, `updateKeyListeners` | consul, the demo |

What is hard here: callers on several hosts interleave between the calls of one
operation; a call may fail before or after it took effect; a lost check-and-set
returns `ERROR` while the callers retry on `OUTDATED` only; values are read,
queued and used later (`delConn`, `syncNetwork`, the table cache); operations
that fail half way do not undo what they did; two unbuffered channels connect
the API with one handler. `PROJECT.json` lists each hazard at its line.

## Modules

| Module | Models | Correspondence |
|---|---|---|
| `NetAgent` | `Get`, `Put` | pure operators: the replies of a Get, the outcomes of a PUT, also faulty ones |
| `BitSet` | `util.go` | arrays as sets of bit numbers |
| `BitArray`, `BitSetSpec` | `util.go` | the byte arithmetic, and the set view it implements |
| `IPAM` | `RequestIP`, `MarkUsed`, `ReleaseIP` | `frame[p]` holds the locals of a call; `GetArray`, `PutGet`, `PutCas` are its three calls to consul |
| `AddressPool` | what the pool promises | one atomic step per operation, with the two ways it may go wrong as steps of their own |
| `Network` | networks on all nodes | `req[r]` is an API request, `sync[n]` the loop of a node; one step per consul or Open vSwitch call, each of which may fail |
| `Connections` | one node's connections | `handler` is `connHandler`, `monitor[o]` a `getInterfaceInfo` goroutine; `conn[o]` a `*Connection`, whose port and address are made in two steps; `Start` is a new daemon on what the old one left, at whatever step it ended |
| `Agent` | the agent, join and leave | `agent` is the goroutine of `startConsul`, `start` the select of `StartAgent`, `handler` `nodeHandler` |
| `Peers` | tunnels of one node; extends `Agent` | `watch` is the consul watch goroutine, `main` the goroutine of `Run`; `updates` are notifications not yet applied to the table cache; the transactions of `AddPeer` and `DeletePeer` may fail, which is only logged; `MyIP` is the address `NotifyNodeUpdate` compares with |
| `Qos` | bandwidth and delay of one container | `req[q]` is an API goroutine; the steps of `connHandler` delete the port of any Connection and the entry of the map independently, as a late `delConn` does; one step per `tc` command and per note in the `Connection`; the kernel's rules are `Accepts` |
| `Isolation` | the rules of one node | `proc[p]` is a request or the loop of `syncNetwork`, both of which call `setupIPTables`; other nodes are `Elsewhere` |
| `KeyWatch` | listeners of one key | `call[c]` is a `RegisterForKeyUpdates`, `plan[c]` the watch it runs; reading and writing `watches` are two steps |
| `Subnets` | the default subnet | addresses are numbers of `Width` bits; one step per candidate |
| `MC_Network`, `MC_Util` | | symmetry for TLC; `MC_Util` runs `BitArray` and `Subnets`, which share no state, one after the other |
| `BitSetProofs`, `IPAMProofs`, `NetworkProofs`, `ConnectionsProofs`, `PeersProofs`, `QosProofs`, `IsolationProofs`, `KeyWatchProofs` | | theorems and proofs about the module of that name; `PeersProofs` covers `Agent`, `IPAMProofs` also `AddressPool` |

`Network` and `Connections` use the operations of the pool as single steps. That
is the abstraction `AddressPool` describes and `IPAM` is proved to implement; a
step that leaves its address unmarked, or keeps the mark, is a fault in both.
`Isolation` in turn takes a network as its name and making an interface as one
step; `Network` has the details, and leaves the rules out.

### History variables

The operations on the pools can end without having marked or released anything,
so the plain statements ("an address has one user") are false of the code:
`ipam_marked` shows that. The passing runs state exactly how
far they hold. Boolean history variables record the events after which nothing
is promised:

- `IPAM`: `unmarked` (an address was handed out without flipping its bit),
  `kept` (a release did not flip its bit);
- `Network`: `discarded` (`allocateVNI` returned a VNI it had not marked),
  `stale` (`DeleteNetwork` removed something other than what it read),
  `unreserved` (a network took the address of an old interface, or a gateway
  that was not marked), `abandoned` (a creation was given up, or a network
  deleted: its gateway stays marked), `missed` (interfaces `deletePort` left);
- `Connections`: `unmarked`, `stale` (a `Connection` no longer in the map was
  deleted, or its port was not in the table cache), `orphaned` (an error path, a
  replacement or a restart lost a port or address);
- `Peers`: `missed` (tunnels that `deletePort` did not find or whose transaction
  failed, or that an earlier daemon left), `refused` (nodes whose tunnel a failed
  transaction did not add, until they are deleted or the daemon starts again);
- `Qos`: `raced` (fields for which two commands ran before either was noted);
- `Isolation`: `done` (the creation of a network that `setupIPTables` was
  completed for), and for `RulesFollow` only, `spoiled` (interfaces for which a
  step failed or whose creation was lost: nobody sets their rules up again);
- `KeyWatch`: `raced` (two calls wrote the list of listeners at once).

So `Exclusive` says that the *only* way to a shared address is an operation that
did not mark it: no interleaving of the check-and-set loops is another one. The
same reading goes for the hazards that are themselves such an event: `discarded`
and `stale` for `UniqueVNI`, `unreserved` and `abandoned` for `GatewaysMarked`,
`refused` for the tunnels, `raced` for listeners. The properties do not say that
the event cannot happen; they say that nothing else leads to the bad state.

## Runs

Passing runs:

| Run | Checks | Bounds |
|---|---|---|
| `ipam` | `CallInv`, `Exclusive`, `NoLeak`, `WritesOwnBit`, `CallsReturn` (the retries end), refinement of `AddressPool` | 3 callers, a bitmap of 2 bits, 4 requests, 1 failed call |
| `util` | the byte operations are the set operations; `AvailableIsFree` | every call on every array of 2 bytes of 5 bits; 3 candidates among addresses of 3 bits, 2 changes of the routes, 1 failure |
| `network_safety` | `UniqueVNI`, `GatewaysMarked`, `WritesOwnVNI`, `NetworksImmutable` | 1 node, 2 names, 2 VNIs, 2 concurrent requests, 3 in all, 1 failure |
| `network_live` | `GatewaysMarked`, `NodesFollow`, `PrunesUnused` | 2 nodes, 2 concurrent requests for one name, bitmaps of 1 address, 1 failure |
| `connections` | `Connected`, `NothingLost`, `WaitingIsServed`, `Answered` | 2 containers of up to 2 processes, 2 creations, 2 deletions, 1 restart of the daemon, 1 failure |
| `peers` | `BridgeFirst`, `NotifiedHasTunnel`, `TunnelsKnown`, `MembersReached`, `ClusterServed` | 3 nodes, 2 requests to join or leave, 2 changes by others, 1 restart, 1 failure |
| `qos` | `NotedIsInstalled`, `AddsDoNotMix`, `AddInstallsBoth` | 2 concurrent requests, 3 in all, 2 Connections, 1 failure |
| `isolation` | `Isolated`, `RulesFollow` | 2 networks, 4 requests on this node and elsewhere, 1 failure |
| `keywatch` | `CaughtUp`, `ToldInOrder`, `ToldLatest` | 2 listeners, 2 calls, 3 writes of the key, 1 of another |

With two bits the address pool of `ipam` runs full and hands out addresses past
its subnet; the safety properties of this run are also proved for every size.
`network_live` stops at two requests because `NodesFollow` is about names that
are not used again after a deletion: a network created anew under an old name
finds the old interface (see below). Its bitmaps have one address, so that a
second gateway lies past the end and its release panics.

The bounds let the cases that matter happen: two callers race while a third
interferes, pools run full, a failure falls on any call to consul or Open
vSwitch and on any command (but `deletePort` in `Isolation`), a name or a container is used a second time (`network_safety`, `connections`), the daemon starts on the
ports and tunnels of the one before. `GatewaysMarked` is in two runs because only
`network_live` has a creation that starts over after another node's, and only
`network_safety` a VNI used by two networks in turn. Symmetry is used for safety
properties only. Bytes have fewer bits than eight; the arithmetic is
the same for any width. `WaitingIsServed` and `CaughtUp` are the safety part of
`Answered` and `ToldLatest`: what must hold at every moment so that fair
goroutines get there; they are proved, the liveness is model-checked. Deadlock is not checked where a model is quiescent once
its bounds on requests are used up.

Violation runs, each for one sentence of the source that the code does not keep:

| Run | The sentence | What happens |
|---|---|---|
| `ipam_marked` | "mark it as used" (`network.go:402`) | two callers race for an address and both use it |
| `network_converge` | "sync the network from network Store" (`network.go:249`) | the loser of a creation keeps a wrong VLAN tag |
| `connections_monitor` | "if deleted, stop the monitor" (`connection.go:614`) | the monitor panics first |

Other behaviour of the code that the models contain and no run states:

- `allocateVNI` ignores the result of `Put`, so concurrent creations may share a
  VNI (`network.go:339`). This is the `discarded` of `UniqueVNI`.
- A release that loses its race is forgotten (`network.go:512`). This is the
  `kept` of `NoLeak`.
- The last bit of a bitmap stands for the address after the subnet, and a full
  bitmap gives one more (`network.go:422`). Such an address is released under
  another key (`connection.go:301`).
- `CreateNetwork` never enters its interface in `d.Gateways`, so `syncNetwork`
  does not remove it when another node deletes the network (`network.go:301`).
  `PrunesUnused` is about the interfaces in `d.Gateways`.
- `CreateNetwork` over an old interface keeps its VLAN tag and address, and marks
  the smallest free address instead (`network.go:139`). This is the `unreserved`
  of `GatewaysMarked`; its `abandoned` is that `DeleteNetwork` (`network.go:240`)
  and failing creations leave the gateway marked.
- Two deletions of one connection that are queued at once release its address
  twice, by when another container may have it (`api.go:351`): the `stale` of
  `Connected`.
- After a restart of the daemon a container that is still connected is not found
  by `delConn`, and cannot be connected again until it has a new process: its
  link in `/var/run/netns` exists (`connection.go:207`).
- `deletePort` does nothing when the table cache does not have the port yet
  (`ovs_driver.go:273`), and a failed transaction is not noticed
  (`ovs_driver.go:292`); the tunnel or port stays: the `missed` of `TunnelsKnown`
  and of `PrunesUnused`.
- A tunnel whose transaction fails is only logged (`ovs_driver.go:216`), and
  `nodeCache` holds the node by then (`netAgent.go:455`): it is not tried again.
  This is the `refused` of `NotifiedHasTunnel` and `MembersReached`.
- A daemon that ends while `addConnection` is between its port and its address
  (`connection.go:179-192`) leaves a port without an address; `createOvsInternalPort`
  does not look at the error of `AddInternalPort`. Nothing deletes such a port
  (`orphaned`); `Connected` says that it takes no address from anybody.
- The release of a gateway past the end of its bitmap panics (`util.go:219`); the
  request ends with its VNI released and its interface left.
- After a leave the agent is gone and its exit waits on `errChan` for ever: a
  join fails until the daemon is started again, and the tunnels stay. An agent
  that fails after five seconds is not reported (`netAgent.go:62`).
- When the second command of `addQos` fails, `createQos` fails from then on and
  `updateQos` can change the delay only (`connection.go:492`). Two `updateQos` at
  once may note another value than the kernel has: the `raced` of
  `NotedIsInstalled`.
- A creation that loses to another node does not run `setupIPTables`, and
  `syncNetwork` skips its interface; a failed rule is not tried again; when the
  list of networks cannot be read no rule is made and no error returned
  (`connection.go:381`). These are the `spoiled` of `RulesFollow`. Rules are never
  removed.
- `addListener` asks `contains` for listeners of nodes (`netAgent.go:364`), so a
  listener of a key can be entered twice. A listener that comes later is not told
  the current value; a key that never existed is reported as deleted; a creation
  followed by a change may be reported as the change only.

### Fairness

Weak fairness of the steps of goroutines that have begun: the Go scheduler runs
every runnable goroutine, and consul and Open vSwitch answer, if only with an
error. New requests, failures, restarts and membership changes are never fair.
`Connections` and `Agent` assume strong fairness of `Receive` for each request: a
Go channel serves its waiting senders in the order they came. `CallsReturn` holds for
finitely many requests: each `OUTDATED` is caused by another caller's write. The timeout of `StartAgent`
fires, at any moment relative to the agent. A watch plan repeats a query that
fails, so an answer that stays available is read.

## Proofs

Every theorem holds for all values of the constants that satisfy the named
`ASSUME` of its module. These assumptions say that counts and bounds are natural
numbers and not 0 where the code cannot run without one (`IPCount`, `ByteBits`,
`vlanCount`, `Hosts`, `MaxPid`), that the addresses users ask for lie in the
bitmap (`Chosen`), that the placeholder values are not real ones (`Empty`,
`NoName`), that this node is a node (`Self`) and its address no other node's
(`MyIP`), and that there are finitely many
calls (`Calls`). TLC evaluates them in every run of the module. Each invariant is
proved from a stronger, inductive one, `IInv`: the initial states satisfy it,
every action preserves it (one lemma per action), and it implies the invariant.

**Bit arrays.** `TestAndSetTakesSmallestFree`: what `TestAndSet` returns and
changes.

**Addresses** (`IPAMProofs`).

- `TypeCorrect` and `WritesStartFromTheStore` (`CallInv`). `CallInv` is needed
  because a write is computed three calls before it is applied: a pending write
  differs from `oldArray` in the bit of its own address only, and if its
  `casIndex` is still current then `oldArray` is what the store holds. The second
  part is why `Put` may compare values and set by index. Creation by `cas=0`
  needs that bitmaps are never deleted: `store.idx = 0 => oldArray = {}`.
- `LosesNoUpdate`: from it, no write touches another address's bit.
- `ImplementsAddressPool`: each step is a step of `AddressPool` or a stutter.
- `PoolSafe`: the invariant of `AddressPool`; through the refinement it gives
  `ExclusiveUntilUnmarked` and `NoLeakUntilKept` for `IPAM`.

**Networks** (`NetworkProofs`). `IInv` has four parts. `Shape`: the locals of a
request agree with its step, and networks are stored or listed complete.
`PoolInv`: the argument of `CallInv` for the pool of VNIs. `UniqueVNI`, which
includes the requests that still hold a VNI. `Reserved`: the gateways creations
in progress have asked for, without which `GatewaysMarked` is not inductive.

- `TypeCorrect`; `NetworksHaveTheirOwnVNI` (`UniqueVNI`);
  `StoredGatewaysAreMarked` (`GatewaysMarked`).
- `PoolLosesNoUpdate` (`WritesOwnVNI`) and `StoredNetworksStay`
  (`NetworksImmutable`) are about steps.

**Connections** (`ConnectionsProofs`). `IInv` adds which Connections exist
(`Made`), whom the handler works for (`Served`), that nobody else knows a
Connection that is being added (`Added`), and what is left of one that is being
deleted (`Removed`). `Added` goes step by step: after `createOvsInternalPort` a
port may be there without an address, after `RequestIP` the address is this
Connection's alone. A crash in between leaves what `Connected` allows: a port
that is not `Addressed`.

- `TypeCorrect`; `PortsHaveTheirOwnAddress` (`Connected`);
  `NoPortOrAddressLeaks` (`NothingLost`).
- `OneResultPerRequest` (`WaitingIsServed`): inductive given the types. The step
  that matters is `Receive`, which needs that nobody waits while the handler is
  free.

**Peers** (`PeersProofs`). `IInv` adds `WatchInv`: what the goroutine of the watch
has still to add or delete against `nodeCache`. The failed transactions are
`Fault` outcomes of `AddPeer` and `DeletePeer`; `NotifiedHasTunnel` holds for the
nodes that are not `refused`, and the proof shows that no order of notifications,
cache updates and restarts is another way to lose a tunnel.

- `TypeCorrect`; `BridgeBeforePeers` (`BridgeFirst`); `NotifiedNodesHaveTunnels`
  (`NotifiedHasTunnel`); `NoTunnelForgotten` (`TunnelsKnown`).
- `TunnelsChangeAfterBridge`, about steps.

**QoS** (`QosProofs`). `IInv` adds that between command and note a request is alone
with its field unless `raced` (`NoteInv`), that queues stay as long as the port
(`QueuesStay`), and that an `addQos` is past a command only if it added that queue
(`AddInv`).

- `TypeCorrect`; `NotedMatchesKernel` (`NotedIsInstalled`); `OneRequestAddsBoth`
  (`AddsDoNotMix`); `SuccessMeansBothQueues` (`AddInstallsBoth`).
- `QueuesOutliveRequests`, about steps.

**Isolation** (`IsolationProofs`). `RuleInv` is the point: of two stored networks
whose lists of networks were both read, one list was read after the other network
was stored, so the rule exists or is still to be installed. `CountInv` bounds the
stored networks by the requests.

- `TypeCorrect`; `SetUpNetworksAreIsolated` (`Isolated`).

**Key watches** (`KeyWatchProofs`). Until a race, one call found an empty list, so
one watch runs. What it saw is the store at an index not later than now (`Seen`),
and the index only grows; everybody entered is still in the list (`Kept`); and the listeners are behind the watch while its
handler is pending and know its result when it is not (`WatchInv`).

- `TypeCorrect`: the length of the list needs a count of the calls that wrote it.
- `ListenersAreToldInOrder` (`ToldInOrder`), about steps.
- `WatchTellsAll` (`CaughtUp`).

Only model-checked:

- Liveness, which needs fairness and `ENABLED`, outside the prover:
  `CallsReturn`, `NodesFollow`, `PrunesUnused`, `Answered`, `MembersReached`,
  `ClusterServed`, `RulesFollow`, `ToldLatest`.
- `BitArray` (its `TypeOK` and `ImplementsBitSet`): the scan is recursive, and what
  it returns for every array is an induction; the bytes are powers of two, of
  which the provers know nothing.
- `AvailableIsFree` of `Subnets`: that the two tests of `NetworkOverlaps` find
  every overlap rests on powers of two dividing each other.

## Not modelled

- The subnet `Subnets` finds is not handed to `Network`: `CreateNetwork` there
  takes any subnet. `GetAvailableGwAddress` has no caller.
- A requested address outside the bitmap, and the text formats of addresses.
- The delay of the table cache is modelled in `Peers`; in `Network` and
  `Connections` a port missing from it is a failure of `deletePort`. In `Isolation`
  `deletePort` succeeds and `syncNetwork` deletes its unused ports in one step.
- Data races on the Go maps of the cache and of `d.Gateways`: each update is one
  step. The runtime may stop the program on such a race, which is a restart; what
  a race it does not notice leaves in the map is not modelled, and no property
  covers it.
- The election of a consul leader, which waits for the expected number of servers
  (`backend.go:20`): once the agent is up its queries are taken as answered. Until
  a leader exists they fail and are repeated, as a watch that has not run yet.
- `watchForExistingRegisteredUpdates` (`netAgent.go:555`), which `StartAgent` calls
  to resume watches: every caller registers after it has started the agent, so
  there are none to resume.
- A restart of the daemon in `Network` and `Isolation`.
- The loss of the connection to Open vSwitch; `monitorDockerBridge`, which acts
  on a rename of the bridge only; `UpdatePortContext` and `DeleteOVSBridge`, which
  nobody calls.
- Store watches, whose handler only logs, and `stopWatches`, which nobody calls.
- Traffic counters of connections.
- The command line script and the read-only API handlers: I/O only.

## Plan

1. Done: store calls, bit arrays, address pool, networks, connections, peers, the
   agent, default subnets, QoS, isolation, key watches, restarts of the daemon;
   proofs of every safety property of these but the two arithmetic ones above.
2. A composition of networks and connections over one pool; restarts and the
   delayed cache in `Network`.
