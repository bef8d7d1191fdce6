------------------------------ MODULE Subnets -------------------------------
(***************************************************************************)
(* The subnet of the default network: CreateDefaultNetwork takes the first *)
(* of gatewayAddrs (server/network.go) that overlaps no route of the host. *)
(* GetAvailableSubnet reads the routes again for each candidate, by        *)
(* CheckRouteOverlaps (util/util.go), while others change them.            *)
(*                                                                         *)
(* An address is a number of Width bits; a subnet has an address and the   *)
(* length of its prefix.  The default route has no Dst: it has length 0.   *)
(***************************************************************************)
EXTENDS Integers, Sequences

CONSTANTS
  Width,         \* bits of an address: 32
  gatewayAddrs,  \* the candidates, with host bits as in the source
  MaxRoutes,     \* bound: routes others add or delete
  MaxFaults      \* bound: RouteList fails

VARIABLES
  routes,   \* the routes of the host
  pc,       \* "idle", "scan", and what GetAvailableSubnet returns
  seen,     \* history: the routes each candidate was checked against
  changes, faults   \* counters

vars == <<routes, pc, seen, changes, faults>>

Subnet(ip, len) == [ip |-> ip, len |-> len]

IPCount(net) == 2 ^ (Width - net.len)

Mask(ip, net) == ip - (ip % IPCount(net))

(* The network that ParseCIDR returns has no host bits. *)
ParseCIDR(addr) == Subnet(Mask(addr.ip, addr), addr.len)

Dsts == {ParseCIDR(Subnet(ip, len)) : ip \in 0 .. 2 ^ Width - 1, len \in 0 .. Width}

NetworkRange(net) ==
  LET first == Mask(net.ip, net) IN <<first, first + IPCount(net) - 1>>

Contains(net, ip) == Mask(ip, net) = Mask(net.ip, net)

(* Mutant of NetworkOverlaps: one of the two tests is missing. *)
NetworkOverlapsInside(x, y) == Contains(y, NetworkRange(x)[1])

NetworkOverlaps(x, y) ==
  Contains(y, NetworkRange(x)[1]) \/ Contains(x, NetworkRange(y)[1])

CheckRouteOverlaps(net) ==
  \E dst \in routes : dst.len # 0 /\ NetworkOverlaps(net, dst)

Init ==
  /\ routes = {Subnet(0, 0)} /\ pc = "idle" /\ seen = <<>>
  /\ changes = 0 /\ faults = 0

(* Others add and delete routes at any time. *)
Route ==
  /\ changes < MaxRoutes /\ changes' = changes + 1
  /\ \E dst \in Dsts :
       routes' = IF dst \in routes THEN routes \ {dst} ELSE routes \cup {dst}
  /\ UNCHANGED <<pc, seen, faults>>

CreateDefaultNetwork ==
  /\ pc = "idle" /\ pc' = "scan"
  /\ UNCHANGED <<routes, seen, changes, faults>>

(* One turn of the loop.  A RouteList that fails skips the candidate. *)
GetAvailableSubnet ==
  /\ pc = "scan"
  /\ \/ /\ Len(seen) = Len(gatewayAddrs)
        /\ pc' = "none"
        /\ UNCHANGED <<seen, faults>>
     \/ /\ Len(seen) < Len(gatewayAddrs)
        /\ seen' = Append(seen, routes)
        /\ pc' = IF CheckRouteOverlaps(ParseCIDR(gatewayAddrs[Len(seen) + 1]))
                 THEN "scan" ELSE "found"
        /\ UNCHANGED faults
     \/ /\ Len(seen) < Len(gatewayAddrs)
        /\ faults < MaxFaults /\ faults' = faults + 1
        /\ seen' = Append(seen, Dsts)
        /\ UNCHANGED pc
  /\ UNCHANGED <<routes, changes>>

Next == Route \/ CreateDefaultNetwork \/ GetAvailableSubnet

-----------------------------------------------------------------------------
(* The addresses of a subnet. *)
Addrs(net) == {ip \in 0 .. 2 ^ Width - 1 : Contains(net, ip)}

Shares(addr, dsts) ==
  \E dst \in dsts : dst.len # 0 /\ Addrs(addr) \cap Addrs(dst) # {}

(* GetAvailableSubnet (network.go:386): the candidate it returns has no    *)
(* address in common with a route that was there when it was checked, and  *)
(* every candidate it passed over had one, so it fails only if none was    *)
(* free.                                                                   *)
AvailableIsFree ==
  \A i \in 1 .. Len(seen) :
    Shares(gatewayAddrs[i], seen[i]) <=> ~(pc = "found" /\ i = Len(seen))
=============================================================================
