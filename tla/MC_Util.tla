------------------------------ MODULE MC_Util -------------------------------
(***************************************************************************)
(* The functions of util/util.go: the bit arrays of BitArray and the       *)
(* subnets of Subnets.  They share no state, so each part runs while the   *)
(* other one is in its initial state.                                      *)
(***************************************************************************)
EXTENDS BitArray

CONSTANTS Width, gatewayAddrs, MaxRoutes, MaxFaults
VARIABLES routes, pc, seen, changes, faults

routeVars == <<routes, pc, seen, changes, faults>>

Default == INSTANCE Subnets

(* Candidates with host bits, one inside another, as in network.go:23. *)
Candidates == <<[ip |-> 5, len |-> 3], [ip |-> 7, len |-> 2], [ip |-> 1, len |-> 1]>>

MCInit == Init /\ Default!Init

MCNext ==
  \/ Default!Init /\ Next /\ UNCHANGED routeVars
  \/ Init /\ Default!Next /\ UNCHANGED vars

MCSpec == MCInit /\ [][MCNext]_<<vars, routeVars>>

-----------------------------------------------------------------------------
(* The default subnet is the first candidate free of routes: see Subnets. *)
AvailableIsFree == Default!AvailableIsFree
=============================================================================
