----------------------------- MODULE MC_Network -----------------------------
(* Model values of the runs of Network. *)
EXTENDS Network, TLC

Symmetry == Permutations(Reqs) \cup Permutations(Names) \cup Permutations(Nodes)
=============================================================================
