----------------------------- MODULE MCHotplug -----------------------------
(***************************************************************************)
(* Instances of Hotplug for TLC.  Every guest node's VMI runs on a host of *)
(* its own, named like the node, so that nodes are interchangeable.        *)
(***************************************************************************)
EXTENDS Hotplug, TLC

MCHostOf == [n \in Nodes |-> n]

Symmetry ==
  Permutations(Nodes) \cup Permutations(Vols) \cup Permutations(Calls)
============================================================================
