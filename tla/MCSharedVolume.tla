-------------------------- MODULE MCSharedVolume --------------------------
(***************************************************************************)
(* Instances of SharedVolume for TLC.  Guest nodes are interchangeable.    *)
(***************************************************************************)
EXTENDS SharedVolume, TLC

Symmetry == Permutations(Nodes)
============================================================================
