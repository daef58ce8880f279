---------------------------- MODULE MCVirtioDisk ----------------------------
(* Instances of VirtioDisk. *)
EXTENDS VirtioDisk, TLC

Symmetry == Permutations(Proc)
============================================================================
