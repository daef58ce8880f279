----------------------------- MODULE MCBufCache -----------------------------
(* Instances of BufCache. *)
EXTENDS BufCache, TLC

Symmetry == Permutations(User) \cup Permutations(Block)
============================================================================
