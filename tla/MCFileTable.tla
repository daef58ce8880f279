---------------------------- MODULE MCFileTable ----------------------------
(* Instances of FileTable. *)
EXTENDS FileTable

Symmetry == Permutations(Page)
============================================================================
