------------------------------ MODULE MCProc ------------------------------
(* Instances of Proc for TLC.  The slots are scanned in order, so only the
   CPUs are interchangeable. *)
EXTENDS Proc, TLC

Symmetry == Permutations(CPU)
============================================================================
