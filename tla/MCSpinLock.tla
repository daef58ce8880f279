----------------------------- MODULE MCSpinLock -----------------------------
(* Instances of SpinLock. *)
EXTENDS SpinLock, TLC

\* Outer locks are taken before a p->lock, as wait_lock is.
Nesting == Outer \X Thread

Symmetry == Permutations(CPU) \cup Permutations(Thread)
============================================================================
