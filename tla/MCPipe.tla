------------------------------- MODULE MCPipe -------------------------------
(* Instances of Pipe. *)
EXTENDS Pipe, TLC

Symmetry == Permutations(Reader) \cup Permutations(Writer)
============================================================================
