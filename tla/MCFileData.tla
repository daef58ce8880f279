---------------------------- MODULE MCFileData ----------------------------
(* An instance of FileData for TLC: two processes share file f1; f2 is another
   open file of the same inode, f3 a file of another one. *)
EXTENDS FileData, TLC

CONSTANTS f1, f2, f3, i1, i2
Inodes == [f \in File |-> IF f = f3 THEN i2 ELSE i1]
Symmetry == Permutations(Proc)
============================================================================
