------------------------------ MODULE MCInode ------------------------------
(* Instances of Inode.  In the first the processes make, open, link and remove a
   file /b/a in a directory /b.  In the second one process moves between directories
   that it makes, and the other removes them; the disk has more inodes than the
   table has entries. *)
EXTENDS Inode

Calls(k, S) == [kind : {k}, path : S]
Link(old, new) == {[kind |-> "link", path |-> old, new |-> new]}

Files == Calls("open", {<<"/", "b", "b">>}) \cup Calls("create", {<<"/", "b", "a">>})
         \cup Calls("mkdir", {<<"/", "b">>}) \cup Calls("chdir", {<<"/", "b", "a">>})
         \cup Calls("unlink", {<<"/", "b">>, <<"/", "b", "a">>, <<"/", "b", "b">>})
         \cup Link(<<"/", "b", "a">>, <<"/", "b", "b">>)

Moves == Calls("mkdir", {<<"b">>}) \cup Calls("chdir", {<<"b">>, <<"..">>})
Removes == Calls("unlink", {<<"/", "b">>, <<"/", "b", "b">>})
           \cup Link(<<"/", "b">>, <<"/", "a">>)

TwoSetups ==
  {[ninodes |-> 3, ops |-> [p \in Proc |-> Files]]} \cup
  {[ninodes |-> 4, ops |-> [p \in Proc |-> IF p = q THEN Moves ELSE Removes]] : q \in Proc}

Symmetry == Permutations(Proc)
============================================================================
