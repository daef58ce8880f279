----------------------------- MODULE MCConsole -----------------------------
(* An instance of Console for TLC: four keys, or four characters of
   output and a key whose echo meets them. *)
EXTENDS Console

AllKeys == {"a", CR, EOF, KILL, BS, PS}
InOrOut == {[keys |-> 4, writes |-> 0, len |-> 0], [keys |-> 1, writes |-> 1, len |-> 4]}
============================================================================
