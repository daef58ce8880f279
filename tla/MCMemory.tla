----------------------------- MODULE MCMemory -----------------------------
(* An instance of Memory for TLC: headers that start at 0 (or stay inside
   the image so far), leave a gap, are refused, or are no segment. *)
EXTENDS Memory

Deltas == {3, -3}

Hdr(v, m, f) == [load |-> TRUE, vaddr |-> v, memsz |-> m, filesz |-> f]
Headers == {Hdr(0, 1, 1), Hdr(4, 1, 0), Hdr(0, 1, 2),
            [Hdr(0, 0, 0) EXCEPT !.load = FALSE]}
============================================================================
