--------------------------- MODULE LineDiscipline ---------------------------
(* What the console promises about its input: the characters typed since the
   last end of line can be erased; a line becomes readable when it ends, or when
   no more can be stored; what is readable is read once, in order. *)
EXTENDS Naturals, Sequences

CONSTANTS Char, Ends, Capacity

VARIABLES ready,   \* characters that can be read
          line     \* characters that can still be erased

vars == <<ready, line>>

Init == ready = <<>> /\ line = <<>>

Type(c) ==
  /\ Len(ready) + Len(line) < Capacity
  /\ IF c \in Ends \/ Len(ready) + Len(line) + 1 = Capacity
     THEN ready' = ready \o Append(line, c) /\ line' = <<>>
     ELSE line' = Append(line, c) /\ UNCHANGED ready

Erase == /\ line # <<>>
         /\ line' = SubSeq(line, 1, Len(line) - 1)
         /\ UNCHANGED ready

EraseLine == line' = <<>> /\ UNCHANGED ready

Read == ready # <<>> /\ ready' = Tail(ready) /\ UNCHANGED line

Next == (\E c \in Char : Type(c)) \/ Erase \/ EraseLine \/ Read

Spec == Init /\ [][Next]_vars
=============================================================================
