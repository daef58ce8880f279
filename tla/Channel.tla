------------------------------ MODULE Channel ------------------------------
(* What a pipe promises: a bounded queue of bytes, first in first out, that *)
(* accepts bytes while it has a reader.                                     *)
EXTENDS Naturals, Sequences

CONSTANTS Byte, Capacity

VARIABLES queue,           \* bytes written and not yet read
          last,            \* the byte handed over last
          reading, writing \* whether the pipe has a reader and a writer

vars == <<queue, last, reading, writing>>

Init == queue = <<>> /\ last \in Byte /\ reading = TRUE /\ writing = TRUE

Put(b) == /\ reading /\ writing
          /\ Len(queue) < Capacity
          /\ queue' = Append(queue, b)
          /\ UNCHANGED <<last, reading, writing>>

Take == /\ reading
        /\ queue /= <<>>
        /\ last' = Head(queue)
        /\ queue' = Tail(queue)
        /\ UNCHANGED <<reading, writing>>

\* A byte is taken out but the reader's memory cannot be written.
Lose == /\ reading
        /\ queue /= <<>>
        /\ queue' = Tail(queue)
        /\ UNCHANGED <<last, reading, writing>>

StopReading == reading /\ reading' = FALSE /\ UNCHANGED <<queue, last, writing>>

StopWriting == writing /\ writing' = FALSE /\ UNCHANGED <<queue, last, reading>>

Next == \/ \E b \in Byte : Put(b)
        \/ Take \/ Lose \/ StopReading \/ StopWriting

Spec == Init /\ [][Next]_vars
============================================================================
