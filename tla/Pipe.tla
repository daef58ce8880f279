-------------------------------- MODULE Pipe --------------------------------
(***************************************************************************)
(* kernel/pipe.c: readers and writers of one pipe, each holding an end as  *)
(* an open file, with kill arriving at any step.  An action is one pass    *)
(* of a loop under pi->lock, or the entry or exit of a call.               *)
(***************************************************************************)
EXTENDS Naturals, Sequences

CONSTANTS Reader, Writer,  \* processes with the read end or the write end
          Byte,
          PIPESIZE,
          Laps,            \* nread and nwrite wrap after Laps rounds of data (2^32)
          ReadLen, WriteLen, \* the numbers of bytes asked for in one call
          MaxOps,          \* bound: calls a process makes before it closes
          None

ASSUME PipeAssumption == /\ PIPESIZE \in Nat \ {0}
                         /\ Laps \in Nat \ {0, 1}
                         /\ ReadLen \subseteq Nat /\ WriteLen \subseteq Nat /\ MaxOps \in Nat
                         /\ Reader \cap Writer = {} /\ None \notin Reader \cup Writer
                         /\ Byte /= {}

Wrap == Laps * PIPESIZE

Proc == Reader \cup Writer

VARIABLES data, nread, nwrite, readopen, writeopen,  \* struct pipe
          allocated,                                 \* the page of the pipe
          owner,                                     \* of pi->lock
          pc, n, i,                                  \* of each call
          ch,                                        \* the byte copied out last
          killed, open, ops

pipevars == <<data, nread, nwrite>>
endvars == <<readopen, writeopen, allocated, open>>
callvars == <<n, i, ops>>
vars == <<pipevars, endvars, owner, pc, callvars, ch, killed>>

\* pipealloc; kalloc fills the page with junk.
Init == /\ \E b \in Byte : data = [k \in 0..PIPESIZE - 1 |-> b]
        /\ nread = 0 /\ nwrite = 0
        /\ readopen = TRUE /\ writeopen = TRUE
        /\ allocated = TRUE
        /\ owner = None
        /\ pc = [p \in Proc |-> "user"]
        /\ n = [p \in Proc |-> 0] /\ i = [p \in Proc |-> 0]
        /\ ch = CHOOSE b \in Byte : TRUE
        /\ killed = [p \in Proc |-> FALSE]
        /\ open = [p \in Proc |-> TRUE]
        /\ ops = [p \in Proc |-> 0]

Plus1(x) == (x + 1) % Wrap

Empty == nread = nwrite

Full_Late == nwrite = (nread + PIPESIZE + 1) % Wrap
Full == nwrite = (nread + PIPESIZE) % Wrap

At(p, l) == owner = p /\ pc[p] = l
Goto(p, l) == pc' = [pc EXCEPT ![p] = l]

\* What pc becomes when the sleepers at s wake and p goes to l.
Awake(s, p, l) == [q \in Proc |-> IF q = p THEN l
                                  ELSE IF pc[q] = s THEN IF s = "rsleep" THEN "rwake" ELSE "wwake"
                                  ELSE pc[q]]

Return(p) == /\ owner' = None
             /\ n' = [n EXCEPT ![p] = 0]
             /\ i' = [i EXCEPT ![p] = 0]
             /\ UNCHANGED ops

Fail_Locked(p) == Goto(p, "user") /\ UNCHANGED <<owner, callvars>>
Fail(p) == Goto(p, "user") /\ Return(p)

Enter(p, k, l) ==
  /\ pc[p] = "user" /\ open[p] /\ ~killed[p]
  /\ owner = None
  /\ ops[p] < MaxOps
  /\ ops' = [ops EXCEPT ![p] = @ + 1]
  /\ owner' = p
  /\ n' = [n EXCEPT ![p] = k]
  /\ i' = [i EXCEPT ![p] = 0]
  /\ Goto(p, l)
  /\ UNCHANGED <<pipevars, endvars, ch, killed>>

\* A woken process gets pi->lock back at the end of sleep.
Reacquire(p, l, m) ==
  /\ pc[p] = l
  /\ owner = None
  /\ owner' = p
  /\ Goto(p, m)
  /\ UNCHANGED <<pipevars, endvars, callvars, ch, killed>>
----------------------------------------------------------------------------
(* pipewrite. *)

pipewrite(p, k) == p \in Writer /\ Enter(p, k, "write")

More(p) == i[p] < n[p]

\* The test at the top of the loop: go on, or return -1.
write_test(p) ==
  /\ At(p, "write")
  /\ More(p)
  /\ IF ~readopen \/ killed[p]
     THEN Fail(p)
     ELSE Goto(p, "room") /\ UNCHANGED <<owner, callvars>>
  /\ UNCHANGED <<pipevars, endvars, ch, killed>>

write_full(p) ==
  /\ At(p, "room")
  /\ Full
  /\ pc' = Awake("rsleep", p, "wsleep")
  /\ owner' = None
  /\ UNCHANGED <<pipevars, endvars, callvars, ch, killed>>

write_wake(p) == Reacquire(p, "wwake", "write")

write_byte(p, b) ==
  /\ At(p, "room")
  /\ ~Full
  /\ data' = [data EXCEPT ![nwrite % PIPESIZE] = b]
  /\ nwrite' = Plus1(nwrite)
  /\ i' = [i EXCEPT ![p] = @ + 1]
  /\ Goto(p, "write")
  /\ UNCHANGED <<nread, endvars, owner, n, ops, ch, killed>>

\* All is written, or copyin fails.
write_done(p) ==
  /\ \/ At(p, "write") /\ ~More(p)
     \/ At(p, "room") /\ ~Full
  /\ pc' = Awake("rsleep", p, "user")
  /\ Return(p)
  /\ UNCHANGED <<pipevars, endvars, ch, killed>>
----------------------------------------------------------------------------
(* piperead. *)

piperead(p, k) == p \in Reader /\ Enter(p, k, "read")

\* The test of the first loop, and of killed in it.
read_test(p) ==
  /\ At(p, "read")
  /\ IF ~(Empty /\ writeopen) THEN Goto(p, "copy") /\ UNCHANGED <<owner, callvars>>
     ELSE IF killed[p] THEN Fail(p)
     ELSE Goto(p, "empty") /\ UNCHANGED <<owner, callvars>>
  /\ UNCHANGED <<pipevars, endvars, ch, killed>>

read_wake_If(p) == Reacquire(p, "rwake", "copy")
read_wake(p) == Reacquire(p, "rwake", "read")

read_sleep(p) ==
  /\ At(p, "empty")
  /\ owner' = None
  /\ Goto(p, "rsleep")
  /\ UNCHANGED <<pipevars, endvars, callvars, ch, killed>>

read_byte(p) ==
  /\ At(p, "copy")
  /\ i[p] < n[p] /\ ~Empty
  /\ ch' = data[nread % PIPESIZE]
  /\ nread' = Plus1(nread)
  /\ i' = [i EXCEPT ![p] = @ + 1]
  /\ UNCHANGED <<data, nwrite, endvars, owner, pc, n, ops, killed>>

\* copyout fails: the byte is gone, and the loop ends.
read_fault(p) ==
  /\ At(p, "copy")
  /\ i[p] < n[p] /\ ~Empty
  /\ nread' = Plus1(nread)
  /\ pc' = Awake("wsleep", p, "user")
  /\ Return(p)
  /\ UNCHANGED <<data, nwrite, endvars, ch, killed>>

read_done_NoWake(p) ==
  /\ At(p, "copy")
  /\ i[p] = n[p] \/ Empty
  /\ Goto(p, "user")
  /\ Return(p)
  /\ UNCHANGED <<pipevars, endvars, ch, killed>>

read_done(p) ==
  /\ At(p, "copy")
  /\ i[p] = n[p] \/ Empty
  /\ pc' = Awake("wsleep", p, "user")
  /\ Return(p)
  /\ UNCHANGED <<pipevars, endvars, ch, killed>>
----------------------------------------------------------------------------
(* pipeclose and kill. *)

\* The last process of an end closes its file.
Last(p) == \A q \in (IF p \in Writer THEN Writer ELSE Reader) \ {p} : ~open[q]

\* Whom the close of an end wakes.
Sleepers(p) == IF p \in Writer THEN "rsleep" ELSE "wsleep"

Release(p) == ~readopen' /\ ~writeopen'

\* fileclose, and pipeclose by the last; the page is freed after the unlock.
pipeclose(p) ==
  /\ pc[p] = "user" /\ open[p]
  /\ open' = [open EXCEPT ![p] = FALSE]
  /\ IF Last(p)
     THEN /\ owner = None
          /\ writeopen' = (writeopen /\ p \notin Writer)
          /\ readopen' = (readopen /\ p \notin Reader)
          /\ pc' = Awake(Sleepers(p), p,
                         IF Release(p) THEN "free" ELSE "user")
     ELSE UNCHANGED <<readopen, writeopen, pc>>
  /\ UNCHANGED <<pipevars, allocated, owner, callvars, ch, killed>>

kfree(p) ==
  /\ pc[p] = "free"
  /\ allocated' = FALSE
  /\ Goto(p, "user")
  /\ UNCHANGED <<pipevars, readopen, writeopen, open, owner, callvars, ch, killed>>

kill(p) ==
  /\ ~killed[p] /\ open[p]
  /\ killed' = [killed EXCEPT ![p] = TRUE]
  /\ pc' = [pc EXCEPT ![p] = IF @ = "rsleep" THEN "rwake"
                             ELSE IF @ = "wsleep" THEN "wwake" ELSE @]
  /\ UNCHANGED <<pipevars, endvars, owner, callvars, ch>>
----------------------------------------------------------------------------
\* The steps a process takes once it is in a call, and the close of its file.
Step(p) == \/ write_test(p) \/ write_full(p) \/ write_done(p)
           \/ \E b \in Byte : write_byte(p, b)
           \/ read_test(p) \/ read_sleep(p) \/ read_byte(p) \/ read_done(p)
           \/ write_wake(p) \/ read_wake(p)
           \/ pipeclose(p) \/ kfree(p)

\* Every process has closed its file.
Terminated == /\ \A p \in Proc : ~open[p] /\ pc[p] = "user"
              /\ UNCHANGED vars

Next == \/ \E p \in Proc : \/ Step(p) \/ read_fault(p) \/ kill(p)
                           \/ \E k \in WriteLen : pipewrite(p, k)
                           \/ \E k \in ReadLen : piperead(p, k)
        \/ Terminated

Fairness == \A p \in Proc : WF_vars(Step(p))

Spec == Init /\ [][Next]_vars /\ Fairness
----------------------------------------------------------------------------
(* Properties. *)

Pcs == {"user", "write", "room", "wsleep", "wwake", "read", "empty", "rsleep", "rwake",
        "copy", "free"}

\* The variables have their types; in particular a call never moves more
\* bytes than it was asked for.
TypeOK ==
  /\ data \in [0..PIPESIZE - 1 -> Byte]
  /\ nread \in 0..Wrap - 1 /\ nwrite \in 0..Wrap - 1
  /\ readopen \in BOOLEAN /\ writeopen \in BOOLEAN /\ allocated \in BOOLEAN
  /\ owner \in Proc \cup {None}
  /\ pc \in [Proc -> Pcs]
  /\ n \in [Proc -> Nat] /\ i \in [Proc -> Nat]
  /\ \A p \in Proc : i[p] <= n[p]
  /\ ch \in Byte
  /\ killed \in [Proc -> BOOLEAN] /\ open \in [Proc -> BOOLEAN]
  /\ ops \in [Proc -> 0..MaxOps]

Count == (nwrite + Wrap - nread) % Wrap

Queue == [k \in 1..Count |-> data[(nread + k - 1) % PIPESIZE]]

C == INSTANCE Channel WITH Capacity <- PIPESIZE, queue <- Queue, last <- ch,
                           reading <- readopen, writing <- writeopen

\* The ring and its two wrapping counters are a bounded first-in first-out
\* queue; no interleaving of calls, kills and closes loses, doubles or
\* reorders a byte, but for the one whose copyout fails (pipe.c:76-130).
ImplementsChannel == C!Spec

\* No call is in the page after pipeclose has freed it, and it is freed once
\* (pipe.c:68-73).
NoUseAfterFree ==
  /\ (\E p \in Proc : pc[p] /= "user") => allocated
  /\ \A p \in Proc : pc[p] = "free" => \A q \in Proc \ {p} : pc[q] = "user" /\ ~open[q]

\* A writer sleeps only while the pipe is full and has a reader (pipe.c:88-90),
\* a reader only while it is empty and has a writer; unless a writer was
\* killed: pipewrite then returns at line 86 without the wakeup, and bytes it
\* had put are left to the next writer or close to announce.
SleepersWoken ==
  owner = None =>
    /\ \A p \in Writer : pc[p] = "wsleep" => Full /\ readopen
    /\ \A p \in Reader : pc[p] = "rsleep" =>
         writeopen /\ (Empty \/ \E w \in Writer : killed[w])

\* piperead returns 0 for a positive count only when the pipe has no writer,
\* or when the copy of its first byte failed: a reader that was woken and
\* finds that another one took the bytes does not report the end of the file.
EofAtEnd ==
  [][\A p \in Reader : read_done(p) /\ i[p] = 0 /\ n[p] > 0 => ~writeopen]_vars

\* Every call returns, if the processes with the other end go on and close
\* their files in the end, also after a kill.
CallsReturn == \A p \in Proc : pc[p] /= "user" ~> pc[p] = "user"

\* No call is in a freed page, and nobody sleeps on what has already happened
\* (NoUseAfterFree, SleepersWoken); the counts stay in range.
CallsSafe == TypeOK /\ NoUseAfterFree /\ SleepersWoken
----------------------------------------------------------------------------
(* The inductive invariant behind the properties. *)

\* pi->lock is held in the loops, and calls are made through the right end,
\* which is open.
Calls ==
  \A p \in Proc :
    /\ owner = p <=> pc[p] \in {"write", "room", "read", "empty", "copy"}
    /\ pc[p] \in {"write", "room", "wsleep", "wwake"} => p \in Writer
    /\ pc[p] \in {"read", "empty", "rsleep", "rwake", "copy"} => p \in Reader
    /\ pc[p] \notin {"user", "free"} => open[p]

\* An end is open as long as a process has it; the page is there until the one
\* who closed last has freed it.
Ends ==
  /\ \A p \in Reader : open[p] => readopen
  /\ \A p \in Writer : open[p] => writeopen
  /\ ~allocated => \A p \in Proc : pc[p] = "user" /\ ~open[p]
  /\ \A p \in Proc : pc[p] = "free" =>
       ~open[p] /\ \A q \in Proc \ {p} : pc[q] = "user" /\ ~open[q]

\* What a call has found out under the lock.
Tested ==
  \A p \in Proc :
    /\ pc[p] = "room" => readopen /\ i[p] < n[p]
    /\ pc[p] = "empty" => Empty /\ writeopen
    /\ pc[p] = "copy" /\ i[p] = 0 => ~(Empty /\ writeopen)

\* A sleeper's condition holds, or somebody with the lock will wake it.
Asleep ==
  /\ \A p \in Writer : pc[p] = "wsleep" =>
       readopen /\ (Full \/ \E r \in Proc : owner = r /\ pc[r] = "copy")
  /\ \A p \in Reader : pc[p] = "rsleep" =>
       writeopen /\ (Empty \/ \E w \in Writer : killed[w] \/ owner = w)

\* The ring never holds more than it has cells.
InRing == Count <= PIPESIZE

IInv == TypeOK /\ Calls /\ Ends /\ Tested /\ Asleep /\ InRing
============================================================================
