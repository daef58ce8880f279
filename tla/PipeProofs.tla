----------------------------- MODULE PipeProofs -----------------------------
(***************************************************************************)
(* Proofs about Pipe, for every number of readers and writers, every size  *)
(* of the pipe and every length of the calls: no call is in a freed page,  *)
(* nobody sleeps on what has already happened, and a read reports the end  *)
(* of the file only at the end.                                            *)
(***************************************************************************)
EXTENDS Pipe, Integers, TLAPS

\* What % does up to twice the modulus.
LEMMA ModOnce ==
  ASSUME NEW M \in Nat \ {0}, NEW a \in 0..2 * M - 1
  PROVE  (a < M => a % M = a) /\ (~(a < M) => a % M = a - M)
<1>1. CASE a < M
  <2>1. a \in 0..M - 1
    BY <1>1
  <2>2. a % M = a
    BY <2>1
  <2> QED BY <1>1, <2>2, Zenon
<1>2. CASE ~(a < M)
  <2>1. a \in M..2 * M - 1
    BY <1>2
  <2>2. a % M = a - M
    BY <2>1
  <2> QED BY <1>2, <2>2, Zenon
<1> QED BY <1>1, <1>2, Zenon

\* The counters wrap after several rounds of the ring.
LEMMA WrapSize == Wrap \in Nat \ {0} /\ 2 * PIPESIZE <= Wrap
<1>1. PIPESIZE \in Nat \ {0} /\ Laps \in Nat /\ Laps >= 2
  BY PipeAssumption
<1>2. Laps * PIPESIZE >= 2 * PIPESIZE /\ Laps * PIPESIZE \in Nat
  BY <1>1
<1> QED BY <1>1, <1>2 DEF Wrap

\* The counters of the ring stay in range when they wrap.
LEMMA WrapFacts ==
  /\ Wrap \in Nat /\ Wrap > 0
  /\ \A x \in 0..Wrap - 1 : Plus1(x) \in 0..Wrap - 1
  /\ \A x \in 0..Wrap - 1 : x % PIPESIZE \in 0..PIPESIZE - 1
<1>1. Wrap \in Nat /\ Wrap > 0
  BY WrapSize
<1>2. \A x \in 0..Wrap - 1 : Plus1(x) \in 0..Wrap - 1
  BY <1>1 DEF Plus1
<1>3. \A x \in 0..Wrap - 1 : x % PIPESIZE \in 0..PIPESIZE - 1
  BY <1>1, PipeAssumption
<1> QED BY <1>1, <1>2, <1>3, Zenon

\* The counters, without %.
LEMMA Counters ==
  ASSUME NEW r \in 0..Wrap - 1, NEW w \in 0..Wrap - 1
  PROVE  /\ (w + Wrap - r) % Wrap = IF r <= w THEN w - r ELSE w + Wrap - r
         /\ Plus1(r) = IF r + 1 < Wrap THEN r + 1 ELSE 0
         /\ (r + PIPESIZE) % Wrap = IF r + PIPESIZE < Wrap THEN r + PIPESIZE
                                    ELSE r + PIPESIZE - Wrap
<1>1. Wrap \in Nat \ {0} /\ 2 * PIPESIZE <= Wrap /\ PIPESIZE \in Nat \ {0}
  BY WrapSize, PipeAssumption, Zenon
<1> DEFINE a == w + Wrap - r
           b == r + PIPESIZE
           c == r + 1
<1>2. a \in 0..2 * Wrap - 1 /\ b \in 0..2 * Wrap - 1 /\ c \in 0..2 * Wrap - 1
  BY <1>1
<1> HIDE DEF a, b, c
<1>3. /\ (a < Wrap => a % Wrap = a) /\ (~(a < Wrap) => a % Wrap = a - Wrap)
      /\ (b < Wrap => b % Wrap = b) /\ (~(b < Wrap) => b % Wrap = b - Wrap)
      /\ (c < Wrap => c % Wrap = c) /\ (~(c < Wrap) => c % Wrap = c - Wrap)
  BY <1>1, <1>2, ModOnce, Zenon
<1>4. /\ a % Wrap = IF r <= w THEN w - r ELSE w + Wrap - r
      /\ c % Wrap = IF r + 1 < Wrap THEN r + 1 ELSE 0
      /\ b % Wrap = IF r + PIPESIZE < Wrap THEN r + PIPESIZE ELSE r + PIPESIZE - Wrap
  <2> DEFINE x == a % Wrap
             y == b % Wrap
             z == c % Wrap
  <2> HIDE DEF x, y, z
  <2>1. /\ (a < Wrap => x = a) /\ (~(a < Wrap) => x = a - Wrap)
        /\ (b < Wrap => y = b) /\ (~(b < Wrap) => y = b - Wrap)
        /\ (c < Wrap => z = c) /\ (~(c < Wrap) => z = c - Wrap)
    BY <1>3, Zenon DEF x, y, z
  <2>2. /\ x = IF r <= w THEN w - r ELSE w + Wrap - r
        /\ z = IF r + 1 < Wrap THEN r + 1 ELSE 0
        /\ y = IF r + PIPESIZE < Wrap THEN r + PIPESIZE ELSE r + PIPESIZE - Wrap
    BY <1>1, <2>1 DEF a, b, c
  <2> QED BY <2>2, Zenon DEF x, y, z
<1> QED BY <1>4, Zenon DEF a, b, c, Plus1

\* Nobody is both a reader and a writer, and None is nobody.
LEMMA Roles ==
  /\ \A p \in Reader : p \in Proc /\ p \notin Writer
  /\ \A p \in Writer : p \in Proc /\ p \notin Reader
  /\ \A p \in Proc : p /= None /\ (p \in Reader \/ p \in Writer)
BY PipeAssumption, Zenon DEF Proc

\* A call never moves more than it was asked for.
LEMMA Amounts ==
  ASSUME TypeOK
  PROVE  /\ n \in [Proc -> Nat] /\ i \in [Proc -> Nat]
         /\ \A q \in Proc : n[q] \in Nat /\ i[q] \in Nat /\ i[q] <= n[q]
BY Zenon DEF TypeOK

\* A byte put into a ring that is not full, or taken from one that is not
\* empty, changes the count by one.
LEMMA CountPut ==
  ASSUME TypeOK, InRing, ~Full, nread' = nread, nwrite' = Plus1(nwrite)
  PROVE  Count \in Nat /\ Count < PIPESIZE /\ Count' = Count + 1 /\ InRing'
<1>1. Wrap \in Nat \ {0} /\ 2 * PIPESIZE <= Wrap /\ PIPESIZE \in Nat \ {0}
  BY WrapSize, PipeAssumption, Zenon
<1>2. /\ nread \in 0..Wrap - 1 /\ nwrite \in 0..Wrap - 1 /\ nwrite' \in 0..Wrap - 1
  BY WrapFacts, Zenon DEF TypeOK
<1>3. /\ Count = IF nread <= nwrite THEN nwrite - nread ELSE nwrite + Wrap - nread
      /\ Count' = IF nread <= nwrite' THEN nwrite' - nread ELSE nwrite' + Wrap - nread
      /\ nwrite' = IF nwrite + 1 < Wrap THEN nwrite + 1 ELSE 0
      /\ nwrite /= IF nread + PIPESIZE < Wrap THEN nread + PIPESIZE
                   ELSE nread + PIPESIZE - Wrap
  BY <1>2, Counters, Zenon DEF Count, Full
<1>4. Count \in Nat /\ Count < PIPESIZE /\ Count' = Count + 1
  BY <1>1, <1>2, <1>3 DEF InRing
<1> QED BY <1>1, <1>4 DEF InRing

LEMMA CountTake ==
  ASSUME TypeOK, InRing, ~Empty, nread' = Plus1(nread), nwrite' = nwrite
  PROVE  Count \in Nat \ {0} /\ Count' = Count - 1 /\ InRing'
<1>1. Wrap \in Nat \ {0} /\ 2 * PIPESIZE <= Wrap /\ PIPESIZE \in Nat \ {0}
  BY WrapSize, PipeAssumption, Zenon
<1>2. /\ nread \in 0..Wrap - 1 /\ nwrite \in 0..Wrap - 1 /\ nread' \in 0..Wrap - 1
  BY WrapFacts, Zenon DEF TypeOK
<1>3. /\ Count = IF nread <= nwrite THEN nwrite - nread ELSE nwrite + Wrap - nread
      /\ Count' = IF nread' <= nwrite THEN nwrite - nread' ELSE nwrite + Wrap - nread'
      /\ nread' = IF nread + 1 < Wrap THEN nread + 1 ELSE 0
      /\ nread /= nwrite
  BY <1>2, Counters, Zenon DEF Count, Empty
<1>4. Count \in Nat \ {0} /\ Count' = Count - 1
  BY <1>1, <1>2, <1>3 DEF InRing
<1> QED BY <1>1, <1>4 DEF InRing
----------------------------------------------------------------------------
(* Every action keeps IInv.  The lemma of an action first states what the  *)
(* action does to the process p and to the others, and the other steps     *)
(* work from that.                                                         *)

\* The entry of pipewrite and piperead: pi->lock is free.
LEMMA Enter_Keeps ==
  ASSUME IInv, NEW p \in Proc, NEW k \in Nat, NEW l,
         \/ p \in Writer /\ l = "write"
         \/ p \in Reader /\ l = "read",
         Enter(p, k, l)
  PROVE  IInv'
<1> TypeOK /\ Calls /\ Ends /\ Tested /\ Asleep /\ InRing
  BY Zenon DEF IInv
<1>a. /\ pc[p] = "user" /\ open[p] /\ owner = None /\ pc'[p] = l /\ owner' = p
      /\ n'[p] = k /\ i'[p] = 0
      /\ \A q \in Proc : q /= p => pc'[q] = pc[q]
      /\ \A q \in Proc : q /= p => n'[q] = n[q] /\ i'[q] = i[q]
      /\ UNCHANGED <<data, nread, nwrite, readopen, writeopen, allocated, open, ch,
                     killed>>
  BY Zenon DEF Enter, Goto, TypeOK, pipevars, endvars
<1>1. TypeOK'
  <2>1. owner' \in Proc \cup {None}
    BY <1>a, Roles, Zenon DEF TypeOK
  <2>2. pc' \in [Proc -> Pcs]
    BY Roles, Zenon DEF Enter, Goto, Pcs, TypeOK
  <2>3. n' \in [Proc -> Nat]
    BY Amounts, Zenon DEF Enter
  <2>4. i' \in [Proc -> Nat]
    BY Amounts, Zenon DEF Enter
  <2>5. ops' \in [Proc -> 0..MaxOps]
    BY PipeAssumption DEF Enter, Goto, TypeOK
  <2>6. \A q \in Proc : i'[q] <= n'[q]
    BY <1>a, Amounts
  <2> QED BY <1>a, <2>1, <2>2, <2>3, <2>4, <2>5, <2>6, Zenon DEF TypeOK
<1>2. Calls'
  BY <1>a, Roles DEF Calls
<1>3. Ends'
  BY <1>a, Roles, Zenon DEF Ends
<1>4. Tested'
  BY <1>a, Zenon DEF Tested, Empty
<1>5. Asleep'
  BY <1>a, Roles, ZenonT(30) DEF Asleep, Full, Empty
<1>6. InRing'
  BY <1>a, Zenon DEF InRing, Count
<1> QED BY <1>1, <1>2, <1>3, <1>4, <1>5, <1>6, Zenon DEF IInv

\* The end of sleep.
LEMMA Reacquire_Keeps ==
  ASSUME IInv, NEW p \in Proc, NEW l, NEW m,
         \/ l = "wwake" /\ m = "write"
         \/ l = "rwake" /\ m = "read",
         Reacquire(p, l, m)
  PROVE  IInv'
<1> TypeOK /\ Calls /\ Ends /\ Tested /\ Asleep /\ InRing
  BY Zenon DEF IInv
<1>a. /\ pc[p] = l /\ owner = None /\ pc'[p] = m /\ owner' = p
      /\ \A q \in Proc : q /= p => pc'[q] = pc[q]
      /\ UNCHANGED <<data, nread, nwrite, readopen, writeopen, allocated, open, n, i,
                     ops, ch, killed>>
  BY Zenon DEF Reacquire, Goto, TypeOK, pipevars, endvars, callvars
<1>1. TypeOK'
  <2>1. owner' \in Proc \cup {None}
    BY <1>a, Roles, Zenon DEF TypeOK
  <2>2. pc' \in [Proc -> Pcs]
    BY Zenon DEF Reacquire, Goto, Pcs, TypeOK
  <2> QED BY <1>a, <2>1, <2>2, Zenon DEF TypeOK
<1>2. Calls'
  BY <1>a, Roles, Zenon DEF Calls
<1>3. Ends'
  BY <1>a, Roles, Zenon DEF Ends
<1>4. Tested'
  BY <1>a, Zenon DEF Tested, Empty
<1>5. Asleep'
  BY <1>a, Roles, Zenon DEF Asleep, Full, Empty
<1>6. InRing'
  BY <1>a, Zenon DEF InRing, Count
<1> QED BY <1>1, <1>2, <1>3, <1>4, <1>5, <1>6, Zenon DEF IInv

\* The top of pipewrite's loop: a writer that gives up leaves nobody asleep who
\* is not excused, as there is no reader left or a writer was killed.
LEMMA write_test_Keeps ==
  ASSUME IInv, NEW p \in Proc, write_test(p)
  PROVE  IInv'
<1> TypeOK /\ Calls /\ Ends /\ Tested /\ Asleep /\ InRing
  BY Zenon DEF IInv
<1>a. /\ pc[p] = "write" /\ owner = p
      /\ \/ readopen /\ pc'[p] = "room" /\ i[p] < n[p] /\ UNCHANGED <<owner, n, i>>
         \/ (~readopen \/ killed[p]) /\ pc'[p] = "user" /\ owner' = None /\ n'[p] = 0 /\ i'[p] = 0
      /\ \A q \in Proc : q /= p => pc'[q] = pc[q]
      /\ \A q \in Proc : q /= p => n'[q] = n[q] /\ i'[q] = i[q]
      /\ UNCHANGED <<data, nread, nwrite, readopen, writeopen, allocated, open, ops, ch,
                     killed>>
  BY ZenonT(30)
     DEF write_test, At, Goto, Fail, Return, More, callvars, TypeOK, pipevars, endvars
<1>1. TypeOK'
  <2>1. owner' \in Proc \cup {None}
    BY <1>a, Roles, Zenon DEF TypeOK
  <2>2. pc' \in [Proc -> Pcs]
    BY Zenon DEF write_test, Goto, Fail, Pcs, TypeOK
  <2>3. n' \in [Proc -> Nat]
    BY Amounts DEF write_test, Fail, Return, callvars
  <2>4. i' \in [Proc -> Nat]
    BY Amounts DEF write_test, Fail, Return, callvars
  <2>5. \A q \in Proc : i'[q] <= n'[q]
    BY <1>a, Amounts
  <2> QED BY <1>a, <2>1, <2>2, <2>3, <2>4, <2>5, Zenon DEF TypeOK
<1>2. Calls'
  BY <1>a, Roles, ZenonT(30) DEF Calls
<1>3. Ends'
  BY <1>a, Zenon DEF Ends
<1>4. Tested'
  BY <1>a, ZenonT(30) DEF Tested, Empty
<1>5. Asleep'
  BY <1>a, Roles DEF Asleep, Full, Empty, Calls, Ends
<1>6. InRing'
  BY <1>a, Zenon DEF InRing, Count
<1> QED BY <1>1, <1>2, <1>3, <1>4, <1>5, <1>6, Zenon DEF IInv

\* A full pipe: the readers are woken, and the writer sleeps.
LEMMA write_full_Keeps ==
  ASSUME IInv, NEW p \in Proc, write_full(p)
  PROVE  IInv'
<1> TypeOK /\ Calls /\ Ends /\ Tested /\ Asleep /\ InRing
  BY Zenon DEF IInv
<1>a. /\ pc[p] = "room" /\ owner = p /\ Full /\ pc'[p] = "wsleep" /\ owner' = None
      /\ \A q \in Proc : q /= p => pc'[q] = IF pc[q] = "rsleep" THEN "rwake" ELSE pc[q]
      /\ UNCHANGED <<data, nread, nwrite, readopen, writeopen, allocated, open, n, i,
                     ops, ch, killed>>
  BY Zenon DEF write_full, At, Awake, TypeOK, pipevars, endvars, callvars
<1>1. TypeOK'
  <2>1. owner' \in Proc \cup {None}
    BY <1>a, Roles, Zenon DEF TypeOK
  <2>2. pc' \in [Proc -> Pcs]
    BY Zenon DEF write_full, Awake, Pcs, TypeOK
  <2> QED BY <1>a, <2>1, <2>2, Zenon DEF TypeOK
<1>2. Calls'
  BY <1>a, Roles, Zenon DEF Calls
<1>3. Ends'
  BY <1>a, Zenon DEF Ends
<1>4. Tested'
  BY <1>a, Zenon DEF Tested, Empty
<1>5. Asleep'
  BY <1>a, Roles, Zenon DEF Asleep, Full, Empty, Tested
<1>6. InRing'
  BY <1>a, Zenon DEF InRing, Count
<1> QED BY <1>1, <1>2, <1>3, <1>4, <1>5, <1>6, Zenon DEF IInv

\* A byte goes into the ring.
LEMMA write_byte_Keeps ==
  ASSUME IInv, NEW p \in Proc, NEW b \in Byte, write_byte(p, b)
  PROVE  IInv'
<1> TypeOK /\ Calls /\ Ends /\ Tested /\ Asleep /\ InRing
  BY Zenon DEF IInv
<1>a. /\ pc[p] = "room" /\ owner = p /\ ~Full /\ pc'[p] = "write" /\ i'[p] = i[p] + 1
      /\ \A q \in Proc : q /= p => pc'[q] = pc[q]
      /\ \A q \in Proc : q /= p => i'[q] = i[q]
      /\ UNCHANGED <<nread, readopen, writeopen, allocated, open, owner, n, ops, ch,
                     killed>>
  BY Zenon DEF write_byte, At, Goto, TypeOK, endvars
<1>1. TypeOK'
  <2>1. data' \in [0..PIPESIZE - 1 -> Byte]
    BY WrapFacts, Zenon DEF write_byte, At, Goto, TypeOK
  <2>2. nwrite' \in 0..Wrap - 1
    BY WrapFacts, Zenon DEF write_byte, At, Goto, TypeOK
  <2>3. pc' \in [Proc -> Pcs]
    BY Zenon DEF write_byte, Goto, Pcs, TypeOK
  <2>4. i' \in [Proc -> Nat]
    BY Amounts DEF write_byte
  <2>5. \A q \in Proc : i'[q] <= n'[q]
    BY <1>a, Amounts DEF Tested
  <2> QED BY <1>a, <2>1, <2>2, <2>3, <2>4, <2>5, Zenon DEF TypeOK
<1>2. Calls'
  BY <1>a, Roles, Zenon DEF Calls
<1>3. Ends'
  BY <1>a, Zenon DEF Ends
<1>4. Tested'
  BY <1>a, Roles, Zenon DEF Tested, Empty, Calls
<1>5. Asleep'
  BY <1>a, Roles DEF Asleep, Full, Empty, Calls
<1>6. InRing'
  BY <1>a, CountPut, Zenon DEF write_byte
<1> QED BY <1>1, <1>2, <1>3, <1>4, <1>5, <1>6, Zenon DEF IInv

\* The end of pipewrite: it wakes the readers.
LEMMA write_done_Keeps ==
  ASSUME IInv, NEW p \in Proc, write_done(p)
  PROVE  IInv'
<1> TypeOK /\ Calls /\ Ends /\ Tested /\ Asleep /\ InRing
  BY Zenon DEF IInv
<1>a. /\ pc[p] \in {"write", "room"} /\ owner = p /\ pc'[p] = "user"
      /\ owner' = None /\ n'[p] = 0 /\ i'[p] = 0
      /\ \A q \in Proc : q /= p => pc'[q] = IF pc[q] = "rsleep" THEN "rwake" ELSE pc[q]
      /\ \A q \in Proc : q /= p => n'[q] = n[q] /\ i'[q] = i[q]
      /\ UNCHANGED <<data, nread, nwrite, readopen, writeopen, allocated, open, ops, ch,
                     killed>>
  BY Zenon DEF write_done, At, Awake, Return, TypeOK, pipevars, endvars
<1>1. TypeOK'
  <2>1. owner' \in Proc \cup {None}
    BY <1>a, Roles, Zenon DEF TypeOK
  <2>2. pc' \in [Proc -> Pcs]
    BY Zenon DEF write_done, Awake, Pcs, TypeOK
  <2>3. n' \in [Proc -> Nat]
    BY Amounts, Zenon DEF write_done, Return
  <2>4. i' \in [Proc -> Nat]
    BY Amounts, Zenon DEF write_done, Return
  <2>5. \A q \in Proc : i'[q] <= n'[q]
    BY <1>a, Amounts
  <2> QED BY <1>a, <2>1, <2>2, <2>3, <2>4, <2>5, Zenon DEF TypeOK
<1>2. Calls'
  BY <1>a, Roles, ZenonT(30) DEF Calls
<1>3. Ends'
  BY <1>a, Zenon DEF Ends
<1>4. Tested'
  BY <1>a, Zenon DEF Tested, Empty
<1>5. Asleep'
  BY <1>a, Roles, ZenonT(30) DEF Asleep, Full, Empty
<1>6. InRing'
  BY <1>a, Zenon DEF InRing, Count
<1> QED BY <1>1, <1>2, <1>3, <1>4, <1>5, <1>6, Zenon DEF IInv

\* The test of piperead's first loop.
LEMMA read_test_Keeps ==
  ASSUME IInv, NEW p \in Proc, read_test(p)
  PROVE  IInv'
<1> TypeOK /\ Calls /\ Ends /\ Tested /\ Asleep /\ InRing
  BY Zenon DEF IInv
<1>a. /\ pc[p] = "read" /\ owner = p
      /\ \/ ~(Empty /\ writeopen) /\ pc'[p] = "copy" /\ UNCHANGED <<owner, n, i>>
         \/ Empty /\ writeopen /\ pc'[p] = "empty" /\ UNCHANGED <<owner, n, i>>
         \/ Empty /\ pc'[p] = "user" /\ owner' = None /\ n'[p] = 0 /\ i'[p] = 0
      /\ \A q \in Proc : q /= p => pc'[q] = pc[q]
      /\ \A q \in Proc : q /= p => n'[q] = n[q] /\ i'[q] = i[q]
      /\ UNCHANGED <<data, nread, nwrite, readopen, writeopen, allocated, open, ops, ch,
                     killed>>
  BY ZenonT(30) DEF read_test, At, Goto, Fail, Return, callvars, TypeOK, pipevars, endvars
<1>1. TypeOK'
  <2>1. owner' \in Proc \cup {None}
    BY <1>a, Roles, Zenon DEF TypeOK
  <2>2. pc' \in [Proc -> Pcs]
    BY Zenon DEF read_test, Goto, Fail, Pcs, TypeOK
  <2>3. n' \in [Proc -> Nat]
    BY Amounts DEF read_test, Fail, Return, callvars
  <2>4. i' \in [Proc -> Nat]
    BY Amounts DEF read_test, Fail, Return, callvars
  <2>5. \A q \in Proc : i'[q] <= n'[q]
    BY <1>a, Amounts
  <2> QED BY <1>a, <2>1, <2>2, <2>3, <2>4, <2>5, Zenon DEF TypeOK
<1>2. Calls'
  BY <1>a, Roles, ZenonT(30) DEF Calls
<1>3. Ends'
  BY <1>a, Zenon DEF Ends
<1>4. Tested'
  BY <1>a, Zenon DEF Tested, Empty
<1>5. Asleep'
  BY <1>a, Roles, Zenon DEF Asleep, Full, Empty
<1>6. InRing'
  BY <1>a, Zenon DEF InRing, Count
<1> QED BY <1>1, <1>2, <1>3, <1>4, <1>5, <1>6, Zenon DEF IInv

\* A reader sleeps while the pipe is empty and has a writer.
LEMMA read_sleep_Keeps ==
  ASSUME IInv, NEW p \in Proc, read_sleep(p)
  PROVE  IInv'
<1> TypeOK /\ Calls /\ Ends /\ Tested /\ Asleep /\ InRing
  BY Zenon DEF IInv
<1>a. /\ pc[p] = "empty" /\ owner = p /\ pc'[p] = "rsleep" /\ owner' = None
      /\ \A q \in Proc : q /= p => pc'[q] = pc[q]
      /\ UNCHANGED <<data, nread, nwrite, readopen, writeopen, allocated, open, n, i,
                     ops, ch, killed>>
  BY Zenon DEF read_sleep, At, Goto, TypeOK, pipevars, endvars, callvars
<1>1. TypeOK'
  <2>1. owner' \in Proc \cup {None}
    BY <1>a, Roles, Zenon DEF TypeOK
  <2>2. pc' \in [Proc -> Pcs]
    BY Zenon DEF read_sleep, Goto, Pcs, TypeOK
  <2> QED BY <1>a, <2>1, <2>2, Zenon DEF TypeOK
<1>2. Calls'
  BY <1>a, Roles, Zenon DEF Calls
<1>3. Ends'
  BY <1>a, Zenon DEF Ends
<1>4. Tested'
  BY <1>a, Zenon DEF Tested, Empty
<1>5. Asleep'
  BY <1>a, Roles, Zenon DEF Asleep, Full, Empty, Tested
<1>6. InRing'
  BY <1>a, Zenon DEF InRing, Count
<1> QED BY <1>1, <1>2, <1>3, <1>4, <1>5, <1>6, Zenon DEF IInv

\* A byte leaves the ring; the reader will wake the writers.
LEMMA read_byte_Keeps ==
  ASSUME IInv, NEW p \in Proc, read_byte(p)
  PROVE  IInv'
<1> TypeOK /\ Calls /\ Ends /\ Tested /\ Asleep /\ InRing
  BY Zenon DEF IInv
<1>a. /\ pc[p] = "copy" /\ owner = p /\ ~Empty /\ i[p] < n[p] /\ i'[p] = i[p] + 1
      /\ \A q \in Proc : q /= p => i'[q] = i[q]
      /\ UNCHANGED <<data, nwrite, readopen, writeopen, allocated, open, owner, pc, n,
                     ops, killed>>
  BY Zenon DEF read_byte, At, TypeOK, endvars
<1>1. TypeOK'
  <2>1. nread' \in 0..Wrap - 1
    BY <1>a, WrapFacts, Zenon DEF read_byte, At, TypeOK
  <2>2. i' \in [Proc -> Nat]
    BY Amounts DEF read_byte
  <2>3. ch' \in Byte
    BY WrapFacts, Zenon DEF read_byte, At, TypeOK
  <2>4. \A q \in Proc : i'[q] <= n'[q]
    BY <1>a, Amounts
  <2> QED BY <1>a, <2>1, <2>2, <2>3, <2>4, Zenon DEF TypeOK
<1>2. Calls'
  BY <1>a, Zenon DEF Calls
<1>3. Ends'
  BY <1>a, Zenon DEF Ends
<1>4. Tested'
  <2>1. i'[p] /= 0
    BY <1>a, Amounts
  <2>2. \A q \in Proc : q /= p => pc[q] \notin {"room", "empty", "copy"}
    BY <1>a, Zenon DEF Calls
  <2> QED BY <1>a, <2>1, <2>2, Zenon DEF Tested
<1>5. Asleep'
  BY <1>a, Roles, Zenon DEF Asleep, Full, Empty, Calls
<1>6. InRing'
  BY <1>a, CountTake, Zenon DEF read_byte
<1> QED BY <1>1, <1>2, <1>3, <1>4, <1>5, <1>6, Zenon DEF IInv

\* The end of piperead when copyout fails: the byte is lost, and the writers are
\* woken.
LEMMA read_fault_Keeps ==
  ASSUME IInv, NEW p \in Proc, read_fault(p)
  PROVE  IInv'
<1> TypeOK /\ Calls /\ Ends /\ Tested /\ Asleep /\ InRing
  BY Zenon DEF IInv
<1>a. /\ pc[p] = "copy" /\ owner = p /\ pc'[p] = "user"
      /\ ~Empty /\ nread' = Plus1(nread)
      /\ owner' = None /\ n'[p] = 0 /\ i'[p] = 0
      /\ \A q \in Proc : q /= p => pc'[q] = IF pc[q] = "wsleep" THEN "wwake" ELSE pc[q]
      /\ \A q \in Proc : q /= p => n'[q] = n[q] /\ i'[q] = i[q]
      /\ UNCHANGED <<data, nwrite, readopen, writeopen, allocated, open, ops, ch,
                     killed>>
  BY Zenon DEF read_fault, At, Awake, Return, TypeOK, endvars
<1>1. TypeOK'
  <2>1. nread' \in 0..Wrap - 1
    BY <1>a, WrapFacts, ZenonT(30) DEF read_fault, At, Awake, Return, TypeOK
  <2>2. owner' \in Proc \cup {None}
    BY <1>a, Roles, Zenon DEF TypeOK
  <2>3. pc' \in [Proc -> Pcs]
    BY Zenon DEF read_fault, Awake, Pcs, TypeOK
  <2>4. n' \in [Proc -> Nat]
    BY Amounts, Zenon DEF read_fault, Return
  <2>5. i' \in [Proc -> Nat]
    BY Amounts, Zenon DEF read_fault, Return
  <2>6. \A q \in Proc : i'[q] <= n'[q]
    BY <1>a, Amounts
  <2> QED BY <1>a, <2>1, <2>2, <2>3, <2>4, <2>5, <2>6, Zenon DEF TypeOK
<1>2. Calls'
  BY <1>a, Roles, ZenonT(30) DEF Calls
<1>3. Ends'
  BY <1>a, Zenon DEF Ends
<1>4. Tested'
  BY <1>a, Roles, ZenonT(30) DEF Tested, Empty, Calls
<1>5. Asleep'
  BY <1>a, Roles DEF Asleep, Full, Empty, Calls
<1>6. InRing'
  BY <1>a, CountTake, Zenon DEF read_fault
<1> QED BY <1>1, <1>2, <1>3, <1>4, <1>5, <1>6, Zenon DEF IInv

\* The end of piperead: it wakes the writers.
LEMMA read_done_Keeps ==
  ASSUME IInv, NEW p \in Proc, read_done(p)
  PROVE  IInv'
<1> TypeOK /\ Calls /\ Ends /\ Tested /\ Asleep /\ InRing
  BY Zenon DEF IInv
<1>a. /\ pc[p] = "copy" /\ owner = p /\ pc'[p] = "user"
      /\ owner' = None /\ n'[p] = 0 /\ i'[p] = 0
      /\ \A q \in Proc : q /= p => pc'[q] = IF pc[q] = "wsleep" THEN "wwake" ELSE pc[q]
      /\ \A q \in Proc : q /= p => n'[q] = n[q] /\ i'[q] = i[q]
      /\ UNCHANGED <<data, nread, nwrite, readopen, writeopen, allocated, open, ops, ch,
                     killed>>
  BY Zenon DEF read_done, At, Awake, Return, TypeOK, pipevars, endvars
<1>1. TypeOK'
  <2>1. owner' \in Proc \cup {None}
    BY <1>a, Roles, Zenon DEF TypeOK
  <2>2. pc' \in [Proc -> Pcs]
    BY Zenon DEF read_done, Awake, Pcs, TypeOK
  <2>3. n' \in [Proc -> Nat]
    BY Amounts, Zenon DEF read_done, Return
  <2>4. i' \in [Proc -> Nat]
    BY Amounts, Zenon DEF read_done, Return
  <2>5. \A q \in Proc : i'[q] <= n'[q]
    BY <1>a, Amounts
  <2> QED BY <1>a, <2>1, <2>2, <2>3, <2>4, <2>5, Zenon DEF TypeOK
<1>2. Calls'
  BY <1>a, Roles, ZenonT(30) DEF Calls
<1>3. Ends'
  BY <1>a, Zenon DEF Ends
<1>4. Tested'
  BY <1>a, Roles, ZenonT(30) DEF Tested, Empty, Calls
<1>5. Asleep'
  BY <1>a, Roles DEF Asleep, Full, Empty, Calls
<1>6. InRing'
  BY <1>a, Zenon DEF InRing, Count
<1> QED BY <1>1, <1>2, <1>3, <1>4, <1>5, <1>6, Zenon DEF IInv

\* The page is freed by the last.
LEMMA kfree_Keeps ==
  ASSUME IInv, NEW p \in Proc, kfree(p)
  PROVE  IInv'
<1> TypeOK /\ Calls /\ Ends /\ Tested /\ Asleep /\ InRing
  BY Zenon DEF IInv
<1>a. /\ pc[p] = "free" /\ pc'[p] = "user" /\ ~allocated'
      /\ \A q \in Proc : q /= p => pc'[q] = pc[q]
      /\ UNCHANGED <<data, nread, nwrite, readopen, writeopen, open, owner, n, i, ops,
                     ch, killed>>
  BY Zenon DEF kfree, Goto, TypeOK, pipevars, callvars
<1>1. TypeOK'
  <2>1. allocated' \in BOOLEAN
    BY Zenon DEF kfree, Goto, TypeOK
  <2>2. pc' \in [Proc -> Pcs]
    BY Zenon DEF kfree, Goto, Pcs, TypeOK
  <2> QED BY <1>a, <2>1, <2>2, Zenon DEF TypeOK
<1>2. Calls'
  BY <1>a, Zenon DEF Calls
<1>3. Ends'
  BY <1>a, Zenon DEF Ends
<1>4. Tested'
  BY <1>a, Zenon DEF Tested, Empty
<1>5. Asleep'
  BY <1>a, Roles, Zenon DEF Asleep, Full, Empty
<1>6. InRing'
  BY <1>a, Zenon DEF InRing, Count
<1> QED BY <1>1, <1>2, <1>3, <1>4, <1>5, <1>6, Zenon DEF IInv

\* A kill wakes the process it is for.
LEMMA kill_Keeps ==
  ASSUME IInv, NEW p \in Proc, kill(p)
  PROVE  IInv'
<1> TypeOK /\ Calls /\ Ends /\ Tested /\ Asleep /\ InRing
  BY Zenon DEF IInv
<1>a. /\ killed'[p] /\ \A q \in Proc : killed[q] => killed'[q]
      /\ pc'[p] = IF pc[p] = "rsleep" THEN "rwake" ELSE IF pc[p] = "wsleep" THEN "wwake" ELSE pc[p]
      /\ \A q \in Proc : q /= p => pc'[q] = pc[q]
      /\ UNCHANGED <<data, nread, nwrite, readopen, writeopen, allocated, open, owner,
                     n, i, ops, ch>>
  BY Zenon DEF kill, TypeOK, pipevars, endvars, callvars
<1>1. TypeOK'
  <2>1. pc' \in [Proc -> Pcs]
    BY Zenon DEF kill, Pcs, TypeOK
  <2>2. killed' \in [Proc -> BOOLEAN]
    BY Zenon DEF kill, TypeOK
  <2> QED BY <1>a, <2>1, <2>2, Zenon DEF TypeOK
<1>2. Calls'
  BY <1>a, Zenon DEF Calls
<1>3. Ends'
  BY <1>a, Zenon DEF Ends
<1>4. Tested'
  BY <1>a, Zenon DEF Tested, Empty
<1>5. Asleep'
  BY <1>a, Roles, Zenon DEF Asleep, Full, Empty
<1>6. InRing'
  BY <1>a, Zenon DEF InRing, Count
<1> QED BY <1>1, <1>2, <1>3, <1>4, <1>5, <1>6, Zenon DEF IInv

\* The close of a process's file.  The last of an end wakes the other end: a
\* sleeper of its own end would have its file open.  The last of all goes on to
\* free the page, and nobody else is in a call.
LEMMA pipeclose_Keeps ==
  ASSUME IInv, NEW p \in Proc, pipeclose(p)
  PROVE  IInv'
<1> TypeOK /\ Calls /\ Ends /\ Tested /\ Asleep /\ InRing
  BY Zenon DEF IInv
<1>a. /\ pc[p] = "user" /\ open[p] /\ ~open'[p]
      /\ \A q \in Proc : q /= p => open'[q] = open[q]
      /\ UNCHANGED <<data, nread, nwrite, allocated, owner, n, i, ops, ch, killed>>
  BY Zenon DEF pipeclose, TypeOK, pipevars, callvars
<1>b. open' \in [Proc -> BOOLEAN]
  BY Zenon DEF pipeclose, TypeOK
<1>c. InRing'
  BY <1>a, Zenon DEF InRing, Count
<1>1. CASE ~Last(p)
  <2>a. /\ UNCHANGED <<readopen, writeopen, pc>>
        /\ \E q \in Proc : q /= p /\ open[q]
    BY <1>1, Roles, Zenon DEF pipeclose, Last, Proc
  <2>1. TypeOK'
    BY <1>a, <1>b, <2>a, Zenon DEF TypeOK
  <2>2. Calls'
    BY <1>a, <2>a, Zenon DEF Calls
  <2>3. Ends'
    BY <1>a, <2>a, Roles, Zenon DEF Ends
  <2>4. Tested'
    BY <1>a, <2>a, Zenon DEF Tested, Empty
  <2>5. Asleep'
    BY <1>a, <2>a, Roles, Zenon DEF Asleep, Full, Empty
  <2> QED BY <2>1, <2>2, <2>3, <2>4, <2>5, <1>c, Zenon DEF IInv
<1>2. CASE Last(p)
  <2>a. /\ owner = None
        /\ readopen' = (readopen /\ p \notin Reader)
        /\ writeopen' = (writeopen /\ p \notin Writer)
        /\ pc'[p] = IF ~readopen' /\ ~writeopen' THEN "free" ELSE "user"
        /\ pc' \in [Proc -> Pcs]
    BY <1>2, Zenon DEF pipeclose, Release, Awake, Sleepers, TypeOK, Pcs
  <2>b. \A q \in Proc : q /= p => pc'[q] = IF p \in Writer THEN IF pc[q] = "rsleep" THEN "rwake" ELSE pc[q]
                                         ELSE IF pc[q] = "wsleep" THEN "wwake" ELSE pc[q]
    BY <1>2, Zenon DEF pipeclose, Awake, Sleepers
  <2>c. \A q \in Proc : q /= p /\ (q \in Writer <=> p \in Writer) => ~open[q]
    BY <1>2, Roles, Zenon DEF Last
  <2>d. \A q \in Proc : pc[q] /= "free" /\ pc[q] \notin {"write", "room", "read", "empty", "copy"}
    BY <1>a, <2>a, Roles, Zenon DEF Ends, Calls
  <2>1. TypeOK'
    <3>1. readopen' \in BOOLEAN /\ writeopen' \in BOOLEAN
      BY <2>a, Zenon DEF TypeOK
    <3> QED BY <1>a, <1>b, <2>a, <3>1, Zenon DEF TypeOK
  <2>2. Calls'
    <3> SUFFICES ASSUME NEW q \in Proc
                 PROVE  /\ owner' = q <=> pc'[q] \in {"write", "room", "read", "empty", "copy"}
                        /\ pc'[q] \in {"write", "room", "wsleep", "wwake"} => q \in Writer
                        /\ pc'[q] \in {"read", "empty", "rsleep", "rwake", "copy"} => q \in Reader
                        /\ pc'[q] \notin {"user", "free"} => open'[q]
      BY Zenon DEF Calls
    <3>1. CASE q = p
      BY <1>a, <2>a, <3>1, Roles, Zenon
    <3>2. CASE q /= p
      <4>1. pc'[q] = pc[q] \/ (pc[q] = "rsleep" /\ pc'[q] = "rwake") \/ (pc[q] = "wsleep" /\ pc'[q] = "wwake")
        BY <2>b, <3>2, Zenon
      <4> QED BY <1>a, <3>2, <4>1, Zenon DEF Calls
    <3> QED BY <3>1, <3>2, Zenon
  <2>3. Ends'
    <3>1. /\ \A q \in Reader : open'[q] => readopen'
          /\ \A q \in Writer : open'[q] => writeopen'
      BY <1>a, <2>a, <2>c, Roles, Zenon DEF Ends
    <3>2. ~allocated' => \A q \in Proc : pc'[q] = "user" /\ ~open'[q]
      BY <1>a, Zenon DEF Ends
    <3>3. \A q \in Proc : pc'[q] = "free" => q = p
      BY <2>b, <2>d, Zenon
    <3>4. ASSUME pc'[p] = "free", NEW q \in Proc \ {p}
          PROVE  pc'[q] = "user" /\ ~open'[q]
      <4>1. ~open[q]
        BY <1>a, <2>a, <2>c, <3>1, <3>4, Roles, Zenon
      <4>2. pc[q] = "user"
        BY <2>d, <4>1, Zenon DEF Calls
      <4> QED BY <1>a, <2>b, <4>1, <4>2, Zenon
    <3> QED BY <1>a, <3>1, <3>2, <3>3, <3>4, Zenon DEF Ends
  <2>4. Tested'
    BY <1>a, <2>a, <2>b, <2>d, Zenon DEF Tested
  <2>5. Asleep'
    <3>1. \A q \in Writer : pc'[q] /= "wsleep" \/ (pc[q] = "wsleep" /\ UNCHANGED readopen)
      BY <1>a, <2>a, <2>b, <2>c, Roles, ZenonT(30) DEF Calls
    <3>2. \A q \in Reader : pc'[q] /= "rsleep" \/ (pc[q] = "rsleep" /\ UNCHANGED writeopen)
      BY <1>a, <2>a, <2>b, <2>c, Roles, ZenonT(30) DEF Calls
    <3>3. \A q \in Writer : pc'[q] = "wsleep" => readopen' /\ Full'
      BY <1>a, <2>d, <3>1, Roles DEF Asleep, Full
    <3>4. \A q \in Reader : pc'[q] = "rsleep" => writeopen' /\ (Empty' \/ \E w \in Writer : killed'[w])
      BY <1>a, <2>a, <3>2, Roles, Zenon DEF Asleep, Empty
    <3> QED BY <3>3, <3>4, Zenon DEF Asleep
  <2> QED BY <2>1, <2>2, <2>3, <2>4, <2>5, <1>c, Zenon DEF IInv
<1> QED BY <1>1, <1>2, Zenon

LEMMA StutterIInv ==
  ASSUME IInv, UNCHANGED vars
  PROVE  IInv'
BY Zenon
   DEF IInv, TypeOK, Calls, Ends, Tested, Asleep, InRing, Count, Full, Empty, vars, pipevars,
       endvars, callvars

LEMMA InitIInv == Init => IInv
<1> SUFFICES ASSUME Init PROVE IInv
  OBVIOUS
<1>1. ch \in Byte
  BY PipeAssumption, Zenon DEF Init
<1>2. 0 \in 0..Wrap - 1 /\ 0 \in 0..MaxOps
  BY WrapFacts, PipeAssumption
<1>3. TypeOK
  BY <1>1, <1>2 DEF Init, TypeOK, Pcs
<1>4. Calls
  BY Roles, Zenon DEF Init, Calls
<1>5. Ends /\ Tested /\ Asleep
  BY Roles, Zenon DEF Init, Ends, Tested, Asleep
<1>6. InRing
  <2>1. Count = 0
    BY <1>2, Counters DEF Init, Count
  <2> QED BY <2>1, PipeAssumption DEF InRing
<1> QED BY <1>3, <1>4, <1>5, <1>6, Zenon DEF IInv

LEMMA NextIInv == IInv /\ [Next]_vars => IInv'
<1> SUFFICES ASSUME IInv, [Next]_vars PROVE IInv'
  OBVIOUS
<1>1. CASE UNCHANGED vars
  BY <1>1, StutterIInv, Zenon
<1>2. CASE Terminated
  BY <1>2, StutterIInv, Zenon DEF Terminated
<1>3. ASSUME NEW p \in Proc, NEW k \in WriteLen, pipewrite(p, k) PROVE IInv'
  BY <1>3, Enter_Keeps, PipeAssumption, Zenon DEF pipewrite
<1>4. ASSUME NEW p \in Proc, NEW k \in ReadLen, piperead(p, k) PROVE IInv'
  BY <1>4, Enter_Keeps, PipeAssumption, Zenon DEF piperead
<1>5. ASSUME NEW p \in Proc, read_fault(p) \/ kill(p) PROVE IInv'
  BY <1>5, read_fault_Keeps, kill_Keeps, Zenon
<1>6. ASSUME NEW p \in Proc, Step(p) PROVE IInv'
  <2>1. CASE write_wake(p) \/ read_wake(p)
    BY <2>1, Reacquire_Keeps, Zenon DEF write_wake, read_wake
  <2>2. ASSUME NEW b \in Byte, write_byte(p, b) PROVE IInv'
    BY <2>2, write_byte_Keeps, Zenon
  <2>3. CASE write_test(p) \/ write_full(p) \/ write_done(p)
    BY <2>3, write_test_Keeps, write_full_Keeps, write_done_Keeps, Zenon
  <2>4. CASE read_test(p) \/ read_sleep(p) \/ read_byte(p) \/ read_done(p)
    BY <2>4, read_test_Keeps, read_sleep_Keeps, read_byte_Keeps, read_done_Keeps, Zenon
  <2>5. CASE pipeclose(p) \/ kfree(p)
    BY <2>5, pipeclose_Keeps, kfree_Keeps, Zenon
  <2> QED BY <1>6, <2>1, <2>2, <2>3, <2>4, <2>5, Zenon DEF Step
<1> QED BY <1>1, <1>2, <1>3, <1>4, <1>5, <1>6, Zenon DEF Next

\* The inductive invariant of pipe.c's calls holds in every state.
THEOREM PipeInvariant == Spec => []IInv
BY InitIInv, NextIInv, PTL DEF Spec

\* Whatever the number of processes at the two ends, no call is in the page of
\* the pipe after pipeclose has freed it (pipe.c:68-73), no call moves more than
\* it was asked for, and nobody sleeps on what has already happened.
THEOREM PipeCallsSafe == Spec => []CallsSafe
<1>1. IInv => CallsSafe
  <2> SUFFICES ASSUME IInv PROVE CallsSafe
    OBVIOUS
  <2> TypeOK /\ Calls /\ Ends /\ Tested /\ Asleep
    BY Zenon DEF IInv
  <2>1. NoUseAfterFree
    BY Zenon DEF NoUseAfterFree, Ends, TypeOK
  <2>2. SleepersWoken
    BY Roles, Zenon DEF SleepersWoken, Asleep
  <2> QED BY <2>1, <2>2, Zenon DEF CallsSafe
<1> QED BY <1>1, PipeInvariant, PTL

\* piperead reports the end of the file only when the pipe has no writer
\* (pipe.c:109-118).
THEOREM PipeEofAtEnd == Spec => EofAtEnd
<1>1. IInv => \A p \in Reader : read_done(p) /\ i[p] = 0 /\ n[p] > 0 => ~writeopen
  <2> SUFFICES ASSUME IInv, NEW p \in Reader, read_done(p), i[p] = 0, n[p] > 0
               PROVE  ~writeopen
    OBVIOUS
  <2>1. pc[p] = "copy" /\ Empty
    <3>1. 0 /= n[p]
      BY Roles DEF IInv, TypeOK
    <3> QED BY <3>1, Zenon DEF read_done, At
  <2> QED BY <2>1, Roles, Zenon DEF IInv, Tested
<1>2. IInv => [\A p \in Reader : read_done(p) /\ i[p] = 0 /\ n[p] > 0 => ~writeopen]_vars
  BY <1>1, Zenon
<1> QED BY <1>2, PipeInvariant, PTL DEF EofAtEnd
----------------------------------------------------------------------------
(* The ring: what % does to indices that pass the end of the ring, and of  *)
(* the counters.                                                           *)

LEMMA Division ==
  ASSUME NEW P \in Nat \ {0}, NEW a \in Nat
  PROVE  /\ a % P \in 0..P - 1
         /\ \E d \in Int : a = d * P + (a % P)
<1>1. a % P \in 0..P - 1 /\ a \div P \in Int
  OBVIOUS
<1>2. a = (a \div P) * P + (a % P)
  OBVIOUS
<1> QED BY <1>1, <1>2, Zenon

\* No multiple of P but 0 is nearer to 0 than P.
LEMMA SmallMultiple ==
  ASSUME NEW P \in Nat \ {0}, NEW q \in Int, NEW r \in Int, q * P = r, -P < r, r < P
  PROVE  q = 0 /\ r = 0
<1>1. q = 0
  OBVIOUS
<1> QED BY <1>1

\* Places less than a ring apart are in different cells.
LEMMA OtherCell ==
  ASSUME NEW P \in Nat \ {0}, NEW a \in Nat, NEW b \in Nat, a % P = b % P, a - b < P, b <= a
  PROVE  a = b
<1> DEFINE m == a % P
<1>1. PICK d \in Int : a = d * P + m
  BY Division, Zenon
<1>2. PICK e \in Int : b = e * P + m
  BY Division, Zenon
<1>3. m \in 0..P - 1
  BY Division, Zenon
<1> HIDE DEF m
<1>4. /\ (d - e) * P = a - b
      /\ d - e \in Int /\ a - b \in Int /\ -P < a - b /\ a - b < P
  BY <1>1, <1>2, <1>3
<1>5. a - b = 0
  BY <1>4, SmallMultiple, Zenon
<1> QED BY <1>5

\* A whole number of rings further on is the same cell.
LEMMA SameCell ==
  ASSUME NEW P \in Nat \ {0}, NEW L \in Nat, NEW a \in Nat
  PROVE  (a + L * P) % P = a % P
<1> DEFINE b == a + L * P
           m == a % P
           r == b % P
<1>1. PICK d \in Int : a = d * P + m
  BY Division, Zenon
<1>2. b \in Nat
  OBVIOUS
<1>3. PICK e \in Int : b = e * P + r
  BY <1>2, Division, Zenon
<1>4. m \in 0..P - 1 /\ r \in 0..P - 1
  BY <1>2, Division, Zenon
<1>5. a + L * P = e * P + r
  BY <1>3, Zenon
<1> HIDE DEF b, m, r
<1>6. /\ (d + L - e) * P = r - m
      /\ d + L - e \in Int /\ r - m \in Int /\ -P < r - m /\ r - m < P
  BY <1>1, <1>4, <1>5
<1>7. r - m = 0
  BY <1>6, SmallMultiple, Zenon
<1>8. r = m
  BY <1>4, <1>7
<1> QED BY <1>8, Zenon DEF b, m, r
----------------------------------------------------------------------------
(* The ring is a first-in first-out queue. *)

\* Append and Tail, place by place.
LEMMA IsAppend ==
  ASSUME NEW S, NEW q \in Seq(S), NEW b \in S, NEW f \in [1..Len(q) + 1 -> S],
         \A k \in 1..Len(q) : f[k] = q[k], f[Len(q) + 1] = b
  PROVE  f = Append(q, b)
<1> DEFINE g == Append(q, b)
<1>1. g \in Seq(S) /\ Len(g) = Len(q) + 1 /\ Len(q) \in Nat
  OBVIOUS
<1>2. \A k \in 1..Len(q) + 1 : g[k] = IF k <= Len(q) THEN q[k] ELSE b
  OBVIOUS
<1>3. \A k \in 1..Len(q) + 1 : f[k] = g[k]
  <2> SUFFICES ASSUME NEW k \in 1..Len(q) + 1 PROVE f[k] = g[k]
    OBVIOUS
  <2>1. CASE k <= Len(q)
    <3>1. k \in 1..Len(q)
      BY <1>1, <2>1
    <3> QED BY <1>2, <2>1, <3>1, Zenon
  <2>2. CASE ~(k <= Len(q))
    <3>1. k = Len(q) + 1
      BY <1>1, <2>2
    <3> QED BY <1>2, <2>2, <3>1, Zenon
  <2> QED BY <2>1, <2>2, Zenon
<1> HIDE DEF g
<1>4. g \in [1..Len(g) -> S]
  BY <1>1
<1>5. f = g
  BY <1>1, <1>4, <1>3
<1> QED BY <1>5, Zenon DEF g

LEMMA IsTail ==
  ASSUME NEW S, NEW q \in Seq(S), q /= <<>>, NEW f \in [1..Len(q) - 1 -> S],
         \A k \in 1..Len(q) - 1 : f[k] = q[k + 1]
  PROVE  f = Tail(q)
<1> DEFINE g == Tail(q)
<1>1. g \in Seq(S) /\ Len(g) = Len(q) - 1 /\ Len(q) \in Nat
  OBVIOUS
<1>2. \A k \in 1..Len(q) - 1 : g[k] = q[k + 1]
  OBVIOUS
<1> HIDE DEF g
<1>3. g \in [1..Len(g) -> S]
  BY <1>1
<1>4. f = g
  BY <1>1, <1>3, <1>2
<1> QED BY <1>4, Zenon DEF g

LEMMA QueueSeq ==
  ASSUME IInv
  PROVE  /\ Count \in Nat /\ Count <= PIPESIZE
         /\ Queue \in Seq(Byte) /\ Len(Queue) = Count
         /\ \A k \in 1..Count : Queue[k] = data[(nread + k - 1) % PIPESIZE]
<1>1. PIPESIZE \in Nat \ {0} /\ Wrap \in Nat \ {0}
  BY WrapSize, PipeAssumption, Zenon
<1>2. /\ nread \in 0..Wrap - 1 /\ nwrite \in 0..Wrap - 1
      /\ data \in [0..PIPESIZE - 1 -> Byte]
  BY Zenon DEF IInv, TypeOK
<1>3. Count \in Nat /\ Count <= PIPESIZE
  <2>1. Count = IF nread <= nwrite THEN nwrite - nread ELSE nwrite + Wrap - nread
    BY <1>2, Counters, Zenon DEF Count
  <2> QED BY <1>1, <1>2, <2>1 DEF IInv, InRing
<1>4. ASSUME NEW k \in 1..Count
      PROVE  data[(nread + k - 1) % PIPESIZE] \in Byte
  <2>1. nread + k - 1 \in Nat
    BY <1>1, <1>2, <1>3
  <2>2. (nread + k - 1) % PIPESIZE \in 0..PIPESIZE - 1
    BY <1>1, <2>1, Division, Zenon
  <2> QED BY <1>2, <2>2, Zenon
<1>5. Queue \in [1..Count -> Byte]
  BY <1>4, Zenon DEF Queue
<1>6. Queue \in Seq(Byte) /\ Len(Queue) = Count
  <2> DEFINE q == Queue
             c == Count
  <2>1. q \in [1..c -> Byte] /\ c \in Nat
    BY <1>3, <1>5, Zenon
  <2> HIDE DEF q, c
  <2>2. q \in Seq(Byte) /\ Len(q) = c
    BY <2>1
  <2> QED BY <2>2, Zenon DEF q, c
<1>7. \A k \in 1..Count : Queue[k] = data[(nread + k - 1) % PIPESIZE]
  BY Zenon DEF Queue
<1> QED BY <1>3, <1>6, <1>7, Zenon

\* write_byte appends to the queue: the cell nwrite names is the one after the
\* last, and none of the cells in use.
LEMMA PutAppends ==
  ASSUME IInv, NEW p \in Proc, NEW b \in Byte, write_byte(p, b)
  PROVE  C!Put(b)
<1>1. PIPESIZE \in Nat \ {0} /\ Wrap \in Nat \ {0} /\ Laps \in Nat
  BY WrapSize, PipeAssumption, Zenon
<1>2. /\ nread \in 0..Wrap - 1 /\ nwrite \in 0..Wrap - 1
      /\ data \in [0..PIPESIZE - 1 -> Byte]
  BY Zenon DEF IInv, TypeOK
<1>3. /\ pc[p] = "room" /\ ~Full /\ nread' = nread /\ nwrite' = Plus1(nwrite)
      /\ data' = [data EXCEPT ![nwrite % PIPESIZE] = b]
      /\ UNCHANGED <<readopen, writeopen, ch>>
  BY Zenon DEF write_byte, At, endvars
<1>4. Count \in Nat /\ Count < PIPESIZE /\ Count' = Count + 1
  BY <1>3, CountPut, Zenon DEF IInv
<1>5. (nread + Count) % PIPESIZE = nwrite % PIPESIZE
  <2>1. Count = IF nread <= nwrite THEN nwrite - nread ELSE nwrite + Wrap - nread
    BY <1>2, Counters, Zenon DEF Count
  <2>2. nread + Count = nwrite \/ nread + Count = nwrite + Wrap
    BY <1>1, <1>2, <2>1
  <2>3. nwrite \in Nat
    BY <1>1, <1>2
  <2>4. (nwrite + Wrap) % PIPESIZE = nwrite % PIPESIZE
    BY <1>1, <2>3, SameCell, Zenon DEF Wrap
  <2> QED BY <2>2, <2>4, Zenon
<1>6. ASSUME NEW k \in 1..Count
      PROVE  data'[(nread + k - 1) % PIPESIZE] = data[(nread + k - 1) % PIPESIZE]
  <2> DEFINE x == nread + k - 1
             y == nread + Count
  <2>1. x \in Nat /\ y \in Nat /\ y - x < PIPESIZE /\ x <= y /\ x /= y
    BY <1>1, <1>2, <1>4
  <2>2. y % PIPESIZE = nwrite % PIPESIZE
    BY <1>5, Zenon
  <2> HIDE DEF x, y
  <2>3. y % PIPESIZE /= x % PIPESIZE /\ x % PIPESIZE \in 0..PIPESIZE - 1
    BY <1>1, <2>1, OtherCell, Division, Zenon
  <2>4. data'[x % PIPESIZE] = data[x % PIPESIZE]
    BY <1>2, <1>3, <2>2, <2>3, Zenon
  <2> QED BY <2>4, Zenon DEF x
<1>7. data'[(nread + Count) % PIPESIZE] = b
  <2>1. nwrite % PIPESIZE \in 0..PIPESIZE - 1
    BY <1>1, <1>2, WrapFacts, Zenon
  <2> QED BY <1>2, <1>3, <1>5, <2>1, Zenon
<1>8. Queue' = Append(Queue, b)
  <2>1. /\ Queue \in Seq(Byte) /\ Len(Queue) = Count
        /\ \A k \in 1..Count : Queue[k] = data[(nread + k - 1) % PIPESIZE]
    BY QueueSeq, Zenon
  <2>2. Queue' = [k \in 1..Count + 1 |-> data'[(nread + k - 1) % PIPESIZE]]
    BY <1>3, <1>4 DEF Queue
  <2> DEFINE f == [k \in 1..Count + 1 |-> data'[(nread + k - 1) % PIPESIZE]]
  <2>3. ASSUME NEW k \in 1..Count PROVE f[k] = Queue[k]
    <3>1. k \in 1..Count + 1
      BY <1>4
    <3> QED BY <1>6, <2>1, <3>1, Zenon
  <2>4. f[Count + 1] = b
    <3>1. Count + 1 \in 1..Count + 1 /\ nread + (Count + 1) - 1 = nread + Count
      BY <1>1, <1>2, <1>4
    <3> QED BY <1>7, <3>1, Zenon
  <2>5. f \in [1..Count + 1 -> Byte]
    <3> SUFFICES ASSUME NEW k \in 1..Count + 1 PROVE f[k] \in Byte
      BY Zenon
    <3>1. CASE k \in 1..Count
      <4>1. Queue[k] \in Byte
        BY <2>1, <3>1
      <4> QED BY <2>3, <3>1, <4>1, Zenon
    <3>2. CASE k \notin 1..Count
      <4>1. k = Count + 1
        BY <1>4, <3>2
      <4> QED BY <2>4, <4>1, Zenon
    <3> QED BY <3>1, <3>2, Zenon
  <2>6. Queue' = f
    BY <2>2, Zenon
  <2> HIDE DEF f
  <2>7. f = Append(Queue, b)
    BY <2>1, <2>3, <2>4, <2>5, IsAppend, Zenon
  <2> QED BY <2>6, <2>7, Zenon
<1>9. readopen /\ writeopen
  BY <1>3, Roles, Zenon DEF IInv, Tested, Calls, Ends
<1>10. Len(Queue) < PIPESIZE
  BY <1>4, QueueSeq, Zenon
<1> QED BY <1>3, <1>8, <1>9, <1>10, Zenon DEF C!Put

\* A byte that leaves the ring is the head of the queue.
LEMMA TakeHead ==
  ASSUME IInv, ~Empty, nread' = Plus1(nread), UNCHANGED <<data, nwrite>>
  PROVE  /\ Queue /= <<>> /\ Queue' = Tail(Queue)
         /\ data[nread % PIPESIZE] = Head(Queue)
<1>1. PIPESIZE \in Nat \ {0} /\ Wrap \in Nat \ {0} /\ Laps \in Nat
  BY WrapSize, PipeAssumption, Zenon
<1>2. nread \in 0..Wrap - 1 /\ nwrite \in 0..Wrap - 1
  BY Zenon DEF IInv, TypeOK
<1>3. Count \in Nat \ {0} /\ Count' = Count - 1
  BY CountTake, Zenon DEF IInv
<1>4. /\ Queue \in Seq(Byte) /\ Len(Queue) = Count
      /\ \A k \in 1..Count : Queue[k] = data[(nread + k - 1) % PIPESIZE]
  BY QueueSeq, Zenon
<1>5. ASSUME NEW k \in 1..Count - 1
      PROVE  (nread' + k - 1) % PIPESIZE = (nread + k) % PIPESIZE
  <2>1. nread' = IF nread + 1 < Wrap THEN nread + 1 ELSE 0
    BY <1>2, Counters, Zenon
  <2>2. CASE nread + 1 < Wrap
    <3>1. nread' + k - 1 = nread + k
      BY <1>1, <1>2, <1>3, <2>1, <2>2
    <3> QED BY <3>1, Zenon
  <2>3. CASE ~(nread + 1 < Wrap)
    <3>1. nread' + k - 1 = k - 1 /\ nread + k = (k - 1) + Wrap /\ k - 1 \in Nat
      BY <1>1, <1>2, <1>3, <2>1, <2>3
    <3>2. ((k - 1) + Wrap) % PIPESIZE = (k - 1) % PIPESIZE
      BY <1>1, <3>1, SameCell, Zenon DEF Wrap
    <3> QED BY <3>1, <3>2, Zenon
  <2> QED BY <2>2, <2>3, Zenon
<1>6. Queue' = Tail(Queue)
  <2>1. Queue' = [k \in 1..Count - 1 |-> data[(nread' + k - 1) % PIPESIZE]]
    BY <1>3, Zenon DEF Queue
  <2> DEFINE f == [k \in 1..Count - 1 |-> data[(nread' + k - 1) % PIPESIZE]]
  <2>2. ASSUME NEW k \in 1..Count - 1 PROVE f[k] = Queue[k + 1] /\ f[k] \in Byte
    <3>1. k + 1 \in 1..Count /\ nread + (k + 1) - 1 = nread + k
      BY <1>1, <1>2, <1>3
    <3>2. Queue[k + 1] = data[(nread + k) % PIPESIZE]
      BY <1>4, <3>1, Zenon
    <3>3. Queue[k + 1] \in Byte
      BY <1>4, <3>1
    <3> QED BY <1>5, <3>2, <3>3, Zenon
  <2>3. f \in [1..Count - 1 -> Byte]
    BY <2>2, Zenon
  <2>4. Queue' = f
    BY <2>1, Zenon
  <2> HIDE DEF f
  <2>5. Queue /= <<>>
    BY <1>3, <1>4, Zenon
  <2>6. f = Tail(Queue)
    BY <1>4, <2>2, <2>3, <2>5, IsTail, Zenon
  <2> QED BY <2>4, <2>6, Zenon
<1>7. Queue /= <<>> /\ Head(Queue) = Queue[1]
  BY <1>3, <1>4
<1>8. Queue[1] = data[nread % PIPESIZE]
  <2>1. 1 \in 1..Count /\ nread + 1 - 1 = nread
    BY <1>1, <1>2, <1>3
  <2> QED BY <1>4, <2>1, Zenon
<1> QED BY <1>6, <1>7, <1>8, Zenon

\* The steps of pipeclose that close an end are those of the channel; the others
\* leave it alone.
LEMMA CloseStops ==
  ASSUME IInv, NEW p \in Proc, pipeclose(p)
  PROVE  C!StopReading \/ C!StopWriting \/ UNCHANGED C!vars
<1>1. UNCHANGED <<data, nread, nwrite, ch>> /\ open[p]
  BY Zenon DEF pipeclose, pipevars
<1>2. UNCHANGED Queue
  BY <1>1, Zenon DEF Queue, Count
<1>3. CASE ~Last(p)
  <2>1. UNCHANGED <<readopen, writeopen>>
    BY <1>3, Zenon DEF pipeclose
  <2> QED BY <1>1, <1>2, <2>1, Zenon DEF C!vars
<1>4. CASE Last(p) /\ p \in Writer
  <2>1. writeopen /\ writeopen' = FALSE /\ readopen' = readopen
    BY <1>1, <1>4, Roles, Zenon DEF pipeclose, IInv, Ends, TypeOK
  <2> QED BY <1>1, <1>2, <2>1, Zenon DEF C!StopWriting
<1>5. CASE Last(p) /\ p \in Reader
  <2>1. readopen /\ readopen' = FALSE /\ writeopen' = writeopen
    BY <1>1, <1>5, Roles, Zenon DEF pipeclose, IInv, Ends, TypeOK
  <2> QED BY <1>1, <1>2, <2>1, Zenon DEF C!StopReading
<1> QED BY <1>3, <1>4, <1>5, Roles, Zenon

\* Every step of the pipe is a step of the channel or leaves it alone.
LEMMA StepChannel ==
  ASSUME IInv, [Next]_vars
  PROVE  [C!Next]_(C!vars)
<1>1. ASSUME UNCHANGED <<data, nread, nwrite, ch, readopen, writeopen>>
      PROVE  UNCHANGED C!vars
  <2>1. UNCHANGED Queue
    BY <1>1, Zenon DEF Queue, Count
  <2> QED BY <1>1, <2>1, Zenon DEF C!vars
<1>2. CASE UNCHANGED vars \/ Terminated
  BY <1>1, <1>2, Zenon DEF Terminated, vars, pipevars, endvars
<1>3. ASSUME NEW p \in Proc, \/ \E k \in WriteLen : pipewrite(p, k)
                             \/ \E k \in ReadLen : piperead(p, k)
                             \/ kill(p) \/ kfree(p) \/ write_wake(p) \/ read_wake(p)
      PROVE  UNCHANGED C!vars
  BY <1>1, <1>3, Zenon
     DEF pipewrite, piperead, Enter, kill, kfree, write_wake, read_wake, Reacquire,
                    pipevars, endvars
<1>4. ASSUME NEW p \in Proc, \/ write_test(p) \/ write_full(p) \/ write_done(p)
                             \/ read_test(p) \/ read_sleep(p) \/ read_done(p)
      PROVE  UNCHANGED C!vars
  BY <1>1, <1>4, Zenon
     DEF write_test, write_full, write_done, read_test, read_sleep, read_done,
                    pipevars, endvars
<1>5. ASSUME NEW p \in Proc, read_byte(p) PROVE C!Take
  <2>1. /\ pc[p] = "copy" /\ ~Empty /\ nread' = Plus1(nread) /\ ch' = data[nread % PIPESIZE]
        /\ UNCHANGED <<data, nwrite, readopen, writeopen>>
    BY <1>5, Zenon DEF read_byte, At, endvars
  <2>2. readopen
    BY <2>1, Zenon DEF IInv, Calls, Ends
  <2> QED BY <2>1, <2>2, TakeHead, Zenon DEF C!Take
<1>6. ASSUME NEW p \in Proc, read_fault(p) PROVE C!Lose
  <2>1. /\ pc[p] = "copy" /\ ~Empty /\ nread' = Plus1(nread)
        /\ UNCHANGED <<data, nwrite, readopen, writeopen, ch>>
    BY <1>6, Zenon DEF read_fault, At, endvars
  <2>2. readopen
    BY <2>1, Zenon DEF IInv, Calls, Ends
  <2> QED BY <2>1, <2>2, TakeHead, Zenon DEF C!Lose
<1> QED BY <1>2, <1>3, <1>4, <1>5, <1>6, PutAppends, CloseStops, Zenon
        DEF Next, Step, C!Next

\* The ring of pipe.c, whose counters wrap, and the loops of pipewrite and
\* piperead implement a bounded first-in first-out queue: whatever the number
\* of processes, the size of the ring and the interleaving of calls, kills and
\* closes, no byte is lost, doubled or reordered (pipe.c:76-130).
THEOREM PipeImplementsChannel == Spec => ImplementsChannel
<1>1. Init => C!Init
  <2> SUFFICES ASSUME Init PROVE C!Init
    OBVIOUS
  <2>1. Queue = <<>>
    <3>1. Count = 0
      BY WrapSize, Counters DEF Init, Count
    <3> QED BY <3>1 DEF Queue
  <2>2. ch \in Byte
    BY PipeAssumption, Zenon DEF Init
  <2> QED BY <2>1, <2>2, Zenon DEF Init, C!Init
<1>2. IInv /\ [Next]_vars => [C!Next]_(C!vars)
  BY StepChannel, Zenon
<1> QED BY <1>1, <1>2, PipeInvariant, PTL DEF Spec, ImplementsChannel, C!Spec
============================================================================
