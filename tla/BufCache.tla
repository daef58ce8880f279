------------------------------ MODULE BufCache ------------------------------
(***************************************************************************)
(* kernel/bio.c, the cache of disk blocks, with the sleep-locks of its     *)
(* buffers (kernel/sleeplock.c).  A client gets a block, changes it or     *)
(* not, makes the change safe (bwrite, or the bpin of log_write) and lets  *)
(* the block go, as fs.c and log.c do.  A client is one such use: a        *)
(* process that has two buffers at a time (install_trans, bmap around      *)
(* balloc) is two of them.                                                 *)
(***************************************************************************)
EXTENDS Naturals, FiniteSets

CONSTANTS User,             \* the clients
          Block,
          NBUF,
          Value,            \* contents of a block
          NoBlock, NoUser,
          MaxPins           \* bound: blocks in the log at a time

ASSUME BufAssumption == /\ NBUF \in Nat \ {0} /\ MaxPins \in Nat
                        /\ IsFiniteSet(User)
                        /\ NoBlock \notin Block /\ NoUser \notin User

Buf == 1..NBUF

VARIABLES blockno, valid, refcnt, data,  \* struct buf
          locked,                        \* the holder of b->lock, or NoUser
          lru,                           \* bcache.head, most recently used first
          disk,
          pc, want, buf,                 \* of each user
          pinned,                        \* blocks that log_write has pinned
          latest,                        \* what was last written to each block
          panicked

bufvars == <<blockno, valid, refcnt, data, lru>>
uservars == <<pc, want, buf>>
vars == <<bufvars, locked, disk, uservars, pinned, latest, panicked>>

Init == /\ blockno = [b \in Buf |-> NoBlock]
        /\ valid = [b \in Buf |-> FALSE]
        /\ refcnt = [b \in Buf |-> 0]
        /\ \E v \in Value : data = [b \in Buf |-> v]
        /\ locked = [b \in Buf |-> NoUser]
        /\ lru = [k \in Buf |-> NBUF + 1 - k]
        /\ disk \in [Block -> Value]
        /\ pc = [p \in User |-> "idle"]
        /\ want = [p \in User |-> NoBlock]
        /\ buf = [p \in User |-> 1]
        /\ pinned = {}
        /\ latest = disk
        /\ panicked = FALSE

At(p, l) == ~panicked /\ pc[p] = l
Goto(p, l) == pc' = [pc EXCEPT ![p] = l]
----------------------------------------------------------------------------
(* bread. *)

Cached(k) == {b \in Buf : blockno[b] = k}

Unused == {b \in Buf : refcnt[b] = 0}

\* The least recently used of a set of buffers.
LRU(S) == lru[CHOOSE k \in 1..NBUF : lru[k] \in S /\ \A j \in k + 1..NBUF : lru[j] \notin S]

\* A recycled buffer is not valid.
StillValid_Keep(b, k) == valid[b]
StillValid(b, k) == valid[b] /\ blockno[b] = k

\* bget, under bcache.lock.
bget(p, k) ==
  LET hit == Cached(k)
      b == IF hit /= {} THEN CHOOSE x \in hit : TRUE ELSE LRU(Unused)
  IN
  /\ At(p, "idle")
  /\ want' = [want EXCEPT ![p] = k]
  /\ IF hit = {} /\ Unused = {}
     THEN panicked' = TRUE /\ UNCHANGED <<bufvars, pc, buf>>
     ELSE /\ blockno' = [blockno EXCEPT ![b] = k]
          /\ valid' = [valid EXCEPT ![b] = StillValid(b, k)]
          /\ refcnt' = [refcnt EXCEPT ![b] = @ + 1]
          /\ buf' = [buf EXCEPT ![p] = b]
          /\ Goto(p, "lock")
          /\ UNCHANGED <<data, lru, panicked>>
  /\ UNCHANGED <<locked, disk, pinned, latest>>

Taken(p) == locked[buf[p]] /= NoUser

\* acquiresleep: sleep while the lock is taken, then take it.
acquiresleep(p) ==
  /\ pc[p] \in {"lock", "woken"} /\ ~panicked
  /\ IF Taken(p)
     THEN Goto(p, "asleep") /\ UNCHANGED locked
     ELSE locked' = [locked EXCEPT ![buf[p]] = p] /\ Goto(p, "read")
  /\ UNCHANGED <<bufvars, disk, want, buf, pinned, latest, panicked>>

\* The rest of bread: a read of the disk if the buffer is not valid.
bread(p) ==
  LET b == buf[p] IN
  /\ At(p, "read")
  /\ IF valid[b] THEN UNCHANGED <<data, valid>>
     ELSE /\ data' = [data EXCEPT ![b] = disk[blockno[b]]]
          /\ valid' = [valid EXCEPT ![b] = TRUE]
  /\ Goto(p, "use")
  /\ UNCHANGED <<blockno, refcnt, lru, locked, disk, want, buf, pinned, latest, panicked>>
----------------------------------------------------------------------------
(* What the holder of a buffer does with it. *)

\* A change of the contents; bwrite or bpin follows before brelse.
Change(p, v) ==
  /\ At(p, "use")
  /\ data' = [data EXCEPT ![buf[p]] = v]
  /\ latest' = [latest EXCEPT ![want[p]] = v]
  /\ Goto(p, "changed")
  /\ UNCHANGED <<blockno, valid, refcnt, lru, locked, disk, want, buf, pinned, panicked>>

Written(b) == [disk EXCEPT ![blockno[b]] = data[b]]

\* bwrite; the log's install_trans follows it with bunpin.
bwrite(p, unpin) ==
  LET b == buf[p] IN
  /\ pc[p] \in {"use", "changed"} /\ ~panicked
  /\ unpin => want[p] \in pinned
  /\ panicked' = (locked[b] /= p)
  /\ disk' = Written(b)
  /\ refcnt' = [refcnt EXCEPT ![b] = IF unpin THEN @ - 1 ELSE @]
  /\ pinned' = IF unpin THEN pinned \ {want[p]} ELSE pinned
  /\ Goto(p, "done")
  /\ UNCHANGED <<blockno, valid, data, lru, locked, want, buf, latest>>

Pins_Again(p) == refcnt[buf[p]] + 1
Pins(p) == IF want[p] \in pinned THEN refcnt[buf[p]] ELSE refcnt[buf[p]] + 1

\* bpin for a block that is not in the log yet (log_write).
bpin(p) ==
  /\ At(p, "changed")
  /\ want[p] \in pinned \/ Cardinality(pinned) < MaxPins
  /\ refcnt' = [refcnt EXCEPT ![buf[p]] = Pins(p)]
  /\ pinned' = pinned \cup {want[p]}
  /\ Goto(p, "done")
  /\ UNCHANGED <<blockno, valid, data, lru, locked, disk, want, buf, latest, panicked>>
----------------------------------------------------------------------------
(* brelse. *)

Awake_Nobody(b) == pc
Awake(b) == [q \in User |-> IF pc[q] = "asleep" /\ buf[q] = b THEN "woken" ELSE pc[q]]

\* brelse's check and releasesleep.
releasesleep(p) ==
  LET b == buf[p] IN
  /\ pc[p] \in {"use", "done"} /\ ~panicked
  /\ panicked' = (locked[b] /= p)
  /\ locked' = [locked EXCEPT ![b] = NoUser]
  /\ pc' = [Awake(b) EXCEPT ![p] = "unref"]
  /\ UNCHANGED <<bufvars, disk, want, buf, pinned, latest>>

\* The list with b moved to its front.
MoveFirst(b) ==
  LET i == CHOOSE k \in Buf : lru[k] = b IN
  [k \in Buf |-> IF k = 1 THEN b ELSE IF k <= i THEN lru[k - 1] ELSE lru[k]]

\* The rest of brelse, under bcache.lock.
brelse(p) ==
  LET b == buf[p] IN
  /\ At(p, "unref")
  /\ refcnt' = [refcnt EXCEPT ![b] = @ - 1]
  /\ lru' = IF refcnt[b] = 1 THEN MoveFirst(b) ELSE lru
  /\ want' = [want EXCEPT ![p] = NoBlock]
  /\ buf' = [buf EXCEPT ![p] = 1]
  /\ Goto(p, "idle")
  /\ UNCHANGED <<blockno, valid, data, locked, disk, pinned, latest, panicked>>

\* panic does not return.
panic == panicked /\ UNCHANGED vars
----------------------------------------------------------------------------
Next == \/ panic
        \/ \E p \in User :
          \/ \E k \in Block : bget(p, k)
          \/ acquiresleep(p) \/ bread(p)
          \/ \E v \in Value : Change(p, v)
          \/ \E u \in BOOLEAN : bwrite(p, u)
          \/ bpin(p) \/ releasesleep(p) \/ brelse(p)

Spec == Init /\ [][Next]_vars
----------------------------------------------------------------------------
(* Properties. *)

Users(b) == {p \in User : pc[p] /= "idle" /\ buf[p] = b}

PCs == {"idle", "lock", "asleep", "woken", "read", "use", "changed", "done", "unref"}

\* The variables have their types, and the list has every buffer once.
TypeOK ==
  /\ blockno \in [Buf -> Block \cup {NoBlock}]
  /\ valid \in [Buf -> BOOLEAN]
  /\ refcnt \in [Buf -> Nat]
  /\ data \in [Buf -> Value]
  /\ locked \in [Buf -> User \cup {NoUser}]
  /\ lru \in [Buf -> Buf] /\ \A b \in Buf : \E k \in Buf : lru[k] = b
  /\ disk \in [Block -> Value] /\ latest \in [Block -> Value]
  /\ pc \in [User -> PCs]
  /\ want \in [User -> Block \cup {NoBlock}]
  /\ buf \in [User -> Buf]
  /\ pinned \subseteq Block
  /\ panicked \in BOOLEAN

Using(p) == pc[p] \in {"read", "use", "changed", "done"}

\* "Only one process at a time can use a buffer" (bio.c:14), and a block is in
\* at most one buffer: otherwise two processes would change it apart.
OneUser ==
  /\ \A b, c \in Buf : blockno[b] = blockno[c] /\ blockno[b] /= NoBlock => b = c
  /\ \A p, q \in User : p /= q /\ Using(p) /\ Using(q) => buf[p] /= buf[q]

\* The counts are exact: one for each client between bget and the end of
\* brelse, and one for a pin.  A count that is too low recycles a buffer in
\* use, one that is too high loses the buffer for good.
RefsExact ==
  \A b \in Buf : refcnt[b] = Cardinality(Users(b)) + IF blockno[b] \in pinned THEN 1 ELSE 0

\* bread returns "a locked buf with the contents of the indicated block"
\* (bio.c:91), the latest ones, however its buffer was recycled, pinned and
\* waited for in between; and no change is lost with its buffer: an unpinned
\* block that no client has is on disk as it was last written.
ReadsLatest ==
  /\ \A p \in User : pc[p] \in {"use", "changed", "done"} =>
       blockno[buf[p]] = want[p] /\ data[buf[p]] = latest[want[p]]
  /\ \A k \in Block :
       (k \notin pinned /\ \A p \in User : want[p] /= k) => disk[k] = latest[k]

\* A client sleeps for a buffer only while another one has it.
NoLostWakeup == \A p \in User : pc[p] = "asleep" => locked[buf[p]] \notin {NoUser, p}

\* bget panics for want of a buffer only when every one is in use or pinned: no
\* reference leaks; and bwrite and brelse, which panic without the lock, have it.
PanicOnlyFull == panicked => \A b \in Buf : Users(b) /= {} \/ blockno[b] \in pinned

\* A block has one buffer, a buffer one user, and its count is exact; the cache
\* stops only when it is full (OneUser, RefsExact, PanicOnlyFull).  The variables
\* keep their types.
BuffersExact == TypeOK /\ OneUser /\ RefsExact /\ PanicOnlyFull
----------------------------------------------------------------------------
(* The inductive invariant behind the properties. *)

\* The lock of a buffer is held by its user; a client between bget and the end
\* of brelse has the block it asked for in its buffer.
Held ==
  /\ \A p \in User, b \in Buf : locked[b] = p <=> Using(p) /\ buf[p] = b
  /\ \A p \in User : pc[p] /= "idle" => want[p] \in Block /\ blockno[buf[p]] = want[p]

\* A block is in at most one buffer, and a pinned one is in a valid buffer.
Placed ==
  /\ \A b, c \in Buf : blockno[b] = blockno[c] /\ blockno[b] /= NoBlock => b = c
  /\ \A k \in pinned : \E b \in Buf : blockno[b] = k /\ valid[b]
  /\ IsFiniteSet(pinned) /\ Cardinality(pinned) <= MaxPins

\* A valid buffer has the latest contents, and so has the disk but for a block
\* that is pinned or just changed.
Fresh ==
  /\ \A p \in User : pc[p] \in {"use", "changed", "done"} => valid[buf[p]]
  /\ \A b \in Buf : valid[b] /\ blockno[b] /= NoBlock => data[b] = latest[blockno[b]]
  /\ \A k \in Block : \/ disk[k] = latest[k] \/ k \in pinned
                      \/ \E p \in User : pc[p] = "changed" /\ want[p] = k

IInv == TypeOK /\ Held /\ Placed /\ Fresh /\ RefsExact /\ NoLostWakeup
============================================================================
