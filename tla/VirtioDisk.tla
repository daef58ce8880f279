----------------------------- MODULE VirtioDisk -----------------------------
(***************************************************************************)
(* The driver of the virtio disk, kernel/virtio_disk.c: a set of           *)
(* descriptors, the ring in which the driver offers chains of three of     *)
(* them, the ring in which the device returns the chains it has finished,  *)
(* in any order, and the interrupt.                                        *)
(*                                                                         *)
(* The device runs between any two memory accesses of the driver that it   *)
(* can tell apart.  The driver's own steps are between two points where it *)
(* lets go of vdisk_lock, or where the order of its writes matters.        *)
(*                                                                         *)
(* An entry of a ring is forgotten (None) once its reader has taken it:    *)
(* the code leaves the old head there, and that nobody takes an entry a    *)
(* second time is part of the properties.                                  *)
(***************************************************************************)
EXTENDS Naturals, FiniteSets, Sequences

CONSTANTS Proc,              \* processes, each with a locked buffer of its own
          NUM,               \* descriptors, and entries of each ring
          Laps,              \* the ring indices wrap at Laps * NUM, for 2^16
          Intr, None

ASSUME DiskAssumption == /\ NUM \in Nat /\ NUM >= 3
                         /\ Laps \in Nat \ {0}
                         /\ Intr \notin Proc /\ None \notin Proc \cup {Intr}
                         /\ None \notin 0..NUM - 1

Desc == 0..NUM - 1
Wrap == Laps * NUM

VARIABLES free,              \* disk.free
          desc,              \* disk.desc
          ops,               \* disk.ops: the direction of each request
          infob, status,     \* disk.info
          avail, availidx,   \* disk.avail: ring and idx
          used, usedidx,     \* disk.used: ring and idx
          used_idx,          \* disk.used_idx, how far the driver has looked
          bdisk,             \* b->disk of each process's buffer
          owner,             \* of vdisk_lock
          pc, write, idx,    \* the variables of virtio_disk_rw
          seen,              \* device: how far it has looked in avail
          busy,              \* device: the chains it works on
          posted,            \* device: has written an entry of used
          irq,               \* the interrupt is pending
          moved,             \* the transfers made since each call began
          panicked

driver == <<free, desc, ops, infob>>
rings == <<avail, availidx, used, usedidx, used_idx>>
device == <<seen, busy, posted>>
vars == <<driver, status, rings, bdisk, owner, pc, write, idx, device, irq, moved, panicked>>

NoDesc == [addr |-> None, next |-> 0, flags |-> {}]

\* virtio_disk_init.
Init == /\ free = Desc
        /\ desc = [d \in Desc |-> NoDesc]
        /\ ops = [d \in Desc |-> "in"]
        /\ infob = [d \in Desc |-> None]
        /\ status = [d \in Desc |-> 0]
        /\ avail = [k \in Desc |-> None] /\ availidx = 0
        /\ used = [k \in Desc |-> None] /\ usedidx = 0 /\ used_idx = 0
        /\ bdisk = [p \in Proc |-> FALSE]
        /\ owner = None
        /\ pc = [p \in Proc |-> "out"]
        /\ write = [p \in Proc |-> FALSE]
        /\ idx = [p \in Proc |-> <<>>]
        /\ seen = 0 /\ busy = {} /\ posted = FALSE
        /\ irq = FALSE
        /\ moved = [p \in Proc |-> {}]
        /\ panicked = FALSE

Plus1(i) == (i + 1) % Wrap
Ring(i) == i % NUM
----------------------------------------------------------------------------
(* virtio_disk_rw. *)

\* wakeup(&disk.free[0]), called with p going to l.
WakeFree(p, l) ==
  [q \in Proc |-> IF q = p THEN l ELSE IF pc[q] = "sleep_desc" THEN "alloc" ELSE pc[q]]

\* A process with a locked buffer calls.
virtio_disk_rw(p, w) ==
  /\ pc[p] = "out"
  /\ pc' = [pc EXCEPT ![p] = "alloc"]
  /\ write' = [write EXCEPT ![p] = w]
  /\ moved' = [moved EXCEPT ![p] = {}]
  /\ UNCHANGED <<driver, status, rings, bdisk, owner, idx, device, irq, panicked>>

\* alloc3_desc takes the three lowest free descriptors.
alloc3_desc == CHOOSE s \in [1..3 -> free] :
                 /\ s[1] < s[2] /\ s[2] < s[3]
                 /\ \A d \in free : d <= s[3] => d \in {s[1], s[2], s[3]}

\* A failed alloc3_desc frees what it got, with a wakeup for each; then the
\* process sleeps.
alloc_fails(p) ==
  /\ ~panicked /\ pc[p] = "alloc" /\ owner = None
  /\ Cardinality(free) < 3
  /\ pc' = IF free = {} THEN [pc EXCEPT ![p] = "sleep_desc"] ELSE WakeFree(p, "sleep_desc")
  /\ UNCHANGED <<driver, status, rings, bdisk, owner, write, idx, device, irq, moved, panicked>>

DataFlags(p) == IF write[p] THEN {"NEXT"} ELSE {"NEXT", "WRITE"}

\* b->disk = 1.
Mark_Not(p) == bdisk
Mark(p) == [bdisk EXCEPT ![p] = TRUE]

\* The three descriptors are formatted and their head is put in the ring.
submit(p) ==
  LET s == alloc3_desc IN
  /\ ~panicked /\ pc[p] = "alloc" /\ owner = None
  /\ Cardinality(free) >= 3
  /\ owner' = p
  /\ free' = free \ {s[1], s[2], s[3]}
  /\ idx' = [idx EXCEPT ![p] = s]
  /\ ops' = [ops EXCEPT ![s[1]] = IF write[p] THEN "out" ELSE "in"]
  /\ desc' = [desc EXCEPT ![s[1]] = [addr |-> s[1], next |-> s[2], flags |-> {"NEXT"}],
                          ![s[2]] = [addr |-> p, next |-> s[3], flags |-> DataFlags(p)],
                          ![s[3]] = [addr |-> s[1], next |-> 0, flags |-> {"WRITE"}]]
  /\ status' = [status EXCEPT ![s[1]] = 255]
  /\ bdisk' = Mark(p)
  /\ infob' = [infob EXCEPT ![s[1]] = p]
  /\ avail' = [avail EXCEPT ![Ring(availidx)] = s[1]]
  /\ pc' = [pc EXCEPT ![p] = "notify"]
  /\ UNCHANGED <<availidx, used, usedidx, used_idx, write, device, irq, moved, panicked>>

notify(p) ==
  /\ ~panicked /\ pc[p] = "notify"
  /\ availidx' = Plus1(availidx)
  /\ pc' = [pc EXCEPT ![p] = "test"]
  /\ UNCHANGED <<driver, status, avail, used, usedidx, used_idx, bdisk, owner, write, idx,
                 device, irq, moved, panicked>>

\* The test of b->disk, after the submission or with the lock taken again.
HasLock(p) == \/ pc[p] = "test" /\ owner = p
              \/ pc[p] = "woken" /\ owner = None

wait(p) ==
  /\ ~panicked /\ HasLock(p)
  /\ bdisk[p]
  /\ owner' = None
  /\ pc' = [pc EXCEPT ![p] = "sleep"]
  /\ UNCHANGED <<driver, status, rings, bdisk, write, idx, device, irq, moved, panicked>>

\* free_chain's walk: a chain has three descriptors here.
Chain(h) == LET d == desc[h].next IN
            {h} \cup {n \in {d} : "NEXT" \in desc[h].flags}
                \cup {n \in {desc[d].next} : "NEXT" \in desc[h].flags \cap desc[d].flags}

\* The request is over: free_chain, with its wakeups.
finish(p) ==
  LET h == idx[p][1] IN
  /\ ~panicked /\ HasLock(p)
  /\ ~bdisk[p]
  /\ infob' = [infob EXCEPT ![h] = None]
  /\ free' = free \cup Chain(h)
  /\ desc' = [d \in Desc |-> IF d \in Chain(h) THEN NoDesc ELSE desc[d]]
  /\ panicked' = (Chain(h) \cap free /= {})
  /\ pc' = WakeFree(p, "out")
  /\ owner' = None
  /\ idx' = [idx EXCEPT ![p] = <<>>]
  /\ write' = [write EXCEPT ![p] = FALSE]
  /\ UNCHANGED <<ops, status, rings, bdisk, device, irq, moved>>
----------------------------------------------------------------------------
(* virtio_disk_intr. *)

virtio_disk_intr ==
  /\ ~panicked /\ irq /\ owner = None
  /\ owner' = Intr
  /\ irq' = FALSE
  /\ UNCHANGED <<driver, status, rings, bdisk, pc, write, idx, device, moved, panicked>>

\* The handler loops, with the lock.
Continue_Once == None
Continue == Intr

\* One pass of the loop: wake the process of the next entry of used.
intr_entry ==
  LET id == used[Ring(used_idx)] IN
  /\ ~panicked /\ owner = Intr
  /\ used_idx /= usedidx
  /\ \/ /\ id /= None /\ infob[id] /= None /\ status[id] = 0
        /\ bdisk' = [bdisk EXCEPT ![infob[id]] = FALSE]
        /\ pc' = [pc EXCEPT ![infob[id]] = IF @ = "sleep" THEN "woken" ELSE @]
        /\ used_idx' = Plus1(used_idx)
        /\ used' = [used EXCEPT ![Ring(used_idx)] = None]
        /\ owner' = Continue
        /\ UNCHANGED panicked
     \/ /\ id = None \/ infob[id] = None \/ status[id] /= 0
        /\ panicked' = TRUE
        /\ UNCHANGED <<bdisk, pc, used_idx, used, owner>>
  /\ UNCHANGED <<driver, status, avail, availidx, usedidx, write, idx, device, irq, moved>>

intr_done ==
  /\ ~panicked /\ owner = Intr
  /\ used_idx = usedidx
  /\ owner' = None
  /\ UNCHANGED <<driver, status, rings, bdisk, pc, write, idx, device, irq, moved, panicked>>
----------------------------------------------------------------------------
(* The device. *)

dev_fetch ==
  /\ seen /= availidx
  /\ busy' = busy \cup {avail[seen % NUM]}
  /\ avail' = [avail EXCEPT ![seen % NUM] = None]
  /\ seen' = (seen + 1) % Wrap
  /\ UNCHANGED <<driver, status, availidx, used, usedidx, used_idx, bdisk, owner, pc, write,
                 idx, posted, irq, moved, panicked>>

\* It finishes any of its chains: the data move as the descriptors say, the
\* status is 0 if they are as it expects, and the head goes into used.
dev_finish(h) ==
  LET d == desc[h].next
      s == desc[d].next
      dir == IF "WRITE" \in desc[d].flags THEN "in" ELSE "out"
      ok == dir = ops[h] /\ desc[d].addr \in Proc /\ "WRITE" \in desc[s].flags
  IN
  /\ h \in busy /\ ~posted
  /\ busy' = busy \ {h}
  /\ IF ok THEN /\ status' = [status EXCEPT ![desc[s].addr] = 0]
                /\ moved' = [moved EXCEPT ![desc[d].addr] = @ \cup {dir}]
           ELSE UNCHANGED <<status, moved>>
  /\ used' = [used EXCEPT ![usedidx % NUM] = h]
  /\ posted' = TRUE
  /\ UNCHANGED <<driver, avail, availidx, usedidx, used_idx, bdisk, owner, pc, write, idx,
                 seen, irq, panicked>>

dev_publish ==
  /\ posted
  /\ usedidx' = (usedidx + 1) % Wrap
  /\ posted' = FALSE
  /\ irq' = TRUE
  /\ UNCHANGED <<driver, status, avail, availidx, used, used_idx, bdisk, owner, pc, write,
                 idx, seen, busy, moved, panicked>>
----------------------------------------------------------------------------
Step(p) == alloc_fails(p) \/ submit(p) \/ notify(p) \/ wait(p) \/ finish(p)
Handler == virtio_disk_intr \/ intr_entry \/ intr_done

Next == \/ \E p \in Proc : Step(p) \/ \E w \in BOOLEAN : virtio_disk_rw(p, w)
        \/ Handler
        \/ dev_fetch \/ dev_publish \/ \E h \in Desc : dev_finish(h)

Spec == Init /\ [][Next]_vars
----------------------------------------------------------------------------
(* Properties. *)

InFlight == {p \in Proc : pc[p] \in {"notify", "test", "sleep", "woken"}}
Own(p) == {idx[p][1], idx[p][2], idx[p][3]}

\* The variables have their types.
TypeOK ==
  /\ free \subseteq Desc
  /\ desc \in [Desc -> [addr : Desc \cup Proc \cup {None}, next : Desc,
                        flags : SUBSET {"NEXT", "WRITE"}]]
  /\ ops \in [Desc -> {"in", "out"}]
  /\ infob \in [Desc -> Proc \cup {None}]
  /\ status \in [Desc -> {0, 255}]
  /\ avail \in [Desc -> Desc \cup {None}] /\ used \in [Desc -> Desc \cup {None}]
  /\ {availidx, usedidx, used_idx, seen} \subseteq 0..Wrap - 1
  /\ bdisk \in [Proc -> BOOLEAN] /\ write \in [Proc -> BOOLEAN]
  /\ owner \in Proc \cup {Intr, None}
  /\ pc \in [Proc -> {"out", "alloc", "sleep_desc", "notify", "test", "sleep", "woken"}]
  /\ idx \in [Proc -> [1..3 -> Desc] \cup {<<>>}]
  /\ busy \subseteq Desc /\ posted \in BOOLEAN /\ irq \in BOOLEAN
  /\ moved \in [Proc -> SUBSET {"in", "out"}]
  /\ panicked \in BOOLEAN

\* No request ends in one of the driver's panics: a descriptor is never freed
\* twice, and the device never refuses a chain (virtio_disk.c:174, 316).  The
\* variables keep their types: the indices wrap.
NoPanic == TypeOK /\ ~panicked

\* Every descriptor is free or belongs to one request: chains never overlap,
\* and none is lost (alloc_desc, free_chain).
DescriptorsExact ==
  /\ \A p \in InFlight : Cardinality(Own(p)) = 3 /\ Own(p) \cap free = {}
  /\ \A p, q \in InFlight : p /= q => Own(p) \cap Own(q) = {}
  /\ free \cup UNION {Own(p) : p \in InFlight} = Desc

\* b->disk: "does disk "own" buf?" (buf.h:3).  As long as the device may still
\* use a chain, its buffer is marked and its descriptors are not free; and once
\* the mark is cleared the data have moved, once, the way they were meant to.
DiskOwnsBuf ==
  /\ \A h \in busy : infob[h] /= None /\ bdisk[infob[h]] /\ h \notin free
  /\ \A p \in InFlight : ~bdisk[p] => moved[p] = {IF write[p] THEN "out" ELSE "in"}

\* No wakeup is lost.  A process sleeps for descriptors only while there are
\* fewer than three (free_desc).  A process that sleeps on its buffer has a
\* request that the device still has to take, works on, or has returned; and as
\* long as the driver has not seen all that was returned, an interrupt is
\* pending or its handler is running (virtio_disk_intr): however the device's
\* returns and the acknowledgement interleave, the sleeper will be woken.
NoLostWakeup ==
  /\ \A p \in Proc : pc[p] = "sleep_desc" => Cardinality(free) < 3
  /\ \A p \in Proc : pc[p] = "sleep" =>
       LET h == idx[p][1] IN
       bdisk[p] /\ infob[h] = p /\ (h \in busy \/ \E k \in Desc : h \in {avail[k], used[k]})
  /\ used_idx /= usedidx => irq \/ owner = Intr

\* Descriptors are shared out without overlap or loss, the device has a buffer
\* exactly as long as b->disk says, and no request is refused (DescriptorsExact,
\* DiskOwnsBuf, NoPanic).
RequestsExact == NoPanic /\ DescriptorsExact /\ DiskOwnsBuf
----------------------------------------------------------------------------
(* The inductive invariant behind the properties. *)

Dir(p) == IF write[p] THEN "out" ELSE "in"

\* The chain of a request is three descriptors, formatted as submit leaves them.
Formed(p) ==
  /\ idx[p][1] \in Desc \ free /\ idx[p][2] \in Desc \ free /\ idx[p][3] \in Desc \ free
  /\ idx[p][1] /= idx[p][2] /\ idx[p][1] /= idx[p][3] /\ idx[p][2] /= idx[p][3]
  /\ desc[idx[p][1]] = [addr |-> idx[p][1], next |-> idx[p][2], flags |-> {"NEXT"}]
  /\ desc[idx[p][2]] = [addr |-> p, next |-> idx[p][3], flags |-> DataFlags(p)]
  /\ desc[idx[p][3]] = [addr |-> idx[p][1], next |-> 0, flags |-> {"WRITE"}]
  /\ infob[idx[p][1]] = p /\ ops[idx[p][1]] = Dir(p)

\* Each request has descriptors of its own, and every other descriptor is free.
Chains ==
  /\ \A p \in InFlight : Formed(p)
  /\ \A p, q \in InFlight : p /= q => Own(p) \cap Own(q) = {}
  /\ \A d \in Desc \ free : \E p \in InFlight : d \in Own(p)

Heads(ring) == {h \in Desc : \E k \in Desc : ring[k] = h}
Once(ring) == \A k, l \in Desc : ring[k] = ring[l] /\ ring[k] /= None => k = l

Offered == Heads(avail)
Returned == Heads(used)

\* The head of a request is in one place: offered to the device, with it, or
\* returned; until the handler has cleared b->disk.
Where ==
  /\ \A h \in Offered \cup busy \cup Returned : \E p \in InFlight : bdisk[p] /\ idx[p][1] = h
  /\ \A p \in InFlight : bdisk[p] => idx[p][1] \in Offered \cup busy \cup Returned
  /\ Offered \cap busy = {} /\ Offered \cap Returned = {} /\ busy \cap Returned = {}
  /\ Once(avail) /\ Once(used)

\* The data of a request have moved once it is returned.
Data ==
  /\ \A p \in Proc : pc[p] \in {"alloc", "sleep_desc"} => moved[p] = {}
  /\ \A p \in InFlight :
       moved[p] = IF bdisk[p] /\ idx[p][1] \notin Returned THEN {} ELSE {Dir(p)}
  /\ \A h \in Returned : status[h] = 0

\* vdisk_lock is held from the submission to the first test of b->disk.
LockHeld == \A p \in Proc : pc[p] \in {"notify", "test"} <=> owner = p

\* The entries of a ring are those from one index up to the other, and one more
\* that is written before the index moves; they never fill the ring.
Filled(ring, from, to, more) ==
  \E n \in 0..NUM - 1 :
    /\ n + more < NUM
    /\ to = (from + n) % Wrap
    /\ \A k \in Desc : ring[k] /= None <=> \E j \in 0..n + more - 1 : k = (from + j) % NUM

Announcing == IF \E p \in Proc : pc[p] = "notify" THEN 1 ELSE 0
Publishing == IF posted THEN 1 ELSE 0

Rings == /\ Filled(avail, seen, availidx, Announcing)
         /\ Filled(used, used_idx, usedidx, Publishing)

IInv == TypeOK /\ ~panicked /\ Chains /\ Where /\ Data /\ LockHeld /\ Rings /\ NoLostWakeup
============================================================================
