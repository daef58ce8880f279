-------------------------------- MODULE Log --------------------------------
(***************************************************************************)
(* The redo log of kernel/log.c, with the part of kernel/bio.c it rests on *)
(* (cached blocks, pinned by bpin, recycled when their refcnt is 0) and    *)
(* with the disk: home blocks, log blocks and the header block.            *)
(*                                                                         *)
(* One action per stretch of code between two points where another process *)
(* or a crash can be seen: a critical section of log.lock, or one disk     *)
(* write.  A client's "bread, modify, log_write, brelse" is one action,    *)
(* since the buffer's sleep-lock is held throughout.                       *)
(***************************************************************************)
EXTENDS Naturals, Sequences, FiniteSets

CONSTANTS Proc,         \* processes that run file system calls
          Block,        \* home blocks that are logged
          Value,        \* contents of a block
          Torn,         \* content of a block whose write a crash cut short
          NoBuf,        \* the block has no buffer in the cache
          MAXOPBLOCKS,  \* blocks that begin_op reserves for an operation
          LOGSIZE,      \* capacity begin_op reserves against
          LogBlocks,    \* log.size: blocks of the on-disk log with its header
          OpBlocks      \* distinct blocks a file system call really writes

ASSUME SizeAssumption ==
  /\ MAXOPBLOCKS \in Nat \ {0}
  /\ LOGSIZE \in Nat /\ LOGSIZE >= MAXOPBLOCKS
  /\ LogBlocks \in Nat \ {0, 1}
  /\ OpBlocks \in Nat

ASSUME ProcAssumption == IsFiniteSet(Proc)

ASSUME ValueAssumption == NoBuf \notin Value \cup {Torn} /\ Torn \notin Value

VARIABLES disk,         \* home blocks on the disk
          logdisk,      \* log blocks on the disk, the header excepted
          hdr,          \* the header block on the disk, its n first entries
          cache,        \* contents of the buffers of home blocks
          refcnt,       \* references held by bpin
          lh,           \* log.lh, its n first entries
          outstanding,  \* log.outstanding
          committing,   \* log.committing
          tail,         \* loop variable of write_log and install_trans
          mode,         \* boot stage: read_head, recover, up
          panicked,     \* a panic() stopped the kernel
          pc,           \* where each process is
          written,      \* blocks written by the process's current operation
          latest        \* history: the contents last written by log_write

durable == <<disk, logdisk, hdr>>
log == <<lh, outstanding, committing, tail>>
bufs == <<cache, refcnt>>
vars == <<durable, log, bufs, mode, panicked, pc, written, latest>>

Slot == 1..(LogBlocks - 1)
InLog(h) == {h[i] : i \in 1..Len(h)}
InOp(p) == pc[p] = "in_op"
ActiveOps == {p \in Proc : InOp(p)}
Up == mode = "up" /\ ~panicked

\* What the disk holds once the committed transaction in h is installed.
Overlay(d, h, l) ==
  [b \in Block |-> IF b \in InLog(h)
                   THEN l[CHOOSE i \in 1..Len(h) : h[i] = b]
                   ELSE d[b]]

\* bread: the cached contents, or the disk's when there is no buffer.
bread(b) == IF cache[b] = NoBuf THEN disk[b] ELSE cache[b]

Init == /\ disk \in [Block -> Value]
        /\ logdisk = [i \in Slot |-> Torn]
        /\ hdr = <<>>
        /\ cache = [b \in Block |-> NoBuf]
        /\ refcnt = [b \in Block |-> 0]
        /\ lh = <<>> /\ outstanding = 0 /\ committing = FALSE /\ tail = 0
        /\ mode = "read_head"
        /\ panicked = FALSE
        /\ pc = [p \in Proc |-> "idle"]
        /\ written = [p \in Proc |-> {}]
        /\ latest = disk
----------------------------------------------------------------------------
(* The buffer cache, as the log needs it. *)

\* Any process may bring a block into the cache, inside a transaction or not.
Bread(b) == /\ Up
            /\ cache[b] = NoBuf
            /\ cache' = [cache EXCEPT ![b] = bread(b)]
            /\ UNCHANGED <<durable, log, refcnt, mode, panicked, pc, written, latest>>

\* bget recycles a buffer that nobody refers to; its contents are not written.
Recycle(b) == /\ Up
              /\ refcnt[b] = 0
              /\ cache[b] /= NoBuf
              /\ cache' = [cache EXCEPT ![b] = NoBuf]
              /\ UNCHANGED <<durable, log, refcnt, mode, panicked, pc, written, latest>>
----------------------------------------------------------------------------
(* Transactions. *)

\* wakeup(&log): the sleepers run again, from the top of begin_op's loop.
NoWakeup(pcs) == pcs
wakeup(pcs) == [q \in Proc |-> IF pcs[q] = "sleep" THEN "begin_op" ELSE pcs[q]]

\* A process in user space makes a file system call.
Call(p) == /\ Up
           /\ pc[p] = "idle"
           /\ pc' = [pc EXCEPT ![p] = "begin_op"]
           /\ UNCHANGED <<durable, log, bufs, mode, panicked, written, latest>>

\* This operation might exhaust the log's space; wait for commit.
LogFull_OneOp == Len(lh) + MAXOPBLOCKS > LOGSIZE
LogFull == Len(lh) + (outstanding + 1) * MAXOPBLOCKS > LOGSIZE

\* One pass of begin_op's loop.
begin_op(p) ==
  /\ Up
  /\ pc[p] = "begin_op"
  /\ IF committing \/ LogFull
     THEN /\ pc' = [pc EXCEPT ![p] = "sleep"]
          /\ UNCHANGED outstanding
     ELSE /\ pc' = [pc EXCEPT ![p] = "in_op"]
          /\ outstanding' = outstanding + 1
  /\ UNCHANGED <<durable, lh, committing, tail, bufs, mode, panicked, written, latest>>

\* log_write's two bounds; they are tested before it looks for the block.
TooBig == Len(lh) >= LOGSIZE \/ Len(lh) >= LogBlocks - 1

\* bpin, when log_write adds a block to the transaction.
NoPin(b) == refcnt
bpin(b) == [refcnt EXCEPT ![b] = @ + 1]

Absorb(b) == IF b \in InLog(lh) THEN lh ELSE Append(lh, b)

\* A file system call puts v in block b and calls log_write on its buffer.
log_write(p, b, v) ==
  /\ Up
  /\ InOp(p)
  /\ Cardinality(written[p] \cup {b}) <= OpBlocks
  /\ written' = [written EXCEPT ![p] = @ \cup {b}]
  /\ cache' = [cache EXCEPT ![b] = v]
  /\ latest' = [latest EXCEPT ![b] = v]
  /\ IF TooBig \/ outstanding < 1
     THEN panicked' = TRUE /\ UNCHANGED <<lh, refcnt>>
     ELSE /\ lh' = Absorb(b)
          /\ refcnt' = IF lh' /= lh THEN bpin(b) ELSE refcnt
          /\ UNCHANGED panicked
  /\ UNCHANGED <<durable, outstanding, committing, tail, mode, pc>>

end_op_NoCommit(p) ==
  /\ Up
  /\ InOp(p)
  /\ outstanding' = outstanding - 1
  /\ panicked' = committing
  /\ written' = [written EXCEPT ![p] = {}]
  /\ pc' = wakeup([pc EXCEPT ![p] = "idle"])
  /\ tail' = 0
  /\ UNCHANGED <<durable, lh, committing, bufs, mode, latest>>

\* end_op up to its release of log.lock; the last operation commits.
end_op(p) ==
  /\ Up
  /\ InOp(p)
  /\ outstanding' = outstanding - 1
  /\ panicked' = committing
  /\ written' = [written EXCEPT ![p] = {}]
  /\ IF outstanding = 1
     THEN /\ committing' = TRUE
          /\ pc' = [pc EXCEPT ![p] = IF lh = <<>> THEN "end_commit" ELSE "write_log"]
     ELSE /\ pc' = wakeup([pc EXCEPT ![p] = "idle"])
          /\ UNCHANGED committing
  /\ tail' = 0
  /\ UNCHANGED <<durable, lh, bufs, mode, latest>>
----------------------------------------------------------------------------
(* Commit, run by the process whose end_op was the last. *)

\* One turn of write_log's loop: copy a cached block to the log.
write_log(p) ==
  /\ Up
  /\ pc[p] = "write_log"
  /\ tail < Len(lh)
  /\ logdisk' = [logdisk EXCEPT ![tail + 1] = bread(lh[tail + 1])]
  /\ cache' = [cache EXCEPT ![lh[tail + 1]] = bread(lh[tail + 1])]
  /\ tail' = tail + 1
  /\ pc' = [pc EXCEPT ![p] = IF tail + 1 = Len(lh) THEN "write_head" ELSE "write_log"]
  /\ UNCHANGED <<disk, hdr, lh, outstanding, committing, refcnt, mode, panicked, written, latest>>

write_head_NoInstall(p) ==
  /\ Up
  /\ pc[p] = "write_head"
  /\ hdr' = lh
  /\ tail' = 0
  /\ pc' = [pc EXCEPT ![p] = "erase"]
  /\ UNCHANGED <<disk, logdisk, lh, outstanding, committing, bufs, mode, panicked, written, latest>>

\* Write the header: the true point at which the transaction commits.
write_head(p) ==
  /\ Up
  /\ pc[p] = "write_head"
  /\ hdr' = lh
  /\ tail' = 0
  /\ pc' = [pc EXCEPT ![p] = "install_trans"]
  /\ UNCHANGED <<disk, logdisk, lh, outstanding, committing, bufs, mode, panicked, written, latest>>

\* One turn of install_trans's loop: the log block goes to its home location.
InstallBlock ==
  /\ tail < Len(lh)
  /\ disk' = [disk EXCEPT ![lh[tail + 1]] = logdisk[tail + 1]]
  /\ cache' = [cache EXCEPT ![lh[tail + 1]] = logdisk[tail + 1]]
  /\ tail' = tail + 1

install_trans(p) ==
  /\ Up
  /\ pc[p] = "install_trans"
  /\ InstallBlock
  /\ refcnt' = [refcnt EXCEPT ![lh[tail + 1]] = @ - 1]
  /\ pc' = [pc EXCEPT ![p] = IF tail + 1 = Len(lh) THEN "erase" ELSE "install_trans"]
  /\ UNCHANGED <<logdisk, hdr, lh, outstanding, committing, mode, panicked, written, latest>>

\* Erase the transaction from the log: lh.n = 0 and write_head again.
erase(p) ==
  /\ Up
  /\ pc[p] = "erase"
  /\ lh' = <<>>
  /\ hdr' = <<>>
  /\ pc' = [pc EXCEPT ![p] = "end_commit"]
  /\ UNCHANGED <<disk, logdisk, outstanding, committing, tail, bufs, mode, panicked, written, latest>>

\* The second critical section of end_op.
end_commit(p) ==
  /\ Up
  /\ pc[p] = "end_commit"
  /\ committing' = FALSE
  /\ pc' = wakeup([pc EXCEPT ![p] = "idle"])
  /\ UNCHANGED <<durable, lh, outstanding, tail, bufs, mode, panicked, written, latest>>
----------------------------------------------------------------------------
(* Crash and recovery. *)

\* The machine restarts: only the disk is left.
LoseMemory ==
  /\ cache' = [b \in Block |-> NoBuf]
  /\ refcnt' = [b \in Block |-> 0]
  /\ lh' = <<>> /\ outstanding' = 0 /\ committing' = FALSE /\ tail' = 0
  /\ mode' = "read_head"
  /\ panicked' = FALSE
  /\ pc' = [p \in Proc |-> "idle"]
  /\ written' = [p \in Proc |-> {}]
  /\ latest' = Overlay(disk', hdr', logdisk')

Crash == UNCHANGED durable /\ LoseMemory

\* The crash cuts short the write of a log block ...
CrashInLogWrite(p) ==
  /\ Up
  /\ pc[p] = "write_log"
  /\ logdisk' = [logdisk EXCEPT ![tail + 1] = Torn]
  /\ UNCHANGED <<disk, hdr>>
  /\ LoseMemory

\* ... or of a home block, in commit or in recovery.
CrashInInstall ==
  /\ ~panicked
  /\ mode = "recover" \/ \E p \in Proc : pc[p] = "install_trans"
  /\ tail < Len(lh)
  /\ disk' = [disk EXCEPT ![lh[tail + 1]] = Torn]
  /\ UNCHANGED <<logdisk, hdr>>
  /\ LoseMemory

\* initlog and read_head, in the first process before any system call.
read_head ==
  /\ mode = "read_head"
  /\ lh' = hdr
  /\ tail' = 0
  /\ mode' = "recover"
  /\ UNCHANGED <<durable, outstanding, committing, bufs, panicked, pc, written, latest>>

\* install_trans(1): as in commit, but no buffer was pinned.
recover_install ==
  /\ mode = "recover"
  /\ InstallBlock
  /\ UNCHANGED <<logdisk, hdr, lh, outstanding, committing, refcnt, mode, panicked, pc, written, latest>>

\* recover_from_log clears the log once everything is installed.
recover_clear ==
  /\ mode = "recover"
  /\ tail = Len(lh)
  /\ lh' = <<>> /\ hdr' = <<>>
  /\ mode' = "up"
  /\ UNCHANGED <<disk, logdisk, outstanding, committing, tail, bufs, panicked, pc, written, latest>>
----------------------------------------------------------------------------
CommitStep(p) == \/ write_log(p) \/ write_head(p) \/ install_trans(p)
                 \/ erase(p) \/ end_commit(p)

Next == \/ \E p \in Proc : \/ Call(p) \/ begin_op(p) \/ end_op(p)
                           \/ CommitStep(p) \/ CrashInLogWrite(p)
        \/ \E p \in Proc, b \in Block, v \in Value : log_write(p, b, v)
        \/ \E b \in Block : Bread(b) \/ Recycle(b)
        \/ Crash \/ CrashInInstall
        \/ read_head \/ recover_install \/ recover_clear

Spec == Init /\ [][Next]_vars
----------------------------------------------------------------------------
(* Properties. *)

Content == Value \cup {Torn}

PCs == {"idle", "begin_op", "sleep", "in_op", "write_log", "write_head",
        "install_trans", "erase", "end_commit"}

\* The types of the variables.  A header in memory or on the disk never lists
\* more blocks than the on-disk log has room for: log.start + tail + 1 stays
\* inside the log area.
TypeOK ==
  /\ disk \in [Block -> Content]
  /\ logdisk \in [Slot -> Content]
  /\ hdr \in Seq(Block) /\ Len(hdr) <= LogBlocks - 1
  /\ cache \in [Block -> Content \cup {NoBuf}]
  /\ refcnt \in [Block -> Nat]
  /\ lh \in Seq(Block) /\ Len(lh) <= LogBlocks - 1
  /\ outstanding \in Nat
  /\ committing \in BOOLEAN
  /\ tail \in Nat
  /\ mode \in {"read_head", "recover", "up"}
  /\ panicked \in BOOLEAN
  /\ pc \in [Proc -> PCs]
  /\ written \in [Proc -> SUBSET Block]
  /\ latest \in [Block -> Value]

\* Coherence of the cache with the log: once the system is up, reading any
\* block gives what log_write last put in it, whether the block is in the
\* cache, was recycled from it, or is being installed by a commit.  This is
\* what bpin in log_write and bunpin in install_trans are for.
ReadsLatest == mode = "up" => \A b \in Block : bread(b) = latest[b]

\* What a crash would leave is exactly what was written, whenever no
\* operation is active and no commit is under way: an end_op that was the
\* last one returns only after its group of operations is on the disk.
QuiescentIsDurable ==
  Up /\ outstanding = 0 /\ ~committing => Overlay(disk, hdr, logdisk) = latest

\* A process asleep in begin_op is still waiting for something: every change
\* that could let it in was followed by wakeup(&log).
NoLostWakeup ==
  \A p \in Proc : Up /\ pc[p] = "sleep" => committing \/ LogFull

\* The panics of log_write and end_op are out of reach.  It holds when the log
\* has room for two reservations and every operation writes at least one block
\* less than begin_op reserves: log.size counts the header block, and
\* log_write tests its bounds before it looks for the block in the log.
NoPanic == ~panicked

Store == INSTANCE AtomicStore WITH
           mem <- latest,
           stable <- Overlay(disk, hdr, logdisk),
           active <- ActiveOps

\* Crash atomicity: the log implements the abstract store.  No crash, in
\* commit or in recovery, shows part of an operation, and an operation only
\* becomes durable together with the ones it overlapped.
ImplementsStore == Store!Spec
----------------------------------------------------------------------------
(* The inductive invariant behind the properties. *)

CommitPC == {"write_log", "write_head", "install_trans", "erase", "end_commit"}
Installing(p) == pc[p] \in {"install_trans", "erase"}
Distinct(h) == \A i, j \in 1..Len(h) : h[i] = h[j] => i = j

\* At most one process commits, and then no operation is active.
OneCommitter ==
  /\ outstanding = Cardinality(ActiveOps)
  /\ committing => outstanding = 0
  /\ \A p \in Proc : pc[p] \in CommitPC => committing
  /\ \A p, q \in Proc : pc[p] \in CommitPC /\ pc[q] \in CommitPC => p = q

\* Absorption: a block is in the transaction once.
Absorbed == Distinct(lh) /\ Distinct(hdr)

\* No torn block can be seen after recovery.
DiskSound == Overlay(disk, hdr, logdisk) \in [Block -> Value]

\* Between a restart and the end of recovery.
BootInv ==
  mode /= "up" =>
    /\ ~panicked /\ ~committing
    /\ \A p \in Proc : pc[p] = "idle"
    /\ latest = Overlay(disk, hdr, logdisk)
    /\ \A b \in Block : cache[b] \in {NoBuf, disk[b]}
    /\ mode = "read_head" => lh = <<>> /\ \A b \in Block : cache[b] = NoBuf
    /\ mode = "recover" => /\ lh = hdr
                           /\ tail <= Len(lh)
                           /\ \A i \in 1..tail : disk[lh[i]] = logdisk[i]

\* What the cache holds, and which blocks must not be recycled.
CacheInv ==
  mode = "up" =>
    /\ \A b \in Block : cache[b] /= NoBuf => cache[b] = latest[b]
    /\ ~panicked => \A b \in Block : b \notin InLog(lh) => disk[b] = latest[b]
    /\ (\A p \in Proc : ~Installing(p)) =>
          /\ hdr = <<>>
          /\ \A i \in 1..Len(lh) : cache[lh[i]] /= NoBuf /\ refcnt[lh[i]] >= 1
    /\ panicked => \A b \in Block : cache[b] = NoBuf => disk[b] = latest[b]

\* How far a commit has come.
CommitInv ==
  /\ mode = "up" /\ ~committing /\ outstanding = 0 => lh = <<>>
  /\ \A p \in Proc :
      /\ pc[p] = "write_log" =>
           /\ tail < Len(lh)
           /\ \A i \in 1..tail : logdisk[i] = latest[lh[i]]
      /\ pc[p] = "write_head" =>
           /\ lh /= <<>>
           /\ \A i \in 1..Len(lh) : logdisk[i] = latest[lh[i]]
      /\ Installing(p) =>
           /\ hdr = lh
           /\ \A i \in 1..Len(lh) : logdisk[i] = latest[lh[i]]
      /\ pc[p] = "install_trans" =>
           /\ tail < Len(lh)
           /\ \A i \in 1..tail : disk[lh[i]] = latest[lh[i]]
           /\ \A i \in (tail + 1)..Len(lh) :
                 cache[lh[i]] /= NoBuf /\ refcnt[lh[i]] >= 1
      /\ pc[p] = "erase" => \A i \in 1..Len(lh) : disk[lh[i]] = latest[lh[i]]
      /\ pc[p] = "end_commit" => lh = <<>>

\* The inductive invariant: where every copy of a block stands at each point
\* of commit (end_op, write_log, write_head, install_trans) and of recovery.
IInv == TypeOK /\ OneCommitter /\ Absorbed /\ DiskSound /\ BootInv /\ CacheInv
        /\ CommitInv /\ NoLostWakeup

\* The blocks that the active operations may still add to the transaction, one
\* pair for each.
Room == {r \in ActiveOps \X (1..OpBlocks) : r[2] > Cardinality(written[r[1]])}

\* The log always has space for them, and two blocks more: the header's, and
\* the one that log_write's bound asks for even when it absorbs.
RoomInv ==
  /\ \A p \in Proc : IsFiniteSet(written[p]) /\ (~InOp(p) => written[p] = {})
  /\ mode = "up" => /\ \A p \in Proc : written[p] \subseteq InLog(lh)
                    /\ Len(lh) + Cardinality(Room) + 2 <= LOGSIZE
  /\ NoPanic
============================================================================
