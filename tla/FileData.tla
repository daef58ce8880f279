------------------------------ MODULE FileData ------------------------------
(* The contents of files: block allocation, bmap, itrunc, readi, writei and
   stati of kernel/fs.c, and fileread, filewrite and filestat of kernel/file.c
   with the offset that processes sharing an open file share.

   A process holds ip->lock from ilock to iunlock, so what it does to its own
   inode cannot be seen half done; each balloc and bfree is a step of its own,
   because writers of other inodes allocate from the same bitmap.  A block is a
   function from offsets to numbers: bytes, or the block numbers of an indirect
   block (NINDIRECT = BSIZE).  Block 0 means none.  The n bytes a write copies
   in are a fixed pattern, so that a byte at the wrong place shows. *)
EXTENDS Integers, FiniteSets, FiniteSetsExt

CONSTANTS
  Proc, File, Inode, NoProc,
  ip,            \* the inode of each open file
  NBLOCKS,       \* data blocks of the disk, 1..NBLOCKS
  BPB,           \* bits per bitmap block
  BSIZE, NDIRECT, MAXOPBLOCKS,
  Amount,        \* lengths of reads and writes
  MaxCalls       \* bound on the system calls made

VARIABLES
  bitmap,        \* blocks marked in use
  data,          \* contents of the blocks
  addrs, size,   \* of the inodes
  lock,          \* holder of ip->lock
  off,           \* offset of the open files
  op,            \* the system call each process is in
  done,          \* positions read or written through each open file since open
  file,          \* what each file should contain
  calls,         \* system calls made
  panicked

disk == <<bitmap, data, addrs, size>>
vars == <<disk, lock, off, op, done, file, calls, panicked>>

ASSUME FileDataAssumption ==
  /\ NBLOCKS \in Nat \ {0} /\ BPB \in Nat \ {0} /\ BSIZE \in Nat \ {0}
  /\ NDIRECT \in Nat /\ MAXOPBLOCKS \in Nat /\ MAXOPBLOCKS >= 6
  /\ ip \in [File -> Inode] /\ NoProc \notin Proc
  /\ Amount \subseteq Nat /\ MaxCalls \in Nat

NINDIRECT == BSIZE
MAXFILE == NDIRECT + NINDIRECT
Offset == 0 .. BSIZE - 1
Block == 1 .. NBLOCKS
Torn == -1                       \* a byte a failed copy may have changed
Src(j) == 1 + (j % 3)            \* byte j of the user's buffer

Idle == [pc |-> "user", f |-> CHOOSE f \in File : TRUE, n |-> 0, i |-> 0,
         n1 |-> 0, off |-> 0, tot |-> 0, tx |-> {}]

Set(p, o) == op' = [op EXCEPT ![p] = o]
Call(p) == /\ ~panicked /\ op[p].pc = "user"
           /\ calls < MaxCalls /\ calls' = calls + 1
At(p, l) == ~panicked /\ op[p].pc = l /\ UNCHANGED calls

-----------------------------------------------------------------------------
(* balloc and bfree: the blocks each one logs are added to the transaction. *)

BitmapBlock(b) == <<"bitmap", b \div BPB>>
DataBlock(b) == <<"data", b>>
InodeBlock(i) == <<"inode", i>>

\* balloc takes the first free block and zeroes it; 0 when there is none.
balloc == IF Block \subseteq bitmap THEN 0 ELSE Min(Block \ bitmap)
bzero == [o \in Offset |-> 0]

\* The disk block of block bn of inode i, 0 if there is none yet.
Indirect(i) == addrs[i][NDIRECT]
Mapped(i, bn) ==
  IF bn < NDIRECT THEN addrs[i][bn]
  ELSE IF Indirect(i) = 0 \/ bn >= MAXFILE THEN 0
  ELSE data[Indirect(i)][bn - NDIRECT]

\* The block bmap has to allocate next for block bn: the indirect block first.
NeedsIndirect(i, bn) == bn >= NDIRECT /\ Indirect(i) = 0

-----------------------------------------------------------------------------
(* filewrite and writei. *)

\* The most bytes filewrite gives writei in one transaction.
\* Mutant: no allowance for an unaligned write.
MaxChunk_Bug == ((MAXOPBLOCKS - 1 - 1) \div 2) * BSIZE

MaxChunk == ((MAXOPBLOCKS - 1 - 1 - 2) \div 2) * BSIZE

filewrite(p, f, n) ==
  /\ Call(p)
  /\ Set(p, [Idle EXCEPT !.pc = "filewrite", !.f = f, !.n = n])
  /\ UNCHANGED <<disk, lock, off, done, file, panicked>>

\* The position writei is given: f->off, read with the inode locked.
\* Mutant: the process goes by its own count, not by the offset it shares.
WriteOff_Bug(p) == op[p].i

WriteOff(p) == off[op[p].f]

\* The writes writei refuses: past the end of the file or over its maximum size.
Beyond(i, pos, n) == pos > size[i] \/ pos + n > MAXFILE * BSIZE

\* One turn of filewrite's loop: begin_op, ilock, and the checks of writei.
chunk(p) ==
  LET o == op[p]
      i == ip[o.f]
      n1 == Min({o.n - o.i, MaxChunk})
      pos == WriteOff(p)
  IN  /\ At(p, "filewrite")
      /\ o.i < o.n
      /\ lock[i] = NoProc
      /\ IF Beyond(i, pos, n1)
         THEN Set(p, Idle) /\ UNCHANGED lock
         ELSE /\ lock' = [lock EXCEPT ![i] = p]
              /\ Set(p, [o EXCEPT !.pc = "writei", !.n1 = n1, !.off = pos,
                                  !.tot = 0, !.tx = {}])
      /\ UNCHANGED <<disk, off, done, file, panicked>>

filewrite_end(p) ==
  /\ At(p, "filewrite")
  /\ op[p].i >= op[p].n
  /\ Set(p, Idle)
  /\ UNCHANGED <<disk, lock, off, done, file, panicked>>

\* Where writei is: the block, the offset in it and the bytes to copy there.
Pos(p) == op[p].off + op[p].tot
Bn(p) == Pos(p) \div BSIZE
CopyLen(p) == Min({op[p].n1 - op[p].tot, BSIZE - (Pos(p) % BSIZE)})

\* bmap allocates the indirect block or the data block; writei's loop stops when
\* the disk is full.
Logged(p, blocks) == [op[p] EXCEPT !.tx = @ \union blocks]

bmap_alloc(p) ==
  LET i == ip[op[p].f]
      b == balloc
  IN  /\ At(p, "writei")
      /\ op[p].tot < op[p].n1
      /\ Mapped(i, Bn(p)) = 0
      /\ panicked' = (Bn(p) >= MAXFILE)
      /\ IF b = 0
         THEN Set(p, [op[p] EXCEPT !.pc = "iupdate"])
              /\ UNCHANGED <<bitmap, data, addrs>>
         ELSE /\ bitmap' = bitmap \union {b}
              /\ IF NeedsIndirect(i, Bn(p)) \/ Bn(p) < NDIRECT
                 THEN /\ addrs' = [addrs EXCEPT ![i][Min({Bn(p), NDIRECT})] = b]
                      /\ data' = [data EXCEPT ![b] = bzero]
                      /\ Set(p, Logged(p, {BitmapBlock(b), DataBlock(b)}))
                 ELSE /\ data' = [data EXCEPT ![b] = bzero,
                                     ![Indirect(i)][Bn(p) - NDIRECT] = b]
                      /\ Set(p, Logged(p, {BitmapBlock(b), DataBlock(b),
                                           DataBlock(Indirect(i))}))
                      /\ UNCHANGED addrs
      /\ UNCHANGED <<size, lock, off, done, file>>

\* either_copyin moves the bytes into the buffer and the block is logged; when
\* it fails on a later page of the user's buffer some bytes may have moved, and
\* the loop stops without logging the block.
Splice(blk, at, from, len) ==
  [o \in Offset |-> IF at <= o /\ o < at + len THEN Src(from + o - at) ELSE blk[o]]
TornRange(p) ==
  [file EXCEPT ![ip[op[p].f]] =
     [j \in DOMAIN @ |-> IF Pos(p) <= j /\ j < Pos(p) + CopyLen(p) THEN Torn
                                                                   ELSE @[j]]]

writei_copy(p) ==
  LET o == op[p]
      b == Mapped(ip[o.f], Bn(p))
      len == CopyLen(p)
      Moved(n) == [data EXCEPT ![b] = Splice(@, Pos(p) % BSIZE, o.i + o.tot, n)]
  IN  /\ At(p, "writei")
      /\ o.tot < o.n1
      /\ b # 0
      /\ \/ /\ data' = Moved(len)
            /\ Set(p, [Logged(p, {DataBlock(b)}) EXCEPT !.tot = @ + len])
            /\ UNCHANGED file
         \/ /\ \E n \in 0 .. len - 1 : data' = Moved(n)
            /\ file' = TornRange(p)
            /\ Set(p, [o EXCEPT !.pc = "iupdate"])
      /\ UNCHANGED <<bitmap, addrs, size, lock, off, done, panicked>>

writei_loop_end(p) ==
  /\ At(p, "writei")
  /\ op[p].tot >= op[p].n1
  /\ Set(p, [op[p] EXCEPT !.pc = "iupdate"])
  /\ UNCHANGED <<disk, lock, off, done, file, panicked>>

\* The end of writei, and of the turn of filewrite's loop: the size and the
\* offset advance by what was written, the inode is logged and unlocked; a short
\* write ends the call with -1.
\* Mutant: the size is set to the end of the write even if it is inside the file.
NewSize_Bug(i, end) == end

NewSize(i, end) == IF end > size[i] THEN end ELSE size[i]

Written(p, i) ==
  [j \in DOMAIN file[i] \union (0 .. Pos(p) - 1) |->
     IF op[p].off <= j /\ j < Pos(p) THEN Src(op[p].i + j - op[p].off)
     ELSE IF j \in DOMAIN file[i] THEN file[i][j] ELSE 0]

iupdate(p) ==
  LET o == op[p]
      i == ip[o.f]
  IN  /\ At(p, "iupdate")
      /\ size' = [size EXCEPT ![i] = NewSize(i, Pos(p))]
      /\ off' = [off EXCEPT ![o.f] = @ + o.tot]
      /\ done' = [done EXCEPT ![o.f] = @ \union (o.off .. Pos(p) - 1)]
      /\ file' = [file EXCEPT ![i] = Written(p, i)]
      /\ lock' = [lock EXCEPT ![i] = NoProc]
      /\ IF o.tot = o.n1
         THEN Set(p, [Idle EXCEPT !.pc = "filewrite", !.f = o.f, !.n = o.n,
                                  !.i = o.i + o.n1])
         ELSE Set(p, Idle)
      /\ UNCHANGED <<bitmap, data, addrs, panicked>>

-----------------------------------------------------------------------------
(* fileread and readi, and open with its truncation. *)

\* What readi copies out; it stops at a block bmap cannot give it.
ReadLen(i, pos, n) ==
  IF pos > size[i] THEN 0 ELSE Min({n, size[i] - pos})

\* The blocks readi asks bmap for; one that is not there would be allocated, and
\* log_write panics outside of a transaction.
ReadBlocks(i, pos, n) == {j \div BSIZE : j \in pos .. pos + ReadLen(i, pos, n) - 1}

fileread(p, f, n) ==
  LET i == ip[f]
      r == ReadLen(i, off[f], n)
  IN  /\ Call(p)
      /\ lock[i] = NoProc
      /\ panicked' = (\E bn \in ReadBlocks(i, off[f], n) : Mapped(i, bn) = 0)
      /\ \/ /\ off' = [off EXCEPT ![f] = @ + r]
            /\ done' = [done EXCEPT ![f] = @ \union (off[f] .. off[f] + r - 1)]
         \/ r > 0 /\ UNCHANGED <<off, done>>       \* either_copyout fails
      /\ UNCHANGED <<disk, lock, op, file>>

\* open of the file f refers to, in place of an f nobody is using.
sys_open(p, f, trunc) ==
  /\ Call(p)
  /\ \A q \in Proc : op[q].pc # "user" => op[q].f # f
  /\ lock[ip[f]] = NoProc
  /\ off' = [off EXCEPT ![f] = 0]
  /\ done' = [done EXCEPT ![f] = {}]
  /\ IF trunc
     THEN /\ lock' = [lock EXCEPT ![ip[f]] = p]
          /\ Set(p, [Idle EXCEPT !.pc = "itrunc", !.f = f])
     ELSE UNCHANGED <<lock, op>>
  /\ UNCHANGED <<disk, file, panicked>>

\* itrunc frees the direct blocks, then those of the indirect block, then the
\* indirect block, a bfree per step; at the end the size is 0.
Direct(i) == {bn \in 0 .. NDIRECT - 1 : addrs[i][bn] # 0}
\* Mutant: itrunc forgets the blocks of the indirect block.
Listed_Bug(i, from) == {}

Listed(i, from) ==
  {o \in from .. BSIZE - 1 : Indirect(i) # 0 /\ data[Indirect(i)][o] # 0}

bfree(p, b, j) ==
  /\ panicked' = (b \notin bitmap)
  /\ bitmap' = bitmap \ {b}
  /\ Set(p, [Logged(p, {BitmapBlock(b)}) EXCEPT !.tot = j])

itrunc(p) ==
  LET i == ip[op[p].f] IN
  /\ At(p, "itrunc")
  /\ \/ /\ Direct(i) # {}
        /\ bfree(p, addrs[i][Min(Direct(i))], 0)
        /\ addrs' = [addrs EXCEPT ![i][Min(Direct(i))] = 0]
        /\ UNCHANGED <<size, lock, file, data>>
     \/ /\ Direct(i) = {} /\ Listed(i, op[p].tot) # {}
        /\ LET j == Min(Listed(i, op[p].tot))
           IN  bfree(p, data[Indirect(i)][j], j + 1)
        /\ UNCHANGED <<size, lock, file, data, addrs>>
     \/ /\ Direct(i) = {} /\ Listed(i, op[p].tot) = {} /\ Indirect(i) # 0
        /\ bfree(p, Indirect(i), 0)
        /\ addrs' = [addrs EXCEPT ![i][NDIRECT] = 0]
        /\ UNCHANGED <<size, lock, file, data>>
     \/ /\ Direct(i) = {} /\ Indirect(i) = 0
        /\ size' = [size EXCEPT ![i] = 0]
        /\ file' = [file EXCEPT ![i] = [j \in {} |-> 0]]
        /\ lock' = [lock EXCEPT ![i] = NoProc]
        /\ Set(p, Idle)
        /\ UNCHANGED <<bitmap, data, addrs, panicked>>
  /\ UNCHANGED <<off, done>>

-----------------------------------------------------------------------------

Init ==
  /\ bitmap = {}
  /\ data \in [Block -> [Offset -> {1}]]      \* left from deleted files
  /\ addrs = [i \in Inode |-> [bn \in 0 .. NDIRECT |-> 0]]
  /\ size = [i \in Inode |-> 0]
  /\ lock = [i \in Inode |-> NoProc]
  /\ off = [f \in File |-> 0]
  /\ op = [p \in Proc |-> Idle]
  /\ done = [f \in File |-> {}]
  /\ file = [i \in Inode |-> [j \in {} |-> 0]]
  /\ calls = 0
  /\ panicked = FALSE

Next ==
  \E p \in Proc :
    \/ \E f \in File, n \in Amount : filewrite(p, f, n) \/ fileread(p, f, n)
    \/ \E f \in File, trunc \in BOOLEAN : sys_open(p, f, trunc)
    \/ chunk(p) \/ filewrite_end(p)
    \/ bmap_alloc(p) \/ writei_copy(p) \/ writei_loop_end(p) \/ iupdate(p)
    \/ itrunc(p)

Spec == Init /\ [][Next]_vars

-----------------------------------------------------------------------------
(* Properties. *)

TypeOK ==
  /\ bitmap \subseteq Block
  /\ \A i \in Inode : size[i] \in 0 .. MAXFILE * BSIZE
  /\ \A f \in File : off[f] \in 0 .. MAXFILE * BSIZE
  /\ \A i \in Inode : lock[i] \in Proc \union {NoProc}

\* No panic: bmap in range, no free block freed, and, since every block below
\* the size of a file is mapped, fileread never makes bmap allocate, which
\* would log a block outside of a transaction.
NoPanic == TypeOK /\ ~panicked

\* The blocks of inode i, those itrunc has freed already left out, each with
\* the place that names it.
Freed(i) == IF lock[i] # NoProc /\ op[lock[i]].pc = "itrunc"
              THEN op[lock[i]].tot ELSE 0
BlocksOf(i) ==
  {<<i, bn, addrs[i][bn]>> : bn \in {bn \in 0 .. NDIRECT : addrs[i][bn] # 0}}
  \union {<<i, NDIRECT + 1 + o, data[Indirect(i)][o]>> :
     o \in {o \in Freed(i) .. BSIZE - 1 : Indirect(i) # 0 /\ data[Indirect(i)][o] # 0}}

\* Nothing panics, and the bitmap marks exactly the blocks that the inodes and
\* indirect blocks name, none of them twice, also when the disk fills up half-way
\* through a write and while another file is being truncated.
BlocksExact ==
  LET named == UNION {BlocksOf(i) : i \in Inode}
  IN  /\ NoPanic
      /\ {t[3] : t \in named} = bitmap
      /\ Cardinality(named) = Cardinality(bitmap)

Content(i) ==
  [j \in 0 .. size[i] - 1 |->
     LET b == Mapped(i, j \div BSIZE) IN IF b = 0 THEN 0 ELSE data[b][j % BSIZE]]

\* A file nobody has locked holds what the completed writes put there, byte for
\* byte through direct and indirect blocks, and nothing of the blocks' previous
\* owners; only bytes under a failed copy are unknown.
ContentExact ==
  \A i \in Inode : lock[i] = NoProc =>
    /\ DOMAIN file[i] = 0 .. size[i] - 1
    /\ \A j \in DOMAIN file[i] : file[i][j] \in {Torn, Content(i)[j]}

\* What the processes that share an open file read and write follows on from what
\* was read and written before: f->off is the end of it, and no stretch is gone over
\* twice or left out.
OffsetExact == \A f \in File : done[f] = 0 .. off[f] - 1

\* A turn of filewrite's loop logs at most MAXOPBLOCKS blocks, which is what
\* begin_op has reserved, at every alignment, and even if every block that bmap
\* allocates has a bitmap block of its own.
TransactionFits ==
  \A p \in Proc : op[p].pc \in {"writei", "iupdate"} =>
    Cardinality(op[p].tx \union {InodeBlock(ip[op[p].f])}) <= MAXOPBLOCKS
=============================================================================
