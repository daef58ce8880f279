----------------------------- MODULE LogProofs -----------------------------
(* Theorems about Log: its inductive invariant, and that it implements AtomicStore. *)
EXTENDS LogSteps, FiniteSetTheorems

\* The facts about Cardinality that the step lemmas assume.
LEMMA Counting == CountFacts
<1>1. ASSUME NEW S \in SUBSET Proc
      PROVE  /\ IsFiniteSet(S) /\ Cardinality(S) \in Nat
             /\ Cardinality(S) = 0 <=> S = {}
  <2>1. IsFiniteSet(S)
    BY FS_Subset, ProcAssumption, Zenon
  <2> QED
    BY <2>1, FS_CardinalityType, FS_EmptySet, ZenonT(30)
<1>2. ASSUME NEW S \in SUBSET Proc, NEW p \in Proc, p \notin S
      PROVE  Cardinality(S \cup {p}) = Cardinality(S) + 1
  BY <1>1, <1>2, FS_AddElement, ZenonT(30)
<1>3. ASSUME NEW S \in SUBSET Proc, NEW p \in Proc, p \in S
      PROVE  /\ Cardinality(S \ {p}) = Cardinality(S) - 1
             /\ Cardinality(S) >= 1
             /\ Cardinality(S) = 1 => S = {p}
  <2>1. IsFiniteSet(S) /\ Cardinality(S) \in Nat /\ Cardinality(S) /= 0
    BY <1>1, <1>3, Zenon
  <2>2. Cardinality(S \ {p}) = Cardinality(S) - 1
    BY Zenon, <1>3, <2>1, FS_RemoveElement
  <2>3. S \ {p} \in SUBSET Proc
    OBVIOUS
  <2>4. Cardinality(S \ {p}) = 0 => S \ {p} = {}
    BY <1>1, <2>3, ZenonT(30)
  <2> QED
    BY <1>3, <2>1, <2>2, <2>4
<1>4. Cardinality({}) = 0
  BY FS_EmptySet, Zenon
<1> QED
  BY <1>1, <1>2, <1>3, <1>4, ZenonT(30) DEF CountFacts

----------------------------------------------------------------------------
(* begin_op's reservation. *)

\* As many pairs as the operations A can write at most.
LEMMA RoomBound ==
  ASSUME NEW A \in SUBSET Proc, NEW R \in SUBSET (A \X (1..OpBlocks))
  PROVE  /\ IsFiniteSet(R) /\ Cardinality(R) \in Nat
         /\ Cardinality(A) \in Nat /\ Cardinality(R) <= Cardinality(A) * OpBlocks
<1>1. IsFiniteSet(A) /\ Cardinality(A) \in Nat
  BY ProcAssumption, FS_Subset, FS_CardinalityType, ZenonT(30)
<1>2. IsFiniteSet(1..OpBlocks) /\ Cardinality(1..OpBlocks) = OpBlocks
  BY SizeAssumption, FS_Interval
<1>3. /\ IsFiniteSet(A \X (1..OpBlocks))
      /\ Cardinality(A \X (1..OpBlocks)) = Cardinality(A) * OpBlocks
  BY <1>1, <1>2, FS_Product, Zenon
<1>4. IsFiniteSet(R) /\ Cardinality(R) <= Cardinality(A) * OpBlocks
  BY <1>3, FS_Subset, ZenonT(30)
<1> QED BY <1>1, <1>4, FS_CardinalityType, Zenon

\* Fewer pairs.
LEMMA RoomShrinks ==
  ASSUME NEW A \in SUBSET Proc, NEW R \in SUBSET (A \X (1..OpBlocks)), NEW T \in SUBSET R
  PROVE  Cardinality(T) \in Nat /\ Cardinality(T) <= Cardinality(R)
<1>1. IsFiniteSet(R)
  BY RoomBound, ZenonT(30)
<1> QED BY <1>1, FS_Subset, FS_CardinalityType, Zenon

\* One element more, or less.
LEMMA OneMore ==
  ASSUME NEW S, IsFiniteSet(S), NEW e
  PROVE  /\ IsFiniteSet(S \cup {e})
         /\ e \notin S => Cardinality(S \cup {e}) = Cardinality(S) + 1
BY FS_AddElement, Zenon

LEMMA OneLess ==
  ASSUME NEW S, IsFiniteSet(S), NEW e \in S
  PROVE  Cardinality(S \ {e}) = Cardinality(S) - 1
BY FS_RemoveElement, Zenon

\* One reservation more leaves space for one block of each operation unused.
LEMMA Reserve ==
  ASSUME NEW o \in Nat, NEW k \in Nat, NEW m \in Nat, k < m
  PROVE  (o + 1) * k + (o + 1) <= (o + 1) * m
<1>1. PICK d \in Nat : m = k + 1 + d
  <2> WITNESS m - k - 1 \in Nat
  <2> QED OBVIOUS
<1>2. (o + 1) * m = (o + 1) * k + (o + 1) + (o + 1) * d /\ (o + 1) * d >= 0
  BY <1>1
<1> QED BY <1>2

\* ... so that two operations together leave two blocks.
LEMMA Fits ==
  ASSUME NEW o \in Nat, NEW k \in Nat, NEW m \in Nat, k < m, o >= 1,
         NEW n \in Nat, NEW r \in Nat, NEW s \in Nat,
         n + (o + 1) * m <= s, r <= (o + 1) * k
  PROVE  n + r + 2 <= s
<1> DEFINE a == (o + 1) * k
           z == (o + 1) * m
<1>1. a \in Nat /\ z \in Nat /\ r <= a /\ n + z <= s
  OBVIOUS
<1>2. a + (o + 1) <= z
  BY Reserve, Zenon
<1> HIDE DEF a, z
<1> QED BY <1>1, <1>2

\* The first operation of a transaction, and one that gives blocks back.
LEMMA FitsFirst ==
  ASSUME NEW k \in Nat, NEW m \in Nat, NEW s \in Nat, k < m, m < s,
         NEW r \in Nat, r <= (0 + 1) * k
  PROVE  Len(<<>>) + r + 2 <= s
OBVIOUS

LEMMA FitsFewer ==
  ASSUME NEW n \in Nat, NEW r \in Nat, NEW t \in Nat, NEW s \in Nat, n + r + 2 <= s, t <= r
  PROVE  n + t + 2 <= s
OBVIOUS

\* A block that moves from what is reserved to the header.
LEMMA FitsMoved ==
  ASSUME NEW n \in Nat, NEW m \in Nat, NEW r \in Nat, NEW t \in Nat, NEW s \in Nat,
         n + r + 2 <= s, m <= n + 1, t <= r - 1
  PROVE  m + t + 2 <= s
OBVIOUS

\* What appending a block, and writing one more block, do to the counts.
LEMMA OneBlock ==
  ASSUME NEW n \in Nat, NEW m, m = n \/ m = n + 1
  PROVE  m <= n + 1 /\ m \in Nat
OBVIOUS

LEMMA NextPair ==
  ASSUME NEW n \in Nat, n + 1 <= OpBlocks
  PROVE  n + 1 \in 1..OpBlocks /\ n + 1 > n
BY SizeAssumption

\* What the reservation needs of the sizes.  kernel/param.h has a log of three
\* reservations of ten blocks; an operation must write one block less than it
\* reserves.
Sizes == OpBlocks < MAXOPBLOCKS /\ MAXOPBLOCKS < LOGSIZE /\ LOGSIZE <= LogBlocks

\* Steps that neither enter nor leave an operation, nor touch the transaction.
LEMMA RoomKept ==
  ASSUME RoomInv, UNCHANGED <<written, panicked>>,
         \A p \in Proc : InOp(p)' <=> InOp(p),
         mode' = "up" => mode = "up" /\ lh' = lh
  PROVE  RoomInv'
<1>1. Room' = Room
  BY Zenon DEF Room, ActiveOps
<1> QED BY <1>1, ZenonT(30) DEF RoomInv, NoPanic, InLog

\* The empty transaction leaves room.
LEMMA RoomForOne ==
  ASSUME Sizes
  PROVE  Len(<<>>) + 0 + 2 <= LOGSIZE
BY SizeAssumption DEF Sizes

\* A transaction that is empty, or out of use, with no operation active.
LEMMA RoomEmpty ==
  ASSUME Sizes, \A p \in Proc : ~InOp(p)' /\ written'[p] = {},
         mode' = "up" => lh' = <<>>, ~panicked'
  PROVE  RoomInv'
<1>1. Cardinality(Room)' = 0
  <2>1. Room' = {}
    BY Zenon DEF Room, ActiveOps
  <2> QED BY <2>1, FS_EmptySet, ZenonT(30)
<1>2. IsFiniteSet({})
  BY FS_EmptySet, Zenon
<1>3. mode' = "up" => Len(lh') + Cardinality(Room)' + 2 <= LOGSIZE
  BY <1>1, RoomForOne, Zenon
<1> QED BY <1>2, <1>3, Zenon DEF RoomInv, NoPanic

\* begin_op: the reservation is for one block more than the operation writes,
\* and the operations already active have one to spare each.
LEMMA begin_op_Room ==
  ASSUME Sizes, IInv, RoomInv, NEW p \in Proc, begin_op(p), ~(committing \/ LogFull)
  PROVE  RoomInv'
<1> USE SizeAssumption
<1>0. /\ TypeOK /\ mode = "up" /\ pc[p] = "begin_op"
      /\ outstanding = Cardinality(ActiveOps) /\ outstanding \in Nat
      /\ outstanding = 0 => lh = <<>>
  BY Zenon DEF IInv, OneCommitter, CommitInv, TypeOK, begin_op, Up
<1>1. /\ outstanding' = outstanding + 1
      /\ \A q \in Proc : InOp(q)' <=> InOp(q) \/ q = p
      /\ UNCHANGED <<lh, mode, panicked, written>>
  BY <1>0, ZenonT(30) DEF begin_op, TypeOK, InOp
<1>2. Cardinality(ActiveOps') = outstanding + 1
  <2>1. ActiveOps' = ActiveOps \cup {p} /\ p \notin ActiveOps
    BY <1>0, <1>1, ZenonT(30) DEF ActiveOps, InOp
  <2>2. IsFiniteSet(ActiveOps)
    BY ProcAssumption, FS_Subset, ZenonT(30) DEF ActiveOps
  <2> QED BY <1>0, <2>1, <2>2, FS_AddElement, Zenon
<1>3. Cardinality(Room') \in Nat /\ Cardinality(Room') <= (outstanding + 1) * OpBlocks
  <2>1. ActiveOps' \in SUBSET Proc /\ Room' \in SUBSET (ActiveOps' \X (1..OpBlocks))
    BY ZenonT(30) DEF ActiveOps, Room
  <2> QED BY <1>2, <2>1, RoomBound, Zenon
<1>4. Len(lh) + Cardinality(Room') + 2 <= LOGSIZE
  <2>1. Len(lh) \in Nat
    BY <1>0 DEF TypeOK
  <2>3. Len(lh) + (outstanding + 1) * MAXOPBLOCKS <= LOGSIZE
    BY <1>0, <2>1 DEF LogFull
  <2>4. CASE outstanding = 0
    BY <1>0, <1>3, <2>4, FitsFirst, Zenon DEF Sizes
  <2>5. CASE outstanding >= 1
    BY <1>0, <1>3, <2>1, <2>3, <2>5, Fits, ZenonT(30) DEF Sizes
  <2> QED BY <1>0, <2>4, <2>5
<1>5. \A q \in Proc : IsFiniteSet(written'[q]) /\ (~InOp(q)' => written'[q] = {})
  BY <1>1, Zenon DEF RoomInv
<1>6. \A q \in Proc : written'[q] \subseteq InLog(lh')
  BY <1>0, <1>1, ZenonT(30) DEF RoomInv
<1> QED BY <1>0, <1>1, <1>4, <1>5, <1>6, ZenonT(30) DEF RoomInv, NoPanic

\* log_write: either the operation wrote the block before, and it is in the
\* transaction, or the block uses up one pair of the operation.
LEMMA log_write_Room ==
  ASSUME Sizes, IInv, RoomInv, NEW p \in Proc, NEW b \in Block, NEW v \in Value,
         log_write(p, b, v)
  PROVE  RoomInv'
<1> USE SizeAssumption
<1> DEFINE n == Cardinality(written[p])
<1>0. /\ TypeOK /\ mode = "up" /\ InOp(p) /\ ~panicked
      /\ outstanding = Cardinality(ActiveOps) /\ outstanding \in Nat
      /\ IsFiniteSet(written[p]) /\ written[p] \subseteq InLog(lh)
      /\ Len(lh) \in Nat /\ Len(lh) + Cardinality(Room) + 2 <= LOGSIZE
  BY DEF IInv, OneCommitter, TypeOK, RoomInv, log_write, Up
<1>1. ActiveOps \in SUBSET Proc /\ Room \in SUBSET (ActiveOps \X (1..OpBlocks))
  BY Zenon DEF ActiveOps, Room
<1>2. IsFiniteSet(Room) /\ Cardinality(Room) \in Nat
  BY <1>1, RoomBound, Zenon
<1>3. outstanding >= 1
  BY <1>0, Counting, InOpNoCommit, ZenonT(30)
<1>4. ~(TooBig \/ outstanding < 1)
  BY <1>0, <1>2, <1>3 DEF TooBig, Sizes
<1>5. /\ lh' = Absorb(b) /\ UNCHANGED <<pc, mode, panicked>>
      /\ written'[p] = written[p] \cup {b}
      /\ \A q \in Proc : q /= p => written'[q] = written[q]
      /\ Cardinality(written[p] \cup {b}) <= OpBlocks
  BY <1>0, <1>4, ZenonT(30) DEF log_write, TypeOK
<1>6. /\ IsFiniteSet(written'[p]) /\ n \in Nat
      /\ b \notin written[p] => Cardinality(written'[p]) = n + 1
  <2>1. n \in Nat
    BY <1>0, FS_CardinalityType, ZenonT(30)
  <2>2. /\ IsFiniteSet(written[p] \cup {b})
        /\ b \notin written[p] => Cardinality(written[p] \cup {b}) = n + 1
    BY <1>0, OneMore, Zenon
  <2> QED BY <1>5, <2>1, <2>2, ZenonT(30)
<1>7. InLog(lh') = InLog(lh) \cup {b}
  <2>1. CASE b \in InLog(lh)
    BY <1>5, <2>1, Zenon DEF Absorb
  <2>2. CASE b \notin InLog(lh)
    BY <1>0, <1>5, <2>2, AppendUnlisted, ZenonT(30) DEF Absorb, TypeOK
  <2> QED BY <2>1, <2>2, ZenonT(30)
<1>8. CASE b \in written[p]
  <2>1. lh' = lh /\ written' = written
    <3>1. lh' = lh
      BY <1>0, <1>5, <1>8, Zenon DEF Absorb
    <3>2. written \in [Proc -> SUBSET Block] /\ written' \in [Proc -> SUBSET Block]
      BY <1>0, ZenonT(30) DEF log_write, TypeOK
    <3>3. \A q \in Proc : written'[q] = written[q]
      BY <1>5, <1>8, Zenon
    <3>4. written' = written
      BY <3>2, <3>3, SameWritten, ZenonT(30)
    <3> QED BY <3>1, <3>4, ZenonT(30)
  <2> QED BY <1>5, <2>1, RoomKept, Zenon DEF InOp
<1>9. CASE b \notin written[p]
  <2>1. Len(lh') <= Len(lh) + 1 /\ Len(lh') \in Nat
    <3>1. Len(lh') = Len(lh) \/ Len(lh') = Len(lh) + 1
      BY <1>0, <1>5, AppendUnlisted, Zenon DEF Absorb, TypeOK
    <3> QED BY <1>0, <3>1, OneBlock, ZenonT(30)
  <2>2. <<p, n + 1>> \in Room
    <3>1. n + 1 \in 1..OpBlocks /\ n + 1 > n
      BY <1>5, <1>6, <1>9, NextPair, Zenon
    <3> QED BY <1>0, <3>1, ZenonT(30) DEF Room, ActiveOps
  <2>3. Room' \in SUBSET (Room \ {<<p, n + 1>>})
    <3> SUFFICES ASSUME NEW q \in ActiveOps, NEW i \in 1..OpBlocks,
                        i > Cardinality(written'[q])
                 PROVE  <<q, i>> \in Room /\ <<q, i>> /= <<p, n + 1>>
      BY <1>5 DEF Room, ActiveOps, InOp
    <3>1. CASE q = p
      <4>1. i > n + 1
        BY <1>6, <1>9, <3>1, Zenon
      <4>2. i > n /\ i /= n + 1
        BY <1>6, <4>1
      <4> QED BY <3>1, <4>2, ZenonT(30) DEF Room
    <3>2. CASE q /= p
      BY <1>5, <3>2, Zenon DEF Room, ActiveOps
    <3> QED BY <3>1, <3>2, ZenonT(30)
  <2>4. Cardinality(Room \ {<<p, n + 1>>}) = Cardinality(Room) - 1
    BY <1>2, <2>2, OneLess, ZenonT(30)
  <2>5. Cardinality(Room') \in Nat /\ Cardinality(Room') <= Cardinality(Room) - 1
    <3>1. Cardinality(Room') \in Nat /\ Cardinality(Room') <= Cardinality(Room \ {<<p, n + 1>>})
      BY <1>1, <2>3, RoomShrinks, ZenonT(30)
    <3> QED BY <2>4, <3>1, Zenon
  <2>6. Len(lh') + Cardinality(Room') + 2 <= LOGSIZE
    BY <1>0, <1>2, <2>1, <2>5, FitsMoved, Zenon
  <2>7. \A q \in Proc : /\ IsFiniteSet(written'[q]) /\ (~InOp(q)' => written'[q] = {})
                        /\ written'[q] \subseteq InLog(lh')
    BY <1>0, <1>5, <1>6, <1>7, ZenonT(30) DEF RoomInv, InOp
  <2> QED BY <1>0, <1>5, <2>6, <2>7, Zenon DEF RoomInv, NoPanic
<1> QED BY <1>8, <1>9, ZenonT(30)

\* end_op gives back the pairs of its operation.
LEMMA end_op_Room ==
  ASSUME Sizes, IInv, RoomInv, NEW p \in Proc, end_op(p)
  PROVE  RoomInv'
<1> USE SizeAssumption
<1>0. TypeOK /\ InOp(p) /\ ~committing
  BY Counting, InOpNoCommit, ZenonT(30) DEF IInv, end_op
<1>1. /\ UNCHANGED <<lh, mode>> /\ ~panicked'
      /\ written'[p] = {} /\ \A q \in Proc : q /= p => written'[q] = written[q]
  BY <1>0, Zenon DEF end_op, TypeOK
<1>2. \A q \in Proc : InOp(q)' <=> InOp(q) /\ q /= p
  BY <1>0, ZenonT(30) DEF end_op, TypeOK, InOp, wakeup
<1>3. Room' \in SUBSET Room
  BY <1>1, <1>2, ZenonT(30) DEF Room, ActiveOps
<1>4. ActiveOps \in SUBSET Proc /\ Room \in SUBSET (ActiveOps \X (1..OpBlocks))
  BY Zenon DEF ActiveOps, Room
<1>5. /\ Cardinality(Room') \in Nat /\ Cardinality(Room) \in Nat
      /\ Cardinality(Room') <= Cardinality(Room)
  BY <1>3, <1>4, RoomShrinks, Zenon
<1>6. mode' = "up" => Len(lh') + Cardinality(Room') + 2 <= LOGSIZE
  <2>1. lh \in Seq(Block)
    BY <1>0, Zenon DEF TypeOK
  <2>2. Len(lh) \in Nat
    BY <2>1
  <2> QED BY <1>1, <1>5, <2>2, FitsFewer, ZenonT(30) DEF RoomInv
<1>7. \A q \in Proc : IsFiniteSet(written'[q]) /\ (~InOp(q)' => written'[q] = {})
  BY <1>1, <1>2, FS_EmptySet, Zenon DEF RoomInv
<1>8. mode' = "up" => \A q \in Proc : written'[q] \subseteq InLog(lh')
  BY <1>1, ZenonT(30) DEF RoomInv, InLog
<1> QED BY <1>1, <1>6, <1>7, <1>8, Zenon DEF RoomInv, NoPanic

\* The other steps of a process.
LEMMA CommitStep_Room ==
  ASSUME Sizes, IInv, RoomInv, NEW p \in Proc, Call(p) \/ CommitStep(p)
  PROVE  RoomInv'
<1>0. TypeOK /\ RoomInv
  BY ZenonT(30) DEF IInv
<1>1. CASE erase(p)
  <2>1. \A q \in Proc : ~InOp(q)
    BY <1>1, Counting, InOpNoCommit, ZenonT(30) DEF erase, CommitPC
  <2>2. \A q \in Proc : ~InOp(q)' /\ written'[q] = {}
    BY <1>0, <1>1, <2>1, Zenon DEF erase, TypeOK, RoomInv, InOp
  <2> QED BY <1>0, <1>1, <2>2, RoomEmpty, ZenonT(30) DEF erase, RoomInv, NoPanic
<1>2. CASE Call(p) \/ write_log(p) \/ write_head(p) \/ install_trans(p)
  <2>1. /\ \A q \in Proc : InOp(q)' <=> InOp(q)
        /\ UNCHANGED <<written, panicked, lh, mode>>
    BY <1>0, <1>2, ZenonT(30)
       DEF Call, write_log, write_head, install_trans, TypeOK, InOp, log
  <2> QED BY <2>1, RoomKept, ZenonT(30)
<1>3. CASE end_commit(p)
  <2>1. /\ \A q \in Proc : InOp(q)' <=> InOp(q)
        /\ UNCHANGED <<written, panicked, lh, mode>>
    BY <1>0, <1>3, ZenonT(30) DEF end_commit, TypeOK, InOp, wakeup
  <2> QED BY <2>1, RoomKept, ZenonT(30)
<1> QED BY <1>1, <1>2, <1>3, ZenonT(30) DEF CommitStep

\* Every step keeps enough space in the log for the active operations.
LEMMA RoomStep ==
  ASSUME Sizes, IInv, RoomInv, [Next]_vars
  PROVE  RoomInv'
<1>0. TypeOK /\ BootInv
  BY ZenonT(30) DEF IInv
<1>1. ASSUME NEW p \in Proc, begin_op(p) PROVE RoomInv'
  <2>1. CASE committing \/ LogFull
    <3>1. /\ \A q \in Proc : InOp(q)' <=> InOp(q)
          /\ UNCHANGED <<written, panicked, lh, mode>>
      BY <1>0, <1>1, <2>1 DEF begin_op, TypeOK, InOp
    <3> QED BY <3>1, RoomKept, ZenonT(30)
  <2> QED BY <1>1, <2>1, begin_op_Room, ZenonT(30)
<1>2. ASSUME NEW b \in Block, Bread(b) \/ Recycle(b) PROVE RoomInv'
  BY <1>2, RoomKept, ZenonT(30) DEF Bread, Recycle, InOp, log
<1>3. CASE LoseMemory
  BY <1>3, RoomEmpty, Zenon DEF LoseMemory, InOp
<1>4. CASE read_head \/ recover_install
  BY <1>4, RoomKept DEF read_head, recover_install, InOp
<1>5. CASE recover_clear
  <2>1. \A p \in Proc : ~InOp(p)' /\ written'[p] = {}
    BY <1>0, <1>5, ZenonT(30) DEF recover_clear, BootInv, RoomInv, InOp
  <2> QED BY <1>5, <2>1, RoomEmpty, ZenonT(30) DEF recover_clear, RoomInv, NoPanic
<1>6. CASE UNCHANGED vars
  BY <1>6, RoomKept, ZenonT(30) DEF vars, log, InOp
<1> QED
  BY <1>1, <1>2, <1>3, <1>4, <1>5, <1>6, end_op_Room, log_write_Room, CommitStep_Room, ZenonT(30)
     DEF Next, Crash, CrashInLogWrite, CrashInInstall
----------------------------------------------------------------------------
(* The theorems. *)

\* In every reachable state, for any processes, blocks, values and sizes, the
\* log, the header, the cache and the home blocks of kernel/log.c agree as
\* IInv says.
THEOREM LogInvariant == Spec => []IInv
<1> QED
  BY Counting, LogInit, LogStep, PTL DEF Spec

\* The variables keep their types for any sizes; in particular neither header
\* of kernel/log.c ever lists more blocks than the on-disk log has room for.
THEOREM LogTypeOK == Spec => []TypeOK
<1>1. IInv => TypeOK
  BY Zenon DEF IInv
<1> QED
  BY <1>1, LogInvariant, PTL

\* What the file system reads is what log_write last wrote, whatever the
\* cache recycles and however far a commit has come (log_write, install_trans).
THEOREM LogReadsLatest == Spec => []ReadsLatest
<1> QED
  BY InvReadsLatest, LogInvariant, PTL

\* When the last end_op has returned, its group of operations is on the disk.
THEOREM LogQuiescentIsDurable == Spec => []QuiescentIsDurable
<1> QED
  BY InvQuiescent, LogInvariant, PTL

\* No process sleeps in begin_op once there is room for it and no commit:
\* every wakeup(&log) that is needed is there.
THEOREM LogNoLostWakeup == Spec => []NoLostWakeup
<1>1. IInv => NoLostWakeup
  BY Zenon DEF IInv
<1> QED
  BY <1>1, LogInvariant, PTL

\* Crash atomicity of kernel/log.c: for any processes, blocks and log size,
\* the log implements the abstract store, so that file system calls become
\* durable in whole groups and no crash shows part of one.
THEOREM LogImplementsStore == Spec => ImplementsStore
<1>1. Init => Store!Init
  BY OverlayEmpty DEF Init, Store!Init, ActiveOps, InOp
<1>2. IInv /\ IInv' /\ [Next]_vars => [Store!Next]_(Store!vars)
  BY Counting, StoreStep, ZenonT(30)
<1> QED
  BY <1>1, <1>2, LogInvariant, PTL DEF Spec, ImplementsStore, Store!Spec

\* log_write and end_op never panic, however operations overlap, join a
\* transaction that others left, and write blocks again: begin_op's test of
\* outstanding reservations is enough, for every number of processes, when an
\* operation writes fewer blocks than it reserves.
THEOREM LogNoPanic == ASSUME Sizes PROVE Spec => []NoPanic
<1>1. Init => RoomInv
  <2> SUFFICES ASSUME Init PROVE RoomInv
    OBVIOUS
  <2>1. IsFiniteSet({})
    BY FS_EmptySet, ZenonT(30)
  <2> QED BY <2>1, Zenon DEF Init, RoomInv, NoPanic, InOp
<1>2. IInv /\ RoomInv /\ [Next]_vars => RoomInv'
  BY RoomStep, Zenon
<1>3. RoomInv => NoPanic
  BY Zenon DEF RoomInv
<1> QED
  BY <1>1, <1>2, <1>3, LogInvariant, PTL DEF Spec
============================================================================
