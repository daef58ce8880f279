----------------------------- MODULE LogSteps -----------------------------
(* Lemmas about Log: its helpers, its crashes, and its steps up to end_op. *)
EXTENDS Log, TLAPS

\* Writing a block twice in an operation changes no operation's blocks.
LEMMA SameWritten ==
  ASSUME written \in [Proc -> SUBSET Block], written' \in [Proc -> SUBSET Block],
         \A q \in Proc : written'[q] = written[q]
  PROVE  written' = written
OBVIOUS

\* Installing a header gives, for a block it lists, the log block beside it.
LEMMA OverlayListed ==
  ASSUME NEW d, NEW l, NEW h \in Seq(Block), Distinct(h), NEW i \in 1..Len(h)
  PROVE  h[i] \in Block /\ Overlay(d, h, l)[h[i]] = l[i]
<1>1. h[i] \in Block /\ h[i] \in InLog(h)
  BY DEF InLog
<1>2. (CHOOSE j \in 1..Len(h) : h[j] = h[i]) = i
  BY Zenon DEF Distinct
<1> QED
  BY Zenon, <1>1, <1>2 DEF Overlay

\* ... and leaves the other blocks alone.
LEMMA OverlayUnlisted ==
  ASSUME NEW d, NEW l, NEW h, NEW b \in Block, b \notin InLog(h)
  PROVE  Overlay(d, h, l)[b] = d[b]
  BY Zenon DEF Overlay

\* With an empty header the disk is what it is.
LEMMA OverlayEmpty ==
  ASSUME NEW d, NEW l
  PROVE  Overlay(d, <<>>, l) = [b \in Block |-> d[b]]
  BY DEF Overlay, InLog

\* The header and the log blocks it lists decide for the listed blocks, and
\* the home blocks for the others.
LEMMA OverlaySame ==
  ASSUME NEW d, NEW e, NEW l, NEW h,
         \A b \in Block : b \notin InLog(h) => d[b] = e[b]
  PROVE  Overlay(d, h, l) = Overlay(e, h, l)
  BY DEF Overlay

\* A block is listed at some place.
LEMMA ListedAt ==
  ASSUME NEW h \in Seq(Block), NEW b \in InLog(h)
  PROVE  \E i \in 1..Len(h) : h[i] = b
  BY Zenon DEF InLog

\* Adding to a header a block that it does not list.
LEMMA AppendUnlisted ==
  ASSUME NEW h \in Seq(Block), NEW b \in Block, b \notin InLog(h)
  PROVE  /\ Len(Append(h, b)) = Len(h) + 1
         /\ Append(h, b)[Len(h) + 1] = b
         /\ \A i \in 1..Len(h) : Append(h, b)[i] = h[i] /\ h[i] \in Block /\ h[i] /= b
         /\ InLog(Append(h, b)) = InLog(h) \cup {b}
         /\ Distinct(h) => Distinct(Append(h, b))
<1>1. Len(Append(h, b)) = Len(h) + 1 /\ Append(h, b)[Len(h) + 1] = b /\ Len(h) \in Nat
  OBVIOUS
<1>2. \A i \in 1..Len(h) : Append(h, b)[i] = h[i] /\ h[i] \in Block
  OBVIOUS
<1>3. \A i \in 1..Len(h) : h[i] /= b
  BY Zenon DEF InLog
<1>4. 1..(Len(h) + 1) = (1..Len(h)) \cup {Len(h) + 1}
  BY <1>1
<1>5. InLog(Append(h, b)) = InLog(h) \cup {b}
  BY <1>1, <1>2, <1>4, ZenonT(30) DEF InLog
<1>6. Distinct(h) => Distinct(Append(h, b))
  BY <1>1, <1>2, <1>3, <1>4 DEF Distinct
<1> QED
  BY <1>1, <1>2, <1>3, <1>5, <1>6, Zenon

\* wakeup only moves sleepers to the top of begin_op's loop.
LEMMA WakeupFacts ==
  ASSUME NEW f \in [Proc -> PCs]
  PROVE  /\ wakeup(f) \in [Proc -> PCs]
         /\ \A q \in Proc : wakeup(f)[q] /= "sleep"
         /\ \A q \in Proc : wakeup(f)[q] /= "begin_op" => wakeup(f)[q] = f[q]
         /\ \A q \in Proc : f[q] \notin {"sleep", "begin_op"} => wakeup(f)[q] = f[q]
  BY Zenon DEF wakeup, PCs

\* What the proofs need of Cardinality; proved in LogProofs.
CountFacts ==
  /\ Cardinality({}) = 0
  /\ \A S \in SUBSET Proc : /\ Cardinality(S) \in Nat
                            /\ Cardinality(S) = 0 => S = {}
  /\ \A S \in SUBSET Proc, p \in Proc :
        /\ p \notin S => Cardinality(S \cup {p}) = Cardinality(S) + 1
        /\ p \in S => Cardinality(S \ {p}) = Cardinality(S) - 1 /\ Cardinality(S) >= 1
        /\ p \in S /\ Cardinality(S) = 1 => S = {p}

\* The number of active operations when one begins and when one ends.
LEMMA ActiveCount ==
  ASSUME CountFacts, NEW S \in SUBSET Proc, NEW p \in Proc
  PROVE  /\ Cardinality(S) \in Nat
         /\ p \notin S => Cardinality(S \cup {p}) = Cardinality(S) + 1
         /\ p \in S => Cardinality(S \ {p}) = Cardinality(S) - 1 /\ Cardinality(S) >= 1
         /\ p \in S /\ Cardinality(S) = 1 => S = {p}
  BY Zenon DEF CountFacts

\* The invariant holds when the machine first boots, with an empty log.
LEMMA LogInit == ASSUME CountFacts PROVE Init => IInv
<1> SUFFICES ASSUME Init PROVE IInv
  OBVIOUS
<1> USE SizeAssumption, ValueAssumption DEF Init
<1>1. TypeOK
  <2>1. <<>> \in Seq(Block) /\ Len(<<>>) = 0
    OBVIOUS
  <2>2. disk \in [Block -> Content] /\ logdisk \in [Slot -> Content]
    BY Zenon DEF Content
  <2>3. pc \in [Proc -> PCs] /\ written \in [Proc -> SUBSET Block]
    BY Zenon DEF PCs
  <2>4. hdr \in Seq(Block) /\ Len(hdr) <= LogBlocks - 1
    BY <2>1
  <2>5. cache \in [Block -> Content \cup {NoBuf}] /\ refcnt \in [Block -> Nat]
    OBVIOUS
  <2> QED
    BY Zenon, <2>2, <2>3, <2>4, <2>5 DEF TypeOK
<1>2. OneCommitter
  <2>1. ActiveOps = {}
    BY Zenon DEF ActiveOps, InOp
  <2> QED
    BY <2>1, CountFacts, Zenon DEF CountFacts, OneCommitter, CommitPC
<1>3. Absorbed
  BY DEF Absorbed, Distinct
<1>4. DiskSound /\ latest = Overlay(disk, hdr, logdisk)
  BY OverlayEmpty, Zenon DEF DiskSound
<1>5. BootInv
  BY <1>4, Zenon DEF BootInv
<1>6. CacheInv /\ CommitInv /\ NoLostWakeup
  BY Zenon DEF CacheInv, CommitInv, NoLostWakeup, Installing
<1> QED
  BY <1>1, <1>2, <1>3, <1>4, <1>5, <1>6, Zenon DEF IInv

\* A crash, a torn write included, leaves durable what was durable.
LEMMA CrashFacts ==
  ASSUME IInv, Crash \/ CrashInInstall \/ \E p \in Proc : CrashInLogWrite(p)
  PROVE  /\ LoseMemory /\ UNCHANGED hdr /\ DiskSound'
         /\ Overlay(disk', hdr', logdisk') = Overlay(disk, hdr, logdisk)
         /\ disk' \in [Block -> Content] /\ logdisk' \in [Slot -> Content]
<1>1. TypeOK /\ DiskSound
  BY Zenon DEF IInv
<1>2. CASE Crash
  BY <1>1, <1>2, Zenon DEF Crash, durable, TypeOK, DiskSound
<1>3. ASSUME NEW p \in Proc, CrashInLogWrite(p)
      PROVE  /\ LoseMemory /\ UNCHANGED <<disk, hdr>> /\ hdr = <<>>
             /\ logdisk' \in [Slot -> Content]
  <2>1. hdr = <<>>
    BY <1>3, Zenon
       DEF CrashInLogWrite, IInv, OneCommitter, CommitPC, CacheInv, Installing, Up
  <2>2. logdisk' \in [Slot -> Content]
    BY Zenon, <1>1, <1>3 DEF CrashInLogWrite, TypeOK, Content
  <2> QED
    BY <1>3, <2>1, <2>2, Zenon DEF CrashInLogWrite
<1>4. CASE \E p \in Proc : CrashInLogWrite(p)
  <2>1. Overlay(disk', hdr', logdisk') = Overlay(disk, hdr, logdisk)
    BY <1>3, <1>4, OverlayEmpty, Zenon
  <2> QED
    BY <1>1, <1>3, <1>4, <2>1, Zenon DEF DiskSound, TypeOK
<1>5. CASE CrashInInstall
  <2>1. hdr = lh
    BY <1>5, Zenon DEF CrashInInstall, IInv, BootInv, CommitInv, Installing
  <2>2. lh[tail + 1] \in InLog(hdr) /\ lh[tail + 1] \in Block
    BY <1>1, <1>5, <2>1 DEF CrashInInstall, TypeOK, InLog
  <2>3. \A b \in Block : b \notin InLog(hdr) => disk'[b] = disk[b]
    BY <1>1, <1>5, <2>2, Zenon DEF CrashInInstall, TypeOK
  <2>4. Overlay(disk', hdr, logdisk) = Overlay(disk, hdr, logdisk)
    BY <2>3, OverlaySame
  <2>5. LoseMemory /\ UNCHANGED <<hdr, logdisk>>
    BY <1>5, Zenon DEF CrashInInstall
  <2>6. disk' \in [Block -> Content]
    BY <1>1, <1>5, Zenon DEF CrashInInstall, TypeOK, Content
  <2> QED
    BY <1>1, <2>4, <2>5, <2>6, Zenon DEF DiskSound, TypeOK
<1> QED
  BY <1>2, <1>4, <1>5, Zenon

\* A restart, after any of the three crashes, re-establishes the invariant:
\* all that is asked of the disk is that no torn block shows through.
LEMMA LogRestart ==
  ASSUME CountFacts, IInv, LoseMemory, UNCHANGED hdr, DiskSound', TypeOK'
  PROVE  IInv'
<1> USE DEF LoseMemory
<1>1. OneCommitter'
  <2>1. ActiveOps' = {}
    BY Zenon DEF ActiveOps, InOp
  <2> QED
    BY <2>1, CountFacts, Zenon DEF CountFacts, OneCommitter, CommitPC
<1>2. Absorbed'
  BY DEF IInv, Absorbed, Distinct
<1>3. BootInv'
  BY Zenon DEF BootInv
<1>4. CacheInv' /\ CommitInv' /\ NoLostWakeup'
  BY Zenon DEF CacheInv, CommitInv, NoLostWakeup, Installing
<1> QED
  BY <1>1, <1>2, <1>3, <1>4, Zenon DEF IInv

\* While a process writes to the log, nothing is committed on the disk.
LEMMA NotInstalling ==
  ASSUME IInv, NEW p \in Proc, mode = "up",
         pc[p] \in CommitPC \/ ~committing,
         ~Installing(p)
  PROVE  (\A q \in Proc : ~Installing(q)) /\ hdr = <<>>
  BY Zenon DEF IInv, OneCommitter, CommitPC, Installing, CacheInv

\* Someone inside an operation means that nobody is committing.
LEMMA InOpNoCommit ==
  ASSUME CountFacts, IInv, NEW p \in Proc, InOp(p)
  PROVE  /\ outstanding >= 1 /\ ~committing /\ mode = "up"
         /\ \A q \in Proc : pc[q] \notin CommitPC
<1>1. ActiveOps \in SUBSET Proc /\ p \in ActiveOps
  BY Zenon DEF ActiveOps
<1>2. Cardinality(ActiveOps) \in Nat /\ Cardinality(ActiveOps) >= 1
  BY Zenon, <1>1, ActiveCount
<1>3. outstanding >= 1 /\ ~committing
  BY <1>2 DEF IInv, OneCommitter
<1> QED
  BY <1>3, Zenon DEF IInv, OneCommitter, BootInv, InOp

\* Steps that move a process between states where it neither is in an
\* operation nor commits, and change nothing else, keep the invariant.
LEMMA IdleMove ==
  ASSUME IInv, TypeOK', NEW p \in Proc, NEW s \in {"begin_op", "sleep"},
         pc[p] \in {"idle", "begin_op"}, pc' = [pc EXCEPT ![p] = s],
         s = "sleep" => committing \/ LogFull,
         mode = "up",
         UNCHANGED <<durable, log, bufs, mode, panicked, written, latest>>
  PROVE  IInv'
<1> USE DEF durable, log, bufs
<1>0. /\ \A q \in Proc : pc'[q] \in CommitPC \cup {"in_op"} => pc'[q] = pc[q]
      /\ \A q \in Proc : pc[q] \in CommitPC \cup {"in_op"} => pc'[q] = pc[q]
  BY Zenon DEF IInv, TypeOK, PCs, CommitPC
<1>1. OneCommitter'
  <2>1. ActiveOps' = ActiveOps
    BY <1>0, Zenon DEF ActiveOps, InOp
  <2> QED
    BY <1>0, <2>1, Zenon DEF IInv, OneCommitter
<1>2. Absorbed' /\ DiskSound' /\ BootInv'
  BY Zenon DEF IInv, Absorbed, DiskSound, BootInv
<1>3. \A q \in Proc : Installing(q)' <=> Installing(q)
  BY <1>0, Zenon DEF Installing, CommitPC
<1>4. CacheInv'
  BY <1>3, Zenon DEF IInv, CacheInv
<1>5. CommitInv'
  BY SMTT(30), <1>0, <1>3 DEF IInv, CommitInv, CommitPC
<1>6. NoLostWakeup'
  BY Zenon DEF IInv, TypeOK, NoLostWakeup, Up, LogFull
<1> QED
  BY <1>1, <1>2, <1>4, <1>5, <1>6, Zenon DEF IInv

\* begin_op lets an operation in.
LEMMA BeginStep ==
  ASSUME CountFacts, IInv, TypeOK', NEW p \in Proc, begin_op(p), ~(committing \/ LogFull)
  PROVE  IInv'
<1> USE DEF durable, bufs
<1>0. /\ mode = "up" /\ ~panicked /\ ~committing /\ ~LogFull /\ pc[p] = "begin_op"
      /\ pc' = [pc EXCEPT ![p] = "in_op"] /\ outstanding' = outstanding + 1
      /\ UNCHANGED <<durable, lh, committing, tail, bufs, mode, panicked, latest>>
  BY Zenon DEF begin_op, Up
<1>1. \A q \in Proc : pc'[q] /= "in_op" => pc'[q] = pc[q]
  BY <1>0, Zenon DEF IInv, TypeOK
<1>2. \A q \in Proc : pc[q] \notin CommitPC /\ pc'[q] \notin CommitPC
  BY <1>0, <1>1, Zenon DEF IInv, OneCommitter, CommitPC
<1>3. OneCommitter'
  <2>1. ActiveOps' = ActiveOps \cup {p} /\ p \notin ActiveOps /\ ActiveOps \in SUBSET Proc
    BY <1>0, ZenonT(30) DEF ActiveOps, InOp, IInv, TypeOK
  <2>2. Cardinality(ActiveOps') = outstanding'
    BY <1>0, <2>1, ActiveCount, Zenon DEF IInv, OneCommitter
  <2> QED
    BY <1>0, <1>2, <2>2, Zenon DEF OneCommitter
<1>4. Absorbed' /\ DiskSound' /\ BootInv'
  BY <1>0, Zenon DEF IInv, Absorbed, DiskSound, BootInv
<1>5. CacheInv'
  BY <1>0, <1>2, ZenonT(30) DEF IInv, CacheInv, Installing, CommitPC
<1>6. CommitInv'
  BY <1>0, <1>2 DEF IInv, TypeOK, CommitInv, Installing, CommitPC
<1>7. NoLostWakeup'
  BY <1>0, <1>1, Zenon DEF IInv, NoLostWakeup, Up
<1> QED
  BY <1>3, <1>4, <1>5, <1>6, <1>7, Zenon DEF IInv

\* log_write adds a block to the transaction, absorbs it, or panics.
LEMMA WriteStep ==
  ASSUME CountFacts, IInv, TypeOK', NEW p \in Proc, NEW b \in Block, NEW v \in Value,
         log_write(p, b, v)
  PROVE  IInv'
<1> USE ValueAssumption DEF durable
<1>0. /\ mode = "up" /\ ~panicked /\ InOp(p)
      /\ cache' = [cache EXCEPT ![b] = v] /\ latest' = [latest EXCEPT ![b] = v]
      /\ UNCHANGED <<disk, logdisk, hdr, outstanding, committing, tail, mode, pc>>
  BY Zenon DEF log_write, Up
<1>1. /\ outstanding >= 1 /\ ~committing /\ \A q \in Proc : pc[q] \notin CommitPC
      /\ \A q \in Proc : ~Installing(q)
  BY <1>0, InOpNoCommit, Zenon DEF Installing, CommitPC
<1>1a. /\ cache \in [Block -> Content \cup {NoBuf}] /\ latest \in [Block -> Value]
      /\ refcnt \in [Block -> Nat] /\ lh \in Seq(Block) /\ Len(lh) \in Nat
  BY SMTT(30) DEF IInv, TypeOK
<1>1b. \A i \in 1..Len(lh) : lh[i] \in Block
  BY <1>1a
<1>2. hdr = <<>>
  BY <1>0, <1>1, Zenon DEF IInv, CacheInv
<1>3. OneCommitter' /\ DiskSound' /\ BootInv' /\ CommitInv'
  <2>1. OneCommitter' /\ BootInv'
    BY <1>0, Zenon DEF IInv, OneCommitter, BootInv, ActiveOps, InOp
  <2>2. DiskSound'
    BY ZenonT(30), <1>0 DEF IInv, DiskSound
  <2>3. CommitInv'
    BY <1>0, <1>1 DEF CommitInv, IInv, TypeOK, Installing, CommitPC
  <2> QED
    BY <2>1, <2>2, <2>3, Zenon
<1>4. CASE TooBig \/ outstanding < 1
  <2>1. panicked' = TRUE /\ UNCHANGED <<lh, refcnt>>
    BY <1>4, Zenon DEF log_write
  <2>2. Absorbed' /\ NoLostWakeup'
    BY ZenonT(30), <1>0, <2>1 DEF IInv, Absorbed, NoLostWakeup, Up
  <2>3. CacheInv'
    <3>1. \A c \in Block : cache[c] = NoBuf => disk[c] = latest[c]
      <4> SUFFICES ASSUME NEW c \in Block, cache[c] = NoBuf PROVE c \notin InLog(lh)
        BY <1>0, Zenon DEF IInv, CacheInv
      <4> SUFFICES ASSUME NEW i \in 1..Len(lh), lh[i] = c PROVE FALSE
        BY <1>1a, ListedAt, Zenon
      <4> QED
        BY ZenonT(30), <1>0, <1>1 DEF IInv, CacheInv
    <3> QED
      BY <1>0, <1>1, <1>1a, <1>1b, <2>1, <3>1, Zenon DEF IInv, CacheInv
  <2> QED
    BY Zenon, <1>3, <2>2, <2>3 DEF IInv
<1>5. CASE ~(TooBig \/ outstanding < 1)
  <2>1. /\ lh' = Absorb(b) /\ panicked' = FALSE
        /\ refcnt' = IF lh' /= lh THEN bpin(b) ELSE refcnt
    BY <1>0, <1>5 DEF log_write
  <2>2. CASE b \in InLog(lh)
    <3>1. lh' = lh /\ refcnt' = refcnt
      BY <2>1, <2>2, Zenon DEF Absorb
    <3>2. Absorbed' /\ NoLostWakeup'
      BY <1>0, <2>1, <3>1, Zenon DEF IInv, Absorbed, NoLostWakeup, Up, LogFull
    <3>3. CacheInv'
      BY <1>0, <1>1, <1>1a, <1>1b, <2>1, <2>2, <3>1, Zenon DEF IInv, CacheInv
    <3> QED
      BY Zenon, <1>3, <3>2, <3>3 DEF IInv
  <2>3. CASE b \notin InLog(lh)
    <3>0. lh' = Append(lh, b)
      BY <2>1, <2>3, Zenon DEF Absorb
    <3>1. /\ Len(lh') = Len(lh) + 1 /\ lh'[Len(lh) + 1] = b
          /\ \A i \in 1..Len(lh) : lh'[i] = lh[i] /\ lh[i] /= b
      <4>1. \A i \in 1..Len(lh) : lh[i] /= b
        BY <2>3, Zenon DEF InLog
      <4> QED
        BY SMTT(30), <1>1a, <3>0, <4>1
    <3>2. refcnt' = bpin(b)
      <4>1. lh' /= lh
        BY SMTT(30), <1>1a, <3>1
      <4> QED
        BY <2>1, <4>1, Zenon
    <3>3. Absorbed'
      BY ZenonT(30), <1>0, <1>1a, <2>3, <3>0, AppendUnlisted DEF IInv, Absorbed
    <3>4. NoLostWakeup'
      BY SMTT(30), <1>0, <1>1, <1>1a, <2>1, <3>1, SizeAssumption DEF IInv, TypeOK, NoLostWakeup, Up, LogFull
    <3>5. CacheInv'
      <4>1. \A c \in Block : c \notin InLog(lh') => c \notin InLog(lh) /\ c /= b
        BY SMTT(30), <1>1a, <2>3, <3>0, AppendUnlisted
      <4>2. \A i \in 1..Len(lh') : cache'[lh'[i]] /= NoBuf /\ refcnt'[lh'[i]] >= 1
        <5> SUFFICES ASSUME NEW i \in 1..Len(lh')
                     PROVE  cache'[lh'[i]] /= NoBuf /\ refcnt'[lh'[i]] >= 1
          OBVIOUS
        <5>1. i \in 1..Len(lh) \/ i = Len(lh) + 1
          BY SMTT(30), <1>1a, <3>1
        <5>2. CASE i = Len(lh) + 1
          BY SMTT(30), <1>0, <1>1a, <3>1, <3>2, <5>2 DEF bpin
        <5>3. CASE i \in 1..Len(lh)
          <6>1. cache[lh[i]] /= NoBuf /\ refcnt[lh[i]] >= 1
            BY <1>0, <1>1, <5>3, Zenon DEF IInv, CacheInv
          <6> QED
            BY <1>0, <1>1a, <1>1b, <3>1, <3>2, <5>3, <6>1, Zenon DEF bpin
        <5> QED
          BY <5>1, <5>2, <5>3, Zenon
      <4> QED
        BY <1>0, <1>1, <1>2, <1>1a, <2>1, <4>1, <4>2, Zenon DEF IInv, CacheInv
    <3> QED
      BY Zenon, <1>3, <3>3, <3>4, <3>5 DEF IInv
  <2> QED
    BY <2>2, <2>3, Zenon
<1> QED
  BY <1>4, <1>5, Zenon

\* end_op: the last operation starts to commit, another wakes the sleepers.
LEMMA EndStep ==
  ASSUME CountFacts, IInv, TypeOK', NEW p \in Proc, end_op(p)
  PROVE  IInv'
<1> USE DEF durable, bufs
<1>0. /\ mode = "up" /\ ~panicked /\ InOp(p) /\ outstanding' = outstanding - 1
      /\ tail' = 0
      /\ UNCHANGED <<disk, logdisk, hdr, lh, cache, refcnt, mode, latest>>
  BY Zenon DEF end_op, Up
<1>1. /\ outstanding >= 1 /\ ~committing /\ \A q \in Proc : pc[q] \notin CommitPC
      /\ \A q \in Proc : ~Installing(q)
  BY <1>0, InOpNoCommit, Zenon DEF Installing, CommitPC
<1>2. panicked' = FALSE
  BY <1>1, Zenon DEF end_op, IInv, TypeOK
<1>3. Absorbed' /\ DiskSound' /\ BootInv'
  BY <1>0, Zenon DEF IInv, Absorbed, DiskSound, BootInv
<1>4. p \in ActiveOps /\ ActiveOps \in SUBSET Proc /\ Cardinality(ActiveOps) = outstanding
  BY <1>0, Zenon DEF ActiveOps, IInv, OneCommitter
<1>5. CASE outstanding = 1
  <2>1. /\ committing' = TRUE
        /\ pc' = [pc EXCEPT ![p] = IF lh = <<>> THEN "end_commit" ELSE "write_log"]
    BY <1>5, Zenon DEF end_op
  <2>2. /\ pc'[p] = IF lh = <<>> THEN "end_commit" ELSE "write_log"
        /\ \A q \in Proc : q /= p => pc'[q] = pc[q]
    BY <2>1, Zenon DEF IInv, TypeOK
  <2>3. \A q \in Proc : pc'[q] \in CommitPC => q = p
    BY <1>1, <2>2, Zenon
  <2>4. OneCommitter'
    <3>0. Cardinality(ActiveOps) = 1
      BY <1>4, <1>5, Zenon
    <3>1. ActiveOps = {p}
      BY Zenon, <1>4, <3>0, ActiveCount
    <3>2. ActiveOps' = {}
      BY <2>2, <3>1, Zenon DEF ActiveOps, InOp
    <3> QED
      BY <1>0, <1>5, <2>1, <2>3, <3>2, CountFacts DEF CountFacts, OneCommitter
  <2>5. \A q \in Proc : pc'[q] \notin {"write_head", "install_trans", "erase"}
    BY <1>1, <2>2, Zenon DEF CommitPC
  <2>6. CacheInv'
    BY <1>0, <1>1, <1>2, <2>5, Zenon DEF IInv, CacheInv, Installing
  <2>7. CommitInv'
    <3>1. lh /= <<>> => 0 < Len(lh)
      BY DEF IInv, TypeOK
    <3> QED
      BY SMTT(30), <1>0, <2>1, <2>2, <2>3, <2>5, <3>1 DEF CommitInv, Installing, CommitPC
  <2>8. NoLostWakeup'
    BY <2>1, Zenon DEF NoLostWakeup
  <2> QED
    BY <1>3, <2>4, <2>6, <2>7, <2>8, Zenon DEF IInv
<1>6. CASE outstanding /= 1
  <2> DEFINE f == [pc EXCEPT ![p] = "idle"]
  <2>1. pc' = wakeup(f) /\ UNCHANGED committing
    BY <1>6, Zenon DEF end_op
  <2>2. f \in [Proc -> PCs]
    BY Zenon DEF IInv, TypeOK, PCs
  <2>3. /\ \A q \in Proc : pc'[q] /= "sleep"
        /\ \A q \in Proc : pc'[q] /= "begin_op" => pc'[q] = f[q]
        /\ \A q \in Proc : f[q] \notin {"sleep", "begin_op"} => pc'[q] = f[q]
    BY ZenonT(30), <2>1, <2>2, WakeupFacts
  <2>4. f[p] = "idle" /\ \A q \in Proc : q /= p => f[q] = pc[q]
    BY Zenon DEF IInv, TypeOK
  <2> HIDE DEF f
  <2>5. \A q \in Proc : pc'[q] \notin CommitPC
    BY <1>1, <2>3, <2>4, Zenon DEF CommitPC
  <2>6. ActiveOps' = ActiveOps \ {p}
    BY <2>3, <2>4, Zenon DEF ActiveOps, InOp
  <2>7. OneCommitter'
    <3>1. Cardinality(ActiveOps') = outstanding'
      BY <1>0, <1>4, <2>6, ActiveCount, Zenon
    <3> QED
      BY <1>1, <2>1, <2>5, <3>1, Zenon DEF OneCommitter
  <2>8. outstanding' /= 0
    BY SMTT(30), <1>0, <1>1, <1>6 DEF IInv, TypeOK
  <2>9. CacheInv'
    BY <1>0, <1>1, <1>2, <2>5, Zenon DEF IInv, CacheInv, Installing, CommitPC
  <2>10. CommitInv' /\ NoLostWakeup'
    BY <2>3, <2>5, <2>8, Zenon DEF CommitInv, NoLostWakeup, Installing, CommitPC
  <2> QED
    BY <1>3, <2>7, <2>9, <2>10, Zenon DEF IInv
<1> QED
  BY <1>5, <1>6, Zenon
----------------------------------------------------------------------------
(* Each step of commit, and the cache. *)

\* When a commit step moves only the committer, to another commit state.
LEMMA CommitterMoves ==
  ASSUME IInv, NEW p \in Proc, pc[p] \in CommitPC, NEW s \in CommitPC,
         pc' = [pc EXCEPT ![p] = s], UNCHANGED <<outstanding, committing, mode, panicked>>
  PROVE  /\ OneCommitter'
         /\ mode = "up" /\ committing /\ BootInv' /\ NoLostWakeup'
         /\ pc'[p] = s
         /\ \A q \in Proc : q /= p => pc[q] \notin CommitPC /\ pc'[q] \notin CommitPC
<1>1. pc'[p] = s /\ \A q \in Proc : q /= p => pc'[q] = pc[q]
  BY Zenon DEF IInv, TypeOK
<1>2. committing /\ \A q \in Proc : q /= p => pc[q] \notin CommitPC
  BY Zenon DEF IInv, OneCommitter
<1>3. mode = "up"
  BY Zenon DEF IInv, BootInv, CommitPC
<1>4. ActiveOps' = ActiveOps
  BY <1>1, Zenon DEF ActiveOps, InOp, CommitPC
<1>5. OneCommitter'
  BY <1>1, <1>2, <1>4, Zenon DEF IInv, OneCommitter
<1> QED
  BY <1>1, <1>2, <1>3, <1>5, Zenon DEF BootInv, NoLostWakeup

\* Once the log blocks hold the latest contents, installing them gives those.
LEMMA OverlayLatest ==
  ASSUME TypeOK, Distinct(lh),
         \A i \in 1..Len(lh) : logdisk[i] = latest[lh[i]],
         \A b \in Block : b \notin InLog(lh) => disk[b] = latest[b]
  PROVE  Overlay(disk, lh, logdisk) = latest
<1> SUFFICES ASSUME NEW b \in Block PROVE Overlay(disk, lh, logdisk)[b] = latest[b]
  BY Zenon DEF Overlay, TypeOK
<1>1. CASE b \notin InLog(lh)
  BY <1>1, OverlayUnlisted
<1>2. CASE b \in InLog(lh)
  <2>1. PICK i \in 1..Len(lh) : lh[i] = b
    BY <1>2, ListedAt, Zenon DEF TypeOK
  <2>2. lh \in Seq(Block)
    BY Zenon DEF TypeOK
  <2>3. Overlay(disk, lh, logdisk)[lh[i]] = logdisk[i]
    BY <2>2, OverlayListed
  <2> QED
    BY <2>1, <2>3, Zenon
<1> QED
  BY <1>1, <1>2, Zenon

\* write_log copies a pinned buffer to the log.
LEMMA WriteLogStep ==
  ASSUME IInv, TypeOK', NEW p \in Proc, write_log(p)
  PROVE  IInv'
<1> DEFINE s == IF tail + 1 = Len(lh) THEN "write_head" ELSE "write_log"
           c == lh[tail + 1]
<1>0. /\ mode = "up" /\ ~panicked /\ pc[p] = "write_log" /\ tail < Len(lh)
      /\ logdisk' = [logdisk EXCEPT ![tail + 1] = bread(c)]
      /\ cache' = [cache EXCEPT ![c] = bread(c)]
      /\ tail' = tail + 1
      /\ pc' = [pc EXCEPT ![p] = s]
      /\ UNCHANGED <<disk, hdr, lh, outstanding, committing, refcnt, mode, panicked, latest>>
  BY Zenon DEF write_log, Up
<1>1. tail + 1 \in 1..Len(lh) /\ tail + 1 \in Slot /\ c \in Block /\ tail \in Nat
  BY <1>0 DEF IInv, TypeOK, Slot
<1>2. s \in CommitPC /\ pc[p] \in CommitPC
  BY <1>0, Zenon DEF CommitPC
<1>3. /\ OneCommitter' /\ BootInv' /\ NoLostWakeup' /\ committing /\ pc'[p] = s
      /\ \A q \in Proc : q /= p => pc[q] \notin CommitPC /\ pc'[q] \notin CommitPC
  <2> HIDE DEF s
  <2> QED
    BY ZenonT(30), <1>0, <1>2, CommitterMoves
<1>4. /\ \A q \in Proc : ~Installing(q) /\ ~Installing(q)'
      /\ hdr = <<>>
      /\ \A i \in 1..Len(lh) : cache[lh[i]] /= NoBuf /\ refcnt[lh[i]] >= 1
  BY SMTT(30), <1>0, <1>3 DEF IInv, CacheInv, Installing, CommitPC
<1>5. bread(c) = latest[c] /\ cache' = cache
  BY <1>0, <1>1, <1>4, Zenon DEF IInv, TypeOK, CacheInv, bread
<1>6. Absorbed'
  BY <1>0, Zenon DEF IInv, Absorbed
<1>7. DiskSound'
  BY ZenonT(30), <1>0, <1>4, OverlayEmpty DEF IInv, DiskSound
<1>8. CacheInv'
  BY ZenonT(30), <1>0, <1>4, <1>5 DEF IInv, CacheInv
<1>9. CommitInv'
  <2>1. \A i \in 1..(tail + 1) : logdisk'[i] = latest[lh[i]]
    <3> SUFFICES ASSUME NEW i \in 1..(tail + 1) PROVE logdisk'[i] = latest[lh[i]]
      OBVIOUS
    <3>1. CASE i = tail + 1
      BY <1>0, <1>1, <1>5, <3>1, ZenonT(30) DEF IInv, TypeOK
    <3>2. CASE i \in 1..tail
      BY SMTT(30), <1>0, <1>1, <3>2 DEF IInv, TypeOK, CommitInv, Slot
    <3> QED
      BY <1>1, <3>1, <3>2
  <2>2. lh /= <<>> /\ Len(lh) \in Nat
    BY <1>1 DEF IInv, TypeOK
  <2> QED
    <3>1. \A q \in Proc : q /= p => pc'[q] \notin CommitPC
      BY <1>3, Zenon
    <3>2. CASE tail + 1 = Len(lh)
      <4>1. pc'[p] = "write_head"
        BY Zenon, <1>3, <3>2
      <4> QED
        BY ZenonT(30), <1>0, <1>3, <2>1, <2>2, <3>1, <3>2, <4>1
           DEF CommitInv, CommitPC, Installing
    <3>3. CASE tail + 1 /= Len(lh)
      <4>1. pc'[p] = "write_log" /\ tail + 1 < Len(lh)
        BY <1>1, <1>3, <2>2, <3>3
      <4> QED
        BY <1>0, <1>3, <2>1, <3>1, <4>1, Zenon DEF CommitInv, CommitPC, Installing
    <3> QED
      BY <3>2, <3>3, Zenon
<1> QED
  BY <1>3, <1>6, <1>7, <1>8, <1>9, Zenon DEF IInv

\* write_head makes the transaction durable as a whole.
LEMMA WriteHeadStep ==
  ASSUME IInv, TypeOK', NEW p \in Proc, write_head(p)
  PROVE  IInv' /\ Overlay(disk', hdr', logdisk') = latest
<1> USE DEF bufs
<1>0. /\ mode = "up" /\ ~panicked /\ pc[p] = "write_head" /\ hdr' = lh /\ tail' = 0
      /\ pc' = [pc EXCEPT ![p] = "install_trans"]
      /\ UNCHANGED <<disk, logdisk, lh, outstanding, committing, cache, refcnt, mode,
                     panicked, latest>>
  BY Zenon DEF write_head, Up
<1>1. /\ OneCommitter' /\ BootInv' /\ NoLostWakeup' /\ pc'[p] = "install_trans"
      /\ \A q \in Proc : q /= p => pc[q] \notin CommitPC /\ pc'[q] \notin CommitPC
  BY ZenonT(30), <1>0, CommitterMoves DEF CommitPC
<1>2. /\ lh /= <<>>
      /\ \A i \in 1..Len(lh) : logdisk[i] = latest[lh[i]]
      /\ \A b \in Block : b \notin InLog(lh) => disk[b] = latest[b]
      /\ \A i \in 1..Len(lh) : cache[lh[i]] /= NoBuf /\ refcnt[lh[i]] >= 1
  BY <1>0, <1>1, Zenon DEF IInv, CommitInv, CacheInv, Installing, CommitPC
<1>3. Overlay(disk, lh, logdisk) = latest
  BY <1>2, OverlayLatest, Zenon DEF IInv, Absorbed
<1>4. Absorbed' /\ DiskSound'
  BY ZenonT(30), <1>0, <1>3 DEF IInv, TypeOK, Absorbed, DiskSound
<1>5. CacheInv'
  BY <1>0, <1>1, Zenon DEF IInv, CacheInv, Installing
<1>6. CommitInv'
  <2>1. 0 < Len(lh)
    BY <1>2 DEF IInv, TypeOK
  <2> QED
    BY SMTT(30), <1>0, <1>1, <1>2, <2>1 DEF CommitInv, Installing, CommitPC, IInv, OneCommitter
<1> QED
  BY <1>0, <1>1, <1>3, <1>4, <1>5, <1>6, Zenon DEF IInv

\* install_trans, in commit: the home block gets what the log holds for it.
LEMMA InstallStep ==
  ASSUME IInv, TypeOK', NEW p \in Proc, install_trans(p)
  PROVE  IInv' /\ Overlay(disk', hdr', logdisk') = Overlay(disk, hdr, logdisk)
<1> DEFINE s == IF tail + 1 = Len(lh) THEN "erase" ELSE "install_trans"
           c == lh[tail + 1]
<1>0. /\ mode = "up" /\ ~panicked /\ pc[p] = "install_trans" /\ tail < Len(lh)
      /\ disk' = [disk EXCEPT ![c] = logdisk[tail + 1]]
      /\ cache' = [cache EXCEPT ![c] = logdisk[tail + 1]]
      /\ refcnt' = [refcnt EXCEPT ![c] = @ - 1]
      /\ tail' = tail + 1
      /\ pc' = [pc EXCEPT ![p] = s]
      /\ UNCHANGED <<logdisk, hdr, lh, outstanding, committing, mode, panicked, latest>>
  BY ZenonT(30) DEF install_trans, InstallBlock, Up
<1>1. tail + 1 \in 1..Len(lh) /\ c \in Block /\ tail \in Nat /\ c \in InLog(lh) /\ Len(lh) \in Nat
  <2>1. lh \in Seq(Block) /\ tail \in Nat
    BY Zenon DEF IInv, TypeOK
  <2> QED
    BY <1>0, <2>1 DEF InLog
<1>2. s \in CommitPC /\ pc[p] \in CommitPC
  BY <1>0, Zenon DEF CommitPC
<1>3. /\ OneCommitter' /\ BootInv' /\ NoLostWakeup' /\ committing /\ pc'[p] = s
      /\ \A q \in Proc : q /= p => pc[q] \notin CommitPC /\ pc'[q] \notin CommitPC
  <2> HIDE DEF s
  <2> QED
    BY Zenon, <1>0, <1>2, CommitterMoves
<1>4. /\ hdr = lh
      /\ \A i \in 1..Len(lh) : logdisk[i] = latest[lh[i]]
      /\ \A i \in 1..tail : disk[lh[i]] = latest[lh[i]]
      /\ \A i \in (tail + 1)..Len(lh) : cache[lh[i]] /= NoBuf /\ refcnt[lh[i]] >= 1
  BY <1>0, Zenon DEF IInv, CommitInv, Installing
<1>5. \A i \in 1..Len(lh) : lh[i] \in Block /\ (lh[i] = c => i = tail + 1)
  <2>1. lh \in Seq(Block) /\ Distinct(lh)
    BY Zenon DEF IInv, TypeOK, Absorbed
  <2> QED
    BY <1>1, <2>1 DEF Distinct
<1>6. logdisk[tail + 1] = latest[c]
  BY <1>1, <1>4, Zenon
<1>7. Overlay(disk', hdr', logdisk') = Overlay(disk, hdr, logdisk)
  <2>1. \A b \in Block : b \notin InLog(hdr) => disk'[b] = disk[b]
    BY <1>0, <1>1, <1>4, Zenon DEF IInv, TypeOK
  <2>2. Overlay(disk', hdr, logdisk) = Overlay(disk, hdr, logdisk)
    BY <2>1, OverlaySame
  <2> QED
    BY <1>0, <2>2, Zenon
<1>8. DiskSound' /\ Absorbed'
  BY ZenonT(30), <1>0, <1>7 DEF IInv, DiskSound, Absorbed
<1>9. Installing(p)'
  BY <1>3, ZenonT(30) DEF Installing
<1>10. CacheInv'
  BY <1>0, <1>1, <1>6, <1>9, ZenonT(30) DEF IInv, TypeOK, CacheInv
<1>11. CommitInv'
  <2>1. \A i \in 1..(tail + 1) : disk'[lh[i]] = latest[lh[i]]
    <3> SUFFICES ASSUME NEW i \in 1..(tail + 1) PROVE disk'[lh[i]] = latest[lh[i]]
      BY Zenon
    <3>1. CASE i = tail + 1
      BY <1>0, <1>1, <1>6, <3>1, ZenonT(30) DEF IInv, TypeOK
    <3>2. CASE i \in 1..tail
      <4>1. i \in 1..Len(lh) /\ i /= tail + 1
        BY <1>1, <3>2
      <4>2. lh[i] \in Block /\ lh[i] /= c /\ disk[lh[i]] = latest[lh[i]]
        BY <1>4, <1>5, <3>2, <4>1, ZenonT(30)
      <4> QED
        BY <1>0, <4>2, Zenon DEF IInv, TypeOK
    <3> QED
      BY SMTT(30), <1>1, <3>1, <3>2
  <2>2. \A i \in (tail + 2)..Len(lh) : cache'[lh[i]] /= NoBuf /\ refcnt'[lh[i]] >= 1
    BY SMTT(30), <1>0, <1>1, <1>4, <1>5 DEF IInv, TypeOK
  <2>3. \A q \in Proc : q /= p => pc'[q] \notin CommitPC
    BY <1>3, Zenon
  <2>4. CASE tail + 1 = Len(lh)
    <3>1. pc'[p] = "erase"
      BY <1>3, <2>4, Zenon
    <3> QED
      BY <1>0, <1>3, <1>4, <2>1, <2>3, <2>4, <3>1, ZenonT(30)
         DEF CommitInv, CommitPC, Installing
  <2>5. CASE tail + 1 /= Len(lh)
    <3>1. pc'[p] = "install_trans" /\ tail + 1 < Len(lh) /\ tail' + 1 = tail + 2
      BY <1>0, <1>1, <1>3, <2>5
    <3> QED
      BY <1>0, <1>3, <1>4, <2>1, <2>2, <2>3, <3>1, ZenonT(30)
         DEF CommitInv, CommitPC, Installing
  <2> QED
    BY <2>4, <2>5, Zenon
<1> QED
  BY ZenonT(30), <1>3, <1>7, <1>8, <1>10, <1>11 DEF IInv

\* Erasing the header once every block is installed changes nothing durable.
LEMMA EraseStep ==
  ASSUME IInv, TypeOK', NEW p \in Proc, erase(p)
  PROVE  IInv' /\ Overlay(disk', hdr', logdisk') = Overlay(disk, hdr, logdisk)
<1> USE DEF bufs
<1>0. /\ mode = "up" /\ ~panicked /\ pc[p] = "erase" /\ lh' = <<>> /\ hdr' = <<>>
      /\ pc' = [pc EXCEPT ![p] = "end_commit"]
      /\ UNCHANGED <<disk, logdisk, outstanding, committing, tail, cache, refcnt, mode,
                     panicked, latest>>
  BY Zenon DEF erase, Up
<1>1. /\ OneCommitter' /\ BootInv' /\ NoLostWakeup' /\ committing /\ pc'[p] = "end_commit"
      /\ \A q \in Proc : q /= p => pc[q] \notin CommitPC /\ pc'[q] \notin CommitPC
  BY ZenonT(30), <1>0, CommitterMoves DEF CommitPC
<1>2. /\ hdr = lh
      /\ \A i \in 1..Len(lh) : logdisk[i] = latest[lh[i]]
      /\ \A i \in 1..Len(lh) : disk[lh[i]] = latest[lh[i]]
      /\ \A b \in Block : b \notin InLog(lh) => disk[b] = latest[b]
  BY <1>0, Zenon DEF IInv, CommitInv, CacheInv, Installing
<1>3. \A b \in Block : disk[b] = latest[b]
  <2> SUFFICES ASSUME NEW b \in Block, b \in InLog(lh) PROVE disk[b] = latest[b]
    BY <1>2, Zenon
  <2>1. PICK i \in 1..Len(lh) : lh[i] = b
    BY ListedAt, Zenon DEF IInv, TypeOK
  <2> QED
    BY <1>2, <2>1, Zenon
<1>4. Overlay(disk, hdr, logdisk) = latest
  BY <1>2, OverlayLatest, Zenon DEF IInv, Absorbed
<1>5. Overlay(disk', hdr', logdisk') = latest
  <2>1. latest = [b \in Block |-> latest[b]]
    BY Zenon DEF IInv, TypeOK
  <2>2. Overlay(disk, <<>>, logdisk) = [b \in Block |-> disk[b]]
    BY OverlayEmpty, Zenon
  <2>3. Overlay(disk, <<>>, logdisk) = latest
    BY <1>3, <2>1, <2>2, ZenonT(30)
  <2> QED
    BY <1>0, <2>3, Zenon
<1>6. DiskSound' /\ Absorbed'
  BY SMTT(30), <1>0, <1>5 DEF IInv, TypeOK, DiskSound, Absorbed, Distinct
<1>7. CacheInv'
  BY <1>0, <1>3 DEF IInv, CacheInv
<1>8. CommitInv'
  BY <1>0, <1>1, Zenon DEF CommitInv, Installing, CommitPC
<1> QED
  BY Zenon, <1>1, <1>4, <1>5, <1>6, <1>7, <1>8 DEF IInv

\* The committer lets new operations in and wakes the ones that wait.
LEMMA EndCommitStep ==
  ASSUME IInv, TypeOK', NEW p \in Proc, end_commit(p)
  PROVE  IInv'
<1> USE DEF durable, bufs
<1> DEFINE f == [pc EXCEPT ![p] = "idle"]
<1>0. /\ mode = "up" /\ ~panicked /\ pc[p] = "end_commit" /\ committing' = FALSE
      /\ pc' = wakeup(f)
      /\ UNCHANGED <<disk, logdisk, hdr, lh, outstanding, tail, cache, refcnt, mode,
                     panicked, latest>>
  BY Zenon DEF end_commit, Up
<1>1. f \in [Proc -> PCs]
  BY Zenon DEF IInv, TypeOK, PCs
<1>2. /\ \A q \in Proc : pc'[q] /= "sleep"
      /\ \A q \in Proc : pc'[q] /= "begin_op" => pc'[q] = f[q]
      /\ \A q \in Proc : f[q] \notin {"sleep", "begin_op"} => pc'[q] = f[q]
  BY ZenonT(30), <1>0, <1>1, WakeupFacts
<1>3. f[p] = "idle" /\ \A q \in Proc : q /= p => f[q] = pc[q]
  BY Zenon DEF IInv, TypeOK
<1> HIDE DEF f
<1>4. \A q \in Proc : q /= p => pc[q] \notin CommitPC
  BY <1>0, Zenon DEF IInv, OneCommitter, CommitPC
<1>5. \A q \in Proc : pc'[q] \notin CommitPC
  BY <1>2, <1>3, <1>4, Zenon DEF CommitPC
<1>6. OneCommitter'
  <2>1. ActiveOps' = ActiveOps
    BY <1>0, <1>2, <1>3, Zenon DEF ActiveOps, InOp
  <2> QED
    BY <1>0, <1>5, <2>1, Zenon DEF IInv, OneCommitter
<1>7. Absorbed' /\ DiskSound' /\ BootInv'
  BY ZenonT(30), <1>0 DEF IInv, Absorbed, DiskSound, BootInv
<1>8. CacheInv'
  BY <1>0, <1>4, <1>5, ZenonT(30) DEF IInv, CacheInv, Installing, CommitPC
<1>9. CommitInv' /\ NoLostWakeup'
  BY ZenonT(30), <1>0, <1>2, <1>5 DEF IInv, CommitInv, NoLostWakeup, Installing, CommitPC
<1> QED
  BY <1>6, <1>7, <1>8, <1>9, Zenon DEF IInv

\* bread and the recycling of an unpinned buffer do not change what is read.
LEMMA CacheStep ==
  ASSUME IInv, TypeOK', NEW b \in Block, Bread(b) \/ Recycle(b)
  PROVE  IInv'
<1> USE DEF durable, log
<1>0. /\ mode = "up" /\ ~panicked
      /\ UNCHANGED <<disk, logdisk, hdr, lh, outstanding, committing, tail, refcnt, mode,
                     panicked, pc, written, latest>>
      /\ \/ cache[b] = NoBuf /\ cache' = [cache EXCEPT ![b] = disk[b]]
         \/ refcnt[b] = 0 /\ cache' = [cache EXCEPT ![b] = NoBuf]
  BY Zenon DEF Bread, Recycle, bread, Up
<1>1. OneCommitter' /\ Absorbed' /\ DiskSound' /\ BootInv' /\ NoLostWakeup'
  <2>1. OneCommitter' /\ Absorbed' /\ DiskSound'
    BY Zenon, <1>0 DEF IInv, OneCommitter, Absorbed, DiskSound, ActiveOps, InOp
  <2> QED
    BY ZenonT(30), <1>0, <2>1 DEF IInv, BootInv, NoLostWakeup, Up, LogFull
<1>2. \A i \in 1..Len(lh) : lh[i] \in Block
  BY SMTT(30) DEF IInv, TypeOK
\* A buffer that must stay is neither absent nor unpinned.
<1>3. \A i \in 1..Len(lh) :
        cache[lh[i]] /= NoBuf /\ refcnt[lh[i]] >= 1 => cache'[lh[i]] = cache[lh[i]]
  BY SMTT(30), <1>0, <1>2 DEF IInv, TypeOK
<1>4. \A c \in Block : c /= b => cache'[c] = cache[c]
  BY <1>0, Zenon DEF IInv, TypeOK
<1>5. cache'[b] /= NoBuf => cache'[b] = latest[b]
  <2>1. CASE refcnt[b] = 0 /\ cache' = [cache EXCEPT ![b] = NoBuf]
    BY <2>1, Zenon DEF IInv, TypeOK
  <2>2. CASE cache[b] = NoBuf /\ cache' = [cache EXCEPT ![b] = disk[b]]
    <3>1. cache'[b] = disk[b]
      BY <2>2, Zenon DEF IInv, TypeOK
    <3>2. CASE b \notin InLog(lh)
      BY ZenonT(30), <1>0, <3>1, <3>2 DEF IInv, CacheInv
    <3>3. CASE b \in InLog(lh)
      <4>1. PICK i \in 1..Len(lh) : lh[i] = b
        BY <3>3, ListedAt, Zenon DEF IInv, TypeOK
      <4>2. PICK q \in Proc : Installing(q)
        BY ZenonT(30), <1>0, <2>2, <4>1 DEF IInv, CacheInv
      <4>3. CASE pc[q] = "erase"
        BY ZenonT(30), <3>1, <4>1, <4>3 DEF IInv, CommitInv
      <4>4. CASE pc[q] = "install_trans"
        <5>1. i \notin (tail + 1)..Len(lh)
          BY <2>2, <4>1, <4>4, Zenon DEF IInv, CommitInv
        <5>2. i \in 1..tail
          BY SMTT(30), <5>1 DEF IInv, TypeOK
        <5> QED
          BY <3>1, <4>1, <4>4, <5>2, ZenonT(30) DEF IInv, CommitInv
      <4> QED
        BY Zenon, <4>2, <4>3, <4>4 DEF Installing
    <3> QED
      BY <3>2, <3>3, Zenon
  <2> QED
    BY Zenon, <1>0, <2>1, <2>2
<1>6. CacheInv'
  <2>1. \A c \in Block : cache'[c] /= NoBuf => cache'[c] = latest[c]
    BY ZenonT(30), <1>0, <1>4, <1>5 DEF IInv, CacheInv
  <2>2. (\A p \in Proc : ~Installing(p)) =>
          \A i \in 1..Len(lh) : cache'[lh[i]] /= NoBuf /\ refcnt[lh[i]] >= 1
    BY <1>0, <1>3, Zenon DEF IInv, CacheInv
  <2> QED
    BY <1>0, <2>1, <2>2, Zenon DEF IInv, CacheInv, Installing
<1>7. CommitInv'
  <2>1. ASSUME NEW p \in Proc, pc[p] = "install_trans"
        PROVE  \A i \in (tail + 1)..Len(lh) : cache'[lh[i]] /= NoBuf /\ refcnt[lh[i]] >= 1
    <3>1. \A i \in (tail + 1)..Len(lh) : i \in 1..Len(lh)
      BY DEF IInv, TypeOK
    <3> QED
      BY ZenonT(30), <1>3, <2>1, <3>1 DEF IInv, CommitInv
  <2> QED
    BY ZenonT(30), <1>0, <2>1 DEF IInv, CommitInv, Installing
<1> QED
  BY ZenonT(30), <1>1, <1>6, <1>7 DEF IInv
----------------------------------------------------------------------------
(* Recovery, every step together, and the refinement. *)

\* Every step of every action keeps the variables in their types.
LEMMA LogTypeStep == ASSUME CountFacts PROVE IInv /\ Next => TypeOK'
<1> SUFFICES ASSUME IInv, Next PROVE TypeOK'
  OBVIOUS
<1> USE SizeAssumption, ValueAssumption
<1>0. TypeOK /\ DiskSound
  BY Zenon DEF IInv
<1> USE <1>0
<1>1. ASSUME NEW p \in Proc, Call(p) PROVE TypeOK'
  BY <1>1, Zenon DEF Call, TypeOK, PCs, durable, log, bufs
<1>2. ASSUME NEW p \in Proc, begin_op(p) PROVE TypeOK'
  <2>1. pc' \in [Proc -> PCs] /\ outstanding' \in Nat
    <3>1. CASE committing \/ LogFull
      BY Zenon, <1>2, <3>1 DEF begin_op, TypeOK, PCs
    <3>2. CASE ~(committing \/ LogFull)
      <4>1. pc' = [pc EXCEPT ![p] = "in_op"] /\ outstanding' = outstanding + 1
        BY <1>2, <3>2, Zenon DEF begin_op
      <4> QED
        BY <4>1 DEF TypeOK, PCs
    <3> QED
      BY <3>1, <3>2, Zenon
  <2> QED
    BY <1>2, <2>1, Zenon DEF begin_op, TypeOK, durable, bufs
<1>3. ASSUME NEW p \in Proc, end_op(p) PROVE TypeOK'
  <2>1. pc' \in [Proc -> PCs]
    <3>1. [pc EXCEPT ![p] = "idle"] \in [Proc -> PCs]
      BY Zenon DEF TypeOK, PCs
    <3>2. wakeup([pc EXCEPT ![p] = "idle"]) \in [Proc -> PCs]
      BY Zenon, <3>1, WakeupFacts
    <3> QED
      BY Zenon, <1>3, <3>2 DEF end_op, TypeOK, PCs
  <2>2. outstanding' \in Nat
    <3>1. p \in ActiveOps /\ ActiveOps \in SUBSET Proc
      BY <1>3, Zenon DEF end_op, ActiveOps
    <3>2. outstanding >= 1
      BY ZenonT(30), <3>1, ActiveCount DEF IInv, OneCommitter
    <3> QED
      BY <1>3, <3>2 DEF end_op, TypeOK
  <2> QED
    BY Zenon, <1>3, <2>1, <2>2 DEF end_op, TypeOK, durable, bufs
<1>4. ASSUME NEW p \in Proc, write_log(p) PROVE TypeOK'
  <2>1. tail + 1 \in 1..Len(lh) /\ lh[tail + 1] \in Block /\ tail + 1 \in Slot
    BY <1>4 DEF write_log, TypeOK, Slot
  <2>2. bread(lh[tail + 1]) \in Content
    BY <2>1, Zenon DEF bread, TypeOK, Content
  <2> QED
    BY SMTT(30), <1>4, <2>1, <2>2 DEF write_log, TypeOK, PCs
<1>5. ASSUME NEW p \in Proc, write_head(p) PROVE TypeOK'
  BY <1>5, Zenon DEF write_head, TypeOK, PCs, bufs
<1>6. ASSUME InstallBlock PROVE /\ disk' \in [Block -> Content]
                                /\ cache' \in [Block -> Content \cup {NoBuf}]
                                /\ tail' \in Nat
  <2>1. tail + 1 \in 1..Len(lh) /\ lh[tail + 1] \in Block /\ tail + 1 \in Slot
    BY <1>6 DEF InstallBlock, TypeOK, Slot
  <2> QED
    BY <1>6, <2>1 DEF InstallBlock, TypeOK
<1>7. ASSUME NEW p \in Proc, install_trans(p) PROVE TypeOK'
  <2>1. tail < Len(lh)
    BY <1>7, Zenon DEF install_trans, InstallBlock
  <2>2. lh[tail + 1] \in Block /\ tail + 1 \in 1..Len(lh)
    BY <2>1 DEF TypeOK
  <2>3. refcnt[lh[tail + 1]] >= 1
    BY <1>7, <2>2 DEF install_trans, IInv, CommitInv
  <2>4. refcnt' \in [Block -> Nat]
    BY <1>7, <2>2, <2>3 DEF install_trans, TypeOK
  <2>5. pc' \in [Proc -> PCs]
    BY <1>7, Zenon DEF install_trans, TypeOK, PCs
  <2>6. InstallBlock /\ UNCHANGED <<logdisk, hdr, lh, outstanding, committing, mode,
                                    panicked, written, latest>>
    BY <1>7, Zenon DEF install_trans
  <2> QED
    BY Zenon, <1>6, <2>4, <2>5, <2>6 DEF TypeOK
<1>8. ASSUME NEW p \in Proc, erase(p) PROVE TypeOK'
  BY <1>8 DEF erase, TypeOK, PCs, bufs
<1>9. ASSUME NEW p \in Proc, end_commit(p) PROVE TypeOK'
  <2>1. [pc EXCEPT ![p] = "idle"] \in [Proc -> PCs]
    BY Zenon DEF TypeOK, PCs
  <2>2. pc' \in [Proc -> PCs]
    BY Zenon, <1>9, <2>1, WakeupFacts DEF end_commit
  <2> QED
    BY Zenon, <1>9, <2>2 DEF end_commit, TypeOK, durable, bufs
<1>10. ASSUME NEW p \in Proc, NEW b \in Block, NEW v \in Value, log_write(p, b, v)
       PROVE  TypeOK'
  <2>1. /\ lh' \in Seq(Block) /\ Len(lh') <= LogBlocks - 1
        /\ refcnt' \in [Block -> Nat]
        /\ panicked' \in BOOLEAN
    <3>1. CASE TooBig \/ outstanding < 1
      BY Zenon, <1>10, <3>1 DEF log_write, TypeOK
    <3>2. CASE ~(TooBig \/ outstanding < 1)
      <4>1. lh' = Absorb(b) /\ Len(lh) < LogBlocks - 1 /\ UNCHANGED panicked
        BY <1>10, <3>2 DEF log_write, TypeOK, TooBig
      <4>2. lh' \in Seq(Block) /\ Len(lh') <= LogBlocks - 1
        BY <4>1 DEF Absorb, TypeOK
      <4>3. refcnt' \in {refcnt, bpin(b)}
        BY <1>10, <3>2, Zenon DEF log_write
      <4>4. bpin(b) \in [Block -> Nat]
        BY DEF bpin, TypeOK
      <4> QED
        BY <4>1, <4>2, <4>3, <4>4, ZenonT(30) DEF TypeOK
    <3> QED
      BY <3>1, <3>2, Zenon
  <2> QED
    BY Zenon, <1>10, <2>1 DEF log_write, TypeOK, Content, durable
<1>11. ASSUME NEW b \in Block, Bread(b) \/ Recycle(b) PROVE TypeOK'
  BY ZenonT(30), <1>11 DEF Bread, Recycle, bread, TypeOK, Content, durable, log
<1>12. ASSUME LoseMemory, DiskSound', disk' \in [Block -> Content],
              logdisk' \in [Slot -> Content], UNCHANGED hdr
       PROVE  TypeOK'
  <2>1. <<>> \in Seq(Block) /\ Len(<<>>) = 0
    OBVIOUS
  <2>2. pc' \in [Proc -> PCs] /\ written' \in [Proc -> SUBSET Block]
    BY <1>12, Zenon DEF LoseMemory, PCs
  <2>3. latest' \in [Block -> Value]
    BY <1>12, Zenon DEF LoseMemory, DiskSound
  <2>4. cache' \in [Block -> Content \cup {NoBuf}] /\ refcnt' \in [Block -> Nat]
    BY <1>12, Zenon DEF LoseMemory
  <2>5. lh' \in Seq(Block) /\ Len(lh') <= LogBlocks - 1
    BY <1>12, <2>1 DEF LoseMemory
  <2> QED
    BY Zenon, <1>12, <2>2, <2>3, <2>4, <2>5 DEF LoseMemory, TypeOK
<1>13. ASSUME Crash \/ CrashInInstall \/ \E p \in Proc : CrashInLogWrite(p)
       PROVE  TypeOK'
  BY <1>12, <1>13, CrashFacts, Zenon
<1>14. ASSUME read_head PROVE TypeOK'
  BY <1>14, Zenon DEF read_head, TypeOK, durable, bufs
<1>15. ASSUME recover_install PROVE TypeOK'
  BY <1>6, <1>15, Zenon DEF recover_install, TypeOK
<1>16. ASSUME recover_clear PROVE TypeOK'
  BY <1>16 DEF recover_clear, TypeOK, bufs
<1> QED
  BY <1>1, <1>2, <1>3, <1>4, <1>5, <1>7, <1>8, <1>9, <1>10, <1>11, <1>13, <1>14,
     <1>15, <1>16, Zenon DEF Next, CommitStep

\* Recovery: read_head, then the same installation as in a commit, then the
\* header is cleared; what is durable does not change on the way.
LEMMA RecoverStep ==
  ASSUME IInv, TypeOK', read_head \/ recover_install \/ recover_clear
  PROVE  /\ IInv'
         /\ Overlay(disk', hdr', logdisk') = Overlay(disk, hdr, logdisk)
         /\ UNCHANGED <<pc, latest>>
<1>0. /\ mode \in {"read_head", "recover"}
      /\ UNCHANGED <<logdisk, outstanding, committing, refcnt, panicked, pc, written, latest>>
  BY Zenon DEF read_head, recover_install, recover_clear, durable, bufs
<1>1. /\ ~panicked /\ ~committing /\ (\A p \in Proc : pc[p] = "idle")
      /\ latest = Overlay(disk, hdr, logdisk)
      /\ \A b \in Block : cache[b] \in {NoBuf, disk[b]}
  BY <1>0, Zenon DEF IInv, BootInv
<1>2. OneCommitter' /\ NoLostWakeup'
  BY <1>0, <1>1, Zenon DEF IInv, OneCommitter, ActiveOps, InOp, NoLostWakeup
<1>3. CASE read_head
  <2>1. lh' = hdr /\ tail' = 0 /\ mode' = "recover" /\ UNCHANGED <<disk, hdr, cache>>
    BY <1>3, ZenonT(30) DEF read_head, durable, bufs
  <2>2. Absorbed' /\ DiskSound' /\ BootInv'
    BY <1>0, <1>1, <2>1 DEF IInv, TypeOK, Absorbed, DiskSound, BootInv
  <2>3. CacheInv' /\ CommitInv'
    BY Zenon, <1>0, <1>1, <2>1 DEF CacheInv, CommitInv, Installing
  <2> QED
    BY <1>0, <1>2, <2>1, <2>2, <2>3, Zenon DEF IInv
<1>4. CASE recover_install
  <2> DEFINE c == lh[tail + 1]
  <2>1. /\ mode = "recover" /\ tail < Len(lh) /\ tail' = tail + 1
        /\ disk' = [disk EXCEPT ![c] = logdisk[tail + 1]]
        /\ cache' = [cache EXCEPT ![c] = logdisk[tail + 1]]
        /\ UNCHANGED <<hdr, lh, mode>>
    BY <1>4, ZenonT(30) DEF recover_install, InstallBlock
  <2>2. /\ lh = hdr /\ \A i \in 1..tail : disk[lh[i]] = logdisk[i]
        /\ tail \in Nat /\ Len(lh) \in Nat /\ lh \in Seq(Block) /\ Distinct(lh)
    BY <2>1 DEF IInv, BootInv, TypeOK, Absorbed
  <2>3. tail + 1 \in 1..Len(lh) /\ c \in Block /\ c \in InLog(hdr)
    BY <2>1, <2>2 DEF InLog
  <2>4. \A b \in Block : b \notin InLog(hdr) => disk'[b] = disk[b]
    BY <2>1, <2>3, Zenon DEF IInv, TypeOK
  <2>5. Overlay(disk', hdr, logdisk) = Overlay(disk, hdr, logdisk)
    BY <2>4, OverlaySame
  <2>6. Overlay(disk', hdr', logdisk') = Overlay(disk, hdr, logdisk)
    BY <1>0, <2>1, <2>5, Zenon
  <2>7. \A i \in 1..(tail + 1) : disk'[lh[i]] = logdisk[i]
    <3> SUFFICES ASSUME NEW i \in 1..(tail + 1) PROVE disk'[lh[i]] = logdisk[i]
      OBVIOUS
    <3>1. CASE i = tail + 1
      BY <2>1, <2>3, <3>1, ZenonT(30) DEF IInv, TypeOK
    <3>2. CASE i \in 1..tail
      <4>1. lh[i] /= c /\ lh[i] \in Block
        BY <2>1, <2>2, <2>3, <3>2 DEF Distinct
      <4> QED
        BY <2>1, <2>2, <3>2, <4>1
    <3> QED
      BY <2>2, <3>1, <3>2
  <2>8. \A b \in Block : cache'[b] \in {NoBuf, disk'[b]}
    BY <1>1, <2>1, Zenon DEF IInv, TypeOK
  <2>9. BootInv'
    BY <1>0, <1>1, <2>1, <2>2, <2>6, <2>7, <2>8 DEF BootInv
  <2>10. Absorbed' /\ DiskSound'
    BY Zenon, <2>1, <2>6 DEF IInv, Absorbed, DiskSound
  <2>11. CacheInv' /\ CommitInv'
    BY <1>0, <1>1, <2>1, Zenon DEF CacheInv, CommitInv, Installing
  <2> QED
    BY <1>0, <1>2, <2>6, <2>9, <2>10, <2>11, Zenon DEF IInv
<1>5. CASE recover_clear
  <2>1. /\ mode = "recover" /\ tail = Len(lh) /\ lh' = <<>> /\ hdr' = <<>> /\ mode' = "up"
        /\ UNCHANGED <<disk, cache>>
    BY <1>5, Zenon DEF recover_clear, bufs
  <2>2. /\ lh = hdr /\ \A i \in 1..Len(lh) : disk[lh[i]] = logdisk[i]
        /\ lh \in Seq(Block) /\ Distinct(lh)
    BY <2>1, Zenon DEF IInv, BootInv, TypeOK, Absorbed
  <2>3. \A b \in Block : disk[b] = latest[b]
    <3> SUFFICES ASSUME NEW b \in Block PROVE disk[b] = Overlay(disk, hdr, logdisk)[b]
      BY <1>1, Zenon
    <3>1. CASE b \notin InLog(hdr)
      BY <3>1, OverlayUnlisted, Zenon
    <3>2. CASE b \in InLog(hdr)
      <4>1. PICK i \in 1..Len(lh) : lh[i] = b
        BY <2>2, <3>2, ListedAt, Zenon
      <4> QED
        BY <2>2, <4>1, OverlayListed
    <3> QED
      BY <3>1, <3>2, Zenon
  <2>4. Overlay(disk', hdr', logdisk') = latest
    <3>1. latest = [b \in Block |-> latest[b]]
      BY Zenon DEF IInv, TypeOK
    <3>2. Overlay(disk, <<>>, logdisk') = [b \in Block |-> disk[b]]
      BY OverlayEmpty, Zenon
    <3>3. Overlay(disk, <<>>, logdisk') = latest
      BY <2>3, <3>1, <3>2
    <3> QED
      BY <2>1, <3>3, Zenon
  <2>5. Absorbed' /\ DiskSound' /\ BootInv'
    <3>1. Distinct(<<>>)
      BY DEF Distinct
    <3>2. Absorbed'
      BY <2>1, <3>1, Zenon DEF Absorbed
    <3> QED
      BY <2>1, <2>4, <3>2, Zenon DEF IInv, TypeOK, DiskSound, BootInv
  <2>6. CacheInv' /\ CommitInv'
    BY <1>0, <1>1, <2>1, <2>3 DEF CacheInv, CommitInv, Installing
  <2> QED
    BY <1>0, <1>1, <1>2, <2>4, <2>5, <2>6, Zenon DEF IInv
<1> QED
  BY <1>3, <1>4, <1>5, Zenon

\* A process looking for room in the log, let in or put to sleep.
LEMMA BeginOpStep ==
  ASSUME CountFacts, IInv, TypeOK', NEW p \in Proc, Call(p) \/ begin_op(p)
  PROVE  IInv'
<1>1. CASE Call(p)
  BY Zenon, <1>1, IdleMove DEF Call, Up
<1>2. CASE begin_op(p) /\ (committing \/ LogFull)
  BY <1>2, IdleMove, Zenon DEF begin_op, Up, log
<1>3. CASE begin_op(p) /\ ~(committing \/ LogFull)
  BY <1>3, BeginStep, Zenon
<1> QED
  BY <1>1, <1>2, <1>3, Zenon

\* The invariant is preserved by every step.
LEMMA LogStep == ASSUME CountFacts PROVE IInv /\ [Next]_vars => IInv'
<1> SUFFICES ASSUME IInv, [Next]_vars PROVE IInv'
  OBVIOUS
<1>1. CASE UNCHANGED vars
  <2>1. UNCHANGED <<disk, logdisk, hdr, lh, outstanding, committing, tail, cache, refcnt,
                    mode, panicked, pc, written, latest>>
    BY <1>1, Zenon DEF vars, durable, log, bufs
  <2>2. TypeOK' /\ OneCommitter' /\ Absorbed' /\ DiskSound'
    BY <2>1, Zenon DEF IInv, TypeOK, OneCommitter, ActiveOps, InOp, Absorbed, DiskSound
  <2>3. BootInv' /\ CacheInv'
    BY ZenonT(30), <2>1 DEF IInv, BootInv, CacheInv, Installing
  <2>4. CommitInv' /\ NoLostWakeup'
    BY <2>1, Zenon DEF IInv, CommitInv, Installing, NoLostWakeup, Up, LogFull
  <2> QED
    BY <2>2, <2>3, <2>4, Zenon DEF IInv
<1>2. CASE Next
  <2>0. TypeOK'
    BY <1>2, LogTypeStep, Zenon
  <2>1. ASSUME NEW p \in Proc, Call(p) \/ begin_op(p) PROVE IInv'
    BY <2>0, <2>1, BeginOpStep, Zenon
  <2>2. ASSUME NEW p \in Proc, end_op(p) PROVE IInv'
    BY <2>0, <2>2, EndStep, Zenon
  <2>3. ASSUME NEW p \in Proc, CommitStep(p) PROVE IInv'
    BY <2>0, <2>3, WriteLogStep, WriteHeadStep, InstallStep, EraseStep, EndCommitStep, Zenon
       DEF CommitStep
  <2>4. ASSUME NEW p \in Proc, NEW b \in Block, NEW v \in Value, log_write(p, b, v)
        PROVE  IInv'
    BY <2>0, <2>4, WriteStep, Zenon
  <2>5. ASSUME NEW b \in Block, Bread(b) \/ Recycle(b) PROVE IInv'
    BY <2>0, <2>5, CacheStep, Zenon
  <2>6. ASSUME Crash \/ CrashInInstall \/ \E p \in Proc : CrashInLogWrite(p) PROVE IInv'
    BY <2>0, <2>6, CrashFacts, LogRestart, Zenon
  <2>7. ASSUME read_head \/ recover_install \/ recover_clear PROVE IInv'
    BY <2>0, <2>7, RecoverStep, Zenon
  <2> QED
    BY <1>2, <2>1, <2>2, <2>3, <2>4, <2>5, <2>6, <2>7, Zenon DEF Next
<1> QED
  BY <1>1, <1>2, Zenon

\* The invariant says what a read returns, by where the block's copies are.
LEMMA InvReadsLatest == IInv => ReadsLatest
<1> SUFFICES ASSUME IInv, mode = "up", NEW b \in Block PROVE bread(b) = latest[b]
  BY Zenon DEF ReadsLatest
<1>1. CASE cache[b] /= NoBuf
  BY ZenonT(30), <1>1 DEF IInv, CacheInv, bread
<1>2. CASE cache[b] = NoBuf /\ panicked
  BY <1>2, Zenon DEF IInv, CacheInv, bread
<1>3. CASE cache[b] = NoBuf /\ ~panicked /\ b \notin InLog(lh)
  BY <1>3, Zenon DEF IInv, CacheInv, bread
<1>4. CASE cache[b] = NoBuf /\ ~panicked /\ b \in InLog(lh)
  <2>1. PICK i \in 1..Len(lh) : lh[i] = b
    BY <1>4, ListedAt, Zenon DEF IInv, TypeOK
  <2>2. PICK q \in Proc : Installing(q)
    BY <1>4, <2>1, ZenonT(30) DEF IInv, CacheInv
  <2>3. CASE pc[q] = "erase"
    BY <1>4, <2>1, <2>3, ZenonT(30) DEF IInv, CommitInv, bread
  <2>4. CASE pc[q] = "install_trans"
    <3>1. i \notin (tail + 1)..Len(lh)
      BY <1>4, <2>1, <2>4, ZenonT(30) DEF IInv, CommitInv
    <3>2. i \in 1..tail
      BY <3>1 DEF IInv, TypeOK
    <3> QED
      BY <1>4, <2>1, <2>4, <3>2, ZenonT(30) DEF IInv, CommitInv, bread
  <2> QED
    BY <2>2, <2>3, <2>4, Zenon DEF Installing
<1> QED
  BY <1>1, <1>2, <1>3, <1>4, Zenon

\* The invariant, when no operation is active and no commit is under way.
LEMMA InvQuiescent == IInv => QuiescentIsDurable
<1> SUFFICES ASSUME IInv, Up, outstanding = 0, ~committing
             PROVE  Overlay(disk, hdr, logdisk) = latest
  BY Zenon DEF QuiescentIsDurable
<1>1. lh = <<>> /\ mode = "up" /\ ~panicked
  BY Zenon DEF IInv, CommitInv, Up
<1>2. \A p \in Proc : ~Installing(p)
  BY Zenon DEF IInv, OneCommitter, Installing, CommitPC
<1>3. hdr = <<>> /\ \A b \in Block : disk[b] = latest[b]
  BY <1>1, <1>2 DEF IInv, CacheInv, InLog
<1> QED
  BY <1>3, OverlayEmpty DEF IInv, TypeOK

\* A step of the log that changes neither what is durable, nor what was last
\* written, nor who is in an operation, is no step of the abstract store.
LEMMA Stutter ==
  ASSUME UNCHANGED <<latest, ActiveOps>>,
         Overlay(disk', hdr', logdisk') = Overlay(disk, hdr, logdisk)
  PROVE  UNCHANGED Store!vars
  BY Zenon DEF Store!vars

\* Every step of the log is a step of the abstract store or leaves it alone.
LEMMA StoreStep == ASSUME CountFacts PROVE IInv /\ IInv' /\ [Next]_vars => [Store!Next]_(Store!vars)
<1> SUFFICES ASSUME IInv, IInv', [Next]_vars PROVE Store!Next \/ UNCHANGED Store!vars
  OBVIOUS
<1> DEFINE stable == Overlay(disk, hdr, logdisk)
<1>1. CASE UNCHANGED vars
  BY <1>1, Stutter, Zenon DEF vars, durable, ActiveOps, InOp
<1>2. ASSUME NEW p \in Proc, Call(p) PROVE UNCHANGED Store!vars
  <2>1. ActiveOps' = ActiveOps
    BY <1>2, Zenon DEF Call, ActiveOps, InOp, IInv, TypeOK
  <2> QED
    BY <1>2, <2>1, Stutter, Zenon DEF Call, durable
<1>3. ASSUME NEW p \in Proc, begin_op(p) PROVE Store!Next \/ UNCHANGED Store!vars
  <2>1. UNCHANGED <<disk, logdisk, hdr, latest>>
    BY <1>3, Zenon DEF begin_op, durable
  <2>2. CASE committing \/ LogFull
    <3>1. ActiveOps' = ActiveOps
      BY <1>3, <2>2, Zenon DEF begin_op, ActiveOps, InOp, IInv, TypeOK
    <3> QED
      BY <2>1, <3>1, Stutter, Zenon
  <2>3. CASE ~(committing \/ LogFull)
    <3>1. pc[p] = "begin_op" /\ pc' = [pc EXCEPT ![p] = "in_op"]
      BY <1>3, <2>3, Zenon DEF begin_op
    <3>2. ActiveOps' = ActiveOps \cup {p} /\ p \notin ActiveOps
      BY ZenonT(30), <3>1 DEF ActiveOps, InOp, IInv, TypeOK
    <3>3. Store!Begin(p)
      BY <2>1, <3>2, Zenon DEF Store!Begin
    <3> QED
      BY <3>3, Zenon DEF Store!Next
  <2> QED
    BY <2>2, <2>3, Zenon
<1>4. ASSUME NEW p \in Proc, end_op(p) PROVE Store!Next
  <2>1. UNCHANGED <<disk, logdisk, hdr, latest>> /\ InOp(p)
    BY <1>4, Zenon DEF end_op, durable
  <2>2. ActiveOps' = ActiveOps \ {p} /\ p \in ActiveOps
    <3> DEFINE f == [pc EXCEPT ![p] = "idle"]
               g == [pc EXCEPT ![p] = IF lh = <<>> THEN "end_commit" ELSE "write_log"]
    <3>1. pc' = g \/ pc' = wakeup(f)
      BY <1>4, Zenon DEF end_op
    <3>2. f \in [Proc -> PCs] /\ f[p] = "idle" /\ \A q \in Proc : q /= p => f[q] = pc[q]
      BY Zenon DEF IInv, TypeOK, PCs
    <3>3. g[p] /= "in_op" /\ \A q \in Proc : q /= p => g[q] = pc[q]
      BY Zenon DEF IInv, TypeOK
    <3> HIDE DEF f, g
    <3>4. \A q \in Proc : wakeup(f)[q] = "in_op" <=> f[q] = "in_op"
      BY <3>2, WakeupFacts, Zenon
    <3>5. \A q \in Proc : pc'[q] = "in_op" <=> q /= p /\ pc[q] = "in_op"
      BY <3>1, <3>2, <3>3, <3>4, Zenon
    <3> QED
      BY <2>1, <3>5, Zenon DEF ActiveOps, InOp
  <2>3. Store!End(p)
    BY <2>1, <2>2, Zenon DEF Store!End
  <2> QED
    BY <2>3, Zenon DEF Store!Next
<1>5. ASSUME NEW p \in Proc, NEW b \in Block, NEW v \in Value, log_write(p, b, v)
      PROVE  Store!Next
  <2>1. /\ UNCHANGED <<disk, logdisk, hdr, pc>> /\ InOp(p)
        /\ latest' = [latest EXCEPT ![b] = v]
    BY <1>5, Zenon DEF log_write, durable
  <2>2. p \in ActiveOps /\ ActiveOps' = ActiveOps
    BY <2>1, Zenon DEF ActiveOps, InOp
  <2>3. Store!Write(p, b, v)
    BY <2>1, <2>2, Zenon DEF Store!Write
  <2> QED
    BY <2>3, Zenon DEF Store!Next
<1>6. ASSUME NEW p \in Proc, NEW s, pc[p] \in CommitPC, s /= "in_op",
             pc' = [pc EXCEPT ![p] = s] \/ pc' = wakeup([pc EXCEPT ![p] = s]),
             s \in PCs
      PROVE  ActiveOps' = {} /\ ActiveOps = {}
  <2>1. ActiveOps = {}
    BY <1>6, InOpNoCommit, Zenon DEF ActiveOps
  <2>2. [pc EXCEPT ![p] = s] \in [Proc -> PCs]
        /\ \A q \in Proc : [pc EXCEPT ![p] = s][q] /= "in_op"
    BY <1>6, <2>1, Zenon DEF ActiveOps, InOp, IInv, TypeOK
  <2>3. \A q \in Proc : pc'[q] /= "in_op"
    BY Zenon, <1>6, <2>2, WakeupFacts
  <2> QED
    BY <2>1, <2>3, Zenon DEF ActiveOps, InOp
<1>7. ASSUME NEW p \in Proc, CommitStep(p) PROVE ActiveOps' = {} /\ ActiveOps = {}
  <2> DEFINE s1 == IF tail + 1 = Len(lh) THEN "write_head" ELSE "write_log"
             s2 == IF tail + 1 = Len(lh) THEN "erase" ELSE "install_trans"
  <2>1. s1 \in PCs /\ s1 /= "in_op" /\ s2 \in PCs /\ s2 /= "in_op"
    BY Zenon DEF PCs
  <2>2. CASE write_log(p)
    BY Zenon, <1>6, <2>1, <2>2 DEF write_log, CommitPC
  <2>3. CASE install_trans(p)
    BY Zenon, <1>6, <2>1, <2>3 DEF install_trans, CommitPC
  <2>4. CASE write_head(p) \/ erase(p) \/ end_commit(p)
    <3>1. pc[p] \in CommitPC
      BY <2>4, Zenon DEF write_head, erase, end_commit, CommitPC
    <3>2. {"install_trans", "end_commit", "idle"} \subseteq PCs \ {"in_op"}
      BY Zenon DEF PCs
    <3>3. \E s \in {"install_trans", "end_commit", "idle"} :
             pc' = [pc EXCEPT ![p] = s] \/ pc' = wakeup([pc EXCEPT ![p] = s])
      BY Zenon, <2>4 DEF write_head, erase, end_commit
    <3> QED
      BY ZenonT(30), <1>6, <3>1, <3>2, <3>3
  <2> QED
    BY <1>7, <2>2, <2>3, <2>4, Zenon DEF CommitStep
<1>8. ASSUME NEW p \in Proc, CommitStep(p) PROVE Store!Next \/ UNCHANGED Store!vars
  <2>1. CASE write_head(p)
    <3>1. Overlay(disk', hdr', logdisk') = latest /\ UNCHANGED latest
      BY Zenon, <2>1, WriteHeadStep DEF write_head, IInv
    <3>2. Store!Commit
      BY <1>7, <1>8, <3>1, Zenon DEF Store!Commit
    <3> QED
      BY <3>2, Zenon DEF Store!Next
  <2>2. CASE write_log(p)
    <3>1. hdr = <<>> /\ UNCHANGED <<disk, hdr, latest>>
      BY <2>2, NotInstalling, Zenon DEF write_log, Up, CommitPC, Installing
    <3>2. Overlay(disk', hdr', logdisk') = stable
      BY <3>1, OverlayEmpty
    <3> QED
      BY <1>7, <1>8, <3>1, <3>2, Stutter, Zenon
  <2>3. CASE install_trans(p) \/ erase(p)
    <3>1. Overlay(disk', hdr', logdisk') = stable /\ UNCHANGED latest
      BY <2>3, InstallStep, EraseStep, Zenon DEF install_trans, erase, IInv
    <3> QED
      BY <1>7, <1>8, <3>1, Stutter, Zenon
  <2>4. CASE end_commit(p)
    BY <1>7, <1>8, <2>4, Stutter, Zenon DEF end_commit, durable
  <2> QED
    BY <1>8, <2>1, <2>2, <2>3, <2>4, Zenon DEF CommitStep
<1>9. ASSUME NEW b \in Block, Bread(b) \/ Recycle(b) PROVE UNCHANGED Store!vars
  BY <1>9, Stutter, Zenon DEF Bread, Recycle, durable, ActiveOps, InOp
<1>10. ASSUME Crash \/ CrashInInstall \/ \E p \in Proc : CrashInLogWrite(p)
       PROVE  Store!Next
  <2>1. LoseMemory /\ Overlay(disk', hdr', logdisk') = stable
    BY <1>10, CrashFacts, Zenon
  <2>2. ActiveOps' = {}
    BY <2>1, Zenon DEF LoseMemory, ActiveOps, InOp
  <2>3. Store!Crash
    BY <2>1, <2>2, Zenon DEF LoseMemory, Store!Crash
  <2> QED
    BY <2>3, Zenon DEF Store!Next
<1>11. ASSUME read_head \/ recover_install \/ recover_clear PROVE UNCHANGED Store!vars
  BY <1>11, RecoverStep, Stutter, Zenon DEF IInv, ActiveOps, InOp
<1> QED
  BY <1>1, <1>2, <1>3, <1>4, <1>5, <1>8, <1>9, <1>10, <1>11, Zenon DEF Next
============================================================================
