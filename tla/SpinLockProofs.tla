-------------------------- MODULE SpinLockProofs --------------------------
(***************************************************************************)
(* Proofs about SpinLock, for every set of CPUs, threads and locks: every  *)
(* action keeps the inductive invariant IInv, and it implies that locks    *)
(* exclude, that nothing panics, and that interrupts are off and on where  *)
(* they must be.                                                           *)
(***************************************************************************)
EXTENDS SpinLock, TLAPS

\* CPUs name contexts, and threads name contexts and locks.
LEMMA Sorts ==
  /\ \A d \in CPU : d \in Context /\ d \notin Thread /\ d /= NoCpu
  /\ \A y \in Thread : y \in Context /\ y \in Lock /\ y \notin CPU
  /\ \A k \in Lock : k /= NoLock
BY ContextAssumption, LockAssumption, Zenon DEF Context, Lock, PLock
----------------------------------------------------------------------------
(* Counting locks. *)

\* The facts about finite sets that the proofs use, proved below.
Counting ==
  /\ IsFiniteSet({}) /\ Cardinality({}) = 0
  /\ \A e : IsFiniteSet({e}) /\ Cardinality({e}) = 1
  /\ \A S : IsFiniteSet(S) => Cardinality(S) \in Nat /\ (Cardinality(S) = 0 <=> S = {})
  /\ \A S, e : IsFiniteSet(S) /\ e \notin S =>
       IsFiniteSet(S \cup {e}) /\ Cardinality(S \cup {e}) = Cardinality(S) + 1
  /\ \A S, e : IsFiniteSet(S) /\ e \in S =>
       IsFiniteSet(S \ {e}) /\ Cardinality(S \ {e}) = Cardinality(S) - 1

\* One lock held and no push_off under way: noff is 1.
LEMMA OneLevel == 1 + 0 = 1 /\ 1 /= 0
OBVIOUS

\* What pop_off tests.
LEMMA Nested == \A n \in Nat : n >= 1 => ~(n < 1)
OBVIOUS

\* Taking one more lock.
LEMMA CardAdd ==
  ASSUME Counting, NEW S, IsFiniteSet(S), NEW e, e \notin S
  PROVE  /\ IsFiniteSet(S \cup {e})
         /\ Cardinality(S \cup {e}) = Cardinality(S) + 1
         /\ Cardinality(S) \in Nat
BY Zenon DEF Counting

\* Giving one up.
LEMMA CardRemove ==
  ASSUME Counting, NEW S, IsFiniteSet(S), NEW e \in S
  PROVE  /\ IsFiniteSet(S \ {e})
         /\ Cardinality(S \ {e}) = Cardinality(S) - 1
         /\ Cardinality(S) \in Nat
BY Zenon DEF Counting

\* Having none.
LEMMA CardOf ==
  ASSUME Counting, NEW S, IsFiniteSet(S)
  PROVE  Cardinality(S) \in Nat /\ (Cardinality(S) = 0 <=> S = {})
BY Zenon DEF Counting

\* Having one.
LEMMA CardOne ==
  ASSUME Counting
  PROVE  \A e : IsFiniteSet({e}) /\ Cardinality({e}) = 1 /\ IsFiniteSet({})
BY Zenon DEF Counting

\* noff tells whether the context that runs has a lock: pop_off and sched look
\* at noff only.
LEMMA Depth ==
  ASSUME Counting, IInv, NEW c \in CPU
  PROVE  /\ noff[c] \in Nat
         /\ pc[on[c]] \in {"swap", "pop_off"} =>
              noff[c] >= 1 /\ (noff[c] = 1 <=> held[on[c]] = {})
         /\ pc[on[c]] \notin {"swap", "pop_off"} => (noff[c] = 0 <=> held[on[c]] = {})
<1>1. on[c] \in Context /\ IsFiniteSet(held[on[c]])
  BY Zenon DEF IInv, HeldFinite, NoPanic, TypeOK
<1> QED BY <1>1, CardOf DEF IInv, NoffCounts
----------------------------------------------------------------------------
(* Every action keeps IInv.  The lemma of an action first states what the  *)
(* action does to the context x that runs on CPU c, and to the others      *)
(* (step <1>a), and the other steps work from that.                        *)

\* push_off reads the interrupt state: the value may be stale only if
\* interrupts are on, and is then TRUE.
LEMMA intr_get_Keeps ==
  ASSUME Counting, NEW c \in CPU, NEW l \in Lock, IInv, intr_get(c, l)
  PROVE  IInv'
<1> DEFINE x == on[c]
<1> /\ TypeOK /\ OneStack /\ SwitchedOut /\ Targets /\ HeldIsLocked /\ CpuHolds
    /\ HolderNamed /\ NotNamed /\ HeldFinite /\ MutualExclusion /\ IntrOffInside
    /\ NoffCounts /\ CpuKeeps /\ SchedKeeps /\ IrqKeeps
  BY Zenon DEF IInv, LockWords, IntenaKept, NoPanic
<1>a. /\ x \in Context /\ \A d \in CPU : on[d] \in Context /\ (d /= c => on[d] /= x)
      /\ pc[x] = "run" /\ l \notin held[x]
      /\ pc'[x] = "push_off" /\ tgt'[x] = l /\ (old'[x] <=> intr[c])
      /\ \A y \in Context : y /= x => pc'[y] = pc[y] /\ tgt'[y] = tgt[y]
      /\ \A y \in Context : y /= x => (old'[y] <=> old[y])
      /\ UNCHANGED <<locked, lcpu, intr, noff, intena, on, held, sintena, phase, irq,
                     panicked>>
  BY OrderAssumption, ZenonT(30)
     DEF intr_get, At, Goto, MayAcquire, OneStack, TypeOK, lockvars, cpuvars
<1>1. TypeOK'
  <2>1. /\ pc' \in [Context -> Pcs]
        /\ tgt' \in [Context -> Lock \cup {NoLock}]
        /\ old' \in [Context -> BOOLEAN]
    BY <1>a, ZenonT(30) DEF intr_get, Goto, Pcs, TypeOK
  <2> QED BY <1>a, <2>1, Zenon DEF TypeOK
<1>2. OneStack' /\ Targets' /\ HeldIsLocked'
  BY <1>a, Zenon DEF OneStack, Targets, HeldIsLocked
<1>3. CpuHolds' /\ HeldFinite' /\ MutualExclusion'
  BY <1>a, Zenon DEF CpuHolds, HeldFinite, MutualExclusion
<1>4. IntrOffInside' /\ NoffCounts'
  BY <1>a, Zenon DEF IntrOffInside, NoffCounts
<1>5. SchedKeeps' /\ IrqKeeps'
  BY <1>a, ZenonT(30) DEF SchedKeeps, Plain, Running, IrqKeeps
<1>6. SwitchedOut' /\ HolderNamed'
  BY <1>a DEF SwitchedOut, Running, HolderNamed
<1>7. NotNamed' /\ CpuKeeps'
  BY <1>a DEF NotNamed, CpuKeeps, Plain
<1>8. ~panicked'
  BY <1>a, Zenon DEF IInv, NoPanic
<1> QED BY <1>1, <1>2, <1>3, <1>4, <1>5, <1>6, <1>7, <1>8, Zenon DEF IInv, LockWords,
     IntenaKept, NoPanic

\* The rest of push_off: noff goes up with interrupts off, and the lock
\* wanted is not the CPU's own.
LEMMA push_off_Keeps ==
  ASSUME Counting, NEW c \in CPU, IInv, push_off(c)
  PROVE  IInv'
<1> DEFINE x == on[c]
<1> /\ TypeOK /\ OneStack /\ SwitchedOut /\ Targets /\ HeldIsLocked /\ CpuHolds
    /\ HolderNamed /\ NotNamed /\ HeldFinite /\ MutualExclusion /\ IntrOffInside
    /\ NoffCounts /\ CpuKeeps /\ SchedKeeps /\ IrqKeeps
  BY Zenon DEF IInv, LockWords, IntenaKept, NoPanic
<1>a. /\ x \in Context /\ \A d \in CPU : on[d] \in Context /\ (d /= c => on[d] /= x)
      /\ pc[x] = "push_off" /\ pc'[x] = "swap" /\ ~intr'[c] /\ noff'[c] = noff[c] + 1
      /\ intena'[c] <=> (IF noff[c] = 0 THEN old[x] ELSE intena[c])
      /\ \A y \in Context : y /= x => pc'[y] = pc[y] /\ (old'[y] <=> old[y])
      /\ \A d \in CPU : d /= c => /\ noff'[d] = noff[d] /\ (intr'[d] <=> intr[d])
                                /\ (intena'[d] <=> intena[d])
      /\ UNCHANGED <<locked, lcpu, on, tgt, held, sintena, phase, irq>>
  BY ZenonT(30)
     DEF push_off, At, Goto, TurnOff, SaveOuter, Deeper, OneStack, TypeOK, lockvars
<1>1. TypeOK'
  <2>1. /\ intr' \in [CPU -> BOOLEAN]
        /\ noff' \in [CPU -> Nat]
        /\ intena' \in [CPU -> BOOLEAN]
    BY <1>a DEF push_off, TurnOff, Deeper, SaveOuter, TypeOK
  <2>2. /\ pc' \in [Context -> Pcs]
        /\ old' \in [Context -> BOOLEAN]
        /\ panicked' \in BOOLEAN
    BY <1>a, Zenon DEF push_off, Goto, Pcs, holding, TypeOK
  <2> QED BY <1>a, <2>1, <2>2, Zenon DEF TypeOK
<1>2. OneStack' /\ Targets' /\ HeldIsLocked'
  BY <1>a, ZenonT(30) DEF OneStack, Targets, HeldIsLocked
<1>3. CpuHolds' /\ HeldFinite' /\ MutualExclusion'
  BY <1>a, ZenonT(30) DEF CpuHolds, HeldFinite, MutualExclusion
<1>4. IntrOffInside' /\ SchedKeeps' /\ IrqKeeps'
  BY <1>a, ZenonT(30) DEF IntrOffInside, SchedKeeps, Plain, Running, IrqKeeps
<1>5. SwitchedOut' /\ HolderNamed'
  BY <1>a DEF SwitchedOut, Running, HolderNamed
<1>6. NotNamed'
  BY <1>a DEF NotNamed
<1>7. NoffCounts'
  <2> SUFFICES ASSUME NEW d \in CPU
               PROVE  noff'[d] = Cardinality(held'[on'[d]])
                                 + IF pc'[on'[d]] \in {"swap", "pop_off"} THEN 1 ELSE 0
    BY Zenon DEF NoffCounts
  <2>1. noff[d] = Cardinality(held[on[d]])
                  + IF pc[on[d]] \in {"swap", "pop_off"} THEN 1 ELSE 0
    BY Zenon DEF NoffCounts
  <2>2. CASE d /= c
    BY <1>a, <2>1, <2>2, Zenon
  <2>3. CASE d = c
    <3>1. Cardinality(held[x]) \in Nat
      BY <1>a, CardOf, Zenon DEF HeldFinite
    <3>2. pc[x] = "push_off" /\ pc'[x] = "swap" /\ noff'[c] = noff[c] + 1 /\ on' = on /\ held' = held
      BY <1>a, Zenon
    <3> QED BY <2>1, <2>3, <3>1, <3>2
  <2> QED BY <2>2, <2>3, Zenon
<1>8. CpuKeeps'
  <2>1. noff[c] \in Nat
    BY Depth, Zenon
  <2> QED BY <1>a, <2>1 DEF CpuKeeps, Plain
<1>9. ~panicked'
  <2>1. ~holding(c, tgt[x])
    BY <1>a, ZenonT(30) DEF holding, CpuHolds, Targets
  <2> QED BY <2>1, Zenon DEF push_off
<1> QED BY <1>1, <1>2, <1>3, <1>4, <1>5, <1>6, <1>7, <1>8, <1>9, Zenon
           DEF IInv, LockWords,
     IntenaKept, NoPanic

\* The swap of acquire: the lock was free, so no other context has it.
LEMMA test_and_set_Keeps ==
  ASSUME Counting, NEW c \in CPU, IInv, test_and_set(c)
  PROVE  IInv'
<1> DEFINE x == on[c]
<1> /\ TypeOK /\ OneStack /\ SwitchedOut /\ Targets /\ HeldIsLocked /\ CpuHolds
    /\ HolderNamed /\ NotNamed /\ HeldFinite /\ MutualExclusion /\ IntrOffInside
    /\ NoffCounts /\ CpuKeeps /\ SchedKeeps /\ IrqKeeps
  BY Zenon DEF IInv, LockWords, IntenaKept, NoPanic
<1>a. /\ x \in Context /\ \A d \in CPU : on[d] \in Context /\ (d /= c => on[d] /= x)
      /\ pc[x] = "swap" /\ pc'[x] = "set_cpu" /\ tgt[x] \in Lock /\ ~locked[tgt[x]]
      /\ held'[x] = held[x] \cup {tgt[x]} /\ locked'[tgt[x]]
      /\ \A y \in Context : y /= x => pc'[y] = pc[y] /\ held'[y] = held[y]
      /\ \A k \in Lock : k /= tgt[x] => (locked'[k] <=> locked[k])
      /\ \A y \in Context : tgt[x] \notin held[y]
      /\ UNCHANGED <<lcpu, intr, noff, intena, on, tgt, old, sintena, phase, irq,
                     panicked>>
  BY DEF test_and_set, At, Goto, Free, Targets, HeldIsLocked, OneStack, TypeOK, cpuvars
<1>1. TypeOK'
  <2>1. /\ locked' \in [Lock -> BOOLEAN]
        /\ pc' \in [Context -> Pcs]
        /\ held' \in [Context -> SUBSET Lock]
    BY <1>a DEF test_and_set, Goto, Pcs, TypeOK
  <2> QED BY <1>a, <2>1, Zenon DEF TypeOK
<1>2. OneStack' /\ Targets' /\ CpuHolds'
  BY <1>a, ZenonT(30) DEF OneStack, Targets, CpuHolds
<1>3. IntrOffInside' /\ SchedKeeps' /\ IrqKeeps'
  BY <1>a DEF IntrOffInside, SchedKeeps, Plain, Running, IrqKeeps
<1>4. SwitchedOut' /\ HeldIsLocked'
  BY <1>a DEF SwitchedOut, Running, HeldIsLocked
<1>5. HolderNamed' /\ MutualExclusion'
  BY <1>a DEF HolderNamed, MutualExclusion
<1>6. NotNamed'
  BY <1>a DEF NotNamed, HeldIsLocked, CpuHolds, TypeOK
<1>7. HeldFinite'
  <2>1. /\ IsFiniteSet(held[x]) /\ tgt[x] \notin held[x]
        /\ held'[x] = held[x] \cup {tgt[x]}
        /\ \A y \in Context : y /= x => held'[y] = held[y]
    BY <1>a, Zenon DEF HeldFinite
  <2>2. IsFiniteSet(held'[x])
    BY <2>1, CardAdd
  <2> QED BY <2>1, <2>2, Zenon DEF HeldFinite
<1>8. NoffCounts'
  <2> SUFFICES ASSUME NEW d \in CPU
               PROVE  noff'[d] = Cardinality(held'[on'[d]])
                                 + IF pc'[on'[d]] \in {"swap", "pop_off"} THEN 1 ELSE 0
    BY Zenon DEF NoffCounts
  <2>1. noff[d] = Cardinality(held[on[d]])
                  + IF pc[on[d]] \in {"swap", "pop_off"} THEN 1 ELSE 0
    BY Zenon DEF NoffCounts
  <2>2. CASE d /= c
    BY <1>a, <2>1, <2>2, Zenon
  <2>3. CASE d = c
    <3>1. /\ IsFiniteSet(held[x]) /\ tgt[x] \notin held[x]
          /\ held'[x] = held[x] \cup {tgt[x]}
      BY <1>a, Zenon DEF HeldFinite
    <3>2. Cardinality(held'[x]) = Cardinality(held[x]) + 1 /\ Cardinality(held[x]) \in Nat
      BY <3>1, CardAdd, Zenon
    <3>3. pc[x] = "swap" /\ pc'[x] = "set_cpu" /\ noff' = noff /\ on' = on
      BY <1>a, Zenon
    <3> QED BY <2>1, <2>3, <3>2, <3>3
  <2> QED BY <2>2, <2>3, Zenon
<1>9. CpuKeeps'
  BY <1>a DEF CpuKeeps, Plain
<1>10. ~panicked'
  BY <1>a, Zenon DEF IInv, NoPanic
<1> QED BY <1>1, <1>2, <1>3, <1>4, <1>5, <1>6, <1>7, <1>8, <1>9, <1>10, Zenon DEF IInv,
     LockWords, IntenaKept, NoPanic

\* acquire records the CPU that has the lock.
LEMMA set_cpu_Keeps ==
  ASSUME Counting, NEW c \in CPU, IInv, set_cpu(c)
  PROVE  IInv'
<1> DEFINE x == on[c]
<1> /\ TypeOK /\ OneStack /\ SwitchedOut /\ Targets /\ HeldIsLocked /\ CpuHolds
    /\ HolderNamed /\ NotNamed /\ HeldFinite /\ MutualExclusion /\ IntrOffInside
    /\ NoffCounts /\ CpuKeeps /\ SchedKeeps /\ IrqKeeps
  BY Zenon DEF IInv, LockWords, IntenaKept, NoPanic
<1>a. /\ x \in Context /\ \A d \in CPU : on[d] \in Context /\ (d /= c => on[d] /= x)
      /\ pc[x] = "set_cpu" /\ pc'[x] = "run" /\ tgt'[x] = NoLock
      /\ tgt[x] \in Lock /\ tgt[x] \in held[x] /\ lcpu'[tgt[x]] = c
      /\ \A y \in Context : y /= x => pc'[y] = pc[y] /\ tgt'[y] = tgt[y]
      /\ \A k \in Lock : k /= tgt[x] => lcpu'[k] = lcpu[k]
      /\ \A y \in Context : y /= x => tgt[x] \notin held[y]
      /\ UNCHANGED <<locked, intr, noff, intena, on, old, held, sintena, phase, irq,
                     panicked>>
  BY DEF set_cpu, At, Goto, mycpu, Targets, MutualExclusion, OneStack, TypeOK, cpuvars
<1>1. TypeOK'
  <2>1. /\ lcpu' \in [Lock -> CPU \cup {NoCpu}]
        /\ pc' \in [Context -> Pcs]
        /\ tgt' \in [Context -> Lock \cup {NoLock}]
    BY <1>a, Zenon DEF set_cpu, mycpu, Goto, Pcs, TypeOK
  <2> QED BY <1>a, <2>1, Zenon DEF TypeOK
<1>2. OneStack' /\ Targets' /\ HeldIsLocked'
  BY <1>a, Zenon DEF OneStack, Targets, HeldIsLocked
<1>3. HeldFinite' /\ MutualExclusion' /\ IntrOffInside'
  BY <1>a, ZenonT(30) DEF HeldFinite, MutualExclusion, IntrOffInside
<1>4. NoffCounts' /\ CpuKeeps'
  BY <1>a, ZenonT(30) DEF NoffCounts, CpuKeeps, Plain
<1>5. SchedKeeps' /\ IrqKeeps'
  BY <1>a, ZenonT(30) DEF SchedKeeps, Plain, Running, IrqKeeps
<1>6. SwitchedOut' /\ CpuHolds'
  BY <1>a DEF SwitchedOut, Running, CpuHolds
<1>7. HolderNamed' /\ NotNamed'
  BY <1>a DEF HolderNamed, NotNamed, Targets
<1>8. ~panicked'
  BY <1>a, Zenon DEF IInv, NoPanic
<1> QED BY <1>1, <1>2, <1>3, <1>4, <1>5, <1>6, <1>7, <1>8, Zenon DEF IInv, LockWords,
     IntenaKept, NoPanic

\* release finds the CPU in the lock it gives up.
LEMMA release_Keeps ==
  ASSUME Counting, NEW c \in CPU, NEW l \in Lock, IInv, release(c, l)
  PROVE  IInv'
<1> DEFINE x == on[c]
<1> /\ TypeOK /\ OneStack /\ SwitchedOut /\ Targets /\ HeldIsLocked /\ CpuHolds
    /\ HolderNamed /\ NotNamed /\ HeldFinite /\ MutualExclusion /\ IntrOffInside
    /\ NoffCounts /\ CpuKeeps /\ SchedKeeps /\ IrqKeeps
  BY Zenon DEF IInv, LockWords, IntenaKept, NoPanic
<1>a. /\ x \in Context /\ \A d \in CPU : on[d] \in Context /\ (d /= c => on[d] /= x)
      /\ pc[x] = "run" /\ pc'[x] = "unlock" /\ tgt'[x] = l
      /\ l \in held[x] /\ lcpu'[l] = NoCpu
      /\ \A y \in Context : y /= x => pc'[y] = pc[y] /\ tgt'[y] = tgt[y]
      /\ \A k \in Lock : k /= l => lcpu'[k] = lcpu[k]
      /\ \A y \in Context : y /= x => l \notin held[y]
      /\ UNCHANGED <<locked, intr, noff, intena, on, old, held, sintena, phase, irq>>
  BY ZenonT(30) DEF release, At, Goto, MutualExclusion, OneStack, TypeOK, cpuvars
<1>1. TypeOK'
  <2>1. /\ lcpu' \in [Lock -> CPU \cup {NoCpu}]
        /\ pc' \in [Context -> Pcs]
        /\ tgt' \in [Context -> Lock \cup {NoLock}]
    BY <1>a, Zenon DEF release, Goto, Pcs, TypeOK
  <2>2. panicked' \in BOOLEAN
    BY <1>a, Zenon DEF release, holding, TypeOK
  <2> QED BY <1>a, <2>1, <2>2, Zenon DEF TypeOK
<1>2. OneStack' /\ Targets' /\ HeldIsLocked'
  BY <1>a, Zenon DEF OneStack, Targets, HeldIsLocked
<1>3. HeldFinite' /\ MutualExclusion' /\ IntrOffInside'
  BY <1>a, ZenonT(30) DEF HeldFinite, MutualExclusion, IntrOffInside
<1>4. NoffCounts' /\ CpuKeeps'
  BY <1>a DEF NoffCounts, CpuKeeps, Plain
<1>5. SchedKeeps' /\ IrqKeeps'
  BY <1>a DEF SchedKeeps, Plain, Running, IrqKeeps
<1>6. SwitchedOut' /\ HolderNamed'
  BY <1>a DEF SwitchedOut, Running, HolderNamed
<1>7. NotNamed'
  BY <1>a DEF NotNamed, Targets
<1>8. CpuHolds'
  BY <1>a, Sorts, ZenonT(30) DEF CpuHolds
<1>9. ~panicked'
  <2>1. holding(c, l)
    BY <1>a, Zenon DEF holding, HeldIsLocked, HolderNamed
  <2> QED BY <2>1, Zenon DEF release
<1> QED BY <1>1, <1>2, <1>3, <1>4, <1>5, <1>6, <1>7, <1>8, <1>9, Zenon
           DEF IInv, LockWords,
     IntenaKept, NoPanic

\* release clears the lock word: no context has the lock any more.
LEMMA lock_release_Keeps ==
  ASSUME Counting, NEW c \in CPU, IInv, lock_release(c)
  PROVE  IInv'
<1> DEFINE x == on[c]
<1> /\ TypeOK /\ OneStack /\ SwitchedOut /\ Targets /\ HeldIsLocked /\ CpuHolds
    /\ HolderNamed /\ NotNamed /\ HeldFinite /\ MutualExclusion /\ IntrOffInside
    /\ NoffCounts /\ CpuKeeps /\ SchedKeeps /\ IrqKeeps
  BY Zenon DEF IInv, LockWords, IntenaKept, NoPanic
<1>a. /\ x \in Context /\ \A d \in CPU : on[d] \in Context /\ (d /= c => on[d] /= x)
      /\ pc[x] = "unlock" /\ pc'[x] = "pop_off" /\ tgt[x] \in Lock /\ tgt[x] \in held[x]
      /\ held'[x] = held[x] \ {tgt[x]} /\ ~locked'[tgt[x]]
      /\ \A y \in Context : y /= x => pc'[y] = pc[y] /\ held'[y] = held[y]
      /\ \A k \in Lock : k /= tgt[x] => (locked'[k] <=> locked[k])
      /\ \A y \in Context : y /= x => tgt[x] \notin held[y]
      /\ UNCHANGED <<lcpu, intr, noff, intena, on, tgt, old, sintena, phase, irq,
                     panicked>>
  BY DEF lock_release, At, Goto, Targets, MutualExclusion, OneStack, TypeOK, cpuvars
<1>1. TypeOK'
  <2>1. /\ locked' \in [Lock -> BOOLEAN]
        /\ pc' \in [Context -> Pcs]
        /\ held' \in [Context -> SUBSET Lock]
    BY <1>a, Zenon DEF lock_release, Goto, Pcs, TypeOK
  <2> QED BY <1>a, <2>1, Zenon DEF TypeOK
<1>2. OneStack' /\ Targets' /\ NotNamed'
  BY <1>a DEF OneStack, Targets, NotNamed
<1>3. IntrOffInside' /\ CpuKeeps'
  BY <1>a, ZenonT(30) DEF IntrOffInside, CpuKeeps, Plain
<1>4. SchedKeeps' /\ IrqKeeps'
  BY <1>a, Zenon DEF SchedKeeps, Plain, Running, IrqKeeps
<1>5. SwitchedOut' /\ HeldIsLocked'
  <2>1. /\ Running(x) /\ on' = on
        /\ \A y \in Context : y /= x => pc'[y] = pc[y] /\ held'[y] = held[y]
    BY <1>a, Zenon DEF Running
  <2>2. SwitchedOut'
    BY <2>1, Zenon DEF SwitchedOut, Running
  <2> QED BY <1>a, <2>2 DEF HeldIsLocked
<1>6. HolderNamed' /\ MutualExclusion'
  BY <1>a DEF HolderNamed, MutualExclusion
<1>7. CpuHolds'
  BY <1>a, Sorts DEF CpuHolds, NotNamed
<1>8. HeldFinite'
  <2>1. /\ IsFiniteSet(held[x]) /\ tgt[x] \in held[x]
        /\ held'[x] = held[x] \ {tgt[x]}
        /\ \A y \in Context : y /= x => held'[y] = held[y]
    BY <1>a, Zenon DEF HeldFinite
  <2>2. IsFiniteSet(held'[x])
    BY <2>1, CardRemove
  <2> QED BY <2>1, <2>2, Zenon DEF HeldFinite
<1>9. NoffCounts'
  <2> SUFFICES ASSUME NEW d \in CPU
               PROVE  noff'[d] = Cardinality(held'[on'[d]])
                                 + IF pc'[on'[d]] \in {"swap", "pop_off"} THEN 1 ELSE 0
    BY Zenon DEF NoffCounts
  <2>1. noff[d] = Cardinality(held[on[d]])
                  + IF pc[on[d]] \in {"swap", "pop_off"} THEN 1 ELSE 0
    BY Zenon DEF NoffCounts
  <2>2. CASE d /= c
    BY <1>a, <2>1, <2>2, Zenon
  <2>3. CASE d = c
    <3>1. /\ IsFiniteSet(held[x]) /\ tgt[x] \in held[x]
          /\ held'[x] = held[x] \ {tgt[x]}
      BY <1>a, Zenon DEF HeldFinite
    <3>2. Cardinality(held'[x]) = Cardinality(held[x]) - 1 /\ Cardinality(held[x]) \in Nat
      BY <3>1, CardRemove, Zenon
    <3>3. pc[x] = "unlock" /\ pc'[x] = "pop_off" /\ noff' = noff /\ on' = on
      BY <1>a, Zenon
    <3> QED BY <2>1, <2>3, <3>2, <3>3
  <2> QED BY <2>2, <2>3, Zenon
<1>10. ~panicked'
  BY <1>a, Zenon DEF IInv, NoPanic
<1> QED BY <1>1, <1>2, <1>3, <1>4, <1>5, <1>6, <1>7, <1>8, <1>9, <1>10, ZenonT(30) DEF IInv,
     LockWords, IntenaKept, NoPanic

\* pop_off: noff is positive, and reaches 0 only with the last lock.
LEMMA pop_off_Keeps ==
  ASSUME Counting, NEW c \in CPU, IInv, pop_off(c)
  PROVE  IInv'
<1> DEFINE x == on[c]
<1> /\ TypeOK /\ OneStack /\ SwitchedOut /\ Targets /\ HeldIsLocked /\ CpuHolds
    /\ HolderNamed /\ NotNamed /\ HeldFinite /\ MutualExclusion /\ IntrOffInside
    /\ NoffCounts /\ CpuKeeps /\ SchedKeeps /\ IrqKeeps
  BY Zenon DEF IInv, LockWords, IntenaKept, NoPanic
<1>a. /\ x \in Context /\ \A d \in CPU : on[d] \in Context /\ (d /= c => on[d] /= x)
      /\ pc[x] = "pop_off" /\ pc'[x] = "run" /\ tgt'[x] = NoLock /\ noff'[c] = noff[c] - 1
      /\ ~intr[c] /\ (intr'[c] <=> (noff[c] = 1 /\ intena[c]))
      /\ \A y \in Context : y /= x => pc'[y] = pc[y] /\ tgt'[y] = tgt[y]
      /\ \A d \in CPU : d /= c => noff'[d] = noff[d] /\ (intr'[d] <=> intr[d])
      /\ UNCHANGED <<locked, lcpu, intena, on, old, held, sintena, phase, irq>>
  BY ZenonT(30) DEF pop_off, At, Goto, IntrOffInside, OneStack, TypeOK, lockvars
<1>1. TypeOK'
  <2>1. /\ intr' \in [CPU -> BOOLEAN]
        /\ noff' \in [CPU -> Nat]
        /\ pc' \in [Context -> Pcs]
    BY <1>a, Depth DEF pop_off, Goto, Pcs, TypeOK
  <2>2. /\ tgt' \in [Context -> Lock \cup {NoLock}]
        /\ panicked' \in BOOLEAN
    BY <1>a, Zenon DEF pop_off, TypeOK
  <2> QED BY <1>a, <2>1, <2>2, Zenon DEF TypeOK
<1>2. OneStack' /\ Targets' /\ HeldIsLocked'
  BY <1>a, ZenonT(30) DEF OneStack, Targets, HeldIsLocked
<1>3. CpuHolds' /\ HeldFinite' /\ MutualExclusion'
  BY <1>a, ZenonT(30) DEF CpuHolds, HeldFinite, MutualExclusion
<1>4. SchedKeeps' /\ IrqKeeps'
  BY <1>a, ZenonT(30) DEF SchedKeeps, Plain, Running, IrqKeeps
<1>5. SwitchedOut' /\ HolderNamed'
  BY <1>a DEF SwitchedOut, Running, HolderNamed
<1>6. NotNamed'
  BY <1>a DEF NotNamed
<1>7. IntrOffInside'
  <2>1. noff[c] = 1 => held[x] = {}
    BY <1>a, Depth, Zenon
  <2> QED BY <1>a, <2>1, ZenonT(30) DEF IntrOffInside
<1>8. NoffCounts'
  <2> SUFFICES ASSUME NEW d \in CPU
               PROVE  noff'[d] = Cardinality(held'[on'[d]])
                                 + IF pc'[on'[d]] \in {"swap", "pop_off"} THEN 1 ELSE 0
    BY Zenon DEF NoffCounts
  <2>1. noff[d] = Cardinality(held[on[d]])
                  + IF pc[on[d]] \in {"swap", "pop_off"} THEN 1 ELSE 0
    BY Zenon DEF NoffCounts
  <2>2. CASE d /= c
    BY <1>a, <2>1, <2>2, Zenon
  <2>3. CASE d = c
    <3>1. Cardinality(held[x]) \in Nat
      BY <1>a, CardOf, Zenon DEF HeldFinite
    <3>2. pc[x] = "pop_off" /\ pc'[x] = "run" /\ noff'[c] = noff[c] - 1 /\ on' = on /\ held' = held
      BY <1>a, Zenon
    <3> QED BY <2>1, <2>3, <3>1, <3>2
  <2> QED BY <2>2, <2>3, Zenon
<1>9. CpuKeeps'
  <2>1. noff[c] \in Nat /\ noff[c] >= 1
    BY <1>a, Depth, Zenon
  <2> QED BY <1>a, <2>1 DEF CpuKeeps, Plain
<1>10. ~panicked'
  <2>1. noff[c] \in Nat /\ noff[c] >= 1 /\ ~intr[c]
    BY <1>a, Depth, Zenon
  <2>2. ~(intr[c] \/ noff[c] < 1)
    BY <2>1, Nested, ZenonT(30)
  <2> QED BY <2>2, Zenon DEF pop_off
<1> QED BY <1>1, <1>2, <1>3, <1>4, <1>5, <1>6, <1>7, <1>8, <1>9, <1>10, Zenon DEF IInv,
     LockWords, IntenaKept, NoPanic

\* A device interrupt comes only outside every lock.
LEMMA kerneltrap_Keeps ==
  ASSUME Counting, NEW c \in CPU, IInv, kerneltrap(c)
  PROVE  IInv'
<1> DEFINE x == on[c]
<1> /\ TypeOK /\ OneStack /\ SwitchedOut /\ Targets /\ HeldIsLocked /\ CpuHolds
    /\ HolderNamed /\ NotNamed /\ HeldFinite /\ MutualExclusion /\ IntrOffInside
    /\ NoffCounts /\ CpuKeeps /\ SchedKeeps /\ IrqKeeps
  BY Zenon DEF IInv, LockWords, IntenaKept, NoPanic
<1>a. /\ x \in Context /\ \A d \in CPU : on[d] \in Context /\ (d /= c => on[d] /= x)
      /\ pc[x] \in {"run", "push_off"} /\ held[x] = {} /\ irq[x] = NoIrq /\ intr[c]
      /\ pc'[x] = "run" /\ tgt'[x] = NoLock /\ ~old'[x] /\ ~intr'[c] /\ irq'[x] /= NoIrq
      /\ irq'[x].pc = pc[x] /\ irq'[x].tgt = tgt[x] /\ (irq'[x].old <=> old[x])
      /\ \A y \in Context : y /= x => pc'[y] = pc[y] /\ tgt'[y] = tgt[y] /\ irq'[y] = irq[y]
      /\ \A y \in Context : y /= x => (old'[y] <=> old[y])
      /\ \A d \in CPU : d /= c => (intr'[d] <=> intr[d])
      /\ UNCHANGED <<locked, lcpu, noff, intena, on, held, sintena, phase, panicked>>
  BY DEF kerneltrap, Goto, IntrOffInside, NoIrq, OneStack, TypeOK, lockvars
<1>1. TypeOK'
  <2>1. /\ intr' \in [CPU -> BOOLEAN]
        /\ pc' \in [Context -> Pcs]
        /\ tgt' \in [Context -> Lock \cup {NoLock}]
    BY <1>a, ZenonT(30) DEF kerneltrap, Goto, Pcs, TypeOK
  <2>2. /\ old' \in [Context -> BOOLEAN]
        /\ irq' \in [Context -> Saved]
    BY <1>a DEF kerneltrap, Saved, NoIrq, TypeOK
  <2> QED BY <1>a, <2>1, <2>2, Zenon DEF TypeOK, Saved
<1>2. OneStack' /\ HeldIsLocked' /\ CpuHolds'
  BY <1>a, Zenon DEF OneStack, HeldIsLocked, CpuHolds
<1>3. HeldFinite' /\ MutualExclusion'
  BY <1>a, ZenonT(30) DEF HeldFinite, MutualExclusion
<1>4. IntrOffInside' /\ NoffCounts'
  BY <1>a, ZenonT(30) DEF IntrOffInside, NoffCounts
<1>5. SwitchedOut'
  <2>1. /\ Running(x) /\ on' = on /\ held' = held
        /\ \A y \in Context : y /= x => pc'[y] = pc[y]
    BY <1>a, Zenon DEF Running
  <2> QED BY <2>1, Zenon DEF SwitchedOut, Running
<1>6. Targets'
  BY <1>a DEF Targets
<1>7. HolderNamed'
  BY <1>a DEF HolderNamed
<1>8. NotNamed'
  BY <1>a DEF NotNamed
<1>9. CpuKeeps'
  BY <1>a DEF CpuKeeps, Plain
<1>10. SchedKeeps'
  BY <1>a, Sorts, ZenonT(30) DEF SchedKeeps, Plain, Running
<1>11. IrqKeeps'
  <2>1. noff[c] = 0
    BY <1>a, Depth, Zenon
  <2> QED BY <1>a, <2>1, Sorts DEF IrqKeeps, CpuKeeps, Plain
<1>12. ~panicked'
  BY <1>a, Zenon DEF IInv, NoPanic
<1> QED BY <1>1, <1>2, <1>3, <1>4, <1>5, <1>6, <1>7, <1>8, <1>9, <1>10, <1>11, <1>12, ZenonT(30) DEF
     IInv, LockWords, IntenaKept, NoPanic

\* A handler returns to where the interrupt was, with interrupts on as they
\* were.
LEMMA kerneltrap_return_Keeps ==
  ASSUME Counting, NEW c \in CPU, IInv, kerneltrap_return(c)
  PROVE  IInv'
<1> DEFINE x == on[c]
<1> /\ TypeOK /\ OneStack /\ SwitchedOut /\ Targets /\ HeldIsLocked /\ CpuHolds
    /\ HolderNamed /\ NotNamed /\ HeldFinite /\ MutualExclusion /\ IntrOffInside
    /\ NoffCounts /\ CpuKeeps /\ SchedKeeps /\ IrqKeeps
  BY Zenon DEF IInv, LockWords, IntenaKept, NoPanic
<1>a. /\ x \in Context /\ \A d \in CPU : on[d] \in Context /\ (d /= c => on[d] /= x)
      /\ pc[x] = "run" /\ held[x] = {} /\ irq[x] /= NoIrq /\ irq[x].pc \in {"run", "push_off"}
      /\ pc'[x] = irq[x].pc /\ tgt'[x] = irq[x].tgt /\ (old'[x] <=> irq[x].old)
      /\ intr'[c] /\ irq'[x] = NoIrq
      /\ \A y \in Context : y /= x => pc'[y] = pc[y] /\ tgt'[y] = tgt[y] /\ irq'[y] = irq[y]
      /\ \A y \in Context : y /= x => (old'[y] <=> old[y])
      /\ \A d \in CPU : d /= c => (intr'[d] <=> intr[d])
      /\ UNCHANGED <<locked, lcpu, noff, intena, on, held, sintena, phase, panicked>>
  BY ZenonT(30) DEF kerneltrap_return, At, Targets, NoIrq, OneStack, TypeOK, lockvars
<1>1. TypeOK'
  <2>1. /\ intr' \in [CPU -> BOOLEAN]
        /\ pc' \in [Context -> Pcs]
        /\ tgt' \in [Context -> Lock \cup {NoLock}]
    BY <1>a, Zenon DEF kerneltrap_return, Pcs, Saved, TypeOK
  <2>2. /\ old' \in [Context -> BOOLEAN]
        /\ irq' \in [Context -> Saved]
    BY <1>a, Zenon DEF kerneltrap_return, Saved, NoIrq, TypeOK
  <2> QED BY <1>a, <2>1, <2>2, Zenon DEF TypeOK, Saved
<1>2. OneStack' /\ HeldIsLocked' /\ CpuHolds'
  BY <1>a, ZenonT(30) DEF OneStack, HeldIsLocked, CpuHolds
<1>3. HeldFinite' /\ MutualExclusion'
  BY <1>a, ZenonT(30) DEF HeldFinite, MutualExclusion
<1>4. SwitchedOut'
  <2>1. /\ Running(x) /\ on' = on /\ held' = held
        /\ \A y \in Context : y /= x => pc'[y] = pc[y]
    BY <1>a, Zenon DEF Running
  <2> QED BY <2>1, Zenon DEF SwitchedOut, Running
<1>5. Targets'
  <2>1. /\ held' = held /\ held[x] = {} /\ irq[x] /= NoIrq /\ irq'[x] = NoIrq
        /\ pc'[x] = irq[x].pc /\ tgt'[x] = irq[x].tgt /\ irq[x].pc \in {"run", "push_off"}
        /\ \A y \in Context : y /= x => pc'[y] = pc[y] /\ tgt'[y] = tgt[y] /\ irq'[y] = irq[y]
    BY <1>a, ZenonT(30)
  <2> QED BY <2>1, ZenonT(30) DEF Targets
<1>6. HolderNamed'
  BY <1>a DEF HolderNamed
<1>7. NotNamed'
  BY <1>a DEF NotNamed
<1>8. IntrOffInside'
  BY <1>a, ZenonT(30) DEF IntrOffInside
<1>9. NoffCounts'
  BY <1>a, ZenonT(30) DEF NoffCounts
<1>10. CpuKeeps'
  <2>1. noff[c] = 0
    BY <1>a, Depth, Zenon
  <2> QED BY <1>a, <2>1 DEF CpuKeeps, Plain, IrqKeeps
<1>11. SchedKeeps'
  BY <1>a, Sorts, ZenonT(30) DEF SchedKeeps, Plain, Running
<1>12. IrqKeeps'
  BY <1>a, Sorts, ZenonT(30) DEF IrqKeeps
<1>13. ~panicked'
  BY <1>a, Zenon DEF IInv, NoPanic
<1> QED BY <1>1, <1>2, <1>3, <1>4, <1>5, <1>6, <1>7, <1>8, <1>9, <1>10, <1>11, <1>12,
     <1>13, ZenonT(30) DEF IInv, LockWords, IntenaKept, NoPanic

\* A new process reaches user space, and runs with interrupts on from there.
LEMMA usertrapret_Keeps ==
  ASSUME Counting, NEW c \in CPU, IInv, usertrapret(c)
  PROVE  IInv'
<1> DEFINE x == on[c]
<1> /\ TypeOK /\ OneStack /\ SwitchedOut /\ Targets /\ HeldIsLocked /\ CpuHolds
    /\ HolderNamed /\ NotNamed /\ HeldFinite /\ MutualExclusion /\ IntrOffInside
    /\ NoffCounts /\ CpuKeeps /\ SchedKeeps /\ IrqKeeps
  BY Zenon DEF IInv, LockWords, IntenaKept, NoPanic
<1>a. /\ x \in Context /\ \A d \in CPU : on[d] \in Context /\ (d /= c => on[d] /= x)
      /\ x \in Thread /\ pc[x] = "run" /\ held[x] = {} /\ irq[x] = NoIrq
      /\ intr'[c] /\ phase'[x] = "user"
      /\ \A y \in Thread : y /= x => phase'[y] = phase[y]
      /\ \A d \in CPU : d /= c => (intr'[d] <=> intr[d])
      /\ UNCHANGED <<locked, lcpu, noff, intena, on, pc, tgt, old, held, sintena, irq,
                     panicked>>
  BY ZenonT(30) DEF usertrapret, At, OneStack, TypeOK, lockvars, locals
<1>1. TypeOK'
  <2>1. /\ intr' \in [CPU -> BOOLEAN]
        /\ phase' \in [Thread -> {"new", "forkret", "user"}]
    BY <1>a, Zenon DEF usertrapret, TypeOK
  <2> QED BY <1>a, <2>1, Zenon DEF TypeOK
<1>2. OneStack' /\ SwitchedOut' /\ Targets'
  BY <1>a DEF OneStack, SwitchedOut, Running, Targets
<1>3. HeldIsLocked' /\ CpuHolds' /\ NotNamed'
  BY <1>a, Zenon DEF HeldIsLocked, CpuHolds, NotNamed
<1>4. HeldFinite' /\ MutualExclusion' /\ IntrOffInside'
  BY <1>a, Zenon DEF HeldFinite, MutualExclusion, IntrOffInside
<1>5. NoffCounts' /\ SchedKeeps' /\ IrqKeeps'
  BY <1>a DEF NoffCounts, SchedKeeps, Plain, Running, IrqKeeps
<1>6. HolderNamed'
  BY <1>a DEF HolderNamed
<1>7. CpuKeeps'
  <2>1. noff[c] = 0
    BY <1>a, Depth, Zenon
  <2> QED BY <1>a, <2>1, ZenonT(30) DEF CpuKeeps, Plain
<1>8. ~panicked'
  BY <1>a, Zenon DEF IInv, NoPanic
<1> QED BY <1>1, <1>2, <1>3, <1>4, <1>5, <1>6, <1>7, <1>8, Zenon DEF IInv, LockWords,
     IntenaKept, NoPanic
----------------------------------------------------------------------------
(* Context switches keep IInv. *)

\* sched hands the CPU, and the p->lock of the thread, to the CPU's
\* scheduler.
LEMMA sched_Keeps ==
  ASSUME Counting, NEW c \in CPU, IInv, sched(c)
  PROVE  IInv'
<1> DEFINE x == on[c]
<1> /\ TypeOK /\ OneStack /\ SwitchedOut /\ Targets /\ HeldIsLocked /\ CpuHolds
    /\ HolderNamed /\ NotNamed /\ HeldFinite /\ MutualExclusion /\ IntrOffInside
    /\ NoffCounts /\ CpuKeeps /\ SchedKeeps /\ IrqKeeps
  BY Zenon DEF IInv, LockWords, IntenaKept, NoPanic
<1>a. /\ x \in Context /\ \A d \in CPU : on[d] \in Context /\ (d /= c => on[d] /= x)
      /\ x \in Thread /\ x \in Lock /\ x /= c /\ c \in Context /\ pc[x] = "run" /\ held[x] = {x}
      /\ \A d \in CPU : on[d] /= c
      /\ on'[c] = c /\ held'[c] = {x} /\ held'[x] = {} /\ (sintena'[x] <=> intena[c])
      /\ \A d \in CPU : d /= c => on'[d] = on[d]
      /\ \A y \in Context : y /= c /\ y /= x => held'[y] = held[y]
      /\ \A y \in Thread : y /= x => (sintena'[y] <=> sintena[y])
      /\ UNCHANGED <<locked, lcpu, intr, noff, intena, pc, tgt, old, phase, irq>>
  BY Sorts DEF sched, At, OneStack, TypeOK, lockvars, cpuvars, locals
<1>b. held[c] = {} /\ pc[c] = "run" /\ noff[c] = 1 /\ ~intr[c]
  <2>1. Cardinality({x}) = 1
    BY CardOne, Zenon
  <2>2. held[on[c]] = {x} /\ pc[on[c]] = "run" /\ ~intr[c]
    BY <1>a, Zenon DEF IntrOffInside
  <2>3. noff[c] = Cardinality(held[on[c]])
                  + IF pc[on[c]] \in {"swap", "pop_off"} THEN 1 ELSE 0
    BY ZenonT(30) DEF NoffCounts
  <2>4. noff[c] = 1
    BY <2>1, <2>2, <2>3
  <2> QED BY <1>a, <2>2, <2>4, Sorts, Zenon DEF SwitchedOut, Running
<1>1. TypeOK'
  <2>1. /\ on' \in [CPU -> Context]
        /\ held' \in [Context -> SUBSET Lock]
        /\ sintena' \in [Thread -> BOOLEAN]
    BY <1>a, Sorts, ZenonT(30) DEF sched, TypeOK
  <2>2. panicked' \in BOOLEAN
    BY <1>a, Zenon DEF sched, holding, TypeOK
  <2> QED BY <1>a, <2>1, <2>2, Zenon DEF TypeOK
<1>2. IrqKeeps'
  BY <1>a, Zenon DEF IrqKeeps
<1>3. NotNamed'
  <2>1. pc' = pc /\ tgt' = tgt /\ lcpu' = lcpu
    BY <1>a, Zenon
  <2> QED BY <2>1, Zenon DEF NotNamed
<1>4. OneStack'
  BY <1>a, Sorts DEF OneStack
<1>5. SwitchedOut'
  BY <1>a, <1>b DEF SwitchedOut, Running
<1>6. Targets'
  BY <1>a, <1>b, Zenon DEF Targets
<1>7. HeldIsLocked'
  <2> SUFFICES ASSUME NEW k \in Lock
               PROVE  (\E y \in Context : k \in held'[y]) <=> \E y \in Context : k \in held[y]
    BY <1>a, Zenon DEF HeldIsLocked
  <2>1. CASE k = x
    BY <1>a, <2>1, Zenon
  <2>2. CASE k /= x
    BY <1>a, <1>b, <2>2, ZenonT(30)
  <2> QED BY <2>1, <2>2, Zenon
<1>8. CpuHolds'
  <2>1. /\ lcpu' = lcpu /\ held'[on'[c]] = held[on[c]]
        /\ \A d \in CPU : d /= c => on'[d] = on[d] /\ held'[on[d]] = held[on[d]]
    BY <1>a, Zenon
  <2> QED BY <2>1, Zenon DEF CpuHolds
<1>9. HolderNamed'
  BY <1>a, <1>b DEF HolderNamed
<1>10. HeldFinite'
  <2>1. IsFiniteSet({}) /\ IsFiniteSet({x})
    BY CardOne, Zenon
  <2>2. /\ held'[x] = {} /\ held'[c] = {x}
        /\ \A y \in Context : y /= x /\ y /= c => held'[y] = held[y]
    BY <1>a, Zenon
  <2> QED BY <2>1, <2>2, Zenon DEF HeldFinite
<1>11. MutualExclusion'
  <2> SUFFICES ASSUME NEW y \in Context, NEW z \in Context, y /= z,
                      NEW k, k \in held'[y], k \in held'[z]
               PROVE  FALSE
    BY Zenon DEF MutualExclusion
  <2>1. k \notin held[y] \/ k \notin held[z]
    BY Zenon DEF MutualExclusion
  <2>2. k = x => \A w \in Context : k \in held[w] => w = x
    BY <1>a, ZenonT(30) DEF MutualExclusion
  <2> QED BY <1>a, <1>b, <2>1, <2>2, ZenonT(30)
<1>12. IntrOffInside'
  <2>1. /\ intr' = intr /\ pc' = pc /\ ~intr[c]
        /\ \A d \in CPU : d /= c => on'[d] = on[d] /\ held'[on[d]] = held[on[d]]
    BY <1>a, <1>b, Zenon
  <2> QED BY <2>1, Zenon DEF IntrOffInside
<1>13. NoffCounts'
  <2> SUFFICES ASSUME NEW d \in CPU
               PROVE  noff'[d] = Cardinality(held'[on'[d]])
                                 + IF pc'[on'[d]] \in {"swap", "pop_off"} THEN 1 ELSE 0
    BY Zenon DEF NoffCounts
  <2>1. noff[d] = Cardinality(held[on[d]])
                  + IF pc[on[d]] \in {"swap", "pop_off"} THEN 1 ELSE 0
    BY Zenon DEF NoffCounts
  <2>2. CASE d /= c
    BY <1>a, <2>1, <2>2
  <2>3. CASE d = c
    <3>1. Cardinality({x}) = 1
      BY CardOne, ZenonT(30)
    <3>2. held'[on'[c]] = {x} /\ pc'[on'[c]] = "run" /\ noff'[c] = 1
      BY <1>a, <1>b, ZenonT(30)
    <3> QED BY <2>3, <3>1, <3>2
  <2> QED BY <2>2, <2>3, Zenon
<1>14. CpuKeeps'
  <2>1. /\ c \notin Thread /\ on'[c] = c /\ \A d \in CPU : d /= c => on'[d] = on[d]
        /\ UNCHANGED <<intr, noff, intena, pc, old, phase, irq>>
    BY <1>a, Sorts, Zenon
  <2> QED BY <2>1, Zenon DEF CpuKeeps, Plain
<1>15. SchedKeeps'
  BY <1>a, <1>b DEF SchedKeeps, CpuKeeps, Plain, Running
<1>16. ~panicked'
  <2>1. holding(c, x)
    BY <1>a, Zenon DEF holding, HeldIsLocked, HolderNamed
  <2>2. noff[c] = 1 /\ ~intr[c]
    BY <1>b, Zenon
  <2> QED BY <2>1, <2>2, Zenon DEF sched
<1> QED BY <1>1, <1>2, <1>3, <1>4, <1>5, <1>6, <1>7, <1>8, <1>9, <1>10, <1>11, <1>12,
     <1>13, <1>14, <1>15, <1>16, ZenonT(30) DEF IInv, LockWords, IntenaKept, NoPanic

\* The scheduler hands the CPU and the p->lock to a thread that is on no CPU.
LEMMA swtch_Keeps ==
  ASSUME Counting, NEW c \in CPU, NEW t \in Thread, IInv, swtch(c, t)
  PROVE  IInv'
<1> DEFINE x == on[c]
<1> /\ TypeOK /\ OneStack /\ SwitchedOut /\ Targets /\ HeldIsLocked /\ CpuHolds
    /\ HolderNamed /\ NotNamed /\ HeldFinite /\ MutualExclusion /\ IntrOffInside
    /\ NoffCounts /\ CpuKeeps /\ SchedKeeps /\ IrqKeeps
  BY Zenon DEF IInv, LockWords, IntenaKept, NoPanic
<1>a. /\ x \in Context /\ \A d \in CPU : on[d] \in Context /\ (d /= c => on[d] /= x)
      /\ x = c /\ t \in Context /\ t \in Lock /\ t /= c /\ pc[c] = "run" /\ held[c] = {t}
      /\ \A d \in CPU : on[d] /= t
      /\ on'[c] = t /\ held'[c] = {} /\ held'[t] = {t}
      /\ intena'[c] <=> (IF phase[t] = "new" THEN intena[c] ELSE sintena[t])
      /\ phase'[t] = "user" <=> phase[t] = "user"
      /\ \A d \in CPU : d /= c => on'[d] = on[d] /\ (intena'[d] <=> intena[d])
      /\ \A y \in Context : y /= c /\ y /= t => held'[y] = held[y]
      /\ \A y \in Thread : y /= t => phase'[y] = phase[y] /\ (sintena'[y] <=> sintena[y])
      /\ UNCHANGED <<locked, lcpu, intr, noff, pc, tgt, old, irq, panicked>>
  BY Sorts DEF swtch, At, Restored, OneStack, TypeOK, lockvars, locals
<1>b. held[t] = {} /\ pc[t] = "run" /\ noff[c] = 1 /\ ~intr[c]
  <2>1. Cardinality({t}) = 1
    BY CardOne, Zenon
  <2>2. held[on[c]] = {t} /\ pc[on[c]] = "run" /\ ~intr[c]
    BY <1>a, Zenon DEF IntrOffInside
  <2>3. noff[c] = Cardinality(held[on[c]])
                  + IF pc[on[c]] \in {"swap", "pop_off"} THEN 1 ELSE 0
    BY Zenon DEF NoffCounts
  <2>4. noff[c] = 1 + 0
    BY <2>1, <2>2, <2>3, Zenon
  <2>5. noff[c] = 1
    BY <2>4, OneLevel, ZenonT(30)
  <2> QED BY <1>a, <2>2, <2>5, Sorts, ZenonT(30) DEF SwitchedOut, Running
<1>c. \A d \in CPU : d /= c => on'[d] = on[d] /\ held'[on[d]] = held[on[d]]
  <2>1. \A y \in Context : y /= c /\ y /= t => held'[y] = held[y]
    BY <1>a, Zenon
  <2>2. \A d \in CPU : d /= c => on'[d] = on[d] /\ on[d] \in Context /\ on[d] /= t
    BY <1>a, Zenon
  <2>3. on[c] = c /\ \A d \in CPU : d /= c => on[d] /= on[c]
    BY <1>a, Zenon
  <2>4. ASSUME NEW d \in CPU, d /= c PROVE on'[d] = on[d] /\ held'[on[d]] = held[on[d]]
    <3>1. on[d] /= c /\ on'[d] = on[d] /\ on[d] \in Context /\ on[d] /= t
      BY <2>2, <2>3, <2>4, Zenon
    <3> QED BY <2>1, <3>1, Zenon
  <2> QED BY <2>4, Zenon
<1>1. TypeOK'
  <2>1. /\ intena' \in [CPU -> BOOLEAN]
        /\ on' \in [CPU -> Context]
        /\ held' \in [Context -> SUBSET Lock]
    <3>1. Restored(c, t) \in BOOLEAN
      BY Zenon DEF Restored, TypeOK
    <3>2. intena' \in [CPU -> BOOLEAN]
      BY <3>1, Zenon DEF swtch, TypeOK
    <3>3. on' \in [CPU -> Context]
      BY <1>a, Zenon DEF swtch, TypeOK
    <3>4. held' \in [Context -> SUBSET Lock]
      <4>1. {} \in SUBSET Lock /\ {t} \in SUBSET Lock
        BY <1>a, Zenon
      <4>2. /\ held \in [Context -> SUBSET Lock]
            /\ held' = [held EXCEPT ![c] = {}, ![t] = {t}]
        BY Zenon DEF swtch, TypeOK
      <4> QED BY <4>1, <4>2, ZenonT(30)
    <3> QED BY <3>2, <3>3, <3>4, Zenon
  <2>2. /\ sintena' \in [Thread -> BOOLEAN]
        /\ phase' \in [Thread -> {"new", "forkret", "user"}]
    BY <1>a, ZenonT(30) DEF swtch, TypeOK
  <2> QED BY <1>a, <2>1, <2>2, Zenon DEF TypeOK
<1>2. NotNamed'
  <2>1. pc' = pc /\ tgt' = tgt /\ lcpu' = lcpu
    BY <1>a, ZenonT(30)
  <2> QED BY <2>1, Zenon DEF NotNamed
<1>3. OneStack'
  BY <1>a, Sorts DEF OneStack
<1>4. SwitchedOut'
  BY <1>a, <1>b DEF SwitchedOut, Running
<1>5. Targets'
  BY <1>a, <1>b, ZenonT(30) DEF Targets
<1>6. HeldIsLocked'
  <2> SUFFICES ASSUME NEW k \in Lock
               PROVE  (\E y \in Context : k \in held'[y]) <=> \E y \in Context : k \in held[y]
    BY <1>a, ZenonT(30) DEF HeldIsLocked
  <2>1. CASE k = t
    BY <1>a, <2>1
  <2>2. CASE k /= t
    BY <1>a, <1>b, <2>2, Zenon
  <2> QED BY <2>1, <2>2, Zenon
<1>7. CpuHolds'
  <2>1. lcpu' = lcpu /\ on'[c] = t /\ on[c] = c /\ held[c] = {t} /\ held'[t] = {t}
    BY <1>a, Zenon
  <2> QED BY <1>c, <2>1, Zenon DEF CpuHolds
<1>8. HolderNamed'
  BY <1>a, <1>b DEF HolderNamed
<1>9. HeldFinite'
  <2>1. IsFiniteSet({}) /\ IsFiniteSet({t})
    BY CardOne, Zenon
  <2>2. /\ held'[c] = {} /\ held'[t] = {t}
        /\ \A y \in Context : y /= c /\ y /= t => held'[y] = held[y]
    BY <1>a, ZenonT(30)
  <2> QED BY <2>1, <2>2, Zenon DEF HeldFinite
<1>10. MutualExclusion'
  <2> SUFFICES ASSUME NEW y \in Context, NEW z \in Context, y /= z,
                      NEW k, k \in held'[y], k \in held'[z]
               PROVE  FALSE
    BY ZenonT(30) DEF MutualExclusion
  <2>1. k \notin held[y] \/ k \notin held[z]
    BY ZenonT(30) DEF MutualExclusion
  <2>2. k = t => \A w \in Context : k \in held[w] => w = c
    BY <1>a DEF MutualExclusion
  <2> QED BY <1>a, <1>b, <2>1, <2>2
<1>11. IntrOffInside'
  <2>1. intr' = intr /\ pc' = pc /\ ~intr[c]
    BY <1>a, <1>b, Zenon
  <2> QED BY <1>c, <2>1, Zenon DEF IntrOffInside
<1>12. NoffCounts'
  <2> SUFFICES ASSUME NEW d \in CPU
               PROVE  noff'[d] = Cardinality(held'[on'[d]])
                                 + IF pc'[on'[d]] \in {"swap", "pop_off"} THEN 1 ELSE 0
    BY ZenonT(30) DEF NoffCounts
  <2>1. noff[d] = Cardinality(held[on[d]])
                  + IF pc[on[d]] \in {"swap", "pop_off"} THEN 1 ELSE 0
    BY ZenonT(30) DEF NoffCounts
  <2>2. CASE d /= c
    BY <1>a, <2>1, <2>2
  <2>3. CASE d = c
    <3>1. Cardinality({t}) = 1
      BY CardOne, ZenonT(30)
    <3>2. held'[on'[c]] = {t} /\ pc'[on'[c]] = "run" /\ noff'[c] = 1
      BY <1>a, <1>b, ZenonT(30)
    <3> QED BY <2>3, <3>1, <3>2
  <2> QED BY <2>2, <2>3, Zenon
<1>13. CpuKeeps'
  <2> SUFFICES ASSUME NEW d \in CPU, Plain(on[d])'
               PROVE  /\ noff'[d] /= 0 => intena'[d]
                      /\ noff'[d] = 0 => intr'[d]
                      /\ noff'[d] = 0 /\ pc'[on'[d]] = "push_off" => old'[on'[d]]
    BY ZenonT(30) DEF CpuKeeps
  <2>1. CASE d /= c
    <3>1. on'[d] = on[d] /\ on[d] /= t /\ (intena'[d] <=> intena[d])
      BY <1>a, <2>1, ZenonT(30) DEF Running
    <3>2. /\ \A y \in Thread : y /= t => phase'[y] = phase[y]
          /\ irq' = irq /\ noff' = noff /\ intr' = intr /\ pc' = pc /\ old' = old
      BY <1>a, Zenon
    <3>3. Plain(on[d])
      BY <3>1, <3>2, Zenon DEF Plain
    <3> QED BY <3>1, <3>2, <3>3, Zenon DEF CpuKeeps
  <2>2. CASE d = c
    <3>1. phase[t] = "user" /\ irq[t] = NoIrq
      <4>1. on'[c] = t /\ (phase'[t] = "user" <=> phase[t] = "user") /\ irq' = irq
        BY <1>a, Zenon
      <4> QED BY <2>2, <4>1, Zenon DEF Plain
    <3>2. sintena[t]
      <4>1. ~Running(t)
        BY <1>a, Zenon DEF Running
      <4>2. Plain(t)
        BY <3>1, Zenon DEF Plain
      <4> QED BY <4>1, <4>2, Zenon DEF SchedKeeps
    <3>3. noff'[c] /= 0 /\ intena'[c]
      <4>1. noff' = noff /\ (intena'[c] <=> IF phase[t] = "new" THEN intena[c] ELSE sintena[t])
        BY <1>a, ZenonT(30)
      <4> QED BY <1>b, <3>1, <3>2, <4>1, OneLevel, ZenonT(30)
    <3> QED BY <2>2, <3>3, ZenonT(30)
  <2> QED BY <2>1, <2>2, Zenon
<1>14. SchedKeeps'
  BY <1>a, Sorts DEF SchedKeeps, Plain, Running
<1>15. IrqKeeps'
  BY <1>a, ZenonT(30) DEF IrqKeeps
<1>16. ~panicked'
  BY <1>a, Zenon DEF IInv, NoPanic
<1> QED BY <1>1, <1>2, <1>3, <1>4, <1>5, <1>6, <1>7, <1>8, <1>9, <1>10, <1>11, <1>12,
     <1>13, <1>14, <1>15, <1>16, ZenonT(30) DEF IInv, LockWords, IntenaKept, NoPanic

\* The scheduler turns interrupts on, with no lock held.
LEMMA intr_on_Keeps ==
  ASSUME Counting, NEW c \in CPU, IInv, intr_on(c)
  PROVE  IInv'
<1> DEFINE x == on[c]
<1> /\ TypeOK /\ OneStack /\ SwitchedOut /\ Targets /\ HeldIsLocked /\ CpuHolds
    /\ HolderNamed /\ NotNamed /\ HeldFinite /\ MutualExclusion /\ IntrOffInside
    /\ NoffCounts /\ CpuKeeps /\ SchedKeeps /\ IrqKeeps
  BY Zenon DEF IInv, LockWords, IntenaKept, NoPanic
<1>a. /\ x \in Context /\ \A d \in CPU : on[d] \in Context /\ (d /= c => on[d] /= x)
      /\ x = c /\ pc[x] = "run" /\ held[x] = {} /\ intr'[c]
      /\ \A d \in CPU : d /= c => (intr'[d] <=> intr[d])
      /\ UNCHANGED <<locked, lcpu, noff, intena, on, pc, tgt, old, held, sintena, phase,
                     irq, panicked>>
  BY Zenon DEF intr_on, At, OneStack, TypeOK, lockvars, locals
<1>1. TypeOK'
  <2>1. intr' \in [CPU -> BOOLEAN]
    BY <1>a, ZenonT(30) DEF intr_on, TypeOK
  <2> QED BY <1>a, <2>1, Zenon DEF TypeOK
<1>2. OneStack' /\ SwitchedOut' /\ Targets'
  BY <1>a, ZenonT(30) DEF OneStack, SwitchedOut, Running, Targets
<1>3. HeldIsLocked' /\ CpuHolds' /\ NotNamed'
  BY <1>a, ZenonT(30) DEF HeldIsLocked, CpuHolds, NotNamed
<1>4. HeldFinite' /\ MutualExclusion' /\ IntrOffInside'
  BY <1>a, Zenon DEF HeldFinite, MutualExclusion, IntrOffInside
<1>5. NoffCounts' /\ SchedKeeps' /\ IrqKeeps'
  BY <1>a, ZenonT(30) DEF NoffCounts, SchedKeeps, Plain, Running, IrqKeeps
<1>6. HolderNamed'
  <2>1. lcpu' = lcpu /\ on' = on /\ held' = held /\ pc' = pc /\ tgt' = tgt
    BY <1>a, Zenon
  <2> QED BY <2>1, Zenon DEF HolderNamed
<1>7. CpuKeeps'
  BY <1>a, Sorts, Zenon DEF CpuKeeps, Plain
<1>8. ~panicked'
  BY <1>a, Zenon DEF IInv, NoPanic
<1> QED BY <1>1, <1>2, <1>3, <1>4, <1>5, <1>6, <1>7, <1>8, Zenon DEF IInv, LockWords,
     IntenaKept, NoPanic
----------------------------------------------------------------------------
(* Every step keeps IInv. *)

\* main's initlock, and no thread has run yet.
LEMMA InitIInv ==
  ASSUME Counting, Init
  PROVE  IInv
<1>1. NoPanic
  BY Sorts, Zenon DEF Init, NoPanic, TypeOK, Pcs, NoIrq, Saved
<1>2. HeldFinite /\ NoffCounts
  BY Sorts DEF Counting, Init, HeldFinite, NoffCounts
<1>3. OneStack /\ SwitchedOut /\ Targets /\ LockWords
  BY Sorts, Zenon
     DEF Init, OneStack, SwitchedOut, Running, Targets, LockWords, HeldIsLocked,
         CpuHolds, HolderNamed, NotNamed
<1>4. MutualExclusion /\ IntrOffInside /\ IntenaKept
  BY Sorts, ZenonT(30)
     DEF Init, MutualExclusion, IntrOffInside, IntenaKept, CpuKeeps, SchedKeeps,
         IrqKeeps, Plain
<1> QED BY <1>1, <1>2, <1>3, <1>4, Zenon DEF IInv

\* A step that changes nothing.
LEMMA StutterIInv == IInv /\ UNCHANGED vars => IInv'
<1> SUFFICES ASSUME IInv, UNCHANGED vars PROVE IInv'
  OBVIOUS
<1> USE DEF vars, lockvars, cpuvars, locals
<1>1. OneStack' /\ SwitchedOut' /\ Targets'
  BY Zenon DEF IInv, OneStack, SwitchedOut, Running, Targets
<1>2. LockWords' /\ HeldFinite' /\ MutualExclusion'
  BY ZenonT(30)
     DEF IInv, LockWords, HeldIsLocked, CpuHolds, HolderNamed, NotNamed, HeldFinite,
         MutualExclusion
<1>3. IntrOffInside' /\ NoffCounts' /\ NoPanic'
  BY Zenon DEF IInv, IntrOffInside, NoffCounts, NoPanic, TypeOK
<1>4. IntenaKept'
  BY ZenonT(30) DEF IInv, IntenaKept, CpuKeeps, SchedKeeps, IrqKeeps, Plain, Running
<1> QED BY <1>1, <1>2, <1>3, <1>4, Zenon DEF IInv

\* Any step of any CPU.
LEMMA NextIInv ==
  ASSUME Counting, IInv, [Next]_vars
  PROVE  IInv'
<1> SUFFICES ASSUME Next PROVE IInv'
  BY StutterIInv, Zenon
<1>1. PICK c \in CPU :
        \/ \E l \in Lock : intr_get(c, l) \/ release(c, l)
        \/ push_off(c) \/ test_and_set(c) \/ set_cpu(c)
        \/ lock_release(c) \/ pop_off(c)
        \/ kerneltrap(c) \/ kerneltrap_return(c) \/ usertrapret(c)
        \/ sched(c) \/ intr_on(c)
        \/ \E t \in Thread : swtch(c, t)
  BY Zenon DEF Next
<1> QED
  BY <1>1, intr_get_Keeps, push_off_Keeps, test_and_set_Keeps, set_cpu_Keeps, release_Keeps,
     lock_release_Keeps, pop_off_Keeps, kerneltrap_Keeps, kerneltrap_return_Keeps,
     usertrapret_Keeps, sched_Keeps, swtch_Keeps, intr_on_Keeps, Zenon

\* Behind its last lock a thread has interrupts on.
LEMMA Restores ==
  ASSUME Counting, IInv
  PROVE  IntrRestored
<1> SUFFICES ASSUME NEW c \in CPU, Plain(on[c]), held[on[c]] = {},
                    pc[on[c]] \in {"run", "push_off"}
             PROVE  intr[c]
  BY Zenon DEF IntrRestored, Plain
<1>1. noff[c] = 0
  BY Depth, Zenon
<1> QED BY <1>1, Zenon DEF IInv, IntenaKept, CpuKeeps
----------------------------------------------------------------------------
(* The theorems. *)

INSTANCE FiniteSetTheorems

\* The library's facts about finite sets.
LEMMA CountingLaws == Counting
<1>1. IsFiniteSet({}) /\ Cardinality({}) = 0
  BY FS_EmptySet, Zenon
<1>2. \A S : IsFiniteSet(S) => Cardinality(S) \in Nat /\ (Cardinality(S) = 0 <=> S = {})
  BY FS_EmptySet, FS_CardinalityType, Zenon
<1>3. \A S, e : IsFiniteSet(S) /\ e \notin S =>
        IsFiniteSet(S \cup {e}) /\ Cardinality(S \cup {e}) = Cardinality(S) + 1
  BY FS_AddElement, Zenon
<1>4. \A S, e : IsFiniteSet(S) /\ e \in S =>
        IsFiniteSet(S \ {e}) /\ Cardinality(S \ {e}) = Cardinality(S) - 1
  BY FS_RemoveElement, Zenon
<1>5. \A e : IsFiniteSet({e}) /\ Cardinality({e}) = 1
  BY FS_Singleton, ZenonT(30)
<1> QED BY <1>1, <1>2, <1>3, <1>4, <1>5, Zenon DEF Counting

\* The inductive invariant: noff counts the locks of the context that runs,
\* lock words name their holders, and intena is kept for every thread, on
\* whatever CPU it is, by spinlock.c and sched together.
THEOREM SpinLockInvariant == Spec => []IInv
<1>1. Init => IInv
  BY InitIInv, CountingLaws, Zenon
<1>2. IInv /\ [Next]_vars => IInv'
  BY NextIInv, CountingLaws, Zenon
<1> QED BY <1>1, <1>2, PTL DEF Spec

\* Two contexts never have the same lock, and acquire, release, pop_off and
\* sched never panic, for any number of CPUs, threads and locks.
THEOREM SpinLockLocksSafe == Spec => []LocksSafe
<1>1. IInv => LocksSafe
  BY Zenon DEF IInv, LocksSafe
<1> QED BY <1>1, SpinLockInvariant, PTL

\* Interrupts are off while a lock is taken or held, so that no handler can
\* spin on it, and on again when a thread is behind its last lock, although
\* push_off and pop_off may run on different CPUs.
THEOREM SpinLockInterruptsRight == Spec => []InterruptsRight
<1>1. IInv => IntrRestored
  BY Restores, CountingLaws, Zenon
<1>2. IInv => InterruptsRight
  BY <1>1, Zenon DEF IInv, InterruptsRight
<1> QED BY <1>2, SpinLockInvariant, PTL
============================================================================
