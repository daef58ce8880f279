------------------------------ MODULE SpinLock ------------------------------
(***************************************************************************)
(* The spin-locks of kernel/spinlock.c with the interrupt state they save  *)
(* in struct cpu (noff, intena), under device interrupts that take locks   *)
(* themselves and under sched and scheduler of kernel/proc.c, which move a *)
(* kernel thread, and the p->lock it holds, to another CPU.                *)
(*                                                                         *)
(* A context is a kernel thread or the scheduler of a CPU.  The actions    *)
(* are the instructions that other CPUs or an interrupt can tell apart.    *)
(***************************************************************************)
EXTENDS Naturals, FiniteSets

CONSTANTS CPU,      \* the CPUs; a CPU also names its scheduler's context
          Thread,   \* kernel threads of processes
          Outer,    \* locks other than the p->locks
          Order,    \* the pairs of locks that the kernel nests, the first outside
          NoCpu,    \* lk->cpu = 0
          NoLock    \* the target of a context outside acquire and release

ASSUME ContextAssumption == CPU \cap Thread = {} /\ NoCpu \notin CPU

Context == CPU \cup Thread
PLock == Thread              \* t stands for the p->lock of thread t as well
Lock == PLock \cup Outer

ASSUME LockAssumption == PLock \cap Outer = {} /\ NoLock \notin Lock
ASSUME OrderAssumption == \A l \in Lock : <<l, l>> \notin Order

VARIABLES locked, lcpu,          \* struct spinlock
          intr,                  \* SIE of each CPU
          noff, intena,          \* struct cpu
          on,                    \* the context that runs on each CPU
          pc, tgt, old,          \* where a context is in acquire or release
          held,                  \* the locks a context has
          sintena,               \* sched's local variable
          phase,                 \* of a thread: never run, in forkret, or past it
          irq,                   \* what an interrupt handler interrupted
          panicked

lockvars == <<locked, lcpu>>
cpuvars == <<intr, noff, intena>>
locals == <<pc, tgt, old>>
vars == <<lockvars, cpuvars, on, locals, held, sintena, phase, irq, panicked>>

NoIrq == [pc |-> "none"]

Init == /\ locked = [l \in Lock |-> FALSE]
        /\ lcpu = [l \in Lock |-> NoCpu]
        /\ intr = [c \in CPU |-> TRUE]
        /\ noff = [c \in CPU |-> 0]
        /\ intena = [c \in CPU |-> FALSE]
        /\ on = [c \in CPU |-> c]
        /\ pc = [x \in Context |-> "run"]
        /\ tgt = [x \in Context |-> NoLock]
        /\ old = [x \in Context |-> FALSE]
        /\ held = [x \in Context |-> {}]
        /\ sintena = [t \in Thread |-> FALSE]
        /\ phase = [t \in Thread |-> "new"]
        /\ irq = [x \in Context |-> NoIrq]
        /\ panicked = FALSE

At(c, l) == ~panicked /\ pc[on[c]] = l
Goto(c, l) == pc' = [pc EXCEPT ![on[c]] = l]

\* What the callers of acquire see to: locks are nested in an order, as wait_lock is
\* taken before any p->lock, and kmem.lock under one.  A scheduler takes only
\* p->locks, an interrupt handler on its stack any lock.
MayAcquire(x, l) == /\ \A k \in held[x] : <<k, l>> \in Order
                    /\ x \in CPU /\ irq[x] = NoIrq => l \in PLock
----------------------------------------------------------------------------
(* acquire. *)

\* intr_get in push_off.
intr_get(c, l) ==
  /\ At(c, "run")
  /\ MayAcquire(on[c], l)
  /\ tgt' = [tgt EXCEPT ![on[c]] = l]
  /\ old' = [old EXCEPT ![on[c]] = intr[c]]
  /\ Goto(c, "push_off")
  /\ UNCHANGED <<lockvars, cpuvars, on, held, sintena, phase, irq, panicked>>

holding(c, l) == locked[l] /\ lcpu[l] = c

SaveOuter(c) == IF noff[c] = 0 THEN old[on[c]] ELSE intena[c]

Deeper(c) == noff[c] + 1

TurnOff(c) == [intr EXCEPT ![c] = FALSE]

\* The rest of push_off, and acquire's test.
push_off(c) ==
  /\ At(c, "push_off")
  /\ intr' = TurnOff(c)
  /\ intena' = [intena EXCEPT ![c] = SaveOuter(c)]
  /\ noff' = [noff EXCEPT ![c] = Deeper(c)]
  /\ panicked' = holding(c, tgt[on[c]])
  /\ old' = [old EXCEPT ![on[c]] = FALSE]
  /\ Goto(c, "swap")
  /\ UNCHANGED <<lockvars, on, tgt, held, sintena, phase, irq>>

Free_Always(l) == TRUE
Free(l) == ~locked[l]

\* The swap that takes the lock; acquire spins while this is disabled.
test_and_set(c) ==
  /\ At(c, "swap")
  /\ Free(tgt[on[c]])
  /\ locked' = [locked EXCEPT ![tgt[on[c]]] = TRUE]
  /\ held' = [held EXCEPT ![on[c]] = @ \cup {tgt[on[c]]}]
  /\ Goto(c, "set_cpu")
  /\ UNCHANGED <<lcpu, cpuvars, on, tgt, old, sintena, phase, irq, panicked>>

mycpu(c) == c

set_cpu(c) ==
  /\ At(c, "set_cpu")
  /\ lcpu' = [lcpu EXCEPT ![tgt[on[c]]] = mycpu(c)]
  /\ tgt' = [tgt EXCEPT ![on[c]] = NoLock]
  /\ Goto(c, "run")
  /\ UNCHANGED <<locked, cpuvars, on, old, held, sintena, phase, irq, panicked>>
----------------------------------------------------------------------------
(* release. *)

\* release's test, and lk->cpu = 0.
release(c, l) ==
  /\ At(c, "run")
  /\ l \in held[on[c]]
  /\ panicked' = ~holding(c, l)
  /\ lcpu' = [lcpu EXCEPT ![l] = NoCpu]
  /\ tgt' = [tgt EXCEPT ![on[c]] = l]
  /\ Goto(c, "unlock")
  /\ UNCHANGED <<locked, cpuvars, on, old, held, sintena, phase, irq>>

lock_release(c) ==
  /\ At(c, "unlock")
  /\ locked' = [locked EXCEPT ![tgt[on[c]]] = FALSE]
  /\ held' = [held EXCEPT ![on[c]] = @ \ {tgt[on[c]]}]
  /\ Goto(c, "pop_off")
  /\ UNCHANGED <<lcpu, cpuvars, on, tgt, old, sintena, phase, irq, panicked>>

pop_off(c) ==
  /\ At(c, "pop_off")
  /\ panicked' = (intr[c] \/ noff[c] < 1)
  /\ noff' = [noff EXCEPT ![c] = @ - 1]
  /\ intr' = [intr EXCEPT ![c] = @ \/ (noff[c] = 1 /\ intena[c])]
  /\ tgt' = [tgt EXCEPT ![on[c]] = NoLock]
  /\ Goto(c, "run")
  /\ UNCHANGED <<lockvars, intena, on, old, held, sintena, phase, irq>>
----------------------------------------------------------------------------
(* Interrupts. *)

\* A device interrupt: the CPU turns interrupts off, and kerneltrap's handler
\* runs in the context it interrupted.
kerneltrap(c) ==
  LET x == on[c] IN
  /\ ~panicked
  /\ intr[c]
  /\ irq[x] = NoIrq
  /\ intr' = [intr EXCEPT ![c] = FALSE]
  /\ irq' = [irq EXCEPT ![x] = [pc |-> pc[x], tgt |-> tgt[x], old |-> old[x]]]
  /\ tgt' = [tgt EXCEPT ![x] = NoLock]
  /\ old' = [old EXCEPT ![x] = FALSE]
  /\ Goto(c, "run")
  /\ UNCHANGED <<lockvars, noff, intena, on, held, sintena, phase, panicked>>

\* The handler returns and sret turns interrupts on again.
kerneltrap_return(c) ==
  LET x == on[c] IN
  /\ At(c, "run")
  /\ irq[x] /= NoIrq
  /\ held[x] = {}
  /\ intr' = [intr EXCEPT ![c] = TRUE]
  /\ pc' = [pc EXCEPT ![x] = irq[x].pc]
  /\ tgt' = [tgt EXCEPT ![x] = irq[x].tgt]
  /\ old' = [old EXCEPT ![x] = irq[x].old]
  /\ irq' = [irq EXCEPT ![x] = NoIrq]
  /\ UNCHANGED <<lockvars, noff, intena, on, held, sintena, phase, panicked>>

\* A new process leaves forkret for user space, and comes back with
\* interrupts on (usertrapret, usertrap).
usertrapret(c) ==
  /\ At(c, "run")
  /\ on[c] \in Thread
  /\ phase[on[c]] = "forkret"
  /\ held[on[c]] = {}
  /\ irq[on[c]] = NoIrq
  /\ phase' = [phase EXCEPT ![on[c]] = "user"]
  /\ intr' = [intr EXCEPT ![c] = TRUE]
  /\ UNCHANGED <<lockvars, noff, intena, on, locals, held, sintena, irq, panicked>>
----------------------------------------------------------------------------
(* Switching. *)

\* sched, up to its swtch to the CPU's scheduler, which has p->lock then.
sched(c) ==
  LET t == on[c] IN
  /\ At(c, "run")
  /\ t \in Thread
  /\ held[t] = {t}
  /\ panicked' = (~holding(c, t) \/ noff[c] /= 1 \/ intr[c])
  /\ sintena' = [sintena EXCEPT ![t] = intena[c]]
  /\ on' = [on EXCEPT ![c] = c]
  /\ held' = [held EXCEPT ![t] = {}, ![c] = {t}]
  /\ UNCHANGED <<lockvars, cpuvars, locals, phase, irq>>

\* intena belongs to the thread; forkret does not restore it.
Restored_Cpu(c, t) == intena[c]
Restored(c, t) == IF phase[t] = "new" THEN intena[c] ELSE sintena[t]

\* scheduler's swtch to the thread whose p->lock it holds, and the end of the
\* thread's sched.
swtch(c, t) ==
  /\ At(c, "run")
  /\ on[c] = c
  /\ irq[c] = NoIrq
  /\ held[c] = {t}
  /\ \A d \in CPU : on[d] /= t
  /\ on' = [on EXCEPT ![c] = t]
  /\ held' = [held EXCEPT ![c] = {}, ![t] = {t}]
  /\ phase' = [phase EXCEPT ![t] = IF @ = "new" THEN "forkret" ELSE @]
  /\ sintena' = [sintena EXCEPT ![t] = FALSE]
  /\ intena' = [intena EXCEPT ![c] = Restored(c, t)]
  /\ UNCHANGED <<lockvars, intr, noff, locals, irq, panicked>>

\* intr_on at the top of scheduler's loop.
intr_on(c) ==
  /\ At(c, "run")
  /\ on[c] = c
  /\ irq[c] = NoIrq
  /\ held[c] = {}
  /\ ~intr[c]
  /\ intr' = [intr EXCEPT ![c] = TRUE]
  /\ UNCHANGED <<lockvars, noff, intena, on, locals, held, sintena, phase, irq, panicked>>
----------------------------------------------------------------------------
Next == \E c \in CPU :
          \/ \E l \in Lock : intr_get(c, l) \/ release(c, l)
          \/ push_off(c) \/ test_and_set(c) \/ set_cpu(c)
          \/ lock_release(c) \/ pop_off(c)
          \/ kerneltrap(c) \/ kerneltrap_return(c) \/ usertrapret(c)
          \/ sched(c) \/ intr_on(c)
          \/ \E t \in Thread : swtch(c, t)

Spec == Init /\ [][Next]_vars
----------------------------------------------------------------------------
(* Properties. *)

Pcs == {"run", "push_off", "swap", "set_cpu", "unlock", "pop_off"}

Saved == {NoIrq} \cup [pc : Pcs, tgt : Lock \cup {NoLock}, old : BOOLEAN]

\* The variables have their types.
TypeOK ==
  /\ locked \in [Lock -> BOOLEAN]
  /\ lcpu \in [Lock -> CPU \cup {NoCpu}]
  /\ intr \in [CPU -> BOOLEAN]
  /\ noff \in [CPU -> Nat]
  /\ intena \in [CPU -> BOOLEAN]
  /\ on \in [CPU -> Context]
  /\ pc \in [Context -> Pcs]
  /\ tgt \in [Context -> Lock \cup {NoLock}]
  /\ old \in [Context -> BOOLEAN]
  /\ held \in [Context -> SUBSET Lock]
  /\ sintena \in [Thread -> BOOLEAN]
  /\ phase \in [Thread -> {"new", "forkret", "user"}]
  /\ irq \in [Context -> Saved]
  /\ panicked \in BOOLEAN

\* Two contexts never have the same lock, whichever CPUs they run on and
\* however a p->lock is handed over by swtch (acquire, spinlock.c:21-43).
MutualExclusion == \A x, y \in Context : x /= y => held[x] \cap held[y] = {}

\* A CPU whose context has a lock, or is spinning for one, takes no interrupt:
\* otherwise a handler that wants the same lock spins for ever ("disable
\* interrupts to avoid deadlock", spinlock.c:24).
IntrOffInside ==
  \A c \in CPU : intr[c] => held[on[c]] = {} /\ pc[on[c]] \in {"run", "push_off"}

\* noff counts the locks of the context that runs, also after sched has moved
\* that context from another CPU, whose noff it does not take along.
NoffCounts ==
  \A c \in CPU : noff[c] = Cardinality(held[on[c]])
                          + IF pc[on[c]] \in {"swap", "pop_off"} THEN 1 ELSE 0

\* None of the panics of acquire, release, pop_off and sched happens, and the
\* variables keep their types.
NoPanic == TypeOK /\ ~panicked

\* A thread that has been in user space and is outside any lock and any
\* handler runs with interrupts on, whatever CPU released its last lock:
\* intena "is a property of this kernel thread, not this CPU" (proc.c:481).
IntrRestored ==
  \A c \in CPU :
    (/\ on[c] \in Thread
     /\ phase[on[c]] = "user"
     /\ irq[on[c]] = NoIrq
     /\ held[on[c]] = {}
     /\ pc[on[c]] \in {"run", "push_off"}) => intr[c]
----------------------------------------------------------------------------
(* The inductive invariant of the proofs. *)

Running(x) == \E c \in CPU : on[c] = x

\* A CPU runs its own scheduler or a thread, and a thread is on one CPU.
OneStack ==
  /\ \A c \in CPU : on[c] \in CPU => on[c] = c
  /\ \A c, d \in CPU : on[c] = on[d] => c = d

\* A context that is switched out is in sched or in scheduler, with no lock.
SwitchedOut == \A x \in Context : ~Running(x) => held[x] = {} /\ pc[x] = "run"

\* Where a context is in acquire or release, and the lock it is there for.
Targets ==
  \A x \in Context :
    /\ pc[x] \in {"push_off", "swap"} => tgt[x] \in Lock \ held[x]
    /\ pc[x] \in {"set_cpu", "unlock"} => tgt[x] \in held[x]
    /\ irq[x] /= NoIrq => \/ irq[x].pc = "run"
                          \/ irq[x].pc = "push_off" /\ irq[x].tgt \in Lock

\* The lock words agree with who has the locks.
HeldIsLocked == \A l \in Lock : locked[l] <=> \E x \in Context : l \in held[x]
CpuHolds == \A c \in CPU, l \in Lock : lcpu[l] = c => l \in held[on[c]]
HolderNamed ==
  \A c \in CPU, l \in Lock : l \in held[on[c]] =>
    lcpu[l] = c \/ (pc[on[c]] \in {"set_cpu", "unlock"} /\ tgt[on[c]] = l)
NotNamed ==
  \A x \in Context, l \in Lock :
    pc[x] \in {"set_cpu", "unlock"} /\ tgt[x] = l => lcpu[l] = NoCpu

LockWords == HeldIsLocked /\ CpuHolds /\ HolderNamed /\ NotNamed

Plain(x) == x \in Thread /\ phase[x] = "user" /\ irq[x] = NoIrq

\* Where the fact that a thread ran with interrupts on is kept: in its CPU, in
\* sched's variable, or in the context that an interrupt saved.
CpuKeeps ==
  \A c \in CPU : Plain(on[c]) =>
    /\ noff[c] /= 0 => intena[c]
    /\ noff[c] = 0 => intr[c]
    /\ noff[c] = 0 /\ pc[on[c]] = "push_off" => old[on[c]]
SchedKeeps == \A t \in Thread : Plain(t) /\ ~Running(t) => sintena[t]
IrqKeeps == \A t \in Thread : phase[t] = "user" /\ irq[t] /= NoIrq /\ irq[t].pc = "push_off"
                                 => irq[t].old

IntenaKept == CpuKeeps /\ SchedKeeps /\ IrqKeeps

\* A context holds finitely many locks.
HeldFinite == \A x \in Context : IsFiniteSet(held[x])

IInv == /\ OneStack /\ SwitchedOut /\ Targets /\ LockWords /\ HeldFinite
        /\ MutualExclusion /\ IntrOffInside /\ NoffCounts /\ NoPanic /\ IntenaKept

\* Two contexts never have the same lock, and acquire, release, pop_off and
\* sched do not panic (MutualExclusion, NoPanic).
LocksSafe == NoPanic /\ MutualExclusion

\* Interrupts are off exactly as long as they must be: while a lock is taken or
\* held (IntrOffInside), and on again behind the last one (IntrRestored).
InterruptsRight == IntrOffInside /\ IntrRestored
============================================================================
