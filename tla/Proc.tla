-------------------------------- MODULE Proc --------------------------------
(***************************************************************************)
(* The process table of kernel/proc.c: fork, exit, wait, kill, sleep and   *)
(* wakeup, and the schedulers of the CPUs that run the processes.          *)
(*                                                                         *)
(* The granularity is that of the locks.  A critical section of one        *)
(* p->lock is one action, guarded by the lock being free; p->lock is a     *)
(* variable because it stays held across swtch, and wait_lock because exit *)
(* and wait take p->locks, one after the other, while they hold it.  Left  *)
(* out: the memory image, the open files, and the exit status.             *)
(***************************************************************************)
EXTENDS Naturals, FiniteSets

CONSTANTS NPROC,      \* slots of the process table
          CPU,        \* the CPUs
          MaxPid,     \* bound: fork is called only while nextpid <= MaxPid
          KillPids,   \* arguments given to kill
          Masks,      \* arguments given to trace
          Tracers     \* slots of the processes that call it

Proc == 1..NPROC
initproc == 1

\* kill(1) is left out: exit panics ("init exiting") by design.
ASSUME ProcConstants == /\ NPROC \in Nat \ {0}
                        /\ MaxPid \in Nat
                        /\ KillPids \subseteq Nat \ {1}
                        /\ initproc \notin Tracers

VARIABLES state, parent, chan, killed, pid, trace_mask,   \* struct proc
          plock,      \* p->lock is held by p, or by the scheduler for p
          wait_lock,  \* the process that holds wait_lock, or 0
          nextpid,
          cpu,        \* c->proc
          ctx,        \* off: switched out; back: just switched in; on: running;
                      \* sched: about to swtch to the scheduler
          pc,         \* where the process is in its system call
          it, jt,     \* loop variables of the scans, jt for wakeup's
          np,         \* the child, in fork
          havekids,   \* in wait
          arg,        \* the argument of kill
          named,      \* history: the pids given to kill, and those that faulted
          stray       \* history: the slots that kill(0) marked while they were free

slots == <<state, parent, chan, killed, pid, trace_mask>>
locals == <<it, jt, np, havekids, arg>>
vars == <<slots, plock, wait_lock, nextpid, cpu, ctx, pc, locals, named, stray>>

Init == /\ state = [p \in Proc |-> IF p = initproc THEN "RUNNABLE" ELSE "UNUSED"]
        /\ parent = [p \in Proc |-> 0]
        /\ chan = [p \in Proc |-> 0]
        /\ killed = [p \in Proc |-> FALSE]
        /\ pid = [p \in Proc |-> IF p = initproc THEN 1 ELSE 0]
        /\ trace_mask = [p \in Proc |-> 0]
        /\ plock = [p \in Proc |-> FALSE]
        /\ wait_lock = 0
        /\ nextpid = 2
        /\ cpu = [c \in CPU |-> 0]
        /\ ctx = [p \in Proc |-> "off"]
        /\ pc = [p \in Proc |-> "user"]
        /\ it = [p \in Proc |-> 1] /\ jt = [p \in Proc |-> 1]
        /\ np = [p \in Proc |-> 0]
        /\ havekids = [p \in Proc |-> FALSE]
        /\ arg = [p \in Proc |-> 0]
        /\ named = {} /\ stray = {}

At(p, l) == ctx[p] = "on" /\ pc[p] = l
Goto(p, l) == pc' = [pc EXCEPT ![p] = l]
----------------------------------------------------------------------------
(* Scheduling. *)

RunOn(c, p) ==
  /\ plock' = [plock EXCEPT ![p] = TRUE]
  /\ state' = [state EXCEPT ![p] = "RUNNING"]
  /\ cpu' = [cpu EXCEPT ![c] = p]
  /\ ctx' = [ctx EXCEPT ![p] = "back"]
  /\ UNCHANGED <<parent, chan, killed, pid, trace_mask, wait_lock, nextpid, pc, locals, named, stray>>

scheduler_NoLock(c, p) == cpu[c] = 0 /\ state[p] = "RUNNABLE" /\ RunOn(c, p)

\* One visit of a slot by the scheduler of CPU c, when it finds it RUNNABLE.
scheduler(c, p) ==
  /\ cpu[c] = 0
  /\ ~plock[p]
  /\ state[p] = "RUNNABLE"
  /\ RunOn(c, p)

\* swtch in sched, and the scheduler's release of p->lock.
swtch(c, p) ==
  /\ cpu[c] = p
  /\ ctx[p] = "sched"
  /\ ctx' = [ctx EXCEPT ![p] = "off"]
  /\ cpu' = [cpu EXCEPT ![c] = 0]
  /\ plock' = [plock EXCEPT ![p] = FALSE]
  /\ UNCHANGED <<slots, wait_lock, nextpid, pc, locals, named, stray>>

\* After sched: the end of yield, of sleep (which clears chan) and forkret.
sched_return(p) ==
  /\ ctx[p] = "back"
  /\ ctx' = [ctx EXCEPT ![p] = "on"]
  /\ chan' = [chan EXCEPT ![p] = 0]
  /\ plock' = [plock EXCEPT ![p] = FALSE]
  /\ UNCHANGED <<state, parent, killed, pid, trace_mask, wait_lock, nextpid, cpu, pc, locals, named, stray>>

\* p->state = s and sched(), p->lock having just been taken.
EnterSched(p, s) == /\ ~plock[p]
                    /\ plock' = [plock EXCEPT ![p] = TRUE]
                    /\ state' = [state EXCEPT ![p] = s]
                    /\ ctx' = [ctx EXCEPT ![p] = "sched"]

\* A timer interrupt: in user space (usertrap), or in the kernel (kerneltrap)
\* wherever interrupts are on, that is while p holds no lock.
yield(p) ==
  /\ ctx[p] = "on"
  /\ wait_lock /= p
  /\ ~(pc[p] = "user" /\ killed[p])
  /\ EnterSched(p, "RUNNABLE")
  /\ UNCHANGED <<parent, chan, killed, pid, trace_mask, wait_lock, nextpid, cpu, pc, locals, named, stray>>
----------------------------------------------------------------------------
(* Traps from user space. *)

\* The locals of a system call that is over are no longer part of the state.
DropLocals(p) == /\ it' = [it EXCEPT ![p] = 1]
                 /\ havekids' = [havekids EXCEPT ![p] = FALSE]
                 /\ arg' = [arg EXCEPT ![p] = 0]
                 /\ UNCHANGED <<jt, np>>

\* usertrap finds the process killed, on the way in or on the way out.
usertrap_killed(p) ==
  /\ At(p, "user") \/ At(p, "ret")
  /\ ~plock[p] /\ killed[p]
  /\ Goto(p, "exit")
  /\ DropLocals(p)
  /\ UNCHANGED <<slots, plock, wait_lock, nextpid, cpu, ctx, named, stray>>

\* usertrap on a trap that is no system call and no interrupt.  init does not fault.
usertrap_fault(p) ==
  /\ At(p, "user")
  /\ p /= initproc
  /\ ~plock[p]
  /\ killed' = [killed EXCEPT ![p] = TRUE]
  /\ named' = named \cup {pid[p]}
  /\ Goto(p, "ret")
  /\ UNCHANGED <<state, parent, chan, pid, trace_mask, plock, wait_lock, nextpid, cpu,
                 ctx, locals, stray>>

usertrap_return(p) ==
  /\ At(p, "ret")
  /\ ~plock[p] /\ ~killed[p]
  /\ Goto(p, "user")
  /\ DropLocals(p)
  /\ UNCHANGED <<slots, plock, wait_lock, nextpid, cpu, ctx, named, stray>>

\* A system call.  init (user/init.c) forks and waits, and never exits.
syscall(p, l) ==
  /\ At(p, "user")
  /\ ~plock[p] /\ ~killed[p]
  /\ l = "fork" => nextpid <= MaxPid
  /\ l = "exit" => p /= initproc
  /\ Goto(p, l)
  /\ it' = [it EXCEPT ![p] = 1]
  /\ UNCHANGED <<slots, plock, wait_lock, nextpid, cpu, ctx, jt, np, havekids, arg, named, stray>>

\* init does not call kill.
sys_kill(p, k) ==
  /\ At(p, "user")
  /\ p /= initproc
  /\ ~plock[p] /\ ~killed[p]
  /\ Goto(p, "kill")
  /\ it' = [it EXCEPT ![p] = 1]
  /\ arg' = [arg EXCEPT ![p] = k]
  /\ named' = named \cup ({k} \ {0})
  /\ UNCHANGED <<slots, plock, wait_lock, nextpid, cpu, ctx, jt, np, havekids, stray>>

\* init does not call trace (user/init.c).
sys_trace(p, m) ==
  /\ p \in Tracers
  /\ At(p, "user")
  /\ ~plock[p] /\ ~killed[p]
  /\ trace_mask[p] /= m
  /\ trace_mask' = [trace_mask EXCEPT ![p] = m]
  /\ UNCHANGED <<state, parent, chan, killed, pid, plock, wait_lock, nextpid, cpu, ctx, pc, locals, named, stray>>
----------------------------------------------------------------------------
(* fork. *)

\* Move on to the next slot of a scan, or to label l after the last one.
NextSlot(p, l) == IF it[p] = NPROC THEN /\ Goto(p, l)
                                        /\ it' = [it EXCEPT ![p] = 1]
                                   ELSE /\ it' = [it EXCEPT ![p] = @ + 1]
                                        /\ UNCHANGED pc

\* allocproc looks at a slot in use.
allocproc_next(p) ==
  /\ At(p, "fork")
  /\ ~plock[it[p]] /\ state[it[p]] /= "UNUSED"
  /\ NextSlot(p, "ret")
  /\ UNCHANGED <<slots, plock, wait_lock, nextpid, cpu, ctx, jt, np, havekids, arg, named, stray>>

\* allocproc takes an UNUSED slot and fork fills it, np->lock held throughout.
\* The child will start in forkret.
allocproc(p) ==
  /\ At(p, "fork")
  /\ ~plock[it[p]] /\ state[it[p]] = "UNUSED"
  /\ state' = [state EXCEPT ![it[p]] = "USED"]
  /\ pid' = [pid EXCEPT ![it[p]] = nextpid]
  /\ nextpid' = nextpid + 1
  /\ np' = [np EXCEPT ![p] = it[p]]
  /\ it' = [it EXCEPT ![p] = 1]
  /\ pc' = [pc EXCEPT ![p] = "fork_parent", ![it[p]] = "user"]
  /\ UNCHANGED <<parent, chan, killed, trace_mask, plock, wait_lock, cpu, ctx, jt, havekids, arg, named, stray>>

\* freeproc.
Release(q) ==
  /\ state' = [state EXCEPT ![q] = "UNUSED"]
  /\ pid' = [pid EXCEPT ![q] = 0]
  /\ parent' = [parent EXCEPT ![q] = 0]
  /\ chan' = [chan EXCEPT ![q] = 0]

freeproc(q) == /\ Release(q)
               /\ killed' = [killed EXCEPT ![q] = FALSE]
               /\ stray' = stray \ {q}

\* The slot is found but kalloc, proc_pagetable or uvmcopy runs out of memory.
allocproc_fail(p) ==
  /\ At(p, "fork")
  /\ ~plock[it[p]] /\ state[it[p]] = "UNUSED"
  /\ freeproc(it[p])
  /\ nextpid' = nextpid + 1
  /\ Goto(p, "ret")
  /\ it' = [it EXCEPT ![p] = 1]
  /\ UNCHANGED <<trace_mask, plock, wait_lock, cpu, ctx, jt, np, havekids, arg, named>>

fork_parent(p) ==
  /\ At(p, "fork_parent")
  /\ wait_lock = 0
  /\ parent' = [parent EXCEPT ![np[p]] = p]
  /\ Goto(p, "fork_run")
  /\ UNCHANGED <<state, chan, killed, pid, trace_mask, plock, wait_lock, nextpid, cpu, ctx, locals, named, stray>>

fork_run(p) ==
  /\ At(p, "fork_run")
  /\ ~plock[np[p]]
  /\ state' = [state EXCEPT ![np[p]] = "RUNNABLE"]
  /\ Goto(p, "fork_trace")
  /\ UNCHANGED <<parent, chan, killed, pid, trace_mask, plock, wait_lock, nextpid, cpu, ctx, locals, named, stray>>

\* The mask is copied last, without a lock.
fork_trace(p) ==
  /\ At(p, "fork_trace")
  /\ trace_mask' = [trace_mask EXCEPT ![np[p]] = trace_mask[p]]
  /\ np' = [np EXCEPT ![p] = 0]
  /\ Goto(p, "ret")
  /\ UNCHANGED <<state, parent, chan, killed, pid, plock, wait_lock, nextpid, cpu, ctx, it, jt, havekids, arg, named, stray>>
----------------------------------------------------------------------------
(* exit, with wait_lock held from exit_lock to exit_zombie. *)

exit_lock(p) ==
  /\ At(p, "exit")
  /\ wait_lock = 0
  /\ wait_lock' = p
  /\ Goto(p, "reparent")
  /\ it' = [it EXCEPT ![p] = 1]
  /\ UNCHANGED <<slots, plock, nextpid, cpu, ctx, jt, np, havekids, arg, named, stray>>

\* One turn of reparent's loop; a child found is followed by wakeup(initproc).
reparent_Skip(p) ==
  /\ At(p, "reparent")
  /\ NextSlot(p, "wake_parent")
  /\ UNCHANGED <<slots, plock, wait_lock, nextpid, cpu, ctx, jt, np, havekids, arg, named, stray>>

reparent(p) ==
  /\ At(p, "reparent")
  /\ IF parent[it[p]] = p
     THEN /\ parent' = [parent EXCEPT ![it[p]] = initproc]
          /\ Goto(p, "wake_init")
          /\ UNCHANGED it
     ELSE /\ NextSlot(p, "wake_parent")
          /\ UNCHANGED parent
  /\ UNCHANGED <<state, chan, killed, pid, trace_mask, plock, wait_lock, nextpid, cpu, ctx, jt, np, havekids, arg, named, stray>>

\* One turn of wakeup's loop, called by reparent on initproc and by exit on
\* the parent.
wakeup(p) ==
  LET target == IF pc[p] = "wake_init" THEN initproc ELSE parent[p]
      j == jt[p]
  IN
  /\ At(p, "wake_init") \/ At(p, "wake_parent")
  /\ j /= p => ~plock[j]
  /\ state' = IF j /= p /\ state[j] = "SLEEPING" /\ chan[j] = target
              THEN [state EXCEPT ![j] = "RUNNABLE"] ELSE state
  /\ jt' = [jt EXCEPT ![p] = IF j < NPROC THEN j + 1 ELSE 1]
  /\ Goto(p, IF j < NPROC THEN pc[p]
             ELSE IF pc[p] = "wake_init" THEN "reparent" ELSE "zombie")
  /\ UNCHANGED <<parent, chan, killed, pid, trace_mask, plock, wait_lock, nextpid,
                 cpu, ctx, it, np, havekids, arg, named, stray>>

\* The process becomes a ZOMBIE and leaves its CPU for ever.
exit_zombie(p) ==
  /\ At(p, "zombie")
  /\ EnterSched(p, "ZOMBIE")
  /\ wait_lock' = 0
  /\ Goto(p, "dead")
  /\ UNCHANGED <<parent, chan, killed, pid, trace_mask, nextpid, cpu, locals, named, stray>>
----------------------------------------------------------------------------
(* wait, with wait_lock held from wait_acquire to its return or its sleep. *)

\* wait's acquire of wait_lock, and sleep's when it has been awakened.
wait_acquire(p) ==
  /\ At(p, "wait")
  /\ wait_lock = 0
  /\ wait_lock' = p
  /\ Goto(p, "wait_scan")
  /\ it' = [it EXCEPT ![p] = 1]
  /\ havekids' = [havekids EXCEPT ![p] = FALSE]
  /\ UNCHANGED <<slots, plock, nextpid, cpu, ctx, jt, np, arg, named, stray>>

\* wait looks at a slot that holds no child of p, or a child still running.
wait_next(p) ==
  LET mine == parent[it[p]] = p IN
  /\ At(p, "wait_scan")
  /\ mine => ~plock[it[p]] /\ state[it[p]] /= "ZOMBIE"
  /\ havekids' = [havekids EXCEPT ![p] = @ \/ mine]
  /\ NextSlot(p, "wait_check")
  /\ UNCHANGED <<slots, plock, wait_lock, nextpid, cpu, ctx, jt, np, arg, named, stray>>

\* wait frees a ZOMBIE child.
wait_reap(p) ==
  /\ At(p, "wait_scan")
  /\ parent[it[p]] = p /\ ~plock[it[p]] /\ state[it[p]] = "ZOMBIE"
  /\ freeproc(it[p])
  /\ wait_lock' = 0
  /\ Goto(p, "ret")
  /\ UNCHANGED <<trace_mask, plock, nextpid, cpu, ctx, locals, named>>

\* copyout of the status fails (init passes a null address): the child stays.
wait_copyout_fail(p) ==
  /\ At(p, "wait_scan")
  /\ p /= initproc
  /\ parent[it[p]] = p /\ ~plock[it[p]] /\ state[it[p]] = "ZOMBIE"
  /\ wait_lock' = 0
  /\ Goto(p, "ret")
  /\ UNCHANGED <<slots, plock, nextpid, cpu, ctx, locals, named, stray>>

\* After the scan: give up without children or when killed, else go to sleep.
wait_check(p) ==
  /\ At(p, "wait_check")
  /\ havekids[p] => ~plock[p]
  /\ IF ~havekids[p] \/ killed[p]
     THEN Goto(p, "ret") /\ wait_lock' = 0
     ELSE Goto(p, "sleep") /\ UNCHANGED wait_lock
  /\ UNCHANGED <<slots, plock, nextpid, cpu, ctx, locals, named, stray>>

\* sleep(p, &wait_lock): p->lock is taken before wait_lock is released.
sleep_ReleaseFirst(p) ==
  /\ At(p, "sleep")
  /\ \/ /\ wait_lock = p /\ wait_lock' = 0
        /\ UNCHANGED <<state, chan, plock, ctx, pc>>
     \/ /\ wait_lock /= p
        /\ EnterSched(p, "SLEEPING")
        /\ chan' = [chan EXCEPT ![p] = p]
        /\ Goto(p, "wait")
        /\ UNCHANGED wait_lock
  /\ UNCHANGED <<parent, killed, pid, trace_mask, nextpid, cpu, locals, named, stray>>

sleep(p) ==
  /\ At(p, "sleep")
  /\ EnterSched(p, "SLEEPING")
  /\ chan' = [chan EXCEPT ![p] = p]
  /\ wait_lock' = 0
  /\ Goto(p, "wait")
  /\ UNCHANGED <<parent, killed, pid, trace_mask, nextpid, cpu, locals, named, stray>>
----------------------------------------------------------------------------
(* kill. *)

\* kill looks at a slot: mark the process and wake it, or go on.  sys_kill passes
\* any number on: 0 is the pid of every free slot, and allocproc keeps the mark.
kill_AnyState(p) ==
  LET q == it[p] IN
  /\ At(p, "kill")
  /\ ~plock[q]
  /\ IF pid[q] = arg[p]
     THEN /\ killed' = [killed EXCEPT ![q] = TRUE]
          /\ state' = [state EXCEPT ![q] = IF @ = "RUNNING" THEN @ ELSE "RUNNABLE"]
          /\ stray' = IF arg[p] = 0 THEN stray \cup {q} ELSE stray
          /\ Goto(p, "ret") /\ UNCHANGED it
     ELSE /\ NextSlot(p, "ret")
          /\ UNCHANGED <<killed, state, stray>>
  /\ UNCHANGED <<parent, chan, pid, trace_mask, plock, wait_lock, nextpid, cpu, ctx,
                 jt, np, havekids, arg, named>>

kill(p) ==
  LET q == it[p] IN
  /\ At(p, "kill")
  /\ ~plock[q]
  /\ IF pid[q] = arg[p]
     THEN /\ killed' = [killed EXCEPT ![q] = TRUE]
          /\ state' = [state EXCEPT ![q] = IF @ = "SLEEPING" THEN "RUNNABLE" ELSE @]
          /\ stray' = IF arg[p] = 0 THEN stray \cup {q} ELSE stray
          /\ Goto(p, "ret") /\ UNCHANGED it
     ELSE /\ NextSlot(p, "ret")
          /\ UNCHANGED <<killed, state, stray>>
  /\ UNCHANGED <<parent, chan, pid, trace_mask, plock, wait_lock, nextpid, cpu, ctx,
                 jt, np, havekids, arg, named>>
----------------------------------------------------------------------------
fork(p) == \/ allocproc_next(p) \/ allocproc(p) \/ allocproc_fail(p)
           \/ fork_parent(p) \/ fork_run(p) \/ fork_trace(p)
exit(p) == exit_lock(p) \/ reparent(p) \/ wakeup(p) \/ exit_zombie(p)
wait(p) == \/ wait_acquire(p) \/ wait_next(p) \/ wait_reap(p)
           \/ wait_copyout_fail(p) \/ wait_check(p) \/ sleep(p)

\* What p does in the kernel once it is there.
KernelStep(p) == \/ fork(p) \/ exit(p) \/ wait(p) \/ kill(p)
                 \/ usertrap_killed(p) \/ usertrap_return(p)

Next == \/ \E c \in CPU, p \in Proc : scheduler(c, p) \/ swtch(c, p)
        \/ \E p \in Proc : \/ sched_return(p) \/ yield(p) \/ KernelStep(p)
                           \/ usertrap_fault(p)
                           \/ \E l \in {"fork", "exit", "wait"} : syscall(p, l)
                           \/ \E k \in KillPids : sys_kill(p, k)
                           \/ \E m \in Masks : sys_trace(p, m)

Spec == Init /\ [][Next]_vars

----------------------------------------------------------------------------
(* Properties. *)

Labels == {"user", "ret", "fork", "fork_parent", "fork_run", "fork_trace", "exit",
           "reparent", "wake_init", "wake_parent", "zombie", "dead", "wait",
           "wait_scan", "wait_check", "sleep", "kill"}
States == {"UNUSED", "USED", "SLEEPING", "RUNNABLE", "RUNNING", "ZOMBIE"}

\* The types of the variables.
TypeOK ==
  /\ state \in [Proc -> States]
  /\ parent \in [Proc -> Proc \cup {0}]
  /\ chan \in [Proc -> Proc \cup {0}]
  /\ killed \in [Proc -> BOOLEAN]
  /\ pid \in [Proc -> Nat]
  /\ trace_mask \in [Proc -> Masks \cup {0}]
  /\ plock \in [Proc -> BOOLEAN]
  /\ wait_lock \in Proc \cup {0}
  /\ nextpid \in Nat
  /\ cpu \in [CPU -> Proc \cup {0}]
  /\ ctx \in [Proc -> {"off", "back", "on", "sched"}]
  /\ pc \in [Proc -> Labels]
  /\ it \in [Proc -> Proc] /\ jt \in [Proc -> Proc]
  /\ np \in [Proc -> Proc \cup {0}]
  /\ havekids \in [Proc -> BOOLEAN]
  /\ arg \in [Proc -> KillPids \cup {0}]
  /\ named \in SUBSET Nat
  /\ stray \in SUBSET Proc

\* A kernel stack is used by one CPU at a time, and not at all once wait has
\* freed the slot: what holding p->lock across swtch in sched, scheduler and
\* exit, and taking pp->lock in wait, are for.
OneCpuPerStack ==
  /\ \A c, d \in CPU : cpu[c] = cpu[d] /\ cpu[c] /= 0 => c = d
  /\ \A c \in CPU : cpu[c] /= 0 => state[cpu[c]] \notin {"UNUSED", "USED"}

\* No lost wakeup between exit and wait: while wait_lock is free, no parent
\* sleeps in wait with a ZOMBIE child to collect, be it its own or one that
\* reparent gave to init.
NoMissedZombie ==
  wait_lock = 0 =>
    \A p, q \in Proc : ~(state[p] = "SLEEPING" /\ chan[p] = p
                         /\ parent[q] = p /\ state[q] = "ZOMBIE")

\* Once fork has set it, the parent of a process has not exited: exit gives its
\* children away before it is a ZOMBIE, and no slot is freed while a child still
\* points to it.
ParentsLive ==
  \A p \in Proc : parent[p] /= 0 => /\ state[parent[p]] \notin {"UNUSED", "ZOMBIE"}
                                    /\ state[p] /= "UNUSED"

\* A mark of kill has a cause in the life of the process that bears it: kill was
\* called with its pid, it faulted, or kill(0) marked its slot since the slot was
\* last freed.  No mark outlives the process that freeproc removes from the slot.
KilledForCause ==
  \A p \in Proc : killed[p] => pid[p] \in named \/ p \in stray

\* No two processes have the same pid, so that kill reaches one at most.
PidsUnique == \A p, q \in Proc : pid[p] = pid[q] /\ pid[p] /= 0 => p = q

\* sched does not panic: whoever switches holds p->lock and no other lock, and
\* has a state other than RUNNING (proc.c:490-497).  The variables keep their
\* types.
NoPanic ==
  /\ TypeOK
  /\ \A p \in Proc : ctx[p] = "sched" => plock[p] /\ wait_lock /= p /\ state[p] /= "RUNNING"

\* A slot changes state only along the life of a process; in particular
\* neither wakeup nor kill revives a ZOMBIE or starts a half-made child.
LegalStep ==
  \A p \in Proc : state'[p] /= state[p] =>
     <<state[p], state'[p]>> \in
        {<<"UNUSED", "USED">>, <<"USED", "RUNNABLE">>, <<"RUNNABLE", "RUNNING">>,
         <<"RUNNING", "RUNNABLE">>, <<"RUNNING", "SLEEPING">>,
         <<"RUNNING", "ZOMBIE">>, <<"SLEEPING", "RUNNABLE">>, <<"ZOMBIE", "UNUSED">>}

\* LegalStep, of every step: what the states checked by fork, wakeup, kill and wait
\* are for.
LegalTransitions == [][LegalStep]_vars

\* fork's last statement writes through np after np->lock is released: the
\* slot is then still its child's, for nobody else can have collected it.
MaskCopyHitsChild ==
  \A p \in Proc : pc[p] = "fork_trace" =>
     parent[np[p]] = p /\ state[np[p]] \notin {"UNUSED", "USED"}

\* Kernel stacks are safe: OneCpuPerStack, and sched is entered the way it
\* insists on.
StacksSafe == NoPanic /\ OneCpuPerStack

\* Who is whose: ParentsLive, what fork writes to its child after releasing it
\* (MaskCopyHitsChild), and the mark of kill, which is for one process (PidsUnique)
\* and is not inherited from the one before it in its slot (KilledForCause).
FamilyTree == ParentsLive /\ MaskCopyHitsChild /\ PidsUnique /\ KilledForCause
----------------------------------------------------------------------------
(* The inductive invariant of the proofs. *)

\* A process has a CPU, and one only, from scheduler's swtch to sched's.
OnCpu == /\ \A c, d \in CPU : cpu[c] = cpu[d] /\ cpu[c] /= 0 => c = d
         /\ \A p \in Proc : ctx[p] /= "off" <=> \E c \in CPU : cpu[c] = p

\* p->lock is held around swtch, and a process on a CPU is RUNNING.
Contexts ==
  \A p \in Proc : /\ plock[p] <=> ctx[p] \in {"back", "sched"}
                  /\ ctx[p] \in {"back", "on"} <=> state[p] = "RUNNING"
                  /\ ctx[p] = "sched" => state[p] \in {"RUNNABLE", "SLEEPING", "ZOMBIE"}

\* Where a process is when its slot is in a state.
Places ==
  \A p \in Proc : /\ state[p] = "ZOMBIE" => pc[p] = "dead"
                  /\ pc[p] = "dead" => state[p] \in {"ZOMBIE", "UNUSED"}
                  /\ state[p] = "UNUSED" => pc[p] \in {"user", "dead"}
                  /\ state[p] = "USED" => pc[p] = "user"
                  /\ state[p] = "SLEEPING" => pc[p] = "wait" /\ chan[p] = p

\* wait_lock is held at these labels of exit and wait, by a process that runs.
WaitLabels == {"reparent", "wake_init", "wake_parent", "zombie",
               "wait_scan", "wait_check", "sleep"}

WaitLock ==
  /\ \A p \in Proc : wait_lock = p <=> pc[p] \in WaitLabels
  /\ \A p \in Proc : wait_lock = p => ctx[p] = "on"

\* init never exits.
InitLives ==
  /\ state[initproc] \notin {"UNUSED", "USED", "ZOMBIE"}
  /\ pc[initproc] \notin {"exit", "reparent", "wake_init", "wake_parent", "zombie", "dead"}
  /\ pid[initproc] = 1 /\ ~killed[initproc]

\* The child that fork is making, and after that.
Children ==
  /\ \A p \in Proc : pc[p] \in {"fork_parent", "fork_run", "fork_trace"} => np[p] /= 0
  /\ \A p, n \in Proc : np[p] = n =>
       /\ pc[p] \in {"fork_parent", "fork_run"} => state[n] = "USED"
       /\ pc[p] \in {"fork_run", "fork_trace"} => parent[n] = p
       /\ pc[p] = "fork_trace" => state[n] \notin {"UNUSED", "USED"}
  /\ \A p, r \in Proc : {pc[p], pc[r]} \subseteq {"fork_parent", "fork_run"} /\ np[p] = np[r]
                        => p = r

\* A parent has not exited, and a free slot has no parent.
Parents == \A p, q \in Proc : parent[q] = p =>
             state[p] \notin {"UNUSED", "USED", "ZOMBIE"} /\ state[q] /= "UNUSED"

\* Whom exit has given away so far.
Exiting ==
  \A e, q \in Proc :
    /\ pc[e] = "reparent" /\ q < it[e] => parent[q] /= e
    /\ pc[e] = "wake_init" /\ q <= it[e] => parent[q] /= e
    /\ pc[e] \in {"wake_parent", "zombie"} => parent[q] /= e

\* Which children wait has found not to be ZOMBIEs.
Scanned ==
  \A p, q \in Proc :
    /\ pc[p] = "wait_scan" /\ q < it[p] => ~(parent[q] = p /\ state[q] = "ZOMBIE")
    /\ pc[p] \in {"wait_check", "sleep"} => ~(parent[q] = p /\ state[q] = "ZOMBIE")

\* A parent sleeps though a child is a ZOMBIE only while reparent is about to
\* wake it, and it does not sleep once exit's own wakeup is past it.
Woken ==
  /\ \A p, q \in Proc : state[p] = "SLEEPING" /\ parent[q] = p /\ state[q] = "ZOMBIE" =>
       p = initproc /\ \E e \in Proc : pc[e] = "wake_init" /\ jt[e] = 1
  /\ \A e, p \in Proc : parent[e] = p /\ state[p] = "SLEEPING" =>
       /\ pc[e] = "wake_parent" => jt[e] <= p
       /\ pc[e] /= "zombie"
  /\ \A e \in Proc : pc[e] \notin {"wake_init", "wake_parent"} => jt[e] = 1

IInv == /\ TypeOK /\ OnCpu /\ Contexts /\ Places /\ WaitLock /\ InitLives
        /\ Children /\ Parents /\ Exiting /\ Scanned /\ Woken

\* The pids, and the marks of kill.
Marks == /\ 0 \notin named
         /\ \A p \in Proc : /\ pid[p] < nextpid
                            /\ killed[p] => pid[p] \in named \/ p \in stray
                            /\ state[p] = "UNUSED" <=> pid[p] = 0
                            /\ pc[p] = "kill" => arg[p] \in named \cup {0}
         /\ \A p, q \in Proc : pid[p] = pid[q] /\ pid[p] /= 0 => p = q
============================================================================
