----------------------------- MODULE ProcProofs -----------------------------
(***************************************************************************)
(* Proofs about Proc, for every number of slots and of CPUs: wait and kill *)
(* keep the inductive invariant IInv, as ProcSteps shows of the rest; from *)
(* it, kernel stacks are safe, no ZOMBIE is missed, slots change state     *)
(* only along the life of a process, and it is clear who is whose.         *)
(***************************************************************************)
EXTENDS ProcSteps

\* wait takes wait_lock, which no other process then has.
LEMMA wait_acquire_Keeps ==
  ASSUME NEW p \in Proc, IInv, wait_acquire(p)
  PROVE  IInv'
<1> /\ TypeOK /\ OnCpu /\ Contexts /\ Places /\ WaitLock /\ InitLives
    /\ Children /\ Parents /\ Exiting /\ Scanned /\ Woken
  BY Zenon DEF IInv
<1>a. /\ ctx[p] = "on" /\ pc[p] = "wait"
      /\ wait_lock = 0 /\ wait_lock' = p
      /\ \A x \in Proc : pc'[x] = IF x = p THEN "wait_scan" ELSE pc[x]
      /\ \A x \in Proc : it'[x] = IF x = p THEN 1 ELSE it[x]
      /\ UNCHANGED <<state, parent, chan, killed, pid, plock, cpu, ctx, jt, np>>
  BY ProcFacts, Zenon DEF wait_acquire, At, Goto, TypeOK, slots, locals
<1>1. TypeOK'
  BY ProcFacts, Zenon DEF wait_acquire, At, Goto, slots, locals, TypeOK, Labels, States
<1>2. OnCpu' /\ Contexts' /\ Children' /\ Parents' /\ Exiting' /\ Woken'
  BY <1>a DEF OnCpu, Contexts, Children, Parents, Exiting, Woken
<1>3. Places'
  <2>1. state[p] = "RUNNING"
    BY <1>a, Zenon DEF Contexts
  <2> QED BY <1>a, <2>1, ZenonT(30) DEF Places
<1>4. WaitLock'
  BY <1>a, ProcFacts, Zenon DEF WaitLock, WaitLabels
<1>5. InitLives'
  BY <1>a, ProcFacts, Zenon DEF InitLives
<1>6. Scanned'
  BY <1>a, Order DEF Scanned
<1> QED BY <1>1, <1>2, <1>3, <1>4, <1>5, <1>6, Zenon DEF IInv

\* wait passes a slot: it holds no ZOMBIE child.
LEMMA wait_next_Keeps ==
  ASSUME NEW p \in Proc, IInv, wait_next(p)
  PROVE  IInv'
<1> /\ TypeOK /\ OnCpu /\ Contexts /\ Places /\ WaitLock /\ InitLives
    /\ Children /\ Parents /\ Exiting /\ Scanned /\ Woken
  BY Zenon DEF IInv
<1>a. /\ ctx[p] = "on" /\ pc[p] = "wait_scan" /\ it[p] \in Proc
      /\ parent[it[p]] = p => state[it[p]] /= "ZOMBIE"
      /\ \A x \in Proc : x /= p => pc'[x] = pc[x] /\ it'[x] = it[x]
      /\ pc'[p] \in {"wait_scan", "wait_check"}
      /\ pc'[p] = "wait_scan" => it'[p] = it[p] + 1
      /\ pc'[p] = "wait_check" => it[p] = NPROC
      /\ UNCHANGED <<state, parent, chan, killed, pid, plock, wait_lock, cpu, ctx,
           jt, np>>
  BY ProcFacts DEF wait_next, At, Goto, NextSlot, TypeOK, slots, locals
<1>1. TypeOK'
  <2>1. it' \in [Proc -> Proc]
    BY NextProc, ProcFacts DEF wait_next, At, Goto, NextSlot, TypeOK
  <2>2. pc' \in [Proc -> Labels]
    <3>1. pc' = pc \/ pc' = [pc EXCEPT ![p] = "wait_check"]
      BY Zenon DEF wait_next, NextSlot, Goto
    <3> QED BY <3>1, Zenon DEF TypeOK, Labels
  <2>3. havekids' \in [Proc -> BOOLEAN]
    <3> DEFINE b == havekids[p] \/ parent[it[p]] = p
    <3>1. b \in BOOLEAN
      OBVIOUS
    <3>2. havekids' = [havekids EXCEPT ![p] = b]
      BY Zenon DEF wait_next
    <3> HIDE DEF b
    <3> QED BY <3>1, <3>2, Zenon DEF TypeOK
  <2> QED BY <2>1, <2>2, <2>3, Zenon DEF wait_next, TypeOK, slots
<1>2. /\ OnCpu' /\ Contexts' /\ Places' /\ WaitLock' /\ Children' /\ Parents'
      /\ Exiting' /\ Woken'
  BY <1>a DEF OnCpu, Contexts, Places, WaitLock, WaitLabels, Children, Parents,
       Exiting, Woken
<1>3. InitLives'
  BY <1>a, ProcFacts, Zenon DEF InitLives
<1>4. Scanned'
  <2>1. ASSUME NEW q \in Proc, pc'[p] = "wait_scan", q < it'[p]
        PROVE  ~(parent[q] = p /\ state[q] = "ZOMBIE")
    <3>1. q < it[p] \/ q = it[p]
      BY <1>a, <2>1, Order
    <3> QED BY <1>a, <2>1, <3>1, Zenon DEF Scanned
  <2>2. ASSUME NEW q \in Proc, pc'[p] = "wait_check"
        PROVE  ~(parent[q] = p /\ state[q] = "ZOMBIE")
    <3>1. q < it[p] \/ q = it[p]
      BY <1>a, <2>2, Order
    <3> QED BY <1>a, <2>2, <3>1, Zenon DEF Scanned
  <2> QED BY <1>a, <2>1, <2>2 DEF Scanned
<1> QED BY <1>1, <1>2, <1>3, <1>4, Zenon DEF IInv

\* wait frees a ZOMBIE child, which is no longer anybody's parent.
LEMMA wait_reap_Keeps ==
  ASSUME NEW p \in Proc, IInv, wait_reap(p)
  PROVE  IInv'
<1> /\ TypeOK /\ OnCpu /\ Contexts /\ Places /\ WaitLock /\ InitLives
    /\ Children /\ Parents /\ Exiting /\ Scanned /\ Woken
  BY Zenon DEF IInv
<1>a. /\ ctx[p] = "on" /\ pc[p] = "wait_scan" /\ it[p] \in Proc
      /\ parent[it[p]] = p /\ ~plock[it[p]] /\ state[it[p]] = "ZOMBIE"
      /\ \A x \in Proc : state'[x] = IF x = it[p] THEN "UNUSED" ELSE state[x]
      /\ \A x \in Proc : pid'[x] = IF x = it[p] THEN 0 ELSE pid[x]
      /\ \A x \in Proc : parent'[x] = IF x = it[p] THEN 0 ELSE parent[x]
      /\ \A x \in Proc : chan'[x] = IF x = it[p] THEN 0 ELSE chan[x]
      /\ ~killed'[it[p]] /\ \A x \in Proc : x /= it[p] => (killed'[x] <=> killed[x])
      /\ wait_lock' = 0
      /\ \A x \in Proc : pc'[x] = IF x = p THEN "ret" ELSE pc[x]
      /\ UNCHANGED <<plock, cpu, ctx, it, jt, np>>
  BY ProcFacts, ZenonT(30)
     DEF wait_reap, At, Goto, freeproc, Release, TypeOK, slots, locals
<1>1. TypeOK'
  BY ProcFacts, Zenon DEF wait_reap, At, Goto, freeproc, Release, slots, locals, TypeOK,
       Labels, States
<1>2. OnCpu' /\ Contexts' /\ Places' /\ Children' /\ Scanned'
  BY <1>a DEF OnCpu, Contexts, Places, Children, Scanned
<1>3. WaitLock'
  BY <1>a, ProcFacts DEF WaitLock, WaitLabels
<1>4. InitLives'
  BY <1>a, ProcFacts, Zenon DEF InitLives
<1>5. Parents'
  BY <1>a, ProcFacts DEF Parents
<1>6. Exiting'
  BY <1>a, ProcFacts DEF Exiting
<1>7. Woken'
  BY <1>a, ProcFacts DEF Woken
<1> QED BY <1>1, <1>2, <1>3, <1>4, <1>5, <1>6, <1>7, Zenon DEF IInv

\* wait gives up, and the child stays.
LEMMA wait_copyout_fail_Keeps ==
  ASSUME NEW p \in Proc, IInv, wait_copyout_fail(p)
  PROVE  IInv'
<1> /\ TypeOK /\ OnCpu /\ Contexts /\ Places /\ WaitLock /\ InitLives
    /\ Children /\ Parents /\ Exiting /\ Scanned /\ Woken
  BY Zenon DEF IInv
<1>a. /\ ctx[p] = "on" /\ pc[p] = "wait_scan"
      /\ wait_lock' = 0
      /\ \A x \in Proc : pc'[x] = IF x = p THEN "ret" ELSE pc[x]
      /\ UNCHANGED <<state, parent, chan, killed, pid, plock, cpu, ctx, it, jt, np>>
  BY ProcFacts, Zenon DEF wait_copyout_fail, At, Goto, TypeOK, slots, locals
<1>1. TypeOK'
  BY ProcFacts, Zenon
     DEF wait_copyout_fail, At, Goto, slots, locals, TypeOK, Labels, States
<1>2. /\ OnCpu' /\ Contexts' /\ Places' /\ Children' /\ Parents' /\ Exiting'
      /\ Scanned' /\ Woken'
  BY <1>a DEF OnCpu, Contexts, Places, Children, Parents, Exiting, Scanned, Woken
<1>3. WaitLock'
  BY <1>a, ProcFacts, ZenonT(30) DEF WaitLock, WaitLabels
<1>4. InitLives'
  BY <1>a, ProcFacts, Zenon DEF InitLives
<1> QED BY <1>1, <1>2, <1>3, <1>4, Zenon DEF IInv

\* wait returns, or goes to sleep having seen every slot.
LEMMA wait_check_Keeps ==
  ASSUME NEW p \in Proc, IInv, wait_check(p)
  PROVE  IInv'
<1> /\ TypeOK /\ OnCpu /\ Contexts /\ Places /\ WaitLock /\ InitLives
    /\ Children /\ Parents /\ Exiting /\ Scanned /\ Woken
  BY Zenon DEF IInv
<1>a. /\ ctx[p] = "on" /\ pc[p] = "wait_check"
      /\ pc'[p] \in {"ret", "sleep"} /\ \A x \in Proc : x /= p => pc'[x] = pc[x]
      /\ pc'[p] = "ret" => wait_lock' = 0
      /\ pc'[p] = "sleep" => wait_lock' = wait_lock
      /\ UNCHANGED <<state, parent, chan, killed, pid, plock, cpu, ctx, it, jt, np>>
  BY ProcFacts DEF wait_check, At, Goto, TypeOK, slots, locals
<1>1. TypeOK'
  BY ProcFacts DEF wait_check, At, Goto, slots, locals, TypeOK, Labels, States
<1>2. /\ OnCpu' /\ Contexts' /\ Places' /\ Children' /\ Parents' /\ Exiting'
      /\ Scanned' /\ Woken'
  BY <1>a DEF OnCpu, Contexts, Places, Children, Parents, Exiting, Scanned, Woken
<1>3. WaitLock'
  BY <1>a, ProcFacts DEF WaitLock, WaitLabels
<1>4. InitLives'
  BY <1>a, ProcFacts, Zenon DEF InitLives
<1> QED BY <1>1, <1>2, <1>3, <1>4, Zenon DEF IInv

\* sleep lets wait_lock go once p->lock is held: no child is a ZOMBIE.
LEMMA sleep_Keeps ==
  ASSUME NEW p \in Proc, IInv, sleep(p)
  PROVE  IInv'
<1> /\ TypeOK /\ OnCpu /\ Contexts /\ Places /\ WaitLock /\ InitLives
    /\ Children /\ Parents /\ Exiting /\ Scanned /\ Woken
  BY Zenon DEF IInv
<1>a. /\ ctx[p] = "on" /\ pc[p] = "sleep" /\ ~plock[p]
      /\ plock'[p] /\ \A x \in Proc : x /= p => (plock'[x] <=> plock[x])
      /\ \A x \in Proc : state'[x] = IF x = p THEN "SLEEPING" ELSE state[x]
      /\ \A x \in Proc : ctx'[x] = IF x = p THEN "sched" ELSE ctx[x]
      /\ \A x \in Proc : chan'[x] = IF x = p THEN p ELSE chan[x]
      /\ wait_lock' = 0
      /\ \A x \in Proc : pc'[x] = IF x = p THEN "wait" ELSE pc[x]
      /\ UNCHANGED <<parent, killed, pid, cpu, it, jt, np>>
  BY ProcFacts DEF sleep, At, Goto, EnterSched, TypeOK, slots, locals
<1>1. TypeOK'
  BY ProcFacts, Zenon
     DEF sleep, At, Goto, EnterSched, slots, locals, TypeOK, Labels, States
<1>2. OnCpu' /\ Contexts' /\ Places' /\ Parents' /\ Exiting' /\ Scanned'
  BY <1>a DEF OnCpu, Contexts, Places, Parents, Exiting, Scanned
<1>3. WaitLock'
  BY <1>a, ProcFacts DEF WaitLock, WaitLabels
<1>4. InitLives'
  BY <1>a, ProcFacts, Zenon DEF InitLives
<1>5. Children'
  BY <1>a DEF Children, Contexts
<1>6. Woken'
  BY <1>a DEF Woken, WaitLock, WaitLabels, Scanned
<1> QED BY <1>1, <1>2, <1>3, <1>4, <1>5, <1>6, Zenon DEF IInv

\* kill marks a process that is not init and wakes it, or passes a slot.
LEMMA kill_Keeps ==
  ASSUME NEW p \in Proc, IInv, kill(p)
  PROVE  IInv'
<1> /\ TypeOK /\ OnCpu /\ Contexts /\ Places /\ WaitLock /\ InitLives
    /\ Children /\ Parents /\ Exiting /\ Scanned /\ Woken
  BY Zenon DEF IInv
<1>a. /\ ctx[p] = "on" /\ pc[p] = "kill" /\ it[p] \in Proc /\ ~plock[it[p]] /\ arg[p] /= 1
      /\ \A x \in Proc : \/ state'[x] = state[x]
                         \/ state[x] = "SLEEPING" /\ state'[x] = "RUNNABLE"
      /\ \A x \in Proc : killed'[x] = killed[x] \/ pid[x] = arg[p]
      /\ UNCHANGED pc \/ \A x \in Proc : pc'[x] = IF x = p THEN "ret" ELSE pc[x]
      /\ \A x \in Proc : x /= p => it'[x] = it[x]
      /\ UNCHANGED <<parent, chan, pid, plock, wait_lock, cpu, ctx, jt, np>>
  BY ProcFacts DEF kill, At, Goto, NextSlot, TypeOK, slots, locals
<1>1. TypeOK'
  <2>1. it' \in [Proc -> Proc]
    BY NextProc, ProcFacts DEF kill, At, Goto, NextSlot, TypeOK
  <2>2. pc' \in [Proc -> Labels]
    BY DEF kill, At, Goto, NextSlot, TypeOK, Labels
  <2>3. state' \in [Proc -> States]
    BY DEF kill, TypeOK, States
  <2>4. killed' \in [Proc -> BOOLEAN]
    BY ZenonT(30) DEF kill, TypeOK
  <2>5. stray' \in SUBSET Proc
    BY <1>a DEF kill, TypeOK
  <2> QED BY <2>1, <2>2, <2>3, <2>4, <2>5, Zenon DEF kill, TypeOK
<1>2. OnCpu'
  BY <1>a DEF OnCpu
<1>3. Contexts'
  BY <1>a DEF Contexts
<1>4. Places'
  BY <1>a DEF Places
<1>5. WaitLock'
  BY <1>a DEF WaitLock, WaitLabels
<1>6. InitLives'
  BY <1>a, ProcFacts, ZenonT(30) DEF InitLives
<1>7. Children'
  BY <1>a DEF Children
<1>8. Parents'
  BY <1>a DEF Parents
<1>9. Exiting'
  BY <1>a DEF Exiting
<1>10. Scanned'
  BY <1>a DEF Scanned
<1>11. Woken'
  BY <1>a DEF Woken
<1> QED BY <1>1, <1>2, <1>3, <1>4, <1>5, <1>6, <1>7, <1>8, <1>9, <1>10, <1>11, Zenon
           DEF IInv

----------------------------------------------------------------------------
(* The theorems. *)

\* The table as userinit leaves it.
LEMMA InitIInv == Init => IInv
<1> SUFFICES ASSUME Init PROVE IInv
  OBVIOUS
<1>1. TypeOK
  BY ProcFacts, Zenon DEF Init, TypeOK, States, Labels
<1>2. OnCpu /\ Contexts
  BY ProcFacts, Zenon DEF Init, OnCpu, Contexts
<1>3. Places /\ WaitLock /\ InitLives
  BY ProcFacts, Zenon DEF Init, Places, WaitLock, WaitLabels, InitLives
<1>4. Children /\ Parents /\ Exiting /\ Scanned /\ Woken
  BY ProcFacts, Zenon DEF Init, Children, Parents, Exiting, Scanned, Woken
<1> QED BY <1>1, <1>2, <1>3, <1>4, Zenon DEF IInv

\* Every step of a scheduler or of a process keeps IInv.
LEMMA NextIInv == ASSUME IInv, Next PROVE IInv'
<1>1. ASSUME NEW c \in CPU, NEW p \in Proc, scheduler(c, p) \/ swtch(c, p) PROVE IInv'
  BY <1>1, scheduler_Keeps, swtch_Keeps, Zenon
<1>2. ASSUME NEW p \in Proc, sched_return(p) \/ yield(p) \/ usertrap_fault(p) PROVE IInv'
  BY <1>2, sched_return_Keeps, yield_Keeps, usertrap_fault_Keeps, Zenon
<1>3. ASSUME NEW p \in Proc, fork(p) PROVE IInv'
  BY <1>3, allocproc_next_Keeps, allocproc_Keeps, allocproc_fail_Keeps,
     fork_parent_Keeps, fork_run_Keeps, fork_trace_Keeps, Zenon DEF fork
<1>4. ASSUME NEW p \in Proc, exit(p) PROVE IInv'
  BY <1>4, exit_lock_Keeps, reparent_Keeps, wakeup_Keeps, exit_zombie_Keeps, Zenon
     DEF exit
<1>5. ASSUME NEW p \in Proc, wait(p) PROVE IInv'
  BY <1>5, wait_acquire_Keeps, wait_next_Keeps, wait_reap_Keeps,
     wait_copyout_fail_Keeps, wait_check_Keeps, sleep_Keeps, Zenon DEF wait
<1>6. ASSUME NEW p \in Proc, KernelStep(p) PROVE IInv'
  BY <1>3, <1>4, <1>5, <1>6, kill_Keeps, usertrap_killed_Keeps, usertrap_return_Keeps, Zenon
     DEF KernelStep
<1>7. ASSUME NEW p \in Proc, \E l \in {"fork", "exit", "wait"} : syscall(p,
     l) PROVE IInv'
  BY <1>7, syscall_Keeps, Zenon
<1>8. ASSUME NEW p \in Proc, \E k \in KillPids : sys_kill(p, k) PROVE IInv'
  BY <1>8, sys_kill_Keeps, Zenon
<1>9. ASSUME NEW p \in Proc, \E m \in Masks : sys_trace(p, m) PROVE IInv'
  BY <1>9, sys_trace_Keeps, Zenon
<1> QED BY <1>1, <1>2, <1>6, <1>7, <1>8, <1>9, Zenon DEF Next

\* A step that changes nothing keeps IInv.
LEMMA StutterIInv == ASSUME IInv, UNCHANGED vars PROVE IInv'
<1> USE DEF vars, slots, locals
<1>1. TypeOK' /\ OnCpu' /\ Contexts' /\ Places'
  BY DEF IInv, TypeOK, OnCpu, Contexts, Places
<1>2. WaitLock' /\ InitLives' /\ Children' /\ Parents'
  BY ZenonT(30) DEF IInv, WaitLock, InitLives, Children, Parents
<1>3. Exiting' /\ Scanned' /\ Woken'
  BY ZenonT(30) DEF IInv, Exiting, Scanned, Woken
<1> QED BY <1>1, <1>2, <1>3, ZenonT(30) DEF IInv

\* The inductive invariant holds, for any number of slots and CPUs.
THEOREM ProcInvariant == Spec => []IInv
<1>1. IInv /\ [Next]_vars => IInv'
  BY NextIInv, StutterIInv, Zenon
<1> QED BY InitIInv, <1>1, PTL DEF Spec

\* Kernel stacks are safe: p->lock, held across swtch, keeps a stack from running
\* on two CPUs, and sched is entered with that lock and no other.
THEOREM ProcStacksSafe == Spec => []StacksSafe
<1>1. ASSUME IInv PROVE StacksSafe
  <2> USE <1>1 DEF IInv
  <2>1. TypeOK
    OBVIOUS
  <2>2. ASSUME NEW p \in Proc, ctx[p] = "sched"
        PROVE  plock[p] /\ wait_lock /= p /\ state[p] /= "RUNNING"
    BY <2>2, Zenon DEF Contexts, WaitLock
  <2>3. ASSUME NEW c \in CPU, cpu[c] /= 0 PROVE state[cpu[c]] \notin {"UNUSED",
       "USED"}
    <3>1. cpu[c] \in Proc
      BY <2>3, ZenonT(30) DEF TypeOK
    <3>2. ctx[cpu[c]] /= "off" /\ ctx[cpu[c]] \in {"off", "back", "on", "sched"}
      BY <3>1, Zenon DEF OnCpu, TypeOK
    <3> QED BY <3>1, <3>2, ZenonT(30) DEF Contexts
  <2>4. OneCpuPerStack
    BY <2>3, Zenon DEF OneCpuPerStack, OnCpu
  <2> QED BY <2>1, <2>2, <2>4, Zenon DEF StacksSafe, NoPanic
<1> QED BY ProcInvariant, <1>1, PTL

\* No lost wakeup between exit and wait: sleep takes p->lock before it lets
\* wait_lock go, and exit holds wait_lock until it is a ZOMBIE.
THEOREM ProcNoMissedZombie == Spec => []NoMissedZombie
<1>1. ASSUME IInv PROVE NoMissedZombie
  <2> SUFFICES ASSUME wait_lock = 0, NEW p \in Proc, NEW q \in Proc,
                      state[p] = "SLEEPING", parent[q] = p, state[q] = "ZOMBIE"
               PROVE  FALSE
    BY Zenon DEF NoMissedZombie
  <2>1. PICK e \in Proc : pc[e] = "wake_init"
    BY <1>1, ZenonT(30) DEF IInv, Woken
  <2>2. wait_lock = e
    BY <1>1, <2>1, Zenon DEF IInv, WaitLock, WaitLabels
  <2> QED BY <2>2, ProcFacts, Zenon
<1> QED BY ProcInvariant, <1>1, PTL

\* One step changes the state of a slot only along the life of a process.
LEMMA NextLegal == ASSUME IInv, Next PROVE LegalStep
<1> TypeOK /\ Contexts /\ Children
  BY Zenon DEF IInv
<1>t. state \in [Proc -> States] /\ it \in [Proc -> Proc] /\ jt \in [Proc -> Proc]
  BY Zenon DEF TypeOK
<1>1. ASSUME NEW c \in CPU, NEW p \in Proc, scheduler(c, p) \/ swtch(c,
     p) PROVE LegalStep
  BY <1>t, <1>1, Zenon DEF scheduler, RunOn, swtch, slots, LegalStep
<1>2. ASSUME NEW p \in Proc, sched_return(p) \/ yield(p) PROVE LegalStep
  BY <1>t, <1>2, Zenon DEF sched_return, yield, EnterSched, Contexts, LegalStep
<1>3. ASSUME NEW p \in Proc, fork(p) PROVE LegalStep
  <2>1. CASE allocproc_next(p) \/ fork_parent(p) \/ fork_trace(p)
    BY <2>1, Zenon DEF allocproc_next, fork_parent, fork_trace, slots, LegalStep
  <2>2. CASE allocproc(p)
    BY <1>t, <2>2, Zenon DEF allocproc, LegalStep
  <2>3. CASE allocproc_fail(p)
    BY <1>t, <2>3, Zenon DEF allocproc_fail, freeproc, Release, LegalStep
  <2>4. CASE fork_run(p)
    BY <1>t, <2>4, Ranges, Zenon DEF fork_run, At, Children, LegalStep
  <2> QED BY <1>3, <2>1, <2>2, <2>3, <2>4, Zenon DEF fork
<1>4. ASSUME NEW p \in Proc, exit(p) PROVE LegalStep
  <2>1. CASE exit_lock(p) \/ reparent(p)
    BY <2>1, Zenon DEF exit_lock, reparent, slots, LegalStep
  <2>2. CASE wakeup(p)
    BY <1>t, <2>2, Zenon DEF wakeup, LegalStep
  <2>3. CASE exit_zombie(p)
    BY <1>t, <2>3, Zenon DEF exit_zombie, At, EnterSched, Contexts, LegalStep
  <2> QED BY <1>4, <2>1, <2>2, <2>3, Zenon DEF exit
<1>5. ASSUME NEW p \in Proc, wait(p) PROVE LegalStep
  <2>1. CASE wait_acquire(p) \/ wait_next(p) \/ wait_copyout_fail(p) \/ wait_check(p)
    BY <2>1, Zenon DEF wait_acquire, wait_next, wait_copyout_fail, wait_check, slots,
         LegalStep
  <2>2. CASE wait_reap(p)
    BY <1>t, <2>2, Zenon DEF wait_reap, freeproc, Release, LegalStep
  <2>3. CASE sleep(p)
    BY <1>t, <2>3, Zenon DEF sleep, At, EnterSched, Contexts, LegalStep
  <2> QED BY <1>5, <2>1, <2>2, <2>3, Zenon DEF wait
<1>6. ASSUME NEW p \in Proc, kill(p) PROVE LegalStep
  BY <1>t, <1>6, ZenonT(30) DEF kill, LegalStep
<1>7. ASSUME NEW p \in Proc,
             \/ usertrap_killed(p) \/ usertrap_return(p) \/ usertrap_fault(p)
             \/ \E l \in {"fork", "exit", "wait"} : syscall(p, l)
             \/ \E k \in KillPids : sys_kill(p, k)
             \/ \E m \in Masks : sys_trace(p, m)
      PROVE  LegalStep
  <2>1. state' = state
    BY Zenon, <1>7 DEF usertrap_killed, usertrap_return, usertrap_fault, syscall,
         sys_kill, sys_trace, slots
  <2> QED BY <2>1, Zenon DEF LegalStep
<1> QED BY <1>1, <1>2, <1>3, <1>4, <1>5, <1>6, <1>7, Zenon DEF Next, KernelStep

\* Neither wakeup nor kill, nor anything else, moves a slot outside the life of a
\* process: UNUSED, USED, RUNNABLE, RUNNING, SLEEPING or ZOMBIE, UNUSED.
THEOREM ProcLegalTransitions == Spec => LegalTransitions
<1>1. IInv /\ [Next]_vars => [LegalStep]_vars
  BY NextLegal, Zenon
<1> QED BY ProcInvariant, <1>1, PTL DEF Spec, LegalTransitions

\* A step keeps the pids distinct, and a cause for every mark of kill.
LEMMA NextMarks == ASSUME IInv, Marks, Next PROVE Marks'
<1> TypeOK /\ Contexts /\ Children
  BY Zenon DEF IInv
<1>0. 0 \notin named /\ \A x \in Proc : pid[x] \in Nat /\ nextpid \in Nat
  BY Zenon DEF TypeOK, Marks
<1>t. /\ state \in [Proc -> States] /\ pc \in [Proc -> Labels] /\ it \in [Proc -> Proc]
      /\ pid \in [Proc -> Nat] /\ killed \in [Proc -> BOOLEAN]
      /\ arg \in [Proc -> KillPids \cup {0}]
  BY Zenon DEF TypeOK
<1>1. ASSUME NEW c \in CPU, NEW p \in Proc, scheduler(c, p) \/ swtch(c,
     p) PROVE Marks'
  BY <1>t, <1>1 DEF scheduler, RunOn, swtch, slots, locals, Marks
<1>2. ASSUME NEW p \in Proc, sched_return(p) \/ yield(p) PROVE Marks'
  <2>1. CASE sched_return(p)
    BY <2>1, Zenon DEF sched_return, locals, Marks
  <2>2. CASE yield(p)
    <3>1. \A x \in Proc : state'[x] = "UNUSED" <=> state[x] = "UNUSED"
      BY <1>t, <2>2, Zenon DEF yield, EnterSched, Contexts
    <3> QED BY <2>2, <3>1, Zenon DEF yield, locals, Marks
  <2> QED BY <1>2, <2>1, <2>2, Zenon
<1>3. ASSUME NEW p \in Proc, allocproc(p) PROVE Marks'
  <2>1. /\ it[p] \in Proc /\ state[it[p]] = "UNUSED" /\ nextpid' = nextpid + 1
        /\ \A x \in Proc : state'[x] = IF x = it[p] THEN "USED" ELSE state[x]
        /\ \A x \in Proc : pid'[x] = IF x = it[p] THEN nextpid ELSE pid[x]
        /\ \A x \in Proc : pc'[x] = "kill" => pc[x] = "kill"
        /\ UNCHANGED <<killed, arg, named, stray>>
    BY <1>t, <1>3, Zenon DEF allocproc
  <2>2. killed[it[p]] => it[p] \in stray
    <3>1. pid[it[p]] = 0
      BY <2>1, Zenon DEF Marks
    <3> QED BY <1>0, <2>1, <3>1, Zenon DEF Marks
  <2>3. \A x \in Proc : pid[x] < nextpid' /\ pid[x] /= nextpid
    BY <1>0, <2>1 DEF Marks
  <2>4. nextpid /= 0 /\ nextpid < nextpid'
    BY <1>0, <2>1, ProcFacts DEF Marks
  <2>5. \A x \in Proc : /\ pid'[x] < nextpid'
                        /\ killed'[x] => pid'[x] \in named' \/ x \in stray'
                        /\ state'[x] = "UNUSED" <=> pid'[x] = 0
                        /\ pc'[x] = "kill" => arg'[x] \in named' \cup {0}
    BY <2>1, <2>2, <2>3, <2>4 DEF Marks
  <2>6. \A x, y \in Proc : pid'[x] = pid'[y] /\ pid'[x] /= 0 => x = y
    BY <2>1, <2>3 DEF Marks
  <2> QED BY <1>0, <2>1, <2>5, <2>6, Zenon DEF Marks
<1>4. ASSUME NEW p \in Proc, allocproc_fail(p) \/ wait_reap(p) PROVE Marks'
  <2>1. /\ it[p] \in Proc /\ (nextpid' = nextpid + 1 \/ nextpid' = nextpid)
        /\ \A x \in Proc : state'[x] = IF x = it[p] THEN "UNUSED" ELSE state[x]
        /\ \A x \in Proc : pid'[x] = IF x = it[p] THEN 0 ELSE pid[x]
        /\ ~killed'[it[p]] /\ \A x \in Proc : x /= it[p] => (killed'[x] <=> killed[x])
        /\ \A x \in Proc : pc'[x] = "kill" => pc[x] = "kill"
        /\ UNCHANGED <<arg, named>> /\ \A x \in Proc : x /= it[p] /\ x \in stray => x \in stray'
    <3>1. CASE allocproc_fail(p)
      BY <1>t, <3>1, Zenon DEF allocproc_fail, freeproc, Release, Goto
    <3>2. CASE wait_reap(p)
      BY <1>t, <3>2, Zenon DEF wait_reap, freeproc, Release, Goto, locals
    <3> QED BY <1>4, <3>1, <3>2, Zenon
  <2>2. \A x \in Proc : pid'[x] < nextpid'
    <3>1. 0 < nextpid /\ \A x \in Proc : pid[x] < nextpid
      BY <1>0, ProcFacts DEF Marks
    <3>2. nextpid' \in Nat /\ nextpid <= nextpid'
      BY <1>0, <2>1, ProcFacts
    <3>3. 0 < nextpid' /\ \A x \in Proc : pid[x] < nextpid'
      BY <1>0, <3>1, <3>2, ProcFacts
    <3> QED BY <2>1, <3>3, Zenon
  <2>3. \A x \in Proc : killed'[x] => pid'[x] \in named' \/ x \in stray'
    BY <2>1, ZenonT(30) DEF Marks
  <2> QED BY <2>1, <2>2, <2>3 DEF Marks
<1>5. ASSUME NEW p \in Proc,
             \/ allocproc_next(p) \/ fork_parent(p) \/ fork_trace(p)
             \/ exit_lock(p) \/ reparent(p) \/ wait_acquire(p) \/ wait_next(p)
             \/ wait_copyout_fail(p) \/ wait_check(p)
             \/ usertrap_killed(p) \/ usertrap_return(p)
             \/ \E l \in {"fork", "exit", "wait"} : syscall(p, l)
             \/ \E m \in Masks : sys_trace(p, m)
      PROVE  Marks'
  <2> DEFINE Same ==
        /\ UNCHANGED <<state, pid, killed, nextpid, named, stray>>
        /\ \A x \in Proc : pc'[x] = "kill" => pc[x] = "kill" /\ arg'[x] = arg[x]
  <2>1. ASSUME allocproc_next(p) \/ fork_parent(p) \/ fork_trace(p) PROVE Same
    BY <1>t, <2>1, Zenon DEF allocproc_next, fork_parent, fork_trace, NextSlot, Goto,
         slots, locals
  <2>2. ASSUME exit_lock(p) \/ reparent(p) PROVE Same
    BY <1>t, <2>2, Zenon DEF exit_lock, reparent, NextSlot, Goto, slots, locals
  <2>3. ASSUME wait_acquire(p) \/ wait_next(p) PROVE Same
    BY <1>t, <2>3, Zenon DEF wait_acquire, wait_next, NextSlot, Goto, slots
  <2>4. ASSUME wait_copyout_fail(p) \/ wait_check(p) PROVE Same
    BY <1>t, <2>4, Zenon DEF wait_copyout_fail, wait_check, Goto, slots, locals
  <2>5. ASSUME usertrap_killed(p) \/ usertrap_return(p) PROVE Same
    BY <1>t, <2>5, ZenonT(30)
       DEF usertrap_killed, usertrap_return, DropLocals, Goto, slots
  <2>6. ASSUME \E l \in {"fork", "exit", "wait"} : syscall(p, l) PROVE Same
    BY <1>t, <2>6, Zenon DEF syscall, Goto, slots
  <2>7. ASSUME \E m \in Masks : sys_trace(p, m) PROVE Same
    BY ZenonT(30), <2>7 DEF sys_trace, locals
  <2>8. Same
    BY ZenonT(30), <1>5, <2>1, <2>2, <2>3, <2>4, <2>5, <2>6, <2>7
  <2> QED BY <2>8, Zenon DEF Marks
<1>6. ASSUME NEW p \in Proc, fork_run(p) \/ wakeup(p) \/ exit_zombie(p) \/ sleep(p)
      PROVE  Marks'
  <2> DEFINE Used == \A x \in Proc : state'[x] = "UNUSED" <=> state[x] = "UNUSED"
  <2>1. ASSUME fork_run(p) PROVE Used
    BY <1>t, <2>1, Ranges, Zenon DEF fork_run, At, Children
  <2>2. ASSUME wakeup(p) PROVE Used
    BY <1>t, <2>2, Zenon DEF wakeup
  <2>3. ASSUME exit_zombie(p) \/ sleep(p) PROVE Used
    BY <1>t, <2>3, ZenonT(30) DEF exit_zombie, sleep, At, EnterSched, Contexts
  <2>4. Used
    BY ZenonT(30), <1>6, <2>1, <2>2, <2>3
  <2>5. /\ UNCHANGED <<pid, killed, nextpid, named, stray, arg>>
        /\ \A x \in Proc : pc'[x] = "kill" => pc[x] = "kill"
    BY <1>t, <1>6, Zenon DEF fork_run, wakeup, exit_zombie, sleep, At, Goto, locals
  <2> QED BY ZenonT(30), <2>4, <2>5 DEF Marks
<1>7. ASSUME NEW p \in Proc, kill(p) PROVE Marks'
  <2>1. /\ pc[p] = "kill" /\ it[p] \in Proc
        /\ \A x \in Proc : state'[x] = "UNUSED" <=> state[x] = "UNUSED"
        /\ \A x \in Proc : pc'[x] = "kill" => pc[x] = "kill"
        /\ UNCHANGED <<pid, nextpid, named, arg>>
    BY <1>t, <1>7 DEF kill, At, NextSlot, Goto
  <2>2. stray \subseteq stray'
    BY <1>7, Zenon DEF kill
  <2>3. \A x \in Proc : killed'[x] =>
           killed[x] \/ (pid[x] = arg[p] /\ (arg[p] = 0 => x \in stray'))
    <3>1. CASE pid[it[p]] = arg[p]
      <4>1. /\ killed' = [killed EXCEPT ![it[p]] = TRUE]
            /\ stray' = IF arg[p] = 0 THEN stray \cup {it[p]} ELSE stray
        BY <1>7, <3>1, Zenon DEF kill
      <4>2. arg[p] = 0 => it[p] \in stray'
        BY <4>1, Zenon
      <4>3. \A x \in Proc : killed'[x] => killed[x] \/ x = it[p]
        BY <1>t, <4>1, Zenon
      <4> QED BY <3>1, <4>2, <4>3
    <3>2. CASE pid[it[p]] /= arg[p]
      <4>1. killed' = killed
        BY <1>7, <3>2, Zenon DEF kill
      <4> QED BY <4>1, Zenon
    <3> QED BY <3>1, <3>2, Zenon
  <2>4. \A x \in Proc : killed'[x] => pid'[x] \in named' \/ x \in stray'
    BY <2>1, <2>2, <2>3, ZenonT(30) DEF Marks
  <2> QED BY ZenonT(30), <2>1, <2>4 DEF Marks
<1>8. ASSUME NEW p \in Proc, NEW k \in KillPids, sys_kill(p, k) PROVE Marks'
  <2>1. /\ UNCHANGED <<state, pid, killed, nextpid, stray>> /\ named' = named \cup ({k} \ {0})
        /\ \A x \in Proc : pc'[x] = "kill" => x = p \/ pc[x] = "kill"
        /\ \A x \in Proc : arg'[x] = IF x = p THEN k ELSE arg[x]
    BY <1>t, <1>8, Zenon DEF sys_kill, Goto, slots
  <2> QED BY ZenonT(30), <2>1 DEF Marks
<1>9. ASSUME NEW p \in Proc, usertrap_fault(p) PROVE Marks'
  <2>1. /\ UNCHANGED <<state, pid, nextpid, stray, arg>> /\ named' = named \cup {pid[p]}
        /\ state[p] = "RUNNING"
        /\ \A x \in Proc : killed'[x] => x = p \/ killed[x]
        /\ \A x \in Proc : pc'[x] = "kill" => pc[x] = "kill"
    BY <1>t, <1>9, ZenonT(30) DEF usertrap_fault, At, Goto, locals, Contexts
  <2>2. pid[p] /= 0
    BY <2>1, Zenon DEF Marks
  <2>3. 0 \notin named'
    BY <1>0, <2>1, <2>2, Zenon
  <2> QED BY ZenonT(30), <2>1, <2>3 DEF Marks
<1> QED BY <1>1, <1>2, <1>3, <1>4, <1>5, <1>6, <1>7, <1>8, <1>9, Zenon
        DEF Next, KernelStep, fork, exit, wait

\* Who is whose: a parent outlives its children's place in the table, fork's last
\* write hits its child, pids are unique, and no mark of kill passes from a process
\* to the next one in its slot, whatever kill is called with.
THEOREM ProcFamilyTree == Spec => []FamilyTree
<1>1. Init => Marks
  BY ProcFacts DEF Init, Marks
<1>2. IInv /\ Marks /\ [Next]_vars => Marks'
  <2>1. Marks /\ UNCHANGED vars => Marks'
    BY Zenon DEF Marks, vars, slots, locals
  <2> QED BY <2>1, NextMarks, Zenon
<1>3. IInv /\ Marks => FamilyTree
  <2> SUFFICES ASSUME IInv, Marks PROVE FamilyTree
    OBVIOUS
  <2>1. ParentsLive
    BY Ranges, Zenon DEF IInv, Parents, ParentsLive
  <2>2. MaskCopyHitsChild
    BY Ranges, Zenon DEF IInv, Children, MaskCopyHitsChild
  <2> QED BY <2>1, <2>2, Zenon DEF Marks, PidsUnique, KilledForCause, FamilyTree
<1> QED BY ProcInvariant, <1>1, <1>2, <1>3, PTL DEF Spec
============================================================================
