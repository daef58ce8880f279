----------------------------- MODULE ProcSteps ------------------------------
(***************************************************************************)
(* The scheduler, the traps, fork and exit keep the inductive invariant    *)
(* IInv of Proc.  The lemma of an action first states what the action does *)
(* to each slot (step <1>a), and the other steps work from that.           *)
(***************************************************************************)
EXTENDS Proc, TLAPS

\* The slots: init's is one, 0 is none, and kill(1) is left out.
LEMMA ProcFacts ==
  initproc \in Proc /\ NPROC \in Proc /\ 1 \in Proc /\ 0 \notin Proc /\ 1 \notin KillPids
  BY ProcConstants DEF Proc, initproc

\* The order in which they are scanned.
LEMMA Order ==
  /\ initproc = 1 /\ \A x \in Proc : x \in Nat /\ 1 <= x /\ x <= NPROC
  /\ \A x, y \in Proc : /\ x < y + 1 => x <= y
                        /\ x <= y => x < y \/ x = y
                        /\ x <= y /\ x /= y => x + 1 <= y
                        /\ x < y => x <= y
  BY ProcConstants DEF Proc, initproc

\* The next slot of a scan.
LEMMA NextProc == \A x \in Proc : x /= NPROC => x + 1 \in Proc
  BY ProcConstants DEF Proc

\* What the proofs use of TypeOK, slot by slot.
LEMMA Ranges ==
  TypeOK => \A x \in Proc : /\ parent[x] \in Proc \/ parent[x] = 0
                            /\ np[x] \in Proc \/ np[x] = 0
                            /\ it[x] \in Proc /\ jt[x] \in Proc
  BY Zenon DEF TypeOK
----------------------------------------------------------------------------
(* The actions. *)

\* scheduler: a RUNNABLE slot whose p->lock is free is on no CPU, and gets
\* one.
LEMMA scheduler_Keeps ==
  ASSUME NEW c \in CPU, NEW p \in Proc, IInv, scheduler(c, p)
  PROVE  IInv'
<1> /\ TypeOK /\ OnCpu /\ Contexts /\ Places /\ WaitLock /\ InitLives
    /\ Children /\ Parents /\ Exiting /\ Scanned /\ Woken
  BY Zenon DEF IInv
<1>a. /\ cpu[c] = 0 /\ ~plock[p] /\ state[p] = "RUNNABLE"
      /\ plock'[p] /\ \A x \in Proc : x /= p => (plock'[x] <=> plock[x])
      /\ \A x \in Proc : state'[x] = IF x = p THEN "RUNNING" ELSE state[x]
      /\ \A x \in CPU : cpu'[x] = IF x = c THEN p ELSE cpu[x]
      /\ \A x \in Proc : ctx'[x] = IF x = p THEN "back" ELSE ctx[x]
      /\ UNCHANGED <<parent, chan, killed, pid, wait_lock, pc, it, jt, np>>
  BY ProcFacts DEF scheduler, RunOn, TypeOK, slots, locals
<1>1. TypeOK'
  BY ProcFacts, Zenon DEF scheduler, RunOn, slots, locals, TypeOK, Labels, States
<1>2. Contexts' /\ Places' /\ Children' /\ Parents' /\ Exiting' /\ Scanned' /\ Woken'
  BY <1>a DEF Contexts, Places, Children, Parents, Exiting, Scanned, Woken
<1>3. OnCpu'
  <2>1. /\ \A d \in CPU : cpu[d] /= p
        /\ ctx[p] = "off"
    BY <1>a DEF OnCpu, Contexts, TypeOK
  <2>2. \A d, e \in CPU : cpu'[d] = cpu'[e] /\ cpu'[d] /= 0 => d = e
    BY <1>a, <2>1 DEF OnCpu
  <2>3. ASSUME NEW x \in Proc PROVE ctx'[x] /= "off" <=> \E d \in CPU : cpu'[d] = x
    <3>1. CASE x = p
      BY <1>a, <3>1, Zenon
    <3>2. CASE x /= p
      BY <1>a, <2>1, <3>2, ProcFacts DEF OnCpu
    <3> QED BY <3>1, <3>2, Zenon
  <2> QED BY <2>2, <2>3, Zenon DEF OnCpu
<1>4. WaitLock'
  BY <1>a, ZenonT(30) DEF WaitLock, Contexts
<1>5. InitLives'
  BY <1>a, ProcFacts, Zenon DEF InitLives
<1> QED BY <1>1, <1>2, <1>3, <1>4, <1>5, Zenon DEF IInv

\* swtch out of sched: the CPU and p->lock are given up together.
LEMMA swtch_Keeps ==
  ASSUME NEW c \in CPU, NEW p \in Proc, IInv, swtch(c, p)
  PROVE  IInv'
<1> /\ TypeOK /\ OnCpu /\ Contexts /\ Places /\ WaitLock /\ InitLives
    /\ Children /\ Parents /\ Exiting /\ Scanned /\ Woken
  BY Zenon DEF IInv
<1>a. /\ cpu[c] = p /\ ctx[p] = "sched"
      /\ ~plock'[p] /\ \A x \in Proc : x /= p => (plock'[x] <=> plock[x])
      /\ \A x \in CPU : cpu'[x] = IF x = c THEN 0 ELSE cpu[x]
      /\ \A x \in Proc : ctx'[x] = IF x = p THEN "off" ELSE ctx[x]
      /\ UNCHANGED <<state, parent, chan, killed, pid, wait_lock, pc, it, jt, np>>
  BY ProcFacts, ZenonT(30) DEF swtch, TypeOK, slots, locals
<1>1. TypeOK'
  BY ProcFacts, Zenon DEF swtch, slots, locals, TypeOK, Labels, States
<1>2. /\ Contexts' /\ Places' /\ WaitLock' /\ InitLives' /\ Children' /\ Parents'
      /\ Exiting' /\ Scanned' /\ Woken'
  BY <1>a DEF Contexts, Places, WaitLock, InitLives, Children, Parents, Exiting,
       Scanned, Woken
<1>3. OnCpu'
  BY <1>a, ProcFacts DEF OnCpu
<1> QED BY <1>1, <1>2, <1>3, Zenon DEF IInv

\* The end of sched: p->lock is released by the process itself.
LEMMA sched_return_Keeps ==
  ASSUME NEW p \in Proc, IInv, sched_return(p)
  PROVE  IInv'
<1> /\ TypeOK /\ OnCpu /\ Contexts /\ Places /\ WaitLock /\ InitLives
    /\ Children /\ Parents /\ Exiting /\ Scanned /\ Woken
  BY Zenon DEF IInv
<1>a. /\ ctx[p] = "back"
      /\ \A x \in Proc : ctx'[x] = IF x = p THEN "on" ELSE ctx[x]
      /\ \A x \in Proc : chan'[x] = IF x = p THEN 0 ELSE chan[x]
      /\ ~plock'[p] /\ \A x \in Proc : x /= p => (plock'[x] <=> plock[x])
      /\ UNCHANGED <<state, parent, killed, pid, wait_lock, cpu, pc, it, jt, np>>
  BY ProcFacts, ZenonT(30) DEF sched_return, TypeOK, slots, locals
<1>1. TypeOK'
  BY ProcFacts, Zenon DEF sched_return, slots, locals, TypeOK, Labels, States
<1>2. /\ OnCpu' /\ Contexts' /\ WaitLock' /\ InitLives' /\ Children' /\ Parents'
      /\ Exiting' /\ Scanned' /\ Woken'
  BY <1>a DEF OnCpu, Contexts, WaitLock, InitLives, Children, Parents, Exiting,
       Scanned, Woken
<1>3. Places'
  <2>1. state[p] = "RUNNING"
    BY <1>a, Zenon DEF Contexts
  <2> QED BY <1>a, <2>1, Zenon DEF Places
<1> QED BY <1>1, <1>2, <1>3, Zenon DEF IInv

\* yield: the process goes to sched RUNNABLE, with p->lock and not wait_lock.
LEMMA yield_Keeps ==
  ASSUME NEW p \in Proc, IInv, yield(p)
  PROVE  IInv'
<1> /\ TypeOK /\ OnCpu /\ Contexts /\ Places /\ WaitLock /\ InitLives
    /\ Children /\ Parents /\ Exiting /\ Scanned /\ Woken
  BY Zenon DEF IInv
<1>a. /\ ctx[p] = "on" /\ wait_lock /= p /\ ~plock[p]
      /\ plock'[p] /\ \A x \in Proc : x /= p => (plock'[x] <=> plock[x])
      /\ \A x \in Proc : state'[x] = IF x = p THEN "RUNNABLE" ELSE state[x]
      /\ \A x \in Proc : ctx'[x] = IF x = p THEN "sched" ELSE ctx[x]
      /\ UNCHANGED <<parent, chan, killed, pid, wait_lock, cpu, pc, it, jt, np>>
  BY ProcFacts, Zenon DEF yield, EnterSched, TypeOK, slots, locals
<1>1. TypeOK'
  BY ProcFacts, Zenon DEF yield, EnterSched, slots, locals, TypeOK, Labels, States
<1>2. OnCpu' /\ Contexts' /\ WaitLock' /\ Parents' /\ Exiting' /\ Scanned' /\ Woken'
  BY <1>a DEF OnCpu, Contexts, WaitLock, Parents, Exiting, Scanned, Woken
<1>3. Places'
  <2>1. state[p] = "RUNNING"
    BY <1>a, Zenon DEF Contexts
  <2> QED BY <1>a, <2>1, ZenonT(30) DEF Places
<1>4. InitLives'
  BY <1>a, ProcFacts, Zenon DEF InitLives
<1>5. Children'
  BY <1>a DEF Children, Contexts
<1> QED BY <1>1, <1>2, <1>3, <1>4, <1>5, Zenon DEF IInv

\* usertrap sends a killed process to exit: not init, which kill never marks.
LEMMA usertrap_killed_Keeps ==
  ASSUME NEW p \in Proc, IInv, usertrap_killed(p)
  PROVE  IInv'
<1> /\ TypeOK /\ OnCpu /\ Contexts /\ Places /\ WaitLock /\ InitLives
    /\ Children /\ Parents /\ Exiting /\ Scanned /\ Woken
  BY Zenon DEF IInv
<1>a. /\ ctx[p] = "on" /\ pc[p] \in {"user", "ret"} /\ killed[p]
      /\ \A x \in Proc : pc'[x] = IF x = p THEN "exit" ELSE pc[x]
      /\ \A x \in Proc : it'[x] = IF x = p THEN 1 ELSE it[x]
      /\ UNCHANGED <<state, parent, chan, killed, pid, plock, wait_lock, cpu, ctx,
           jt, np>>
  BY ProcFacts, Zenon DEF usertrap_killed, At, Goto, DropLocals, TypeOK, slots, locals
<1>1. TypeOK'
  BY ProcFacts, Zenon DEF usertrap_killed, At, Goto, DropLocals, slots, locals, TypeOK,
       Labels, States
<1>2. /\ OnCpu' /\ Contexts' /\ WaitLock' /\ Children' /\ Parents' /\ Exiting'
      /\ Scanned' /\ Woken'
  BY <1>a DEF OnCpu, Contexts, WaitLock, WaitLabels, Children, Parents, Exiting,
       Scanned, Woken
<1>3. Places'
  <2>1. state[p] = "RUNNING"
    BY <1>a, Zenon DEF Contexts
  <2> QED BY <1>a, <2>1, ZenonT(30) DEF Places
<1>4. InitLives'
  BY <1>a, ProcFacts, Zenon DEF InitLives
<1> QED BY <1>1, <1>2, <1>3, <1>4, Zenon DEF IInv

\* usertrap marks a process, not init, that caused a trap.
LEMMA usertrap_fault_Keeps ==
  ASSUME NEW p \in Proc, IInv, usertrap_fault(p)
  PROVE  IInv'
<1> /\ TypeOK /\ OnCpu /\ Contexts /\ Places /\ WaitLock /\ InitLives
    /\ Children /\ Parents /\ Exiting /\ Scanned /\ Woken
  BY Zenon DEF IInv
<1>a. /\ ctx[p] = "on" /\ pc[p] = "user" /\ p /= initproc
      /\ \A x \in Proc : pc'[x] = IF x = p THEN "ret" ELSE pc[x]
      /\ \A x \in Proc : x /= p => killed'[x] = killed[x]
      /\ UNCHANGED <<state, parent, chan, pid, plock, wait_lock, cpu, ctx, it, jt, np>>
  BY Zenon DEF usertrap_fault, At, Goto, TypeOK, locals
<1>1. TypeOK'
  <2>1. pc' \in [Proc -> Labels]
    BY Zenon DEF usertrap_fault, Goto, TypeOK, Labels
  <2>2. killed' \in [Proc -> BOOLEAN]
    BY ZenonT(30) DEF usertrap_fault, TypeOK
  <2>3. named' \in SUBSET Nat
    <3>1. named \in SUBSET Nat /\ pid[p] \in Nat
      BY Zenon DEF TypeOK
    <3>2. named' = named \cup {pid[p]}
      BY Zenon DEF usertrap_fault
    <3> QED BY <3>1, <3>2, Zenon
  <2> QED BY <2>1, <2>2, <2>3, Zenon DEF usertrap_fault, TypeOK, locals
<1>2. /\ OnCpu' /\ Contexts' /\ WaitLock' /\ Children' /\ Parents' /\ Exiting'
      /\ Scanned' /\ Woken'
  BY <1>a DEF OnCpu, Contexts, WaitLock, WaitLabels, Children, Parents, Exiting,
       Scanned, Woken
<1>3. Places'
  <2>1. state[p] = "RUNNING"
    BY <1>a, Zenon DEF Contexts
  <2> QED BY <1>a, <2>1, ZenonT(30) DEF Places
<1>4. InitLives'
  BY <1>a, ProcFacts, Zenon DEF InitLives
<1> QED BY <1>1, <1>2, <1>3, <1>4, Zenon DEF IInv

\* usertrap returns to user space.
LEMMA usertrap_return_Keeps ==
  ASSUME NEW p \in Proc, IInv, usertrap_return(p)
  PROVE  IInv'
<1> /\ TypeOK /\ OnCpu /\ Contexts /\ Places /\ WaitLock /\ InitLives
    /\ Children /\ Parents /\ Exiting /\ Scanned /\ Woken
  BY Zenon DEF IInv
<1>a. /\ ctx[p] = "on" /\ pc[p] = "ret"
      /\ \A x \in Proc : pc'[x] = IF x = p THEN "user" ELSE pc[x]
      /\ \A x \in Proc : it'[x] = IF x = p THEN 1 ELSE it[x]
      /\ UNCHANGED <<state, parent, chan, killed, pid, plock, wait_lock, cpu, ctx,
           jt, np>>
  BY ProcFacts, Zenon DEF usertrap_return, At, Goto, DropLocals, TypeOK, slots, locals
<1>1. TypeOK'
  BY ProcFacts, Zenon DEF usertrap_return, At, Goto, DropLocals, slots, locals, TypeOK,
       Labels, States
<1>2. /\ OnCpu' /\ Contexts' /\ Places' /\ WaitLock' /\ Children' /\ Parents'
      /\ Exiting' /\ Scanned' /\ Woken'
  BY <1>a DEF OnCpu, Contexts, Places, WaitLock, WaitLabels, Children, Parents,
       Exiting, Scanned, Woken
<1>3. InitLives'
  BY <1>a, ProcFacts, Zenon DEF InitLives
<1> QED BY <1>1, <1>2, <1>3, Zenon DEF IInv

\* A system call is entered; init does not call exit.
LEMMA syscall_Keeps ==
  ASSUME NEW p \in Proc, NEW l \in {"fork", "exit", "wait"}, IInv, syscall(p, l)
  PROVE  IInv'
<1> /\ TypeOK /\ OnCpu /\ Contexts /\ Places /\ WaitLock /\ InitLives
    /\ Children /\ Parents /\ Exiting /\ Scanned /\ Woken
  BY Zenon DEF IInv
<1>a. /\ ctx[p] = "on" /\ pc[p] = "user" /\ (l = "exit" => p /= initproc)
      /\ pc'[p] = l /\ \A x \in Proc : x /= p => pc'[x] = pc[x]
      /\ \A x \in Proc : it'[x] = IF x = p THEN 1 ELSE it[x]
      /\ UNCHANGED <<state, parent, chan, killed, pid, plock, wait_lock, cpu, ctx,
           jt, np>>
  BY ProcFacts, Zenon DEF syscall, At, Goto, TypeOK, slots, locals
<1>1. TypeOK'
  BY ProcFacts, Zenon DEF syscall, At, Goto, slots, locals, TypeOK, Labels, States
<1>2. /\ OnCpu' /\ Contexts' /\ WaitLock' /\ Children' /\ Parents' /\ Exiting'
      /\ Scanned'
  BY <1>a DEF OnCpu, Contexts, WaitLock, WaitLabels, Children, Parents, Exiting,
       Scanned
<1>3. Places'
  <2>1. state[p] = "RUNNING"
    BY <1>a, Zenon DEF Contexts
  <2> QED BY <1>a, <2>1, ZenonT(30) DEF Places
<1>4. InitLives'
  BY <1>a, ProcFacts, Zenon DEF InitLives
<1>5. Woken'
  BY <1>a, Ranges, ProcFacts DEF Woken, WaitLock, WaitLabels, Exiting, InitLives,
       Contexts, Places, Children, Scanned, Parents
<1> QED BY <1>1, <1>2, <1>3, <1>4, <1>5, Zenon DEF IInv

\* kill is entered.
LEMMA sys_kill_Keeps ==
  ASSUME NEW p \in Proc, NEW k \in KillPids, IInv, sys_kill(p, k)
  PROVE  IInv'
<1> /\ TypeOK /\ OnCpu /\ Contexts /\ Places /\ WaitLock /\ InitLives
    /\ Children /\ Parents /\ Exiting /\ Scanned /\ Woken
  BY Zenon DEF IInv
<1>a. /\ ctx[p] = "on" /\ pc[p] = "user"
      /\ \A x \in Proc : pc'[x] = IF x = p THEN "kill" ELSE pc[x]
      /\ \A x \in Proc : it'[x] = IF x = p THEN 1 ELSE it[x]
      /\ UNCHANGED <<state, parent, chan, killed, pid, plock, wait_lock, cpu, ctx,
           jt, np>>
  BY ProcFacts, Zenon DEF sys_kill, At, Goto, TypeOK, slots, locals
<1>1. TypeOK'
  <2>1. named' \in SUBSET Nat
    BY ProcConstants DEF sys_kill, TypeOK
  <2> QED BY <2>1, ProcFacts, Zenon
          DEF sys_kill, At, Goto, slots, locals, TypeOK, Labels, States
<1>2. /\ OnCpu' /\ Contexts' /\ WaitLock' /\ Children' /\ Parents' /\ Exiting'
      /\ Scanned' /\ Woken'
  BY <1>a DEF OnCpu, Contexts, WaitLock, WaitLabels, Children, Parents, Exiting,
       Scanned, Woken
<1>3. Places'
  <2>1. state[p] = "RUNNING"
    BY <1>a, Zenon DEF Contexts
  <2> QED BY <1>a, <2>1, ZenonT(30) DEF Places
<1>4. InitLives'
  BY <1>a, ProcFacts, Zenon DEF InitLives
<1> QED BY <1>1, <1>2, <1>3, <1>4, Zenon DEF IInv

\* trace changes the mask only.
LEMMA sys_trace_Keeps ==
  ASSUME NEW p \in Proc, NEW m \in Masks, IInv, sys_trace(p, m)
  PROVE  IInv'
<1> /\ TypeOK /\ OnCpu /\ Contexts /\ Places /\ WaitLock /\ InitLives
    /\ Children /\ Parents /\ Exiting /\ Scanned /\ Woken
  BY Zenon DEF IInv
<1>a. UNCHANGED <<state, parent, chan, killed, pid, plock, wait_lock, cpu, ctx, pc,
                  it, jt, np>>
  BY ProcFacts, Zenon DEF sys_trace, At, TypeOK, slots, locals
<1>1. TypeOK'
  BY ProcFacts, Zenon DEF sys_trace, At, slots, locals, TypeOK, Labels, States
<1>2. /\ OnCpu' /\ Contexts' /\ Places' /\ WaitLock' /\ InitLives' /\ Children'
      /\ Parents' /\ Exiting' /\ Scanned' /\ Woken'
  BY <1>a DEF OnCpu, Contexts, Places, WaitLock, InitLives, Children, Parents,
       Exiting, Scanned, Woken
<1> QED BY <1>1, <1>2, Zenon DEF IInv

\* allocproc passes a slot in use.
LEMMA allocproc_next_Keeps ==
  ASSUME NEW p \in Proc, IInv, allocproc_next(p)
  PROVE  IInv'
<1> /\ TypeOK /\ OnCpu /\ Contexts /\ Places /\ WaitLock /\ InitLives
    /\ Children /\ Parents /\ Exiting /\ Scanned /\ Woken
  BY Zenon DEF IInv
<1>a. /\ ctx[p] = "on" /\ pc[p] = "fork"
      /\ UNCHANGED pc \/ \A x \in Proc : pc'[x] = IF x = p THEN "ret" ELSE pc[x]
      /\ \A x \in Proc : x /= p => it'[x] = it[x]
      /\ UNCHANGED <<state, parent, chan, killed, pid, plock, wait_lock, cpu, ctx,
           jt, np>>
  BY ProcFacts DEF allocproc_next, At, Goto, NextSlot, TypeOK, slots, locals
<1>1. TypeOK'
  <2>1. it' \in [Proc -> Proc]
    BY NextProc, ProcFacts DEF allocproc_next, At, Goto, NextSlot, TypeOK
  <2>2. pc' \in [Proc -> Labels]
    BY DEF allocproc_next, At, Goto, NextSlot, TypeOK, Labels
  <2> QED BY <2>1, <2>2, ProcFacts, Zenon DEF allocproc_next, At, TypeOK, slots, locals,
       States
<1>2. /\ OnCpu' /\ Contexts' /\ Places' /\ WaitLock' /\ Children' /\ Parents'
      /\ Exiting' /\ Scanned' /\ Woken'
  BY <1>a DEF OnCpu, Contexts, Places, WaitLock, WaitLabels, Children, Parents,
       Exiting, Scanned, Woken
<1>3. InitLives'
  BY <1>a, ProcFacts, Zenon DEF InitLives
<1> QED BY <1>1, <1>2, <1>3, Zenon DEF IInv

\* allocproc takes a slot: it was nobody's child and nobody's parent.
LEMMA allocproc_Keeps ==
  ASSUME NEW p \in Proc, IInv, allocproc(p)
  PROVE  IInv'
<1> /\ TypeOK /\ OnCpu /\ Contexts /\ Places /\ WaitLock /\ InitLives
    /\ Children /\ Parents /\ Exiting /\ Scanned /\ Woken
  BY Zenon DEF IInv
<1>a. /\ ctx[p] = "on" /\ pc[p] = "fork" /\ it[p] \in Proc
      /\ ~plock[it[p]] /\ state[it[p]] = "UNUSED"
      /\ \A x \in Proc : state'[x] = IF x = it[p] THEN "USED" ELSE state[x]
      /\ \A x \in Proc : pid'[x] = IF x = it[p] THEN nextpid ELSE pid[x]
      /\ \A x \in Proc : np'[x] = IF x = p THEN it[p] ELSE np[x]
      /\ \A x \in Proc : it'[x] = IF x = p THEN 1 ELSE it[x]
      /\ \A x \in Proc : pc'[x] = IF x = it[p] THEN "user"
                                   ELSE IF x = p THEN "fork_parent" ELSE pc[x]
      /\ UNCHANGED <<parent, chan, killed, plock, wait_lock, cpu, ctx, jt>>
  BY ProcFacts, ZenonT(30) DEF allocproc, At, TypeOK, slots, locals
<1>1. TypeOK'
  <2>1. nextpid \in Nat /\ nextpid + 1 \in Nat
    BY DEF TypeOK
  <2>2. state' \in [Proc -> States] /\ pc' \in [Proc -> Labels]
    BY ZenonT(30) DEF allocproc, TypeOK, Labels, States
  <2>3. /\ pid' \in [Proc -> Nat] /\ nextpid' \in Nat
        /\ np' \in [Proc -> Proc \cup {0}] /\ it' \in [Proc -> Proc]
    BY <2>1, <1>a, ProcFacts, ZenonT(30) DEF allocproc, TypeOK
  <2> QED BY <2>2, <2>3, ZenonT(30) DEF allocproc, TypeOK
<1>2. OnCpu' /\ Contexts' /\ Places' /\ Parents' /\ Exiting' /\ Scanned'
  BY <1>a DEF OnCpu, Contexts, Places, Parents, Exiting, Scanned
<1>3. WaitLock'
  BY <1>a DEF WaitLock, WaitLabels, Contexts
<1>4. InitLives'
  BY <1>a, ProcFacts, Zenon DEF InitLives
<1>5. Children'
  <2>1. /\ \A x \in Proc : pc[x] \in {"fork_parent", "fork_run", "fork_trace"}
                              => np[x] /= it[p]
        /\ p /= it[p]
    BY <1>a, Ranges DEF Children, Contexts
  <2>2. \A x, n \in Proc : np'[x] = n =>
          /\ pc'[x] \in {"fork_parent", "fork_run"} => state'[n] = "USED"
          /\ pc'[x] \in {"fork_run", "fork_trace"} => parent'[n] = x
          /\ pc'[x] = "fork_trace" => state'[n] \notin {"UNUSED", "USED"}
    BY <1>a, <2>1 DEF Children
  <2>3. \A x \in Proc : pc'[x] \in {"fork_parent", "fork_run",
       "fork_trace"} => np'[x] /= 0
    BY <1>a, <2>1, ProcFacts DEF Children
  <2>4. \A x, r \in Proc : {pc'[x], pc'[r]} \subseteq {"fork_parent",
       "fork_run"} /\ np'[x] = np'[r]
                           => x = r
    BY <1>a, <2>1 DEF Children
  <2> QED BY <2>2, <2>3, <2>4, Zenon DEF Children
<1>6. Woken'
  BY <1>a, ProcFacts DEF Woken, Places
<1> QED BY <1>1, <1>2, <1>3, <1>4, <1>5, <1>6, Zenon DEF IInv

\* allocproc gives the slot back: it is as it was.
LEMMA allocproc_fail_Keeps ==
  ASSUME NEW p \in Proc, IInv, allocproc_fail(p)
  PROVE  IInv'
<1> /\ TypeOK /\ OnCpu /\ Contexts /\ Places /\ WaitLock /\ InitLives
    /\ Children /\ Parents /\ Exiting /\ Scanned /\ Woken
  BY Zenon DEF IInv
<1>a. /\ ctx[p] = "on" /\ pc[p] = "fork" /\ it[p] \in Proc
      /\ ~plock[it[p]] /\ state[it[p]] = "UNUSED"
      /\ UNCHANGED state
      /\ \A x \in Proc : pid'[x] = IF x = it[p] THEN 0 ELSE pid[x]
      /\ \A x \in Proc : parent'[x] = IF x = it[p] THEN 0 ELSE parent[x]
      /\ \A x \in Proc : chan'[x] = IF x = it[p] THEN 0 ELSE chan[x]
      /\ ~killed'[it[p]] /\ \A x \in Proc : x /= it[p] => (killed'[x] <=> killed[x])
      /\ \A x \in Proc : pc'[x] = IF x = p THEN "ret" ELSE pc[x]
      /\ \A x \in Proc : it'[x] = IF x = p THEN 1 ELSE it[x]
      /\ UNCHANGED <<plock, wait_lock, cpu, ctx, jt, np>>
  BY ProcFacts DEF allocproc_fail, At, Goto, freeproc, Release, TypeOK, slots, locals
<1>1. TypeOK'
  BY ProcFacts DEF allocproc_fail, At, Goto, freeproc, Release, slots, locals,
       TypeOK, Labels, States
<1>2. OnCpu' /\ Contexts' /\ Places' /\ WaitLock' /\ Children' /\ Scanned'
  BY <1>a DEF OnCpu, Contexts, Places, WaitLock, WaitLabels, Children, Scanned
<1>3. InitLives'
  BY <1>a, ProcFacts, Zenon DEF InitLives
<1>4. Parents'
  BY <1>a, ProcFacts DEF Parents
<1>5. Exiting'
  BY <1>a, ProcFacts DEF Exiting
<1>6. Woken'
  BY <1>a, ProcFacts DEF Woken
<1> QED BY <1>1, <1>2, <1>3, <1>4, <1>5, <1>6, Zenon DEF IInv

\* fork sets the parent of the child, a slot nobody else is making.
LEMMA fork_parent_Keeps ==
  ASSUME NEW p \in Proc, IInv, fork_parent(p)
  PROVE  IInv'
<1> /\ TypeOK /\ OnCpu /\ Contexts /\ Places /\ WaitLock /\ InitLives
    /\ Children /\ Parents /\ Exiting /\ Scanned /\ Woken
  BY Zenon DEF IInv
<1>a. /\ ctx[p] = "on" /\ pc[p] = "fork_parent" /\ wait_lock = 0
      /\ \A x \in Proc : parent'[x] = IF x = np[p] THEN p ELSE parent[x]
      /\ \A x \in Proc : pc'[x] = IF x = p THEN "fork_run" ELSE pc[x]
      /\ UNCHANGED <<state, chan, killed, pid, plock, wait_lock, cpu, ctx, it, jt,
           np>>
  BY ProcFacts, Zenon DEF fork_parent, At, Goto, TypeOK, slots, locals
<1>1. TypeOK'
  BY ZenonT(30), ProcFacts DEF fork_parent, At, Goto, slots, locals, TypeOK,
       Labels, States
<1>2. OnCpu' /\ Contexts' /\ Places' /\ WaitLock' /\ Children' /\ Exiting' /\ Scanned'
  BY <1>a DEF OnCpu, Contexts, Places, WaitLock, WaitLabels, Children, Exiting,
       Scanned
<1>3. InitLives'
  BY <1>a, ProcFacts, Zenon DEF InitLives
<1>4. Parents'
  BY <1>a DEF Parents, Contexts, Children
<1>5. Woken'
  BY <1>a DEF Woken, Contexts
<1> QED BY <1>1, <1>2, <1>3, <1>4, <1>5, Zenon DEF IInv

\* fork makes the child RUNNABLE.
LEMMA fork_run_Keeps ==
  ASSUME NEW p \in Proc, IInv, fork_run(p)
  PROVE  IInv'
<1> /\ TypeOK /\ OnCpu /\ Contexts /\ Places /\ WaitLock /\ InitLives
    /\ Children /\ Parents /\ Exiting /\ Scanned /\ Woken
  BY Zenon DEF IInv
<1>a. /\ ctx[p] = "on" /\ pc[p] = "fork_run" /\ ~plock[np[p]]
      /\ \A x \in Proc : state'[x] = IF x = np[p] THEN "RUNNABLE" ELSE state[x]
      /\ \A x \in Proc : pc'[x] = IF x = p THEN "fork_trace" ELSE pc[x]
      /\ UNCHANGED <<parent, chan, killed, pid, plock, wait_lock, cpu, ctx, it, jt,
           np>>
  BY ProcFacts, Zenon DEF fork_run, At, Goto, TypeOK, slots, locals
<1>1. TypeOK'
  BY ZenonT(30), ProcFacts DEF fork_run, At, Goto, slots, locals, TypeOK, Labels,
       States
<1>2. OnCpu' /\ WaitLock' /\ Children' /\ Parents' /\ Exiting' /\ Scanned'
  BY <1>a DEF OnCpu, WaitLock, WaitLabels, Children, Parents, Exiting, Scanned
<1>3. Contexts'
  BY <1>a DEF Contexts, Children
<1>4. Places'
  BY <1>a DEF Places, Children
<1>5. InitLives'
  BY <1>a, ProcFacts, Zenon DEF InitLives
<1>6. Woken'
  BY <1>a, Ranges, ProcFacts DEF Woken, Children
<1> QED BY <1>1, <1>2, <1>3, <1>4, <1>5, <1>6, Zenon DEF IInv

\* fork copies the mask and returns.
LEMMA fork_trace_Keeps ==
  ASSUME NEW p \in Proc, IInv, fork_trace(p)
  PROVE  IInv'
<1> /\ TypeOK /\ OnCpu /\ Contexts /\ Places /\ WaitLock /\ InitLives
    /\ Children /\ Parents /\ Exiting /\ Scanned /\ Woken
  BY Zenon DEF IInv
<1>a. /\ ctx[p] = "on" /\ pc[p] = "fork_trace"
      /\ \A x \in Proc : np'[x] = IF x = p THEN 0 ELSE np[x]
      /\ \A x \in Proc : pc'[x] = IF x = p THEN "ret" ELSE pc[x]
      /\ UNCHANGED <<state, parent, chan, killed, pid, plock, wait_lock, cpu, ctx,
           it, jt>>
  BY ProcFacts, Zenon DEF fork_trace, At, Goto, TypeOK, slots, locals
<1>1. TypeOK'
  BY ZenonT(30), ProcFacts DEF fork_trace, At, Goto, slots, locals, TypeOK, Labels,
       States
<1>2. /\ OnCpu' /\ Contexts' /\ Places' /\ WaitLock' /\ Children' /\ Parents'
      /\ Exiting' /\ Scanned' /\ Woken'
  BY <1>a DEF OnCpu, Contexts, Places, WaitLock, WaitLabels, Children, Parents,
       Exiting, Scanned, Woken
<1>3. InitLives'
  BY <1>a, ProcFacts, Zenon DEF InitLives
<1> QED BY <1>1, <1>2, <1>3, Zenon DEF IInv

\* exit takes wait_lock, which no other process then has.
LEMMA exit_lock_Keeps ==
  ASSUME NEW p \in Proc, IInv, exit_lock(p)
  PROVE  IInv'
<1> /\ TypeOK /\ OnCpu /\ Contexts /\ Places /\ WaitLock /\ InitLives
    /\ Children /\ Parents /\ Exiting /\ Scanned /\ Woken
  BY Zenon DEF IInv
<1>a. /\ ctx[p] = "on" /\ pc[p] = "exit"
      /\ wait_lock = 0 /\ wait_lock' = p
      /\ \A x \in Proc : pc'[x] = IF x = p THEN "reparent" ELSE pc[x]
      /\ \A x \in Proc : it'[x] = IF x = p THEN 1 ELSE it[x]
      /\ UNCHANGED <<state, parent, chan, killed, pid, plock, cpu, ctx, jt, np>>
  BY ProcFacts, Zenon DEF exit_lock, At, Goto, TypeOK, slots, locals
<1>1. TypeOK'
  BY ProcFacts, Zenon DEF exit_lock, At, Goto, slots, locals, TypeOK, Labels, States
<1>2. OnCpu' /\ Contexts' /\ Places' /\ Children' /\ Parents' /\ Scanned' /\ Woken'
  BY <1>a DEF OnCpu, Contexts, Places, Children, Parents, Scanned, Woken
<1>3. WaitLock'
  BY <1>a, ProcFacts, Zenon DEF WaitLock, WaitLabels
<1>4. InitLives'
  BY <1>a, ProcFacts, Zenon DEF InitLives
<1>5. Exiting'
  BY <1>a, Order DEF Exiting
<1> QED BY <1>1, <1>2, <1>3, <1>4, <1>5, Zenon DEF IInv

\* reparent gives one child to init, or passes a slot: it is then no child of
\* p.
LEMMA reparent_Keeps ==
  ASSUME NEW p \in Proc, IInv, reparent(p)
  PROVE  IInv'
<1> /\ TypeOK /\ OnCpu /\ Contexts /\ Places /\ WaitLock /\ InitLives
    /\ Children /\ Parents /\ Exiting /\ Scanned /\ Woken
  BY Zenon DEF IInv
<1>a. /\ ctx[p] = "on" /\ pc[p] = "reparent" /\ it[p] \in Proc
      /\ \A x \in Proc : x /= p => pc'[x] = pc[x] /\ it'[x] = it[x]
      /\ \A x \in Proc : parent'[x] = IF x = it[p] /\ parent[x] = p
                                       THEN initproc ELSE parent[x]
      /\ pc'[p] = "wake_init" <=> parent[it[p]] = p
      /\ pc'[p] \in {"reparent", "wake_init", "wake_parent"}
      /\ pc'[p] = "wake_init" => it'[p] = it[p]
      /\ pc'[p] = "reparent" => it'[p] = it[p] + 1
      /\ pc'[p] = "wake_parent" => it[p] = NPROC
      /\ UNCHANGED <<state, chan, killed, pid, plock, wait_lock, cpu, ctx, jt, np>>
  BY ProcFacts DEF reparent, At, Goto, NextSlot, TypeOK, slots, locals
<1>b. p /= initproc /\ \A x \in Proc : x /= p => pc[x] \notin WaitLabels
  BY <1>a DEF InitLives, WaitLock, WaitLabels
<1>1. TypeOK'
  <2>1. it' \in [Proc -> Proc]
    BY NextProc, ProcFacts DEF reparent, At, Goto, NextSlot, TypeOK
  <2>2. pc' \in [Proc -> Labels]
    BY DEF reparent, At, Goto, NextSlot, TypeOK, Labels
  <2> QED BY <2>1, <2>2, ProcFacts DEF reparent, At, TypeOK, slots, locals, States
<1>2. OnCpu' /\ Contexts' /\ Places' /\ WaitLock' /\ Children'
  BY <1>a DEF OnCpu, Contexts, Places, WaitLock, WaitLabels, Children
<1>3. InitLives'
  BY <1>a, ProcFacts, Zenon DEF InitLives
<1>4. Parents'
  BY <1>a DEF Parents, InitLives
<1>5. Exiting'
  <2>1. ASSUME NEW q \in Proc, pc'[p] = "reparent", q < it'[p] PROVE parent'[q] /= p
    <3>1. q < it[p] \/ q = it[p]
      BY <1>a, <2>1, Order
    <3> QED BY <1>a, <1>b, <2>1, <3>1, ZenonT(30) DEF Exiting
  <2>2. ASSUME NEW q \in Proc, pc'[p] = "wake_init", q <= it'[p] PROVE parent'[q] /= p
    <3>1. q < it[p] \/ q = it[p]
      BY <1>a, <2>2, Order, Zenon
    <3> QED BY <1>a, <1>b, <2>2, <3>1, Zenon DEF Exiting
  <2>3. ASSUME NEW q \in Proc, pc'[p] = "wake_parent" PROVE parent'[q] /= p
    <3>1. q < it[p] \/ q = it[p]
      BY <1>a, <2>3, Order
    <3> QED BY <1>a, <1>b, <2>3, <3>1 DEF Exiting
  <2> QED BY <1>a, <1>b, <2>1, <2>2, <2>3 DEF Exiting, WaitLabels
<1>6. Scanned'
  <2>1. \A x \in Proc : pc'[x] \in {"wait_scan", "wait_check", "sleep"} =>
          x /= p /\ pc'[x] = pc[x] /\ it'[x] = it[x] /\ pc[x] \in WaitLabels
    BY <1>a, Zenon DEF WaitLabels
  <2>2. \A x \in Proc : x /= p => pc[x] \notin WaitLabels
    BY <1>b, Zenon
  <2> QED BY <2>1, <2>2, Zenon DEF Scanned
<1>7. Woken'
  <2>1. \A r,
       q \in Proc : state[r] = "SLEEPING" /\ parent'[q] = r /\ state[q] = "ZOMBIE" =>
          r = initproc /\ \E e \in Proc : pc'[e] = "wake_init" /\ jt[e] = 1
    <3>1. \A e \in Proc : pc[e] /= "wake_init"
      BY <1>a, <1>b, Zenon DEF WaitLabels
    <3> QED BY <1>a, <3>1 DEF Woken
  <2>2. \A e, r \in Proc : parent'[e] = r /\ state[r] = "SLEEPING" =>
          /\ pc'[e] = "wake_parent" => jt[e] <= r
          /\ pc'[e] /= "zombie"
    BY <1>a, <1>b, Order DEF Woken, WaitLabels
  <2>3. \A e \in Proc : pc'[e] \notin {"wake_init", "wake_parent"} => jt[e] = 1
    BY <1>a, Zenon DEF Woken
  <2> QED BY <1>a, <2>1, <2>2, <2>3 DEF Woken
<1> QED BY <1>1, <1>2, <1>3, <1>4, <1>5, <1>6, <1>7, Zenon DEF IInv

\* wakeup passes a slot: if its process slept on the channel it does no more.
LEMMA wakeup_Keeps ==
  ASSUME NEW p \in Proc, IInv, wakeup(p)
  PROVE  IInv'
<1> /\ TypeOK /\ OnCpu /\ Contexts /\ Places /\ WaitLock /\ InitLives
    /\ Children /\ Parents /\ Exiting /\ Scanned /\ Woken
  BY Zenon DEF IInv
<1>a. /\ ctx[p] = "on" /\ pc[p] \in {"wake_init", "wake_parent"} /\ jt[p] \in Proc
      /\ jt[p] /= p => ~plock[jt[p]]
      /\ \A x \in Proc : \/ state'[x] = state[x]
                         \/ x = jt[p] /\ state[x] = "SLEEPING" /\ state'[x] = "RUNNABLE"
      /\ pc[p] = "wake_init" /\ jt[p] = initproc => state'[jt[p]] /= "SLEEPING"
      /\ pc[p] = "wake_parent" /\ jt[p] = parent[p] => state'[jt[p]] /= "SLEEPING"
      /\ \A x \in Proc : x /= p => pc'[x] = pc[x] /\ jt'[x] = jt[x]
      /\ pc'[p] = pc[p] => jt'[p] = jt[p] + 1
      /\ pc'[p] /= pc[p] =>
           /\ jt[p] = NPROC /\ jt'[p] = 1
           /\ pc'[p] = IF pc[p] = "wake_init" THEN "reparent" ELSE "zombie"
      /\ UNCHANGED <<parent, chan, killed, pid, plock, wait_lock, cpu, ctx, it, np>>
  <2>1. ctx[p] = "on" /\ pc[p] \in {"wake_init", "wake_parent"} /\ jt[p] \in Proc
    BY Zenon DEF wakeup, At, TypeOK
  <2>2. state[p] = "RUNNING" /\ \A x \in Proc : state[x] = "SLEEPING" => chan[x] = x
    BY ZenonT(30), <2>1 DEF Contexts, Places
  <2>3. /\ \A x \in Proc : \/ state'[x] = state[x]
                           \/ x = jt[p] /\ state[x] = "SLEEPING" /\ state'[x] = "RUNNABLE"
        /\ \A x \in Proc : x /= p => pc'[x] = pc[x] /\ jt'[x] = jt[x]
    BY <2>1, Zenon DEF wakeup, Goto, TypeOK
  <2>4. /\ pc[p] = "wake_init" /\ jt[p] = initproc => state'[jt[p]] /= "SLEEPING"
        /\ pc[p] = "wake_parent" /\ jt[p] = parent[p] => state'[jt[p]] /= "SLEEPING"
    BY <2>1, <2>2, Zenon DEF wakeup, TypeOK
  <2>5. CASE jt[p] < NPROC
    <3>1. pc'[p] = pc[p] /\ jt'[p] = jt[p] + 1
      BY <2>1, <2>5, Zenon DEF wakeup, Goto, TypeOK
    <3> QED BY <2>1, <2>3, <2>4, <3>1, Zenon DEF wakeup
  <2>6. CASE ~(jt[p] < NPROC)
    <3>1. /\ jt'[p] = 1
          /\ pc'[p] = IF pc[p] = "wake_init" THEN "reparent" ELSE "zombie"
      BY <2>1, <2>6, Zenon DEF wakeup, Goto, TypeOK
    <3>2. jt[p] = NPROC
      BY ZenonT(30), <2>1, <2>6, Order, ProcFacts
    <3> QED BY <2>1, <2>3, <2>4, <3>1, <3>2, Zenon DEF wakeup
  <2> QED BY <2>5, <2>6, Zenon
<1>b. p /= initproc /\ \A x \in Proc : x /= p => pc[x] \notin WaitLabels
  BY <1>a DEF InitLives, WaitLock, WaitLabels
<1>1. TypeOK'
  <2>1. (IF jt[p] < NPROC THEN jt[p] + 1 ELSE 1) \in Proc
    BY Ranges, ProcConstants DEF Proc
  <2>2. jt' \in [Proc -> Proc]
    BY <2>1, Zenon DEF wakeup, TypeOK
  <2>3. pc' \in [Proc -> Labels]
    BY Zenon DEF wakeup, At, Goto, TypeOK, Labels
  <2>4. state' \in [Proc -> States]
    BY Zenon DEF wakeup, TypeOK, States
  <2> QED BY <2>2, <2>3, <2>4, Zenon DEF wakeup, TypeOK
<1>2. OnCpu' /\ Contexts' /\ Places' /\ WaitLock' /\ Children' /\ Parents' /\ Scanned'
  BY <1>a DEF OnCpu, Contexts, Places, WaitLock, WaitLabels, Children, Parents,
       Scanned
<1>3. InitLives'
  BY <1>a, ProcFacts, Zenon DEF InitLives
<1>4. Exiting'
  <2>1. ASSUME NEW q \in Proc, pc'[p] = "reparent", q < it[p] PROVE parent[q] /= p
    BY <1>a, Ranges, <2>1, Order DEF Exiting
  <2>2. \A x \in Proc : x /= p => pc'[x] \notin WaitLabels
    BY <1>a, <1>b, Zenon
  <2>3. ASSUME NEW q \in Proc PROVE /\ pc'[p] = "wake_init" /\ q <= it[p] => parent[q] /= p
                                    /\ pc'[p] \in {"wake_parent", "zombie"} => parent[q] /= p
    BY <1>a, ZenonT(30) DEF Exiting
  <2> QED BY <1>a, <2>1, <2>2, <2>3, ZenonT(30) DEF Exiting, WaitLabels
<1>5. Woken'
  <2>1. ASSUME NEW r \in Proc, NEW q \in Proc,
               state'[r] = "SLEEPING", parent[q] = r, state'[q] = "ZOMBIE"
        PROVE  r = initproc /\ \E e \in Proc : pc'[e] = "wake_init" /\ jt'[e] = 1
    <3>1. state[r] = "SLEEPING" /\ state[q] = "ZOMBIE"
      BY <1>a, <2>1, Zenon
    <3>2. r = initproc /\ pc[p] = "wake_init" /\ jt[p] = 1
      BY <1>b, <2>1, <3>1, Zenon DEF Woken, WaitLabels
    <3> QED BY <1>a, <2>1, <3>2, Order
  <2>2. ASSUME NEW e \in Proc, NEW r \in Proc, parent[e] = r, state'[r] = "SLEEPING"
        PROVE  /\ pc'[e] = "wake_parent" => jt'[e] <= r
               /\ pc'[e] /= "zombie"
    <3>1. state[r] = "SLEEPING"
      BY <1>a, <2>2, Zenon
    <3>2. CASE e /= p
      BY <1>a, <2>2, <3>1, <3>2 DEF Woken
    <3>3. CASE e = p /\ pc[p] = "wake_parent"
      <4>1. jt[p] \in Proc /\ jt[p] <= r /\ jt[p] /= r
        BY <1>a, <2>2, <3>1, <3>3, Zenon DEF Woken
      <4>2. jt[p] < NPROC /\ jt[p] + 1 <= r
        BY <4>1, ProcConstants DEF Proc
      <4> QED BY <1>a, <3>3, <4>2, ProcFacts, Order
    <3>4. CASE e = p /\ pc[p] = "wake_init"
      BY <1>a, <3>4, Zenon
    <3> QED BY <1>a, <3>2, <3>3, <3>4, Zenon
  <2>3. \A e \in Proc : pc'[e] \notin {"wake_init", "wake_parent"} => jt'[e] = 1
    BY <1>a DEF Woken
  <2> QED BY <1>a, <2>1, <2>2, <2>3 DEF Woken
<1> QED BY <1>1, <1>2, <1>3, <1>4, <1>5, Zenon DEF IInv

\* exit ends: the process has no child left, and its parent does not sleep.
LEMMA exit_zombie_Keeps ==
  ASSUME NEW p \in Proc, IInv, exit_zombie(p)
  PROVE  IInv'
<1> /\ TypeOK /\ OnCpu /\ Contexts /\ Places /\ WaitLock /\ InitLives
    /\ Children /\ Parents /\ Exiting /\ Scanned /\ Woken
  BY Zenon DEF IInv
<1>a. /\ ctx[p] = "on" /\ pc[p] = "zombie" /\ ~plock[p]
      /\ plock'[p] /\ \A x \in Proc : x /= p => (plock'[x] <=> plock[x])
      /\ \A x \in Proc : state'[x] = IF x = p THEN "ZOMBIE" ELSE state[x]
      /\ \A x \in Proc : ctx'[x] = IF x = p THEN "sched" ELSE ctx[x]
      /\ wait_lock' = 0
      /\ \A x \in Proc : pc'[x] = IF x = p THEN "dead" ELSE pc[x]
      /\ UNCHANGED <<parent, chan, killed, pid, cpu, it, jt, np>>
  BY ProcFacts, ZenonT(30) DEF exit_zombie, At, Goto, EnterSched, TypeOK, slots, locals
<1>1. TypeOK'
  BY ProcFacts, Zenon DEF exit_zombie, At, Goto, EnterSched, slots, locals, TypeOK,
       Labels, States
<1>2. OnCpu' /\ Contexts' /\ Places' /\ Exiting' /\ Woken'
  BY <1>a DEF OnCpu, Contexts, Places, Exiting, Woken
<1>3. WaitLock'
  BY <1>a, ProcFacts DEF WaitLock, WaitLabels
<1>4. InitLives'
  BY <1>a, ProcFacts, Zenon DEF InitLives
<1>5. Children'
  BY <1>a DEF Children, Contexts
<1>6. Parents'
  BY <1>a DEF Parents, Exiting
<1>7. Scanned'
  BY <1>a DEF Scanned, WaitLock, WaitLabels
<1> QED BY <1>1, <1>2, <1>3, <1>4, <1>5, <1>6, <1>7, Zenon DEF IInv
============================================================================
