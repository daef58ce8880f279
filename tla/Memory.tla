------------------------------- MODULE Memory -------------------------------
(* Physical pages and user address spaces: kernel/kalloc.c, the user half of
   kernel/vm.c, kernel/exec.c, sys_exec, and the parts of kernel/proc.c that
   allocate, copy, grow and free a process's memory.

   The free list only matters through its length: kalloc pops a page, kfree
   pushes one, both under kmem.lock, so each is one step here and everything
   between two of them belongs to the step of the first.  A page table is the
   set of its page-table pages and the sets of page numbers it maps and maps
   with PTE_U.  Virtual addresses are byte counts of a small Sv39: three levels
   of NPTE entries, pages of PGSIZE bytes, and additions modulo ADDRS. *)
EXTENDS Integers, Sequences, FiniteSets, FiniteSetsExt, TLC

CONSTANTS
  Proc,       \* slots of the process table
  initproc,   \* the slot of init, which never exits
  NPAGES,     \* pages on the free list at boot
  PGSIZE, NPTE, ADDRS,
  Delta,      \* arguments of sbrk
  Phdr,       \* program headers an executable may contain
  MaxPhnum,   \* bound on the headers of one executable
  MAXARG      \* entries of sys_exec's argv array

VARIABLES
  nfree,      \* length of kmem.freelist
  proc,       \* state, trapframe, size and parent of each slot
  pt,         \* page tables: p->pagetable and the local variable of exec
  k,          \* the system call each process is in
  panicked

vars == <<nfree, proc, pt, k, panicked>>

-----------------------------------------------------------------------------
(* Addresses and page tables (kernel/riscv.h, kernel/memlayout.h). *)

PGROUNDUP(a) == ((a + PGSIZE - 1) \div PGSIZE) * PGSIZE
Page(a) == a \div PGSIZE
MAXPAGE == NPTE * NPTE * NPTE
TRAMPOLINE == MAXPAGE - 1
TRAPFRAME == MAXPAGE - 2

\* Physical memory is smaller than the user part of the address space.
ASSUME MemoryAssumption ==
  /\ PGSIZE \in Nat \ {0} /\ NPTE \in Nat \ {0, 1}
  /\ NPAGES \in Nat /\ NPAGES < TRAPFRAME
  /\ ADDRS >= MAXPAGE * PGSIZE
  /\ initproc \in Proc

\* The page-table pages walk() goes through below the root for page v.
Root == <<>>
L1(v) == <<v \div (NPTE * NPTE)>>
L0(v) == <<v \div (NPTE * NPTE), (v \div NPTE) % NPTE>>

NoTable == [tabs |-> {}, leaf |-> {}, user |-> {}]
Holder == Proc \X {"pagetable", "local"}
Own(p) == <<p, "pagetable">>
Local(p) == <<p, "local">>

\* The locals of the vm.c routines, and all a process has in hand in the kernel;
\* pc is "user" when it runs user code or its slot is unused.
Frame == [h |-> Local(initproc), a |-> 0, lo |-> 0, end |-> 0, loop |-> "",
          next |-> "", then |-> "", els |-> ""]
Idle == Frame @@ [pc |-> "user", mem |-> FALSE, ret |-> 0, np |-> initproc,
                  sz |-> 0, ph |-> 0, filesz |-> 0, vaddr |-> 0, argc |-> 0,
                  ip |-> FALSE]

\* Set some fields of p's system call; leave a vm.c routine; leave the call.
Set(p, r) == k' = [k EXCEPT ![p] = r @@ @]
Back(p, pc) == Set(p, [pc |-> pc] @@ Frame)
Return(p) == k' = [k EXCEPT ![p] = Idle]

-----------------------------------------------------------------------------
(* kalloc and kfree. *)

kalloc == nfree > 0 /\ nfree' = nfree - 1
NoMemory == nfree = 0 /\ UNCHANGED nfree
kfree == nfree' = nfree + 1

-----------------------------------------------------------------------------
(* vm.c.  A caller enters a routine by setting pc and the places where it goes
   on: then (success), els (error), next (after uvmunmap). *)

\* Mutant: a failed uvmalloc leaves what it mapped before the failure.
uvmalloc_call_Bug(h, old, new, then, els) ==
  IF new < old
    THEN [pc |-> then, ret |-> old]
    ELSE [pc |-> "uvmalloc", h |-> h, lo |-> new, a |-> PGROUNDUP(old),
          end |-> new, then |-> then, els |-> els]

uvmalloc_call(h, old, new, then, els) ==
  IF new < old
    THEN [pc |-> then, ret |-> old]
    ELSE [pc |-> "uvmalloc", h |-> h, lo |-> PGROUNDUP(old),
          a |-> PGROUNDUP(old), end |-> new, then |-> then, els |-> els]

uvmunmap_call(h, from, to, next) ==
  [pc |-> "uvmunmap", h |-> h, a |-> from, end |-> to, next |-> next]

freept_call(h, sz, then) ==
  [pc |-> "proc_freepagetable", h |-> h, end |-> sz, then |-> then]

\* One turn of uvmalloc's loop up to mappages; the size 0 it may return for an
\* empty segment is its caller's sign of failure.
uvmalloc(p) ==
  /\ k[p].pc = "uvmalloc"
  /\ UNCHANGED <<proc, pt, panicked>>
  /\ \/ /\ k[p].a >= k[p].end
        /\ Set(p, [pc |-> IF k[p].end = 0 THEN k[p].els ELSE k[p].then,
                   ret |-> k[p].end] @@ Frame)
        /\ UNCHANGED nfree
     \/ /\ k[p].a < k[p].end
        /\ \/ kalloc /\ Set(p, [pc |-> "mappages", mem |-> TRUE,
                                loop |-> "uvmalloc"])
           \/ NoMemory /\ Set(p, [pc |-> "undo"])

\* One turn of uvmcopy's loop up to mappages, from the table of p to the one of
\* its child np; at the end fork publishes the child.
ForkChild(p) ==
  [proc EXCEPT ![k[p].np] = [@ EXCEPT !.state = "RUNNABLE", !.parent = p,
                                      !.sz = proc[p].sz]]

uvmcopy(p) ==
  /\ k[p].pc = "uvmcopy"
  /\ \/ /\ k[p].a >= proc[p].sz
        /\ proc' = ForkChild(p)
        /\ Return(p)
        /\ UNCHANGED <<nfree, pt, panicked>>
     \/ /\ k[p].a < proc[p].sz
        /\ panicked' = (Page(k[p].a) \notin pt[Own(p)].leaf)
        /\ \/ kalloc /\ Set(p, [pc |-> "mappages", mem |-> TRUE,
                                loop |-> "uvmcopy"])
           \/ NoMemory /\ Set(p, [pc |-> "undo"])
        /\ UNCHANGED <<proc, pt>>

\* mappages for the page at a: walk() allocates a missing page-table page per
\* step, outermost first, then the entry is written.
Missing(h, v) == {t \in {L1(v), L0(v)} : t \notin pt[h].tabs}
Outer(h, v) == IF L1(v) \in Missing(h, v) THEN L1(v) ELSE L0(v)
\* Mutant: uvmcopy does not copy the entry's flags.
PteUser_Bug(p) == k[p].mem

PteUser(p) == IF k[p].loop = "uvmcopy" THEN Page(k[p].a) \in pt[Own(p)].user
                                       ELSE k[p].mem
AfterMap(p) ==
  CASE Page(k[p].a) = TRAMPOLINE -> [a |-> TRAPFRAME * PGSIZE]
    [] Page(k[p].a) = TRAPFRAME  -> [pc |-> k[p].then, a |-> 0, then |-> ""]
    [] OTHER -> [pc |-> k[p].loop, a |-> k[p].a + PGSIZE, mem |-> FALSE]

mappages(p) ==
  LET h == k[p].h
      v == Page(k[p].a)
  IN  /\ k[p].pc = "mappages"
      /\ \/ /\ Missing(h, v) # {}
            /\ \/ /\ kalloc
                  /\ pt' = [pt EXCEPT ![h].tabs = @ \union {Outer(h, v)}]
                  /\ UNCHANGED k
               \/ NoMemory /\ Set(p, [pc |-> "undo"]) /\ UNCHANGED pt
            /\ UNCHANGED <<proc, panicked>>
         \/ /\ Missing(h, v) = {}
            /\ panicked' = (v \in pt[h].leaf)
            /\ pt' = [pt EXCEPT ![h] =
                 [@ EXCEPT !.leaf = @ \union {v},
                           !.user = IF PteUser(p) THEN @ \union {v} ELSE @]]
            /\ Set(p, AfterMap(p))
            /\ UNCHANGED <<nfree, proc>>

\* The error paths of uvmalloc, uvmcopy and proc_pagetable: the page in hand is
\* freed, then what the loop has mapped so far; a new table loses its
\* trampoline entry and its page-table pages.
undo(p) ==
  /\ k[p].pc = "undo"
  /\ \/ k[p].mem /\ kfree /\ Set(p, [mem |-> FALSE]) /\ UNCHANGED pt
     \/ /\ ~k[p].mem
        /\ Page(k[p].a) < TRAPFRAME
        /\ Set(p, uvmunmap_call(k[p].h, k[p].lo, k[p].a, k[p].els))
        /\ UNCHANGED <<nfree, pt>>
     \/ /\ ~k[p].mem
        /\ Page(k[p].a) >= TRAPFRAME
        /\ pt' = [pt EXCEPT ![k[p].h].leaf = @ \ {TRAMPOLINE}]
        /\ Set(p, [pc |-> "freewalk", then |-> k[p].els, els |-> "", a |-> 0])
        /\ UNCHANGED nfree
  /\ UNCHANGED <<proc, panicked>>

\* One page of uvmunmap with do_free.
uvmunmap(p) ==
  LET h == k[p].h
      v == Page(k[p].a)
  IN  /\ k[p].pc = "uvmunmap"
      /\ \/ /\ k[p].a >= k[p].end
            /\ IF k[p].next = "freewalk"
               THEN Set(p, [pc |-> "freewalk", a |-> 0, end |-> 0, next |-> ""])
               ELSE Back(p, k[p].next)
            /\ UNCHANGED <<nfree, proc, pt, panicked>>
         \/ /\ k[p].a < k[p].end
            /\ panicked' = (v \notin pt[h].leaf)
            /\ kfree
            /\ pt' = [pt EXCEPT ![h] = [@ EXCEPT !.leaf = @ \ {v},
                                                 !.user = @ \ {v}]]
            /\ Set(p, [a |-> k[p].a + PGSIZE])
            /\ UNCHANGED proc

\* One page-table page of freewalk, children before their parent.
Innermost(tabs) ==
  CHOOSE t \in tabs : \A u \in tabs : Len(u) <= Len(t)

freewalk(p) ==
  LET tabs == pt[k[p].h].tabs IN
  /\ k[p].pc = "freewalk"
  /\ panicked' = (pt[k[p].h].leaf # {})
  /\ kfree
  /\ pt' = [pt EXCEPT ![k[p].h].tabs = @ \ {Innermost(tabs)}]
  /\ IF Cardinality(tabs) = 1 THEN Back(p, k[p].then) ELSE UNCHANGED k
  /\ UNCHANGED proc

-----------------------------------------------------------------------------
(* proc.c: page tables of processes, slots, growproc, fork, exit and wait. *)

\* proc_pagetable: uvmcreate, then the trampoline and the trapframe are mapped.
proc_pagetable_call(h, then, els) ==
  [pc |-> "uvmcreate", h |-> h, then |-> then, els |-> els]

uvmcreate(p) ==
  /\ k[p].pc = "uvmcreate"
  /\ \/ /\ kalloc
        /\ pt' = [pt EXCEPT ![k[p].h].tabs = {Root}]
        /\ Set(p, [pc |-> "mappages", a |-> TRAMPOLINE * PGSIZE, loop |-> ""])
     \/ NoMemory /\ Back(p, k[p].els) /\ UNCHANGED pt
  /\ UNCHANGED <<proc, panicked>>

proc_freepagetable(p) ==
  LET h == k[p].h IN
  /\ k[p].pc = "proc_freepagetable"
  /\ panicked' = ~({TRAMPOLINE, TRAPFRAME} \subseteq pt[h].leaf)
  /\ pt' = [pt EXCEPT ![h].leaf = @ \ {TRAMPOLINE, TRAPFRAME}]
  /\ Set(p, uvmunmap_call(h, 0, PGROUNDUP(k[p].end), "freewalk"))
  /\ UNCHANGED <<nfree, proc>>

Unused == [state |-> "UNUSED", tf |-> FALSE, sz |-> 0, parent |-> initproc]

\* freeproc of slot np, for wait and for the error paths of allocproc and fork.
freeproc(p) ==
  LET q == k[p].np IN
  /\ k[p].pc = "freeproc"
  /\ \/ /\ proc[q].tf
        /\ kfree
        /\ proc' = [proc EXCEPT ![q].tf = FALSE]
        /\ UNCHANGED k
     \/ /\ ~proc[q].tf
        /\ pt[Own(q)].tabs # {}
        /\ Set(p, freept_call(Own(q), proc[q].sz, "freeproc"))
        /\ UNCHANGED <<nfree, proc>>
     \/ /\ ~proc[q].tf
        /\ pt[Own(q)].tabs = {}
        /\ proc' = [proc EXCEPT ![q] = Unused]
        /\ Return(p)
        /\ UNCHANGED nfree
  /\ UNCHANGED <<pt, panicked>>

InUser(p) == proc[p].state = "RUNNABLE" /\ k[p].pc = "user"

\* sys_sbrk and growproc up to the first page; newsz wraps below zero.
growproc(p, n) ==
  LET sz == proc[p].sz
      newsz == (sz + n) % ADDRS
  IN  /\ InUser(p)
      /\ \/ n > 0 /\ Set(p, uvmalloc_call(Own(p), sz, newsz, "growproc", "user"))
         \/ /\ n < 0 /\ newsz < sz
            /\ Set(p, uvmunmap_call(Own(p), PGROUNDUP(newsz), PGROUNDUP(sz),
                                    "growproc") @@ [ret |-> newsz])
      /\ UNCHANGED <<nfree, proc, pt, panicked>>

growproc_end(p) ==
  /\ k[p].pc = "growproc"
  /\ proc' = [proc EXCEPT ![p].sz = k[p].ret]
  /\ Return(p)
  /\ UNCHANGED <<nfree, pt, panicked>>

\* fork: allocproc takes an UNUSED slot (its lock is held to the end) and a
\* trapframe page; the page table and uvmcopy follow.
fork(p, q) ==
  /\ InUser(p)
  /\ proc[q].state = "UNUSED"
  /\ \/ /\ kalloc
        /\ proc' = [proc EXCEPT ![q].state = "USED", ![q].tf = TRUE]
        /\ Set(p, proc_pagetable_call(Own(q), "uvmcopy", "freeproc")
                  @@ [np |-> q, lo |-> 0, a |-> 0])
     \/ /\ NoMemory
        /\ proc' = [proc EXCEPT ![q].state = "USED"]
        /\ Set(p, [pc |-> "freeproc", np |-> q])
  /\ UNCHANGED <<pt, panicked>>

\* exit keeps the memory and leaves the children to init.
exit(p) ==
  /\ InUser(p)
  /\ p # initproc
  /\ proc' = [q \in Proc |->
       IF q = p THEN [proc[q] EXCEPT !.state = "ZOMBIE"]
       ELSE IF proc[q].parent = p THEN [proc[q] EXCEPT !.parent = initproc]
       ELSE proc[q]]
  /\ UNCHANGED <<nfree, pt, k, panicked>>

\* wait finds a zombie child and frees it.
wait(p, q) ==
  /\ InUser(p)
  /\ proc[q].state = "ZOMBIE" /\ proc[q].parent = p
  /\ Set(p, [pc |-> "freeproc", np |-> q])
  /\ UNCHANGED <<nfree, proc, pt, panicked>>

-----------------------------------------------------------------------------
(* sys_exec and exec. *)

\* sys_exec copies the argument strings in, a page each.
sys_exec(p) ==
  /\ InUser(p)
  /\ Set(p, [pc |-> "argv"])
  /\ UNCHANGED <<nfree, proc, pt, panicked>>

\* Mutant: sys_exec's error path forgets the argument pages.
ArgBad_Bug(p) == [pc |-> "freeargs", argc |-> 0]

ArgBad(p) == [pc |-> "freeargs"]

argv(p) ==
  /\ k[p].pc = "argv"
  /\ \/ /\ k[p].argc < MAXARG
        /\ \/ /\ kalloc
              /\ \/ Set(p, [argc |-> k[p].argc + 1])                \* next
                 \/ Set(p, ArgBad(p) @@ [argc |-> k[p].argc + 1])   \* fetchstr
           \/ NoMemory /\ Set(p, ArgBad(p))
     \/ Set(p, ArgBad(p)) /\ UNCHANGED nfree     \* too many, or fetchaddr
     \/ /\ k[p].argc < MAXARG                    \* the null pointer: exec
        /\ \/ Set(p, ArgBad(p))                                     \* namei
           \/ Set(p, [pc |-> "elf", ip |-> TRUE, sz |-> 0, ph |-> 0])
        /\ UNCHANGED nfree
  /\ UNCHANGED <<proc, pt, panicked>>

\* The ELF header is read and checked and a new page table made.
elf(p) ==
  /\ k[p].pc = "elf"
  /\ \/ Set(p, [pc |-> "bad"])
     \/ Set(p, proc_pagetable_call(Local(p), "phdr", "bad"))
  /\ UNCHANGED <<nfree, proc, pt, panicked>>

PhdrBad(h) ==
  \/ h.memsz < h.filesz
  \/ (h.vaddr + h.memsz) % ADDRS < h.vaddr
  \/ h.vaddr % PGSIZE # 0

\* One program header of the loop, or the end of it.
phdr(p) ==
  LET sz == k[p].sz IN
  /\ k[p].pc = "phdr"
  /\ \/ /\ k[p].ph < MaxPhnum
        /\ \E h \in Phdr :
             \/ ~h.load /\ Set(p, [ph |-> k[p].ph + 1])
             \/ h.load /\ PhdrBad(h) /\ Set(p, [pc |-> "bad"])
             \/ /\ h.load /\ ~PhdrBad(h)
                /\ Set(p, uvmalloc_call(Local(p), sz, h.vaddr + h.memsz,
                                        "loadseg", "bad")
                          @@ [ph |-> k[p].ph + 1, vaddr |-> h.vaddr,
                              filesz |-> h.filesz])
     \/ k[p].ph < MaxPhnum /\ Set(p, [pc |-> "bad"])               \* readi
     \/ Set(p, uvmalloc_call(Local(p), PGROUNDUP(sz),
                             PGROUNDUP(sz) + 2 * PGSIZE, "stack", "bad")
               @@ [ip |-> FALSE, sz |-> PGROUNDUP(sz)])
  /\ UNCHANGED <<nfree, proc, pt, panicked>>

\* loadseg; the new size counts before the segment is read.
SegPages(p) == {Page(a) : a \in k[p].vaddr .. (k[p].vaddr + k[p].filesz - 1)}
Loaded(p) == [sz |-> k[p].ret, ret |-> 0, vaddr |-> 0, filesz |-> 0]

loadseg(p) ==
  /\ k[p].pc = "loadseg"
  /\ panicked' = ~(SegPages(p) \subseteq pt[Local(p)].user)
  /\ \E next \in {"phdr", "bad"} : Set(p, Loaded(p) @@ [pc |-> next])
  /\ UNCHANGED <<nfree, proc, pt>>

\* copyout and copyin go page by page: how many of the len bytes at va are moved
\* before a page that is not the user's stops them (the result is then -1).
Copied(t, va, len) ==
  LET moved[l \in 0..len] ==
        IF l = 0 \/ Page(va + len - l) \notin t.user THEN 0
        ELSE LET n == Min({l, PGSIZE - ((va + len - l) % PGSIZE)})
             IN  n + moved[l - n]
  IN  moved[len]

\* The guard page loses PTE_U and n bytes of arguments are pushed on the page
\* above it; when they fit, the new image is committed and the old one freed.
\* Mutant: the guard page stays accessible.
uvmclear_Bug(t, v) == t

uvmclear(t, v) == [t EXCEPT !.user = @ \ {v}]

Commit(p, t, sz) ==
  /\ pt' = [pt EXCEPT ![Own(p)] = t, ![Local(p)] = pt[Own(p)]]
  /\ proc' = [proc EXCEPT ![p].sz = sz]
  /\ Set(p, freept_call(Local(p), proc[p].sz, "freeargs") @@ [sz |-> 0, ph |-> 0, ret |-> 0])

stack(p) ==
  LET sz == k[p].ret
      guard == Page(sz - 2 * PGSIZE)
      t == uvmclear(pt[Local(p)], guard)
  IN  /\ k[p].pc = "stack"
      /\ UNCHANGED <<nfree, panicked>>
      /\ \E n \in 1 .. PGSIZE + 1 :
           IF sz - n < sz - PGSIZE \/ Copied(t, sz - n, n) < n
           THEN /\ pt' = [pt EXCEPT ![Local(p)] = t]
                /\ Set(p, [pc |-> "bad", sz |-> sz, ret |-> 0])
                /\ UNCHANGED proc
           ELSE Commit(p, t, sz)

bad(p) ==
  /\ k[p].pc = "bad"
  /\ IF pt[Local(p)].tabs # {}
     THEN Set(p, freept_call(Local(p), k[p].sz, "bad"))
     ELSE Set(p, ArgBad(p) @@ [ip |-> FALSE, sz |-> 0, ph |-> 0])
  /\ UNCHANGED <<nfree, proc, pt, panicked>>

\* sys_exec frees the argument pages whatever exec returned.
freeargs(p) ==
  /\ k[p].pc = "freeargs"
  /\ \/ k[p].argc > 0 /\ kfree /\ Set(p, [argc |-> k[p].argc - 1])
     \/ k[p].argc = 0 /\ Return(p) /\ UNCHANGED nfree
  /\ UNCHANGED <<proc, pt, panicked>>

-----------------------------------------------------------------------------

\* userinit: init has its tables and one page.
FirstTabs == {Root, L1(0), L0(0), L1(TRAMPOLINE), L0(TRAMPOLINE),
              L1(TRAPFRAME), L0(TRAPFRAME)}
userinit ==
  /\ proc = [p \in Proc |-> IF p = initproc
                            THEN [Unused EXCEPT !.state = "RUNNABLE",
                                                !.tf = TRUE, !.sz = PGSIZE]
                            ELSE Unused]
  /\ pt = [h \in Holder |-> IF h = Own(initproc)
                            THEN [tabs |-> FirstTabs,
                                  leaf |-> {0, TRAPFRAME, TRAMPOLINE},
                                  user |-> {0}]
                            ELSE NoTable]

Init ==
  /\ userinit
  /\ nfree = NPAGES - 2 - Cardinality(FirstTabs)
  /\ k = [p \in Proc |-> Idle]
  /\ panicked = FALSE

Syscall(p) ==
  \/ \E n \in Delta : growproc(p, n)
  \/ \E q \in Proc : fork(p, q) \/ wait(p, q)
  \/ exit(p)
  \/ sys_exec(p)

Step(p) ==
  \/ uvmalloc(p) \/ uvmcopy(p) \/ mappages(p) \/ undo(p) \/ uvmunmap(p)
  \/ freewalk(p) \/ uvmcreate(p) \/ proc_freepagetable(p) \/ freeproc(p)
  \/ growproc_end(p) \/ argv(p) \/ elf(p) \/ phdr(p) \/ loadseg(p)
  \/ stack(p) \/ bad(p) \/ freeargs(p)

Next == \E p \in Proc : ~panicked /\ (Syscall(p) \/ Step(p))

Spec == Init /\ [][Next]_vars

-----------------------------------------------------------------------------
(* Properties. *)

TypeOK ==
  /\ nfree \in 0..NPAGES
  /\ \A p \in Proc :
       /\ proc[p].state \in {"UNUSED", "USED", "RUNNABLE", "ZOMBIE"}
       /\ proc[p].sz \in 0..ADDRS /\ proc[p].parent \in Proc
       /\ k[p].argc \in 0..MAXARG /\ k[p].h \in Holder
  /\ \A h \in Holder : pt[h].user \subseteq pt[h].leaf

\* No panic of vm.c, exec.c or proc.c is reached: nothing is mapped twice, freed
\* twice or freed while mapped, whatever allocation fails half-way through fork,
\* exec or sbrk.
NoPanic == TypeOK /\ ~panicked

Pages(h) == Cardinality(pt[h].tabs)
            + Cardinality(pt[h].leaf \ {TRAMPOLINE, TRAPFRAME})
InHand(p) == (IF proc[p].tf THEN 1 ELSE 0) + (IF k[p].mem THEN 1 ELSE 0)
             + k[p].argc

\* Nothing panics, and every physical page is on the free list or in exactly one
\* place of one process, at every moment: no error path of fork, exec or sbrk
\* loses a page or gives one back that is still in use.
PagesExact ==
  /\ NoPanic
  /\ NPAGES = nfree + MapThenSumSet(Pages, Holder) + MapThenSumSet(InHand, Proc)

\* A process that runs, or is a zombie waiting to be freed, has exactly the
\* pages below p->sz mapped, and exec holds no inode, page or half-built table
\* when it returns, also when it failed.
MappedExactly ==
  \A p \in Proc :
    proc[p].state \in {"RUNNABLE", "ZOMBIE"} /\ k[p].pc = "user"
    /\ (\A q \in Proc : k[q].np = p => k[q].pc = "user") =>
      /\ pt[Own(p)].leaf = (0 .. Page(PGROUNDUP(proc[p].sz)) - 1)
                           \union {TRAPFRAME, TRAMPOLINE}
      /\ pt[Local(p)] = NoTable
      /\ ~k[p].ip

\* fork publishes a child whose address space is the parent's: the same pages,
\* and the stack guard still out of the user's reach.
ForkCopies ==
  [][\A p, q \in Proc :
       proc[q].state = "USED" /\ proc'[q].state = "RUNNABLE"
       /\ proc'[q].parent = p =>
         /\ pt'[Own(q)].leaf = pt'[Own(p)].leaf
         /\ pt'[Own(q)].user = pt'[Own(p)].user
         /\ proc'[q].sz = proc'[p].sz]_vars

\* The image exec commits has a stack page the user can use, with a page it
\* cannot use right below, and everything under that loaded for the user.
ExecImage ==
  [][\A p \in Proc :
       k[p].pc = "stack" /\ k'[p].pc # "bad" /\ k'[p] # k[p] =>
         LET top == Page(proc'[p].sz)
         IN  pt'[Own(p)].user = (0 .. top - 1) \ {top - 2}]_vars
=============================================================================
