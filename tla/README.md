# A TLA+ verification of the xv6 kernel

This directory models this repository (an xv6 for RISC-V with the
`trace` and `sysinfo` system calls added), its kernel, init and shell, in TLA+.  TLC checks the modules on
small instances; the theorems in the `*Proofs` modules are proved with TLAPS for
every value of the constants.  `PROJECT.json` maps each definition to the source
lines it models and lists the runs, the mutants that show each property can
fail, the hazards and the theorems.

Run a check with `tlc -config MCLog.cfg MCLog`, a proof with
`tlapm LogProofs.tla`.

## The system and its parts

Everything below runs on several CPUs at once; spin-locks protect the tables,
and a process that has to wait sleeps on a channel until another one calls
`wakeup`.

| part | state | operations that change it | what makes it hard | properties |
|---|---|---|---|---|
| spin-locks (`spinlock.c`, `trap.c`) | lock word and owner; `noff`, `intena` per CPU | `acquire`, `release`, `push_off`, `pop_off`, `sched`, interrupts | an interrupt at each instruction; a thread that changes CPU with a lock held | `LocksSafe`, `InterruptsRight` |
| processes (`proc.c`) | table of slots, `p->lock`, `wait_lock`, CPUs | `fork`, `exit`, `wait`, `kill`, `sleep`, `wakeup`, `scheduler`, `yield`, `trace` | lost wakeups; slot reuse; a stack run by two CPUs; orphans | `StacksSafe`, `NoMissedZombie`, `FamilyTree`, `LegalTransitions` |
| pipes (`pipe.c`) | ring, two counters, two open flags | `pipewrite`, `piperead`, `pipeclose`, `kill` | full and empty, counters that wrap, closing and killing while the other end sleeps | `CallsSafe`, `EofAtEnd`, `CallsReturn`, `ImplementsChannel` |
| buffer cache, sleep-locks (`bio.c`, `sleeplock.c`) | list of buffers with block number, `refcnt`, `valid`, lock | `bread`, `bwrite`, `brelse`, `bpin`, `bunpin` | two buffers for a block; recycling a buffer somebody uses | `BuffersExact`, `ReadsLatest`, `NoLostWakeup` |
| log (`log.c`) | header in memory and on disk, log blocks, `outstanding`, `committing` | `begin_op`, `log_write`, `end_op`, `commit`, recovery | a crash anywhere, in recovery too; group commit; space | `ReadsLatest`, `QuiescentIsDurable`, `NoPanic`, `NoLostWakeup`, `ImplementsStore` |
| inodes, directories, paths (`fs.c`, `sysfile.c`) | inode table, inodes and entries on disk | `iget`, `ilock`, `iput`, `create`, `open`, `link`, `unlink`, `mkdir`, `chdir` | an inode freed while a path leads to it; lock order | `TableExact`, `CacheCoherent`, `NoDangling` |
| open files (`file.c`, `sysfile.c`) | file table, descriptor tables | `open`, `dup`, `close`, `pipe`, `fork`, `exit` | a table that is full half-way through a call | `FilesExact`, `ObjectsExact` |
| file contents (`fs.c`, `file.c`) | block bitmap, block lists and sizes of inodes, offsets | `read`, `write`, `open` with `O_TRUNC` | a disk that fills up half-way; shared offsets; the size of a transaction | `BlocksExact`, `ContentExact`, `OffsetExact`, `TransactionFits` |
| disk driver (`virtio_disk.c`) | descriptors, two rings, requests in flight | `virtio_disk_rw`, `virtio_disk_intr`, the device | completions in any order and during the handler; indices that wrap | `RequestsExact`, `NoLostWakeup` |
| console, UART (`console.c`, `uart.c`) | input buffer with `r`, `w`, `e`; output ring; the transmitter | `consoleintr`, `consoleread`, `consolewrite`, `uartstart`, `uartintr` | full buffers, erasing, indices that wrap, the echo beside the output | `OutputInOrder`, `ImplementsLineDiscipline`, `CallsProgress` |
| memory (`kalloc.c`, `vm.c`, `exec.c`) | free pages, page tables | `sbrk`, `fork`, `exec`, `exit`, `wait` | running out of pages half-way | `PagesExact`, `MappedExactly`, `ForkCopies`, `ExecImage` |
| init and shell (`init.c`, `sh.c`) | processes, their descriptors and what they still have to do | the prompt, `runcmd`, `fork`, `pipe`, `dup`, `wait`, `exit` | an end of a pipe left open; a call that fails; orphans | `ParsesTheLine`, `DescriptorsExact`, `PromptAfterForeground`, `PromptReturns` |
| ticks (`trap.c`, `sysproc.c`) | `ticks` | `clockintr`, `sys_sleep` | wrap | not modelled |

How they interact: a system call on a file goes from the descriptor table to an
open file, from there to an inode or a pipe; inodes and directories are read and
written through the buffer cache, inside an operation of the log, which pins
the buffers it will commit; the cache reads and writes through the disk driver.
Each of these sleeps and is woken through the process table, and each table is
guarded by a spin-lock.

## The plan

A module stands for one part and contains as much of its neighbours as its
properties depend on: `Log` has the cached contents and the pins, `Proc` the locks
held across a switch, `FileTable` the ends of a pipe, `Inode` the sleep-locks as
plain locks, `Memory` the process table as far as it owns pages, `Shell` the calls
of the kernel in one step each.  Three abstract specifications say what a part
promises to the one above it: `AtomicStore` (log), `Channel` (pipe) and
`LineDiscipline` (console).

| module | models | instance | proofs |
|---|---|---|---|
| `Log`, refines `AtomicStore` | log and crash recovery | `MCLog` | `LogSteps`, `LogProofs` |
| `Proc` | processes, scheduler | `MCProc` | `ProcSteps`, `ProcProofs` |
| `SpinLock` | spin-locks, interrupts | `MCSpinLock` | `SpinLockProofs` |
| `Pipe`, refines `Channel` | pipes | `MCPipe` | `PipeProofs` |
| `BufCache` | buffer cache, sleep-locks | `MCBufCache` | `BufCacheProofs` |
| `FileTable` | open files, descriptors | `MCFileTable` | |
| `FileData` | contents of files, blocks | `MCFileData` | |
| `Inode` | inodes, directories | `MCInode` | |
| `VirtioDisk` | disk driver | `MCVirtioDisk` | `VirtioDiskProofs` |
| `Memory` | pages, page tables, exec | `MCMemory` | |
| `Console`, refines `LineDiscipline` | console, UART | `MCConsole` | |
| `ShellParser`, `Shell` | the parser of the shell; init and shell | `MCShell` | |

Except for `ShellParser`, a recursive-descent parser, the modules avoid recursive
operators, so that they can be proved about.

## The modules

### The log (`Log`, `AtomicStore`, `MCLog`, `LogSteps`, `LogProofs`)

`Log` models `kernel/log.c` with what it needs of `kernel/bio.c`: the cached
contents of the home blocks, the references `bpin` holds, and `bget`'s right to
recycle a buffer nobody refers to.  One action is one critical section of
`log.lock` or one disk write.  A client's `bread`, modify, `log_write`, `brelse`
is one action, because the buffer's sleep-lock is held throughout.  `written`
and `latest` are history variables: the blocks of the current operation, and
what `log_write` last put in each block.

`Crash` may happen in every state and keeps only the disk.  `CrashInLogWrite` and
`CrashInInstall` leave the block being written `Torn`.  The header write is
atomic: the header (4 + 4 * 30 bytes) lies in the first sector of its block.

`AtomicStore` is what the log promises: writes grouped by operation, committed
only when no operation is active, reset by a crash to the last commit.
`ImplementsStore` is the refinement, with the durable state mapped to
`Overlay(disk, hdr, logdisk)`, what recovery would make of the disk.

Run `log`: 2 processes, 4 blocks, 2 values; reservations of 2 (`MAXOPBLOCKS`)
against a log of 5 blocks, and operations that write one block
(`OpBlocks`).  This is enough for group commit, absorption, a commit of several
blocks with a crash at each of them, a second crash in recovery, and a `begin_op`
that has to wait for space.  `NoPanic` depends on operations that write at least
one block less than they reserve: `log_write` panics when the header holds
`LOGSIZE - 1` blocks or more, while `begin_op` admits operations up to `LOGSIZE`.
Nothing in `param.h` keeps an operation from using its whole reservation; that none
does is a fact about the operations there are.  `filewrite` splits its writes, and
the calls on names write the blocks of two inodes, of two directories, an indirect
block and the one bitmap block of a disk of `FSSIZE` blocks, at most about 7 of the
10 reserved.  So the model gives operations `OpBlocks < MAXOPBLOCKS`.  Starvation freedom of `begin_op` is not claimed: a
woken process may find the space taken again, for ever.

Proofs.  `IInv` strengthens the properties to an inductive invariant: it says,
for each point of commit and of recovery, which copies of each block (home, log,
cache) are up to date, that one process commits at a time and no operation is
then active, and that blocks in the transaction are pinned.  `LogSteps` has a
lemma for each step of a client, of commit and of recovery, and
`LogProofs` puts them together and draws the consequences.  `LogReadsLatest`, `LogQuiescentIsDurable` and
`LogNoLostWakeup` follow, and `StoreStep` maps each step to a step or a stutter
of the store.  Assumptions: `SizeAssumption`, `ProcAssumption` (finitely many
processes), `ValueAssumption`.

`LogNoPanic` needs more: that operations write fewer blocks than they reserve and
that the log is longer than one reservation and fits on its part of the disk
(`Sizes`; in `param.h` a reservation is 10 blocks and the log three of them).  The
argument would sum, over the active operations, what each may still write.
`RoomInv` counts instead: `Room` is the set of pairs of an active operation and a
number above the count of its blocks, up to `OpBlocks`, and the invariant is that the header,
`Room` and two blocks fit in the log.  `log_write` of a new block takes a pair out
of `Room`, `end_op` takes those of its operation, and `begin_op` adds `OpBlocks`
pairs, for which its test leaves space: every active operation reserves at least
one block more than it uses.

### Processes (`Proc`, `MCProc`, `ProcSteps`, `ProcProofs`)

`Proc` models `kernel/proc.c`: the table with state, parent, channel, killed,
pid and trace mask; `fork`, `exit`, `wait`, `kill`, `sleep` and `wakeup` on the
channel of `wait`; the schedulers; timer interrupts as `yield`; and init
(`user/init.c`), which calls `wait` for ever.  A critical section of one
`p->lock` is one action whose guard is that the lock is free; the lock is a
variable because it is held across `swtch`, and `wait_lock` because `exit` and
`wait` take other locks while they hold it.  `ctx` says whether a process is
switched out, running, entering `sched`, or just switched in.  The loops over
the table are one action per slot, as the code releases the slot's lock between
slots.

Run `proc_life`: 3 slots, 2 CPUs, pids up to 3, kills of pid 2 and of pid 0, and
faults, so that slots are reused, an orphan can be made, a kill can meet every state
of its victim or a free slot, and the trace mask is set before a fork (by the process
in slot 3, `Tracers`).  `StacksSafe` says that no kernel stack is run
by two CPUs or freed while it is in use, and that the checks of `sched` never
panic; `FamilyTree` that parents are live, that the late write of the trace mask
reaches the child it was meant for, and that a mark of `kill` has a cause in the life
of the process that bears it: a kill of its pid, a fault of its own (`setkilled` in
`usertrap`), or a `kill(0)` that met its slot free.
Symmetry permutes the CPUs.

Proofs.  `IInv` has, besides the types: which process each CPU runs and that
`p->lock` is held exactly around `swtch` (`OnCpu`, `Contexts`); at which points of
the code a process can be in each state (`Places`); that the holder of `wait_lock`
is at the points between its acquisition and release (`WaitLock`); init's life
(`InitLives`); which slot a `fork` under way owns and that parents are live
(`Children`, `Parents`); how far `exit` has given its children away (`Exiting`) and
`wait` has looked (`Scanned`); and that a sleeping parent with a zombie has a wakeup
coming (`Woken`).  `NoMissedZombie` needs all of these: the wakeup is a loop over the
table during which other slots change.  `ProcSteps` has a lemma for each step.
`ProcFamilyTree` uses a further invariant, `Marks`, on pids and on the marks of `kill`.

Three things the code does are not what a reader may expect, and the properties
are stated so as to allow for them.  `fork` copies the trace mask after it has made
the child runnable, so a child can run with the mask its slot had before.  `kill`
looks at the pid only, and a free slot has pid 0: `kill(0)` marks the first free slot,
`allocproc` does not clear the mark, and the next process in that slot exits at its
first trap (the history variable `stray`).  And a kill that comes between the test of `killed` in `wait` and the sleep does
not wake the process.


### Spin-locks and interrupts (`SpinLock`, `MCSpinLock`, `SpinLockProofs`)

`SpinLock` models `kernel/spinlock.c` at the grain of its memory accesses: the
read of the interrupt flag, `push_off`, the atomic swap, the assignment and the
clearing of `lk->cpu`, the release of the word and `pop_off` are actions of
their own.  A CPU runs its scheduler or one of the threads; a context remembers
where it was when it was switched out.  `kerneltrap` enters a handler that takes
an interrupt-safe lock, whenever interrupts are on and wherever the CPU is.
`sched` and `swtch` move a thread, with the `intena` it saved, to any CPU.
`phase` tells a thread that has never run (it enters through `forkret`) from one
that returns from `sched`.

Which locks a caller nests in which is not decided in `spinlock.c`.  `Order` is the
relation the callers keep to, any one in which no lock is inside itself: `wait_lock`
is taken before a `p->lock`, `pid_lock` and `kmem.lock` under one.

Run `spinlock`: 2 CPUs, 2 threads and one lock, `wait_lock`, taken outside of `p->lock`;
longer chains are left to the proofs.  That is
enough for a handler to interrupt an `acquire` of its own lock at each point, for
a thread to migrate between `sched` and its return, and for nesting two deep, in a thread or a handler.  Symmetry permutes the CPUs and the threads,
which no definition tells apart.  `InterruptsRight` is what `push_off` and `intena` are for: interrupts are off
inside every critical section, and a thread that took a lock with interrupts on has them on again after its last
release, on whichever CPU that is.  `LocksSafe` is
exclusion and the absence of panics.

Proofs, for any CPUs, threads, locks and any such order.  `IInv` says that a context runs on one CPU at most;
that the lock word, `lk->cpu` and the set of locks a context holds agree, up to the
instructions between two of them (`HeldIsLocked`, `CpuHolds`, `HolderNamed`,
`NotNamed`: a CPU is named in a lock only by a context that runs on it, so
`holding` is right); that `noff` is the number of locks held, plus one within
`push_off` and `pop_off` (`NoffCounts`); that interrupts are off when it is not
zero; and which of `intena` in the CPU, in the stack of `sched` and in the
interrupted context has the flag a thread began with (`IntenaKept`).  `SpinLockProofs` first
takes the steps of one context, then the switches.

### Pipes (`Pipe`, `Channel`, `MCPipe`, `PipeProofs`)

`Pipe` models `kernel/pipe.c` with the sleep and wakeup it uses.  A step is what
happens while `pi->lock` is held between two points where a call may sleep or
return, one byte at a time, so a reader and a writer can only alternate where the
code lets them.  `nread` and `nwrite` count modulo `Laps * PIPESIZE`, which
stands for 2^32: a multiple of the ring's size, as in the code.  `write_byte` may
end the call early (`copyin` fails) and `read_fault` drops the byte that
`copyout` could not deliver.  Closing by the last descriptor of a kind, the free
of the page when both are closed and `kill` are actions that can come at any
time a descriptor's holder allows.

`Channel` is the bounded FIFO that a pipe promises.  `ImplementsChannel` maps the
queue to the ring between `nread` and `nwrite`.

Run `pipe`: two readers and one writer, a ring of 2, counters that wrap after two
laps, writes of 0 or 4 bytes and reads of 1 or 2 (`WriteLen`, `ReadLen`), so that both ends sleep, the
counters wrap, and a reader can find that the other one took the bytes it was woken
for.  `CallsSafe` says that the page is not used once freed and that nobody
sleeps on what has already happened.  `CallsReturn` assumes weak fairness of each process's steps, of the close
of its file among them: the scheduler runs every runnable process, and `exit`
closes all files in the end.  Calls and kills are not fair; nothing makes a
process read or write.

Proofs, for any readers and writers, any `PIPESIZE` and any number of laps.  `IInv`
says what each point of a call has established under `pi->lock` (`Calls`, `Tested`),
that an open flag is set while a process has that end (`Ends`), that a sleeper's
condition holds (`Asleep`) and that the counters are at most a ring apart (`InRing`).
`PipeImplementsChannel` is the refinement.  Its lemmas are modular arithmetic: as
the counters' modulus is a multiple of `PIPESIZE`, their difference is the length of
the queue also after one has wrapped (`Counters`), and positions less than `PIPESIZE`
apart are different cells of the ring (`OtherCell`), so that `write_byte` appends and
`read_byte` takes the head.  `CallsReturn` is liveness and stays with TLC.

### Buffer cache and sleep-locks (`BufCache`, `MCBufCache`, `BufCacheProofs`)

`BufCache` models `kernel/bio.c` and `kernel/sleeplock.c`.  `bget` is one action, a
critical section of `bcache.lock`; taking the sleep-lock, which may sleep, is
another; so is `brelse`, whose `releasesleep` comes first.  The buffers are kept
in a sequence, most recently used first, as the linked list is.  `Change` is a
caller's write to the data; a changed buffer must be written or pinned before
it is released, which is what the log's `log_write` does.  `latest` is a history
variable: what each block was last changed to.

A client (`User`) is one use of a buffer, from `bget` to the end of `brelse`.  A
process that has two buffers at a time is two of them: `install_trans` has the log's
block and its home, `bmap` the indirect block while `balloc` has one of the bitmap.

Run `bufcache`: 3 clients, 2 buffers, 4 blocks, one pin, so that buffers are recycled
while others are pinned, two clients can wait for a buffer, and `bget` can find
every buffer in use.  It panics then: `NBUF` is 30, for 64 processes that may have two
buffers each and up to 30 blocks pinned by the log, so the code does not exclude it.
`BuffersExact` says that a block has one buffer, a buffer one user and an exact count,
and that the panic comes only when each buffer is in use or pinned: none leaks.

Proofs, for any finite set of clients and any number of blocks and buffers.  `IInv`
says who holds each sleep-lock and that a client between `bget` and the end of
`brelse` has the block it wants in its buffer (`Held`), that a block has one buffer
and a pinned block a valid one (`Placed`), and where the latest contents of
each block are (`Fresh`).  `RefsExact` is part of it, since it is what keeps `bget`
from recycling a buffer in use: a count of 0 means that nobody uses the buffer and
that its block is not pinned.

### Open files and descriptors (`FileTable`, `MCFileTable`)

`FileTable` models `kernel/file.c` with the calls that move references: `open`,
`dup`, `close` and `pipe` (`kernel/sysfile.c`, `pipealloc` of `kernel/pipe.c`),
and the loops over `ofile` in `fork` and `exit`.  A critical section of
`ftable.lock` is an action; between two of them the references a call holds in
its variables are in `local`, those it still has to close in `closing`, and the
copy `ff` of a file that `fileclose` has freed in `copy`.  Inodes are counted
(`iref`), not modelled, and of a pipe only its open ends are kept: `FileTable`
asks who refers to them.

Run `filetable`: 2 processes, 2 descriptors each, 3 files and 2 pages, so that
each table can be full at each allocation, and processes share files through
`fork`.  `FilesExact` counts the references to every file: descriptors, variables
of calls and loops under way.  `ObjectsExact` says that a page and
an inode are held as long as some file needs them and no longer.  `FilesExact` also
says that `fileclose` never begins a file-system operation inside another.  Init never
exits, as in the kernel.
### Contents of files (`FileData`, `MCFileData`)

`FileData` models the part of `kernel/fs.c` and `kernel/file.c` that `Inode` leaves
out: `balloc`, `bfree`, `bmap`, `itrunc`, `readi`, `writei` under `fileread`,
`filewrite` and the truncation of `open`.  A step is one allocation, one copied
block, or one freed block; the inode's lock is held from `chunk` to `iupdate`, as in
the code, and processes meet in the bitmap and between two turns of `filewrite`'s
loop.  `tx` collects the blocks the current transaction has logged.  `file` and
`done` are history variables: what each file should hold, and the positions that have
been read or written through each open file since it was opened.  Data is abstracted to three values that tell the bytes of a
buffer apart; a free block holds what its last owner left.

A copy from the user's memory can fail on its second page.  `writei` then leaves the
buffer changed in the cache without logging it: the bytes concerned may have
either value (`Torn`), and `ContentExact` asks nothing of them.

Run `filedata`: 2 processes, 3 open files on 2 inodes, 4 blocks of 2 bytes, one
direct block, `MAXOPBLOCKS` 6 (so 2 bytes a turn), 4 calls of 1 or 3 bytes (`Amount`).
That reaches the indirect block, writes of several turns that interleave on a shared
offset, a full disk at every allocation and a truncation that races for the freed
blocks.  `OffsetExact` says that what goes through a shared open file is
contiguous, with `f->off` at its end.  `TransactionFits` is about the turns of
`filewrite`: `BPB` is 1, so that each allocation logs a bitmap block of its own, and
a 1-byte write makes the next turn start inside a block and allocate the indirect
block and a data block, which takes exactly the 6 blocks reserved.  It says nothing
of `itrunc`, which logs the inode and the bitmap blocks of all the file's
blocks: that is 2 blocks on a disk with one bitmap block (`FSSIZE` 2000, `BPB` 8192) and
is not bounded by `MAXOPBLOCKS` on a larger one.
### Inodes, directories, paths (`Inode`, `MCInode`)

`Inode` models the inode table of `kernel/fs.c` and the calls that make and remove
names: `open`, `create`, `mkdir`, `link`, `unlink`, and `chdir`.  The disk holds each
inode's type, link count and entries; the table its `ref`, `valid` and the copies.  A
step is what a process does with the inode locks it has: `ilock` is an action of its
own, waits for the lock and reads the inode if it is not valid; then the call's step
follows, which unlocks and says which inodes are to be put (`puts`).  `iput` is
four actions, because it releases `itable.lock` to free an inode.  A directory is a
function from names, `.` and `..` among them, to inode numbers; a path starts at the
root, or with `idup` at the process's `cwd`.  The contents of files are in `FileData`.
Writes reach the disk through the log, so each change is final here.

Run `inode` has 2 processes, a table of 3 entries and two `Setups`, one of which is
chosen at the start.  In the first, on a disk with 3 inodes, both processes make all
calls on a directory `/b`, a file `/b/a` and a link to it, `/b/b`, so that a directory
can be removed while another process walks through it, and an inode number reused
while a stale reference to it is being put.  In the second, with 4 inodes, one
process makes directories `b` inside each other and moves with `chdir("b")` and
`chdir("..")` while the other removes them.  `MaxLink` bounds the link counts, which
entries lost in removed directories could otherwise drive up for ever; `link` begins
only while every file has fewer links.  `TableExact` says that every reference, those
of `cwd` included, is counted, that `iput` never has to wait for the lock it takes
under `itable.lock`, and which panics there are.

Two panics are reachable, and `TableExact` allows only these.  `iget` panics when the
table is full: `param.h` has 50 entries, for 64 processes and 100 open files.  And
`ilock` panics on a free inode that a process reaches through `..`: after `mkdir b`,
`mkdir b/b` and `chdir` to `b/b`, both can be removed; the inner directory lives on as
a `cwd` while its parent is freed, and its `..` still has the parent's number.  If
the number has been given away, the path leads to another inode, which is in the run
as well.  `unlink`'s panic on a link count of 0 is not reachable.

`iput` drops the last reference only after it has freed the inode on disk and
released its lock.  `ialloc` can give the number away in between; should that
creation then fail, the inode stays allocated with no link and no reference, so
no property here says that every such inode is freed.

The code lets `create` and `link` put a name in a directory that was removed while
they waited for its lock, or that is their `cwd`.  Such an entry is unreachable, and
the inode it names keeps a link count nobody can bring down.  So a link count is not
always the number of reachable names; `NoDangling` states the direction that holds,
that no entry but `..` outlives its inode.

### The disk driver (`VirtioDisk`, `MCVirtioDisk`, `VirtioDiskProofs`)

`VirtioDisk` models `kernel/virtio_disk.c`.  `virtio_disk_rw` is split where it
gives up `vdisk_lock` (no descriptors, or waiting for the device) and before the
increment of `avail->idx`, which is what makes a chain visible to the device.
`virtio_disk_intr` is three actions: acknowledge, one entry of the used ring, and
leaving.  The device (external) takes chains from `avail`, finishes them in any
order, and writes the entry of `used` before it advances `used->idx` and raises
the interrupt; interrupts that arrive while one is pending are merged.  It
answers with status 0 only when the descriptors agree with the request's type.
Ring indices wrap at `Laps * NUM`, which stands for 2^16, a multiple of `NUM` too.

Run `virtio`: 4 processes and 8 descriptors, so that two requests are in
flight, two descriptors are left, and two processes wait for a third and wake
each other when their attempts fail; indices wrap after two laps.
`RequestsExact` says that every descriptor has one owner, that a buffer is marked as
the device's exactly while a request for it is in flight, and that nothing panics.  A sleeper's
progress is stated as the invariant `NoLostWakeup` rather than as a liveness
property: with strong fairness for each process and each chain, TLC does not
finish the temporal check on an instance with waiters.

Proofs, for any processes, any `NUM` of at least 3 and any number of laps.  `IInv` says that
the requests in flight have chains of three descriptors, formatted as
`virtio_disk_rw` left them, disjoint from each other, and all the rest are
free (`Chains`); that the head of a chain is in exactly one place, in `avail`,
with the device or in `used`, as long as `b->disk` is set (`Where`), and that its
data have moved once it is returned (`Data`); and that the occupied entries of each
ring are those from the reader's index up to the writer's, plus the one that is
written before the index moves (`Rings`).  The last is what the properties do not
say and need: an entry is written to an empty cell, and the reader's next cell is
not empty.  It rests on two facts.  Indices that wrap at a multiple of `NUM` still agree
modulo `NUM`; and the heads in a ring are distinct while each chain has two
descriptors that are not heads, so a ring never fills up.  The second is a matter
of counting (`RoomInRing`), as is that `alloc3_desc` finds three descriptors when there are
three (`Three`): the lemmas about actions take both as hypotheses, and they are
proved after them.
### Memory (`Memory`, `MCMemory`)

`Memory` models `kernel/kalloc.c`, `kernel/vm.c`, `kernel/exec.c` and the memory side
of `kernel/proc.c`.  A page table is the set of its page-table pages, the set
of pages it maps and the set of those with `PTE_U`; a page is free or owned by one
table, one trapframe, one argument of `sys_exec` or one variable of a routine, and
only the number of free ones is kept.  Every `kalloc` and `kfree` is a step, so
processes interleave there and each allocation can find the list empty.  The
routines of `vm.c` are entered by setting `pc` and the places where to go on
(`then`, `els`, `next`).  A slot's lock is held through `fork`, which is why a slot
that is `USED` belongs to its creator.

Executables are sequences of up to `MaxPhnum` headers from the set `Phdr`: one that
starts at 0, one that leaves a gap, one that is refused and one that is no segment.
Reading the file can fail at each point.  Arguments take up to a page and a byte, so
that they fit or do not.

Run `memory`: 2 slots, 17 pages of 2 bytes, tables of 3 entries, sizes changed by 3
bytes up and down.  17 pages let init fork and exec and leave too few for both to
go on, so that each failure path is taken, with and without the other process
holding pages.  `PagesExact` is the conservation of pages with the absence of
panics; `MappedExactly` that a table not being changed maps exactly its process's
pages; `ForkCopies` that a child has its parent's pages and flags; `ExecImage` that
exec commits a stack above a guard page.  That an exec that fails leaves the old image
whole is part of `MappedExactly`.

### Console and UART (`Console`, `LineDiscipline`, `MCConsole`)

`Console` models `kernel/console.c` and `kernel/uart.c`.  `rd` and `wr` are the calls
of `read` and `write` under way, `ih` the interrupt handler, which runs on one CPU at
a time as the PLIC allows.  A step is what happens under `cons.lock` or
`uart_tx_lock` up to a test of the line status or a write to the transmitter, which
are steps of their own: the echo (`uartputc_sync`) uses the transmitter without
`uart_tx_lock`, and may come between the test and the write of `uartstart`.  The
chip (external) has a receive and a transmit FIFO, and raises an interrupt when a
character arrives or the transmitter runs empty.  `uint` indices wrap at `UINT`,
a multiple of the buffer's size as 2^32 is.  The loops that stop a CPU after a panic
and the listing of ^P are left out.

`LineDiscipline` is what a reader is promised: characters can be erased until the
line ends or the buffer is full, and are then read once, in order.
`ImplementsLineDiscipline` maps what is readable to the buffer between `r` and `w`,
what can be erased to the part between `w` and `e`.

Run `console`: a reader of 2 bytes, an input buffer of 3 characters and an output ring
of 2, whose indices start just before they wrap, and every kind of key.  `Loads` bounds
what happens: either 4 keys are typed, which is enough to fill the input buffer and
then meet it full, and to erase two characters with one ^U; or 4 characters are
written and a key is typed, so that the ring is full, the writer sleeps, and the echo
meets the output.  `OutputInOrder` compares what is in the ring and in the UART with
`owed`, the characters accepted and not yet sent, so that a character lost, sent
twice or out of order shows, wherever in a write it is.  `CallsProgress` assumes
weak fairness of each process's steps, of the handler and of the transmitter: a
runnable process runs, a pending interrupt is taken, and the line sends what it is
given.  Nobody has to type.

### Init and the shell (`Shell`, `ShellParser`, `MCShell`)

`ShellParser` translates the parser of `user/sh.c` function by function, over the
characters of a line: positions stand for the pointers, and `nulterminate` writes
its NUL characters into the line before the words are read back.  `Meaning` is the
reference: it splits the line into tokens and takes it apart at the operators
outside of parentheses, with no parsing state.  `With` evaluates an argument once.

`Shell` models `runcmd`, the prompt loop and `user/init.c` as sequences of system
calls (`todo`): each process does the first call of its sequence in a step, and the
calls work on a table of processes with their descriptors.  Files are names and
pipes two ends.  A program reads its input to the end, or stops before; it reaches
the end of a file at once, and the end of a pipe when no process has the other end
open; on the console it waits for the user.  `fork`, `pipe`, `open`,
`exec` and the allocation of a command can fail, as `MaxFaults` allows.
The shell's working directory is left out, so `cd` only prompts again.  A line is what
`gets` returns, with its newline, or without one if the user ended it with ^D.  Lines
are shorter than the shell's buffer of 100 characters; `gets` would split a longer one
and the shell would run its parts as two commands, which `ParsesTheLine` does not cover.

Run `shell`: 7 slots, 6 descriptors, one failing call, two lines: first each line of
up to two characters and longer ones with pipes, lists, blocks, redirections and
background commands in each other, and two that end with ^D, then `x`.  With two failing
calls, init's `open` and the shell's, a program could lack its descriptors; the run
has one.  Outside of this run the parser agrees
with `Meaning` on all 66,430 lines of up to five characters.  `PromptReturns` assumes
weak fairness of the steps of each process, which the scheduler gives, but not that
a program stops before the end of its input or that anybody types.  It says that a
prompt with nothing left to reap comes back again and again, also after the shell has
exited, unless init itself has exited, on which the kernel panics, or a program in
the foreground, or one that a pipe depends on, waits for the user to type.  The deadlock
check is off because the user may stop typing.

## What is proved and what is checked

| theorem | says, for every value of the constants | hypothesis |
|---|---|---|
| `LogInvariant`, `LogTypeOK` | the inductive invariant of the log; its types | |
| `LogReadsLatest` | a read returns what was last written | |
| `LogQuiescentIsDurable` | with no operation active and no commit under way, everything written is on disk | |
| `LogNoLostWakeup` | a process that sleeps in `begin_op` has somebody to wake it | |
| `LogImplementsStore` | the log implements the atomic store, crashes and torn writes included | |
| `LogNoPanic` | the space that `begin_op` reserves suffices: no panic | `Sizes` |
| `ProcInvariant` | the inductive invariant of the process table | |
| `ProcStacksSafe` | no stack on two CPUs or freed in use, no panic in `sched` | |
| `ProcNoMissedZombie` | no parent sleeps with a zombie to collect | |
| `ProcLegalTransitions` | each step changes states as it may | |
| `ProcFamilyTree` | live parents, unique pids, trace masks and marks of `kill` that do not pass to the next process | |
| `SpinLockInvariant` | the inductive invariant of locks and interrupt flags | |
| `SpinLockLocksSafe` | exclusion, no panic | |
| `SpinLockInterruptsRight` | interrupts off in critical sections and restored after them | |
| `PipeInvariant` | the inductive invariant of the pipe | |
| `PipeCallsSafe` | no use after free, nobody sleeps on what has happened | |
| `PipeEofAtEnd` | end of file only without a writer | |
| `PipeImplementsChannel` | the ring implements the bounded FIFO | |
| `BufCacheInvariant` | the inductive invariant of the buffer cache | |
| `BufCacheReadsLatest` | `bread` returns the latest contents, none are lost | |
| `BufCacheNoLostWakeup` | a sleeper for a buffer waits for its holder | |
| `BufCacheBuffersExact` | one buffer for a block, one user of it, exact counts, no panic but of a full cache | |
| `VirtioDiskInvariant` | the inductive invariant of the disk driver | |
| `VirtioDiskRequestsExact` | descriptors neither shared nor lost, buffers marked exactly while in flight, no panic | |
| `VirtioDiskNoLostWakeup` | a sleeper waits for descriptors that are in use, or for a request that is in a ring or with the device; what was returned has an interrupt pending or running | |

Each proof has the same shape: `Init` implies `IInv`; a lemma for each action says
that it keeps `IInv`, with a step for each conjunct it can disturb; the properties
follow from `IInv`, or from it and the step.  TLC has checked each `IInv` as an
invariant of the instances above.  The assumptions on constants are the `ASSUME`s of
the modules, which TLC evaluates on each run: sizes are positive, sets of
processes, CPUs and locks finite, no lock nested in itself, special values distinct from
the others.

What is only checked by TLC, on the instances above:

- liveness (`CallsReturn`, `CallsProgress`, `PromptReturns`), which needs fairness and
  `ENABLED`;
- `ParsesTheLine`, about recursive operators;
- the properties of `Inode`, `FileTable`, `FileData`, `Memory`, `Console` and
  `Shell`.  Several of them compare a counter with the size of a set of references
  of several kinds, or a history with a sequence built a step at a time; their
  inductive invariants are not worked out.

## What is not modelled

- `ticks` with `sleep` and `uptime`: one modular comparison and one wakeup per tick.
- `sysinfo`: it counts free pages and processes without the locks of either; the
  numbers are only reported.
- `fstat` and `mknod`, and the `cwd` that `fork` shares and `exit` puts.
- The kernel's own page table, boot, and the assembly of traps and `swtch`.
- Weak memory: steps are sequentially consistent.  The code puts
  `__sync_synchronize` where it relies on an order.
- Formatting, library routines, the user programs other than init and the shell,
  and `mkfs`, which are sequential or pure.
