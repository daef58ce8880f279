------------------------------- MODULE Shell -------------------------------
(* The user side of the system: init (user/init.c), the shell (user/sh.c) and the
   processes the shell makes to run a line.

   A process is what it still has to do, a sequence of system calls and calls of
   runcmd, and its descriptors; a step is one system call.  fork gives the child a
   sequence of its own.  The programs the shell runs are external: a program reads
   its standard input to the end and then exits, or exits before.  The kernel is
   what the modules Proc, FileTable and Pipe have it do, one call in one step. *)
EXTENDS ShellParser

CONSTANTS
  NPROC, NOFILE,
  Lines,                    \* what gets may return at the first prompt, the second...
  MaxFaults                 \* bound on the calls that fail for want of a resource

VARIABLES
  proc,                     \* the processes; the first is init
  shpid,                    \* pid of init: the shell it waits for
  console,                  \* whether the file console exists
  typed, faults,
  panicked                  \* the kernel's panic when init exits

vars == <<proc, shpid, console, typed, faults, panicked>>

initproc == 1
Pid == 1 .. NPROC
FDS == 0 .. NOFILE - 1

NoFile == <<>>
Console == <<"console">>
ReadEnd(id) == <<"r", id>>
WriteEnd(id) == <<"w", id>>

Unused == [st |-> "unused", parent |-> 0, todo |-> <<>>, bg |-> FALSE,
           fds |-> [i \in FDS |-> NoFile], p |-> <<>>]

MaxLines == Len(Lines)      \* bound on the lines typed

\* A line of no characters is the end of the input (getcmd_eof).
ASSUME ShellAssumption == /\ NPROC \in Nat \ {0, 1} /\ NOFILE >= 5
                          /\ \A k \in DOMAIN Lines : <<>> \notin Lines[k]

-----------------------------------------------------------------------------
(* The calls, and what runcmd does with a command. *)

Close(fd) == [op |-> "close", fd |-> fd]
Dup(fd) == [op |-> "dup", fd |-> fd]
Open(file) == [op |-> "open", file |-> <<"file", file>>]
Pipe == [op |-> "pipe"]
Fork(child, bg) == [op |-> "fork", child |-> child, bg |-> bg]
Wait == [op |-> "wait"]
Run(cmd) == [op |-> "runcmd", cmd |-> cmd]
Exec == [op |-> "exec"]
Exit == [op |-> "exit"]

\* The descriptors pipe() left in p.
P0 == -1
P1 == -2

\* Mutant: the left side keeps the end it does not use.
RunLeft_Bug(cmd) == <<Close(1), Dup(P1), Close(P1), Run(cmd)>>

RunLeft(cmd) == <<Close(1), Dup(P1), Close(P0), Close(P1), Run(cmd)>>
RunRight(cmd) == <<Close(0), Dup(P0), Close(P0), Close(P1), Run(cmd)>>

\* Mutant: the shell waits for one side of the pipe only.
RunPipe_Bug(cmd) ==
  <<Pipe, Fork(RunLeft(cmd.left), FALSE), Fork(RunRight(cmd.right), FALSE),
    Close(P0), Close(P1), Wait, Exit>>

\* Mutant: the shell itself keeps the end to write to.
RunPipe_Open(cmd) ==
  <<Pipe, Fork(RunLeft(cmd.left), FALSE), Fork(RunRight(cmd.right), FALSE),
    Close(P0), Wait, Wait, Exit>>

RunPipe(cmd) ==
  <<Pipe, Fork(RunLeft(cmd.left), FALSE), Fork(RunRight(cmd.right), FALSE),
    Close(P0), Close(P1), Wait, Wait, Exit>>

runcmd(cmd) ==
  CASE cmd.type = "panic" -> <<Exit>>
    [] cmd.type = "EXEC" -> IF cmd.argv = <<>> THEN <<Exit>> ELSE <<Exec, Exit>>
    [] cmd.type = "REDIR" -> <<Close(cmd.fd), Open(cmd.file), Run(cmd.cmd)>>
    [] cmd.type = "LIST" -> <<Fork(<<Run(cmd.left)>>, FALSE), Wait, Run(cmd.right)>>
    [] cmd.type = "PIPE" -> RunPipe(cmd)
    [] cmd.type = "BACK" -> <<Fork(<<Run(cmd.cmd)>>, TRUE), Exit>>

sh == <<[op |-> "threefds"], [op |-> "getcmd"]>>

\* A line as gets leaves it, with its newline, or without one when ^D ended it.
Parse(line) == [op |-> "parse", line |-> line]

init_loop == <<Fork(<<[op |-> "execsh"], Exit>>, FALSE), [op |-> "initwait"]>>
init == <<[op |-> "console"], Dup(0), Dup(0)>> \o init_loop

-----------------------------------------------------------------------------
(* System calls. *)

\* A process is about to do op; nothing runs after the kernel's panic.
Doing(p, op) == ~panicked /\ proc[p].st = "run" /\ Head(proc[p].todo).op = op
Call(p) == Head(proc[p].todo)
Rest(p) == Tail(proc[p].todo)
Held == {proc[q].fds[i] : q \in Pid, i \in FDS}

\* fdalloc: a descriptor that is free, the lowest first.
Free(p) == {i \in FDS : proc[p].fds[i] = NoFile}
Number(p, fd) == IF fd >= 0 THEN fd ELSE proc[p].p[-fd]

Become(p, rec) == proc' = [proc EXCEPT ![p] = rec]
Goon(p, todo) == Become(p, [proc[p] EXCEPT !.todo = todo])
Same == UNCHANGED <<shpid, console, typed, panicked>>

\* A call that fails although it was used right.
Fault == faults < MaxFaults /\ faults' = faults + 1

close(p) ==
  /\ Doing(p, "close")
  /\ Become(p, [proc[p] EXCEPT !.todo = Rest(p),
                               !.fds[Number(p, Call(p).fd)] = NoFile])
  /\ Same /\ UNCHANGED faults

\* dup, which does nothing for a descriptor that is not open.
dup(p) ==
  LET f == proc[p].fds[Number(p, Call(p).fd)] IN
  /\ Doing(p, "dup")
  /\ Become(p, [proc[p] EXCEPT !.todo = Rest(p), !.fds[Min(Free(p))] = f])
  /\ Same /\ UNCHANGED faults

\* The open of a redirection: the file gets the descriptor closed before.
open(p) ==
  /\ Doing(p, "open")
  /\ \/ Become(p, [proc[p] EXCEPT !.todo = Rest(p),
                                  !.fds[Min(Free(p))] = Call(p).file])
     \/ Goon(p, <<Exit>>)                              \* open failed
  /\ Same /\ UNCHANGED faults

pipe(p) ==
  LET id == Min({n \in 1 .. NPROC + 1 : {ReadEnd(n), WriteEnd(n)} \intersect Held = {}})
      p0 == Min(Free(p))
      p1 == Min(Free(p) \ {p0})
  IN
  /\ Doing(p, "pipe")
  /\ \/ /\ Become(p, [proc[p] EXCEPT !.todo = Rest(p), !.p = <<p0, p1>>,
                        !.fds = [@ EXCEPT ![p0] = ReadEnd(id), ![p1] = WriteEnd(id)]])
        /\ UNCHANGED faults
     \/ Fault /\ Goon(p, <<Exit>>)                     \* panic("pipe")
  /\ Same

\* fork, or fork1: when it fails the caller exits.
fork(p) ==
  LET slots == {q \in Pid : proc[q].st = "unused"}
      np == Min(slots)
  IN
  /\ Doing(p, "fork")
  /\ \/ /\ slots # {}
        /\ proc' = [proc EXCEPT
             ![np] = [proc[p] EXCEPT !.parent = p, !.todo = Call(p).child,
                                     !.bg = @ \/ Call(p).bg],
             ![p].todo = Rest(p)]
        /\ shpid' = IF p = initproc THEN np ELSE shpid
        /\ UNCHANGED faults
     \/ /\ faults < MaxFaults \/ slots = {}
        /\ faults' = faults + 1
        /\ Goon(p, <<Exit>>)
        /\ UNCHANGED shpid
  /\ UNCHANGED <<console, typed, panicked>>

Children(p) == {q \in Pid : proc[q].st # "unused" /\ proc[q].parent = p}
Zombies(p) == {q \in Children(p) : proc[q].st = "zombie"}

\* wait, which returns at once when there is no child.
wait(p) ==
  /\ Doing(p, "wait")
  /\ Children(p) # {} => Zombies(p) # {}
  /\ proc' = [q \in Pid |-> IF q = p THEN [proc[p] EXCEPT !.todo = Rest(p)]
                            ELSE IF q \in Zombies(p) /\ q = Min(Zombies(p)) THEN Unused
                            ELSE proc[q]]
  /\ Same /\ UNCHANGED faults

Reparent(p, rec) ==
  [q \in Pid |-> IF q = p THEN rec
                 ELSE IF proc[q].st # "unused" /\ proc[q].parent = p
                 THEN [proc[q] EXCEPT !.parent = initproc] ELSE proc[q]]

Zombie(p) == [Unused EXCEPT !.st = "zombie", !.parent = proc[p].parent, !.bg = proc[p].bg]

exit(p) ==
  /\ Doing(p, "exit")
  /\ IF p = initproc THEN panicked' = TRUE /\ UNCHANGED proc
     ELSE proc' = Reparent(p, Zombie(p)) /\ UNCHANGED panicked
  /\ UNCHANGED <<shpid, console, typed, faults>>

\* exec of a program, which may not be there.
exec(p) ==
  /\ Doing(p, "exec")
  /\ \/ Become(p, [proc[p] EXCEPT !.st = "prog", !.todo = <<>>, !.p = <<>>])
     \/ Goon(p, Rest(p))
  /\ Same /\ UNCHANGED faults

\* A program comes to the end of its input: of a file, or of a pipe that nobody can
\* write to.  The console has an end only if the user types ^D.
AtEof(p) == /\ proc[p].fds[0] # Console
            /\ \A id \in 1 .. NPROC + 1 :
                 proc[p].fds[0] = ReadEnd(id) => WriteEnd(id) \notin Held

program_eof(p) ==
  /\ ~panicked /\ proc[p].st = "prog" /\ AtEof(p)
  /\ Become(p, [proc[p] EXCEPT !.st = "run", !.todo = <<Exit>>])
  /\ Same /\ UNCHANGED faults

\* ... or stops before, or reads ^D from the console.
program_exit(p) ==
  /\ ~panicked /\ proc[p].st = "prog"
  /\ Become(p, [proc[p] EXCEPT !.st = "run", !.todo = <<Exit>>])
  /\ Same /\ UNCHANGED faults

-----------------------------------------------------------------------------
(* The shell. *)

run(p) ==
  /\ Doing(p, "runcmd")
  /\ Goon(p, runcmd(Call(p).cmd))
  /\ Same /\ UNCHANGED faults

\* One turn of the loop that opens the console until three descriptors are open.
threefds(p) ==
  LET fd == Min(Free(p)) IN
  /\ Doing(p, "threefds")
  /\ \/ /\ console
        /\ IF fd >= 3 THEN Goon(p, Rest(p))
           ELSE Become(p, [proc[p] EXCEPT !.fds[fd] = Console])
        /\ UNCHANGED faults
     \/ Fault /\ Goon(p, Rest(p))
     \/ ~console /\ Goon(p, Rest(p)) /\ UNCHANGED faults
  /\ Same

IsCd(line) == Len(line) >= 3 /\ SubSeq(line, 1, 3) = <<"c", "d", " ">>

NextLines == IF typed < MaxLines THEN Lines[typed + 1] ELSE {}

\* A prompt, and the line typed; chdir leaves the processes alone.
getcmd(p, line) ==
  /\ Doing(p, "getcmd") /\ proc[p].fds[0] = Console
  /\ typed' = typed + 1
  /\ IF IsCd(line) THEN UNCHANGED proc
     ELSE Goon(p, <<Fork(<<Parse(line)>>, FALSE), Wait>> \o proc[p].todo)
  /\ UNCHANGED <<shpid, console, faults, panicked>>

\* ^D at the prompt, or nothing to read from.
getcmd_eof(p) ==
  /\ Doing(p, "getcmd")
  /\ \/ typed < MaxLines /\ typed' = typed + 1
     \/ proc[p].fds[0] # Console /\ UNCHANGED typed
  /\ Goon(p, <<Exit>>)
  /\ UNCHANGED <<shpid, console, faults, panicked>>

\* parsecmd; the process is killed when malloc has no memory for a command.
parsing(p) ==
  /\ Doing(p, "parse")
  /\ \/ Goon(p, <<Run(parsecmd(Call(p).line))>>) /\ UNCHANGED faults
     \/ Fault /\ Goon(p, <<Exit>>)
  /\ Same

-----------------------------------------------------------------------------
(* init. *)

\* open("console"), after mknod when it fails.
init_console ==
  LET opened == [proc[initproc] EXCEPT !.todo = Rest(initproc), !.fds[0] = Console] IN
  /\ Doing(initproc, "console")
  /\ \/ console' = TRUE /\ Become(initproc, opened) /\ UNCHANGED faults
     \/ console' \in {console, TRUE} /\ Fault /\ Goon(initproc, Rest(initproc))
  /\ UNCHANGED <<shpid, typed, panicked>>

exec_sh(p) ==
  /\ Doing(p, "execsh")
  /\ \/ Goon(p, sh) /\ UNCHANGED faults
     \/ Fault /\ Goon(p, Rest(p))
  /\ Same

\* What init does when wpid has been reaped.
init_next(wpid) == IF wpid = shpid THEN init_loop ELSE proc[initproc].todo

init_wait ==
  LET zs == Zombies(initproc) IN
  /\ Doing(initproc, "initwait")
  /\ IF Children(initproc) = {} THEN Goon(initproc, <<Exit>>)
     ELSE /\ zs # {}
          /\ proc' = [proc EXCEPT ![initproc].todo = init_next(Min(zs)),
                                  ![Min(zs)] = Unused]
  /\ Same /\ UNCHANGED faults

-----------------------------------------------------------------------------

Init ==
  /\ proc = [q \in Pid |-> IF q = initproc
                           THEN [Unused EXCEPT !.st = "run", !.todo = init] ELSE Unused]
  /\ shpid = 0
  /\ console \in BOOLEAN
  /\ typed = 0 /\ faults = 0 /\ panicked = FALSE

Step(p) ==
  \/ close(p) \/ dup(p) \/ open(p) \/ pipe(p) \/ fork(p) \/ wait(p) \/ exit(p)
  \/ exec(p) \/ program_eof(p) \/ run(p) \/ threefds(p) \/ parsing(p) \/ exec_sh(p)

InitStep == init_console \/ init_wait

Next ==
  \/ InitStep
  \/ \E p \in Pid : Step(p) \/ program_exit(p) \/ getcmd_eof(p)
  \/ \E p \in Pid, line \in NextLines : getcmd(p, line)

\* The scheduler runs every process that can run.  Nobody has to type, and no
\* program has to stop before the end of its input.
Fairness == WF_vars(InitStep) /\ \A p \in Pid : WF_vars(Step(p))

Spec == Init /\ [][Next]_vars /\ Fairness

-----------------------------------------------------------------------------
(* Properties. *)

TypeOK ==
  /\ shpid \in 0 .. NPROC
  /\ \A q \in Pid : /\ proc[q].st \in {"unused", "run", "prog", "zombie"}
                    /\ proc[q].parent \in 0 .. NPROC
                    /\ proc[q].st = "run" => proc[q].todo # <<>>

\* For every line that fits the buffer of gets, the parser of sh.c builds the command that the line means: its
\* NUL characters end each word where it ends, redirections and "&" belong to the
\* command they follow, and a line outside the grammar is refused.
ParsesTheLine ==
  \A p \in Pid : Doing(p, "parse") => parsecmd(Call(p).line) = Meaning(Call(p).line)

\* A program runs with the descriptors 0, 1 and 2 and no other: no end of a pipe
\* is left over from the plumbing of runcmd, standard input is never the end to
\* write to and standard output never the end to read from.
DescriptorsExact ==
  /\ TypeOK
  /\ \A p \in Pid : proc[p].st = "prog" =>
       /\ \A i \in FDS : proc[p].fds[i] # NoFile <=> i \in 0 .. 2
       /\ proc[p].fds[0][1] # "w" /\ proc[p].fds[1][1] # "r"

\* The shell prompts when the command before is over: unless a call failed, a
\* process left behind belongs to a command put in the background with "&".
PromptAfterForeground ==
  \A p \in Pid : Doing(p, "getcmd") /\ faults = 0 =>
    \A q \in Pid \ {initproc, p} : proc[q].st # "unused" => proc[q].bg

\* A program that must end before the next prompt, because it is in the foreground or
\* because it writes to a pipe, waits for the user to type.
WaitsForUser(p) == /\ proc[p].st = "prog" /\ proc[p].fds[0] = Console
                   /\ ~proc[p].bg \/ proc[p].fds[1][1] = "w"

\* Again and again there is a prompt and nothing left to reap, unless a program waits
\* for the user, although pipes, lists and background commands wait for each other,
\* although calls fail and although the shell may exit: init reaps what has lost its
\* parent.
PromptReturns ==
  []<>(\/ panicked
       \/ \E p \in Pid : WaitsForUser(p)
       \/ /\ \E p \in Pid : Doing(p, "getcmd")
          /\ \A q \in Pid : proc[q].st # "zombie")
=============================================================================
