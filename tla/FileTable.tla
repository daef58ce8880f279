----------------------------- MODULE FileTable -----------------------------
(***************************************************************************)
(* Open files: the table of kernel/file.c, the descriptors of processes,   *)
(* and the calls that make, share and drop references to files: open,      *)
(* pipe, dup, close (kernel/sysfile.c, pipealloc) and the parts of fork    *)
(* and exit that copy and close descriptors (kernel/proc.c).  Each call    *)
(* can fail halfway, for want of a file, a page or a descriptor.           *)
(***************************************************************************)
EXTENDS Naturals, FiniteSets, SequencesExt

CONSTANTS Proc, Page,        \* Page: pages that kalloc may give to a pipe
          NFILE, NOFILE,
          initproc,          \* the process that does not exit
          NoProc, NoPage

ASSUME FileAssumption == /\ NFILE \in Nat /\ NOFILE \in Nat
                         /\ initproc \in Proc /\ NoProc \notin Proc /\ NoPage \notin Page

File == 1..NFILE
Fd == 0..NOFILE - 1

VARIABLES file,              \* ftable: reference count, type, pipe, writable
          pipe,              \* the open ends of each page that is a pipe
          allocated,         \* pages in use
          iref,              \* references to in-memory inodes (iget, iput)
          ofile,             \* descriptors of each process; 0 is none
          alive,             \* processes that exist
          pc,
          local,             \* files a call has in its variables
          closing,           \* files a call has still to close
          copy,              \* ff, fileclose's copy of a file it has freed
          child, fd,         \* the variables of fork's loop
          panicked

vars == <<file, pipe, allocated, iref, ofile, alive, pc, local, closing, copy, child,
          fd, panicked>>

NoFile == [ref |-> 0, type |-> "FD_NONE", page |-> NoPage, writable |-> FALSE]

Init == /\ file = [f \in File |-> NoFile]
        /\ pipe = [g \in Page |-> {}]
        /\ allocated = {}
        /\ iref = 0
        /\ ofile = [p \in Proc |-> [d \in Fd |-> 0]]
        /\ alive = {initproc}
        /\ pc = [p \in Proc |-> "user"]
        /\ local = [p \in Proc |-> <<>>]
        /\ closing = [p \in Proc |-> <<>>]
        /\ copy = [p \in Proc |-> NoFile]
        /\ child = [p \in Proc |-> NoProc]
        /\ fd = [p \in Proc |-> 0]
        /\ panicked = FALSE

\* p is at l, and has closed what it had to close.
At(p, l) == ~panicked /\ p \in alive /\ pc[p] = l /\ closing[p] = <<>> /\ copy[p] = NoFile
Goto(p, l) == pc' = [pc EXCEPT ![p] = l]

FreeFd(p) == {d \in Fd : ofile[p][d] = 0}
LowestOf(S) == CHOOSE d \in S : \A e \in S : d <= e
----------------------------------------------------------------------------
(* file.c. *)

Unused == {f \in File : file[f].ref = 0}

\* filealloc with a free entry; the call keeps the file in a variable.
filealloc(p) ==
  /\ Unused /= {}
  /\ file' = [file EXCEPT ![LowestOf(Unused)].ref = 1]
  /\ local' = [local EXCEPT ![p] = Append(@, LowestOf(Unused))]

\* A call gives up: it will close the files it has got.
Undo(p) == /\ closing' = [closing EXCEPT ![p] = local[p]]
           /\ local' = [local EXCEPT ![p] = <<>>]

\* A freed entry; its pipe and writable are dead until the next use.
Freed(f) == NoFile

\* fileclose, under ftable.lock.
fileclose(p) ==
  LET f == Head(closing[p]) IN
  /\ ~panicked /\ p \in alive
  /\ closing[p] /= <<>> /\ copy[p] = NoFile
  /\ panicked' = (file[f].ref < 1)
  /\ closing' = [closing EXCEPT ![p] = Tail(@)]
  /\ IF file[f].ref = 1
     THEN /\ file' = [file EXCEPT ![f] = Freed(f)]
          /\ copy' = [copy EXCEPT ![p] = [file[f] EXCEPT !.ref = 0]]
     ELSE file' = [file EXCEPT ![f].ref = @ - 1] /\ UNCHANGED copy
  /\ UNCHANGED <<pipe, allocated, iref, ofile, alive, pc, local, child, fd>>

\* The rest of fileclose: pipeclose or iput, by the copy of the file.
LastEnd_Reader(g, end) == end = "r"
LastEnd(g, end) == pipe[g] \ {end} = {}

fileclose_drop(p) ==
  LET ff == copy[p]
      end == IF ff.writable THEN "w" ELSE "r"
  IN
  /\ ~panicked
  /\ ff /= NoFile
  /\ copy' = [copy EXCEPT ![p] = NoFile]
  /\ IF ff.type = "FD_PIPE"
     THEN /\ pipe' = [pipe EXCEPT ![ff.page] = @ \ {end}]
          /\ allocated' = IF LastEnd(ff.page, end) THEN allocated \ {ff.page} ELSE allocated
          /\ UNCHANGED iref
     ELSE /\ iref' = IF ff.type = "FD_INODE" THEN iref - 1 ELSE iref
          /\ UNCHANGED <<pipe, allocated>>
  /\ UNCHANGED <<file, ofile, alive, pc, local, closing, child, fd, panicked>>
----------------------------------------------------------------------------
(* sys_open, from the inode that namei or create returned. *)

open_namei(p) ==
  /\ At(p, "user")
  /\ iref' = iref + 1
  /\ Goto(p, "open")
  /\ UNCHANGED <<file, pipe, allocated, ofile, alive, local, closing, copy, child, fd,
                 panicked>>

open_filealloc(p) ==
  /\ At(p, "open")
  /\ \/ filealloc(p) /\ Goto(p, "open_fd")
     \/ Unused = {} /\ Goto(p, "open_bad") /\ UNCHANGED <<file, local>>
  /\ UNCHANGED <<pipe, allocated, iref, ofile, alive, closing, copy, child, fd, panicked>>

open_fdalloc(p) ==
  LET f == local[p][1] IN
  /\ At(p, "open_fd")
  /\ \/ /\ FreeFd(p) /= {}
        /\ ofile' = [ofile EXCEPT ![p][LowestOf(FreeFd(p))] = f]
        /\ file' = [file EXCEPT ![f].type = "FD_INODE"]
        /\ local' = [local EXCEPT ![p] = <<>>]
        /\ Goto(p, "user")
        /\ UNCHANGED closing
     \/ /\ FreeFd(p) = {}
        /\ Undo(p)
        /\ Goto(p, "open_bad")
        /\ UNCHANGED <<ofile, file>>
  /\ UNCHANGED <<pipe, allocated, iref, alive, copy, child, fd, panicked>>

Put == iref - 1

\* iunlockput on the way out.
open_bad(p) ==
  /\ At(p, "open_bad")
  /\ iref' = Put
  /\ Goto(p, "user")
  /\ UNCHANGED <<file, pipe, allocated, ofile, alive, local, closing, copy, child, fd,
                 panicked>>
----------------------------------------------------------------------------
(* sys_pipe and pipealloc. *)

pipe_filealloc(p, l, m) ==
  /\ At(p, l)
  /\ \/ filealloc(p) /\ Goto(p, m) /\ UNCHANGED closing
     \/ Unused = {} /\ Undo(p) /\ Goto(p, "user") /\ UNCHANGED file
  /\ UNCHANGED <<pipe, allocated, iref, ofile, alive, copy, child, fd, panicked>>

\* kalloc, and the setting up of the two files.
pipe_kalloc(p) ==
  LET rf == local[p][1]
      wf == local[p][2]
  IN
  /\ At(p, "pipe_page")
  /\ \/ \E g \in Page \ allocated :
          /\ allocated' = allocated \cup {g}
          /\ pipe' = [pipe EXCEPT ![g] = {"r", "w"}]
          /\ file' = [file EXCEPT ![rf].type = "FD_PIPE", ![rf].page = g, ![rf].writable = FALSE,
                                  ![wf].type = "FD_PIPE", ![wf].page = g, ![wf].writable = TRUE]
          /\ Goto(p, "pipe_fd")
          /\ UNCHANGED <<local, closing>>
     \/ Undo(p) /\ Goto(p, "user") /\ UNCHANGED <<allocated, pipe, file>>
  /\ UNCHANGED <<iref, ofile, alive, copy, child, fd, panicked>>

Cleared_Not(p) ==
  IF FreeFd(p) = {} THEN ofile[p] ELSE [ofile[p] EXCEPT ![LowestOf(FreeFd(p))] = local[p][1]]
Cleared(p) == ofile[p]

\* Two descriptors, and their copyout; when one of these fails the first
\* descriptor is cleared again.
pipe_fdalloc(p) ==
  LET d == LowestOf(FreeFd(p))
      e == LowestOf(FreeFd(p) \ {d})
  IN
  /\ At(p, "pipe_fd")
  /\ Goto(p, "user")
  /\ \/ /\ Cardinality(FreeFd(p)) >= 2
        /\ ofile' = [ofile EXCEPT ![p][d] = local[p][1], ![p][e] = local[p][2]]
        /\ local' = [local EXCEPT ![p] = <<>>]
        /\ UNCHANGED closing
     \/ ofile' = [ofile EXCEPT ![p] = Cleared(p)] /\ Undo(p)
  /\ UNCHANGED <<file, pipe, allocated, iref, alive, copy, child, fd, panicked>>
----------------------------------------------------------------------------
(* dup, close, fork and exit. *)

Dup(f) == [file EXCEPT ![f].ref = @ + 1]

\* fdalloc and filedup.
sys_dup(p, d) ==
  /\ At(p, "user")
  /\ ofile[p][d] /= 0 /\ FreeFd(p) /= {}
  /\ panicked' = (file[ofile[p][d]].ref < 1)
  /\ ofile' = [ofile EXCEPT ![p][LowestOf(FreeFd(p))] = ofile[p][d]]
  /\ file' = Dup(ofile[p][d])
  /\ UNCHANGED <<pipe, allocated, iref, alive, pc, local, closing, copy, child, fd>>

sys_close(p, d) ==
  /\ At(p, "user")
  /\ ofile[p][d] /= 0
  /\ ofile' = [ofile EXCEPT ![p][d] = 0]
  /\ closing' = [closing EXCEPT ![p] = <<ofile[p][d]>>]
  /\ UNCHANGED <<file, pipe, allocated, iref, alive, pc, local, copy, child, fd, panicked>>

fork(p, c) ==
  /\ At(p, "user")
  /\ c \notin alive /\ \A q \in Proc : child[q] /= c
  /\ child' = [child EXCEPT ![p] = c]
  /\ fd' = [fd EXCEPT ![p] = 0]
  /\ Goto(p, "fork")
  /\ UNCHANGED <<file, pipe, allocated, iref, ofile, alive, local, closing, copy, panicked>>

\* One pass of fork's loop over descriptors, or its end.
fork_filedup(p) ==
  LET f == ofile[p][fd[p]] IN
  /\ At(p, "fork")
  /\ \/ /\ fd[p] < NOFILE
        /\ ofile' = [ofile EXCEPT ![child[p]][fd[p]] = f]
        /\ file' = IF f = 0 THEN file ELSE Dup(f)
        /\ panicked' = (f /= 0 /\ file[f].ref < 1)
        /\ fd' = [fd EXCEPT ![p] = @ + 1]
        /\ UNCHANGED <<alive, pc, child>>
     \/ /\ fd[p] = NOFILE
        /\ alive' = alive \cup {child[p]}
        /\ child' = [child EXCEPT ![p] = NoProc]
        /\ fd' = [fd EXCEPT ![p] = 0]
        /\ Goto(p, "user")
        /\ UNCHANGED <<ofile, file, panicked>>
  /\ UNCHANGED <<pipe, allocated, iref, local, closing, copy>>

\* One pass of exit's loop over descriptors, or its end.
exit(p) ==
  /\ At(p, "exit") \/ (At(p, "user") /\ p /= initproc)
  /\ \/ \E d \in Fd :
          /\ ofile[p][d] /= 0 /\ \A e \in 0..d - 1 : ofile[p][e] = 0
          /\ closing' = [closing EXCEPT ![p] = <<ofile[p][d]>>]
          /\ ofile' = [ofile EXCEPT ![p][d] = 0]
          /\ Goto(p, "exit")
          /\ UNCHANGED alive
     \/ /\ FreeFd(p) = Fd
        /\ alive' = alive \ {p}
        /\ Goto(p, "user")
        /\ UNCHANGED <<closing, ofile>>
  /\ UNCHANGED <<file, pipe, allocated, iref, local, copy, child, fd, panicked>>
----------------------------------------------------------------------------
Next == \E p \in Proc :
          \/ fileclose(p) \/ fileclose_drop(p)
          \/ open_namei(p) \/ open_filealloc(p) \/ open_fdalloc(p) \/ open_bad(p)
          \/ pipe_filealloc(p, "user", "pipe_file") \/ pipe_filealloc(p, "pipe_file", "pipe_page")
          \/ pipe_kalloc(p) \/ pipe_fdalloc(p)
          \/ \E d \in Fd : sys_dup(p, d) \/ sys_close(p, d)
          \/ \E c \in Proc : fork(p, c)
          \/ fork_filedup(p) \/ exit(p)

Spec == Init /\ [][Next]_vars
----------------------------------------------------------------------------
(* Properties. *)

FileType == [ref : Nat, type : {"FD_NONE", "FD_PIPE", "FD_INODE"}, page : Page \cup {NoPage},
             writable : BOOLEAN]

\* The variables have their types.
TypeOK ==
  /\ file \in [File -> FileType]
  /\ pipe \in [Page -> SUBSET {"r", "w"}]
  /\ allocated \subseteq Page
  /\ iref \in Nat
  /\ ofile \in [Proc -> [Fd -> File \cup {0}]]
  /\ alive \subseteq Proc
  /\ pc \in [Proc -> {"user", "open", "open_fd", "open_bad", "pipe_file", "pipe_page",
                      "pipe_fd", "fork", "exit"}]
  /\ \A p \in Proc : ToSet(local[p]) \cup ToSet(closing[p]) \subseteq File
  /\ copy \in [Proc -> FileType]
  /\ child \in [Proc -> Proc \cup {NoProc}]
  /\ fd \in [Proc -> 0..NOFILE]
  /\ panicked \in BOOLEAN

Slots(f) == {<<p, d>> \in Proc \X Fd : ofile[p][d] = f}
InVariables(f) == {<<p, k>> \in Proc \X (1..2) :
                     \/ k <= Len(local[p]) /\ local[p][k] = f
                     \/ k <= Len(closing[p]) /\ closing[p][k] = f}

\* A file is referred to exactly as often as it counts, by descriptors and by
\* calls on their way, through every partial failure: no file is freed while
\* in use, none leaks, and filedup and fileclose never panic (file.c:51,65).
\* The variables keep their types.
RefsExact ==
  /\ TypeOK /\ ~panicked
  /\ \A f \in File : file[f].ref = Cardinality(Slots(f)) + Cardinality(InVariables(f))

IsEnd(ff, g, w) == ff.type = "FD_PIPE" /\ ff.page = g /\ ff.writable = (w = "w")

\* What files stand for is held exactly as long as they need it.  An end of a
\* pipe is open as long as a file for it, or the copy that a fileclose is about
\* to drop, exists; the page is free when both are closed.  Every reference to
\* an inode belongs to a file, to a fileclose, or to an open on its way; a
\* failed open gives its own back (sysfile.c:345-346).
ObjectsExact ==
  /\ \A g \in Page :
       /\ g \in allocated <=> pipe[g] /= {}
       /\ \A w \in {"r", "w"} :
            w \in pipe[g] <=> \/ \E f \in File : file[f].ref > 0 /\ IsEnd(file[f], g, w)
                             \/ \E p \in Proc : IsEnd(copy[p], g, w)
  /\ iref = Cardinality({f \in File : /\ file[f].ref > 0 /\ file[f].type = "FD_INODE"
                                      /\ \A p \in Proc : f \notin ToSet(local[p])})
            + Cardinality({p \in Proc : copy[p].type = "FD_INODE"})
            + Cardinality({p \in Proc : pc[p] \in {"open", "open_fd", "open_bad"}})

\* open closes its file inside a file-system operation; fileclose must not
\* begin another one there, which could wait for the first for ever.  So an
\* entry that filealloc returns has no type left over from its last use.
NoNestedOp ==
  \A p \in Proc :
    /\ pc[p] = "open_fd" => \A f \in ToSet(local[p]) : file[f].type = "FD_NONE"
    /\ pc[p] = "open_bad" => copy[p].type /= "FD_INODE"

\* Files are counted exactly and closed once, also in the middle of a
\* file-system operation (RefsExact, NoNestedOp).
FilesExact == RefsExact /\ NoNestedOp
============================================================================
