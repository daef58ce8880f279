------------------------------- MODULE Inode -------------------------------
(***************************************************************************)
(* Inodes and directories: the in-memory table of kernel/fs.c (iget,       *)
(* ilock, iput), allocation and release on disk (ialloc, itrunc), path     *)
(* lookup (namex) and the calls of kernel/sysfile.c that make and remove   *)
(* directory entries: open, create, mkdir, link, unlink, and chdir.  All   *)
(* changes of the disk go through the log, whose module takes care of      *)
(* crashes.                                                                *)
(*                                                                         *)
(* The entry of the table for an inode is named by the inode's number; the *)
(* size and blocks of a file are left out.                                 *)
(***************************************************************************)
EXTENDS Naturals, FiniteSets, SequencesExt

CONSTANTS Proc, NInodes, Name,
          Setups,             \* what is run: the number of inodes of the disk, sb.ninodes,
                              \* and the calls that each process makes, a kind and a
                              \* path, a sequence of names, after a "/" if it starts
                              \* at the root; link has a second path, new
          NINODE,             \* entries of the table
          MaxLink,            \* a call of link begins while every file has fewer links
          NoProc

ASSUME InodeAssumption == /\ NInodes \in Nat \ {0} /\ NINODE \in Nat /\ MaxLink \in Nat
                          /\ NoProc \notin Proc
                          /\ \A s \in Setups :
                               /\ s.ninodes \in 1..NInodes
                               /\ \A p \in Proc : \A o \in s.ops[p] : o.path \notin {<<>>, <<"/">>}

Inum == 1..NInodes
ROOTINO == 1

VARIABLES setup,                        \* a member of Setups; never changes
          dtype, dnlink, dents,         \* the inodes on disk
          ref, valid, type, nlink,      \* the inodes in memory
          lock,                         \* ip->lock
          pc, locked,                   \* locked: has the lock that pc is for
          op, path, cur, ip, dp,        \* the variables of a call
          puts, stage,                  \* inodes to put, and where iput is
          fd, cwd,                      \* an open file and the directory of each process
          panicked

disk == <<dtype, dnlink, dents>>
table == <<ref, valid, type, nlink>>
call == <<op, path, cur, ip, dp>>
vars == <<setup, disk, table, lock, pc, locked, call, puts, stage, fd, cwd, panicked>>

NoOp == [kind |-> "none"]

\* The entries of a directory.
Entry == Name \cup {".", ".."}
Empty == [n \in Entry |-> 0]
Dots(i, d) == [Empty EXCEPT !["."] = i, ![".."] = d]

Init == /\ setup \in Setups
        /\ dtype = [i \in Inum |-> IF i = ROOTINO THEN "dir" ELSE "free"]
        /\ dnlink = [i \in Inum |-> IF i = ROOTINO THEN 1 ELSE 0]
        /\ dents = [i \in Inum |-> IF i = ROOTINO THEN Dots(i, i) ELSE Empty]
        /\ ref = [i \in Inum |-> IF i = ROOTINO THEN Cardinality(Proc) ELSE 0]
        /\ valid = [i \in Inum |-> FALSE]
        /\ type = [i \in Inum |-> "free"]
        /\ nlink = [i \in Inum |-> 0]
        /\ lock = [i \in Inum |-> NoProc]
        /\ pc = [p \in Proc |-> "user"]
        /\ locked = [p \in Proc |-> FALSE]
        /\ op = [p \in Proc |-> NoOp]
        /\ path = [p \in Proc |-> <<>>]
        /\ cur = [p \in Proc |-> 0] /\ ip = [p \in Proc |-> 0] /\ dp = [p \in Proc |-> 0]
        /\ puts = [p \in Proc |-> <<>>]
        /\ stage = [p \in Proc |-> "none"]
        /\ fd = [p \in Proc |-> 0]
        /\ cwd = [p \in Proc |-> ROOTINO]
        /\ panicked = "no"

\* p is at l and has put the inodes it had to put.
Ready(p, l) == panicked = "no" /\ pc[p] = l /\ puts[p] = <<>>

\* ... and has the lock that the step at l needs.
At(p, l) == Ready(p, l) /\ locked[p]

\* The next step of p, after putting the inodes in s.
Then(p, l, s) == /\ pc' = [pc EXCEPT ![p] = l]
                 /\ locked' = [locked EXCEPT ![p] = FALSE]
                 /\ puts' = [puts EXCEPT ![p] = s]

Unlock(S) == [i \in Inum |-> IF i \in S THEN NoProc ELSE lock[i]]

Done(p) == /\ op' = [op EXCEPT ![p] = NoOp]
           /\ path' = [path EXCEPT ![p] = <<>>]
           /\ cur' = [cur EXCEPT ![p] = 0]
           /\ ip' = [ip EXCEPT ![p] = 0]
           /\ dp' = [dp EXCEPT ![p] = 0]
----------------------------------------------------------------------------
(* The table of inodes. *)

\* iget, in a table of NINODE entries.
Room(i) == ref[i] > 0 \/ Cardinality({j \in Inum : ref[j] > 0}) < NINODE
iget(i) == /\ ref' = [ref EXCEPT ![i] = @ + 1]
           /\ valid' = [valid EXCEPT ![i] = @ /\ ref[i] > 0]
           /\ panicked' = IF Room(i) THEN "no" ELSE "iget: no inodes"

idup(i) == ref' = [ref EXCEPT ![i] = @ + 1] /\ UNCHANGED <<valid, panicked>>

\* The inode that the step at pc locks first.
Target(p) == IF pc[p] \in {"exists", "new", "victim", "link_bad"} THEN ip[p] ELSE cur[p]

ilock(p) ==
  LET i == Target(p) IN
  /\ panicked = "no" /\ puts[p] = <<>>
  /\ pc[p] /= "user" /\ ~locked[p]
  /\ lock[i] = NoProc
  /\ lock' = [lock EXCEPT ![i] = p]
  /\ locked' = [locked EXCEPT ![p] = TRUE]
  /\ valid' = [valid EXCEPT ![i] = TRUE]
  /\ IF valid[i] THEN UNCHANGED <<type, nlink>>
     ELSE /\ type' = [type EXCEPT ![i] = dtype[i]]
          /\ nlink' = [nlink EXCEPT ![i] = dnlink[i]]
  /\ panicked' = IF ref[i] < 1 THEN "ilock"
                 ELSE IF ~valid[i] /\ dtype[i] = "free" THEN "ilock: no type" ELSE "no"
  /\ UNCHANGED <<disk, ref, pc, call, puts, stage, fd>>

LastRef(i) == ref[i] = 1 /\ valid[i] /\ nlink[i] = 0

\* iput under itable.lock: drop the reference, or lock the inode to free it.
iput(p) ==
  LET i == Head(puts[p]) IN
  /\ panicked = "no" /\ puts[p] /= <<>> /\ stage[p] = "none"
  /\ IF LastRef(i)
     THEN /\ lock[i] = NoProc
          /\ lock' = [lock EXCEPT ![i] = p]
          /\ stage' = [stage EXCEPT ![p] = "free"]
          /\ UNCHANGED <<ref, puts>>
     ELSE /\ ref' = [ref EXCEPT ![i] = @ - 1]
          /\ puts' = [puts EXCEPT ![p] = Tail(@)]
          /\ UNCHANGED <<lock, stage>>
  /\ UNCHANGED <<disk, valid, type, nlink, pc, locked, call, fd, panicked>>

\* itrunc, ip->type = 0 and iupdate.
iput_free(p) ==
  LET i == Head(puts[p]) IN
  /\ panicked = "no" /\ stage[p] = "free"
  /\ dtype' = [dtype EXCEPT ![i] = "free"]
  /\ dents' = [dents EXCEPT ![i] = Empty]
  /\ type' = [type EXCEPT ![i] = "free"]
  /\ stage' = [stage EXCEPT ![p] = "unlock"]
  /\ UNCHANGED <<dnlink, ref, valid, nlink, lock, pc, locked, call, puts, fd, panicked>>

Invalid_Not(i) == valid
Invalid(i) == [valid EXCEPT ![i] = FALSE]

\* ip->valid = 0 and releasesleep.
iput_unlock(p) ==
  LET i == Head(puts[p]) IN
  /\ panicked = "no" /\ stage[p] = "unlock"
  /\ valid' = Invalid(i)
  /\ lock' = Unlock({i})
  /\ stage' = [stage EXCEPT ![p] = "unref"]
  /\ UNCHANGED <<disk, ref, type, nlink, pc, locked, call, puts, fd, panicked>>

iput_unref(p) ==
  /\ panicked = "no" /\ stage[p] = "unref"
  /\ ref' = [ref EXCEPT ![Head(puts[p])] = @ - 1]
  /\ puts' = [puts EXCEPT ![p] = Tail(@)]
  /\ stage' = [stage EXCEPT ![p] = "none"]
  /\ UNCHANGED <<disk, valid, type, nlink, lock, pc, locked, call, fd, panicked>>

\* A change of the link counts of locked inodes, with iupdate.
SetLinks(f) == nlink' = f @@ nlink /\ dnlink' = f @@ dnlink
----------------------------------------------------------------------------
(* Path lookup. *)

\* Where a call goes on after the walk along its path, or if that fails.
AfterWalk(p) == CASE op[p].kind = "open" -> "opened"
                  [] op[p].kind = "chdir" -> "chdir"
                  [] op[p].kind \in {"create", "mkdir"} -> "create"
                  [] op[p].kind = "unlink" -> "unlink"
                  [] OTHER -> IF ip[p] = 0 THEN "link_old" ELSE "link_new"
OnFail(p) == IF op[p].kind = "link" /\ ip[p] /= 0 THEN "link_bad" ELSE "user"

nameiparent(p) == AfterWalk(p) \in {"create", "unlink", "link_new"}

\* namex starts at the root, or with idup at the directory of the process.
Absolute(s) == Head(s) = "/"
Start(p, s) ==
  /\ path' = [path EXCEPT ![p] = IF Absolute(s) THEN Tail(s) ELSE s]
  /\ cur' = [cur EXCEPT ![p] = IF Absolute(s) THEN ROOTINO ELSE cwd[p]]
  /\ IF Absolute(s) THEN iget(ROOTINO) ELSE idup(cwd[p])
  /\ Then(p, "walk", <<>>)

\* A call begins.
begin(p, o) ==
  /\ Ready(p, "user")
  /\ o.kind \in {"open", "create"} => fd[p] = 0
  /\ o.kind = "link" => \A i \in Inum : dtype[i] = "file" => dnlink[i] < MaxLink
  /\ op' = [op EXCEPT ![p] = o]
  /\ Start(p, o.path)
  /\ UNCHANGED <<disk, type, nlink, lock, ip, dp, stage, fd>>

GiveUp_Keep(i) == <<>>
GiveUp(i) == <<i>>

\* One pass of namex's loop, with ip locked: dirlookup, and iunlockput.
namex(p) ==
  LET i == cur[p]
      next == dents[i][Head(path[p])]
  IN
  /\ At(p, "walk")
  /\ lock' = Unlock({i})
  /\ \/ /\ type[i] /= "dir" \/ (next = 0 /\ ~(nameiparent(p) /\ Len(path[p]) = 1))
        /\ Then(p, OnFail(p), GiveUp(i))
        /\ IF OnFail(p) = "user" THEN Done(p) ELSE UNCHANGED call
        /\ UNCHANGED <<ref, valid, panicked>>
     \/ /\ type[i] = "dir" /\ nameiparent(p) /\ Len(path[p]) = 1
        /\ Then(p, AfterWalk(p), <<>>)
        /\ UNCHANGED <<ref, valid, call, panicked>>
     \/ /\ type[i] = "dir" /\ next /= 0 /\ ~(nameiparent(p) /\ Len(path[p]) = 1)
        /\ iget(next)
        /\ cur' = [cur EXCEPT ![p] = next]
        /\ path' = [path EXCEPT ![p] = Tail(@)]
        /\ Then(p, IF Len(path[p]) = 1 THEN AfterWalk(p) ELSE "walk", <<i>>)
        /\ UNCHANGED <<op, ip, dp>>
  /\ UNCHANGED <<disk, type, nlink, stage, fd>>
----------------------------------------------------------------------------
(* open, chdir and close. *)

\* A call returns with an inode open.
Opens(p, i) == /\ fd' = [fd EXCEPT ![p] = i]
               /\ lock' = Unlock({i})
               /\ Then(p, "user", <<>>)
               /\ Done(p)

\* iunlockput, and the call returns.
Leaves(p, i) == /\ lock' = Unlock({i})
                /\ Then(p, "user", <<i>>)
                /\ Done(p)
                /\ UNCHANGED fd

\* open fails without a file or a descriptor, or on a directory to be written.
sys_open(p) ==
  /\ At(p, "opened")
  /\ Opens(p, cur[p]) \/ Leaves(p, cur[p])
  /\ UNCHANGED <<disk, table, stage, panicked>>

\* chdir keeps the reference to the new directory and puts the old one.
sys_chdir(p) ==
  LET i == cur[p] IN
  /\ At(p, "chdir")
  /\ \/ /\ type[i] /= "dir"
        /\ Leaves(p, i)
        /\ UNCHANGED cwd
     \/ /\ type[i] = "dir"
        /\ lock' = Unlock({i})
        /\ cwd' = [cwd EXCEPT ![p] = i]
        /\ Then(p, "user", <<cwd[p]>>)
        /\ Done(p)
        /\ UNCHANGED fd
  /\ UNCHANGED <<disk, table, stage, panicked>>

fileclose(p) ==
  /\ Ready(p, "user") /\ fd[p] /= 0
  /\ fd' = [fd EXCEPT ![p] = 0]
  /\ puts' = [puts EXCEPT ![p] = <<fd[p]>>]
  /\ UNCHANGED <<disk, table, lock, pc, locked, call, stage, panicked>>
----------------------------------------------------------------------------
(* create. *)

Leaf(p) == path[p][1]

FreeInodes == {i \in 1..setup.ninodes : dtype[i] = "free"}
Kind(p) == IF op[p].kind = "mkdir" THEN "dir" ELSE "file"

\* dirlookup in the locked parent, and ialloc if the name is new.
create(p) ==
  LET d == cur[p]
      old == dents[d][Leaf(p)]
      i == CHOOSE j \in FreeInodes : \A k \in FreeInodes : j <= k
  IN
  /\ At(p, "create")
  /\ \/ /\ old /= 0
        /\ iget(old)
        /\ ip' = [ip EXCEPT ![p] = old]
        /\ lock' = Unlock({d})
        /\ Then(p, "exists", <<d>>)
        /\ UNCHANGED <<disk, op, path, cur, dp>>
     \/ /\ old = 0 /\ FreeInodes /= {}
        /\ dtype' = [dtype EXCEPT ![i] = Kind(p)]
        /\ dnlink' = [dnlink EXCEPT ![i] = 0]
        /\ iget(i)
        /\ ip' = [ip EXCEPT ![p] = i]
        /\ dp' = [dp EXCEPT ![p] = d]
        /\ Then(p, "new", <<>>)
        /\ UNCHANGED <<dents, lock, op, path, cur>>
     \/ /\ old = 0 /\ FreeInodes = {}
        /\ lock' = Unlock({d})
        /\ Then(p, "user", <<d>>)
        /\ Done(p)
        /\ UNCHANGED <<disk, ref, valid, panicked>>
  /\ UNCHANGED <<type, nlink, stage, fd>>

create_exists(p) ==
  /\ At(p, "exists")
  /\ \/ /\ op[p].kind = "create" /\ type[ip[p]] = "file"
        /\ Opens(p, ip[p])
     \/ Leaves(p, ip[p])
  /\ UNCHANGED <<disk, table, stage, panicked>>

\* What create has written to a new directory i when a dirlink fails.
Partial(i, d) == {Empty, [Empty EXCEPT !["."] = i], Dots(i, d)}

\* The new inode is locked: link it, or give it up when a dirlink fails.
create_new(p) ==
  LET i == ip[p]
      d == dp[p]
      dir == Kind(p) = "dir"
  IN
  /\ At(p, "new")
  /\ \/ /\ dents' = [dents EXCEPT ![d][Leaf(p)] = i, ![i] = IF dir THEN Dots(i, d) ELSE @]
        /\ SetLinks((i :> 1) @@ (d :> IF dir THEN nlink[d] + 1 ELSE nlink[d]))
        /\ lock' = Unlock({d})
        /\ pc' = [pc EXCEPT ![p] = "made"]
        /\ puts' = [puts EXCEPT ![p] = <<d>>]
        /\ UNCHANGED <<locked, call>>
     \/ /\ \E e \in IF dir THEN Partial(i, d) ELSE {Empty} : dents' = [dents EXCEPT ![i] = e]
        /\ SetLinks(i :> 0)
        /\ lock' = Unlock({i, d})
        /\ Then(p, "user", <<i, d>>)
        /\ Done(p)
  /\ UNCHANGED <<dtype, ref, valid, type, stage, fd, panicked>>

\* create returns the locked inode to sys_open or sys_mkdir.
create_made(p) ==
  /\ At(p, "made")
  /\ \/ Kind(p) = "file" /\ Opens(p, ip[p])
     \/ Leaves(p, ip[p])
  /\ UNCHANGED <<disk, table, stage, panicked>>
----------------------------------------------------------------------------
(* unlink. *)

unlink_lookup(p) ==
  LET d == cur[p]
      i == dents[d][Leaf(p)]
  IN
  /\ At(p, "unlink")
  /\ \/ /\ i = 0 \/ Leaf(p) \in {".", ".."}
        /\ lock' = Unlock({d})
        /\ Then(p, "user", <<d>>)
        /\ Done(p)
        /\ UNCHANGED <<ref, valid, panicked>>
     \/ /\ i /= 0 /\ Leaf(p) \notin {".", ".."}
        /\ iget(i)
        /\ ip' = [ip EXCEPT ![p] = i]
        /\ dp' = [dp EXCEPT ![p] = d]
        /\ Then(p, "victim", <<>>)
        /\ UNCHANGED <<lock, op, path, cur>>
  /\ UNCHANGED <<disk, type, nlink, stage, fd>>

isdirempty(i) == \A n \in Name : dents[i][n] = 0

\* Both are locked: clear the entry, unless it is a directory in use.
unlink_clear(p) ==
  LET i == ip[p]
      d == dp[p]
  IN
  /\ At(p, "victim")
  /\ panicked' = IF nlink[i] < 1 THEN "unlink: nlink < 1" ELSE "no"
  /\ \/ /\ type[i] = "dir" /\ ~isdirempty(i)
        /\ lock' = Unlock({i, d})
        /\ Then(p, "user", <<i, d>>)
        /\ Done(p)
        /\ UNCHANGED <<dents, nlink, dnlink>>
     \/ /\ type[i] /= "dir" \/ isdirempty(i)
        /\ dents' = [dents EXCEPT ![d][Leaf(p)] = 0]
        /\ SetLinks(d :> IF type[i] = "dir" THEN nlink[d] - 1 ELSE nlink[d])
        /\ lock' = Unlock({d})
        /\ pc' = [pc EXCEPT ![p] = "drop"]
        /\ puts' = [puts EXCEPT ![p] = <<d>>]
        /\ UNCHANGED <<locked, call>>
  /\ UNCHANGED <<dtype, ref, valid, type, stage, fd>>

\* nlink-- and iunlockput of an inode that p has locked.
DropLink(p, i) == /\ SetLinks(i :> nlink[i] - 1)
                  /\ lock' = Unlock({i})
                  /\ Then(p, "user", <<i>>)
                  /\ Done(p)
                  /\ UNCHANGED <<dtype, dents, ref, valid, type, stage, fd, panicked>>

unlink_drop(p) == At(p, "drop") /\ DropLink(p, ip[p])
----------------------------------------------------------------------------
(* link. *)

OneMore_Not(i) == nlink[i]
OneMore(i) == nlink[i] + 1

\* nlink++ for the old path, then the walk along the new one.
link_old(p) ==
  LET i == cur[p] IN
  /\ At(p, "link_old")
  /\ lock' = Unlock({i})
  /\ \/ /\ type[i] = "dir"
        /\ Then(p, "user", <<i>>)
        /\ Done(p)
        /\ UNCHANGED <<nlink, dnlink, ref, valid, panicked>>
     \/ /\ type[i] /= "dir"
        /\ SetLinks(i :> OneMore(i))
        /\ ip' = [ip EXCEPT ![p] = i]
        /\ Start(p, op[p].new)
        /\ UNCHANGED <<op, dp>>
  /\ UNCHANGED <<dtype, dents, type, stage, fd>>

\* dirlink in the locked parent: it fails if the name is there, which it looks up
\* and puts again, or if the disk is full.
link_new(p) ==
  LET d == cur[p]
      old == dents[d][Leaf(p)]
  IN
  /\ At(p, "link_new")
  /\ \/ /\ old = 0
        /\ dents' = [dents EXCEPT ![d][Leaf(p)] = ip[p]]
        /\ lock' = Unlock({d})
        /\ Then(p, "user", <<d, ip[p]>>)
        /\ Done(p)
        /\ UNCHANGED <<ref, valid, panicked>>
     \/ /\ old /= 0
        /\ iget(old)
        /\ pc' = [pc EXCEPT ![p] = "link_dup"]
        /\ puts' = [puts EXCEPT ![p] = <<old>>]
        /\ UNCHANGED <<dents, lock, locked, call>>
     \/ /\ old = 0
        /\ lock' = Unlock({d})
        /\ Then(p, "link_bad", <<d>>)
        /\ UNCHANGED <<dents, ref, valid, call, panicked>>
  /\ UNCHANGED <<dtype, dnlink, type, nlink, stage, fd>>

link_dup(p) ==
  /\ At(p, "link_dup")
  /\ lock' = Unlock({cur[p]})
  /\ Then(p, "link_bad", <<cur[p]>>)
  /\ UNCHANGED <<disk, table, call, stage, fd, panicked>>

link_bad(p) == At(p, "link_bad") /\ DropLink(p, ip[p])
----------------------------------------------------------------------------
\* The steps that leave cwd alone: all but chdir's.
CallStep(p) ==
  \/ \E o \in setup.ops[p] : begin(p, o)
  \/ ilock(p) \/ iput(p) \/ iput_free(p) \/ iput_unlock(p) \/ iput_unref(p)
  \/ namex(p) \/ sys_open(p) \/ fileclose(p)
  \/ create(p) \/ create_exists(p) \/ create_new(p) \/ create_made(p)
  \/ unlink_lookup(p) \/ unlink_clear(p) \/ unlink_drop(p)
  \/ link_old(p) \/ link_new(p) \/ link_dup(p) \/ link_bad(p)

\* panic does not return.
panic == panicked /= "no" /\ UNCHANGED vars

Next == \/ panic
        \/ \E p \in Proc : /\ sys_chdir(p) \/ (CallStep(p) /\ UNCHANGED cwd)
                          /\ UNCHANGED setup

Spec == Init /\ [][Next]_vars
----------------------------------------------------------------------------
(* Properties. *)

Types == {"free", "dir", "file"}
Pcs == {"user", "walk", "opened", "create", "exists", "new", "made", "unlink", "victim",
        "drop", "link_old", "link_new", "link_dup", "link_bad", "chdir"}

\* The variables have their types.
TypeOK ==
  /\ dtype \in [Inum -> Types] /\ type \in [Inum -> Types]
  /\ dnlink \in [Inum -> Nat] /\ nlink \in [Inum -> Nat]
  /\ dents \in [Inum -> [Entry -> Inum \cup {0}]]
  /\ ref \in [Inum -> Nat]
  /\ valid \in [Inum -> BOOLEAN]
  /\ lock \in [Inum -> Proc \cup {NoProc}]
  /\ pc \in [Proc -> Pcs] /\ locked \in [Proc -> BOOLEAN]
  /\ \A p \in Proc : op[p] \in setup.ops[p] \cup {NoOp}
  /\ cur \in [Proc -> Inum \cup {0}] /\ ip \in [Proc -> Inum \cup {0}]
  /\ dp \in [Proc -> Inum \cup {0}] /\ fd \in [Proc -> Inum \cup {0}]
  /\ cwd \in [Proc -> Inum]
  /\ \A p \in Proc : Len(puts[p]) <= 2 /\ ToSet(puts[p]) \subseteq Inum
  /\ stage \in [Proc -> {"none", "free", "unlock", "unref"}]

\* The pointers to inodes in the variables of a call.
Pointers(p) ==
  CASE pc[p] \in {"walk", "opened", "chdir", "create", "unlink", "link_old", "link_new",
                 "link_dup"} ->
         IF op[p].kind = "link" /\ ip[p] /= 0 THEN <<cur[p], ip[p]>> ELSE <<cur[p]>>
    [] pc[p] \in {"new", "victim"} -> <<ip[p], dp[p]>>
    [] pc[p] \in {"exists", "made", "drop", "link_bad"} -> <<ip[p]>>
    [] OTHER -> <<>>

All(p) == Pointers(p) \o puts[p] \o <<fd[p], cwd[p]>>

\* "ip->ref tracks the number of in-memory pointers to the entry"
\* (fs.c:133-134), through every failure of every call.
RefsExact ==
  LET held == [p \in Proc |-> All(p)] IN
  \A i \in Inum :
    ref[i] = Cardinality({<<p, k>> \in Proc \X (1..6) : k \in DOMAIN held[p] /\ held[p][k] = i})

\* A locked or unlocked entry that is valid agrees with the disk: an inode
\* that is freed and allocated again while it is in the table is read anew.
CacheCoherent ==
  \A i \in Inum : (/\ ref[i] > 0 /\ valid[i]
                    /\ \A p \in Proc : stage[p] = "unlock" => Head(puts[p]) /= i)
                   => type[i] = dtype[i] /\ nlink[i] = dnlink[i]

\* "ip->ref == 1 means no other process can have ip locked, so this
\* acquiresleep() won't block (or deadlock)" (fs.c:344-345); it is called with
\* itable.lock held.
IputNeverBlocks ==
  \A p \in Proc : (puts[p] /= <<>> /\ stage[p] = "none" /\ LastRef(Head(puts[p])))
                   => lock[Head(puts[p])] = NoProc

Entries(i) == {<<d, n>> \in Inum \X Name : dents[d][n] = i}

\* No name is left to a free inode, and a link count is never lower than the number
\* of names, so that no file is freed under one.  ".." is not such a name: that of a
\* removed directory that a process is still in outlives its parent.
NoDangling ==
  \A i \in Inum : Entries(i) /= {} =>
    dtype[i] /= "free" /\ Cardinality(Entries(i)) <= dnlink[i]

\* The only panics are iget's of a full table, and ilock's of a free inode, which
\* takes the ".." of a directory that has outlived its parent.
PanicsKnown ==
  /\ panicked \in {"no", "iget: no inodes", "ilock: no type"}
  /\ panicked = "ilock: no type" =>
       \E i, d \in Inum : /\ lock[i] /= NoProc /\ dtype[i] = "free"
                          /\ ref[d] > 0 /\ dents[d][".."] = i

\* The table counts its references exactly, so that iput finds the last one
\* unlocked (RefsExact, IputNeverBlocks), and nothing panics but as PanicsKnown says.
\* The variables keep their types.
TableExact == TypeOK /\ PanicsKnown /\ RefsExact /\ IputNeverBlocks
============================================================================
