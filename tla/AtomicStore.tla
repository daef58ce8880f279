---------------------------- MODULE AtomicStore ----------------------------
(***************************************************************************)
(* What the log of kernel/log.c promises to the file system: a store whose *)
(* writes are grouped by the operations that make them, made durable only  *)
(* when no operation is active, and reset by a crash to what is durable.   *)
(***************************************************************************)
CONSTANTS Proc, Block, Value

VARIABLES mem,      \* what the file system reads
          stable,   \* what a crash leaves
          active    \* the processes inside an operation

vars == <<mem, stable, active>>

Init == /\ mem \in [Block -> Value]
        /\ stable = mem
        /\ active = {}

Begin(p) == /\ p \notin active
            /\ active' = active \cup {p}
            /\ UNCHANGED <<mem, stable>>

Write(p, b, v) == /\ p \in active
                  /\ mem' = [mem EXCEPT ![b] = v]
                  /\ UNCHANGED <<stable, active>>

End(p) == /\ p \in active
          /\ active' = active \ {p}
          /\ UNCHANGED <<mem, stable>>

\* All the operations since the last commit become durable together.
Commit == /\ active = {}
          /\ stable' = mem
          /\ UNCHANGED <<mem, active>>

Crash == /\ mem' = stable
         /\ active' = {}
         /\ UNCHANGED stable

Next == \/ \E p \in Proc : Begin(p) \/ End(p)
        \/ \E p \in Proc, b \in Block, v \in Value : Write(p, b, v)
        \/ Commit
        \/ Crash

Spec == Init /\ [][Next]_vars
============================================================================
