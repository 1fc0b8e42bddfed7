----------------------------- MODULE AtomicDisk -----------------------------
(***************************************************************************)
(* What the logging layer of the kernel promises to the file system: a     *)
(* disk whose blocks change only in whole transactions.  File-system calls *)
(* run as operations and modify blocks in memory; everything that finished *)
(* operations wrote becomes durable in one step, never while an operation  *)
(* is still running, and a crash brings back exactly what was durable.     *)
(***************************************************************************)

CONSTANTS Proc,      \* processes that make file-system calls
          Home,      \* the blocks of the file system
          Data       \* what a block can hold

VARIABLES mem,       \* the file system as the running kernel sees it
          durable,   \* the file system a reboot would find
          active     \* the processes inside an operation

vars == <<mem, durable, active>>

Init ==
    /\ mem \in [Home -> Data]
    /\ durable = mem
    /\ active = {}

Begin(p) ==
    /\ p \notin active
    /\ active' = active \cup {p}
    /\ UNCHANGED <<mem, durable>>

Write(p, b, v) ==
    /\ p \in active
    /\ mem' = [mem EXCEPT ![b] = v]
    /\ UNCHANGED <<durable, active>>

End(p) ==
    /\ p \in active
    /\ active' = active \ {p}
    /\ UNCHANGED <<mem, durable>>

Commit ==
    /\ active = {}
    /\ durable' = mem
    /\ UNCHANGED <<mem, active>>

Crash ==
    /\ mem' = durable
    /\ active' = {}
    /\ UNCHANGED durable

Next ==
    \/ \E p \in Proc :
         \/ Begin(p)
         \/ End(p)
         \/ \E b \in Home, v \in Data : Write(p, b, v)
    \/ Commit
    \/ Crash

Spec == Init /\ [][Next]_vars
=============================================================================
