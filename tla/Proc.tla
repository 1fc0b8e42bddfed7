-------------------------------- MODULE Proc --------------------------------
(***************************************************************************)
(* The process table (kernel/proc.c): fork, exit, wait, kill and the       *)
(* scheduler, at the grain of the spin locks proc[i].lock.                 *)
(*                                                                         *)
(* A section that takes one lock, and no other while it has it, is one     *)
(* step, enabled when the lock is free.  exit and wait hold several of     *)
(* them at once; each acquire of theirs is a step of its own, and so is    *)
(* each unlocked read of a parent field.  There are as many CPUs as        *)
(* processes: a process that spins has interrupts off and keeps its CPU.   *)
(* Sleeping anywhere but in wait is left to the models of the callers.     *)
(***************************************************************************)
EXTENDS Integers, FiniteSets, FiniteSetsExt

CONSTANTS
    NPROC,       \* slots of the process table
    KillPids     \* the pids that processes pass to kill; a slot stands for its process's pid

ASSUME ConstantsAssumption ==
    /\ NPROC \in Nat \ {0}
    /\ KillPids \subseteq 0..NPROC

Slots == 1..NPROC
initproc == 1

VARIABLES
    state, parent, chan, killed, pid,  \* the fields of struct proc
    lock,        \* lock[i]: the process that holds proc[i].lock, or 0
    pc,          \* where the kernel thread of slot i is
    op,          \* exit's original_parent
    idx,         \* wait's scan position
    havekids     \* wait's local

fields == <<state, parent, chan, killed, pid>>
locals == <<op, idx, havekids>>
vars == <<fields, lock, pc, locals>>

TypeOK ==
    /\ state \in [Slots -> {"UNUSED", "SLEEPING", "RUNNABLE", "RUNNING", "ZOMBIE"}]
    /\ parent \in [Slots -> 0..NPROC]
    /\ chan \in [Slots -> 0..NPROC]
    /\ killed \in [Slots -> BOOLEAN]
    /\ pid \in [Slots -> 0..NPROC]
    /\ lock \in [Slots -> 0..NPROC]
    /\ pc \in [Slots -> {"none", "user", "wakeinit", "rdparent", "lockparent", "lockself",
                         "reparent", "zombie", "waitlock", "scan", "waiting", "panic"}]
    /\ op \in [Slots -> 0..NPROC]
    /\ idx \in [Slots -> 1..(NPROC + 1)]
    /\ havekids \in [Slots -> BOOLEAN]

-----------------------------------------------------------------------------
(* The scheduler, yield and kill. *)

\* scheduler() takes the process's lock and switches to it.  In sched() called by
\* sleep the process goes on with the lock; in yield and forkret it releases it.
Scheduler(p) ==
    /\ state[p] = "RUNNABLE"
    /\ lock[p] = 0
    /\ state' = [state EXCEPT ![p] = "RUNNING"]
    /\ IF pc[p] = "waiting"
       THEN /\ chan' = [chan EXCEPT ![p] = 0]
            /\ lock' = [lock EXCEPT ![p] = p]
            /\ pc' = [pc EXCEPT ![p] = "scan"]
       ELSE UNCHANGED <<chan, lock, pc>>
    /\ UNCHANGED <<parent, killed, pid, locals>>

\* A timer interrupt; it is taken while the process has no lock.
Yield(p) ==
    /\ state[p] = "RUNNING"
    /\ pc[p] \in {"user", "wakeinit", "rdparent", "lockparent", "waitlock"}
    /\ lock[p] = 0
    /\ state' = [state EXCEPT ![p] = "RUNNABLE"]
    /\ UNCHANGED <<parent, chan, killed, pid, lock, pc, locals>>

\* The process is in user space and not killed: usertrap lets it make a call.
MayCall(p) == state[p] = "RUNNING" /\ pc[p] = "user" /\ ~killed[p]

\* kill(n): the first slot with that pid; a sleeper wakes.
Kill(p, n) ==
    LET k == Min({i \in Slots : pid[i] = n})
    IN  /\ MayCall(p)
        /\ \E i \in Slots : pid[i] = n
        /\ lock[k] = 0
        /\ killed' = [killed EXCEPT ![k] = TRUE]
        /\ state' = IF state[k] = "SLEEPING" THEN [state EXCEPT ![k] = "RUNNABLE"] ELSE state
        /\ UNCHANGED <<parent, chan, pid, lock, pc, locals>>

\* Mutant: only init is woken.
Wakeup1Init(s, p) ==
    IF chan[p] = initproc /\ s[p] = "SLEEPING" THEN [s EXCEPT ![p] = "RUNNABLE"] ELSE s

\* wakeup1(p) on a state function.
Wakeup1(s, p) == IF chan[p] = p /\ s[p] = "SLEEPING" THEN [s EXCEPT ![p] = "RUNNABLE"] ELSE s

-----------------------------------------------------------------------------
(* fork: allocproc locks one slot at a time and keeps the lock of the first *)
(* unused one until the child is complete.                                  *)

Unused == {k \in Slots : state[k] = "UNUSED"}

\* allocproc, in a call of p, gets slot k.
Allocproc(p, k) ==
    /\ MayCall(p)
    /\ Unused # {}
    /\ k = Min(Unused)
    /\ lock[k] = 0

Fork(p, k) ==
    /\ Allocproc(p, k)
    /\ pid' = [pid EXCEPT ![k] = k]
    /\ parent' = [parent EXCEPT ![k] = p]
    /\ state' = [state EXCEPT ![k] = "RUNNABLE"]
    /\ pc' = [pc EXCEPT ![k] = "user"]
    /\ UNCHANGED <<chan, killed, lock, locals>>

\* No memory: for the trapframe, when the slot keeps its new pid, or later, when
\* freeproc clears the slot.
ForkFails(p, k) ==
    /\ Allocproc(p, k)
    /\ \/ pid' = [pid EXCEPT ![k] = k] /\ UNCHANGED killed
       \/ pid' = [pid EXCEPT ![k] = 0] /\ killed' = [killed EXCEPT ![k] = FALSE]
    /\ UNCHANGED <<state, parent, chan, lock, pc, locals>>

-----------------------------------------------------------------------------
(* exit *)

\* The call, or usertrap's exit(-1) for a killed process, up to the first lock.
\* The init program makes the call only when a fork or a wait of its own fails,
\* which the model leaves out: the system stops there.
Exit(p) ==
    /\ state[p] = "RUNNING"
    /\ pc[p] = "user"
    /\ p = initproc => killed[p]
    /\ pc' = [pc EXCEPT ![p] = IF p = initproc THEN "panic" ELSE "wakeinit"]
    /\ UNCHANGED <<fields, lock, locals>>

ExitWakeInit(p) ==
    /\ state[p] = "RUNNING" /\ pc[p] = "wakeinit"
    /\ lock[initproc] = 0
    /\ state' = Wakeup1(state, initproc)
    /\ pc' = [pc EXCEPT ![p] = "rdparent"]
    /\ UNCHANGED <<parent, chan, killed, pid, lock, locals>>

\* Mutant: the lock is not released after the read.
ExitReadParentKeeps(p) ==
    /\ state[p] = "RUNNING" /\ pc[p] = "rdparent"
    /\ lock[p] = 0
    /\ lock' = [lock EXCEPT ![p] = p]
    /\ op' = [op EXCEPT ![p] = parent[p]]
    /\ pc' = [pc EXCEPT ![p] = "lockparent"]
    /\ UNCHANGED <<fields, idx, havekids>>

\* original_parent = p->parent
ExitReadParent(p) ==
    /\ state[p] = "RUNNING" /\ pc[p] = "rdparent"
    /\ lock[p] = 0
    /\ op' = [op EXCEPT ![p] = parent[p]]
    /\ pc' = [pc EXCEPT ![p] = "lockparent"]
    /\ UNCHANGED <<fields, lock, idx, havekids>>

ExitLockParent(p) ==
    /\ state[p] = "RUNNING" /\ pc[p] = "lockparent"
    /\ lock[op[p]] = 0
    /\ lock' = [lock EXCEPT ![op[p]] = p]
    /\ pc' = [pc EXCEPT ![p] = "lockself"]
    /\ UNCHANGED <<fields, locals>>

ExitLockSelf(p) ==
    /\ pc[p] = "lockself"
    /\ lock[p] = 0
    /\ lock' = [lock EXCEPT ![p] = p]
    /\ pc' = [pc EXCEPT ![p] = "reparent"]
    /\ UNCHANGED <<fields, locals>>

Children(p) == {k \in Slots : parent[k] = p}

\* reparent: one child, found by an unlocked read of its parent field.
Reparent(p) ==
    LET k == Min(Children(p))
    IN  /\ pc[p] = "reparent"
        /\ Children(p) # {}
        /\ lock[k] = 0
        /\ parent' = [parent EXCEPT ![k] = initproc]
        /\ UNCHANGED <<state, chan, killed, pid, lock, pc, locals>>

\* Mutants: exit leaves children behind, or releases p's lock before sched().
ExitZombieOrphans(p) ==
    /\ pc[p] = "reparent"
    /\ state' = [Wakeup1(state, op[p]) EXCEPT ![p] = "ZOMBIE"]
    /\ lock' = [lock EXCEPT ![op[p]] = 0]
    /\ pc' = [pc EXCEPT ![p] = "zombie"]
    /\ op' = [op EXCEPT ![p] = 0]
    /\ UNCHANGED <<parent, chan, killed, pid, idx, havekids>>

ExitZombieUnlocked(p) ==
    /\ pc[p] = "reparent"
    /\ Children(p) = {}
    /\ state' = [Wakeup1(state, op[p]) EXCEPT ![p] = "ZOMBIE"]
    /\ lock' = [lock EXCEPT ![op[p]] = 0, ![p] = 0]
    /\ pc' = [pc EXCEPT ![p] = "zombie"]
    /\ op' = [op EXCEPT ![p] = 0]
    /\ UNCHANGED <<parent, chan, killed, pid, idx, havekids>>

\* The rest of exit, up to sched(); p's own lock goes to the scheduler.
ExitZombie(p) ==
    /\ pc[p] = "reparent"
    /\ Children(p) = {}
    /\ state' = [Wakeup1(state, op[p]) EXCEPT ![p] = "ZOMBIE"]
    /\ lock' = [lock EXCEPT ![op[p]] = 0]
    /\ pc' = [pc EXCEPT ![p] = "zombie"]
    /\ op' = [op EXCEPT ![p] = 0]
    /\ UNCHANGED <<parent, chan, killed, pid, idx, havekids>>

\* The CPU has left the process's stack and the scheduler releases the lock.
SchedulerRelease(p) ==
    /\ pc[p] = "zombie"
    /\ lock' = [lock EXCEPT ![p] = 0]
    /\ pc' = [pc EXCEPT ![p] = "none"]
    /\ UNCHANGED <<fields, locals>>

-----------------------------------------------------------------------------
(* wait *)

Wait(p) ==
    /\ MayCall(p)
    /\ pc' = [pc EXCEPT ![p] = "waitlock"]
    /\ UNCHANGED <<fields, lock, locals>>

WaitLock(p) ==
    /\ state[p] = "RUNNING" /\ pc[p] = "waitlock"
    /\ lock[p] = 0
    /\ lock' = [lock EXCEPT ![p] = p]
    /\ pc' = [pc EXCEPT ![p] = "scan"]
    /\ UNCHANGED <<fields, locals>>

\* The children wait's loop has not reached yet.
Unscanned(p) == {k \in Children(p) : k >= idx[p]}

\* wait gives up p's lock, to return or to sleep; the next scan starts afresh.
WaitLeave(p, to) ==
    /\ lock' = [lock EXCEPT ![p] = 0]
    /\ pc' = [pc EXCEPT ![p] = to]
    /\ idx' = [idx EXCEPT ![p] = 1]
    /\ havekids' = [havekids EXCEPT ![p] = FALSE]

\* A child that has not exited.
WaitScan(p) ==
    LET k == Min(Unscanned(p))
    IN  /\ pc[p] = "scan"
        /\ Unscanned(p) # {}
        /\ lock[k] = 0
        /\ state[k] # "ZOMBIE"
        /\ idx' = [idx EXCEPT ![p] = k + 1]
        /\ havekids' = [havekids EXCEPT ![p] = TRUE]
        /\ UNCHANGED <<fields, lock, pc, op>>

\* A child that has: freeproc, unless its status cannot be copied out.
WaitReap(p) ==
    LET k == Min(Unscanned(p))
    IN  /\ pc[p] = "scan"
        /\ Unscanned(p) # {}
        /\ lock[k] = 0
        /\ state[k] = "ZOMBIE"
        /\ \/ /\ pid' = [pid EXCEPT ![k] = 0]
              /\ parent' = [parent EXCEPT ![k] = 0]
              /\ chan' = [chan EXCEPT ![k] = 0]
              /\ killed' = [killed EXCEPT ![k] = FALSE]
              /\ state' = [state EXCEPT ![k] = "UNUSED"]
           \/ UNCHANGED fields
        /\ WaitLeave(p, "user")
        /\ UNCHANGED op

\* No child has exited: give up, or sleep, which hands the lock to the scheduler.
WaitSleep(p) ==
    /\ pc[p] = "scan"
    /\ Unscanned(p) = {}
    /\ IF ~havekids[p] \/ killed[p]
       THEN /\ WaitLeave(p, "user")
            /\ UNCHANGED <<state, chan>>
       ELSE /\ WaitLeave(p, "waiting")
            /\ chan' = [chan EXCEPT ![p] = p]
            /\ state' = [state EXCEPT ![p] = "SLEEPING"]
    /\ UNCHANGED <<parent, killed, pid, op>>

-----------------------------------------------------------------------------
\* userinit: the first process is ready, every other slot is unused.
Init ==
    /\ state = [i \in Slots |-> IF i = initproc THEN "RUNNABLE" ELSE "UNUSED"]
    /\ parent = [i \in Slots |-> 0]
    /\ chan = [i \in Slots |-> 0]
    /\ killed = [i \in Slots |-> FALSE]
    /\ pid = [i \in Slots |-> IF i = initproc THEN i ELSE 0]
    /\ lock = [i \in Slots |-> 0]
    /\ pc = [i \in Slots |-> IF i = initproc THEN "user" ELSE "none"]
    /\ op = [i \in Slots |-> 0]
    /\ idx = [i \in Slots |-> 1]
    /\ havekids = [i \in Slots |-> FALSE]

ProcStep(p) ==
    \/ Scheduler(p) \/ Yield(p)
    \/ \E n \in KillPids : Kill(p, n)
    \/ \E k \in Slots : Fork(p, k) \/ ForkFails(p, k)
    \/ Exit(p) \/ ExitWakeInit(p) \/ ExitReadParent(p) \/ ExitLockParent(p)
    \/ ExitLockSelf(p) \/ Reparent(p) \/ ExitZombie(p) \/ SchedulerRelease(p)
    \/ Wait(p) \/ WaitLock(p) \/ WaitScan(p) \/ WaitReap(p) \/ WaitSleep(p)

Next == \E p \in Slots : ProcStep(p)

Spec == Init /\ [][Next]_vars

-----------------------------------------------------------------------------
(* Properties. *)

InUse(p) == state[p] \notin {"UNUSED", "ZOMBIE"}

\* exit gives every child away before it becomes a zombie: each process, exited
\* or not, has a parent that has not exited and can wait for it.
ParentAlive ==
    \A p \in Slots \ {initproc} : state[p] # "UNUSED" =>
        parent[p] \in Slots /\ InUse(parent[p])

\* wait "hold[s] p->lock for the whole time to avoid lost wakeups from a child's
\* exit()": a process asleep in wait has no exited child and is not killed, but
\* for init, which exit may fail to wake.
NoLostExit ==
    \A p \in Slots : state[p] = "SLEEPING" =>
        /\ ~killed[p]
        /\ p # initproc => \A k \in Children(p) : state[k] # "ZOMBIE"

\* wait frees a slot only after the scheduler has left the exited process's
\* stack and released its lock, and after its children were given away.
FreedOffCpu ==
    \A p \in Slots : state[p] = "UNUSED" => pc[p] = "none" /\ lock[p] # p /\ Children(p) = {}

\* The slot whose lock p's next step takes.
Wants(p) ==
    CASE pc[p] = "wakeinit"               -> {initproc}
      [] pc[p] \in {"rdparent", "lockself", "waitlock"} -> {p}
      [] pc[p] = "lockparent"             -> {op[p]}
      [] pc[p] = "reparent"               -> IF Children(p) = {} THEN {} ELSE {Min(Children(p))}
      [] pc[p] = "scan"                   -> IF Unscanned(p) = {} THEN {} ELSE {Min(Unscanned(p))}
      [] OTHER                            -> {}

\* p spins on a lock that q holds.
Spins(p, q) == \E k \in Wants(p) : lock[k] = q

\* p, in exit, holds the lock of a process that is no longer its parent.
Stale(p) == pc[p] \in {"lockself", "reparent"} /\ op[p] # parent[p]

\* No group of processes in S spins on locks that only the group holds.
NoCircle(S) ==
    \A T \in (SUBSET S) \ {{}} : \E p \in T : \A q \in T : ~Spins(p, q)

\* The parent-then-child rule of exit and wait excludes deadlock among all
\* processes that hold the lock of their present parent.  It does not hold for the
\* others: NoCircle(Slots) fails when the slot of a remembered parent has become the
\* process's own grandchild.
NoDeadlock == NoCircle({p \in Slots : ~Stale(p)})
=============================================================================
