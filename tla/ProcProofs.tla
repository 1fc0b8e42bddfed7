----------------------------- MODULE ProcProofs -----------------------------
(***************************************************************************)
(* Proofs about the process table, for any number of slots: who holds      *)
(* which lock, that no process is orphaned, that no exit is lost on a      *)
(* parent in wait, that a slot is freed off its CPU, and that the          *)
(* parent-then-child order of exit and wait excludes deadlock.             *)
(***************************************************************************)
EXTENDS FiniteSetTheorems, TLAPS, Proc

\* Min of a set of naturals is its least element: the first slot that a loop of the kernel finds.
LEMMA MinNat ==
    ASSUME NEW S, S \subseteq Nat, S # {}
    PROVE  Min(S) \in S /\ \A y \in S : Min(S) <= y
<1>1. PICK x \in S : \A y \in S : ~(<<y, x>> \in OpToRel(<, Nat))
  BY NatLessThanWellFounded, WFMin
<1>2. ASSUME NEW y \in S PROVE x <= y
  <2>1. <<y, x>> \in Nat \X Nat /\ ~(<<y, x>> \in OpToRel(<, Nat))
    BY <1>1
  <2> QED
    BY <2>1 DEF OpToRel
<1>3. \E z \in S : \A y \in S : z <= y
  BY <1>2
<1> QED
  BY <1>3 DEF Min

\* A function that maps a finite set onto itself takes no value outside it.
LEMMA OntoIsTotal ==
    ASSUME NEW S, IsFiniteSet(S), NEW f, \A x \in S : \E y \in S : f[y] = x
    PROVE  \A y \in S : f[y] \in S
<1> DEFINE D == {y \in S : f[y] \in S}
           g == [y \in D |-> f[y]]
<1>1. IsFiniteSet(D) /\ Cardinality(D) <= Cardinality(S) /\ (Cardinality(D) = Cardinality(S) => D = S)
  BY FS_Subset
<1>2. g \in Surjection(D, S)
  BY DEF Surjection
<1>3. Cardinality(S) <= Cardinality(D)
  BY <1>1, <1>2, FS_Surjection DEF ExistsSurjection
<1>4. Cardinality(D) \in Nat /\ Cardinality(S) \in Nat
  BY <1>1, FS_CardinalityType
<1> QED
  BY <1>1, <1>3, <1>4

USE ConstantsAssumption

\* exit holds the lock of the remembered parent from lockself on and its own from
\* reparent on, until the scheduler releases it; wait holds its own in the scan.
LockInv ==
    /\ \A k, p \in Slots : lock[k] = p =>
          \/ pc[p] \in {"lockself", "reparent"} /\ op[p] = k
          \/ pc[p] \in {"reparent", "zombie", "scan"} /\ k = p
    /\ \A p \in Slots :
          /\ pc[p] \in {"lockself", "reparent"} => lock[op[p]] = p
          /\ pc[p] \in {"reparent", "zombie", "scan"} => lock[p] = p

\* What a process's state says about where its kernel thread is.
StateInv ==
    \A p \in Slots :
        /\ pc[p] = "none" => state[p] \in {"UNUSED", "ZOMBIE"}
        /\ pc[p] = "zombie" => state[p] = "ZOMBIE"
        /\ pc[p] = "waiting" => state[p] \in {"SLEEPING", "RUNNABLE"}
        /\ pc[p] \in {"lockself", "reparent", "scan", "panic"} => state[p] = "RUNNING"
        /\ pc[p] \in {"user", "wakeinit", "rdparent", "lockparent", "waitlock"}
              => state[p] \in {"RUNNING", "RUNNABLE"}
        /\ state[p] = "SLEEPING" => chan[p] = p
        /\ state[p] = "UNUSED" => parent[p] = 0

\* init does not exit and has no parent; whoever exits is not its own parent, and
\* between the read of the parent and the end of exit only init may replace it.
ExitInv ==
    /\ pc[initproc] \in {"user", "waitlock", "scan", "waiting", "panic"}
    /\ parent[initproc] = 0
    /\ \A p \in Slots : pc[p] \in {"lockparent", "lockself", "reparent"} =>
          /\ op[p] \in Slots \ {p}
          /\ parent[p] \in {op[p], initproc}

\* wait starts at the first slot, and no child it has passed has exited since.
ScanInv ==
    \A p \in Slots :
        /\ pc[p] # "scan" => idx[p] = 1
        /\ pc[p] = "scan" /\ p # initproc =>
              \A k \in Children(p) : k < idx[p] => state[k] # "ZOMBIE"

\* The parent relation is a forest: every set of slots has one whose parent is
\* outside it.
Forest == \A S \in SUBSET Slots : S # {} => \E p \in S : parent[p] \notin S

\* The inductive invariant.
Ind ==
    TypeOK /\ LockInv /\ StateInv /\ ExitInv /\ ScanInv /\ Forest /\ ParentAlive /\ NoLostExit

-----------------------------------------------------------------------------
\* The slots are numbered from 1, and init's is the first.
LEMMA SlotFacts ==
    /\ initproc \in Slots
    /\ 0 \notin Slots
    /\ Slots \subseteq 1..NPROC
    /\ Slots \subseteq 0..NPROC
    /\ Slots \subseteq Nat
    /\ \A k \in Slots : k + 1 \in 1..(NPROC + 1)
    /\ 1 \in 1..(NPROC + 1)
    /\ 0 \in 0..NPROC
  BY DEF Slots, initproc

\* A slot without children hung under another slot leaves a forest.
LEMMA ForestAdd ==
    ASSUME Forest, parent \in [Slots -> 0..NPROC], NEW k \in Slots, NEW r \in Slots \ {k},
           \A x \in Slots : parent[x] # k, parent' = [parent EXCEPT ![k] = r]
    PROVE  Forest'
<1> SUFFICES ASSUME NEW S \in SUBSET Slots, S # {} PROVE \E x \in S : parent'[x] \notin S
  BY DEF Forest
<1>1. CASE S = {k}
  BY <1>1
<1>2. CASE S # {k}
  <2>1. PICK x \in S \ {k} : parent[x] \notin S \ {k}
    BY <1>2 DEF Forest
  <2>2. parent'[x] = parent[x] /\ parent[x] # k
    BY <2>1
  <2> QED
    BY <2>1, <2>2
<1> QED
  BY <1>1, <1>2

\* A slot hung under one that has no parent, or under none, leaves a forest.
LEMMA ForestMove ==
    ASSUME Forest, parent \in [Slots -> 0..NPROC], NEW k \in Slots, NEW r \in 0..NPROC,
           r \in Slots => r # k /\ parent[r] \notin Slots, parent' = [parent EXCEPT ![k] = r]
    PROVE  Forest'
<1> SUFFICES ASSUME NEW S \in SUBSET Slots, S # {} PROVE \E x \in S : parent'[x] \notin S
  BY DEF Forest
<1>1. CASE r \in S
  BY <1>1
<1>2. CASE r \notin S /\ k \in S
  BY <1>2
<1>3. CASE r \notin S /\ k \notin S
  <2>1. PICK x \in S : parent[x] \notin S
    BY DEF Forest
  <2> QED
    BY <1>3, <2>1
<1> QED
  BY <1>1, <1>2, <1>3

\* reparent's loop stops at a child, which is not init.
LEMMA FirstChild ==
    ASSUME Ind, NEW p \in Slots, Children(p) # {}, NEW k, k = Min(Children(p))
    PROVE  k \in Slots /\ parent[k] = p /\ k # initproc
<1>1. Children(p) \subseteq Nat
  BY SlotFacts DEF Children
<1>2. k \in Children(p)
  BY <1>1, MinNat
<1> QED
  BY <1>2, SlotFacts DEF Children, Ind, ExitInv

\* wait's loop stops at a child, which is not init, and has passed the ones before it.
LEMMA FirstUnscanned ==
    ASSUME Ind, NEW p \in Slots, Unscanned(p) # {}, NEW k, k = Min(Unscanned(p))
    PROVE  /\ k \in Slots /\ parent[k] = p /\ k # initproc
           /\ \A c \in Children(p) : c < k => c < idx[p]
<1>1. Unscanned(p) \subseteq Nat
  BY SlotFacts DEF Unscanned, Children
<1>2. k \in Unscanned(p) /\ \A c \in Unscanned(p) : k <= c
  BY <1>1, MinNat
<1>3. k \in Slots /\ parent[k] = p /\ k # initproc
  BY <1>2, SlotFacts DEF Unscanned, Children, Ind, ExitInv
<1>4. ASSUME NEW c \in Children(p), c < k PROVE c < idx[p]
  <2>1. c \notin Unscanned(p)
    BY <1>2, <1>3, <1>4, SlotFacts DEF Children
  <2> QED
    BY <2>1, SlotFacts DEF Unscanned, Children, Ind, TypeOK
<1> QED
  BY <1>3, <1>4

\* A process is not its own parent, and an unused slot is nobody's parent.
LEMMA NoSelfParent ==
    ASSUME Ind, NEW p \in Slots
    PROVE  parent[p] # p /\ (~InUse(p) => \A k \in Slots : parent[k] # p)
<1>1. parent[p] # p
  <2>1. \E q \in {p} : parent[q] \notin {p}
    BY DEF Ind, Forest
  <2> QED
    BY <2>1
<1>2. ASSUME NEW k \in Slots, parent[k] = p PROVE InUse(p)
  <2>1. k # initproc /\ state[k] # "UNUSED"
    BY <1>2, SlotFacts DEF Ind, ExitInv, StateInv
  <2> QED
    BY <1>2, <2>1 DEF Ind, ParentAlive
<1> QED
  BY <1>1, <1>2

\* allocproc returns an unused slot, which is not the caller's and has no children.
LEMMA AllocFacts ==
    ASSUME Ind, NEW p \in Slots, NEW k \in Slots, Allocproc(p, k)
    PROVE  /\ state[k] = "UNUSED" /\ pc[k] = "none" /\ k # p /\ k # initproc
           /\ state[p] = "RUNNING" /\ pc[p] = "user"
           /\ \A x \in Slots : parent[x] # k
<1>1. state[k] = "UNUSED"
  BY SlotFacts, MinNat DEF Allocproc, Unused
<1>2. state[p] = "RUNNING" /\ pc[p] = "user"
  BY DEF Allocproc, MayCall
<1>3. pc[k] = "none"
  BY <1>1 DEF Ind, StateInv, TypeOK
<1>4. k # initproc
  BY <1>3 DEF Ind, ExitInv
<1> QED
  BY <1>1, <1>2, <1>3, <1>4, NoSelfParent DEF InUse

\* scheduler() takes the lock of a process that can run, and runs it.
LEMMA SchedulerStep ==
    ASSUME Ind, NEW p \in Slots, Scheduler(p)
    PROVE  Ind'
<1>1. TypeOK'
  BY SlotFacts DEF Ind, TypeOK, Scheduler, locals
<1>2. LockInv'
  BY SlotFacts DEF Ind, LockInv, TypeOK, ExitInv, Scheduler, locals
<1>3. StateInv'
  BY DEF Ind, StateInv, TypeOK, Scheduler
<1>4. ExitInv'
  BY SlotFacts DEF Ind, ExitInv, TypeOK, Scheduler, locals
<1>5. ScanInv'
  BY SlotFacts DEF Ind, ScanInv, TypeOK, Children, Scheduler, locals
<1>6. Forest'
  BY DEF Ind, Forest, Scheduler
<1>7. ParentAlive'
  BY DEF Ind, ParentAlive, InUse, Scheduler
<1>8. NoLostExit'
  BY DEF Ind, NoLostExit, Children, Scheduler
<1> QED
  BY <1>1, <1>2, <1>3, <1>4, <1>5, <1>6, <1>7, <1>8 DEF Ind

\* A timer interrupt in user code, or in the kernel with no lock held.
LEMMA YieldStep ==
    ASSUME Ind, NEW p \in Slots, Yield(p)
    PROVE  Ind'
<1>1. TypeOK'
  BY DEF Ind, TypeOK, Yield, locals
<1>2. LockInv'
  BY DEF Ind, LockInv, Yield, locals
<1>3. StateInv'
  BY DEF Ind, StateInv, Yield
<1>4. ExitInv'
  BY DEF Ind, ExitInv, Yield, locals
<1>5. ScanInv'
  BY DEF Ind, ScanInv, Children, Yield, locals
<1>6. Forest'
  BY DEF Ind, Forest, Yield
<1>7. ParentAlive'
  BY DEF Ind, ParentAlive, InUse, Yield
<1>8. NoLostExit'
  BY DEF Ind, NoLostExit, Children, Yield
<1> QED
  BY <1>1, <1>2, <1>3, <1>4, <1>5, <1>6, <1>7, <1>8 DEF Ind

\* kill wakes a sleeper, who finds a child to wait for or returns.
LEMMA KillStep ==
    ASSUME Ind, NEW p \in Slots, NEW n \in KillPids, Kill(p, n)
    PROVE  Ind'
<1>1. TypeOK'
  BY DEF Ind, TypeOK, Kill, locals
<1>2. LockInv'
  BY DEF Ind, LockInv, Kill, locals
<1>3. StateInv'
  BY DEF Ind, StateInv, Kill
<1>4. ExitInv'
  BY DEF Ind, ExitInv, Kill, locals
<1>5. ScanInv'
  BY DEF Ind, ScanInv, Children, Kill, locals
<1>6. Forest'
  BY DEF Ind, Forest, Kill
<1>7. ParentAlive'
  BY DEF Ind, ParentAlive, InUse, Kill
<1>8. NoLostExit'
  BY DEF Ind, NoLostExit, TypeOK, Children, Kill
<1> QED
  BY <1>1, <1>2, <1>3, <1>4, <1>5, <1>6, <1>7, <1>8 DEF Ind

\* fork: the new child of p is in no exit and holds no lock.
LEMMA ForkStep ==
    ASSUME Ind, NEW p \in Slots, NEW k \in Slots, Fork(p, k)
    PROVE  Ind'
<1> USE AllocFacts
<1>1. TypeOK'
  BY SlotFacts DEF Ind, TypeOK, Fork, locals
<1>2. LockInv'
  BY DEF Ind, LockInv, TypeOK, Fork, locals
<1>3. StateInv'
  BY DEF Ind, StateInv, TypeOK, Fork
<1>4. ExitInv'
  BY DEF Ind, ExitInv, TypeOK, Fork, locals
<1>5. ScanInv'
  BY DEF Ind, ScanInv, Children, Fork, locals
<1>6. Forest'
  <2>1. parent' = [parent EXCEPT ![k] = p] /\ parent' \in [Slots -> 0..NPROC]
    BY <1>1 DEF Fork, TypeOK
  <2>2. Forest /\ parent \in [Slots -> 0..NPROC]
    BY DEF Ind, TypeOK
  <2>3. p \in Slots \ {k} /\ \A x \in Slots : parent[x] # k
    BY DEF Fork
  <2> QED
    BY <2>1, <2>2, <2>3, ForestAdd
<1>7. ParentAlive'
  BY DEF Ind, ParentAlive, InUse, TypeOK, Fork
<1>8. NoLostExit'
  BY DEF Ind, NoLostExit, Children, Fork
<1> QED
  BY <1>1, <1>2, <1>3, <1>4, <1>5, <1>6, <1>7, <1>8 DEF Ind

\* fork gives its slot back.
LEMMA ForkFailsStep ==
    ASSUME Ind, NEW p \in Slots, NEW k \in Slots, ForkFails(p, k)
    PROVE  Ind'
<1> USE AllocFacts
<1>1. TypeOK'
  <2>1. killed' \in [Slots -> BOOLEAN] /\ pid' \in [Slots -> 0..NPROC]
    <3>1. CASE pid' = [pid EXCEPT ![k] = k] /\ UNCHANGED killed
      BY <3>1, SlotFacts DEF Ind, TypeOK
    <3>2. CASE pid' = [pid EXCEPT ![k] = 0] /\ killed' = [killed EXCEPT ![k] = FALSE]
      BY <3>2 DEF Ind, TypeOK
    <3> QED
      BY <3>1, <3>2 DEF ForkFails
  <2> QED
    BY <2>1 DEF Ind, TypeOK, ForkFails, locals
<1>2. LockInv'
  BY DEF Ind, LockInv, ForkFails, locals
<1>3. StateInv'
  BY DEF Ind, StateInv, ForkFails
<1>4. ExitInv'
  BY DEF Ind, ExitInv, ForkFails, locals
<1>5. ScanInv'
  BY DEF Ind, ScanInv, Children, ForkFails, locals
<1>6. Forest'
  BY DEF Ind, Forest, ForkFails
<1>7. ParentAlive'
  BY DEF Ind, ParentAlive, InUse, ForkFails
<1>8. NoLostExit'
  BY DEF Ind, NoLostExit, TypeOK, Children, ForkFails
<1> QED
  BY <1>1, <1>2, <1>3, <1>4, <1>5, <1>6, <1>7, <1>8 DEF Ind

\* exit up to its first lock.
LEMMA ExitStep ==
    ASSUME Ind, NEW p \in Slots, Exit(p)
    PROVE  Ind'
<1>1. TypeOK'
  BY DEF Ind, TypeOK, Exit, fields, locals
<1>2. LockInv'
  BY DEF Ind, LockInv, Exit, locals
<1>3. StateInv'
  BY DEF Ind, StateInv, Exit, fields
<1>4. ExitInv'
  BY DEF Ind, ExitInv, Exit, fields, locals
<1>5. ScanInv'
  BY DEF Ind, ScanInv, Children, Exit, fields, locals
<1>6. Forest'
  BY DEF Ind, Forest, Exit, fields
<1>7. ParentAlive'
  BY DEF Ind, ParentAlive, InUse, Exit, fields
<1>8. NoLostExit'
  BY DEF Ind, NoLostExit, Children, Exit, fields
<1> QED
  BY <1>1, <1>2, <1>3, <1>4, <1>5, <1>6, <1>7, <1>8 DEF Ind

\* exit wakes init, before it gives it its children.
LEMMA ExitWakeInitStep ==
    ASSUME Ind, NEW p \in Slots, ExitWakeInit(p)
    PROVE  Ind'
<1>1. TypeOK'
  BY DEF Ind, TypeOK, ExitWakeInit, Wakeup1, locals
<1>2. LockInv'
  BY DEF Ind, LockInv, ExitWakeInit, locals
<1>3. StateInv'
  BY DEF Ind, StateInv, ExitWakeInit, Wakeup1
<1>4. ExitInv'
  BY DEF Ind, ExitInv, ExitWakeInit, locals
<1>5. ScanInv'
  BY DEF Ind, ScanInv, Children, ExitWakeInit, Wakeup1, locals
<1>6. Forest'
  BY DEF Ind, Forest, ExitWakeInit
<1>7. ParentAlive'
  BY DEF Ind, ParentAlive, InUse, ExitWakeInit, Wakeup1
<1>8. NoLostExit'
  BY DEF Ind, NoLostExit, Children, ExitWakeInit, Wakeup1
<1> QED
  BY <1>1, <1>2, <1>3, <1>4, <1>5, <1>6, <1>7, <1>8 DEF Ind

\* exit reads p->parent under its own lock, and lets it go.
LEMMA ExitReadParentStep ==
    ASSUME Ind, NEW p \in Slots, ExitReadParent(p)
    PROVE  Ind'
<1>1. TypeOK'
  BY DEF Ind, TypeOK, ExitReadParent, fields
<1>2. LockInv'
  BY DEF Ind, LockInv, ExitReadParent
<1>3. StateInv'
  BY DEF Ind, StateInv, ExitReadParent, fields
<1>4. ExitInv'
  BY NoSelfParent DEF Ind, ExitInv, TypeOK, ParentAlive, ExitReadParent, fields
<1>5. ScanInv'
  BY DEF Ind, ScanInv, Children, ExitReadParent, fields
<1>6. Forest'
  BY DEF Ind, Forest, ExitReadParent, fields
<1>7. ParentAlive'
  BY DEF Ind, ParentAlive, InUse, ExitReadParent, fields
<1>8. NoLostExit'
  BY DEF Ind, NoLostExit, Children, ExitReadParent, fields
<1> QED
  BY <1>1, <1>2, <1>3, <1>4, <1>5, <1>6, <1>7, <1>8 DEF Ind

\* exit locks the parent that it read, ...
LEMMA ExitLockParentStep ==
    ASSUME Ind, NEW p \in Slots, ExitLockParent(p)
    PROVE  Ind'
<1>1. TypeOK'
  BY SlotFacts DEF Ind, TypeOK, ExitLockParent, fields, locals
<1>2. LockInv'
  BY SlotFacts DEF Ind, LockInv, TypeOK, ExitInv, ExitLockParent, locals
<1>3. StateInv'
  BY DEF Ind, StateInv, ExitLockParent, fields
<1>4. ExitInv'
  BY DEF Ind, ExitInv, ExitLockParent, fields, locals
<1>5. ScanInv'
  BY DEF Ind, ScanInv, Children, ExitLockParent, fields, locals
<1>6. Forest'
  BY DEF Ind, Forest, ExitLockParent, fields
<1>7. ParentAlive'
  BY DEF Ind, ParentAlive, InUse, ExitLockParent, fields
<1>8. NoLostExit'
  BY DEF Ind, NoLostExit, Children, ExitLockParent, fields
<1> QED
  BY <1>1, <1>2, <1>3, <1>4, <1>5, <1>6, <1>7, <1>8 DEF Ind

\* ... then itself.
LEMMA ExitLockSelfStep ==
    ASSUME Ind, NEW p \in Slots, ExitLockSelf(p)
    PROVE  Ind'
<1>1. TypeOK'
  BY SlotFacts DEF Ind, TypeOK, ExitLockSelf, fields, locals
<1>2. LockInv'
  BY SlotFacts DEF Ind, LockInv, TypeOK, ExitLockSelf, locals
<1>3. StateInv'
  BY DEF Ind, StateInv, ExitLockSelf, fields
<1>4. ExitInv'
  BY DEF Ind, ExitInv, ExitLockSelf, fields, locals
<1>5. ScanInv'
  BY DEF Ind, ScanInv, Children, ExitLockSelf, fields, locals
<1>6. Forest'
  BY DEF Ind, Forest, ExitLockSelf, fields
<1>7. ParentAlive'
  BY DEF Ind, ParentAlive, InUse, ExitLockSelf, fields
<1>8. NoLostExit'
  BY DEF Ind, NoLostExit, Children, ExitLockSelf, fields
<1> QED
  BY <1>1, <1>2, <1>3, <1>4, <1>5, <1>6, <1>7, <1>8 DEF Ind

\* A child of the exiting process becomes a child of init.
LEMMA ReparentStep ==
    ASSUME Ind, NEW p \in Slots, Reparent(p)
    PROVE  Ind'
<1> DEFINE k == Min(Children(p))
<1>k. k \in Slots /\ parent[k] = p /\ k # initproc
  BY FirstChild DEF Reparent
<1> HIDE DEF k
<1>1. TypeOK'
  BY <1>k, SlotFacts DEF Ind, TypeOK, Reparent, locals
<1>2. LockInv'
  BY <1>k DEF Ind, LockInv, Reparent, locals
<1>3. StateInv'
  BY <1>k, SlotFacts DEF k, Ind, StateInv, Reparent
<1>4. ExitInv'
  BY <1>k DEF k, Ind, ExitInv, Reparent, locals
<1>5. ScanInv'
  BY <1>k DEF Ind, ScanInv, Children, Reparent, locals
<1>6. Forest'
  <2>1. parent' = [parent EXCEPT ![k] = initproc] /\ parent' \in [Slots -> 0..NPROC]
    BY <1>1 DEF Reparent, TypeOK, k
  <2>2. Forest /\ parent \in [Slots -> 0..NPROC] /\ parent[initproc] \notin Slots /\ initproc \in 0..NPROC
    BY <1>k, SlotFacts DEF Ind, TypeOK, ExitInv
  <2> QED
    BY <1>k, <2>1, <2>2, ForestMove
<1>7. ParentAlive'
  BY <1>k, SlotFacts DEF Ind, ParentAlive, InUse, StateInv, ExitInv, Reparent
<1>8. NoLostExit'
  BY <1>k DEF Ind, NoLostExit, Children, Reparent
<1> QED
  BY <1>1, <1>2, <1>3, <1>4, <1>5, <1>6, <1>7, <1>8 DEF Ind

\* exit wakes the parent and hands its own lock to the scheduler.
LEMMA ExitZombieStep ==
    ASSUME Ind, NEW p \in Slots, ExitZombie(p)
    PROVE  Ind'
<1>1. TypeOK'
  BY SlotFacts DEF Ind, TypeOK, ExitZombie, Wakeup1
<1>2. LockInv'
  BY SlotFacts DEF Ind, LockInv, TypeOK, ExitInv, ExitZombie
<1>3. StateInv'
  BY DEF Ind, StateInv, TypeOK, ExitZombie, Wakeup1
<1>4. ExitInv'
  BY DEF Ind, ExitInv, TypeOK, ExitZombie
<1>5. ScanInv'
  BY DEF Ind, ScanInv, TypeOK, Children, LockInv, ExitInv, ExitZombie, Wakeup1
<1>6. Forest'
  BY DEF Ind, Forest, ExitZombie
<1>7. ParentAlive'
  BY DEF Ind, ParentAlive, InUse, TypeOK, StateInv, ExitZombie, Wakeup1, Children
<1>8. NoLostExit'
  BY DEF Ind, NoLostExit, TypeOK, Children, StateInv, ExitInv, ExitZombie, Wakeup1
<1> QED
  BY <1>1, <1>2, <1>3, <1>4, <1>5, <1>6, <1>7, <1>8 DEF Ind

\* The scheduler is off the stack of the process and releases its lock.
LEMMA SchedulerReleaseStep ==
    ASSUME Ind, NEW p \in Slots, SchedulerRelease(p)
    PROVE  Ind'
<1>1. TypeOK'
  BY DEF Ind, TypeOK, SchedulerRelease, fields, locals
<1>2. LockInv'
  BY SlotFacts DEF Ind, LockInv, TypeOK, SchedulerRelease, locals
<1>3. StateInv'
  BY DEF Ind, StateInv, SchedulerRelease, fields
<1>4. ExitInv'
  BY DEF Ind, ExitInv, SchedulerRelease, fields, locals
<1>5. ScanInv'
  BY DEF Ind, ScanInv, Children, SchedulerRelease, fields, locals
<1>6. Forest'
  BY DEF Ind, Forest, SchedulerRelease, fields
<1>7. ParentAlive'
  BY DEF Ind, ParentAlive, InUse, SchedulerRelease, fields
<1>8. NoLostExit'
  BY DEF Ind, NoLostExit, Children, SchedulerRelease, fields
<1> QED
  BY <1>1, <1>2, <1>3, <1>4, <1>5, <1>6, <1>7, <1>8 DEF Ind

\* wait is called.
LEMMA WaitStep ==
    ASSUME Ind, NEW p \in Slots, Wait(p)
    PROVE  Ind'
<1>1. TypeOK'
  BY DEF Ind, TypeOK, Wait, fields, locals
<1>2. LockInv'
  BY DEF Ind, LockInv, Wait, MayCall, locals
<1>3. StateInv'
  BY DEF Ind, StateInv, Wait, MayCall, fields
<1>4. ExitInv'
  BY DEF Ind, ExitInv, Wait, fields, locals
<1>5. ScanInv'
  BY DEF Ind, ScanInv, Children, Wait, MayCall, fields, locals
<1>6. Forest'
  BY DEF Ind, Forest, Wait, fields
<1>7. ParentAlive'
  BY DEF Ind, ParentAlive, InUse, Wait, fields
<1>8. NoLostExit'
  BY DEF Ind, NoLostExit, Children, Wait, fields
<1> QED
  BY <1>1, <1>2, <1>3, <1>4, <1>5, <1>6, <1>7, <1>8 DEF Ind

\* wait takes the lock of the caller.
LEMMA WaitLockStep ==
    ASSUME Ind, NEW p \in Slots, WaitLock(p)
    PROVE  Ind'
<1>1. TypeOK'
  BY SlotFacts DEF Ind, TypeOK, WaitLock, fields, locals
<1>2. LockInv'
  BY SlotFacts DEF Ind, LockInv, TypeOK, WaitLock, locals
<1>3. StateInv'
  BY DEF Ind, StateInv, WaitLock, fields
<1>4. ExitInv'
  BY DEF Ind, ExitInv, WaitLock, fields, locals
<1>5. ScanInv'
  BY SlotFacts DEF Ind, ScanInv, Children, WaitLock, fields, locals
<1>6. Forest'
  BY DEF Ind, Forest, WaitLock, fields
<1>7. ParentAlive'
  BY DEF Ind, ParentAlive, InUse, WaitLock, fields
<1>8. NoLostExit'
  BY DEF Ind, NoLostExit, Children, WaitLock, fields
<1> QED
  BY <1>1, <1>2, <1>3, <1>4, <1>5, <1>6, <1>7, <1>8 DEF Ind

\* wait passes a child that has not exited.
LEMMA WaitScanStep ==
    ASSUME Ind, NEW p \in Slots, WaitScan(p)
    PROVE  Ind'
<1> DEFINE k == Min(Unscanned(p))
<1>k. k \in Slots /\ parent[k] = p /\ k # initproc
  BY FirstUnscanned DEF WaitScan
<1> HIDE DEF k
<1>1. TypeOK'
  BY <1>k, SlotFacts DEF k, Ind, TypeOK, WaitScan, fields
<1>2. LockInv'
  BY <1>k DEF Ind, LockInv, WaitScan
<1>3. StateInv'
  BY <1>k DEF Ind, StateInv, WaitScan, fields
<1>4. ExitInv'
  BY <1>k DEF Ind, ExitInv, WaitScan, fields
<1>5. ScanInv'
  <2>1. \A c \in Children(p) : c < k => c < idx[p]
    BY FirstUnscanned DEF WaitScan, k
  <2>2. /\ idx' = [idx EXCEPT ![p] = k + 1] /\ pc[p] = "scan" /\ state[k] # "ZOMBIE"
        /\ state' = state /\ parent' = parent /\ pc' = pc
    BY DEF WaitScan, k, fields
  <2>3. ASSUME p # initproc, NEW c \in Slots, parent[c] = p, c < k + 1 PROVE state[c] # "ZOMBIE"
    <3>1. c = k \/ c < k
      BY <1>k, <2>3, SlotFacts
    <3> QED
      BY <2>1, <2>2, <2>3, <3>1 DEF Ind, ScanInv, Children
  <2>4. idx'[p] = k + 1 /\ \A q \in Slots \ {p} : idx'[q] = idx[q]
    BY <2>2 DEF Ind, TypeOK
  <2> QED
    BY <2>2, <2>3, <2>4 DEF Ind, ScanInv, Children
<1>6. Forest'
  BY <1>k DEF Ind, Forest, WaitScan, fields
<1>7. ParentAlive'
  BY <1>k DEF Ind, ParentAlive, InUse, WaitScan, fields
<1>8. NoLostExit'
  BY <1>k DEF Ind, NoLostExit, Children, WaitScan, fields
<1> QED
  BY <1>1, <1>2, <1>3, <1>4, <1>5, <1>6, <1>7, <1>8 DEF Ind

\* wait frees a zombie: nobody is left on its stack or its lock.
LEMMA WaitReapStep ==
    ASSUME Ind, NEW p \in Slots, WaitReap(p)
    PROVE  Ind'
<1> DEFINE k == Min(Unscanned(p))
<1>k. k \in Slots /\ parent[k] = p /\ k # initproc
  BY FirstUnscanned DEF WaitReap
<1> HIDE DEF k
<1>1. TypeOK'
  <2>1. /\ lock' \in [Slots -> 0..NPROC] /\ idx' \in [Slots -> 1..(NPROC + 1)]
        /\ havekids' \in [Slots -> BOOLEAN] /\ pc' = [pc EXCEPT ![p] = "user"] /\ op' = op
    BY DEF Ind, TypeOK, WaitReap, WaitLeave
  <2>2. CASE UNCHANGED fields
    BY <2>1, <2>2 DEF Ind, TypeOK, fields
  <2>3. CASE ~ UNCHANGED fields
    BY <1>k, <2>1, <2>3, SlotFacts DEF Ind, TypeOK, WaitReap
  <2> QED
    BY <2>2, <2>3
<1>2. LockInv'
  BY <1>k, SlotFacts DEF k, Ind, LockInv, TypeOK, WaitReap, WaitLeave
<1>3. StateInv'
  BY <1>k, SlotFacts DEF Ind, StateInv, TypeOK, LockInv, WaitReap, WaitLeave, fields
<1>4. ExitInv'
  BY <1>k, SlotFacts DEF Ind, ExitInv, TypeOK, StateInv, WaitReap, WaitLeave, fields
<1>5. ScanInv'
  BY <1>k DEF Ind, ScanInv, TypeOK, Children, LockInv, ExitInv, WaitReap, WaitLeave, fields
<1>6. Forest'
  <2>1. parent' \in [Slots -> 0..NPROC] /\ (parent' = parent \/ parent' = [parent EXCEPT ![k] = 0])
    BY <1>1 DEF WaitReap, TypeOK, fields, k
  <2>2. Forest /\ parent \in [Slots -> 0..NPROC] /\ 0 \in 0..NPROC /\ 0 \notin Slots
    BY <1>k, SlotFacts DEF Ind, TypeOK
  <2>3. CASE parent' = parent
    BY <2>2, <2>3 DEF Forest
  <2>4. CASE parent' = [parent EXCEPT ![k] = 0]
    BY <1>k, <2>1, <2>2, <2>4, ForestMove
  <2> QED
    BY <2>1, <2>3, <2>4
<1>7. ParentAlive'
  BY <1>k DEF k, Ind, ParentAlive, InUse, TypeOK, WaitReap, fields
<1>8. NoLostExit'
  BY <1>k DEF Ind, NoLostExit, TypeOK, Children, WaitReap, fields
<1> QED
  BY <1>1, <1>2, <1>3, <1>4, <1>5, <1>6, <1>7, <1>8 DEF Ind

\* wait sleeps: no child it has passed has exited since.
LEMMA WaitSleepStep ==
    ASSUME Ind, NEW p \in Slots, WaitSleep(p)
    PROVE  Ind'
<1>1. TypeOK'
  <2>0. /\ lock' = [lock EXCEPT ![p] = 0] /\ idx' = [idx EXCEPT ![p] = 1]
        /\ havekids' = [havekids EXCEPT ![p] = FALSE]
    BY DEF WaitSleep, WaitLeave
  <2>1. /\ lock' \in [Slots -> 0..NPROC] /\ idx' \in [Slots -> 1..(NPROC + 1)]
        /\ havekids' \in [Slots -> BOOLEAN]
    BY <2>0 DEF Ind, TypeOK
  <2>2. CASE ~havekids[p] \/ killed[p]
    BY <2>1, <2>2 DEF Ind, TypeOK, WaitSleep, WaitLeave
  <2>3. CASE ~(~havekids[p] \/ killed[p])
    BY <2>1, <2>3, SlotFacts DEF Ind, TypeOK, WaitSleep, WaitLeave
  <2> QED
    BY <2>2, <2>3
<1>2. LockInv'
  BY SlotFacts DEF Ind, LockInv, TypeOK, ExitInv, WaitSleep, WaitLeave
<1>3. StateInv'
  BY DEF Ind, StateInv, TypeOK, WaitSleep, WaitLeave
<1>4. ExitInv'
  BY SlotFacts DEF Ind, ExitInv, TypeOK, WaitSleep, WaitLeave
<1>5. ScanInv'
  BY DEF Ind, ScanInv, TypeOK, Children, WaitSleep, WaitLeave
<1>6. Forest'
  BY DEF Ind, Forest, WaitSleep
<1>7. ParentAlive'
  BY DEF Ind, ParentAlive, InUse, TypeOK, StateInv, WaitSleep
<1>8. NoLostExit'
  BY SlotFacts DEF Ind, NoLostExit, TypeOK, Children, ScanInv, WaitSleep, Unscanned
<1> QED
  BY <1>1, <1>2, <1>3, <1>4, <1>5, <1>6, <1>7, <1>8 DEF Ind

-----------------------------------------------------------------------------
(* The theorems. *)

\* userinit leaves init alone in the table.
LEMMA InitInd == Init => Ind
<1> SUFFICES ASSUME Init PROVE Ind
  OBVIOUS
<1>1. TypeOK
  BY SlotFacts DEF Init, TypeOK
<1>2. LockInv /\ StateInv /\ ExitInv /\ ScanInv
  BY SlotFacts DEF Init, LockInv, StateInv, ExitInv, ScanInv
<1>3. Forest
  BY SlotFacts DEF Init, Forest
<1>4. ParentAlive /\ NoLostExit
  BY DEF Init, ParentAlive, NoLostExit
<1> QED
  BY <1>1, <1>2, <1>3, <1>4 DEF Ind

\* Every step keeps the invariant.
LEMMA NextInd == Ind /\ [Next]_vars => Ind'
<1> SUFFICES ASSUME Ind, [Next]_vars PROVE Ind'
  OBVIOUS
<1>1. ASSUME NEW p \in Slots, ProcStep(p) PROVE Ind'
  BY <1>1, SchedulerStep, YieldStep, KillStep, ForkStep, ForkFailsStep, ExitStep, ExitWakeInitStep,
     ExitReadParentStep, ExitLockParentStep, ExitLockSelfStep, ReparentStep, ExitZombieStep,
     SchedulerReleaseStep, WaitStep, WaitLockStep, WaitScanStep, WaitReapStep, WaitSleepStep
     DEF ProcStep
<1>2. CASE UNCHANGED vars
  BY <1>2 DEF Ind, TypeOK, LockInv, StateInv, ExitInv, ScanInv, Forest, ParentAlive, InUse,
     NoLostExit, Children, vars, fields, locals
<1> QED
  BY <1>1, <1>2 DEF Next

\* The process table keeps its types and its locking discipline through every
\* interleaving of fork, exit, wait, kill and the scheduler.
THEOREM Invariance == Spec => []Ind
  BY InitInd, NextInd, PTL DEF Spec

\* exit gives every child away before the process becomes a zombie, whatever the
\* other processes fork, kill, reap or exit meanwhile.
THEOREM NoOrphans == Spec => []ParentAlive
<1>1. Ind => ParentAlive
  BY DEF Ind
<1> QED
  BY <1>1, Invariance, PTL

\* No child's exit, and no kill, is lost on a process asleep in wait, except for init.
THEOREM ExitsNotLost == Spec => []NoLostExit
<1>1. Ind => NoLostExit
  BY DEF Ind
<1> QED
  BY <1>1, Invariance, PTL

\* freeproc finds the exited process off its CPU, its lock released and its
\* children given away.
THEOREM FreedAfterSwitch == Spec => []FreedOffCpu
<1>1. ASSUME Ind PROVE FreedOffCpu
  <2> SUFFICES ASSUME NEW p \in Slots, state[p] = "UNUSED"
               PROVE  pc[p] = "none" /\ lock[p] # p /\ Children(p) = {}
    BY DEF FreedOffCpu
  <2>1. pc[p] = "none"
    BY <1>1 DEF Ind, StateInv, TypeOK
  <2>2. lock[p] # p
    BY <1>1, <2>1 DEF Ind, LockInv
  <2>3. Children(p) = {}
    BY <1>1, NoSelfParent DEF Children, InUse
  <2> QED
    BY <2>1, <2>2, <2>3
<1> QED
  BY <1>1, Invariance, PTL

-----------------------------------------------------------------------------
(* Freedom from deadlock. *)

\* A process that is spun upon holds its lock in exit or in wait.
LEMMA SpunUpon ==
    ASSUME Ind, NEW p \in Slots, NEW q \in Slots, Spins(p, q)
    PROVE  pc[q] \in {"lockself", "reparent", "zombie", "scan"}
<1>1. PICK k \in Wants(p) : lock[k] = q
  BY DEF Spins
<1>2. k \in Slots
  <2>1. CASE pc[p] \in {"reparent", "scan"}
    <3>1. \/ Children(p) # {} /\ k = Min(Children(p))
          \/ Unscanned(p) # {} /\ k = Min(Unscanned(p))
      BY <1>1, <2>1 DEF Wants
    <3> QED
      BY <3>1, FirstChild, FirstUnscanned
  <2>2. CASE pc[p] \notin {"reparent", "scan"}
    BY <1>1, <2>2, SlotFacts DEF Wants, Ind, ExitInv
  <2> QED
    BY <2>1, <2>2
<1> QED
  BY <1>1, <1>2 DEF Ind, LockInv

\* Whom a process in exit or wait that holds a lock spins on, if that one's remembered
\* parent is still its parent: a child or a grandchild.
LEMMA SpinsOnDescendant ==
    ASSUME Ind, NEW q \in Slots, NEW r \in Slots, Spins(q, r), ~Stale(r),
           pc[q] \in {"lockself", "reparent", "zombie", "scan"}
    PROVE  parent[r] = q \/ (parent[r] \in Slots /\ parent[parent[r]] = q)
<1>1. PICK k \in Wants(q) : lock[k] = r
  BY DEF Spins
<1>2. CASE pc[q] = "lockself"
  <2>1. k = q
    BY <1>1, <1>2 DEF Wants
  <2> QED
    BY <1>1, <1>2, <2>1 DEF Ind, LockInv, Stale
<1>3. CASE pc[q] \in {"reparent", "scan"}
  <2>1. k \in Slots /\ parent[k] = q
    <3>1. \/ Children(q) # {} /\ k = Min(Children(q))
          \/ Unscanned(q) # {} /\ k = Min(Unscanned(q))
      BY <1>1, <1>3 DEF Wants
    <3> QED
      BY <3>1, FirstChild, FirstUnscanned
  <2> QED
    BY <1>1, <2>1 DEF Ind, LockInv, Stale
<1>4. CASE pc[q] = "zombie"
  BY <1>1, <1>4 DEF Wants
<1> QED
  BY <1>2, <1>3, <1>4

\* A process spins on a child or a grandchild unless it holds no lock, so a circle of
\* spinning processes would be a circle of the parent relation.
THEOREM DeadlockFree == Spec => []NoDeadlock
<1>1. ASSUME Ind PROVE NoDeadlock
  <2> SUFFICES ASSUME NEW T \in SUBSET {p \in Slots : ~Stale(p)}, T # {},
                      \A p \in T : \E q \in T : Spins(p, q)
               PROVE  FALSE
    BY DEF NoDeadlock, NoCircle
  <2> DEFINE U == {q \in T : \E p \in T : Spins(p, q)}
             S == U \cup {x \in Slots : parent[x] \in U /\ \E r \in U : parent[r] = x}
  <2>1. U \subseteq Slots /\ U # {} /\ S \subseteq Slots /\ S # {}
    OBVIOUS
  <2>2. ASSUME NEW q \in U PROVE \E y \in S : parent[y] = q
    <3>1. pc[q] \in {"lockself", "reparent", "zombie", "scan"}
      BY <1>1, SpunUpon
    <3>2. PICK r \in U : Spins(q, r)
      OBVIOUS
    <3>3. parent[r] = q \/ (parent[r] \in Slots /\ parent[parent[r]] = q)
      BY <1>1, <3>1, <3>2, SpinsOnDescendant
    <3> QED
      BY <3>3
  <2>3. \A x \in S : \E y \in S : parent[y] = x
    BY <2>2
  <2> HIDE DEF S
  <2>4. IsFiniteSet(S)
    <3>1. IsFiniteSet(Slots)
      BY FS_Interval DEF Slots
    <3> QED
      BY <2>1, <3>1, FS_Subset
  <2>5. \A y \in S : parent[y] \in S
    BY <2>3, <2>4, OntoIsTotal
  <2> QED
    BY <1>1, <2>1, <2>5 DEF Ind, Forest
<1> QED
  BY <1>1, Invariance, PTL
=============================================================================
