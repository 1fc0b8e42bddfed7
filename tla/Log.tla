-------------------------------- MODULE Log ---------------------------------
(***************************************************************************)
(* The write-ahead log (kernel/log.c) over the mirrored disk               *)
(* (kernel/bio.c): group commit of concurrent file-system operations,      *)
(* crash at any point and recovery at boot.                                *)
(*                                                                         *)
(* A block address is a home block, the log header (address 0, log.start)  *)
(* or a log slot (address i stands for log.start + i).  The disk has two   *)
(* copies of every address; copy 1 is the address plus DISK1_START_BLOCK.  *)
(* The cache holds at most one buffer per address.  Each transfer of one   *)
(* copy of one block is a step of its own, so a crash can fall between any *)
(* two of them.                                                            *)
(***************************************************************************)
EXTENDS Integers, Sequences, FiniteSets

CONSTANTS
    Proc,         \* processes making file-system calls
    Home,         \* home blocks
    Data,         \* contents of a home block
    Zero,         \* the content mkfs leaves on copy 1 of every block
    None,         \* not cached; no failing block
    MAXOPBLOCKS,  \* blocks begin_op reserves for an operation
    LOGSIZE,      \* entries of the in-memory log header
    NLOG,         \* blocks of the on-disk log, header included (sb.nlog)
    OpBlocks,     \* distinct blocks an operation really writes, at most
    DiskFails,    \* values the run passes to sys_force_disk_fail (-1: none)
    BlockFails,   \* values the run passes to sys_force_fail (None: none)
    Pressure,     \* the addresses whose buffers are wanted for other blocks
    Mirrored,     \* the image at first boot has equal copies, else fresh mkfs
    MaxCrashes,   \* bound on the number of crashes
    RefMod        \* refcnt is unsigned: it wraps at RefMod

Slot == 1..(NLOG - 1)
Addr == Home \cup Slot \cup {0}
Block == Data \cup {Zero} \cup Seq(Home)

ASSUME ConstantsAssumption ==
    /\ IsFiniteSet(Proc)
    /\ IsFiniteSet(Home)
    /\ Home \cap (0..(NLOG - 1)) = {}
    /\ Data # {}
    /\ Zero \notin Data
    /\ None \notin Block
    /\ None \notin Addr
    /\ MAXOPBLOCKS \in Nat \ {0}
    /\ LOGSIZE \in Nat
    /\ LOGSIZE >= MAXOPBLOCKS
    /\ NLOG \in Nat \ {0}
    /\ OpBlocks \in 1..MAXOPBLOCKS
    /\ DiskFails \subseteq {-1, 0, 1}
    /\ BlockFails \subseteq Addr \cup {None}
    /\ Pressure \subseteq Addr
    /\ Mirrored \in BOOLEAN
    /\ MaxCrashes \in Nat
    /\ RefMod \in Nat
    /\ RefMod > 2

VARIABLES
    disk,         \* disk[c][a]: copy c of the block at address a
    cache,        \* cache[a]: the buffer's data, or None
    refcnt,       \* refcnt[b]: pins of home block b's buffer
    lh,           \* log.lh: the home blocks of the current transaction
    outstanding,  \* log.outstanding
    committing,   \* log.committing
    pc,           \* where each process is
    wrote,        \* wrote[p]: the blocks p's current operation wrote
    booting,      \* fsinit is running; no file-system call is possible
    step,         \* where commit or recover_from_log is
    tail,         \* its loop index
    io,           \* where it is inside one block copy: read, w0, w1
    skip,         \* the copies the current bwrite leaves out
    failDisk,     \* force_disk_fail_id
    failBlock,    \* force_read_error_pbn
    crashes,      \* crashes so far
    unpinned,     \* history: blocks that recovery unpinned without a pin
    taken,        \* history: one of them was recycled while in use
    mem           \* history: what the operations last stored in each block

logVars  == <<lh, outstanding, committing, booting>>
procVars == <<pc, wrote>>
histVars == <<unpinned, taken, mem>>
ioVars   == <<step, tail, io, skip>>
failVars == <<failDisk, failBlock>>
vars == <<disk, cache, refcnt, logVars, procVars, ioVars, failVars, crashes, histVars>>

\* The blocks of the current transaction.
Logged == {lh[i] : i \in 1..Len(lh)}

TypeOK ==
    /\ disk \in [0..1 -> [Addr -> Block]]
    /\ \A c \in 0..1 : disk[c][0] \in Seq(Home)
    /\ cache \in [Addr -> {None} \cup Block]
    /\ cache[0] \in {None} \cup Seq(Home)
    /\ refcnt \in [Home -> 0..(RefMod - 1)]
    /\ lh \in Seq(Home)
    /\ outstanding \in Int
    /\ committing \in BOOLEAN
    /\ pc \in [Proc -> {"idle", "asleep", "woken", "op", "logging", "commit", "panic"}]
    /\ wrote \in [Proc -> SUBSET Home]
    /\ booting \in BOOLEAN
    /\ step \in {"none", "rdhead", "log", "head", "install", "clear", "done"}
    /\ tail \in Nat
    /\ io \in {"read", "w0", "w1"}
    /\ skip \in SUBSET {0, 1}
    /\ failDisk \in {-1, 0, 1}
    /\ failBlock \in Addr \cup {None}
    /\ crashes \in 0..MaxCrashes
    /\ unpinned \in SUBSET Home
    /\ taken \in BOOLEAN
    /\ mem \in [Home -> Block]

-----------------------------------------------------------------------------
(* The mirrored block layer. *)

\* bread reads copy 1 when copy 0 is made to fail.
UseFallback(a) == failDisk = 0 \/ failBlock = a

\* The cache after bread(a): a buffer that is not valid is read from the disk,
\* and the fallback reads copy 1 even over a valid buffer.
Bread(c, a) ==
    IF c[a] = None \/ UseFallback(a)
    THEN [c EXCEPT ![a] = disk[IF UseFallback(a) THEN 1 ELSE 0][a]]
    ELSE c

\* Mutant: the test for disk 1 is inverted.
SkippedInverted(a) ==
    (IF failDisk = 0 \/ failBlock = a THEN {0} ELSE {}) \cup
    (IF failDisk # 1 THEN {1} ELSE {})

\* Mutant: log slots are not mirrored.
SkippedLog(a) ==
    (IF failDisk = 0 \/ failBlock = a THEN {0} ELSE {}) \cup
    (IF failDisk = 1 \/ a \in Slot THEN {1} ELSE {})

\* The copies bwrite(a) leaves out, decided when it is called.
Skipped(a) ==
    (IF failDisk = 0 \/ failBlock = a THEN {0} ELSE {}) \cup
    (IF failDisk = 1 THEN {1} ELSE {})

\* What a read of home block b would return now.
ReadValue(b) == Bread(cache, b)[b]

\* The home blocks that recovery makes of one copy of the disk.
Replay(d) ==
    [b \in Home |->
        IF \E i \in 1..Len(d[0]) : d[0][i] = b
        THEN d[CHOOSE i \in 1..Len(d[0]) : d[0][i] = b]
        ELSE d[b]]

-----------------------------------------------------------------------------
(* Operations: begin_op, log_write, end_op. *)

\* Mutant: begin_op does not wait for a commit.
MustWaitSpace == Len(lh) + (outstanding + 1) * MAXOPBLOCKS > LOGSIZE

\* Mutant: begin_op forgets the entries already in the log.
MustWaitReserved ==
    \/ committing
    \/ (outstanding + 1) * MAXOPBLOCKS > LOGSIZE

\* begin_op's wait condition: a commit is running, or the log space reserved
\* for all operations would not fit.
MustWait ==
    \/ committing
    \/ Len(lh) + (outstanding + 1) * MAXOPBLOCKS > LOGSIZE

\* begin_op sleeps on &log, giving up log.lock in the same step.
BeginOpSleep(p) ==
    /\ ~booting
    /\ pc[p] \in {"idle", "woken"}
    /\ MustWait
    /\ pc' = [pc EXCEPT ![p] = "asleep"]
    /\ UNCHANGED <<disk, cache, refcnt, logVars, wrote, ioVars, failVars, crashes, histVars>>

BeginOp(p) ==
    /\ ~booting
    /\ pc[p] \in {"idle", "woken"}
    /\ ~MustWait
    /\ outstanding' = outstanding + 1
    /\ pc' = [pc EXCEPT ![p] = "op"]
    /\ UNCHANGED <<disk, cache, refcnt, lh, committing, booting, wrote, ioVars, failVars, crashes, histVars>>

\* log_write panics before it looks for an earlier entry of the same block.
LogFull == Len(lh) >= LOGSIZE \/ Len(lh) >= NLOG - 1

\* Mutant: wakeup finds nobody.
WakeupNobody(f) == f

\* wakeup(&log): everyone asleep in begin_op tests its condition again.
Wakeup(f) == [p \in Proc |-> IF f[p] = "asleep" THEN "woken" ELSE f[p]]

\* Mutant: bpin forgets to count.
BpinLost(n) == n

\* refcnt is unsigned: bpin and bunpin wrap.
Bpin(n) == (n + 1) % RefMod
Bunpin(n) == (n - 1) % RefMod

\* log_write's tests, made before it takes log.lock.
LogWriteTest(p) ==
    /\ pc[p] = "op"
    /\ pc' = [pc EXCEPT ![p] = IF LogFull \/ outstanding < 1 THEN "panic" ELSE "logging"]
    /\ UNCHANGED <<disk, cache, refcnt, logVars, wrote, ioVars, failVars, crashes, histVars>>

\* bread and modification of one block, the rest of log_write under log.lock,
\* and brelse.  The caller holds the buffer's lock from bread to brelse, and no
\* commit runs meanwhile, so nobody sees the block in between.
LogWrite(p, b, v) ==
    /\ pc[p] = "logging"
    /\ Cardinality(wrote[p] \cup {b}) <= OpBlocks
    /\ pc' = [pc EXCEPT ![p] = "op"]
    /\ cache' = [Bread(cache, b) EXCEPT ![b] = v]
    /\ lh' = IF b \in Logged THEN lh ELSE Append(lh, b)
    /\ refcnt' = IF b \in Logged THEN refcnt
                 ELSE [refcnt EXCEPT ![b] = Bpin(@)]
    /\ wrote' = [wrote EXCEPT ![p] = @ \cup {b}]
    /\ mem' = [mem EXCEPT ![b] = v]
    /\ UNCHANGED <<disk, outstanding, committing, booting, ioVars, failVars, crashes, unpinned, taken>>

\* Mutant: commit() leaves out write_log.
FirstPhaseHead == IF Len(lh) > 0 THEN "head" ELSE "done"

\* What commit() does first: nothing for an empty transaction.
FirstPhase == IF Len(lh) > 0 THEN "log" ELSE "done"

\* end_op up to the call of commit(), which the last operation makes.
EndOp(p) ==
    /\ pc[p] = "op"
    /\ outstanding' = outstanding - 1
    /\ IF committing \/ outstanding' # 0
       THEN /\ pc' = IF committing THEN [pc EXCEPT ![p] = "panic"]
                     ELSE Wakeup([pc EXCEPT ![p] = "idle"])
            /\ UNCHANGED <<committing, step, tail, io>>
       ELSE /\ pc' = [pc EXCEPT ![p] = "commit"]
            /\ committing' = TRUE
            /\ step' = FirstPhase
            /\ tail' = 0
            /\ io' = "read"
    /\ wrote' = [wrote EXCEPT ![p] = {}]
    /\ UNCHANGED <<disk, cache, refcnt, lh, booting, skip, failVars, crashes, histVars>>

\* Mutant: end_op does not clear committing.
FinishCommitKept(p) ==
    /\ pc[p] = "commit"
    /\ step = "done"
    /\ pc' = Wakeup([pc EXCEPT ![p] = "idle"])
    /\ step' = "none"
    /\ UNCHANGED <<disk, cache, refcnt, logVars, wrote, tail, io, skip, failVars, crashes, histVars>>

\* The end of end_op, after commit() returned.
FinishCommit(p) ==
    /\ pc[p] = "commit"
    /\ step = "done"
    /\ committing' = FALSE
    /\ pc' = Wakeup([pc EXCEPT ![p] = "idle"])
    /\ step' = "none"
    /\ UNCHANGED <<disk, cache, refcnt, lh, outstanding, booting, wrote, tail, io, skip, failVars, crashes, histVars>>

-----------------------------------------------------------------------------
(* commit() and recover_from_log(): one block at a time, each block read    *)
(* into the cache, then written to copy 0, then to copy 1.                  *)

\* The address the current bwrite is for.
Target ==
    CASE step = "log"             -> tail + 1
      [] step \in {"head", "clear"} -> 0
      [] step = "install"         -> lh[tail + 1]

StartBwrite(c, a) ==
    /\ io = "read"
    /\ cache' = c
    /\ skip' = Skipped(a)
    /\ io' = "w0"
    /\ UNCHANGED <<disk, refcnt, logVars, procVars, step, tail, failVars, crashes, histVars>>

\* write_log: copy the cached home block into the log slot's buffer.
WriteLog ==
    LET c == Bread(Bread(cache, tail + 1), lh[tail + 1])
    IN  /\ step = "log"
        /\ StartBwrite([c EXCEPT ![tail + 1] = c[lh[tail + 1]]], tail + 1)

\* write_head: copy the in-memory header into the header's buffer.
WriteHead ==
    /\ step \in {"head", "clear"}
    /\ StartBwrite([Bread(cache, 0) EXCEPT ![0] = lh], 0)

\* install_trans: copy the log slot's buffer into the home block's buffer.
InstallTrans ==
    LET b == lh[tail + 1]
        c == Bread(Bread(cache, tail + 1), b)
    IN  /\ step = "install"
        /\ StartBwrite([c EXCEPT ![b] = c[tail + 1]], b)

WriteCopy(c) ==
    disk' = IF c \in skip THEN disk
            ELSE [disk EXCEPT ![c][Target] = cache[Target]]

\* Copy 0 of the current block.
BwriteCopy0 ==
    /\ io = "w0"
    /\ WriteCopy(0)
    /\ io' = "w1"
    /\ UNCHANGED <<cache, refcnt, logVars, procVars, step, tail, skip, failVars, crashes, histVars>>

\* Mutant: the loop stops one block early.
MoreBlocksShort == tail + 2 < Len(lh)

\* The loop condition of write_log and install_trans after tail++.
MoreBlocks == tail + 1 < Len(lh)

\* On to the next block of the loop, or to the next phase; log.lh.n = 0 follows
\* install_trans.
NextTail(phase) ==
    IF MoreBlocks
    THEN /\ tail' = tail + 1
         /\ UNCHANGED <<step, lh>>
    ELSE /\ tail' = 0
         /\ step' = phase
         /\ lh' = IF step = "install" THEN <<>> ELSE lh

\* Copy 1 of a log slot.
BwriteCopy1Log ==
    /\ io = "w1" /\ step = "log"
    /\ WriteCopy(1)
    /\ NextTail("head")
    /\ io' = "read"
    /\ skip' = {}
    /\ UNCHANGED <<cache, refcnt, outstanding, committing, booting, procVars, failVars, crashes, histVars>>

\* Copy 1 of a home block; install_trans unpins the block in commit() and in recovery alike.
BwriteCopy1Install ==
    /\ io = "w1" /\ step = "install"
    /\ WriteCopy(1)
    /\ refcnt' = [refcnt EXCEPT ![lh[tail + 1]] = Bunpin(@)]
    /\ NextTail("clear")
    /\ io' = "read"
    /\ skip' = {}
    /\ unpinned' = IF booting THEN unpinned \cup {lh[tail + 1]} ELSE unpinned
    /\ UNCHANGED <<cache, outstanding, committing, booting, procVars, failVars, crashes, taken, mem>>

\* Copy 1 of the header.
BwriteCopy1Head ==
    /\ io = "w1" /\ step \in {"head", "clear"}
    /\ WriteCopy(1)
    /\ step' = IF step = "head" THEN "install" ELSE "done"
    /\ io' = "read"
    /\ skip' = {}
    /\ UNCHANGED <<cache, refcnt, logVars, procVars, tail, failVars, crashes, histVars>>

\* read_head at boot.
ReadHead ==
    /\ step = "rdhead"
    /\ cache' = Bread(cache, 0)
    /\ lh' = Bread(cache, 0)[0]
    /\ step' = IF lh' = <<>> THEN "clear" ELSE "install"
    /\ UNCHANGED <<disk, refcnt, outstanding, committing, booting, procVars, tail, io, skip, failVars, crashes, histVars>>

\* initlog returns; the first process goes on to user space.
FinishBoot ==
    /\ booting
    /\ step = "done"
    /\ booting' = FALSE
    /\ step' = "none"
    /\ UNCHANGED <<disk, cache, refcnt, lh, outstanding, committing, procVars, tail, io, skip, failVars, crashes, histVars>>

-----------------------------------------------------------------------------
(* The surroundings: cache recycling, the failure hooks, crashes. *)

\* Buffers the commit in progress holds locked.
Held ==
    CASE io = "read"               -> {}
      [] step \in {"head", "clear"} -> {0}
      [] OTHER                     -> {tail + 1, lh[tail + 1]}

\* Blocks of the running transaction whose buffers are pinned: install_trans has
\* not written and unpinned them yet.
Pinned ==
    IF booting THEN {}
    ELSE {lh[i] : i \in {j \in 1..Len(lh) : step # "install" \/ j > tail}}

\* The count of home block b's buffer can be zero: its pins are, or they have
\* wrapped to -1 and a process is between bread and brelse of it.
CountZero(b) == refcnt[b] = 0 \/ (refcnt[b] = RefMod - 1 /\ ~booting)

\* bget recycles a buffer with count zero.  One that is in use all the same, for
\* the count that recovery wrapped, serves two blocks from then on: only what
\* happens before that is modelled faithfully.
Recycle(a) ==
    /\ a \in Pressure /\ cache[a] # None
    /\ a \notin Held
    /\ a \in Home => CountZero(a)
    /\ cache' = [cache EXCEPT ![a] = None]
    /\ taken' = (taken \/ (a \in unpinned /\ (a \in Pinned \/ refcnt[a] # 0)))
    /\ UNCHANGED <<disk, refcnt, logVars, procVars, ioVars, failVars, crashes, unpinned, mem>>

ForceDiskFail(d) ==
    /\ ~booting
    /\ failDisk' = d
    /\ UNCHANGED <<disk, cache, refcnt, logVars, procVars, ioVars, failBlock, crashes, histVars>>

ForceFail(a) ==
    /\ ~booting
    /\ failBlock' = a
    /\ UNCHANGED <<disk, cache, refcnt, logVars, procVars, ioVars, failDisk, crashes, histVars>>

\* The machine stops and boots again: memory is lost, both copies stay.
Crash ==
    /\ crashes < MaxCrashes
    /\ crashes' = crashes + 1
    /\ cache' = [a \in Addr |-> None]
    /\ refcnt' = [b \in Home |-> 0]
    /\ lh' = <<>>
    /\ outstanding' = 0
    /\ committing' = FALSE
    /\ booting' = TRUE
    /\ pc' = [p \in Proc |-> "idle"]
    /\ wrote' = [p \in Proc |-> {}]
    /\ step' = "rdhead"
    /\ tail' = 0
    /\ io' = "read"
    /\ skip' = {}
    /\ failDisk' = -1
    /\ failBlock' = None
    /\ unpinned' = {}
    /\ mem' = Replay(disk[0])
    /\ UNCHANGED <<disk, taken>>

-----------------------------------------------------------------------------
Init ==
    /\ \E f \in [Home -> Data] :
         LET image(g) == [a \in Addr |->
                            IF a = 0 THEN <<>> ELSE IF a \in Slot THEN Zero ELSE g[a]]
         IN  /\ mem = f
             /\ disk = [c \in 0..1 |-> IF c = 0 \/ Mirrored THEN image(f)
                                       ELSE image([b \in Home |-> Zero])]
    /\ cache = [a \in Addr |-> None]
    /\ refcnt = [b \in Home |-> 0]
    /\ lh = <<>>
    /\ outstanding = 0
    /\ committing = FALSE
    /\ booting = TRUE
    /\ pc = [p \in Proc |-> "idle"]
    /\ wrote = [p \in Proc |-> {}]
    /\ step = "rdhead"
    /\ tail = 0
    /\ io = "read"
    /\ skip = {}
    /\ failDisk = -1
    /\ failBlock = None
    /\ crashes = 0
    /\ unpinned = {}
    /\ taken = FALSE

\* Steps of the process that commits, or of the first process at boot.
CommitStep ==
    \/ WriteLog \/ WriteHead \/ InstallTrans
    \/ BwriteCopy0 \/ BwriteCopy1Log \/ BwriteCopy1Head \/ BwriteCopy1Install

BootStep == ReadHead \/ FinishBoot

ProcStep(p) ==
    \/ BeginOpSleep(p)
    \/ BeginOp(p)
    \/ LogWriteTest(p)
    \/ \E b \in Home, v \in Data : LogWrite(p, b, v)
    \/ EndOp(p)
    \/ FinishCommit(p)

Next ==
    \/ \E p \in Proc : ProcStep(p)
    \/ CommitStep
    \/ BootStep
    \/ \E a \in Addr : Recycle(a)
    \/ \E d \in DiskFails : ForceDiskFail(d)
    \/ \E a \in BlockFails : ForceFail(a)
    \/ Crash

Spec == Init /\ [][Next]_vars

\* The kernel is preemptive and interrupts complete every transfer: the thread
\* that commits or boots goes on, a process in begin_op or at the end of a
\* commit goes on, and so does one inside log_write.  An operation writes
\* finitely many blocks, so it does not stay for ever in its log_writes: end_op,
\* possible again and again, is reached.  Nothing makes a process start an
\* operation, write a block or crash.
Fairness ==
    /\ WF_vars(CommitStep)
    /\ WF_vars(BootStep)
    /\ \A p \in Proc : WF_vars(FinishCommit(p)) /\ SF_vars(EndOp(p))
    /\ \A p \in Proc : WF_vars(\E b \in Home, v \in Data : LogWrite(p, b, v))
    /\ \A p \in Proc : WF_vars(pc[p] = "woken" /\ (BeginOpSleep(p) \/ BeginOp(p)))

FairSpec == Spec /\ Fairness

-----------------------------------------------------------------------------
(* Properties. *)

\* Reading a block returns what an operation last stored in it (after a crash:
\* what recovery restores): bread's "locked buf with the contents of the
\* indicated block" (bio.c) stays true while the block is dirty, being
\* committed, recycled and re-read, in every boot, until a count that recovery
\* wrapped lets bget recycle a buffer in use (taken).
ReadsSeeWrites ==
    ~booting /\ ~taken => \A b \in Home : ReadValue(b) = mem[b]

\* A write made while disk 0 fails reaches disk 1: once the operation and its
\* commit are over, reading the block back (from disk 1) returns what it wrote.
DegradedWriteKept ==
    ~booting /\ step = "none" /\ outstanding = 0 /\ failDisk = 0 =>
        \A b \in Home : ReadValue(b) = mem[b]

\* When no operation runs and no commit is in progress, a reboot would find
\* everything the operations wrote: end_op returns only after the commit.
QuiescentDurable ==
    ~booting /\ step = "none" /\ outstanding = 0 => Replay(disk[0]) = mem

\* Processes between begin_op and end_op (a call that panicked never reaches
\* end_op), and processes in commit().
InOp == {p \in Proc : pc[p] \in {"op", "logging", "panic"}}
InCommit == {p \in Proc : pc[p] = "commit"}

\* end_op's exclusion: while a commit runs nobody is inside an operation, at
\* most one process commits, and outstanding counts exactly the processes
\* between begin_op and end_op.
CommitExclusive ==
    /\ outstanding = Cardinality(InOp)
    /\ committing => InOp = {}
    /\ committing <=> InCommit # {}
    /\ \A p, q \in InCommit : p = q

\* No log_write or end_op panics.
NoPanic == \A p \in Proc : pc[p] # "panic"

\* begin_op's reservation is enough: no log_write or end_op of an admitted
\* operation panics, and the header never names more blocks than the log has
\* slots, although log_write tests for that without log.lock.
LogFits == NoPanic /\ Len(lh) <= NLOG - 1

\* With no commit in progress both copies of every home block that was written
\* since mkfs are equal.
MirrorInSync ==
    ~booting /\ step = "none" =>
        \A b \in Home : disk[1][b] \in {disk[0][b], Zero}

\* Copy 1 is a write-ahead log of its own: outside recovery, what replaying its
\* log yields changes only to the complete committed state.
Copy1Atomic ==
    [][~booting => Replay(disk[1])' \in {Replay(disk[1]), mem}]_vars

\* The log implements a disk that changes in whole transactions.
Abstract == INSTANCE AtomicDisk
              WITH durable <- Replay(disk[0]), active <- {p \in Proc : pc[p] \in {"op", "logging"}}
AtomicTransactions == Abstract!Spec

\* No wakeup of begin_op's sleepers is lost.
SleeperWoken ==
    \A p \in Proc : pc[p] = "asleep" ~> pc[p] # "asleep"

\* Recovery ends and a started commit ends.
CommitCompletes == committing \/ booting ~> ~committing /\ ~booting

-----------------------------------------------------------------------------
(* The inductive invariant behind TypeOK, CommitExclusive and NoPanic. *)

\* Who may run: commit() and boot exclude each other, and the commit steps are
\* taken exactly while one of them runs.
RunInv ==
    /\ ~(committing /\ booting)
    /\ booting => \A p \in Proc : pc[p] = "idle"
    /\ step = "none" <=> ~committing /\ ~booting
    /\ step = "rdhead" => booting /\ tail = 0 /\ io = "read"

\* The header never names more blocks than the log has slots, the loops stay
\* inside it, and a block being written is in the cache.
LogInv ==
    /\ Len(lh) <= NLOG - 1
    /\ \A c \in 0..1 : Len(disk[c][0]) <= NLOG - 1
    /\ cache[0] # None => Len(cache[0]) <= NLOG - 1
    /\ step \in {"log", "install"} => tail < Len(lh)
    /\ step = "head" => tail = 0 /\ Len(lh) > 0
    /\ step = "clear" => tail = 0
    /\ io # "read" => /\ step \in {"log", "head", "install", "clear"}
                      /\ cache[Target] # None

\* The unused part of the reservations: one element for each block an operation
\* may still add to the log.
Quota == {q \in InOp \X (1..OpBlocks) : q[2] > Cardinality(wrote[q[1]])}

\* The log has room for what its operations may still write, and for the
\* difference between what each reserved and what it can use.
ReserveInv ==
    /\ \A p \in Proc : wrote[p] \subseteq (IF p \in InOp THEN Logged ELSE {})
    /\ InOp # {} =>
         Len(lh) + Cardinality(Quota)
           + Cardinality(InOp) * (MAXOPBLOCKS - OpBlocks) <= LOGSIZE

\* Operations are small enough for the limit log_write enforces: the slack of
\* one reservation covers the entries the on-disk log lacks.
Footprint ==
    /\ OpBlocks < MAXOPBLOCKS
    /\ LOGSIZE - (NLOG - 1) < MAXOPBLOCKS - OpBlocks
=============================================================================
