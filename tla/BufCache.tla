------------------------------ MODULE BufCache ------------------------------
(***************************************************************************)
(* The buffer cache (kernel/bio.c): NBUF buffers with reference counts and *)
(* sleep locks on an LRU list, shared by processes that read and modify    *)
(* blocks inside file-system operations, by the process that commits, and  *)
(* by readers that hold no place in the log (fileread, filestat).          *)
(*                                                                         *)
(* A physical block number is <<b, c>>, copy c of block b: pbn0 is <<b, 0>> *)
(* and pbn1, DISK1_START_BLOCK further on, is <<b, 1>>.  What bcache.lock   *)
(* covers is one step; between its steps, and while a transfer is under    *)
(* way, other processes run.  Of the log only what decides who uses the    *)
(* cache when is kept: an operation takes one block at a time, the blocks  *)
(* logged stay pinned until the commit has installed them, and no          *)
(* operation runs during a commit.                                         *)
(***************************************************************************)
EXTENDS Integers, Sequences, FiniteSets, FiniteSetsExt

CONSTANTS
    Proc,        \* processes
    Readers,     \* those of them that read outside operations
    Block,       \* block numbers of the file system
    Data,        \* contents of a block
    None,        \* nobody, no buffer, no block
    NBUF,        \* number of buffers
    LogCap,      \* blocks an uncommitted transaction holds, at most
    FailDisk,    \* force_disk_fail_id during the run, or None
    FailBlock    \* force_read_error_pbn during the run, or None

ASSUME ConstantsAssumption ==
    /\ IsFiniteSet(Proc)
    /\ Readers \subseteq Proc
    /\ Data # {}
    /\ None \notin Proc \cup (Block \X {0, 1}) \cup Block \cup Data \cup (1..NBUF)
    /\ NBUF \in Nat
    /\ LogCap \in Nat
    /\ FailDisk \in {0, 1, None}
    /\ FailBlock \in Block \cup {None}

Buf == 1..NBUF
Pbn == Block \X {0, 1}

VARIABLES
    blockno,     \* blockno[k]: the physical block buffer k stands for, or None
    valid,       \* valid[k]: k has been read from the disk
    refcnt,      \* refcnt[k]
    data,        \* data[k]
    holder,      \* holder[k]: the process that has k's sleep lock, or None
    lru,         \* the buffers, most recently used first
    disk,        \* the disk, by physical block
    pc,          \* where each process is
    buf,         \* buf[p]: the buffer p got from bget, or None
    want,        \* want[p]: the block p asked for, or None
    logged,      \* blocks of the transaction that are not installed yet
    pinned,      \* history: buffers pinned by log_write
    committer,   \* the process in commit(), or None
    mem          \* history: what was last stored in each block

bufVars  == <<blockno, valid, refcnt, data, holder, lru>>
procVars == <<pc, buf, want>>
logVars  == <<logged, pinned, committer>>
vars == <<bufVars, disk, procVars, logVars, mem>>

TypeOK ==
    /\ blockno \in [Buf -> Pbn \cup {None}]
    /\ valid \in [Buf -> BOOLEAN]
    /\ refcnt \in [Buf -> Nat]
    /\ data \in [Buf -> Data]
    /\ holder \in [Buf -> Proc \cup {None}]
    /\ lru \in Seq(Buf)
    /\ disk \in [Pbn -> Data]
    /\ pc \in [Proc -> {"idle", "wait", "locked", "read", "have", "write0", "write1",
                        "unpin", "done", "release", "panic"}]
    /\ buf \in [Proc -> Buf \cup {None}]
    /\ want \in [Proc -> Block \cup {None}]
    /\ logged \in SUBSET Block
    /\ pinned \in SUBSET Buf
    /\ committer \in Proc \cup {None}
    /\ mem \in [Block -> Data]

-----------------------------------------------------------------------------
(* bget: under bcache.lock a buffer is found or recycled; the sleep lock is *)
(* taken afterwards.                                                        *)

\* Positions on the list of the buffers for physical block n.
Match(n) == {i \in 1..Len(lru) : blockno[lru[i]] = n}

\* Mutant: any buffer may be recycled.
UnusedAny == 1..Len(lru)

\* Positions of the buffers that may be recycled.
Unused == {i \in 1..Len(lru) : refcnt[lru[i]] = 0}

\* The log lets p use block b: readers always, operations while nobody
\* commits, the committer for a block it has to install.
Admitted(p, b) ==
    \/ p \in Readers
    \/ committer = None
    \/ committer = p /\ b \in logged

\* bget takes k for p, with k's new reference count, number and validity.
Take(p, b, k, n, ref, ok) ==
    /\ buf' = [buf EXCEPT ![p] = k]
    /\ want' = [want EXCEPT ![p] = b]
    /\ pc' = [pc EXCEPT ![p] = "wait"]
    /\ blockno' = [blockno EXCEPT ![k] = n]
    /\ refcnt' = [refcnt EXCEPT ![k] = ref]
    /\ valid' = [valid EXCEPT ![k] = ok]

\* Mutant: a recycled buffer keeps its valid flag.
BgetKeepsValid(p, b) ==
    LET n == <<b, 0>>
        hit  == lru[Min(Match(n))]
        free == lru[Max(Unused)]
    IN  /\ pc[p] = "idle"
        /\ Admitted(p, b)
        /\ IF Match(n) # {}
           THEN Take(p, b, hit, n, refcnt[hit] + 1, valid[hit])
           ELSE Unused # {} /\ Take(p, b, free, n, 1, valid[free])
        /\ UNCHANGED <<data, holder, lru, disk, logVars, mem>>

Bget(p, b) ==
    LET n == <<b, 0>>
        hit  == lru[Min(Match(n))]
        free == lru[Max(Unused)]
    IN  /\ pc[p] = "idle"
        /\ Admitted(p, b)
        /\ IF Match(n) # {}
           THEN Take(p, b, hit, n, refcnt[hit] + 1, valid[hit])
           ELSE IF Unused # {}
           THEN Take(p, b, free, n, 1, FALSE)
           ELSE /\ pc' = [pc EXCEPT ![p] = "panic"]
                /\ UNCHANGED <<blockno, refcnt, valid, buf, want>>
        /\ UNCHANGED <<data, holder, lru, disk, logVars, mem>>

Acquiresleep(p) ==
    /\ pc[p] = "wait"
    /\ holder[buf[p]] = None
    /\ holder' = [holder EXCEPT ![buf[p]] = p]
    /\ pc' = [pc EXCEPT ![p] = "locked"]
    /\ UNCHANGED <<blockno, valid, refcnt, data, lru, disk, buf, want, logVars, mem>>

-----------------------------------------------------------------------------
(* bread and bwrite: blockno is the physical block of the transfer while it *)
(* lasts, and is put back afterwards, without bcache.lock.                  *)

UseFallback(b) == FailDisk = 0 \/ FailBlock = b

\* The copies bwrite leaves out.
Skipped(b) ==
    (IF FailDisk = 0 \/ FailBlock = b THEN {0} ELSE {}) \cup
    (IF FailDisk = 1 THEN {1} ELSE {})

\* bread has the lock and decides whether, and from which copy, to read.
BreadTest(p) ==
    LET b == want[p]
        k == buf[p]
    IN  /\ pc[p] = "locked"
        /\ IF valid[k] /\ ~UseFallback(b)
           THEN /\ pc' = [pc EXCEPT ![p] = "have"]
                /\ UNCHANGED blockno
           ELSE /\ pc' = [pc EXCEPT ![p] = "read"]
                /\ blockno' = [blockno EXCEPT ![k] = <<b, IF UseFallback(b) THEN 1 ELSE 0>>]
        /\ UNCHANGED <<valid, refcnt, data, holder, lru, disk, buf, want, logVars, mem>>

\* The transfer is over; bread marks the buffer valid and restores blockno.
BreadDone(p) ==
    LET k == buf[p]
    IN  /\ pc[p] = "read"
        /\ data' = [data EXCEPT ![k] = disk[blockno[k]]]
        /\ valid' = [valid EXCEPT ![k] = TRUE]
        /\ blockno' = [blockno EXCEPT ![k] = <<want[p], 0>>]
        /\ pc' = [pc EXCEPT ![p] = "have"]
        /\ UNCHANGED <<refcnt, holder, lru, disk, buf, want, logVars, mem>>

\* The committer calls bwrite.
BwriteStart(p) ==
    /\ pc[p] = "have"
    /\ committer = p
    /\ pc' = [pc EXCEPT ![p] = IF holder[buf[p]] = p THEN "write0" ELSE "panic"]
    /\ UNCHANGED <<bufVars, disk, buf, want, logVars, mem>>

\* The transfer to copy 0 is over, and blockno is set for the one to copy 1.
BwriteCopy0(p) ==
    LET k == buf[p]
    IN  /\ pc[p] = "write0"
        /\ disk' = IF 0 \in Skipped(want[p]) THEN disk ELSE [disk EXCEPT ![blockno[k]] = data[k]]
        /\ blockno' = IF 1 \in Skipped(want[p]) THEN blockno
                      ELSE [blockno EXCEPT ![k] = <<want[p], 1>>]
        /\ pc' = [pc EXCEPT ![p] = "write1"]
        /\ UNCHANGED <<valid, refcnt, data, holder, lru, buf, want, logVars, mem>>

\* The transfer to copy 1 is over, and blockno is restored.
BwriteCopy1(p) ==
    LET k == buf[p]
    IN  /\ pc[p] = "write1"
        /\ disk' = IF 1 \in Skipped(want[p]) THEN disk ELSE [disk EXCEPT ![blockno[k]] = data[k]]
        /\ blockno' = [blockno EXCEPT ![k] = <<want[p], 0>>]
        /\ pc' = [pc EXCEPT ![p] = "unpin"]
        /\ UNCHANGED <<valid, refcnt, data, holder, lru, buf, want, logVars, mem>>

-----------------------------------------------------------------------------
(* Uses of a buffer: modify and pin it in an operation, unpin it in commit. *)

\* An operation modifies the block and calls log_write, which pins the buffer
\* when the block is new in the transaction.
ModifyAndPin(p, v) ==
    LET k == buf[p]
        b == want[p]
    IN  /\ pc[p] = "have"
        /\ p \notin Readers /\ committer = None
        /\ Cardinality(logged \cup {b}) <= LogCap
        /\ data' = [data EXCEPT ![k] = v]
        /\ mem' = [mem EXCEPT ![b] = v]
        /\ refcnt' = IF b \in logged THEN refcnt ELSE [refcnt EXCEPT ![k] = @ + 1]
        /\ pinned' = IF b \in logged THEN pinned ELSE pinned \cup {k}
        /\ logged' = logged \cup {b}
        /\ UNCHANGED <<blockno, valid, holder, lru, disk, procVars, committer>>

\* Mutant: install_trans forgets bunpin.
BunpinForgotten(p) ==
    /\ pc[p] = "unpin"
    /\ pinned' = pinned \ {buf[p]}
    /\ logged' = logged \ {want[p]}
    /\ pc' = [pc EXCEPT ![p] = "done"]
    /\ UNCHANGED <<bufVars, disk, buf, want, committer, mem>>

\* install_trans unpins the block it has written.
Bunpin(p) ==
    LET k == buf[p]
    IN  /\ pc[p] = "unpin"
        /\ refcnt' = [refcnt EXCEPT ![k] = @ - 1]
        /\ pinned' = pinned \ {k}
        /\ logged' = logged \ {want[p]}
        /\ pc' = [pc EXCEPT ![p] = "done"]
        /\ UNCHANGED <<blockno, valid, data, holder, lru, disk, buf, want, committer, mem>>

\* brelse gives up the sleep lock, before it takes bcache.lock.
BrelseUnlock(p) ==
    /\ \/ pc[p] = "have" /\ committer # p
       \/ pc[p] = "done"
    /\ IF holder[buf[p]] = p
       THEN /\ holder' = [holder EXCEPT ![buf[p]] = None]
            /\ pc' = [pc EXCEPT ![p] = "release"]
       ELSE /\ pc' = [pc EXCEPT ![p] = "panic"]
            /\ UNCHANGED holder
    /\ UNCHANGED <<blockno, valid, refcnt, data, lru, disk, buf, want, logVars, mem>>

\* Where k is in the list, and the list s with the buffer at place i unlinked.
Place(k) == CHOOSE i \in 1..Len(lru) : lru[i] = k
Unlinked(s, i) == SubSeq(s, 1, i - 1) \o SubSeq(s, i + 1, Len(s))

\* brelse drops the reference; an unused buffer becomes the most recent one.
BrelseDrop(p) ==
    LET k == buf[p]
    IN  /\ pc[p] = "release"
        /\ refcnt' = [refcnt EXCEPT ![k] = @ - 1]
        /\ lru' = IF refcnt[k] = 1 THEN <<k>> \o Unlinked(lru, Place(k)) ELSE lru
        /\ buf' = [buf EXCEPT ![p] = None]
        /\ want' = [want EXCEPT ![p] = None]
        /\ pc' = [pc EXCEPT ![p] = "idle"]
        /\ UNCHANGED <<blockno, valid, data, holder, disk, logVars, mem>>

\* end_op of the last operation, and the end of its commit.
StartCommit(p) ==
    /\ committer = None
    /\ logged # {}
    /\ p \notin Readers
    /\ \A q \in Proc \ Readers : pc[q] = "idle"
    /\ committer' = p
    /\ UNCHANGED <<bufVars, disk, procVars, logged, pinned, mem>>

EndCommit(p) ==
    /\ committer = p
    /\ logged = {}
    /\ pc[p] = "idle"
    /\ committer' = None
    /\ UNCHANGED <<bufVars, disk, procVars, logged, pinned, mem>>

-----------------------------------------------------------------------------
\* binit: the list holds every buffer once, the last one first; dev 0 is no
\* disk, so no buffer stands for a block.
Init ==
    /\ blockno = [k \in Buf |-> None]
    /\ valid = [k \in Buf |-> FALSE]
    /\ refcnt = [k \in Buf |-> 0]
    /\ \E v \in Data : data = [k \in Buf |-> v]
    /\ holder = [k \in Buf |-> None]
    /\ lru = [i \in Buf |-> NBUF + 1 - i]
    /\ mem \in [Block -> Data]
    /\ disk = [n \in Pbn |-> mem[n[1]]]
    /\ pc = [p \in Proc |-> "idle"]
    /\ buf = [p \in Proc |-> None]
    /\ want = [p \in Proc |-> None]
    /\ logged = {}
    /\ pinned = {}
    /\ committer = None

ProcStep(p) ==
    \/ \E b \in Block : Bget(p, b)
    \/ Acquiresleep(p) \/ BreadTest(p) \/ BreadDone(p)
    \/ BwriteStart(p) \/ BwriteCopy0(p) \/ BwriteCopy1(p)
    \/ \E v \in Data : ModifyAndPin(p, v)
    \/ Bunpin(p) \/ BrelseUnlock(p) \/ BrelseDrop(p)
    \/ StartCommit(p) \/ EndCommit(p)

Next == \E p \in Proc : ProcStep(p)

Spec == Init /\ [][Next]_vars

-----------------------------------------------------------------------------
(* Properties. *)

\* Processes whose bread has returned and whose brelse has not begun.
Using(p) == pc[p] \in {"have", "write0", "write1", "unpin", "done"}

\* Processes that got buffer k from bget.
Users(k) == {p \in Proc : buf[p] = k}

\* A buffer's reference count is exactly the processes that got it from bget
\* plus its pin: recycling never hits a buffer in use, and none leaks.
RefcntExact ==
    \A k \in Buf :
        refcnt[k] = Cardinality(Users(k)) + (IF k \in pinned THEN 1 ELSE 0)

\* "Only one process at a time can use a buffer", and the cache is "a
\* synchronization point for disk blocks used by multiple processes": no two
\* processes use the same block at once (bio.c).  bwrite changes blockno for the
\* length of a transfer, and a commit does not keep readers out.
OneUserPerBlock ==
    \A p, q \in Proc : Using(p) /\ Using(q) /\ want[p] = want[q] => p = q

\* bread returns a locked buffer with the contents of the indicated block: what
\* was last stored in it, through recycling, pinning and commits.
BreadReturnsBlock ==
    \A p \in Proc : Using(p) =>
        /\ holder[buf[p]] = p
        /\ pc[p] # "write1" => blockno[buf[p]] = <<want[p], 0>>
        /\ data[buf[p]] = mem[want[p]]

\* A block that is logged and not yet installed keeps its modified buffer.
DirtyBlockCached ==
    \A b \in logged : \E k \in pinned : blockno[k] \in {b} \X {0, 1} /\ data[k] = mem[b]
=============================================================================
