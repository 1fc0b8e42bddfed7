-------------------------------- MODULE Pipe --------------------------------
(***************************************************************************)
(* Descriptors, the file table and pipes: kernel/file.c, kernel/pipe.c and *)
(* the calls pipe, dup, close, read and write of kernel/sysfile.c, with    *)
(* what fork, exit and kill of kernel/proc.c do to them.                   *)
(*                                                                         *)
(* A section of ftable.lock is one step.  A section of a pipe's lock is    *)
(* one step up to the point where the process goes to sleep: sleep() is a  *)
(* step of its own, because the test of killed before it is made without   *)
(* the lock under which kill() sets it.  A process that is not asleep is   *)
(* RUNNING or RUNNABLE; which of the two makes no difference here.         *)
(***************************************************************************)
EXTENDS Integers, Sequences, FiniteSets, FiniteSetsExt

CONSTANTS
    Procs,       \* the process slots; slot 1 runs first
    NOFILE,      \* descriptors of a process
    NFILE,       \* entries of the file table
    NPAGE,       \* pages kalloc has for pipes
    PIPESIZE,    \* bytes of a pipe's buffer
    UintMod,     \* the number of values of a uint: the counters wrap
    Bytes,       \* the bytes that are written
    Reads,       \* the counts passed to read
    Writes       \* the byte strings passed to write

ASSUME ConstantsAssumption ==
    /\ Procs \subseteq Nat \ {0} /\ 1 \in Procs /\ IsFiniteSet(Procs)
    /\ {NOFILE, NFILE, NPAGE, PIPESIZE} \subseteq Nat \ {0}
    /\ Bytes # {} /\ Reads \subseteq Nat /\ Writes \subseteq Seq(Bytes)
    /\ UintMod \in Nat /\ UintMod % PIPESIZE = 0 /\ UintMod > PIPESIZE

Fds == 0..(NOFILE - 1)
Files == 1..NFILE
Pages == 1..NPAGE

SomeByte == CHOOSE b \in Bytes : TRUE

\* What a process can sleep on: a pipe's nread or nwrite.  Awake is no channel.
Awake == <<0, "none">>
OnRead(pi) == <<pi, "nread">>
OnWrite(pi) == <<pi, "nwrite">>
Channels == {OnRead(pi) : pi \in Pages} \cup {OnWrite(pi) : pi \in Pages}

\* What a file is of: an end of a pipe, or nothing (then the other fields are
\* never read).
FD_NONE == [pipe |-> 0, writable |-> FALSE]
FD_PIPE(pi, w) == [pipe |-> pi, writable |-> w]
Objects == {FD_NONE} \cup {FD_PIPE(pi, w) : pi \in Pages, w \in BOOLEAN}

VARIABLES
    ofile,       \* ofile[p][fd]: the file, or 0
    ref,         \* the reference counts of the file table
    object,      \* object[f]: the type, pipe and writable fields of file f
    used,        \* the pages kalloc has handed out
    nread, nwrite, data, readopen, writeopen,  \* the fields of a struct pipe
    silent,      \* history: pipes that a killed writer filled, and no wakeup since
    lock,        \* lock[pi]: the process that holds pi->lock over a step, or 0
    sleeping,    \* sleeping[p]: the channel p sleeps on, or Awake
    killed,
    pc,          \* where the process is
    hand,        \* the files that only local variables of a call refer to
    pipe,        \* the pipe of the read, write or pipeclose under way
    back,        \* where the caller of pipeclose goes on
    rest         \* the bytes a write still has to copy; the count of a read

files == <<ofile, ref, object>>
pipes == <<used, nread, nwrite, data, readopen, writeopen, silent>>
locals == <<hand, pipe, back, rest>>
vars == <<files, pipes, lock, sleeping, killed, pc, locals>>

\* "close": hand is to be closed, file by file; "closer", "closew": in pipeclose
\* with writable 0 and 1; "rsleep", "wsleep": about to call sleep.
PCs == {"unused", "user", "file1", "page", "fds", "close", "closer", "closew",
        "read", "rsleep", "write", "wsleep", "exit", "dead"}

TypeOK ==
    /\ ofile \in [Procs -> [Fds -> 0..NFILE]]
    /\ ref \in [Files -> Nat]
    /\ object \in [Files -> Objects]
    /\ used \subseteq Pages
    /\ nread \in [Pages -> 0..(UintMod - 1)]
    /\ nwrite \in [Pages -> 0..(UintMod - 1)]
    /\ data \in [Pages -> [0..(PIPESIZE - 1) -> Bytes]]
    /\ readopen \in [Pages -> BOOLEAN] /\ writeopen \in [Pages -> BOOLEAN]
    /\ silent \subseteq Pages
    /\ lock \in [Pages -> Procs \cup {0}]
    /\ sleeping \in [Procs -> {Awake} \cup Channels]
    /\ killed \in [Procs -> BOOLEAN]
    /\ pc \in [Procs -> PCs]
    /\ hand \in [Procs -> Seq(Files)] /\ \A p \in Procs : Len(hand[p]) <= 2
    /\ pipe \in [Procs -> 0..NPAGE]
    /\ back \in [Procs -> PCs]
    /\ rest \in [Procs -> Seq(Bytes)]

Init ==
    /\ ofile = [p \in Procs |-> [fd \in Fds |-> 0]]
    /\ ref = [f \in Files |-> 0]
    /\ object = [f \in Files |-> FD_NONE]
    /\ used = {}
    /\ nread = [pi \in Pages |-> 0] /\ nwrite = [pi \in Pages |-> 0]
    /\ data = [pi \in Pages |-> [k \in 0..(PIPESIZE - 1) |-> SomeByte]]
    /\ readopen = [pi \in Pages |-> FALSE] /\ writeopen = [pi \in Pages |-> FALSE]
    /\ silent = {}
    /\ lock = [pi \in Pages |-> 0]
    /\ sleeping = [p \in Procs |-> Awake]
    /\ killed = [p \in Procs |-> FALSE]
    /\ pc = [p \in Procs |-> IF p = 1 THEN "user" ELSE "unused"]
    /\ hand = [p \in Procs |-> <<>>]
    /\ pipe = [p \in Procs |-> 0]
    /\ back = [p \in Procs |-> "user"]
    /\ rest = [p \in Procs |-> <<>>]

-----------------------------------------------------------------------------
(* Helpers. *)

Goto(p, l) == pc' = [pc EXCEPT ![p] = l]

\* p is in user space; usertrap lets it make a call unless it has been killed.
MayCall(p) == pc[p] = "user" /\ ~killed[p]

\* wakeup(chan)
Wakeup(chan) == sleeping' = [q \in Procs |-> IF sleeping[q] = chan THEN Awake ELSE sleeping[q]]

FreeFiles == {f \in Files : ref[f] = 0}
FreeFds(p) == {fd \in Fds : ofile[p][fd] = 0}

\* filealloc: the first free entry; the other fields stay as they are.
Filealloc(p) ==
    /\ ref' = [ref EXCEPT ![Min(FreeFiles)] = 1]
    /\ hand' = [hand EXCEPT ![p] = Append(@, Min(FreeFiles))]

\* The bytes in the buffer.  The code compares the counters: nread == nwrite is
\* empty, nwrite == nread + PIPESIZE (a uint addition, which wraps) is full.
Count(pi) == (nwrite[pi] - nread[pi]) % UintMod

-----------------------------------------------------------------------------
(* fileclose and pipeclose *)

\* The section of ftable.lock: the last reference also closes the object.  next
\* is where p goes on when this was not the last reference.
DropFile(p, f, next) ==
    /\ ref' = [ref EXCEPT ![f] = @ - 1]
    /\ IF ref[f] > 1
       THEN Goto(p, next) /\ UNCHANGED <<object, pipe, back>>
       ELSE /\ object' = [object EXCEPT ![f] = FD_NONE]
            /\ IF object[f] # FD_NONE
               THEN /\ Goto(p, IF object[f].writable THEN "closew" ELSE "closer")
                    /\ pipe' = [pipe EXCEPT ![p] = object[f].pipe]
                    /\ back' = [back EXCEPT ![p] = next]
               ELSE Goto(p, next) /\ UNCHANGED <<pipe, back>>
    /\ UNCHANGED <<pipes, lock, sleeping, killed, rest>>

\* Mutant: the writers' end does not wake the readers.
WakeClosedSelf(pi, w) == Wakeup(IF w THEN OnWrite(pi) ELSE OnRead(pi))

\* Closing an end wakes those who wait for the other end.
WakeClosed(pi, w) == Wakeup(IF w THEN OnRead(pi) ELSE OnWrite(pi))

\* kfree overwrites the page, so that no byte of it survives.
Kfree(pi) ==
    /\ used' = used \ {pi}
    /\ nread' = [nread EXCEPT ![pi] = 0]
    /\ nwrite' = [nwrite EXCEPT ![pi] = 0]
    /\ data' = [data EXCEPT ![pi] = [k \in DOMAIN @ |-> SomeByte]]

\* Mutant: the page goes with its first end.
EitherClosed(ro, wo) == ~ro \/ ~wo

BothClosed(ro, wo) == ~ro /\ ~wo

Pipeclose(p, w) ==
    LET pi == pipe[p]
        ro == readopen[pi] /\ w
        wo == writeopen[pi] /\ ~w
    IN  /\ pc[p] = IF w THEN "closew" ELSE "closer"
        /\ lock[pi] = 0
        /\ readopen' = [readopen EXCEPT ![pi] = ro]
        /\ writeopen' = [writeopen EXCEPT ![pi] = wo]
        /\ WakeClosed(pi, w)
        /\ silent' = IF w \/ BothClosed(ro, wo) THEN silent \ {pi} ELSE silent
        /\ IF BothClosed(ro, wo)
           THEN Kfree(pi)
           ELSE UNCHANGED <<used, nread, nwrite, data>>
        /\ Goto(p, back[p])
        /\ pipe' = [pipe EXCEPT ![p] = 0]
        /\ back' = [back EXCEPT ![p] = "user"]
        /\ UNCHANGED <<files, lock, killed, hand, rest>>

\* The error paths of sys_pipe and pipealloc close what they have allocated.
CloseHand(p) ==
    /\ pc[p] = "close"
    /\ DropFile(p, Head(hand[p]), IF Len(hand[p]) > 1 THEN "close" ELSE "user")
    /\ hand' = [hand EXCEPT ![p] = Tail(@)]
    /\ UNCHANGED ofile

SysClose(p, fd) ==
    /\ MayCall(p)
    /\ ofile[p][fd] # 0
    /\ DropFile(p, ofile[p][fd], "user")
    /\ ofile' = [ofile EXCEPT ![p][fd] = 0]
    /\ UNCHANGED hand

-----------------------------------------------------------------------------
(* pipe *)

\* sys_pipe: pipealloc's first filealloc, its second, kalloc, and the two fdallocs.
SysPipe(p) ==
    /\ MayCall(p)
    /\ FreeFiles # {}
    /\ Filealloc(p)
    /\ Goto(p, "file1")
    /\ UNCHANGED <<ofile, object, pipes, lock, sleeping, killed, pipe, back, rest>>

PipeSecondFile(p) ==
    /\ pc[p] = "file1"
    /\ IF FreeFiles # {}
       THEN Filealloc(p) /\ Goto(p, "page")
       ELSE Goto(p, "close") /\ UNCHANGED <<ref, hand>>
    /\ UNCHANGED <<ofile, object, pipes, lock, sleeping, killed, pipe, back, rest>>

PipePage(p) ==
    LET pi == Min(Pages \ used)
        rf == hand[p][1]
        wf == hand[p][2]
    IN  /\ pc[p] = "page"
        /\ used # Pages
        /\ used' = used \cup {pi}
        /\ readopen' = [readopen EXCEPT ![pi] = TRUE]
        /\ writeopen' = [writeopen EXCEPT ![pi] = TRUE]
        /\ nread' = [nread EXCEPT ![pi] = 0]
        /\ nwrite' = [nwrite EXCEPT ![pi] = 0]
        /\ object' = [object EXCEPT ![rf] = FD_PIPE(pi, FALSE), ![wf] = FD_PIPE(pi, TRUE)]
        /\ Goto(p, "fds")
        /\ UNCHANGED <<ofile, ref, data, silent, lock, sleeping, killed, locals>>

\* The rest of the kernel shares kalloc's pages: there may be none at any time.
PipeNoPage(p) ==
    /\ pc[p] = "page"
    /\ Goto(p, "close")
    /\ UNCHANGED <<files, pipes, lock, sleeping, killed, locals>>

\* copyout of the descriptors may fail as well: then nothing stays in ofile.
PipeFds(p) ==
    LET fd0 == Min(FreeFds(p))
        fd1 == Min(FreeFds(p) \ {fd0})
    IN  /\ pc[p] = "fds"
        /\ \/ /\ Cardinality(FreeFds(p)) > 1
              /\ ofile' = [ofile EXCEPT ![p][fd0] = hand[p][1], ![p][fd1] = hand[p][2]]
              /\ hand' = [hand EXCEPT ![p] = <<>>]
              /\ Goto(p, "user")
           \/ Goto(p, "close") /\ UNCHANGED <<ofile, hand>>
        /\ UNCHANGED <<ref, object, pipes, lock, sleeping, killed, pipe, back, rest>>

\* Mutant: the new descriptor shares the reference of the old one.
DupNoRef(p, fd) ==
    /\ MayCall(p)
    /\ ofile[p][fd] # 0
    /\ FreeFds(p) # {}
    /\ ofile' = [ofile EXCEPT ![p][Min(FreeFds(p))] = ofile[p][fd]]
    /\ UNCHANGED <<ref, object, pipes, lock, sleeping, killed, pc, locals>>

SysDup(p, fd) ==
    /\ MayCall(p)
    /\ ofile[p][fd] # 0
    /\ FreeFds(p) # {}
    /\ ofile' = [ofile EXCEPT ![p][Min(FreeFds(p))] = ofile[p][fd]]
    /\ ref' = [ref EXCEPT ![ofile[p][fd]] = @ + 1]
    /\ UNCHANGED <<object, pipes, lock, sleeping, killed, pc, locals>>

-----------------------------------------------------------------------------
(* read and write *)

\* sys_read and fileread of a descriptor that is open for reading.
SysRead(p, fd, n) ==
    LET f == ofile[p][fd]
    IN  /\ MayCall(p)
        /\ f # 0 /\ ~object[f].writable
        /\ pipe' = [pipe EXCEPT ![p] = object[f].pipe]
        /\ rest' = [rest EXCEPT ![p] = [k \in 1..n |-> SomeByte]]
        /\ Goto(p, "read")
        /\ UNCHANGED <<files, pipes, lock, sleeping, killed, hand, back>>

Return(p) ==
    /\ Goto(p, "user")
    /\ pipe' = [pipe EXCEPT ![p] = 0]
    /\ rest' = [rest EXCEPT ![p] = <<>>]

\* piperead from acquire, or from the return of sleep, to the copy.  It copies
\* what there is, up to the count; fewer when copyout fails after a byte is taken.
Piperead(p) ==
    LET pi == pipe[p]
        max == Min({Count(pi), Len(rest[p])})
    IN  /\ pc[p] = "read" /\ sleeping[p] = Awake
        /\ lock[pi] = 0
        /\ ~(Count(pi) = 0 /\ writeopen[pi])
        /\ \E m \in IF max = 0 THEN {0} ELSE 1..max :
              nread' = [nread EXCEPT ![pi] = (@ + m) % UintMod]
        /\ Wakeup(OnWrite(pi))
        /\ Return(p)
        /\ UNCHANGED <<files, used, nwrite, data, readopen, writeopen, silent, lock, killed, hand, back>>

PipereadEmpty(p) ==
    LET pi == pipe[p]
    IN  /\ pc[p] = "read" /\ sleeping[p] = Awake
        /\ lock[pi] = 0
        /\ Count(pi) = 0 /\ writeopen[pi]
        /\ IF killed[p]
           THEN Return(p) /\ UNCHANGED lock
           ELSE /\ lock' = [lock EXCEPT ![pi] = p]
                /\ Goto(p, "rsleep")
                /\ UNCHANGED <<pipe, rest>>
        /\ UNCHANGED <<files, pipes, sleeping, killed, hand, back>>

\* Mutant: the lock is released before the process is marked asleep.
SleepUnlocked(p, from, to, chan) ==
    /\ pc[p] = from
    /\ IF lock[pipe[p]] = p
       THEN lock' = [lock EXCEPT ![pipe[p]] = 0] /\ UNCHANGED <<sleeping, pc>>
       ELSE sleeping' = [sleeping EXCEPT ![p] = chan] /\ Goto(p, to) /\ UNCHANGED lock
    /\ UNCHANGED <<files, pipes, killed, locals>>

\* sleep(chan, &pi->lock): p->lock is taken before pi->lock is released.
Sleep(p, from, to, chan) ==
    /\ pc[p] = from
    /\ sleeping' = [sleeping EXCEPT ![p] = chan]
    /\ lock' = [lock EXCEPT ![pipe[p]] = 0]
    /\ Goto(p, to)
    /\ UNCHANGED <<files, pipes, killed, locals>>

PipereadSleep(p) == Sleep(p, "rsleep", "read", OnRead(pipe[p]))

SysWrite(p, fd, bytes) ==
    LET f == ofile[p][fd]
    IN  /\ MayCall(p)
        /\ f # 0 /\ object[f].writable
        /\ pipe' = [pipe EXCEPT ![p] = object[f].pipe]
        /\ rest' = [rest EXCEPT ![p] = bytes]
        /\ Goto(p, "write")
        /\ UNCHANGED <<files, pipes, lock, sleeping, killed, hand, back>>

\* Mutant: the ring is written from its start.
StoreAtStart(pi, bytes, m) ==
    /\ data' = [data EXCEPT ![pi] = [k \in DOMAIN @ |-> IF k < m THEN bytes[k + 1] ELSE @[k]]]
    /\ nwrite' = [nwrite EXCEPT ![pi] = (@ + m) % UintMod]

\* The first m bytes of bytes go into the ring at nwrite.
Store(pi, bytes, m) ==
    /\ data' = [data EXCEPT ![pi] = [k \in DOMAIN @ |->
                    LET i == (k - nwrite[pi]) % PIPESIZE
                    IN  IF i < m THEN bytes[i + 1] ELSE @[k]]]
    /\ nwrite' = [nwrite EXCEPT ![pi] = (@ + m) % UintMod]

\* pipewrite from acquire, or from the return of sleep: it stores bytes until none
\* is left, copyin fails, or the buffer is full.  In the last case it leaves
\* without a wakeup when nobody can read or it has been killed.
Pipewrite(p) ==
    LET pi == pipe[p]
        left == Len(rest[p])
        room == Min({PIPESIZE - Count(pi), left})
    IN  /\ pc[p] = "write" /\ sleeping[p] = Awake
        /\ lock[pi] = 0
        /\ \E m \in 0..room :
              LET full == m = room /\ m < left
                  gone == ~readopen[pi] \/ killed[p]
              IN  /\ Store(pi, rest[p], m)
                  /\ IF full /\ gone THEN UNCHANGED sleeping ELSE Wakeup(OnRead(pi))
                  /\ silent' = IF ~full \/ ~gone THEN silent \ {pi}
                               ELSE IF killed[p] /\ m > 0 THEN silent \cup {pi} ELSE silent
                  /\ IF full /\ ~gone
                     THEN /\ rest' = [rest EXCEPT ![p] = SubSeq(@, m + 1, Len(@))]
                          /\ lock' = [lock EXCEPT ![pi] = p]
                          /\ Goto(p, "wsleep")
                          /\ UNCHANGED pipe
                     ELSE Return(p) /\ UNCHANGED lock
        /\ UNCHANGED <<files, used, nread, readopen, writeopen, killed, hand, back>>

PipewriteSleep(p) == Sleep(p, "wsleep", "write", OnWrite(pipe[p]))

-----------------------------------------------------------------------------
(* fork, exit and kill *)

Fork(p, q) ==
    /\ MayCall(p)
    /\ pc[q] = "unused"
    /\ pc' = [pc EXCEPT ![q] = "user"]
    /\ ofile' = [ofile EXCEPT ![q] = ofile[p]]
    /\ ref' = [f \in Files |-> ref[f] + Cardinality({fd \in Fds : ofile[p][fd] = f})]
    /\ UNCHANGED <<object, pipes, lock, sleeping, killed, locals>>

\* A call of exit, or usertrap's for a killed process.
Exit(p) ==
    /\ pc[p] = "user"
    /\ Goto(p, "exit")
    /\ UNCHANGED <<files, pipes, lock, sleeping, killed, locals>>

OpenFds(p) == {fd \in Fds : ofile[p][fd] # 0}

ExitClose(p) ==
    /\ pc[p] = "exit"
    /\ IF OpenFds(p) # {}
       THEN LET fd == Min(OpenFds(p))
            IN  /\ DropFile(p, ofile[p][fd], "exit")
                /\ ofile' = [ofile EXCEPT ![p][fd] = 0]
                /\ UNCHANGED hand
       ELSE Goto(p, "dead") /\ UNCHANGED <<files, pipes, lock, sleeping, killed, locals>>

Kill(p, q) ==
    /\ MayCall(p)
    /\ pc[q] \notin {"unused", "dead", "exit"} /\ ~killed[q]
    /\ killed' = [killed EXCEPT ![q] = TRUE]
    /\ sleeping' = [sleeping EXCEPT ![q] = Awake]
    /\ UNCHANGED <<files, pipes, lock, pc, locals>>

\* The steps of a call under way.
Step(p) ==
    \/ PipeSecondFile(p) \/ PipePage(p) \/ PipeNoPage(p) \/ PipeFds(p)
    \/ CloseHand(p) \/ ExitClose(p)
    \/ \E w \in BOOLEAN : Pipeclose(p, w)
    \/ Piperead(p) \/ PipereadEmpty(p) \/ PipereadSleep(p)
    \/ Pipewrite(p) \/ PipewriteSleep(p)

Next ==
    \E p \in Procs :
        \/ Step(p)
        \/ SysPipe(p) \/ Exit(p)
        \/ \E fd \in Fds : SysClose(p, fd) \/ SysDup(p, fd)
        \/ \E fd \in Fds, n \in Reads : SysRead(p, fd, n)
        \/ \E fd \in Fds, bytes \in Writes : SysWrite(p, fd, bytes)
        \/ \E q \in Procs : Fork(p, q) \/ Kill(p, q)

\* A process in the kernel that is not asleep gets the CPU again and again: the
\* scheduler walks the whole process table, and the timer preempts the others.
Spec == Init /\ [][Next]_vars /\ \A p \in Procs : WF_vars(Step(p))

-----------------------------------------------------------------------------
(* Properties *)

\* The descriptors, and the locals of calls under way, that refer to file f.
FdRefs(f) == {x \in Procs \X Fds : ofile[x[1]][x[2]] = f}
HandRefs(f) == {x \in Procs \X (1..2) : x[2] <= Len(hand[x[1]]) /\ hand[x[1]][x[2]] = f}

\* The reference count of a file is the number of descriptors, of all processes,
\* and of locals of a call under way that refer to it, on every path of pipe, dup,
\* close, fork and exit, the failing ones included: nothing is freed while in use
\* and nothing stays allocated for ever.
RefExact == \A f \in Files : ref[f] = Cardinality(FdRefs(f)) + Cardinality(HandRefs(f))

\* A file of that end of the pipe exists, or its pipeclose is still to come.
EndOpen(pi, w) ==
    \/ \E f \in Files : object[f] = FD_PIPE(pi, w)
    \/ \E p \in Procs : pipe[p] = pi /\ pc[p] = IF w THEN "closew" ELSE "closer"

\* A pipe's page lives exactly as long as an end of it: an end is open while a file
\* of that end exists or its pipeclose is still to come, and a process inside
\* piperead or pipewrite, asleep or not, works on a page that has not been freed.
PageLives ==
    \A pi \in Pages :
        /\ pi \in used => /\ readopen[pi] <=> EndOpen(pi, FALSE)
                          /\ writeopen[pi] <=> EndOpen(pi, TRUE)
        /\ pi \in used <=> EndOpen(pi, FALSE) \/ EndOpen(pi, TRUE)
        /\ \A p \in Procs : pipe[p] = pi => pi \in used

\* No lost wakeup: a reader sleeps only while the pipe is empty and a writer may
\* still come, a writer only while the pipe is full and somebody may read.  The one
\* exception is in the code: a writer that fills the buffer and finds itself killed
\* (pipe.c:91) returns without waking the readers of that pipe, who then sleep until
\* the next write or the close of the writers' end.
NoLostWakeup ==
    \A p \in Procs, pi \in Pages :
        lock[pi] = 0 =>
            /\ sleeping[p] = OnRead(pi) =>
                  \/ Count(pi) = 0 /\ writeopen[pi]
                  \/ pi \in silent
            /\ sleeping[p] = OnWrite(pi) => Count(pi) = PIPESIZE /\ readopen[pi]

\* The contents of a pipe, in the order in which they will be read.
Contents(pi) == [k \in 1..Count(pi) |-> data[pi][(nread[pi] + k - 1) % PIPESIZE]]

Queue == [pi \in Pages |-> IF pi \in used THEN Contents(pi) ELSE <<>>]

Stream == INSTANCE ByteStream WITH
    Streams <- Pages, Capacity <- PIPESIZE, live <- used, queue <- Queue

\* The ring with its wrapping counters implements the stream: bytes come out once,
\* in the order of the writes, and never more of them than the buffer holds.
IsByteStream == Stream!Spec

\* Everyone who waits for data learns that the last writer has gone: once the
\* write end is closed a read that is under way returns, and a write returns once
\* the read end is closed.
EofDelivered ==
    \A p \in Procs :
        (\/ pc[p] = "read" /\ ~writeopen[pipe[p]]
         \/ pc[p] = "write" /\ ~readopen[pipe[p]]) ~> pc[p] \notin {"read", "write"}
=============================================================================
