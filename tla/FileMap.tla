------------------------------ MODULE FileMap -------------------------------
(***************************************************************************)
(* The contents of files: the free bitmap, the block map and readi, writei *)
(* and itrunc of kernel/fs.c, the loops of fileread and filewrite in       *)
(* kernel/file.c, open with O_TRUNC and get_disk_lbn of kernel/sysfile.c.  *)
(*                                                                         *)
(* A section of a buffer's lock is one step; the inode's lock is held over *)
(* several.  Of the log below (Log) the model has what callers rely on:    *)
(* what log_write has recorded becomes durable all at once when the last   *)
(* operation ends.                                                         *)
(***************************************************************************)
EXTENDS Integers, FiniteSets, FiniteSetsExt, Sequences

CONSTANTS
    Procs,
    Files,        \* the inodes; file i is open in the processes p with Opens[p] = i
    Opens,
    NBLOCK,       \* data blocks
    BSIZE, BPB,   \* bytes of a block, bits of a bitmap block
    NDIRECT, NINDIRECT,
    MAXOPBLOCKS,
    Writes, Reads, Lbns,   \* the lengths and block numbers that calls ask for
    MaxCalls, MaxCrash     \* bounds on the calls and on the crashes

Blocks == 1..NBLOCK
MAXFILE == NDIRECT + NINDIRECT
Bytes == 0..(BSIZE - 1)

ASSUME ConstantsAssumption ==
    /\ Opens \in [Procs -> Files]
    /\ {NBLOCK, BSIZE, BPB, NDIRECT, NINDIRECT} \subseteq Nat \ {0}
    /\ NINDIRECT <= BSIZE          \* an indirect block holds its pointers
    /\ MAXOPBLOCKS >= 6            \* a chunk of filewrite is at least a block

VARIABLES
    block,        \* block[b]: the cached contents, bytes or block numbers
    bitmap,       \* the blocks marked in use
    dinode,       \* the inodes in their blocks: size and addrs
    core,         \* the inodes in memory
    durable,      \* [block, bitmap, dinode]: what recovery finds after a crash
    trans,        \* the blocks log_write has recorded since the last commit
    ops,          \* the processes between begin_op and end_op
    lock,         \* lock[i]: the process that has inode i locked, or 0
    off,          \* off[p]: the offset of the struct file
    pc, lbn,      \* lbn[p]: the block get_disk_lbn maps, or -1
    todo, left,   \* the bytes left of the call and of the chunk
    pos,          \* writei's off
    new,          \* the block balloc has just marked, or 0
    gone,         \* the blocks itrunc has freed
    calls, crashes, panic,
    text, saved,  \* history: what was written to the files, and at the last commit
    faulted,      \* history: the files with a copyin that failed
    logged,       \* history: the blocks the operation of p has logged
    mapped        \* history: get_disk_lbn has allocated a block

image == <<block, bitmap, dinode, core, durable, trans>>
locals == <<pc, lbn, todo, left, pos, new, gone>>
history == <<text, saved, faulted, logged, mapped>>
vars == <<image, ops, lock, off, locals, calls, crashes, panic, history>>

Zeros == [k \in Bytes |-> 0]
NoAddrs == [k \in 0..NDIRECT |-> 0]
Inodes == [size : 0..(MAXFILE * BSIZE), addrs : [0..NDIRECT -> 0..NBLOCK]]

TypeOK ==
    /\ bitmap \subseteq Blocks
    /\ {dinode, core, durable.dinode} \subseteq [Files -> Inodes]
    /\ DOMAIN block = Blocks
    /\ lock \in [Files -> Procs \cup {0}]
    /\ off \in [Procs -> Nat]
    /\ new \in [Procs -> 0..NBLOCK] /\ gone \in [Procs -> SUBSET Blocks]

Init ==
    /\ block = [b \in Blocks |-> Zeros] /\ bitmap = {}
    /\ dinode = [i \in Files |-> [size |-> 0, addrs |-> NoAddrs]] /\ core = dinode
    /\ durable = [block |-> block, bitmap |-> bitmap, dinode |-> dinode]
    /\ trans = {} /\ ops = {} /\ lock = [i \in Files |-> 0] /\ off = [p \in Procs |-> 0]
    /\ pc = [p \in Procs |-> "idle"] /\ lbn = [p \in Procs |-> -1]
    /\ todo = [p \in Procs |-> 0] /\ left = todo /\ pos = todo /\ new = todo
    /\ gone = [p \in Procs |-> {}]
    /\ calls = 0 /\ crashes = 0 /\ panic = ""
    /\ text = [i \in Files |-> <<>>] /\ saved = text /\ faulted = {} /\ mapped = FALSE
    /\ logged = [p \in Procs |-> {}]

-----------------------------------------------------------------------------
(* Buffers and the log *)

Set(f, x, v) == [f EXCEPT ![x] = v]
At(p, l) == pc[p] = l /\ panic = ""
Goto(p, l) == pc' = Set(pc, p, l)

BBLOCK(b) == <<"bitmap", b \div BPB>>
IBLOCK(i) == <<"inode", i>>
DATA(b) == <<"data", b>>

\* log_write by p: outside a transaction it panics.  Within someone else's it records
\* the block all the same, though p has reserved no space for it.
LogWrite(p, B) ==
    IF ops = {}
    THEN panic' = "log_write outside of trans" /\ UNCHANGED <<trans, logged>>
    ELSE /\ trans' = trans \cup B
         /\ logged' = IF p \in ops THEN [logged EXCEPT ![p] = @ \cup B] ELSE logged
         /\ UNCHANGED panic

Stay == UNCHANGED <<trans, logged, panic>>

\* What the last end_op makes durable: the logged blocks and nothing else.
Commit ==
    [block |-> [b \in Blocks |-> IF DATA(b) \in trans THEN block[b] ELSE durable.block[b]],
     bitmap |-> {b \in Blocks : b \in IF BBLOCK(b) \in trans THEN bitmap ELSE durable.bitmap},
     dinode |-> [i \in Files |-> IF IBLOCK(i) \in trans THEN dinode[i] ELSE durable.dinode[i]]]

BeginOp(p) ==
    /\ At(p, "begin")
    /\ ops' = ops \cup {p}
    /\ Goto(p, "ilock")
    /\ UNCHANGED <<image, lock, off, lbn, todo, left, pos, new, gone, calls, crashes, panic,
                   history>>

\* end_op; then filewrite takes the next chunk, or the call returns.
EndOp(p) ==
    LET last == ops = {p}
    IN  /\ At(p, "end")
        /\ ops' = ops \ {p}
        /\ durable' = IF last THEN Commit ELSE durable
        /\ trans' = IF last THEN {} ELSE trans
        /\ saved' = IF last THEN text ELSE saved
        /\ logged' = Set(logged, p, {})
        /\ Goto(p, IF todo[p] > 0 THEN "begin" ELSE "idle")
        /\ UNCHANGED <<block, bitmap, dinode, core, lock, off, lbn, todo, left, pos, new, gone,
                       calls, crashes, panic, text, faulted, mapped>>

\* bget recycles the buffer of a block that is not in the log: what was copied into it
\* without log_write is gone.
Evict(b) ==
    /\ panic = "" /\ DATA(b) \notin trans /\ block[b] # durable.block[b]
    /\ block' = Set(block, b, durable.block[b])
    /\ UNCHANGED <<bitmap, dinode, core, durable, trans, ops, lock, off, locals, calls, crashes,
                   panic, history>>

\* Power failure, or the restart after a panic.
Crash ==
    /\ crashes < MaxCrash
    /\ crashes' = crashes + 1
    /\ block' = durable.block /\ bitmap' = durable.bitmap
    /\ dinode' = durable.dinode /\ core' = durable.dinode
    /\ trans' = {} /\ ops' = {} /\ lock' = [i \in Files |-> 0] /\ off' = [p \in Procs |-> 0]
    /\ pc' = [p \in Procs |-> "idle"] /\ lbn' = [p \in Procs |-> -1]
    /\ todo' = [p \in Procs |-> 0] /\ left' = todo' /\ pos' = todo' /\ new' = todo'
    /\ gone' = [p \in Procs |-> {}] /\ logged' = gone'
    /\ panic' = "" /\ text' = saved
    /\ UNCHANGED <<durable, calls, saved, faulted, mapped>>

-----------------------------------------------------------------------------
(* bmap and balloc, for writei and for get_disk_lbn *)

File(p) == Opens[p]
Bn(p) == IF lbn[p] >= 0 THEN lbn[p] ELSE pos[p] \div BSIZE

\* The block the map has for block bn of file i, 0 if it has none.
Addr(i, bn) ==
    LET ind == core[i].addrs[NDIRECT]
    IN  IF bn < NDIRECT THEN core[i].addrs[bn]
        ELSE IF ind = 0 THEN 0 ELSE block[ind][bn - NDIRECT]

\* The loop of writei has bytes left, or get_disk_lbn asks for a block.
Mapping(p) == At(p, "loop") /\ (lbn[p] >= 0 \/ left[p] > 0)

FreeBlocks == Blocks \ bitmap

\* balloc: the first clear bit is set.
Balloc(p) ==
    /\ Mapping(p) /\ Addr(File(p), Bn(p)) = 0
    /\ IF FreeBlocks = {}
       THEN panic' = "balloc: out of blocks" /\ UNCHANGED <<bitmap, trans, logged, mapped, new, pc>>
       ELSE LET b == Min(FreeBlocks)
            IN  /\ bitmap' = bitmap \cup {b}
                /\ LogWrite(p, {BBLOCK(b)})
                /\ new' = Set(new, p, b)
                /\ mapped' = (mapped \/ lbn[p] >= 0)
                /\ Goto(p, "zero")
    /\ UNCHANGED <<block, dinode, core, durable, ops, lock, off, lbn, todo, left, pos, gone,
                   calls, crashes, text, saved, faulted>>

Bzero(p) ==
    /\ At(p, "zero")
    /\ block' = Set(block, new[p], Zeros)
    /\ LogWrite(p, {DATA(new[p])})
    /\ Goto(p, "store")
    /\ UNCHANGED <<bitmap, dinode, core, durable, ops, lock, off, lbn, todo, left, pos, new, gone,
                   calls, crashes, text, saved, faulted, mapped>>

\* bmap stores the number: in the inode in memory, or in the indirect block.
BmapStore(p) ==
    LET i == File(p)
        ind == core[i].addrs[NDIRECT]
    IN  /\ At(p, "store")
        /\ IF Bn(p) < NDIRECT \/ ind = 0
           THEN /\ core' = [core EXCEPT ![i].addrs[Min({Bn(p), NDIRECT})] = new[p]]
                /\ Stay /\ UNCHANGED block
           ELSE /\ block' = [block EXCEPT ![ind][Bn(p) - NDIRECT] = new[p]]
                /\ LogWrite(p, {DATA(ind)})
                /\ UNCHANGED core
        /\ new' = Set(new, p, 0)
        /\ Goto(p, "loop")
        /\ UNCHANGED <<bitmap, dinode, durable, ops, lock, off, lbn, todo, left, pos, gone,
                       calls, crashes, text, saved, faulted, mapped>>

-----------------------------------------------------------------------------
(* filewrite and writei, fileread and readi *)

Call(p) == At(p, "idle") /\ calls < MaxCalls /\ calls' = calls + 1

FileWrite(p, n) ==
    /\ Call(p)
    /\ todo' = Set(todo, p, n)
    /\ Goto(p, "begin")
    /\ UNCHANGED <<image, ops, lock, off, lbn, left, pos, new, gone, crashes, panic, history>>

\* Mutant: all the space of an operation is taken for data.
ChunkAll == (MAXOPBLOCKS - 1 - 1 - 2) * BSIZE

\* The bytes that one transaction of filewrite may take.
Chunk == ((MAXOPBLOCKS - 1 - 1 - 2) \div 2) * BSIZE
N1(p) == Min({todo[p], Chunk})

\* ilock, and what get_disk_lbn, open or writei tests first.
Ilock(p) ==
    LET i == File(p)
        refused == off[p] > core[i].size \/ off[p] + N1(p) > MAXFILE * BSIZE
    IN  /\ At(p, "ilock") /\ lock[i] = 0
        /\ \/ /\ lbn[p] >= 0
              /\ panic' = IF lbn[p] < MAXFILE THEN "" ELSE "bmap: out of range"
              /\ Goto(p, "loop") /\ lock' = Set(lock, i, p) /\ UNCHANGED <<todo, left, pos>>
           \/ /\ lbn[p] < 0 /\ todo[p] = 0
              /\ Goto(p, "trunc") /\ lock' = Set(lock, i, p) /\ UNCHANGED <<todo, left, pos, panic>>
           \/ /\ todo[p] > 0 /\ refused
              /\ todo' = Set(todo, p, 0) /\ Goto(p, "end") /\ UNCHANGED <<lock, left, pos, panic>>
           \/ /\ todo[p] > 0 /\ ~refused
              /\ left' = Set(left, p, N1(p)) /\ pos' = Set(pos, p, off[p])
              /\ Goto(p, "loop") /\ lock' = Set(lock, i, p) /\ UNCHANGED <<todo, panic>>
        /\ UNCHANGED <<image, ops, off, lbn, new, gone, calls, crashes, history>>

\* Mutant: the turn may go past the end of the block.
MPastEnd(p) == Min({left[p], BSIZE})

\* The bytes of one turn of the loop, the byte of p's buffer that goes to position k,
\* and the block after k bytes of the turn have been copied.
Byte(p, k) == 10 * p + k
M(p) == Min({left[p], BSIZE - (pos[p] % BSIZE)})
Copied(p, b, k) ==
    [block EXCEPT ![b] = [x \in Bytes |-> LET d == x - (pos[p] % BSIZE)
                                           IN  IF d \in 0..(k - 1) THEN Byte(p, pos[p] + d) ELSE @[x]]]

\* The whole turn is copied and logged.
WriteiCopy(p) ==
    LET b == Addr(File(p), Bn(p))
    IN  /\ Mapping(p) /\ lbn[p] < 0 /\ b # 0
        /\ block' = Copied(p, b, M(p))
        /\ LogWrite(p, {DATA(b)})
        /\ pos' = Set(pos, p, pos[p] + M(p)) /\ left' = Set(left, p, left[p] - M(p))
        /\ UNCHANGED <<bitmap, dinode, core, durable, ops, lock, off, pc, lbn, todo, new, gone,
                       calls, crashes, text, saved, faulted, mapped>>

\* either_copyin fails after k bytes: they are in the buffer and not in the log.
WriteiFault(p) ==
    LET b == Addr(File(p), Bn(p))
    IN  /\ Mapping(p) /\ lbn[p] < 0 /\ b # 0
        /\ \E k \in 0..(M(p) - 1) : block' = Copied(p, b, k)
        /\ faulted' = faulted \cup {File(p)}
        /\ Goto(p, "update")
        /\ UNCHANGED <<bitmap, dinode, core, durable, trans, ops, lock, off, lbn, todo, left, pos,
                       new, gone, calls, crashes, panic, text, saved, logged, mapped>>

\* Mutant: the size grows by all that was asked for.
SizeAfterAll(p) == Max({core[File(p)].size, off[p] + N1(p)})

SizeAfter(p) == Max({core[File(p)].size, pos[p]})

\* The end of writei, which returns n whatever it copied: size, iupdate, the offset,
\* iunlock.
WriteiEnd(p) ==
    LET i == File(p)
        old == text[i]
    IN  /\ (At(p, "loop") /\ lbn[p] < 0 /\ left[p] = 0) \/ At(p, "update")
        /\ core' = [core EXCEPT ![i].size = SizeAfter(p)]
        /\ dinode' = Set(dinode, i, core'[i])
        /\ LogWrite(p, {IBLOCK(i)})
        /\ text' = Set(text, i, [k \in 1..Max({Len(old), pos[p]}) |->
                                    IF k \in (off[p] + 1)..pos[p] THEN Byte(p, k - 1)
                                    ELSE IF k \in DOMAIN old THEN old[k] ELSE 0])
        /\ off' = Set(off, p, off[p] + N1(p))
        /\ todo' = Set(todo, p, todo[p] - N1(p))
        /\ lock' = Set(lock, i, 0) /\ pos' = Set(pos, p, 0) /\ left' = Set(left, p, 0)
        /\ Goto(p, "end")
        /\ UNCHANGED <<block, bitmap, durable, ops, lbn, new, gone, calls, crashes, saved, faulted,
                       mapped>>

\* fileread: readi in one section of the inode's lock.  It may end early, before a
\* block that either_copyout fails for.
FileRead(p, n) ==
    LET i == File(p)
        m == IF off[p] > core[i].size THEN 0 ELSE Min({n, core[i].size - off[p]})
    IN  /\ Call(p) /\ lock[i] = 0
        /\ \E r \in 0..m :
              /\ r = m \/ r = 0 \/ (off[p] + r) % BSIZE = 0
              /\ off' = Set(off, p, off[p] + r)
        /\ UNCHANGED <<image, ops, lock, locals, crashes, panic, history>>

-----------------------------------------------------------------------------
(* get_disk_lbn, without a transaction *)

GetDiskLbn(p, bn) ==
    /\ Call(p)
    /\ lbn' = Set(lbn, p, bn)
    /\ Goto(p, "ilock")
    /\ UNCHANGED <<image, ops, lock, off, todo, left, pos, new, gone, crashes, panic, history>>

GetDiskLbnEnd(p) ==
    /\ At(p, "loop") /\ lbn[p] >= 0 /\ Addr(File(p), lbn[p]) # 0
    /\ lbn' = Set(lbn, p, -1)
    /\ lock' = Set(lock, File(p), 0)
    /\ Goto(p, "idle")
    /\ UNCHANGED <<image, ops, off, todo, left, pos, new, gone, calls, crashes, panic, history>>

-----------------------------------------------------------------------------
(* open with O_TRUNC: itrunc *)

OpenTrunc(p) ==
    /\ Call(p)
    /\ Goto(p, "begin")
    /\ UNCHANGED <<image, ops, lock, off, lbn, todo, left, pos, new, gone, crashes, panic, history>>

\* bfree of block b, with the inode and what has been freed under it as given.
Bfree(p, b, in, g) ==
    /\ IF b \in bitmap THEN LogWrite(p, {BBLOCK(b)})
       ELSE panic' = "freeing free block" /\ UNCHANGED <<trans, logged>>
    /\ bitmap' = bitmap \ {b}
    /\ core' = Set(core, File(p), in)
    /\ gone' = Set(gone, p, g)

Direct(in) == {k \in 0..(NDIRECT - 1) : in.addrs[k] # 0}

\* Mutant: the indirect block is freed, not what it lists.
ListedNone(ind) == {}

Listed(ind) == {block[ind][j] : j \in 0..(NINDIRECT - 1)} \ {0}

\* The direct blocks in order, then those the indirect block lists, then itself.
ItruncFree(p) ==
    LET in == core[File(p)]
        ind == in.addrs[NDIRECT]
        d == Min(Direct(in))
        rest == Listed(ind) \ gone[p]
    IN  /\ At(p, "trunc")
        /\ \/ /\ Direct(in) # {}
              /\ Bfree(p, in.addrs[d], [in EXCEPT !.addrs[d] = 0], {})
           \/ /\ Direct(in) = {} /\ ind # 0 /\ rest # {}
              /\ Bfree(p, Min(rest), in, gone[p] \cup {Min(rest)})
           \/ /\ Direct(in) = {} /\ ind # 0 /\ rest = {}
              /\ Bfree(p, ind, [in EXCEPT !.addrs[NDIRECT] = 0], {})
        /\ UNCHANGED <<block, dinode, durable, ops, lock, off, pc, lbn, todo, left, pos, new,
                       calls, crashes, text, saved, faulted, mapped>>

\* The size, iupdate, and the new struct file.
ItruncEnd(p) ==
    LET i == File(p)
    IN  /\ At(p, "trunc") /\ core[i].addrs = NoAddrs
        /\ core' = [core EXCEPT ![i].size = 0]
        /\ dinode' = Set(dinode, i, core'[i])
        /\ LogWrite(p, {IBLOCK(i)})
        /\ text' = Set(text, i, <<>>)
        /\ off' = Set(off, p, 0)
        /\ lock' = Set(lock, i, 0)
        /\ Goto(p, "end")
        /\ UNCHANGED <<block, bitmap, durable, ops, lbn, todo, left, pos, new, gone, calls,
                       crashes, saved, faulted, mapped>>

-----------------------------------------------------------------------------
Step(p) ==
    \/ BeginOp(p) \/ EndOp(p) \/ Ilock(p)
    \/ Balloc(p) \/ Bzero(p) \/ BmapStore(p)
    \/ WriteiCopy(p) \/ WriteiFault(p) \/ WriteiEnd(p)
    \/ GetDiskLbnEnd(p) \/ ItruncFree(p) \/ ItruncEnd(p)

\* All calls have been made, or the panic is the last.
Stopped ==
    /\ panic # "" \/ (calls = MaxCalls /\ \A p \in Procs : pc[p] = "idle")
    /\ UNCHANGED vars

Next ==
    \/ \E p \in Procs :
          \/ Step(p) \/ OpenTrunc(p)
          \/ \E n \in Writes : FileWrite(p, n)
          \/ \E n \in Reads : FileRead(p, n)
          \/ \E bn \in Lbns : GetDiskLbn(p, bn)
    \/ \E b \in Blocks : Evict(b)
    \/ Crash
    \/ Stopped

Spec == Init /\ [][Next]_vars

-----------------------------------------------------------------------------
(* Properties *)

\* The places that point to block b: <<i, k>> in the inodes, <<i, j, "ind">> in their
\* indirect blocks.
Pointers(blk, inodes, b) ==
    {<<i, k>> \in Files \X (0..NDIRECT) : inodes[i].addrs[k] = b}
    \cup {<<i, j, "ind">> : <<i, j>> \in
             {<<i, j>> \in Files \X (0..(NINDIRECT - 1)) :
                LET ind == inodes[i].addrs[NDIRECT] IN ind # 0 /\ blk[ind][j] = b}}

\* The blocks the indirect block of file i still lists though itrunc has freed them.
Freed(i) == UNION {gone[p] : p \in {q \in Procs : lock[i] = q}}

\* No block belongs to two places, and one that belongs to a file is marked in the
\* bitmap: in memory, over every interleaving of allocation, truncation and eviction,
\* and in what recovery finds after a crash.  Apart from get_disk_lbn, whose blocks a
\* crash can lose, every marked block belongs to a file or is being added to one.
BitmapExact ==
    panic = "" =>
    \A b \in Blocks :
        LET vol == {x \in Pointers(block, core, b) : ~(Len(x) = 3 /\ b \in Freed(x[1]))}
            dur == Pointers(durable.block, durable.dinode, b)
        IN  /\ Cardinality(vol) <= 1 /\ Cardinality(dur) <= 1
            /\ vol # {} => b \in bitmap
            /\ dur # {} => b \in durable.bitmap
            /\ ~mapped /\ b \in bitmap => vol # {} \/ \E p \in Procs : new[p] = b
            /\ ~mapped /\ b \in durable.bitmap => dur # {}

\* What a file holds at position k of an image, 0 where the map has no block.
ByteAt(blk, in, k) ==
    LET bn == k \div BSIZE
        ind == in.addrs[NDIRECT]
        b == IF bn < NDIRECT THEN in.addrs[bn] ELSE IF ind = 0 THEN 0 ELSE blk[ind][bn - NDIRECT]
    IN  IF b = 0 THEN 0 ELSE blk[b][k % BSIZE]
Contents(blk, in) == [k \in 1..in.size |-> ByteAt(blk, in, k - 1)]

\* A file reads back as what the writes to it wrote, each at its offset, whatever
\* blocks other files took and gave back meanwhile; after a crash, as it was at the
\* last commit.  Files with a failed copyin are excluded: writei has then changed
\* part of the block without logging it and returns n all the same.
ReadsBack ==
    panic = "" =>
    \A i \in Files \ faulted :
        /\ lock[i] = 0 => Contents(block, core[i]) = text[i]
        /\ Contents(durable.block, durable.dinode[i]) = saved[i]

\* Every block below the size is mapped, also after a failed copyin and after a crash:
\* readi, which runs outside a transaction, never makes bmap allocate.
NoHoles ==
    panic = "" =>
    \A i \in Files :
        /\ \A k \in 0..(core[i].size - 1) : lock[i] = 0 => Addr(i, k \div BSIZE) # 0
        /\ \A k \in 0..(durable.dinode[i].size - 1) :
              \E b \in durable.bitmap : \E x \in Pointers(durable.block, durable.dinode, b) :
                 /\ x[1] = i
                 /\ IF k \div BSIZE < NDIRECT THEN x = <<i, k \div BSIZE>>
                    ELSE x = <<i, k \div BSIZE - NDIRECT, "ind">>

\* The comment in filewrite: a chunk logs no more than an operation may, "including
\* i-node, indirect block, allocation blocks, and 2 blocks of slop for non-aligned
\* writes", even if every block has a bitmap block of its own.
OpWithinBudget == \A p \in Procs : pc[p] # "trunc" => Cardinality(logged[p]) <= MAXOPBLOCKS
=============================================================================
