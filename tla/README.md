# Verification of the MP4 kernel

TLA+ models of the xv6-derived RISC-V kernel in `src/`, which adds access modes
and symbolic links to the file system and simulates a RAID-1 mirror: every block
written to number *n* (disk 0) is also written to *n* + `DISK1_START_BLOCK`
(disk 1). The models are checked with TLC and parts of them are proved with TLAPS.

## The system

| Part | State | Operations | What is hard about it |
|---|---|---|---|
| Write-ahead log (`kernel/log.c`) | `log.lh`, `outstanding`, `committing`; header and slots on disk | `begin_op`, `log_write`, `end_op`, `commit`, recovery at boot | crash between any two transfers, group commit, reservation of log space, sleepers |
| Buffer cache, mirror (`kernel/bio.c`) | `NBUF` buffers on an LRU list: `blockno`, `valid`, `refcnt`, data, sleep lock | `bget`, `bread`, `bwrite`, `brelse`, `bpin`, `bunpin` | `blockno` is changed during a transfer without the list lock; pins; recycling; two copies written one after the other |
| Failure hooks (`kernel/sysproc.c`) | `force_disk_fail_id`, `force_read_error_pbn` | `sys_force_fail`, `sys_force_disk_fail` | set at any moment, also in the middle of a commit |
| Raw disk calls (`kernel/sysfile.c`) | none of their own | `sys_raw_read`, `sys_raw_write`, `sys_get_disk_lbn` | use buffers and `bmap` outside transactions |
| Inode cache, inodes (`kernel/fs.c`) | in-memory inodes with `ref`, `valid`, lock; on-disk inodes | `iget`, `ilock`, `iput`, `ialloc`, `iupdate` | freeing the last reference while others look the inode up |
| File contents, block bitmap (`kernel/fs.c`) | bitmap, direct and indirect blocks, size | `balloc`, `bfree`, `bmap`, `itrunc`, `readi`, `writei` | boundary of direct and indirect blocks, failure part way |
| Directories, paths, links (`kernel/fs.c`, `kernel/sysfile.c`) | directory entries, link counts | `dirlookup`, `dirlink`, `namex`, `namei`, link, unlink, symlink | reference balance on every error path, symbolic-link cycles |
| Open and access modes (`kernel/sysfile.c`) | inode mode, open mode | `open`, `chmod`, `create` | mode checks through links |
| File table, pipes (`kernel/file.c`, `kernel/pipe.c`) | `ref` of files, ring buffer | dup, close, read, write | closing while the other end sleeps |
| Processes (`kernel/proc.c`) | process table, locks, channels | fork, exit, wait, kill, sleep, wakeup, scheduler | lost wakeups, lock order, reparenting |
| Locks (`kernel/sleeplock.c`, `kernel/spinlock.c`) | holder, interrupt nesting | acquire, release | sleep/wakeup hand-over |
| Virtio driver (`kernel/virtio_disk.c`) | descriptors, rings | `virtio_disk_rw`, interrupt | completion out of order, descriptors at their limit |
| Traps, timer, PLIC (`kernel/trap.c`, `kernel/plic.c`) | interrupt enable, pending and claimed interrupts | `devintr`, `usertrap`, `kerneltrap`, `yield` | a handler on top of any code that has interrupts on |
| Console, UART (`kernel/console.c`, `kernel/uart.c`) | line buffer, transmit ring | read, write, interrupts | a lock held while sleeping |
| Memory (`kernel/kalloc.c`, `kernel/vm.c`, `kernel/exec.c`) | free list, page tables | allocation, mapping, copies, exec | partial failure |
| mkfs, user programs | the image; none | image building, `chmod -R`, `ls`, `malloc` | pure algorithms |

How they interact: a file-system call brackets its work with `begin_op` and
`end_op`, reads and modifies blocks through `bread`, and hands them to
`log_write`; the last `end_op` runs `commit`. Only commit and recovery call `bwrite`.
`fileread` and `filestat` use `bread` without `begin_op`. `bread` and `bwrite`
call the virtio driver, which sleeps until the interrupt.

## The plan

Done: log and mirror, buffer cache, processes, descriptors and pipes, name space, file
contents, memory, drivers and interrupts. Next, in this order:

1. Proofs: the refinement `AtomicTransactions`; `RefcntExact` of `BufCache`; `RefExact` and `PageLives` of `Pipe`; `ParentAlive` of `Proc`;
   `PagesExact` of `Memory`.
2. In `BufCache`, processes that hold two buffers at once (`write_log`,
   `install_trans`, `bmap`).
3. In `Proc`, a fair `init`.

A run that ends in a violation is kept only where the code disagrees with its
documentation.

## Modules

| Module | Models |
|---|---|
| `AtomicDisk` | the promise of the log: a disk that changes in whole transactions |
| `Log` | `log.c` over the two copies of the disk, the failure hooks, crash and recovery |
| `MCLog` | constants for the runs of `Log` |
| `LogProofs` | proofs about `Log` |
| `BufCache` | `bio.c` as used by operations, by the committer and by readers outside the log |
| `MCBufCache` | constants for the runs of `BufCache` |
| `Proc` | `proc.c`: fork, exit, reparent, wait, kill, yield, the scheduler |
| `MCProc` | the module the run of `Proc` names |
| `ByteStream` | the promise of a pipe: bytes come out once, in the order they went in |
| `Pipe` | `file.c` and `pipe.c`: descriptors, file table, pipes, with fork, exit and kill |
| `MCPipe` | constants for `Pipe` |
| `Names` | inode cache, directories, paths and links of `fs.c`; the calls of `sysfile.c` on names |
| `MCNames` | the file-system images and the calls of the runs of `Names` |
| `FileMap` | bitmap, block map, `readi`, `writei`, `itrunc`; the chunks of `filewrite` |
| `MCFileMap` | constants for `FileMap` |
| `Memory` | `kalloc.c`, user page tables of `vm.c`, address spaces in fork, exec, sbrk, wait |
| `MCMemory` | constants for `Memory` |
| `Cpu` | spin locks, interrupt masks, scheduler, timer and interrupt dispatch |
| `Virtio`, `Console` | `virtio_disk.c`; `console.c` and `uart.c`; each on top of `Cpu` |
| `Devices` | both drivers on the same CPUs |
| `MCDevices` | the workloads of the run of `Devices` |

Definitions whose comment begins with "Mutant" are deliberately wrong variants of the
definition that follows; each breaks a property, which shows that the property
constrains the code. No specification uses them.

### Log

`disk[c][a]` is copy `c` of address `a`: a home block, the header (0) or a log slot.
`cache`, `refcnt`, `lh`, `outstanding`, `committing`, `failDisk`, `failBlock` are the
kernel's variables. `pc[p]` says where a process is: idle, asleep in `begin_op`,
woken, in an operation, inside `log_write` (between its unlocked test and the locked
append), in `commit`, or stopped in a panic. `step`, `tail` and `io` are the program
counter of `commit` and of recovery: the phase, the loop index, and the position in
one `bread`/`bwrite`. Three variables are history: `mem`, what operations last stored;
`unpinned`, the blocks that recovery has unpinned without a pin; and `taken`, that one of
them has been recycled while it was in use (departure 4 below).

| Action | Code |
|---|---|
| `BeginOpSleep`, `BeginOp` | `begin_op`, going to sleep or entering |
| `LogWriteTest`, `LogWrite` | `bread`, modify, `log_write`, `brelse` of one block |
| `EndOp`, `FinishCommit` | `end_op` before and after `commit()` |
| `WriteLog`, `WriteHead`, `InstallTrans` | the reading half of one loop round, up to the call of `bwrite` |
| `BwriteCopy0`, `BwriteCopy1Log/Install/Head` | the transfers of `bwrite`, and the step to the next round |
| `ReadHead`, `FinishBoot` | `recover_from_log`, return of `initlog` |
| `Recycle` | `bget` taking a buffer of count 0, of an address in `Pressure`, for another block |
| `ForceDiskFail`, `ForceFail` | the hooks |
| `Crash` | power failure and reboot: memory is lost, both copies stay |

A panic leaves its process stopped; the kernel's other CPUs go on. Block contents are
members of a small set. The header is the sequence of its first `n` entries. A process
modifies one block at a time; several are several `LogWrite` steps. `OpBlocks` is how
many different blocks one operation writes, `MAXOPBLOCKS` what `begin_op` reserves.

### BufCache

A physical block number is `<<b, c>>`. The variables are the fields of the buffers, the
LRU list as a sequence, and per process the position in `bread`/`bwrite`/`brelse`. What
`bcache.lock` covers is one step; acquiring the sleep lock, starting and ending a
transfer, giving up the sleep lock and dropping the reference are steps of their own.
From the log only the rule of who may use the cache when is kept (`Admitted`,
`StartCommit`, `EndCommit`): an operation is a sequence of single-block uses, a commit
starts when no operation runs and installs every logged block. Readers are processes
that call `bread` at any time. A `bget` that finds no buffer panics. The hooks are
constants here; `Log` varies them. Two simplifications: a process holds one buffer at a
time, where the code sometimes holds two; and log slots are not cached.

### Proc

The variables are the fields of `struct proc`, the holder of each `proc[i].lock`, and
per process its position in `exit` or `wait` with their locals. A section that takes a
single lock is one step. `exit` and `wait` take up to three locks in turn, one step per
`acquire`; reads of `parent` without the lock happen where the code makes them. A
process that sleeps in `wait` gives its lock to the scheduler in the same step, an
exiting one in the next step, because until then a CPU is still on its stack. Sleeping
anywhere else, files and memory are left out, but for the two ways `fork` can fail.

### Pipe

`ofile`, `ref`, `object` are descriptors and file table; `used`, `nread`, `nwrite`, `data`,
`readopen`, `writeopen` the pipes' pages. A section of `ftable.lock` is a step, and so is
a section of a pipe's lock up to the call of `sleep`; going to sleep is a step of its own
(`PipereadSleep`, `PipewriteSleep`), since `kill` can come between the test of `killed`
and it. `hand` holds the file pointers a call has yet to close, so the error paths of
`sys_pipe` and the loop of `exit` are `CloseHand` and `ExitClose`. A failing `copyin` or
`copyout` ends a transfer early. `silent` is history: the pipes that a killed writer has
written to and left without a wakeup since. `ByteStream` is refined with the bytes between
`nread` and `nwrite` as the queue of each pipe. A write there appends any bytes, so the
refinement is about loss, duplication and order; that the bytes stored are the ones the
writer passed is an assignment of `Pipewrite` and is not compared.

### Names

`icache`, `dinode`, `entry` and `target` are the cached inodes, the inodes on disk, the
directories and the link targets; `ip`, `path`, `name`, `old`, `held` a call's locals;
`puts` the references it has yet to drop, each dropped by `Iput` and, when it frees the
inode, `IputTrunc`. `NamexStart` to `NamexFollow` and `Namei` walk a path, also through
symbolic links; the other actions are the bodies of the calls. A path is a sequence of
elements and a link's target another one. Two departures of the code are followed and
counted: `leak` for the reference `namei` never drops, `over` for the one `namex` drops
twice. Transactions are left to `Log` and `FileMap`, file contents to `FileMap`.

### FileMap

`core` and `dinode` are the inodes in memory and in their blocks, `bitmap` and `block` the
cached blocks, `durable` what recovery would find: a commit copies all that `log_write`
has recorded (`trans`) when the last operation ends, which is what `Log` is shown to do. `Evict`
drops a cached block that is not pinned. `Balloc`, `Bzero` and `BmapStore` are the steps of
`bmap`; `WriteiCopy`, `WriteiFault`, `WriteiEnd` those of `writei`, one per block. `GetDiskLbn`
calls `bmap` outside a transaction as the code does, and panics where `log_write` does.
`text` and `saved` are history: what the calls wrote, now and at the last commit.

### Memory

A page table is a tree of three levels with two entries each. Every `kalloc` and every
`kfree` is a step, so each `kalloc` can be the one that finds no memory (`NoMemory`).
`tofree` are the pages a `uvmunmap`, `uvmfree` or `freewalk` still has to give back; it is a
set, so a page freed twice within one such call would not show, while one freed by two calls,
or freed and still mapped, does. `exec`
builds `npt` and commits it or frees it. Sizes are in bytes with pages of two, so rounding
matters. The ELF file is a choice of segment sizes.

### Cpu, Virtio, Console, Devices

`cpu[c]` has the running process, `noff`, `intena`, the interrupt enable bit and the
position of the handler on top; `lk` the holders of the spin locks; `proc[p]` state, channel
and position in a driver. `Virtio` and `Console` add the steps of the drivers between two
acquires, releases or device accesses, and the devices: the disk finishes requests in any
order, the UART sends, receives and raises its interrupt. Control-P prints one character in
place of the process list. `Devices` puts them together. A
workload fixes calls, keys, kills and timer interrupts; all orders of their steps are
explored.

## Runs

| Run | Instance | Shows |
|---|---|---|
| `log_crash` | 2 processes, 2 blocks, 2 crashes, every buffer may be recycled; behaviours up to the first `taken` | `AtomicTransactions`: `Log` implements `AtomicDisk` with `durable` mapped to what replaying copy 0's log yields. `QuiescentDurable`: when nothing runs, everything is durable. `MirrorInSync`, `Copy1Atomic`: disk 1 follows, and is itself recoverable except in the middle of a recovery. `ReadsSeeWrites`: pins protect uncommitted data |
| `log_live` | 3 processes, 3 blocks, 4 entries and 3 slots, a slot may fail on disk 0 | `CommitExclusive`, `LogFits`; `SleeperWoken`, `CommitCompletes` under `Fairness` |
| `log_disk0` | disk 0 may fail | violates `DegradedWriteKept` (finding 1) |
| `cache_ops` | 2 processes, 4 blocks, 3 buffers, 2 blocks logged | `RefcntExact`, `BreadReturnsBlock`, `DirtyBlockCached` |
| `cache_reader` | the same with a reader outside the log | violates `OneUserPerBlock` (finding 2) |
| `proc_life` | `init` and 3 processes, one of them killed | `ParentAlive`, `NoLostExit`, `FreedOffCpu`, `NoDeadlock` |
| `pipe` | 2 processes, 2 files, a pipe of 2 bytes | `RefExact`, `PageLives`, `NoLostWakeup`; `IsByteStream`: `Pipe` implements `ByteStream`; `EofDelivered` under the fairness below |
| `names` | 2 processes, 2 calls out of 15, 4 images | `RefBalance`, `NamesCovered`, `IputWontBlock`, `FoundIsStable`, `PointerStable` |
| `names_refs` | the same | violates `RefTracksPointers` (finding 3) |
| `files` | 2 processes with a file each, 5 blocks, 3 calls, 1 crash | `BitmapExact`, `ReadsBack`, `NoHoles`, `OpWithinBudget` |
| `pages` | 3 processes, 17 pages, 6 calls | `PagesExact`, `NoPanic`, `ImageWhole` |
| `devices` | 2 CPUs, 3 processes, 7 workloads | `LocksMaskInterrupts`, `NoLostWakeup`, `RequestsExact`, `InputWindow`, `NoOverrun` |

Each module also has a `TypeOK`; it is no property of a run, and `TypeOK` of `Log` is proved.

What the properties leave out, because the code does not keep it:

- `RefBalance` counts the two departures of finding 3 instead of excluding them. `NamesCovered`,
  `IputWontBlock`, `FoundIsStable` and `PointerStable` hold as long as no followed link
  has been put twice.
- `BitmapExact` does not ask that every marked block belongs to a file once `get_disk_lbn`
  has allocated one outside a transaction.
- `ReadsBack` excludes files to which a write had a failing `copyin`: `writei` has changed part of a
  block without logging it and reports success.
- `NoLostWakeup` of `Pipe` excludes a pipe in `silent`: a killed writer that has filled the buffer
  returns without waking the readers. That of `Devices` excludes a completion which `virtio_disk_intr` acknowledges
  without having seen it.
- `LocksMaskInterrupts` allows the panic "sched locks" of `uartputc`, which sleeps
  while `consolewrite` holds `cons.lock`.
- `NoOverrun` is about echo and writers. The kernel's own `printf` writes the same register and
  takes no lock the UART driver respects; `bwrite` prints on every call (`bio.c:142`, `162`,
  `175`), so in this kernel any commit may write it beside them. `printf` is not modelled.
- `ReadsSeeWrites` and the other properties of `log_crash`, and `NoDeadlock`: see the known
  departures below.

Bounds. Two blocks are the least for which a transaction can be torn; two crashes allow
one inside the recovery of the other. `log_crash` stops at the first `taken` (constraint
`Intact`): a buffer lost that way serves two blocks, which the model does not follow.
Three processes allow one to sleep while two operations overlap. `log_live` has as many
blocks as slots and, like the kernel's disk, one slot less than `LOGSIZE`, so the log
could overflow if the reservation were wrong. `cache_ops` has one block more than buffers,
so a buffer that holds another block is recycled, and with two pinned blocks and two
processes the buffers can run out. `RefMod` stands for 2^32.
Four process slots are the least for which a process has a parent other than `init`
and a child, and a slot can be used again meanwhile. Symmetry is used only in
the runs without liveness; the scan order of the process table rules it out for `Proc`.

`pipe`: one write of three bytes into a buffer of two must sleep, counters modulo 4 wrap;
two descriptors and two files make `dup` and `pipe` fail. `names`: any two of the calls
interleave, on a tree that may have an open file and a process in a subdirectory, with one
free inode. `files`: one direct and two indirect blocks; one bit per bitmap block is the worst case
for the reservation; five blocks for two files that may need four each, so blocks change owner;
a process works on its own file, since the inode lock keeps two apart. `pages`:
17 pages suffice for `exec` when one process runs and not when two do. `devices`: 8
descriptors make two chains of three, and three requests; rings and indices start just
before they wrap; input and transmit buffers of two.

Fairness. `log_live`: weak fairness of the commit and boot steps, of a woken process in
`begin_op` and of the locked part of `log_write`: the kernel is preemptive and the disk
answers. Strong fairness of `EndOp`: an operation makes finitely many `log_write`s. No
process is required to start an operation. `pipe`: weak fairness of the steps inside a call
of each process (`Step`), for the same reason; no process is required to make a call or
to exit.

Deadlock checking is on in every passing run but two: `proc_life`, where departure 5 lets
the system really stop, and `pipe`, where all processes may have exited or sleep for bytes
that nobody will write. `names`, `files`, `pages` and `devices` have a step `Stopped` for the
states in which the calls of the instance are used up or the kernel has panicked.

## Findings

With a run of their own:

1. While disk 0 is made to fail, `bread` re-reads disk 1 over a valid buffer
   (`bio.c:111`), so `write_log` logs the old contents and the write is lost.
2. `bwrite` renames the buffer to its disk-1 number during the second transfer
   (`bio.c:176`). A reader outside the log misses it and gets a second buffer of the block,
   against `bio.c:13` and `bio.c:5`.
3. `namex` drops the reference of a symbolic link it follows twice (`fs.c:698`,
   `fs.c:714`), so an entry in use counts as free. `namei` (`fs.c:730`, `fs.c:742`)
   looks the path up twice and never drops the first result.

Known departures without a run, each found by TLC with the change named:

4. `install_trans` unpins in recovery what nobody pinned (`log.c:80`). The count wraps;
   the next write to that block is logged with count 0 and can be recycled before the
   commit, which then logs the old block. `log.c:213` promises to pin. The write is lost to
   readers, to the commit and to the disk: with `~taken` taken out of `ReadsSeeWrites` and
   `Intact` out of `MCLog_crash.cfg`, TLC finds `ReadsSeeWrites` violated, and in further
   behaviours `QuiescentDurable` and `AtomicTransactions`.
5. `exit` locks a parent it read earlier (`proc.c:385`). If that parent has been reaped
   and its slot given to a child of the exiting process's child, the two deadlock in
   `reparent` and `wait`; `proc.c:375` calls the race harmless. `MCProc_life` without
   `CHECK_DEADLOCK FALSE` and with `KillPids = {}` ends in that deadlock.

The passing runs state what holds around them, so they leave these cases out: what follows
the recycling of a buffer that recovery unpinned, readers outside the log, and processes
that hold a stale parent's lock.

## Proofs

`LogProofs` proves, for any finite set of processes and blocks, any log size, any number
of crashes and any use of the hooks, under `ConstantsAssumption` and `Footprint`:

- `TypeCorrect`: `Spec => []TypeOK`
- `Exclusion`: `Spec => []CommitExclusive`
- `ReservationSuffices`: `Spec => []LogFits`

`Footprint` says that an operation uses fewer blocks than it reserves, by more than the
log has slots too few (`LOGSIZE - (NLOG - 1) < MAXOPBLOCKS - OpBlocks`). With the
kernel's numbers, 30 entries, 29 slots and 10 reserved blocks, an operation may write 8
different blocks. A premise of this kind is needed: `log_write` refuses the last entry that
`begin_op` counts on. `MCLog_crash` satisfies it; `log_live` checks `LogFits` with a smaller
slack.

In numbers: `filewrite`, the largest writer, splits its work into pieces of 3 blocks,
which touch at most 4 data blocks, the indirect block, the inode and the bitmap.

The inductive invariant `Ind` joins six parts. `CommitExclusive` needs `RunInv` (commit,
boot and operations exclude each other, and the commit's program counter moves only then).
`TypeOK` needs `LogInv` (loop indices stay inside the header, the header inside the log,
and the block being written is cached), which in turn needs room for the entry
`log_write` appends after its unlocked test. The room comes from `ReserveInv`: entries
already logged, plus what each running operation may still add (`Quota`), plus the
difference between reserved and usable blocks of every operation, is at most `LOGSIZE`.
`begin_op` establishes it for the new operation; a `LogWrite` of a new block moves one
unit from `Quota` to the log; `end_op` only lowers it. Each part has a step lemma with
one case per action.

Only model-checked: liveness (out of the prover's reach), the refinements
`AtomicTransactions`, `Copy1Atomic` and `IsByteStream`, the properties about
block contents, and everything about the modules other than `Log`.

## Not modelled

- `sys_raw_read` and `sys_raw_write` change or read any block under the file system, without log
  or mirror, for diagnosis; with them no property of the layers above holds.
- System-call dispatch, `printf`, string functions, assembly, register-level trap code and boot
  have no state the properties speak of. `ramdisk.c` is not linked.
- The kernel's page table, built once; `copyin`, `copyout` and `copyinstr`, which appear
  as copies that may fail; the contents of ELF files.
- The sleep inside `acquiresleep`: a sleep lock is its holder.
- `mkfs` beyond the image it leaves, user programs, the shell and the tests: sequential code
  outside the kernel.
- Symbolic links that lead to each other: `namex` follows them without a limit but the length
  of a path, and no property asks for an end.
- Real I/O errors: the driver never reports one. The hooks of the simulated disks are modelled.
