------------------------------- MODULE Memory -------------------------------
(***************************************************************************)
(* Physical pages and user address spaces: kernel/kalloc.c, the page       *)
(* tables of kernel/vm.c, and the calls that build and free them: fork,    *)
(* exec, sbrk, exit and wait of kernel/proc.c, exec.c and sysproc.c.       *)
(*                                                                         *)
(* Every kalloc and every kfree is a step, so any kalloc can be the one    *)
(* that fails.  A page table is a tree of three levels, as in Sv39, with   *)
(* two entries in a table instead of 512: eight virtual pages.             *)
(***************************************************************************)
EXTENDS Integers, FiniteSets, FiniteSetsExt

CONSTANTS
    Procs,      \* the slots of the process table; process 1 is init
    NPAGE,      \* physical pages
    PGSIZE,     \* bytes of a page
    Segments,   \* the sizes exec reads from program headers
    Sbrks,      \* the arguments of sbrk
    NArgs,      \* the most arguments of exec
    MaxCalls    \* bound on the calls that are made

Pages == 1..NPAGE
TRAMPOLINE == 7
TRAPFRAME == 6
USERTOP == 6 * PGSIZE   \* memory runs out before an image gets this far

\* A page table is a function on the places of its tree: <<3, 0>> has the root page,
\* <<l, k>> the table of level l - 1 for the addresses with PX(l, va) = k, and
\* <<0, va>> the page mapped at va.
PX(l, va) == IF l = 1 THEN va \div 2 ELSE va \div 4
Places == ({0} \X (0..7)) \cup ({1} \X (0..3)) \cup ({2} \X (0..1)) \cup {<<3, 0>>}
Root == <<3, 0>>
NoMap == [x \in Places |-> 0]
Trampoline == NPAGE + 1   \* the page of trampoline.S, not one of kalloc's

ASSUME ConstantsAssumption ==
    /\ Procs \subseteq Nat \ {0} /\ 1 \in Procs
    /\ NPAGE \in Nat /\ NPAGE >= 7 /\ PGSIZE \in Nat \ {0} /\ NArgs \in Nat
    /\ Segments \subseteq 1..(4 * PGSIZE) /\ Sbrks \subseteq Int

VARIABLES
    free,       \* the free list
    tofree,     \* the pages p has yet to kfree before it goes on at pc
    pt, npt,    \* p->pagetable, and the one exec builds
    sz, tf,     \* p->sz in bytes, and the trapframe page
    pstate,     \* UNUSED, RUNNING or ZOMBIE
    pc, op,     \* where p is, in which call; "stack" is the second half of exec
    child,      \* the slot fork fills
    a, end,     \* the virtual page to map next, and the first not to map
    esz, nsz,   \* exec's sz, and the size once they are mapped
    mem,        \* the page to be mapped, or 0
    args,       \* the pages of exec's arguments
    calls, panic

spaces == <<pt, npt, sz, tf, pstate>>
locals == <<op, child, a, end, esz, nsz, mem, args>>
vars == <<free, tofree, spaces, pc, locals, calls, panic>>

TypeOK ==
    /\ free \subseteq Pages /\ tofree \in [Procs -> SUBSET Pages]
    /\ {pt, npt} \subseteq [Procs -> [Places -> 0..(NPAGE + 1)]]
    /\ sz \in [Procs -> 0..USERTOP]
    /\ {tf, mem} \subseteq [Procs -> 0..NPAGE]
    /\ args \in [Procs -> SUBSET Pages]

\* userinit: one page at 0, the trampoline and the trapframe.
InitSpace ==
    [NoMap EXCEPT ![Root] = 2, ![<<2, 1>>] = 3, ![<<1, 3>>] = 4, ![<<0, TRAMPOLINE>>] = Trampoline,
                  ![<<0, TRAPFRAME>>] = 1, ![<<2, 0>>] = 5, ![<<1, 0>>] = 6, ![<<0, 0>>] = 7]

Init ==
    /\ free = 8..NPAGE /\ tofree = [p \in Procs |-> {}]
    /\ pt = [p \in Procs |-> IF p = 1 THEN InitSpace ELSE NoMap] /\ npt = [p \in Procs |-> NoMap]
    /\ sz = [p \in Procs |-> IF p = 1 THEN PGSIZE ELSE 0]
    /\ tf = [p \in Procs |-> IF p = 1 THEN 1 ELSE 0]
    /\ pstate = [p \in Procs |-> IF p = 1 THEN "RUNNING" ELSE "UNUSED"]
    /\ pc = [p \in Procs |-> "idle"] /\ op = [p \in Procs |-> "none"]
    /\ child = [p \in Procs |-> 0] /\ a = child /\ end = child
    /\ esz = child /\ nsz = child /\ mem = child
    /\ args = [p \in Procs |-> {}]
    /\ calls = 0 /\ panic = ""

-----------------------------------------------------------------------------
(* kalloc, kfree, and the page table routines *)

Set(f, x, v) == [f EXCEPT ![x] = v]
At(p, l) == pc[p] = l /\ tofree[p] = {} /\ panic = ""
Goto(p, l) == pc' = Set(pc, p, l)

\* Which free page kalloc takes, and the order of the pages that are freed, make no
\* difference.
Some(S) == CHOOSE x \in S : TRUE
Fresh == Some(free)
Kalloc == free # {} /\ free' = free \ {Fresh}

Kfree(p) ==
    /\ tofree[p] # {} /\ panic = ""
    /\ LET x == Some(tofree[p])
       IN  free' = free \cup {x} /\ tofree' = [tofree EXCEPT ![p] = @ \ {x}]
    /\ UNCHANGED <<spaces, pc, locals, panic, calls>>

\* The rounded size, in pages.
PGROUNDUP(n) == (n + PGSIZE - 1) \div PGSIZE

\* The tables on the way to va that are missing, the upper one first.
Missing(m, va) == {l \in 1..2 : m[<<l, PX(l, va)>>] = 0}

Leaves(m, from, to) == {m[<<0, va>>] : va \in from..(to - 1)}
Tables(m) == {m[x] : x \in {y \in Places : y[1] > 0}} \ {0}

\* Mutant: the first page of the range stays mapped.
UnmappedFromNext(m, from, to) ==
    [x \in Places |-> IF x[1] = 0 /\ x[2] \in (from + 1)..(to - 1) THEN 0 ELSE m[x]]

Unmapped(m, from, to) == [x \in Places |-> IF x[1] = 0 /\ x[2] \in from..(to - 1) THEN 0 ELSE m[x]]

\* uvmunmap's panics: a page of the range is not mapped.
Unmappable(m, from, to) == 0 \notin Leaves(m, from, to)

\* The panics of proc_freepagetable and uvmfree for size n: something in the range is
\* not mapped, or freewalk finds a page beyond it.
Freeable(m, n) ==
    /\ Unmappable(m, 0, PGROUNDUP(n))
    /\ Leaves(m, PGROUNDUP(n), TRAPFRAME) \subseteq {0}

\* The pages they give back.
FreePagetable(m, n) == Leaves(m, 0, PGROUNDUP(n)) \cup Tables(m)

\* The address space the call of p builds: fork the child's, exec a new one, sbrk its own.
Execs(p) == op[p] \in {"exec", "stack"}
Space(p) == IF Execs(p) THEN npt[p] ELSE IF op[p] = "fork" THEN pt[child[p]] ELSE pt[p]
SetSpace(p, m) ==
    IF Execs(p) THEN npt' = Set(npt, p, m) /\ UNCHANGED pt
    ELSE pt' = Set(pt, IF op[p] = "fork" THEN child[p] ELSE p, m) /\ UNCHANGED npt
Frame(p) == IF op[p] = "fork" THEN tf[child[p]] ELSE tf[p]

\* The size of that space before this uvmalloc or uvmcopy.
SizeBefore(p) == IF Execs(p) THEN esz[p] ELSE IF op[p] = "fork" THEN 0 ELSE sz[p]

\* The call returns, and frees the pages in F first.
Return(p, F) ==
    /\ tofree' = Set(tofree, p, F)
    /\ Goto(p, "idle")
    /\ op' = Set(op, p, "none") /\ child' = Set(child, p, 0)
    /\ a' = Set(a, p, 0) /\ end' = Set(end, p, 0)
    /\ esz' = Set(esz, p, 0) /\ nsz' = Set(nsz, p, 0)
    /\ mem' = Set(mem, p, 0) /\ args' = Set(args, p, {})

-----------------------------------------------------------------------------
(* uvmcreate, mappages, uvmalloc and uvmcopy, one kalloc at a time *)

\* Mutant: the page in hand is forgotten.
MemKept(p) == {}

\* kalloc has failed: uvmalloc or uvmcopy gives back what it has mapped and the page in
\* hand, then fork and exec the whole address space.  sbrk keeps its tables.
Mem(p) == {mem[p]} \ {0}
NoMemory(p) ==
    LET m == Space(p)
        from == PGROUNDUP(SizeBefore(p))
        to == IF pc[p] \in {"pages", "map"} THEN a[p] ELSE from
        rest == Unmapped(m, from, to)
        whole == op[p] # "sbrk" /\ pc[p] # "root"
        F == Leaves(m, from, to) \cup Mem(p)
    IN  /\ \E l \in {"root", "tramp", "tframe", "pages", "map"} : At(p, l)
        /\ free = {}
        /\ pc[p] \in {"tramp", "tframe", "map"} => Missing(m, a[p]) # {}
        /\ pc[p] = "pages" => a[p] < end[p]
        /\ panic' = IF Unmappable(m, from, to) /\ (whole => Freeable(rest, SizeBefore(p))) THEN ""
                    ELSE "uvmunmap"
        /\ SetSpace(p, IF whole THEN NoMap ELSE rest)
        /\ Return(p, F \cup (IF whole THEN FreePagetable(rest, SizeBefore(p)) ELSE {})
                       \cup (IF op[p] = "fork" THEN {Frame(p)} ELSE {}) \cup args[p])
        /\ tf' = IF op[p] = "fork" THEN Set(tf, child[p], 0) ELSE tf
        /\ UNCHANGED <<free, sz, pstate, calls>>

\* uvmcreate in proc_pagetable.
UvmCreate(p) ==
    /\ At(p, "root") /\ Kalloc
    /\ SetSpace(p, [NoMap EXCEPT ![Root] = Fresh])
    /\ Goto(p, "tramp") /\ a' = Set(a, p, TRAMPOLINE)
    /\ UNCHANGED <<tofree, sz, tf, pstate, op, child, end, esz, nsz, mem, args, panic, calls>>

\* walk in mappages adds a table.
Walk(p) ==
    LET m == Space(p)
        l == Max(Missing(m, a[p]))
    IN  /\ \E q \in {"tramp", "tframe", "map"} : At(p, q)
        /\ Missing(m, a[p]) # {} /\ Kalloc
        /\ SetSpace(p, [m EXCEPT ![<<l, PX(l, a[p])>>] = Fresh])
        /\ UNCHANGED <<tofree, sz, tf, pstate, pc, locals, panic, calls>>

\* mappages writes the entry: of the trampoline, of the trapframe, or of page a.
Mappages(p) ==
    LET m == Space(p)
        page == IF pc[p] = "tramp" THEN Trampoline ELSE IF pc[p] = "tframe" THEN Frame(p) ELSE mem[p]
    IN  /\ \E q \in {"tramp", "tframe", "map"} : At(p, q)
        /\ Missing(m, a[p]) = {}
        /\ panic' = IF m[<<0, a[p]>>] = 0 THEN "" ELSE "remap"
        /\ SetSpace(p, [m EXCEPT ![<<0, a[p]>>] = page])
        /\ \/ pc[p] = "tramp" /\ Goto(p, "tframe") /\ a' = Set(a, p, TRAPFRAME)
           \/ pc[p] = "tframe" /\ Goto(p, "pages") /\ a' = Set(a, p, 0)
           \/ pc[p] = "map" /\ Goto(p, "pages") /\ a' = Set(a, p, a[p] + 1)
        /\ mem' = Set(mem, p, 0)
        /\ UNCHANGED <<free, tofree, sz, tf, pstate, op, child, end, esz, nsz, args, calls>>

\* The loops of uvmalloc and uvmcopy take the next page.
UvmPage(p) ==
    /\ At(p, "pages") /\ a[p] < end[p] /\ Kalloc
    /\ mem' = Set(mem, p, Fresh)
    /\ Goto(p, "map")
    /\ UNCHANGED <<tofree, spaces, op, child, a, end, esz, nsz, args, panic, calls>>

Built(p, o) == At(p, "pages") /\ op[p] = o /\ a[p] >= end[p]

-----------------------------------------------------------------------------
(* The calls *)

Call(p) == At(p, "idle") /\ pstate[p] = "RUNNING" /\ calls < MaxCalls /\ calls' = calls + 1
Unused == {q \in Procs : pstate[q] = "UNUSED" /\ \A p \in Procs : child[p] # q}

\* fork takes the first unused slot, in allocproc, ...
Fork(p) ==
    /\ Call(p) /\ op' = Set(op, p, "fork")
    /\ \E q \in Unused : (\A r \in Unused : q <= r) /\ child' = Set(child, p, q)
    /\ end' = Set(end, p, PGROUNDUP(sz[p])) /\ nsz' = Set(nsz, p, sz[p])
    /\ Goto(p, "frame")
    /\ UNCHANGED <<free, tofree, spaces, a, esz, mem, args, panic>>

\* ... and its trapframe page, ...
ForkFrame(p) ==
    /\ At(p, "frame")
    /\ \/ /\ Kalloc
          /\ tf' = Set(tf, child[p], Fresh) /\ Goto(p, "root")
          /\ UNCHANGED <<tofree, locals>>
       \/ free = {} /\ Return(p, {}) /\ UNCHANGED <<free, tf>>
    /\ UNCHANGED <<pt, npt, sz, pstate, panic, calls>>

\* ... and once uvmcopy is done the child can run.
ForkEnd(p) ==
    /\ Built(p, "fork")
    /\ sz' = Set(sz, child[p], nsz[p])
    /\ pstate' = Set(pstate, child[p], "RUNNING")
    /\ Return(p, {})
    /\ UNCHANGED <<free, pt, npt, tf, panic, calls>>

\* sys_exec: a page for every argument.
Exec(p) ==
    /\ Call(p)
    /\ op' = Set(op, p, "exec")
    /\ Goto(p, "args")
    /\ UNCHANGED <<free, tofree, spaces, child, a, end, esz, nsz, mem, args, panic>>

ExecArg(p) ==
    /\ At(p, "args") /\ Cardinality(args[p]) < NArgs
    /\ Kalloc
    /\ args' = [args EXCEPT ![p] = @ \cup {Fresh}]
    /\ UNCHANGED <<tofree, spaces, pc, op, child, a, end, esz, nsz, mem, panic, calls>>

\* exec proper: the program and its header were found, and the size is to become n.
ExecStart(p, n) ==
    /\ At(p, "args")
    /\ end' = Set(end, p, PGROUNDUP(n)) /\ nsz' = Set(nsz, p, n)
    /\ Goto(p, "root")
    /\ UNCHANGED <<free, tofree, spaces, op, child, a, esz, mem, args, panic, calls>>

\* A segment is loaded; the next one follows.
ExecSegment(p, n) ==
    /\ Built(p, "exec") /\ n > nsz[p]
    /\ esz' = Set(esz, p, nsz[p])
    /\ a' = Set(a, p, PGROUNDUP(nsz[p])) /\ end' = Set(end, p, PGROUNDUP(n)) /\ nsz' = Set(nsz, p, n)
    /\ UNCHANGED <<free, tofree, spaces, pc, op, child, mem, args, panic, calls>>

\* The last segment is; two pages for the stack and its guard follow.
ExecStack(p) ==
    LET n == PGROUNDUP(nsz[p])
    IN  /\ Built(p, "exec")
        /\ op' = Set(op, p, "stack")
        /\ esz' = Set(esz, p, n * PGSIZE) /\ nsz' = Set(nsz, p, (n + 2) * PGSIZE)
        /\ a' = Set(a, p, n) /\ end' = Set(end, p, n + 2)
        /\ UNCHANGED <<free, tofree, spaces, pc, child, mem, args, panic, calls>>

\* The new image replaces the old one, which is freed with its size.
ExecCommit(p) ==
    /\ Built(p, "stack")
    /\ pt' = Set(pt, p, npt[p]) /\ npt' = Set(npt, p, NoMap)
    /\ sz' = Set(sz, p, nsz[p])
    /\ panic' = IF Freeable(pt[p], sz[p]) THEN "" ELSE "uvmunmap"
    /\ Return(p, FreePagetable(pt[p], sz[p]) \cup args[p])
    /\ UNCHANGED <<free, tf, pstate, calls>>

\* Mutant: at bad, exec frees what it had before the last uvmalloc.
ExecSizeOld(p) == esz[p]

\* exec's sz at a goto bad: 0 before the first uvmalloc, then what the last one returned.
ExecSize(p) == IF a[p] = 0 THEN 0 ELSE nsz[p]

\* bad: an argument, the program or the stack is no good.
ExecBad(p) ==
    LET made == pc[p] = "pages"
    IN  /\ \/ At(p, "args")
           \/ At(p, "pages") /\ Execs(p) /\ a[p] = 0
           \/ Execs(p) /\ Built(p, op[p])
        /\ panic' = IF made => Freeable(npt[p], ExecSize(p)) THEN "" ELSE "uvmunmap"
        /\ npt' = Set(npt, p, NoMap)
        /\ Return(p, (IF made THEN FreePagetable(npt[p], ExecSize(p)) ELSE {}) \cup args[p])
        /\ UNCHANGED <<free, pt, sz, tf, pstate, calls>>

\* growproc: uvmalloc for a positive n; uvmdealloc for a negative one, which does
\* nothing if the unsigned size wraps around.
Sbrk(p, n) ==
    LET now == PGROUNDUP(sz[p])
        later == PGROUNDUP(sz[p] + n)
    IN  /\ Call(p)
        /\ \/ /\ n > 0 /\ sz[p] + n <= USERTOP
              /\ op' = Set(op, p, "sbrk") /\ Goto(p, "pages")
              /\ a' = Set(a, p, now) /\ end' = Set(end, p, later) /\ nsz' = Set(nsz, p, sz[p] + n)
              /\ UNCHANGED <<tofree, pt, sz, panic>>
           \/ /\ n < 0 /\ sz[p] + n >= 0
              /\ panic' = IF Unmappable(pt[p], later, now) THEN "" ELSE "uvmunmap"
              /\ pt' = Set(pt, p, Unmapped(pt[p], later, now))
              /\ tofree' = Set(tofree, p, Leaves(pt[p], later, now))
              /\ sz' = Set(sz, p, sz[p] + n)
              /\ UNCHANGED <<pc, op, a, end, nsz>>
        /\ UNCHANGED <<free, npt, tf, pstate, child, esz, mem, args>>

SbrkEnd(p) ==
    /\ Built(p, "sbrk")
    /\ sz' = Set(sz, p, nsz[p])
    /\ Return(p, {})
    /\ UNCHANGED <<free, pt, npt, tf, pstate, panic, calls>>

Exit(p) ==
    /\ Call(p) /\ p # 1
    /\ pstate' = Set(pstate, p, "ZOMBIE")
    /\ UNCHANGED <<free, tofree, pt, npt, sz, tf, pc, locals, panic>>

\* wait: freeproc of a zombie; whose child it is, and how wait finds it, is in Proc.
Wait(p, q) ==
    /\ Call(p) /\ p # q /\ pstate[q] = "ZOMBIE"
    /\ panic' = IF Freeable(pt[q], sz[q]) THEN "" ELSE "uvmunmap"
    /\ tofree' = Set(tofree, p, FreePagetable(pt[q], sz[q]) \cup {tf[q]})
    /\ pt' = Set(pt, q, NoMap) /\ sz' = Set(sz, q, 0) /\ tf' = Set(tf, q, 0)
    /\ pstate' = Set(pstate, q, "UNUSED")
    /\ UNCHANGED <<free, npt, pc, locals>>

Step(p) ==
    \/ Kfree(p) \/ NoMemory(p) \/ UvmCreate(p) \/ Walk(p) \/ Mappages(p) \/ UvmPage(p)
    \/ Fork(p) \/ ForkFrame(p) \/ ForkEnd(p)
    \/ Exec(p) \/ ExecArg(p) \/ ExecStack(p) \/ ExecCommit(p) \/ ExecBad(p)
    \/ SbrkEnd(p) \/ Exit(p)

\* The bound on calls is reached, and all have returned.
Stopped ==
    /\ calls = MaxCalls /\ \A p \in Procs : pc[p] = "idle" /\ tofree[p] = {}
    /\ UNCHANGED vars

Next ==
    \/ \E p \in Procs :
          \/ Step(p)
          \/ \E n \in Segments : ExecStart(p, n) \/ ExecSegment(p, n)
          \/ \E n \in Sbrks : Sbrk(p, n)
          \/ \E q \in Procs : Wait(p, q)
    \/ Stopped

Spec == Init /\ [][Next]_vars

-----------------------------------------------------------------------------
(* Properties *)

\* Who holds page x: the free list, pages about to be freed, a trapframe, the page in
\* hand, the arguments of exec, and a place of an address space (a table or a mapping;
\* the trapframe's mapping is of a page that tf holds).
Holders(x) ==
    LET Mapped == Procs \X (Places \ {<<0, TRAPFRAME>>})
    IN  ({"free"} \X {y \in {x} : y \in free})
        \cup ({"tofree"} \X {p \in Procs : x \in tofree[p]})
        \cup ({"tf"} \X {p \in Procs : x = tf[p]})
        \cup ({"mem"} \X {p \in Procs : x = mem[p]})
        \cup ({"args"} \X {p \in Procs : x \in args[p]})
        \cup ({"pt"} \X {m \in Mapped : pt[m[1]][m[2]] = x})
        \cup ({"npt"} \X {m \in Mapped : npt[m[1]][m[2]] = x})

\* No page has two users and none is lost, whichever kalloc of fork, exec or sbrk fails
\* and whatever the other processes do meanwhile.
PagesExact ==
    panic = "" => \A x \in Pages : LET h == Holders(x) IN \E o \in h : h = {o}

\* The kernel meets none of the panics of vm.c (remap, uvmunmap, freewalk) and no
\* uvmcopy of a page that is not there.
NoPanic ==
    /\ panic = ""
    /\ \A p \in Procs : op[p] = "fork" => Unmappable(pt[p], 0, end[p])

\* Between calls exactly the pages below sz are mapped, together with the trampoline
\* and the process's own trapframe, whatever calls failed before.
ImageWhole ==
    \A p \in Procs :
        pstate[p] # "UNUSED" /\ pc[p] = "idle" =>
            /\ \A va \in 0..(TRAPFRAME - 1) : pt[p][<<0, va>>] # 0 <=> va < PGROUNDUP(sz[p])
            /\ pt[p][<<0, TRAMPOLINE>>] = Trampoline /\ pt[p][<<0, TRAPFRAME>>] = tf[p]
            /\ npt[p] = NoMap
=============================================================================
