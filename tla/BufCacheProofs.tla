--------------------------- MODULE BufCacheProofs ---------------------------
(***************************************************************************)
(* Proofs about the buffer cache, for any number of processes, blocks and  *)
(* buffers: while every process works inside an operation and disk 0       *)
(* answers, reference counts are exact, a block has one user at a time,    *)
(* bread returns what was last stored, and a modified block stays cached   *)
(* until it is installed.                                                  *)
(***************************************************************************)
EXTENDS FiniteSetTheorems, TLAPS, BufCache

\* Min of a set of naturals is its least element: the first buffer of the list that bget finds.
LEMMA MinNat ==
    ASSUME NEW S, S \subseteq Nat, S # {}
    PROVE  Min(S) \in S /\ \A y \in S : Min(S) <= y
<1>1. PICK x \in S : \A y \in S : ~(<<y, x>> \in OpToRel(<, Nat))
  BY NatLessThanWellFounded, WFMin, Zenon
<1>2. ASSUME NEW y \in S PROVE x <= y
  <2>1. <<y, x>> \in Nat \X Nat /\ ~(<<y, x>> \in OpToRel(<, Nat))
    BY <1>1, Zenon
  <2> QED
    BY <2>1 DEF OpToRel
<1>3. \E z \in S : \A y \in S : z <= y
  BY <1>2
<1> QED
  BY <1>3, Zenon DEF Min

\* Max of a set of positions is its last element.
LEMMA MaxNat ==
    ASSUME NEW n \in Nat, NEW S, S \subseteq 1..n, S # {}
    PROVE  Max(S) \in S /\ \A y \in S : Max(S) >= y
<1>1. PICK T : T = {n - x : x \in S}
  BY Zenon
<1>2. T \subseteq Nat /\ T # {}
  <2>1. \A x \in S : n - x \in Nat
    OBVIOUS
  <2>2. T \subseteq Nat
    BY <1>1, <2>1
  <2>3. PICK x \in S : TRUE
    BY Zenon
  <2>4. n - x \in T
    BY <1>1
  <2> QED
    BY <2>2, <2>4
<1>3. Min(T) \in T /\ \A t \in T : Min(T) <= t
  BY <1>2, MinNat, Zenon
<1>4. PICK x \in S : Min(T) = n - x
  BY <1>1, <1>3, Zenon
<1>5. ASSUME NEW y \in S PROVE x >= y
  <2>1. n - y \in T
    BY <1>1
  <2>2. n - x <= n - y
    BY <1>3, <1>4, <2>1
  <2> QED
    BY <2>2
<1>6. \E z \in S : \A y \in S : z >= y
  BY <1>5
<1> QED
  BY <1>6, Zenon DEF Max

Busy == {"wait", "locked", "read", "have", "write0", "write1", "unpin", "done", "release"}
Held == Busy \ {"wait", "release"}
Writing == {"write0", "write1", "unpin", "done"}

\* Buffer k is the one for block b, whichever copy a transfer is for.
Stands(k, b) == blockno[k] \in {<<b, 0>>, <<b, 1>>}

\* Where process p is agrees with what it holds.
At(p) ==
    /\ pc[p] \in {"idle", "panic"} => buf[p] = None
    /\ pc[p] \in Busy => buf[p] \in Buf /\ want[p] \in Block /\ Stands(buf[p], want[p])
    /\ pc[p] \in Busy \ {"write1"} => blockno[buf[p]] = <<want[p], 0>>
    /\ pc[p] \in Held => holder[buf[p]] = p
    /\ Using(p) => valid[buf[p]]
    /\ pc[p] = "read" => ~valid[buf[p]]
    /\ pc[p] \in Writing => committer = p
    /\ committer = p /\ pc[p] \in Busy \ {"done", "release"} => want[p] \in logged
    /\ pc[p] \in {"write1", "unpin"} => disk[<<want[p], 0>>] = mem[want[p]]
    /\ committer \notin {None, p} => pc[p] = "idle"

\* What buffer k holds is what was last stored; its sleep lock is held by a process
\* that got it from bget, and its number is that of copy 1 only during bwrite.
In(k) ==
    /\ holder[k] # None => buf[holder[k]] = k /\ pc[holder[k]] \in Held
    /\ \A b \in Block : Stands(k, b) /\ valid[k] => data[k] = mem[b]
    /\ \A b \in Block : blockno[k] = <<b, 1>> => \E p \in Proc : pc[p] = "write1" /\ buf[p] = k

ProcInv == \A p \in Proc : At(p)
BufInv == \A k \in Buf : In(k)

\* A block has one buffer.
OneBuf == \A k, l \in Buf, b \in Block : Stands(k, b) /\ Stands(l, b) => k = l

\* The blocks of the transaction are the pinned ones; the others are on the disk.
LogInv ==
    /\ \A b \in logged : \E k \in pinned : Stands(k, b) /\ valid[k]
    /\ \A k \in pinned : \E b \in logged : Stands(k, b)
    /\ \A b \in Block \ logged : disk[<<b, 0>>] = mem[b]

\* Every buffer is on the list.
LruInv == \A k \in Buf : \E i \in 1..Len(lru) : lru[i] = k

\* The inductive invariant.
Ind == TypeOK /\ RefcntExact /\ ProcInv /\ BufInv /\ OneBuf /\ LogInv /\ LruInv

-----------------------------------------------------------------------------
(* The encodings, and what stays as it is. *)

\* Nobody reads outside an operation, disk 0 answers, and no read error is forced.
Ordinary == Readers = {} /\ FailDisk # 0 /\ FailBlock = None

\* None is no process, buffer or block.
LEMMA Nones == None \notin Proc /\ None \notin Buf /\ None \notin Block /\ None \notin Pbn
  BY ConstantsAssumption DEF Buf, Pbn

\* The numbers of different copies or blocks are different.
LEMMA Copies ==
    /\ \A b \in Block : <<b, 0>> \in Pbn /\ <<b, 1>> \in Pbn
    /\ \A b, c \in Block : <<b, 0>> # <<c, 1>>
    /\ \A b, c \in Block : <<b, 0>> = <<c, 0>> => b = c
    /\ \A b, c \in Block : <<b, 1>> = <<c, 1>> => b = c
    /\ \A n \in Pbn : \E b \in Block : n = <<b, 0>> \/ n = <<b, 1>>
  BY DEF Pbn

\* A buffer stands for one block.
LEMMA OneBlock ==
    ASSUME NEW k, NEW b \in Block, NEW c \in Block, Stands(k, b), Stands(k, c)
    PROVE  b = c
  BY Copies DEF Stands

\* bread reads copy 0, and bwrite writes it.
LEMMA Copy0 ==
    ASSUME Ordinary, NEW b \in Block
    PROVE  ~UseFallback(b) /\ 0 \notin Skipped(b)
  BY Nones DEF Ordinary, UseFallback, Skipped

\* The users of a buffer are finitely many.
LEMMA UsersFinite ==
    ASSUME NEW k
    PROVE  /\ IsFiniteSet(Users(k)) /\ Cardinality(Users(k)) \in Nat
           /\ IsFiniteSet(Users(k)') /\ Cardinality(Users(k)') \in Nat
<1>1. Users(k) \subseteq Proc /\ Users(k)' \subseteq Proc
  BY DEF Users
<1>2. IsFiniteSet(Users(k)) /\ IsFiniteSet(Users(k)')
  BY <1>1, ConstantsAssumption, FS_Subset
<1> QED
  BY <1>2, FS_CardinalityType

\* An unreferenced buffer is nobody's and not pinned.
LEMMA Unreferenced ==
    ASSUME Ind, NEW k \in Buf, refcnt[k] = 0
    PROVE  k \notin pinned /\ holder[k] = None /\ \A q \in Proc : buf[q] # k
<1>1. refcnt[k] = Cardinality(Users(k)) + (IF k \in pinned THEN 1 ELSE 0)
  BY DEF Ind, RefcntExact
<1>2. Cardinality(Users(k)) = 0 /\ k \notin pinned
  BY <1>1, UsersFinite
<1>3. Users(k) = {}
  BY <1>2, UsersFinite, FS_CardinalityType, FS_EmptySet
<1>4. \A q \in Proc : buf[q] # k
  BY <1>3 DEF Users
<1>5. holder[k] \in Proc \cup {None}
  BY Zenon DEF Ind, TypeOK
<1> QED
  BY <1>2, <1>4, <1>5 DEF Ind, BufInv, In

\* A process that another one's step does not concern.
LEMMA AtStill ==
    ASSUME NEW q, At(q), pc'[q] = pc[q], buf'[q] = buf[q], want'[q] = want[q],
           pc[q] \in Busy => blockno'[buf[q]] = blockno[buf[q]],
           pc[q] \in Held => holder'[buf[q]] = holder[buf[q]] /\ valid'[buf[q]] = valid[buf[q]],
           UNCHANGED committer, logged \subseteq logged',
           pc[q] \in {"write1", "unpin"} => UNCHANGED <<disk, mem>>
    PROVE  At(q)'
<1>1. /\ pc'[q] \in {"idle", "panic"} => buf'[q] = None
      /\ pc'[q] \in Writing => committer' = q
      /\ committer' = q /\ pc'[q] \in Busy \ {"done", "release"} => want'[q] \in logged'
      /\ committer' \notin {None, q} => pc'[q] = "idle"
  BY Zenon DEF At
<1>2. /\ pc'[q] \in Busy => buf'[q] \in Buf /\ want'[q] \in Block /\ Stands(buf[q], want[q])'
      /\ pc'[q] \in Busy \ {"write1"} => blockno'[buf'[q]] = <<want'[q], 0>>
  BY DEF At, Stands
<1>3. /\ pc'[q] \in Held => holder'[buf'[q]] = q
      /\ Using(q)' => valid'[buf'[q]]
      /\ pc'[q] = "read" => ~valid'[buf'[q]]
  BY DEF At, Held, Busy, Using
<1>4. pc'[q] \in {"write1", "unpin"} => disk'[<<want'[q], 0>>] = mem'[want'[q]]
  BY DEF At
<1> QED
  BY <1>1, <1>2, <1>3, <1>4, Zenon DEF At, Stands

\* A process outside the cache.
LEMMA AtIdle ==
    ASSUME NEW q, pc'[q] = "idle", buf'[q] = None
    PROVE  At(q)'
  BY DEF At, Busy, Held, Using, Writing

\* A buffer that a step does not concern.
LEMMA InStill ==
    ASSUME NEW k, In(k), blockno'[k] = blockno[k], valid'[k] = valid[k], data'[k] = data[k], holder'[k] = holder[k],
           holder[k] # None => buf'[holder[k]] = buf[holder[k]] /\ (pc[holder[k]] \in Held => pc'[holder[k]] \in Held),
           \A b \in Block : Stands(k, b) => mem'[b] = mem[b],
           \A q \in Proc : pc[q] = "write1" => pc'[q] = pc[q] /\ buf'[q] = buf[q]
    PROVE  In(k)'
  BY DEF In, Stands

\* Counts, when neither references nor pins change.
LEMMA RefStill ==
    ASSUME Ind, UNCHANGED <<refcnt, buf, pinned>>
    PROVE  RefcntExact'
  BY DEF Ind, RefcntExact, Users

-----------------------------------------------------------------------------
(* bget *)

\* bget takes a buffer that stands for the block, or recycles an unreferenced one
\* when none does.
LEMMA TakeStep ==
    ASSUME Ind, NEW p \in Proc, NEW b \in Block, NEW k \in Buf, NEW ref, NEW ok,
           pc[p] = "idle", Take(p, b, k, <<b, 0>>, ref, ok), ref = refcnt[k] + 1,
           \/ blockno[k] = <<b, 0>> /\ ok = valid[k]
           \/ refcnt[k] = 0 /\ ok = FALSE /\ \A l \in Buf : blockno[l] # <<b, 0>>,
           \A l \in Buf, c \in Block : blockno[l] # <<c, 1>>,
           committer \in {None, p}, committer = p => b \in logged,
           UNCHANGED <<data, holder, lru, disk, logged, pinned, committer, mem>>
    PROVE  Ind'
<1>1. /\ buf \in [Proc -> Buf \cup {None}] /\ buf' = [buf EXCEPT ![p] = k]
      /\ want \in [Proc -> Block \cup {None}] /\ want' = [want EXCEPT ![p] = b]
      /\ pc' = [pc EXCEPT ![p] = "wait"]
      /\ blockno \in [Buf -> Pbn \cup {None}] /\ blockno' = [blockno EXCEPT ![k] = <<b, 0>>]
      /\ refcnt \in [Buf -> Nat] /\ refcnt' = [refcnt EXCEPT ![k] = refcnt[k] + 1]
      /\ valid \in [Buf -> BOOLEAN] /\ valid' = [valid EXCEPT ![k] = ok]
  BY DEF Take, Ind, TypeOK
<1>2. pc'[p] = "wait" /\ \A q \in Proc \ {p} : pc'[q] = pc[q]
  BY <1>1 DEF Ind, TypeOK
<1>3. buf[p] = None /\ p \notin Users(k)
  <2>1. buf[p] = None
    BY Zenon DEF Ind, ProcInv, At
  <2> QED
    BY <2>1, Nones DEF Users
<1>4. TypeOK'
  <2>1. <<b, 0>> \in Pbn /\ ok \in BOOLEAN
    BY <1>1, Copies, Zenon
  <2> QED
    BY <1>1, <2>1 DEF Ind, TypeOK, Take
<1>5. RefcntExact'
  <2>1. Users(k)' = Users(k) \cup {p}
    BY <1>1 DEF Users
  <2>2. \A l \in Buf \ {k} : Users(l)' = Users(l)
    BY <1>1, <1>3, Nones DEF Users
  <2>3. Cardinality(Users(k) \cup {p}) = Cardinality(Users(k)) + 1
    BY <1>3, UsersFinite, FS_AddElement, Zenon
  <2>4. \A l \in Buf : refcnt[l] = Cardinality(Users(l)) + (IF l \in pinned THEN 1 ELSE 0)
    BY DEF Ind, RefcntExact
  <2>5. refcnt'[k] = Cardinality(Users(k)') + (IF k \in pinned THEN 1 ELSE 0)
    BY <1>1, <2>1, <2>3, <2>4, UsersFinite
  <2>6. ASSUME NEW l \in Buf \ {k} PROVE refcnt'[l] = Cardinality(Users(l)') + (IF l \in pinned THEN 1 ELSE 0)
    <3>1. refcnt'[l] = refcnt[l] /\ Users(l)' = Users(l)
      BY <1>1, <2>2, Zenon
    <3> QED
      BY <2>4, <3>1
  <2> QED
    BY <2>5, <2>6 DEF RefcntExact
<1>6. At(p)'
  BY <1>1, <1>2, Zenon DEF At, Stands, Busy, Held, Using, Writing
<1>7. CASE blockno[k] = <<b, 0>> /\ ok = valid[k]
  <2>1. UNCHANGED <<blockno, valid>>
    BY <1>1, <1>7, Zenon
  <2>2. ASSUME NEW q \in Proc \ {p} PROVE At(q)'
    BY <1>1, <1>2, <2>1, AtStill, Zenon DEF Ind, ProcInv
  <2>3. ASSUME NEW l \in Buf PROVE In(l)'
    <3>1. holder[l] # p
      BY <1>3, Nones DEF Ind, BufInv, In
    <3>2. holder[l] # None => buf'[holder[l]] = buf[holder[l]] /\ pc'[holder[l]] = pc[holder[l]]
      BY <1>1, <1>2, <3>1, Zenon DEF Ind, TypeOK
    <3>3. \A q \in Proc : pc[q] = "write1" => pc'[q] = pc[q] /\ buf'[q] = buf[q]
      BY <1>1, <1>2, Zenon
    <3> QED
      BY <2>1, <3>2, <3>3, InStill, Zenon DEF Ind, BufInv
  <2>4. OneBuf' /\ LogInv' /\ LruInv'
    BY <2>1, Zenon DEF Ind, OneBuf, LogInv, LruInv, Stands
  <2> QED
    BY <1>4, <1>5, <1>6, <2>2, <2>3, <2>4, Zenon DEF Ind, ProcInv, BufInv
<1>8. CASE refcnt[k] = 0 /\ ok = FALSE /\ \A l \in Buf : blockno[l] # <<b, 0>>
  <2>1. k \notin pinned /\ holder[k] = None /\ \A q \in Proc : buf[q] # k
    BY <1>8, Unreferenced, Zenon
  <2>2. ASSUME NEW q \in Proc \ {p} PROVE At(q)'
    <3>1. pc[q] \in Busy => buf[q] \in Buf \ {k}
      BY <2>1, Zenon DEF Ind, ProcInv, At
    <3> QED
      BY <1>1, <1>2, <3>1, AtStill, SMTT(30) DEF Ind, ProcInv, Held
  <2>3. ASSUME NEW l \in Buf \ {k} PROVE In(l)'
    <3>1. holder[l] # p
      BY <1>3, Nones DEF Ind, BufInv, In
    <3>2. holder[l] # None => buf'[holder[l]] = buf[holder[l]] /\ pc'[holder[l]] = pc[holder[l]]
      BY <1>1, <1>2, <3>1, Zenon DEF Ind, TypeOK
    <3>3. \A q \in Proc : pc[q] = "write1" => pc'[q] = pc[q] /\ buf'[q] = buf[q]
      BY <1>1, <1>2
    <3>4. blockno'[l] = blockno[l] /\ valid'[l] = valid[l]
      BY <1>1, Zenon
    <3> QED
      BY <3>2, <3>3, <3>4, InStill, Zenon DEF Ind, BufInv
  <2>4. In(k)'
    <3>1. holder'[k] = None /\ valid'[k] = FALSE /\ blockno'[k] = <<b, 0>>
      BY <1>1, <1>8, <2>1, Zenon
    <3> QED
      BY <3>1, Copies, Zenon DEF In
  <2>5. OneBuf'
    <3>1. \A l \in Buf \ {k} : ~Stands(l, b) /\ blockno'[l] = blockno[l]
      BY <1>1, <1>8 DEF Stands
    <3>2. blockno'[k] = <<b, 0>>
      BY <1>1, Zenon
    <3>3. \A c \in Block : blockno'[k] \in {<<c, 0>>, <<c, 1>>} => c = b
      BY <3>2, Copies, Zenon
    <3> QED
      BY <3>1, <3>2, <3>3, Zenon DEF Ind, OneBuf, Stands
  <2>6. LogInv'
    <3>1. \A l \in pinned : blockno'[l] = blockno[l] /\ valid'[l] = valid[l]
      BY <1>1, <2>1, Zenon DEF Ind, TypeOK
    <3> QED
      BY <3>1, Zenon DEF Ind, LogInv, Stands
  <2>7. LruInv'
    BY DEF Ind, LruInv
  <2> QED
    BY <1>4, <1>5, <1>6, <2>2, <2>3, <2>4, <2>5, <2>6, <2>7, Zenon DEF Ind, ProcInv, BufInv
<1> QED
  BY <1>7, <1>8, Zenon

\* bget finds the block on the list, recycles a buffer, or panics.
LEMMA BgetStep ==
    ASSUME Ordinary, Ind, NEW p \in Proc, NEW b \in Block, Bget(p, b)
    PROVE  Ind'
<1>1. /\ pc[p] = "idle" /\ Admitted(p, b)
      /\ UNCHANGED <<data, holder, lru, disk, logged, pinned, committer, mem>>
  BY DEF Bget, logVars
<1>2. committer \in {None, p} /\ (committer = p => b \in logged)
  BY <1>1, Nones, Zenon DEF Admitted, Ordinary
<1>3. \A l \in Buf, c \in Block : blockno[l] # <<c, 1>>
  <2>1. \A q \in Proc : pc[q] # "write1"
    <3>1. \A q \in Proc : pc[q] = "write1" => committer = q
      BY Zenon DEF Ind, ProcInv, At, Writing
    <3> QED
      BY <1>1, <1>2, <3>1, Nones
  <2> QED
    BY <2>1 DEF Ind, BufInv, In
<1>4. lru \in Seq(Buf) /\ refcnt \in [Buf -> Nat]
  BY DEF Ind, TypeOK
<1>5. PICK n : n = <<b, 0>>
  BY Zenon
<1>6. CASE Match(n) # {}
  <2>1. PICK k : k = lru[Min(Match(n))]
    OBVIOUS
  <2>2. Min(Match(n)) \in Match(n)
    <3>1. Match(n) \subseteq Nat
      BY <1>4 DEF Match
    <3> QED
      BY <1>6, <3>1, MinNat, Zenon
  <2>3. k \in Buf /\ blockno[k] = n
    BY <1>4, <2>1, <2>2 DEF Match
  <2>4. Take(p, b, k, <<b, 0>>, refcnt[k] + 1, valid[k])
    <3>1. Take(p, b, lru[Min(Match(<<b, 0>>))], <<b, 0>>, refcnt[lru[Min(Match(<<b, 0>>))]] + 1, valid[lru[Min(Match(<<b, 0>>))]])
      BY <1>5, <1>6, SMTT(30) DEF Bget
    <3> QED
      BY <1>5, <2>1, <3>1, Zenon DEF Take
  <2> QED
    BY <1>1, <1>2, <1>3, <1>5, <2>3, <2>4, TakeStep, Zenon
<1>7. CASE Match(n) = {} /\ Unused # {}
  <2>1. PICK k : k = lru[Max(Unused)]
    OBVIOUS
  <2>2. Max(Unused) \in Unused
    <3>1. Unused \subseteq 1..Len(lru) /\ Len(lru) \in Nat
      BY <1>4 DEF Unused
    <3> QED
      BY <1>7, <3>1, MaxNat, Zenon
  <2>3. k \in Buf /\ refcnt[k] = 0
    BY <1>4, <2>1, <2>2 DEF Unused
  <2>4. \A l \in Buf : blockno[l] # <<b, 0>>
    <3>1. \A l \in Buf : \E i \in 1..Len(lru) : lru[i] = l
      BY DEF Ind, LruInv
    <3> QED
      BY <1>5, <1>7, <3>1 DEF Match
  <2>5. Take(p, b, k, <<b, 0>>, 1, FALSE)
    <3>1. Take(p, b, lru[Max(Unused)], <<b, 0>>, 1, FALSE)
      BY <1>5, <1>7, Zenon DEF Bget
    <3> QED
      BY <2>1, <3>1, SMTT(30) DEF Take
  <2>6. 1 = refcnt[k] + 1
    BY <2>3
  <2> QED
    BY <1>1, <1>2, <1>3, <2>3, <2>4, <2>5, <2>6, TakeStep, Zenon
<1>8. CASE Match(n) = {} /\ Unused = {}
  <2>1. pc' = [pc EXCEPT ![p] = "panic"] /\ UNCHANGED <<blockno, refcnt, valid, buf, want>>
    BY <1>5, <1>8 DEF Bget
  <2>2. pc'[p] = "panic" /\ \A q \in Proc \ {p} : pc'[q] = pc[q]
    BY <2>1, Zenon DEF Ind, TypeOK
  <2>3. TypeOK' /\ RefcntExact'
    BY <1>1, <2>1, RefStill, SMTT(30) DEF Ind, TypeOK
  <2>4. ASSUME NEW q \in Proc \ {p} PROVE At(q)'
    BY <1>1, <2>1, <2>2, AtStill, ZenonT(30) DEF Ind, ProcInv
  <2>5. At(p)'
    <3>1. buf[p] = None
      BY <1>1, Zenon DEF Ind, ProcInv, At
    <3> QED
      BY <1>1, <1>2, <2>1, <2>2, <3>1, SMTT(30) DEF At, Busy, Held, Using, Writing
  <2>6. ASSUME NEW l \in Buf PROVE In(l)'
    <3>1. holder[l] # None => pc[holder[l]] \in Held /\ holder[l] \in Proc
      BY DEF Ind, BufInv, In, TypeOK
    <3>2. holder[l] # p
      BY <1>1, <3>1, Nones, Zenon DEF Held, Busy
    <3>3. holder[l] # None => buf'[holder[l]] = buf[holder[l]] /\ pc'[holder[l]] = pc[holder[l]]
      BY <2>1, <2>2, <3>1, <3>2
    <3>4. \A q \in Proc : pc[q] = "write1" => pc'[q] = pc[q] /\ buf'[q] = buf[q]
      BY <1>1, <2>1, <2>2, Zenon
    <3> QED
      BY <1>1, <2>1, <3>3, <3>4, InStill, Zenon DEF Ind, BufInv
  <2>7. OneBuf' /\ LogInv' /\ LruInv'
    BY <1>1, <2>1 DEF Ind, OneBuf, LogInv, LruInv, Stands
  <2> QED
    BY <2>3, <2>4, <2>5, <2>6, <2>7, Zenon DEF Ind, ProcInv, BufInv
<1> QED
  BY <1>6, <1>7, <1>8, Zenon

-----------------------------------------------------------------------------
(* Locking, reading and writing *)

\* A process that is in the cache during a commit is the committer.
LEMMA Alone ==
    ASSUME Ind, NEW p \in Proc, committer = p
    PROVE  \A q \in Proc \ {p} : pc[q] = "idle" /\ buf[q] = None
<1>1. \A q \in Proc \ {p} : committer \notin {None, q}
  BY Nones, SMTT(30)
<1>2. \A q \in Proc : /\ committer \notin {None, q} => pc[q] = "idle"
                      /\ pc[q] = "idle" => buf[q] = None
  BY Zenon DEF Ind, ProcInv, At
<1> QED
  BY <1>1, <1>2

\* Who has a buffer's sleep lock is the only one to be past acquiresleep with it.
LEMMA OneHolder ==
    ASSUME Ind, NEW p \in Proc, NEW q \in Proc, pc[p] \in Held, pc[q] \in Held, buf[p] = buf[q]
    PROVE  p = q
<1>1. holder[buf[p]] = p /\ holder[buf[q]] = q
  BY Zenon DEF Ind, ProcInv, At
<1> QED
  BY <1>1

\* acquiresleep: the buffer found or recycled is still of the block asked for.
LEMMA AcquiresleepStep ==
    ASSUME Ind, NEW p \in Proc, Acquiresleep(p)
    PROVE  Ind'
<1>1. PICK k : k = buf[p]
  OBVIOUS
<1>2. /\ pc[p] = "wait" /\ holder[k] = None
      /\ holder \in [Buf -> Proc \cup {None}] /\ holder' = [holder EXCEPT ![k] = p]
      /\ pc' = [pc EXCEPT ![p] = "locked"]
      /\ UNCHANGED <<blockno, valid, refcnt, data, lru, disk, buf, want, logged, pinned, committer, mem>>
  BY <1>1 DEF Acquiresleep, Ind, TypeOK, logVars
<1>3. pc'[p] = "locked" /\ \A q \in Proc \ {p} : pc'[q] = pc[q]
  BY <1>2, SMTT(30) DEF Ind, TypeOK
<1>4. k \in Buf /\ At(p)
  BY <1>1, <1>2, Zenon DEF Ind, ProcInv, At, Busy
<1>5. TypeOK'
  BY <1>2, ZenonT(30) DEF Ind, TypeOK
<1>6. RefcntExact'
  BY <1>2, RefStill, Zenon
<1>7. At(p)'
  BY <1>1, <1>2, <1>3, <1>4, SMTT(30) DEF At, Stands, Busy, Held, Using, Writing
<1>8. ASSUME NEW q \in Proc \ {p} PROVE At(q)'
  <2>1. pc[q] \in Busy => buf[q] \in Buf
    BY Zenon DEF Ind, ProcInv, At
  <2>2. pc[q] \in Held => buf[q] # k
    <3>1. pc[q] \in Held => holder[buf[q]] = q
      BY Zenon DEF Ind, ProcInv, At
    <3> QED
      BY <1>2, <3>1, Nones, SMTT(30)
  <2>3. pc[q] \in Held => holder'[buf[q]] = holder[buf[q]]
    BY <1>2, <1>4, <2>1, <2>2, Zenon DEF Held
  <2> QED
    BY <1>2, <1>3, <2>3, AtStill, ZenonT(30) DEF Ind, ProcInv
<1>9. \A q \in Proc : pc[q] = "write1" => pc'[q] = pc[q] /\ buf'[q] = buf[q]
  BY <1>2, <1>3
<1>10. ASSUME NEW l \in Buf \ {k} PROVE In(l)'
  <2>1. holder'[l] = holder[l]
    BY <1>2, Zenon
  <2>2. holder[l] # None => pc[holder[l]] \in Held /\ holder[l] \in Proc
    BY DEF Ind, BufInv, In, TypeOK
  <2>3. holder[l] # None => pc'[holder[l]] = pc[holder[l]]
    BY <1>2, <1>3, <2>2, Zenon DEF Held
  <2> QED
    BY <1>2, <1>9, <2>1, <2>3, InStill, Zenon DEF Ind, BufInv
<1>11. In(k)'
  <2>1. holder'[k] = p /\ buf'[p] = k /\ pc'[p] \in Held
    BY <1>1, <1>2, <1>3, <1>4 DEF Held, Busy
  <2>2. In(k)
    BY <1>4, Zenon DEF Ind, BufInv
  <2> QED
    BY <1>2, <1>9, <2>1, <2>2, ZenonT(30) DEF In, Stands
<1>12. OneBuf' /\ LogInv' /\ LruInv'
  BY <1>2, Zenon DEF Ind, OneBuf, LogInv, LruInv, Stands
<1> QED
  BY <1>5, <1>6, <1>7, <1>8, <1>10, <1>11, <1>12, Zenon DEF Ind, ProcInv, BufInv

\* A step that moves p on between two places where it holds the lock and changes
\* neither buffers, disk nor log.
LEMMA MoveStep ==
    ASSUME Ind, NEW p \in Proc, NEW l, pc[p] \in Held, l \in {"have", "read", "write0"}, pc' = [pc EXCEPT ![p] = l],
           pc[p] # "write1",
           l = "have" => pc[p] = "locked" /\ valid[buf[p]],
           l = "read" => pc[p] = "locked" /\ ~valid[buf[p]],
           l = "write0" => pc[p] = "have" /\ committer = p,
           UNCHANGED <<blockno, valid, refcnt, data, holder, lru, disk, buf, want, logged, pinned, committer, mem>>
    PROVE  Ind'
<1>1. pc'[p] = l /\ \A q \in Proc \ {p} : pc'[q] = pc[q]
  BY Zenon DEF Ind, TypeOK
<1>2. TypeOK'
  BY SMTT(30) DEF Ind, TypeOK
<1>3. RefcntExact'
  BY RefStill, ZenonT(30)
<1>4. At(p)'
  <2>1. At(p)
    BY Zenon DEF Ind, ProcInv
  <2> QED
    BY <1>1, <2>1, Zenon DEF At, Stands, Busy, Held, Using, Writing
<1>5. ASSUME NEW q \in Proc \ {p} PROVE At(q)'
  BY <1>1, AtStill, Zenon DEF Ind, ProcInv
<1>6. ASSUME NEW k \in Buf PROVE In(k)'
  <2>1. pc'[p] \in Held
    BY <1>1, Zenon DEF Held, Busy
  <2>2. holder[k] # None => holder[k] \in Proc
    BY SMTT(30) DEF Ind, TypeOK
  <2>3. holder[k] # None => (pc[holder[k]] \in Held => pc'[holder[k]] \in Held)
    BY <1>1, <2>1, <2>2, Zenon
  <2> QED
    BY <1>1, <2>3, InStill, Zenon DEF Ind, BufInv
<1>7. OneBuf' /\ LogInv' /\ LruInv'
  BY DEF Ind, OneBuf, LogInv, LruInv, Stands
<1> QED
  BY <1>2, <1>3, <1>4, <1>5, <1>6, <1>7, Zenon DEF Ind, ProcInv, BufInv

\* bread finds the buffer valid, or goes on to read.
LEMMA BreadTestStep ==
    ASSUME Ordinary, Ind, NEW p \in Proc, BreadTest(p)
    PROVE  Ind'
<1>1. pc[p] = "locked" /\ pc[p] \in Held
  BY SMTT(30) DEF BreadTest, Held, Busy
<1>2. buf[p] \in Buf /\ want[p] \in Block /\ blockno[buf[p]] = <<want[p], 0>>
  BY <1>1, Zenon DEF Ind, ProcInv, At, Held
<1>3. ~UseFallback(want[p])
  BY <1>2, Copy0, Zenon
<1>4. /\ pc' = [pc EXCEPT ![p] = IF valid[buf[p]] THEN "have" ELSE "read"]
      /\ UNCHANGED <<blockno, valid, refcnt, data, holder, lru, disk, buf, want, logged, pinned, committer, mem>>
  <2>1. blockno \in [Buf -> Pbn \cup {None}]
    BY DEF Ind, TypeOK
  <2> QED
    BY <1>2, <1>3, <2>1 DEF BreadTest, logVars
<1>5. CASE valid[buf[p]]
  BY <1>1, <1>4, <1>5, MoveStep, Zenon
<1>6. CASE ~valid[buf[p]]
  BY <1>1, <1>4, <1>6, MoveStep, Zenon
<1> QED
  BY <1>5, <1>6, Zenon

\* bwrite by the one who has the buffer locked.
LEMMA BwriteStartStep ==
    ASSUME Ind, NEW p \in Proc, BwriteStart(p)
    PROVE  Ind'
<1>1. pc[p] = "have" /\ pc[p] \in Held /\ committer = p
  BY DEF BwriteStart, Held, Busy
<1>2. holder[buf[p]] = p
  BY <1>1, Zenon DEF Ind, ProcInv, At
<1>3. /\ pc' = [pc EXCEPT ![p] = "write0"]
      /\ UNCHANGED <<blockno, valid, refcnt, data, holder, lru, disk, buf, want, logged, pinned, committer, mem>>
  BY <1>2 DEF BwriteStart, bufVars, logVars
<1> QED
  BY <1>1, <1>3, MoveStep, Zenon

\* The block read is not in the transaction: its buffer would be valid.  So the
\* disk has what was last stored in it.
LEMMA BreadDoneStep ==
    ASSUME Ind, NEW p \in Proc, BreadDone(p)
    PROVE  Ind'
<1>1. PICK k, b : k = buf[p] /\ b = want[p]
  OBVIOUS
<1>2. pc[p] = "read" /\ pc[p] \in Held /\ pc[p] \in Busy
  BY DEF BreadDone, Held, Busy
<1>3. At(p)
  BY Zenon DEF Ind, ProcInv
<1>4. k \in Buf /\ b \in Block /\ blockno[k] = <<b, 0>> /\ holder[k] = p /\ ~valid[k]
  BY <1>1, <1>2, <1>3, Zenon DEF At
<1>5. /\ data \in [Buf -> Data] /\ data' = [data EXCEPT ![k] = disk[<<b, 0>>]]
      /\ valid \in [Buf -> BOOLEAN] /\ valid' = [valid EXCEPT ![k] = TRUE]
      /\ pc' = [pc EXCEPT ![p] = "have"]
      /\ UNCHANGED <<blockno, refcnt, holder, lru, disk, buf, want, logged, pinned, committer, mem>>
  <2>1. blockno \in [Buf -> Pbn \cup {None}] /\ data \in [Buf -> Data] /\ valid \in [Buf -> BOOLEAN]
    BY DEF Ind, TypeOK
  <2> QED
    BY <1>1, <1>4, <2>1, Zenon DEF BreadDone, logVars
<1>6. pc'[p] = "have" /\ pc'[p] \in Held /\ \A q \in Proc \ {p} : pc'[q] = pc[q]
  BY <1>5, Zenon DEF Ind, TypeOK, Held, Busy
<1>7. b \notin logged /\ disk[<<b, 0>>] = mem[b]
  <2>1. \A l \in Buf : Stands(l, b) => l = k
    BY <1>4 DEF Ind, OneBuf, Stands
  <2>2. pinned \subseteq Buf
    BY DEF Ind, TypeOK
  <2>3. b \notin logged
    BY <1>4, <2>1, <2>2 DEF Ind, LogInv
  <2> QED
    BY <1>4, <2>3 DEF Ind, LogInv
<1>8. TypeOK'
  <2>1. disk[<<b, 0>>] \in Data
    BY <1>4, Copies, ZenonT(30) DEF Ind, TypeOK
  <2> QED
    BY <1>5, <2>1, Zenon DEF Ind, TypeOK
<1>9. RefcntExact'
  BY <1>5, RefStill, Zenon
<1>10. At(p)'
  <2>1. valid'[k] = TRUE
    BY <1>4, <1>5, SMTT(30)
  <2> QED
    BY <1>1, <1>2, <1>3, <1>5, <1>6, <2>1, Zenon DEF At, Stands, Busy, Held, Using, Writing
<1>11. ASSUME NEW q \in Proc \ {p} PROVE At(q)'
  <2>1. pc[q] \in Held => buf[q] \in Buf \ {k}
    BY <1>1, <1>2, OneHolder, Zenon DEF Ind, ProcInv, At, Held
  <2>2. pc[q] \in Held => valid'[buf[q]] = valid[buf[q]]
    BY <1>5, <2>1, Zenon
  <2> QED
    BY <1>5, <1>6, <2>2, AtStill, ZenonT(30) DEF Ind, ProcInv
<1>12. \A q \in Proc : pc[q] = "write1" => pc'[q] = pc[q] /\ buf'[q] = buf[q]
  BY <1>2, <1>5, <1>6
<1>13. \A l \in Buf : holder[l] # None => (pc[holder[l]] \in Held => pc'[holder[l]] \in Held)
  BY <1>6, Zenon DEF Ind, TypeOK
<1>14. ASSUME NEW l \in Buf \ {k} PROVE In(l)'
  <2>1. data'[l] = data[l] /\ valid'[l] = valid[l]
    BY <1>5, Zenon
  <2> QED
    BY <1>5, <1>12, <1>13, <2>1, InStill, ZenonT(30) DEF Ind, BufInv
<1>15. In(k)'
  <2>1. data'[k] = mem[b] /\ blockno'[k] = <<b, 0>> /\ mem' = mem
    BY <1>4, <1>5, <1>7, Zenon
  <2>2. holder'[k] # None => buf'[holder'[k]] = k /\ pc'[holder'[k]] \in Held
    BY <1>1, <1>4, <1>5, <1>6, Zenon
  <2>3. \A c \in Block : blockno'[k] \in {<<c, 0>>, <<c, 1>>} => c = b /\ blockno'[k] # <<c, 1>>
    BY <1>4, <2>1, Copies, Zenon
  <2> QED
    BY <2>1, <2>2, <2>3, Zenon DEF In, Stands
<1>16. OneBuf' /\ LruInv'
  BY <1>5, Zenon DEF Ind, OneBuf, LruInv, Stands
<1>17. LogInv'
  <2>1. \A l \in Buf : valid[l] => valid'[l]
    BY <1>5, Zenon
  <2>2. pinned \subseteq Buf
    BY DEF Ind, TypeOK
  <2> QED
    BY <1>5, <2>1, <2>2, Zenon DEF Ind, LogInv, Stands
<1> QED
  BY <1>8, <1>9, <1>10, <1>11, <1>14, <1>15, <1>16, <1>17, Zenon DEF Ind, ProcInv, BufInv

\* What a step of bwrite changes: copies of the committer's block, which is in the
\* transaction, and the number of its buffer.
LEMMA BwriteStep ==
    ASSUME Ind, NEW p \in Proc, NEW n \in {<<want[p], 0>>, <<want[p], 1>>}, NEW l,
           \/ pc[p] = "write0" /\ l = "write1"
           \/ pc[p] = "write1" /\ l = "unpin" /\ n = <<want[p], 0>>,
           blockno' = [blockno EXCEPT ![buf[p]] = n], pc' = [pc EXCEPT ![p] = l],
           disk' = disk \/ \E c \in {0, 1} : disk' = [disk EXCEPT ![<<want[p], c>>] = data[buf[p]]],
           pc[p] = "write0" => disk' = [disk EXCEPT ![<<want[p], 0>>] = data[buf[p]]],
           UNCHANGED <<valid, refcnt, data, holder, lru, buf, want, logged, pinned, committer, mem>>
    PROVE  Ind'
<1>0. PICK k, b : k = buf[p] /\ b = want[p]
  BY Zenon
<1>1. pc[p] \in Held /\ pc[p] \in Busy /\ pc[p] \in Writing /\ Using(p)
  BY Zenon DEF Held, Busy, Writing, Using
<1>2. At(p)
  BY Zenon DEF Ind, ProcInv
<1>3. /\ k \in Buf /\ b \in Block /\ Stands(k, b) /\ holder[k] = p /\ valid[k] /\ committer = p /\ b \in logged
  BY <1>0, <1>1, <1>2, Zenon DEF At
<1>4. data[k] = mem[b] /\ In(k)
  BY <1>3, Zenon DEF Ind, BufInv, In
<1>5. \A q \in Proc \ {p} : pc[q] = "idle" /\ buf[q] = None
  BY <1>3, Alone, Zenon
<1>6. pc'[p] = l /\ l \in {"write1", "unpin"} /\ \A q \in Proc \ {p} : pc'[q] = pc[q]
  BY Zenon DEF Ind, TypeOK
<1>7. disk \in [Pbn -> Data] /\ <<b, 0>> \in Pbn /\ <<b, 1>> \in Pbn /\ data[k] \in Data
  BY <1>3, Copies, Zenon DEF Ind, TypeOK
<1>8. disk' \in [Pbn -> Data] /\ disk'[<<b, 0>>] = mem[b]
  <2>1. disk' \in [Pbn -> Data]
    BY <1>0, <1>7, Zenon
  <2>2. CASE pc[p] = "write0"
    BY <1>0, <1>4, <1>7, <2>2, Zenon
  <2>3. CASE pc[p] = "write1"
    <3>1. disk[<<b, 0>>] = mem[b]
      BY <1>0, <1>2, <2>3, SMTT(30) DEF At
    <3> QED
      BY <1>0, <1>4, <1>7, <3>1, Zenon
  <2> QED
    BY <2>1, <2>2, <2>3, Zenon
<1>9. \A c \in Block \ {b} : disk'[<<c, 0>>] = disk[<<c, 0>>]
  <2>1. \A c \in Block \ {b} : <<c, 0>> \in Pbn /\ <<c, 0>> # <<b, 0>> /\ <<c, 0>> # <<b, 1>>
    BY <1>3, Copies, Zenon
  <2> QED
    BY <1>0, <1>7, <2>1, ZenonT(30)
<1>10. blockno \in [Buf -> Pbn \cup {None}] /\ blockno'[k] = n /\ \A j \in Buf \ {k} : blockno'[j] = blockno[j]
  BY <1>0, <1>3, SMTT(30) DEF Ind, TypeOK
<1>11. \A j \in Buf, c \in Block : Stands(j, c)' <=> Stands(j, c)
  <2>1. \A c \in Block : Stands(k, c)' => c = b
    BY <1>0, <1>3, <1>10, Copies, SMTT(30) DEF Stands
  <2>2. \A c \in Block : Stands(k, c) => c = b
    BY <1>3, OneBlock, Zenon
  <2>3. Stands(k, b)'
    BY <1>0, <1>10, Zenon DEF Stands
  <2>4. \A j \in Buf \ {k}, c \in Block : Stands(j, c)' <=> Stands(j, c)
    BY <1>10, Zenon DEF Stands
  <2> QED
    BY <1>3, <2>1, <2>2, <2>3, <2>4, ZenonT(30)
<1>12. TypeOK'
  <2>1. blockno' \in [Buf -> Pbn \cup {None}]
    <3>1. n \in Pbn
      BY <1>0, <1>7, Zenon
    <3> QED
      BY <1>3, <1>10, <3>1, ZenonT(30)
  <2> QED
    BY <1>6, <1>8, <2>1, SMTT(30) DEF Ind, TypeOK
<1>13. RefcntExact'
  BY RefStill, SMTT(30)
<1>14. At(p)'
  <2>1. pc'[p] # "write1" => blockno'[k] = <<b, 0>>
    BY <1>0, <1>6, <1>10, ZenonT(30)
  <2>2. Stands(k, b)'
    BY <1>0, <1>10 DEF Stands
  <2> QED
    BY <1>0, <1>3, <1>6, <1>8, <2>1, <2>2, ZenonT(30) DEF At, Stands, Busy, Held, Using, Writing
<1>15. ASSUME NEW q \in Proc \ {p} PROVE At(q)'
  BY <1>5, <1>6, AtIdle, ZenonT(30)
<1>16. ASSUME NEW j \in Buf \ {k} PROVE In(j)'
  <2>1. \A c \in Block : blockno[j] # <<c, 1>>
    <3>1. \A q \in Proc : ~(pc[q] = "write1" /\ buf[q] = j)
      BY <1>0, <1>5, Zenon
    <3> QED
      BY <3>1, ZenonT(30) DEF Ind, BufInv, In
  <2>2. holder[j] # None => holder[j] \in Proc \ {p}
    BY <1>0, SMTT(30) DEF Ind, TypeOK, BufInv, In
  <2>3. holder[j] # None => pc'[holder[j]] = pc[holder[j]]
    BY <1>6, <2>2, Zenon
  <2>4. In(j)
    BY Zenon DEF Ind, BufInv
  <2> QED
    BY <1>10, <2>1, <2>3, <2>4, ZenonT(30) DEF In, Stands
<1>17. In(k)'
  <2>1. holder'[k] # None => buf'[holder'[k]] = k /\ pc'[holder'[k]] \in Held
    BY <1>0, <1>3, <1>6, Zenon DEF Held, Busy
  <2>2. \A c \in Block : Stands(k, c)' /\ valid'[k] => data'[k] = mem'[c]
    BY <1>3, <1>4, <1>11, OneBlock, Zenon
  <2>3. \A c \in Block : blockno'[k] = <<c, 1>> => pc'[p] = "write1" /\ buf'[p] = k
    BY <1>0, <1>3, <1>6, <1>10, Copies, SMTT(30)
  <2> QED
    BY <2>1, <2>2, <2>3, ZenonT(30) DEF In
<1>18. OneBuf' /\ LruInv'
  BY <1>11, Zenon DEF Ind, OneBuf, LruInv
<1>19. LogInv'
  <2>1. pinned \subseteq Buf /\ logged \subseteq Block
    BY SMTT(30) DEF Ind, TypeOK
  <2>2. \A c \in Block \ logged : disk'[<<c, 0>>] = mem'[c]
    BY <1>3, <1>9, ZenonT(30) DEF Ind, LogInv
  <2> QED
    BY <1>11, <2>1, <2>2, Zenon DEF Ind, LogInv
<1> QED
  BY <1>12, <1>13, <1>14, <1>15, <1>16, <1>17, <1>18, <1>19, ZenonT(30) DEF Ind, ProcInv, BufInv

\* bwrite writes copy 0.
LEMMA BwriteCopy0Step ==
    ASSUME Ordinary, Ind, NEW p \in Proc, BwriteCopy0(p)
    PROVE  Ind'
<1>1. PICK k, b : k = buf[p] /\ b = want[p]
  BY SMTT(30)
<1>2. pc[p] = "write0" /\ k \in Buf /\ b \in Block /\ blockno[k] = <<b, 0>>
  BY <1>1, Zenon DEF BwriteCopy0, Ind, ProcInv, At, Busy
<1>3. 0 \notin Skipped(b)
  BY <1>2, Copy0
<1>4. disk' = [disk EXCEPT ![<<b, 0>>] = data[k]]
  BY <1>1, <1>2, <1>3, Zenon DEF BwriteCopy0
<1>5. \E n \in {<<b, 0>>, <<b, 1>>} : blockno' = [blockno EXCEPT ![k] = n]
  <2>1. blockno \in [Buf -> Pbn \cup {None}]
    BY DEF Ind, TypeOK
  <2> QED
    BY <1>1, <1>2, <2>1, ZenonT(30) DEF BwriteCopy0
<1>6. /\ pc' = [pc EXCEPT ![p] = "write1"]
      /\ UNCHANGED <<valid, refcnt, data, holder, lru, buf, want, logged, pinned, committer, mem>>
  BY Zenon DEF BwriteCopy0, logVars
<1> QED
  BY <1>1, <1>2, <1>4, <1>5, <1>6, BwriteStep, Zenon

\* bwrite writes copy 1, after which the buffer is the block's again.
LEMMA BwriteCopy1Step ==
    ASSUME Ind, NEW p \in Proc, BwriteCopy1(p)
    PROVE  Ind'
<1>1. PICK k, b : k = buf[p] /\ b = want[p]
  OBVIOUS
<1>2. pc[p] = "write1" /\ k \in Buf /\ b \in Block /\ blockno[k] \in {<<b, 0>>, <<b, 1>>}
  BY <1>1, Zenon DEF BwriteCopy1, Ind, ProcInv, At, Busy, Stands
<1>3. disk' = disk \/ \E c \in {0, 1} : disk' = [disk EXCEPT ![<<b, c>>] = data[k]]
  BY <1>1, <1>2, Zenon DEF BwriteCopy1
<1>4. /\ blockno' = [blockno EXCEPT ![k] = <<b, 0>>] /\ pc' = [pc EXCEPT ![p] = "unpin"]
      /\ UNCHANGED <<valid, refcnt, data, holder, lru, buf, want, logged, pinned, committer, mem>>
  BY <1>1 DEF BwriteCopy1, logVars
<1> QED
  BY <1>1, <1>2, <1>3, <1>4, BwriteStep, Zenon

-----------------------------------------------------------------------------
(* Modifying, unpinning and releasing *)

\* log_write pins the buffer with the first modification of its block.
LEMMA ModifyAndPinStep ==
    ASSUME Ind, NEW p \in Proc, NEW v \in Data, ModifyAndPin(p, v)
    PROVE  Ind'
<1>1. PICK k, b : k = buf[p] /\ b = want[p]
  BY Zenon
<1>2. pc[p] = "have" /\ pc[p] \in Busy /\ pc[p] \in Held /\ Using(p) /\ committer = None
  BY SMTT(30) DEF ModifyAndPin, Busy, Held, Using
<1>3. k \in Buf /\ b \in Block /\ blockno[k] = <<b, 0>> /\ valid[k] /\ Stands(k, b)
  BY <1>1, <1>2, Zenon DEF Ind, ProcInv, At
<1>4. /\ data \in [Buf -> Data] /\ data' = [data EXCEPT ![k] = v]
      /\ mem \in [Block -> Data] /\ mem' = [mem EXCEPT ![b] = v]
      /\ logged \subseteq Block /\ logged' = logged \cup {b}
      /\ UNCHANGED <<blockno, valid, holder, lru, disk, pc, buf, want, committer>>
  BY <1>1, Zenon DEF ModifyAndPin, procVars, Ind, TypeOK
<1>5. /\ refcnt \in [Buf -> Nat] /\ pinned \subseteq Buf
      /\ b \in logged => refcnt' = refcnt /\ pinned' = pinned
      /\ b \notin logged => refcnt' = [refcnt EXCEPT ![k] = refcnt[k] + 1] /\ pinned' = pinned \cup {k}
  BY <1>1 DEF ModifyAndPin, Ind, TypeOK
<1>6. b \notin logged => k \notin pinned
  <2>1. k \in pinned => \E c \in logged : Stands(k, c)
    BY Zenon DEF Ind, LogInv
  <2> QED
    BY <1>3, <1>4, <2>1, OneBlock, Zenon
<1>7. b \in logged => k \in pinned
  <2>1. b \in logged => \E l \in pinned : Stands(l, b)
    BY Zenon DEF Ind, LogInv
  <2> QED
    BY <1>3, <1>5, <2>1, SMTT(30) DEF Ind, OneBuf
<1>8. TypeOK'
  <2>1. refcnt' \in [Buf -> Nat] /\ pinned' \subseteq Buf
    BY <1>3, <1>5
  <2> QED
    BY <1>3, <1>4, <2>1, Zenon DEF Ind, TypeOK
<1>9. RefcntExact'
  <2>1. \A l \in Buf : Users(l)' = Users(l)
    BY <1>4 DEF Users
  <2>2. \A l \in Buf : refcnt[l] = Cardinality(Users(l)) + (IF l \in pinned THEN 1 ELSE 0)
    BY Zenon DEF Ind, RefcntExact
  <2>3. ASSUME NEW l \in Buf PROVE refcnt'[l] = Cardinality(Users(l)) + (IF l \in pinned' THEN 1 ELSE 0)
    <3>1. CASE b \in logged
      BY <1>5, <2>2, <3>1, Zenon
    <3>2. CASE b \notin logged /\ l = k
      BY <1>5, <1>6, <2>2, <3>2, UsersFinite
    <3>3. CASE b \notin logged /\ l # k
      BY <1>5, <2>2, <3>3, Zenon
    <3> QED
      BY <3>1, <3>2, <3>3, Zenon
  <2> QED
    BY <2>1, <2>3, Zenon DEF RefcntExact
<1>10. ASSUME NEW q \in Proc PROVE At(q)'
  <2>1. pc[q] \notin {"write1", "unpin"}
    BY <1>2, Nones, ZenonT(30) DEF Ind, ProcInv, At, Writing
  <2> QED
    BY <1>4, <2>1, AtStill, SMTT(30) DEF Ind, ProcInv
<1>11. ASSUME NEW l \in Buf \ {k} PROVE In(l)'
  <2>1. \A c \in Block : Stands(l, c) => mem'[c] = mem[c]
    BY <1>3, <1>4, Zenon DEF Ind, OneBuf
  <2>2. data'[l] = data[l]
    BY <1>4, SMTT(30)
  <2> QED
    BY <1>4, <2>1, <2>2, InStill, Zenon DEF Ind, BufInv
<1>12. In(k)'
  <2>1. In(k)
    BY <1>3, SMTT(30) DEF Ind, BufInv
  <2>2. \A c \in Block : Stands(k, c)' => c = b
    BY <1>3, <1>4, Copies, ZenonT(30) DEF Stands
  <2>3. data'[k] = mem'[b]
    BY <1>3, <1>4, Zenon
  <2> QED
    BY <1>4, <2>1, <2>2, <2>3, Zenon DEF In
<1>13. OneBuf' /\ LruInv'
  BY <1>4, SMTT(30) DEF Ind, OneBuf, LruInv, Stands
<1>14. LogInv'
  <2>1. k \in pinned' /\ pinned \subseteq pinned' /\ pinned' \subseteq pinned \cup {k}
    BY <1>5, <1>7, Zenon
  <2>2. \A l, c : Stands(l, c)' <=> Stands(l, c)
    BY <1>4, Zenon DEF Stands
  <2>3. \A c \in logged' : \E l \in pinned' : Stands(l, c) /\ valid[l]
    BY <1>3, <1>4, <2>1, Zenon DEF Ind, LogInv
  <2>4. \A l \in pinned' : \E c \in logged' : Stands(l, c)
    BY <1>3, <1>4, <2>1, Zenon DEF Ind, LogInv
  <2>5. \A c \in Block \ logged' : disk'[<<c, 0>>] = mem'[c]
    BY <1>4, Zenon DEF Ind, LogInv
  <2> QED
    BY <1>4, <2>2, <2>3, <2>4, <2>5, Zenon DEF LogInv
<1> QED
  BY <1>8, <1>9, <1>10, <1>11, <1>12, <1>13, <1>14, Zenon DEF Ind, ProcInv, BufInv

\* The committer unpins the buffer that log_write pinned.
LEMMA BunpinStep ==
    ASSUME Ind, NEW p \in Proc, Bunpin(p)
    PROVE  Ind'
<1>1. PICK k, b : k = buf[p] /\ b = want[p]
  OBVIOUS
<1>2. pc[p] = "unpin" /\ pc[p] \in Busy /\ pc[p] \in Held /\ pc[p] \in Writing /\ Using(p)
  BY SMTT(30) DEF Bunpin, Busy, Held, Using, Writing
<1>3. At(p)
  BY DEF Ind, ProcInv
<1>4. /\ k \in Buf /\ b \in Block /\ blockno[k] = <<b, 0>> /\ valid[k] /\ Stands(k, b)
      /\ committer = p /\ b \in logged /\ disk[<<b, 0>>] = mem[b] /\ holder[k] = p
  BY <1>1, <1>2, <1>3, ZenonT(30) DEF At
<1>5. /\ refcnt \in [Buf -> Nat] /\ refcnt' = [refcnt EXCEPT ![k] = refcnt[k] - 1]
      /\ pinned \subseteq Buf /\ pinned' = pinned \ {k}
      /\ logged \subseteq Block /\ logged' = logged \ {b}
      /\ pc' = [pc EXCEPT ![p] = "done"]
      /\ UNCHANGED <<blockno, valid, data, holder, lru, disk, buf, want, committer, mem>>
  BY <1>1, Zenon DEF Bunpin, Ind, TypeOK
<1>6. pc'[p] = "done" /\ \A q \in Proc \ {p} : pc'[q] = pc[q]
  BY <1>5, Zenon DEF Ind, TypeOK
<1>7. k \in pinned
  <2>1. \E l \in pinned : Stands(l, b)
    BY <1>4, Zenon DEF Ind, LogInv
  <2> QED
    BY <1>4, <1>5, <2>1, Zenon DEF Ind, OneBuf
<1>8. \A l \in Buf : refcnt[l] = Cardinality(Users(l)) + (IF l \in pinned THEN 1 ELSE 0)
  BY Zenon DEF Ind, RefcntExact
<1>9. refcnt[k] - 1 = Cardinality(Users(k)) /\ refcnt[k] - 1 \in Nat
  BY <1>4, <1>7, <1>8, UsersFinite, SMTT(30)
<1>10. TypeOK'
  BY <1>4, <1>5, <1>9, Zenon DEF Ind, TypeOK
<1>11. RefcntExact'
  <2>1. \A l \in Buf : Users(l)' = Users(l)
    BY <1>5 DEF Users
  <2>2. ASSUME NEW l \in Buf PROVE refcnt'[l] = Cardinality(Users(l)) + (IF l \in pinned' THEN 1 ELSE 0)
    <3>1. CASE l = k
      BY <1>4, <1>5, <1>9, <3>1, UsersFinite
    <3>2. CASE l # k
      BY <1>5, <1>8, <3>2, Zenon
    <3> QED
      BY <3>1, <3>2, Zenon
  <2> QED
    BY <2>1, <2>2, Zenon DEF RefcntExact
<1>12. At(p)'
  BY <1>1, <1>3, <1>4, <1>5, <1>6, ZenonT(30) DEF At, Stands, Busy, Held, Using, Writing
<1>13. ASSUME NEW q \in Proc \ {p} PROVE At(q)'
  BY <1>4, <1>5, <1>6, Alone, AtIdle, SMTT(30)
<1>14. ASSUME NEW l \in Buf PROVE In(l)'
  <2>1. pc'[p] \in Held
    BY <1>6 DEF Held, Busy
  <2>2. holder[l] # None => (pc[holder[l]] \in Held => pc'[holder[l]] \in Held)
    BY <1>6, <2>1, Zenon DEF Ind, TypeOK
  <2>3. \A q \in Proc : pc[q] = "write1" => pc'[q] = pc[q]
    BY <1>2, <1>6, Zenon
  <2> QED
    BY <1>5, <2>2, <2>3, InStill, Zenon DEF Ind, BufInv
<1>15. OneBuf' /\ LruInv'
  BY <1>5, Zenon DEF Ind, OneBuf, LruInv, Stands
<1>16. LogInv'
  <2>1. \A l, c : Stands(l, c)' <=> Stands(l, c)
    BY <1>5, Zenon DEF Stands
  <2>2. ASSUME NEW c \in logged' PROVE \E l \in pinned' : Stands(l, c) /\ valid[l]
    <3>1. PICK l \in pinned : Stands(l, c) /\ valid[l]
      BY <1>5, Zenon DEF Ind, LogInv
    <3>2. l # k
      BY <1>4, <1>5, <3>1, OneBlock, Zenon
    <3> QED
      BY <1>5, <3>1, <3>2, Zenon
  <2>3. ASSUME NEW l \in pinned' PROVE \E c \in logged' : Stands(l, c)
    <3>1. PICK c \in logged : Stands(l, c)
      BY <1>5, Zenon DEF Ind, LogInv
    <3>2. c # b
      BY <1>4, <1>5, <3>1, Zenon DEF Ind, OneBuf
    <3> QED
      BY <1>5, <3>1, <3>2, Zenon
  <2>4. \A c \in Block \ logged' : disk'[<<c, 0>>] = mem'[c]
    BY <1>4, <1>5, Zenon DEF Ind, LogInv
  <2> QED
    BY <1>5, <2>1, <2>2, <2>3, <2>4, Zenon DEF LogInv
<1> QED
  BY <1>10, <1>11, <1>12, <1>13, <1>14, <1>15, <1>16, Zenon DEF Ind, ProcInv, BufInv

\* brelse gives up the sleep lock: nobody is past acquiresleep with the buffer then.
LEMMA BrelseUnlockStep ==
    ASSUME Ind, NEW p \in Proc, BrelseUnlock(p)
    PROVE  Ind'
<1>1. PICK k : k = buf[p]
  OBVIOUS
<1>2. /\ pc[p] \in {"have", "done"} /\ pc[p] \in Busy /\ pc[p] \in Held
      /\ pc[p] = "have" => committer # p
  BY Zenon DEF BrelseUnlock, Busy, Held
<1>3. At(p)
  BY DEF Ind, ProcInv
<1>4. k \in Buf /\ holder[k] = p
  BY <1>1, <1>2, <1>3, Zenon DEF At
<1>5. /\ holder \in [Buf -> Proc \cup {None}] /\ holder' = [holder EXCEPT ![k] = None]
      /\ pc' = [pc EXCEPT ![p] = "release"]
      /\ UNCHANGED <<blockno, valid, refcnt, data, lru, disk, buf, want, logged, pinned, committer, mem>>
  BY <1>1, <1>4, Zenon DEF BrelseUnlock, logVars, Ind, TypeOK
<1>6. pc'[p] = "release" /\ \A q \in Proc \ {p} : pc'[q] = pc[q]
  BY <1>5, SMTT(30) DEF Ind, TypeOK
<1>7. TypeOK' /\ RefcntExact'
  BY <1>5, RefStill, ZenonT(30) DEF Ind, TypeOK
<1>8. At(p)'
  BY <1>2, <1>3, <1>5, <1>6, Zenon DEF At, Stands, Busy, Held, Using, Writing
<1>9. ASSUME NEW q \in Proc \ {p} PROVE At(q)'
  <2>1. pc[q] \in Held => buf[q] \in Buf \ {k}
    BY <1>1, <1>2, OneHolder, Zenon DEF Ind, ProcInv, At, Held
  <2>2. pc[q] \in Held => holder'[buf[q]] = holder[buf[q]]
    BY <1>5, <2>1, Zenon
  <2> QED
    BY <1>5, <1>6, <2>2, AtStill, ZenonT(30) DEF Ind, ProcInv
<1>10. \A q \in Proc : pc[q] = "write1" => pc'[q] = pc[q]
  BY <1>2, <1>6, SMTT(30)
<1>11. ASSUME NEW l \in Buf \ {k} PROVE In(l)'
  <2>1. holder[l] # None => holder[l] \in Proc /\ buf[holder[l]] = l
    BY SMTT(30) DEF Ind, BufInv, In, TypeOK
  <2>2. holder[l] # None => pc'[holder[l]] = pc[holder[l]]
    BY <1>1, <1>6, <2>1, Zenon
  <2>3. holder'[l] = holder[l]
    BY <1>5, Zenon
  <2> QED
    BY <1>5, <1>10, <2>2, <2>3, InStill, ZenonT(30) DEF Ind, BufInv
<1>12. In(k)'
  <2>1. In(k) /\ holder'[k] = None
    BY <1>4, <1>5, Zenon DEF Ind, BufInv
  <2> QED
    BY <1>5, <1>10, <2>1, Zenon DEF In, Stands
<1>13. OneBuf' /\ LogInv' /\ LruInv'
  BY <1>5 DEF Ind, OneBuf, LogInv, LruInv, Stands
<1> QED
  BY <1>7, <1>8, <1>9, <1>11, <1>12, <1>13, Zenon DEF Ind, ProcInv, BufInv

\* Moving a buffer to the front of the list loses none.
LEMMA MoveToFront ==
    ASSUME NEW s \in Seq(Buf), NEW i \in 1..Len(s)
    PROVE  \E t \in Seq(Buf) : /\ t = <<s[i]>> \o Unlinked(s, i)
                               /\ \A j \in 1..Len(s) : \E m \in 1..Len(t) : t[m] = s[j]
<1>0. PICK k, t : k = s[i] /\ t = <<k>> \o Unlinked(s, i)
  BY Zenon
<1>1. PICK u, w : u = SubSeq(s, 1, i - 1) /\ w = SubSeq(s, i + 1, Len(s))
  BY Zenon
<1>2. u \in Seq(Buf) /\ Len(u) = i - 1 /\ \A j \in 1..(i - 1) : u[j] = s[j]
  BY <1>1
<1>3. w \in Seq(Buf) /\ Len(w) = Len(s) - i /\ \A j \in 1..(Len(s) - i) : w[j] = s[j + i]
  BY <1>1
<1>4. t = <<k>> \o (u \o w) /\ k \in Buf
  BY <1>0, <1>1 DEF Unlinked
<1>5. PICK x : x = u \o w
  BY Zenon
<1>6. /\ x \in Seq(Buf) /\ Len(x) = Len(s) - 1
      /\ \A j \in 1..(i - 1) : x[j] = s[j]
      /\ \A j \in i..(Len(s) - 1) : x[j] = s[j + 1]
  <2>1. x \in Seq(Buf) /\ Len(x) = Len(u) + Len(w)
    <3>1. u \in Seq(Buf) /\ w \in Seq(Buf)
      BY <1>2, <1>3, Zenon
    <3> QED
      BY <1>5, <3>1
  <2>2. ASSUME NEW j \in 1..(i - 1) PROVE x[j] = s[j]
    <3>1. j \in 1..Len(u)
      BY <1>2, Zenon
    <3>2. x[j] = u[j]
      BY <1>2, <1>3, <1>5, <3>1
    <3> QED
      BY <1>2, <3>2, Zenon
  <2>3. ASSUME NEW j \in i..(Len(s) - 1) PROVE x[j] = s[j + 1]
    <3>1. x[j] = w[j - (i - 1)]
      BY <1>2, <1>3, <1>5
    <3>2. j - (i - 1) \in 1..(Len(s) - i) /\ (j - (i - 1)) + i = j + 1
      OBVIOUS
    <3> QED
      BY <1>3, <3>1, <3>2, Zenon
  <2> QED
    BY <1>2, <1>3, <2>1, <2>2, <2>3
<1>7. t \in Seq(Buf) /\ Len(t) = Len(s) /\ t[1] = k /\ \A j \in 1..(Len(s) - 1) : t[j + 1] = x[j]
  <2>1. t = <<k>> \o x /\ <<k>> \in Seq(Buf) /\ Len(<<k>>) = 1
    BY <1>4, <1>5
  <2>2. t \in Seq(Buf) /\ Len(t) = 1 + Len(x)
    BY <1>6, <2>1
  <2>3. t[1] = k
    BY <1>6, <2>1
  <2>4. ASSUME NEW j \in 1..(Len(s) - 1) PROVE t[j + 1] = x[j]
    <3>1. j \in 1..Len(x)
      BY <1>6, Zenon
    <3> QED
      BY <1>6, <2>1, <3>1
  <2> QED
    BY <1>6, <2>2, <2>3, <2>4
<1>8. ASSUME NEW j \in 1..Len(s) PROVE \E m \in 1..Len(t) : t[m] = s[j]
  <2>1. CASE j < i
    <3>1. j + 1 \in 1..Len(t) /\ t[j + 1] = s[j]
      BY <1>6, <1>7, <2>1
    <3> QED
      BY <3>1, Zenon
  <2>2. CASE j = i
    <3>1. 1 \in 1..Len(t)
      BY <1>7
    <3> QED
      BY <1>0, <1>7, <2>2, <3>1, Zenon
  <2>3. CASE j > i
    <3>1. PICK m \in i..(Len(s) - 1) : j = m + 1
      <4>1. j - 1 \in i..(Len(s) - 1) /\ j = (j - 1) + 1
        BY <2>3
      <4> QED
        BY <4>1
    <3>2. t[m + 1] = x[m] /\ x[m] = s[m + 1]
      BY <1>6, <1>7, <3>1
    <3> QED
      BY <1>7, <3>1, <3>2
  <2> QED
    BY <2>1, <2>2, <2>3
<1> QED
  BY <1>0, <1>7, <1>8, Zenon

\* brelse drops the reference, and puts a buffer nobody uses to the front.
LEMMA BrelseDropStep ==
    ASSUME Ind, NEW p \in Proc, BrelseDrop(p)
    PROVE  Ind'
<1>1. PICK k : k = buf[p]
  OBVIOUS
<1>2. pc[p] = "release" /\ pc[p] \in Busy
  BY SMTT(30) DEF BrelseDrop, Busy
<1>3. k \in Buf
  BY <1>1, <1>2, ZenonT(30) DEF Ind, ProcInv, At
<1>4. /\ refcnt \in [Buf -> Nat] /\ refcnt' = [refcnt EXCEPT ![k] = refcnt[k] - 1]
      /\ buf \in [Proc -> Buf \cup {None}] /\ buf' = [buf EXCEPT ![p] = None]
      /\ want \in [Proc -> Block \cup {None}] /\ want' = [want EXCEPT ![p] = None]
      /\ pc' = [pc EXCEPT ![p] = "idle"]
      /\ lru \in Seq(Buf) /\ (lru' = lru \/ lru' = <<k>> \o Unlinked(lru, Place(k)))
      /\ UNCHANGED <<blockno, valid, data, holder, disk, logged, pinned, committer, mem>>
  BY <1>1, Zenon DEF BrelseDrop, logVars, Ind, TypeOK
<1>5. pc'[p] = "idle" /\ \A q \in Proc \ {p} : pc'[q] = pc[q]
  BY <1>4, Zenon DEF Ind, TypeOK
<1>6. \A l \in Buf : refcnt[l] = Cardinality(Users(l)) + (IF l \in pinned THEN 1 ELSE 0)
  BY DEF Ind, RefcntExact
<1>7. /\ Users(k)' = Users(k) \ {p} /\ p \in Users(k)
      /\ \A l \in Buf \ {k} : Users(l)' = Users(l)
  <2>1. buf[p] = k /\ buf'[p] = None /\ \A q \in Proc \ {p} : buf'[q] = buf[q]
    BY <1>1, <1>4
  <2> QED
    BY <1>3, <2>1, Nones, Zenon DEF Users
<1>8. Cardinality(Users(k) \ {p}) = Cardinality(Users(k)) - 1
  BY <1>7, UsersFinite, FS_RemoveElement, Zenon
<1>9. Cardinality(Users(k)') = Cardinality(Users(k)) - 1
  BY <1>7, <1>8, Zenon
<1>10. refcnt[k] - 1 = Cardinality(Users(k)') + (IF k \in pinned THEN 1 ELSE 0) /\ refcnt[k] - 1 \in Nat
  BY <1>3, <1>6, <1>9, UsersFinite
<1>11. lru' \in Seq(Buf) /\ LruInv'
  <2>1. CASE lru' = lru
    BY <1>4, <2>1 DEF Ind, LruInv
  <2>2. CASE lru' = <<k>> \o Unlinked(lru, Place(k))
    <3>1. Place(k) \in 1..Len(lru) /\ lru[Place(k)] = k
      <4>1. \E i \in 1..Len(lru) : lru[i] = k
        BY <1>3 DEF Ind, LruInv
      <4> QED
        BY <4>1 DEF Place
    <3>2. PICK i \in 1..Len(lru) : i = Place(k) /\ lru[i] = k
      BY <3>1
    <3>3. PICK t \in Seq(Buf) : /\ t = <<lru[i]>> \o Unlinked(lru, i)
                                /\ \A j \in 1..Len(lru) : \E m \in 1..Len(t) : t[m] = lru[j]
      BY <1>4, MoveToFront, Zenon
    <3>4. lru' = t
      BY <2>2, <3>2, <3>3
    <3>5. \A l \in Buf : \E j \in 1..Len(lru) : lru[j] = l
      BY DEF Ind, LruInv
    <3> QED
      BY <3>3, <3>4, <3>5, ZenonT(30) DEF LruInv
  <2> QED
    BY <1>4, <2>1, <2>2, Zenon
<1>12. TypeOK'
  BY <1>3, <1>4, <1>10, <1>11, Zenon DEF Ind, TypeOK
<1>13. RefcntExact'
  <2>1. refcnt'[k] = Cardinality(Users(k)') + (IF k \in pinned THEN 1 ELSE 0)
    BY <1>3, <1>4, <1>10, Zenon
  <2>2. ASSUME NEW l \in Buf \ {k} PROVE refcnt'[l] = Cardinality(Users(l)') + (IF l \in pinned THEN 1 ELSE 0)
    <3>1. refcnt'[l] = refcnt[l] /\ Users(l)' = Users(l)
      BY <1>4, <1>7, Zenon
    <3> QED
      BY <1>6, <3>1, Zenon
  <2> QED
    BY <1>4, <2>1, <2>2, Zenon DEF RefcntExact
<1>14. At(p)'
  <2>1. buf'[p] = None
    BY <1>4, Zenon
  <2> QED
    BY <1>5, <2>1, AtIdle, Zenon
<1>15. ASSUME NEW q \in Proc \ {p} PROVE At(q)'
  <2>1. buf'[q] = buf[q] /\ want'[q] = want[q]
    BY <1>4, SMTT(30)
  <2> QED
    BY <1>4, <1>5, <2>1, AtStill, Zenon DEF Ind, ProcInv
<1>16. ASSUME NEW l \in Buf PROVE In(l)'
  <2>1. holder[l] # None => holder[l] \in Proc /\ pc[holder[l]] \in Held
    BY SMTT(30) DEF Ind, BufInv, In, TypeOK
  <2>2. holder[l] # None => holder[l] # p
    BY <1>2, <2>1, ZenonT(30) DEF Held
  <2>3. holder[l] # None => pc'[holder[l]] = pc[holder[l]] /\ buf'[holder[l]] = buf[holder[l]]
    BY <1>4, <1>5, <2>1, <2>2, Zenon
  <2>4. \A q \in Proc : pc[q] = "write1" => pc'[q] = pc[q] /\ buf'[q] = buf[q]
    BY <1>2, <1>4, <1>5, Zenon
  <2> QED
    BY <1>4, <2>3, <2>4, InStill, Zenon DEF Ind, BufInv
<1>17. OneBuf' /\ LogInv'
  BY <1>4, Zenon DEF Ind, OneBuf, LogInv, Stands
<1> QED
  BY <1>11, <1>12, <1>13, <1>14, <1>15, <1>16, <1>17, Zenon DEF Ind, ProcInv, BufInv

\* A commit begins when everybody is outside the cache, and so does it end.
LEMMA CommitStep ==
    ASSUME Ordinary, Ind, NEW p \in Proc, StartCommit(p) \/ EndCommit(p)
    PROVE  Ind'
<1>1. /\ committer' \in Proc \cup {None}
      /\ UNCHANGED <<blockno, valid, refcnt, data, holder, lru, disk, pc, buf, want, logged, pinned, mem>>
  BY SMTT(30) DEF StartCommit, EndCommit, bufVars, procVars
<1>2. \A q \in Proc : pc[q] = "idle" /\ buf[q] = None
  <2>1. \A q \in Proc : pc[q] = "idle"
    <3>1. CASE StartCommit(p)
      BY <3>1, Zenon DEF StartCommit, Ordinary
    <3>2. CASE EndCommit(p)
      BY <3>2, Alone, Zenon DEF EndCommit
    <3> QED
      BY <3>1, <3>2, Zenon
  <2> QED
    BY <2>1, Zenon DEF Ind, ProcInv, At
<1>3. TypeOK' /\ RefcntExact'
  BY <1>1, RefStill, SMTT(30) DEF Ind, TypeOK
<1>4. ProcInv'
  BY <1>1, <1>2, AtIdle, ZenonT(30) DEF ProcInv
<1>5. BufInv'
  BY <1>1, ZenonT(30) DEF Ind, BufInv, In, Stands
<1>6. OneBuf' /\ LogInv' /\ LruInv'
  BY <1>1, Zenon DEF Ind, OneBuf, LogInv, LruInv, Stands
<1> QED
  BY <1>3, <1>4, <1>5, <1>6, Zenon DEF Ind

-----------------------------------------------------------------------------
(* The invariant and the theorems *)

\* binit: every buffer is on the list, unused.
LEMMA InitInd == Init => Ind
<1> SUFFICES ASSUME Init PROVE Ind
  BY Zenon
<1> USE DEF Init
<1>1. NBUF \in Nat
  BY ConstantsAssumption, Zenon
<1>2. lru \in Seq(Buf) /\ Len(lru) = NBUF /\ \A i \in 1..NBUF : lru[i] = NBUF + 1 - i
  <2>1. lru \in [1..NBUF -> Buf]
    BY <1>1 DEF Buf
  <2> QED
    BY <1>1, <2>1 DEF Buf
<1>3. LruInv
  <2>1. ASSUME NEW k \in Buf PROVE \E i \in 1..Len(lru) : lru[i] = k
    <3>1. NBUF + 1 - k \in 1..NBUF /\ NBUF + 1 - (NBUF + 1 - k) = k
      BY <1>1, SMTT(30) DEF Buf
    <3> QED
      BY <1>2, <3>1, Zenon
  <2> QED
    BY <2>1, Zenon DEF LruInv
<1>4. TypeOK
  <2>1. disk \in [Pbn -> Data]
    BY Zenon DEF Pbn
  <2> QED
    BY <1>2, <2>1, Zenon DEF TypeOK
<1>5. RefcntExact
  <2>1. ASSUME NEW k \in Buf PROVE Cardinality(Users(k)) = 0 /\ refcnt[k] = 0 /\ k \notin pinned
    <3>1. Users(k) = {}
      BY Nones, Zenon DEF Users
    <3> QED
      BY <3>1, UsersFinite, FS_CardinalityType, FS_EmptySet, SMTT(30)
  <2> QED
    BY <2>1 DEF RefcntExact
<1>6. ProcInv
  BY SMTT(30) DEF ProcInv, At, Busy, Held, Using, Writing
<1>7. BufInv /\ OneBuf
  <2>1. \A k \in Buf, b \in Block : ~Stands(k, b) /\ blockno[k] # <<b, 1>>
    BY Nones, Copies, Zenon DEF Stands
  <2> QED
    BY <2>1, Zenon DEF BufInv, In, OneBuf
<1>8. LogInv
  <2>1. \A b \in Block : disk[<<b, 0>>] = mem[b]
    BY Copies, Zenon
  <2> QED
    BY <2>1 DEF LogInv
<1> QED
  BY <1>3, <1>4, <1>5, <1>6, <1>7, <1>8, Zenon DEF Ind

\* One lemma for each action.
LEMMA NextInd == Ordinary /\ Ind /\ [Next]_vars => Ind'
<1> SUFFICES ASSUME Ordinary, Ind, [Next]_vars PROVE Ind'
  BY Zenon
<1>1. CASE UNCHANGED vars
  <2>1. UNCHANGED <<blockno, valid, refcnt, data, holder, lru, disk, pc, buf, want, logged, pinned, committer, mem>>
    BY <1>1, Zenon DEF vars, bufVars, procVars, logVars
  <2>2. TypeOK' /\ RefcntExact'
    BY <2>1, RefStill, SMTT(30) DEF Ind, TypeOK
  <2>3. ProcInv'
    BY <2>1, AtStill, ZenonT(30) DEF Ind, ProcInv
  <2>4. BufInv'
    BY <2>1, ZenonT(30) DEF Ind, BufInv, In, Stands
  <2>5. OneBuf' /\ LogInv' /\ LruInv'
    BY <2>1, Zenon DEF Ind, OneBuf, LogInv, LruInv, Stands
  <2> QED
    BY <2>2, <2>3, <2>4, <2>5, Zenon DEF Ind
<1>2. CASE Next
  BY <1>2, BgetStep, AcquiresleepStep, BreadTestStep, BreadDoneStep, BwriteStartStep, BwriteCopy0Step, BwriteCopy1Step,
     ModifyAndPinStep, BunpinStep, BrelseUnlockStep, BrelseDropStep, CommitStep, ZenonT(30) DEF Next, ProcStep
<1> QED
  BY <1>1, <1>2

\* The invariant holds in every reachable state.
THEOREM CacheInvariance ==
    ASSUME Ordinary
    PROVE  Spec => []Ind
<1>1. Ind /\ [Next]_vars => Ind'
  BY NextInd
<1> QED
  BY <1>1, InitInd, PTL DEF Spec

\* bget's hits and recycling, bpin, bunpin and brelse keep every reference count
\* equal to the users of the buffer and its pin: no buffer in use is recycled.
THEOREM RefcntsExact ==
    ASSUME Ordinary
    PROVE  Spec => []RefcntExact
<1>1. Ind => RefcntExact
  BY Zenon DEF Ind
<1> QED
  BY <1>1, CacheInvariance, PTL

\* The list lock of bget and the sleep lock give a block to one process at a time,
\* although bwrite changes the block number of a buffer without the list lock: no
\* operation runs during a commit.
THEOREM BlockExclusive ==
    ASSUME Ordinary
    PROVE  Spec => []OneUserPerBlock
<1>1. Ind => OneUserPerBlock
  <2> SUFFICES ASSUME Ind, NEW p \in Proc, NEW q \in Proc, Using(p), Using(q), want[p] = want[q]
               PROVE  p = q
    BY Zenon DEF OneUserPerBlock
  <2>1. pc[p] \in Held /\ pc[q] \in Held /\ pc[p] \in Busy /\ pc[q] \in Busy
    BY SMTT(30) DEF Using, Held, Busy
  <2>2. /\ buf[p] \in Buf /\ buf[q] \in Buf /\ want[p] \in Block
        /\ Stands(buf[p], want[p]) /\ Stands(buf[q], want[p])
    BY <2>1, ZenonT(30) DEF Ind, ProcInv, At
  <2>3. buf[p] = buf[q]
    BY <2>2, Zenon DEF Ind, OneBuf
  <2> QED
    BY <2>1, <2>3, OneHolder, Zenon
<1> QED
  BY <1>1, CacheInvariance, PTL

\* bread returns the locked buffer of the block with what was last stored in it,
\* through hits, recycling, pins and the transfers of a commit.
THEOREM BreadCorrect ==
    ASSUME Ordinary
    PROVE  Spec => []BreadReturnsBlock
<1>1. Ind => BreadReturnsBlock
  <2> SUFFICES ASSUME Ind, NEW p \in Proc, Using(p)
               PROVE  /\ holder[buf[p]] = p
                      /\ pc[p] # "write1" => blockno[buf[p]] = <<want[p], 0>>
                      /\ data[buf[p]] = mem[want[p]]
    BY DEF BreadReturnsBlock
  <2>1. pc[p] \in Held /\ pc[p] \in Busy
    BY DEF Using, Held, Busy
  <2>2. At(p)
    BY Zenon DEF Ind, ProcInv
  <2>3. /\ buf[p] \in Buf /\ want[p] \in Block /\ Stands(buf[p], want[p]) /\ valid[buf[p]]
        /\ holder[buf[p]] = p
        /\ pc[p] # "write1" => blockno[buf[p]] = <<want[p], 0>>
    BY <2>1, <2>2, SMTT(30) DEF At
  <2>4. data[buf[p]] = mem[want[p]]
    BY <2>3, ZenonT(30) DEF Ind, BufInv, In
  <2> QED
    BY <2>3, <2>4, Zenon
<1> QED
  BY <1>1, CacheInvariance, PTL

\* The pin of log_write keeps a modified block in the cache until install_trans
\* has written it.
THEOREM DirtyStaysCached ==
    ASSUME Ordinary
    PROVE  Spec => []DirtyBlockCached
<1>1. Ind => DirtyBlockCached
  <2> SUFFICES ASSUME Ind, NEW b \in logged
               PROVE  \E k \in pinned : blockno[k] \in {b} \X {0, 1} /\ data[k] = mem[b]
    BY DEF DirtyBlockCached
  <2>1. PICK k \in pinned : Stands(k, b) /\ valid[k]
    BY DEF Ind, LogInv
  <2>2. b \in Block /\ k \in Buf
    BY Zenon DEF Ind, TypeOK
  <2>3. data[k] = mem[b]
    BY <2>1, <2>2 DEF Ind, BufInv, In
  <2> QED
    BY <2>1, <2>3, SMTT(30) DEF Stands
<1> QED
  BY <1>1, CacheInvariance, PTL
=============================================================================
