----------------------------- MODULE LogProofs ------------------------------
(***************************************************************************)
(* Proofs about the log, for any number of processes, blocks and log       *)
(* slots: type correctness, exclusion of operations and commits, and that  *)
(* begin_op's reservation keeps log_write from panicking.                  *)
(***************************************************************************)
EXTENDS FiniteSetTheorems, TLAPS, Log

USE ConstantsAssumption

\* The invariant that is inductive: types, exclusion, the log's shape and its
\* reservations.
Ind == TypeOK /\ RunInv /\ CommitExclusive /\ LogInv /\ ReserveInv /\ NoPanic

-----------------------------------------------------------------------------
(* The block layer. *)

\* bread leaves the buffer of its address filled, and every other one alone.
LEMMA BreadFills ==
    ASSUME TypeOK, NEW c \in [Addr -> {None} \cup Block], NEW a \in Addr
    PROVE  /\ Bread(c, a) \in [Addr -> {None} \cup Block]
           /\ Bread(c, a)[a] \in Block
           /\ \A x \in Addr \ {a} : Bread(c, a)[x] = c[x]
           /\ Bread(c, a)[a] \in {c[a], disk[0][a], disk[1][a]}
<1>1. disk[0][a] \in Block /\ disk[1][a] \in Block
  BY DEF TypeOK
<1>2. c[a] \in {None} \cup Block
  OBVIOUS
<1> QED
  BY <1>1, <1>2 DEF Bread

\* bread of the header yields a header that fits the log.
LEMMA BreadHeader ==
    ASSUME TypeOK, LogInv
    PROVE  /\ Bread(cache, 0) \in [Addr -> {None} \cup Block]
           /\ Bread(cache, 0)[0] \in Seq(Home)
           /\ Len(Bread(cache, 0)[0]) <= NLOG - 1
<1>1. 0 \in Addr /\ cache \in [Addr -> {None} \cup Block]
  BY DEF Addr, TypeOK
<1>2. cache[0] # None => cache[0] \in Seq(Home) /\ Len(cache[0]) <= NLOG - 1
  BY DEF TypeOK, LogInv
<1>3. \A c \in 0..1 : disk[c][0] \in Seq(Home) /\ Len(disk[c][0]) <= NLOG - 1
  BY DEF TypeOK, LogInv
<1> QED
  BY <1>1, <1>2, <1>3, BreadFills DEF Bread

\* An entry of the header below its length is a home block.
LEMMA Entry ==
    ASSUME TypeOK, tail < Len(lh)
    PROVE  lh[tail + 1] \in Home /\ lh[tail + 1] \in Addr /\ lh[tail + 1] # 0
<1>1. lh \in Seq(Home) /\ tail \in Nat
  BY DEF TypeOK
<1>2. lh[tail + 1] \in Home
  BY <1>1
<1>3. 0 \notin Home
  OBVIOUS
<1> QED
  BY <1>2, <1>3 DEF Addr

\* Inside a loop the log slot of the current index exists.
LEMMA SlotOfTail ==
    ASSUME TypeOK, LogInv, tail < Len(lh)
    PROVE  tail + 1 \in Slot /\ tail + 1 \in Addr /\ tail + 1 # 0
  BY DEF TypeOK, LogInv, Slot, Addr

\* The block being written while a bwrite is in progress is cached and has the
\* type of its address.
LEMMA TargetType ==
    ASSUME TypeOK, LogInv, io # "read"
    PROVE  /\ Target \in Addr
           /\ cache[Target] \in Block
           /\ Target = 0 => cache[0] \in Seq(Home) /\ Len(cache[0]) <= NLOG - 1
           /\ step \in {"log", "install"} => Target # 0
<1>1. step \in {"log", "install"} => tail < Len(lh)
  BY DEF LogInv
<1>2. step \in {"log", "head", "install", "clear"} /\ cache[Target] # None
  BY DEF LogInv
<1>3. Target \in Addr /\ (step \in {"log", "install"} => Target # 0)
  BY <1>1, <1>2, Entry, SlotOfTail DEF Target, Addr
<1>4. cache[Target] \in Block
  BY <1>2, <1>3 DEF TypeOK
<1>5. cache[0] # None => cache[0] \in Seq(Home) /\ Len(cache[0]) <= NLOG - 1
  BY DEF TypeOK, LogInv
<1> QED
  BY <1>2, <1>3, <1>4, <1>5

\* One transfer of a copy keeps the disk well-formed.
LEMMA WriteCopyType ==
    ASSUME TypeOK, LogInv, io # "read", NEW c \in 0..1, WriteCopy(c)
    PROVE  /\ disk' \in [0..1 -> [Addr -> Block]]
           /\ \A d \in 0..1 : disk'[d][0] \in Seq(Home) /\ Len(disk'[d][0]) <= NLOG - 1
<1>1. disk \in [0..1 -> [Addr -> Block]] /\ 0 \in Addr
  BY DEF TypeOK, Addr
<1>2. \A d \in 0..1 : disk[d][0] \in Seq(Home) /\ Len(disk[d][0]) <= NLOG - 1
  BY DEF TypeOK, LogInv
<1>3. Target \in Addr /\ cache[Target] \in Block
  BY TargetType
<1>4. Target = 0 => cache[0] \in Seq(Home) /\ Len(cache[0]) <= NLOG - 1
  BY TargetType
<1>5. CASE c \in skip
  BY <1>1, <1>2, <1>5 DEF WriteCopy
<1>6. CASE c \notin skip
  <2>1. disk' = [disk EXCEPT ![c] = [disk[c] EXCEPT ![Target] = cache[Target]]]
    BY <1>6 DEF WriteCopy
  <2>2. [disk[c] EXCEPT ![Target] = cache[Target]] \in [Addr -> Block]
    BY <1>1, <1>3
  <2>3. disk' \in [0..1 -> [Addr -> Block]]
    BY <1>1, <2>1, <2>2
  <2>4. disk'[c][0] = IF Target = 0 THEN cache[0] ELSE disk[c][0]
    BY <1>1, <1>3, <2>1
  <2>5. \A d \in 0..1 : d # c => disk'[d] = disk[d]
    BY <1>1, <2>1
  <2> QED
    BY <1>2, <1>4, <2>3, <2>4, <2>5
<1> QED
  BY <1>5, <1>6

\* A bwrite that starts leaves a cache of the right type.
LEMMA StartBwriteType ==
    ASSUME Ind, NEW c \in [Addr -> {None} \cup Block], NEW a,
           c[0] \in {None} \cup Seq(Home), StartBwrite(c, a)
    PROVE  TypeOK'
  BY DEF Ind, TypeOK, StartBwrite, Skipped, logVars, procVars, failVars, histVars

\* What write_log, write_head and install_trans put into the cache.
LEMMA BwriteCaches ==
    ASSUME TypeOK, LogInv, NEW b \in Addr \ {0}, NEW a \in Addr \ {0},
           NEW c, c = Bread(Bread(cache, a), b)
    PROVE  /\ c \in [Addr -> {None} \cup Block]
           /\ c[0] = cache[0]
           /\ c[b] \in Block
           /\ c[a] \in Block
<1>1. /\ Bread(cache, a) \in [Addr -> {None} \cup Block]
      /\ Bread(cache, a)[a] \in Block
      /\ Bread(cache, a)[0] = cache[0]
  <2>1. cache \in [Addr -> {None} \cup Block] /\ 0 \in Addr
    BY DEF TypeOK, Addr
  <2> QED
    BY <2>1, BreadFills
<1>2. 0 \in Addr
  BY DEF Addr
<1> QED
  BY <1>1, <1>2, BreadFills

\* bpin and bunpin keep refcnt in its unsigned range.
LEMMA RefcntWraps ==
    \A n \in 0..(RefMod - 1) : /\ Bpin(n) \in 0..(RefMod - 1)
                               /\ Bunpin(n) \in 0..(RefMod - 1)
  BY DEF Bpin, Bunpin

\* Every step keeps the types.
LEMMA TypeStep == Ind /\ [Next]_vars => TypeOK'
<1> SUFFICES ASSUME Ind, [Next]_vars
             PROVE  TypeOK'
  OBVIOUS
<1> USE DEF logVars, procVars, ioVars, failVars, histVars
<1>0. TypeOK /\ LogInv /\ RunInv
  BY DEF Ind
<1>1. ASSUME NEW p \in Proc, BeginOpSleep(p) PROVE TypeOK'
  BY <1>0, <1>1 DEF TypeOK, BeginOpSleep
<1>2. ASSUME NEW p \in Proc, BeginOp(p) PROVE TypeOK'
  BY <1>0, <1>2 DEF TypeOK, BeginOp
<1>3. ASSUME NEW p \in Proc, NEW b \in Home, NEW v \in Data, LogWrite(p, b, v)
      PROVE  TypeOK'
  <2>1. b \in Addr /\ b # 0 /\ v \in Block /\ 0 \in Addr
    BY DEF Addr, Block
  <2>0. cache \in [Addr -> {None} \cup Block]
    BY <1>0 DEF TypeOK
  <2>2. /\ Bread(cache, b) \in [Addr -> {None} \cup Block]
        /\ Bread(cache, b)[0] = cache[0]
    BY <1>0, <2>0, <2>1, BreadFills
  <2>3. /\ cache' = [Bread(cache, b) EXCEPT ![b] = v]
        /\ lh' = lh \/ lh' = Append(lh, b)
        /\ refcnt' = refcnt \/ refcnt' = [refcnt EXCEPT ![b] = Bpin(@)]
        /\ wrote' = [wrote EXCEPT ![p] = @ \cup {b}]
        /\ mem' = [mem EXCEPT ![b] = v]
    BY <1>3 DEF LogWrite
  <2>4. cache' \in [Addr -> {None} \cup Block] /\ cache'[0] = cache[0]
    BY <2>1, <2>2, <2>3
  <2>5. lh' \in Seq(Home)
    <3>1. lh \in Seq(Home)
      BY <1>0 DEF TypeOK
    <3> QED
      BY <2>3, <3>1
  <2>6. refcnt' \in [Home -> 0..(RefMod - 1)]
    <3>1. refcnt \in [Home -> 0..(RefMod - 1)]
      BY <1>0 DEF TypeOK
    <3>2. [refcnt EXCEPT ![b] = Bpin(refcnt[b])] \in [Home -> 0..(RefMod - 1)]
      BY <3>1, RefcntWraps
    <3> QED
      BY <2>3, <3>1, <3>2, Zenon
  <2>7. wrote' \in [Proc -> SUBSET Home] /\ mem' \in [Home -> Block]
    BY <1>0, <2>1, <2>3 DEF TypeOK
  <2> QED
    BY <1>0, <1>3, <2>4, <2>5, <2>6, <2>7, SMTT(30) DEF LogWrite, TypeOK
<1>20. ASSUME NEW p \in Proc, LogWriteTest(p) PROVE TypeOK'
  <2>1. pc' = [pc EXCEPT ![p] = "panic"] \/ pc' = [pc EXCEPT ![p] = "logging"]
    BY <1>20, Zenon DEF LogWriteTest
  <2> QED
    BY <1>0, <1>20, <2>1 DEF TypeOK, LogWriteTest
<1>4. ASSUME NEW p \in Proc, EndOp(p) PROVE TypeOK'
  <2>1. /\ pc' \in [Proc -> {"idle", "asleep", "woken", "op", "logging", "commit", "panic"}]
        /\ wrote' \in [Proc -> SUBSET Home]
    BY <1>0, <1>4, Zenon DEF TypeOK, EndOp, Wakeup
  <2>2. outstanding' \in Int /\ committing' \in BOOLEAN
    <3>1. outstanding' = outstanding - 1 /\ committing' \in {committing, TRUE}
      BY <1>4, Zenon DEF EndOp
    <3>2. outstanding \in Int /\ committing \in BOOLEAN
      BY <1>0 DEF TypeOK
    <3>3. committing' \in BOOLEAN
      BY <3>1, <3>2, Zenon
    <3> QED
      BY <3>1, <3>2, <3>3
  <2>3. step' \in {step, "log", "done"} /\ tail' \in {tail, 0} /\ io' \in {io, "read"}
    BY <1>4 DEF EndOp, FirstPhase
  <2> QED
    BY <1>0, <1>4, <2>1, <2>2, <2>3 DEF TypeOK, EndOp
<1>5. ASSUME NEW p \in Proc, FinishCommit(p) PROVE TypeOK'
  BY <1>0, <1>5, Zenon DEF TypeOK, FinishCommit, Wakeup
<1>6. ASSUME WriteLog PROVE TypeOK'
  <2>1. tail < Len(lh)
    BY <1>0, <1>6 DEF WriteLog, LogInv
  <2> DEFINE b == lh[tail + 1]
             c == Bread(Bread(cache, tail + 1), b)
  <2>2. b \in Addr \ {0} /\ tail + 1 \in Addr \ {0}
    BY <1>0, <2>1, Entry, SlotOfTail
  <2>3. c \in [Addr -> {None} \cup Block] /\ c[0] = cache[0] /\ c[b] \in Block
    BY <1>0, <2>2, BwriteCaches
  <2>4. StartBwrite([c EXCEPT ![tail + 1] = c[b]], tail + 1)
    BY <1>6 DEF WriteLog
  <2>5. cache[0] \in {None} \cup Seq(Home)
    BY <1>0 DEF TypeOK
  <2>6. /\ [c EXCEPT ![tail + 1] = c[b]] \in [Addr -> {None} \cup Block]
        /\ [c EXCEPT ![tail + 1] = c[b]][0] \in {None} \cup Seq(Home)
    BY <2>2, <2>3, <2>5 DEF Addr
  <2> QED
    BY <2>4, <2>6, StartBwriteType, Zenon
<1>7. ASSUME WriteHead PROVE TypeOK'
  <2>1. Bread(cache, 0) \in [Addr -> {None} \cup Block] /\ lh \in Seq(Home)
    BY <1>0, BreadHeader DEF TypeOK
  <2>2. /\ [Bread(cache, 0) EXCEPT ![0] = lh] \in [Addr -> {None} \cup Block]
        /\ [Bread(cache, 0) EXCEPT ![0] = lh][0] \in {None} \cup Seq(Home)
    BY <2>1 DEF Addr, Block
  <2> QED
    BY <1>7, <2>2, StartBwriteType DEF WriteHead
<1>8. ASSUME InstallTrans PROVE TypeOK'
  <2>1. tail < Len(lh)
    BY <1>0, <1>8 DEF InstallTrans, LogInv
  <2> DEFINE b == lh[tail + 1]
             c == Bread(Bread(cache, tail + 1), b)
  <2>2. b \in Addr \ {0} /\ tail + 1 \in Addr \ {0}
    BY <1>0, <2>1, Entry, SlotOfTail
  <2>3. c \in [Addr -> {None} \cup Block] /\ c[0] = cache[0] /\ c[tail + 1] \in Block
    BY <1>0, <2>2, BwriteCaches
  <2>4. StartBwrite([c EXCEPT ![b] = c[tail + 1]], b)
    BY <1>8 DEF InstallTrans
  <2>5. cache[0] \in {None} \cup Seq(Home)
    BY <1>0 DEF TypeOK
  <2>6. /\ [c EXCEPT ![b] = c[tail + 1]] \in [Addr -> {None} \cup Block]
        /\ [c EXCEPT ![b] = c[tail + 1]][0] \in {None} \cup Seq(Home)
    BY <2>2, <2>3, <2>5 DEF Addr
  <2> QED
    BY <2>4, <2>6, StartBwriteType, Zenon
<1>9. ASSUME BwriteCopy0 PROVE TypeOK'
  <2>1. /\ disk' \in [0..1 -> [Addr -> Block]]
        /\ \A d \in 0..1 : disk'[d][0] \in Seq(Home)
    BY <1>0, <1>9, WriteCopyType DEF BwriteCopy0
  <2> QED
    BY <1>0, <1>9, <2>1 DEF BwriteCopy0, TypeOK
<1>10. ASSUME BwriteCopy1Log PROVE TypeOK'
  <2>1. /\ disk' \in [0..1 -> [Addr -> Block]]
        /\ \A d \in 0..1 : disk'[d][0] \in Seq(Home)
    BY <1>0, <1>10, WriteCopyType DEF BwriteCopy1Log
  <2> QED
    BY <1>0, <1>10, <2>1 DEF BwriteCopy1Log, NextTail, TypeOK
<1>11. ASSUME BwriteCopy1Install PROVE TypeOK'
  <2>1. /\ disk' \in [0..1 -> [Addr -> Block]]
        /\ \A d \in 0..1 : disk'[d][0] \in Seq(Home)
    BY <1>0, <1>11, WriteCopyType DEF BwriteCopy1Install
  <2>2. refcnt' \in [Home -> 0..(RefMod - 1)]
    <3>1. refcnt' = [refcnt EXCEPT ![lh[tail + 1]] = Bunpin(@)]
      BY <1>11 DEF BwriteCopy1Install
    <3>2. refcnt \in [Home -> 0..(RefMod - 1)]
      BY <1>0 DEF TypeOK
    <3> QED
      BY <3>1, <3>2, RefcntWraps, Zenon
  <2> QED
    <3>1. /\ lh' \in Seq(Home) /\ tail' \in Nat
          /\ step' \in {"install", "clear"}
      <4>1. lh \in Seq(Home) /\ tail \in Nat
        BY <1>0 DEF TypeOK
      <4>2. /\ step = "install"
            /\ lh' = lh \/ lh' = <<>>
            /\ tail' = tail + 1 \/ tail' = 0
            /\ step' = step \/ step' = "clear"
        BY <1>11 DEF BwriteCopy1Install, NextTail
      <4>3. lh' \in Seq(Home)
        <5>1. <<>> \in Seq(Home)
          OBVIOUS
        <5> QED
          BY <4>1, <4>2, <5>1, Zenon
      <4>4. tail' \in Nat
        BY <4>1, <4>2
      <4> QED
        BY <4>2, <4>3, <4>4
    <3>2. unpinned' \in SUBSET Home
      <4>1. lh[tail + 1] \in Home
        BY <1>0, <1>11, Entry DEF BwriteCopy1Install, LogInv
      <4>2. unpinned \in SUBSET Home
        BY <1>0, Zenon DEF TypeOK
      <4> QED
        BY <1>11, <4>1, <4>2, Zenon DEF BwriteCopy1Install
    <3> QED
      BY <1>0, <1>11, <2>1, <2>2, <3>1, <3>2, SMTT(30) DEF BwriteCopy1Install, TypeOK
<1>12. ASSUME BwriteCopy1Head PROVE TypeOK'
  <2>1. /\ disk' \in [0..1 -> [Addr -> Block]]
        /\ \A d \in 0..1 : disk'[d][0] \in Seq(Home)
    BY <1>0, <1>12, WriteCopyType DEF BwriteCopy1Head
  <2> QED
    BY <1>0, <1>12, <2>1 DEF BwriteCopy1Head, TypeOK
<1>13. ASSUME ReadHead PROVE TypeOK'
  BY <1>0, <1>13, BreadHeader DEF ReadHead, TypeOK
<1>14. ASSUME FinishBoot PROVE TypeOK'
  BY <1>0, <1>14, Zenon DEF FinishBoot, TypeOK
<1>15. ASSUME NEW a \in Addr, Recycle(a) PROVE TypeOK'
  <2>1. cache' \in [Addr -> {None} \cup Block] /\ cache'[0] \in {None} \cup Seq(Home)
    BY <1>0, <1>15 DEF Recycle, TypeOK
  <2>2. taken' \in BOOLEAN
    BY <1>15, Zenon DEF Recycle
  <2> QED
    BY <1>0, <1>15, <2>1, <2>2, Zenon DEF Recycle, TypeOK
<1>16. ASSUME NEW d \in DiskFails, ForceDiskFail(d) PROVE TypeOK'
  BY <1>0, <1>16 DEF ForceDiskFail, TypeOK
<1>17. ASSUME NEW a \in BlockFails, ForceFail(a) PROVE TypeOK'
  BY <1>0, <1>17 DEF ForceFail, TypeOK
<1>18. ASSUME Crash PROVE TypeOK'
  <2>1. Replay(disk[0]) \in [Home -> Block]
    <3>1. disk[0] \in [Addr -> Block] /\ disk[0][0] \in Seq(Home)
          /\ Len(disk[0][0]) <= NLOG - 1
      BY <1>0 DEF TypeOK, LogInv
    <3>2. \A i \in 1..Len(disk[0][0]) : disk[0][i] \in Block
      BY <3>1 DEF Addr, Slot
    <3>3. \A b \in Home : disk[0][b] \in Block
      BY <3>1 DEF Addr
    <3> QED
      BY <3>1, <3>2, <3>3 DEF Replay
  <2>2. /\ cache' \in [Addr -> {None} \cup Block] /\ cache'[0] \in {None} \cup Seq(Home)
        /\ refcnt' \in [Home -> 0..(RefMod - 1)]
        /\ crashes' \in 0..MaxCrashes
    BY <1>0, <1>18 DEF Crash, TypeOK, Addr
  <2>3. disk' = disk /\ committing' \in BOOLEAN /\ booting' \in BOOLEAN /\ mem' = Replay(disk[0])
    BY <1>18, Zenon DEF Crash
  <2>4. /\ lh' \in Seq(Home) /\ outstanding' \in Int /\ tail' \in Nat
        /\ pc' \in [Proc -> {"idle", "asleep", "woken", "op", "logging", "commit", "panic"}]
        /\ wrote' \in [Proc -> SUBSET Home]
        /\ step' \in {"none", "rdhead", "log", "head", "install", "clear", "done"}
        /\ io' \in {"read", "w0", "w1"} /\ skip' \in SUBSET {0, 1}
        /\ failDisk' \in {-1, 0, 1} /\ failBlock' \in Addr \cup {None}
    BY <1>18 DEF Crash
  <2>5. unpinned' \in SUBSET Home /\ taken' = taken
    BY <1>18, Zenon DEF Crash
  <2> QED
    BY <1>0, <2>1, <2>2, <2>3, <2>4, <2>5 DEF TypeOK
<1>19. CASE UNCHANGED vars
  BY <1>0, <1>19 DEF TypeOK, vars
<1> QED
  BY <1>1, <1>2, <1>3, <1>4, <1>5, <1>6, <1>7, <1>8, <1>9, <1>10, <1>11,
     <1>12, <1>13, <1>14, <1>15, <1>16, <1>17, <1>18, <1>19, <1>20
     DEF Next, ProcStep, CommitStep, BootStep

-----------------------------------------------------------------------------
(* Exclusion of operations, commits and boot. *)

\* The processes inside an operation are finitely many, and outstanding is 0
\* exactly when there is none.
LEMMA InOpFinite ==
    ASSUME TypeOK, CommitExclusive
    PROVE  /\ IsFiniteSet(InOp)
           /\ outstanding \in Nat
           /\ outstanding = 0 <=> InOp = {}
<1>1. IsFiniteSet(InOp)
  BY FS_Subset DEF InOp
<1> QED
  BY <1>1, FS_CardinalityType, FS_EmptySet DEF CommitExclusive

\* Every step keeps the exclusion.
LEMMA ExclusionStep == Ind /\ [Next]_vars => RunInv' /\ CommitExclusive'
<1> SUFFICES ASSUME Ind, [Next]_vars
             PROVE  RunInv' /\ CommitExclusive'
  OBVIOUS
<1> USE DEF logVars, procVars, ioVars, failVars
<1>0. TypeOK /\ LogInv /\ RunInv /\ CommitExclusive
  BY DEF Ind
<1>a. pc \in [Proc -> {"idle", "asleep", "woken", "op", "logging", "commit", "panic"}]
  BY <1>0 DEF TypeOK
<1>b. IsFiniteSet(InOp) /\ outstanding \in Nat /\ (outstanding = 0 <=> InOp = {})
  BY <1>0, InOpFinite
<1>c. outstanding = Cardinality(InOp)
  BY <1>0 DEF CommitExclusive
<1>d. ASSUME UNCHANGED <<pc, outstanding, committing>> PROVE CommitExclusive'
  BY <1>0, <1>d DEF CommitExclusive, InOp, InCommit
<1>e. ASSUME NEW p \in Proc, p \in InOp,
             NEW x \in {"op", "logging", "panic"}, pc' = [pc EXCEPT ![p] = x],
             UNCHANGED <<outstanding, committing, booting, step, tail, io>>
      PROVE  RunInv' /\ CommitExclusive'
  <2>1. InOp' = InOp /\ InCommit' = InCommit
    BY <1>a, <1>e DEF InOp, InCommit
  <2>2. CommitExclusive'
    BY <1>0, <1>e, <2>1 DEF CommitExclusive
  <2>3. ~booting
    BY <1>0, <1>e DEF RunInv, InOp
  <2> QED
    BY <1>0, <1>e, <2>2, <2>3 DEF RunInv
<1>1. ASSUME NEW p \in Proc, BeginOpSleep(p) PROVE RunInv' /\ CommitExclusive'
  <2>1. InOp' = InOp /\ InCommit' = InCommit
    BY <1>1, <1>a DEF BeginOpSleep, InOp, InCommit
  <2>2. CommitExclusive'
    BY <1>0, <1>1, <2>1 DEF CommitExclusive, BeginOpSleep
  <2> QED
    BY <1>0, <1>1, <2>2 DEF RunInv, BeginOpSleep
<1>2. ASSUME NEW p \in Proc, BeginOp(p) PROVE RunInv' /\ CommitExclusive'
  <2>1. InOp' = InOp \cup {p} /\ p \notin InOp /\ InCommit' = InCommit /\ ~committing
    BY <1>2, <1>a DEF BeginOp, InOp, InCommit, MustWait
  <2>2. Cardinality(InOp') = outstanding'
    BY <1>2, <1>b, <1>c, <2>1, FS_AddElement, Zenon DEF BeginOp
  <2>3. committing' = committing
    BY <1>2 DEF BeginOp
  <2>4. CommitExclusive'
    BY <1>0, <2>1, <2>2, <2>3 DEF CommitExclusive
  <2> QED
    BY <1>0, <1>2, <2>4 DEF RunInv, BeginOp
<1>3. ASSUME NEW p \in Proc, NEW b \in Home, NEW v \in Data, LogWrite(p, b, v)
      PROVE  RunInv' /\ CommitExclusive'
  <2>1. pc[p] = "logging" /\ pc' = [pc EXCEPT ![p] = "op"]
    BY <1>3 DEF LogWrite
  <2>2. UNCHANGED <<outstanding, committing, booting, step, tail, io>>
    BY <1>3 DEF LogWrite
  <2> QED
    BY <1>e, <2>1, <2>2, Zenon DEF InOp
<1>15. ASSUME NEW p \in Proc, LogWriteTest(p) PROVE RunInv' /\ CommitExclusive'
  <2>1. pc[p] = "op" /\ (pc' = [pc EXCEPT ![p] = "panic"] \/ pc' = [pc EXCEPT ![p] = "logging"])
    BY <1>15, Zenon DEF LogWriteTest
  <2>2. UNCHANGED <<outstanding, committing, booting, step, tail, io>>
    BY <1>15 DEF LogWriteTest
  <2> QED
    BY <1>e, <2>1, <2>2 DEF InOp
<1>4. ASSUME NEW p \in Proc, EndOp(p) PROVE RunInv' /\ CommitExclusive'
  <2>1. p \in InOp /\ ~committing /\ ~booting /\ InCommit = {}
    BY <1>0, <1>4 DEF EndOp, InOp, CommitExclusive, RunInv
  <2>2. IsFiniteSet(InOp \ {p}) /\ Cardinality(InOp \ {p}) = outstanding - 1
    BY <1>b, <1>c, <2>1, FS_RemoveElement
  <2>3. outstanding' = outstanding - 1 /\ booting' = booting
    BY <1>4 DEF EndOp
  <2>4. CASE outstanding - 1 # 0
    <3>1. /\ pc' = Wakeup([pc EXCEPT ![p] = "idle"])
          /\ UNCHANGED <<committing, step, tail, io>>
      BY <1>4, <2>1, <2>3, <2>4 DEF EndOp
    <3>2. InOp' = InOp \ {p} /\ InCommit' = InCommit
      BY <1>a, <2>1, <3>1 DEF InOp, InCommit, Wakeup
    <3>3. CommitExclusive'
      BY <2>1, <2>2, <2>3, <3>1, <3>2 DEF CommitExclusive
    <3> QED
      BY <1>0, <2>1, <2>3, <3>1, <3>3 DEF RunInv
  <2>5. CASE outstanding - 1 = 0
    <3>1. /\ pc' = [pc EXCEPT ![p] = "commit"]
          /\ committing' = TRUE
          /\ step' \in {"log", "done"}
      BY <1>4, <2>1, <2>3, <2>5 DEF EndOp, FirstPhase
    <3>2. InOp' = InOp \ {p} /\ InCommit' = {p}
      BY <1>a, <2>1, <3>1 DEF InOp, InCommit
    <3>3. InOp \ {p} = {}
      BY <2>2, <2>5, FS_EmptySet
    <3>4. CommitExclusive'
      BY <2>2, <2>3, <3>1, <3>2, <3>3 DEF CommitExclusive
    <3> QED
      BY <2>1, <2>3, <3>1, <3>4 DEF RunInv
  <2> QED
    BY <2>4, <2>5
<1>5. ASSUME NEW p \in Proc, FinishCommit(p) PROVE RunInv' /\ CommitExclusive'
  <2>1. InCommit = {p} /\ committing /\ ~booting /\ InOp = {}
    BY <1>0, <1>5 DEF FinishCommit, InCommit, CommitExclusive, RunInv
  <2>2. InOp' = InOp /\ InCommit' = {}
    BY <1>a, <1>5, <2>1 DEF FinishCommit, InOp, InCommit, Wakeup
  <2>3. /\ committing' = FALSE /\ step' = "none"
        /\ UNCHANGED <<outstanding, booting, tail, io>>
    BY <1>5 DEF FinishCommit
  <2>4. CommitExclusive'
    BY <1>0, <2>2, <2>3 DEF CommitExclusive
  <2> QED
    BY <2>1, <2>3, <2>4 DEF RunInv
<1>6. ASSUME CommitStep PROVE RunInv' /\ CommitExclusive'
  <2>1. UNCHANGED <<pc, outstanding, committing, booting>>
    BY <1>6, SMTT(30) DEF CommitStep, WriteLog, WriteHead, InstallTrans, StartBwrite,
       BwriteCopy0, BwriteCopy1Log, BwriteCopy1Head, BwriteCopy1Install
  <2>2. /\ step \notin {"none", "rdhead"}
        /\ step' \notin {"none", "rdhead"}
    BY <1>0, <1>6 DEF CommitStep, WriteLog, WriteHead, InstallTrans, StartBwrite,
       BwriteCopy0, BwriteCopy1Log, BwriteCopy1Head, BwriteCopy1Install, NextTail, LogInv
  <2> QED
    BY <1>0, <1>d, <2>1, <2>2, SMTT(30) DEF RunInv
<1>7. ASSUME ReadHead PROVE RunInv' /\ CommitExclusive'
  <2>1. /\ UNCHANGED <<pc, outstanding, committing, booting>>
        /\ step = "rdhead" /\ step' \in {"clear", "install"}
    BY <1>7 DEF ReadHead
  <2> QED
    BY <1>0, <1>d, <2>1 DEF RunInv
<1>8. ASSUME FinishBoot PROVE RunInv' /\ CommitExclusive'
  <2>1. /\ UNCHANGED <<pc, outstanding, committing>>
        /\ booting /\ booting' = FALSE /\ step' = "none"
    BY <1>8 DEF FinishBoot
  <2> QED
    BY <1>0, <1>d, <2>1, SMTT(30) DEF RunInv
<1>9. ASSUME Crash PROVE RunInv' /\ CommitExclusive'
  <2>1. InOp' = {} /\ InCommit' = {}
    BY <1>9 DEF Crash, InOp, InCommit
  <2>2. CommitExclusive'
    BY <1>9, <2>1, FS_EmptySet DEF Crash, CommitExclusive
  <2> QED
    BY <1>9, <2>2 DEF Crash, RunInv
<1>10. ASSUME UNCHANGED <<pc, outstanding, committing, booting, step, tail, io>>
       PROVE  RunInv' /\ CommitExclusive'
  BY <1>0, <1>d, <1>10, SMTT(30) DEF RunInv
<1>11. ASSUME NEW a \in Addr, Recycle(a) PROVE RunInv' /\ CommitExclusive'
  BY <1>10, <1>11, Zenon DEF Recycle
<1>12. ASSUME NEW d \in DiskFails, ForceDiskFail(d) PROVE RunInv' /\ CommitExclusive'
  BY <1>10, <1>12 DEF ForceDiskFail
<1>13. ASSUME NEW a \in BlockFails, ForceFail(a) PROVE RunInv' /\ CommitExclusive'
  BY <1>10, <1>13 DEF ForceFail
<1>14. CASE UNCHANGED vars
  BY <1>10, <1>14 DEF vars
<1> QED
  BY <1>1, <1>2, <1>3, <1>4, <1>5, <1>6, <1>7, <1>8, <1>9, <1>11, <1>12, <1>13, <1>14, <1>15
     DEF Next, ProcStep, BootStep

-----------------------------------------------------------------------------
(* The reservations of begin_op. *)

\* A set of quota elements of the processes in S has at most OpBlocks for each.
LEMMA PairsBound ==
    ASSUME NEW S, IsFiniteSet(S), NEW Q \in SUBSET (S \X (1..OpBlocks))
    PROVE  /\ IsFiniteSet(Q)
           /\ Cardinality(Q) \in Nat
           /\ Cardinality(Q) <= Cardinality(S) * OpBlocks
<1>1. Cardinality(S) \in Nat
  BY FS_CardinalityType
<1>2. IsFiniteSet(1..OpBlocks) /\ Cardinality(1..OpBlocks) = OpBlocks
  <2>1. 1 \in Int /\ OpBlocks \in Int /\ OpBlocks >= 1
    OBVIOUS
  <2> QED
    BY <2>1, FS_Interval
<1>3. /\ IsFiniteSet(S \X (1..OpBlocks))
      /\ Cardinality(S \X (1..OpBlocks)) = Cardinality(S) * OpBlocks
  BY <1>1, <1>2, FS_Product, Zenon
<1> QED
  BY <1>1, <1>3, FS_Subset, FS_CardinalityType

\* The unused part of the reservations is at most OpBlocks for each operation.
LEMMA QuotaBound ==
    /\ IsFiniteSet(InOp) /\ IsFiniteSet(Quota)
    /\ Cardinality(InOp) \in Nat /\ Cardinality(Quota) \in Nat
    /\ Cardinality(Quota) <= Cardinality(InOp) * OpBlocks
<1>1. IsFiniteSet(InOp) /\ Cardinality(InOp) \in Nat
  BY FS_Subset, FS_CardinalityType DEF InOp
<1>2. Quota \in SUBSET (InOp \X (1..OpBlocks))
  BY DEF Quota
<1> QED
  BY <1>1, <1>2, PairsBound

\* A group of operations holds back at least the slack of one of them, and the
\* slack together with what each may use is what begin_op reserved.
LEMMA Slack ==
    ASSUME NEW n \in Nat
    PROVE  /\ n * (MAXOPBLOCKS - OpBlocks) \in Nat
           /\ n * OpBlocks + n * (MAXOPBLOCKS - OpBlocks) = n * MAXOPBLOCKS
           /\ n > 0 => n * (MAXOPBLOCKS - OpBlocks) >= MAXOPBLOCKS - OpBlocks
           /\ n > 0 => (n - 1) * (MAXOPBLOCKS - OpBlocks) <= n * (MAXOPBLOCKS - OpBlocks)
<1> DEFINE d == MAXOPBLOCKS - OpBlocks
<1>1. d \in Nat /\ MAXOPBLOCKS = OpBlocks + d /\ OpBlocks \in Nat
  OBVIOUS
<1> HIDE DEF d
<1>2. n * d \in Nat
  BY <1>1
<1>3. n * OpBlocks + n * d = n * MAXOPBLOCKS
  BY <1>1
<1>4. n > 0 => n * d = (n - 1) * d + d /\ (n - 1) * d >= 0
  BY <1>1
<1> QED
  BY <1>1, <1>2, <1>3, <1>4 DEF d

\* While an operation runs the log is not full: log_write's tests do not fail.
LEMMA RoomLeft ==
    ASSUME TypeOK, ReserveInv, Footprint, InOp # {}
    PROVE  Len(lh) < LOGSIZE /\ Len(lh) < NLOG - 1
<1>1. IsFiniteSet(InOp) /\ Cardinality(InOp) \in Nat /\ Cardinality(Quota) \in Nat
  BY QuotaBound
<1>2. Cardinality(InOp) > 0
  BY <1>1, FS_EmptySet
<1>3. Cardinality(InOp) * (MAXOPBLOCKS - OpBlocks) >= MAXOPBLOCKS - OpBlocks
  BY <1>1, <1>2, Slack
<1>4. Len(lh) + Cardinality(Quota) + Cardinality(InOp) * (MAXOPBLOCKS - OpBlocks) <= LOGSIZE
  BY DEF ReserveInv
<1>5. Len(lh) \in Nat
  BY DEF TypeOK
<1>6. Cardinality(InOp) * (MAXOPBLOCKS - OpBlocks) \in Int
  BY <1>1, Slack
<1> QED
  BY <1>1, <1>3, <1>4, <1>5, <1>6 DEF Footprint

\* A step that keeps the log, and who is in an operation with what it wrote,
\* keeps the reservations.
LEMMA ReserveFrame ==
    ASSUME ReserveInv, UNCHANGED <<lh, wrote>>, InOp' = InOp
    PROVE  ReserveInv'
<1>1. Quota' = Quota /\ Logged' = Logged
  BY DEF Quota, Logged
<1> QED
  BY <1>1 DEF ReserveInv

\* Without operations there are no reservations to keep.
LEMMA ReserveIdle ==
    ASSUME InOp' = {}, \A p \in Proc : wrote'[p] = {}
    PROVE  ReserveInv'
  BY DEF ReserveInv

\* A process whose operation grows its set of blocks by b uses up one quota
\* element when b is new, and none otherwise.
LEMMA QuotaUse ==
    ASSUME TypeOK, NEW p \in InOp, NEW b \in Home, InOp' = InOp,
           wrote' = [wrote EXCEPT ![p] = @ \cup {b}],
           Cardinality(wrote[p] \cup {b}) <= OpBlocks
    PROVE  /\ Cardinality(Quota') <= Cardinality(Quota)
           /\ Cardinality(Quota') \in Nat
           /\ b \notin wrote[p] => Cardinality(Quota') = Cardinality(Quota) - 1
<1>0. p \in Proc /\ wrote \in [Proc -> SUBSET Home] /\ InOp \subseteq Proc
  BY DEF InOp, TypeOK
<1>1. \A q \in Proc : wrote'[q] = IF q = p THEN wrote[p] \cup {b} ELSE wrote[q]
  BY <1>0
<1>2. IsFiniteSet(wrote[p]) /\ Cardinality(wrote[p]) \in Nat
  BY <1>0, FS_Subset, FS_CardinalityType
<1>3. IsFiniteSet(Quota) /\ Cardinality(Quota) \in Nat
  BY QuotaBound
<1>4. CASE b \in wrote[p]
  <2>1. wrote[p] \cup {b} = wrote[p]
    BY <1>4
  <2>2. Quota' = Quota
    BY <1>0, <1>1, <2>1, Zenon DEF Quota
  <2> QED
    BY <1>3, <1>4, <2>2
<1>5. CASE b \notin wrote[p]
  <2> DEFINE e == <<p, Cardinality(wrote[p]) + 1>>
  <2>1. Cardinality(wrote[p] \cup {b}) = Cardinality(wrote[p]) + 1
    BY <1>2, <1>5, FS_AddElement, Zenon
  <2>2. e \in Quota
    BY <1>2, <2>1 DEF Quota
  <2>3. Quota' = Quota \ {e}
    <3>1. ASSUME NEW q \in InOp, NEW i \in 1..OpBlocks
          PROVE  <<q, i>> \in Quota' <=> <<q, i>> \in Quota \ {e}
      <4>1. <<q, i>> \in Quota' <=> i > Cardinality(wrote'[q])
        BY DEF Quota
      <4>2. <<q, i>> \in Quota <=> i > Cardinality(wrote[q])
        BY DEF Quota
      <4>3. CASE q = p
        <5>1. i > Cardinality(wrote[p]) + 1 <=> i > Cardinality(wrote[p]) /\ i # Cardinality(wrote[p]) + 1
          BY <1>2
        <5>2. <<q, i>> # e <=> i # Cardinality(wrote[p]) + 1
          BY <4>3
        <5>3. Cardinality(wrote'[q]) = Cardinality(wrote[p]) + 1
          BY <1>0, <1>1, <2>1, <4>3
        <5> QED
          BY <4>1, <4>2, <4>3, <5>1, <5>2, <5>3
      <4>4. CASE q # p
        <5>1. wrote'[q] = wrote[q]
          BY <1>0, <1>1, <4>4
        <5>2. <<q, i>> # e
          BY <4>4
        <5> QED
          BY <4>1, <4>2, <5>1, <5>2
      <4> QED
        BY <4>3, <4>4
    <3>2. Quota \subseteq InOp \X (1..OpBlocks) /\ Quota' \subseteq InOp \X (1..OpBlocks)
      BY DEF Quota
    <3> HIDE DEF e
    <3> QED
      BY <3>1, <3>2
  <2>4. Cardinality(Quota') = Cardinality(Quota) - 1 /\ IsFiniteSet(Quota')
    <3> HIDE DEF e
    <3>1. IsFiniteSet(Quota \ {e}) /\ Cardinality(Quota \ {e}) = Cardinality(Quota) - 1
      BY <1>3, <2>2, FS_RemoveElement, Zenon
    <3> QED
      BY <2>3, <3>1, Zenon
  <2> QED
    BY <1>3, <2>4, FS_CardinalityType
<1> QED
  BY <1>4, <1>5, SMTT(30)

\* Every step keeps the reservations.
LEMMA ReserveStep == Ind /\ [Next]_vars => ReserveInv'
<1> SUFFICES ASSUME Ind, [Next]_vars
             PROVE  ReserveInv'
  OBVIOUS
<1> USE DEF logVars, procVars, ioVars, failVars
<1>0. TypeOK /\ LogInv /\ RunInv /\ CommitExclusive /\ ReserveInv
  BY DEF Ind
<1>a. pc \in [Proc -> {"idle", "asleep", "woken", "op", "logging", "commit", "panic"}]
  BY <1>0 DEF TypeOK
<1>b. wrote \in [Proc -> SUBSET Home] /\ lh \in Seq(Home)
  BY <1>0 DEF TypeOK
<1>c. \A p \in Proc : p \notin InOp => wrote[p] = {}
  BY <1>0 DEF ReserveInv
<1>d. \A p \in Proc : p \in InOp => wrote[p] \subseteq Logged
  BY <1>0 DEF ReserveInv
<1>e. InOp # {} => Len(lh) + Cardinality(Quota)
                     + Cardinality(InOp) * (MAXOPBLOCKS - OpBlocks) <= LOGSIZE
  BY <1>0 DEF ReserveInv
<1>1. ASSUME NEW p \in Proc, BeginOpSleep(p) PROVE ReserveInv'
  <2>1. InOp' = InOp
    BY <1>1, <1>a DEF BeginOpSleep, InOp
  <2> QED
    BY <1>0, <1>1, <2>1, ReserveFrame DEF BeginOpSleep
<1>2. ASSUME NEW p \in Proc, BeginOp(p) PROVE ReserveInv'
  <2>1. InOp' = InOp \cup {p} /\ p \notin InOp /\ UNCHANGED <<lh, wrote>>
    BY <1>2, <1>a DEF BeginOp, InOp
  <2>2. IsFiniteSet(InOp') /\ Cardinality(InOp') = outstanding + 1 /\ outstanding \in Nat
    BY <1>0, <2>1, InOpFinite, FS_AddElement DEF CommitExclusive
  <2>3. Quota' \in SUBSET (InOp' \X (1..OpBlocks))
    BY DEF Quota
  <2>4. Cardinality(Quota') \in Nat /\ Cardinality(Quota') <= (outstanding + 1) * OpBlocks
    BY <2>2, <2>3, PairsBound
  <2>5. Len(lh) + (outstanding + 1) * MAXOPBLOCKS <= LOGSIZE
    <3>1. Len(lh) \in Nat /\ (outstanding + 1) * MAXOPBLOCKS \in Int
      BY <1>b, <2>2
    <3> QED
      BY <1>2, <3>1 DEF BeginOp, MustWait
  <2>6. /\ (outstanding + 1) * OpBlocks + (outstanding + 1) * (MAXOPBLOCKS - OpBlocks)
              = (outstanding + 1) * MAXOPBLOCKS
        /\ (outstanding + 1) * (MAXOPBLOCKS - OpBlocks) \in Nat
        /\ (outstanding + 1) * OpBlocks \in Nat
    BY <2>2, Slack
  <2>7. Len(lh) + Cardinality(Quota') + (outstanding + 1) * (MAXOPBLOCKS - OpBlocks) <= LOGSIZE
    <3>1. Len(lh) \in Nat
      BY <1>b
    <3> QED
      BY <2>4, <2>5, <2>6, <3>1
  <2>8. Logged' = Logged
    BY <2>1 DEF Logged
  <2>9. \A q \in Proc : wrote'[q] \subseteq (IF q \in InOp' THEN Logged' ELSE {})
    BY <1>c, <1>d, <2>1, <2>8
  <2> QED
    BY <2>1, <2>2, <2>7, <2>9 DEF ReserveInv
<1>3. ASSUME NEW p \in Proc, LogWriteTest(p) PROVE ReserveInv'
  <2>1. pc[p] = "op" /\ (pc' = [pc EXCEPT ![p] = "panic"] \/ pc' = [pc EXCEPT ![p] = "logging"])
    BY <1>3, ZenonT(30) DEF LogWriteTest
  <2>2. InOp' = InOp
    BY <1>a, <2>1 DEF InOp
  <2> QED
    BY <1>0, <1>3, <2>2, ReserveFrame DEF LogWriteTest
<1>4. ASSUME NEW p \in Proc, NEW b \in Home, NEW v \in Data, LogWrite(p, b, v)
      PROVE  ReserveInv'
  <2>1. /\ pc[p] = "logging" /\ pc' = [pc EXCEPT ![p] = "op"]
        /\ Cardinality(wrote[p] \cup {b}) <= OpBlocks
        /\ lh' = IF b \in Logged THEN lh ELSE Append(lh, b)
        /\ wrote' = [wrote EXCEPT ![p] = @ \cup {b}]
    BY <1>4 DEF LogWrite
  <2>2. InOp' = InOp /\ p \in InOp
    BY <1>a, <2>1, SMTT(30) DEF InOp
  <2>3. /\ Cardinality(Quota') <= Cardinality(Quota)
        /\ Cardinality(Quota') \in Nat
        /\ b \notin wrote[p] => Cardinality(Quota') = Cardinality(Quota) - 1
    BY <1>0, <2>1, <2>2, QuotaUse, Zenon
  <2>4. Logged' = Logged \cup {b} /\ (b \notin Logged => Len(lh') = Len(lh) + 1)
    <3>1. CASE b \in Logged
      BY <2>1, <3>1 DEF Logged
    <3>2. CASE b \notin Logged
      <4>1. /\ Len(lh') = Len(lh) + 1 /\ Len(lh) \in Nat
            /\ \A i \in 1..Len(lh) : lh'[i] = lh[i]
            /\ lh'[Len(lh) + 1] = b
        BY <1>b, <2>1, <3>2
      <4>2. 1..(Len(lh) + 1) = (1..Len(lh)) \cup {Len(lh) + 1}
        BY <4>1
      <4> QED
        BY <4>1, <4>2 DEF Logged
    <3> QED
      BY <3>1, <3>2
  <2>5. \A q \in Proc : wrote'[q] \subseteq (IF q \in InOp' THEN Logged' ELSE {})
    BY <1>b, <1>c, <1>d, <2>1, <2>2, <2>4
  <2>6. Len(lh') + Cardinality(Quota') <= Len(lh) + Cardinality(Quota)
    <3>1. Cardinality(Quota) \in Nat /\ Len(lh) \in Nat
      BY <1>b, QuotaBound
    <3>2. CASE b \in Logged
      BY <2>1, <2>3, <3>1, <3>2
    <3>3. CASE b \notin Logged
      BY <1>d, <2>2, <2>3, <2>4, <3>1, <3>3, SMTT(30)
    <3> QED
      BY <3>2, <3>3
  <2>7. Len(lh') + Cardinality(Quota')
          + Cardinality(InOp) * (MAXOPBLOCKS - OpBlocks) <= LOGSIZE
    <3>1. Cardinality(Quota) \in Nat /\ Len(lh) \in Nat /\ Len(lh') \in Nat
      BY <1>b, <2>1, QuotaBound
    <3>2. Cardinality(InOp) * (MAXOPBLOCKS - OpBlocks) \in Nat
      BY QuotaBound, Slack
    <3> QED
      BY <1>e, <2>2, <2>3, <2>6, <3>1, <3>2, SMTT(30)
  <2> QED
    BY <2>2, <2>5, <2>7, SMTT(30) DEF ReserveInv
<1>5. ASSUME NEW p \in Proc, EndOp(p) PROVE ReserveInv'
  <2>1. p \in InOp /\ ~committing
    BY <1>0, <1>5 DEF EndOp, InOp, CommitExclusive
  <2>2. /\ pc' = Wakeup([pc EXCEPT ![p] = "idle"]) \/ pc' = [pc EXCEPT ![p] = "commit"]
        /\ wrote' = [wrote EXCEPT ![p] = {}] /\ lh' = lh
    BY <1>5, <2>1 DEF EndOp
  <2>3. InOp' = InOp \ {p}
    <3>1. CASE pc' = Wakeup([pc EXCEPT ![p] = "idle"])
      BY <1>a, <3>1 DEF InOp, Wakeup
    <3>2. CASE pc' = [pc EXCEPT ![p] = "commit"]
      BY <1>a, <3>2, SMTT(30) DEF InOp
    <3> QED
      BY <2>2, <3>1, <3>2
  <2>4. Quota' \subseteq Quota /\ Logged' = Logged
    <3>1. \A q \in InOp' : wrote'[q] = wrote[q]
      BY <1>b, <2>2, <2>3 DEF InOp
    <3> QED
      BY <2>2, <2>3, <3>1 DEF Quota, Logged
  <2>5. Cardinality(Quota') <= Cardinality(Quota) /\ Cardinality(Quota') \in Nat
    BY <2>4, QuotaBound, FS_Subset, FS_CardinalityType
  <2>6. Cardinality(InOp') = Cardinality(InOp) - 1 /\ Cardinality(InOp) > 0
    <3>1. IsFiniteSet(InOp) /\ Cardinality(InOp) \in Nat
      BY QuotaBound
    <3>2. Cardinality(InOp \ {p}) = Cardinality(InOp) - 1
      BY <2>1, <3>1, FS_RemoveElement, Zenon
    <3>3. Cardinality(InOp) # 0
      BY <2>1, <3>1, FS_EmptySet
    <3> QED
      BY <2>3, <3>1, <3>2, <3>3
  <2>7. Len(lh) + Cardinality(Quota') + Cardinality(InOp') * (MAXOPBLOCKS - OpBlocks) <= LOGSIZE
    <3>1. Cardinality(Quota) \in Nat /\ Len(lh) \in Nat /\ Cardinality(InOp) \in Nat
      BY <1>b, QuotaBound
    <3>2. /\ (Cardinality(InOp) - 1) * (MAXOPBLOCKS - OpBlocks)
               <= Cardinality(InOp) * (MAXOPBLOCKS - OpBlocks)
          /\ Cardinality(InOp) * (MAXOPBLOCKS - OpBlocks) \in Nat
          /\ (Cardinality(InOp) - 1) * (MAXOPBLOCKS - OpBlocks) \in Nat
      <4>1. Cardinality(InOp) - 1 \in Nat
        BY <2>6, <3>1
      <4> QED
        BY <2>6, <3>1, <4>1, Slack
    <3>3. PICK u : u = Cardinality(InOp) * (MAXOPBLOCKS - OpBlocks)
      OBVIOUS
    <3>4. PICK v : v = (Cardinality(InOp) - 1) * (MAXOPBLOCKS - OpBlocks)
      OBVIOUS
    <3>5. u \in Nat /\ v \in Nat /\ v <= u
      BY <3>2, <3>3, <3>4
    <3>6. Len(lh) + Cardinality(Quota) + u <= LOGSIZE
      BY <1>e, <2>1, <3>3
    <3>7. Len(lh) + Cardinality(Quota') + v <= LOGSIZE
      BY <2>5, <3>1, <3>5, <3>6
    <3> QED
      BY <2>6, <3>4, <3>7
  <2>8. \A q \in Proc : wrote'[q] \subseteq (IF q \in InOp' THEN Logged' ELSE {})
    BY <1>b, <1>c, <1>d, <2>2, <2>3, <2>4
  <2> QED
    BY <2>2, <2>7, <2>8 DEF ReserveInv
<1>6. ASSUME NEW p \in Proc, FinishCommit(p) PROVE ReserveInv'
  <2>1. InOp = {} /\ wrote' = wrote
    BY <1>0, <1>6 DEF FinishCommit, InCommit, CommitExclusive
  <2>2. InOp' = InOp
    BY <1>a, <1>6 DEF FinishCommit, InOp, Wakeup
  <2> QED
    BY <1>c, <2>1, <2>2, ReserveIdle
<1>7. ASSUME CommitStep \/ BootStep PROVE ReserveInv'
  <2>1. UNCHANGED <<pc, wrote>>
    BY <1>7, ZenonT(30) DEF CommitStep, WriteLog, WriteHead, InstallTrans, StartBwrite,
       BwriteCopy0, BwriteCopy1Log, BwriteCopy1Head, BwriteCopy1Install, NextTail,
       BootStep, ReadHead, FinishBoot
  <2>2. step # "none"
    BY <1>0, <1>7, Zenon DEF CommitStep, WriteLog, WriteHead, InstallTrans, StartBwrite,
       BwriteCopy0, BwriteCopy1Log, BwriteCopy1Head, BwriteCopy1Install, LogInv,
       BootStep, ReadHead, FinishBoot
  <2>3. InOp = {}
    BY <1>0, <2>2 DEF RunInv, CommitExclusive, InOp
  <2>4. InOp' = InOp
    BY <2>1 DEF InOp
  <2> QED
    BY <1>c, <2>1, <2>3, <2>4, ReserveIdle, SMTT(30)
<1>8. ASSUME Crash PROVE ReserveInv'
  <2>1. InOp' = {}
    BY <1>8 DEF Crash, InOp
  <2> QED
    BY <1>8, <2>1, ReserveIdle DEF Crash
<1>9. ASSUME UNCHANGED <<pc, wrote, lh>> PROVE ReserveInv'
  <2>1. InOp' = InOp
    BY <1>9 DEF InOp
  <2> QED
    BY <1>0, <1>9, <2>1, ReserveFrame
<1>10. ASSUME NEW a \in Addr, Recycle(a) PROVE ReserveInv'
  BY <1>9, <1>10 DEF Recycle
<1>11. ASSUME NEW d \in DiskFails, ForceDiskFail(d) PROVE ReserveInv'
  BY <1>9, <1>11 DEF ForceDiskFail
<1>12. ASSUME NEW a \in BlockFails, ForceFail(a) PROVE ReserveInv'
  BY <1>9, <1>12, SMTT(30) DEF ForceFail
<1>13. CASE UNCHANGED vars
  BY <1>9, <1>13 DEF vars
<1> QED
  BY <1>1, <1>2, <1>3, <1>4, <1>5, <1>6, <1>7, <1>8, <1>10, <1>11, <1>12, <1>13, SMTT(30)
     DEF Next, ProcStep

\* No step panics.
LEMMA PanicStep == Footprint /\ Ind /\ [Next]_vars => NoPanic'
<1> SUFFICES ASSUME Footprint, Ind, [Next]_vars
             PROVE  NoPanic'
  OBVIOUS
<1> USE DEF logVars, procVars, ioVars, failVars
<1>0. TypeOK /\ CommitExclusive /\ ReserveInv /\ NoPanic
  BY DEF Ind
<1>a. pc \in [Proc -> {"idle", "asleep", "woken", "op", "logging", "commit", "panic"}]
  BY <1>0 DEF TypeOK
<1>1. ASSUME NEW p \in Proc, LogWriteTest(p) PROVE NoPanic'
  <2>1. p \in InOp
    BY <1>1 DEF LogWriteTest, InOp
  <2>2. ~LogFull
    <3>1. Len(lh) < LOGSIZE /\ Len(lh) < NLOG - 1
      BY <1>0, <2>1, RoomLeft
    <3>2. Len(lh) \in Nat
      <4>1. lh \in Seq(Home)
        BY <1>0 DEF TypeOK
      <4> QED
        BY <4>1, SMTT(30)
    <3> QED
      BY <3>1, <3>2 DEF LogFull
  <2>3. ~(outstanding < 1)
    BY <1>0, <2>1, InOpFinite
  <2> QED
    BY <1>0, <1>1, <1>a, <2>2, <2>3 DEF NoPanic, LogWriteTest
<1>2. ASSUME NEW p \in Proc, EndOp(p) PROVE NoPanic'
  <2>1. ~committing
    BY <1>0, <1>2, SMTT(30) DEF EndOp, CommitExclusive, InOp
  <2>2. pc' = Wakeup([pc EXCEPT ![p] = "idle"]) \/ pc' = [pc EXCEPT ![p] = "commit"]
    BY <1>2, <2>1, SMTT(30) DEF EndOp
  <2> QED
    BY <1>0, <1>a, <2>2 DEF NoPanic, Wakeup
<1>3. ASSUME NEW p \in Proc, BeginOpSleep(p) \/ BeginOp(p) \/ FinishCommit(p)
      PROVE  NoPanic'
  BY <1>0, <1>a, <1>3 DEF NoPanic, BeginOpSleep, BeginOp, FinishCommit, Wakeup
<1>4. ASSUME NEW p \in Proc, NEW b \in Home, NEW v \in Data, LogWrite(p, b, v)
      PROVE  NoPanic'
  BY <1>0, <1>a, <1>4 DEF NoPanic, LogWrite
<1>5. ASSUME UNCHANGED pc PROVE NoPanic'
  BY <1>0, <1>5, SMTT(30) DEF NoPanic
<1>6. ASSUME CommitStep \/ BootStep PROVE NoPanic'
  BY <1>5, <1>6, Zenon DEF CommitStep, WriteLog, WriteHead, InstallTrans, StartBwrite,
     BwriteCopy0, BwriteCopy1Log, BwriteCopy1Head, BwriteCopy1Install,
     BootStep, ReadHead, FinishBoot
<1>7. ASSUME Crash PROVE NoPanic'
  BY <1>7, SMTT(30) DEF Crash, NoPanic
<1>8. ASSUME NEW a \in Addr, Recycle(a) PROVE NoPanic'
  BY <1>5, <1>8, SMTT(30) DEF Recycle
<1>9. ASSUME NEW d \in DiskFails, ForceDiskFail(d) PROVE NoPanic'
  BY <1>5, <1>9 DEF ForceDiskFail
<1>10. ASSUME NEW a \in BlockFails, ForceFail(a) PROVE NoPanic'
  BY <1>5, <1>10, SMTT(30) DEF ForceFail
<1>11. CASE UNCHANGED vars
  BY <1>5, <1>11, SMTT(30) DEF vars
<1> QED
  BY <1>1, <1>2, <1>3, <1>4, <1>6, <1>7, <1>8, <1>9, <1>10, <1>11 DEF Next, ProcStep

-----------------------------------------------------------------------------
(* The shape of the log. *)

\* A bwrite that starts has its block in the cache.
LEMMA StartBwriteLog ==
    ASSUME Ind, NEW c, NEW a, StartBwrite(c, a), a = Target, c[a] # None,
           step \in {"log", "head", "install", "clear"},
           c[0] # None => Len(c[0]) <= NLOG - 1
    PROVE  LogInv'
<1> USE DEF logVars, procVars, ioVars, failVars
<1>1. Target' = Target
  BY SMTT(30) DEF StartBwrite, Target
<1> QED
  BY <1>1 DEF Ind, LogInv, StartBwrite

\* Every step keeps the log's shape.
LEMMA LogStep == Footprint /\ Ind /\ [Next]_vars => LogInv'
<1> SUFFICES ASSUME Footprint, Ind, [Next]_vars
             PROVE  LogInv'
  OBVIOUS
<1> USE DEF logVars, procVars, ioVars, failVars
<1>0. TypeOK /\ LogInv /\ RunInv /\ CommitExclusive /\ ReserveInv
  BY DEF Ind
<1>a. lh \in Seq(Home) /\ Len(lh) \in Nat /\ tail \in Nat /\ 0 \in Addr
  BY <1>0 DEF TypeOK, Addr
<1>b. cache \in [Addr -> {None} \cup Block]
  BY <1>0 DEF TypeOK
<1>c. ASSUME UNCHANGED <<disk, cache, lh, step, tail, io>> PROVE LogInv'
  <2>1. Target' = Target
    BY <1>c DEF Target
  <2> QED
    BY <1>0, <1>c, <2>1 DEF LogInv
<1>d. step = "none" => io = "read"
  BY <1>0, SMTT(30) DEF LogInv
<1>1. ASSUME NEW p \in Proc, BeginOpSleep(p) \/ BeginOp(p) \/ LogWriteTest(p)
      PROVE  LogInv'
  BY <1>1, <1>c, SMTT(30) DEF BeginOpSleep, BeginOp, LogWriteTest
<1>2. ASSUME NEW p \in Proc, NEW b \in Home, NEW v \in Data, LogWrite(p, b, v)
      PROVE  LogInv'
  <2>1. p \in InOp /\ step = "none"
    BY <1>0, <1>2 DEF LogWrite, InOp, CommitExclusive, RunInv
  <2>2. Len(lh) < NLOG - 1
    BY <1>0, <2>1, RoomLeft
  <2>3. Len(lh') <= NLOG - 1
    <3>1. lh' = lh \/ lh' = Append(lh, b)
      BY <1>2 DEF LogWrite
    <3> QED
      BY <1>a, <2>2, <3>1, SMTT(30)
  <2>4. b \in Addr /\ b # 0
    BY SMTT(30) DEF Addr
  <2>5. cache'[0] = cache[0]
    <3>0. 0 \in Addr \ {b}
      BY <1>a, <2>4, SMTT(30)
    <3>1. Bread(cache, b)[0] = cache[0] /\ Bread(cache, b) \in [Addr -> {None} \cup Block]
      BY <1>0, <1>b, <2>4, <3>0, BreadFills, SMTT(30)
    <3> QED
      BY <1>2, <1>a, <2>4, <3>1 DEF LogWrite
  <2>6. UNCHANGED <<disk, step, io>>
    BY <1>2 DEF LogWrite
  <2> QED
    BY <1>0, <1>d, <2>1, <2>3, <2>5, <2>6, SMTT(30) DEF LogInv
<1>3. ASSUME NEW p \in Proc, EndOp(p) PROVE LogInv'
  <2>1. step = "none" /\ ~committing
    BY <1>0, <1>3, SMTT(30) DEF EndOp, InOp, CommitExclusive, RunInv
  <2>2. CASE outstanding' # 0
    BY <1>3, <1>c, <2>1, <2>2, SMTT(30) DEF EndOp
  <2>3. CASE outstanding' = 0
    <3>1. step' = FirstPhase /\ tail' = 0 /\ io' = "read" /\ UNCHANGED <<disk, cache, lh>>
      BY <1>3, <2>1, <2>3, ZenonT(30) DEF EndOp
    <3> QED
      BY <1>0, <3>1, SMTT(30) DEF LogInv, FirstPhase
  <2> QED
    BY <2>2, <2>3, SMTT(30)
<1>4. ASSUME NEW p \in Proc, FinishCommit(p) PROVE LogInv'
  <2>1. io = "read"
    BY <1>0, <1>4 DEF FinishCommit, LogInv
  <2> QED
    BY <1>0, <1>4, <2>1 DEF FinishCommit, LogInv
<1>5. ASSUME WriteLog PROVE LogInv'
  <2>1. step = "log" /\ tail < Len(lh) /\ Target = tail + 1
    BY <1>0, <1>5 DEF WriteLog, LogInv, Target
  <2>2. tail + 1 \in Addr \ {0} /\ lh[tail + 1] \in Addr \ {0}
    BY <1>0, <2>1, Entry, SlotOfTail, SMTT(30)
  <2> DEFINE c == Bread(Bread(cache, tail + 1), lh[tail + 1])
             d == [c EXCEPT ![tail + 1] = c[lh[tail + 1]]]
  <2>3. c \in [Addr -> {None} \cup Block] /\ c[0] = cache[0] /\ c[lh[tail + 1]] \in Block
    BY <1>0, <2>2, BwriteCaches
  <2>4. StartBwrite(d, tail + 1)
    BY <1>5 DEF WriteLog
  <2> HIDE DEF c
  <2>5. d[0] = cache[0] /\ d[tail + 1] # None
    BY <1>a, <2>2, <2>3
  <2>6. cache[0] # None => Len(cache[0]) <= NLOG - 1
    BY <1>0 DEF LogInv
  <2> HIDE DEF d
  <2> QED
    BY <2>1, <2>4, <2>5, <2>6, StartBwriteLog, Zenon
<1>6. ASSUME WriteHead PROVE LogInv'
  <2>1. step \in {"head", "clear"} /\ Target = 0
    BY <1>6 DEF WriteHead, Target
  <2> DEFINE d == [Bread(cache, 0) EXCEPT ![0] = lh]
  <2>2. StartBwrite(d, 0)
    BY <1>6 DEF WriteHead
  <2>3. d[0] = lh
    BY <1>0, <1>a, BreadHeader
  <2>4. Len(lh) <= NLOG - 1 /\ lh # None
    BY <1>0, <1>a, SMTT(30) DEF LogInv, Block
  <2> HIDE DEF d
  <2> QED
    BY <2>1, <2>2, <2>3, <2>4, StartBwriteLog
<1>7. ASSUME InstallTrans PROVE LogInv'
  <2>1. step = "install" /\ tail < Len(lh) /\ Target = lh[tail + 1]
    BY <1>0, <1>7, SMTT(30) DEF InstallTrans, LogInv, Target
  <2>2. tail + 1 \in Addr \ {0} /\ lh[tail + 1] \in Addr \ {0}
    BY <1>0, <2>1, Entry, SlotOfTail, SMTT(30)
  <2> DEFINE c == Bread(Bread(cache, tail + 1), lh[tail + 1])
             d == [c EXCEPT ![lh[tail + 1]] = c[tail + 1]]
  <2>3. c \in [Addr -> {None} \cup Block] /\ c[0] = cache[0] /\ c[tail + 1] \in Block
    BY <1>0, <2>2, BwriteCaches
  <2>4. StartBwrite(d, lh[tail + 1])
    BY <1>7 DEF InstallTrans
  <2> HIDE DEF c
  <2>5. d[0] = cache[0] /\ d[lh[tail + 1]] # None
    BY <1>a, <2>2, <2>3, SMTT(30)
  <2>6. cache[0] # None => Len(cache[0]) <= NLOG - 1
    BY <1>0 DEF LogInv
  <2> HIDE DEF d
  <2> QED
    BY <2>1, <2>4, <2>5, <2>6, StartBwriteLog
<1>8. ASSUME BwriteCopy0 PROVE LogInv'
  <2>1. /\ io = "w0" /\ WriteCopy(0) /\ io' = "w1"
        /\ UNCHANGED <<cache, lh, step, tail>>
    BY <1>8, Zenon DEF BwriteCopy0
  <2>2. \A d \in 0..1 : Len(disk'[d][0]) <= NLOG - 1
    BY <1>0, <2>1, WriteCopyType
  <2>3. Target' = Target
    BY <2>1 DEF Target
  <2>4. step \in {"log", "head", "install", "clear"} /\ cache[Target] # None
    BY <1>0, <2>1 DEF LogInv
  <2> QED
    BY <1>0, <2>1, <2>2, <2>3, <2>4, Zenon DEF LogInv
<1>9. ASSUME BwriteCopy1Log PROVE LogInv'
  <2>1. /\ io = "w1" /\ WriteCopy(1) /\ step = "log" /\ NextTail("head")
        /\ io' = "read" /\ UNCHANGED cache
    BY <1>9 DEF BwriteCopy1Log
  <2>2. \A d \in 0..1 : Len(disk'[d][0]) <= NLOG - 1
    BY <1>0, <2>1, WriteCopyType
  <2>3. tail < Len(lh)
    BY <1>0, <2>1 DEF LogInv
  <2> QED
    BY <1>0, <1>a, <2>1, <2>2, <2>3, SMTT(30) DEF LogInv, NextTail, MoreBlocks
<1>10. ASSUME BwriteCopy1Install PROVE LogInv'
  <2>1. /\ io = "w1" /\ WriteCopy(1) /\ step = "install" /\ NextTail("clear")
        /\ io' = "read" /\ UNCHANGED cache
    BY <1>10 DEF BwriteCopy1Install
  <2>2. \A d \in 0..1 : Len(disk'[d][0]) <= NLOG - 1
    BY <1>0, <2>1, WriteCopyType, SMTT(30)
  <2>3. CASE MoreBlocks
    <3>1. tail' = tail + 1 /\ step' = step /\ lh' = lh
      BY <2>1, <2>3, SMTT(30) DEF NextTail
    <3> QED
      BY <1>0, <1>a, <2>1, <2>2, <2>3, <3>1, SMTT(30) DEF LogInv, MoreBlocks
  <2>4. CASE ~MoreBlocks
    <3>1. tail' = 0 /\ step' = "clear" /\ lh' = <<>>
      BY <2>1, <2>4, SMTT(30) DEF NextTail
    <3> QED
      BY <1>0, <1>a, <2>1, <2>2, <3>1 DEF LogInv
  <2> QED
    BY <2>3, <2>4
<1>11. ASSUME BwriteCopy1Head PROVE LogInv'
  <2>1. /\ io = "w1" /\ WriteCopy(1) /\ step \in {"head", "clear"}
        /\ step' = IF step = "head" THEN "install" ELSE "done"
        /\ io' = "read" /\ UNCHANGED <<cache, lh, tail>>
    BY <1>11 DEF BwriteCopy1Head
  <2>2. \A d \in 0..1 : Len(disk'[d][0]) <= NLOG - 1
    BY <1>0, <2>1, WriteCopyType, SMTT(30)
  <2> QED
    BY <1>0, <1>a, <2>1, <2>2, SMTT(30) DEF LogInv
<1>12. ASSUME ReadHead PROVE LogInv'
  <2>1. /\ step = "rdhead" /\ cache' = Bread(cache, 0) /\ lh' = cache'[0]
        /\ step' = IF lh' = <<>> THEN "clear" ELSE "install"
        /\ UNCHANGED <<disk, tail, io>>
    BY <1>12, Zenon DEF ReadHead
  <2>2. lh' \in Seq(Home) /\ Len(lh') <= NLOG - 1
    BY <1>0, <2>1, BreadHeader
  <2>3. tail = 0 /\ io = "read"
    BY <1>0, <2>1 DEF RunInv
  <2>4. lh' # <<>> => Len(lh') > 0
    BY <2>2, SMTT(30)
  <2> QED
    BY <1>0, <2>1, <2>2, <2>3, <2>4, SMTT(30) DEF LogInv
<1>13. ASSUME FinishBoot PROVE LogInv'
  <2>1. io = "read"
    BY <1>0, <1>13, SMTT(30) DEF FinishBoot, LogInv
  <2> QED
    BY <1>0, <1>13, <2>1, SMTT(30) DEF FinishBoot, LogInv
<1>14. ASSUME NEW a \in Addr, Recycle(a) PROVE LogInv'
  <2>1. /\ a \notin Held /\ cache' = [cache EXCEPT ![a] = None]
        /\ UNCHANGED <<disk, lh, step, tail, io>>
    BY <1>14, Zenon DEF Recycle
  <2>2. Target' = Target
    BY <2>1 DEF Target
  <2>3. cache'[0] = None \/ cache'[0] = cache[0]
    BY <1>a, <1>b, <2>1
  <2>4. io # "read" => cache'[Target] # None
    <3>1. SUFFICES ASSUME io # "read" PROVE cache'[Target] # None
      OBVIOUS
    <3>2. Target \in Addr /\ cache[Target] # None /\ step \in {"log", "head", "install", "clear"}
      BY <1>0, <3>1, TargetType DEF LogInv
    <3>3. Target \in Held
      BY <3>1, <3>2, SMTT(30) DEF Target, Held
    <3> QED
      BY <1>b, <2>1, <3>2, <3>3
  <2> QED
    BY <1>0, <2>1, <2>2, <2>3, <2>4, SMTT(30) DEF LogInv
<1>15. ASSUME NEW d \in DiskFails, ForceDiskFail(d) PROVE LogInv'
  BY <1>c, <1>15, ZenonT(30) DEF ForceDiskFail
<1>16. ASSUME NEW a \in BlockFails, ForceFail(a) PROVE LogInv'
  BY <1>c, <1>16, ZenonT(30) DEF ForceFail
<1>17. ASSUME Crash PROVE LogInv'
  BY <1>0, <1>17, <1>a, SMTT(30) DEF Crash, LogInv
<1>18. CASE UNCHANGED vars
  BY <1>c, <1>18 DEF vars
<1> QED
  BY <1>1, <1>2, <1>3, <1>4, <1>5, <1>6, <1>7, <1>8, <1>9, <1>10, <1>11,
     <1>12, <1>13, <1>14, <1>15, <1>16, <1>17, <1>18, SMTT(30)
     DEF Next, ProcStep, CommitStep, BootStep

-----------------------------------------------------------------------------
(* The theorems. *)

\* The machine starts in a state of the invariant.
LEMMA InitInd == Init => Ind
<1> SUFFICES ASSUME Init PROVE Ind
  OBVIOUS
<1>1. <<>> \in Seq(Home) /\ Len(<<>>) = 0 /\ 0 \in Addr /\ 0 <= NLOG - 1 /\ 0 \in 0..(RefMod - 1)
  BY DEF Addr
<1>2. PICK f \in [Home -> Data] :
        LET image(g) == [a \in Addr |->
                           IF a = 0 THEN <<>> ELSE IF a \in Slot THEN Zero ELSE g[a]]
        IN  /\ mem = f
            /\ disk = [c \in 0..1 |-> IF c = 0 \/ Mirrored THEN image(f)
                                      ELSE image([b \in Home |-> Zero])]
  BY Zenon DEF Init
<1> DEFINE img(g) == [a \in Addr |->
                        IF a = 0 THEN <<>> ELSE IF a \in Slot THEN Zero ELSE g[a]]
<1>3. ASSUME NEW g \in [Home -> Data \cup {Zero}]
      PROVE  img(g) \in [Addr -> Block] /\ img(g)[0] = <<>>
  BY <1>1 DEF Addr, Block
<1>4. f \in [Home -> Data \cup {Zero}] /\ [b \in Home |-> Zero] \in [Home -> Data \cup {Zero}]
  OBVIOUS
<1>5. disk = [c \in 0..1 |-> IF c = 0 \/ Mirrored THEN img(f) ELSE img([b \in Home |-> Zero])]
  BY <1>2
<1> HIDE DEF img
<1>6. disk \in [0..1 -> [Addr -> Block]] /\ \A c \in 0..1 : disk[c][0] = <<>>
  BY <1>3, <1>4, <1>5
<1>7. mem \in [Home -> Block]
  BY <1>2 DEF Block
<1>8. TypeOK
  <2>1. /\ cache = [a \in Addr |-> None] /\ refcnt = [b \in Home |-> 0]
        /\ lh = <<>> /\ outstanding = 0 /\ tail = 0 /\ crashes = 0
        /\ pc = [p \in Proc |-> "idle"] /\ wrote = [p \in Proc |-> {}]
        /\ skip = {} /\ failDisk = -1 /\ failBlock = None
        /\ step = "rdhead" /\ io = "read"
    BY DEF Init
  <2>2. committing \in BOOLEAN /\ booting \in BOOLEAN
    BY Zenon DEF Init
  <2>3. /\ lh \in Seq(Home)
        /\ cache \in [Addr -> {None} \cup Block] /\ cache[0] \in {None} \cup Seq(Home)
    BY <1>1, <2>1
  <2>4. refcnt \in [Home -> 0..(RefMod - 1)] /\ crashes \in 0..MaxCrashes
    BY <1>1, <2>1
  <2>5. \A c \in 0..1 : disk[c][0] \in Seq(Home)
    BY <1>1, <1>6, Zenon
  <2>6. /\ outstanding \in Int /\ tail \in Nat /\ skip \in SUBSET {0, 1}
        /\ failDisk \in {-1, 0, 1} /\ failBlock \in Addr \cup {None}
    BY <2>1
  <2>7. /\ pc \in [Proc -> {"idle", "asleep", "woken", "op", "logging", "commit", "panic"}]
        /\ wrote \in [Proc -> SUBSET Home]
        /\ step \in {"none", "rdhead", "log", "head", "install", "clear", "done"}
        /\ io \in {"read", "w0", "w1"}
    BY <2>1
  <2>8. unpinned \in SUBSET Home /\ taken \in BOOLEAN
    BY Zenon DEF Init
  <2> QED
    BY <1>6, <1>7, <2>2, <2>3, <2>4, <2>5, <2>6, <2>7, <2>8, Zenon DEF TypeOK
<1>9. InOp = {} /\ InCommit = {} /\ NoPanic
  BY DEF Init, InOp, InCommit, NoPanic
<1>10. RunInv /\ CommitExclusive
  BY <1>9, FS_EmptySet, SMTT(30) DEF Init, RunInv, CommitExclusive
<1>11. LogInv
  BY <1>1, <1>6 DEF Init, LogInv
<1>12. ReserveInv
  BY <1>9 DEF Init, ReserveInv
<1> QED
  BY <1>8, <1>9, <1>10, <1>11, <1>12 DEF Ind

\* Every reachable state satisfies the invariant.
LEMMA Invariance == ASSUME Footprint PROVE Spec => []Ind
<1>1. Ind /\ [Next]_vars => Ind'
  BY TypeStep, ExclusionStep, ReserveStep, PanicStep, LogStep DEF Ind
<1> QED
  BY <1>1, InitInd, PTL DEF Spec

\* Type correctness: with operations of a size the reservation allows, both
\* copies and the buffer of the header always hold a header, home blocks and log
\* slots hold blocks, and refcnt stays in its unsigned range.
THEOREM TypeCorrect == ASSUME Footprint PROVE Spec => []TypeOK
<1>1. Ind => TypeOK
  BY DEF Ind
<1> QED
  BY <1>1, Invariance, PTL

\* begin_op and end_op keep operations out of a commit: at most one process
\* commits, only when nobody is inside an operation, and outstanding is exact,
\* through sleeps, wakeups, crashes and recovery.
THEOREM Exclusion == ASSUME Footprint PROVE Spec => []CommitExclusive
<1>1. Ind => CommitExclusive
  BY SMTT(30) DEF Ind
<1> QED
  BY <1>1, Invariance, PTL

\* begin_op's reservation suffices: for any number of processes and any log
\* whose missing entries are fewer than one operation's unused reservation, no
\* log_write and no end_op panics and the log never outgrows its slots, although
\* log_write tests the log's size without log.lock.
THEOREM ReservationSuffices == ASSUME Footprint PROVE Spec => []LogFits
<1>1. Ind => LogFits
  BY DEF Ind, LogFits, LogInv
<1> QED
  BY <1>1, Invariance, PTL
=============================================================================
