------------------------------- MODULE Virtio -------------------------------
(***************************************************************************)
(* The disk driver, kernel/virtio_disk.c: descriptors, the two rings, the  *)
(* completion interrupt and the sleeping processes; and the device, which  *)
(* may finish requests in any order.                                       *)
(*                                                                         *)
(* Every process has one buffer, named by the process's number.            *)
(***************************************************************************)
EXTENDS Cpu

CONSTANTS
    NUM,        \* descriptors, and entries of each ring
    StartIdx    \* ring positions the run starts from: requests made before

ASSUME VirtioAssumption ==
    /\ NUM \in Nat \ {0}
    /\ StartIdx \subseteq 0..(NUM - 1)

VARIABLES
    free,       \* the descriptors that are free
    desc,       \* desc[h]: the chain that starts at h and its buffer
    info,       \* info[h]: the buffer of the request with head h, or 0
    busy,       \* the buffers with b->disk = 1
    avail,      \* the avail ring
    availIdx,   \* avail[1], modulo NUM
    used,       \* the used ring's elems
    usedId,     \* used->id, modulo NUM
    usedIdx,    \* how far the driver has looked in it
    seen,       \* device: how far it has looked in avail
    inflight,   \* device: the requests it is working on
    moved,      \* history: the buffers whose last request the device finished
    missed      \* history: an acknowledgement covered a completion not looked at

virtioVars == <<free, desc, info, busy, avail, availIdx, used, usedId, usedIdx,
                seen, inflight, moved, missed>>

Desc == 0..(NUM - 1)
After(i) == (i + 1) % NUM
NoDesc == [chain |-> {}, buf |-> 0]

-----------------------------------------------------------------------------
(* The driver, called by processes. *)

\* alloc3_desc takes the lowest free descriptors, the first one as head.
Lowest(n) == CHOOSE s \in SUBSET free :
                 Cardinality(s) = n /\ \A i \in s, j \in free \ s : i < j
Head3(s) == CHOOSE i \in s : \A j \in s : i <= j

Alloc3 == IF Cardinality(free) >= 3 THEN Lowest(3) ELSE {}

\* Mutant: free_desc does not wake anyone.
FreeDescSilent(ps) == ps

\* The processes after free_desc, which wakes those who wait for descriptors.
FreeDesc(ps) == Wakeup(ps, FREE)

\* No room: free_desc gives back what was taken, which wakes the other waiters.
RwFull(c) ==
    /\ Holds(c, "disk", "alloc")
    /\ Alloc3 = {}
    /\ Sleep(c, IF free = {} THEN proc ELSE FreeDesc(proc), FREE, "disk", "rw")
    /\ UNCHANGED <<pending, claimed, ticks, bound, virtioVars>>

\* The request is put in the ring; the process waits until b->disk is cleared.
RwSubmit(c) ==
    /\ Holds(c, "disk", "alloc")
    /\ Alloc3 # {}
    /\ LET p == cpu[c].proc
           h == Head3(Alloc3) IN
         /\ free' = free \ Alloc3
         /\ desc' = [desc EXCEPT ![h] = [chain |-> Alloc3, buf |-> p]]
         /\ info' = [info EXCEPT ![h] = p]
         /\ busy' = busy \cup {p}
         /\ avail' = [avail EXCEPT ![availIdx] = h]
         /\ availIdx' = After(availIdx)
         /\ moved' = moved \ {p}
         /\ Sleep(c, [proc EXCEPT ![p].left = h], p, "disk", "waited")
    /\ UNCHANGED <<used, usedId, usedIdx, seen, inflight, missed,
                   pending, claimed, ticks, bound>>

\* Mutant: a wakeup is taken for the end of the request.
StillBusyNever(p) == FALSE

StillBusy(p) == p \in busy

RwWait(c) ==
    /\ Holds(c, "disk", "done")
    /\ StillBusy(cpu[c].proc)
    /\ Sleep(c, proc, cpu[c].proc, "disk", "waited")
    /\ UNCHANGED <<pending, claimed, ticks, bound, virtioVars>>

\* free_chain wakes those who wait for descriptors.
RwDone(c) ==
    /\ Holds(c, "disk", "done")
    /\ ~StillBusy(cpu[c].proc)
    /\ LET p == cpu[c].proc
           h == proc[p].left IN
         /\ info' = [info EXCEPT ![h] = 0]
         /\ free' = free \cup desc[h].chain
         /\ panic' = IF desc[h].chain \cap free # {} THEN "virtio_disk_intr 2" ELSE "no"
         /\ lk' = [lk EXCEPT !["disk"] = 0]
         /\ cpu' = [cpu EXCEPT ![c] = PopOff(@)]
         /\ proc' = [FreeDesc(proc) EXCEPT ![p].pc = "user", ![p].left = 0]
    /\ UNCHANGED <<desc, busy, avail, availIdx, used, usedId, usedIdx, seen, inflight,
                   moved, missed, pending, claimed, ticks, bound>>

-----------------------------------------------------------------------------
(* virtio_disk_intr *)

\* One entry of the used ring.
Drain(c) ==
    /\ Holds(c, "disk", "drain")
    /\ usedIdx # usedId
    /\ LET b == info[used[usedIdx]] IN
         /\ busy' = busy \ {b}
         /\ proc' = Wakeup(proc, b)
         /\ panic' = IF b = 0 THEN "kerneltrap" ELSE "no"
    /\ usedIdx' = After(usedIdx)
    /\ UNCHANGED <<free, desc, info, avail, availIdx, used, usedId, seen, inflight, moved, missed,
                   cpu, lk, pending, claimed, ticks, bound>>

\* The ring looks empty; the acknowledgement comes later.
DrainEnd(c) ==
    /\ Holds(c, "disk", "drain")
    /\ usedIdx = usedId
    /\ Goto(c, cpu[c], "ack")
    /\ UNCHANGED <<lk, pending, claimed, ticks, bound, panic, virtioVars>>

\* The acknowledgement lowers the line, also for what came in meanwhile.
Ack(c) ==
    /\ Holds(c, "disk", "ack")
    /\ pending' = pending \ {"disk"}
    /\ missed' = (missed \/ usedIdx # usedId)
    /\ Completed("disk")
    /\ Release(c, "disk", "return")
    /\ UNCHANGED <<free, desc, info, busy, avail, availIdx, used, usedId, usedIdx, seen, inflight,
                   moved, ticks, bound, panic>>

-----------------------------------------------------------------------------
(* The device. *)

DeviceFetch ==
    /\ seen # availIdx
    /\ seen' = After(seen)
    /\ inflight' = inflight \cup {[head |-> avail[seen], buf |-> desc[avail[seen]].buf]}
    /\ UNCHANGED <<free, desc, info, busy, avail, availIdx, used, usedId, usedIdx, moved, missed,
                   cpuVars>>

DeviceFinish(req) ==
    /\ inflight' = inflight \ {req}
    /\ moved' = moved \cup {req.buf}
    /\ used' = [used EXCEPT ![usedId] = req.head]
    /\ usedId' = After(usedId)
    /\ pending' = pending \cup {"disk"}
    /\ UNCHANGED <<free, desc, info, busy, avail, availIdx, usedIdx, seen, missed,
                   cpu, lk, proc, claimed, ticks, bound, panic>>

-----------------------------------------------------------------------------
VirtioInit ==
    /\ free = Desc
    /\ desc = [h \in Desc |-> NoDesc]
    /\ info = [h \in Desc |-> 0]
    /\ busy = {}
    /\ avail = [i \in Desc |-> 0]
    /\ used = [i \in Desc |-> 0]
    /\ availIdx \in StartIdx
    /\ usedId = availIdx
    /\ usedIdx = availIdx
    /\ seen = availIdx
    /\ inflight = {}
    /\ moved = {}
    /\ missed = FALSE

VirtioNext ==
    \/ \E c \in Cpus :
         \/ RwFull(c)
         \/ RwSubmit(c)
         \/ RwWait(c)
         \/ RwDone(c)
         \/ Drain(c)
         \/ DrainEnd(c)
         \/ Ack(c)
    \/ DeviceFetch
    \/ \E req \in inflight : DeviceFinish(req)
=============================================================================
