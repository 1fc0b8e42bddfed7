------------------------------ MODULE Devices -------------------------------
(***************************************************************************)
(* The disk driver and the console on the same CPUs: processes, interrupt  *)
(* handlers, timer and devices interleaved.                                *)
(***************************************************************************)
EXTENDS Virtio, Console

vars == <<cpuVars, virtioVars, consoleVars>>

TypeOK ==
    /\ cpu \in [Cpus -> [proc : Procs \cup {0}, sie : BOOLEAN, noff : Nat, intena : BOOLEAN,
                         trap : {"none", "timer", "tick", "yield", "return", "disk", "drain", "ack",
                                 "getc", "key", "line", "echo", "echoed", "send", "start", "thr",
                                 "uartend", "off"},
                         spin : BOOLEAN, key : Keys \cup {"none"}, echo : 0..3]]
    /\ lk \in [Locks -> Cpus \cup {0}]
    /\ \A p \in Procs : proc[p].state \in {"RUNNABLE", "RUNNING", "SLEEPING", "ZOMBIE"}
    /\ pending \in SUBSET {"uart", "disk"}
    /\ claimed \in SUBSET {"uart", "disk"}
    /\ free \in SUBSET Desc
    /\ info \in [Desc -> Procs \cup {0}]
    /\ busy \in SUBSET Procs
    /\ {r, w, e} \subseteq 0..(UINT - 1)
    /\ {txw, txr} \subseteq 0..(UART_TX_BUF_SIZE - 1)

Init == CpuInit /\ VirtioInit /\ ConsoleInit

\* A process that nothing more will wake in this run: no key, no tick is left,
\* or a completion was lost.
Waits(p) ==
    /\ proc[p].state = "SLEEPING"
    /\ \/ proc[p].chan = CONS /\ bound.keys = <<>>
       \/ proc[p].chan = TICKS /\ bound.timer[1] = 0
       \/ proc[p].chan \in Procs \cup {FREE} /\ missed

\* The run is over: a panic, or every process is done or waits for good.
Stopped ==
    /\ \/ panic # "no"
       \/ \A p \in Procs : proc[p].state = "ZOMBIE" \/ Waits(p)
    /\ UNCHANGED vars

Next ==
    \/ CpuNext /\ UNCHANGED <<virtioVars, consoleVars>>
    \/ VirtioNext /\ UNCHANGED consoleVars
    \/ ConsoleNext /\ UNCHANGED virtioVars
    \/ Stopped

Spec == Init /\ [][Next]_vars

-----------------------------------------------------------------------------
(* Properties. *)

\* acquire, release, push_off, pop_off and sched (spinlock.c, proc.c) agree on
\* every CPU, through sleeps, switches and nested locks: noff counts the locks
\* held or spun for, interrupts are off while one is held and in every handler
\* up to its return, the scheduler holds none, and no check of spinlock.c or
\* sched fails but one: uartputc, called by consolewrite with cons.lock held,
\* finds the transmit buffer full and sleeps.
LocksMaskInterrupts ==
    /\ panic = "no" =>
         \A c \in Cpus :
           LET held == {l \in Locks : lk[l] = c} IN
           /\ cpu[c].noff = Cardinality(held) + (IF cpu[c].spin THEN 1 ELSE 0)
           /\ cpu[c].noff > 0 \/ cpu[c].trap # "none" => ~cpu[c].sie
           /\ Position(c) = "scheduler" => held = {}
    /\ panic \in {"no", "sched locks"}
    /\ panic = "sched locks" => TxFull /\ lk["cons"] # 0

\* No wakeup is lost: a process that sleeps in virtio_disk_rw, consoleread or
\* alloc3_desc's loop sleeps for something that has not happened yet, and a
\* completion the driver has not looked at is still announced by an interrupt,
\* unless virtio_disk_intr acknowledged it in the moment between its last look
\* at the ring and the acknowledgement.
NoLostWakeup ==
    /\ \A p \in Procs :
         proc[p].state = "SLEEPING" =>
           /\ proc[p].chan = CONS => r = w
           /\ proc[p].chan = FREE => Cardinality(free) < 3
           /\ proc[p].chan \in Procs => p \in busy
    /\ usedIdx # usedId =>
         "disk" \in pending \cup claimed \/ missed

\* A descriptor is free or part of exactly one request, and virtio_disk_rw
\* returns only when the device has finished the transfer of that very buffer,
\* whatever the order of completions and whoever kills the process meanwhile.
RequestsExact ==
    /\ \A p \in Procs : proc[p].pc \in {"waited", "done"} =>
         /\ p \notin busy => p \in moved
         /\ desc[proc[p].left].buf = p
         /\ desc[proc[p].left].chain \cap free = {}
         /\ Cardinality(desc[proc[p].left].chain) = 3
         /\ \A q \in Procs \ {p} : proc[q].pc \in {"waited", "done"} =>
              desc[proc[p].left].chain \cap desc[proc[q].left].chain = {}
    /\ Cardinality(free) =
         NUM - 3 * Cardinality({p \in Procs : proc[p].pc \in {"waited", "done"}})

\* What is in cons.buf between r and e is exactly the accepted characters that
\* were neither erased nor read, and what is before w was committed by a
\* newline, an end of file or a full buffer: edits never reach it, and new
\* input never overwrites unread input, also when the indices wrap.
InputWindow ==
    /\ ready <= Len(line) /\ Len(line) <= INPUT_BUF
    /\ Minus(e, r) = Len(line)
    /\ Minus(w, r) = ready
    /\ \A i \in 1..Len(line) : buf[Slot(Plus(r, i - 1))] = line[i]

\* The transmit register is never written while it is full, although echoing
\* (uartputc_sync) does not take uart_tx_lock: cons.lock and the PLIC keep an
\* echo, a writer and the interrupt handler apart.  The kernel's own printf, which
\* has neither, is not part of the model.
NoOverrun == ~overrun
=============================================================================
