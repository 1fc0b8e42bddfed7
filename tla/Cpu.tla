-------------------------------- MODULE Cpu ---------------------------------
(***************************************************************************)
(* CPUs, spin locks, interrupts and the scheduler as device drivers see    *)
(* them: kernel/spinlock.c, kernel/trap.c, kernel/plic.c and the parts of  *)
(* kernel/proc.c that switch between a process and the scheduler.          *)
(*                                                                         *)
(* A CPU runs a process or, with proc = 0, the scheduler; an interrupt     *)
(* puts a handler on top of it, whose position is trap.  p->lock is held   *)
(* only inside single steps, so it appears in noff and intena alone.       *)
(***************************************************************************)
EXTENDS Integers, Sequences, FiniteSets

CONSTANTS
    Cpus,         \* the CPUs; number 1 is cpuid() 0
    Procs,        \* the processes, numbers from 1
    Workloads     \* what a run consists of, one of: the CPUs, the calls of each
                  \* process, the keys typed in order (a set of choices each),
                  \* the kills and the timer interrupts of each CPU

ASSUME CpuAssumption ==
    /\ 1 \in Cpus
    /\ Cpus \subseteq Nat \ {0}
    /\ Procs \subseteq Nat \ {0}
    /\ \A l \in Workloads :
         /\ l.calls \in [Procs -> Seq([call : {"rw", "cwrite", "cread", "nap"}, n : Nat])]
         /\ l.cpus \subseteq Cpus
         /\ {l.kills} \cup {l.timer[c] : c \in Cpus} \subseteq Nat

VARIABLES
    cpu,       \* cpu[c]: struct cpu, sstatus.SIE and the handler's position
    lk,        \* lk[l]: the CPU that holds spin lock l, or 0
    proc,      \* proc[p]: the process, its position and its saved intena
    pending,   \* interrupts the PLIC may deliver
    claimed,   \* interrupts claimed and not completed
    ticks,     \* ticks
    bound,     \* keys, kills and timer interrupts the run may still see
    panic      \* the message of panic, or "no"

cpuVars == <<cpu, lk, proc, pending, claimed, ticks, bound, panic>>

\* Sleep channels; the number of a process stands for its disk buffer.
NOCHAN == 0
FREE == -1      \* &disk.free[0]
CONS == -2      \* &cons.r
TX == -3        \* &uart_tx_r
TICKS == -4     \* &ticks

Locks == {"disk", "cons", "tx", "ticks"}

\* The acquire calls of the handlers and drivers: position, lock, what follows.
Entry ==
    [rw     |-> [lock |-> "disk",  next |-> "alloc"],
     waited |-> [lock |-> "disk",  next |-> "done"],
     cwrite |-> [lock |-> "cons",  next |-> "copy"],
     putc   |-> [lock |-> "tx",    next |-> "put"],
     cread  |-> [lock |-> "cons",  next |-> "get"],
     nap    |-> [lock |-> "ticks", next |-> "naps"],
     renap  |-> [lock |-> "ticks", next |-> "napping"],
     disk   |-> [lock |-> "disk",  next |-> "drain"],
     key    |-> [lock |-> "cons",  next |-> "line"],
     send   |-> [lock |-> "tx",    next |-> "start"],
     timer  |-> [lock |-> "ticks", next |-> "tick"]]

\* Where the code running on c is: in a handler, in a process, or scheduling.
Position(c) ==
    CASE cpu[c].trap # "none" -> cpu[c].trap
      [] cpu[c].trap = "none" /\ cpu[c].proc # 0 -> proc[cpu[c].proc].pc
      [] OTHER -> "scheduler"

-----------------------------------------------------------------------------
(* spinlock.c *)

PushOff(r) ==
    [r EXCEPT !.sie = FALSE,
              !.intena = IF r.noff = 0 THEN r.sie ELSE @,
              !.noff = @ + 1]

PopOff(r) ==
    [r EXCEPT !.noff = @ - 1,
              !.sie = (r.noff = 1 /\ r.intena) \/ @]

\* The record of c after its code moved on to position x.
Goto(c, r, x) ==
    IF cpu[c].trap # "none"
    THEN /\ cpu' = [cpu EXCEPT ![c] = [r EXCEPT !.trap = x]]
         /\ UNCHANGED proc
    ELSE /\ cpu' = [cpu EXCEPT ![c] = r]
         /\ proc' = [proc EXCEPT ![r.proc].pc = x]

\* acquire turns interrupts off, then spins; a CPU must not hold the lock yet.
AcquireSpin(c) ==
    /\ panic = "no"
    /\ ~cpu[c].spin
    /\ Position(c) \in DOMAIN Entry
    /\ cpu' = [cpu EXCEPT ![c] = [PushOff(cpu[c]) EXCEPT !.spin = TRUE]]
    /\ panic' = IF lk[Entry[Position(c)].lock] = c THEN "acquire" ELSE "no"
    /\ UNCHANGED <<lk, proc, pending, claimed, ticks, bound>>

Acquire(c) ==
    /\ panic = "no"
    /\ cpu[c].spin
    /\ LET e == Entry[Position(c)] IN
         /\ lk[e.lock] = 0
         /\ lk' = [lk EXCEPT ![e.lock] = c]
         /\ Goto(c, [cpu[c] EXCEPT !.spin = FALSE], e.next)
    /\ UNCHANGED <<pending, claimed, ticks, bound, panic>>

\* c holds l and is at position x.
Holds(c, l, x) == panic = "no" /\ Position(c) = x /\ lk[l] = c

\* release(l), after which the code on c is at x.
Release(c, l, x) ==
    /\ lk' = [lk EXCEPT ![l] = 0]
    /\ Goto(c, PopOff(cpu[c]), x)

-----------------------------------------------------------------------------
(* proc.c *)

\* wakeup(ch), in the processes ps.
Wakeup(ps, ch) ==
    [p \in Procs |-> IF ps[p].state = "SLEEPING" /\ ps[p].chan = ch
                     THEN [ps[p] EXCEPT !.state = "RUNNABLE"]
                     ELSE ps[p]]

\* The scheduler's side of the switch: it releases p->lock.
ToScheduler(r) == [PopOff(r) EXCEPT !.proc = 0, !.trap = "none"]

\* sleep(ch, l): p->lock replaces l, so sched wants noff to be 1 already.
Sleep(c, ps, ch, l, x) ==
    /\ lk' = [lk EXCEPT ![l] = 0]
    /\ IF cpu[c].noff # 1
       THEN /\ panic' = "sched locks"
            /\ proc' = ps
            /\ UNCHANGED cpu
       ELSE /\ cpu' = [cpu EXCEPT ![c] = ToScheduler(cpu[c])]
            /\ proc' = [ps EXCEPT ![cpu[c].proc] =
                          [@ EXCEPT !.state = "SLEEPING", !.chan = ch, !.pc = x,
                                    !.intena = cpu[c].intena, !.frame = "none"]]
            /\ UNCHANGED panic

\* Mutant: sched leaves intena as it finds it.
ResumedKeeps(r, p) == [r EXCEPT !.proc = p, !.trap = proc[p].frame]

\* The CPU after swtch to p: sched puts the process's own intena back.
Resumed(r, p) == [r EXCEPT !.proc = p, !.trap = proc[p].frame, !.intena = proc[p].intena]

\* scheduler finds p RUNNABLE; p releases its lock and goes on.
Schedule(c, p) ==
    /\ panic = "no"
    /\ cpu[c].proc = 0
    /\ cpu[c].trap = "none"
    /\ proc[p].state = "RUNNABLE"
    /\ cpu' = [cpu EXCEPT ![c] = PopOff(Resumed(PushOff(@), p))]
    /\ proc' = [proc EXCEPT ![p].state = "RUNNING", ![p].chan = NOCHAN]
    /\ UNCHANGED <<lk, pending, claimed, ticks, bound, panic>>

\* The top of the scheduler's loop turns interrupts on.
SchedulerTop(c) ==
    /\ panic = "no"
    /\ Position(c) = "scheduler"
    /\ ~cpu[c].sie
    /\ cpu' = [cpu EXCEPT ![c].sie = TRUE]
    /\ UNCHANGED <<lk, proc, pending, claimed, ticks, bound, panic>>

Kill(p) ==
    /\ panic = "no"
    /\ bound.kills > 0
    /\ bound' = [bound EXCEPT !.kills = @ - 1]
    /\ proc' = [proc EXCEPT ![p].killed = TRUE,
                            ![p].state = IF @ = "SLEEPING" THEN "RUNNABLE" ELSE @]
    /\ UNCHANGED <<cpu, lk, pending, claimed, ticks, panic>>

\* usertrap lets a killed process exit; exit ends in sched.
Exit(c, p) ==
    /\ panic = "no"
    /\ Position(c) = "user"
    /\ cpu[c].proc = p
    /\ proc[p].killed \/ proc[p].todo = <<>>
    /\ cpu' = [cpu EXCEPT ![c] = ToScheduler(PushOff(@))]
    /\ proc' = [proc EXCEPT ![p].state = "ZOMBIE"]
    /\ UNCHANGED <<lk, pending, claimed, ticks, bound, panic>>

\* usertrap: the process's next system call, with interrupts on.
Syscall(c, p) ==
    /\ panic = "no"
    /\ Position(c) = "user"
    /\ cpu[c].proc = p
    /\ proc[p].todo # <<>>
    /\ ~proc[p].killed
    /\ LET s == Head(proc[p].todo) IN
         proc' = [proc EXCEPT ![p] = [@ EXCEPT !.pc = s.call, !.left = s.n, !.size = s.n,
                                               !.todo = Tail(@)]]
    /\ UNCHANGED <<cpu, lk, pending, claimed, ticks, bound, panic>>

-----------------------------------------------------------------------------
(* trap.c *)

\* Mutant: the interrupt is completed at once, before the handler runs.
ClaimBriefly(irq) == UNCHANGED claimed

\* plic_claim; until plic_complete the PLIC gives the interrupt to nobody else.
Claim(irq) == claimed' = claimed \cup {irq}

\* devintr claims a device's interrupt.
Interrupt(c, irq) ==
    /\ panic = "no"
    /\ cpu[c].sie
    /\ irq \in pending \ claimed
    /\ pending' = pending \ {irq}
    /\ Claim(irq)
    /\ cpu' = [cpu EXCEPT ![c].sie = FALSE,
                          ![c].trap = IF irq = "uart" THEN "getc" ELSE "disk"]
    /\ UNCHANGED <<lk, proc, ticks, bound, panic>>

\* The handler is done: plic_complete, in the step that ends it.
Completed(irq) == claimed' = claimed \ {irq}

\* The timer; only CPU 1 counts the tick.
TimerInterrupt(c) ==
    /\ panic = "no"
    /\ cpu[c].sie
    /\ bound.timer[c] > 0
    /\ bound' = [bound EXCEPT !.timer[c] = @ - 1]
    /\ cpu' = [cpu EXCEPT ![c].sie = FALSE,
                          ![c].trap = IF c = 1 THEN "timer" ELSE "yield"]
    /\ UNCHANGED <<lk, proc, pending, claimed, ticks, panic>>

Clockintr(c) ==
    /\ Holds(c, "ticks", "tick")
    /\ ticks' = ticks + 1
    /\ lk' = [lk EXCEPT !["ticks"] = 0]
    /\ cpu' = [cpu EXCEPT ![c] = [PopOff(@) EXCEPT !.trap = "yield"]]
    /\ proc' = Wakeup(proc, TICKS)
    /\ UNCHANGED <<pending, claimed, bound, panic>>

\* kerneltrap and usertrap give up the CPU after a timer interrupt.
Yield(c) ==
    /\ panic = "no"
    /\ cpu[c].trap = "yield"
    /\ LET p == cpu[c].proc
           r == PushOff(cpu[c]) IN
         IF p = 0
         THEN /\ cpu' = [cpu EXCEPT ![c].trap = "return"]
              /\ UNCHANGED proc
         ELSE /\ cpu' = [cpu EXCEPT ![c] = ToScheduler(r)]
              /\ proc' = [proc EXCEPT ![p] =
                            [@ EXCEPT !.state = "RUNNABLE", !.intena = r.intena,
                                      !.frame = "return"]]
    /\ UNCHANGED <<lk, pending, claimed, ticks, bound, panic>>

\* The end of kerneltrap and of usertrapret: sret turns interrupts on again.
TrapReturn(c) ==
    /\ panic = "no"
    /\ cpu[c].trap = "return"
    /\ cpu' = [cpu EXCEPT ![c].sie = TRUE, ![c].trap = "none"]
    /\ UNCHANGED <<lk, proc, pending, claimed, ticks, bound, panic>>

\* sys_sleep's loop, entered at tick t0: until left ticks have passed, or a kill.
NapLoop(c, t0) ==
    LET p == cpu[c].proc IN
    IF ticks - t0 >= proc[p].left \/ proc[p].killed
    THEN Release(c, "ticks", "user") /\ UNCHANGED panic
    ELSE Sleep(c, [proc EXCEPT ![p].size = t0], TICKS, "ticks", "renap")

NapStart(c) ==
    /\ Holds(c, "ticks", "naps")
    /\ NapLoop(c, ticks)
    /\ UNCHANGED <<pending, claimed, ticks, bound>>

NapMore(c) ==
    /\ Holds(c, "ticks", "napping")
    /\ NapLoop(c, proc[cpu[c].proc].size)
    /\ UNCHANGED <<pending, claimed, ticks, bound>>

-----------------------------------------------------------------------------
CpuInit ==
    /\ bound \in Workloads
    /\ cpu = [c \in Cpus |-> [proc |-> 0, sie |-> c \in bound.cpus, noff |-> 0, intena |-> FALSE,
                              trap |-> IF c \in bound.cpus THEN "none" ELSE "off",
                              spin |-> FALSE, key |-> "none", echo |-> 0]]
    /\ lk = [l \in Locks |-> 0]
    /\ proc = [p \in Procs |-> [state |-> IF bound.calls[p] = <<>> THEN "ZOMBIE" ELSE "RUNNABLE",
                                chan |-> NOCHAN, pc |-> "user", intena |-> FALSE,
                                frame |-> "return", killed |-> FALSE,
                                todo |-> bound.calls[p], left |-> 0, size |-> 0]]
    /\ pending = {}
    /\ claimed = {}
    /\ ticks = 0
    /\ panic = "no"

\* The steps that touch no device.
CpuNext ==
    \/ \E c \in Cpus :
         \/ AcquireSpin(c)
         \/ Acquire(c)
         \/ SchedulerTop(c)
         \/ TimerInterrupt(c)
         \/ Clockintr(c)
         \/ Yield(c)
         \/ TrapReturn(c)
         \/ NapStart(c)
         \/ NapMore(c)
         \/ \E irq \in {"uart", "disk"} : Interrupt(c, irq)
         \/ \E p \in Procs : Schedule(c, p) \/ Syscall(c, p) \/ Exit(c, p)
    \/ \E p \in Procs : Kill(p)
=============================================================================
