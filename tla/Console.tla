------------------------------ MODULE Console -------------------------------
(***************************************************************************)
(* The console: line editing and reading (kernel/console.c) and the        *)
(* UART's transmit buffer and interrupt (kernel/uart.c).                   *)
(*                                                                         *)
(* The characters written by processes are not told apart; those typed     *)
(* are, by what consoleintr does with them.                                *)
(***************************************************************************)
EXTENDS Cpu

CONSTANTS
    INPUT_BUF,         \* size of cons.buf
    UINT,              \* r, w and e wrap here
    StartCons,         \* values r, w and e start from: input read before
    UART_TX_BUF_SIZE   \* size of the transmit buffer; one place stays free

\* What is typed; "a" stands for any character without a meaning of its own.
Keys == {"a", "nl", "cr", "D", "H", "U", "P", "nul"}

ASSUME ConsoleAssumption ==
    /\ INPUT_BUF \in Nat \ {0}
    /\ UINT % INPUT_BUF = 0
    /\ UINT > INPUT_BUF
    /\ StartCons \subseteq 0..(UINT - 1)
    /\ \A l \in Workloads : l.keys \in Seq(SUBSET Keys)
    /\ UART_TX_BUF_SIZE \in Nat \ {0, 1}

VARIABLES
    buf, r, w, e,   \* cons
    txw, txr,       \* uart_tx_w, uart_tx_r
    thr,            \* device: the transmit holding register is full
    rx,             \* device: the character received, or "none"
    line,           \* history: the characters accepted and neither read nor erased
    ready,          \* history: how many of them a reader may have
    overrun         \* history: thr was written while full

consoleVars == <<buf, r, w, e, txw, txr, thr, rx, line, ready, overrun>>
inputVars == <<buf, r, w, e, line, ready>>
uartVars == <<txw, txr, thr, rx, overrun>>

Plus(i, n) == (i + n) % UINT
Minus(i, j) == (i - j) % UINT
Slot(i) == i % INPUT_BUF

-----------------------------------------------------------------------------
(* uart.c *)

NextTx(i) == (i + 1) % UART_TX_BUF_SIZE
TxFull == NextTx(txw) = txr

WriteThr == thr' = TRUE /\ overrun' = (overrun \/ thr)

\* uartputc: room for the character, or sleep for it.
UartPutc(c) ==
    /\ Holds(c, "tx", "put")
    /\ IF TxFull
       THEN /\ Sleep(c, proc, TX, "tx", "putc")
            /\ UNCHANGED txw
       ELSE /\ txw' = NextTx(txw)
            /\ Goto(c, cpu[c], "start")
            /\ UNCHANGED <<lk, panic>>
    /\ UNCHANGED <<inputVars, txr, thr, rx, overrun, pending, claimed, ticks, bound>>

\* uartstart, called from both sides: a character to send and an idle register?
UartTest(c) ==
    /\ Holds(c, "tx", "start")
    /\ Goto(c, cpu[c], CASE txw # txr /\ ~thr -> "thr"
                         [] cpu[c].trap # "none" -> "uartend"
                         [] OTHER -> "putend")
    /\ UNCHANGED <<consoleVars, lk, pending, claimed, ticks, bound, panic>>

UartStart(c) ==
    /\ Holds(c, "tx", "thr")
    /\ txr' = NextTx(txr)
    /\ WriteThr
    /\ IF cpu[c].trap # "none"
       THEN /\ cpu' = [cpu EXCEPT ![c].trap = "start"]
            /\ proc' = Wakeup(proc, TX)
       ELSE /\ proc' = [Wakeup(proc, TX) EXCEPT ![cpu[c].proc].pc = "start"]
            /\ UNCHANGED cpu
    /\ UNCHANGED <<inputVars, txw, rx, lk, pending, claimed, ticks, bound, panic>>

\* uartputc returns to consolewrite's loop.
UartPutEnd(c) ==
    /\ Holds(c, "tx", "putend")
    /\ LET p == cpu[c].proc IN
         /\ lk' = [lk EXCEPT !["tx"] = 0]
         /\ cpu' = [cpu EXCEPT ![c] = PopOff(@)]
         /\ proc' = [proc EXCEPT ![p].pc = "copy", ![p].left = @ - 1]
    /\ UNCHANGED <<consoleVars, pending, claimed, ticks, bound, panic>>

\* uartintr reads the characters that have arrived ...
UartGetc(c) ==
    /\ panic = "no"
    /\ Position(c) = "getc"
    /\ rx' = "none"
    /\ cpu' = [cpu EXCEPT ![c].key = rx,
                          ![c].trap = IF rx = "none" THEN "send" ELSE "key"]
    /\ UNCHANGED <<inputVars, txw, txr, thr, overrun,
                   lk, proc, pending, claimed, ticks, bound, panic>>

\* ... then sends what is buffered and completes the interrupt.
UartIntrEnd(c) ==
    /\ Holds(c, "tx", "uartend")
    /\ Completed("uart")
    /\ Release(c, "tx", "return")
    /\ UNCHANGED <<consoleVars, pending, ticks, bound, panic>>

-----------------------------------------------------------------------------
(* console.c *)

\* consolewrite's loop, cons.lock held; either_copyin may fail.
ConsoleWrite(c) ==
    /\ Holds(c, "cons", "copy")
    /\ \/ /\ proc[cpu[c].proc].left > 0
          /\ Goto(c, cpu[c], "putc")
          /\ UNCHANGED lk
       \/ Release(c, "cons", "user")
    /\ UNCHANGED <<consoleVars, pending, claimed, ticks, bound, panic>>

Input == buf[Slot(r)]

\* No committed input: a killed reader gives up, others sleep.
ReadWait(c) ==
    /\ Holds(c, "cons", "get")
    /\ proc[cpu[c].proc].left > 0
    /\ r = w
    /\ IF proc[cpu[c].proc].killed
       THEN Release(c, "cons", "user") /\ UNCHANGED panic
       ELSE Sleep(c, proc, CONS, "cons", "cread")
    /\ UNCHANGED <<consoleVars, pending, claimed, ticks, bound>>

\* End of file: kept for the next read unless this one has read nothing.
ReadEof(c) ==
    /\ Holds(c, "cons", "get")
    /\ proc[cpu[c].proc].left > 0
    /\ r # w
    /\ Input = "D"
    /\ IF proc[cpu[c].proc].left < proc[cpu[c].proc].size
       THEN UNCHANGED <<r, line, ready>>
       ELSE r' = Plus(r, 1) /\ line' = Tail(line) /\ ready' = ready - 1
    /\ Release(c, "cons", "user")
    /\ UNCHANGED <<buf, w, e, uartVars, pending, claimed, ticks, bound, panic>>

\* A character is consumed; either_copyout may fail, a newline ends the read.
ReadChar(c) ==
    /\ Holds(c, "cons", "get")
    /\ proc[cpu[c].proc].left > 0
    /\ r # w
    /\ Input # "D"
    /\ r' = Plus(r, 1)
    /\ line' = Tail(line)
    /\ ready' = ready - 1
    /\ \/ Release(c, "cons", "user")
       \/ /\ Input # "nl"
          /\ proc' = [proc EXCEPT ![cpu[c].proc].left = @ - 1]
          /\ UNCHANGED <<cpu, lk>>
    /\ UNCHANGED <<buf, w, e, uartVars, pending, claimed, ticks, bound, panic>>

ReadEnd(c) ==
    /\ Holds(c, "cons", "get")
    /\ proc[cpu[c].proc].left = 0
    /\ Release(c, "cons", "user")
    /\ UNCHANGED <<consoleVars, pending, claimed, ticks, bound, panic>>

Erase ==
    /\ e' = Minus(e, 1)
    /\ line' = SubSeq(line, 1, Len(line) - 1)
    /\ UNCHANGED <<buf, r, w, ready>>

\* Something the user may still erase.
Erasable == e # w

ErasableLine == Erasable /\ buf[Slot(Minus(e, 1))] # "nl"

\* Mutant: one character too many.
RoomOne == Minus(e, r) <= INPUT_BUF

Room == Minus(e, r) < INPUT_BUF

\* The characters consputc sends: a backspace is overwritten with a space.
EchoLen(k) == IF k \in {"U", "H"} THEN 3 ELSE 1

\* consoleintr: erase and echo, or echo first and store then, or print the process
\* list with cons.lock held.
ConsoleIntr(c) ==
    /\ Holds(c, "cons", "line")
    /\ LET k == cpu[c].key
           erase == (k = "U" /\ ErasableLine) \/ (k = "H" /\ Erasable)
           store == k \notin {"U", "H", "P", "nul"} /\ Room IN
         /\ IF erase THEN Erase ELSE UNCHANGED inputVars
         /\ IF erase \/ store \/ k = "P"
            THEN Goto(c, [cpu[c] EXCEPT !.echo = EchoLen(k)], "echo") /\ UNCHANGED lk
            ELSE Release(c, "cons", "getc")
    /\ UNCHANGED <<uartVars, pending, claimed, ticks, bound, panic>>

\* uartputc_sync spins for the register.
Echo(c) ==
    /\ Holds(c, "cons", "echo")
    /\ ~thr
    /\ Goto(c, cpu[c], "echoed")
    /\ UNCHANGED <<consoleVars, lk, pending, claimed, ticks, bound, panic>>

Stored(k) == IF k = "cr" THEN "nl" ELSE k

\* A whole line, an end of file or a full buffer is for the readers.
Commits(k) == Stored(k) \in {"nl", "D"} \/ Plus(e, 1) = Plus(r, INPUT_BUF)

\* The echo is written, character by character; then a character is stored, a killed
\* line goes on.
EchoWrite(c) ==
    /\ Holds(c, "cons", "echoed")
    /\ WriteThr
    /\ LET k == cpu[c].key
           rest == [cpu[c] EXCEPT !.echo = @ - 1] IN
         IF k \in {"U", "H", "P"}
         THEN /\ CASE rest.echo > 0 -> Goto(c, rest, "echo") /\ UNCHANGED lk
                  [] rest.echo = 0 /\ k = "U" -> Goto(c, rest, "line") /\ UNCHANGED lk
                  [] OTHER -> Goto(c, PopOff(rest), "getc")
                              /\ lk' = [lk EXCEPT !["cons"] = 0]
              /\ UNCHANGED inputVars
         ELSE /\ buf' = [buf EXCEPT ![Slot(e)] = Stored(k)]
              /\ e' = Plus(e, 1)
              /\ w' = IF Commits(k) THEN Plus(e, 1) ELSE w
              /\ line' = Append(line, Stored(k))
              /\ ready' = IF Commits(k) THEN Len(line) + 1 ELSE ready
              /\ proc' = IF Commits(k) THEN Wakeup(proc, CONS) ELSE proc
              /\ lk' = [lk EXCEPT !["cons"] = 0]
              /\ cpu' = [cpu EXCEPT ![c] = [PopOff(rest) EXCEPT !.trap = "getc"]]
              /\ UNCHANGED r
    /\ UNCHANGED <<txw, txr, rx, pending, claimed, ticks, bound, panic>>

-----------------------------------------------------------------------------
(* The device. *)

UartSent ==
    /\ thr
    /\ thr' = FALSE
    /\ pending' = pending \cup {"uart"}
    /\ UNCHANGED <<inputVars, txw, txr, rx, overrun,
                   cpu, lk, proc, claimed, ticks, bound, panic>>

Type(k) ==
    /\ bound.keys # <<>>
    /\ k \in Head(bound.keys)
    /\ rx = "none"
    /\ rx' = k
    /\ bound' = [bound EXCEPT !.keys = Tail(@)]
    /\ pending' = pending \cup {"uart"}
    /\ UNCHANGED <<inputVars, txw, txr, thr, overrun,
                   cpu, lk, proc, claimed, ticks, panic>>

-----------------------------------------------------------------------------
ConsoleInit ==
    /\ buf = [i \in 0..(INPUT_BUF - 1) |-> "a"]
    /\ r \in StartCons
    /\ w = r
    /\ e = r
    /\ txw = 0
    /\ txr = 0
    /\ thr = FALSE
    /\ rx = "none"
    /\ line = <<>>
    /\ ready = 0
    /\ overrun = FALSE

ConsoleNext ==
    \/ \E c \in Cpus :
         \/ UartPutc(c)
         \/ UartTest(c)
         \/ UartStart(c)
         \/ UartPutEnd(c)
         \/ UartGetc(c)
         \/ UartIntrEnd(c)
         \/ ConsoleWrite(c)
         \/ ReadWait(c)
         \/ ReadEof(c)
         \/ ReadChar(c)
         \/ ReadEnd(c)
         \/ ConsoleIntr(c)
         \/ Echo(c)
         \/ EchoWrite(c)
    \/ UartSent
    \/ \E k \in Keys : Type(k)
=============================================================================
