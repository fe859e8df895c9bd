------------------------------- MODULE Console -------------------------------
(***************************************************************************)
(* The console: consoleread, consolewrite and consoleintr of console.c     *)
(* over the transmit ring, the polled output and the interrupt handler of  *)
(* uart.c.                                                                 *)
(*                                                                         *)
(* The actors are the processes that read, the processes that write and    *)
(* the interrupt handler (one at a time: devintr claims the interrupt from *)
(* the PLIC and completes it at the end).  cons.lock and uart_tx_lock are  *)
(* spin locks; a step holds at most one of them and runs up to the next    *)
(* access to the UART, which the echo reaches without uart_tx_lock.  What  *)
(* a character is matters only to the input side, so uart_tx_buf is its    *)
(* two indices.  procdump (^P) only prints, and printf is to the UART what *)
(* the echo is; both are left out, and so is the kernel after a panic.     *)
(***************************************************************************)
EXTENDS Naturals, Sequences, FiniteSets, TLC

CONSTANTS Readers, Writers,  \* the processes
          Victims,           \* those of them that may be killed
          Keys,              \* what can be typed
          INPUT_BUF_SIZE, UART_TX_BUF_SIZE,
          UINT32, UINT64,    \* the indices of the rings count modulo these
          RXFIFO, TXFIFO,    \* the depths of the UART's two queues
          None

ASSUME SizesDivide == UINT32 % INPUT_BUF_SIZE = 0 /\ UINT64 % UART_TX_BUF_SIZE = 0

VARIABLES cons,      \* the input buffer, its indices r, w, e and its lock
          tx,        \* uart_tx_r, uart_tx_w and uart_tx_lock
          uart,      \* rx and fifo: how many characters have been typed and
                     \* are being sent; irq: the "ready to send" interrupt
          th         \* each actor: where it is, whether its read has moved a
                     \* byte (got), whether it is killed; for polled output the
                     \* characters left (n) and the handler's key

vars == <<cons, tx, uart, th>>

NL == "nl"
EOF == "^D"
Procs == Readers \cup Writers
Idle == [pc |-> "idle", n |-> 0, got |-> FALSE, killed |-> FALSE, key |-> NL]

\* A process at the start of a read or a write, or about to make the next.
Call == [Idle EXCEPT !.pc = "call"]

\* uartinit(): nothing to send.
Uartinit ==
    /\ tx = [r |-> 0, w |-> 0, lock |-> None]
    /\ uart = [rx |-> 0, fifo |-> 0, irq |-> FALSE]

\* consoleinit().
Init ==
    /\ cons = [buf |-> [i \in 0 .. INPUT_BUF_SIZE - 1 |-> NL],
               r |-> 0, w |-> 0, e |-> 0, lock |-> None]
    /\ Uartinit
    /\ th = [a \in Procs \cup {"intr"} |-> IF a \in Procs THEN Call ELSE Idle]

Inc(i) == (i + 1) % UINT32
Dec(i) == (i + UINT32 - 1) % UINT32
Minus(i, j) == (i + UINT32 - j) % UINT32

At(a, l) == th[a].pc = l
Set(a, r) == th' = [th EXCEPT ![a] = r @@ @]

\* Faulty variant: one sleeper is woken and the others sleep on.
WakeupOne(P, a, r) ==
    LET one == CHOOSE b \in P : (\E p \in P : At(p, "asleep")) => At(b, "asleep")
    IN  th' = [b \in DOMAIN th |-> IF b = a THEN r @@ th[b]
                                   ELSE IF b = one /\ At(b, "asleep")
                                   THEN [th[b] EXCEPT !.pc = "call"] ELSE th[b]]

\* wakeup: the processes of P that are asleep try again; a is left as r says.
Wakeup(P, a, r) ==
    th' = [b \in DOMAIN th |-> IF b = a THEN r @@ th[b]
                               ELSE IF b \in P /\ At(b, "asleep")
                               THEN [th[b] EXCEPT !.pc = "call"] ELSE th[b]]

-----------------------------------------------------------------------------
(* The UART.  A key is typed; the transmitter sends a character.  It       *)
(* interrupts as long as a key waits, and when the last character has left. *)

Type ==
    /\ uart.rx < RXFIFO
    /\ uart' = [uart EXCEPT !.rx = @ + 1]
    /\ UNCHANGED <<cons, tx, th>>

Send ==
    /\ uart.fifo > 0
    /\ uart' = [uart EXCEPT !.fifo = @ - 1, !.irq = @ \/ uart.fifo = 1]
    /\ UNCHANGED <<cons, tx, th>>

\* LSR_TX_IDLE: nothing is waiting to be sent.
TxIdle == uart.fifo = 0

\* WriteReg(THR, c), which may withdraw the "ready to send" interrupt.
WriteTHR == \E irq \in {uart.irq, FALSE} :
    uart' = [uart EXCEPT !.fifo = @ + 1, !.irq = irq]

-----------------------------------------------------------------------------
(* consoleread: one step per turn of its loop, cons.lock held throughout.  *)

\* kill: the flag is set, which a writer never tests, and a sleeping process is
\* woken.
Kill(p) ==
    /\ At(p, "asleep") \/ p \in Readers
    /\ Set(p, [killed |-> p \in Readers, pc |-> "call"])
    /\ UNCHANGED <<cons, tx, uart>>

\* Nothing to read: return if killed, else sleep(&cons.r, &cons.lock).
ReadWait(p) ==
    /\ cons.r = cons.w
    /\ cons' = [cons EXCEPT !.lock = None]
    /\ IF th[p].killed THEN Set(p, Call) ELSE Set(p, [pc |-> "asleep"])

\* A ^D ends the read; one that follows other bytes stays for the next call.
ReadEOF(p) ==
    /\ cons' = [cons EXCEPT !.lock = None, !.r = IF th[p].got THEN @ ELSE Inc(@)]
    /\ Set(p, Call)

\* A byte is taken.  The read ends after a newline; any other byte may be
\* the last of the n it asked for, or one that either_copyout fails to store.
ReadByte(p, c) ==
    \/ /\ cons' = [cons EXCEPT !.r = Inc(@), !.lock = None]
       /\ Set(p, Call)
    \/ /\ c # NL
       /\ cons' = [cons EXCEPT !.r = Inc(@), !.lock = p]
       /\ Set(p, [got |-> TRUE])

Consoleread(p) ==
    LET c == cons.buf[cons.r % INPUT_BUF_SIZE]
    IN  /\ At(p, "call") /\ cons.lock \in {None, p}
        /\ \/ ReadWait(p)
           \/ cons.r # cons.w /\ c = EOF /\ ReadEOF(p)
           \/ cons.r # cons.w /\ c # EOF /\ ReadByte(p, c)
        /\ UNCHANGED <<tx, uart>>

-----------------------------------------------------------------------------
(* The transmit ring.  uartstart runs with uart_tx_lock held, from         *)
(* uartputc and from the interrupt handler.                                *)

\* A character is waiting and the UART is idle: take it out of the ring.
UartstartTake(a) ==
    /\ tx.w # tx.r /\ TxIdle
    /\ tx' = [tx EXCEPT !.r = (@ + 1) % UINT64]
    /\ Wakeup(Writers, a, [pc |-> "thr"])

Uartstart(a) ==
    /\ At(a, "start") /\ UartstartTake(a)
    /\ UNCHANGED <<cons, uart>>

UartstartWrite(a) ==
    /\ At(a, "thr") /\ WriteTHR
    /\ Set(a, [pc |-> "start"])
    /\ UNCHANGED <<cons, tx>>

\* The ring is empty or the UART is busy: uartstart returns.
UartstartDone(a) ==
    /\ At(a, "start") /\ (tx.w = tx.r \/ ~TxIdle)
    /\ tx' = [tx EXCEPT !.lock = None]
    /\ UNCHANGED <<cons, uart>>

TxFull == tx.w = (tx.r + UART_TX_BUF_SIZE) % UINT64

\* One turn of consolewrite's loop: uartputc waits for room, or stores the
\* byte and calls uartstart.  When either_copyin fails the call is over.
Uartputc(p) ==
    /\ At(p, "call") /\ tx.lock = None
    /\ \/ TxFull /\ Set(p, [pc |-> "asleep"]) /\ UNCHANGED tx
       \/ /\ ~TxFull
          /\ tx' = [tx EXCEPT !.lock = p, !.w = (@ + 1) % UINT64]
          /\ Set(p, [pc |-> "start"])
    /\ UNCHANGED <<cons, uart>>

\* uartputc returns, for the next byte or the next call.
Consolewrite(p) ==
    \/ Uartputc(p) \/ Uartstart(p) \/ UartstartWrite(p)
    \/ UartstartDone(p) /\ Set(p, Call)

-----------------------------------------------------------------------------
(* uartputc_sync: the polled output, here of the echo.                     *)

Intr(r) == Set("intr", r)

\* Faulty variant: the transmitter is not waited for.
SyncReadyAlways == At("intr", "sync")

\* The wait for LSR_TX_IDLE is over.
SyncReady == At("intr", "sync") /\ TxIdle

\* The wait, and the write of a character that is not the last.
UartputcSync ==
    /\ \/ SyncReady /\ Intr([pc |-> "sync thr"]) /\ UNCHANGED uart
       \/ /\ At("intr", "sync thr") /\ th["intr"].n > 1
          /\ WriteTHR
          /\ Intr([pc |-> "sync", n |-> th["intr"].n - 1])
    /\ UNCHANGED <<cons, tx>>

-----------------------------------------------------------------------------
(* uartintr and consoleintr.                                               *)

\* devintr claims the interrupt, which clears the latch.
Claim ==
    /\ At("intr", "idle")
    /\ uart.irq \/ uart.rx > 0
    /\ uart' = [uart EXCEPT !.irq = FALSE]
    /\ Intr([pc |-> "rx"])
    /\ UNCHANGED <<cons, tx>>

\* Faulty variant: the handler leaves the ring alone when keys were typed.
UartintrStartSkips ==
    /\ At("intr", "rx") /\ uart.rx = 0 /\ tx.lock = None
    /\ Intr(Idle)
    /\ UNCHANGED <<cons, tx, uart>>

\* No character is left: uartstart.
UartintrStart ==
    /\ At("intr", "rx") /\ uart.rx = 0 /\ tx.lock = None
    /\ Intr([pc |-> "start"])
    /\ tx' = [tx EXCEPT !.lock = "intr"]
    /\ UNCHANGED <<cons, uart>>

\* Faulty variant: kill-line and backspace go past the line being edited.
ErasableAny(key) == key \in {"^U", "^H"} /\ cons.e # cons.r

\* What ^U and ^H may erase: the line being edited.
Erasable(key) ==
    /\ key \in {"^U", "^H"} /\ cons.e # cons.w
    /\ key = "^U" => cons.buf[Dec(cons.e) % INPUT_BUF_SIZE] # NL

\* The default case: a key other than NUL, and room for it.
Storable(key) ==
    key \notin {"^U", "^H", "nul"} /\ Minus(cons.e, cons.r) < INPUT_BUF_SIZE

\* The switch of consoleintr up to the echo, or to the release of cons.lock
\* when there is nothing to do: BACKSPACE is echoed as three characters.
Switch(key, c) ==
    \/ /\ Erasable(key)
       /\ cons' = [c EXCEPT !.e = Dec(@), !.lock = "intr"]
       /\ Intr([pc |-> "sync", n |-> 3, key |-> key])
    \/ /\ Storable(key)
       /\ cons' = [c EXCEPT !.lock = "intr"]
       /\ Intr([pc |-> "sync", n |-> 1, key |-> IF key = "cr" THEN NL ELSE key])
    \/ /\ ~Erasable(key) /\ ~Storable(key)
       /\ cons' = [c EXCEPT !.lock = None]
       /\ Intr([pc |-> "rx", n |-> 0, key |-> NL])

\* uartgetc finds a character and consoleintr takes cons.lock.
Consoleintr ==
    /\ At("intr", "rx") /\ uart.rx > 0 /\ cons.lock = None
    /\ \E key \in Keys : Switch(key, cons)
    /\ uart' = [uart EXCEPT !.rx = @ - 1]
    /\ UNCHANGED tx

\* The line is complete: a newline, an end-of-file mark or a full buffer.
Completes(c) == c \in {NL, EOF} \/ Minus(Inc(cons.e), cons.r) = INPUT_BUF_SIZE

\* The character is stored and cons.lock released.
Store(c) ==
    LET stored == [cons EXCEPT !.buf[cons.e % INPUT_BUF_SIZE] = c,
                               !.e = Inc(@), !.lock = None]
        next == [pc |-> "rx", n |-> 0, key |-> NL]
    IN  \/ Completes(c) /\ cons' = [stored EXCEPT !.w = stored.e] /\ Wakeup(Readers, "intr", next)
        \/ ~Completes(c) /\ cons' = stored /\ Intr(next)

\* The last character of the echo is written, and consoleintr goes on: ^U
\* with its loop, ^H to its end, any other key to be stored.
Echoed ==
    LET key == th["intr"].key
    IN  /\ At("intr", "sync thr") /\ th["intr"].n = 1 /\ WriteTHR
        /\ CASE key = "^U" -> Switch(key, cons)
             [] key = "^H" -> Switch("nul", cons)
             [] OTHER -> Store(key)
        /\ UNCHANGED tx

Handler ==
    \/ Claim \/ Consoleintr \/ UartputcSync \/ Echoed
    \/ UartintrStart \/ Uartstart("intr") \/ UartstartWrite("intr")
    \/ UartstartDone("intr") /\ Intr(Idle)

Next ==
    \/ Type \/ Send
    \/ \E p \in Victims : Kill(p)
    \/ \E p \in Readers : Consoleread(p)
    \/ \E p \in Writers : Consolewrite(p)
    \/ Handler

Spec == Init /\ [][Next]_vars

-----------------------------------------------------------------------------
(* Properties.                                                             *)

\* The l slots of ring b from index i on.
Span(b, i, l) == [k \in 1 .. l |-> b[(i + k - 1) % INPUT_BUF_SIZE]]

Line == Span(cons.buf, cons.w, Minus(cons.e, cons.w))
Ready == Span(cons.buf, cons.r, Minus(cons.w, cons.r))

Discipline == INSTANCE LineDiscipline WITH
    Char <- (Keys \ {"cr", "nul", "^U", "^H"}) \cup {NL},
    Ends <- {NL, EOF},
    Capacity <- INPUT_BUF_SIZE,
    line <- Line, ready <- Ready

\* The input side of the console (consoleintr and consoleread over the ring
\* cons.buf with its three wrapping indices) is a line discipline: editing
\* never reaches a line that readers may have, nothing is overwritten before
\* it is read, and what is read was typed, once and in order.  A ^D is consumed
\* by a read that has moved no byte, and so that caller sees the zero-byte result
\* that stands for end-of-file: no read that has moved bytes, even one that slept
\* since, ends with it.
KeepsLines ==
    /\ Discipline!Spec
    /\ [][cons.buf[cons.r % INPUT_BUF_SIZE] = EOF /\ cons'.r = Inc(cons.r)
            => \A p \in Readers : th[p].got => th'[p].got]_vars

\* A reader sleeps only while no line is readable, and a writer only while
\* uart_tx_buf is full: no wakeup is lost, with several readers asleep on cons.r,
\* kills, and a ^D that one reader puts back for the next.
SleepersBlocked ==
    /\ \A p \in Readers : At(p, "asleep") => cons.r = cons.w
    /\ \A p \in Writers : At(p, "asleep") => TxFull

\* LSR is read and THR written in separate steps, by uartstart under
\* uart_tx_lock and by the echo under cons.lock, and still at most one
\* character of each is in the UART's queue, which never overflows.
FifoHolds == uart.fifo <= TXFIFO

-----------------------------------------------------------------------------
(* Liveness.  The transmitter sends, the interrupt is served, a thread     *)
(* that has a lock or waits for the UART runs on, and one that spins for a *)
(* lock gets it in the end.  Nobody has to type, write or read.            *)
FairSpec ==
    /\ Spec
    /\ WF_vars(Send)
    /\ SF_vars(Handler)
    /\ WF_vars(\E p \in Readers : cons.lock = p /\ Consoleread(p))
    /\ WF_vars(\E p \in Writers : tx.lock = p /\ Consolewrite(p))

\* Once nobody types, the bytes of uart_tx_buf keep leaving: writers find
\* room again and again.  (While keys arrive the handler may stay with them.)
OutputDrains == <>[][~Type]_vars => []<>(~TxFull)
=============================================================================
