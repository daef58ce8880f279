------------------------------ MODULE Console ------------------------------
(* The console: line input and output of kernel/console.c over the UART driver
   of kernel/uart.c, driven by the interrupts devintr of kernel/trap.c takes from
   the PLIC.

   Readers are processes in consoleread, writers in consolewrite; the interrupt
   handler runs on one CPU at a time, from plic_claim to plic_complete.  A step
   that holds cons.lock or uart_tx_lock names its holder.  The UART is external:
   a receive queue, and a transmit FIFO that LSR reports idle when it is empty
   and that raises an interrupt when it becomes empty.  The line status is read
   in one step and the holding register written in another, because echo does
   not take uart_tx_lock. *)
EXTENDS Integers, Sequences, FiniteSetsExt

CONSTANTS
  Reader, Writer,
  INPUT_BUF_SIZE, UINT,     \* UINT: modulus of the indices r, w and e
  UART_TX_BUF_SIZE, TXUINT, \* TXUINT: modulus of uart_tx_r and uart_tx_w
  FIFO, RXFIFO,             \* depth of the FIFOs of the UART
  Start,                    \* the indices when the console is first looked at
  Keys,                     \* what may be typed
  ReadLen,                  \* lengths of reads
  Loads                     \* bounds on what happens: keys typed, writes of each
                            \* writer, and their length

VARIABLES
  load,                     \* a member of Loads; never changes
  buf, r, w, e,             \* cons
  conslock, rd, killed,     \* holder of cons.lock; the readers
  txbuf, txr, txw,          \* the output ring
  txlock, wr,               \* holder of uart_tx_lock; the writers
  ih,                       \* the interrupt handler
  rx, fifo, irq, typed,     \* the UART, and how much has been typed
  owed                      \* history: the characters that uartputc has accepted and
                            \* that have not left the UART

inbuf == <<buf, r, w, e>>
input == <<inbuf, conslock, rd, killed>>
output == <<txbuf, txr, txw, txlock, wr>>
vars == <<load, input, output, ih, rx, fifo, irq, typed, owed>>

NL == "\n"
CR == "\r"
EOF == "^D"
KILL == "^U"
BS == "^H"
PS == "^P"
NUL == "^@"
None == "none"
Intr == "intr"

ASSUME ConsoleAssumption ==
  /\ INPUT_BUF_SIZE \in Nat \ {0} /\ UINT % INPUT_BUF_SIZE = 0
  /\ UINT > INPUT_BUF_SIZE
  /\ UART_TX_BUF_SIZE \in Nat \ {0} /\ TXUINT % UART_TX_BUF_SIZE = 0
  /\ TXUINT > UART_TX_BUF_SIZE
  /\ {None, Intr} \intersect (Reader \union Writer) = {}

Plus(a, b) == (a + b) % UINT
Minus(a, b) == (a - b) % UINT
At(a) == buf[a % INPUT_BUF_SIZE]

-----------------------------------------------------------------------------
(* uart.c: the output ring. *)

\* Mutant: one character more than the ring holds.
TxFull_Bug == txw = (txr + UART_TX_BUF_SIZE + 1) % TXUINT

TxFull == txw = (txr + UART_TX_BUF_SIZE) % TXUINT
TxEmpty == txw = txr
LSR_TX_IDLE == fifo = <<>>

\* wakeup(&uart_tx_r).
WakeWriters(f) == [p \in Writer |-> IF f[p].pc = "asleep"
                                    THEN [f[p] EXCEPT !.pc = "woken"] ELSE f[p]]

\* uartstart, up to the write of THR: the next character is taken off the ring.
uartstart_take == /\ ~TxEmpty /\ LSR_TX_IDLE
                  /\ txr' = (txr + 1) % TXUINT

THR(c) == fifo' = Append(fifo, c)

\* consolewrite: a call, and its loop.
consolewrite(p) ==
  /\ wr[p].pc = "user" /\ wr[p].calls < load.writes
  /\ wr' = [wr EXCEPT ![p] = [@ EXCEPT !.pc = "put", !.i = 0, !.n = load.len,
                                       !.calls = @ + 1]]
  /\ UNCHANGED <<input, txbuf, txr, txw, txlock, ih, rx, fifo, irq, typed, load, owed>>

\* The end of the loop, or either_copyin fails.
consolewrite_end(p) ==
  /\ wr[p].pc = "put"
  /\ wr' = [wr EXCEPT ![p] = [@ EXCEPT !.pc = "user", !.i = 0, !.n = 0]]
  /\ UNCHANGED <<input, txbuf, txr, txw, txlock, ih, rx, fifo, irq, typed, load, owed>>

\* uartputc takes the lock, sleeps while the ring is full, and stores.
uartputc_lock(p) ==
  /\ \/ wr[p].pc = "put" /\ wr[p].i < wr[p].n
     \/ wr[p].pc = "woken"
  /\ txlock = None
  /\ txlock' = p
  /\ wr' = [wr EXCEPT ![p].pc = "room"]
  /\ UNCHANGED <<input, txbuf, txr, txw, ih, rx, fifo, irq, typed, load, owed>>

uartputc_sleep(p) ==
  /\ wr[p].pc = "room" /\ TxFull
  /\ txlock' = None
  /\ wr' = [wr EXCEPT ![p].pc = "asleep"]
  /\ UNCHANGED <<input, txbuf, txr, txw, ih, rx, fifo, irq, typed, load, owed>>

uartputc_store(p) ==
  /\ wr[p].pc = "room" /\ ~TxFull
  /\ txbuf' = [txbuf EXCEPT ![txw % UART_TX_BUF_SIZE] = <<p, wr[p].calls, wr[p].i>>]
  /\ txw' = (txw + 1) % TXUINT
  /\ owed' = Append(owed, <<p, wr[p].calls, wr[p].i>>)
  /\ wr' = [wr EXCEPT ![p].pc = "start"]
  /\ UNCHANGED <<input, txr, txlock, ih, rx, fifo, irq, typed, load>>

\* uartstart from uartputc: send, or release the lock and go on.
uartputc_start(p) ==
  /\ wr[p].pc = "start"
  /\ \/ /\ uartstart_take
        /\ wr' = [WakeWriters(wr) EXCEPT ![p].pc = "thr"]
        /\ UNCHANGED txlock
     \/ /\ TxEmpty \/ ~LSR_TX_IDLE
        /\ txlock' = None
        /\ wr' = [wr EXCEPT ![p] = [@ EXCEPT !.pc = "put", !.i = @ + 1]]
        /\ UNCHANGED txr
  /\ UNCHANGED <<input, txbuf, txw, ih, rx, fifo, irq, typed, load, owed>>

Taken == txbuf[(txr - 1) % UART_TX_BUF_SIZE]

uartputc_thr(p) ==
  /\ wr[p].pc = "thr"
  /\ THR(Taken)
  /\ wr' = [wr EXCEPT ![p].pc = "start"]
  /\ UNCHANGED <<input, txbuf, txr, txw, txlock, ih, rx, irq, typed, load, owed>>

-----------------------------------------------------------------------------
(* The UART (external). *)

Typed(c) ==
  /\ typed < load.keys /\ Len(rx) < RXFIFO
  /\ typed' = typed + 1
  /\ rx' = Append(rx, c)
  /\ irq' = TRUE
  /\ UNCHANGED <<input, output, ih, fifo, load, owed>>

Transmit ==
  /\ fifo # <<>>
  /\ fifo' = Tail(fifo)
  /\ irq' = (irq \/ Tail(fifo) = <<>>)
  /\ owed' = IF Head(fifo) = <<Intr>> THEN owed ELSE Tail(owed)
  /\ UNCHANGED <<input, output, ih, rx, typed, load>>

-----------------------------------------------------------------------------
(* devintr, uartintr and consoleintr. *)

devintr ==
  /\ ih.pc = "idle" /\ irq
  /\ irq' = FALSE
  /\ ih' = [ih EXCEPT !.pc = "getc"]
  /\ UNCHANGED <<input, output, rx, fifo, typed, load, owed>>

\* wakeup(&cons.r).
WakeReaders == [p \in Reader |-> IF rd[p].pc = "asleep"
                                 THEN [rd[p] EXCEPT !.pc = "woken"] ELSE rd[p]]

\* How far ^U moves e back: to w, or to behind a newline after it.
LineStart ==
  Minus(e, Max({n \in 0 .. Minus(e, w) : \A j \in 1 .. n : At(Minus(e, j)) # NL}))

Room == Minus(e, r) < INPUT_BUF_SIZE
Translate(c) == IF c = CR THEN NL ELSE c
\* consputc n times, and what is to be stored then; the three characters that
\* echo a backspace go out as one.
Echo(n, c) == ih' = [pc |-> "echo", left |-> n, c |-> c]

\* Mutant: only a newline or ^D makes input readable.
EndsLine_Bug(c) == c \in {NL, EOF}

\* Whether the character stored at e ends a line, or fills the buffer.
EndsLine(c) == \/ c \in {NL, EOF}
               \/ Minus(Plus(e, 1), r) = INPUT_BUF_SIZE

store(c) ==
  /\ buf' = [buf EXCEPT ![e % INPUT_BUF_SIZE] = c]
  /\ e' = Plus(e, 1)
  /\ IF EndsLine(c) THEN w' = Plus(e, 1) /\ rd' = WakeReaders
                    ELSE UNCHANGED <<w, rd>>
  /\ UNCHANGED r

erase(x) ==
  /\ e' = x
  /\ Echo(Minus(e, x), None)
  /\ UNCHANGED <<buf, r, w>>

nothing == Echo(0, None) /\ UNCHANGED inbuf

\* consoleintr of the next character, up to its echo, which is sent with
\* cons.lock held.
consoleintr ==
  LET c == Head(rx) IN
  /\ ih.pc = "getc" /\ rx # <<>>
  /\ conslock = None
  /\ conslock' = Intr
  /\ rx' = Tail(rx)
  /\ \/ c = PS /\ nothing                                  \* procdump
     \/ c = KILL /\ erase(LineStart)
     \/ c = BS /\ IF e # w THEN erase(Minus(e, 1)) ELSE nothing
     \/ /\ c \notin {PS, KILL, BS}
        /\ IF c # NUL /\ Room THEN Echo(1, Translate(c)) /\ UNCHANGED inbuf ELSE nothing
  /\ UNCHANGED <<rd, killed, output, fifo, irq, typed, load, owed>>

\* uartputc_sync: spin until idle, then write THR.
uartputc_sync ==
  /\ ih.pc = "echo" /\ ih.left > 0
  /\ LSR_TX_IDLE
  /\ ih' = [ih EXCEPT !.pc = "echothr"]
  /\ UNCHANGED <<input, output, rx, fifo, irq, typed, load, owed>>

uartputc_sync_thr ==
  /\ ih.pc = "echothr"
  /\ THR(<<Intr>>)
  /\ ih' = [ih EXCEPT !.pc = "echo", !.left = @ - 1]
  /\ UNCHANGED <<input, output, rx, irq, typed, load, owed>>

\* The end of consoleintr: store the character that was echoed, and release.
consoleintr_end ==
  /\ ih.pc = "echo" /\ ih.left = 0
  /\ IF ih.c # None THEN store(ih.c) ELSE UNCHANGED <<inbuf, rd>>
  /\ conslock' = None
  /\ ih' = [pc |-> "getc", left |-> 0, c |-> None]
  /\ UNCHANGED <<killed, output, rx, fifo, irq, typed, load, owed>>

\* Mutant: the handler only looks for input.
uartintr_lock_Bug ==
  /\ ih.pc = "getc" /\ rx = <<>>
  /\ ih' = [ih EXCEPT !.pc = "idle"]
  /\ UNCHANGED <<input, output, rx, fifo, irq, typed, load, owed>>

\* No more input: uartstart with the lock held, then plic_complete.
uartintr_lock ==
  /\ ih.pc = "getc" /\ rx = <<>>
  /\ txlock = None
  /\ txlock' = Intr
  /\ ih' = [ih EXCEPT !.pc = "start"]
  /\ UNCHANGED <<input, txbuf, txr, txw, wr, rx, fifo, irq, typed, load, owed>>

uartintr_start ==
  /\ ih.pc = "start"
  /\ \/ /\ uartstart_take
        /\ wr' = WakeWriters(wr)
        /\ ih' = [ih EXCEPT !.pc = "thr"]
        /\ UNCHANGED txlock
     \/ /\ TxEmpty \/ ~LSR_TX_IDLE
        /\ txlock' = None
        /\ ih' = [ih EXCEPT !.pc = "idle"]
        /\ UNCHANGED <<txr, wr>>
  /\ UNCHANGED <<input, txbuf, txw, rx, fifo, irq, typed, load, owed>>

uartintr_thr ==
  /\ ih.pc = "thr"
  /\ THR(Taken)
  /\ ih' = [ih EXCEPT !.pc = "start"]
  /\ UNCHANGED <<input, output, rx, irq, typed, load, owed>>

-----------------------------------------------------------------------------
(* consoleread. *)

consoleread(p, n) ==
  /\ rd[p].pc = "user" /\ ~killed[p]
  /\ conslock = None
  /\ conslock' = p
  /\ rd' = [rd EXCEPT ![p] = [pc |-> "loop", n |-> n, target |-> n]]
  /\ UNCHANGED <<inbuf, killed, output, ih, rx, fifo, irq, typed, load, owed>>

EndRead(p) == /\ conslock' = None
              /\ rd' = [rd EXCEPT ![p] = [pc |-> "user", n |-> 0, target |-> 0]]

\* No input: give up when killed, or go to sleep; a kill may come in between.
consoleread_empty(p) ==
  /\ rd[p].pc = "loop" /\ rd[p].n > 0 /\ r = w
  /\ IF killed[p] THEN EndRead(p)
     ELSE rd' = [rd EXCEPT ![p].pc = "sleep"] /\ UNCHANGED conslock
  /\ UNCHANGED <<inbuf, killed, output, ih, rx, fifo, irq, typed, load, owed>>

consoleread_sleep(p) ==
  /\ rd[p].pc = "sleep"
  /\ conslock' = None
  /\ rd' = [rd EXCEPT ![p].pc = "asleep"]
  /\ UNCHANGED <<inbuf, killed, output, ih, rx, fifo, irq, typed, load, owed>>

consoleread_wake(p) ==
  /\ rd[p].pc = "woken"
  /\ conslock = None
  /\ conslock' = p
  /\ rd' = [rd EXCEPT ![p].pc = "loop"]
  /\ UNCHANGED <<inbuf, killed, output, ih, rx, fifo, irq, typed, load, owed>>

\* One character: ^D ends the read and is kept for the next one unless nothing
\* has been read; a failed copyout loses the character and ends the read.
consoleread_char(p) ==
  LET c == At(r) IN
  /\ rd[p].pc = "loop" /\ rd[p].n > 0 /\ r # w
  /\ \/ /\ c = EOF
        /\ r' = IF rd[p].n < rd[p].target THEN r ELSE Plus(r, 1)
        /\ EndRead(p)
     \/ /\ c # EOF
        /\ r' = Plus(r, 1)
        /\ \/ EndRead(p)                     \* either_copyout fails, or c = NL
           \/ /\ c # NL
              /\ rd' = [rd EXCEPT ![p].n = @ - 1]
              /\ UNCHANGED conslock
  /\ UNCHANGED <<buf, w, e, killed, output, ih, rx, fifo, irq, typed, load, owed>>

consoleread_end(p) ==
  /\ rd[p].pc = "loop" /\ rd[p].n = 0
  /\ EndRead(p)
  /\ UNCHANGED <<inbuf, killed, output, ih, rx, fifo, irq, typed, load, owed>>

\* kill marks a process and wakes it if it sleeps.
kill(p) ==
  /\ ~killed[p] /\ rd[p].pc # "user"
  /\ killed' = [killed EXCEPT ![p] = TRUE]
  /\ rd' = [rd EXCEPT ![p].pc = IF @ = "asleep" THEN "woken" ELSE @]
  /\ UNCHANGED <<inbuf, conslock, output, ih, rx, fifo, irq, typed, load, owed>>

-----------------------------------------------------------------------------

Init ==
  /\ load \in Loads
  /\ buf = [i \in 0 .. INPUT_BUF_SIZE - 1 |-> NUL]
  /\ r = Start /\ w = Start /\ e = Start
  /\ conslock = None
  /\ rd = [p \in Reader |-> [pc |-> "user", n |-> 0, target |-> 0]]
  /\ killed = [p \in Reader |-> FALSE]
  /\ txbuf = [i \in 0 .. UART_TX_BUF_SIZE - 1 |-> <<>>]
  /\ txr = Start /\ txw = Start
  /\ txlock = None
  /\ wr = [p \in Writer |-> [pc |-> "user", i |-> 0, n |-> 0, calls |-> 0]]
  /\ ih = [pc |-> "idle", left |-> 0, c |-> None]
  /\ rx = <<>> /\ fifo = <<>> /\ irq = FALSE /\ typed = 0 /\ owed = <<>>

ReadStep(p) ==
  \/ consoleread_empty(p) \/ consoleread_sleep(p) \/ consoleread_wake(p)
  \/ consoleread_char(p) \/ consoleread_end(p)

WriteStep(p) ==
  \/ consolewrite_end(p) \/ uartputc_lock(p) \/ uartputc_sleep(p)
  \/ uartputc_store(p) \/ uartputc_start(p) \/ uartputc_thr(p)

IntrStep ==
  \/ devintr \/ consoleintr \/ uartputc_sync \/ uartputc_sync_thr
  \/ consoleintr_end \/ uartintr_lock \/ uartintr_start \/ uartintr_thr

Next ==
  \/ \E p \in Reader : kill(p) \/ ReadStep(p) \/ \E n \in ReadLen : consoleread(p, n)
  \/ \E p \in Writer : WriteStep(p) \/ consolewrite(p)
  \/ \E c \in Keys : Typed(c)
  \/ Transmit
  \/ IntrStep

\* A call in progress, the handler and the UART keep going; nobody has to read,
\* write or type.
Fairness ==
  /\ \A p \in Reader : WF_vars(ReadStep(p))
  /\ \A p \in Writer : WF_vars(WriteStep(p))
  /\ WF_vars(IntrStep)
  /\ WF_vars(Transmit)

Spec == Init /\ [][Next]_vars /\ Fairness

-----------------------------------------------------------------------------
(* Properties. *)

TypeOK ==
  /\ {r, w, e} \subseteq 0 .. UINT - 1
  /\ {txr, txw} \subseteq 0 .. TXUINT - 1
  /\ conslock \in Reader \union {None, Intr}
  /\ txlock \in Writer \union {None, Intr}
  /\ \A p \in Reader : rd[p].n <= rd[p].target

\* The characters on their way out: in the FIFO, taken by uartstart, in the ring.
Taking == (\E p \in Writer : wr[p].pc = "thr") \/ ih.pc = "thr"
OnTheWay ==
  SelectSeq(fifo, LAMBDA c : c # <<Intr>>)
  \o (IF Taking THEN <<Taken>> ELSE <<>>)
  \o [i \in 1 .. (txw - txr) % TXUINT |-> txbuf[(txr + i - 1) % UART_TX_BUF_SIZE]]

\* The characters that writers have given to uartputc leave in that order, none
\* twice and none missing: those that have not left are in the ring or in the UART.
\* And the UART's FIFO never overflows, although two CPUs may give it characters at
\* once, since the echo does not take the output lock.
OutputInOrder ==
  /\ TypeOK
  /\ Len(fifo) <= FIFO
  /\ OnTheWay = owed

\* A write to the console ends, and what can be read is read if somebody is
\* reading: the handler and the sleepers never wait for each other for ever.
CallsProgress ==
  /\ \A p \in Writer : wr[p].pc # "user" ~> wr[p].pc = "user"
  /\ (r # w /\ \E p \in Reader : rd[p].pc # "user")
       ~> (r = w \/ \A p \in Reader : rd[p].pc = "user")

Chars(from, to) == [i \in 1 .. Minus(to, from) |-> At(Plus(from, i - 1))]

LD == INSTANCE LineDiscipline WITH
        Char <- (Keys \union {NL}) \ {PS, KILL, BS, NUL, CR}, Ends <- {NL, EOF},
        Capacity <- INPUT_BUF_SIZE,
        ready <- Chars(r, w), line <- Chars(w, e)

\* The ring with its three wrapping indices implements the line discipline:
\* only the unfinished line can be erased, a full buffer becomes readable, and
\* what is readable is read once and in order.
ImplementsLineDiscipline == LD!Spec
=============================================================================
