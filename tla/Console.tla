------------------------------ MODULE Console ------------------------------
(***************************************************************************)
(* The console (kernel/console.c) and the UART driver (kernel/uart.c): a   *)
(* ring of input that the interrupt handler edits and readers wait for,    *)
(* and a ring of output that writers fill and wait for, and that writers   *)
(* and the handler drain into the device.  The device (external) has a     *)
(* FIFO in each direction; LSR_TX_IDLE says that the one for output is     *)
(* empty, and it interrupts when it becomes so and when a key arrives.     *)
(* Indices are taken modulo IdxMod, the code's 2^32 and 2^64.              *)
(***************************************************************************)
EXTENDS CondVar, SequencesExt

CONSTANTS
    INPUT_BUF_SIZE, UART_TX_BUF_SIZE, IdxMod,
    FifoSize,   \* characters the device's output FIFO takes
    Script,     \* bound: the keys that are typed and the calls of each process
    Killable    \* bound: the processes that may be killed

ASSUME ConsoleAssumption ==
    /\ {INPUT_BUF_SIZE, UART_TX_BUF_SIZE, FifoSize} \subseteq Nat \ {0}
    /\ IdxMod % INPUT_BUF_SIZE = 0 /\ IdxMod > INPUT_BUF_SIZE
    /\ IdxMod % UART_TX_BUF_SIZE = 0 /\ IdxMod > UART_TX_BUF_SIZE
    /\ Handler = {-1} /\ Spinlock = {"cons", "tx"} /\ Chan = {"cons_r", "tx_r"}

VARIABLES
    cons,    \* buf, r, w, e
    tx,      \* uart_tx_buf, uart_tx_r, uart_tx_w
    uart,    \* external: keys to come, keys received, output FIFO, irq
    loc,     \* per thread: its locals
    todo,    \* per process: the calls still to be made
    written, sent   \* history: what uartputc() was given, and what left the device

consoleVars == <<cons, tx, uart, loc, todo, written, sent>>
vars == <<condVars, consoleVars>>

Idle == [n |-> 0, i |-> 0, c |-> "none", echo |-> 0]

\* consoleinit() and uartinit(); many characters have passed since.
Init ==
    /\ CondInit
    /\ pc = [t \in Thread |-> IF t \in Handler THEN "idle" ELSE "user"]
    /\ cons = [buf |-> [k \in 0 .. INPUT_BUF_SIZE - 1 |-> "none"],
               r |-> IdxMod - 1, w |-> IdxMod - 1, e |-> IdxMod - 1]
    /\ tx = [buf |-> [k \in 0 .. UART_TX_BUF_SIZE - 1 |-> <<0, 0>>],
             r |-> IdxMod - 1, w |-> IdxMod - 1]
    /\ \E s \in Script :
        /\ uart = [keys |-> s.keys, rx |-> <<>>, fifo |-> <<>>, irq |-> FALSE]
        /\ todo = s.calls
    /\ loc = [t \in Thread |-> Idle]
    /\ written = <<>> /\ sent = <<>>

-----------------------------------------------------------------------------
(* Output *)

TX_IDLE == uart.fifo = <<>>
TxFull == tx.w = (tx.r + UART_TX_BUF_SIZE) % IdxMod
TxEmpty == tx.w = tx.r

\* The loop in consolewrite(): all is written or either_copyin() fails.
consolewrite_done(p) ==
    /\ pc[p] = "consolewrite"
    /\ Quiet(p, "user")
    /\ loc' = [loc EXCEPT ![p] = Idle]
    /\ UNCHANGED <<cons, tx, uart, todo, written, sent>>

uartputc_wait(p) ==
    /\ \/ pc[p] = "consolewrite" /\ loc[p].i < loc[p].n /\ Free("tx")
       \/ pc[p] = "uartputc"
    /\ TxFull
    /\ sleep(p, "tx_r", "tx", "uartputc")
    /\ UNCHANGED <<killed, consoleVars>>

\* Mutation: the buffer is taken to be full one character later.
uartputc_over(p) ==
    /\ \/ pc[p] = "consolewrite" /\ loc[p].i < loc[p].n /\ Free("tx")
       \/ pc[p] = "uartputc"
    /\ tx.w # (tx.r + UART_TX_BUF_SIZE + 1) % IdxMod
    /\ tx' = [tx EXCEPT !.buf[tx.w % UART_TX_BUF_SIZE] = <<p, loc[p].i>>, !.w = (@ + 1) % IdxMod]
    /\ written' = Append(written, <<p, loc[p].i>>)
    /\ loc' = [loc EXCEPT ![p].i = @ + 1]
    /\ lock' = [lock EXCEPT !["tx"] = p]
    /\ Goto(p, "uartstart")
    /\ UNCHANGED <<chan, killed, back, cons, uart, todo, sent>>

\* A character is two numbers: who writes it and which of its characters it is.
uartputc(p) ==
    /\ \/ pc[p] = "consolewrite" /\ loc[p].i < loc[p].n /\ Free("tx")
       \/ pc[p] = "uartputc"
    /\ ~TxFull
    /\ tx' = [tx EXCEPT !.buf[tx.w % UART_TX_BUF_SIZE] = <<p, loc[p].i>>, !.w = (@ + 1) % IdxMod]
    /\ written' = Append(written, <<p, loc[p].i>>)
    /\ loc' = [loc EXCEPT ![p].i = @ + 1]
    /\ lock' = [lock EXCEPT !["tx"] = p]
    /\ Goto(p, "uartstart")
    /\ UNCHANGED <<chan, killed, back, cons, uart, todo, sent>>

\* Mutation: writers that wait for space are not woken.
uartstart_quiet(t) ==
    /\ pc[t] = "uartstart" /\ ~TxEmpty /\ TX_IDLE
    /\ tx' = [tx EXCEPT !.r = (@ + 1) % IdxMod]
    /\ loc' = [loc EXCEPT ![t].c = tx.buf[tx.r % UART_TX_BUF_SIZE]]
    /\ Quiet(t, "WriteReg")
    /\ UNCHANGED <<cons, uart, todo, written, sent>>

\* The next character out of the ring, if the device is idle ...
uartstart(t) ==
    /\ pc[t] = "uartstart" /\ ~TxEmpty /\ TX_IDLE
    /\ tx' = [tx EXCEPT !.r = (@ + 1) % IdxMod]
    /\ loc' = [loc EXCEPT ![t].c = tx.buf[tx.r % UART_TX_BUF_SIZE]]
    /\ wakeup("tx_r")
    /\ Goto(t, "WriteReg")
    /\ UNCHANGED <<killed, lock, back, cons, uart, todo, written, sent>>

\* ... and into the device.
WriteReg(t) ==
    /\ pc[t] = "WriteReg"
    /\ uart' = [uart EXCEPT !.fifo = Append(@, loc[t].c)]
    /\ loc' = [loc EXCEPT ![t].c = "none"]
    /\ Quiet(t, "uartstart")
    /\ UNCHANGED <<cons, tx, todo, written, sent>>

\* uartstart() returns, to uartputc() or to uartintr(); the lock is released.
uartstart_done(t) ==
    /\ pc[t] = "uartstart" /\ (TxEmpty \/ ~TX_IDLE)
    /\ Release(t, "tx")
    /\ Goto(t, IF t \in Handler THEN "idle" ELSE "consolewrite")
    /\ UNCHANGED <<chan, killed, back, consoleVars>>

-----------------------------------------------------------------------------
(* uartintr() and consoleintr(), of handler h *)

uartintr(h) ==
    /\ pc[h] = "idle" /\ uart.irq
    /\ uart' = [uart EXCEPT !.irq = FALSE]
    /\ Quiet(h, "uartgetc")
    /\ UNCHANGED <<cons, tx, loc, todo, written, sent>>

Typed == (cons.e - cons.r) % IdxMod   \* cons.e - cons.r
Editable == (cons.e - cons.w) % IdxMod
At(k) == cons.buf[(k % IdxMod) % INPUT_BUF_SIZE]

\* ^U goes back to the last newline.
KillLine == LET S == {n \in 0 .. Editable : \A k \in 1 .. n : At(cons.e - k) # "nl"}
            IN  Max(S)

\* Mutation: backspace erases also what is readable already.
Erased_any(c) == CASE c = "^U" -> KillLine
                   [] c = "^H" -> Min({1, Typed})
                   [] OTHER -> 0

Erased(c) == CASE c = "^U" -> KillLine
               [] c = "^H" -> Min({1, Editable})
               [] OTHER -> 0

Stores(c) == c \notin {"^U", "^H", "^P", "nul"} /\ Typed < INPUT_BUF_SIZE

\* The next key: erasing takes effect at once, and is echoed once per character; a key
\* that will be stored is echoed before.
consoleintr(h) ==
    LET c == Head(uart.rx) IN
    /\ pc[h] = "uartgetc" /\ uart.rx # <<>> /\ Acquire(h, "cons")
    /\ uart' = [uart EXCEPT !.rx = Tail(@)]
    /\ cons' = [cons EXCEPT !.e = (@ - Erased(c)) % IdxMod]
    /\ loc' = [loc EXCEPT ![h].i = IF Stores(c) THEN 1 ELSE 0,
                          ![h].c = IF c = "cr" THEN "nl" ELSE c,
                          ![h].echo = IF Stores(c) THEN 1 ELSE Erased(c)]
    /\ Goto(h, "consputc")
    /\ UNCHANGED <<chan, killed, back, tx, todo, written, sent>>

\* consputc(), by uartputc_sync(): wait until the device is idle, then write, both
\* without uart_tx_lock.
consputc(h) ==
    /\ pc[h] = "consputc" /\ loc[h].echo > 0 /\ TX_IDLE
    /\ Quiet(h, "uartputc_sync")
    /\ UNCHANGED consoleVars

uartputc_sync(h) ==
    /\ pc[h] = "uartputc_sync"
    /\ uart' = [uart EXCEPT !.fifo = Append(@, <<0, 0>>)]
    /\ loc' = [loc EXCEPT ![h].echo = @ - 1]
    /\ Quiet(h, "consputc")
    /\ UNCHANGED <<cons, tx, todo, written, sent>>

\* A newline, an end of file or a full buffer makes the line readable.
Complete(c) == c \in {"nl", "eof"} \/ (cons.e + 1 - cons.r) % IdxMod = INPUT_BUF_SIZE

consoleintr_store(h) ==
    LET c == loc[h].c IN
    /\ pc[h] = "consputc" /\ loc[h].echo = 0
    /\ \/ /\ loc[h].i = 1
          /\ cons' = [cons EXCEPT !.buf[cons.e % INPUT_BUF_SIZE] = c,
                                  !.e = (@ + 1) % IdxMod,
                                  !.w = IF Complete(c) THEN (cons.e + 1) % IdxMod ELSE @]
          /\ IF Complete(c) THEN wakeup("cons_r") ELSE UNCHANGED chan
       \/ loc[h].i = 0 /\ UNCHANGED <<cons, chan>>
    /\ Release(h, "cons")
    /\ loc' = [loc EXCEPT ![h] = Idle]
    /\ Goto(h, "uartgetc")
    /\ UNCHANGED <<killed, back, tx, uart, todo, written, sent>>

\* No more keys: send buffered characters.
uartintr_tx(h) ==
    /\ pc[h] = "uartgetc" /\ uart.rx = <<>> /\ Acquire(h, "tx")
    /\ Goto(h, "uartstart")
    /\ UNCHANGED <<chan, killed, back, consoleVars>>

-----------------------------------------------------------------------------
(* consoleread(): loc.n is what remains, loc.i the target *)

Empty == cons.r = cons.w

\* cons.lock is free, or p holds it: it has just been woken, or goes on in its loop.
Reads(p) == (pc[p] = "consoleread" /\ Free("cons")) \/ pc[p] = "consoleread_loop"

consoleread_return(p) ==
    /\ Reads(p) /\ (loc[p].n = 0 \/ (Empty /\ killed[p]))
    /\ Release(p, "cons")
    /\ Goto(p, "user")
    /\ loc' = [loc EXCEPT ![p] = Idle]
    /\ UNCHANGED <<chan, killed, back, cons, tx, uart, todo, written, sent>>

consoleread_sleep(p) ==
    /\ Reads(p) /\ loc[p].n > 0 /\ Empty /\ ~killed[p]
    /\ sleep(p, "cons_r", "cons", "consoleread_loop")
    /\ UNCHANGED <<killed, consoleVars>>

\* One character.  An end of file ends the call, and stays for the next one if this one
\* has read something; a newline, or a failing either_copyout(), ends it as well.
consoleread(p) ==
    LET c == At(cons.r)
        keep == c = "eof" /\ loc[p].n < loc[p].i
    IN
    /\ Reads(p) /\ loc[p].n > 0 /\ ~Empty
    /\ cons' = [cons EXCEPT !.r = IF keep THEN @ ELSE (@ + 1) % IdxMod]
    /\ \/ /\ Release(p, "cons")
          /\ Goto(p, "user")
          /\ loc' = [loc EXCEPT ![p] = Idle]
       \/ /\ c \notin {"eof", "nl"}
          /\ lock' = [lock EXCEPT !["cons"] = p]
          /\ Goto(p, "consoleread_loop")
          /\ loc' = [loc EXCEPT ![p].n = @ - 1]
    /\ UNCHANGED <<chan, killed, back, tx, uart, todo, written, sent>>

-----------------------------------------------------------------------------
(* System calls, the device and kill() *)

Call(p) ==
    /\ pc[p] = "user" /\ todo[p] # <<>> /\ ~killed[p]
    /\ todo' = [todo EXCEPT ![p] = Tail(@)]
    /\ LET n == Head(todo[p])[2] IN loc' = [loc EXCEPT ![p] = [Idle EXCEPT !.n = n,
            !.i = IF Head(todo[p])[1] = "consoleread" THEN n ELSE 0]]
    /\ Quiet(p, Head(todo[p])[1])
    /\ UNCHANGED <<cons, tx, uart, written, sent>>

TypeKey ==
    /\ uart.keys # <<>>
    /\ uart' = [uart EXCEPT !.keys = Tail(@), !.rx = Append(@, Head(uart.keys)), !.irq = TRUE]
    /\ UNCHANGED <<condVars, cons, tx, loc, todo, written, sent>>

Transmit ==
    /\ uart.fifo # <<>>
    /\ uart' = [uart EXCEPT !.fifo = Tail(@), !.irq = @ \/ Len(uart.fifo) = 1]
    /\ sent' = IF Head(uart.fifo)[1] = 0 THEN sent ELSE Append(sent, Head(uart.fifo))
    /\ UNCHANGED <<condVars, cons, tx, loc, todo, written>>

sys_kill(q) == ~killed[q] /\ kill(q) /\ UNCHANGED consoleVars

Output(t) == uartstart(t) \/ WriteReg(t) \/ uartstart_done(t)

Step(p) ==
    \/ Awakes(p) /\ UNCHANGED consoleVars
    \/ Output(p) \/ consolewrite_done(p) \/ uartputc_wait(p) \/ uartputc(p)
    \/ consoleread(p) \/ consoleread_sleep(p) \/ consoleread_return(p)

Interrupt(h) ==
    \/ Output(h) \/ uartintr(h) \/ consoleintr(h) \/ consputc(h) \/ uartputc_sync(h)
    \/ consoleintr_store(h) \/ uartintr_tx(h)

Next == \/ \E p \in Proc : Call(p) \/ Step(p)
        \/ \E h \in Handler : Interrupt(h)
        \/ TypeKey \/ Transmit
        \/ \E q \in Killable : sys_kill(q)

\* Nothing is assumed but that the system does not stop while there is something to do.
Spec == Init /\ [][Next]_vars /\ WF_vars(Next)

-----------------------------------------------------------------------------
(* Properties *)

TypeOK ==
    /\ CondTypeOK
    /\ {cons.r, cons.w, cons.e, tx.r, tx.w} \subseteq 0 .. IdxMod - 1
    /\ Typed <= INPUT_BUF_SIZE /\ (tx.w - tx.r) % IdxMod <= UART_TX_BUF_SIZE
    /\ \A t \in Thread : loc[t].n \in Nat /\ loc[t].echo \in 0 .. INPUT_BUF_SIZE

TxContent == [k \in 1 .. (tx.w - tx.r) % IdxMod |->
                    tx.buf[((tx.r + k - 1) % IdxMod) % UART_TX_BUF_SIZE]]

\* The character taken out of the ring and not yet in the device.
InHand == LET T == {t \in Thread : pc[t] = "WriteReg"}
          IN  IF T = {} THEN <<>> ELSE <<loc[CHOOSE t \in T : TRUE].c>>

\* Whoever sends, a writer or the interrupt handler, and whatever is echoed in between,
\* the characters given to uartputc() leave in that order, each once.
\* Neither ring ever holds more than its size, nor does the device's FIFO: the echo does not
\* take uart_tx_lock, so it and uartstart() may both have found the device idle.
OutputInOrder ==
    /\ TypeOK /\ Len(uart.fifo) <= FifoSize
    /\ sent \o SelectSeq(uart.fifo, LAMBDA c : c[1] # 0) \o InHand \o TxContent = written

Input == INSTANCE LineInput WITH
    Size <- INPUT_BUF_SIZE, Letter <- {"x", "y", "nl", "eof"},
    ready <- [k \in 1 .. (cons.w - cons.r) % IdxMod |-> At(cons.r + k - 1)],
    line <- [k \in 1 .. Editable |-> At(cons.w + k - 1)]

\* Editing in a ring that readers empty at the same time, across the wrap of its indices,
\* is line input: nothing readable is edited, lost or read twice.
ImplementsLineInput == Input!Spec

\* In the end all output has left, all keys have been handled, and who still waits is a
\* reader without input: no wake-up is lost and no character stays behind in the ring
\* with nobody left to send it.
NothingLeftWaiting ==
    <>[](/\ uart.rx = <<>> /\ uart.fifo = <<>> /\ TxEmpty
         /\ \A p \in Proc : \/ pc[p] = "user"
                            \/ pc[p] = "asleep" /\ chan[p] = "cons_r" /\ Empty)
=============================================================================
