-------------------------------- MODULE Serial --------------------------------
(***************************************************************************)
(* Characters in and out: the interrupt queues of devices/intq.c, with the *)
(* serial port (serial.c) and the keyboard (kbd.c) on them, and input.c.   *)
(* Printing threads hold console_lock and reading ones file_lock, so there *)
(* is one of each at a time: Writer and Reader.  Their lock of the queue   *)
(* is then always free.  Everything here runs with interrupts off, and an  *)
(* action is a stretch of it without thread_block or busy waiting.         *)
(* Characters are numbered in the order in which they are put, modulo      *)
(* Count.  A thread is "idle", "blocked" in wait, or "woken" there.        *)
(***************************************************************************)
EXTENDS Integers, Sequences

CONSTANTS
    BufSize,         \* INTQ_BUFSIZE
    Count            \* bound on the numbers of characters

ASSUME SerialAssumption ==
    BufSize \in Nat \ {0, 1} /\ Count \in Nat /\ Count > BufSize + 1

VARIABLES
    mode,            \* mode, when init_poll is done: "poll" or "queue"
    txq, buffer,     \* the queues: buf, head and tail
    notFull,         \* txq.not_full # NULL: the writer is recorded there
    notEmpty,        \* buffer.not_empty # NULL
    ier,             \* what write_ier has written
    thr,             \* the characters the UART is transmitting: one at most
    dataReady,       \* it has received one (LSR_DR)
    writer, reader,
    printed, sent, typed, got   \* history: the last numbers at each end

txVars == <<txq, notFull, thr, writer, printed, sent>>
rxVars == <<buffer, notEmpty, dataReady, reader, typed, got>>
serialVars == <<mode, ier, txVars, rxVars>>

Char == 0 .. Count - 1
After(c) == (c + 1) % Count

-----------------------------------------------------------------------------
(* A struct intq.                                                          *)
next(pos) == (pos + 1) % BufSize
IntqEmpty(q) == q.head = q.tail
(* Mutant: the position after the head does not wrap around.               *)
IntqFullUnwrapped(q) == q.head + 1 = q.tail

IntqFull(q) == next(q.head) = q.tail
Put(q, c) ==
    [buf |-> [q.buf EXCEPT ![q.head] = c], head |-> next(q.head), tail |-> q.tail]
First(q) == q.buf[q.tail]
Rest(q) == [q EXCEPT !.tail = next(@)]

(* wait records the thread and blocks it.  signal wakes the one that is    *)
(* recorded, and forgets it.                                               *)
Wakes(waiting, stage) == IF waiting THEN "woken" ELSE stage

(* write_ier, when tx and rx are the queues.                               *)
WriteIer(tx, rx) ==
    ier' = {b \in {"xmit", "recv"} : IF b = "xmit" THEN ~IntqEmpty(tx) ELSE ~IntqFull(rx)}
SerialNotify(rx) == IF mode = "queue" THEN WriteIer(txq, rx) ELSE UNCHANGED ier

-----------------------------------------------------------------------------
(* serial_init_queue.                                                      *)
InitQueue ==
    /\ mode = "poll"
    /\ mode' = "queue"
    /\ WriteIer(txq, buffer)
    /\ UNCHANGED <<txVars, rxVars>>

(* serial_putc before that: putc_poll waits for the UART.                  *)
PutcPoll ==
    /\ mode = "poll" /\ thr = <<>>
    /\ printed' = After(printed)
    /\ thr' = <<printed'>>
    /\ UNCHANGED <<mode, ier, txq, notFull, writer, sent, rxVars>>

(* intq_putc by the writer, and the rest of serial_putc; or wait.          *)
Putc ==
    IF IntqFull(txq)
    THEN /\ notFull' = TRUE /\ writer' = "blocked"
         /\ UNCHANGED <<ier, txq, printed>>
    ELSE /\ printed' = After(printed)
         /\ txq' = Put(txq, printed')
         /\ WriteIer(txq', buffer)
         /\ writer' = "idle"
         /\ UNCHANGED notFull

SerialPutc ==
    /\ mode = "queue" /\ writer = "idle"
    /\ Putc
    /\ UNCHANGED <<mode, thr, sent, rxVars>>

(* Mutant: wait is called once, and not in a loop.                         *)
PutcResumeOnce ==
    /\ writer = "woken"
    /\ printed' = After(printed)
    /\ txq' = Put(txq, printed')
    /\ WriteIer(txq', buffer)
    /\ writer' = "idle"
    /\ UNCHANGED <<mode, notFull, thr, sent, rxVars>>

(* The writer runs again in the loop of intq_putc.                         *)
PutcResume ==
    /\ writer = "woken"
    /\ Putc
    /\ UNCHANGED <<mode, thr, sent, rxVars>>

(* serial_putc with interrupts off, as in a handler, by which the writer   *)
(* may be interrupted.  When the queue is full the first of its characters *)
(* is sent by polling.                                                     *)
SerialPutcOff ==
    /\ mode = "queue"
    /\ printed' = After(printed)
    /\ IF IntqFull(txq)
       THEN /\ thr = <<>>
            /\ thr' = <<First(txq)>>
            /\ txq' = Put(Rest(txq), printed')
            /\ writer' = Wakes(notFull, writer) /\ notFull' = FALSE
       ELSE txq' = Put(txq, printed') /\ UNCHANGED <<thr, writer, notFull>>
    /\ WriteIer(txq', buffer)
    /\ UNCHANGED <<mode, sent, rxVars>>

(* A turn of the loop in serial_flush, when the machine stops.             *)
SerialFlush ==
    /\ ~IntqEmpty(txq) /\ thr = <<>>
    /\ thr' = <<First(txq)>>
    /\ txq' = Rest(txq)
    /\ writer' = Wakes(notFull, writer) /\ notFull' = FALSE
    /\ UNCHANGED <<mode, ier, printed, sent, rxVars>>

(* Mutant: intq_putc does not wake the reader.                             *)
InputPutcSilent(ready) ==
    /\ typed' = After(typed)
    /\ buffer' = Put(buffer, typed')
    /\ SerialNotify(buffer')
    /\ dataReady' = ready
    /\ UNCHANGED <<reader, notEmpty, got>>

(* input_putc, when the handler has found the buffer not to be full.       *)
InputPutc(ready) ==
    /\ typed' = After(typed)
    /\ buffer' = Put(buffer, typed')
    /\ SerialNotify(buffer')
    /\ dataReady' = ready
    /\ reader' = Wakes(notEmpty, reader) /\ notEmpty' = FALSE
    /\ UNCHANGED got

KeyboardInterrupt ==
    /\ IF IntqFull(buffer) THEN UNCHANGED <<ier, rxVars>> ELSE InputPutc(dataReady)
    /\ UNCHANGED <<mode, txVars>>

(* serial_interrupt, which is raised for what ier lets through.            *)
SerialInterrupt ==
    /\ mode = "queue"
    /\ ("xmit" \in ier /\ thr = <<>>) \/ ("recv" \in ier /\ dataReady)
    /\ IF ~IntqFull(buffer) /\ dataReady
       THEN /\ typed' = After(typed)
            /\ buffer' = Put(buffer, typed')
            /\ dataReady' = FALSE
            /\ reader' = Wakes(notEmpty, reader) /\ notEmpty' = FALSE
       ELSE UNCHANGED <<typed, buffer, dataReady, reader, notEmpty>>
    /\ IF ~IntqEmpty(txq) /\ thr = <<>>
       THEN /\ thr' = <<First(txq)>>
            /\ txq' = Rest(txq)
            /\ writer' = Wakes(notFull, writer) /\ notFull' = FALSE
       ELSE UNCHANGED <<thr, txq, writer, notFull>>
    /\ WriteIer(txq', buffer')
    /\ UNCHANGED <<mode, printed, sent, got>>

(* Mutant: input_getc does not call serial_notify.                         *)
GetcUnnotified ==
    IF IntqEmpty(buffer)
    THEN /\ notEmpty' = TRUE /\ reader' = "blocked"
         /\ UNCHANGED <<ier, buffer, got>>
    ELSE /\ got' = First(buffer)
         /\ buffer' = Rest(buffer)
         /\ UNCHANGED ier
         /\ reader' = "idle"
         /\ UNCHANGED notEmpty

(* intq_getc by the reader; or wait.                                       *)
Getc ==
    IF IntqEmpty(buffer)
    THEN /\ notEmpty' = TRUE /\ reader' = "blocked"
         /\ UNCHANGED <<ier, buffer, got>>
    ELSE /\ got' = First(buffer)
         /\ buffer' = Rest(buffer)
         /\ SerialNotify(buffer')
         /\ reader' = "idle"
         /\ UNCHANGED notEmpty

InputGetc ==
    /\ reader = "idle" \/ reader = "woken"
    /\ Getc
    /\ UNCHANGED <<mode, txVars, dataReady, typed>>

(* The UART has sent a character, or received one.                         *)
Transmitted ==
    /\ thr # <<>>
    /\ sent' = thr[1]
    /\ thr' = <<>>
    /\ UNCHANGED <<mode, ier, txq, notFull, writer, printed, rxVars>>

Received ==
    /\ ~dataReady
    /\ dataReady' = TRUE
    /\ UNCHANGED <<mode, ier, txVars, buffer, notEmpty, reader, typed, got>>

-----------------------------------------------------------------------------
SerialInit ==
    /\ mode = "poll"
    /\ txq = [buf |-> [pos \in 0 .. BufSize - 1 |-> 0], head |-> 0, tail |-> 0]
    /\ buffer = txq
    /\ notFull = FALSE /\ notEmpty = FALSE
    /\ ier = {}
    /\ thr = <<>> /\ dataReady = FALSE
    /\ writer = "idle" /\ reader = "idle"
    /\ printed = 0 /\ sent = 0 /\ typed = 0 /\ got = 0

SerialNext ==
    \/ InitQueue \/ PutcPoll \/ SerialPutc \/ PutcResume \/ SerialPutcOff \/ SerialFlush
    \/ KeyboardInterrupt \/ SerialInterrupt \/ InputGetc
    \/ Transmitted \/ Received

(* What goes on by itself: the UART, interrupts, and threads that can run. *)
ResumeReader == reader = "woken" /\ InputGetc
SerialSpec ==
    /\ SerialInit /\ [][SerialNext]_serialVars
    /\ WF_serialVars(Transmitted) /\ WF_serialVars(SerialInterrupt)
    /\ WF_serialVars(PutcResume) /\ WF_serialVars(ResumeReader)

-----------------------------------------------------------------------------
Queue == [buf : [0 .. BufSize - 1 -> Char], head : 0 .. BufSize - 1, tail : 0 .. BufSize - 1]

(* Types of the variables.                                                 *)
SerialTypeOK ==
    /\ mode \in {"poll", "queue"}
    /\ txq \in Queue /\ buffer \in Queue
    /\ notFull \in BOOLEAN /\ notEmpty \in BOOLEAN /\ dataReady \in BOOLEAN
    /\ ier \subseteq {"xmit", "recv"}
    /\ thr \in {<<>>} \cup {<<c>> : c \in Char}
    /\ writer \in {"idle", "blocked", "woken"} /\ reader \in {"idle", "blocked", "woken"}
    /\ printed \in Char /\ sent \in Char /\ typed \in Char /\ got \in Char

(* The characters in a queue are those after c, in order, up to d.         *)
Length(q) == (q.head - q.tail) % BufSize
Holds(q, c, d) ==
    /\ \A i \in 0 .. Length(q) - 1 : q.buf[(q.tail + i) % BufSize] = (c + 1 + i) % Count
    /\ d = (c + Length(q)) % Count

(* No character is lost, doubled or overtaken between printf and the line, *)
(* by whichever of queue, polling and flush it goes, nor between the       *)
(* interrupt handlers and the reader.                                      *)
CharactersInOrder ==
    /\ thr # <<>> => thr[1] = After(sent)
    /\ Holds(txq, IF thr = <<>> THEN sent ELSE thr[1], printed)
    /\ Holds(buffer, got, typed)

(* The UART interrupts for what there is to do: it is told of a character  *)
(* to send, and of room for one to receive, and not to interrupt when      *)
(* there is no room.                                                       *)
InterruptsEnabled ==
    mode = "queue" =>
        /\ ~IntqEmpty(txq) => "xmit" \in ier
        /\ "recv" \in ier <=> ~IntqFull(buffer)

(* A thread is blocked only for a queue that is full, or empty, and is     *)
(* recorded there (the assertions of wait and signal).                     *)
BlockedIsRecorded ==
    /\ writer = "blocked" <=> notFull
    /\ notFull => IntqFull(txq)
    /\ reader = "blocked" <=> notEmpty
    /\ notEmpty => IntqEmpty(buffer)

(* Whoever waits, for the UART or for a queue, is told of what it waits    *)
(* for: the handler that will do so is enabled and knows of the thread.    *)
WaitersAreTold == InterruptsEnabled /\ BlockedIsRecorded

(* What is printed in queue mode is sent, with nobody's help: the UART     *)
(* does not stop while there are characters for it.                        *)
PrintedIsSent == \A c \in Char : (mode = "queue" /\ printed = c) ~> (sent = c)

(* A reader gets the character that it waits for.                          *)
ReaderIsServed == (mode = "queue" /\ reader = "blocked" /\ dataReady) ~> (reader = "idle")
=============================================================================
