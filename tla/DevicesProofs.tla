---------------------------- MODULE DevicesProofs ----------------------------
(***************************************************************************)
(* Proofs about the disk channel, the serial port and the heap, for any    *)
(* number of threads, sectors, characters, pages and descriptors.          *)
(***************************************************************************)
EXTENDS DiskChannel, Serial, Heap, FiniteSetTheorems, SequenceTheorems, TLAPS

-----------------------------------------------------------------------------
(* The disk channel.                                                       *)

(* The device has nothing to do, or is still writing a sector.             *)
DeviceIdle == ~busy /\ ~drq /\ command = "none" /\ dataReg = NoOne
Writing == busy /\ ~drq /\ command = "write" /\ dataReg # NoOne
Wanted(t) == <<request[t].disk, request[t].sector>>

(* What the device is about while the holder of the lock is at each of its *)
(* stages.  A write that a spurious interrupt has released early may go on *)
(* into the next command's select_sector, which waits for it.              *)
BeforeCommand ==
    /\ chanLock = NoOne => DeviceIdle \/ Writing
    /\ \A t \in Caller : At(t, "select") => DeviceIdle \/ Writing
    /\ \A t \in Caller : At(t, "issue") =>
          DeviceIdle /\ expecting /\ selected = Wanted(t)
ReadCommand ==
    \A t \in Caller : Reading(t) =>
        /\ At(t, "down") \/ At(t, "busy") =>
              /\ selected = Wanted(t) /\ command = "read" /\ expecting
              /\ (busy /\ ~drq) \/ (~busy /\ drq /\ dataReg = OnPlatter(t))
        /\ At(t, "release") => DeviceIdle /\ read[t] = OnPlatter(t)
WriteCommand ==
    \A t \in Caller : ~Reading(t) =>
        /\ At(t, "busy") =>
              /\ selected = Wanted(t) /\ command = "write" /\ expecting
              /\ dataReg = NoOne /\ (busy <=> ~drq)
        /\ At(t, "down") =>
              /\ selected = Wanted(t) /\ expecting
              /\ \/ Writing /\ dataReg = request[t].data
                 \/ DeviceIdle /\ OnPlatter(t) = request[t].data
        /\ At(t, "release") =>
              /\ DeviceIdle \/ Writing
              /\ ~noise => DeviceIdle /\ OnPlatter(t) = request[t].data

DiskInv ==
    /\ DiskTypeOK
    /\ busy \/ irq => expecting
    /\ BeforeCommand /\ ReadCommand /\ WriteCommand
    /\ InterruptPerCommand

LEMMA DiskInitInv == DiskInit => DiskInv
<1> SUFFICES ASSUME DiskInit PROVE DiskInv
  OBVIOUS
<1> USE DiskAssumption DEF DiskAssumption
<1>1. Request # {} /\ Disk \X DiskSector # {}
  <2>1. PICK d \in Disk, s \in DiskSector : TRUE
    OBVIOUS
  <2>2. [disk |-> d, sector |-> s, data |-> NoOne] \in Request
    BY DEF Request
  <2>3. <<d, s>> \in Disk \X DiskSector
    BY <2>1
  <2>4. QED
    BY <2>2, <2>3
<1>2. (CHOOSE r \in Request : TRUE) \in Request
  BY <1>1
<1>3. (CHOOSE x \in Disk \X DiskSector : TRUE) \in Disk \X DiskSector
  BY <1>1
<1>4. (CHOOSE d \in DiskData : TRUE) \in DiskData
  OBVIOUS
<1>5. DiskTypeOK
  BY <1>2, <1>3, <1>4 DEF DiskInit, DiskTypeOK
<1>6. QED
  BY <1>5 DEF DiskInit, DiskInv, BeforeCommand, ReadCommand, WriteCommand, DeviceIdle, At,
              InterruptPerCommand, One

LEMMA DiskTypeInv == DiskTypeOK /\ [DiskNext]_diskVars => DiskTypeOK'
<1> SUFFICES ASSUME DiskTypeOK, [DiskNext]_diskVars PROVE DiskTypeOK'
  OBVIOUS
<1> USE DiskAssumption DEF DiskAssumption, DiskTypeOK, At, GoTo, threadState, device
<1>1. ASSUME NEW t \in Caller, NEW r \in Request, DiskCall(t, r) PROVE DiskTypeOK'
  BY <1>1 DEF DiskCall
<1>2. ASSUME NEW t \in Caller, SelectSector(t) PROVE DiskTypeOK'
  BY <1>2 DEF SelectSector, Request
<1>3. ASSUME NEW t \in Caller, IssueCommand(t) PROVE DiskTypeOK'
  BY <1>3 DEF IssueCommand
<1>4. ASSUME NEW t \in Caller, SemaDown(t) PROVE DiskTypeOK'
  BY <1>4 DEF SemaDown
<1>5. ASSUME NEW t \in Caller, InputSector(t) PROVE DiskTypeOK'
  BY <1>5 DEF InputSector
<1>6. ASSUME NEW t \in Caller, OutputSector(t) PROVE DiskTypeOK'
  BY <1>6 DEF OutputSector, Request
<1>7. ASSUME NEW t \in Caller, ChannelRelease(t) PROVE DiskTypeOK'
  BY <1>7 DEF ChannelRelease
<1>8. ASSUME Handler PROVE DiskTypeOK'
  <2>1. completion' \in Nat
    BY <1>8 DEF Handler
  <2>2. QED
    BY <1>8, <2>1, Zenon DEF Handler
<1>9. ASSUME DeviceStep PROVE DiskTypeOK'
  <2>1. CASE SectorRead
    BY <2>1 DEF SectorRead
  <2>2. CASE ReadyToWrite
    BY <2>2 DEF ReadyToWrite
  <2>3. CASE SectorWritten
    BY <2>3 DEF SectorWritten
  <2>4. QED
    BY <1>9, <2>1, <2>2, <2>3 DEF DeviceStep
<1>10. CASE UNCHANGED diskVars
  BY <1>10 DEF diskVars
<1>11. QED
  BY <1>1, <1>2, <1>3, <1>4, <1>5, <1>6, <1>7, <1>8, <1>9, <1>10
     DEF DiskNext, CallerStep, DiskInterrupt, SpuriousInterrupt

LEMMA DiskInvNext == DiskInv /\ [DiskNext]_diskVars => DiskInv'
<1> SUFFICES ASSUME DiskInv, [DiskNext]_diskVars PROVE DiskInv'
  OBVIOUS
<1>0. DiskTypeOK /\ DiskTypeOK'
  BY DiskTypeInv DEF DiskInv
<1> USE <1>0, DiskAssumption DEF DiskAssumption, DiskInv, BeforeCommand, ReadCommand, WriteCommand, DeviceIdle, Writing, Wanted,
                 Reading, OnPlatter, At, GoTo, threadState, device
<1>1. ASSUME NEW t \in Caller, NEW r \in Request, DiskCall(t, r) PROVE DiskInv'
  BY <1>1 DEF DiskCall, DiskTypeOK, InterruptPerCommand, One
<1>2. ASSUME NEW t \in Caller, SelectSector(t) PROVE DiskInv'
  BY <1>2 DEF SelectSector, DiskTypeOK, InterruptPerCommand, One
<1>3. ASSUME NEW t \in Caller, IssueCommand(t) PROVE DiskInv'
  BY <1>3 DEF IssueCommand, DiskTypeOK, InterruptPerCommand, One
<1>4. ASSUME NEW t \in Caller, SemaDown(t) PROVE DiskInv'
  BY <1>4 DEF SemaDown, DiskTypeOK, InterruptPerCommand, One
<1>5. ASSUME NEW t \in Caller, InputSector(t) PROVE DiskInv'
  BY <1>5 DEF InputSector, DiskTypeOK, InterruptPerCommand, One
<1>6. ASSUME NEW t \in Caller, OutputSector(t) PROVE DiskInv'
  BY <1>6 DEF OutputSector, DiskTypeOK, InterruptPerCommand, One, Request
<1>7. ASSUME NEW t \in Caller, ChannelRelease(t) PROVE DiskInv'
  BY <1>7 DEF ChannelRelease, DiskTypeOK, InterruptPerCommand, One
<1>8. ASSUME DiskInterrupt \/ SpuriousInterrupt PROVE DiskInv'
  <2>1. BeforeCommand' /\ ReadCommand' /\ WriteCommand' /\ (busy' \/ irq' => expecting')
    BY <1>8 DEF DiskInterrupt, SpuriousInterrupt, Handler
  <2>2. InterruptPerCommand'
    <3> SUFFICES ASSUME ~noise'
                 PROVE  InterruptPerCommand'
      BY DEF InterruptPerCommand
    <3>1. ~noise /\ irq /\ ~irq' /\ completion' = completion + 1
      BY <1>8 DEF DiskInterrupt, SpuriousInterrupt, Handler
    <3>2. /\ UNCHANGED <<chanPc, chanLock, command, dataReg>>
          /\ busy' <=> busy
      BY <1>8 DEF DiskInterrupt, SpuriousInterrupt, Handler
    <3>3. QED
      BY <3>1, <3>2 DEF InterruptPerCommand, One, DiskTypeOK
  <2>3. QED
    BY <2>1, <2>2
<1>9. ASSUME SectorRead PROVE DiskInv'
  BY <1>9 DEF SectorRead, DiskTypeOK, InterruptPerCommand, One
<1>10. ASSUME ReadyToWrite PROVE DiskInv'
  BY <1>10 DEF ReadyToWrite, DiskTypeOK, InterruptPerCommand, One
<1>11. ASSUME SectorWritten PROVE DiskInv'
  BY <1>11 DEF SectorWritten, DiskTypeOK, InterruptPerCommand, One
<1>12. CASE UNCHANGED diskVars
  BY <1>12 DEF diskVars, DiskTypeOK, InterruptPerCommand, One
<1>13. QED
  BY <1>1, <1>2, <1>3, <1>4, <1>5, <1>6, <1>7, <1>8, <1>9, <1>10, <1>11, <1>12
     DEF DiskNext, CallerStep, DeviceStep

(* disk_read and disk_write do what they promise when they return, for any *)
(* number of threads on the channel, whatever spurious interrupts come.    *)
THEOREM DiskServes == DiskSpec => []CommandsAreServed
<1>1. DiskInv => CommandsAreServed
  BY DEF DiskInv, CommandsAreServed, ReadsTheSector, WriteIsAcknowledged, ReadCommand,
         WriteCommand, Reading, At, DiskTypeOK
<1>2. QED
  BY <1>1, DiskInitInv, DiskInvNext, PTL DEF DiskSpec

-----------------------------------------------------------------------------
(* The serial port.  Nothing here depends on what the queues hold, only on *)
(* who is told when a queue is full, or empty.                             *)
WaitInv ==
    /\ notFull \in BOOLEAN /\ notEmpty \in BOOLEAN
    /\ InterruptsEnabled /\ BlockedIsRecorded

LEMMA WriteIerTells ==
    ASSUME NEW tx, NEW rx, WriteIer(tx, rx)
    PROVE  /\ "xmit" \in ier' <=> ~IntqEmpty(tx)
           /\ "recv" \in ier' <=> ~IntqFull(rx)
BY DEF WriteIer

LEMMA SerialInitInv == SerialInit => WaitInv
BY DEF SerialInit, WaitInv, InterruptsEnabled, BlockedIsRecorded

LEMMA SerialInvNext == WaitInv /\ [SerialNext]_serialVars => WaitInv'
<1> SUFFICES ASSUME WaitInv, [SerialNext]_serialVars PROVE WaitInv'
  OBVIOUS
<1> USE DEF WaitInv, InterruptsEnabled, BlockedIsRecorded, txVars, rxVars
<1>1. ASSUME InitQueue PROVE WaitInv'
  BY <1>1, WriteIerTells DEF InitQueue
<1>2. ASSUME PutcPoll PROVE WaitInv'
  BY <1>2 DEF PutcPoll
<1>3. ASSUME Putc, writer # "blocked", UNCHANGED <<mode, rxVars>> PROVE WaitInv'
  BY <1>3, WriteIerTells DEF Putc
<1>4. ASSUME SerialPutcOff PROVE WaitInv'
  BY <1>4, WriteIerTells DEF SerialPutcOff, Wakes
<1>5. ASSUME SerialFlush PROVE WaitInv'
  BY <1>5 DEF SerialFlush, Wakes
<1>6. ASSUME KeyboardInterrupt PROVE WaitInv'
  BY <1>6, WriteIerTells DEF KeyboardInterrupt, InputPutc, SerialNotify, Wakes
<1>7. ASSUME SerialInterrupt PROVE WaitInv'
  BY <1>7, WriteIerTells DEF SerialInterrupt, Wakes
<1>8. ASSUME InputGetc PROVE WaitInv'
  BY <1>8, WriteIerTells DEF InputGetc, Getc, SerialNotify
<1>9. ASSUME Transmitted \/ Received PROVE WaitInv'
  BY <1>9 DEF Transmitted, Received
<1>10. CASE UNCHANGED serialVars
  BY <1>10 DEF serialVars
<1>11. QED
  BY <1>1, <1>2, <1>3, <1>4, <1>5, <1>6, <1>7, <1>8, <1>9, <1>10
     DEF SerialNext, SerialPutc, PutcResume

(* A thread that is blocked for a queue is recorded there, for the reason  *)
(* that it waits for, and the UART is told to interrupt for what there is  *)
(* to do, with queues of any length.                                       *)
THEOREM SerialTellsWaiters == SerialSpec => []WaitersAreTold
<1>1. WaitInv => WaitersAreTold
  BY DEF WaitInv, WaitersAreTold
<1>2. QED
  BY <1>1, SerialInitInv, SerialInvNext, PTL DEF SerialSpec

LEMMA QueueType ==
    ASSUME NEW q \in Queue, NEW c \in Char
    PROVE  /\ Put(q, c) \in Queue /\ Rest(q) \in Queue /\ First(q) \in Char
           /\ After(c) \in Char
<1>1. \A pos \in 0 .. BufSize - 1 : next(pos) \in 0 .. BufSize - 1
  BY SerialAssumption DEF SerialAssumption, next
<1>2. After(c) \in Char
  BY SerialAssumption DEF SerialAssumption, After, Char
<1>3. PICK b \in [0 .. BufSize - 1 -> Char], h \in 0 .. BufSize - 1, t \in 0 .. BufSize - 1 :
         q = [buf |-> b, head |-> h, tail |-> t]
  BY DEF Queue
<1>4. q.buf = b /\ q.head = h /\ q.tail = t
  BY <1>3
<1>5. Put(q, c) = [buf |-> [b EXCEPT ![h] = c], head |-> next(h), tail |-> t]
  BY <1>3, <1>4 DEF Put
<1>6. Rest(q) = [buf |-> b, head |-> h, tail |-> next(t)]
  BY <1>3, <1>4 DEF Rest
<1>7. Put(q, c) \in Queue
  BY <1>1, <1>5 DEF Queue
<1>8. Rest(q) \in Queue
  BY <1>1, <1>6 DEF Queue
<1>9. QED
  BY <1>2, <1>4, <1>7, <1>8 DEF First

(* The variables of the queues and of the serial port keep their types,    *)
(* for queues of any length.                                               *)
THEOREM SerialTypeCorrect == SerialSpec => []SerialTypeOK
<1>1. SerialInit => SerialTypeOK
  BY SerialAssumption DEF SerialAssumption, SerialInit, SerialTypeOK, Queue, Char
<1>2. SerialTypeOK /\ [SerialNext]_serialVars => SerialTypeOK'
  <2> SUFFICES ASSUME SerialTypeOK, [SerialNext]_serialVars PROVE SerialTypeOK'
    OBVIOUS
  <2> USE QueueType DEF SerialTypeOK, txVars, rxVars, WriteIer, SerialNotify, Wakes
  <2>1. ASSUME InitQueue \/ PutcPoll PROVE SerialTypeOK'
    BY <2>1 DEF InitQueue, PutcPoll
  <2>2. ASSUME Putc, UNCHANGED <<mode, thr, sent, rxVars>> PROVE SerialTypeOK'
    BY <2>2 DEF Putc
  <2>3. ASSUME SerialPutcOff PROVE SerialTypeOK'
    BY <2>3 DEF SerialPutcOff
  <2>4. ASSUME SerialFlush PROVE SerialTypeOK'
    BY <2>4 DEF SerialFlush
  <2>5. ASSUME KeyboardInterrupt PROVE SerialTypeOK'
    BY <2>5 DEF KeyboardInterrupt, InputPutc
  <2>6. ASSUME SerialInterrupt PROVE SerialTypeOK'
    BY <2>6 DEF SerialInterrupt
  <2>7. ASSUME InputGetc PROVE SerialTypeOK'
    BY <2>7 DEF InputGetc, Getc
  <2>8. ASSUME Transmitted \/ Received PROVE SerialTypeOK'
    <3>1. thr # <<>> => thr[1] \in Char
      OBVIOUS
    <3>2. QED
      BY <2>8, <3>1 DEF Transmitted, Received
  <2>9. CASE UNCHANGED serialVars
    BY <2>9 DEF serialVars
  <2>10. QED
    BY <2>1, <2>2, <2>3, <2>4, <2>5, <2>6, <2>7, <2>8, <2>9
       DEF SerialNext, SerialPutc, PutcResume
<1>3. QED
  BY <1>1, <1>2, PTL DEF SerialSpec

-----------------------------------------------------------------------------
(* The order of the characters in the port.                                *)
(* The remainder of what is out of range once at most.                     *)
LEMMA ModOnce ==
    ASSUME NEW n \in Nat \ {0}, NEW k \in Int
    PROVE  /\ k \in 0 .. n - 1 => k % n = k
           /\ k \in n .. 2 * n - 1 => k % n = k - n
           /\ k \in - n .. -1 => k % n = k + n
OBVIOUS

(* Positions and characters go round once at most.                         *)
LEMMA NextWraps ==
    ASSUME NEW pos \in 0 .. BufSize - 1
    PROVE  next(pos) = IF pos = BufSize - 1 THEN 0 ELSE pos + 1
BY ModOnce, SerialAssumption DEF SerialAssumption, next

LEMMA AfterWraps ==
    ASSUME NEW c \in Char
    PROVE  After(c) = IF c = Count - 1 THEN 0 ELSE c + 1
BY ModOnce, SerialAssumption DEF SerialAssumption, After, Char

LEMMA LengthWraps ==
    ASSUME NEW q \in Queue
    PROVE  /\ Length(q) = IF q.tail <= q.head THEN q.head - q.tail
                          ELSE q.head - q.tail + BufSize
           /\ Length(q) \in 0 .. BufSize - 1
           /\ IntqEmpty(q) <=> Length(q) = 0
           /\ IntqFull(q) <=> Length(q) = BufSize - 1
<1>1. q.head \in 0 .. BufSize - 1 /\ q.tail \in 0 .. BufSize - 1
  BY DEF Queue
<1>2. q.head - q.tail \in (- BufSize) .. BufSize - 1
  BY <1>1, SerialAssumption DEF SerialAssumption
<1>3. Length(q) = IF q.tail <= q.head THEN q.head - q.tail ELSE q.head - q.tail + BufSize
  <2>1. BufSize \in Nat \ {0} /\ q.head - q.tail \in Int
    BY <1>1, SerialAssumption DEF SerialAssumption
  <2>2. CASE q.tail <= q.head
    BY <2>1, <2>2, <1>1, ModOnce DEF Length
  <2>3. CASE ~(q.tail <= q.head)
    <3>1. q.head - q.tail \in (- BufSize) .. -1
      BY <1>1, <2>1, <2>3
    <3>2. QED
      BY <2>1, <2>3, <3>1, ModOnce DEF Length
  <2>4. QED
    BY <2>2, <2>3
<1>4. QED
  BY <1>1, <1>3, NextWraps, SerialAssumption DEF SerialAssumption, IntqEmpty, IntqFull

LEMMA PlaceWraps ==
    ASSUME NEW t \in 0 .. BufSize - 1, NEW i \in 0 .. BufSize - 1
    PROVE  (t + i) % BufSize = IF t + i < BufSize THEN t + i ELSE t + i - BufSize
BY ModOnce, SerialAssumption DEF SerialAssumption

LEMMA CharWraps ==
    ASSUME NEW c \in Char, NEW i \in 0 .. BufSize
    PROVE  (c + i) % Count = IF c + i < Count THEN c + i ELSE c + i - Count
<1>1. c + i \in 0 .. Count - 1 \/ c + i \in Count .. 2 * Count - 1
  BY SerialAssumption DEF SerialAssumption, Char
<1>2. Count \in Nat \ {0} /\ c \in Int /\ i \in Int /\ c + i \in Int
  BY SerialAssumption DEF SerialAssumption, Char
<1>3. PICK k \in Int : k = c + i
  BY <1>2
<1>4. /\ k \in 0 .. Count - 1 => k % Count = k
      /\ k \in Count .. 2 * Count - 1 => k % Count = k - Count
  BY <1>2, ModOnce
<1>5. k % Count = IF k < Count THEN k ELSE k - Count
  BY <1>1, <1>2, <1>3, <1>4
<1>6. QED
  BY <1>2, <1>3, <1>5

(* Holds, without the remainders.                                          *)
Wrapped(t, i) == IF t + i < BufSize THEN t + i ELSE t + i - BufSize
Later(c, i) == IF c + i < Count THEN c + i ELSE c + i - Count
LEMMA HoldsWraps ==
    ASSUME NEW q \in Queue, NEW c \in Char, NEW d
    PROVE  Holds(q, c, d) <=>
              /\ \A i \in 0 .. Length(q) - 1 : q.buf[Wrapped(q.tail, i)] = Later(c, i + 1)
              /\ d = Later(c, Length(q))
<1>1. Length(q) \in 0 .. BufSize - 1 /\ q.tail \in 0 .. BufSize - 1
  BY LengthWraps DEF Queue
<1>2. BufSize \in Nat /\ Count \in Nat /\ c \in Int
  BY SerialAssumption DEF SerialAssumption, Char
<1>3. (c + Length(q)) % Count = Later(c, Length(q))
  <2>1. Length(q) \in 0 .. BufSize
    BY <1>1, <1>2
  <2>2. QED
    BY <2>1, CharWraps DEF Later
<1>4. ASSUME NEW i \in 0 .. Length(q) - 1
      PROVE  (q.tail + i) % BufSize = Wrapped(q.tail, i) /\ (c + 1 + i) % Count = Later(c, i + 1)
  <2>1. i \in 0 .. BufSize - 1 /\ i + 1 \in 0 .. BufSize /\ c + 1 + i = c + (i + 1)
    BY <1>1, <1>2
  <2>2. (c + (i + 1)) % Count = Later(c, i + 1)
    BY <2>1, CharWraps DEF Later
  <2>3. QED
    BY <1>1, <2>1, <2>2, PlaceWraps DEF Wrapped
<1>5. QED
  BY <1>3, <1>4 DEF Holds

(* The distance from the tail to the head.                                 *)
Gap(t, h) == IF t <= h THEN h - t ELSE h - t + BufSize
LEMMA GapSteps ==
    ASSUME NEW t \in 0 .. BufSize - 1, NEW h \in 0 .. BufSize - 1
    PROVE  /\ Gap(t, h) # BufSize - 1 => Gap(t, next(h)) = Gap(t, h) + 1
           /\ Gap(t, h) # 0 => Gap(next(t), h) = Gap(t, h) - 1
<1>1. BufSize \in Nat \ {0, 1}
  BY SerialAssumption DEF SerialAssumption
<1>2. /\ next(t) = IF t = BufSize - 1 THEN 0 ELSE t + 1
      /\ next(h) = IF h = BufSize - 1 THEN 0 ELSE h + 1
  BY NextWraps
<1>3. QED
  BY <1>1, <1>2 DEF Gap

LEMMA PlacesFacts ==
    ASSUME NEW t \in 0 .. BufSize - 1, NEW h \in 0 .. BufSize - 1, NEW k \in 0 .. BufSize - 1,
           k = IF t <= h THEN h - t ELSE h - t + BufSize
    PROVE  /\ Wrapped(t, 0) = t /\ Wrapped(t, k) = h
           /\ \A i \in 0 .. k - 1 : /\ Wrapped(t, i) \in 0 .. BufSize - 1 /\ Wrapped(t, i) # h
                                   /\ Wrapped(next(t), i) = Wrapped(t, i + 1)
<1>1. BufSize \in Nat \ {0, 1}
  BY SerialAssumption DEF SerialAssumption
<1>2. next(t) = IF t = BufSize - 1 THEN 0 ELSE t + 1
  BY NextWraps
<1>3. Wrapped(t, 0) = t /\ Wrapped(t, k) = h
  BY <1>1 DEF Wrapped
<1>4. ASSUME NEW i \in 0 .. k - 1
      PROVE  /\ Wrapped(t, i) \in 0 .. BufSize - 1 /\ Wrapped(t, i) # h
             /\ Wrapped(next(t), i) = Wrapped(t, i + 1)
  BY <1>1, <1>2 DEF Wrapped
<1>5. QED
  BY <1>3, <1>4

LEMMA HoldsPut ==
    ASSUME NEW q \in Queue, NEW c \in Char, NEW d \in Char, Holds(q, c, d), ~IntqFull(q)
    PROVE  Holds(Put(q, After(d)), c, After(d))
<1> DEFINE r == Put(q, After(d))
<1>1. r \in Queue /\ After(d) \in Char
  BY QueueType
<1>2. /\ q.head \in 0 .. BufSize - 1 /\ q.tail \in 0 .. BufSize - 1
      /\ q.buf \in [0 .. BufSize - 1 -> Char]
  BY DEF Queue
<1>3. /\ r.buf = [q.buf EXCEPT ![q.head] = After(d)]
      /\ r.head = next(q.head) /\ r.tail = q.tail
  BY DEF Put
<1>4. BufSize \in Nat \ {0, 1} /\ Count \in Nat /\ Count > BufSize + 1 /\ c \in 0 .. Count - 1
  BY SerialAssumption DEF SerialAssumption, Char
<1> HIDE DEF r
<1>5. /\ Length(q) = IF q.tail <= q.head THEN q.head - q.tail ELSE q.head - q.tail + BufSize
      /\ Length(q) # BufSize - 1 /\ Length(q) \in 0 .. BufSize - 1
  BY LengthWraps
<1>6. Length(r) = Length(q) + 1
  <2>1. Length(r) = IF r.tail <= r.head THEN r.head - r.tail ELSE r.head - r.tail + BufSize
    BY <1>1, LengthWraps
  <2>2. Length(r) = Gap(q.tail, next(q.head)) /\ Length(q) = Gap(q.tail, q.head)
    BY <2>1, <1>3, <1>5 DEF Gap
  <2>3. QED
    BY <2>2, <1>2, <1>5, GapSteps
<1>7. /\ Wrapped(q.tail, Length(q)) = q.head
      /\ \A i \in 0 .. Length(q) - 1 :
            Wrapped(q.tail, i) \in 0 .. BufSize - 1 /\ Wrapped(q.tail, i) # q.head
  BY <1>2, <1>5, PlacesFacts
<1>8. d = Later(c, Length(q)) /\ \A i \in 0 .. Length(q) - 1 : q.buf[Wrapped(q.tail, i)] = Later(c, i + 1)
  BY HoldsWraps
<1>9. After(d) = Later(c, Length(q) + 1)
  BY <1>4, <1>5, <1>8, AfterWraps DEF Later
<1>10. ASSUME NEW i \in 0 .. Length(r) - 1 PROVE r.buf[Wrapped(r.tail, i)] = Later(c, i + 1)
  <2>1. CASE i = Length(q)
    BY <2>1, <1>2, <1>3, <1>7, <1>9
  <2>2. CASE i # Length(q)
    <3>1. i \in 0 .. Length(q) - 1
      BY <2>2, <1>5, <1>6
    <3>2. Wrapped(q.tail, i) # q.head /\ Wrapped(q.tail, i) \in 0 .. BufSize - 1
      BY <3>1, <1>7
    <3>3. QED
      BY <3>1, <3>2, <1>2, <1>3, <1>8
  <2>3. QED
    BY <2>1, <2>2
<1>11. Holds(r, c, After(d))
  BY <1>1, <1>6, <1>9, <1>10, HoldsWraps
<1>12. QED
  BY <1>11 DEF r

LEMMA HoldsRest ==
    ASSUME NEW q \in Queue, NEW c \in Char, NEW d \in Char, Holds(q, c, d), ~IntqEmpty(q)
    PROVE  First(q) = After(c) /\ Holds(Rest(q), After(c), d) /\ ~IntqFull(Rest(q))
<1> DEFINE r == Rest(q)
<1>1. r \in Queue /\ After(c) \in Char
  BY QueueType
<1>2. /\ q.head \in 0 .. BufSize - 1 /\ q.tail \in 0 .. BufSize - 1
      /\ q.buf \in [0 .. BufSize - 1 -> Char]
  BY DEF Queue
<1>3. r.buf = q.buf /\ r.head = q.head /\ r.tail = next(q.tail)
  BY DEF Rest, Queue
<1>4. BufSize \in Nat \ {0, 1} /\ Count \in Nat /\ Count > BufSize + 1 /\ c \in 0 .. Count - 1
  BY SerialAssumption DEF SerialAssumption, Char
<1> HIDE DEF r
<1>5. /\ Length(q) = IF q.tail <= q.head THEN q.head - q.tail ELSE q.head - q.tail + BufSize
      /\ Length(q) # 0 /\ Length(q) \in 0 .. BufSize - 1
  BY LengthWraps
<1>6. Length(r) = Length(q) - 1
  <2>1. Length(r) = IF r.tail <= r.head THEN r.head - r.tail ELSE r.head - r.tail + BufSize
    BY <1>1, LengthWraps
  <2>2. Length(r) = Gap(next(q.tail), q.head) /\ Length(q) = Gap(q.tail, q.head)
    BY <2>1, <1>3, <1>5 DEF Gap
  <2>3. QED
    BY <2>2, <1>2, <1>5, GapSteps
<1>7. d = Later(c, Length(q)) /\ \A i \in 0 .. Length(q) - 1 : q.buf[Wrapped(q.tail, i)] = Later(c, i + 1)
  BY HoldsWraps
<1>8. First(q) = After(c)
  <2>1. Wrapped(q.tail, 0) = q.tail /\ 0 \in 0 .. Length(q) - 1
    BY <1>2, <1>5, PlacesFacts
  <2>2. q.buf[q.tail] = Later(c, 1)
    BY <2>1, <1>7
  <2>3. QED
    BY <2>2, <1>4, AfterWraps DEF First, Later
<1>9. \A i \in 0 .. BufSize - 1 : Later(After(c), i) = Later(c, i + 1)
  BY <1>4, AfterWraps DEF Later
<1>10. ASSUME NEW i \in 0 .. Length(r) - 1 PROVE r.buf[Wrapped(r.tail, i)] = Later(After(c), i + 1)
  <2>1. Wrapped(r.tail, i) = Wrapped(q.tail, i + 1) /\ i + 1 \in 0 .. Length(q) - 1
    <3>1. i \in 0 .. Length(q) - 1 /\ i + 1 \in 0 .. Length(q) - 1
      BY <1>5, <1>6
    <3>2. Wrapped(next(q.tail), i) = Wrapped(q.tail, i + 1)
      BY <3>1, <1>2, <1>5, PlacesFacts
    <3>3. QED
      BY <3>1, <3>2, <1>3
  <2>2. Later(After(c), i + 1) = Later(c, i + 2)
    <3>1. i + 1 \in 0 .. BufSize - 1 /\ (i + 1) + 1 = i + 2
      BY <2>1, <1>4, <1>5
    <3>2. QED
      BY <3>1, <1>9
  <2>3. QED
    BY <2>1, <2>2, <1>3, <1>7
<1>11. d = Later(After(c), Length(r))
  <2>1. Length(r) \in 0 .. BufSize - 1 /\ Length(r) + 1 = Length(q)
    BY <1>4, <1>5, <1>6
  <2>2. QED
    BY <2>1, <1>7, <1>9
<1>12. Holds(r, After(c), d)
  BY <1>1, <1>10, <1>11, HoldsWraps
<1>13. ~IntqFull(r)
  BY <1>1, <1>5, <1>6, LengthWraps
<1>14. QED
  BY <1>8, <1>12, <1>13 DEF r

LEMMA HoldsEmpty ==
    ASSUME NEW q \in Queue, NEW c \in Char, NEW d, IntqEmpty(q)
    PROVE  Holds(q, c, d) <=> d = c
<1>1. Length(q) = 0
  BY LengthWraps
<1>2. Later(c, 0) = c
  BY SerialAssumption DEF SerialAssumption, Char, Later
<1>3. QED
  BY <1>1, <1>2, HoldsWraps

(* What the UART has taken last, and the order of the characters that go   *)
(* out and come in.  In poll mode nothing is in the queue.                 *)
Taken(t, s) == IF t = <<>> THEN s ELSE t[1]
OrderOut ==
    /\ thr # <<>> => thr[1] = After(sent)
    /\ Holds(txq, Taken(thr, sent), printed)
    /\ mode = "poll" => IntqEmpty(txq) /\ writer = "idle"
OrderIn == Holds(buffer, got, typed)
OrderInv == SerialTypeOK /\ OrderOut /\ OrderIn

LEMMA OrderInit == SerialInit => OrderOut /\ OrderIn
<1> SUFFICES ASSUME SerialInit PROVE OrderOut /\ OrderIn
  OBVIOUS
<1>1. txq \in Queue /\ 0 \in Char /\ buffer = txq /\ IntqEmpty(txq)
  BY SerialAssumption DEF SerialAssumption, SerialInit, Queue, Char, IntqEmpty
<1>2. Holds(txq, 0, 0)
  BY <1>1, HoldsEmpty
<1>3. thr = <<>> /\ sent = 0 /\ printed = 0 /\ got = 0 /\ typed = 0 /\ buffer = txq /\ writer = "idle"
  BY DEF SerialInit
<1>4. QED
  BY <1>1, <1>2, <1>3 DEF OrderOut, OrderIn, Taken

LEMMA TakenType == SerialTypeOK => Taken(thr, sent) \in Char
BY DEF SerialTypeOK, Taken

(* The UART takes the first character of the queue.                        *)
LEMMA TakesFirst ==
    ASSUME OrderInv, thr = <<>>, ~IntqEmpty(txq), NEW u, NEW t, t = <<First(txq)>>, u = Rest(txq)
    PROVE  /\ t # <<>> /\ t[1] = After(sent)
           /\ u \in Queue /\ Taken(t, sent) \in Char /\ Holds(u, Taken(t, sent), printed)
           /\ ~IntqFull(u)
<1>1. txq \in Queue /\ sent \in Char /\ printed \in Char /\ Holds(txq, sent, printed)
  BY DEF OrderInv, OrderOut, Taken, SerialTypeOK
<1>2. First(txq) = After(sent) /\ Holds(u, After(sent), printed) /\ ~IntqFull(u)
  BY <1>1, HoldsRest
<1>3. t # <<>> /\ Taken(t, sent) = After(sent) /\ t[1] = After(sent)
  BY <1>2 DEF Taken
<1>4. u \in Queue /\ After(sent) \in Char
  BY <1>1, QueueType
<1>5. QED
  BY <1>2, <1>3, <1>4

LEMMA OrderOutNext == OrderInv /\ [SerialNext]_serialVars => OrderOut'
<1> SUFFICES ASSUME OrderInv, [SerialNext]_serialVars PROVE OrderOut'
  OBVIOUS
<1>0. /\ txq \in Queue /\ sent \in Char /\ printed \in Char /\ Taken(thr, sent) \in Char
      /\ Holds(txq, Taken(thr, sent), printed) /\ (mode = "poll" => IntqEmpty(txq) /\ writer = "idle")
      /\ thr # <<>> => thr[1] = After(sent)
  BY TakenType DEF OrderInv, OrderOut, SerialTypeOK
<1>1. ASSUME UNCHANGED <<thr, txq, sent, printed>>,
             mode' = "poll" => mode = "poll" /\ writer' = writer
      PROVE  OrderOut'
  BY <1>0, <1>1 DEF OrderOut
<1>2. ASSUME PutcPoll PROVE OrderOut'
  <2>1. thr = <<>> /\ mode = "poll" /\ thr' = <<After(printed)>> /\ printed' = After(printed)
        /\ UNCHANGED <<txq, sent, mode, writer>>
    BY <1>2 DEF PutcPoll
  <2>2. After(printed) \in Char /\ IntqEmpty(txq)
    BY <1>0, <2>1, QueueType
  <2>3. printed = sent
    BY <1>0, <2>1, <2>2, HoldsEmpty DEF Taken
  <2>4. Holds(txq, After(printed), After(printed))
    BY <1>0, <2>2, HoldsEmpty
  <2>5. thr' # <<>> /\ Taken(thr', sent') = After(printed) /\ thr'[1] = After(printed)
    BY <2>1 DEF Taken
  <2>6. QED
    BY <1>0, <2>1, <2>2, <2>3, <2>4, <2>5 DEF OrderOut
<1>3. ASSUME Putc, UNCHANGED <<mode, thr, sent>>, mode # "poll" PROVE OrderOut'
  <2>1. CASE UNCHANGED <<txq, printed>>
    BY <2>1, <1>1, <1>3
  <2>2. CASE ~IntqFull(txq) /\ printed' = After(printed) /\ txq' = Put(txq, printed')
    <3>1. Holds(txq', Taken(thr, sent), printed')
      BY <1>0, <2>2, HoldsPut
    <3>2. QED
      BY <1>0, <1>3, <3>1 DEF OrderOut
  <2>3. QED
    BY <1>3, <2>1, <2>2 DEF Putc
<1>4. ASSUME SerialPutcOff PROVE OrderOut'
  <2>1. CASE IntqFull(txq)
    <3>1. /\ thr = <<>> /\ thr' = <<First(txq)>> /\ txq' = Put(Rest(txq), After(printed))
          /\ printed' = After(printed) /\ mode # "poll" /\ UNCHANGED <<mode, sent>>
      BY <1>4, <2>1 DEF SerialPutcOff
    <3>2. ~IntqEmpty(txq)
      BY <1>0, <2>1, LengthWraps, SerialAssumption DEF SerialAssumption
    <3>3. /\ thr' # <<>> /\ thr'[1] = After(sent) /\ Rest(txq) \in Queue
          /\ Taken(thr', sent) \in Char /\ ~IntqFull(Rest(txq))
          /\ Holds(Rest(txq), Taken(thr', sent), printed)
      BY <3>1, <3>2, TakesFirst
    <3>4. Holds(txq', Taken(thr', sent), printed')
      BY <1>0, <3>1, <3>3, HoldsPut
    <3>5. QED
      BY <3>1, <3>3, <3>4 DEF OrderOut
  <2>2. CASE ~IntqFull(txq)
    <3>1. /\ printed' = After(printed) /\ txq' = Put(txq, After(printed)) /\ mode # "poll"
          /\ UNCHANGED <<mode, thr, sent>>
      BY <1>4, <2>2 DEF SerialPutcOff
    <3>2. Holds(txq', Taken(thr, sent), printed')
      BY <1>0, <2>2, <3>1, HoldsPut
    <3>3. QED
      BY <1>0, <3>1, <3>2 DEF OrderOut
  <2>3. QED
    BY <2>1, <2>2
<1>5. ASSUME ~IntqEmpty(txq), thr = <<>>, thr' = <<First(txq)>>, txq' = Rest(txq),
             UNCHANGED <<mode, sent, printed>>
      PROVE OrderOut'
  <2>1. /\ thr' # <<>> /\ thr'[1] = After(sent) /\ Holds(txq', Taken(thr', sent), printed)
    BY <1>5, TakesFirst
  <2>2. mode # "poll"
    BY <1>0, <1>5
  <2>3. QED
    BY <1>5, <2>1, <2>2 DEF OrderOut
<1>6. ASSUME Transmitted PROVE OrderOut'
  <2>1. thr # <<>> /\ sent' = thr[1] /\ thr' = <<>> /\ UNCHANGED <<mode, txq, writer, printed>>
    BY <1>6 DEF Transmitted
  <2>2. Taken(thr', sent') = Taken(thr, sent)
    BY <2>1 DEF Taken
  <2>3. QED
    BY <1>0, <2>1, <2>2 DEF OrderOut
<1>7. CASE SerialInterrupt
  BY <1>1, <1>5, <1>7 DEF SerialInterrupt
<1>8. CASE InitQueue \/ KeyboardInterrupt \/ InputGetc \/ Received \/ UNCHANGED serialVars
  BY <1>1, <1>8 DEF InitQueue, KeyboardInterrupt, InputGetc, Received, serialVars, txVars
<1>9. CASE SerialPutc \/ PutcResume
  <2>1. Putc /\ UNCHANGED <<mode, thr, sent, rxVars>> /\ mode # "poll"
    BY <1>0, <1>9 DEF SerialPutc, PutcResume
  <2>2. QED
    BY <1>3, <2>1
<1>10. CASE SerialFlush
  BY <1>5, <1>10 DEF SerialFlush
<1>11. QED
  BY <1>2, <1>4, <1>6, <1>7, <1>8, <1>9, <1>10 DEF SerialNext

LEMMA OrderInNext == OrderInv /\ [SerialNext]_serialVars => OrderIn'
<1> SUFFICES ASSUME OrderInv, [SerialNext]_serialVars PROVE OrderIn'
  OBVIOUS
<1>0. buffer \in Queue /\ got \in Char /\ typed \in Char /\ Holds(buffer, got, typed)
  BY DEF OrderInv, OrderIn, SerialTypeOK
<1>1. ASSUME UNCHANGED <<buffer, got, typed>> PROVE OrderIn'
  BY <1>0, <1>1 DEF OrderIn
<1>2. ASSUME ~IntqFull(buffer), typed' = After(typed), buffer' = Put(buffer, typed'),
             UNCHANGED got
      PROVE OrderIn'
  <2>1. Holds(buffer', got, typed')
    BY <1>0, <1>2, HoldsPut
  <2>2. QED
    BY <1>2, <2>1 DEF OrderIn
<1>3. ASSUME ~IntqEmpty(buffer), got' = First(buffer), buffer' = Rest(buffer), UNCHANGED typed
      PROVE OrderIn'
  <2>1. Holds(buffer', got', typed)
    BY <1>0, <1>3, HoldsRest
  <2>2. QED
    BY <1>3, <2>1 DEF OrderIn
<1>4. CASE SerialInterrupt
  BY <1>1, <1>2, <1>4 DEF SerialInterrupt
<1>5. CASE KeyboardInterrupt
  BY <1>1, <1>2, <1>5 DEF KeyboardInterrupt, InputPutc, rxVars
<1>6. CASE InputGetc
  BY <1>1, <1>3, <1>6 DEF InputGetc, Getc
<1>7. CASE InitQueue \/ PutcPoll \/ SerialPutc \/ PutcResume \/ SerialPutcOff \/ SerialFlush
             \/ Transmitted \/ Received \/ UNCHANGED serialVars
  BY <1>1, <1>7 DEF InitQueue, PutcPoll, SerialPutc, PutcResume, SerialPutcOff, SerialFlush,
                    Transmitted, Received, serialVars, rxVars
<1>8. QED
  BY <1>4, <1>5, <1>6, <1>7 DEF SerialNext

(* Every character that is printed is sent, and every one that is typed    *)
(* is read, once and in order, for a ring buffer of any size: by the       *)
(* queue, by polling before there is one, by the polling of serial_putc    *)
(* when interrupts are off and the queue is full, and by serial_flush.     *)
THEOREM SerialKeepsOrder == SerialSpec => []CharactersInOrder
<1>1. SerialSpec => [][SerialNext]_serialVars /\ SerialInit /\ []SerialTypeOK
  BY SerialTypeCorrect, PTL DEF SerialSpec
<1>2. SerialTypeOK /\ OrderOut /\ OrderIn /\ [SerialNext]_serialVars => (OrderOut /\ OrderIn)'
  BY OrderOutNext, OrderInNext DEF OrderInv
<1>3. OrderOut /\ OrderIn => CharactersInOrder
  BY DEF OrderOut, OrderIn, CharactersInOrder, Taken
<1>4. QED
  BY <1>1, <1>2, <1>3, OrderInit, PTL

-----------------------------------------------------------------------------
(* The heap.                                                               *)

(* Page p is an arena, the first page of a big block, or the second.       *)
Small(p) == arena[p] # Nobody /\ arena[p].desc # Nobody
Big(p) == arena[p] # Nobody /\ arena[p].desc = Nobody
Behind(p) == p - 1 \in Page /\ Big(p - 1)

HeldOn(p) == {b \in held : b[1] = p}
Given(p) == HeldOn(p) \cup Freed(p)

HeapStages ==
    \A t \in User :
        /\ heapPc[t] \in {"locked", "pop", "push"} => desc[t] # Nobody
        /\ heapPc[t] = "idle" => desc[t] = Nobody
        /\ heapPc[t] = "pop" => freeList[desc[t]] # <<>>
        /\ heapPc[t] = "push" <=> block[t] # Nobody
        /\ heapPc[t] = "free" <=> freeing[t] # {}
HeapLocks ==
    \A t \in User :
        /\ desc[t] # Nobody => descLock[desc[t]] = t
        /\ block[t] # Nobody =>
              Small(block[t][1]) /\ arena[block[t][1]].desc = desc[t]
HeapLists ==
    \A d \in Desc :
        /\ IsInjective(freeList[d])
        /\ \A b \in ToSet(freeList[d]) : Small(b[1]) /\ arena[b[1]].desc = d
HeapArenas ==
    \A p \in Page : Small(p) =>
        /\ arena[p].freeCnt = Cardinality(Listed(p))
        /\ Listed(p) \cup Given(p) = ToSet(BlocksOf(p, arena[p].desc))
        /\ Listed(p) \cap Given(p) = {} /\ HeldOn(p) \cap Freed(p) = {}
HeapBig ==
    /\ \A b \in held : arena[b[1]] # Nobody /\ (b[2] = 0 <=> Big(b[1]))
    /\ \A p \in Page : Big(p) =>
          /\ <<p, 0>> \in held /\ arena[p].freeCnt = BigPages
          /\ p + 1 \in Page /\ arena[p + 1] = Nobody
HeapPages ==
    /\ \A p \in Page :
          p \in usedMap <=>
              arena[p] # Nobody \/ Behind(p) \/ \E t \in User : p \in freeing[t]
    /\ \A t \in User : \A p \in freeing[t] :
          /\ arena[p] = Nobody /\ ~Behind(p)
          /\ \A u \in User : p \in freeing[u] => u = t

HeapInv ==
    /\ HeapTypeOK /\ HeapStages /\ HeapLocks /\ HeapLists /\ HeapArenas
    /\ HeapBig /\ HeapPages

(* What becomes of a list of blocks: its head leaves, one goes in front,   *)
(* some stay.                                                              *)
LEMMA TailFacts ==
    ASSUME NEW S, NEW s \in Seq(S), s # <<>>, IsInjective(s)
    PROVE  /\ Tail(s) \in Seq(S) /\ Head(s) \in S /\ Head(s) \in ToSet(s)
           /\ ToSet(Tail(s)) = ToSet(s) \ {Head(s)} /\ IsInjective(Tail(s))
<1> DEFINE n == Len(s)
           r == Tail(s)
<1>1. n \in Nat \ {0} /\ DOMAIN s = 1 .. n /\ Head(s) = s[1] /\ \A i \in 1 .. n : s[i] \in S
  BY EmptySeq
<1>2. r \in Seq(S) /\ DOMAIN r = 1 .. n - 1 /\ \A i \in 1 .. n - 1 : r[i] = s[i + 1]
  BY <1>1
<1> HIDE DEF n, r
<1>3. ToSet(r) = ToSet(s) \ {s[1]}
  <2>1. ASSUME NEW x \in ToSet(r) PROVE x \in ToSet(s) \ {s[1]}
    <3>1. PICK i \in 1 .. n - 1 : x = s[i + 1]
      BY <1>2, <2>1 DEF ToSet
    <3>2. i + 1 \in 1 .. n /\ 1 \in 1 .. n /\ i + 1 # 1
      BY <1>1
    <3> QED
      BY <1>1, <3>1, <3>2 DEF ToSet, IsInjective
  <2>2. ASSUME NEW x \in ToSet(s) \ {s[1]} PROVE x \in ToSet(r)
    <3>1. PICK j \in 1 .. n : x = s[j] /\ j # 1
      BY <1>1, <2>2 DEF ToSet
    <3>2. j - 1 \in 1 .. n - 1 /\ r[j - 1] = s[j]
      BY <1>1, <1>2, <3>1
    <3> QED
      BY <1>2, <3>1, <3>2 DEF ToSet
  <2> QED
    BY <2>1, <2>2
<1>4. IsInjective(r)
  <2> SUFFICES ASSUME NEW i \in 1 .. n - 1, NEW j \in 1 .. n - 1, r[i] = r[j]
               PROVE  i = j
    BY <1>2 DEF IsInjective
  <2>1. i + 1 \in 1 .. n /\ j + 1 \in 1 .. n /\ s[i + 1] = s[j + 1]
    BY <1>1, <1>2
  <2> QED
    BY <1>1, <2>1 DEF IsInjective
<1>5. s[1] \in S /\ s[1] \in ToSet(s)
  BY <1>1 DEF ToSet
<1> QED
  BY <1>1, <1>2, <1>3, <1>4, <1>5 DEF r

LEMMA PushFrontFacts ==
    ASSUME NEW S, NEW s \in Seq(S), NEW b \in S
    PROVE  /\ <<b>> \o s \in Seq(S) /\ ToSet(<<b>> \o s) = ToSet(s) \cup {b}
           /\ IsInjective(s) /\ b \notin ToSet(s) => IsInjective(<<b>> \o s)
<1> DEFINE n == Len(s)
           r == <<b>> \o s
<1>1. n \in Nat /\ DOMAIN s = 1 .. n
  OBVIOUS
<1>2. /\ r \in Seq(S) /\ DOMAIN r = 1 .. n + 1 /\ r[1] = b
      /\ \A i \in 2 .. n + 1 : r[i] = s[i - 1]
  BY <1>1
<1> HIDE DEF n, r
<1>3. ToSet(r) = ToSet(s) \cup {b}
  <2>1. ASSUME NEW x \in ToSet(r) PROVE x \in ToSet(s) \cup {b}
    <3>1. PICK i \in 1 .. n + 1 : x = r[i]
      BY <1>2, <2>1 DEF ToSet
    <3>2. i = 1 \/ (i \in 2 .. n + 1 /\ i - 1 \in 1 .. n)
      BY <1>1
    <3> QED
      BY <1>1, <1>2, <3>1, <3>2 DEF ToSet
  <2>2. ASSUME NEW x \in ToSet(s) PROVE x \in ToSet(r)
    <3>1. PICK j \in 1 .. n : x = s[j]
      BY <1>1, <2>2 DEF ToSet
    <3>2. j + 1 \in 2 .. n + 1 /\ j + 1 \in 1 .. n + 1 /\ (j + 1) - 1 = j
      BY <1>1
    <3>3. r[j + 1] = x
      BY <1>2, <3>1, <3>2
    <3> QED
      BY <1>2, <3>2, <3>3 DEF ToSet
  <2>3. b \in ToSet(r)
    BY <1>1, <1>2 DEF ToSet
  <2> QED
    BY <2>1, <2>2, <2>3
<1>4. ASSUME IsInjective(s), b \notin ToSet(s) PROVE IsInjective(r)
  <2>1. \A i \in 2 .. n + 1 : i - 1 \in 1 .. n /\ r[i] = s[i - 1] /\ r[i] # b
    <3>1. ASSUME NEW i \in 2 .. n + 1
          PROVE  i - 1 \in 1 .. n /\ r[i] = s[i - 1]
      BY <1>1, <1>2
    <3>2. \A k \in 1 .. n : s[k] \in ToSet(s)
      BY <1>1 DEF ToSet
    <3> QED
      BY <1>4, <3>1, <3>2
  <2>2. ASSUME NEW i \in 2 .. n + 1, NEW j \in 2 .. n + 1, r[i] = r[j] PROVE i = j
    <3>1. i - 1 = j - 1
      BY <1>1, <1>4, <2>1, <2>2 DEF IsInjective
    <3> QED
      BY <1>1, <3>1
  <2>3. \A i \in 1 .. n + 1 : i = 1 \/ i \in 2 .. n + 1
    BY <1>1
  <2> QED
    BY <1>1, <1>2, <2>1, <2>2, <2>3 DEF IsInjective
<1> QED
  BY <1>2, <1>3, <1>4 DEF r

LEMMA KeptFacts ==
    ASSUME NEW S, NEW s \in Seq(S), NEW K \in SUBSET DOMAIN s,
           NEW at \in Bijection(1 .. Cardinality(K), K)
    PROVE  /\ [i \in DOMAIN at |-> s[at[i]]] \in Seq(S)
           /\ ToSet([i \in DOMAIN at |-> s[at[i]]]) = {s[i] : i \in K}
<1> DEFINE n == Cardinality(K)
           r == [i \in DOMAIN at |-> s[at[i]]]
<1>1. IsFiniteSet(K) /\ n \in Nat
  <2>1. DOMAIN s = 1 .. Len(s) /\ Len(s) \in Nat
    OBVIOUS
  <2>2. IsFiniteSet(1 .. Len(s))
    BY <2>1, FS_Interval
  <2> QED
    BY <2>1, <2>2, FS_Subset, FS_CardinalityType
<1>2. at \in [1 .. n -> K] /\ \A k \in K : \E i \in 1 .. n : at[i] = k
  BY DEF Bijection, Injection, Surjection
<1> HIDE DEF n
<1>3. r \in [1 .. n -> S] /\ \A i \in 1 .. n : r[i] = s[at[i]]
  BY <1>2
<1> HIDE DEF r
<1>4. r \in Seq(S)
  BY <1>1, <1>3
<1>5. ToSet(r) = {s[i] : i \in K}
  BY <1>2, <1>3 DEF ToSet
<1> QED
  BY <1>4, <1>5 DEF r

LEMMA KeptOnce ==
    ASSUME NEW s, IsInjective(s), NEW K \in SUBSET DOMAIN s, NEW n,
           NEW at \in Bijection(1 .. n, K)
    PROVE  IsInjective([i \in DOMAIN at |-> s[at[i]]])
<1>1. at \in [1 .. n -> K] /\ \A i, j \in 1 .. n : at[i] = at[j] => i = j
  BY DEF Bijection, Injection, IsInjective
<1> QED
  BY <1>1 DEF IsInjective

(* The blocks of a page in the free lists fl, when these are right about   *)
(* the arenas ar.                                                          *)
Listing(fl, p) == {b \in UNION {ToSet(fl[d]) : d \in Desc} : b[1] = p}
RightAbout(fl, ar) ==
    \A d \in Desc : \A b \in ToSet(fl[d]) : ar[b[1]] # Nobody /\ ar[b[1]].desc = d

LEMMA ListingFacts ==
    ASSUME NEW fl, NEW ar, RightAbout(fl, ar), NEW p, Nobody \notin Desc
    PROVE  /\ ar[p] # Nobody /\ ar[p].desc \in Desc =>
                 Listing(fl, p) = {b \in ToSet(fl[ar[p].desc]) : b[1] = p}
           /\ ar[p] = Nobody \/ ar[p].desc = Nobody => Listing(fl, p) = {}
<1>1. ASSUME NEW b \in Listing(fl, p)
      PROVE  ar[p] # Nobody /\ ar[p].desc \in Desc /\ b \in ToSet(fl[ar[p].desc]) /\ b[1] = p
  <2>1. PICK d \in Desc : b \in ToSet(fl[d]) /\ b[1] = p
    BY <1>1 DEF Listing
  <2> QED
    BY <2>1 DEF RightAbout
<1>2. ASSUME ar[p].desc \in Desc, NEW b \in ToSet(fl[ar[p].desc]), b[1] = p
      PROVE  b \in Listing(fl, p)
  BY <1>2 DEF Listing
<1> QED
  BY <1>1, <1>2

LEMMA BlocksOfFacts ==
    ASSUME HeapAssumption, NEW p \in Page, NEW d \in Desc
    PROVE  /\ BlocksOf(p, d) \in Seq(Block) /\ IsInjective(BlocksOf(p, d))
           /\ BlocksOf(p, d) # <<>>
           /\ ToSet(BlocksOf(p, d)) = {<<p, i>> : i \in 1 .. BlocksPerArena[d]}
           /\ \A b \in ToSet(BlocksOf(p, d)) : b[1] = p /\ b[2] # 0
           /\ <<p, 1>> \in ToSet(BlocksOf(p, d))
           /\ IsFiniteSet(ToSet(BlocksOf(p, d)))
           /\ Cardinality(ToSet(BlocksOf(p, d))) = BlocksPerArena[d]
<1> DEFINE n == BlocksPerArena[d]
           s == BlocksOf(p, d)
           S == {<<p, i>> : i \in 1 .. n}
<1>1. n \in Nat \ {0} /\ 1 \in 1 .. n
  BY DEF HeapAssumption
<1> HIDE DEF n
<1>2. s = [i \in 1 .. n |-> <<p, i>>]
  BY DEF BlocksOf, n
<1>3. \A i \in 1 .. n : <<p, i>> \in Block
  BY DEF Block
<1>4. s \in Seq(Block) /\ IsInjective(s) /\ s # <<>>
  <2>1. s \in [1 .. n -> Block]
    BY <1>2, <1>3
  <2>2. s \in Seq(Block) /\ s # <<>>
    BY <1>1, <2>1
  <2>3. IsInjective(s)
    BY <1>2 DEF IsInjective
  <2> QED
    BY <2>1, <2>2, <2>3
<1>5. ToSet(s) = S
  BY <1>2 DEF ToSet
<1>6. s \in Bijection(1 .. n, S)
  BY <1>2 DEF Bijection, Injection, Surjection, IsInjective
<1>7. IsFiniteSet(S) /\ Cardinality(S) = n
  <2>1. ExistsBijection(1 .. n, S)
    BY <1>6 DEF ExistsBijection
  <2> QED
    BY <1>1, <2>1, FS_CountingElements, FS_NatBijection
<1> QED
  BY <1>1, <1>4, <1>5, <1>7 DEF n

(* What HeapInv says of a page and of its blocks.                          *)
LEMMA HeapShape ==
    ASSUME HeapAssumption, HeapInv
    PROVE  /\ Nobody \notin Desc /\ Nobody \notin User /\ Nobody \notin Block
           /\ \A p \in Page : /\ p \in Int
                              /\ arena[p] # Nobody => arena[p] \in Arena
                              /\ Small(p) => arena[p].desc \in Desc
           /\ \A b \in Block : b[1] \in Page
           /\ \A p : Listed(p) = Listing(freeList, p)
           /\ RightAbout(freeList, arena)
           /\ \A t \in User : block[t] # Nobody => block[t] \in Block
           /\ \A p \in Page : Small(p) => IsFiniteSet(Listed(p))
<1>1. RightAbout(freeList, arena)
  BY DEF HeapInv, HeapLists, RightAbout, Small
<1>2. /\ \A p \in Page : /\ p \in Int
                         /\ arena[p] # Nobody => arena[p] \in Arena
                         /\ Small(p) => arena[p].desc \in Desc
      /\ \A b \in Block : b[1] \in Page
  BY DEF HeapInv, HeapTypeOK, Small, Arena, Page, Block
<1>3. ASSUME NEW p \in Page, Small(p) PROVE IsFiniteSet(Listed(p))
  <2>1. Listed(p) \subseteq ToSet(BlocksOf(p, arena[p].desc))
    BY <1>3 DEF HeapInv, HeapArenas
  <2> QED
    BY <1>2, <1>3, <2>1, BlocksOfFacts, FS_Subset
<1>4. \A t \in User : block[t] # Nobody => block[t] \in Block
  BY DEF HeapInv, HeapTypeOK
<1> QED
  BY <1>1, <1>2, <1>3, <1>4 DEF HeapAssumption, Listed, Listing

LEMMA HeapInitInv == HeapAssumption /\ HeapInit => HeapInv
<1> SUFFICES ASSUME HeapAssumption, HeapInit PROVE HeapInv
  OBVIOUS
<1>1. /\ \A p \in Page : arena[p] = Nobody
      /\ \A d \in Desc : freeList[d] = <<>> /\ ToSet(<<>>) = {} /\ IsInjective(<<>>)
      /\ \A t \in User : /\ heapPc[t] = "idle" /\ desc[t] = Nobody /\ block[t] = Nobody
                         /\ freeing[t] = {}
      /\ held = {} /\ usedMap = {}
  BY DEF HeapInit, ToSet, IsInjective
<1>2. HeapTypeOK
  BY <1>1 DEF HeapInit, HeapTypeOK
<1>3. HeapStages /\ HeapLocks /\ HeapLists
  BY <1>1 DEF HeapStages, HeapLocks, HeapLists
<1>4. \A p \in Page : ~Small(p) /\ ~Big(p) /\ ~Behind(p)
  BY <1>1 DEF Small, Big, Behind
<1>5. HeapArenas /\ HeapBig /\ HeapPages
  BY <1>1, <1>4 DEF HeapArenas, HeapBig, HeapPages
<1> QED
  BY <1>2, <1>3, <1>5 DEF HeapInv

LEMMA KeepsRecords ==
    ASSUME HeapInv, UNCHANGED <<arena, freeList, held, block>>
    PROVE  /\ HeapLists' /\ HeapArenas' /\ HeapBig'
           /\ \A p : Small(p)' = Small(p) /\ Big(p)' = Big(p) /\ Behind(p)' = Behind(p)
  BY DEF HeapInv, HeapLists, HeapArenas, HeapBig, Small, Big, Behind, Listed, Given,
     HeldOn, Freed

(* Stages and locks alone.                                                 *)
LEMMA MallocStep ==
    ASSUME HeapAssumption, HeapInv, NEW t \in User, NEW d \in Desc, Malloc(t, d)
    PROVE  HeapInv'
<1>1. /\ heapPc[t] = "idle" /\ descLock[d] = Nobody
      /\ descLock' = [descLock EXCEPT ![d] = t]
      /\ desc' = [desc EXCEPT ![t] = d]
      /\ heapPc' = [heapPc EXCEPT ![t] = "locked"]
      /\ UNCHANGED <<usedMap, arena, freeList, held, block, freeing>>
  BY DEF Malloc, Stage
<1>2. Nobody \notin User /\ Nobody \notin Desc
  BY DEF HeapAssumption
<1>3. HeapTypeOK'
  BY <1>1 DEF HeapInv, HeapTypeOK, Listed
<1>4. HeapStages'
  BY <1>1, <1>2 DEF HeapInv, HeapTypeOK, HeapStages
<1>5. HeapLocks'
  <2> SUFFICES ASSUME NEW u \in User
               PROVE  /\ desc'[u] # Nobody => descLock'[desc'[u]] = u
                      /\ block'[u] # Nobody =>
                            /\ Small(block[u][1])'
                            /\ arena'[block'[u][1]].desc = desc'[u]
    BY <1>1 DEF HeapLocks, Small
  <2>1. CASE u = t
    BY <1>1, <2>1 DEF HeapInv, HeapTypeOK, HeapStages
  <2>2. CASE u # t
    BY <1>1, <1>2, <2>2 DEF HeapInv, HeapTypeOK, HeapLocks, Small
  <2> QED
    BY <2>1, <2>2
<1>6. HeapPages'
  BY <1>1 DEF HeapInv, HeapPages, Behind, Big
<1> QED
  BY <1>1, <1>3, <1>4, <1>5, <1>6, KeepsRecords DEF HeapInv

(* A free run of pages.                                                    *)
LEMMA FreshPage ==
    ASSUME HeapAssumption, HeapInv, NEW p \in Page, p \notin usedMap
    PROVE  /\ arena[p] = Nobody /\ ~Behind(p) /\ \A t \in User : p \notin freeing[t]
           /\ \A q \in Page : Big(q) => q # p /\ q + 1 # p
           /\ \A b \in held : b[1] # p
           /\ \A d \in Desc : \A b \in ToSet(freeList[d]) : b[1] # p
           /\ \A t \in User : block[t] # Nobody => block[t][1] # p
<1>1. arena[p] = Nobody /\ ~Behind(p) /\ \A t \in User : p \notin freeing[t]
  BY DEF HeapInv, HeapPages
<1>2. ASSUME NEW q \in Page, Big(q) PROVE q # p /\ q + 1 # p
  <2>1. (q + 1) - 1 = q
    BY HeapShape
  <2> QED
    BY <1>1, <1>2, <2>1 DEF Behind, Big
<1> QED
  BY <1>1, <1>2 DEF HeapInv, HeapBig, HeapLists, HeapLocks, Small

LEMMA MallocBigStep ==
    ASSUME HeapAssumption, HeapInv, NEW t \in User, MallocBig(t)
    PROVE  HeapInv'
<1>1. PICK p \in Page :
          /\ FirstRun(p, BigPages)
          /\ usedMap' = usedMap \cup Run(p, BigPages)
          /\ arena' = [arena EXCEPT ![p] = [desc |-> Nobody, freeCnt |-> BigPages]]
          /\ held' = held \cup {<<p, 0>>}
  BY DEF MallocBig
<1>2. UNCHANGED <<freeList, descLock, heapPc, desc, block, freeing>>
  BY DEF MallocBig
<1> DEFINE big == [desc |-> Nobody, freeCnt |-> BigPages]
<1>3. big \in Arena /\ big # Nobody /\ big.desc = Nobody /\ big.freeCnt = BigPages
  BY DEF HeapAssumption, Arena, BigPages
<1>4. /\ p \in Int /\ p + 1 \in Page /\ p # p + 1 /\ p \notin usedMap /\ p + 1 \notin usedMap
      /\ usedMap' = usedMap \cup {p, p + 1}
  <2>1. p \in Int /\ Run(p, BigPages) = {p, p + 1}
    BY HeapShape DEF Run, BigPages
  <2> QED
    BY <1>1, <2>1 DEF FirstRun, FreeRun
<1>5. <<p, 0>> \in Block
  BY DEF Block
<1>6. /\ arena' \in [Page -> Arena \cup {Nobody}] /\ arena'[p] = big
      /\ \A q \in Page : q # p => arena'[q] = arena[q]
  BY <1>1, <1>3 DEF HeapInv, HeapTypeOK
<1> HIDE DEF big
<1>7. /\ Big(p)' /\ ~Small(p)'
      /\ \A q \in Page : q # p => Small(q)' = Small(q) /\ Big(q)' = Big(q)
  BY <1>3, <1>6 DEF Small, Big
<1>8. HeapTypeOK'
  BY <1>1, <1>2, <1>4, <1>5, <1>6 DEF HeapInv, HeapTypeOK, Arena
<1>9. HeapStages'
  BY <1>2 DEF HeapInv, HeapStages
<1>10. HeapLocks' /\ HeapLists'
  <2>1. /\ \A u \in User : block[u] # Nobody =>
              block[u][1] # p /\ block[u][1] \in Page
        /\ \A d \in Desc : \A b \in ToSet(freeList[d]) : b[1] # p /\ b[1] \in Page
    BY <1>4, FreshPage, HeapShape DEF HeapInv, HeapTypeOK, ToSet
  <2>2. HeapLocks'
    BY <1>2, <1>6, <1>7, <2>1 DEF HeapInv, HeapLocks, Small
  <2>3. HeapLists'
    BY <1>2, <1>6, <1>7, <2>1 DEF HeapInv, HeapLists, Small
  <2> QED
    BY <2>2, <2>3
<1>11. HeapArenas'
  <2> SUFFICES ASSUME NEW q \in Page, Small(q)'
               PROVE  /\ arena'[q].freeCnt = Cardinality(Listed(q)')
                      /\ Listed(q)' \cup Given(q)' = ToSet(BlocksOf(q, arena'[q].desc))
                      /\ Listed(q)' \cap Given(q)' = {} /\ HeldOn(q)' \cap Freed(q)' = {}
    BY DEF HeapArenas, BlocksOf
  <2>1. q # p /\ Small(q) /\ arena'[q] = arena[q]
    BY <1>6, <1>7
  <2>2. Listed(q)' = Listed(q) /\ HeldOn(q)' = HeldOn(q) /\ Freed(q)' = Freed(q)
    BY <1>1, <1>2, <2>1 DEF Listed, HeldOn, Freed
  <2>3. Given(q)' = Given(q)
    BY <2>2 DEF Given
  <2> QED
    BY <2>1, <2>2, <2>3 DEF HeapInv, HeapArenas
<1>12. HeapBig'
  <2>1. ASSUME NEW b \in held'
        PROVE  arena'[b[1]] # Nobody /\ (b[2] = 0 <=> Big(b[1])')
    <3>1. CASE b = <<p, 0>>
      BY <1>3, <1>6, <1>7, <3>1
    <3>2. CASE b # <<p, 0>>
      <4>1. b \in held /\ b[1] # p /\ b[1] \in Page
        BY <1>1, <1>4, <2>1, <3>2, FreshPage, HeapShape DEF HeapInv, HeapTypeOK
      <4> QED
        BY <1>6, <1>7, <4>1 DEF HeapInv, HeapBig
    <3> QED
      BY <3>1, <3>2
  <2>2. ASSUME NEW q \in Page, Big(q)'
        PROVE  /\ <<q, 0>> \in held' /\ arena'[q].freeCnt = BigPages
               /\ q + 1 \in Page /\ arena'[q + 1] = Nobody
    <3>1. CASE q = p
      BY <1>1, <1>3, <1>4, <1>6, <3>1, FreshPage
    <3>2. CASE q # p
      <4>1. Big(q) /\ q + 1 # p
        BY <1>4, <1>7, <2>2, <3>2, FreshPage
      <4> QED
        BY <1>1, <1>6, <3>2, <4>1 DEF HeapInv, HeapBig
    <3> QED
      BY <3>1, <3>2
  <2> QED
    BY <2>1, <2>2 DEF HeapBig
<1>13. \A q \in Page : Behind(q)' <=> Behind(q) \/ q = p + 1
  <2> SUFFICES ASSUME NEW q \in Page
               PROVE  Behind(q)' <=> Behind(q) \/ q = p + 1
    OBVIOUS
  <2>1. q \in Int /\ (q - 1 = p <=> q = p + 1) /\ (p + 1) - 1 = p
    BY <1>4, HeapShape
  <2> QED
    BY <1>7, <2>1 DEF Behind
<1>14. HeapPages'
  <2>1. ASSUME NEW q \in Page
        PROVE  q \in usedMap' <=>
                  arena'[q] # Nobody \/ Behind(q)' \/ \E u \in User : q \in freeing'[u]
    BY <1>2, <1>3, <1>4, <1>6, <1>13 DEF HeapInv, HeapPages
  <2>2. ASSUME NEW u \in User, NEW q \in freeing'[u]
        PROVE  /\ arena'[q] = Nobody /\ ~Behind(q)'
               /\ \A w \in User : q \in freeing'[w] => w = u
    <3>1. q \in freeing[u] /\ q \in Page /\ q # p /\ q # p + 1
      BY <1>2, <1>4, <2>2, FreshPage DEF HeapInv, HeapTypeOK
    <3> QED
      BY <1>2, <1>6, <1>13, <3>1 DEF HeapInv, HeapPages
  <2> QED
    BY <2>1, <2>2 DEF HeapPages
<1> QED
  BY <1>8, <1>9, <1>10, <1>11, <1>12, <1>14 DEF HeapInv

LEMMA UnlockFacts ==
    ASSUME HeapAssumption, HeapInv, NEW t \in User, desc[t] # Nobody, Unlock(t)
    PROVE  /\ descLock' \in [Desc -> User \cup {Nobody}]
           /\ desc' \in [User -> Desc \cup {Nobody}]
           /\ desc'[t] = Nobody /\ \A u \in User : u # t => desc'[u] = desc[u]
           /\ \A u \in User : desc'[u] # Nobody => descLock'[desc'[u]] = u
<1>1. /\ descLock \in [Desc -> User \cup {Nobody}]
      /\ desc \in [User -> Desc \cup {Nobody}]
      /\ \A u \in User : desc[u] # Nobody => descLock[desc[u]] = u
  BY DEF HeapInv, HeapTypeOK, HeapLocks
<1>2. /\ descLock' = [descLock EXCEPT ![desc[t]] = Nobody]
      /\ desc' = [desc EXCEPT ![t] = Nobody]
  BY DEF Unlock
<1> QED
  BY <1>1, <1>2

(* A change of free_cnt alone leaves the kinds of the pages.               *)
LEMMA SameKinds ==
    ASSUME HeapAssumption, HeapInv, NEW p \in Page, Small(p), NEW n \in Nat,
           arena' = [arena EXCEPT ![p].freeCnt = n]
    PROVE  /\ arena' \in [Page -> Arena \cup {Nobody}]
           /\ arena'[p].freeCnt = n
           /\ \A q \in Page : /\ arena'[q] = Nobody <=> arena[q] = Nobody
                              /\ arena'[q].desc = arena[q].desc
                              /\ q # p => arena'[q] = arena[q]
                              /\ Small(q)' = Small(q) /\ Big(q)' = Big(q)
                              /\ Behind(q)' = Behind(q)
<1>1. /\ arena \in [Page -> Arena \cup {Nobody}] /\ arena[p] \in Arena
      /\ Nobody \notin Arena
  BY HeapShape DEF HeapInv, HeapTypeOK, Small, HeapAssumption
<1> DEFINE a == [arena[p] EXCEPT !.freeCnt = n]
<1>2. a \in Arena /\ a.desc = arena[p].desc /\ a.freeCnt = n
  BY <1>1 DEF Arena
<1>3. arena' = [arena EXCEPT ![p] = a]
  OBVIOUS
<1> HIDE DEF a
<1>4. arena'[p] = a /\ \A q \in Page : q # p => arena'[q] = arena[q]
  BY <1>1, <1>3
<1>5. \A q \in Page : /\ arena'[q] = Nobody <=> arena[q] = Nobody
                      /\ arena'[q].desc = arena[q].desc
  BY <1>1, <1>2, <1>4
<1>6. \A q \in Page : Small(q)' = Small(q) /\ Big(q)' = Big(q)
  BY <1>5 DEF Small, Big
<1> QED
  BY <1>1, <1>2, <1>3, <1>4, <1>5, <1>6 DEF Behind

LEMMA GrowArenaStep ==
    ASSUME HeapAssumption, HeapInv, NEW t \in User, NEW d, d = desc[t],
           heapPc[t] = "locked", freeList[d] = <<>>,
           NEW p \in Page, p \notin usedMap, usedMap' = usedMap \cup {p},
           arena' = [arena EXCEPT ![p] = [desc |-> d, freeCnt |-> BlocksPerArena[d]]],
           freeList' = [freeList EXCEPT ![d] = BlocksOf(p, d)],
           Stage(t, "pop"), UNCHANGED <<descLock, desc, held, block, freeing>>
    PROVE  HeapInv'
<1> DEFINE new == [desc |-> d, freeCnt |-> BlocksPerArena[d]]
           list == BlocksOf(p, d)
<1>1. d \in Desc /\ d # Nobody
  BY HeapShape DEF HeapInv, HeapTypeOK, HeapStages
<1>2. /\ new \in Arena /\ new # Nobody /\ new.desc = d /\ new.freeCnt = BlocksPerArena[d]
  BY <1>1 DEF HeapAssumption, Arena
<1>3. /\ arena' \in [Page -> Arena \cup {Nobody}] /\ arena'[p] = new
      /\ \A q \in Page : q # p => arena'[q] = arena[q]
  BY <1>2 DEF HeapInv, HeapTypeOK
<1>4. /\ list \in Seq(Block) /\ list # <<>> /\ IsInjective(list)
      /\ \A b \in ToSet(list) : b[1] = p
      /\ Cardinality(ToSet(list)) = BlocksPerArena[d]
  <2>1. \A e \in Desc :
           /\ BlocksOf(p, e) \in Seq(Block) /\ BlocksOf(p, e) # <<>>
           /\ IsInjective(BlocksOf(p, e))
           /\ \A b \in ToSet(BlocksOf(p, e)) : b[1] = p
           /\ Cardinality(ToSet(BlocksOf(p, e))) = BlocksPerArena[e]
    BY BlocksOfFacts
  <2> QED
    BY <1>1, <2>1, Zenon
<1>5. /\ freeList' \in [Desc -> Seq(Block)] /\ freeList'[d] = list
      /\ \A e \in Desc : e # d => freeList'[e] = freeList[e]
  BY <1>1, <1>4 DEF HeapInv, HeapTypeOK
<1> HIDE DEF new, list
<1>6. /\ Small(p)' /\ ~Big(p)' /\ ~Small(p) /\ ~Big(p)
      /\ \A q \in Page : /\ q # p => Small(q)' = Small(q)
                         /\ Big(q)' = Big(q)
  BY <1>1, <1>2, <1>3, FreshPage DEF Small, Big
<1>7. \A q \in Page : Behind(q)' = Behind(q)
  BY <1>6 DEF Behind
<1>8. HeapTypeOK'
  BY <1>3, <1>5 DEF HeapInv, HeapTypeOK, Arena, Stage
<1>9. HeapStages'
  BY <1>1, <1>4, <1>5 DEF HeapInv, HeapTypeOK, HeapStages, HeapLocks, Stage
<1>10. HeapLocks'
  <2>1. \A u \in User : block[u] # Nobody => block[u][1] # p /\ block[u][1] \in Page
    BY FreshPage, HeapShape
  <2> QED
    BY <1>3, <1>6, <2>1 DEF HeapInv, HeapLocks, Small
<1>11. HeapLists'
  <2> SUFFICES ASSUME NEW e \in Desc
               PROVE  /\ IsInjective(freeList'[e])
                      /\ \A b \in ToSet(freeList'[e]) :
                            Small(b[1])' /\ arena'[b[1]].desc = e
    BY DEF HeapLists
  <2>1. CASE e = d
    BY <1>2, <1>3, <1>4, <1>5, <1>6, <2>1
  <2>2. CASE e # d
    <3>1. \A b \in ToSet(freeList[e]) : b[1] # p /\ b[1] \in Page
      BY FreshPage, HeapShape DEF HeapInv, HeapTypeOK, ToSet
    <3> QED
      BY <1>3, <1>5, <1>6, <2>2, <3>1 DEF HeapInv, HeapLists
  <2> QED
    BY <2>1, <2>2
<1>12. HeapArenas'
  <2> SUFFICES ASSUME NEW q \in Page, Small(q)'
               PROVE  /\ arena'[q].freeCnt = Cardinality(Listed(q)')
                      /\ Listed(q)' \cup Given(q)' = ToSet(BlocksOf(q, arena'[q].desc))
                      /\ Listed(q)' \cap Given(q)' = {} /\ HeldOn(q)' \cap Freed(q)' = {}
    BY DEF HeapArenas, BlocksOf
  <2>1. HeldOn(q)' = HeldOn(q) /\ Freed(q)' = Freed(q) /\ Given(q)' = Given(q)
    BY DEF HeldOn, Freed, Given
  <2>2. CASE q = p
    <3>1. Listed(p)' = ToSet(list)
      <4>1. \A e \in Desc : e # d => \A b \in ToSet(freeList'[e]) : b[1] # p
        BY <1>5, FreshPage
      <4> QED
        BY <1>1, <1>4, <1>5, <4>1 DEF Listed
    <3>2. HeldOn(p) = {} /\ Freed(p) = {} /\ Given(p) = {}
      BY FreshPage DEF HeldOn, Freed, Given
    <3> QED
      BY <1>2, <1>3, <1>4, <2>1, <2>2, <3>1, <3>2 DEF list
  <2>3. CASE q # p
    <3>1. Listed(q)' = Listed(q)
      <4>1. ToSet(freeList[d]) = {}
        BY DEF ToSet
      <4>2. \A b \in ToSet(freeList'[d]) : b[1] # q
        BY <1>4, <1>5, <2>3
      <4> QED
        BY <1>1, <1>5, <4>1, <4>2 DEF Listed
    <3> QED
      BY <1>3, <1>6, <2>1, <2>3, <3>1 DEF HeapInv, HeapArenas
  <2> QED
    BY <2>2, <2>3
<1>13. HeapBig'
  <2>1. \A b \in held : b[1] # p /\ b[1] \in Page
    BY FreshPage, HeapShape DEF HeapInv, HeapTypeOK
  <2>2. \A q \in Page : Big(q) => q # p /\ q + 1 # p
    BY FreshPage
  <2> QED
    BY <1>3, <1>6, <2>1, <2>2 DEF HeapInv, HeapBig
<1>14. HeapPages'
  BY <1>2, <1>3, <1>7, FreshPage DEF HeapInv, HeapTypeOK, HeapPages
<1> QED
  BY <1>8, <1>9, <1>10, <1>11, <1>12, <1>13, <1>14 DEF HeapInv

LEMMA GrowStep ==
    ASSUME HeapAssumption, HeapInv, NEW t \in User, Grow(t)
    PROVE  HeapInv'
<1> DEFINE d == desc[t]
<1>1. heapPc[t] = "locked" /\ UNCHANGED <<held, block, freeing>> /\ d \in Desc /\ d # Nobody
  BY DEF Grow, HeapInv, HeapTypeOK, HeapStages
<1>2. CASE /\ freeList[d] # <<>> /\ Stage(t, "pop")
           /\ UNCHANGED <<usedMap, arena, freeList, descLock, desc>>
  <2>1. HeapTypeOK' /\ HeapStages' /\ HeapLocks' /\ HeapPages'
    BY <1>1, <1>2 DEF HeapInv, HeapTypeOK, HeapStages, HeapLocks, HeapPages,
       Small, Big, Behind, Stage
  <2> QED
    BY <1>1, <1>2, <2>1, KeepsRecords DEF HeapInv
<1>3. CASE /\ freeList[d] = <<>>
           /\ \E p \in Page :
                 /\ FirstRun(p, 1)
                 /\ usedMap' = usedMap \cup {p}
                 /\ arena' = [arena EXCEPT ![p] =
                                 [desc |-> d, freeCnt |-> BlocksPerArena[d]]]
                 /\ freeList' = [freeList EXCEPT ![d] = BlocksOf(p, d)]
           /\ Stage(t, "pop")
           /\ UNCHANGED <<descLock, desc>>
  <2>1. PICK p \in Page :
            /\ FirstRun(p, 1)
            /\ usedMap' = usedMap \cup {p}
            /\ arena' = [arena EXCEPT ![p] = [desc |-> d, freeCnt |-> BlocksPerArena[d]]]
            /\ freeList' = [freeList EXCEPT ![d] = BlocksOf(p, d)]
    BY <1>3
  <2>2. p \notin usedMap
    <3>1. p \in Run(p, 1)
      BY HeapShape DEF Run
    <3> QED
      BY <2>1, <3>1 DEF FirstRun, FreeRun
  <2> QED
    BY <1>1, <1>3, <2>1, <2>2, GrowArenaStep
<1>4. CASE /\ Unlock(t) /\ Stage(t, "idle")
           /\ UNCHANGED <<usedMap, arena, freeList>>
  <2>1. /\ descLock' \in [Desc -> User \cup {Nobody}]
        /\ desc' \in [User -> Desc \cup {Nobody}]
        /\ desc'[t] = Nobody /\ \A u \in User : u # t => desc'[u] = desc[u]
        /\ \A u \in User : desc'[u] # Nobody => descLock'[desc'[u]] = u
    BY <1>1, <1>4, UnlockFacts
  <2>2. block[t] = Nobody
    BY <1>1 DEF HeapInv, HeapStages
  <2>3. HeapTypeOK' /\ HeapStages'
    BY <1>1, <1>4, <2>1, <2>2 DEF HeapInv, HeapTypeOK, HeapStages, Stage
  <2>4. HeapLocks'
    BY <1>1, <1>4, <2>1, <2>2 DEF HeapInv, HeapLocks, Small
  <2>5. HeapPages'
    BY <1>1, <1>4 DEF HeapInv, HeapPages, Big, Behind
  <2> QED
    BY <1>1, <1>4, <2>3, <2>4, <2>5, KeepsRecords DEF HeapInv
<1> QED
  BY <1>2, <1>3, <1>4 DEF Grow

LEMMA PopBlockStep ==
    ASSUME HeapAssumption, HeapInv, NEW t \in User, PopBlock(t)
    PROVE  HeapInv'
<1>0. PICK d, list, b, p :
          d = desc[t] /\ list = freeList[d] /\ b = Head(list) /\ p = b[1]
  OBVIOUS
<1>1. /\ heapPc[t] = "pop" /\ Unlock(t) /\ heapPc' = [heapPc EXCEPT ![t] = "idle"]
      /\ freeList' = [freeList EXCEPT ![d] = Tail(@)]
      /\ arena' = [arena EXCEPT ![p].freeCnt = @ - 1]
      /\ held' = held \cup {b}
      /\ UNCHANGED <<usedMap, block, freeing>>
  BY <1>0 DEF PopBlock, Stage
<1>2. /\ d \in Desc /\ d # Nobody /\ list # <<>> /\ list \in Seq(Block)
      /\ IsInjective(list) /\ block[t] = Nobody
  BY <1>0, <1>1 DEF HeapInv, HeapTypeOK, HeapStages, HeapLists
<1>3. /\ Tail(list) \in Seq(Block) /\ b \in Block /\ b \in ToSet(list)
      /\ ToSet(Tail(list)) = ToSet(list) \ {b} /\ IsInjective(Tail(list))
  BY <1>0, <1>2, TailFacts
<1>4. p \in Page /\ Small(p) /\ arena[p] # Nobody /\ arena[p].desc = d
  BY <1>0, <1>2, <1>3, HeapShape DEF HeapInv, HeapLists, Small
<1>5. /\ freeList' \in [Desc -> Seq(Block)] /\ freeList'[d] = Tail(list)
      /\ \A e \in Desc : e # d => freeList'[e] = freeList[e]
  BY <1>0, <1>1, <1>2, <1>3 DEF HeapInv, HeapTypeOK
<1>6. b \in Listed(p)
  BY <1>0, <1>2, <1>3 DEF Listed
<1>7. b \notin held /\ b[2] # 0
  <2>1. /\ Listed(p) \cup Given(p) = ToSet(BlocksOf(p, d))
        /\ Listed(p) \cap Given(p) = {}
    BY <1>4 DEF HeapInv, HeapArenas
  <2>2. \A e \in Desc : \A c \in ToSet(BlocksOf(p, e)) : c[2] # 0
    <3>1. \A e \in Desc : \A c \in ToSet(BlocksOf(p, e)) : c[1] = p /\ c[2] # 0
      BY <1>4, BlocksOfFacts
    <3> QED
      BY <3>1
  <2> QED
    BY <1>0, <1>2, <1>6, <2>1, <2>2 DEF Given, HeldOn
<1> DEFINE n == arena[p].freeCnt - 1
<1>8. /\ n \in Nat /\ n = Cardinality(Listed(p) \ {b})
      /\ arena' = [arena EXCEPT ![p].freeCnt = n]
  <2>1. IsFiniteSet(Listed(p)) /\ arena[p].freeCnt = Cardinality(Listed(p))
    BY <1>4, HeapShape DEF HeapInv, HeapArenas
  <2>2. /\ Cardinality(Listed(p) \ {b}) = Cardinality(Listed(p)) - 1
        /\ Cardinality(Listed(p) \ {b}) \in Nat
    BY <1>6, <2>1, FS_RemoveElement, FS_CardinalityType
  <2> QED
    BY <1>1, <2>1, <2>2
<1> HIDE DEF n
<1>9. /\ arena' \in [Page -> Arena \cup {Nobody}] /\ arena'[p].freeCnt = n
      /\ \A q \in Page : /\ arena'[q] = Nobody <=> arena[q] = Nobody
                         /\ arena'[q].desc = arena[q].desc
                         /\ q # p => arena'[q] = arena[q]
                         /\ Small(q)' = Small(q) /\ Big(q)' = Big(q)
                         /\ Behind(q)' = Behind(q)
  BY <1>4, <1>8, SameKinds
<1>10. /\ descLock' \in [Desc -> User \cup {Nobody}]
       /\ desc' \in [User -> Desc \cup {Nobody}]
       /\ desc'[t] = Nobody /\ \A u \in User : u # t => desc'[u] = desc[u]
       /\ \A u \in User : desc'[u] # Nobody => descLock'[desc'[u]] = u
  BY <1>0, <1>1, <1>2, UnlockFacts
<1>11. HeapTypeOK'
  BY <1>1, <1>3, <1>5, <1>9, <1>10 DEF HeapInv, HeapTypeOK, Arena
<1>12. HeapStages'
  <2>1. ASSUME NEW u \in User, u # t, heapPc[u] = "pop"
        PROVE  desc[u] # d /\ desc[u] \in Desc
    BY <1>0, <1>2, <2>1 DEF HeapInv, HeapTypeOK, HeapStages, HeapLocks
  <2> QED
    BY <1>0, <1>1, <1>2, <1>5, <1>10, <2>1 DEF HeapInv, HeapTypeOK, HeapStages
<1>13. HeapLocks'
  <2>1. \A u \in User : block[u] # Nobody => block[u][1] \in Page /\ u # t
    BY <1>2, HeapShape
  <2> QED
    BY <1>1, <1>9, <1>10, <2>1 DEF HeapInv, HeapLocks
<1>14. HeapLists'
  <2> SUFFICES ASSUME NEW e \in Desc
               PROVE  /\ IsInjective(freeList'[e])
                      /\ \A c \in ToSet(freeList'[e]) :
                            Small(c[1])' /\ arena'[c[1]].desc = e
    BY DEF HeapLists
  <2>1. ToSet(freeList'[e]) \subseteq ToSet(freeList[e])
    BY <1>0, <1>3, <1>5
  <2>2. \A c \in ToSet(freeList[e]) : c[1] \in Page
    BY HeapShape DEF HeapInv, HeapTypeOK, ToSet
  <2> QED
    BY <1>3, <1>5, <1>9, <2>1, <2>2 DEF HeapInv, HeapLists
<1>15. \A q \in Page : Listed(q)' = Listed(q) \ {b}
  <2> SUFFICES ASSUME NEW q \in Page PROVE Listed(q)' = Listed(q) \ {b}
    OBVIOUS
  <2>1. ASSUME NEW e \in Desc, e # d PROVE b \notin ToSet(freeList[e])
    BY <1>0, <1>4, <2>1 DEF HeapInv, HeapLists
  <2>2. \A e \in Desc : ToSet(freeList'[e]) = ToSet(freeList[e]) \ {b}
    BY <1>0, <1>3, <1>5, <2>1
  <2> QED
    BY <2>2 DEF Listed
<1>16. /\ \A q \in Page : Freed(q)' = Freed(q)
       /\ \A q \in Page : q # p => HeldOn(q)' = HeldOn(q)
       /\ HeldOn(p)' = HeldOn(p) \cup {b}
  <2>1. \A q \in Page : Freed(q)' = Freed(q)
    BY <1>1 DEF Freed
  <2>2. \A q \in Page : HeldOn(q)' = {c \in held \cup {b} : c[1] = q}
    BY <1>1 DEF HeldOn
  <2>3. b[1] = p
    BY <1>0
  <2> QED
    BY <1>4, <2>1, <2>2, <2>3 DEF HeldOn
<1>17. HeapArenas'
  <2> SUFFICES ASSUME NEW q \in Page, Small(q)'
               PROVE  /\ arena'[q].freeCnt = Cardinality(Listed(q)')
                      /\ Listed(q)' \cup Given(q)' = ToSet(BlocksOf(q, arena'[q].desc))
                      /\ Listed(q)' \cap Given(q)' = {} /\ HeldOn(q)' \cap Freed(q)' = {}
    BY DEF HeapArenas, BlocksOf
  <2>1. Given(q)' = HeldOn(q)' \cup Freed(q)'
    BY DEF Given
  <2>2. /\ arena[q].freeCnt = Cardinality(Listed(q))
        /\ Listed(q) \cup Given(q) = ToSet(BlocksOf(q, arena[q].desc))
        /\ Listed(q) \cap Given(q) = {} /\ HeldOn(q) \cap Freed(q) = {}
    BY <1>9 DEF HeapInv, HeapArenas
  <2>3. CASE q = p
    <3>1. /\ Listed(p)' = Listed(p) \ {b} /\ Given(p)' = Given(p) \cup {b}
          /\ HeldOn(p)' = HeldOn(p) \cup {b} /\ Freed(p)' = Freed(p)
      BY <1>4, <1>15, <1>16, <2>1, <2>3 DEF Given
    <3>2. arena'[p].freeCnt = Cardinality(Listed(p)')
      BY <1>8, <1>9, <3>1
    <3>3. b \notin Freed(p)
      BY <1>6, <2>2, <2>3 DEF Given
    <3> QED
      BY <1>4, <1>6, <1>9, <2>2, <2>3, <3>1, <3>2, <3>3
  <2>4. CASE q # p
    <3>1. b \notin Listed(q)
      BY <1>0, <2>4 DEF Listed
    <3>2. Listed(q)' = Listed(q) /\ Given(q)' = Given(q) /\ HeldOn(q)' = HeldOn(q)
      BY <1>15, <1>16, <2>1, <2>4, <3>1 DEF Given
    <3> QED
      BY <1>9, <1>16, <2>2, <2>4, <3>2
  <2> QED
    BY <2>3, <2>4
<1>18. HeapBig'
  <2>1. ASSUME NEW c \in held'
        PROVE  arena'[c[1]] # Nobody /\ (c[2] = 0 <=> Big(c[1])')
    <3>1. CASE c = b
      BY <1>0, <1>4, <1>7, <1>9, <3>1 DEF Big, Small
    <3>2. CASE c # b
      <4>1. c \in held /\ c[1] \in Page
        BY <1>1, <2>1, <3>2, HeapShape DEF HeapInv, HeapTypeOK
      <4> QED
        BY <1>9, <4>1 DEF HeapInv, HeapBig
    <3> QED
      BY <3>1, <3>2
  <2>2. \A q \in Page : Big(q)' => q # p
    BY <1>4, <1>9 DEF Small, Big
  <2> QED
    BY <1>1, <1>9, <2>1, <2>2 DEF HeapInv, HeapBig
<1>19. HeapPages'
  <2>1. \A u \in User : freeing[u] \subseteq Page
    BY DEF HeapInv, HeapTypeOK
  <2> QED
    BY <1>1, <1>9, <2>1 DEF HeapInv, HeapPages
<1> QED
  BY <1>11, <1>12, <1>13, <1>14, <1>17, <1>18, <1>19 DEF HeapInv

(* free of a block of a descriptor: from held to the hands of the caller.  *)
LEMMA FreeSmallStep ==
    ASSUME HeapAssumption, HeapInv, NEW t \in User, NEW b \in held, NEW p, NEW d,
           p = b[1], d = arena[p].desc, d # Nobody, descLock[d] = Nobody,
           heapPc[t] = "idle", held' = held \ {b},
           descLock' = [descLock EXCEPT ![d] = t], desc' = [desc EXCEPT ![t] = d],
           block' = [block EXCEPT ![t] = b], Stage(t, "push"),
           UNCHANGED <<usedMap, freeList, arena, freeing>>
    PROVE  HeapInv'
<1>1. b \in Block /\ p \in Page /\ Small(p) /\ d \in Desc /\ b # Nobody /\ Nobody \notin User
  <2>1. b \in Block /\ p \in Page
    BY HeapShape DEF HeapInv, HeapTypeOK
  <2>2. Small(p)
    BY DEF HeapInv, HeapBig, Small
  <2> QED
    BY <2>1, <2>2, HeapShape
<1>2. desc[t] = Nobody /\ block[t] = Nobody
  BY DEF HeapInv, HeapStages
<1>3. /\ descLock' \in [Desc -> User \cup {Nobody}]
      /\ desc' \in [User -> Desc \cup {Nobody}]
      /\ block' \in [User -> Block \cup {Nobody}]
      /\ desc'[t] = d /\ \A u \in User : u # t => desc'[u] = desc[u]
      /\ block'[t] = b /\ \A u \in User : u # t => block'[u] = block[u]
      /\ \A u \in User : desc'[u] # Nobody => descLock'[desc'[u]] = u
  BY <1>1, <1>2 DEF HeapInv, HeapTypeOK, HeapLocks
<1>4. HeapTypeOK' /\ HeapStages'
  BY <1>1, <1>2, <1>3 DEF HeapInv, HeapTypeOK, HeapStages, Stage
<1>5. HeapLocks'
  BY <1>1, <1>3 DEF HeapInv, HeapLocks, Small
<1>6. \A q : /\ Small(q)' = Small(q) /\ Big(q)' = Big(q) /\ Behind(q)' = Behind(q)
             /\ Listed(q)' = Listed(q)
  BY DEF Small, Big, Behind, Listed
<1>7. HeapLists'
  BY <1>6 DEF HeapInv, HeapLists
<1>8. HeapArenas'
  <2> SUFFICES ASSUME NEW q \in Page, Small(q)
               PROVE  /\ Given(q)' = Given(q)
                      /\ HeldOn(q)' \cap Freed(q)' = {}
    BY <1>6 DEF HeapInv, HeapArenas, BlocksOf
  <2>1. HeldOn(q)' = HeldOn(q) \ {b}
    BY DEF HeldOn
  <2>2. q = p => b \in HeldOn(q)
    BY DEF HeldOn
  <2>3. Freed(q)' = IF q = p THEN Freed(q) \cup {b} ELSE Freed(q)
    <3>1. ASSUME NEW c \in Freed(q)' PROVE c \in Freed(q) \/ (q = p /\ c = b)
      BY <1>3, <3>1 DEF Freed
    <3>2. ASSUME NEW c \in Freed(q) PROVE c \in Freed(q)'
      <4>1. PICK u \in User : block[u] # Nobody /\ block[u][1] = q /\ c = block[u]
        BY <3>2 DEF Freed
      <4>2. u # t
        BY <1>2, <4>1
      <4> QED
        BY <1>3, <4>1, <4>2 DEF Freed
    <3>3. q = p => b \in Freed(q)'
      BY <1>1, <1>3 DEF Freed
    <3> QED
      BY <3>1, <3>2, <3>3
  <2>4. HeldOn(q) \cap Freed(q) = {}
    BY DEF HeapInv, HeapArenas
  <2>5. q # p => b \notin HeldOn(q)
    BY DEF HeldOn
  <2> QED
    BY <2>1, <2>2, <2>3, <2>4, <2>5 DEF Given
<1>9. HeapBig'
  <2>1. b[2] # 0
    BY <1>1 DEF HeapInv, HeapBig, Small, Big
  <2> QED
    BY <1>6, <2>1 DEF HeapInv, HeapBig
<1>10. HeapPages'
  BY <1>6 DEF HeapInv, HeapPages
<1> QED
  BY <1>4, <1>5, <1>7, <1>8, <1>9, <1>10 DEF HeapInv

(* free of a big block: its two pages are on their way out.                *)
LEMMA FreeBigStep ==
    ASSUME HeapAssumption, HeapInv, NEW t \in User, NEW b \in held, NEW p,
           p = b[1], arena[p].desc = Nobody, heapPc[t] = "idle", held' = held \ {b},
           freeing' = [freeing EXCEPT ![t] = Run(p, arena[p].freeCnt)],
           arena' = [arena EXCEPT ![p] = Nobody], Stage(t, "free"),
           UNCHANGED <<usedMap, freeList, descLock, desc, block>>
    PROVE  HeapInv'
<1>1. b \in Block /\ p \in Page /\ p \in Int /\ Big(p) /\ ~Small(p)
  <2>1. b \in Block /\ p \in Page /\ p \in Int
    BY HeapShape DEF HeapInv, HeapTypeOK
  <2>2. Big(p) /\ ~Small(p)
    BY DEF HeapInv, HeapBig, Big, Small
  <2> QED
    BY <2>1, <2>2
<1>2. /\ b = <<p, 0>> /\ p + 1 \in Page /\ arena[p + 1] = Nobody
      /\ freeing' = [freeing EXCEPT ![t] = {p, p + 1}]
      /\ freeing[t] = {}
  <2>1. b[2] = 0 /\ arena[p].freeCnt = BigPages /\ p + 1 \in Page /\ arena[p + 1] = Nobody
    BY <1>1 DEF HeapInv, HeapBig
  <2>2. b = <<p, 0>>
    BY <1>1, <2>1 DEF Block
  <2>3. Run(p, arena[p].freeCnt) = {p, p + 1}
    BY <1>1, <2>1 DEF Run, BigPages
  <2> QED
    BY <2>1, <2>2, <2>3 DEF HeapInv, HeapStages
<1>3. /\ arena' \in [Page -> Arena \cup {Nobody}] /\ arena'[p] = Nobody
      /\ \A q \in Page : q # p => arena'[q] = arena[q]
  BY <1>1 DEF HeapInv, HeapTypeOK
<1>4. /\ ~Big(p)' /\ ~Small(p)'
      /\ \A q \in Page : q # p => Small(q)' = Small(q) /\ Big(q)' = Big(q)
  BY <1>3 DEF Small, Big
<1>5. /\ freeing' \in [User -> SUBSET Page] /\ freeing'[t] = {p, p + 1}
      /\ \A u \in User : u # t => freeing'[u] = freeing[u]
  <2>1. {p, p + 1} \in SUBSET Page /\ freeing \in [User -> SUBSET Page]
    BY <1>1, <1>2 DEF HeapInv, HeapTypeOK
  <2> QED
    BY <1>2, <2>1
<1>6. HeapTypeOK'
  BY <1>3, <1>5 DEF HeapInv, HeapTypeOK, Arena, Stage
<1>7. HeapStages'
  BY <1>5 DEF HeapInv, HeapTypeOK, HeapStages, Stage
<1>8. HeapLocks' /\ HeapLists'
  <2>1. /\ \A u \in User : block[u] # Nobody =>
              block[u][1] # p /\ block[u][1] \in Page
        /\ \A d \in Desc : \A c \in ToSet(freeList[d]) : c[1] # p /\ c[1] \in Page
    <3>1. \A u \in User : block[u] # Nobody => Small(block[u][1]) /\ block[u][1] \in Page
      BY HeapShape DEF HeapInv, HeapLocks
    <3>2. \A d \in Desc : \A c \in ToSet(freeList[d]) : Small(c[1])
      BY DEF HeapInv, HeapLists
    <3>3. \A d \in Desc : \A c \in ToSet(freeList[d]) : c \in Block
      BY DEF HeapInv, HeapTypeOK, ToSet
    <3> QED
      BY <1>1, <3>1, <3>2, <3>3, HeapShape
  <2>2. HeapLocks'
    BY <1>3, <1>4, <2>1 DEF HeapInv, HeapLocks
  <2>3. HeapLists'
    BY <1>3, <1>4, <2>1 DEF HeapInv, HeapLists
  <2> QED
    BY <2>2, <2>3
<1>9. HeapArenas'
  <2> SUFFICES ASSUME NEW q \in Page, Small(q)'
               PROVE  /\ arena'[q].freeCnt = Cardinality(Listed(q)')
                      /\ Listed(q)' \cup Given(q)' = ToSet(BlocksOf(q, arena'[q].desc))
                      /\ Listed(q)' \cap Given(q)' = {} /\ HeldOn(q)' \cap Freed(q)' = {}
    BY DEF HeapArenas, BlocksOf
  <2>1. q # p /\ Small(q) /\ arena'[q] = arena[q]
    BY <1>3, <1>4
  <2>2. Listed(q)' = Listed(q) /\ HeldOn(q)' = HeldOn(q) /\ Freed(q)' = Freed(q)
    BY <2>1 DEF Listed, HeldOn, Freed
  <2>3. Given(q)' = Given(q)
    BY <2>2 DEF Given
  <2> QED
    BY <2>1, <2>2, <2>3 DEF HeapInv, HeapArenas
<1>10. HeapBig'
  <2>1. ASSUME NEW c \in held' PROVE c \in held /\ c[1] \in Page /\ c[1] # p
    <3>1. c \in held /\ c \in Block /\ c # <<p, 0>> /\ c[1] \in Page
      BY <1>2, <2>1, HeapShape DEF HeapInv, HeapTypeOK
    <3>2. c[1] # p
      <4>1. c[1] = p => c[2] = 0
        BY <1>1, <3>1 DEF HeapInv, HeapBig
      <4> QED
        BY <3>1, <4>1 DEF Block
    <3> QED
      BY <3>1, <3>2
  <2>2. ASSUME NEW q \in Page, Big(q)'
        PROVE  /\ <<q, 0>> \in held' /\ arena'[q].freeCnt = BigPages
               /\ q + 1 \in Page /\ arena'[q + 1] = Nobody
    <3>1. q # p /\ Big(q) /\ <<q, 0>> # <<p, 0>>
      BY <1>4, <2>2
    <3> QED
      BY <1>2, <1>3, <3>1 DEF HeapInv, HeapBig
  <2>3. \A c \in held' : arena'[c[1]] # Nobody /\ (c[2] = 0 <=> Big(c[1])')
    BY <1>3, <1>4, <2>1 DEF HeapInv, HeapBig
  <2> QED
    BY <2>2, <2>3 DEF HeapBig
<1>11. \A q \in Page : Behind(q) <=> Behind(q)' \/ q = p + 1
  <2> SUFFICES ASSUME NEW q \in Page
               PROVE  Behind(q) <=> Behind(q)' \/ q = p + 1
    OBVIOUS
  <2>1. q \in Int /\ (q - 1 = p <=> q = p + 1) /\ (p + 1) - 1 = p
    <3>1. q \in Int /\ p \in Int
      BY <1>1, HeapShape
    <3> QED
      BY <3>1
  <2>2. \A r \in Page : Big(r) <=> Big(r)' \/ r = p
    BY <1>1, <1>4
  <2>3. p \in Page /\ Big(p)
    BY <1>1
  <2>4. CASE q = p + 1
    BY <2>1, <2>3, <2>4 DEF Behind
  <2>5. CASE q # p + 1
    <3>1. q - 1 \in Page => (Big(q - 1) <=> Big(q - 1)')
      BY <2>1, <2>2, <2>5
    <3> QED
      BY <2>5, <3>1 DEF Behind
  <2> QED
    BY <2>4, <2>5
<1>12. ~Behind(p + 1)' /\ ~Behind(p)'
  <2>1. (p + 1) - 1 = p /\ p # p + 1
    BY <1>1
  <2>2. ~Behind(p)
    <3>1. \A q \in Page : Big(q) => arena[q + 1] = Nobody
      BY DEF HeapInv, HeapBig
    <3>2. (p - 1) + 1 = p
      BY <1>1
    <3> QED
      BY <1>1, <3>1, <3>2 DEF Behind, Big
  <2> QED
    BY <1>1, <1>4, <1>11, <2>1, <2>2 DEF Behind
<1>13. HeapPages'
  <2>1. ASSUME NEW q \in Page
        PROVE  q \in usedMap' <=>
                  arena'[q] # Nobody \/ Behind(q)' \/ \E u \in User : q \in freeing'[u]
    <3>1. q \in usedMap <=>
              arena[q] # Nobody \/ Behind(q) \/ \E u \in User : q \in freeing[u]
      BY DEF HeapInv, HeapPages
    <3>2. (\E u \in User : q \in freeing'[u]) <=>
              q \in {p, p + 1} \/ \E u \in User : q \in freeing[u]
      BY <1>2, <1>5
    <3> QED
      BY <1>1, <1>2, <1>3, <1>11, <1>12, <3>1, <3>2 DEF Big
  <2>2. ASSUME NEW u \in User, NEW q \in freeing'[u]
        PROVE  /\ arena'[q] = Nobody /\ ~Behind(q)'
               /\ \A w \in User : q \in freeing'[w] => w = u
    <3>1. \A w \in User : p \notin freeing[w] /\ p + 1 \notin freeing[w]
      <4>1. Behind(p + 1)
        BY <1>2, <1>11
      <4> QED
        BY <1>1, <4>1 DEF HeapInv, HeapPages, Big
    <3>2. CASE u = t
      BY <1>2, <1>3, <1>5, <1>12, <2>2, <3>1, <3>2
    <3>3. CASE u # t
      <4>1. q \in freeing[u] /\ q \in Page /\ q # p /\ q # p + 1
        BY <1>5, <2>2, <3>1, <3>3 DEF HeapInv, HeapTypeOK
      <4> QED
        BY <1>3, <1>5, <1>11, <4>1 DEF HeapInv, HeapPages
    <3> QED
      BY <3>2, <3>3
  <2> QED
    BY <2>1, <2>2 DEF HeapPages
<1> QED
  BY <1>6, <1>7, <1>8, <1>9, <1>10, <1>13 DEF HeapInv

LEMMA FreeStep ==
    ASSUME HeapAssumption, HeapInv, NEW t \in User, NEW b \in held, Free(t, b)
    PROVE  HeapInv'
<1>1. PICK p, a : p = b[1] /\ a = arena[p]
  OBVIOUS
<1>2. heapPc[t] = "idle" /\ held' = held \ {b} /\ UNCHANGED <<usedMap, freeList>>
  BY DEF Free
<1>3. CASE /\ a.desc # Nobody /\ descLock[a.desc] = Nobody
           /\ descLock' = [descLock EXCEPT ![a.desc] = t]
           /\ desc' = [desc EXCEPT ![t] = a.desc]
           /\ block' = [block EXCEPT ![t] = b]
           /\ Stage(t, "push")
           /\ UNCHANGED <<arena, freeing>>
  BY <1>1, <1>2, <1>3, FreeSmallStep
<1>4. CASE /\ a.desc = Nobody
           /\ freeing' = [freeing EXCEPT ![t] = Run(b[1], a.freeCnt)]
           /\ arena' = [arena EXCEPT ![b[1]] = Nobody]
           /\ Stage(t, "free")
           /\ UNCHANGED <<descLock, desc, block>>
  BY <1>1, <1>2, <1>4, FreeBigStep
<1> QED
  BY <1>1, <1>3, <1>4 DEF Free

(* What the caller of free is about to put into the free list.             *)
LEMMA PushFacts ==
    ASSUME HeapAssumption, HeapInv, NEW t \in User, heapPc[t] = "push"
    PROVE  LET d == desc[t]
               b == block[t]
               p == b[1]
           IN
           /\ d \in Desc /\ d # Nobody /\ b \in Block /\ b # Nobody /\ p \in Page
           /\ freeing[t] = {}
           /\ Small(p) /\ ~Big(p) /\ arena[p].desc = d /\ arena[p].freeCnt \in Nat
           /\ b \in Freed(p) /\ b \notin Listed(p) /\ b \notin held
           /\ \A u \in User : u # t /\ block[u] # Nobody => block[u][1] # p
           /\ \A e \in Desc : b \notin ToSet(freeList[e])
           /\ Freed(p) = {b}
           /\ \A e \in Desc : e # d => \A c \in ToSet(freeList[e]) : c[1] # p
<1> DEFINE d == desc[t]
           b == block[t]
           p == b[1]
<1>1. /\ d \in Desc /\ d # Nobody /\ b \in Block /\ b # Nobody /\ p \in Page
      /\ freeing[t] = {} /\ Small(p) /\ arena[p].desc = d
  BY HeapShape DEF HeapInv, HeapTypeOK, HeapStages, HeapLocks
<1>2. arena[p].freeCnt \in Nat /\ ~Big(p)
  BY <1>1, HeapShape DEF Small, Big, Arena
<1>3. b \in Freed(p)
  BY <1>1 DEF Freed
<1>4. b \notin Listed(p) /\ b \notin held
  <2>1. Listed(p) \cap Given(p) = {} /\ HeldOn(p) \cap Freed(p) = {}
    BY <1>1 DEF HeapInv, HeapArenas
  <2> QED
    BY <1>3, <2>1 DEF Given, HeldOn
<1>5. ASSUME NEW u \in User, u # t, block[u] # Nobody PROVE block[u][1] # p
  <2>1. block[u][1] = p => desc[u] = d
    BY <1>1, <1>5 DEF HeapInv, HeapLocks
  <2>2. desc[u] = d => u = descLock[d] /\ t = descLock[d]
    BY <1>1 DEF HeapInv, HeapLocks
  <2> QED
    BY <1>5, <2>1, <2>2
<1>6. \A e \in Desc : b \notin ToSet(freeList[e])
  BY <1>4 DEF Listed
<1>7. Freed(p) = {b}
  BY <1>3, <1>5 DEF Freed
<1>8. \A e \in Desc : e # d => \A c \in ToSet(freeList[e]) : c[1] # p
  BY <1>1 DEF HeapInv, HeapLists
<1> QED
  BY <1>1, <1>2, <1>3, <1>4, <1>5, <1>6, <1>7, <1>8

LEMMA PushBackStep ==
    ASSUME HeapAssumption, HeapInv, NEW t \in User, PushBlock(t),
           ~(arena[block[t][1]].freeCnt + 1 >= BlocksPerArena[desc[t]])
    PROVE  HeapInv'
<1>0. PICK d, b, p, list, n :
          /\ d = desc[t] /\ b = block[t] /\ p = b[1] /\ n = arena[p].freeCnt + 1
          /\ list = <<b>> \o freeList[d]
  OBVIOUS
<1>a. /\ heapPc[t] = "push" /\ Unlock(t) /\ Stage(t, "idle")
      /\ freeList' = [freeList EXCEPT ![d] = list]
      /\ arena' = [arena EXCEPT ![p].freeCnt = n]
      /\ block' = [block EXCEPT ![t] = Nobody]
      /\ UNCHANGED <<usedMap, held, freeing>>
  BY <1>0 DEF PushBlock
<1>1. /\ d \in Desc /\ d # Nobody /\ b \in Block /\ b # Nobody /\ p \in Page
      /\ freeing[t] = {}
      /\ Small(p) /\ arena[p].desc = d /\ arena[p].freeCnt \in Nat
      /\ b \notin Listed(p) /\ b \notin held /\ Freed(p) = {b}
      /\ \A u \in User : u # t /\ block[u] # Nobody => block[u][1] # p
      /\ \A e \in Desc : b \notin ToSet(freeList[e])
  BY <1>0, <1>a, PushFacts
<1>2. /\ list \in Seq(Block) /\ ToSet(list) = ToSet(freeList[d]) \cup {b}
      /\ IsInjective(list)
  <2>1. freeList[d] \in Seq(Block) /\ IsInjective(freeList[d])
    BY <1>1 DEF HeapInv, HeapTypeOK, HeapLists
  <2> QED
    BY <1>0, <1>1, <2>1, PushFrontFacts
<1>3. /\ freeList' \in [Desc -> Seq(Block)] /\ freeList'[d] = list
      /\ \A e \in Desc : e # d => freeList'[e] = freeList[e]
  BY <1>1, <1>2, <1>a DEF HeapInv, HeapTypeOK
<1>4. n \in Nat
  BY <1>0, <1>1
<1>5. /\ arena' \in [Page -> Arena \cup {Nobody}] /\ arena'[p].freeCnt = n
      /\ \A q \in Page : /\ arena'[q] = Nobody <=> arena[q] = Nobody
                         /\ arena'[q].desc = arena[q].desc
                         /\ q # p => arena'[q] = arena[q]
                         /\ Small(q)' = Small(q) /\ Big(q)' = Big(q)
                         /\ Behind(q)' = Behind(q)
  BY <1>1, <1>4, <1>a, SameKinds
<1>6. /\ descLock' \in [Desc -> User \cup {Nobody}]
      /\ desc' \in [User -> Desc \cup {Nobody}]
      /\ desc'[t] = Nobody /\ \A u \in User : u # t => desc'[u] = desc[u]
      /\ \A u \in User : desc'[u] # Nobody => descLock'[desc'[u]] = u
  BY <1>0, <1>1, <1>a, UnlockFacts
<1>7. /\ block' \in [User -> Block \cup {Nobody}] /\ block'[t] = Nobody
      /\ \A u \in User : u # t => block'[u] = block[u]
  BY <1>a DEF HeapInv, HeapTypeOK
<1>8. HeapTypeOK'
  BY <1>3, <1>5, <1>6, <1>7, <1>a DEF HeapInv, HeapTypeOK, Arena, Stage
<1>9. HeapStages'
  <2>1. ASSUME NEW u \in User, u # t, heapPc[u] = "pop"
        PROVE  desc[u] # d /\ desc[u] \in Desc
    BY <1>0, <1>1, <2>1 DEF HeapInv, HeapTypeOK, HeapStages, HeapLocks
  <2> QED
    BY <1>0, <1>1, <1>3, <1>6, <1>7, <1>a, <2>1 DEF HeapInv, HeapTypeOK, HeapStages, Stage
<1>10. HeapLocks'
  <2>1. \A u \in User : block[u] # Nobody => block[u][1] \in Page
    BY HeapShape
  <2> QED
    BY <1>5, <1>6, <1>7, <2>1 DEF HeapInv, HeapLocks
<1>11. HeapLists'
  <2> SUFFICES ASSUME NEW e \in Desc
               PROVE  /\ IsInjective(freeList'[e])
                      /\ \A c \in ToSet(freeList'[e]) :
                            Small(c[1])' /\ arena'[c[1]].desc = e
    BY DEF HeapLists
  <2>1. \A c \in ToSet(freeList[e]) : c[1] \in Page
    BY HeapShape DEF HeapInv, HeapTypeOK, ToSet
  <2>2. CASE e = d
    <3>1. \A c \in ToSet(list) : c \in ToSet(freeList[d]) \/ c = b
      BY <1>2
    <3>2. /\ Small(p)' /\ arena'[p].desc = d
          /\ \A c \in ToSet(freeList[d]) : Small(c[1])' /\ arena'[c[1]].desc = d
      BY <1>1, <1>5, <2>1, <2>2 DEF HeapInv, HeapLists
    <3> QED
      BY <1>0, <1>2, <1>3, <2>2, <3>1, <3>2
  <2>3. CASE e # d
    BY <1>3, <1>5, <2>1, <2>3 DEF HeapInv, HeapLists
  <2> QED
    BY <2>2, <2>3
<1>12. /\ \A q \in Page : q # p => Listed(q)' = Listed(q)
       /\ Listed(p)' = Listed(p) \cup {b}
  <2>1. \A e \in Desc : ToSet(freeList'[e]) =
                           IF e = d THEN ToSet(freeList[e]) \cup {b} ELSE ToSet(freeList[e])
    BY <1>2, <1>3
  <2>2. \A e \in Desc : \A c \in ToSet(freeList'[e]) : c = b \/ c \in ToSet(freeList[e])
    BY <2>1
  <2>3. \A e \in Desc : ToSet(freeList[e]) \subseteq ToSet(freeList'[e])
    BY <2>1
  <2>4. b \in ToSet(freeList'[d]) /\ d \in Desc /\ b[1] = p
    BY <1>0, <1>1, <2>1
  <2>5. ASSUME NEW q \in Page, NEW c \in Listed(q)' PROVE c \in Listed(q) \/ (q = p /\ c = b)
    BY <2>2, <2>4, <2>5 DEF Listed
  <2>6. ASSUME NEW q \in Page, NEW c \in Listed(q) PROVE c \in Listed(q)'
    BY <2>3, <2>6 DEF Listed
  <2>7. b \in Listed(p)'
    BY <2>4 DEF Listed
  <2>8. p \in Page
    BY <1>1
  <2> QED
    BY <2>5, <2>6, <2>7, <2>8
<1>13. /\ \A q \in Page : q # p => Freed(q)' = Freed(q)
       /\ Freed(p)' = {}
       /\ \A q \in Page : HeldOn(q)' = HeldOn(q)
  <2>1. Freed(p)' = {}
    BY <1>1, <1>7, <1>a DEF Freed
  <2>2. ASSUME NEW q \in Page, q # p PROVE Freed(q)' = Freed(q)
    <3>1. block[t] # Nobody /\ block[t][1] # q
      BY <1>0, <1>1, <2>2
    <3> QED
      BY <1>7, <3>1 DEF Freed
  <2> QED
    BY <1>a, <2>1, <2>2 DEF HeldOn
<1>14. HeapArenas'
  <2> SUFFICES ASSUME NEW q \in Page, Small(q)'
               PROVE  /\ arena'[q].freeCnt = Cardinality(Listed(q)')
                      /\ Listed(q)' \cup Given(q)' = ToSet(BlocksOf(q, arena'[q].desc))
                      /\ Listed(q)' \cap Given(q)' = {} /\ HeldOn(q)' \cap Freed(q)' = {}
    BY DEF HeapArenas, BlocksOf
  <2>1. Given(q)' = HeldOn(q)' \cup Freed(q)'
    BY DEF Given
  <2>2. /\ arena[q].freeCnt = Cardinality(Listed(q))
        /\ Listed(q) \cup Given(q) = ToSet(BlocksOf(q, arena[q].desc))
        /\ Listed(q) \cap Given(q) = {} /\ HeldOn(q) \cap Freed(q) = {}
    BY <1>5 DEF HeapInv, HeapArenas
  <2>3. CASE q = p
    <3>1. /\ Listed(p)' = Listed(p) \cup {b} /\ Given(p)' = HeldOn(p)
          /\ HeldOn(p)' = HeldOn(p) /\ Freed(p)' = {} /\ Given(p) = HeldOn(p) \cup {b}
      BY <1>1, <1>12, <1>13, <2>1, <2>3 DEF Given
    <3>2. arena'[p].freeCnt = Cardinality(Listed(p)')
      <4>1. IsFiniteSet(Listed(p))
        BY <1>1, HeapShape
      <4>2. Cardinality(Listed(p) \cup {b}) = Cardinality(Listed(p)) + 1
        BY <1>1, <4>1, FS_AddElement
      <4> QED
        BY <1>0, <1>5, <2>2, <2>3, <3>1, <4>2
    <3>3. b \notin HeldOn(p)
      BY <1>0, <1>1 DEF HeldOn
    <3> QED
      BY <1>1, <1>5, <2>2, <2>3, <3>1, <3>2, <3>3
  <2>4. CASE q # p
    <3>1. Listed(q)' = Listed(q) /\ Given(q)' = Given(q) /\ HeldOn(q)' = HeldOn(q)
      BY <1>12, <1>13, <2>1, <2>4 DEF Given
    <3> QED
      BY <1>5, <1>13, <2>2, <2>4, <3>1
  <2> QED
    BY <2>3, <2>4
<1>15. HeapBig'
  <2>1. \A q \in Page : Big(q)' => q # p
    BY <1>1, <1>5 DEF Small, Big
  <2>2. \A c \in held : c[1] \in Page
    BY HeapShape DEF HeapInv, HeapTypeOK
  <2> QED
    BY <1>5, <1>a, <2>1, <2>2 DEF HeapInv, HeapBig
<1>16. HeapPages'
  <2>1. \A u \in User : freeing[u] \subseteq Page
    BY DEF HeapInv, HeapTypeOK
  <2> QED
    BY <1>5, <1>a, <2>1 DEF HeapInv, HeapPages
<1> QED
  BY <1>8, <1>9, <1>10, <1>11, <1>14, <1>15, <1>16 DEF HeapInv

(* The arena has no block in use: it disappears with all its blocks.       *)
LEMMA TakeApartStep ==
    ASSUME HeapAssumption, HeapInv, NEW t \in User, PushBlock(t),
           arena[block[t][1]].freeCnt + 1 >= BlocksPerArena[desc[t]]
    PROVE  HeapInv'
<1>0. PICK d, b, p, list, kept :
          /\ d = desc[t] /\ b = block[t] /\ p = b[1]
          /\ list = <<b>> \o freeList[d]
          /\ kept = {i \in DOMAIN list : list[i][1] # p}
  OBVIOUS
<1>1. /\ heapPc[t] = "push" /\ Stage(t, "free")
      /\ \E at \in Bijection(1 .. Cardinality(kept), kept) :
            freeList' = [freeList EXCEPT ![d] = [i \in DOMAIN at |-> list[at[i]]]]
      /\ arena' = [arena EXCEPT ![p] = Nobody]
      /\ freeing' = [freeing EXCEPT ![t] = {p}]
      /\ block' = [block EXCEPT ![t] = Nobody]
      /\ UNCHANGED <<usedMap, held, descLock, desc>>
  <2> DEFINE l == <<block[t]>> \o freeList[desc[t]]
             k == {i \in DOMAIN l : l[i][1] # block[t][1]}
  <2>1. /\ \E at \in Bijection(1 .. Cardinality(k), k) :
              freeList' = [freeList EXCEPT ![desc[t]] = [i \in DOMAIN at |-> l[at[i]]]]
        /\ arena' = [arena EXCEPT ![block[t][1]] = Nobody]
        /\ freeing' = [freeing EXCEPT ![t] = {block[t][1]}]
        /\ Stage(t, "free") /\ UNCHANGED <<descLock, desc>>
    BY Zenon DEF PushBlock
  <2>2. /\ heapPc[t] = "push" /\ block' = [block EXCEPT ![t] = Nobody]
        /\ UNCHANGED <<usedMap, held>>
    BY DEF PushBlock
  <2>3. l = list /\ k = kept
    BY <1>0
  <2> HIDE DEF l, k
  <2>4. PICK at \in Bijection(1 .. Cardinality(k), k) :
            freeList' = [freeList EXCEPT ![desc[t]] = [i \in DOMAIN at |-> l[at[i]]]]
    BY <2>1
  <2>5. at \in Bijection(1 .. Cardinality(kept), kept)
    BY <2>3
  <2>6. freeList' = [freeList EXCEPT ![d] = [i \in DOMAIN at |-> list[at[i]]]]
    BY <1>0, <2>3, <2>4
  <2>7. \E f \in Bijection(1 .. Cardinality(kept), kept) :
            freeList' = [freeList EXCEPT ![d] = [i \in DOMAIN f |-> list[f[i]]]]
    BY <2>5, <2>6
  <2> QED
    BY <1>0, <2>1, <2>2, <2>7
<1>2. /\ d \in Desc /\ d # Nobody /\ b \in Block /\ b # Nobody /\ p \in Page
      /\ freeing[t] = {} /\ Small(p) /\ ~Big(p) /\ arena[p].desc = d
      /\ arena[p].freeCnt \in Nat
      /\ b \notin Listed(p) /\ b \notin held /\ Freed(p) = {b}
      /\ \A u \in User : u # t /\ block[u] # Nobody => block[u][1] # p
      /\ \A e \in Desc : b \notin ToSet(freeList[e])
      /\ \A e \in Desc : e # d => \A c \in ToSet(freeList[e]) : c[1] # p
  BY <1>0, <1>1, PushFacts
<1>3. PICK rest : /\ freeList' = [freeList EXCEPT ![d] = rest]
                  /\ rest \in Seq(Block) /\ IsInjective(rest)
                  /\ ToSet(rest) = {c \in ToSet(freeList[d]) : c[1] # p}
  <2>1. /\ list \in Seq(Block) /\ ToSet(list) = ToSet(freeList[d]) \cup {b}
        /\ IsInjective(list)
    <3>1. freeList[d] \in Seq(Block) /\ IsInjective(freeList[d])
      BY <1>2 DEF HeapInv, HeapTypeOK, HeapLists
    <3> QED
      BY <1>0, <1>2, <3>1, PushFrontFacts
  <2>2. PICK at \in Bijection(1 .. Cardinality(kept), kept) :
            freeList' = [freeList EXCEPT ![d] = [i \in DOMAIN at |-> list[at[i]]]]
    BY <1>1
  <2>3. PICK r : r = [i \in DOMAIN at |-> list[at[i]]]
    OBVIOUS
  <2>4. kept \in SUBSET DOMAIN list
    BY <1>0
  <2>5. /\ [i \in DOMAIN at |-> list[at[i]]] \in Seq(Block)
        /\ ToSet([i \in DOMAIN at |-> list[at[i]]]) = {list[i] : i \in kept}
    BY <2>1, <2>4, KeptFacts
  <2>6. IsInjective([i \in DOMAIN at |-> list[at[i]]])
    BY <2>1, <2>4, KeptOnce
  <2>7. ToSet(r) = {c \in ToSet(list) : c[1] # p}
    <3>1. ToSet(list) = {list[i] : i \in DOMAIN list}
      BY DEF ToSet
    <3>2. \A c : c \in {list[i] : i \in kept} <=>
                 c \in {list[i] : i \in DOMAIN list} /\ c[1] # p
      BY <1>0
    <3> QED
      BY <2>3, <2>5, <3>1, <3>2
  <2>8. {c \in ToSet(list) : c[1] # p} = {c \in ToSet(freeList[d]) : c[1] # p}
    BY <1>0, <2>1
  <2>9. freeList' = [freeList EXCEPT ![d] = r]
    BY <2>2, <2>3
  <2> QED
    BY <2>3, <2>5, <2>6, <2>7, <2>8, <2>9
<1>4. /\ freeList' \in [Desc -> Seq(Block)] /\ freeList'[d] = rest
      /\ \A e \in Desc : e # d => freeList'[e] = freeList[e]
  BY <1>2, <1>3 DEF HeapInv, HeapTypeOK
<1>5. HeldOn(p) = {}
  <2>1. /\ arena[p].freeCnt = Cardinality(Listed(p))
        /\ Listed(p) \cup Given(p) = ToSet(BlocksOf(p, d))
        /\ HeldOn(p) \cap Freed(p) = {} /\ Listed(p) \cap Given(p) = {}
    BY <1>2 DEF HeapInv, HeapArenas
  <2>2. \A e \in Desc : /\ IsFiniteSet(ToSet(BlocksOf(p, e)))
                        /\ Cardinality(ToSet(BlocksOf(p, e))) = BlocksPerArena[e]
    BY <1>2, BlocksOfFacts
  <2>3. IsFiniteSet(Listed(p))
    BY <1>2, HeapShape
  <2> DEFINE L == Listed(p) \cup {b}
             B == ToSet(BlocksOf(p, d))
  <2>4. IsFiniteSet(L) /\ Cardinality(L) = Cardinality(Listed(p)) + 1
    BY <1>2, <2>3, FS_AddElement
  <2>5. Cardinality(L) >= Cardinality(B)
    BY <1>0, <1>2, <2>1, <2>2, <2>4
  <2>6. L \in SUBSET B
    BY <1>2, <2>1 DEF Given
  <2>7. IsFiniteSet(B) /\ Cardinality(L) <= Cardinality(B)
    BY <1>2, <2>2, <2>6, FS_Subset
  <2>8. Cardinality(L) \in Nat /\ Cardinality(B) \in Nat
    BY <2>4, <2>7, FS_CardinalityType
  <2> HIDE DEF L, B
  <2>9. Cardinality(B) = Cardinality(L)
    BY <2>5, <2>7, <2>8
  <2>10. L = B
    BY <2>6, <2>7, <2>9, FS_Subset
  <2> QED
    BY <1>2, <2>1, <2>10 DEF Given, L, B
<1>6. /\ arena' \in [Page -> Arena \cup {Nobody}] /\ arena'[p] = Nobody
      /\ \A q \in Page : q # p => arena'[q] = arena[q]
  BY <1>1, <1>2 DEF HeapInv, HeapTypeOK
<1>7. /\ ~Small(p)'
      /\ \A q \in Page : /\ q # p => Small(q)' = Small(q)
                         /\ Big(q)' = Big(q)
  BY <1>2, <1>6 DEF Small, Big
<1>8. \A q \in Page : Behind(q)' = Behind(q)
  BY <1>7 DEF Behind
<1>9. /\ freeing' \in [User -> SUBSET Page] /\ freeing'[t] = {p}
      /\ \A u \in User : u # t => freeing'[u] = freeing[u]
      /\ block' \in [User -> Block \cup {Nobody}] /\ block'[t] = Nobody
      /\ \A u \in User : u # t => block'[u] = block[u]
  BY <1>1, <1>2 DEF HeapInv, HeapTypeOK
<1>10. HeapTypeOK'
  BY <1>1, <1>4, <1>6, <1>9 DEF HeapInv, HeapTypeOK, Arena, Stage
<1>11. HeapStages'
  <2>1. ASSUME NEW u \in User, u # t, heapPc[u] = "pop"
        PROVE  desc[u] # d /\ desc[u] \in Desc
    BY <1>0, <1>2, <2>1 DEF HeapInv, HeapTypeOK, HeapStages, HeapLocks
  <2> QED
    BY <1>0, <1>1, <1>2, <1>4, <1>9, <2>1 DEF HeapInv, HeapTypeOK, HeapStages,
       Stage
<1>12. HeapLocks'
  <2>1. \A u \in User : block'[u] # Nobody =>
            block[u] # Nobody /\ block'[u] = block[u] /\ block[u][1] # p /\ block[u][1] \in Page
    BY <1>2, <1>9, HeapShape
  <2> QED
    BY <1>1, <1>6, <1>7, <2>1 DEF HeapInv, HeapLocks
<1>13. HeapLists'
  <2> SUFFICES ASSUME NEW e \in Desc
               PROVE  /\ IsInjective(freeList'[e])
                      /\ \A c \in ToSet(freeList'[e]) :
                            Small(c[1])' /\ arena'[c[1]].desc = e
    BY DEF HeapLists
  <2>1. \A c \in ToSet(freeList[e]) : c[1] \in Page
    BY HeapShape DEF HeapInv, HeapTypeOK, ToSet
  <2>2. /\ IsInjective(freeList'[e])
        /\ \A c \in ToSet(freeList'[e]) : c \in ToSet(freeList[e]) /\ c[1] # p
    BY <1>2, <1>3, <1>4 DEF HeapInv, HeapLists
  <2> QED
    BY <1>6, <1>7, <2>1, <2>2 DEF HeapInv, HeapLists
<1>14. HeapArenas'
  <2> SUFFICES ASSUME NEW q \in Page, Small(q)'
               PROVE  /\ arena'[q].freeCnt = Cardinality(Listed(q)')
                      /\ Listed(q)' \cup Given(q)' = ToSet(BlocksOf(q, arena'[q].desc))
                      /\ Listed(q)' \cap Given(q)' = {} /\ HeldOn(q)' \cap Freed(q)' = {}
    BY DEF HeapArenas, BlocksOf
  <2>1. q # p /\ Small(q) /\ arena'[q] = arena[q]
    BY <1>6, <1>7
  <2>2. Listed(q)' = Listed(q)
    <3>1. \A e \in Desc : ToSet(freeList'[e]) \subseteq ToSet(freeList[e])
      BY <1>3, <1>4
    <3>2. \A e \in Desc : \A c \in ToSet(freeList[e]) : c[1] = q => c \in ToSet(freeList'[e])
      BY <1>3, <1>4, <2>1
    <3>3. ASSUME NEW c \in Listed(q)' PROVE c \in Listed(q)
      BY <3>1, <3>3 DEF Listed
    <3>4. ASSUME NEW c \in Listed(q) PROVE c \in Listed(q)'
      BY <3>2, <3>4 DEF Listed
    <3> QED
      BY <3>3, <3>4
  <2>3. HeldOn(q)' = HeldOn(q) /\ Freed(q)' = Freed(q)
    <3>1. block[t] # Nobody /\ block[t][1] # q
      BY <1>0, <1>2, <2>1
    <3> QED
      BY <1>1, <1>9, <3>1 DEF HeldOn, Freed
  <2>4. Given(q)' = Given(q)
    BY <2>3 DEF Given
  <2> QED
    BY <2>1, <2>2, <2>3, <2>4 DEF HeapInv, HeapArenas
<1>15. HeapBig'
  <2>1. \A c \in held : c[1] \in Page /\ c[1] # p
    BY <1>5, HeapShape DEF HeapInv, HeapTypeOK, HeldOn
  <2>2. \A q \in Page : Big(q) => q # p
    BY <1>2
  <2> QED
    BY <1>1, <1>6, <1>7, <2>1, <2>2 DEF HeapInv, HeapBig
<1>16. ~Behind(p) /\ arena[p] # Nobody /\ \A u \in User : p \notin freeing[u]
  <2>1. \A q \in Page : Big(q) => arena[q + 1] = Nobody
    BY DEF HeapInv, HeapBig
  <2>2. (p - 1) + 1 = p
    BY <1>2, HeapShape
  <2> QED
    BY <1>2, <2>1, <2>2 DEF Behind, Small, HeapInv, HeapPages
<1>17. HeapPages'
  <2>1. ASSUME NEW q \in Page
        PROVE  q \in usedMap' <=>
                  arena'[q] # Nobody \/ Behind(q)' \/ \E u \in User : q \in freeing'[u]
    BY <1>1, <1>2, <1>6, <1>8, <1>9, <1>16 DEF HeapInv, HeapPages
  <2>2. ASSUME NEW u \in User, NEW q \in freeing'[u]
        PROVE  /\ arena'[q] = Nobody /\ ~Behind(q)'
               /\ \A w \in User : q \in freeing'[w] => w = u
    <3>1. CASE u = t
      BY <1>2, <1>6, <1>8, <1>9, <1>16, <2>2, <3>1
    <3>2. CASE u # t
      <4>1. q \in freeing[u] /\ q \in Page /\ q # p
        BY <1>9, <1>16, <2>2, <3>2 DEF HeapInv, HeapTypeOK
      <4> QED
        BY <1>6, <1>8, <1>9, <4>1 DEF HeapInv, HeapPages
    <3> QED
      BY <3>1, <3>2
  <2> QED
    BY <2>1, <2>2 DEF HeapPages
<1> QED
  BY <1>10, <1>11, <1>12, <1>13, <1>14, <1>15, <1>17 DEF HeapInv

LEMMA FreePageStep ==
    ASSUME HeapAssumption, HeapInv, NEW t \in User, FreePage(t)
    PROVE  HeapInv'
<1>1. PICK p \in freeing[t] : /\ usedMap' = usedMap \ {p}
                              /\ freeing' = [freeing EXCEPT ![t] = @ \ {p}]
  BY DEF FreePage
<1>2. heapPc[t] = "free" /\ UNCHANGED <<arena, freeList, held, block>> /\ block[t] = Nobody
  BY DEF FreePage, HeapInv, HeapStages
<1>3. p \in Page /\ arena[p] = Nobody /\ ~Behind(p)
  BY DEF HeapInv, HeapTypeOK, HeapPages
<1>4. /\ freeing' \in [User -> SUBSET Page] /\ freeing'[t] = freeing[t] \ {p}
      /\ \A u \in User : u # t => freeing'[u] = freeing[u]
  BY <1>1 DEF HeapInv, HeapTypeOK
<1>5. HeapPages'
  <2>1. \A u \in User : p \notin freeing'[u]
    BY <1>1, <1>4 DEF HeapInv, HeapPages
  <2>2. \A q \in Page : Behind(q)' = Behind(q)
    BY <1>2 DEF Behind, Big
  <2>3. \A u \in User : freeing'[u] \subseteq freeing[u] /\ freeing[u] \subseteq freeing'[u] \cup {p}
    BY <1>4
  <2>4. \A u \in User : freeing[u] \subseteq Page
    BY DEF HeapInv, HeapTypeOK
  <2>5. ASSUME NEW q \in Page
        PROVE  q \in usedMap' <=>
                  arena'[q] # Nobody \/ Behind(q)' \/ \E u \in User : q \in freeing'[u]
    <3>1. CASE q = p
      BY <1>1, <1>2, <1>3, <2>1, <2>2, <3>1
    <3>2. CASE q # p
      <4>1. \A u \in User : q \in freeing'[u] <=> q \in freeing[u]
        BY <2>3, <3>2
      <4> QED
        BY <1>1, <1>2, <2>2, <3>2, <4>1 DEF HeapInv, HeapPages
    <3> QED
      BY <3>1, <3>2
  <2>6. ASSUME NEW u \in User, NEW q \in freeing'[u]
        PROVE  /\ arena'[q] = Nobody /\ ~Behind(q)'
               /\ \A w \in User : q \in freeing'[w] => w = u
    BY <1>2, <2>2, <2>3, <2>4, <2>6 DEF HeapInv, HeapPages
  <2> QED
    BY <2>5, <2>6 DEF HeapPages
<1>6. freeing'[t] = {} <=> ~(Cardinality(freeing[t]) > 1)
  <2>1. freeing[t] \in SUBSET Page
    BY DEF HeapInv, HeapTypeOK
  <2>2. IsFiniteSet(Page)
    BY FS_Interval DEF Page, HeapAssumption
  <2>3. IsFiniteSet(freeing[t])
    BY <2>1, <2>2, FS_Subset
  <2>4. /\ Cardinality(freeing[t] \ {p}) = Cardinality(freeing[t]) - 1
        /\ Cardinality(freeing[t]) \in Nat
        /\ Cardinality(freeing[t] \ {p}) = 0 <=> freeing[t] \ {p} = {}
    BY <2>3, FS_RemoveElement, FS_CardinalityType, FS_EmptySet
  <2>5. Cardinality(freeing[t] \ {p}) \in Nat
    BY <2>3, FS_RemoveElement, FS_CardinalityType
  <2> QED
    BY <1>4, <2>4, <2>5
<1>7. CASE Cardinality(freeing[t]) > 1
  <2>1. UNCHANGED <<descLock, desc, heapPc>>
    BY <1>7 DEF FreePage
  <2>2. HeapTypeOK'
    BY <1>1, <1>2, <1>4, <2>1 DEF HeapInv, HeapTypeOK
  <2>3. HeapStages' /\ HeapLocks'
    BY <1>2, <1>4, <1>6, <1>7, <2>1 DEF HeapInv, HeapStages, HeapLocks, Small
  <2> QED
    BY <1>2, <1>5, <2>2, <2>3, KeepsRecords DEF HeapInv
<1>8. CASE ~(Cardinality(freeing[t]) > 1)
  <2>1. /\ heapPc' = [heapPc EXCEPT ![t] = "idle"]
        /\ IF desc[t] = Nobody THEN UNCHANGED <<descLock, desc>> ELSE Unlock(t)
    BY <1>8 DEF FreePage, Stage
  <2>2. /\ descLock' \in [Desc -> User \cup {Nobody}]
        /\ desc' \in [User -> Desc \cup {Nobody}]
        /\ desc'[t] = Nobody /\ \A u \in User : u # t => desc'[u] = desc[u]
        /\ \A u \in User : desc'[u] # Nobody => descLock'[desc'[u]] = u
    <3>1. CASE desc[t] = Nobody
      BY <2>1, <3>1 DEF HeapInv, HeapTypeOK, HeapLocks
    <3>2. CASE desc[t] # Nobody
      BY <2>1, <3>2, UnlockFacts
    <3> QED
      BY <3>1, <3>2
  <2>3. HeapTypeOK'
    BY <1>1, <1>2, <1>4, <2>1, <2>2 DEF HeapInv, HeapTypeOK
  <2>4. HeapStages'
    BY <1>2, <1>4, <1>6, <1>8, <2>1, <2>2 DEF HeapInv, HeapTypeOK, HeapStages
  <2>5. HeapLocks'
    BY <1>2, <2>2 DEF HeapInv, HeapLocks, Small
  <2> QED
    BY <1>2, <1>5, <2>3, <2>4, <2>5, KeepsRecords DEF HeapInv
<1> QED
  BY <1>7, <1>8

LEMMA PushBlockStep ==
    ASSUME HeapAssumption, HeapInv, NEW t \in User, PushBlock(t)
    PROVE  HeapInv'
<1>1. CASE arena[block[t][1]].freeCnt + 1 >= BlocksPerArena[desc[t]]
  BY <1>1, TakeApartStep
<1>2. CASE ~(arena[block[t][1]].freeCnt + 1 >= BlocksPerArena[desc[t]])
  BY <1>2, PushBackStep
<1> QED
  BY <1>1, <1>2

(* Every step of the allocator keeps the invariant.                        *)
LEMMA HeapInvStep == HeapAssumption /\ HeapInv /\ [HeapNext]_heapVars => HeapInv'
<1> SUFFICES ASSUME HeapAssumption, HeapInv, [HeapNext]_heapVars
             PROVE  HeapInv'
  OBVIOUS
<1>1. CASE UNCHANGED heapVars
  <2>1. UNCHANGED <<usedMap, arena, freeList, descLock, held, heapPc, desc, block, freeing>>
    BY <1>1 DEF heapVars
  <2>2. HeapTypeOK' /\ HeapStages' /\ HeapLocks' /\ HeapPages'
    BY <2>1 DEF HeapInv, HeapTypeOK, HeapStages, HeapLocks, HeapPages, Small,
       Big, Behind
  <2> QED
    BY <2>1, <2>2, KeepsRecords DEF HeapInv
<1>2. ASSUME NEW t \in User, MallocBig(t) PROVE HeapInv'
  BY <1>2, MallocBigStep
<1>3. ASSUME NEW t \in User, NEW d \in Desc, Malloc(t, d) PROVE HeapInv'
  BY <1>3, MallocStep
<1>4. ASSUME NEW t \in User, NEW b \in held, Free(t, b) PROVE HeapInv'
  BY <1>4, FreeStep
<1>5. ASSUME NEW t \in User, Grow(t) PROVE HeapInv'
  BY <1>5, GrowStep
<1>6. ASSUME NEW t \in User, PopBlock(t) PROVE HeapInv'
  BY <1>6, PopBlockStep
<1>7. ASSUME NEW t \in User, PushBlock(t) PROVE HeapInv'
  BY <1>7, PushBlockStep
<1>8. ASSUME NEW t \in User, FreePage(t) PROVE HeapInv'
  BY <1>8, FreePageStep
<1> QED
  BY <1>1, <1>2, <1>3, <1>4, <1>5, <1>6, <1>7, <1>8 DEF HeapNext, HeapStep

LEMMA SmallBlocks ==
    ASSUME HeapAssumption
    PROVE  \A p \in Page, d \in Desc : \A b \in ToSet(BlocksOf(p, d)) : b[2] # 0
<1> SUFFICES ASSUME NEW p \in Page, NEW d \in Desc,
                    NEW b \in ToSet(BlocksOf(p, d))
             PROVE  b[2] # 0
  OBVIOUS
<1>1. \A c \in ToSet(BlocksOf(p, d)) : c[1] = p /\ c[2] # 0
  BY BlocksOfFacts
<1> QED
  BY <1>1

(* A block that is in use or listed: what its page is.                     *)
LEMMA PagesInUse ==
    ASSUME HeapAssumption, HeapInv,
           NEW b, b \in held \/ (\E t \in User : block[t] # Nobody /\ b = block[t])
                    \/ \E d \in Desc : b \in ToSet(freeList[d])
    PROVE  /\ b \in Block /\ b[1] \in Page /\ arena[b[1]] # Nobody
           /\ b[2] = 0 => Big(b[1]) /\ PagesOf(b) = {b[1], b[1] + 1}
           /\ b[2] # 0 => Small(b[1]) /\ PagesOf(b) = {b[1]}
<1>1. b \in Block
  BY DEF HeapInv, HeapTypeOK, ToSet
<1>2. b[1] \in Page /\ b[1] \in Int
  BY <1>1, HeapShape
<1>3. b[2] = 0 => PagesOf(b) = {b[1], b[1] + 1}
  BY <1>2 DEF PagesOf, Run, BigPages
<1>4. b[2] # 0 => PagesOf(b) = {b[1]}
  BY DEF PagesOf
<1>5. CASE b \in held
  BY <1>1, <1>2, <1>3, <1>4, <1>5 DEF HeapInv, HeapBig, Small, Big
<1>6. CASE (\E t \in User : block[t] # Nobody /\ b = block[t])
               \/ \E d \in Desc : b \in ToSet(freeList[d])
  <2>1. Small(b[1]) /\ arena[b[1]].desc \in Desc
    BY <1>2, <1>6, HeapShape DEF HeapInv, HeapLocks, HeapLists
  <2>2. b \in Listed(b[1]) \cup Given(b[1])
    BY <1>6 DEF Listed, Given, Freed
  <2>3. b \in ToSet(BlocksOf(b[1], arena[b[1]].desc))
    BY <1>2, <2>1, <2>2 DEF HeapInv, HeapArenas
  <2>4. b[2] # 0
    BY <1>2, <2>1, <2>3, SmallBlocks
  <2>5. arena[b[1]] # Nobody
    BY <2>1 DEF Small
  <2> QED
    BY <1>1, <1>2, <1>4, <2>1, <2>4, <2>5
<1> QED
  BY <1>5, <1>6

LEMMA InvDisjoint ==
    ASSUME HeapAssumption, HeapInv
    PROVE  BlocksAreDisjoint
<1> DEFINE listed == UNION {ToSet(freeList[d]) : d \in Desc}
           mine == held \cup {block[t] : t \in {u \in User : block[u] # Nobody}}
           leaving == UNION {freeing[t] : t \in User}
           inUse == UNION {PagesOf(b) : b \in mine \cup listed}
<1>1. \A b : b \in mine <=> b \in held \/ \E t \in User : block[t] # Nobody /\ b = block[t]
  OBVIOUS
<1>2. \A b : b \in listed <=> \E d \in Desc : b \in ToSet(freeList[d])
  OBVIOUS
<1>3. \A p : p \in leaving <=> \E t \in User : p \in freeing[t]
  OBVIOUS
<1>4. \A p : p \in inUse <=> \E b \in mine \cup listed : p \in PagesOf(b)
  OBVIOUS
<1> HIDE DEF listed, mine, leaving, inUse
<1>5. \A b \in mine \cup listed :
         /\ b \in Block /\ b[1] \in Page /\ arena[b[1]] # Nobody
         /\ b[2] = 0 => Big(b[1]) /\ PagesOf(b) = {b[1], b[1] + 1}
         /\ b[2] # 0 => Small(b[1]) /\ PagesOf(b) = {b[1]}
  BY <1>1, <1>2, PagesInUse
<1>6. listed \cap mine = {}
  <2> SUFFICES ASSUME NEW b \in listed, b \in mine PROVE FALSE
    OBVIOUS
  <2>1. Small(b[1]) /\ b[1] \in Page
    BY <1>2, <1>5 DEF HeapInv, HeapLists
  <2>2. b \in Listed(b[1]) /\ b \in Given(b[1])
    BY <1>1, <1>2 DEF Listed, Given, HeldOn, Freed
  <2> QED
    BY <2>1, <2>2 DEF HeapInv, HeapArenas
<1>7. \A p \in Page : Big(p) => p + 1 \in Page /\ arena[p + 1] = Nobody /\ Behind(p + 1)
  <2>1. \A p \in Page : (p + 1) - 1 = p
    BY HeapShape
  <2> QED
    BY <2>1 DEF HeapInv, HeapBig, Behind
<1>8. ASSUME NEW b \in mine, NEW c \in mine
      PROVE  \/ b = c \/ PagesOf(b) \cap PagesOf(c) = {}
             \/ (b[1] = c[1] /\ b[2] > 0 /\ c[2] > 0)
  <2>1. /\ b \in Block /\ c \in Block
        /\ b[2] \in Nat /\ c[2] \in Nat /\ b[1] \in Page /\ c[1] \in Page
        /\ b[1] \in Int /\ c[1] \in Int
    BY <1>5, HeapShape DEF Block
  <2>2. b[1] = c[1] => (b[2] = 0 <=> c[2] = 0) /\ (b[2] = 0 /\ c[2] = 0 => b = c)
    <3>1. b[1] = c[1] => (b[2] = 0 <=> c[2] = 0)
      BY <1>5 DEF Small, Big
    <3>2. b = <<b[1], b[2]>> /\ c = <<c[1], c[2]>>
      BY <2>1 DEF Block
    <3> QED
      BY <3>1, <3>2
  <2>3. b[1] # c[1] => PagesOf(b) \cap PagesOf(c) = {}
    <3> SUFFICES ASSUME b[1] # c[1] PROVE PagesOf(b) \cap PagesOf(c) = {}
      OBVIOUS
    <3>1. b[2] = 0 => b[1] + 1 # c[1]
      BY <1>5, <1>7
    <3>2. c[2] = 0 => c[1] + 1 # b[1]
      BY <1>5, <1>7
    <3>3. PagesOf(b) = IF b[2] = 0 THEN {b[1], b[1] + 1} ELSE {b[1]}
      BY <1>5
    <3>4. PagesOf(c) = IF c[2] = 0 THEN {c[1], c[1] + 1} ELSE {c[1]}
      BY <1>5
    <3> QED
      BY <2>1, <3>1, <3>2, <3>3, <3>4
  <2> QED
    BY <2>1, <2>2, <2>3
<1>9. \A p : p \in inUse <=> p \in Page /\ (arena[p] # Nobody \/ Behind(p))
  <2>1. ASSUME NEW p \in inUse PROVE p \in Page /\ (arena[p] # Nobody \/ Behind(p))
    <3>1. PICK b \in mine \cup listed : p \in PagesOf(b)
      BY <1>4
    <3> QED
      BY <1>5, <1>7, <3>1
  <2>2. ASSUME NEW p \in Page, Behind(p) PROVE p \in inUse
    <3>1. <<p - 1, 0>> \in mine
      BY <1>1, <2>2 DEF Behind, HeapInv, HeapBig
    <3>2. p \in PagesOf(<<p - 1, 0>>)
      BY <1>5, <3>1, HeapShape
    <3> QED
      BY <1>4, <3>1, <3>2
  <2>3. ASSUME NEW p \in Page, Big(p) PROVE p \in inUse
    <3>1. <<p, 0>> \in mine
      BY <1>1, <2>3 DEF HeapInv, HeapBig
    <3>2. p \in PagesOf(<<p, 0>>)
      BY <1>5, <3>1
    <3> QED
      BY <1>4, <3>1, <3>2
  <2>4. ASSUME NEW p \in Page, Small(p) PROVE p \in inUse
    <3>1. arena[p].desc \in Desc
      BY <2>4, HeapShape
    <3>2. <<p, 1>> \in Listed(p) \cup Given(p)
      BY <2>4, <3>1, BlocksOfFacts DEF HeapInv, HeapArenas
    <3>3. <<p, 1>> \in mine \cup listed
      BY <1>1, <1>2, <3>2 DEF Listed, Given, HeldOn, Freed
    <3>4. p \in PagesOf(<<p, 1>>)
      BY <1>5, <3>3
    <3> QED
      BY <1>4, <3>3, <3>4
  <2> QED
    BY <2>1, <2>2, <2>3, <2>4 DEF Small, Big
<1>10. inUse \cap leaving = {}
  BY <1>3, <1>9 DEF HeapInv, HeapPages
<1>11. usedMap = inUse \cup leaving
  <2>1. usedMap \subseteq Page /\ leaving \subseteq Page
    BY <1>3 DEF HeapInv, HeapTypeOK
  <2> QED
    BY <1>3, <1>9, <2>1 DEF HeapInv, HeapPages
<1>12. \A d \in Desc : IsInjective(freeList[d])
  BY DEF HeapInv, HeapLists
<1> QED
  BY <1>6, <1>8, <1>10, <1>11, <1>12, Zenon DEF BlocksAreDisjoint, listed, mine, leaving, inUse

LEMMA InvCounted ==
    ASSUME HeapAssumption, HeapInv
    PROVE  FreeBlocksAreCounted
<1> SUFFICES ASSUME NEW p \in Page, Small(p)
             PROVE  /\ arena[p].freeCnt = Cardinality(Listed(p))
                    /\ Listed(p) \subseteq ToSet(freeList[arena[p].desc])
                    /\ Listed(p) \cup Freed(p) \cup {b \in held : b[1] = p}
                          = ToSet(BlocksOf(p, arena[p].desc))
  BY DEF FreeBlocksAreCounted, Small
<1>1. \A b \in Listed(p) : b \in ToSet(freeList[arena[p].desc])
  BY DEF Listed, HeapInv, HeapLists
<1> QED
  BY <1>1 DEF HeapInv, HeapArenas, Given, HeldOn

(* In every state the records of the allocator agree with each other and   *)
(* with the blocks in use.                                                 *)
THEOREM HeapConsistent == HeapSpec => []HeapIsConsistent
<1>1. HeapInit => HeapInv
  BY HeapInitInv, HeapAssumption
<1>2. HeapInv /\ [HeapNext]_heapVars => HeapInv'
  BY HeapInvStep, HeapAssumption
<1>3. HeapInv => HeapIsConsistent
  BY InvDisjoint, InvCounted, HeapAssumption DEF HeapIsConsistent, HeapInv, HeapTypeOK
<1> QED
  BY <1>1, <1>2, <1>3, PTL DEF HeapSpec
==============================================================================
