------------------------------ MODULE DiskChannel ------------------------------
(***************************************************************************)
(* One ATA channel with its two disks, devices/disk.c: disk_read and       *)
(* disk_write under the channel's lock, and the interrupt handler, which   *)
(* wakes the thread that waits in sema_down.  The disks answer in time and *)
(* without errors; the polls of wait_until_idle and wait_while_busy are    *)
(* guards.  pc:                                                            *)
(*    "idle"     not in the driver                                         *)
(*    "select"   holding the lock, in select_sector                        *)
(*    "issue"    issue_pio_command, expecting_interrupt set                *)
(*    "down"     about to call sema_down, or in it                         *)
(*    "busy"     in wait_while_busy                                        *)
(*    "release"  about to release the lock                                 *)
(***************************************************************************)
EXTENDS Integers

CONSTANTS
    Caller,          \* the threads that read and write
    Disk,            \* the disks of the channel
    DiskSector, DiskData,
    NoOne,
    MaxUps           \* bound on the value of completion_wait

ASSUME DiskAssumption ==
    /\ MaxUps \in Nat \ {0} /\ NoOne \notin Caller /\ NoOne \notin DiskData
    /\ Disk # {} /\ DiskSector # {} /\ DiskData # {}

VARIABLES
    chanLock,        \* the holder of the channel's lock, or NoOne
    expecting,       \* expecting_interrupt
    completion,      \* completion_wait
    chanPc,
    request,         \* request[t]: what t has called disk_read or disk_write with
    read,            \* read[t]: what the call has read, or NoOne
    selected,        \* the selected disk and sector
    command,         \* what the selected disk has been told: "read", "write", "none"
    busy, drq,       \* BSY and DRQ of the selected disk
    dataReg,         \* the sector in its buffer
    irq,             \* its interrupt is raised
    platter,
    noise            \* the channel has spurious interrupts

threadState == <<chanLock, chanPc, request, read>>
device == <<selected, command, busy, drq, dataReg, platter>>
diskVars == <<threadState, expecting, completion, device, irq, noise>>

At(t, stage) == chanPc[t] = stage /\ chanLock = t
GoTo(t, stage) == chanPc' = [chanPc EXCEPT ![t] = stage]

-----------------------------------------------------------------------------
Request == [disk : Disk, sector : DiskSector, data : DiskData \cup {NoOne}]
Reading(t) == request[t].data = NoOne

(* disk_read, when r has no data, or disk_write.                           *)
DiskCall(t, r) ==
    /\ chanPc[t] = "idle" /\ chanLock = NoOne
    /\ chanLock' = t
    /\ request' = [request EXCEPT ![t] = r]
    /\ read' = [read EXCEPT ![t] = NoOne]
    /\ GoTo(t, "select")
    /\ UNCHANGED <<expecting, completion, device, irq, noise>>

(* select_sector, once wait_until_idle has found the disk idle; reading    *)
(* the status register there takes back a raised interrupt.                *)
SelectSector(t) ==
    /\ At(t, "select") /\ ~busy /\ ~drq
    /\ selected' = <<request[t].disk, request[t].sector>>
    /\ irq' = FALSE
    /\ expecting' = TRUE
    /\ GoTo(t, "issue")
    /\ UNCHANGED <<completion, command, busy, drq, dataReg, platter, chanLock, request, read, noise>>

(* The outb of issue_pio_command.                                          *)
IssueCommand(t) ==
    /\ At(t, "issue")
    /\ command' = IF Reading(t) THEN "read" ELSE "write"
    /\ busy' = TRUE
    /\ GoTo(t, IF Reading(t) THEN "down" ELSE "busy")
    /\ UNCHANGED <<chanLock, request, read, expecting, completion, selected, drq, dataReg,
                   platter, irq, noise>>

(* Mutant: a thread goes on to wait_while_busy without sema_down.          *)
SemaDownNot(t) ==
    /\ At(t, "down")
    /\ GoTo(t, IF Reading(t) THEN "busy" ELSE "release")
    /\ UNCHANGED <<chanLock, request, read, expecting, completion, device, irq, noise>>

SemaDown(t) ==
    /\ At(t, "down") /\ completion > 0
    /\ completion' = completion - 1
    /\ GoTo(t, IF Reading(t) THEN "busy" ELSE "release")
    /\ UNCHANGED <<chanLock, request, read, expecting, device, irq, noise>>

(* Mutant: disk_read trusts the interrupt and does not wait_while_busy.    *)
InputSectorEarly(t) ==
    /\ At(t, "busy") /\ Reading(t)
    /\ read' = [read EXCEPT ![t] = dataReg]
    /\ drq' = FALSE
    /\ command' = "none" /\ dataReg' = NoOne
    /\ GoTo(t, "release")
    /\ UNCHANGED <<chanLock, request, expecting, completion, selected, busy, platter,
                   irq, noise>>

(* Mutant: disk_read begins again when it has read the sector.             *)
InputSectorAgain(t) ==
    /\ At(t, "busy") /\ Reading(t) /\ ~busy /\ drq
    /\ read' = [read EXCEPT ![t] = dataReg]
    /\ drq' = FALSE
    /\ command' = "none" /\ dataReg' = NoOne
    /\ GoTo(t, "issue")
    /\ UNCHANGED <<chanLock, request, expecting, completion, selected, busy, platter,
                   irq, noise>>

(* wait_while_busy has found DRQ; input_sector.                            *)
InputSector(t) ==
    /\ At(t, "busy") /\ Reading(t) /\ ~busy /\ drq
    /\ read' = [read EXCEPT ![t] = dataReg]
    /\ drq' = FALSE
    /\ command' = "none" /\ dataReg' = NoOne
    /\ GoTo(t, "release")
    /\ UNCHANGED <<chanLock, request, expecting, completion, selected, busy, platter,
                   irq, noise>>

(* Mutant: disk_write does not wait for the disk to have written.          *)
OutputUnacknowledged(t) ==
    /\ At(t, "busy") /\ ~Reading(t) /\ ~busy /\ drq
    /\ dataReg' = request[t].data
    /\ drq' = FALSE /\ busy' = TRUE
    /\ GoTo(t, "release")
    /\ UNCHANGED <<chanLock, request, read, expecting, completion, selected, command,
                   platter, irq, noise>>

(* The same, and output_sector.                                            *)
OutputSector(t) ==
    /\ At(t, "busy") /\ ~Reading(t) /\ ~busy /\ drq
    /\ dataReg' = request[t].data
    /\ drq' = FALSE /\ busy' = TRUE
    /\ GoTo(t, "down")
    /\ UNCHANGED <<chanLock, request, read, expecting, completion, selected, command,
                   platter, irq, noise>>

ChannelRelease(t) ==
    /\ At(t, "release")
    /\ chanLock' = NoOne
    /\ GoTo(t, "idle")
    /\ UNCHANGED <<request, read, expecting, completion, device, irq, noise>>

-----------------------------------------------------------------------------
(* interrupt_handler.  Whether the semaphore is up'd is all that           *)
(* expecting_interrupt decides; nothing makes it false again.              *)
Handler ==
    /\ IF expecting THEN completion' = completion + 1 ELSE UNCHANGED completion
    /\ irq' = FALSE
    /\ UNCHANGED <<threadState, expecting, device, noise>>

DiskInterrupt == irq /\ Handler

SpuriousInterrupt == noise /\ ~irq /\ completion < MaxUps /\ Handler

(* The selected disk: a sector has been read, or can be taken to write, or *)
(* has been written.                                                       *)
SectorRead ==
    /\ busy /\ command = "read"
    /\ busy' = FALSE /\ drq' = TRUE /\ irq' = TRUE
    /\ dataReg' = platter[selected]
    /\ UNCHANGED <<threadState, expecting, completion, selected, command, platter, noise>>

ReadyToWrite ==
    /\ busy /\ command = "write" /\ dataReg = NoOne
    /\ busy' = FALSE /\ drq' = TRUE
    /\ UNCHANGED <<threadState, expecting, completion, selected, command, dataReg, platter, irq,
                   noise>>

SectorWritten ==
    /\ busy /\ command = "write" /\ dataReg # NoOne
    /\ platter' = [platter EXCEPT ![selected] = dataReg]
    /\ busy' = FALSE /\ irq' = TRUE
    /\ command' = "none" /\ dataReg' = NoOne
    /\ UNCHANGED <<threadState, expecting, completion, selected, drq, noise>>

-----------------------------------------------------------------------------
(* The channel in disk_init, when it has been reset.  identify_ata_device  *)
(* then goes through the steps of a disk_read.                             *)
DiskInit ==
    /\ chanLock = NoOne
    /\ expecting = FALSE /\ completion = 0
    /\ chanPc = [t \in Caller |-> "idle"]
    /\ request \in [Caller -> {CHOOSE r \in Request : TRUE}]
    /\ read = [t \in Caller |-> NoOne]
    /\ selected = CHOOSE s \in Disk \X DiskSector : TRUE
    /\ command = "none" /\ busy = FALSE /\ drq = FALSE /\ irq = FALSE
    /\ dataReg = NoOne
    /\ platter = [s \in Disk \X DiskSector |-> CHOOSE d \in DiskData : TRUE]
    /\ noise \in BOOLEAN

CallerStep(t) ==
    \/ SelectSector(t) \/ IssueCommand(t) \/ SemaDown(t)
    \/ InputSector(t) \/ OutputSector(t) \/ ChannelRelease(t)
DeviceStep == SectorRead \/ ReadyToWrite \/ SectorWritten

DiskNext ==
    \/ \E t \in Caller : CallerStep(t) \/ \E r \in Request : DiskCall(t, r)
    \/ DiskInterrupt \/ SpuriousInterrupt \/ DeviceStep

(* The lock's holder goes on, and so does the disk.                        *)
DiskSpec ==
    /\ DiskInit /\ [][DiskNext]_diskVars
    /\ \A t \in Caller : WF_diskVars(CallerStep(t))
    /\ WF_diskVars(DiskInterrupt) /\ WF_diskVars(DeviceStep)

-----------------------------------------------------------------------------
(* Types of the variables.                                                 *)
DiskTypeOK ==
    /\ chanLock \in Caller \cup {NoOne}
    /\ expecting \in BOOLEAN /\ completion \in Nat
    /\ chanPc \in [Caller -> {"idle", "select", "issue", "down", "busy", "release"}]
    /\ \A t \in Caller : chanPc[t] # "idle" <=> chanLock = t
    /\ request \in [Caller -> Request]
    /\ read \in [Caller -> DiskData \cup {NoOne}]
    /\ selected \in Disk \X DiskSector /\ platter \in [Disk \X DiskSector -> DiskData]
    /\ command \in {"read", "write", "none"} /\ dataReg \in DiskData \cup {NoOne}
    /\ busy \in BOOLEAN /\ drq \in BOOLEAN /\ irq \in BOOLEAN /\ noise \in BOOLEAN

OnPlatter(t) == platter[<<request[t].disk, request[t].sector>>]

(* disk_read returns the sector that it was asked for, and does not panic, *)
(* also when spurious interrupts have let it go on too early.              *)
ReadsTheSector ==
    \A t \in Caller :
        /\ At(t, "release") /\ Reading(t) => read[t] = OnPlatter(t)
        /\ At(t, "busy") => busy \/ drq

(* disk_write "returns after the disk has acknowledged receiving the data",*)
(* as long as there is no spurious interrupt.                              *)
WriteIsAcknowledged ==
    \A t \in Caller :
        At(t, "release") /\ ~Reading(t) /\ ~noise => OnPlatter(t) = request[t].data

(* Every sema_down has one interrupt, and every interrupt one sema_down:   *)
(* none is left over for the next command.                                 *)
One(b) == IF b THEN 1 ELSE 0
InterruptPerCommand ==
    ~noise => completion + One(irq) + One(busy /\ (command = "read" \/ dataReg # NoOne))
              = One(\E t \in Caller : At(t, "down"))

(* What disk_read and disk_write promise when they return.                 *)
CommandsAreServed == ReadsTheSector /\ WriteIsAcknowledged /\ InterruptPerCommand

(* disk_read and disk_write return: the interrupt that ends the wait is    *)
(* neither missed nor taken back.                                          *)
DiskAnswers == \A t \in Caller : (chanPc[t] # "idle") ~> (chanPc[t] = "idle")
=============================================================================
