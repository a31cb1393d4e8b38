------------------------------- MODULE MCDevices -------------------------------
(* The serial port, a disk channel and the heap, which have nothing to do  *)
(* with each other.  A behaviour is one of the part that it begins with;   *)
(* the others stay as they are.                                            *)
EXTENDS Serial, DiskChannel, Heap

VARIABLE part

DevicesInit ==
    /\ part \in {"serial", "disk", "heap"}
    /\ SerialInit /\ DiskInit /\ HeapInit
    /\ noise => part = "disk"

DevicesNext ==
    \/ part = "serial" /\ SerialNext /\ UNCHANGED <<part, diskVars, heapVars>>
    \/ part = "disk" /\ DiskNext /\ UNCHANGED <<part, serialVars, heapVars>>
    \/ part = "heap" /\ HeapNext /\ UNCHANGED <<part, serialVars, diskVars>>

DevicesSpec ==
    /\ DevicesInit /\ [][DevicesNext]_<<part, serialVars, diskVars, heapVars>>
    /\ WF_serialVars(part = "serial" /\ Transmitted /\ UNCHANGED <<part, diskVars, heapVars>>)
    /\ WF_serialVars(part = "serial" /\ SerialInterrupt /\ UNCHANGED <<part, diskVars, heapVars>>)
    /\ WF_serialVars(part = "serial" /\ PutcResume /\ UNCHANGED <<part, diskVars, heapVars>>)
    /\ WF_serialVars(part = "serial" /\ ResumeReader /\ UNCHANGED <<part, diskVars, heapVars>>)
    /\ \A t \in Caller :
          WF_diskVars(part = "disk" /\ CallerStep(t) /\ UNCHANGED <<part, serialVars, heapVars>>)
    /\ WF_diskVars(part = "disk" /\ DiskInterrupt /\ UNCHANGED <<part, serialVars, heapVars>>)
    /\ WF_diskVars(part = "disk" /\ DeviceStep /\ UNCHANGED <<part, serialVars, heapVars>>)

(* One descriptor has two blocks in an arena, the other one.               *)
MCBlocksPerArena == [d \in Desc |-> d]
=============================================================================
