---------------------------- MODULE VirtualMemory -----------------------------
(***************************************************************************)
(* Demand paging: vm/frame.c, page.c, swap.c, with their callers           *)
(* load_segment and setup_stack in userprog/process.c, page_fault in       *)
(* userprog/exception.c and thread_exit, and with the user pool of         *)
(* threads/palloc.c and the page directories of userprog/pagedir.c.        *)
(* lock_ft is a lock as Synch shows it to be.  pc:                         *)
(*    "load"     load, at its next page, about to take lock_ft             *)
(*    "frame"    holding lock_ft, about to get a frame for upage           *)
(*    "evict"    in victim, page unmapped, about to call swap_out          *)
(*    "write"    in swap_out, about to write the frame to the swap disk    *)
(*    "got"      holding lock_ft and a frame                               *)
(*    "read"     load_segment, reading the file, without lock_ft           *)
(*    "install"  load_segment, about to take lock_ft again                 *)
(*    "user"     in user code, or in the kernel using the user's memory    *)
(*    "exit"     thread_exit, about to take lock_ft                        *)
(*    "freeing"  frame_table_free, in its loop                             *)
(*    "destroy"  process_exit, in pagedir_destroy                          *)
(*    "dead"     no process in this page                                   *)
(***************************************************************************)
EXTENDS KernelList, FiniteSets

CONSTANTS
    Proc,            \* pages for processes
    Segment,         \* the virtual pages that load_segment fills
    ReadOnly,        \* those of them that are not writable
    Stack,           \* the page of setup_stack
    Growth,          \* the pages below it that the stack may grow into
    UserPages,       \* the number of pages in the user pool
    MAXDD,           \* the number of slots of d_use
    Value,           \* contents of a page
    Zero, Freed,     \* a zeroed page, a page that palloc_free_page has filled
    None,
    Resident         \* a page table entry whose swap is false

Page == Segment \cup {Stack} \cup Growth
Frame == 0 .. UserPages - 1
Slot == 0 .. MAXDD - 1

ASSUME VMAssumption ==
    /\ UserPages \in Nat /\ MAXDD \in Nat
    /\ ReadOnly \subseteq Segment /\ Stack \notin Segment \cup Growth
    /\ Segment \cap Growth = {}
    /\ Zero \in Value /\ Freed \notin Value
    /\ None \notin Frame \cup Slot \cup Value \cup Page \cup {Freed, Resident}
    /\ None \notin Proc /\ None \notin Proc \X Page /\ None \notin Page \X Value
    /\ Proc \cap (Proc \X Page) = {} /\ "pool" \notin Proc \cup (Proc \X Page)
    /\ Resident \notin Slot

VARIABLES
    userPool,        \* the free frames
    data,            \* what is in a frame
    frameList,       \* frame_list: pairs of a process and a page
    pagetable,       \* pagetable[p][pg]: Resident, the slot it is in, or None
    pagedir,         \* pagedir[p][pg]: the frame it is mapped to, or None
    writable,        \* writable[p][pg]: PTE_W of the mapping, FALSE without one
    dUse,            \* d_use: the slots in use
    swapDisk,
    lockFt,          \* the holder of lock_ft, or None
    pc,
    upage,           \* the page a process is getting a frame for
    kpage,           \* the frame it has got
    evicted,         \* what victim has unmapped and is not on the disk yet
    panic,           \* the assertion that stopped the kernel, or "no"
    storing          \* the page and the value of the store that the user's
                     \* code is executing, or None

tables == <<frameList, pagetable, pagedir, writable>>
swap == <<dUse, swapDisk>>
vars == <<userPool, data, tables, swap, lockFt, pc, upage, kpage, evicted, panic, storing>>

NoPages == [pg \in Page |-> None]
Goto(p, stage) == pc' = [pc EXCEPT ![p] = stage]

-----------------------------------------------------------------------------
(* start_process.                                                          *)
StartProcess(p) ==
    /\ pc[p] = "dead"
    /\ Goto(p, "load")
    /\ UNCHANGED <<userPool, data, tables, swap, lockFt, upage, kpage, evicted, panic>>

(* The calls of lock_acquire (&lock_ft) that are followed by one of        *)
(* palloc_get_page.                                                        *)
NeedsFrame(p, pg) ==
    /\ lockFt = None
    /\ lockFt' = p
    /\ upage' = [upage EXCEPT ![p] = pg]
    /\ Goto(p, "frame")
    /\ UNCHANGED <<userPool, data, tables, swap, kpage, evicted, panic>>

(* load fills the segments and comes to setup_stack last.                  *)
LoadNext(p) ==
    /\ pc[p] = "load"
    /\ \/ \E pg \in Segment : pagetable[p][pg] = None /\ NeedsFrame(p, pg)
       \/ /\ \A pg \in Segment : pagetable[p][pg] # None
          /\ NeedsFrame(p, Stack)

(* load_segment does not ask for a zeroed page, the others do.             *)
PallocGetPage(p) ==
    /\ pc[p] = "frame"
    /\ \E f \in userPool :
          /\ \A g \in userPool : f <= g
          /\ userPool' = userPool \ {f}
          /\ kpage' = [kpage EXCEPT ![p] = f]
          /\ data' = IF upage[p] \in Segment /\ pagetable[p][upage[p]] = None
                     THEN data ELSE [data EXCEPT ![f] = Zero]
    /\ Goto(p, "got")
    /\ UNCHANGED <<tables, swap, lockFt, upage, evicted, panic>>

(* Mutant: the page is written to the disk while it is still mapped.       *)
VictimMapped(p) ==
    /\ pc[p] = "frame" /\ userPool = {} /\ frameList # <<>>
    /\ LET q == Head(frameList)[1]
           pg == Head(frameList)[2]
       IN  /\ pagetable[q][pg] # None /\ pagedir[q][pg] # None
           /\ kpage' = [kpage EXCEPT ![p] = pagedir[q][pg]]
           /\ evicted' = Head(frameList)
           /\ frameList' = Tail(frameList)
    /\ Goto(p, "evict")
    /\ UNCHANGED <<userPool, data, pagetable, pagedir, writable, swap, lockFt, upage, panic>>

(* victim takes the first frame of the list from its page.                 *)
Victim(p) ==
    /\ pc[p] = "frame" /\ userPool = {} /\ frameList # <<>>
    /\ LET q == Head(frameList)[1]
           pg == Head(frameList)[2]
       IN  /\ pagetable[q][pg] # None /\ pagedir[q][pg] # None
           /\ kpage' = [kpage EXCEPT ![p] = pagedir[q][pg]]
           /\ pagedir' = [pagedir EXCEPT ![q][pg] = None]
           /\ writable' = [writable EXCEPT ![q][pg] = FALSE]
           /\ evicted' = Head(frameList)
           /\ frameList' = Tail(frameList)
    /\ Goto(p, "evict")
    /\ UNCHANGED <<userPool, data, pagetable, swap, lockFt, upage, panic>>

(* Assertions: list_pop_front on an empty list; p and kpage in victim.     *)
VictimFails(p) ==
    /\ pc[p] = "frame" /\ userPool = {}
    /\ \/ frameList = <<>> /\ panic' = "no frame"
       \/ /\ frameList # <<>>
          /\ LET e == Head(frameList)
             IN  pagetable[e[1]][e[2]] = None \/ pagedir[e[1]][e[2]] = None
          /\ panic' = "unmapped"
    /\ UNCHANGED <<userPool, data, tables, swap, lockFt, pc, upage, kpage, evicted>>

(* swap_out; find_empty fails an assertion when all slots are in use.      *)
SwapOut(p) ==
    /\ pc[p] = "evict"
    /\ \/ \E s \in Slot \ dUse :
             /\ 0 .. s - 1 \subseteq dUse
             /\ dUse' = dUse \cup {s}
             /\ pagetable' = [pagetable EXCEPT ![evicted[1]][evicted[2]] = s]
             /\ Goto(p, "write")
             /\ UNCHANGED panic
       \/ dUse = Slot /\ panic' = "no slot" /\ UNCHANGED <<dUse, pagetable, pc>>
    /\ UNCHANGED <<userPool, data, frameList, pagedir, writable, swapDisk, lockFt,
                   upage, kpage, evicted>>

(* Mutant: the frame is not written.                                       *)
SwapWriteNot(p) ==
    /\ pc[p] = "write"
    /\ evicted' = None
    /\ Goto(p, "got")
    /\ UNCHANGED <<userPool, data, tables, swap, lockFt, upage, kpage, panic>>

SwapWrite(p) ==
    /\ pc[p] = "write"
    /\ swapDisk' = [swapDisk EXCEPT ![pagetable[evicted[1]][evicted[2]]] = data[kpage[p]]]
    /\ evicted' = None
    /\ Goto(p, "got")
    /\ UNCHANGED <<userPool, data, tables, dUse, lockFt, upage, kpage, panic>>

-----------------------------------------------------------------------------
(* load_segment gives lock_ft back to read the file.                       *)
LoadUnlock(p) ==
    /\ pc[p] = "got"
    /\ upage[p] \in Segment /\ pagetable[p][upage[p]] = None
    /\ lockFt' = None
    /\ Goto(p, "read")
    /\ UNCHANGED <<userPool, data, tables, swap, upage, kpage, evicted, panic>>

(* palloc_free_page fills the page.                                        *)
PallocFreePage(f) ==
    /\ userPool' = userPool \cup {f}
    /\ data' = [data EXCEPT ![f] = Freed]

(* load fails, and start_process calls thread_exit.                        *)
LoadFails(p) ==
    /\ PallocFreePage(kpage[p])
    /\ kpage' = [kpage EXCEPT ![p] = None]
    /\ upage' = [upage EXCEPT ![p] = None]
    /\ Goto(p, "exit")
    /\ UNCHANGED tables

FileRead(p) ==
    /\ pc[p] = "read"
    /\ \/ /\ \E v \in Value : data' = [data EXCEPT ![kpage[p]] = v]
          /\ Goto(p, "install")
          /\ UNCHANGED <<userPool, tables, upage, kpage>>
       \/ LoadFails(p)
    /\ UNCHANGED <<swap, lockFt, evicted, panic>>

(* pagedir_set_page, make_frame_table, and page_set_entry or the reset of  *)
(* swap in swap_in.                                                        *)
MapPage(p, w) ==
    /\ pagedir' = [pagedir EXCEPT ![p][upage[p]] = kpage[p]]
    /\ writable' = [writable EXCEPT ![p][upage[p]] = w]
    /\ frameList' = Append(frameList, <<p, upage[p]>>)
    /\ pagetable' = [pagetable EXCEPT ![p][upage[p]] = Resident]
    /\ kpage' = [kpage EXCEPT ![p] = None]
    /\ upage' = [upage EXCEPT ![p] = None]

(* The rest of the round in load_segment; install_page fails when there is *)
(* no memory for a page table.                                             *)
InstallPage(p) ==
    /\ pc[p] = "install" /\ lockFt = None
    /\ \/ /\ MapPage(p, upage[p] \notin ReadOnly)
          /\ Goto(p, "load")
          /\ UNCHANGED <<userPool, data>>
       \/ LoadFails(p)
    /\ UNCHANGED <<swap, lockFt, evicted, panic>>

(* Mutant: setup_stack fails without giving lock_ft back.                  *)
MapStackPageLocked(p) ==
    /\ pc[p] = "got" /\ upage[p] \notin Segment /\ pagetable[p][upage[p]] = None
    /\ \/ /\ MapPage(p, TRUE)
          /\ Goto(p, "user")
          /\ lockFt' = None
          /\ UNCHANGED <<userPool, data>>
       \/ upage[p] = Stack /\ LoadFails(p) /\ UNCHANGED lockFt
    /\ UNCHANGED <<swap, evicted, panic>>

(* setup_stack, and the growth of the stack in check_fault.  A frame that  *)
(* comes from victim is not zeroed here.                                   *)
MapStackPage(p) ==
    /\ pc[p] = "got" /\ upage[p] \notin Segment /\ pagetable[p][upage[p]] = None
    /\ \/ /\ MapPage(p, TRUE)
          /\ Goto(p, "user")
          /\ UNCHANGED <<userPool, data>>
       \/ upage[p] = Stack /\ LoadFails(p)
    /\ lockFt' = None
    /\ UNCHANGED <<swap, evicted, panic>>

(* Mutant: another slot is read.                                           *)
SwapInOther(p) ==
    /\ pc[p] = "got" /\ pagetable[p][upage[p]] \in Slot
    /\ \E s \in dUse : data' = [data EXCEPT ![kpage[p]] = swapDisk[s]]
    /\ dUse' = dUse \ {pagetable[p][upage[p]]}
    /\ MapPage(p, TRUE)
    /\ lockFt' = None
    /\ Goto(p, "user")
    /\ UNCHANGED <<userPool, swapDisk, evicted, panic>>

(* swap_in, which maps every page writable.                                *)
SwapIn(p) ==
    /\ pc[p] = "got" /\ pagetable[p][upage[p]] \in Slot
    /\ data' = [data EXCEPT ![kpage[p]] = swapDisk[pagetable[p][upage[p]]]]
    /\ dUse' = dUse \ {pagetable[p][upage[p]]}
    /\ MapPage(p, TRUE)
    /\ lockFt' = None
    /\ Goto(p, "user")
    /\ UNCHANGED <<userPool, swapDisk, evicted, panic>>

-----------------------------------------------------------------------------
(* The process comes to an instruction that stores v in pg.  A page fault  *)
(* ends the instruction, which is begun again when the fault is served.    *)
StoreBegin(p) ==
    /\ pc[p] = "user" /\ storing[p] = None
    /\ \E pg \in Page, v \in Value : storing' = [storing EXCEPT ![p] = <<pg, v>>]
    /\ UNCHANGED <<userPool, data, tables, swap, lockFt, pc, upage, kpage, evicted, panic>>

(* The store is made where the page is mapped, if that is writable.        *)
UserWrite(p) ==
    /\ pc[p] = "user"
    /\ \E pg \in Page, v \in Value :
          /\ storing[p] = <<pg, v>>
          /\ pagedir[p][pg] # None /\ writable[p][pg]
          /\ data' = [data EXCEPT ![pagedir[p][pg]] = v]
    /\ storing' = [storing EXCEPT ![p] = None]
    /\ UNCHANGED <<userPool, tables, swap, lockFt, pc, upage, kpage, evicted, panic>>

(* check_fault on a page that is not present: it is swapped in, or the     *)
(* stack grows.  The instruction has not been executed.                    *)
PageFault(p) ==
    /\ pc[p] = "user"
    /\ \E pg \in Page :
          /\ pagedir[p][pg] = None
          /\ pg \in Growth \/ pagetable[p][pg] # None
          /\ NeedsFrame(p, pg)
    /\ storing' = [storing EXCEPT ![p] = None]

(* Any access that check_fault refuses, and every other way to thread_exit.*)
UserExit(p) ==
    /\ pc[p] = "user"
    /\ Goto(p, "exit")
    /\ storing' = [storing EXCEPT ![p] = None]
    /\ UNCHANGED <<userPool, data, tables, swap, lockFt, upage, kpage, evicted, panic>>

(* Mutant: thread_exit does without lock_ft.                               *)
ThreadExitUnlocked(p) ==
    /\ pc[p] = "exit"
    /\ Goto(p, "freeing")
    /\ UNCHANGED <<userPool, data, tables, swap, lockFt, upage, kpage, evicted, panic>>

(* thread_exit, when the process has a page directory.                     *)
ThreadExit(p) ==
    /\ pc[p] = "exit" /\ lockFt = None
    /\ lockFt' = p
    /\ Goto(p, "freeing")
    /\ UNCHANGED <<userPool, data, tables, swap, upage, kpage, evicted, panic>>

(* Mutant: the loop stops one entry before the end of the list.            *)
FrameTableFreeShort(p) ==
    /\ pc[p] = "freeing"
    /\ LET own == {i \in 1 .. Len(frameList) - 1 : frameList[i][1] = p}
       IN  \/ \E i \in own :
                 /\ \A j \in own : i <= j
                 /\ frameList' = RemoveAt(frameList, i)
                 /\ UNCHANGED <<pagetable, dUse, lockFt, pc>>
           \/ /\ own = {}
              /\ dUse' = dUse \ {pagetable[p][pg] : pg \in Page}
              /\ pagetable' = [pagetable EXCEPT ![p] = NoPages]
              /\ lockFt' = None
              /\ Goto(p, "destroy")
              /\ UNCHANGED frameList
    /\ UNCHANGED <<userPool, data, pagedir, writable, swapDisk, upage, kpage, evicted, panic>>

(* frame_table_free removes the entries of the process one after the other *)
(* and page_table_free follows.                                            *)
FrameTableFree(p) ==
    /\ pc[p] = "freeing"
    /\ LET own == {i \in DOMAIN frameList : frameList[i][1] = p}
       IN  \/ \E i \in own :
                 /\ \A j \in own : i <= j
                 /\ frameList' = RemoveAt(frameList, i)
                 /\ UNCHANGED <<pagetable, dUse, lockFt, pc>>
           \/ /\ own = {}
              /\ dUse' = dUse \ {pagetable[p][pg] : pg \in Page}
              /\ pagetable' = [pagetable EXCEPT ![p] = NoPages]
              /\ lockFt' = None
              /\ Goto(p, "destroy")
              /\ UNCHANGED frameList
    /\ UNCHANGED <<userPool, data, pagedir, writable, swapDisk, upage, kpage, evicted, panic>>

(* pagedir_destroy frees one page after the other.                         *)
PagedirDestroy(p) ==
    /\ pc[p] = "destroy"
    /\ \/ \E pg \in Page :
             /\ pagedir[p][pg] # None
             /\ PallocFreePage(pagedir[p][pg])
             /\ pagedir' = [pagedir EXCEPT ![p][pg] = None]
             /\ writable' = [writable EXCEPT ![p][pg] = FALSE]
             /\ UNCHANGED pc
       \/ /\ pagedir[p] = NoPages
          /\ Goto(p, "dead")
          /\ UNCHANGED <<userPool, data, pagedir, writable>>
    /\ UNCHANGED <<frameList, pagetable, swap, lockFt, upage, kpage, evicted, panic>>

-----------------------------------------------------------------------------
Init ==
    /\ userPool = Frame
    /\ data = [f \in Frame |-> Freed]
    /\ frameList = <<>>
    /\ pagetable = [p \in Proc |-> NoPages]
    /\ pagedir = [p \in Proc |-> NoPages]
    /\ writable = [p \in Proc |-> [pg \in Page |-> FALSE]]
    /\ dUse = {}
    /\ swapDisk = [s \in Slot |-> Zero]
    /\ lockFt = None
    /\ pc = [p \in Proc |-> "dead"]
    /\ upage = [p \in Proc |-> None]
    /\ kpage = [p \in Proc |-> None]
    /\ evicted = None
    /\ panic = "no"
    /\ storing = [p \in Proc |-> None]

(* The steps of the kernel leave storing as it is.                         *)
GetFrame(p) ==
    /\ PallocGetPage(p) \/ Victim(p) \/ VictimFails(p) \/ SwapOut(p) \/ SwapWrite(p)
    /\ UNCHANGED storing

Paging(p) ==
    /\ \/ LoadNext(p) \/ LoadUnlock(p) \/ FileRead(p) \/ InstallPage(p)
       \/ MapStackPage(p) \/ SwapIn(p)
       \/ ThreadExit(p) \/ FrameTableFree(p) \/ PagedirDestroy(p)
    /\ UNCHANGED storing

UserStep(p) ==
    \/ StartProcess(p) /\ UNCHANGED storing
    \/ StoreBegin(p) \/ UserWrite(p) \/ PageFault(p) \/ UserExit(p)

Next ==
    /\ panic = "no"
    /\ \E p \in Proc : GetFrame(p) \/ Paging(p) \/ UserStep(p)

Spec == Init /\ [][Next]_vars

(* What holds lock_ft does not wait for the user, and the disk answers.    *)
VMFairSpec ==
    Spec /\ \A p \in Proc : WF_vars(panic = "no" /\ (GetFrame(p) \/ Paging(p)))

-----------------------------------------------------------------------------
Stage == {"load", "frame", "evict", "write", "got", "read", "install", "user",
          "exit", "freeing", "destroy", "dead"}

(* Types of the variables.                                                 *)
VMTypeOK ==
    /\ userPool \subseteq Frame /\ data \in [Frame -> Value \cup {Freed}]
    /\ frameList \in Seq(Proc \X Page)
    /\ pagetable \in [Proc -> [Page -> Slot \cup {Resident, None}]]
    /\ pagedir \in [Proc -> [Page -> Frame \cup {None}]]
    /\ writable \in [Proc -> [Page -> BOOLEAN]]
    /\ dUse \subseteq Slot /\ swapDisk \in [Slot -> Value]
    /\ lockFt \in Proc \cup {None}
    /\ pc \in [Proc -> Stage]
    /\ upage \in [Proc -> Page \cup {None}]
    /\ kpage \in [Proc -> Frame \cup {None}]
    /\ evicted \in (Proc \X Page) \cup {None}
    /\ panic \in {"no", "no frame", "unmapped", "no slot"}
    /\ storing \in [Proc -> (Page \X Value) \cup {None}]

(* Every frame is in one place: free, mapped by one page, or in the hands  *)
(* of one process.  None leaks and none is shared, although load_segment,  *)
(* thread_exit and pagedir_destroy hold frames that are on no list while   *)
(* they are without lock_ft.                                               *)
Holders(f) ==
    {x \in Proc \X Page : pagedir[x[1]][x[2]] = f} \cup {p \in Proc : kpage[p] = f}
        \cup (IF f \in userPool THEN {"pool"} ELSE {})
FrameInOnePlace == \A f \in Frame : Cardinality(Holders(f)) = 1

(* The slots in use are those of page table entries, each of one, and a    *)
(* process that has ended has no entries: swap space is not lost when a    *)
(* process ends while its page is on its way out, and no two pages are     *)
(* written to the same place.                                              *)
Swapped == {x \in Proc \X Page : pagetable[x[1]][x[2]] \in Slot}
SlotsAreEntries ==
    /\ dUse = {pagetable[x[1]][x[2]] : x \in Swapped}
    /\ \A x, y \in Swapped : pagetable[x[1]][x[2]] = pagetable[y[1]][y[2]] => x = y
    /\ \A p \in Proc : pc[p] \in {"destroy", "dead"} => pagetable[p] = NoPages

(* The frame list has each mapped page of the processes that have not      *)
(* begun to give theirs back, once, and nothing else: what victim takes    *)
(* from it is mapped and has an entry, so that its assertions hold.        *)
FrameListIsMapped ==
    /\ panic # "unmapped"
    /\ NoDuplicates(frameList)
    /\ \A p \in Proc, pg \in Page :
          /\ <<p, pg>> \in ToSet(frameList) => pagedir[p][pg] # None /\ pc[p] # "destroy"
          /\ pagedir[p][pg] # None /\ pc[p] \notin {"freeing", "destroy"}
                => <<p, pg>> \in ToSet(frameList)

(* No frame and no slot is lost or shared, and the frame list says which   *)
(* frames may be taken.                                                    *)
MemoryIsAccounted == FrameInOnePlace /\ FrameListIsMapped /\ SlotsAreEntries

(* Wherever a page is, there is its content.                               *)
PageContent(p, pg) ==
    IF pagetable[p][pg] = None THEN None
    ELSE IF evicted = <<p, pg>> THEN data[kpage[lockFt]]
    ELSE IF pagetable[p][pg] = Resident THEN data[pagedir[p][pg]]
    ELSE swapDisk[pagetable[p][pg]]
contents == [p \in Proc |-> [pg \in Page |-> PageContent(p, pg)]]
living == [p \in Proc |-> pc[p] \notin {"destroy", "dead"}]

(* The paging is transparent: it implements memory of each process's own,  *)
(* in which a page changes by the store that its process is executing and  *)
(* by nothing else.  Eviction, swap_out and swap_in, the faults and exits  *)
(* of all processes and the reuse of frames and slots do not show, but for *)
(* the page that a process waits for and the end of those of an exit.      *)
Memory == INSTANCE PrivateMemory WITH
    alive <- living, wanted <- upage, memory <- contents
ImplementsPrivateMemory == Memory!Spec

(* lock_ft, which every process that faults, loads or ends waits for, is   *)
(* given back, unless an assertion stops the kernel.                       *)
LockFtGivenBack == \A p \in Proc : lockFt = p ~> lockFt # p \/ panic # "no"
=============================================================================
