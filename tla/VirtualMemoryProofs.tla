-------------------------- MODULE VirtualMemoryProofs --------------------------
(***************************************************************************)
(* Proofs about VirtualMemory: for any number of processes, pages, frames  *)
(* and slots every frame and every slot is accounted for, and the paging   *)
(* implements PrivateMemory.                                               *)
(***************************************************************************)
EXTENDS VirtualMemory, KernelListProofs, FiniteSetTheorems, TLAPS

-----------------------------------------------------------------------------
(* What the stage of a process says of its variables and of lock_ft.       *)
Holding == {"frame", "evict", "write", "got", "freeing"}
HasFrame == {"evict", "write", "got", "read", "install"}
StageSays(p) ==
    /\ lockFt = p <=> pc[p] \in Holding
    /\ kpage[p] # None <=> pc[p] \in HasFrame
    /\ upage[p] # None <=> pc[p] \in HasFrame \cup {"frame"}
    /\ pc[p] \in {"read", "install"} =>
          upage[p] \in Segment /\ pagetable[p][upage[p]] = None
StageOK == \A p \in Proc : StageSays(p)

(* The page that victim has unmapped is in the table of a process that has *)
(* not freed its table, until it is on the disk.                           *)
Evicting(p) == pc[p] \in {"evict", "write"}
EvictOK ==
    /\ evicted # None => \E p \in Proc : Evicting(p)
    /\ \A p \in Proc : Evicting(p) =>
          \E q \in Proc, pg \in Page :
              /\ evicted = <<q, pg>>
              /\ pc[q] # "destroy" /\ pagedir[q][pg] = None
              /\ pc[p] = "evict" => pagetable[q][pg] = Resident
              /\ pc[p] = "write" => pagetable[q][pg] \in Slot

(* A page is mapped exactly if its table entry says so, the page that is   *)
(* on its way out apart.                                                   *)
MapOK ==
    \A p \in Proc, pg \in Page :
        pc[p] # "destroy" =>
            (pagedir[p][pg] # None <=> pagetable[p][pg] = Resident /\ evicted # <<p, pg>>)

(* h is one of the holders of the frame f.                                 *)
Place(directory, hand, pool, f, h) ==
    \/ \E q \in Proc, x \in Page : h = <<q, x>> /\ directory[q][x] = f
    \/ h \in Proc /\ hand[h] = f
    \/ h = "pool" /\ f \in pool
OnePlace == \A f \in Frame : \E k : \A h : Place(pagedir, kpage, userPool, f, h) <=> h = k

(* What is mapped, or about to be, or on its way out, is not a page that   *)
(* palloc_free_page has filled.                                            *)
Filled(p) ==
    pc[p] \in {"evict", "write", "install"} \/ (pc[p] = "got" /\ upage[p] \notin Segment)
ContentOK ==
    /\ \A p \in Proc, pg \in Page : pagedir[p][pg] # None => data[pagedir[p][pg]] \in Value
    /\ \A p \in Proc : Filled(p) => data[kpage[p]] \in Value

(* The types, a group of variables at a time.                              *)
MemoryTypeOK ==
    /\ userPool \subseteq Frame /\ data \in [Frame -> Value \cup {Freed}]
    /\ dUse \subseteq Slot /\ swapDisk \in [Slot -> Value]
TableTypeOK ==
    /\ frameList \in Seq(Proc \X Page)
    /\ pagetable \in [Proc -> [Page -> Slot \cup {Resident, None}]]
    /\ pagedir \in [Proc -> [Page -> Frame \cup {None}]]
    /\ writable \in [Proc -> [Page -> BOOLEAN]]
ProcTypeOK ==
    /\ lockFt \in Proc \cup {None}
    /\ pc \in [Proc -> Stage]
    /\ upage \in [Proc -> Page \cup {None}]
    /\ kpage \in [Proc -> Frame \cup {None}]
StoreTypeOK == storing \in [Proc -> (Page \X Value) \cup {None}]
EvictTypeOK ==
    evicted \in (Proc \X Page) \cup {None} /\ panic \in {"no", "no frame", "unmapped", "no slot"}

(* A store is begun in user code, and every way out of it ends the store.  *)
StoreOK == \A p \in Proc : storing[p] # None => pc[p] = "user"

VMInv ==
    /\ VMTypeOK /\ StageOK /\ StoreOK /\ EvictOK /\ MapOK /\ OnePlace
    /\ SlotsAreEntries /\ FrameListIsMapped /\ ContentOK


-----------------------------------------------------------------------------
(* The steps of p that change more than storing, and what they leave alone.*)
StepOf(p) ==
    \/ GetFrame(p) \/ Paging(p) \/ (StartProcess(p) /\ UNCHANGED storing)
    \/ UserWrite(p) \/ PageFault(p) \/ UserExit(p)

LEMMA OthersStay ==
    ASSUME VMTypeOK, NEW p \in Proc, StepOf(p), NEW q \in Proc \ {p}
    PROVE  pc'[q] = pc[q] /\ upage'[q] = upage[q] /\ kpage'[q] = kpage[q]
<1> USE DEF VMTypeOK, Goto
<1>1. CASE StartProcess(p) \/ UserWrite(p) \/ UserExit(p) \/ ThreadExit(p) \/ LoadUnlock(p)
  BY <1>1 DEF StartProcess, UserWrite, UserExit, ThreadExit, LoadUnlock
<1>2. CASE LoadNext(p) \/ PageFault(p)
  BY <1>2 DEF LoadNext, PageFault, NeedsFrame
<1>3. CASE GetFrame(p)
  BY <1>3 DEF GetFrame, PallocGetPage, Victim, VictimFails, SwapOut, SwapWrite
<1>4. CASE FileRead(p) \/ InstallPage(p)
  BY <1>4 DEF FileRead, InstallPage, LoadFails, MapPage
<1>5. CASE MapStackPage(p) \/ SwapIn(p)
  BY <1>5 DEF MapStackPage, SwapIn, LoadFails, MapPage
<1>6. CASE FrameTableFree(p) \/ PagedirDestroy(p)
  BY <1>6 DEF FrameTableFree, PagedirDestroy
<1>7. QED
  BY <1>1, <1>2, <1>3, <1>4, <1>5, <1>6 DEF StepOf, GetFrame, Paging


LEMMA VMTypes ==
    ASSUME VMAssumption, VMTypeOK, NEW p \in Proc
    PROVE  /\ kpage[p] # None => kpage[p] \in Frame
           /\ upage[p] # None => upage[p] \in Page
           /\ evicted # None => evicted \in Proc \X Page
           /\ Stack \in Page /\ Segment \subseteq Page /\ Growth \subseteq Page
           /\ None \notin Proc /\ None \notin Frame /\ None \notin Page /\ None \notin Slot
           /\ None # Resident /\ Resident \notin Slot
BY DEF VMAssumption, VMTypeOK, Page

LEMMA TypeParts ==
    VMTypeOK <=> MemoryTypeOK /\ TableTypeOK /\ ProcTypeOK /\ EvictTypeOK /\ StoreTypeOK
BY DEF VMTypeOK, MemoryTypeOK, TableTypeOK, ProcTypeOK, EvictTypeOK, StoreTypeOK

LEMMA TableTypes ==
    ASSUME VMTypeOK
    PROVE  /\ pagedir \in [Proc -> [Page -> Frame \cup {None}]]
           /\ pagetable \in [Proc -> [Page -> Slot \cup {Resident, None}]]
           /\ writable \in [Proc -> [Page -> BOOLEAN]]
BY DEF VMTypeOK

(* What the steps that change them do to one page.                         *)
Elsewhere(new, tab, p, pg) ==
    \A q \in Proc, x \in Page : q # p \/ x # pg => new[q][x] = tab[q][x]

LEMMA PagedirUpdate ==
    ASSUME VMTypeOK, NEW p \in Proc, NEW pg \in Page, NEW f \in Frame \cup {None},
           pagedir' = [pagedir EXCEPT ![p][pg] = f]
    PROVE  /\ pagedir' \in [Proc -> [Page -> Frame \cup {None}]]
           /\ pagedir'[p][pg] = f /\ Elsewhere(pagedir', pagedir, p, pg)
BY TableTypes DEF Elsewhere

LEMMA PagetableUpdate ==
    ASSUME VMTypeOK, NEW p \in Proc, NEW pg \in Page, NEW s \in Slot \cup {Resident, None},
           pagetable' = [pagetable EXCEPT ![p][pg] = s]
    PROVE  /\ pagetable' \in [Proc -> [Page -> Slot \cup {Resident, None}]]
           /\ pagetable'[p][pg] = s /\ Elsewhere(pagetable', pagetable, p, pg)
BY TableTypes DEF Elsewhere

LEMMA WritableUpdate ==
    ASSUME VMTypeOK, NEW p \in Proc, NEW pg \in Page, NEW w \in BOOLEAN,
           writable' = [writable EXCEPT ![p][pg] = w]
    PROVE  writable' \in [Proc -> [Page -> BOOLEAN]]
BY TableTypes

LEMMA MapPageStep ==
    ASSUME VMAssumption, VMTypeOK, NEW p \in Proc, NEW w \in BOOLEAN, MapPage(p, w),
           upage[p] # None, kpage[p] # None
    PROVE  /\ pagedir' \in [Proc -> [Page -> Frame \cup {None}]]
           /\ pagetable' \in [Proc -> [Page -> Slot \cup {Resident, None}]]
           /\ writable' \in [Proc -> [Page -> BOOLEAN]]
           /\ frameList' \in Seq(Proc \X Page)
           /\ pagedir'[p][upage[p]] = kpage[p] /\ Elsewhere(pagedir', pagedir, p, upage[p])
           /\ pagetable'[p][upage[p]] = Resident
           /\ Elsewhere(pagetable', pagetable, p, upage[p])
<1>1. upage[p] \in Page /\ kpage[p] \in Frame \cup {None}
      /\ Resident \in Slot \cup {Resident, None}
  BY VMTypes
<1>2. pagedir' = [pagedir EXCEPT ![p][upage[p]] = kpage[p]]
  BY DEF MapPage
<1>3. pagetable' = [pagetable EXCEPT ![p][upage[p]] = Resident]
  BY DEF MapPage
<1>4. writable' = [writable EXCEPT ![p][upage[p]] = w]
  BY DEF MapPage
<1>5. frameList' \in Seq(Proc \X Page)
  BY <1>1, PushBackFacts DEF MapPage, VMTypeOK
<1>6. /\ pagedir' \in [Proc -> [Page -> Frame \cup {None}]]
      /\ pagedir'[p][upage[p]] = kpage[p] /\ Elsewhere(pagedir', pagedir, p, upage[p])
  BY <1>1, <1>2, PagedirUpdate
<1>7. /\ pagetable' \in [Proc -> [Page -> Slot \cup {Resident, None}]]
      /\ pagetable'[p][upage[p]] = Resident
      /\ Elsewhere(pagetable', pagetable, p, upage[p])
  BY <1>1, <1>3, PagetableUpdate
<1>8. writable' \in [Proc -> [Page -> BOOLEAN]]
  BY <1>1, <1>4, WritableUpdate
<1>9. QED
  BY <1>5, <1>6, <1>7, <1>8

LEMMA SwapOutStep ==
    ASSUME VMAssumption, VMTypeOK, EvictOK, NEW p \in Proc, SwapOut(p), dUse # Slot
    PROVE  \E q \in Proc, pg \in Page, s \in Slot :
              /\ \A r \in Proc \ {q} : pagetable'[r] = pagetable[r]
              /\ evicted = <<q, pg>> /\ pc[q] # "destroy" /\ pagedir[q][pg] = None
              /\ pagetable[q][pg] = Resident
              /\ s \notin dUse /\ dUse' = dUse \cup {s}
              /\ pagetable' \in [Proc -> [Page -> Slot \cup {Resident, None}]]
              /\ pagetable'[q][pg] = s /\ Elsewhere(pagetable', pagetable, q, pg)
<1>1. PICK q \in Proc, pg \in Page :
         /\ evicted = <<q, pg>> /\ pc[q] # "destroy" /\ pagedir[q][pg] = None
         /\ pagetable[q][pg] = Resident
  BY DEF SwapOut, EvictOK, Evicting
<1>2. PICK s \in Slot \ dUse :
         dUse' = dUse \cup {s} /\ pagetable' = [pagetable EXCEPT ![q][pg] = s]
  BY <1>1 DEF SwapOut
<1>3. /\ pagetable' \in [Proc -> [Page -> Slot \cup {Resident, None}]]
      /\ pagetable'[q][pg] = s /\ Elsewhere(pagetable', pagetable, q, pg)
  BY <1>2, PagetableUpdate
<1>4. \A r \in Proc \ {q} : pagetable'[r] = pagetable[r]
  BY <1>2, TableTypes
<1>5. QED
  BY <1>1, <1>2, <1>3, <1>4

LEMMA VictimStep ==
    ASSUME VMAssumption, VMTypeOK, NEW p \in Proc, Victim(p)
    PROVE  \E q \in Proc, pg \in Page :
              /\ Head(frameList) = <<q, pg>> /\ evicted' = <<q, pg>>
              /\ pagedir[q][pg] \in Frame /\ pagetable[q][pg] # None
              /\ kpage'[p] = pagedir[q][pg]
              /\ pagedir' \in [Proc -> [Page -> Frame \cup {None}]]
              /\ writable' \in [Proc -> [Page -> BOOLEAN]]
              /\ pagedir'[q][pg] = None /\ Elsewhere(pagedir', pagedir, q, pg)
<1>1. frameList \in Seq(Proc \X Page) /\ frameList # <<>>
  BY DEF Victim, VMTypeOK
<1>2. Head(frameList) \in Proc \X Page
  BY <1>1
<1>3. PICK q \in Proc, pg \in Page : Head(frameList) = <<q, pg>>
  BY <1>2
<1>4. Head(frameList)[1] = q /\ Head(frameList)[2] = pg
  BY <1>3
<1>5. /\ evicted' = <<q, pg>> /\ pagetable[q][pg] # None /\ pagedir[q][pg] # None
      /\ kpage' = [kpage EXCEPT ![p] = pagedir[q][pg]]
  BY <1>3, <1>4 DEF Victim
<1>6. pagedir' = [pagedir EXCEPT ![q][pg] = None] /\ writable' = [writable EXCEPT ![q][pg] = FALSE]
  BY <1>4 DEF Victim
<1>7. kpage'[p] = pagedir[q][pg]
  BY <1>5 DEF VMTypeOK
<1>8. pagedir[q][pg] \in Frame
  BY <1>5, TableTypes
<1>9. QED
  BY <1>3, <1>5, <1>6, <1>7, <1>8, PagedirUpdate, WritableUpdate

LEMMA PagedirDestroyStep ==
    ASSUME VMAssumption, VMTypeOK, NEW p \in Proc, PagedirDestroy(p), pc' = pc
    PROVE  \E pg \in Page :
              /\ pagedir[p][pg] \in Frame /\ PallocFreePage(pagedir[p][pg])
              /\ pagedir' \in [Proc -> [Page -> Frame \cup {None}]]
              /\ writable' \in [Proc -> [Page -> BOOLEAN]]
              /\ pagedir'[p][pg] = None /\ Elsewhere(pagedir', pagedir, p, pg)
<1>1. pc \in [Proc -> Stage] /\ pc[p] = "destroy"
  BY DEF PagedirDestroy, VMTypeOK
<1>2. ~Goto(p, "dead")
  BY <1>1 DEF Goto
<1>3. PICK pg \in Page :
         /\ pagedir[p][pg] # None /\ PallocFreePage(pagedir[p][pg])
         /\ pagedir' = [pagedir EXCEPT ![p][pg] = None]
         /\ writable' = [writable EXCEPT ![p][pg] = FALSE]
  BY <1>2 DEF PagedirDestroy
<1>4. pagedir[p][pg] \in Frame
  BY <1>3, TableTypes
<1>5. QED
  BY <1>3, <1>4, PagedirUpdate, WritableUpdate

(* The end of frame_table_free, with page_table_free.                      *)
LEMMA TableFreeStep ==
    ASSUME VMTypeOK, NEW p \in Proc, FrameTableFree(p), pc'[p] # "freeing"
    PROVE  /\ \A i \in DOMAIN frameList : frameList[i][1] # p
           /\ frameList' = frameList /\ pc'[p] = "destroy" /\ lockFt' = None
           /\ dUse' = dUse \ {pagetable[p][pg] : pg \in Page}
           /\ pagetable' = [pagetable EXCEPT ![p] = NoPages]
BY DEF VMTypeOK, FrameTableFree, Goto

LEMMA FrameRemoveStep ==
    ASSUME VMTypeOK, NEW p \in Proc, FrameTableFree(p), pc'[p] = "freeing"
    PROVE  /\ UNCHANGED <<pagetable, dUse, lockFt, pc>>
           /\ \E i \in DOMAIN frameList :
                 frameList[i][1] = p /\ frameList' = RemoveAt(frameList, i)
BY DEF VMTypeOK, FrameTableFree, Goto

-----------------------------------------------------------------------------
(* The steps by what they do to the memory.                                *)
Quiet(p) ==
    /\ \/ StartProcess(p) \/ LoadNext(p) \/ LoadUnlock(p)
       \/ PageFault(p) \/ UserExit(p) \/ ThreadExit(p)
    /\ pc[p] \in {"dead", "load", "got", "user", "exit"}
    /\ pc'[p] \in {"load", "frame", "read", "exit", "freeing"}
    /\ UNCHANGED <<userPool, data, tables, swap, kpage, evicted, panic>>

(* A process gives its frame back ...                                      *)
Fails(p) ==
    /\ pc[p] \in {"read", "install", "got"} /\ pc'[p] = "exit"
    /\ LoadFails(p)
    /\ UNCHANGED <<swap, evicted, panic>>

(* ... or maps it, as a new page.                                          *)
Maps(p) ==
    /\ Filled(p) /\ pc[p] \in {"install", "got"} /\ pc'[p] \in {"load", "user"}
    /\ pagetable[p][upage[p]] = None /\ lockFt \in {None, p}
    /\ \E w \in BOOLEAN : MapPage(p, w)
    /\ UNCHANGED <<userPool, data, swap, evicted, panic>>

Reads(p) ==
    /\ pc[p] = "read" /\ pc'[p] = "install"
    /\ \E v \in Value : data' = [data EXCEPT ![kpage[p]] = v]
    /\ UNCHANGED <<userPool, tables, swap, upage, kpage, evicted, panic>>

LEMMA StepCases ==
    ASSUME VMAssumption, VMTypeOK, StageOK, NEW p \in Proc, StepOf(p)
    PROVE  \/ Quiet(p) \/ Fails(p) \/ Maps(p) \/ Reads(p)
           \/ PallocGetPage(p) \/ Victim(p) \/ VictimFails(p) \/ SwapOut(p) \/ SwapWrite(p)
           \/ SwapIn(p) \/ UserWrite(p) \/ FrameTableFree(p) \/ PagedirDestroy(p)
<1>1. pc \in [Proc -> Stage]
  BY DEF VMTypeOK
<1> USE DEF Goto
<1>2. CASE StartProcess(p) \/ UserExit(p) \/ ThreadExit(p) \/ LoadUnlock(p)
  BY <1>1, <1>2 DEF StartProcess, UserExit, ThreadExit, LoadUnlock, Quiet
<1>3. CASE LoadNext(p) \/ PageFault(p)
  BY <1>1, <1>3 DEF LoadNext, PageFault, NeedsFrame, Quiet
<1>4. CASE FileRead(p)
  BY <1>1, <1>4 DEF FileRead, Reads, Fails, LoadFails
<1>5. CASE InstallPage(p)
  <2>1. pagetable[p][upage[p]] = None
    BY <1>5 DEF InstallPage, StageOK, StageSays
  <2>2. CASE MapPage(p, upage[p] \notin ReadOnly)
    <3>1. (upage[p] \notin ReadOnly) \in BOOLEAN
      OBVIOUS
    <3>2. \E w \in BOOLEAN : MapPage(p, w)
      BY <2>2, <3>1
    <3>3. kpage[p] # None /\ upage[p] # None /\ upage[p] \in Segment
      BY <1>5 DEF InstallPage, StageOK, StageSays, HasFrame
    <3>4. pagetable'[p][upage[p]] = Resident
      BY <2>2, <3>3, MapPageStep, <3>1
    <3>5. ~LoadFails(p)
      BY <2>1, <3>4, VMTypes DEF LoadFails, tables
    <3>6. pc'[p] = "load" /\ UNCHANGED <<userPool, data, swap, evicted, panic>>
      BY <1>1, <1>5, <3>5 DEF InstallPage
    <3>7. QED
      BY <1>5, <2>1, <3>2, <3>6 DEF InstallPage, Maps, Filled
  <2>3. CASE ~MapPage(p, upage[p] \notin ReadOnly)
    BY <1>1, <1>5, <2>3 DEF InstallPage, Fails, LoadFails
  <2>4. QED
    BY <2>2, <2>3
<1>6. CASE MapStackPage(p)
  <2>1. CASE MapPage(p, TRUE)
    <3>1. /\ kpage[p] # None /\ upage[p] # None /\ pagetable[p][upage[p]] = None
          /\ lockFt = p
      BY <1>6 DEF MapStackPage, StageOK, StageSays, HasFrame, Holding
    <3>2. pagetable'[p][upage[p]] = Resident
      BY <2>1, <3>1, MapPageStep
    <3>3. ~LoadFails(p)
      BY <3>1, <3>2, VMTypes DEF LoadFails, tables
    <3>4. pc'[p] = "user" /\ UNCHANGED <<userPool, data, swap, evicted, panic>>
      BY <1>1, <1>6, <3>3 DEF MapStackPage
    <3>5. \E w \in BOOLEAN : MapPage(p, w)
      BY <2>1
    <3>6. QED
      BY <1>6, <3>1, <3>4, <3>5 DEF MapStackPage, Maps, Filled
  <2>2. CASE ~MapPage(p, TRUE)
    BY <1>1, <1>6, <2>2 DEF MapStackPage, Fails, LoadFails
  <2>3. QED
    BY <2>1, <2>2
<1>7. QED
  BY <1>2, <1>3, <1>4, <1>5, <1>6 DEF StepOf, GetFrame, Paging

-----------------------------------------------------------------------------
(* Types, a group of variables at a time.                                  *)
LEMMA ProcTypes ==
    ASSUME VMAssumption, VMTypeOK, NEW p \in Proc, StepOf(p)
    PROVE  ProcTypeOK'
<1>1. ProcTypeOK
  BY TypeParts
<1> USE <1>1 DEF Goto, Stage, ProcTypeOK
<1>2. CASE StartProcess(p) \/ UserWrite(p) \/ UserExit(p) \/ ThreadExit(p) \/ LoadUnlock(p)
  BY <1>2 DEF StartProcess, UserWrite, UserExit, ThreadExit, LoadUnlock
<1>3. CASE LoadNext(p) \/ PageFault(p)
  BY <1>3, VMTypes DEF LoadNext, PageFault, NeedsFrame
<1>4. CASE PallocGetPage(p)
  <2>1. userPool \subseteq Frame
    BY DEF VMTypeOK
  <2>2. PICK f \in userPool : kpage' = [kpage EXCEPT ![p] = f]
    BY <1>4 DEF PallocGetPage
  <2>3. kpage' \in [Proc -> Frame \cup {None}]
    BY <2>1, <2>2
  <2>4. QED
    BY <1>4, <2>3 DEF PallocGetPage
<1>5. CASE Victim(p)
  <2>1. kpage'[p] \in Frame
    BY <1>5, VictimStep
  <2>2. \E f : kpage' = [kpage EXCEPT ![p] = f]
    BY <1>5 DEF Victim
  <2>3. kpage' \in [Proc -> Frame \cup {None}]
    BY <2>1, <2>2
  <2>4. QED
    BY <1>5, <2>3 DEF Victim
<1>6. CASE VictimFails(p) \/ SwapOut(p) \/ SwapWrite(p)
  BY <1>6 DEF VictimFails, SwapOut, SwapWrite
<1>7. CASE FileRead(p) \/ InstallPage(p)
  BY <1>7 DEF FileRead, InstallPage, LoadFails, MapPage
<1>8. CASE MapStackPage(p) \/ SwapIn(p)
  BY <1>8 DEF MapStackPage, SwapIn, LoadFails, MapPage
<1>9. CASE FrameTableFree(p) \/ PagedirDestroy(p)
  BY <1>9 DEF FrameTableFree, PagedirDestroy
<1>10. QED
  BY <1>2, <1>3, <1>4, <1>5, <1>6, <1>7, <1>8, <1>9
     DEF StepOf, GetFrame, Paging

LEMMA TableTypesStep ==
    ASSUME VMAssumption, VMTypeOK, StageOK, EvictOK, NEW p \in Proc, StepOf(p)
    PROVE  TableTypeOK'
<1>1. TableTypeOK
  BY TypeParts
<1>2. CASE UNCHANGED tables
  BY <1>1, <1>2 DEF tables, TableTypeOK
<1>3. CASE Quiet(p) \/ Fails(p) \/ Reads(p) \/ UserWrite(p)
  BY <1>2, <1>3 DEF Quiet, Fails, LoadFails, Reads, UserWrite
<1>4. CASE PallocGetPage(p) \/ VictimFails(p) \/ SwapWrite(p)
  BY <1>2, <1>4 DEF PallocGetPage, VictimFails, SwapWrite
<1>5. CASE Victim(p)
  <2>1. frameList # <<>> /\ frameList' = Tail(frameList) /\ pagetable' = pagetable
    BY <1>5 DEF Victim
  <2>2. frameList' \in Seq(Proc \X Page)
    BY <1>1, <2>1 DEF TableTypeOK
  <2>3. QED
    BY <1>1, <1>5, <2>1, <2>2, VictimStep DEF TableTypeOK
<1>6. CASE SwapOut(p)
  <2>1. UNCHANGED <<frameList, pagedir, writable>>
    BY <1>6 DEF SwapOut
  <2>2. CASE dUse = Slot
    BY <1>2, <1>6, <2>2 DEF SwapOut, tables
  <2>3. CASE dUse # Slot
    BY <1>1, <1>6, <2>1, <2>3, SwapOutStep DEF TableTypeOK
  <2>4. QED
    BY <2>2, <2>3
<1>7. ASSUME NEW w \in BOOLEAN, MapPage(p, w), pc[p] \in {"install", "got"} PROVE TableTypeOK'
  <2>1. upage[p] # None /\ kpage[p] # None
    BY <1>7 DEF StageOK, StageSays, HasFrame
  <2>2. QED
    BY <1>7, <2>1, MapPageStep DEF TableTypeOK
<1>8. CASE Maps(p) \/ SwapIn(p)
  BY <1>7, <1>8 DEF Maps, SwapIn
<1>9. CASE FrameTableFree(p)
  <2>1. CASE pc'[p] = "freeing"
    <3>1. PICK i \in DOMAIN frameList : frameList' = RemoveAt(frameList, i)
      BY <1>9, <2>1, FrameRemoveStep
    <3>2. frameList \in Seq(Proc \X Page)
      BY <1>1 DEF TableTypeOK
    <3>3. frameList' \in Seq(Proc \X Page)
      BY <3>1, <3>2, RemoveAtFacts
    <3>4. UNCHANGED <<pagetable, pagedir, writable>>
      BY <1>9, <2>1, FrameRemoveStep DEF FrameTableFree
    <3>5. QED
      BY <1>1, <3>3, <3>4 DEF TableTypeOK
  <2>2. CASE pc'[p] # "freeing"
    <3>1. pagetable' = [pagetable EXCEPT ![p] = NoPages] /\ UNCHANGED <<frameList, pagedir, writable>>
      BY <1>9, <2>2, TableFreeStep DEF FrameTableFree
    <3>2. NoPages \in [Page -> Slot \cup {Resident, None}]
      BY DEF NoPages
    <3>3. QED
      BY <1>1, <3>1, <3>2 DEF TableTypeOK
  <2>3. QED
    BY <2>1, <2>2
<1>10. CASE PagedirDestroy(p)
  <2>1. UNCHANGED <<frameList, pagetable>>
    BY <1>10 DEF PagedirDestroy
  <2>2. CASE pc' = pc
    BY <1>1, <1>10, <2>1, <2>2, PagedirDestroyStep DEF TableTypeOK
  <2>3. CASE pc' # pc
    BY <1>2, <1>10, <2>3 DEF PagedirDestroy, tables
  <2>4. QED
    BY <2>2, <2>3
<1>11. QED
  BY <1>3, <1>4, <1>5, <1>6, <1>8, <1>9, <1>10, StepCases

LEMMA MemoryTypesStep ==
    ASSUME VMAssumption, VMTypeOK, StageOK, EvictOK, ContentOK, NEW p \in Proc, StepOf(p)
    PROVE  MemoryTypeOK'
<1>1. MemoryTypeOK
  BY TypeParts
<1>2. kpage[p] # None => kpage[p] \in Frame
  BY VMTypes
<1> USE DEF MemoryTypeOK
<1>3. CASE UNCHANGED <<userPool, data, swap>>
  BY <1>1, <1>3 DEF swap
<1>4. CASE Quiet(p) \/ Maps(p) \/ Victim(p) \/ VictimFails(p)
  BY <1>3, <1>4 DEF Quiet, Maps, Victim, VictimFails
<1>5. CASE Fails(p)
  <2>1. kpage[p] \in Frame
    BY <1>2, <1>5 DEF Fails, StageOK, StageSays, HasFrame
  <2>2. /\ userPool' = userPool \cup {kpage[p]}
        /\ data' = [data EXCEPT ![kpage[p]] = Freed]
        /\ UNCHANGED swap
    BY <1>5 DEF Fails, LoadFails, PallocFreePage
  <2>3. QED
    BY <1>1, <2>1, <2>2 DEF swap
<1>6. CASE Reads(p) \/ UserWrite(p)
  BY <1>1, <1>6 DEF Reads, UserWrite, swap
<1>7. CASE PallocGetPage(p)
  BY <1>1, <1>7, VMAssumption DEF PallocGetPage, swap, VMAssumption
<1>8. CASE SwapOut(p)
  BY <1>1, <1>8 DEF SwapOut
<1>9. CASE SwapWrite(p)
  <2>1. Filled(p)
    BY <1>9 DEF SwapWrite, Filled
  <2>2. data[kpage[p]] \in Value
    BY <2>1 DEF ContentOK
  <2>3. QED
    BY <1>1, <1>9, <2>2 DEF SwapWrite
<1>10. CASE SwapIn(p)
  BY <1>1, <1>10 DEF SwapIn
<1>11. CASE FrameTableFree(p)
  BY <1>1, <1>11 DEF FrameTableFree
<1>12. CASE PagedirDestroy(p)
  <2>1. CASE pc' = pc
    <3>1. PICK pg \in Page : pagedir[p][pg] \in Frame /\ PallocFreePage(pagedir[p][pg])
      BY <1>12, <2>1, PagedirDestroyStep
    <3>2. UNCHANGED swap
      BY <1>12 DEF PagedirDestroy
    <3>3. QED
      BY <1>1, <3>1, <3>2 DEF PallocFreePage, swap
  <2>2. CASE pc' # pc
    BY <1>1, <1>12, <2>2 DEF PagedirDestroy, swap
  <2>3. QED
    BY <2>1, <2>2
<1>13. QED
  BY <1>4, <1>5, <1>6, <1>7, <1>8, <1>9, <1>10, <1>11, <1>12, StepCases

LEMMA EvictTypesStep ==
    ASSUME VMAssumption, VMTypeOK, StageOK, NEW p \in Proc, StepOf(p)
    PROVE  EvictTypeOK'
<1>1. EvictTypeOK
  BY TypeParts
<1> USE DEF EvictTypeOK
<1>2. CASE UNCHANGED <<evicted, panic>>
  BY <1>1, <1>2
<1>3. CASE Quiet(p) \/ Fails(p) \/ Maps(p) \/ Reads(p) \/ PallocGetPage(p)
  BY <1>2, <1>3 DEF Quiet, Fails, Maps, Reads, PallocGetPage
<1>4. CASE UserWrite(p) \/ FrameTableFree(p) \/ PagedirDestroy(p) \/ SwapIn(p)
  BY <1>2, <1>4 DEF UserWrite, FrameTableFree, PagedirDestroy, SwapIn
<1>5. CASE Victim(p)
  <2>1. evicted' \in Proc \X Page
    BY <1>5, VictimStep
  <2>2. panic' = panic
    BY <1>5 DEF Victim
  <2>3. QED
    BY <1>1, <2>1, <2>2
<1>6. CASE VictimFails(p) \/ SwapOut(p) \/ SwapWrite(p)
  BY <1>1, <1>6 DEF VictimFails, SwapOut, SwapWrite
<1>7. QED
  BY <1>3, <1>4, <1>5, <1>6, StepCases

(* The stores.                                                             *)
LEMMA KernelSteps ==
    ASSUME NEW p \in Proc, StepOf(p), pc[p] # "user"
    PROVE  UNCHANGED storing
BY DEF StepOf, GetFrame, Paging, UserWrite, PageFault, UserExit

LEMMA UserSteps ==
    ASSUME VMAssumption, VMTypeOK, NEW p \in Proc, StepOf(p), pc[p] = "user"
    PROVE  storing' = [storing EXCEPT ![p] = None]
<1>1. UserWrite(p) \/ PageFault(p) \/ UserExit(p)
  BY DEF StepOf, GetFrame, Paging, StartProcess, PallocGetPage, Victim, VictimFails, SwapOut,
         SwapWrite, LoadNext, LoadUnlock, FileRead, InstallPage, MapStackPage, SwapIn,
         ThreadExit, FrameTableFree, PagedirDestroy
<1>2. QED
  BY <1>1 DEF UserWrite, PageFault, UserExit

LEMMA StoreTypes ==
    ASSUME VMAssumption, VMTypeOK, NEW p \in Proc, StepOf(p)
    PROVE  StoreTypeOK'
<1>1. StoreTypeOK
  BY TypeParts
<1>2. QED
  BY <1>1, KernelSteps, UserSteps DEF StoreTypeOK

LEMMA StoreStep ==
    ASSUME VMAssumption, VMTypeOK, StoreOK, NEW p \in Proc, StepOf(p)
    PROVE  StoreOK'
<1>1. storing \in [Proc -> (Page \X Value) \cup {None}]
  BY DEF VMTypeOK
<1>2. CASE pc[p] = "user"
  <2>1. storing' = [storing EXCEPT ![p] = None]
    BY <1>2, UserSteps
  <2>2. ASSUME NEW q \in Proc, storing'[q] # None PROVE pc'[q] = "user"
    <3>1. q # p /\ storing[q] # None
      BY <1>1, <2>1, <2>2
    <3>2. QED
      BY <3>1, OthersStay DEF StoreOK
  <2>3. QED
    BY <2>2 DEF StoreOK
<1>3. CASE pc[p] # "user"
  <2>1. storing' = storing
    BY <1>3, KernelSteps
  <2>2. ASSUME NEW q \in Proc, storing'[q] # None PROVE pc'[q] = "user"
    <3>1. q # p /\ pc[q] = "user"
      BY <1>3, <2>1, <2>2 DEF StoreOK
    <3>2. QED
      BY <3>1, OthersStay
  <2>3. QED
    BY <2>2 DEF StoreOK
<1>4. QED
  BY <1>2, <1>3

-----------------------------------------------------------------------------
(* Nothing is on its way out of a frame while lock_ft is free or with a    *)
(* process that is not in victim.                                          *)
LEMMA NotEvicting ==
    ASSUME VMAssumption, VMTypeOK, StageOK, EvictOK, NEW p \in Proc,
           lockFt \in {None, p}, ~Evicting(p)
    PROVE  evicted = None /\ \A q \in Proc : ~Evicting(q)
<1>1. \A q \in Proc : Evicting(q) => lockFt = q
  BY DEF StageOK, StageSays, Evicting, Holding
<1>2. \A q \in Proc : ~Evicting(q)
  BY <1>1, VMTypes
<1>3. QED
  BY <1>2 DEF EvictOK

(* What a step of p leaves of the others' stages.                          *)
LEMMA StageOfOthers ==
    ASSUME VMAssumption, VMTypeOK, StageOK, EvictOK, NEW p \in Proc, StepOf(p),
           NEW q \in Proc \ {p}
    PROVE  StageSays(q)'
<1>1. pc'[q] = pc[q] /\ upage'[q] = upage[q] /\ kpage'[q] = kpage[q]
  BY OthersStay
<1>2. StageSays(q) /\ StageSays(p) /\ (upage[q] # None => upage[q] \in Page)
      /\ p # None /\ q # None
  BY VMTypes DEF StageOK
<1>3. lockFt' = lockFt \/ (lockFt \in {None, p} /\ lockFt' \in {None, p})
  <2>1. pc[p] \in Holding => lockFt = p
    BY <1>2 DEF StageSays
  <2>2. CASE StartProcess(p) \/ UserWrite(p) \/ UserExit(p) \/ GetFrame(p) \/ FileRead(p)
    BY <2>2 DEF StartProcess, UserWrite, UserExit, GetFrame, PallocGetPage, Victim,
                VictimFails, SwapOut, SwapWrite, FileRead
  <2>3. CASE InstallPage(p) \/ PagedirDestroy(p)
    BY <2>3 DEF InstallPage, PagedirDestroy
  <2>4. CASE LoadNext(p) \/ PageFault(p) \/ ThreadExit(p)
    BY <2>4 DEF LoadNext, PageFault, NeedsFrame, ThreadExit
  <2>5. CASE LoadUnlock(p) \/ MapStackPage(p) \/ SwapIn(p) \/ FrameTableFree(p)
    BY <2>1, <2>5 DEF LoadUnlock, MapStackPage, SwapIn, FrameTableFree, Holding
  <2>6. QED
    BY <2>2, <2>3, <2>4, <2>5 DEF StepOf, GetFrame, Paging
<1>4. \A x \in Page : pagetable[q][x] = None => pagetable'[q][x] = None
  <2>1. CASE pagetable' = pagetable
    BY <2>1
  <2>2. ASSUME NEW w \in BOOLEAN, MapPage(p, w), pc[p] \in {"install", "got"}
        PROVE  \A x \in Page : pagetable'[q][x] = pagetable[q][x]
    <3>1. upage[p] # None /\ kpage[p] # None
      BY <1>2, <2>2 DEF StageSays, HasFrame
    <3>2. QED
      BY <2>2, <3>1, MapPageStep DEF Elsewhere
  <2>3. CASE Maps(p) \/ SwapIn(p)
    BY <2>2, <2>3 DEF Maps, SwapIn
  <2>4. CASE SwapOut(p)
    <3>1. CASE dUse = Slot
      BY <2>1, <2>4, <3>1 DEF SwapOut
    <3>2. CASE dUse # Slot
      BY <2>4, <3>2, SwapOutStep, VMTypes DEF Elsewhere
    <3>3. QED
      BY <3>1, <3>2
  <2>5. CASE FrameTableFree(p)
    <3>1. CASE pc'[p] = "freeing"
      BY <2>1, <2>5, <3>1, FrameRemoveStep
    <3>2. CASE pc'[p] # "freeing"
      BY <2>5, <3>2, TableFreeStep, TableTypes
    <3>3. QED
      BY <3>1, <3>2
  <2>6. CASE Quiet(p) \/ Fails(p) \/ Reads(p) \/ UserWrite(p) \/ PagedirDestroy(p)
    BY <2>1, <2>6 DEF Quiet, Fails, LoadFails, Reads, UserWrite, PagedirDestroy, tables
  <2>7. CASE PallocGetPage(p) \/ Victim(p) \/ VictimFails(p) \/ SwapWrite(p)
    BY <2>1, <2>7 DEF PallocGetPage, Victim, VictimFails, SwapWrite, tables
  <2>8. QED
    BY <2>3, <2>4, <2>5, <2>6, <2>7, StepCases
<1>5. lockFt' = q <=> lockFt = q
  BY <1>2, <1>3
<1>6. pc[q] \in {"read", "install"} =>
         /\ upage[q] \in Page /\ upage[q] \in Segment
         /\ pagetable[q][upage[q]] = None /\ pagetable'[q][upage[q]] = None
  BY <1>2, <1>4, VMTypes DEF StageSays
<1>7. /\ pc[q] \in {"read", "install"} => upage[q] \in Segment /\ pagetable'[q][upage[q]] = None
      /\ lockFt = q <=> pc[q] \in Holding
      /\ kpage[q] # None <=> pc[q] \in HasFrame
      /\ upage[q] # None <=> pc[q] \in HasFrame \cup {"frame"}
  BY <1>2, <1>6 DEF StageSays
<1>8. StageSays(q)' <=>
         /\ lockFt' = q <=> pc'[q] \in Holding
         /\ kpage'[q] # None <=> pc'[q] \in HasFrame
         /\ upage'[q] # None <=> pc'[q] \in HasFrame \cup {"frame"}
         /\ pc'[q] \in {"read", "install"} =>
               upage'[q] \in Segment /\ pagetable'[q][upage'[q]] = None
  BY DEF StageSays, Holding, HasFrame
<1>9. QED
  BY <1>1, <1>5, <1>7, <1>8

LEMMA StageOfOwn ==
    ASSUME VMAssumption, VMTypeOK, StageOK, EvictOK, NEW p \in Proc, StepOf(p)
    PROVE  StageSays(p)'
<1>1. /\ lockFt \in Proc \cup {None}
      /\ pc \in [Proc -> Stage]
      /\ upage \in [Proc -> Page \cup {None}]
      /\ kpage \in [Proc -> Frame \cup {None}]
      /\ StageSays(p)
      /\ p # None /\ None \notin Page /\ None \notin Frame
  BY VMTypes DEF VMTypeOK, StageOK
<1>2. pagetable \in [Proc -> [Page -> Slot \cup {Resident, None}]]
  BY TableTypes
<1> USE DEF Goto, StageSays, Holding, HasFrame
<1>3. CASE StartProcess(p) \/ UserWrite(p) \/ UserExit(p) \/ ThreadExit(p)
  BY <1>1, <1>3 DEF StartProcess, UserWrite, UserExit, ThreadExit
<1>4. CASE LoadNext(p) \/ PageFault(p)
  <2>1. PICK pg \in Page : NeedsFrame(p, pg)
    BY <1>4, VMTypes DEF LoadNext, PageFault
  <2>2. pc[p] \in {"load", "user"}
    BY <1>4 DEF LoadNext, PageFault
  <2>3. QED
    BY <1>1, <2>1, <2>2 DEF NeedsFrame
<1>5. CASE LoadUnlock(p)
  BY <1>1, <1>5 DEF LoadUnlock, tables
<1>6. CASE PallocGetPage(p)
  <2>1. PICK f \in userPool : kpage' = [kpage EXCEPT ![p] = f]
    BY <1>6 DEF PallocGetPage
  <2>2. kpage'[p] # None
    BY <1>1, <2>1 DEF VMTypeOK
  <2>3. QED
    BY <1>1, <1>6, <2>2 DEF PallocGetPage
<1>7. CASE Victim(p)
  <2>1. kpage'[p] # None
    BY <1>1, <1>7, VictimStep
  <2>2. QED
    BY <1>1, <1>7, <2>1 DEF Victim
<1>8. CASE VictimFails(p) \/ SwapOut(p) \/ SwapWrite(p)
  BY <1>1, <1>8 DEF VictimFails, SwapOut, SwapWrite
<1>9. CASE FileRead(p)
  BY <1>1, <1>9 DEF FileRead, LoadFails, tables
<1>10. CASE InstallPage(p)
  BY <1>1, <1>10 DEF InstallPage, MapPage, LoadFails
<1>11. CASE MapStackPage(p) \/ SwapIn(p)
  BY <1>1, <1>11 DEF MapStackPage, SwapIn, MapPage, LoadFails
<1>12. CASE FrameTableFree(p)
  <2>1. CASE pc'[p] = "freeing"
    BY <1>1, <1>12, <2>1, FrameRemoveStep DEF FrameTableFree
  <2>2. CASE pc'[p] # "freeing"
    BY <1>1, <1>12, <2>2, TableFreeStep DEF FrameTableFree
  <2>3. QED
    BY <2>1, <2>2
<1>13. CASE PagedirDestroy(p)
  BY <1>1, <1>13 DEF PagedirDestroy
<1>14. QED
  BY <1>3, <1>4, <1>5, <1>6, <1>7, <1>8, <1>9, <1>10, <1>11, <1>12, <1>13
     DEF StepOf, GetFrame, Paging

-----------------------------------------------------------------------------
(* The frame that is on its way out.                                       *)
LEMMA TailFacts ==
    ASSUME NEW S, NEW list \in Seq(S), list # <<>>, NoDuplicates(list)
    PROVE  /\ Head(list) \in ToSet(list)
           /\ ToSet(Tail(list)) = ToSet(list) \ {Head(list)}
           /\ NoDuplicates(Tail(list))
<1>1. /\ Len(list) \in Nat \ {0} /\ DOMAIN list = 1 .. Len(list) /\ Head(list) = list[1]
      /\ Len(Tail(list)) = Len(list) - 1 /\ DOMAIN Tail(list) = 1 .. (Len(list) - 1)
      /\ \A i \in 1 .. (Len(list) - 1) : Tail(list)[i] = list[i + 1]
  OBVIOUS
<1>2. Head(list) \in ToSet(list)
  BY <1>1 DEF ToSet
<1>3. ASSUME NEW e \in ToSet(list) \ {Head(list)} PROVE e \in ToSet(Tail(list))
  <2>1. PICK i \in 1 .. Len(list) : list[i] = e
    BY <1>1 DEF ToSet
  <2>2. i - 1 \in 1 .. (Len(list) - 1) /\ (i - 1) + 1 = i
    BY <1>1, <1>3, <2>1
  <2>3. Tail(list)[i - 1] = e
    BY <1>1, <2>1, <2>2
  <2>4. QED
    BY <1>1, <2>2, <2>3 DEF ToSet
<1>4. ASSUME NEW e \in ToSet(Tail(list)) PROVE e \in ToSet(list) \ {Head(list)}
  <2>1. PICK i \in 1 .. (Len(list) - 1) : Tail(list)[i] = e
    BY <1>1 DEF ToSet
  <2>2. list[i + 1] = e /\ i + 1 \in 1 .. Len(list) /\ i + 1 # 1 /\ 1 \in 1 .. Len(list)
    BY <1>1, <2>1
  <2>3. e # Head(list)
    BY <1>1, <2>2 DEF NoDuplicates
  <2>4. QED
    BY <1>1, <2>2, <2>3 DEF ToSet
<1>5. NoDuplicates(Tail(list))
  BY <1>1 DEF NoDuplicates
<1>6. QED
  BY <1>2, <1>3, <1>4, <1>5

LEMMA EvictStep ==
    ASSUME VMAssumption, VMTypeOK, StageOK, EvictOK, MapOK, FrameListIsMapped,
           NEW p \in Proc, StepOf(p)
    PROVE  EvictOK'
<1>1. pc \in [Proc -> Stage] /\ StageSays(p) /\ None \notin Proc \X Page
  BY VMTypes DEF VMTypeOK, StageOK, VMAssumption
<1>2. \A q \in Proc \ {p} : pc'[q] = pc[q]
  BY OthersStay
<1>3. ASSUME evicted' = None, \A q \in Proc : ~Evicting(q)' PROVE EvictOK'
  BY <1>3 DEF EvictOK
<1>4. ASSUME lockFt = p, ~Evicting(p), evicted' = evicted, pc'[p] \notin {"evict", "write"}
      PROVE  EvictOK'
  <2>1. evicted = None /\ \A q \in Proc : ~Evicting(q)
    BY <1>4, NotEvicting
  <2>2. \A q \in Proc : ~Evicting(q)'
    BY <1>2, <1>4, <2>1 DEF Evicting
  <2>3. QED
    BY <1>3, <1>4, <2>1, <2>2
<1>5. ASSUME evicted' = evicted, Evicting(p)' <=> Evicting(p), Evicting(p) => pc'[p] = pc[p],
             pc'[p] = "destroy" => pc[p] = "destroy", pagetable' = pagetable,
             \A q \in Proc, pg \in Page :
                pc[q] # "destroy" /\ pagedir[q][pg] = None => pagedir'[q][pg] = None
      PROVE  EvictOK'
  <2>1. \A q \in Proc : /\ Evicting(q)' <=> Evicting(q)
                        /\ Evicting(q) => pc'[q] = pc[q]
                        /\ pc'[q] = "destroy" => pc[q] = "destroy"
    BY <1>2, <1>5 DEF Evicting
  <2>2. evicted' # None => \E q \in Proc : Evicting(q)'
    BY <1>5, <2>1 DEF EvictOK
  <2>3. ASSUME NEW r \in Proc, Evicting(r)'
        PROVE  \E q \in Proc, pg \in Page :
                  /\ evicted' = <<q, pg>>
                  /\ pc'[q] # "destroy" /\ pagedir'[q][pg] = None
                  /\ pc'[r] = "evict" => pagetable'[q][pg] = Resident
                  /\ pc'[r] = "write" => pagetable'[q][pg] \in Slot
    BY <1>5, <2>1, <2>3 DEF EvictOK
  <2>4. QED
    BY <2>2, <2>3 DEF EvictOK
<1>6. CASE Quiet(p) \/ Fails(p) \/ Reads(p)
  <2>1. UNCHANGED <<evicted, pagetable, pagedir>>
    BY <1>6 DEF Quiet, Fails, LoadFails, Reads, tables
  <2>2. ~Evicting(p) /\ pc'[p] \notin {"evict", "write", "destroy"}
    BY <1>6 DEF Quiet, Fails, Reads, Evicting
  <2>3. QED
    BY <1>5, <2>1, <2>2 DEF Evicting
<1>7. CASE PallocGetPage(p) \/ VictimFails(p) \/ UserWrite(p)
  <2>1. UNCHANGED <<evicted, pagetable, pagedir>>
    BY <1>7 DEF PallocGetPage, VictimFails, UserWrite, tables
  <2>2. ~Evicting(p) /\ pc'[p] \notin {"evict", "write", "destroy"}
    BY <1>1, <1>7 DEF PallocGetPage, VictimFails, UserWrite, Evicting, Goto
  <2>3. QED
    BY <1>5, <2>1, <2>2 DEF Evicting
<1>8. CASE PagedirDestroy(p)
  <2>1. UNCHANGED <<evicted, pagetable>> /\ ~Evicting(p) /\ pc[p] = "destroy"
        /\ pc'[p] \in {"destroy", "dead"}
    BY <1>1, <1>8 DEF PagedirDestroy, Evicting, Goto
  <2>2. ASSUME NEW q \in Proc, NEW pg \in Page, pc[q] # "destroy"
        PROVE pagedir'[q][pg] = pagedir[q][pg]
    <3>1. q # p
      BY <2>1, <2>2
    <3>2. QED
      BY <1>8, <3>1, PagedirDestroyStep DEF PagedirDestroy, Elsewhere
  <2>3. QED
    BY <1>5, <2>1, <2>2 DEF Evicting
<1>9. CASE SwapIn(p) \/ FrameTableFree(p)
  <2>1. pc[p] \in {"got", "freeing"} /\ pc'[p] \in {"user", "freeing", "destroy"} /\ evicted' = evicted
    BY <1>1, <1>9 DEF SwapIn, FrameTableFree, Goto
  <2>2. QED
    BY <1>1, <1>4, <2>1 DEF StageSays, Holding, Evicting
<1>10. CASE Maps(p)
  <2>1. evicted = None /\ \A q \in Proc : ~Evicting(q)
    BY <1>10, NotEvicting DEF Maps, Evicting
  <2>2. evicted' = None /\ \A q \in Proc : ~Evicting(q)'
    BY <1>2, <1>10, <2>1 DEF Maps, Evicting
  <2>3. QED
    BY <1>3, <2>2
<1>11. CASE SwapWrite(p)
  <2>1. pc[p] = "write" /\ lockFt = p /\ evicted' = None /\ pc'[p] = "got"
    BY <1>1, <1>11 DEF SwapWrite, StageSays, Holding, Goto
  <2>2. \A q \in Proc \ {p} : ~Evicting(q)
    BY <2>1 DEF StageOK, StageSays, Holding, Evicting
  <2>3. \A q \in Proc : ~Evicting(q)'
    BY <1>2, <2>1, <2>2 DEF Evicting
  <2>4. QED
    BY <1>3, <2>1, <2>3
<1>12. CASE Victim(p)
  <2>1. pc[p] = "frame" /\ lockFt = p /\ pc'[p] = "evict" /\ pagetable' = pagetable
        /\ frameList # <<>>
    BY <1>1, <1>12 DEF Victim, StageSays, Holding, Goto
  <2>2. PICK q \in Proc, pg \in Page :
           /\ Head(frameList) = <<q, pg>> /\ evicted' = <<q, pg>>
           /\ pagedir[q][pg] \in Frame /\ pagedir'[q][pg] = None
    BY <1>12, VictimStep
  <2>3. <<q, pg>> \in ToSet(frameList)
    <3>1. frameList \in Seq(Proc \X Page) /\ NoDuplicates(frameList)
      BY DEF VMTypeOK, FrameListIsMapped
    <3>2. QED
      BY <2>1, <2>2, <3>1, TailFacts
  <2>4. pc[q] # "destroy" /\ pagedir[q][pg] # None
    BY <2>3 DEF FrameListIsMapped
  <2>5. pagetable[q][pg] = Resident /\ pc'[q] # "destroy"
    BY <1>2, <2>1, <2>4 DEF MapOK
  <2>6. \A r \in Proc \ {p} : ~Evicting(r)'
    BY <1>2, <2>1 DEF StageOK, StageSays, Holding, Evicting
  <2>7. Evicting(p)'
    BY <2>1 DEF Evicting
  <2>8. \A r \in Proc : Evicting(r)' => r = p
    BY <2>6
  <2>9. \E x \in Proc, y \in Page :
           /\ evicted' = <<x, y>> /\ pc'[x] # "destroy" /\ pagedir'[x][y] = None
           /\ pc'[p] = "evict" => pagetable'[x][y] = Resident
           /\ pc'[p] = "write" => pagetable'[x][y] \in Slot
    BY <2>1, <2>2, <2>5
  <2>10. QED
    BY <2>7, <2>8, <2>9 DEF EvictOK
<1>13. CASE SwapOut(p) /\ dUse = Slot
  BY <1>5, <1>13 DEF SwapOut, Evicting
<1>14. CASE SwapOut(p) /\ dUse # Slot
  <2>1. pc[p] = "evict" /\ lockFt = p /\ pc'[p] = "write" /\ UNCHANGED <<pagedir, evicted>>
    BY <1>1, <1>14 DEF SwapOut, StageSays, Holding, Goto
  <2>2. PICK q \in Proc, pg \in Page, s \in Slot :
           /\ evicted = <<q, pg>> /\ pc[q] # "destroy" /\ pagedir[q][pg] = None
           /\ pagetable'[q][pg] = s
    BY <1>14, SwapOutStep
  <2>3. \A r \in Proc : Evicting(r)' => r = p
    BY <1>2, <2>1 DEF StageOK, StageSays, Holding, Evicting
  <2>4. Evicting(p)' /\ pc'[q] # "destroy"
    BY <1>2, <2>1, <2>2 DEF Evicting
  <2>5. \E x \in Proc, y \in Page :
           /\ evicted' = <<x, y>> /\ pc'[x] # "destroy" /\ pagedir'[x][y] = None
           /\ pc'[p] = "evict" => pagetable'[x][y] = Resident
           /\ pc'[p] = "write" => pagetable'[x][y] \in Slot
    BY <2>1, <2>2, <2>4
  <2>6. QED
    BY <2>3, <2>4, <2>5 DEF EvictOK
<1>15. QED
  BY <1>6, <1>7, <1>8, <1>9, <1>10, <1>11, <1>12, <1>13, <1>14, StepCases

-----------------------------------------------------------------------------
(* The page table and the page directory.                                  *)
LEMMA Mapping ==
    ASSUME VMAssumption, VMTypeOK, StageOK, EvictOK, NEW p \in Proc, Maps(p) \/ SwapIn(p)
    PROVE  /\ pc[p] \in {"install", "got"} /\ pc'[p] \in {"load", "user"}
           /\ evicted = None /\ evicted' = None /\ lockFt \in {None, p}
           /\ upage[p] \in Page /\ kpage[p] \in Frame
           /\ kpage' = [kpage EXCEPT ![p] = None]
           /\ pagedir'[p][upage[p]] = kpage[p] /\ Elsewhere(pagedir', pagedir, p, upage[p])
           /\ pagetable'[p][upage[p]] = Resident
           /\ Elsewhere(pagetable', pagetable, p, upage[p])
           /\ frameList' = Append(frameList, <<p, upage[p]>>)
<1>1. pc \in [Proc -> Stage] /\ StageSays(p)
  BY DEF VMTypeOK, StageOK
<1>2. PICK w \in BOOLEAN : MapPage(p, w)
  BY DEF Maps, SwapIn
<1>3. /\ pc[p] \in {"install", "got"} /\ pc'[p] \in {"load", "user"}
      /\ lockFt \in {None, p} /\ evicted' = evicted
  BY <1>1 DEF Maps, SwapIn, StageSays, Holding, Goto
<1>4. evicted = None
  BY <1>3, NotEvicting DEF Evicting
<1>5. upage[p] # None /\ kpage[p] # None
  BY <1>1, <1>3 DEF StageSays, HasFrame
<1>6. upage[p] \in Page /\ kpage[p] \in Frame
  BY <1>5, VMTypes
<1>7. QED
  BY <1>2, <1>3, <1>4, <1>5, <1>6, MapPageStep DEF MapPage

LEMMA MapStep ==
    ASSUME VMAssumption, VMTypeOK, StageOK, EvictOK, MapOK, SlotsAreEntries,
           NEW p \in Proc, StepOf(p)
    PROVE  MapOK'
<1>1. pc \in [Proc -> Stage] /\ StageSays(p) /\ None \notin Proc \X Page /\ Resident \notin Slot
  BY VMTypes DEF VMTypeOK, StageOK, VMAssumption
<1>2. \A q \in Proc \ {p} : pc'[q] = pc[q]
  BY OthersStay
<1>3. ASSUME UNCHANGED <<pagedir, pagetable, evicted>>, pc'[p] # "destroy" => pc[p] # "destroy"
      PROVE  MapOK'
  BY <1>2, <1>3 DEF MapOK
<1>4. CASE Quiet(p) \/ Fails(p) \/ Reads(p)
  BY <1>3, <1>4 DEF Quiet, Fails, LoadFails, Reads, tables
<1>5. CASE PallocGetPage(p) \/ VictimFails(p) \/ UserWrite(p)
  BY <1>1, <1>3, <1>5 DEF PallocGetPage, VictimFails, UserWrite, tables, Goto
<1>6. CASE SwapWrite(p)
  <2>1. UNCHANGED <<pagedir, pagetable>> /\ evicted' = None /\ pc[p] = "write" /\ pc'[p] = "got"
    BY <1>1, <1>6 DEF SwapWrite, tables, Goto
  <2>2. PICK q \in Proc, pg \in Page :
           evicted = <<q, pg>> /\ pagedir[q][pg] = None /\ pagetable[q][pg] \in Slot
    BY <2>1 DEF EvictOK, Evicting
  <2>3. ASSUME NEW r \in Proc, NEW x \in Page, pc'[r] # "destroy"
        PROVE  pagedir'[r][x] # None <=> pagetable'[r][x] = Resident /\ evicted' # <<r, x>>
    <3>1. pc[r] # "destroy"
      BY <1>2, <2>1, <2>3
    <3>2. CASE r = q /\ x = pg
      BY <1>1, <2>1, <2>2, <3>2
    <3>3. CASE ~(r = q /\ x = pg)
      BY <1>1, <2>1, <2>2, <3>1, <3>3 DEF MapOK
    <3>4. QED
      BY <3>2, <3>3
  <2>4. QED
    BY <2>3 DEF MapOK
<1>7. CASE Victim(p)
  <2>1. /\ pc[p] = "frame" /\ pc'[p] = "evict" /\ lockFt = p /\ pagetable' = pagetable
    BY <1>1, <1>7 DEF Victim, StageSays, Holding, Goto
  <2>2. evicted = None
    BY <2>1, NotEvicting DEF Evicting
  <2>3. PICK q \in Proc, pg \in Page :
           evicted' = <<q, pg>> /\ pagedir'[q][pg] = None /\ Elsewhere(pagedir', pagedir, q, pg)
    BY <1>7, VictimStep
  <2>4. ASSUME NEW r \in Proc, NEW x \in Page, pc'[r] # "destroy"
        PROVE  pagedir'[r][x] # None <=> pagetable'[r][x] = Resident /\ evicted' # <<r, x>>
    <3>1. pc[r] # "destroy"
      BY <1>2, <2>1, <2>4
    <3>2. CASE r = q /\ x = pg
      BY <2>3, <3>2
    <3>3. CASE ~(r = q /\ x = pg)
      BY <1>1, <2>1, <2>2, <2>3, <3>1, <3>3 DEF MapOK, Elsewhere
    <3>4. QED
      BY <3>2, <3>3
  <2>5. QED
    BY <2>4 DEF MapOK
<1>8. CASE SwapOut(p) /\ dUse = Slot
  BY <1>1, <1>3, <1>8 DEF SwapOut
<1>9. CASE SwapOut(p) /\ dUse # Slot
  <2>1. pc[p] = "evict" /\ pc'[p] = "write" /\ UNCHANGED <<pagedir, evicted>>
    BY <1>1, <1>9 DEF SwapOut, Goto
  <2>2. PICK q \in Proc, pg \in Page, s \in Slot :
           /\ pagedir[q][pg] = None /\ pagetable'[q][pg] = s
           /\ Elsewhere(pagetable', pagetable, q, pg)
    BY <1>9, SwapOutStep
  <2>3. ASSUME NEW r \in Proc, NEW x \in Page, pc'[r] # "destroy"
        PROVE  pagedir'[r][x] # None <=> pagetable'[r][x] = Resident /\ evicted' # <<r, x>>
    <3>1. pc[r] # "destroy"
      BY <1>2, <2>1, <2>3
    <3>2. CASE r = q /\ x = pg
      BY <1>1, <2>1, <2>2, <3>2
    <3>3. CASE ~(r = q /\ x = pg)
      BY <2>1, <2>2, <3>1, <3>3 DEF MapOK, Elsewhere
    <3>4. QED
      BY <3>2, <3>3
  <2>4. QED
    BY <2>3 DEF MapOK
<1>10. CASE Maps(p) \/ SwapIn(p)
  <2>1. ASSUME NEW r \in Proc, NEW x \in Page, pc'[r] # "destroy"
        PROVE  pagedir'[r][x] # None <=> pagetable'[r][x] = Resident /\ evicted' # <<r, x>>
    <3>1. pc[r] # "destroy"
      BY <1>2, <1>10, <2>1, Mapping
    <3>2. CASE r = p /\ x = upage[p]
      BY <1>1, <1>10, <3>2, Mapping, VMTypes
    <3>3. CASE ~(r = p /\ x = upage[p])
      BY <1>1, <1>10, <3>1, <3>3, Mapping DEF MapOK, Elsewhere
    <3>4. QED
      BY <3>2, <3>3
  <2>2. QED
    BY <2>1 DEF MapOK
<1>11. CASE FrameTableFree(p)
  <2>1. CASE pc'[p] = "freeing"
    BY <1>3, <1>11, <2>1, FrameRemoveStep DEF FrameTableFree
  <2>2. CASE pc'[p] # "freeing"
    <3>1. pc'[p] = "destroy" /\ UNCHANGED <<pagedir, evicted>>
          /\ pagetable' = [pagetable EXCEPT ![p] = NoPages]
      BY <1>11, <2>2, TableFreeStep DEF FrameTableFree
    <3>2. \A q \in Proc \ {p} : pagetable'[q] = pagetable[q]
      BY <3>1, TableTypes
    <3>3. QED
      BY <1>2, <3>1, <3>2 DEF MapOK
  <2>3. QED
    BY <2>1, <2>2
<1>12. CASE PagedirDestroy(p)
  <2>1. UNCHANGED <<pagetable, evicted>> /\ pc[p] = "destroy"
    BY <1>12 DEF PagedirDestroy
  <2>2. CASE pc' = pc
    <3>1. \A q \in Proc \ {p}, x \in Page : pagedir'[q][x] = pagedir[q][x]
      BY <1>12, <2>2, PagedirDestroyStep DEF Elsewhere
    <3>2. QED
      BY <2>1, <2>2, <3>1 DEF MapOK
  <2>3. CASE pc' # pc
    <3>1. pagedir' = pagedir /\ pagedir[p] = NoPages
      BY <1>12, <2>3 DEF PagedirDestroy
    <3>2. pagetable[p] = NoPages
      BY <2>1 DEF SlotsAreEntries
    <3>3. \A x \in Page : pagedir'[p][x] = None /\ pagetable'[p][x] # Resident
      BY <2>1, <3>1, <3>2, VMTypes DEF NoPages
    <3>4. QED
      BY <1>2, <2>1, <3>1, <3>3 DEF MapOK
  <2>4. QED
    BY <2>2, <2>3
<1>13. QED
  BY <1>4, <1>5, <1>6, <1>7, <1>8, <1>9, <1>10, <1>11, <1>12, StepCases

-----------------------------------------------------------------------------
(* The place of a frame.                                                   *)
LEMMA HoldersAre ==
    ASSUME NEW f
    PROVE  \A h : h \in Holders(f) <=> Place(pagedir, kpage, userPool, f, h)
BY DEF Holders, Place

LEMMA Sole ==
    ASSUME VMAssumption, OnePlace, NEW f \in Frame
    PROVE  /\ f \in userPool =>
                 (\A q \in Proc, x \in Page : pagedir[q][x] # f) /\ \A q \in Proc : kpage[q] # f
           /\ \A q \in Proc, x \in Page : pagedir[q][x] = f =>
                 /\ f \notin userPool /\ \A r \in Proc : kpage[r] # f
                 /\ \A r \in Proc, y \in Page : pagedir[r][y] = f => r = q /\ y = x
           /\ \A q \in Proc : kpage[q] = f =>
                 f \notin userPool /\ \A r \in Proc : kpage[r] = f => r = q
<1>1. PICK h : \A k : Place(pagedir, kpage, userPool, f, k) <=> k = h
  BY DEF OnePlace
<1>2. /\ \A q \in Proc, x \in Page : pagedir[q][x] = f => <<q, x>> = h
      /\ \A q \in Proc : kpage[q] = f => q = h
      /\ f \in userPool => h = "pool"
  <2>1. ASSUME NEW q \in Proc, NEW x \in Page, pagedir[q][x] = f PROVE <<q, x>> = h
    BY <1>1, <2>1 DEF Place
  <2>2. ASSUME NEW q \in Proc, kpage[q] = f PROVE q = h
    BY <1>1, <2>2 DEF Place
  <2>3. f \in userPool => h = "pool"
    BY <1>1 DEF Place
  <2>4. QED
    BY <2>1, <2>2, <2>3
<1>3. \A q \in Proc, x \in Page : <<q, x>> \notin Proc /\ <<q, x>> # "pool" /\ q # "pool"
  BY DEF VMAssumption
<1>4. QED
  BY <1>2, <1>3

LEMMA Move ==
    ASSUME OnePlace, NEW g, NEW k,
           \A h : Place(pagedir', kpage', userPool', g, h) <=> h = k,
           \A f \in Frame \ {g} : \A h :
              Place(pagedir', kpage', userPool', f, h) <=> Place(pagedir, kpage, userPool, f, h)
    PROVE  OnePlace'
<1>1. ASSUME NEW f \in Frame
      PROVE  \E x : \A h : Place(pagedir', kpage', userPool', f, h) <=> h = x
  <2>1. CASE f = g
    BY <2>1
  <2>2. CASE f # g
    <3>1. PICK x : \A h : Place(pagedir, kpage, userPool, f, h) <=> h = x
      BY DEF OnePlace
    <3>2. \A h : Place(pagedir', kpage', userPool', f, h) <=> h = x
      BY <2>2, <3>1
    <3>3. QED
      BY <3>2
  <2>3. QED
    BY <2>1, <2>2
<1>2. QED
  BY <1>1 DEF OnePlace

LEMMA Stay ==
    ASSUME OnePlace, UNCHANGED <<userPool, pagedir, kpage>>
    PROVE  OnePlace'
<1>1. ASSUME NEW f \in Frame
      PROVE  \E x : \A h : Place(pagedir', kpage', userPool', f, h) <=> h = x
  <2>1. PICK x : \A h : Place(pagedir, kpage, userPool, f, h) <=> h = x
    BY DEF OnePlace
  <2>2. QED
    BY <2>1
<1>2. QED
  BY <1>1 DEF OnePlace

LEMMA PlaceStep ==
    ASSUME VMAssumption, VMTypeOK, StageOK, EvictOK, MapOK, OnePlace, NEW p \in Proc, StepOf(p)
    PROVE  OnePlace'
<1>1. /\ StageSays(p) /\ None \notin Frame /\ p # None
      /\ kpage \in [Proc -> Frame \cup {None}] /\ userPool \subseteq Frame
  BY VMTypes DEF VMTypeOK, StageOK
<1>2. CASE UNCHANGED <<userPool, pagedir, kpage>>
  BY <1>2, Stay
<1>3. CASE Quiet(p) \/ Reads(p) \/ VictimFails(p) \/ SwapWrite(p) \/ UserWrite(p)
  BY <1>2, <1>3 DEF Quiet, Reads, VictimFails, SwapWrite, UserWrite, tables
<1>4. CASE SwapOut(p) \/ FrameTableFree(p)
  BY <1>2, <1>4 DEF SwapOut, FrameTableFree
<1>5. CASE PallocGetPage(p)
  <2>1. PICK g \in userPool : userPool' = userPool \ {g} /\ kpage' = [kpage EXCEPT ![p] = g]
    BY <1>5 DEF PallocGetPage
  <2>2. g \in Frame /\ kpage[p] = None /\ pagedir' = pagedir
    BY <1>1, <1>5 DEF PallocGetPage, StageSays, HasFrame, tables
  <2>3. kpage'[p] = g /\ \A q \in Proc \ {p} : kpage'[q] = kpage[q]
    BY <1>1, <2>1
  <2>4. \A h : Place(pagedir', kpage', userPool', g, h) <=> h = p
    BY <2>1, <2>2, <2>3, Sole DEF Place
  <2>5. \A f \in Frame \ {g} : \A h :
          Place(pagedir', kpage', userPool', f, h) <=> Place(pagedir, kpage, userPool, f, h)
    BY <1>1, <2>1, <2>2, <2>3 DEF Place
  <2>6. QED
    BY <2>4, <2>5, Move
<1>6. CASE Victim(p)
  <2>1. PICK q \in Proc, pg \in Page :
           /\ pagedir[q][pg] \in Frame /\ kpage'[p] = pagedir[q][pg]
           /\ pagedir'[q][pg] = None /\ Elsewhere(pagedir', pagedir, q, pg)
    BY <1>6, VictimStep
  <2> DEFINE g == pagedir[q][pg]
  <2>2. kpage[p] = None /\ userPool' = userPool /\ \E f : kpage' = [kpage EXCEPT ![p] = f]
    BY <1>1, <1>6 DEF Victim, StageSays, HasFrame
  <2>3. kpage'[p] = g /\ \A r \in Proc \ {p} : kpage'[r] = kpage[r]
    BY <1>1, <2>1, <2>2
  <2>4. g \in Frame /\ g # None
    BY <1>1, <2>1
  <2>5. /\ g \notin userPool /\ \A r \in Proc : kpage[r] # g
        /\ \A r \in Proc, y \in Page : pagedir'[r][y] # g
    <3>1. /\ g \notin userPool /\ \A r \in Proc : kpage[r] # g
          /\ \A r \in Proc, y \in Page : pagedir[r][y] = g => r = q /\ y = pg
      BY <2>4, Sole
    <3>2. QED
      BY <2>1, <2>4, <3>1 DEF Elsewhere
  <2>6. \A h : Place(pagedir', kpage', userPool', g, h) <=> h = p
    BY <2>2, <2>3, <2>5 DEF Place
  <2>7. \A f \in Frame \ {g} : \A r \in Proc, y \in Page : pagedir'[r][y] = f <=> pagedir[r][y] = f
    BY <1>1, <2>1 DEF Elsewhere
  <2>8. \A f \in Frame \ {g} : \A h :
          Place(pagedir', kpage', userPool', f, h) <=> Place(pagedir, kpage, userPool, f, h)
    BY <1>1, <2>2, <2>3, <2>7 DEF Place
  <2>9. QED
    BY <2>6, <2>8, Move
<1>7. CASE Fails(p)
  <2>0. PICK g \in Frame : g = kpage[p]
    BY <1>1, <1>7 DEF Fails, StageSays, HasFrame
  <2>1. /\ kpage' = [kpage EXCEPT ![p] = None] /\ userPool' = userPool \cup {g}
        /\ pagedir' = pagedir
    BY <1>7, <2>0 DEF Fails, LoadFails, PallocFreePage, tables
  <2>2. g \in Frame /\ kpage[p] = g
    BY <2>0
  <2>3. kpage'[p] = None /\ \A r \in Proc \ {p} : kpage'[r] = kpage[r]
    BY <1>1, <2>1
  <2>4. \A r \in Proc : kpage'[r] # g
    BY <1>1, <2>2, <2>3, Sole
  <2>5. \A r \in Proc, y \in Page : pagedir'[r][y] # g
    BY <2>1, <2>2, Sole
  <2>6. \A h : Place(pagedir', kpage', userPool', g, h) <=> h = "pool"
    BY <2>1, <2>4, <2>5 DEF Place
  <2>7. \A f \in Frame \ {g} : \A h :
          Place(pagedir', kpage', userPool', f, h) <=> Place(pagedir, kpage, userPool, f, h)
    <3>1. ASSUME NEW f \in Frame \ {g}
          PROVE  /\ f \in userPool' <=> f \in userPool
                 /\ \A q \in Proc : kpage'[q] = f <=> kpage[q] = f
      BY <1>1, <2>1, <2>2, <2>3
    <3>2. QED
      BY <2>1, <3>1 DEF Place
  <2>8. QED
    BY <2>6, <2>7, Move
<1>8. CASE Maps(p) \/ SwapIn(p)
  <2>0. PICK g \in Frame, pg \in Page : g = kpage[p] /\ pg = upage[p]
    BY <1>8, Mapping
  <2>1. /\ g = kpage[p] /\ pg = upage[p] /\ g \in Frame /\ pg \in Page /\ kpage' = [kpage EXCEPT ![p] = None]
        /\ pagedir'[p][pg] = g /\ Elsewhere(pagedir', pagedir, p, pg)
    BY <1>8, <2>0, Mapping
  <2>2. userPool' = userPool
    BY <1>8 DEF Maps, SwapIn
  <2>3. pagedir[p][pg] = None
    <3>1. pc[p] # "destroy"
      BY <1>8, Mapping
    <3>2. pagetable[p][pg] # Resident
      BY <1>8, <2>1, VMTypes DEF Maps, SwapIn
    <3>3. QED
      BY <2>1, <3>1, <3>2 DEF MapOK
  <2>4. kpage'[p] = None /\ \A r \in Proc \ {p} : kpage'[r] = kpage[r]
    BY <1>1, <2>1
  <2>5. /\ g \notin userPool' /\ \A r \in Proc : kpage'[r] # g
        /\ \A r \in Proc, y \in Page : pagedir[r][y] # g
    BY <1>1, <2>1, <2>2, <2>4, Sole
  <2>6. \A r \in Proc, y \in Page : pagedir'[r][y] = g <=> r = p /\ y = pg
    BY <2>1, <2>5 DEF Elsewhere
  <2>7. \A h : Place(pagedir', kpage', userPool', g, h) <=> h = <<p, pg>>
    <3>1. \A h : Place(pagedir', kpage', userPool', g, h) <=>
             \E r \in Proc, y \in Page : h = <<r, y>> /\ pagedir'[r][y] = g
      BY <2>5 DEF Place
    <3>2. pagedir'[p][pg] = g /\ p \in Proc /\ pg \in Page
      BY <2>1
    <3>3. ASSUME NEW h, Place(pagedir', kpage', userPool', g, h) PROVE h = <<p, pg>>
      <4>1. PICK r \in Proc, y \in Page : h = <<r, y>> /\ pagedir'[r][y] = g
        BY <3>1, <3>3
      <4>2. r = p /\ y = pg
        BY <2>6, <4>1
      <4>3. QED
        BY <4>1, <4>2
    <3>4. ASSUME NEW h, h = <<p, pg>> PROVE Place(pagedir', kpage', userPool', g, h)
      BY <3>1, <3>2, <3>4
    <3>5. QED
      BY <3>3, <3>4
  <2>8. \A f \in Frame \ {g} : \A r \in Proc, y \in Page : pagedir'[r][y] = f <=> pagedir[r][y] = f
    BY <1>1, <2>1, <2>3 DEF Elsewhere
  <2>9. \A f \in Frame \ {g} : \A h :
          Place(pagedir', kpage', userPool', f, h) <=> Place(pagedir, kpage, userPool, f, h)
    <3>1. ASSUME NEW f \in Frame \ {g}
          PROVE  \A q \in Proc : kpage'[q] = f <=> kpage[q] = f
      BY <1>1, <2>1, <2>4
    <3>2. QED
      BY <2>2, <2>8, <3>1 DEF Place
  <2>10. PICK k : k = <<p, pg>>
    OBVIOUS
  <2>11. \A h : Place(pagedir', kpage', userPool', g, h) <=> h = k
    BY <2>7, <2>10
  <2>12. ASSUME NEW x, \A h : Place(pagedir', kpage', userPool', x, h) <=> h = k,
                \A f \in Frame \ {x} : \A h :
                   Place(pagedir', kpage', userPool', f, h) <=> Place(pagedir, kpage, userPool, f, h)
         PROVE  OnePlace'
    BY <2>12, Move
  <2>13. QED
    BY <2>9, <2>11, <2>12
<1>9. CASE PagedirDestroy(p)
  <2>1. CASE pc' = pc
    <3>1. PICK pg \in Page :
             /\ pagedir[p][pg] \in Frame /\ PallocFreePage(pagedir[p][pg])
             /\ pagedir'[p][pg] = None /\ Elsewhere(pagedir', pagedir, p, pg)
      BY <1>9, <2>1, PagedirDestroyStep
    <3> DEFINE g == pagedir[p][pg]
    <3>2. kpage' = kpage /\ userPool' = userPool \cup {g} /\ g \in Frame
      BY <1>9, <3>1 DEF PagedirDestroy, PallocFreePage
    <3>3. /\ \A r \in Proc : kpage[r] # g
          /\ \A r \in Proc, y \in Page : pagedir[r][y] = g => r = p /\ y = pg
      BY <3>2, Sole
    <3>4. \A r \in Proc, y \in Page : pagedir'[r][y] # g
      BY <1>1, <3>1, <3>3 DEF Elsewhere
    <3>5. \A h : Place(pagedir', kpage', userPool', g, h) <=> h = "pool"
      BY <3>2, <3>3, <3>4 DEF Place
    <3>6. \A f \in Frame \ {g} : \A r \in Proc, y \in Page : pagedir'[r][y] = f <=> pagedir[r][y] = f
      BY <1>1, <3>1 DEF Elsewhere
    <3>7. \A f \in Frame \ {g} : \A h :
            Place(pagedir', kpage', userPool', f, h) <=> Place(pagedir, kpage, userPool, f, h)
      BY <3>2, <3>6 DEF Place
    <3>8. QED
      BY <3>5, <3>7, Move
  <2>2. CASE pc' # pc
    BY <1>2, <1>9, <2>2 DEF PagedirDestroy
  <2>3. QED
    BY <2>1, <2>2
<1>10. QED
  BY <1>3, <1>4, <1>5, <1>6, <1>7, <1>8, <1>9, StepCases

-----------------------------------------------------------------------------
(* The slots.                                                              *)
Entries(use, table) ==
    \A s : s \in use <=> s \in Slot /\ \E q \in Proc, x \in Page : table[q][x] = s
OneEntry(table) ==
    \A q, r \in Proc, x, y \in Page :
        table[q][x] \in Slot /\ table[q][x] = table[r][y] => q = r /\ x = y
Ended(table, stage) == \A q \in Proc : stage[q] \in {"destroy", "dead"} => table[q] = NoPages

LEMMA EntriesAsPairs ==
    ASSUME NEW use, NEW table
    PROVE  LET swapped == {x \in Proc \X Page : table[x[1]][x[2]] \in Slot}
           IN  /\ use = {table[x[1]][x[2]] : x \in swapped} <=> Entries(use, table)
               /\ (\A x, y \in swapped : table[x[1]][x[2]] = table[y[1]][y[2]] => x = y)
                     <=> OneEntry(table)
<1> DEFINE swapped == {x \in Proc \X Page : table[x[1]][x[2]] \in Slot}
<1>1. \A x \in Proc \X Page : x[1] \in Proc /\ x[2] \in Page /\ x = <<x[1], x[2]>>
  OBVIOUS
<1>2. \A q \in Proc, pg \in Page :
         /\ <<q, pg>> \in Proc \X Page /\ <<q, pg>>[1] = q /\ <<q, pg>>[2] = pg
         /\ <<q, pg>> \in swapped <=> table[q][pg] \in Slot
  OBVIOUS
<1>3. \A s : s \in {table[x[1]][x[2]] : x \in swapped}
               <=> s \in Slot /\ \E q \in Proc, x \in Page : table[q][x] = s
  <2>1. ASSUME NEW s \in {table[x[1]][x[2]] : x \in swapped}
        PROVE  s \in Slot /\ \E q \in Proc, x \in Page : table[q][x] = s
    BY <1>1, <2>1
  <2>2. ASSUME NEW s \in Slot, NEW q \in Proc, NEW x \in Page, table[q][x] = s
        PROVE  s \in {table[y[1]][y[2]] : y \in swapped}
    <3>1. PICK y \in Proc \X Page : y = <<q, x>>
      BY <1>2
    <3>2. y[1] = q /\ y[2] = x
      BY <3>1
    <3>3. y \in swapped /\ table[y[1]][y[2]] = s
      BY <2>2, <3>2
    <3>4. QED
      BY <3>3
  <2>3. QED
    BY <2>1, <2>2
<1>4. use = {table[x[1]][x[2]] : x \in swapped} <=> Entries(use, table)
  <2>1. use = {table[x[1]][x[2]] : x \in swapped} <=>
           \A s : s \in use <=> s \in {table[x[1]][x[2]] : x \in swapped}
    OBVIOUS
  <2>2. QED
    BY <1>3, <2>1 DEF Entries
<1>5. (\A x, y \in swapped : table[x[1]][x[2]] = table[y[1]][y[2]] => x = y) => OneEntry(table)
  <2>1. SUFFICES ASSUME \A x, y \in swapped : table[x[1]][x[2]] = table[y[1]][y[2]] => x = y,
                        NEW q \in Proc, NEW r \in Proc, NEW x \in Page, NEW y \in Page,
                        table[q][x] \in Slot, table[q][x] = table[r][y]
                 PROVE  q = r /\ x = y
    BY DEF OneEntry
  <2>2. <<q, x>> \in swapped /\ <<r, y>> \in swapped
    BY <1>2, <2>1
  <2>3. <<q, x>> = <<r, y>>
    BY <1>2, <2>1, <2>2
  <2>4. QED
    BY <2>3
<1>6. OneEntry(table) => \A x, y \in swapped : table[x[1]][x[2]] = table[y[1]][y[2]] => x = y
  BY <1>1 DEF OneEntry
<1>7. QED
  BY <1>4, <1>5, <1>6

LEMMA SlotsAre ==
    /\ SlotsAreEntries <=> Entries(dUse, pagetable) /\ OneEntry(pagetable) /\ Ended(pagetable, pc)
    /\ SlotsAreEntries' <=> Entries(dUse', pagetable') /\ OneEntry(pagetable') /\ Ended(pagetable', pc')
<1>1. SlotsAreEntries <=> Entries(dUse, pagetable) /\ OneEntry(pagetable) /\ Ended(pagetable, pc)
  BY EntriesAsPairs DEF SlotsAreEntries, Swapped, Ended
<1>2. SlotsAreEntries' <=> Entries(dUse', pagetable') /\ OneEntry(pagetable') /\ Ended(pagetable', pc')
  BY EntriesAsPairs DEF SlotsAreEntries, Swapped, Ended
<1>3. QED
  BY <1>1, <1>2

LEMMA SlotsStep ==
    ASSUME VMAssumption, VMTypeOK, StageOK, EvictOK, SlotsAreEntries, NEW p \in Proc, StepOf(p)
    PROVE  SlotsAreEntries'
<1>1. /\ pc \in [Proc -> Stage] /\ Resident \notin Slot /\ None \notin Slot
      /\ dUse \subseteq Slot /\ pagetable \in [Proc -> [Page -> Slot \cup {Resident, None}]]
  BY VMTypes DEF VMTypeOK
<1>2. \A q \in Proc \ {p} : pc'[q] = pc[q]
  BY OthersStay
<1>3. Entries(dUse, pagetable) /\ OneEntry(pagetable) /\ Ended(pagetable, pc)
  BY SlotsAre
<1>4. ASSUME UNCHANGED <<dUse, pagetable>>,
             pc'[p] \in {"destroy", "dead"} => pc[p] \in {"destroy", "dead"}
      PROVE  SlotsAreEntries'
  BY <1>2, <1>3, <1>4, SlotsAre DEF Ended
<1>5. CASE Quiet(p) \/ Fails(p) \/ Reads(p)
  BY <1>4, <1>5 DEF Quiet, Fails, LoadFails, Reads, tables, swap
<1>6. CASE PallocGetPage(p) \/ Victim(p) \/ VictimFails(p) \/ SwapWrite(p) \/ UserWrite(p)
  BY <1>1, <1>4, <1>6
     DEF PallocGetPage, Victim, VictimFails, SwapWrite, UserWrite, tables, swap, Goto
<1>7. CASE PagedirDestroy(p)
  BY <1>4, <1>7 DEF PagedirDestroy, swap
<1>8. CASE SwapOut(p) /\ dUse = Slot
  BY <1>1, <1>4, <1>8 DEF SwapOut
<1>9. CASE SwapOut(p) /\ dUse # Slot
  <2>1. PICK q \in Proc, pg \in Page, s \in Slot :
           /\ pc[q] # "destroy" /\ pagetable[q][pg] = Resident
           /\ s \notin dUse /\ dUse' = dUse \cup {s}
           /\ pagetable'[q][pg] = s /\ Elsewhere(pagetable', pagetable, q, pg)
           /\ \A r \in Proc \ {q} : pagetable'[r] = pagetable[r]
    BY <1>9, SwapOutStep
  <2>2. Entries(dUse', pagetable')
    BY <1>1, <1>3, <2>1 DEF Entries, Elsewhere
  <2>3. OneEntry(pagetable')
    BY <1>1, <1>3, <2>1 DEF Entries, OneEntry, Elsewhere
  <2>4. Ended(pagetable', pc')
    <3>1. \A x \in Page : NoPages[x] = None
      BY DEF NoPages
    <3>2. pagetable[q] # NoPages
      BY <1>1, <2>1, <3>1, VMTypes
    <3>3. \A r \in Proc \ {q} : pagetable'[r] = pagetable[r]
      BY <2>1
    <3>4. pc'[p] \notin {"destroy", "dead"}
      BY <1>1, <1>9 DEF SwapOut, Goto
    <3>5. QED
      BY <1>2, <1>3, <3>2, <3>3, <3>4 DEF Ended
  <2>5. QED
    BY <2>2, <2>3, <2>4, SlotsAre
<1>10. CASE Maps(p) \/ SwapIn(p)
  <2>1. PICK pg \in Page :
           /\ pagetable'[p][pg] = Resident /\ Elsewhere(pagetable', pagetable, p, pg)
           /\ pg = upage[p]
    BY <1>10, Mapping
  <2>2. Entries(dUse', pagetable') /\ OneEntry(pagetable')
    <3>1. CASE Maps(p)
      <4>1. dUse' = dUse /\ pagetable[p][pg] \notin Slot
        BY <1>1, <2>1, <3>1 DEF Maps, swap
      <4>2. \A s \in Slot : \A q \in Proc, x \in Page :
               pagetable'[q][x] = s <=> pagetable[q][x] = s
        BY <1>1, <2>1, <4>1 DEF Elsewhere
      <4>3. QED
        BY <1>3, <4>1, <4>2 DEF Entries, OneEntry
    <3>2. CASE SwapIn(p)
      <4>1. PICK s \in Slot : s = pagetable[p][pg] /\ dUse' = dUse \ {s}
        BY <2>1, <3>2 DEF SwapIn
      <4>2. \A q \in Proc, x \in Page :
               pagetable'[q][x] = pagetable[q][x] \/ (q = p /\ x = pg /\ pagetable'[q][x] \notin Slot)
        BY <1>1, <2>1 DEF Elsewhere
      <4>3. \A q \in Proc, x \in Page : pagetable[q][x] = s => q = p /\ x = pg
        BY <1>3, <4>1 DEF OneEntry
      <4>4. Entries(dUse', pagetable')
        BY <1>1, <1>3, <2>1, <4>1, <4>2, <4>3 DEF Entries, Elsewhere
      <4>5. OneEntry(pagetable')
        BY <1>3, <4>2 DEF OneEntry
      <4>6. QED
        BY <4>4, <4>5
    <3>3. QED
      BY <1>10, <3>1, <3>2
  <2>3. Ended(pagetable', pc')
    <3>1. pagetable' = [pagetable EXCEPT ![p][pg] = Resident]
      BY <1>10, <2>1 DEF Maps, SwapIn, MapPage
    <3>2. \A q \in Proc \ {p} : pagetable'[q] = pagetable[q]
      BY <1>1, <3>1
    <3>3. pc'[p] \notin {"destroy", "dead"}
      BY <1>10, Mapping
    <3>4. QED
      BY <1>2, <1>3, <3>2, <3>3 DEF Ended
  <2>4. QED
    BY <2>2, <2>3, SlotsAre
<1>11. CASE FrameTableFree(p)
  <2>1. CASE pc'[p] = "freeing"
    BY <1>4, <1>11, <2>1, FrameRemoveStep DEF FrameTableFree
  <2>2. CASE pc'[p] # "freeing"
    <3>1. /\ pc'[p] = "destroy" /\ dUse' = dUse \ {pagetable[p][pg] : pg \in Page}
          /\ pagetable' = [pagetable EXCEPT ![p] = NoPages]
      BY <1>11, <2>2, TableFreeStep
    <3>2. /\ pagetable'[p] = NoPages /\ \A q \in Proc \ {p} : pagetable'[q] = pagetable[q]
          /\ \A x \in Page : pagetable'[p][x] \notin Slot
      BY <1>1, <3>1 DEF NoPages
    <3>3. \A s : s \in dUse' => s \in Slot /\ \E q \in Proc, x \in Page : pagetable'[q][x] = s
      <4>1. ASSUME NEW s \in dUse'
            PROVE s \in Slot /\ \E q \in Proc, x \in Page : pagetable'[q][x] = s
        <5>1. s \in Slot /\ \A x \in Page : pagetable[p][x] # s
          BY <1>1, <3>1, <4>1
        <5>2. PICK q \in Proc, x \in Page : pagetable[q][x] = s
          BY <1>3, <3>1, <4>1 DEF Entries
        <5>3. QED
          BY <3>2, <5>1, <5>2
      <4>2. QED
        BY <4>1
    <3>4. ASSUME NEW s \in Slot, NEW q \in Proc, NEW x \in Page, pagetable'[q][x] = s
          PROVE s \in dUse'
      <4>1. q # p /\ pagetable[q][x] = s
        BY <3>2, <3>4
      <4>2. s \in dUse
        BY <1>3, <3>4, <4>1 DEF Entries
      <4>3. \A y \in Page : pagetable[p][y] # s
        BY <1>3, <3>4, <4>1 DEF OneEntry
      <4>4. QED
        BY <3>1, <4>2, <4>3
    <3>5. OneEntry(pagetable')
      BY <1>3, <3>2 DEF OneEntry
    <3>6. Ended(pagetable', pc')
      BY <1>2, <1>3, <3>2 DEF Ended
    <3>7. QED
      BY <3>3, <3>4, <3>5, <3>6, SlotsAre DEF Entries
  <2>3. QED
    BY <2>1, <2>2
<1>12. QED
  BY <1>5, <1>6, <1>7, <1>8, <1>9, <1>10, <1>11, StepCases

-----------------------------------------------------------------------------
(* The frame list.                                                         *)
LEMMA RemoveAtSet ==
    ASSUME NEW S, NEW list \in Seq(S), NEW k \in DOMAIN list, NoDuplicates(list)
    PROVE  /\ ToSet(RemoveAt(list, k)) \subseteq ToSet(list)
           /\ ToSet(list) \ {list[k]} \subseteq ToSet(RemoveAt(list, k))
           /\ NoDuplicates(RemoveAt(list, k))
<1> DEFINE r == RemoveAt(list, k)
           n == Len(list)
<1>1. n \in Nat /\ k \in 1 .. n /\ DOMAIN list = 1 .. n
  OBVIOUS
<1>2. r \in Seq(S) /\ Len(r) = n - 1
      /\ \A i \in 1 .. n - 1 : r[i] = IF i < k THEN list[i] ELSE list[i + 1]
  BY <1>1, RemoveAtFacts
<1>3. DOMAIN r = 1 .. n - 1
  BY <1>1, <1>2
<1> HIDE DEF r
<1>4. \A i \in DOMAIN r : \E j \in DOMAIN list : r[i] = list[j]
  BY <1>1, <1>2, <1>3
<1>5. ASSUME NEW j \in DOMAIN list, j # k PROVE \E i \in DOMAIN r : r[i] = list[j]
  <2>1. CASE j < k
    BY <1>1, <1>2, <1>3, <2>1
  <2>2. CASE j > k
    <3>1. j - 1 \in 1 .. n - 1 /\ ~(j - 1 < k) /\ (j - 1) + 1 = j
      BY <1>1, <2>2
    <3>2. r[j - 1] = list[j]
      BY <1>2, <3>1
    <3>3. QED
      BY <1>3, <3>1, <3>2
  <2>3. QED
    BY <1>1, <1>5, <2>1, <2>2
<1>6. NoDuplicates(r)
  <2>1. SUFFICES ASSUME NEW i \in DOMAIN r, NEW j \in DOMAIN r, r[i] = r[j] PROVE i = j
    BY DEF NoDuplicates
  <2>2. i \in 1 .. n - 1 /\ j \in 1 .. n - 1
    BY <1>3
  <2>3. \A a, b \in 1 .. n : list[a] = list[b] => a = b
    BY <1>1 DEF NoDuplicates
  <2>4. QED
    BY <1>1, <1>2, <2>1, <2>2, <2>3
<1>7. QED
  BY <1>4, <1>5, <1>6 DEF ToSet, r

LEMMA ListStep ==
    ASSUME VMAssumption, VMTypeOK, StageOK, EvictOK, MapOK, SlotsAreEntries, FrameListIsMapped,
           NEW p \in Proc, StepOf(p)
    PROVE  FrameListIsMapped'
<1>1. /\ pc \in [Proc -> Stage] /\ StageSays(p) /\ None # Resident /\ None \notin Frame
      /\ frameList \in Seq(Proc \X Page) /\ NoDuplicates(frameList) /\ panic # "unmapped"
  BY VMTypes DEF VMTypeOK, StageOK, FrameListIsMapped
<1>2. \A q \in Proc \ {p} : pc'[q] = pc[q]
  BY OthersStay
<1>3. ASSUME UNCHANGED <<frameList, pagedir>>, panic' # "unmapped",
             pc'[p] = "destroy" => pc[p] = "destroy",
             pc'[p] \notin {"freeing", "destroy"} => pc[p] \notin {"freeing", "destroy"}
      PROVE  FrameListIsMapped'
  <2>1. ASSUME NEW q \in Proc, NEW x \in Page
        PROVE  /\ <<q, x>> \in ToSet(frameList') => pagedir'[q][x] # None /\ pc'[q] # "destroy"
               /\ pagedir'[q][x] # None /\ pc'[q] \notin {"freeing", "destroy"}
                     => <<q, x>> \in ToSet(frameList')
    BY <1>2, <1>3 DEF FrameListIsMapped
  <2>2. NoDuplicates(frameList')
    BY <1>1, <1>3
  <2>3. QED
    BY <1>3, <2>1, <2>2 DEF FrameListIsMapped, NoDuplicates, ToSet
<1>4. CASE Quiet(p) \/ Fails(p) \/ Reads(p)
  BY <1>1, <1>3, <1>4 DEF Quiet, Fails, LoadFails, Reads, tables
<1>5. CASE PallocGetPage(p) \/ SwapOut(p) \/ SwapWrite(p) \/ UserWrite(p)
  BY <1>1, <1>3, <1>5 DEF PallocGetPage, SwapOut, SwapWrite, UserWrite, tables, Goto
<1>6. ASSUME frameList # <<>>
      PROVE  \E q \in Proc, pg \in Page :
                /\ Head(frameList) = <<q, pg>> /\ Head(frameList)[1] = q /\ Head(frameList)[2] = pg
                /\ <<q, pg>> \in ToSet(frameList)
                /\ pagedir[q][pg] # None /\ pagetable[q][pg] = Resident
  <2>1. Head(frameList) \in Proc \X Page /\ Head(frameList) \in ToSet(frameList)
    BY <1>1, <1>6, TailFacts
  <2>2. PICK q \in Proc, pg \in Page : Head(frameList) = <<q, pg>>
    BY <2>1
  <2>3. pagedir[q][pg] # None /\ pc[q] # "destroy"
    BY <2>1, <2>2 DEF FrameListIsMapped
  <2>4. QED
    BY <2>1, <2>2, <2>3 DEF MapOK
<1>7. CASE VictimFails(p)
  <2>1. panic' # "unmapped"
    BY <1>1, <1>6, <1>7 DEF VictimFails
  <2>2. QED
    BY <1>3, <1>7, <2>1 DEF VictimFails, tables
<1>8. CASE Victim(p)
  <2>1. PICK q \in Proc, pg \in Page :
           /\ Head(frameList) = <<q, pg>> /\ pagedir'[q][pg] = None
           /\ Elsewhere(pagedir', pagedir, q, pg)
    BY <1>8, VictimStep
  <2>2. /\ frameList # <<>> /\ frameList' = Tail(frameList) /\ panic' = panic
        /\ pc[p] = "frame" /\ pc'[p] = "evict"
    BY <1>1, <1>8 DEF Victim, Goto
  <2>3. ToSet(frameList') = ToSet(frameList) \ {<<q, pg>>} /\ NoDuplicates(frameList')
    BY <1>1, <2>1, <2>2, TailFacts
  <2>4. ASSUME NEW r \in Proc, NEW x \in Page
        PROVE  /\ <<r, x>> \in ToSet(frameList') => pagedir'[r][x] # None /\ pc'[r] # "destroy"
               /\ pagedir'[r][x] # None /\ pc'[r] \notin {"freeing", "destroy"}
                     => <<r, x>> \in ToSet(frameList')
    <3>1. /\ <<r, x>> \in ToSet(frameList) => pagedir[r][x] # None /\ pc[r] # "destroy"
          /\ pagedir[r][x] # None /\ pc[r] \notin {"freeing", "destroy"}
                => <<r, x>> \in ToSet(frameList)
      BY DEF FrameListIsMapped
    <3>2. pc'[r] = pc[r] \/ (r = p /\ pc[p] = "frame" /\ pc'[p] = "evict")
      BY <1>2, <2>2
    <3>3. CASE r = q /\ x = pg
      BY <2>1, <2>3, <3>3
    <3>4. CASE ~(r = q /\ x = pg)
      BY <2>1, <2>3, <3>1, <3>2, <3>4 DEF Elsewhere
    <3>5. QED
      BY <3>3, <3>4
  <2>5. QED
    BY <1>1, <2>2, <2>3, <2>4 DEF FrameListIsMapped, NoDuplicates, ToSet
<1>9. CASE Maps(p) \/ SwapIn(p)
  <2>1. PICK g \in Frame, pg \in Page :
           /\ pg = upage[p] /\ pc[p] \in {"install", "got"} /\ pc'[p] \in {"load", "user"}
           /\ pagedir'[p][pg] = g /\ Elsewhere(pagedir', pagedir, p, pg)
           /\ frameList' = Append(frameList, <<p, pg>>)
    BY <1>9, Mapping
  <2>2. pagetable[p][pg] # Resident /\ panic' = panic
    BY <1>9, <2>1, VMTypes DEF Maps, SwapIn
  <2>3. pagedir[p][pg] = None
    BY <2>1, <2>2 DEF MapOK
  <2>4. <<p, pg>> \notin ToSet(frameList) /\ <<p, pg>> \in Proc \X Page
    BY <2>3 DEF FrameListIsMapped
  <2>5. ToSet(frameList') = ToSet(frameList) \cup {<<p, pg>>} /\ NoDuplicates(frameList')
    <3>1. PICK e \in Proc \X Page : e = <<p, pg>>
      BY <2>4
    <3>2. frameList' = Append(frameList, e) /\ e \notin ToSet(frameList)
      BY <2>1, <2>4, <3>1
    <3>3. ToSet(frameList') = ToSet(frameList) \cup {e} /\ NoDuplicates(frameList')
      BY <1>1, <3>2, PushBackFacts
    <3>4. QED
      BY <3>1, <3>3
  <2>6. ASSUME NEW r \in Proc, NEW x \in Page
        PROVE  /\ <<r, x>> \in ToSet(frameList') => pagedir'[r][x] # None /\ pc'[r] # "destroy"
               /\ pagedir'[r][x] # None /\ pc'[r] \notin {"freeing", "destroy"}
                     => <<r, x>> \in ToSet(frameList')
    <3>1. /\ <<r, x>> \in ToSet(frameList) => pagedir[r][x] # None /\ pc[r] # "destroy"
          /\ pagedir[r][x] # None /\ pc[r] \notin {"freeing", "destroy"}
                => <<r, x>> \in ToSet(frameList)
      BY DEF FrameListIsMapped
    <3>2. pc'[r] = pc[r] \/ (r = p /\ pc[p] \in {"install", "got"} /\ pc'[p] \in {"load", "user"})
      BY <1>2, <2>1
    <3>3. CASE r = p /\ x = pg
      BY <1>1, <2>1, <2>5, <3>3
    <3>4. CASE ~(r = p /\ x = pg)
      BY <2>1, <2>5, <3>1, <3>2, <3>4 DEF Elsewhere
    <3>5. QED
      BY <3>3, <3>4
  <2>7. QED
    BY <1>1, <2>2, <2>5, <2>6 DEF FrameListIsMapped, NoDuplicates, ToSet
<1>10. CASE FrameTableFree(p)
  <2>1. UNCHANGED <<pagedir, panic>> /\ pc[p] = "freeing"
    BY <1>10 DEF FrameTableFree
  <2>2. CASE pc'[p] = "freeing"
    <3>1. PICK i \in DOMAIN frameList : frameList[i][1] = p /\ frameList' = RemoveAt(frameList, i)
      BY <1>10, <2>2, FrameRemoveStep
    <3>2. /\ ToSet(frameList') \subseteq ToSet(frameList)
          /\ ToSet(frameList) \ {frameList[i]} \subseteq ToSet(frameList')
          /\ NoDuplicates(frameList')
      BY <1>1, <3>1, RemoveAtSet
    <3>3. ASSUME NEW r \in Proc, NEW x \in Page
          PROVE  /\ <<r, x>> \in ToSet(frameList') => pagedir'[r][x] # None /\ pc'[r] # "destroy"
                 /\ pagedir'[r][x] # None /\ pc'[r] \notin {"freeing", "destroy"}
                       => <<r, x>> \in ToSet(frameList')
      <4>1. pc'[r] = pc[r]
        BY <1>2, <2>1, <2>2
      <4>2. r # p => <<r, x>> # frameList[i]
        BY <3>1
      <4>3. QED
        BY <2>1, <3>2, <4>1, <4>2 DEF FrameListIsMapped
    <3>4. QED
      BY <1>1, <2>1, <3>2, <3>3 DEF FrameListIsMapped, NoDuplicates, ToSet
  <2>3. CASE pc'[p] # "freeing"
    <3>1. frameList' = frameList /\ pc'[p] = "destroy" /\ \A i \in DOMAIN frameList : frameList[i][1] # p
      BY <1>10, <2>3, TableFreeStep
    <3>2. \A x \in Page : <<p, x>> \notin ToSet(frameList)
      BY <3>1 DEF ToSet
    <3>3. ASSUME NEW r \in Proc, NEW x \in Page
          PROVE  /\ <<r, x>> \in ToSet(frameList) => pagedir'[r][x] # None /\ pc'[r] # "destroy"
                 /\ pagedir'[r][x] # None /\ pc'[r] \notin {"freeing", "destroy"}
                       => <<r, x>> \in ToSet(frameList)
      BY <1>2, <2>1, <3>1, <3>2 DEF FrameListIsMapped
    <3>4. QED
      BY <1>1, <2>1, <3>1, <3>3 DEF FrameListIsMapped, NoDuplicates, ToSet
  <2>4. QED
    BY <2>2, <2>3
<1>11. CASE PagedirDestroy(p)
  <2>1. UNCHANGED <<frameList, panic>> /\ pc[p] = "destroy" /\ pc'[p] \in {"destroy", "dead"}
    BY <1>1, <1>11 DEF PagedirDestroy, Goto
  <2>2. \A q \in Proc \ {p}, x \in Page : pagedir'[q][x] = pagedir[q][x]
    <3>1. CASE pc' = pc
      BY <1>11, <3>1, PagedirDestroyStep DEF Elsewhere
    <3>2. CASE pc' # pc
      BY <1>11, <3>2 DEF PagedirDestroy
    <3>3. QED
      BY <3>1, <3>2
  <2>3. pc'[p] = "dead" => \A x \in Page : pagedir'[p][x] = None
    <3>1. ASSUME pc'[p] = "dead" PROVE pagedir' = pagedir /\ pagedir[p] = NoPages
      BY <2>1, <3>1, <1>11 DEF PagedirDestroy
    <3>2. QED
      BY <3>1 DEF NoPages
  <2>4. ASSUME NEW r \in Proc, NEW x \in Page
        PROVE  /\ <<r, x>> \in ToSet(frameList) => pagedir'[r][x] # None /\ pc'[r] # "destroy"
               /\ pagedir'[r][x] # None /\ pc'[r] \notin {"freeing", "destroy"}
                     => <<r, x>> \in ToSet(frameList)
    <3>1. CASE r = p
      BY <2>1, <2>3, <3>1 DEF FrameListIsMapped
    <3>2. CASE r # p
      BY <1>2, <2>2, <3>2 DEF FrameListIsMapped
    <3>3. QED
      BY <3>1, <3>2
  <2>5. QED
    BY <1>1, <2>1, <2>4 DEF FrameListIsMapped, NoDuplicates, ToSet
<1>12. QED
  BY <1>4, <1>5, <1>7, <1>8, <1>9, <1>10, <1>11, StepCases

-----------------------------------------------------------------------------
(* The contents.                                                           *)
LEMMA ContentStep ==
    ASSUME VMAssumption, VMTypeOK, StageOK, EvictOK, MapOK, OnePlace, ContentOK,
           NEW p \in Proc, StepOf(p)
    PROVE  ContentOK'
<1>1. /\ pc \in [Proc -> Stage] /\ StageSays(p) /\ None \notin Frame
      /\ data \in [Frame -> Value \cup {Freed}] /\ swapDisk \in [Slot -> Value]
      /\ userPool \subseteq Frame /\ kpage \in [Proc -> Frame \cup {None}] /\ Zero \in Value
      /\ pagedir \in [Proc -> [Page -> Frame \cup {None}]]
  BY VMTypes DEF VMTypeOK, StageOK, VMAssumption
<1>2. \A q \in Proc \ {p} : pc'[q] = pc[q] /\ upage'[q] = upage[q] /\ kpage'[q] = kpage[q]
  BY OthersStay
<1>3. \A q \in Proc : Filled(q) => kpage[q] \in Frame /\ data[kpage[q]] \in Value
  BY <1>1 DEF ContentOK, StageOK, StageSays, Filled, HasFrame
<1>4. \A q \in Proc \ {p} : Filled(q)' <=> Filled(q)
  BY <1>2 DEF Filled
<1>5. \A q \in Proc, x \in Page : pagedir[q][x] # None =>
         pagedir[q][x] \in Frame /\ data[pagedir[q][x]] \in Value
  BY <1>1 DEF ContentOK
<1>6. ASSUME \A q \in Proc, x \in Page : pagedir'[q][x] # None => data'[pagedir'[q][x]] \in Value,
             \A q \in Proc \ {p} : Filled(q) => data'[kpage[q]] \in Value,
             Filled(p)' => data'[kpage'[p]] \in Value
      PROVE  ContentOK'
  <2>1. \A q \in Proc : Filled(q)' => data'[kpage'[q]] \in Value
    BY <1>2, <1>4, <1>6
  <2>2. QED
    BY <1>6, <2>1 DEF ContentOK
<1>7. ASSUME \A f \in Frame : data[f] \in Value => data'[f] \in Value,
             \A q \in Proc, x \in Page : pagedir'[q][x] \in {None, pagedir[q][x]},
             Filled(p)' => data'[kpage'[p]] \in Value
      PROVE  ContentOK'
  <2>1. \A q \in Proc, x \in Page : pagedir'[q][x] # None => data'[pagedir'[q][x]] \in Value
    BY <1>5, <1>7
  <2>2. \A q \in Proc \ {p} : Filled(q) => data'[kpage[q]] \in Value
    BY <1>3, <1>7
  <2>3. QED
    BY <1>6, <1>7, <2>1, <2>2
<1>8. ASSUME NEW g \in Frame, data' = [data EXCEPT ![g] = Freed], ~Filled(p)',
             \A q \in Proc, x \in Page : pagedir'[q][x] \in {None, pagedir[q][x]} \ {g},
             \A q \in Proc \ {p} : kpage[q] # g
      PROVE  ContentOK'
  <2>1. \A f \in Frame \ {g} : data'[f] = data[f]
    BY <1>1, <1>8
  <2>2. \A q \in Proc, x \in Page : pagedir'[q][x] # None => data'[pagedir'[q][x]] \in Value
    BY <1>5, <1>8, <2>1
  <2>3. \A q \in Proc \ {p} : Filled(q) => data'[kpage[q]] \in Value
    BY <1>3, <1>8, <2>1
  <2>4. QED
    BY <1>6, <1>8, <2>2, <2>3
<1>9. CASE Quiet(p) \/ FrameTableFree(p) \/ VictimFails(p)
  <2>1. UNCHANGED <<data, pagedir>>
    BY <1>9 DEF Quiet, FrameTableFree, VictimFails, tables
  <2>2. ~Filled(p)'
    BY <1>1, <1>9 DEF Quiet, FrameTableFree, VictimFails, Filled, Goto
  <2>3. QED
    BY <1>7, <2>1, <2>2
<1>10. CASE SwapOut(p) \/ SwapWrite(p)
  <2>1. UNCHANGED <<data, pagedir, kpage>> /\ Filled(p)
    BY <1>10 DEF SwapOut, SwapWrite, tables, Filled
  <2>2. QED
    BY <1>3, <1>7, <2>1
<1>11. CASE Reads(p)
  <2>1. PICK v \in Value : data' = [data EXCEPT ![kpage[p]] = v]
    BY <1>11 DEF Reads
  <2>2. pagedir' = pagedir /\ kpage' = kpage /\ kpage[p] \in Frame
    BY <1>1, <1>11 DEF Reads, StageSays, HasFrame, tables
  <2>3. QED
    BY <1>1, <1>7, <2>1, <2>2
<1>12. CASE PallocGetPage(p)
  <2>1. PICK f \in userPool :
           /\ kpage' = [kpage EXCEPT ![p] = f]
           /\ data' = IF upage[p] \in Segment /\ pagetable[p][upage[p]] = None
                       THEN data ELSE [data EXCEPT ![f] = Zero]
    BY <1>12 DEF PallocGetPage
  <2>2. f \in Frame /\ kpage'[p] = f /\ pagedir' = pagedir /\ upage' = upage /\ pc'[p] = "got"
    BY <1>1, <1>12, <2>1 DEF PallocGetPage, tables, Goto
  <2>3. \A g \in Frame : data[g] \in Value => data'[g] \in Value
    BY <1>1, <2>1, <2>2
  <2>4. Filled(p)' => data'[kpage'[p]] \in Value
    BY <1>1, <2>1, <2>2 DEF Filled
  <2>5. QED
    BY <1>7, <2>2, <2>3, <2>4
<1>13. CASE Victim(p)
  <2>1. PICK q \in Proc, pg \in Page :
           /\ pagedir[q][pg] \in Frame /\ kpage'[p] = pagedir[q][pg]
           /\ pagedir'[q][pg] = None /\ Elsewhere(pagedir', pagedir, q, pg)
    BY <1>13, VictimStep
  <2>2. data' = data
    BY <1>13 DEF Victim
  <2>3. data'[kpage'[p]] \in Value
    BY <1>1, <1>5, <2>1, <2>2
  <2>4. QED
    BY <1>7, <2>1, <2>2, <2>3 DEF Elsewhere
<1>14. CASE UserWrite(p)
  <2>1. PICK q \in Page, v \in Value :
           pagedir[p][q] # None /\ data' = [data EXCEPT ![pagedir[p][q]] = v]
    BY <1>14 DEF UserWrite
  <2>2. pagedir' = pagedir /\ ~Filled(p)'
    BY <1>14 DEF UserWrite, tables, Filled
  <2>3. QED
    BY <1>1, <1>7, <2>1, <2>2
<1>15. CASE Fails(p)
  <2>1. /\ data' = [data EXCEPT ![kpage[p]] = Freed] /\ pagedir' = pagedir
        /\ kpage[p] \in Frame /\ ~Filled(p)'
    BY <1>1, <1>15 DEF Fails, LoadFails, PallocFreePage, tables, Filled, StageSays, HasFrame
  <2>2. PICK g \in Frame : g = kpage[p]
    BY <2>1
  <2>3. /\ \A q \in Proc, x \in Page : pagedir[q][x] # g
        /\ \A q \in Proc \ {p} : kpage[q] # g
    BY <2>2, Sole
  <2>4. QED
    BY <1>8, <2>1, <2>2, <2>3
<1>16. CASE PagedirDestroy(p)
  <2>1. kpage' = kpage /\ ~Filled(p)'
    BY <1>1, <1>16 DEF PagedirDestroy, Filled, Goto
  <2>2. CASE pc' = pc
    <3>1. PICK pg \in Page :
             /\ pagedir[p][pg] \in Frame /\ PallocFreePage(pagedir[p][pg])
             /\ pagedir'[p][pg] = None /\ Elsewhere(pagedir', pagedir, p, pg)
      BY <1>16, <2>2, PagedirDestroyStep
    <3>2. PICK g \in Frame : g = pagedir[p][pg]
      BY <3>1
    <3>3. /\ \A r \in Proc : kpage[r] # g
          /\ \A r \in Proc, y \in Page : pagedir[r][y] = g => r = p /\ y = pg
      BY <3>2, Sole
    <3>4. \A q \in Proc, x \in Page : pagedir'[q][x] \in {None, pagedir[q][x]} \ {g}
      BY <1>1, <3>1, <3>2, <3>3 DEF Elsewhere
    <3>5. QED
      BY <1>8, <2>1, <3>1, <3>2, <3>3, <3>4 DEF PallocFreePage
  <2>3. CASE pc' # pc
    BY <1>7, <1>16, <2>1, <2>3 DEF PagedirDestroy
  <2>4. QED
    BY <2>2, <2>3
<1>17. CASE Maps(p) \/ SwapIn(p)
  <2>1. PICK g \in Frame, pg \in Page :
           /\ g = kpage[p] /\ pg = upage[p] /\ pc'[p] \in {"load", "user"}
           /\ pagedir'[p][pg] = g /\ Elsewhere(pagedir', pagedir, p, pg)
    BY <1>17, Mapping
  <2>2. ~Filled(p)'
    BY <2>1 DEF Filled
  <2>3. data'[g] \in Value /\ \A f \in Frame \ {g} : data'[f] = data[f]
    <3>1. CASE Maps(p)
      BY <1>3, <2>1, <3>1 DEF Maps
    <3>2. CASE SwapIn(p)
      BY <1>1, <2>1, <3>2 DEF SwapIn
    <3>3. QED
      BY <1>17, <3>1, <3>2
  <2>4. \A f \in Frame : data[f] \in Value => data'[f] \in Value
    BY <2>3
  <2>5. \A q \in Proc, x \in Page : pagedir'[q][x] # None => data'[pagedir'[q][x]] \in Value
    BY <1>5, <2>1, <2>3, <2>4 DEF Elsewhere
  <2>6. \A q \in Proc \ {p} : Filled(q) => data'[kpage[q]] \in Value
    BY <1>3, <2>4
  <2>7. QED
    BY <1>6, <2>2, <2>5, <2>6
<1>18. QED
  BY <1>9, <1>10, <1>11, <1>12, <1>13, <1>14, <1>15, <1>16, <1>17, StepCases

-----------------------------------------------------------------------------
(* The inductive invariant.                                                *)
LEMMA InitInv ==
    ASSUME VMAssumption, Init
    PROVE  VMInv
<1>1. /\ None \notin Proc /\ None \notin Frame /\ None # Resident
      /\ userPool = Frame /\ frameList = <<>> /\ dUse = {} /\ lockFt = None /\ evicted = None
      /\ panic = "no"
      /\ \A q \in Proc : pc[q] = "dead" /\ upage[q] = None /\ kpage[q] = None
      /\ \A q \in Proc, x \in Page : pagedir[q][x] = None /\ pagetable[q][x] = None
      /\ \A q \in Proc : pagetable[q] = NoPages
      /\ None \notin Slot
  BY DEF Init, NoPages, VMAssumption
<1>2. VMTypeOK
  <2>1. MemoryTypeOK
    BY DEF Init, MemoryTypeOK, VMAssumption
  <2>2. TableTypeOK
    BY DEF Init, TableTypeOK, NoPages
  <2>3. ProcTypeOK /\ EvictTypeOK
    BY DEF Init, ProcTypeOK, EvictTypeOK, Stage
  <2>4. StoreTypeOK
    BY DEF Init, StoreTypeOK
  <2>5. QED
    BY <2>1, <2>2, <2>3, <2>4, TypeParts
<1>3. StageOK /\ StoreOK /\ EvictOK /\ MapOK
  BY <1>1 DEF Init, StageOK, StageSays, StoreOK, Holding, HasFrame, EvictOK, Evicting, MapOK
<1>4. OnePlace
  BY <1>1 DEF OnePlace, Place
<1>5. SlotsAreEntries
  <2>1. Entries(dUse, pagetable) /\ OneEntry(pagetable) /\ Ended(pagetable, pc)
    BY <1>1 DEF Entries, OneEntry, Ended
  <2>2. QED
    BY <2>1, SlotsAre
<1>6. FrameListIsMapped
  BY <1>1 DEF FrameListIsMapped, NoDuplicates, ToSet
<1>7. ContentOK
  BY <1>1 DEF ContentOK, Filled
<1>8. QED
  BY <1>2, <1>3, <1>4, <1>5, <1>6, <1>7 DEF VMInv

LEMMA StepInv ==
    ASSUME VMAssumption, VMInv, NEW p \in Proc, StepOf(p)
    PROVE  VMInv'
<1>1. /\ VMTypeOK /\ StageOK /\ StoreOK /\ EvictOK /\ MapOK /\ OnePlace
      /\ SlotsAreEntries /\ FrameListIsMapped /\ ContentOK
  BY DEF VMInv
<1>2. VMTypeOK'
  <2>1. MemoryTypeOK' /\ TableTypeOK' /\ ProcTypeOK' /\ EvictTypeOK' /\ StoreTypeOK'
    BY <1>1, MemoryTypesStep, TableTypesStep, ProcTypes, EvictTypesStep, StoreTypes
  <2>2. QED
    BY <2>1 DEF VMTypeOK, MemoryTypeOK, TableTypeOK, ProcTypeOK, EvictTypeOK, StoreTypeOK
<1>3. StageOK'
  <2>1. ASSUME NEW q \in Proc PROVE StageSays(q)'
    <3>1. CASE q = p
      BY <1>1, <3>1, StageOfOwn
    <3>2. CASE q # p
      BY <1>1, <3>2, StageOfOthers
    <3>3. QED
      BY <3>1, <3>2
  <2>2. QED
    BY <2>1 DEF StageOK
<1>4. EvictOK' /\ MapOK' /\ StoreOK'
  BY <1>1, EvictStep, MapStep, StoreStep
<1>5. OnePlace' /\ SlotsAreEntries'
  BY <1>1, PlaceStep, SlotsStep
<1>6. FrameListIsMapped' /\ ContentOK'
  BY <1>1, ListStep, ContentStep
<1>7. QED
  BY <1>2, <1>3, <1>4, <1>5, <1>6 DEF VMInv

LEMMA StutterInv ==
    ASSUME VMInv, StoreTypeOK', StoreOK',
           UNCHANGED <<userPool, data, tables, swap, lockFt, pc, upage, kpage, evicted, panic>>
    PROVE  VMInv'
<1>1. UNCHANGED <<userPool, data, frameList, pagetable, pagedir, writable, dUse, swapDisk,
                  lockFt, pc, upage, kpage, evicted, panic>>
  BY DEF tables, swap
<1>2. VMTypeOK' /\ StageOK' /\ StoreOK'
  BY <1>1 DEF VMInv, VMTypeOK, StageOK, StageSays, StoreTypeOK
<1>3. EvictOK' /\ MapOK'
  BY <1>1 DEF VMInv, EvictOK, Evicting, MapOK
<1>4. OnePlace'
  <2>1. OnePlace
    BY DEF VMInv
  <2>2. QED
    BY <1>1, <2>1, Stay
<1>5. SlotsAreEntries'
  <2>1. SlotsAreEntries
    BY DEF VMInv
  <2>2. QED
    BY <1>1, <2>1, SlotsAre
<1>6. FrameListIsMapped'
  BY <1>1 DEF VMInv, FrameListIsMapped, NoDuplicates, ToSet
<1>7. ContentOK'
  BY <1>1 DEF VMInv, ContentOK, Filled
<1>8. QED
  BY <1>2, <1>3, <1>4, <1>5, <1>6, <1>7 DEF VMInv

LEMMA StoreBeginInv ==
    ASSUME VMAssumption, VMInv, NEW p \in Proc, StoreBegin(p)
    PROVE  VMInv'
<1>1. storing \in [Proc -> (Page \X Value) \cup {None}] /\ StoreOK
  BY DEF VMInv, VMTypeOK
<1>2. PICK e \in Page \X Value : storing' = [storing EXCEPT ![p] = e]
  BY DEF StoreBegin
<1>3. StoreTypeOK'
  BY <1>1, <1>2 DEF StoreTypeOK
<1>4. StoreOK'
  BY <1>1, <1>2 DEF StoreOK, StoreBegin
<1>5. QED
  BY <1>3, <1>4, StutterInv DEF StoreBegin

(* The invariant that the properties follow from: what the stage of each   *)
(* process says of lock_ft and of the frame it holds, and what the frame   *)
(* list, the tables and the frames have to do with one another.            *)
THEOREM VMInvariance == Spec => []VMInv
<1>1. Init => VMInv
  BY VMAssumption, InitInv
<1>2. VMInv /\ [Next]_vars => VMInv'
  <2>1. ASSUME VMInv, Next PROVE VMInv'
    <3>1. PICK p \in Proc : StepOf(p) \/ StoreBegin(p)
      BY <2>1 DEF Next, StepOf, UserStep
    <3>2. CASE StepOf(p)
      BY <2>1, <3>2, VMAssumption, StepInv
    <3>3. CASE StoreBegin(p)
      BY <2>1, <3>3, VMAssumption, StoreBeginInv
    <3>4. QED
      BY <3>1, <3>2, <3>3
  <2>2. ASSUME VMInv, UNCHANGED vars PROVE VMInv'
    <3>1. UNCHANGED <<storing, pc>>
      BY <2>2 DEF vars
    <3>2. StoreTypeOK' /\ StoreOK'
      BY <2>2, <3>1 DEF VMInv, VMTypeOK, StoreTypeOK, StoreOK
    <3>3. QED
      BY <2>2, <3>2, StutterInv DEF vars
  <2>3. QED
    BY <2>1, <2>2
<1>3. QED
  BY <1>1, <1>2, PTL DEF Spec

(* Every variable keeps its type.                                          *)
THEOREM VMTypeCorrect == Spec => []VMTypeOK
<1>1. VMInv => VMTypeOK
  BY DEF VMInv
<1>2. QED
  BY <1>1, VMInvariance, PTL

(* No frame and no slot is lost or shared, and the frame list says which   *)
(* frames victim may take, for any number of processes, frames and slots.  *)
THEOREM MemoryAccounted == Spec => []MemoryIsAccounted
<1>1. VMInv => MemoryIsAccounted
  <2>1. SUFFICES ASSUME VMInv PROVE MemoryIsAccounted
    OBVIOUS
  <2>2. ASSUME NEW f \in Frame PROVE Cardinality(Holders(f)) = 1
    <3>1. PICK k : \A h : Place(pagedir, kpage, userPool, f, h) <=> h = k
      BY <2>1 DEF VMInv, OnePlace
    <3>2. Holders(f) = {k}
      BY <3>1, HoldersAre
    <3>3. QED
      BY <3>2, FS_Singleton
  <2>3. QED
    BY <2>1, <2>2 DEF VMInv, MemoryIsAccounted, FrameInOnePlace
<1>2. QED
  BY <1>1, VMInvariance, PTL

-----------------------------------------------------------------------------
(* The content of a page before and after a step.                          *)
PageValue(table, directory, frames, disk, out, hand, holder, q, x) ==
    IF table[q][x] = None THEN None
    ELSE IF out = <<q, x>> THEN frames[hand[holder]]
    ELSE IF table[q][x] = Resident THEN frames[directory[q][x]]
    ELSE disk[table[q][x]]
Before(q, x) == PageValue(pagetable, pagedir, data, swapDisk, evicted, kpage, lockFt, q, x)
After(q, x) == PageValue(pagetable', pagedir', data', swapDisk', evicted', kpage', lockFt', q, x)

(* A step that touches no page's content.                                  *)
LEMMA Untouched ==
    ASSUME VMAssumption, VMInv, StageOK', NEW p \in Proc, StepOf(p), ~Evicting(p),
           UNCHANGED <<pagetable, swapDisk, evicted>>,
           \A q \in Proc, x \in Page : pagedir[q][x] # None /\ pc[q] # "destroy" =>
              pagedir'[q][x] = pagedir[q][x] /\ data'[pagedir[q][x]] = data[pagedir[q][x]],
           \A q \in Proc \ {p} : Evicting(q) => data'[kpage[q]] = data[kpage[q]],
           NEW q \in Proc, NEW x \in Page
    PROVE  After(q, x) = Before(q, x)
<1>1. None # Resident /\ StageOK /\ EvictOK /\ MapOK /\ Ended(pagetable, pc)
  BY VMTypes, SlotsAre DEF VMInv
<1>2. ASSUME evicted = <<q, x>> PROVE data'[kpage'[lockFt']] = data[kpage[lockFt]]
  <2>1. evicted # None
    BY <1>2, VMTypes DEF VMAssumption
  <2>2. PICK r \in Proc : Evicting(r)
    BY <1>1, <2>1 DEF EvictOK
  <2>3. pc'[r] = pc[r] /\ kpage'[r] = kpage[r] /\ r # p
    BY <2>2, OthersStay DEF VMInv
  <2>4. lockFt = r
    BY <1>1, <2>2 DEF StageOK, StageSays, Evicting, Holding
  <2>5. lockFt' = r
    BY <2>2, <2>3 DEF StageOK, StageSays, Evicting, Holding
  <2>6. QED
    BY <2>2, <2>3, <2>4, <2>5
<1>3. ASSUME pagetable[q][x] = Resident, evicted # <<q, x>>
      PROVE  data'[pagedir'[q][x]] = data[pagedir[q][x]]
  <2>1. pc[q] # "destroy"
    BY <1>1, <1>3 DEF Ended, NoPages
  <2>2. pagedir[q][x] # None
    BY <1>1, <1>3, <2>1 DEF MapOK
  <2>3. QED
    BY <2>1, <2>2
<1>4. QED
  BY <1>2, <1>3 DEF After, Before, PageValue

(* What a step of p does to the memory of the processes.                   *)
Same == \A q \in Proc, x \in Page : After(q, x) = Before(q, x)
Writes(p, pg, v) ==
    After(p, pg) = v /\ \A q \in Proc, x \in Page : q # p \/ x # pg => After(q, x) = Before(q, x)
Clears(p) ==
    /\ \A x \in Page : After(p, x) = None
    /\ \A q \in Proc \ {p}, x \in Page : After(q, x) = Before(q, x)

LEMMA UntouchedSteps ==
    ASSUME VMAssumption, VMInv, StageOK', NEW p \in Proc, StepOf(p),
           \/ Quiet(p) \/ Fails(p) \/ Reads(p) \/ PallocGetPage(p) \/ VictimFails(p)
           \/ PagedirDestroy(p) \/ (FrameTableFree(p) /\ pc'[p] = "freeing")
    PROVE  Same
<1>1. /\ VMTypeOK /\ StageOK /\ OnePlace /\ StageSays(p) /\ None \notin Frame
      /\ data \in [Frame -> Value \cup {Freed}] /\ userPool \subseteq Frame
      /\ pagedir \in [Proc -> [Page -> Frame \cup {None}]]
  BY VMTypes DEF VMInv, StageOK, VMTypeOK
<1>2. \A q \in Proc : Evicting(q) => kpage[q] \in Frame
  BY <1>1, VMTypes DEF StageOK, StageSays, Evicting, HasFrame
<1>3. \A q \in Proc, x \in Page : pagedir[q][x] # None => pagedir[q][x] \in Frame
  BY <1>1
<1>4. ASSUME UNCHANGED <<pagetable, swapDisk, evicted>>, ~Evicting(p),
             \A q \in Proc, x \in Page : pagedir[q][x] # None /\ pc[q] # "destroy" =>
                pagedir'[q][x] = pagedir[q][x] /\ data'[pagedir[q][x]] = data[pagedir[q][x]],
             \A q \in Proc \ {p} : Evicting(q) => data'[kpage[q]] = data[kpage[q]]
      PROVE  Same
  BY <1>4, Untouched DEF Same
<1>5. CASE Quiet(p) \/ VictimFails(p) \/ (FrameTableFree(p) /\ pc'[p] = "freeing")
  <2>1. UNCHANGED <<pagetable, swapDisk, evicted, pagedir, data>> /\ ~Evicting(p)
    BY <1>1, <1>5, FrameRemoveStep
       DEF Quiet, VictimFails, FrameTableFree, tables, swap, Evicting
  <2>2. QED
    BY <1>4, <2>1
<1>6. ASSUME NEW g \in Frame, \A f \in Frame \ {g} : data'[f] = data[f],
             UNCHANGED <<pagetable, swapDisk, evicted>>, ~Evicting(p),
             \A q \in Proc, x \in Page : pagedir[q][x] # None /\ pc[q] # "destroy" =>
                pagedir'[q][x] = pagedir[q][x] /\ pagedir[q][x] # g,
             \A q \in Proc \ {p} : kpage[q] # g
      PROVE  Same
  <2>1. \A q \in Proc, x \in Page : pagedir[q][x] # None /\ pc[q] # "destroy" =>
           pagedir'[q][x] = pagedir[q][x] /\ data'[pagedir[q][x]] = data[pagedir[q][x]]
    BY <1>3, <1>6
  <2>2. \A q \in Proc \ {p} : Evicting(q) => data'[kpage[q]] = data[kpage[q]]
    BY <1>2, <1>6
  <2>3. QED
    BY <1>4, <1>6, <2>1, <2>2
<1>7. CASE Fails(p) \/ Reads(p)
  <2>1. UNCHANGED <<pagetable, swapDisk, evicted, pagedir>> /\ ~Evicting(p)
    BY <1>7 DEF Fails, LoadFails, Reads, tables, swap, Evicting
  <2>2. kpage[p] # None
    BY <1>1, <1>7 DEF Fails, Reads, StageSays, HasFrame
  <2>3. PICK g \in Frame : g = kpage[p]
    BY <2>2, <1>1, VMTypes
  <2>4. \E v : data' = [data EXCEPT ![g] = v]
    BY <1>7, <2>3 DEF Fails, LoadFails, PallocFreePage, Reads
  <2>5. \A f \in Frame \ {g} : data'[f] = data[f]
    BY <1>1, <2>4
  <2>6. /\ \A q \in Proc, x \in Page : pagedir[q][x] # g
        /\ \A q \in Proc \ {p} : kpage[q] # g
    BY <1>1, <2>3, Sole
  <2>7. QED
    BY <1>6, <2>1, <2>5, <2>6
<1>8. CASE PallocGetPage(p)
  <2>1. UNCHANGED <<pagetable, swapDisk, evicted, pagedir>> /\ ~Evicting(p)
    BY <1>8 DEF PallocGetPage, tables, swap, Evicting
  <2>2. PICK g \in userPool : data' = data \/ data' = [data EXCEPT ![g] = Zero]
    BY <1>8 DEF PallocGetPage
  <2>3. g \in Frame /\ \A f \in Frame \ {g} : data'[f] = data[f]
    BY <1>1, <2>2
  <2>4. /\ \A q \in Proc, x \in Page : pagedir[q][x] # g
        /\ \A q \in Proc : kpage[q] # g
    BY <1>1, <2>2, <2>3, Sole
  <2>5. QED
    BY <1>6, <2>1, <2>3, <2>4
<1>9. CASE PagedirDestroy(p)
  <2>1. UNCHANGED <<pagetable, swapDisk, evicted>> /\ ~Evicting(p) /\ pc[p] = "destroy"
    BY <1>9 DEF PagedirDestroy, swap, Evicting
  <2>2. CASE pc' = pc
    <3>1. PICK pg \in Page :
             /\ pagedir[p][pg] \in Frame /\ PallocFreePage(pagedir[p][pg])
             /\ pagedir'[p][pg] = None /\ Elsewhere(pagedir', pagedir, p, pg)
      BY <1>1, <1>9, <2>2, PagedirDestroyStep
    <3>2. PICK g \in Frame : g = pagedir[p][pg]
      BY <3>1
    <3>3. \A f \in Frame \ {g} : data'[f] = data[f]
      BY <1>1, <3>1, <3>2 DEF PallocFreePage
    <3>4. /\ \A r \in Proc : kpage[r] # g
          /\ \A r \in Proc, y \in Page : pagedir[r][y] = g => r = p /\ y = pg
      BY <1>1, <3>2, Sole
    <3>5. \A q \in Proc, x \in Page : pagedir[q][x] # None /\ pc[q] # "destroy" =>
             pagedir'[q][x] = pagedir[q][x] /\ pagedir[q][x] # g
      BY <2>1, <3>1, <3>4 DEF Elsewhere
    <3>6. QED
      BY <1>6, <2>1, <3>3, <3>4, <3>5
  <2>3. CASE pc' # pc
    <3>1. UNCHANGED <<data, pagedir>>
      BY <1>9, <2>3 DEF PagedirDestroy
    <3>2. QED
      BY <1>4, <2>1, <3>1
  <2>4. QED
    BY <2>2, <2>3
<1>10. QED
  BY <1>5, <1>7, <1>8, <1>9

(* A page that was not there is given to the process that waits for it.    *)
LEMMA NewPageStep ==
    ASSUME VMAssumption, VMInv, NEW p \in Proc, StepOf(p), Maps(p)
    PROVE  /\ upage[p] \in Page /\ Before(p, upage[p]) = None
           /\ \E v \in Value : Writes(p, upage[p], v)
<1>1. /\ VMTypeOK /\ StageOK /\ EvictOK /\ MapOK /\ OnePlace /\ ContentOK
      /\ Ended(pagetable, pc)
      /\ None \notin Frame /\ None # Resident /\ None \notin Proc \X Page /\ None \notin Value
      /\ data \in [Frame -> Value \cup {Freed}]
      /\ pagedir \in [Proc -> [Page -> Frame \cup {None}]]
  BY VMTypes, SlotsAre DEF VMInv, VMTypeOK, VMAssumption
<1> USE DEF Before, After, PageValue
<1>2. PICK g \in Frame, pg \in Page :
         /\ g = kpage[p] /\ pg = upage[p] /\ evicted = None /\ evicted' = None
         /\ pagedir'[p][pg] = g /\ Elsewhere(pagedir', pagedir, p, pg)
         /\ pagetable'[p][pg] = Resident /\ Elsewhere(pagetable', pagetable, p, pg)
  BY <1>1, Mapping
<1>3. UNCHANGED <<data, swapDisk>> /\ data[g] \in Value
  BY <1>1, <1>2 DEF Maps, swap, ContentOK
<1>4. After(p, pg) = data[g]
  BY <1>1, <1>2, <1>3
<1>5. ASSUME NEW q \in Proc, NEW x \in Page, q # p \/ x # pg PROVE After(q, x) = Before(q, x)
  <2>1. pagetable'[q][x] = pagetable[q][x] /\ pagedir'[q][x] = pagedir[q][x]
    BY <1>2, <1>5 DEF Elsewhere
  <2>2. QED
    BY <1>1, <1>2, <1>3, <2>1
<1>6. Before(p, pg) = None
  BY <1>2 DEF Maps
<1>7. QED
  BY <1>2, <1>3, <1>4, <1>5, <1>6 DEF Writes

(* The content of a page changes by the store that its process executes.   *)
LEMMA UserWriteStep ==
    ASSUME VMAssumption, VMInv, NEW p \in Proc, StepOf(p), UserWrite(p)
    PROVE  \E pg \in Page, v \in Value :
              storing[p] = <<pg, v>> /\ Before(p, pg) # None /\ Writes(p, pg, v)
<1>1. /\ VMTypeOK /\ StageOK /\ EvictOK /\ MapOK /\ OnePlace /\ ContentOK
      /\ Ended(pagetable, pc)
      /\ None \notin Frame /\ None # Resident /\ None \notin Proc \X Page /\ None \notin Value
      /\ data \in [Frame -> Value \cup {Freed}]
      /\ pagedir \in [Proc -> [Page -> Frame \cup {None}]]
  BY VMTypes, SlotsAre DEF VMInv, VMTypeOK, VMAssumption
<1> USE DEF Before, After, PageValue
<1>2. PICK pg \in Page, v \in Value :
         /\ storing[p] = <<pg, v>>
         /\ pagedir[p][pg] # None /\ data' = [data EXCEPT ![pagedir[p][pg]] = v]
  BY DEF UserWrite
<1>3. PICK g \in Frame : g = pagedir[p][pg]
  BY <1>1, <1>2
<1>4. /\ UNCHANGED <<pagetable, pagedir, swapDisk, evicted, kpage, lockFt>>
      /\ pc[p] = "user" /\ data'[g] = v /\ \A f \in Frame \ {g} : data'[f] = data[f]
  BY <1>1, <1>2, <1>3 DEF UserWrite, tables, swap
<1>5. pagetable[p][pg] = Resident /\ evicted # <<p, pg>>
  BY <1>1, <1>2, <1>4 DEF MapOK
<1>6. After(p, pg) = v
  BY <1>1, <1>3, <1>4, <1>5
<1>7. /\ \A r \in Proc : kpage[r] # g
      /\ \A r \in Proc, y \in Page : pagedir[r][y] = g => r = p /\ y = pg
  BY <1>1, <1>3, Sole
<1>8. ASSUME NEW q \in Proc, NEW x \in Page, q # p \/ x # pg PROVE After(q, x) = Before(q, x)
  <2>1. ASSUME evicted = <<q, x>> PROVE data'[kpage[lockFt]] = data[kpage[lockFt]]
    <3>1. evicted # None
      BY <1>1, <2>1
    <3>2. PICK r \in Proc : Evicting(r)
      BY <1>1, <3>1 DEF EvictOK
    <3>3. lockFt = r /\ kpage[r] # None
      BY <1>1, <3>2 DEF StageOK, StageSays, Evicting, Holding, HasFrame
    <3>4. kpage[r] \in Frame
      BY <1>1, <3>3, VMTypes
    <3>5. QED
      BY <1>4, <1>7, <3>3, <3>4
  <2>2. ASSUME pagetable[q][x] = Resident, evicted # <<q, x>>
        PROVE  data'[pagedir[q][x]] = data[pagedir[q][x]]
    <3>1. pc[q] # "destroy"
      BY <1>1, <2>2 DEF Ended, NoPages
    <3>2. pagedir[q][x] \in Frame
      BY <1>1, <2>2, <3>1 DEF MapOK
    <3>3. pagedir[q][x] # g
      BY <1>7, <1>8
    <3>4. QED
      BY <1>4, <3>2, <3>3
  <2>3. QED
    BY <1>4, <2>1, <2>2
<1>9. data[g] \in Value
  BY <1>1, <1>2, <1>3 DEF ContentOK
<1>10. Before(p, pg) # None
  BY <1>1, <1>3, <1>5, <1>9
<1>11. QED
  BY <1>2, <1>6, <1>8, <1>10 DEF Writes

(* The content moves with the page.                                        *)
LEMMA MoveSteps ==
    ASSUME VMAssumption, VMInv, VMInv', NEW p \in Proc, StepOf(p),
           Victim(p) \/ SwapOut(p) \/ SwapWrite(p) \/ SwapIn(p)
    PROVE  Same
<1>1. /\ VMTypeOK /\ StageOK /\ EvictOK /\ MapOK /\ OnePlace /\ ContentOK /\ StageSays(p)
      /\ Ended(pagetable, pc) /\ OneEntry(pagetable)
      /\ None \notin Frame /\ None # Resident /\ None \notin Slot /\ Resident \notin Slot
      /\ None \notin Proc \X Page
      /\ data \in [Frame -> Value \cup {Freed}] /\ swapDisk \in [Slot -> Value]
      /\ pagedir \in [Proc -> [Page -> Frame \cup {None}]]
      /\ pagetable \in [Proc -> [Page -> Slot \cup {Resident, None}]]
      /\ pc \in [Proc -> Stage]
  BY VMTypes, SlotsAre DEF VMInv, VMTypeOK, VMAssumption, StageOK
<1> USE DEF Before, After, PageValue, Same
<1>2. CASE Victim(p)
  <2>1. PICK q \in Proc, pg \in Page :
           /\ evicted' = <<q, pg>> /\ pagedir[q][pg] \in Frame /\ pagetable[q][pg] # None
           /\ kpage'[p] = pagedir[q][pg]
           /\ Elsewhere(pagedir', pagedir, q, pg)
    BY <1>1, <1>2, VictimStep
  <2>2. UNCHANGED <<data, pagetable, swapDisk, lockFt>> /\ pc[p] = "frame" /\ lockFt = p
    BY <1>1, <1>2 DEF Victim, swap, StageSays, Holding
  <2>3. evicted = None
    BY <1>1, <2>2, NotEvicting DEF Evicting
  <2>4. pagetable[q][pg] = Resident
    <3>1. pc[q] # "destroy"
      <4>1. <<q, pg>> = Head(frameList) /\ frameList # <<>>
        BY <1>2, <2>1 DEF Victim
      <4>2. frameList \in Seq(Proc \X Page) /\ NoDuplicates(frameList)
        BY DEF VMInv, VMTypeOK, FrameListIsMapped
      <4>3. Head(frameList) \in ToSet(frameList)
        BY <4>1, <4>2, TailFacts
      <4>4. QED
        BY <4>1, <4>3 DEF VMInv, FrameListIsMapped
    <3>2. QED
      BY <1>1, <2>1, <3>1 DEF MapOK
  <2>5. After(q, pg) = Before(q, pg)
    BY <1>1, <2>1, <2>2, <2>3, <2>4
  <2>6. ASSUME NEW r \in Proc, NEW x \in Page, r # q \/ x # pg PROVE After(r, x) = Before(r, x)
    <3>1. pagedir'[r][x] = pagedir[r][x]
      BY <2>1, <2>6 DEF Elsewhere
    <3>2. evicted' # <<r, x>> /\ evicted # <<r, x>>
      BY <1>1, <2>1, <2>3, <2>6
    <3>3. QED
      BY <2>2, <3>1, <3>2
  <2>7. QED
    BY <2>5, <2>6
<1>3. CASE SwapOut(p) /\ dUse = Slot
  BY <1>3 DEF SwapOut
<1>4. CASE SwapOut(p) /\ dUse # Slot
  <2>1. PICK q \in Proc, pg \in Page, s \in Slot :
           /\ evicted = <<q, pg>> /\ pagetable[q][pg] = Resident
           /\ pagetable'[q][pg] = s /\ Elsewhere(pagetable', pagetable, q, pg)
    BY <1>1, <1>4, SwapOutStep
  <2>2. UNCHANGED <<data, pagedir, swapDisk, lockFt, kpage, evicted>>
    BY <1>4 DEF SwapOut
  <2>3. After(q, pg) = Before(q, pg)
    BY <1>1, <2>1, <2>2
  <2>4. ASSUME NEW r \in Proc, NEW x \in Page, r # q \/ x # pg PROVE After(r, x) = Before(r, x)
    <3>1. pagetable'[r][x] = pagetable[r][x]
      BY <2>1, <2>4 DEF Elsewhere
    <3>2. QED
      BY <2>2, <3>1
  <2>5. QED
    BY <2>3, <2>4
<1>5. CASE SwapWrite(p)
  <2>1. pc[p] = "write" /\ lockFt = p
    BY <1>1, <1>5 DEF SwapWrite, StageSays, Holding
  <2>2. PICK q \in Proc, pg \in Page, s \in Slot :
           evicted = <<q, pg>> /\ pagetable[q][pg] = s
    BY <1>1, <2>1 DEF EvictOK, Evicting
  <2>3. evicted[1] = q /\ evicted[2] = pg
    BY <2>2
  <2>4. /\ UNCHANGED <<data, pagetable, pagedir, kpage, lockFt>> /\ evicted' = None
        /\ swapDisk' = [swapDisk EXCEPT ![s] = data[kpage[p]]]
    BY <1>5, <2>2, <2>3 DEF SwapWrite, tables
  <2>5. swapDisk'[s] = data[kpage[p]] /\ \A t \in Slot \ {s} : swapDisk'[t] = swapDisk[t]
    BY <1>1, <2>4
  <2>6. After(q, pg) = Before(q, pg)
    BY <1>1, <2>1, <2>2, <2>4, <2>5
  <2>7. ASSUME NEW r \in Proc, NEW x \in Page, r # q \/ x # pg PROVE After(r, x) = Before(r, x)
    <3>1. evicted' # <<r, x>> /\ evicted # <<r, x>>
      BY <1>1, <2>2, <2>4, <2>7
    <3>2. pagetable[r][x] \in Slot => pagetable[r][x] # s
      BY <1>1, <2>2, <2>7 DEF OneEntry
    <3>3. QED
      BY <1>1, <2>4, <2>5, <3>1, <3>2
  <2>8. QED
    BY <2>6, <2>7
<1>6. CASE SwapIn(p)
  <2>1. PICK g \in Frame, pg \in Page :
           /\ g = kpage[p] /\ pg = upage[p] /\ evicted = None /\ evicted' = None
           /\ pagedir'[p][pg] = g /\ Elsewhere(pagedir', pagedir, p, pg)
           /\ pagetable'[p][pg] = Resident /\ Elsewhere(pagetable', pagetable, p, pg)
    BY <1>1, <1>6, Mapping
  <2>2. /\ pagetable[p][pg] \in Slot /\ data' = [data EXCEPT ![g] = swapDisk[pagetable[p][pg]]]
        /\ swapDisk' = swapDisk
    BY <1>6, <2>1 DEF SwapIn
  <2>3. data'[g] = swapDisk[pagetable[p][pg]] /\ \A f \in Frame \ {g} : data'[f] = data[f]
    BY <1>1, <2>2
  <2>4. After(p, pg) = Before(p, pg)
    BY <1>1, <2>1, <2>2, <2>3
  <2>5. \A r \in Proc, y \in Page : pagedir[r][y] # g
    BY <1>1, <2>1, Sole
  <2>6. ASSUME NEW r \in Proc, NEW x \in Page, r # p \/ x # pg PROVE After(r, x) = Before(r, x)
    <3>1. pagetable'[r][x] = pagetable[r][x] /\ pagedir'[r][x] = pagedir[r][x]
      BY <2>1, <2>6 DEF Elsewhere
    <3>2. evicted' # <<r, x>> /\ evicted # <<r, x>>
      BY <1>1, <2>1
    <3>3. pagetable[r][x] = Resident => pagedir[r][x] \in Frame
      <4>1. ASSUME pagetable[r][x] = Resident PROVE pc[r] # "destroy"
        BY <1>1, <4>1 DEF Ended, NoPages
      <4>2. QED
        BY <1>1, <3>2, <4>1 DEF MapOK
    <3>4. pagetable[r][x] = Resident => data'[pagedir[r][x]] = data[pagedir[r][x]]
      BY <2>3, <2>5, <3>3
    <3>5. QED
      BY <2>2, <3>1, <3>2, <3>4
  <2>7. QED
    BY <2>4, <2>6
<1>7. QED
  BY <1>2, <1>3, <1>4, <1>5, <1>6

LEMMA ClearStep ==
    ASSUME VMAssumption, VMInv, NEW p \in Proc, StepOf(p), FrameTableFree(p), pc'[p] # "freeing"
    PROVE  Clears(p)
<1>1. /\ VMTypeOK /\ StageOK /\ EvictOK /\ StageSays(p) /\ None \notin Proc \X Page
      /\ pagetable \in [Proc -> [Page -> Slot \cup {Resident, None}]]
  BY VMTypes DEF VMInv, VMTypeOK, VMAssumption, StageOK
<1>2. pc[p] = "freeing" /\ lockFt = p /\ UNCHANGED <<data, pagedir, swapDisk, evicted>>
  BY <1>1 DEF FrameTableFree, StageSays, Holding
<1>3. evicted = None
  BY <1>1, <1>2, NotEvicting DEF Evicting
<1>4. pagetable' = [pagetable EXCEPT ![p] = NoPages]
  BY <1>1, TableFreeStep
<1>5. /\ \A x \in Page : pagetable'[p][x] = None
      /\ \A q \in Proc \ {p}, x \in Page : pagetable'[q][x] = pagetable[q][x]
  BY <1>1, <1>4 DEF NoPages
<1>6. ASSUME NEW x \in Page PROVE After(p, x) = None
  BY <1>5 DEF After, PageValue
<1>7. ASSUME NEW q \in Proc \ {p}, NEW x \in Page PROVE After(q, x) = Before(q, x)
  <2>1. evicted # <<q, x>> /\ evicted' # <<q, x>>
    BY <1>1, <1>2, <1>3
  <2>2. QED
    BY <1>2, <1>5, <2>1 DEF After, Before, PageValue
<1>8. QED
  BY <1>6, <1>7 DEF Clears

(* What is swapped in had a content.                                       *)
LEMMA SwappedHasContent ==
    ASSUME VMAssumption, VMInv, NEW p \in Proc, SwapIn(p)
    PROVE  upage[p] \in Page /\ Before(p, upage[p]) # None
<1>1. /\ StageOK /\ EvictOK /\ None # Resident /\ None \notin Slot /\ Resident \notin Slot
      /\ None \notin Value /\ None \notin Proc \X Page /\ swapDisk \in [Slot -> Value]
  BY VMTypes DEF VMInv, VMTypeOK, VMAssumption
<1>2. pc[p] = "got" /\ pagetable[p][upage[p]] \in Slot
  BY DEF SwapIn
<1>3. lockFt = p /\ upage[p] # None
  BY <1>1, <1>2 DEF StageOK, StageSays, Holding, HasFrame
<1>4. upage[p] \in Page
  BY <1>3, VMTypes DEF VMInv
<1>5. evicted = None
  BY <1>1, <1>2, <1>3, NotEvicting DEF VMInv, Evicting
<1>6. Before(p, upage[p]) = swapDisk[pagetable[p][upage[p]]]
  BY <1>1, <1>2, <1>4, <1>5 DEF Before, PageValue
<1>7. swapDisk[pagetable[p][upage[p]]] \in Value
  BY <1>1, <1>2
<1>8. QED
  BY <1>1, <1>4, <1>6, <1>7

-----------------------------------------------------------------------------
(* The variables of PrivateMemory before and after a step.                 *)
LEMMA ContentsAre ==
    /\ contents = [q \in Proc |-> [x \in Page |-> Before(q, x)]]
    /\ contents' = [q \in Proc |-> [x \in Page |-> After(q, x)]]
BY DEF contents, PageContent, Before, After, PageValue

LEMMA SameContents ==
    ASSUME Same
    PROVE  contents' = contents
<1>1. [q \in Proc |-> [x \in Page |-> After(q, x)]] = [q \in Proc |-> [x \in Page |-> Before(q, x)]]
  BY DEF Same
<1>2. QED
  BY <1>1, ContentsAre

LEMMA WrittenContents ==
    ASSUME NEW p \in Proc, NEW pg \in Page, NEW v \in Value, Writes(p, pg, v)
    PROVE  contents' = [contents EXCEPT ![p][pg] = v] /\ contents[p][pg] = Before(p, pg)
BY ContentsAre DEF Writes

LEMMA ClearedContents ==
    ASSUME NEW p \in Proc, Clears(p)
    PROVE  contents' = [contents EXCEPT ![p] = [x \in Page |-> None]]
BY ContentsAre DEF Clears

Ending == {"destroy", "dead"}
LEMMA LivingStays ==
    ASSUME VMTypeOK, NEW p \in Proc, StepOf(p), pc[p] \in Ending <=> pc'[p] \in Ending
    PROVE  living' = living
<1>1. \A q \in Proc : pc'[q] \notin Ending <=> pc[q] \notin Ending
  BY OthersStay
<1>2. [q \in Proc |-> pc'[q] \notin Ending] = [q \in Proc |-> pc[q] \notin Ending]
  BY <1>1
<1>3. QED
  BY <1>2 DEF living, Ending

LEMMA LivingChanges ==
    ASSUME VMTypeOK, NEW p \in Proc, StepOf(p), NEW b \in BOOLEAN, b <=> pc'[p] \notin Ending
    PROVE  living' = [living EXCEPT ![p] = b]
<1>1. \A q \in Proc : (pc'[q] \notin Ending) = IF q = p THEN b ELSE pc[q] \notin Ending
  BY OthersStay
<1>2. [q \in Proc |-> pc'[q] \notin Ending]
      = [[q \in Proc |-> pc[q] \notin Ending] EXCEPT ![p] = b]
  BY <1>1
<1>3. QED
  BY <1>2 DEF living, Ending

LEMMA LivingIs == \A q \in Proc : living[q] <=> pc[q] \notin Ending
BY DEF living, Ending

(* A step that is not seen.                                                *)
Hidden == UNCHANGED <<living, upage, storing, contents>>

LEMMA HiddenSteps ==
    ASSUME VMAssumption, VMInv, VMInv', NEW p \in Proc, StepOf(p),
           \/ LoadUnlock(p) \/ ThreadExit(p) \/ Reads(p) \/ PallocGetPage(p) \/ VictimFails(p)
           \/ PagedirDestroy(p) \/ (FrameTableFree(p) /\ pc'[p] = "freeing")
           \/ Victim(p) \/ SwapOut(p) \/ SwapWrite(p)
    PROVE  Hidden
<1>1. VMTypeOK /\ StageOK' /\ pc \in [Proc -> Stage]
  BY DEF VMInv, VMTypeOK
<1>2. pc[p] # "user" /\ UNCHANGED upage
  BY DEF LoadUnlock, ThreadExit, Reads, PallocGetPage, VictimFails, PagedirDestroy,
         FrameTableFree, Victim, SwapOut, SwapWrite
<1>3. pc[p] \in Ending <=> pc'[p] \in Ending
  BY <1>1 DEF LoadUnlock, ThreadExit, Reads, PallocGetPage, VictimFails, PagedirDestroy,
         FrameTableFree, Victim, SwapOut, SwapWrite, Ending, Goto
<1>4. living' = living /\ storing' = storing
  BY <1>1, <1>2, <1>3, LivingStays, KernelSteps
<1>5. CASE LoadUnlock(p) \/ ThreadExit(p)
  <2>1. Quiet(p)
    BY <1>1, <1>5 DEF LoadUnlock, ThreadExit, Quiet, Goto
  <2>2. QED
    BY <1>1, <1>2, <1>4, <2>1, UntouchedSteps, SameContents DEF Hidden
<1>6. CASE Victim(p) \/ SwapOut(p) \/ SwapWrite(p)
  BY <1>2, <1>4, <1>6, MoveSteps, SameContents DEF Hidden
<1>7. CASE \/ Reads(p) \/ PallocGetPage(p) \/ VictimFails(p) \/ PagedirDestroy(p)
           \/ (FrameTableFree(p) /\ pc'[p] = "freeing")
  BY <1>1, <1>2, <1>4, <1>7, UntouchedSteps, SameContents DEF Hidden
<1>8. QED
  BY <1>5, <1>6, <1>7

(* A process starts, waits for a page, or leaves its code for good.        *)
LEMMA RequestSteps ==
    ASSUME VMAssumption, VMInv, VMInv', NEW p \in Proc, StepOf(p), Quiet(p),
           StartProcess(p) \/ LoadNext(p) \/ PageFault(p) \/ UserExit(p)
    PROVE  \/ Memory!Start(p) \/ Memory!AbandonStore(p) \/ Hidden
           \/ \E pg \in Page : Memory!Want(p, pg)
<1>1. /\ VMTypeOK /\ StageOK /\ StoreOK /\ StageOK' /\ pc \in [Proc -> Stage]
      /\ storing \in [Proc -> (Page \X Value) \cup {None}]
      /\ Stack \in Page /\ Segment \subseteq Page
  BY VMTypes DEF VMInv, VMTypeOK
<1>2. contents' = contents
  BY <1>1, UntouchedSteps, SameContents
<1>3. CASE StartProcess(p)
  <2>1. /\ pc[p] = "dead" /\ pc'[p] = "load" /\ UNCHANGED upage
    BY <1>1, <1>3 DEF StartProcess, Goto
  <2>2. living' = [living EXCEPT ![p] = TRUE] /\ ~living[p]
    BY <1>1, <2>1, LivingChanges, LivingIs DEF Ending
  <2>3. storing' = storing
    BY <2>1, KernelSteps
  <2>4. QED
    BY <1>2, <2>1, <2>2, <2>3 DEF Memory!Start
<1>4. CASE UserExit(p)
  <2>1. pc[p] = "user" /\ pc'[p] = "exit" /\ UNCHANGED upage
        /\ storing' = [storing EXCEPT ![p] = None]
    BY <1>1, <1>4 DEF UserExit, Goto
  <2>2. living' = living
    BY <1>1, <2>1, LivingStays DEF Ending
  <2>3. storing[p] = None => storing' = storing
    BY <1>1, <2>1
  <2>4. QED
    BY <1>2, <2>1, <2>2, <2>3 DEF Memory!AbandonStore, Hidden
<1>5. CASE LoadNext(p) \/ PageFault(p)
  <2>1. /\ pc[p] \in {"load", "user"} /\ pc'[p] = "frame"
        /\ \E pg \in Page : upage' = [upage EXCEPT ![p] = pg]
    BY <1>1, <1>5 DEF LoadNext, PageFault, NeedsFrame, Goto
  <2>2. living[p] /\ living' = living
    BY <1>1, <2>1, LivingStays, LivingIs DEF Ending
  <2>3. upage[p] = None
    BY <1>1, <2>1 DEF StageOK, StageSays, HasFrame
  <2>4. storing' = [storing EXCEPT ![p] = None]
    <3>1. CASE pc[p] = "user"
      BY <1>1, <3>1, UserSteps
    <3>2. CASE pc[p] # "user"
      <4>1. storing' = storing /\ storing[p] = None
        BY <1>1, <3>2, KernelSteps DEF StoreOK
      <4>2. QED
        BY <1>1, <4>1
    <3>3. QED
      BY <3>1, <3>2
  <2>5. QED
    BY <1>2, <2>1, <2>2, <2>3, <2>4 DEF Memory!Want
<1>6. QED
  BY <1>3, <1>4, <1>5

(* A process gets the page it waits for, or not.                           *)
LEMMA SupplySteps ==
    ASSUME VMAssumption, VMInv, VMInv', NEW p \in Proc, StepOf(p), Maps(p) \/ SwapIn(p) \/ Fails(p)
    PROVE  Memory!Supply(p) \/ Memory!Refuse(p)
<1>1. /\ VMTypeOK /\ StageOK /\ StageOK' /\ pc \in [Proc -> Stage]
  BY DEF VMInv, VMTypeOK
<1>2. /\ pc[p] \in {"read", "install", "got"} /\ pc'[p] \in {"load", "user", "exit"}
      /\ upage' = [upage EXCEPT ![p] = None]
  BY <1>1 DEF Maps, SwapIn, Fails, MapPage, LoadFails, Goto
<1>3. living' = living /\ storing' = storing
  BY <1>1, <1>2, LivingStays, KernelSteps DEF Ending
<1>4. upage[p] # None
  BY <1>1, <1>2 DEF StageOK, StageSays, HasFrame
<1>5. CASE Fails(p)
  <2>1. contents' = contents
    BY <1>1, <1>5, UntouchedSteps, SameContents
  <2>2. QED
    BY <1>2, <1>3, <1>4, <2>1 DEF Memory!Refuse
<1>6. CASE SwapIn(p)
  <2>1. contents' = contents
    BY <1>6, MoveSteps, SameContents
  <2>2. contents[p][upage[p]] # None
    BY <1>6, SwappedHasContent, ContentsAre
  <2>3. QED
    BY <1>2, <1>3, <1>4, <2>1, <2>2 DEF Memory!Supply
<1>7. CASE Maps(p)
  <2>1. PICK pg \in Page, v \in Value :
           pg = upage[p] /\ Before(p, pg) = None /\ Writes(p, pg, v)
    BY <1>7, NewPageStep
  <2>2. contents' = [contents EXCEPT ![p][upage[p]] = v] /\ contents[p][upage[p]] = None
    BY <2>1, WrittenContents
  <2>3. QED
    BY <1>2, <1>3, <1>4, <2>2 DEF Memory!Supply
<1>8. QED
  BY <1>5, <1>6, <1>7

LEMMA StoreMaps ==
    ASSUME VMAssumption, VMInv, NEW p \in Proc, StepOf(p), UserWrite(p)
    PROVE  \E pg \in Page, v \in Value : Memory!EndStore(p, pg, v)
<1>1. VMTypeOK /\ pc[p] = "user" /\ UNCHANGED <<pc, upage>>
  BY DEF VMInv, UserWrite
<1>2. living' = living /\ storing' = [storing EXCEPT ![p] = None]
  BY <1>1, LivingStays, UserSteps
<1>3. PICK pg \in Page, v \in Value :
         storing[p] = <<pg, v>> /\ Before(p, pg) # None /\ Writes(p, pg, v)
  BY UserWriteStep
<1>4. contents' = [contents EXCEPT ![p][pg] = v] /\ contents[p][pg] # None
  BY <1>3, WrittenContents
<1>5. Memory!EndStore(p, pg, v)
  BY <1>1, <1>2, <1>3, <1>4 DEF Memory!EndStore
<1>6. QED
  BY <1>5

LEMMA ExitMaps ==
    ASSUME VMAssumption, VMInv, NEW p \in Proc, StepOf(p), FrameTableFree(p), pc'[p] # "freeing"
    PROVE  Memory!Exit(p)
<1>1. VMTypeOK /\ StageOK /\ StoreOK /\ pc[p] = "freeing" /\ pc'[p] = "destroy"
  BY TableFreeStep DEF VMInv, FrameTableFree
<1>2. upage[p] = None /\ storing[p] = None /\ living[p]
  BY <1>1, LivingIs DEF StageOK, StageSays, HasFrame, StoreOK, Ending
<1>3. living' = [living EXCEPT ![p] = FALSE] /\ storing' = storing
  BY <1>1, LivingChanges, KernelSteps DEF Ending
<1>4. contents' = [contents EXCEPT ![p] = [x \in Page |-> None]]
  BY ClearStep, ClearedContents
<1>5. upage' = upage
  BY DEF FrameTableFree
<1>6. QED
  BY <1>2, <1>3, <1>4, <1>5 DEF Memory!Exit, Memory!NoPages

LEMMA StepMaps ==
    ASSUME VMAssumption, VMInv, VMInv', NEW p \in Proc, StepOf(p)
    PROVE  Memory!Next \/ Hidden
<1>1. VMTypeOK /\ StageOK
  BY DEF VMInv
<1>2. CASE Quiet(p)
  <2>1. CASE StartProcess(p) \/ LoadNext(p) \/ PageFault(p) \/ UserExit(p)
    BY <1>2, <2>1, RequestSteps DEF Memory!Next
  <2>2. CASE LoadUnlock(p) \/ ThreadExit(p)
    BY <2>2, HiddenSteps
  <2>3. QED
    BY <1>2, <2>1, <2>2 DEF Quiet
<1>3. CASE Maps(p) \/ SwapIn(p) \/ Fails(p)
  BY <1>3, SupplySteps DEF Memory!Next
<1>4. CASE UserWrite(p)
  BY <1>4, StoreMaps DEF Memory!Next
<1>5. CASE FrameTableFree(p) /\ pc'[p] # "freeing"
  BY <1>5, ExitMaps DEF Memory!Next
<1>6. CASE \/ Reads(p) \/ PallocGetPage(p) \/ VictimFails(p) \/ PagedirDestroy(p)
           \/ (FrameTableFree(p) /\ pc'[p] = "freeing")
           \/ Victim(p) \/ SwapOut(p) \/ SwapWrite(p)
  BY <1>6, HiddenSteps
<1>7. QED
  BY <1>1, <1>2, <1>3, <1>4, <1>5, <1>6, StepCases

LEMMA StoreBeginMaps ==
    ASSUME VMAssumption, VMInv, NEW p \in Proc, StoreBegin(p)
    PROVE  Memory!Next
<1>1. StageOK /\ pc[p] = "user" /\ storing[p] = None
  BY DEF VMInv, StoreBegin
<1>2. upage[p] = None /\ living[p]
  BY <1>1, LivingIs DEF StageOK, StageSays, HasFrame, Ending
<1>3. UNCHANGED <<living, upage, contents>>
  BY DEF StoreBegin, tables, swap, living, contents, PageContent
<1>4. PICK pg \in Page, v \in Value : storing' = [storing EXCEPT ![p] = <<pg, v>>]
  BY DEF StoreBegin
<1>5. Memory!BeginStore(p, pg, v)
  BY <1>1, <1>2, <1>3, <1>4 DEF Memory!BeginStore
<1>6. QED
  BY <1>5 DEF Memory!Next

(* The paging is transparent: a page of a process changes by the store     *)
(* that the process is executing, at the page and with the value of that   *)
(* store, and by nothing else, wherever the kernel moves the page; a page  *)
(* that comes to a process is the one it waits for, and has its old        *)
(* content if it had one; pages go away at the exit of their process only. *)
THEOREM VMImplementsPrivateMemory == Spec => ImplementsPrivateMemory
<1>1. Init => Memory!Init
  <2>1. SUFFICES ASSUME Init PROVE Memory!Init
    OBVIOUS
  <2>2. contents = [p \in Proc |-> [pg \in Page |-> None]]
    BY <2>1 DEF Init, contents, PageContent, NoPages
  <2>3. living = [p \in Proc |-> FALSE]
    <3>1. \A p \in Proc : pc[p] = "dead"
      BY <2>1 DEF Init
    <3>2. QED
      BY <3>1 DEF living
  <2>4. QED
    BY <2>1, <2>2, <2>3 DEF Init, Memory!Init, Memory!NoPages
<1>2. VMInv /\ VMInv' /\ [Next]_vars => [Memory!Next]_(Memory!vars)
  <2>1. ASSUME VMInv, VMInv', Next PROVE Memory!Next \/ Hidden
    <3>1. PICK p \in Proc : StepOf(p) \/ StoreBegin(p)
      BY <2>1 DEF Next, StepOf, UserStep
    <3>2. CASE StepOf(p)
      BY <2>1, <3>2, VMAssumption, StepMaps
    <3>3. CASE StoreBegin(p)
      BY <2>1, <3>3, VMAssumption, StoreBeginMaps
    <3>4. QED
      BY <3>1, <3>2, <3>3
  <2>2. ASSUME UNCHANGED vars PROVE Hidden
    BY <2>2 DEF vars, tables, swap, Hidden, living, contents, PageContent
  <2>3. QED
    BY <2>1, <2>2 DEF Hidden, Memory!vars
<1>3. QED
  BY <1>1, <1>2, VMInvariance, PTL DEF Spec, ImplementsPrivateMemory, Memory!Spec
=============================================================================
