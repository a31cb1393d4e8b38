----------------------------- MODULE FilesProofs ------------------------------
(***************************************************************************)
(* Proofs about open files, for any number of processes, files, sectors,   *)
(* inodes and descriptors.                                                 *)
(***************************************************************************)
EXTENDS Files, FunctionTheorems, FiniteSetTheorems, SequenceTheorems, WellFoundedInduction, TLAPS

(* Who has file_lock, by stage.                                            *)
Opening(p) == pc[p] \in {"open", "found", "fill", "opened"}
CallOps == {"remove", "load", "bad"}
Working(p) == Opening(p) \/ (pc[p] \in {"close", "last"} /\ op[p] \in CallOps \cup {"close"})
LockOK == \A p \in Proc : fileLock = p <=> Working(p)

(* What a process works on, and for what, at each stage.                   *)
NothingOn(p) == ino[p] = None /\ arg[p] = None
StageOf(p) ==
    /\ pc[p] \in {"none", "idle", "exit"} => op[p] = None /\ NothingOn(p)
    /\ pc[p] = "checked" => op[p] = None /\ ino[p] = None /\ arg[p] \in Fd
    /\ Opening(p) =>
          /\ op[p] \in {"open", "remove", "load", "self"} /\ arg[p] \in Name
          /\ ino[p] = None <=> pc[p] = "open"
    /\ pc[p] \in {"close", "last"} =>
          /\ ino[p] \in Inode
          /\ \/ op[p] \in {"remove", "bad"}
             \/ op[p] = "load" /\ arg[p] \in Name
             \/ op[p] = "exitSelf" /\ self[p] = ino[p]
             \/ /\ op[p] \in {"close", "exitFd"} /\ arg[p] \in Fd
                /\ fd[arg[p]] # None /\ fd[arg[p]].inode = ino[p] /\ fd[arg[p]].owner = p
    /\ pc[p] = "fds" => op[p] \in {None, "exitSelf", "exitFd"} /\ NothingOn(p)
    /\ pc[p] \in {"none", "fds"} \/ op[p] \in {"load", "bad", "self", "exitFd"} =>
          self[p] = None
StageOK == \A p \in Proc : StageOf(p)

(* The descriptors that are free, and the room there is for one.           *)
FdsOK ==
    /\ \A j, k \in 1 .. Len(emptyFds) : emptyFds[j] = emptyFds[k] => j = k
    /\ \A k \in 1 .. Len(emptyFds) : fd[emptyFds[k]] = None /\ emptyFds[k] < fdCnt
    /\ \A f \in Fd : fd[f] # None => f < fdCnt
    /\ \A p \in Proc : Opening(p) /\ op[p] = "open" => emptyFds # <<>> \/ fdCnt < FDSIZE

(* Whatever refers to an inode refers to one that is in memory.            *)
AllInMemory ==
    ~freedInUse =>
        /\ \A p \in Proc : ino[p] # None => inode[ino[p]] # None
        /\ \A p \in Proc : self[p] # None => inode[self[p]] # None
        /\ \A f \in Fd : fd[f] # None => inode[fd[f].inode] # None

(* The openers of an inode that open_cnt counts: a process that has        *)
(* counted itself off is not one any more.  Ref[x] is the inode that the   *)
(* descriptor, the running program or the call x has open.                 *)
CallRef(p) ==
    IF pc[p] \in {"fill", "opened"} \/ (pc[p] = "close" /\ op[p] \in CallOps) THEN ino[p] ELSE None
SelfRef(p) == IF pc[p] = "last" /\ op[p] = "exitSelf" THEN None ELSE self[p]
LeavesFd(p, f) == pc[p] = "last" /\ op[p] \in {"close", "exitFd"} /\ arg[p] = f
FdRef(f) == IF fd[f] = None THEN None ELSE IF LeavesFd(fd[f].owner, f) THEN None ELSE fd[f].inode
Token == ({"fd"} \X Fd) \cup ({"self", "call"} \X Proc)
Ref == [x \in Token |-> IF x[1] = "fd" THEN FdRef(x[2])
                        ELSE IF x[1] = "self" THEN SelfRef(x[2]) ELSE CallRef(x[2])]
Counted(R, i) == {x \in Token : R[x] = i}
OpenCntOK == \A i \in Inode : inode[i] # None => inode[i].openCnt = Cardinality(Counted(Ref, i))

Running(i) == {p \in Proc : self[p] = i /\ op[p] # "exitSelf"}
DenyCntOK == \A i \in Inode : inode[i] # None => inode[i].denyWriteCnt = Cardinality(Running(i))

(* The inodes in memory and the files they are of.                         *)
InjectiveDir == \A m, n \in Name : dirEntry[m] # None /\ dirEntry[m] = dirEntry[n] => m = n
InodeLive ==
    \A i \in Inode : inode[i] # None =>
        IF inode[i].removed THEN \A n \in Name : dirEntry[n] # inode[i].sector
        ELSE \E n \in Name : dirEntry[n] = inode[i].sector
Filled ==
    \A i \in Inode : inode[i] # None =>
        \/ inode[i].data = diskInode[inode[i].sector]
        \/ inode[i].data = {} /\ \E p \in Proc : pc[p] = "fill" /\ ino[p] = i
FillAlone ==
    \A p \in Proc : pc[p] = "fill" =>
        /\ \A q \in Proc : (ino[q] = ino[p] => q = p) /\ self[q] # ino[p]
        /\ \A f \in Fd : fd[f] # None => fd[f].inode # ino[p]
SectorFound ==
    ~freedInUse =>
        \A p \in Proc : pc[p] \in {"found", "fill", "opened"} =>
            /\ dirEntry[arg[p]] # None /\ inode[ino[p]].sector = dirEntry[arg[p]]
            /\ ~inode[ino[p]].removed

ControlInv == FilesTypeOK /\ LockOK /\ StageOK /\ FdsOK /\ CheckStaysTrue
FilesInv ==
    /\ ControlInv /\ AllInMemory /\ OpenCntOK /\ DenyCntOK
    /\ InjectiveDir /\ InodeLive /\ Filled /\ FillAlone /\ SectorFound
    /\ StorageIsExclusive

ByOne(p) ==
    /\ OpenStep(p) \/ CloseStep(p) \/ Call(p)
    /\ ~freedInUse

-----------------------------------------------------------------------------
(* What the types say of one process, and of the inode it works on.        *)
TypeControl ==
    /\ self \in [Proc -> Inode \cup {None}] /\ fileLock \in Proc \cup {None}
    /\ pc \in [Proc -> Stage]
    /\ op \in [Proc -> Purpose \cup {None}]
    /\ ino \in [Proc -> Inode \cup {None}]
    /\ arg \in [Proc -> Name \cup Fd \cup {None}] /\ freedInUse \in BOOLEAN
TypeFd ==
    /\ fd \in [Fd -> Descriptor \cup {None}]
    /\ fdCnt \in 3 .. FDSIZE /\ emptyFds \in Seq(Fd)
TypeInode ==
    /\ inode \in [Inode -> InMemory \cup {None}]
    /\ openInodes = {i \in Inode : inode[i] # None}
TypeDisk ==
    /\ dirEntry \in [Name -> Sector \cup {None}]
    /\ freeMap \subseteq Sector /\ lost \subseteq Sector
    /\ diskInode \in [Sector -> SUBSET Sector] /\ content \in [Sector -> Value]

LEMMA TypeParts == FilesTypeOK <=> TypeControl /\ TypeFd /\ TypeInode /\ TypeDisk
BY DEF FilesTypeOK, TypeControl, TypeFd, TypeInode, TypeDisk

LEMMA NoneIsNothing ==
    /\ None \notin Proc /\ None \notin Name /\ None \notin Sector /\ None \notin Inode
    /\ None \notin Fd /\ None \notin Descriptor /\ None \notin InMemory
    /\ None \notin Purpose
BY FilesAssumption DEF FilesAssumption

(* A step of p changes nothing of another process.                         *)
OthersStay(p) ==
    \A q \in Proc \ {p} :
        pc'[q] = pc[q] /\ op'[q] = op[q] /\ ino'[q] = ino[q] /\ arg'[q] = arg[q] /\ self'[q] = self[q]

LEMMA StepOthersStay ==
    ASSUME TypeControl, NEW p \in Proc, OpenStep(p) \/ CloseStep(p) \/ Call(p)
    PROVE  OthersStay(p)
<1> USE DEF TypeControl, OthersStay, Goto, Return
<1>1. ASSUME InodeOpen(p) PROVE OthersStay(p)
  BY <1>1 DEF InodeOpen, OpenNew, OpenFails
<1>2. ASSUME InodeReopen(p) \/ InodeFill(p) \/ FdAcquire(p) \/ EraseEntry(p) \/ LoadDone(p)
             \/ DenyWrite(p)
      PROVE OthersStay(p)
  BY <1>2 DEF InodeReopen, InodeFill, FdAcquire, EraseEntry, LoadDone, DenyWrite
<1>3. ASSUME Closed(p) PROVE OthersStay(p)
  BY <1>3 DEF Closed
<1>4. ASSUME InodeClose(p) PROVE OthersStay(p)
  BY <1>3, <1>4 DEF InodeClose
<1>5. ASSUME InodeFree(p) PROVE OthersStay(p)
  BY <1>3, <1>5 DEF InodeFree
<1>6. ASSUME HandleClose(p) \/ ProcessExit(p) \/ FdProcessExit(p) PROVE OthersStay(p)
  BY <1>6 DEF HandleClose, ProcessExit, FdProcessExit
<1>7. ASSUME Call(p) PROVE OthersStay(p)
  BY <1>7 DEF Call, OpenBy, Create, CloseCheck, HandleWrite, callVars
<1>8. QED
  BY <1>1, <1>2, <1>4, <1>5, <1>6, <1>7 DEF OpenStep, CloseStep

LEMMA ControlTypes ==
    ASSUME ControlInv, NEW p \in Proc, ByOne(p)
    PROVE  /\ self' \in [Proc -> Inode \cup {None}] /\ fileLock' \in Proc \cup {None}
           /\ pc' \in [Proc -> Stage]
           /\ op' \in [Proc -> Purpose \cup {None}]
           /\ ino' \in [Proc -> Inode \cup {None}]
           /\ arg' \in [Proc -> Name \cup Fd \cup {None}]
<1> DEFINE T == /\ self' \in [Proc -> Inode \cup {None}] /\ fileLock' \in Proc \cup {None}
                /\ pc' \in [Proc -> Stage]
                /\ op' \in [Proc -> Purpose \cup {None}]
                /\ ino' \in [Proc -> Inode \cup {None}]
                /\ arg' \in [Proc -> Name \cup Fd \cup {None}]
<1>0. TypeControl /\ TypeFd /\ StageOK
  BY TypeParts DEF ControlInv
<1> USE <1>0 DEF TypeControl, Goto, Return, Stage, Purpose, TakeFileLock
<1>a. ASSUME OpenFails(p), UNCHANGED self PROVE T
  BY <1>a DEF OpenFails
<1>b. ASSUME OpenNew(p), UNCHANGED self PROVE T
  BY <1>a, <1>b DEF OpenNew
<1>1. ASSUME InodeOpen(p) PROVE T
  <2>1. ASSUME NEW i \in openInodes, ino' = [ino EXCEPT ![p] = i],
               pc' = [pc EXCEPT ![p] = "found"], UNCHANGED <<fileLock, op, arg, self>>
        PROVE T
    <3>1. i \in Inode
      BY TypeParts DEF ControlInv, TypeInode
    <3>2. QED
      BY <2>1, <3>1
  <2>2. CASE OpenFails(p)
    BY <1>a, <1>1, <2>2 DEF InodeOpen
  <2>3. CASE OpenNew(p)
    BY <1>b, <1>1, <2>3 DEF InodeOpen
  <2>4. QED
    BY <1>1, <2>1, <2>2, <2>3 DEF InodeOpen
<1>2. ASSUME InodeReopen(p) \/ InodeFill(p) \/ FdAcquire(p) \/ EraseEntry(p) \/ LoadDone(p)
             \/ DenyWrite(p)
      PROVE T
  BY <1>2 DEF InodeReopen, InodeFill, FdAcquire, EraseEntry, LoadDone, DenyWrite
<1>3. ASSUME Closed(p) PROVE T
  BY <1>3 DEF Closed
<1>4. ASSUME InodeClose(p) PROVE T
  BY <1>3, <1>4 DEF InodeClose
<1>5. ASSUME InodeFree(p) PROVE T
  BY <1>3, <1>5 DEF InodeFree
<1>6. ASSUME HandleClose(p) PROVE T
  <2>1. arg[p] \in Fd /\ fd[arg[p]].inode \in Inode \cup {None}
    BY <1>6 DEF HandleClose, StageOK, StageOf, ControlInv, CheckStaysTrue, FdIsValid, TypeFd, Descriptor
  <2>2. QED
    BY <1>6, <2>1 DEF HandleClose
<1>7. ASSUME ProcessExit(p) \/ FdProcessExit(p) PROVE T
  <2>1. CASE ProcessExit(p)
    BY <2>1 DEF ProcessExit
  <2>2. CASE FdProcessExit(p)
    <3>1. ASSUME NEW f \in Fd, FdIsValid(p, f), op' = [op EXCEPT ![p] = "exitFd"],
                 arg' = [arg EXCEPT ![p] = f], ino' = [ino EXCEPT ![p] = fd[f].inode],
                 Goto(p, "close"), UNCHANGED <<self, fileLock>>
          PROVE T
      <4>1. fd[f].inode \in Inode
        BY <3>1 DEF FdIsValid, TypeFd, Descriptor
      <4>2. QED
        BY <3>1, <4>1
    <3>2. QED
      BY <2>2, <3>1 DEF FdProcessExit
  <2>3. QED
    BY <1>7, <2>1, <2>2
<1>8. ASSUME Call(p) PROVE T
  BY <1>8 DEF Call, OpenBy, Create, CloseCheck, HandleWrite, callVars
<1>9. QED
  BY <1>1, <1>2, <1>4, <1>5, <1>6, <1>7, <1>8 DEF OpenStep, CloseStep, ByOne

-----------------------------------------------------------------------------
(* Descriptors.  fd_acquire takes one that is free, whether it has been    *)
(* used before or not; what is released is the caller's own.               *)
Acquired == IF emptyFds # <<>> THEN emptyFds[Len(emptyFds)] ELSE fdCnt
Acquires(p) ==
    /\ pc[p] = "opened" /\ op[p] = "open" /\ ino[p] \in Inode
    /\ Acquired \in Fd /\ fd[Acquired] = None
    /\ fd' = [fd EXCEPT ![Acquired] = [inode |-> ino[p], owner |-> p]]
    /\ IF emptyFds # <<>>
       THEN emptyFds' = SubSeq(emptyFds, 1, Len(emptyFds) - 1) /\ fdCnt' = fdCnt
       ELSE fdCnt' = fdCnt + 1 /\ fdCnt < FDSIZE /\ emptyFds' = emptyFds
Releases(p) ==
    /\ pc[p] \in {"close", "last"} /\ op[p] \in {"close", "exitFd"}
    /\ arg[p] \in Fd /\ fd[arg[p]] # None /\ fd[arg[p]].owner = p
    /\ FdRelease(arg[p]) /\ fdCnt' = fdCnt

LEMMA FdAcquires ==
    ASSUME ControlInv, NEW p \in Proc, FdAcquire(p)
    PROVE  Acquires(p)
<1>0. TypeControl /\ TypeFd /\ StageOK /\ FdsOK
  BY TypeParts DEF ControlInv
<1>1. /\ pc[p] = "opened" /\ op[p] = "open" /\ ino[p] \in Inode
  BY <1>0 DEF FdAcquire, StageOK, StageOf, Opening, TypeControl
<1>2. emptyFds # <<>> \/ fdCnt < FDSIZE
  BY <1>0, <1>1 DEF FdsOK, Opening
<1>3. CASE emptyFds # <<>>
  <2>1. Len(emptyFds) \in 1 .. Len(emptyFds) /\ emptyFds[Len(emptyFds)] \in Fd
    BY <1>0, <1>3 DEF TypeFd, Descriptor
  <2>2. fd[emptyFds[Len(emptyFds)]] = None
    BY <1>0, <2>1 DEF FdsOK
  <2>3. QED
    BY <1>1, <1>3, <2>1, <2>2 DEF FdAcquire, Acquires, Acquired
<1>4. CASE emptyFds = <<>>
  <2>1. fdCnt \in Fd /\ fdCnt < FDSIZE
    BY <1>0, <1>2, <1>4, FilesAssumption DEF FilesAssumption, TypeFd, Fd
  <2>2. fd[fdCnt] = None
    BY <1>0, <2>1 DEF FdsOK, TypeFd, Fd
  <2>3. QED
    BY <1>1, <1>4, <2>1, <2>2 DEF FdAcquire, Acquires, Acquired
<1>5. QED
  BY <1>3, <1>4

LEMMA FdStepCases ==
    ASSUME ControlInv, NEW p \in Proc, ByOne(p)
    PROVE  UNCHANGED fdVars \/ (FdAcquire(p) /\ Acquires(p)) \/ Releases(p)
<1>0. TypeControl /\ TypeFd /\ StageOK /\ FdsOK
  BY TypeParts DEF ControlInv
<1>1. ASSUME Closed(p), UNCHANGED fdCnt, pc[p] \in {"close", "last"}
      PROVE  UNCHANGED fdVars \/ Releases(p)
  <2>1. CASE op[p] \in {"close", "exitFd"}
    <3>1. FdRelease(arg[p])
      BY <1>1, <2>1 DEF Closed
    <3>2. arg[p] \in Fd /\ fd[arg[p]] # None /\ fd[arg[p]].owner = p
      BY <1>0, <1>1, <2>1 DEF StageOK, StageOf
    <3>3. QED
      BY <1>1, <2>1, <3>1, <3>2 DEF Releases
  <2>2. CASE op[p] \notin {"close", "exitFd"}
    BY <1>1, <2>2 DEF Closed, fdVars
  <2>3. QED
    BY <2>1, <2>2
<1>2. FdAcquire(p) => Acquires(p)
  BY FdAcquires
<1>3. ASSUME InodeClose(p) PROVE UNCHANGED fdVars \/ Releases(p)
  BY <1>1, <1>3 DEF InodeClose, fdVars
<1>4. ASSUME InodeFree(p) PROVE UNCHANGED fdVars \/ Releases(p)
  BY <1>1, <1>4 DEF InodeFree
<1>5. CASE OpenStep(p)
  BY <1>2, <1>5 DEF OpenStep, InodeOpen, InodeReopen, InodeFill, EraseEntry, LoadDone, DenyWrite
<1>6. CASE HandleClose(p) \/ ProcessExit(p) \/ FdProcessExit(p)
  BY <1>6 DEF HandleClose, ProcessExit, FdProcessExit
<1>7. CASE Call(p)
  BY <1>7 DEF Call, OpenBy, Create, CloseCheck, HandleWrite
<1>8. QED
  BY <1>3, <1>4, <1>5, <1>6, <1>7 DEF ByOne, CloseStep

(* Only p's own descriptor, or a free one, changes.                        *)
LEMMA FdsOfOthers ==
    ASSUME ControlInv, NEW p \in Proc, ByOne(p), NEW f \in Fd
    PROVE  \/ fd'[f] = fd[f]
           \/ fd[f] = None /\ f = Acquired /\ Acquires(p)
           \/ fd[f] # None /\ fd[f].owner = p /\ f = arg[p] /\ fd'[f] = None /\ Releases(p)
<1>0. TypeFd
  BY TypeParts DEF ControlInv
<1>1. QED
  BY <1>0, FdStepCases DEF fdVars, Acquires, Releases, FdRelease, TypeFd, Descriptor

LEMMA FdTypes ==
    ASSUME ControlInv, NEW p \in Proc, ByOne(p)
    PROVE  TypeFd'
<1>0. TypeFd /\ TypeControl
  BY TypeParts DEF ControlInv
<1>1. CASE Acquires(p)
  <2>1. [inode |-> ino[p], owner |-> p] \in Descriptor
    BY <1>1 DEF Acquires, Descriptor
  <2>2. fd' \in [Fd -> Descriptor \cup {None}]
    BY <1>0, <1>1, <2>1 DEF Acquires, TypeFd, Descriptor
  <2>3. fdCnt' \in 3 .. FDSIZE /\ emptyFds' \in Seq(Fd)
    <3>1. CASE emptyFds # <<>>
      <4>1. Len(emptyFds) - 1 \in 0 .. Len(emptyFds)
        BY <1>0, <3>1 DEF TypeFd, Descriptor
      <4>2. SubSeq(emptyFds, 1, Len(emptyFds) - 1) \in Seq(Fd)
        BY <1>0, <4>1, SubSeqProperties DEF TypeFd, Descriptor
      <4>3. QED
        BY <1>0, <1>1, <3>1, <4>2 DEF Acquires, TypeFd, Descriptor
    <3>2. CASE emptyFds = <<>>
      BY <1>0, <1>1, <3>2, FilesAssumption DEF Acquires, TypeFd, FilesAssumption
    <3>3. QED
      BY <3>1, <3>2
  <2>4. QED
    BY <2>2, <2>3 DEF TypeFd, Descriptor
<1>2. CASE Releases(p)
  BY <1>0, <1>2, AppendProperties DEF Releases, FdRelease, TypeFd, Descriptor
<1>3. CASE UNCHANGED fdVars
  BY <1>0, <1>3 DEF fdVars, TypeFd, Descriptor
<1>4. QED
  BY <1>1, <1>2, <1>3, FdStepCases

(* A process that begins to open a file for itself has found room for a    *)
(* descriptor, and nobody else opens one meanwhile.                        *)
LEMMA OpenBegins ==
    ASSUME ControlInv, NEW p \in Proc, ByOne(p), Opening(p)', op'[p] = "open"
    PROVE  /\ (Opening(p) /\ op[p] = "open") \/ emptyFds # <<>> \/ fdCnt < FDSIZE
           /\ ~Acquires(p) \/ ~FdAcquire(p)
<1>0. TypeControl /\ StageOK
  BY TypeParts DEF ControlInv
<1> USE <1>0 DEF TypeControl, Goto, Return, Opening
<1>1. ASSUME Closed(p), pc[p] \in {"close", "last"} PROVE FALSE
  BY <1>1 DEF Closed
<1>2. CASE OpenStep(p)
  BY <1>2 DEF OpenStep, InodeOpen, OpenNew, OpenFails, InodeReopen, InodeFill, FdAcquire, EraseEntry, LoadDone, DenyWrite
<1>3. CASE CloseStep(p)
  BY <1>1, <1>3 DEF CloseStep, InodeClose, InodeFree, HandleClose, ProcessExit, FdProcessExit
<1>4. CASE Call(p)
  BY <1>4 DEF Call, OpenBy, Create, CloseCheck, HandleWrite, callVars, FdAcquire
<1>5. QED
  BY <1>2, <1>3, <1>4 DEF ByOne

LEMMA OneWorks ==
    ASSUME LockOK, NEW p \in Proc, NEW q \in Proc, Working(p), Working(q)
    PROVE  p = q
BY DEF LockOK

LEMMA FdsNext ==
    ASSUME ControlInv, NEW p \in Proc, ByOne(p)
    PROVE  FdsOK'
<1>0. TypeFd /\ TypeControl /\ TypeFd' /\ FdsOK /\ StageOK /\ LockOK /\ OthersStay(p)
  BY TypeParts, FdTypes, StepOthersStay DEF ControlInv, ByOne
<1>a. \A k \in 1 .. Len(emptyFds) : emptyFds[k] \in Fd
  BY <1>0 DEF TypeFd, Descriptor
<1>1. /\ \A j, k \in 1 .. Len(emptyFds') : emptyFds'[j] = emptyFds'[k] => j = k
      /\ \A k \in 1 .. Len(emptyFds') : fd'[emptyFds'[k]] = None /\ emptyFds'[k] < fdCnt'
      /\ \A f \in Fd : fd'[f] # None => f < fdCnt'
  <2>1. CASE UNCHANGED fdVars
    BY <1>0, <2>1 DEF fdVars, FdsOK
  <2>2. CASE Acquires(p)
    <3>1. /\ Acquired \in Fd /\ fd'[Acquired] # None
          /\ \A f \in Fd : f # Acquired => fd'[f] = fd[f]
      <4>1. [inode |-> ino[p], owner |-> p] \in Descriptor
        BY <2>2 DEF Acquires, Descriptor
      <4>2. [inode |-> ino[p], owner |-> p] # None
        BY <4>1, NoneIsNothing
      <4>3. QED
        BY <1>0, <2>2, <4>2 DEF Acquires, TypeFd, Descriptor
    <3>2. CASE emptyFds # <<>>
      <4> DEFINE n == Len(emptyFds)
      <4>1. n \in Nat \ {0} /\ emptyFds' = SubSeq(emptyFds, 1, n - 1) /\ fdCnt' = fdCnt
            /\ Acquired = emptyFds[n]
        BY <1>0, <2>2, <3>2 DEF Acquires, Acquired, TypeFd, Descriptor
      <4>2. Len(emptyFds') = n - 1 /\ \A k \in 1 .. n - 1 : emptyFds'[k] = emptyFds[k]
        <5>1. emptyFds \in Seq(Fd) /\ 1 \in 1 .. n + 1 /\ n - 1 \in 1 - 1 .. n
          BY <1>0, <4>1 DEF TypeFd
        <5>2. \A k \in 1 .. n - 1 : emptyFds[k] \in Fd
          BY <1>a, <4>1
        <5>3. /\ Len(SubSeq(emptyFds, 1, n - 1)) = IF 1 <= n - 1 THEN (n - 1) - 1 + 1 ELSE 0
              /\ \A k \in 1 .. (n - 1) - 1 + 1 : SubSeq(emptyFds, 1, n - 1)[k] = emptyFds[1 + k - 1]
          BY <4>1, <5>2, SubSeqProperties
        <5>4. PICK l : l = Len(SubSeq(emptyFds, 1, n - 1))
          OBVIOUS
        <5>5. Len(emptyFds') = n - 1
          <6>1. l = IF 1 <= n - 1 THEN (n - 1) - 1 + 1 ELSE 0
            BY <5>3, <5>4
          <6>2. l = n - 1
            <7>1. n \in Nat \ {0}
              BY <4>1
            <7> HIDE DEF n
            <7>2. QED
              BY <6>1, <7>1
          <6>3. QED
            BY <4>1, <5>4, <6>2
        <5>6. ASSUME NEW k \in 1 .. n - 1 PROVE emptyFds'[k] = emptyFds[k]
          <6>1. k \in 1 .. (n - 1) - 1 + 1 /\ 1 + k - 1 = k
            BY <4>1
          <6>2. SubSeq(emptyFds, 1, n - 1)[k] = emptyFds[1 + k - 1]
            BY <5>3, <6>1
          <6>3. QED
            BY <4>1, <6>1, <6>2
        <5>7. QED
          BY <5>5, <5>6
      <4> HIDE DEF n
      <4>3. \A k \in 1 .. n - 1 : k \in 1 .. n /\ k # n
        BY <4>1
      <4>4. n = Len(emptyFds) /\ n \in 1 .. n
        BY <4>1 DEF n
      <4>5. \A k \in 1 .. n - 1 : emptyFds[k] # Acquired
        BY <1>0, <4>1, <4>3, <4>4 DEF FdsOK
      <4>6. Acquired < fdCnt
        BY <1>0, <4>1, <4>4 DEF FdsOK
      <4>7. \A j, k \in 1 .. Len(emptyFds') : emptyFds'[j] = emptyFds'[k] => j = k
        BY <1>0, <4>2, <4>3, <4>4 DEF FdsOK
      <4>8. \A k \in 1 .. Len(emptyFds') : fd'[emptyFds'[k]] = None /\ emptyFds'[k] < fdCnt'
        BY <1>0, <1>a, <3>1, <4>1, <4>2, <4>3, <4>4, <4>5 DEF FdsOK
      <4>9. \A f \in Fd : fd'[f] # None => f < fdCnt'
        BY <1>0, <3>1, <4>1, <4>6 DEF FdsOK
      <4>10. QED
        BY <4>7, <4>8, <4>9
    <3>3. CASE emptyFds = <<>>
      <4>1. emptyFds' = <<>> /\ fdCnt' = fdCnt + 1 /\ Acquired = fdCnt /\ fdCnt \in Nat
        BY <1>0, <2>2, <3>3 DEF Acquires, Acquired, TypeFd, Descriptor
      <4>2. \A f \in Fd : f \in Int
        BY FilesAssumption DEF FilesAssumption, Fd
      <4>3. QED
        <5>1. Len(emptyFds') = 0
          BY <4>1
        <5>2. ASSUME NEW f \in Fd, fd'[f] # None PROVE f < fdCnt'
          <6>1. f = fdCnt \/ f < fdCnt
            BY <1>0, <3>1, <4>1, <5>2 DEF FdsOK
          <6>2. QED
            BY <4>1, <4>2, <6>1
        <5>3. QED
          BY <5>1, <5>2
    <3>4. QED
      BY <3>2, <3>3
  <2>3. CASE Releases(p)
    <3> DEFINE n == Len(emptyFds)
    <3>1. /\ arg[p] \in Fd /\ fd[arg[p]] # None /\ fd'[arg[p]] = None
          /\ \A f \in Fd : f # arg[p] => fd'[f] = fd[f]
          /\ emptyFds' = Append(emptyFds, arg[p]) /\ fdCnt' = fdCnt
      BY <1>0, <2>3 DEF Releases, FdRelease, TypeFd, Descriptor
    <3>2. /\ n \in Nat /\ Len(emptyFds') = n + 1 /\ emptyFds'[n + 1] = arg[p]
          /\ \A k \in 1 .. n : emptyFds'[k] = emptyFds[k]
      BY <1>0, <3>1, AppendProperties DEF TypeFd, Descriptor
    <3>3. \A k \in 1 .. n : emptyFds[k] # arg[p]
      BY <1>0, <3>1 DEF FdsOK
    <3>4. \A k \in 1 .. n + 1 : k \in 1 .. n \/ k = n + 1
      BY <3>2
    <3>5. arg[p] < fdCnt
      BY <1>0, <3>1 DEF FdsOK
    <3> HIDE DEF n
    <3>6. n = Len(emptyFds)
      BY DEF n
    <3>7. QED
      BY <1>0, <1>a, <3>1, <3>2, <3>3, <3>4, <3>5, <3>6 DEF FdsOK
  <2>4. QED
    BY <2>1, <2>2, <2>3, FdStepCases
<1>2. ASSUME NEW q \in Proc, Opening(q)', op'[q] = "open"
      PROVE  emptyFds' # <<>> \/ fdCnt' < FDSIZE
  <2>1. (Opening(q) /\ op[q] = "open") \/ emptyFds # <<>> \/ fdCnt < FDSIZE
    <3>1. CASE q = p
      BY <1>2, <3>1, OpenBegins
    <3>2. CASE q # p
      BY <1>0, <1>2, <3>2 DEF OthersStay, Opening
    <3>3. QED
      BY <3>1, <3>2
  <2>2. emptyFds # <<>> \/ fdCnt < FDSIZE
    BY <1>0, <2>1 DEF FdsOK
  <2>3. ~(FdAcquire(p) /\ Acquires(p))
    <3>1. CASE q = p
      BY <1>2, <3>1, OpenBegins
    <3>2. CASE q # p
      <4>1. Opening(q)
        BY <1>0, <1>2, <3>2 DEF OthersStay, Opening
      <4>2. QED
        BY <1>0, <3>2, <4>1, OneWorks DEF Acquires, Working, Opening
    <3>3. QED
      BY <3>1, <3>2
  <2>4. CASE UNCHANGED fdVars
    BY <2>2, <2>4 DEF fdVars
  <2>5. CASE Releases(p)
    <3>1. fdCnt' = fdCnt /\ Len(emptyFds') = Len(emptyFds) + 1 /\ Len(emptyFds) \in Nat
      BY <1>0, <2>5, AppendProperties DEF Releases, FdRelease, TypeFd, Descriptor
    <3>2. emptyFds' # <<>>
      BY <3>1
    <3>3. QED
      BY <3>2
  <2>6. QED
    BY <2>3, <2>4, <2>5, FdStepCases
<1>3. QED
  BY <1>1, <1>2 DEF FdsOK

-----------------------------------------------------------------------------
(* Stages and file_lock.                                                   *)
(* What a step makes of p's stage, and of file_lock.                       *)
Mover(p) ==
    /\ StageOf(p)'
    /\ pc'[p] = "checked" => FdIsValid(p, arg[p])'
    /\ \/ fileLock' = fileLock /\ (Working(p)' <=> Working(p))
       \/ fileLock = None /\ fileLock' = p /\ Working(p)'
       \/ Working(p) /\ fileLock' = None /\ ~Working(p)'

LEMMA ClosedMover ==
    ASSUME ControlInv, NEW p \in Proc, Closed(p), pc[p] \in {"close", "last"}
    PROVE  Mover(p)
<1>0. TypeControl /\ TypeFd /\ StageOf(p)
  BY TypeParts DEF ControlInv, StageOK
<1> USE <1>0, NoneIsNothing DEF TypeControl, Purpose, Goto, Return, Mover, Working, Opening, NothingOn, CallOps, StageOf
<1>1. CASE op[p] = "remove"
  BY <1>1 DEF Closed
<1>2. CASE op[p] = "close"
  BY <1>2 DEF Closed
<1>3. CASE op[p] = "bad"
  BY <1>3 DEF Closed
<1>4. CASE op[p] = "load"
  BY <1>4 DEF Closed
<1>5. CASE op[p] = "exitSelf"
  BY <1>5 DEF Closed
<1>6. CASE op[p] = "exitFd"
  BY <1>6 DEF Closed
<1>7. QED
  BY <1>1, <1>2, <1>3, <1>4, <1>5, <1>6

LEMMA OpenMover ==
    ASSUME ControlInv, NEW p \in Proc, OpenStep(p)
    PROVE  Mover(p)
<1>0. TypeControl /\ TypeFd /\ TypeInode /\ StageOf(p)
  BY TypeParts DEF ControlInv, StageOK
<1> USE <1>0, NoneIsNothing DEF TypeControl, Purpose, Goto, Return, Mover, Working, Opening, NothingOn, CallOps, StageOf
<1>a. CASE OpenFails(p) /\ pc[p] = "open" /\ UNCHANGED <<fdVars, self>>
  BY <1>a DEF OpenFails
<1>1. CASE InodeOpen(p)
  <2>1. ASSUME NEW i \in Inode, ino' = [ino EXCEPT ![p] = i],
               Goto(p, "found") \/ Goto(p, "fill"), UNCHANGED <<fileLock, op, arg, self>>,
               pc[p] = "open"
        PROVE  Mover(p)
    BY <2>1
  <2>2. \A i \in openInodes : i \in Inode
    BY DEF TypeInode
  <2>3. QED
    BY <1>a, <1>1, <2>1, <2>2 DEF InodeOpen, OpenNew
<1>2. CASE InodeReopen(p) \/ InodeFill(p) \/ LoadDone(p)
  BY <1>2 DEF InodeReopen, InodeFill, LoadDone
<1>3. CASE EraseEntry(p)
  BY <1>3 DEF EraseEntry
<1>4. CASE FdAcquire(p)
  BY <1>4 DEF FdAcquire
<1>5. CASE DenyWrite(p)
  BY <1>5 DEF DenyWrite
<1>6. QED
  BY <1>1, <1>2, <1>3, <1>4, <1>5 DEF OpenStep

LEMMA CloseMover ==
    ASSUME ControlInv, NEW p \in Proc, CloseStep(p)
    PROVE  Mover(p)
<1>0. TypeControl /\ TypeFd /\ StageOf(p)
  BY TypeParts DEF ControlInv, StageOK
<1>a. ASSUME NEW f \in Fd, FdIsValid(p, f) PROVE fd[f] # None /\ fd[f].owner = p /\ fd[f].inode \in Inode
  BY <1>0, <1>a DEF FdIsValid, TypeFd, Descriptor
<1> USE <1>0, NoneIsNothing DEF TypeControl, Purpose, Goto, Return, Mover, Working, Opening, NothingOn, CallOps, StageOf
<1>1. CASE InodeClose(p)
  <2>1. CASE inode[ino[p]].openCnt = 1
    BY <1>1, <2>1 DEF InodeClose
  <2>2. CASE inode[ino[p]].openCnt # 1
    BY <1>1, <2>2, ClosedMover DEF InodeClose
  <2>3. QED
    BY <2>1, <2>2
<1>2. CASE InodeFree(p)
  BY <1>2, ClosedMover DEF InodeFree
<1>3. CASE HandleClose(p)
  <2>1. arg[p] \in Fd /\ FdIsValid(p, arg[p])
    BY <1>3 DEF HandleClose, ControlInv, CheckStaysTrue
  <2>2. QED
    BY <1>3, <2>1, <1>a DEF HandleClose, TakeFileLock, fdVars
<1>4. CASE ProcessExit(p)
  BY <1>4 DEF ProcessExit
<1>5. CASE FdProcessExit(p)
  <2>1. ASSUME NEW f \in Fd, FdIsValid(p, f), op' = [op EXCEPT ![p] = "exitFd"],
               arg' = [arg EXCEPT ![p] = f], ino' = [ino EXCEPT ![p] = fd[f].inode],
               Goto(p, "close"), UNCHANGED <<self, fileLock, fdVars>>, pc[p] = "fds"
        PROVE  Mover(p)
    BY <2>1, <1>a DEF fdVars
  <2>2. CASE op' = [op EXCEPT ![p] = None] /\ Goto(p, "none") /\ UNCHANGED <<ino, arg, self, fileLock>> /\ pc[p] = "fds"
    BY <2>2
  <2>3. QED
    BY <1>5, <2>1, <2>2 DEF FdProcessExit
<1>6. QED
  BY <1>1, <1>2, <1>3, <1>4, <1>5 DEF CloseStep

LEMMA CallMover ==
    ASSUME ControlInv, NEW p \in Proc, Call(p)
    PROVE  Mover(p)
<1>0. TypeControl /\ TypeFd /\ StageOf(p)
  BY TypeParts DEF ControlInv, StageOK
<1> USE <1>0, NoneIsNothing DEF TypeControl, Purpose, Goto, Return, Mover, Working, Opening, NothingOn, CallOps, StageOf
<1>1. ASSUME NEW n \in Name, NEW o \in {"open", "remove", "load"}, OpenBy(p, o, n) PROVE Mover(p)
  BY <1>1 DEF OpenBy, TakeFileLock
<1>2. ASSUME NEW f \in Fd, CloseCheck(p, f) PROVE Mover(p)
  BY <1>2 DEF CloseCheck, FdIsValid, fdVars
<1>3. ASSUME UNCHANGED <<fdVars, self, fileLock, callVars>>, pc[p] = "idle" PROVE Mover(p)
  BY <1>3 DEF callVars
<1>4. QED
  BY <1>1, <1>2, <1>3 DEF Call, Create, HandleWrite

LEMMA ControlNext ==
    ASSUME ControlInv, NEW p \in Proc, ByOne(p), TypeInode', TypeDisk', freedInUse' \in BOOLEAN
    PROVE  ControlInv'
<1>1. TypeControl' /\ TypeFd' /\ OthersStay(p) /\ TypeControl /\ TypeFd
  BY ControlTypes, FdTypes, TypeParts, StepOthersStay DEF TypeControl, ControlInv, ByOne
<1>2. Mover(p)
  BY OpenMover, CloseMover, CallMover DEF ByOne
<1>3. FdsOK'
  BY FdsNext
<1>4. ASSUME NEW q \in Proc, q # p, NEW f \in Fd, fd[f] # None, fd[f].owner = q
      PROVE  fd'[f] = fd[f]
  BY <1>4, FdsOfOthers
<1>5. ASSUME NEW q \in Proc, q # p PROVE StageOf(q)' /\ (pc'[q] = "checked" => FdIsValid(q, arg[q])')
  <2>1. StageOf(q) /\ (pc[q] = "checked" => FdIsValid(q, arg[q])) /\ arg[q] \in Name \cup Fd \cup {None}
    BY <1>1 DEF ControlInv, StageOK, CheckStaysTrue, TypeControl
  <2>2. /\ pc'[q] = pc[q] /\ op'[q] = op[q] /\ ino'[q] = ino[q] /\ arg'[q] = arg[q]
        /\ self'[q] = self[q]
    BY <1>1, <1>5 DEF OthersStay
  <2>3. arg[q] \in Fd /\ fd[arg[q]] # None /\ fd[arg[q]].owner = q => fd'[arg[q]] = fd[arg[q]]
    BY <1>4, <1>5
  <2>4. StageOf(q)'
    BY <2>1, <2>2, <2>3 DEF StageOf, Opening, NothingOn
  <2>5. pc[q] = "checked" => arg[q] \in Fd
    BY <2>1 DEF StageOf
  <2>6. pc'[q] = "checked" => FdIsValid(q, arg[q])'
    BY <2>1, <2>2, <2>3, <2>5 DEF FdIsValid
  <2>7. QED
    BY <2>4, <2>6
<1>6. StageOK' /\ CheckStaysTrue'
  BY <1>2, <1>5 DEF StageOK, CheckStaysTrue, Mover
<1>7. \A q \in Proc \ {p} : Working(q)' <=> Working(q)
  BY <1>1 DEF Working, Opening, OthersStay
<1>8. LockOK'
  <2>1. LockOK /\ p # None /\ \A q \in Proc : q # None
    BY NoneIsNothing DEF ControlInv
  <2>2. CASE fileLock' = fileLock /\ (Working(p)' <=> Working(p))
    BY <1>7, <2>1, <2>2 DEF LockOK
  <2>3. CASE fileLock = None /\ fileLock' = p /\ Working(p)'
    BY <1>7, <2>1, <2>3 DEF LockOK
  <2>4. CASE Working(p) /\ fileLock' = None /\ ~Working(p)'
    BY <1>7, <2>1, <2>4 DEF LockOK
  <2>5. QED
    BY <1>2, <2>2, <2>3, <2>4 DEF Mover
<1>9. FilesTypeOK'
  BY <1>1 DEF FilesTypeOK, TypeControl, TypeFd, TypeInode, TypeDisk
<1>10. QED
  BY <1>3, <1>6, <1>8, <1>9 DEF ControlInv

-----------------------------------------------------------------------------
(* Counting the openers.                                                   *)
LEMMA TokenFinite == IsFiniteSet(Token)
<1>1. IsFiniteSet(Fd)
  <2>1. 3 \in Int /\ FDSIZE - 1 \in Int
    BY FilesAssumption DEF FilesAssumption
  <2>2. QED
    BY <2>1, FS_Interval DEF Fd
<1>2. IsFiniteSet({"fd"}) /\ IsFiniteSet({"self", "call"}) /\ IsFiniteSet(Proc)
  <2>1. {"self", "call"} = {"self"} \cup {"call"}
    OBVIOUS
  <2>2. IsFiniteSet({"fd"}) /\ IsFiniteSet({"self"})
    BY FS_Singleton
  <2>3. IsFiniteSet({"self"} \cup {"call"})
    BY <2>2, FS_AddElement
  <2>4. QED
    BY <2>1, <2>2, <2>3, FilesAssumption DEF FilesAssumption
<1>3. IsFiniteSet({"fd"} \X Fd) /\ IsFiniteSet({"self", "call"} \X Proc)
  BY <1>1, <1>2, FS_Product
<1>4. QED
  BY <1>3, FS_Union DEF Token

LEMMA CountedFinite ==
    ASSUME NEW R, NEW i
    PROVE  IsFiniteSet(Counted(R, i)) /\ Cardinality(Counted(R, i)) \in Nat
<1>1. Counted(R, i) \in SUBSET Token
  BY DEF Counted
<1>2. QED
  BY <1>1, TokenFinite, FS_Subset, FS_CardinalityType

(* One opener more, one less, or one in the place of another.              *)
LEMMA OneMore ==
    ASSUME NEW R, NEW Q, NEW t \in Token, \A x \in Token : x # t => Q[x] = R[x],
           NEW i, R[t] # i, Q[t] = i
    PROVE  Cardinality(Counted(Q, i)) = Cardinality(Counted(R, i)) + 1
<1>1. Counted(Q, i) = Counted(R, i) \cup {t} /\ t \notin Counted(R, i)
  BY DEF Counted
<1>2. QED
  BY <1>1, CountedFinite, FS_AddElement

LEMMA OneLess ==
    ASSUME NEW R, NEW Q, NEW t \in Token, \A x \in Token : x # t => Q[x] = R[x],
           NEW i, R[t] = i, Q[t] # i
    PROVE  Cardinality(Counted(Q, i)) = Cardinality(Counted(R, i)) - 1
<1>1. Counted(Q, i) = Counted(R, i) \ {t} /\ t \in Counted(R, i)
  BY DEF Counted
<1>2. QED
  BY <1>1, CountedFinite, FS_RemoveElement

LEMMA AsMany ==
    ASSUME NEW R, NEW Q, NEW t \in Token, NEW u \in Token, t # u,
           \A x \in Token : x # t /\ x # u => Q[x] = R[x],
           R[u] = Q[t], Q[u] = R[t], NEW i
    PROVE  Cardinality(Counted(Q, i)) = Cardinality(Counted(R, i))
<1>1. CASE R[t] = i /\ R[u] # i
  <2>1. Counted(Q, i) = (Counted(R, i) \ {t}) \cup {u} /\ t \in Counted(R, i)
        /\ u \notin Counted(R, i) \ {t}
    BY <1>1 DEF Counted
  <2>2. /\ IsFiniteSet(Counted(R, i) \ {t}) /\ Cardinality(Counted(R, i)) \in Nat
        /\ Cardinality(Counted(R, i) \ {t}) = Cardinality(Counted(R, i)) - 1
    BY <2>1, CountedFinite, FS_RemoveElement
  <2>3. Cardinality(Counted(Q, i)) = Cardinality(Counted(R, i) \ {t}) + 1
    BY <2>1, <2>2, FS_AddElement
  <2>4. QED
    BY <2>2, <2>3
<1>2. CASE R[t] # i /\ R[u] = i
  <2>1. Counted(Q, i) = (Counted(R, i) \ {u}) \cup {t} /\ u \in Counted(R, i)
        /\ t \notin Counted(R, i) \ {u}
    BY <1>2 DEF Counted
  <2>2. /\ IsFiniteSet(Counted(R, i) \ {u}) /\ Cardinality(Counted(R, i)) \in Nat
        /\ Cardinality(Counted(R, i) \ {u}) = Cardinality(Counted(R, i)) - 1
    BY <2>1, CountedFinite, FS_RemoveElement
  <2>3. Cardinality(Counted(Q, i)) = Cardinality(Counted(R, i) \ {u}) + 1
    BY <2>1, <2>2, FS_AddElement
  <2>4. QED
    BY <2>2, <2>3
<1>3. CASE (R[t] = i) <=> (R[u] = i)
  <2>1. Counted(Q, i) = Counted(R, i)
    BY <1>3 DEF Counted
  <2>2. QED
    BY <2>1
<1>4. QED
  BY <1>1, <1>2, <1>3

LEMMA SameCount ==
    ASSUME NEW R, NEW Q, NEW i, \A x \in Token : (Q[x] = i) <=> (R[x] = i)
    PROVE  Counted(Q, i) = Counted(R, i)
BY DEF Counted

(* Ref at each kind of token, now and after a step.                        *)
LEMMA Refs ==
    /\ \A f \in Fd : <<"fd", f>> \in Token /\ Ref[<<"fd", f>>] = FdRef(f)
    /\ \A p \in Proc : <<"self", p>> \in Token /\ Ref[<<"self", p>>] = SelfRef(p)
    /\ \A p \in Proc : <<"call", p>> \in Token /\ Ref[<<"call", p>>] = CallRef(p)
    /\ \A x \in Token : \/ \E f \in Fd : x = <<"fd", f>>
                        \/ \E p \in Proc : x = <<"self", p>> \/ x = <<"call", p>>
<1>1. \A f \in Fd : <<"fd", f>> \in Token
  BY DEF Token
<1>2. \A p \in Proc : <<"self", p>> \in Token /\ <<"call", p>> \in Token
  BY DEF Token
<1>3. ASSUME NEW f \in Fd PROVE Ref[<<"fd", f>>] = FdRef(f)
  BY <1>1 DEF Ref
<1>4. ASSUME NEW p \in Proc PROVE Ref[<<"self", p>>] = SelfRef(p) /\ Ref[<<"call", p>>] = CallRef(p)
  BY <1>2 DEF Ref
<1>5. ASSUME NEW x \in Token
      PROVE  \/ \E f \in Fd : x = <<"fd", f>>
             \/ \E p \in Proc : x = <<"self", p>> \/ x = <<"call", p>>
  BY DEF Token
<1>6. QED
  BY <1>1, <1>2, <1>3, <1>4, <1>5

LEMMA NextRefs ==
    /\ \A f \in Fd : Ref'[<<"fd", f>>] = FdRef(f)'
    /\ \A p \in Proc : Ref'[<<"self", p>>] = SelfRef(p)'
    /\ \A p \in Proc : Ref'[<<"call", p>>] = CallRef(p)'
<1>1. ASSUME NEW f \in Fd PROVE Ref'[<<"fd", f>>] = FdRef(f)'
  BY Refs DEF Ref
<1>2. ASSUME NEW p \in Proc PROVE Ref'[<<"self", p>>] = SelfRef(p)' /\ Ref'[<<"call", p>>] = CallRef(p)'
  BY Refs DEF Ref
<1>3. QED
  BY <1>1, <1>2

-----------------------------------------------------------------------------
(* What a step does to the openers.                                        *)
LEMMA CallSelfStay ==
    ASSUME NEW p, OthersStay(p), NEW q \in Proc, q # p
    PROVE  CallRef(q)' = CallRef(q) /\ SelfRef(q)' = SelfRef(q)
BY DEF OthersStay, CallRef, SelfRef

LEMMA FdRefStays ==
    ASSUME ControlInv, NEW p \in Proc, OthersStay(p), NEW f \in Fd, fd'[f] = fd[f],
           fd[f] # None /\ fd[f].owner = p => (LeavesFd(p, f)' <=> LeavesFd(p, f))
    PROVE  FdRef(f)' = FdRef(f)
<1>1. CASE fd[f] = None
  BY <1>1 DEF FdRef
<1>2. CASE fd[f] # None
  <2>1. fd[f].owner \in Proc
    BY <1>2, TypeParts DEF ControlInv, TypeFd, Descriptor
  <2>2. LeavesFd(fd[f].owner, f)' <=> LeavesFd(fd[f].owner, f)
    <3>1. CASE fd[f].owner = p
      BY <3>1, <1>2 DEF LeavesFd
    <3>2. CASE fd[f].owner # p
      BY <3>2, <2>1 DEF OthersStay, LeavesFd
    <3>3. QED
      BY <3>1, <3>2
  <2>3. QED
    BY <1>2, <2>2 DEF FdRef, LeavesFd
<1>3. QED
  BY <1>1, <1>2

RefsBut(T) == \A x \in Token : x \notin T => Ref'[x] = Ref[x]

(* All of them stay if p's own do, and no descriptor is taken or given up. *)
LEMMA RefsStay ==
    ASSUME ControlInv, NEW p \in Proc, OthersStay(p), NEW T,
           <<"call", p>> \in T \/ CallRef(p)' = CallRef(p),
           <<"self", p>> \in T \/ SelfRef(p)' = SelfRef(p),
           \A f \in Fd : \/ <<"fd", f>> \in T
                          \/ /\ fd'[f] = fd[f]
                             /\ fd[f] # None /\ fd[f].owner = p => (LeavesFd(p, f)' <=> LeavesFd(p, f))
    PROVE  RefsBut(T)
<1> SUFFICES ASSUME NEW x \in Token, x \notin T PROVE Ref'[x] = Ref[x]
  BY DEF RefsBut
<1>1. ASSUME NEW f \in Fd, x = <<"fd", f>> PROVE Ref'[x] = Ref[x]
  <2>1. FdRef(f)' = FdRef(f)
    BY <1>1, FdRefStays
  <2>2. QED
    BY <1>1, <2>1, Refs, NextRefs
<1>2. ASSUME NEW q \in Proc, x = <<"self", q>> PROVE Ref'[x] = Ref[x]
  <2>1. SelfRef(q)' = SelfRef(q)
    BY <1>2, CallSelfStay
  <2>2. QED
    BY <1>2, <2>1, Refs, NextRefs
<1>3. ASSUME NEW q \in Proc, x = <<"call", q>> PROVE Ref'[x] = Ref[x]
  <2>1. CallRef(q)' = CallRef(q)
    BY <1>3, CallSelfStay
  <2>2. QED
    BY <1>3, <2>1, Refs, NextRefs
<1>4. QED
  BY <1>1, <1>2, <1>3, Refs

(* A step that neither begins nor ends with an opener of p counted off.    *)
LEMMA NotLeaving ==
    ASSUME NEW p, pc[p] # "last", pc'[p] # "last"
    PROVE  /\ SelfRef(p) = self[p] /\ SelfRef(p)' = self'[p]
           /\ \A f \in Fd : LeavesFd(p, f)' <=> LeavesFd(p, f)
BY DEF SelfRef, LeavesFd

(* The steps that open, but for those that only look.                      *)
LEMMA RefsOpen ==
    ASSUME ControlInv, NEW p \in Proc, ByOne(p), InodeOpen(p) \/ InodeReopen(p)
    PROVE  IF pc'[p] \in {"fill", "opened"}
           THEN RefsBut({<<"call", p>>}) /\ Ref[<<"call", p>>] = None /\ Ref'[<<"call", p>>] = ino'[p]
           ELSE RefsBut({})
<1>0. TypeControl /\ OthersStay(p)
  BY TypeParts, StepOthersStay DEF ControlInv, ByOne
<1>1. /\ pc[p] \in {"open", "found"} /\ UNCHANGED <<fd, self>>
      /\ pc'[p] \in {"idle", "exit", "found", "fill", "opened"}
  BY <1>0 DEF InodeOpen, InodeReopen, OpenNew, OpenFails, Return, Goto, TypeControl, fdVars
<1>2. SelfRef(p)' = SelfRef(p) /\ \A f \in Fd : LeavesFd(p, f)' <=> LeavesFd(p, f)
  BY <1>1, NotLeaving
<1>3. CallRef(p) = None
  BY <1>1 DEF CallRef
<1>4. CASE pc'[p] \in {"fill", "opened"}
  <2>1. CallRef(p)' = ino'[p]
    BY <1>4 DEF CallRef
  <2>2. RefsBut({<<"call", p>>})
    BY <1>0, <1>1, <1>2, RefsStay
  <2>3. QED
    BY <1>3, <1>4, <2>1, <2>2, Refs, NextRefs
<1>5. CASE pc'[p] \notin {"fill", "opened"}
  <2>1. CallRef(p)' = None
    BY <1>1, <1>5 DEF CallRef
  <2>2. RefsBut({})
    BY <1>0, <1>1, <1>2, <1>3, <2>1, RefsStay
  <2>3. QED
    BY <1>5, <2>2
<1>6. QED
  BY <1>4, <1>5

LEMMA RefsSame ==
    ASSUME ControlInv, NEW p \in Proc, ByOne(p),
           \/ InodeFill(p) \/ EraseEntry(p) \/ LoadDone(p) \/ HandleClose(p) \/ ProcessExit(p)
           \/ FdProcessExit(p) \/ Call(p)
    PROVE  RefsBut({})
<1>0. TypeControl /\ OthersStay(p) /\ None \notin Purpose /\ StageOf(p)
  BY TypeParts, StepOthersStay, NoneIsNothing DEF ControlInv, ByOne, StageOK
<1>1. pc[p] # "last" /\ pc'[p] # "last" /\ UNCHANGED <<fd, self>> /\ CallRef(p)' = CallRef(p)
  <2>1. CASE InodeFill(p) \/ EraseEntry(p) \/ LoadDone(p)
    BY <1>0, <2>1 DEF InodeFill, EraseEntry, LoadDone, TypeControl, Goto, fdVars, CallRef, CallOps
  <2>2. CASE HandleClose(p) \/ ProcessExit(p)
    BY <1>0, <2>2 DEF HandleClose, ProcessExit, TypeControl, Goto, fdVars, CallRef, CallOps
  <2>3. CASE FdProcessExit(p)
    BY <1>0, <2>3 DEF FdProcessExit, TypeControl, Goto, fdVars, CallRef, CallOps
  <2>4. CASE Call(p)
    BY <1>0, <2>4 DEF Call, OpenBy, Create, CloseCheck, HandleWrite, TypeControl, Goto, fdVars, callVars, CallRef
  <2>5. QED
    BY <2>1, <2>2, <2>3, <2>4
<1>2. SelfRef(p)' = SelfRef(p) /\ \A f \in Fd : LeavesFd(p, f)' <=> LeavesFd(p, f)
  BY <1>1, NotLeaving
<1>3. QED
  BY <1>0, <1>1, <1>2, RefsStay

(* The inode goes from the call to the descriptor, or to the program.      *)
LEMMA RefsPassOn ==
    ASSUME ControlInv, NEW p \in Proc, ByOne(p), FdAcquire(p) \/ DenyWrite(p)
    PROVE  \E t \in Token :
              /\ t # <<"call", p>> /\ RefsBut({<<"call", p>>, t})
              /\ Ref[<<"call", p>>] = ino[p] /\ Ref'[<<"call", p>>] = None
              /\ Ref[t] = None /\ Ref'[t] = ino[p]
<1>0. TypeControl /\ OthersStay(p) /\ StageOf(p) /\ TypeFd
  BY TypeParts, StepOthersStay DEF ControlInv, ByOne, StageOK
<1>1. pc[p] = "opened" /\ pc'[p] = "idle"
  BY <1>0 DEF FdAcquire, DenyWrite, Return, TypeControl
<1>2. /\ SelfRef(p) = self[p] /\ SelfRef(p)' = self'[p]
      /\ \A f \in Fd : LeavesFd(p, f)' <=> LeavesFd(p, f)
  BY <1>1, NotLeaving
<1>3. CallRef(p) = ino[p] /\ CallRef(p)' = None
  BY <1>1 DEF CallRef
<1>4. CASE FdAcquire(p)
  <2>1. Acquires(p)
    BY <1>4, FdAcquires
  <2>2. PICK f \in Fd : f = Acquired
    BY <2>1 DEF Acquires
  <2>3. /\ fd[f] = None /\ self' = self /\ fd'[f] = [inode |-> ino[p], owner |-> p]
        /\ \A g \in Fd : g # f => fd'[g] = fd[g]
    BY <1>0, <1>4, <2>1, <2>2 DEF Acquires, FdAcquire, TypeFd
  <2>4. fd'[f] # None /\ fd'[f].owner = p /\ fd'[f].inode = ino[p]
    <3>1. ino[p] \in Inode
      BY <2>1 DEF Acquires
    <3>2. [inode |-> ino[p], owner |-> p] \in Descriptor
      BY <3>1 DEF Descriptor
    <3>3. QED
      BY <2>3, <3>2, NoneIsNothing
  <2>5. FdRef(f) = None /\ FdRef(f)' = ino[p]
    BY <1>1, <2>3, <2>4 DEF FdRef, LeavesFd
  <2>6. RefsBut({<<"call", p>>, <<"fd", f>>})
    BY <1>0, <1>2, <2>3, RefsStay
  <2>7. <<"fd", f>> \in Token /\ Ref[<<"fd", f>>] = None /\ Ref'[<<"fd", f>>] = ino[p]
    BY <2>5, Refs, NextRefs
  <2>8. QED
    BY <1>3, <2>6, <2>7, Refs, NextRefs
<1>5. CASE DenyWrite(p)
  <2>1. self[p] = None /\ self'[p] = ino[p] /\ UNCHANGED fd
    BY <1>0, <1>1, <1>5 DEF DenyWrite, StageOf, TypeControl, fdVars
  <2>2. RefsBut({<<"call", p>>, <<"self", p>>})
    BY <1>0, <1>2, <2>1, RefsStay
  <2>3. QED
    BY <1>2, <1>3, <2>1, <2>2, Refs, NextRefs
<1>6. QED
  BY <1>4, <1>5

(* What p closes at "close": one token of its own, which is an opener of   *)
(* ino[p]; at "last" it is none any more.                                  *)
IsMine(p, t) ==
    \/ op[p] \in CallOps /\ t = <<"call", p>>
    \/ op[p] = "exitSelf" /\ t = <<"self", p>>
    \/ op[p] \in {"close", "exitFd"} /\ t = <<"fd", arg[p]>>
LEMMA Mine ==
    ASSUME ControlInv, NEW p \in Proc, pc[p] \in {"close", "last"}
    PROVE  \E t \in Token : IsMine(p, t) /\ Ref[t] = IF pc[p] = "close" THEN ino[p] ELSE None
<1>0. StageOf(p) /\ TypeControl
  BY TypeParts DEF ControlInv, StageOK
<1>1. CASE op[p] \in CallOps
  BY <1>1, Refs DEF IsMine, CallRef
<1>2. CASE op[p] = "exitSelf"
  BY <1>0, <1>2, Refs DEF IsMine, SelfRef, StageOf
<1>3. CASE op[p] \in {"close", "exitFd"}
  <2>1. /\ arg[p] \in Fd /\ fd[arg[p]] # None /\ fd[arg[p]].owner = p
        /\ fd[arg[p]].inode = ino[p]
    BY <1>0, <1>3 DEF StageOf
  <2>2. FdRef(arg[p]) = IF pc[p] = "close" THEN ino[p] ELSE None
    BY <1>3, <2>1 DEF FdRef, LeavesFd
  <2>3. QED
    BY <1>3, <2>1, <2>2, Refs DEF IsMine
<1>4. QED
  BY <1>0, <1>1, <1>2, <1>3 DEF StageOf, CallOps

(* When p has closed, whether it was the last opener or not.               *)
LEMMA RefsClosed ==
    ASSUME ControlInv, NEW p \in Proc, ByOne(p), pc[p] \in {"close", "last"}, Closed(p),
           NEW t \in Token, IsMine(p, t)
    PROVE  RefsBut({t}) /\ Ref'[t] = None
<1>0. /\ StageOf(p) /\ TypeControl /\ TypeFd /\ OthersStay(p)
      /\ None \notin Purpose
  BY TypeParts, StepOthersStay, NoneIsNothing DEF ControlInv, StageOK, ByOne
<1>1. pc'[p] \in {"idle", "exit", "open", "fds"}
  BY <1>0 DEF Closed, Return, Goto, TypeControl
<1>2. /\ SelfRef(p)' = self'[p] /\ CallRef(p)' = None
      /\ \A f \in Fd : ~LeavesFd(p, f)'
  BY <1>1 DEF SelfRef, CallRef, LeavesFd
<1>3. CASE op[p] \in CallOps
  <2>1. UNCHANGED <<fd, self>>
    BY <1>3 DEF Closed, CallOps
  <2>2. SelfRef(p) = self[p] /\ (\A f \in Fd : ~LeavesFd(p, f)) /\ t = <<"call", p>>
    BY <1>3 DEF SelfRef, LeavesFd, CallOps, IsMine
  <2>3. RefsBut({t})
    BY <1>0, <1>2, <2>1, <2>2, RefsStay
  <2>4. QED
    BY <1>2, <2>2, <2>3, NextRefs
<1>4. CASE op[p] = "exitSelf"
  <2>1. self'[p] = None /\ UNCHANGED fd
    BY <1>0, <1>4 DEF Closed, TypeControl
  <2>2. CallRef(p) = None /\ (\A f \in Fd : ~LeavesFd(p, f)) /\ t = <<"self", p>>
    BY <1>4 DEF CallRef, LeavesFd, CallOps, IsMine
  <2>3. RefsBut({t})
    BY <1>0, <1>2, <2>1, <2>2, RefsStay
  <2>4. QED
    BY <1>2, <2>1, <2>2, <2>3, NextRefs
<1>5. CASE op[p] \in {"close", "exitFd"}
  <2>1. PICK g \in Fd : g = arg[p] /\ t = <<"fd", g>>
    BY <1>0, <1>5 DEF IsMine, StageOf, CallOps
  <2>2. /\ fd'[g] = None /\ UNCHANGED self
        /\ \A f \in Fd : f # g => fd'[f] = fd[f]
    BY <1>0, <1>5, <2>1 DEF Closed, FdRelease, TypeFd
  <2>3. CallRef(p) = None /\ SelfRef(p) = self[p] /\ (\A f \in Fd : f # g => ~LeavesFd(p, f))
    BY <1>5, <2>1 DEF CallRef, SelfRef, LeavesFd, CallOps
  <2>4. RefsBut({t})
    <3>1. CallRef(p)' = CallRef(p) /\ SelfRef(p)' = SelfRef(p)
      BY <1>2, <2>2, <2>3
    <3>2. \A f \in Fd : f # g => fd'[f] = fd[f] /\ ~LeavesFd(p, f)' /\ ~LeavesFd(p, f)
      BY <1>2, <2>2, <2>3
    <3>3. <<"fd", g>> \in {t}
      BY <2>1
    <3>4. QED
      BY <1>0, <3>1, <3>2, <3>3, RefsStay
  <2>5. FdRef(g)' = None
    BY <2>2 DEF FdRef
  <2>6. QED
    BY <2>1, <2>4, <2>5, NextRefs
<1>6. QED
  BY <1>0, <1>3, <1>4, <1>5 DEF StageOf, CallOps

LEMMA RefsCountedOff ==
    ASSUME ControlInv, NEW p \in Proc, ByOne(p), pc[p] = "close",
           pc' = [pc EXCEPT ![p] = "last"], UNCHANGED <<fd, self, op, ino, arg>>,
           NEW t \in Token, IsMine(p, t)
    PROVE  RefsBut({t}) /\ Ref'[t] = None
<1>0. StageOf(p) /\ TypeControl /\ TypeFd /\ OthersStay(p) /\ pc'[p] = "last"
  BY TypeParts, StepOthersStay DEF ControlInv, StageOK, ByOne, TypeControl
<1>1. CallRef(p)' = None
  BY <1>0 DEF CallRef
<1>2. \A f \in Fd : ~LeavesFd(p, f)
  BY DEF LeavesFd
<1>3. CASE op[p] \in CallOps
  <2>1. SelfRef(p)' = SelfRef(p) /\ (\A f \in Fd : ~LeavesFd(p, f)') /\ t = <<"call", p>>
    BY <1>3 DEF SelfRef, LeavesFd, CallOps, IsMine
  <2>2. RefsBut({t})
    BY <1>0, <1>2, <2>1, RefsStay
  <2>3. QED
    BY <1>1, <2>1, <2>2, NextRefs
<1>4. CASE op[p] = "exitSelf"
  <2>1. SelfRef(p)' = None /\ (\A f \in Fd : ~LeavesFd(p, f)') /\ t = <<"self", p>>
    BY <1>0, <1>4 DEF SelfRef, LeavesFd, CallOps, IsMine
  <2>2. CallRef(p) = None
    BY <1>4 DEF CallRef, CallOps
  <2>3. RefsBut({t})
    BY <1>0, <1>1, <1>2, <2>1, <2>2, RefsStay
  <2>4. QED
    BY <2>1, <2>3, NextRefs
<1>5. CASE op[p] \in {"close", "exitFd"}
  <2>1. PICK g \in Fd : /\ g = arg[p] /\ t = <<"fd", g>> /\ fd[g] # None /\ fd[g].owner = p
    BY <1>0, <1>5 DEF IsMine, StageOf, CallOps
  <2>2. CallRef(p) = None /\ SelfRef(p)' = SelfRef(p) /\ (\A f \in Fd : f # g => ~LeavesFd(p, f)')
    BY <1>5, <2>1 DEF CallRef, SelfRef, LeavesFd, CallOps
  <2>3. RefsBut({t})
    BY <1>0, <1>1, <1>2, <2>1, <2>2, RefsStay
  <2>4. FdRef(g)' = None
    BY <1>0, <1>5, <2>1 DEF FdRef, LeavesFd
  <2>5. QED
    BY <2>1, <2>3, <2>4, NextRefs
<1>6. QED
  BY <1>0, <1>3, <1>4, <1>5 DEF StageOf, CallOps

LEMMA RefsClose ==
    ASSUME ControlInv, NEW p \in Proc, ByOne(p), InodeClose(p)
    PROVE  \E t \in Token : RefsBut({t}) /\ Ref[t] = ino[p] /\ Ref'[t] = None
<1>1. PICK t \in Token : IsMine(p, t) /\ Ref[t] = ino[p]
  BY Mine DEF InodeClose
<1>2. CASE inode[ino[p]].openCnt = 1
  BY <1>1, <1>2, RefsCountedOff DEF InodeClose, Goto
<1>3. CASE inode[ino[p]].openCnt # 1
  BY <1>1, <1>3, RefsClosed DEF InodeClose
<1>4. QED
  BY <1>2, <1>3

LEMMA RefsFree ==
    ASSUME ControlInv, NEW p \in Proc, ByOne(p), InodeFree(p)
    PROVE  RefsBut({})
<1>1. PICK t \in Token : IsMine(p, t) /\ Ref[t] = None
  BY Mine DEF InodeFree
<1>2. RefsBut({t}) /\ Ref'[t] = None
  BY <1>1, RefsClosed DEF InodeFree
<1>3. QED
  BY <1>1, <1>2 DEF RefsBut

-----------------------------------------------------------------------------
(* Inodes.  A step of p leaves them as they are, or changes one field of   *)
(* one of them, or makes a new one, or frees one.                          *)
LEMMA Fields ==
    ASSUME NEW x \in InMemory, NEW n \in Nat, NEW D \in SUBSET Sector
    PROVE  /\ [x EXCEPT !.openCnt = n] \in InMemory /\ [x EXCEPT !.openCnt = n].openCnt = n
           /\ [x EXCEPT !.openCnt = n].denyWriteCnt = x.denyWriteCnt
           /\ [x EXCEPT !.denyWriteCnt = n] \in InMemory /\ [x EXCEPT !.denyWriteCnt = n].denyWriteCnt = n
           /\ [x EXCEPT !.denyWriteCnt = n].openCnt = x.openCnt
           /\ [x EXCEPT !.removed = TRUE] \in InMemory /\ [x EXCEPT !.removed = TRUE].removed
           /\ [x EXCEPT !.removed = TRUE].openCnt = x.openCnt
           /\ [x EXCEPT !.removed = TRUE].denyWriteCnt = x.denyWriteCnt
           /\ [x EXCEPT !.removed = TRUE].sector = x.sector
           /\ [x EXCEPT !.removed = TRUE].data = x.data
           /\ [x EXCEPT !.data = D] \in InMemory /\ [x EXCEPT !.data = D].data = D
           /\ [x EXCEPT !.data = D].openCnt = x.openCnt
           /\ [x EXCEPT !.data = D].denyWriteCnt = x.denyWriteCnt
           /\ [x EXCEPT !.data = D].sector = x.sector
           /\ [x EXCEPT !.data = D].removed = x.removed
           /\ \A y \in {[x EXCEPT !.openCnt = n], [x EXCEPT !.denyWriteCnt = n]} :
                 y.sector = x.sector /\ y.removed = x.removed /\ y.data = x.data
BY DEF InMemory

Sets(i, r) ==
    /\ i \in Inode /\ inode[i] \in InMemory /\ r \in InMemory
    /\ inode' = [inode EXCEPT ![i] = r] /\ openInodes' = openInodes

SameInodes == UNCHANGED <<inode, openInodes>>
Looks(p) ==
    /\ SameInodes
    /\ \/ InodeOpen(p) /\ pc'[p] # "fill"
       \/ FdAcquire(p) \/ LoadDone(p) \/ HandleClose(p) \/ FdProcessExit(p) \/ Call(p)
       \/ ProcessExit(p) /\ self[p] = None
Makes(p) ==
    \E i \in Inode :
        /\ InodeOpen(p) /\ pc'[p] = "fill" /\ dirEntry[arg[p]] \in Sector
        /\ \A j \in openInodes : inode[j].sector # dirEntry[arg[p]]
        /\ inode[i] = None /\ inode' = [inode EXCEPT ![i] = NewInode(dirEntry[arg[p]])]
        /\ openInodes' = openInodes \cup {i} /\ ino'[p] = i
CountsUp(p) ==
    /\ InodeReopen(p)
    /\ Sets(ino[p], [inode[ino[p]] EXCEPT !.openCnt = inode[ino[p]].openCnt + 1])
Fills(p) ==
    /\ InodeFill(p)
    /\ Sets(ino[p], [inode[ino[p]] EXCEPT !.data = diskInode[inode[ino[p]].sector]])
Marks(p) ==
    EraseEntry(p) /\ Sets(ino[p], [inode[ino[p]] EXCEPT !.removed = TRUE])
Denies(p) ==
    /\ DenyWrite(p)
    /\ Sets(ino[p], [inode[ino[p]] EXCEPT !.denyWriteCnt = inode[ino[p]].denyWriteCnt + 1])
CountsDown(p) ==
    /\ InodeClose(p) /\ inode[ino[p]].openCnt > 0
    /\ Sets(ino[p], [inode[ino[p]] EXCEPT !.openCnt = inode[ino[p]].openCnt - 1])
Frees(p) ==
    /\ InodeFree(p) /\ ino[p] \in Inode /\ inode[ino[p]] \in InMemory
    /\ inode' = [inode EXCEPT ![ino[p]] = None] /\ openInodes' = openInodes \ {ino[p]}
Allows(p) ==
    /\ ProcessExit(p) /\ self[p] \in Inode /\ inode[self[p]].denyWriteCnt > 0
    /\ Sets(self[p], [inode[self[p]] EXCEPT !.denyWriteCnt = inode[self[p]].denyWriteCnt - 1])

LEMMA WorksOn ==
    ASSUME FilesInv, NEW p \in Proc, ~freedInUse
    PROVE  /\ pc[p] \in {"found", "fill", "opened", "close", "last"} =>
                 ino[p] \in Inode /\ inode[ino[p]] \in InMemory
           /\ self[p] # None => self[p] \in Inode /\ inode[self[p]] \in InMemory
           /\ Opening(p) => dirEntry[arg[p]] \in Sector \cup {None}
<1>1. TypeControl /\ TypeInode /\ TypeDisk /\ StageOf(p) /\ AllInMemory
  BY TypeParts DEF FilesInv, ControlInv, StageOK
<1>2. pc[p] \in {"found", "fill", "opened", "close", "last"} => ino[p] \in Inode
  BY <1>1, NoneIsNothing DEF StageOf, Opening, TypeControl
<1>3. Opening(p) => arg[p] \in Name
  BY <1>1 DEF StageOf
<1>4. self[p] # None => self[p] \in Inode
  BY <1>1 DEF TypeControl
<1>5. \A i \in Inode : inode[i] = None \/ inode[i] \in InMemory
  BY <1>1 DEF TypeInode
<1>6. (ino[p] # None => inode[ino[p]] # None) /\ (self[p] # None => inode[self[p]] # None)
  BY <1>1 DEF AllInMemory
<1>7. QED
  BY <1>1, <1>2, <1>3, <1>4, <1>5, <1>6, NoneIsNothing DEF TypeDisk

LEMMA RunningFinite ==
    ASSUME NEW S \in SUBSET Proc
    PROVE  IsFiniteSet(S) /\ Cardinality(S) \in Nat
BY FS_Subset, FS_CardinalityType, FilesAssumption DEF FilesAssumption

(* Whoever closes is counted, and whoever allows writes has denied them.   *)
LEMMA CountsPositive ==
    ASSUME FilesInv, NEW p \in Proc, ~freedInUse
    PROVE  /\ pc[p] = "close" => inode[ino[p]].openCnt > 0
           /\ pc[p] \in {"idle", "exit"} /\ self[p] # None => inode[self[p]].denyWriteCnt > 0
<1>1. ASSUME pc[p] = "close" PROVE inode[ino[p]].openCnt > 0
  <2>1. PICK t \in Token : Ref[t] = ino[p]
    BY <1>1, Mine DEF FilesInv
  <2>2. Counted(Ref, ino[p]) # {}
    BY <2>1 DEF Counted
  <2>3. Cardinality(Counted(Ref, ino[p])) \in Nat \ {0}
    BY <2>2, CountedFinite, FS_EmptySet
  <2>4. inode[ino[p]].openCnt = Cardinality(Counted(Ref, ino[p]))
    BY <1>1, WorksOn, NoneIsNothing DEF FilesInv, OpenCntOK
  <2>5. QED
    BY <2>3, <2>4
<1>2. ASSUME pc[p] \in {"idle", "exit"}, self[p] # None PROVE inode[self[p]].denyWriteCnt > 0
  <2>1. op[p] = None /\ None # "exitSelf"
    BY <1>2, NoneIsNothing DEF FilesInv, ControlInv, StageOK, StageOf, Purpose
  <2>2. Running(self[p]) # {} /\ Running(self[p]) \in SUBSET Proc
    BY <2>1 DEF Running
  <2>3. Cardinality(Running(self[p])) \in Nat \ {0}
    BY <2>2, RunningFinite, FS_EmptySet
  <2>4. inode[self[p]].denyWriteCnt = Cardinality(Running(self[p]))
    BY <1>2, WorksOn, NoneIsNothing DEF FilesInv, DenyCntOK
  <2>5. QED
    BY <2>3, <2>4
<1>3. QED
  BY <1>1, <1>2

LEMMA InodeCases ==
    ASSUME FilesInv, NEW p \in Proc, ByOne(p)
    PROVE  \/ Looks(p) \/ Makes(p) \/ CountsUp(p) \/ Fills(p) \/ Marks(p) \/ Denies(p) \/ CountsDown(p)
           \/ Frees(p) \/ Allows(p)
<1>0. ~freedInUse /\ TypeControl /\ TypeInode /\ TypeDisk
  BY TypeParts DEF ByOne, FilesInv, ControlInv
<1>a. /\ pc[p] \in {"found", "fill", "opened", "close", "last"} =>
            ino[p] \in Inode /\ inode[ino[p]] \in InMemory
      /\ self[p] # None => self[p] \in Inode /\ inode[self[p]] \in InMemory
      /\ Opening(p) => dirEntry[arg[p]] \in Sector \cup {None}
      /\ pc[p] = "close" => inode[ino[p]].openCnt > 0
      /\ pc[p] \in {"idle", "exit"} /\ self[p] # None => inode[self[p]].denyWriteCnt > 0
  BY <1>0, WorksOn, CountsPositive
<1>b. \A x \in InMemory : /\ x.openCnt \in Nat /\ x.denyWriteCnt \in Nat
                          /\ x.sector \in Sector
  BY DEF InMemory
<1>c. ASSUME OpenFails(p) PROVE SameInodes /\ pc'[p] # "fill"
  <2>1. pc' = [pc EXCEPT ![p] = "exit"] \/ pc' = [pc EXCEPT ![p] = "idle"]
    BY <1>c DEF OpenFails, Return
  <2>2. QED
    BY <1>0, <1>c, <2>1 DEF OpenFails, SameInodes, TypeControl
<1>1. CASE InodeOpen(p)
  <2>1. CASE OpenNew(p) /\ dirEntry[arg[p]] # None
                        /\ \A i \in openInodes : inode[i].sector # dirEntry[arg[p]]
    <3>1. pc[p] = "open" /\ dirEntry[arg[p]] \in Sector
      BY <1>1, <1>a, <2>1 DEF InodeOpen, Opening
    <3>2. CASE OpenFails(p)
      BY <1>1, <1>c, <3>2 DEF Looks
    <3>3. ASSUME NEW i \in Inode, inode[i] = None,
                 inode' = [inode EXCEPT ![i] = NewInode(dirEntry[arg[p]])],
                 openInodes' = openInodes \cup {i}, ino' = [ino EXCEPT ![p] = i], Goto(p, "fill")
          PROVE  Makes(p)
      BY <1>0, <1>1, <2>1, <3>1, <3>3 DEF Makes, Goto, TypeControl
    <3>4. QED
      BY <2>1, <3>2, <3>3 DEF OpenNew
  <2>2. CASE OpenFails(p)
    BY <1>1, <1>c, <2>2 DEF Looks
  <2>3. CASE Goto(p, "found") /\ SameInodes
    BY <1>0, <1>1, <2>3 DEF Goto, TypeControl, Looks
  <2>4. QED
    BY <1>1, <2>1, <2>2, <2>3 DEF InodeOpen, SameInodes
<1>2. CASE InodeReopen(p)
  <2>1. inode[ino[p]].openCnt + 1 \in Nat
    BY <1>2, <1>a, <1>b DEF InodeReopen
  <2>2. [inode[ino[p]] EXCEPT !.openCnt = inode[ino[p]].openCnt + 1] \in InMemory
    BY <1>2, <1>a, <2>1, Fields DEF InodeReopen
  <2>3. QED
    BY <1>2, <1>a, <2>2 DEF InodeReopen, CountsUp, Sets
<1>3. CASE InodeFill(p)
  <2>1. diskInode[inode[ino[p]].sector] \in SUBSET Sector
    BY <1>0, <1>3, <1>a, <1>b DEF InodeFill, TypeDisk
  <2>2. [inode[ino[p]] EXCEPT !.data = diskInode[inode[ino[p]].sector]] \in InMemory
    BY <1>3, <1>a, <2>1, Fields DEF InodeFill
  <2>3. QED
    BY <1>3, <1>a, <2>2 DEF InodeFill, Fills, Sets
<1>4. CASE EraseEntry(p)
  <2>1. [inode[ino[p]] EXCEPT !.removed = TRUE] \in InMemory
    BY <1>4, <1>a, Fields DEF EraseEntry
  <2>2. QED
    BY <1>4, <1>a, <2>1 DEF EraseEntry, Marks, Sets
<1>5. CASE DenyWrite(p)
  <2>1. inode[ino[p]].denyWriteCnt + 1 \in Nat
    BY <1>5, <1>a, <1>b DEF DenyWrite
  <2>2. [inode[ino[p]] EXCEPT !.denyWriteCnt = inode[ino[p]].denyWriteCnt + 1] \in InMemory
    BY <1>5, <1>a, <2>1, Fields DEF DenyWrite
  <2>3. QED
    BY <1>5, <1>a, <2>2 DEF DenyWrite, Denies, Sets
<1>6. CASE InodeClose(p)
  <2>1. inode[ino[p]].openCnt - 1 \in Nat
    BY <1>6, <1>a, <1>b DEF InodeClose
  <2>2. [inode[ino[p]] EXCEPT !.openCnt = inode[ino[p]].openCnt - 1] \in InMemory
    BY <1>6, <1>a, <2>1, Fields DEF InodeClose
  <2>3. QED
    BY <1>6, <1>a, <2>2 DEF InodeClose, CountsDown, Sets
<1>7. CASE InodeFree(p)
  BY <1>7, <1>a DEF InodeFree, Frees
<1>8. CASE ProcessExit(p)
  <2>1. CASE self[p] = None
    BY <1>8, <2>1 DEF ProcessExit, Looks, SameInodes
  <2>2. CASE self[p] # None
    <3>1. inode[self[p]].denyWriteCnt - 1 \in Nat
      BY <1>8, <1>a, <1>b, <2>2 DEF ProcessExit
    <3>2. [inode[self[p]] EXCEPT !.denyWriteCnt = inode[self[p]].denyWriteCnt - 1] \in InMemory
      BY <1>8, <1>a, <2>2, <3>1, Fields DEF ProcessExit
    <3>3. QED
      BY <1>8, <1>a, <2>2, <3>2 DEF ProcessExit, Allows, Sets
  <2>3. QED
    BY <2>1, <2>2
<1>9. CASE FdAcquire(p) \/ LoadDone(p) \/ HandleClose(p) \/ FdProcessExit(p) \/ Call(p)
  <2>1. CASE FdAcquire(p) \/ LoadDone(p)
    BY <2>1 DEF FdAcquire, LoadDone, Looks, SameInodes
  <2>2. CASE HandleClose(p) \/ FdProcessExit(p)
    BY <2>2 DEF HandleClose, FdProcessExit, Looks, SameInodes
  <2>3. CASE Call(p)
    BY <2>3 DEF Call, OpenBy, Create, CloseCheck, HandleWrite, Looks, SameInodes
  <2>4. QED
    BY <1>9, <2>1, <2>2, <2>3
<1>10. QED
  BY <1>1, <1>2, <1>3, <1>4, <1>5, <1>6, <1>7, <1>8, <1>9 DEF ByOne, OpenStep, CloseStep

-----------------------------------------------------------------------------
(* free_map_allocate takes free sectors.                                   *)
LEMMA FirstOf ==
    ASSUME NEW S \in SUBSET Nat, S # {}
    PROVE  Min(S) \in S
<1>1. PICK x \in S : \A y \in S : <<y, x>> \notin OpToRel(<, Nat)
  BY NatLessThanWellFounded, WFMin
<1>2. OpToRel(<, Nat) = {ss \in Nat \X Nat : ss[1] < ss[2]}
  BY Zenon DEF OpToRel
<1>3. \A y \in S : x <= y
  <2>1. PICK L : L = OpToRel(<, Nat)
    OBVIOUS
  <2>2. L = {ss \in Nat \X Nat : ss[1] < ss[2]} /\ \A y \in S : <<y, x>> \notin L
    BY <1>1, <1>2, <2>1
  <2>3. ASSUME NEW y \in S PROVE x <= y
    <3>1. x \in Nat /\ y \in Nat
      OBVIOUS
    <3>2. ~(<<y, x>>[1] < <<y, x>>[2])
      BY <2>2, <3>1
    <3>3. QED
      BY <3>1, <3>2
  <2>4. QED
    BY <2>3
<1>4. QED
  BY <1>3 DEF Min

LEMMA Allocates ==
    ASSUME TypeDisk, NEW len \in {0, 1}, Cardinality(Free) > len
    PROVE  /\ Allocated(len).sector \in Free /\ Allocated(len).data \in SUBSET Free
           /\ Allocated(len).sector \notin Allocated(len).data
           /\ Free \in SUBSET Sector /\ Free \cap freeMap = {}
<1>1. Free \in SUBSET Sector /\ Free \cap freeMap = {} /\ Sector \in SUBSET Nat
      /\ IsFiniteSet(Sector)
  BY FilesAssumption, FS_Interval DEF FilesAssumption, Free, Sector
<1>2. IsFiniteSet(Free)
  BY <1>1, FS_Subset
<1>3. Free # {}
  BY FS_EmptySet
<1>4. Min(Free) \in Free
  BY <1>1, <1>3, FirstOf
<1>5. CASE len = 0
  BY <1>1, <1>4, <1>5 DEF Allocated
<1>6. CASE len = 1
  <2>1. Cardinality(Free \ {Min(Free)}) = Cardinality(Free) - 1
    BY <1>2, <1>4, FS_RemoveElement
  <2>2. Cardinality(Free) \in Nat
    BY <1>2, FS_CardinalityType
  <2>3. Free \ {Min(Free)} # {}
    BY <1>6, <2>1, <2>2, FS_EmptySet
  <2>4. Min(Free \ {Min(Free)}) \in Free \ {Min(Free)}
    BY <1>1, <2>3, FirstOf
  <2>5. QED
    BY <1>1, <1>4, <1>6, <2>4 DEF Allocated
<1>7. QED
  BY <1>5, <1>6

-----------------------------------------------------------------------------
(* The counts of an inode.                                                 *)
LEMMA TypeInodeNext ==
    ASSUME FilesInv, NEW p \in Proc, ByOne(p)
    PROVE  TypeInode'
<1>0. TypeInode
  BY TypeParts DEF FilesInv, ControlInv
<1>a. \A x \in InMemory : x # None
  BY NoneIsNothing
<1>1. ASSUME NEW i, NEW r, Sets(i, r) PROVE TypeInode'
  <2>1. inode' \in [Inode -> InMemory \cup {None}]
    BY <1>0, <1>1 DEF Sets, TypeInode
  <2>2. \A j \in Inode : inode'[j] # None <=> inode[j] # None
    BY <1>0, <1>1, <1>a DEF Sets, TypeInode
  <2>3. QED
    BY <1>0, <1>1, <2>1, <2>2 DEF Sets, TypeInode
<1>2. CASE Makes(p)
  <2>1. PICK i \in Inode : /\ dirEntry[arg[p]] \in Sector /\ openInodes' = openInodes \cup {i}
                           /\ inode' = [inode EXCEPT ![i] = NewInode(dirEntry[arg[p]])]
    BY <1>2 DEF Makes
  <2>2. NewInode(dirEntry[arg[p]]) \in InMemory
    BY <2>1 DEF NewInode, InMemory
  <2>3. QED
    BY <1>0, <1>a, <2>1, <2>2 DEF TypeInode
<1>3. CASE Frees(p)
  BY <1>0, <1>3 DEF TypeInode, Frees
<1>4. CASE Looks(p)
  BY <1>0, <1>4 DEF TypeInode, Looks, SameInodes
<1>5. CASE CountsUp(p) \/ Fills(p) \/ Marks(p) \/ Denies(p) \/ CountsDown(p) \/ Allows(p)
  BY <1>1, <1>5 DEF CountsUp, Fills, Marks, Denies, CountsDown, Allows
<1>6. QED
  BY <1>2, <1>3, <1>4, <1>5, InodeCases

(* Nobody refers to what is not in memory.                                 *)
LEMMA NobodyRefers ==
    ASSUME FilesInv, ~freedInUse, NEW i \in Inode, inode[i] = None
    PROVE  Counted(Ref, i) = {}
<1>1. i # None /\ AllInMemory /\ TypeControl
  BY NoneIsNothing, TypeParts DEF FilesInv, ControlInv
<1>2. ASSUME NEW q \in Proc PROVE CallRef(q) # i /\ SelfRef(q) # i
  BY <1>1 DEF CallRef, SelfRef, AllInMemory
<1>3. ASSUME NEW f \in Fd PROVE FdRef(f) # i
  BY <1>1 DEF FdRef, AllInMemory
<1>4. QED
  BY <1>2, <1>3, Refs DEF Counted

LEMMA CountsStay ==
    ASSUME RefsBut({}), NEW i
    PROVE  Cardinality(Counted(Ref', i)) = Cardinality(Counted(Ref, i))
BY SameCount DEF RefsBut

LEMMA PassOnCount ==
    ASSUME ControlInv, NEW p \in Proc, ByOne(p), FdAcquire(p) \/ DenyWrite(p), NEW i
    PROVE  Cardinality(Counted(Ref', i)) = Cardinality(Counted(Ref, i))
<1>1. PICK t \in Token : /\ t # <<"call", p>> /\ RefsBut({<<"call", p>>, t})
                         /\ Ref[<<"call", p>>] = ino[p] /\ Ref'[<<"call", p>>] = None
                         /\ Ref[t] = None /\ Ref'[t] = ino[p]
  BY RefsPassOn
<1>2. <<"call", p>> \in Token
  BY Refs
<1>3. PICK u \in Token : u = <<"call", p>>
  BY <1>2
<1>4. /\ \A x \in Token : x # u /\ x # t => Ref'[x] = Ref[x]
      /\ Ref[u] = Ref'[t] /\ Ref'[u] = Ref[t] /\ t # u
  BY <1>1, <1>3 DEF RefsBut
<1>5. QED
  BY <1>4, AsMany

(* The openers of the inode that p looks at change, or nobody's do.        *)
LEMMA OpenCntNext ==
    ASSUME FilesInv, NEW p \in Proc, ByOne(p)
    PROVE  OpenCntOK'
<1>0. /\ TypeInode /\ ControlInv /\ OpenCntOK /\ ~freedInUse /\ TypeControl
      /\ \A j \in Inode : j # None
  BY TypeParts, NoneIsNothing DEF FilesInv, ControlInv, ByOne
<1>a. \A j \in Inode : inode[j] # None => inode[j] \in InMemory /\ inode[j].openCnt \in Nat
  BY <1>0 DEF TypeInode, InMemory
<1>b. \A j : Cardinality(Counted(Ref, j)) \in Nat
  BY CountedFinite
<1>1. ASSUME \A j : Cardinality(Counted(Ref', j)) = Cardinality(Counted(Ref, j)),
             \A j \in Inode : inode'[j] # None => inode[j] # None /\ inode'[j].openCnt = inode[j].openCnt
      PROVE  OpenCntOK'
  BY <1>0, <1>1 DEF OpenCntOK, Counted
<1>2. ASSUME NEW i, NEW r, Sets(i, r), r.openCnt = inode[i].openCnt
      PROVE  \A j \in Inode : inode'[j] # None => inode[j] # None /\ inode'[j].openCnt = inode[j].openCnt
  BY <1>0, <1>2, NoneIsNothing DEF Sets, TypeInode
<1>3. CASE Looks(p) \/ Fills(p) \/ Marks(p) \/ Denies(p) \/ Allows(p)
  <2>1. ASSUME NEW j PROVE Cardinality(Counted(Ref', j)) = Cardinality(Counted(Ref, j))
    <3>1. CASE FdAcquire(p) \/ DenyWrite(p)
      BY <1>0, <3>1, PassOnCount
    <3>2. CASE InodeOpen(p) /\ pc'[p] # "fill"
      <4>1. pc'[p] # "opened"
        BY <1>0, <3>2 DEF InodeOpen, OpenNew, OpenFails, Return, Goto, TypeControl
      <4>2. RefsBut({})
        BY <1>0, <3>2, <4>1, RefsOpen
      <4>3. QED
        BY <4>2, CountsStay
    <3>3. CASE \/ InodeFill(p) \/ EraseEntry(p) \/ LoadDone(p) \/ HandleClose(p) \/ ProcessExit(p)
               \/ FdProcessExit(p) \/ Call(p)
      <4>1. RefsBut({})
        BY <1>0, <3>3, RefsSame
      <4>2. QED
        BY <4>1, CountsStay
    <3>4. QED
      BY <1>3, <3>1, <3>2, <3>3 DEF Looks, Fills, Marks, Denies, Allows
  <2>2. \A j \in Inode : inode'[j] # None => inode[j] # None /\ inode'[j].openCnt = inode[j].openCnt
    <3>1. CASE Looks(p)
      BY <3>1 DEF Looks, SameInodes
    <3>2. CASE Fills(p)
      <4>1. PICK D : D = diskInode[inode[ino[p]].sector]
        OBVIOUS
      <4>2. Sets(ino[p], [inode[ino[p]] EXCEPT !.data = D])
        BY <3>2, <4>1 DEF Fills
      <4>3. [inode[ino[p]] EXCEPT !.data = D].openCnt = inode[ino[p]].openCnt
        BY <4>2 DEF Sets, InMemory
      <4>4. QED
        BY <1>2, <4>2, <4>3
    <3>3. CASE Marks(p)
      <4>1. Sets(ino[p], [inode[ino[p]] EXCEPT !.removed = TRUE])
        BY <3>3 DEF Marks
      <4>2. [inode[ino[p]] EXCEPT !.removed = TRUE].openCnt = inode[ino[p]].openCnt
        BY <4>1 DEF Sets, InMemory
      <4>3. QED
        BY <1>2, <4>1, <4>2
    <3>4. CASE Denies(p) \/ Allows(p)
      <4>1. PICK i, n : Sets(i, [inode[i] EXCEPT !.denyWriteCnt = n])
        BY <3>4 DEF Denies, Allows
      <4>2. [inode[i] EXCEPT !.denyWriteCnt = n].openCnt = inode[i].openCnt
        BY <4>1 DEF Sets, InMemory
      <4>3. QED
        BY <1>2, <4>1, <4>2
    <3>5. QED
      BY <1>3, <3>1, <3>2, <3>3, <3>4
  <2>3. QED
    BY <1>1, <2>1, <2>2
<1>4. CASE Makes(p)
  <2>1. PICK i \in Inode : /\ InodeOpen(p) /\ pc'[p] = "fill" /\ inode[i] = None /\ ino'[p] = i
                           /\ inode' = [inode EXCEPT ![i] = NewInode(dirEntry[arg[p]])]
    BY <1>4 DEF Makes
  <2>2. RefsBut({<<"call", p>>}) /\ Ref[<<"call", p>>] = None /\ Ref'[<<"call", p>>] = i
    BY <1>0, <2>1, RefsOpen
  <2>3. PICK t \in Token : t = <<"call", p>>
    BY Refs
  <2>4. \A x \in Token : x # t => Ref'[x] = Ref[x]
    BY <2>2, <2>3 DEF RefsBut
  <2>5. Cardinality(Counted(Ref, i)) = 0
    BY <1>0, <2>1, NobodyRefers, FS_EmptySet
  <2>6. Cardinality(Counted(Ref', i)) = 1
    <3>1. Ref[t] # i /\ Ref'[t] = i
      BY <1>0, <2>2, <2>3
    <3>2. Cardinality(Counted(Ref', i)) = Cardinality(Counted(Ref, i)) + 1
      BY <2>4, <3>1, OneMore
    <3>3. QED
      BY <2>5, <3>2
  <2>7. inode'[i].openCnt = 1 /\ \A j \in Inode : j # i => inode'[j] = inode[j]
    BY <1>0, <2>1 DEF TypeInode, NewInode
  <2>8. ASSUME NEW j \in Inode, j # i PROVE Counted(Ref', j) = Counted(Ref, j)
    BY <1>0, <2>2, <2>3, <2>4, <2>8, SameCount
  <2>9. QED
    BY <1>0, <2>6, <2>7, <2>8 DEF OpenCntOK, Counted
<1>5. CASE CountsUp(p)
  <2>1. PICK i \in Inode : i = ino[p] /\ Sets(i, [inode[i] EXCEPT !.openCnt = inode[i].openCnt + 1])
    BY <1>5 DEF CountsUp, Sets
  <2>2. inode'[i].openCnt = inode[i].openCnt + 1 /\ \A j \in Inode : j # i => inode'[j] = inode[j]
    BY <1>0, <2>1 DEF Sets, InMemory, TypeInode
  <2>3. pc'[p] = "opened" /\ ino'[p] = i
    BY <1>0, <1>5, <2>1 DEF CountsUp, InodeReopen, Goto, TypeControl
  <2>4. RefsBut({<<"call", p>>}) /\ Ref[<<"call", p>>] = None /\ Ref'[<<"call", p>>] = i
    BY <1>0, <1>5, <2>3, RefsOpen DEF CountsUp
  <2>5. PICK t \in Token : t = <<"call", p>>
    BY Refs
  <2>6. \A x \in Token : x # t => Ref'[x] = Ref[x]
    BY <2>4, <2>5 DEF RefsBut
  <2>7. Cardinality(Counted(Ref', i)) = Cardinality(Counted(Ref, i)) + 1
    BY <1>0, <2>4, <2>5, <2>6, OneMore
  <2>8. ASSUME NEW j \in Inode, j # i PROVE Counted(Ref', j) = Counted(Ref, j)
    BY <1>0, <2>4, <2>5, <2>6, <2>8, SameCount
  <2>9. inode[i] # None
    BY <2>1, NoneIsNothing DEF Sets
  <2>10. QED
    BY <1>0, <2>2, <2>7, <2>8, <2>9 DEF OpenCntOK, Counted
<1>6. CASE CountsDown(p)
  <2>1. PICK i \in Inode : i = ino[p] /\ Sets(i, [inode[i] EXCEPT !.openCnt = inode[i].openCnt - 1])
    BY <1>6 DEF CountsDown, Sets
  <2>2. inode'[i].openCnt = inode[i].openCnt - 1 /\ \A j \in Inode : j # i => inode'[j] = inode[j]
    BY <1>0, <2>1 DEF Sets, InMemory, TypeInode
  <2>3. PICK t \in Token : RefsBut({t}) /\ Ref[t] = i /\ Ref'[t] = None
    BY <1>0, <1>6, <2>1, RefsClose DEF CountsDown
  <2>4. \A x \in Token : x # t => Ref'[x] = Ref[x]
    BY <2>3 DEF RefsBut
  <2>5. Cardinality(Counted(Ref', i)) = Cardinality(Counted(Ref, i)) - 1
    BY <1>0, <2>3, <2>4, OneLess
  <2>6. ASSUME NEW j \in Inode, j # i PROVE Counted(Ref', j) = Counted(Ref, j)
    BY <1>0, <2>3, <2>4, <2>6, SameCount
  <2>7. inode[i] # None
    BY <2>1, NoneIsNothing DEF Sets
  <2>8. QED
    BY <1>0, <2>2, <2>5, <2>6, <2>7 DEF OpenCntOK, Counted
<1>7. CASE Frees(p)
  <2>1. \A j \in Inode : inode'[j] # None => inode[j] # None /\ inode'[j].openCnt = inode[j].openCnt
    BY <1>0, <1>7 DEF Frees, TypeInode
  <2>2. \A j : Cardinality(Counted(Ref', j)) = Cardinality(Counted(Ref, j))
    BY <1>0, <1>7, RefsFree, CountsStay DEF Frees
  <2>3. QED
    BY <1>1, <2>1, <2>2
<1>8. QED
  BY <1>3, <1>4, <1>5, <1>6, <1>7, InodeCases

(* The inode whose writes p denies.                                        *)
RunsFrom(p) == IF op[p] = "exitSelf" THEN None ELSE self[p]

LEMMA RunsFromStays ==
    ASSUME ControlInv, NEW p \in Proc, ByOne(p), ~DenyWrite(p),
           ~(ProcessExit(p) /\ self[p] # None)
    PROVE  RunsFrom(p)' = RunsFrom(p)
<1>0. TypeControl /\ StageOf(p) /\ None \notin Purpose
  BY TypeParts, NoneIsNothing DEF ControlInv, StageOK
<1> USE <1>0 DEF TypeControl, Goto, Return, Purpose
<1>1. CASE OpenStep(p)
  <2>1. ASSUME OpenFails(p), self' = self, pc[p] = "open" PROVE RunsFrom(p)' = RunsFrom(p)
    BY <2>1 DEF OpenFails, RunsFrom, StageOf, Opening
  <2>2. CASE InodeOpen(p)
    BY <2>1, <2>2 DEF InodeOpen, OpenNew, RunsFrom
  <2>3. CASE InodeReopen(p) \/ InodeFill(p) \/ EraseEntry(p)
    BY <2>3 DEF InodeReopen, InodeFill, EraseEntry, RunsFrom
  <2>4. CASE FdAcquire(p) \/ LoadDone(p)
    BY <2>4 DEF FdAcquire, LoadDone, RunsFrom
  <2>5. QED
    BY <1>1, <2>2, <2>3, <2>4 DEF OpenStep
<1>2. ASSUME Closed(p), pc[p] \in {"close", "last"} PROVE RunsFrom(p)' = RunsFrom(p)
  BY <1>2 DEF Closed, RunsFrom
<1>3. CASE InodeClose(p) \/ InodeFree(p)
  <2>1. CASE Closed(p)
    BY <1>2, <1>3, <2>1 DEF InodeClose, InodeFree
  <2>2. CASE ~Closed(p)
    BY <1>3, <2>2 DEF InodeClose, InodeFree, RunsFrom
  <2>3. QED
    BY <2>1, <2>2
<1>4. CASE HandleClose(p)
  <2>1. op[p] = None
    BY <1>4 DEF HandleClose, StageOf
  <2>2. QED
    BY <1>4, <2>1 DEF HandleClose, RunsFrom
<1>5. CASE ProcessExit(p)
  BY <1>5 DEF ProcessExit, RunsFrom
<1>6. CASE FdProcessExit(p)
  <2>1. self[p] = None
    BY <1>6 DEF FdProcessExit, StageOf
  <2>2. self'[p] = None
    BY <1>6, <2>1 DEF FdProcessExit
  <2>3. QED
    BY <2>1, <2>2 DEF RunsFrom
<1>7. CASE Call(p)
  <2>1. ASSUME NEW n \in Name, NEW o \in {"open", "remove", "load"}, OpenBy(p, o, n)
        PROVE  RunsFrom(p)' = RunsFrom(p)
    <3>1. op[p] = None
      BY <2>1 DEF OpenBy, StageOf
    <3>2. QED
      BY <2>1, <3>1 DEF OpenBy, RunsFrom
  <2>2. QED
    BY <1>7, <2>1 DEF Call, Create, CloseCheck, HandleWrite, callVars, RunsFrom
<1>8. QED
  BY <1>1, <1>3, <1>4, <1>5, <1>6, <1>7 DEF ByOne, CloseStep

LEMMA DenyCntNext ==
    ASSUME FilesInv, NEW p \in Proc, ByOne(p)
    PROVE  DenyCntOK'
<1>0. /\ TypeInode /\ ControlInv /\ DenyCntOK /\ TypeControl /\ OthersStay(p) /\ StageOf(p)
      /\ None \notin Purpose /\ ~freedInUse
      /\ \A j \in Inode : j # None
  BY TypeParts, NoneIsNothing, StepOthersStay DEF FilesInv, ControlInv, ByOne, StageOK
<1>a. ASSUME NEW j \in Inode
      PROVE  /\ Running(j) \in SUBSET Proc /\ Running(j)' \in SUBSET Proc
             /\ \A q \in Proc : q \in Running(j) <=> RunsFrom(q) = j
             /\ \A q \in Proc : q \in Running(j)' <=> RunsFrom(q)' = j
             /\ \A q \in Proc \ {p} : q \in Running(j)' <=> q \in Running(j)
  BY <1>0 DEF Running, RunsFrom, OthersStay
<1>1. ASSUME NEW i \in Inode, NEW r, Sets(i, r)
      PROVE  \A j \in Inode : j # i => inode'[j] = inode[j]
  BY <1>0, <1>1 DEF Sets, TypeInode
<1>2. CASE Denies(p)
  <2>1. PICK i \in Inode : i = ino[p] /\ Sets(i, [inode[i] EXCEPT !.denyWriteCnt = inode[i].denyWriteCnt + 1])
    BY <1>2 DEF Denies, Sets
  <2>2. inode[i] # None /\ inode'[i].denyWriteCnt = inode[i].denyWriteCnt + 1
    BY <1>0, <2>1, NoneIsNothing DEF Sets, InMemory, TypeInode
  <2>3. RunsFrom(p) = None /\ RunsFrom(p)' = i
    BY <1>0, <1>2, <2>1 DEF Denies, DenyWrite, RunsFrom, StageOf, Return, TypeControl, Purpose
  <2>4. Running(i)' = Running(i) \cup {p} /\ p \notin Running(i)
    BY <1>0, <1>a, <2>3
  <2>5. Cardinality(Running(i)') = Cardinality(Running(i)) + 1
    BY <1>a, <2>4, RunningFinite, FS_AddElement
  <2>6. \A j \in Inode : j # i => Running(j)' = Running(j)
    BY <1>0, <1>a, <2>3
  <2>7. QED
    BY <1>0, <1>1, <2>1, <2>2, <2>5, <2>6 DEF DenyCntOK
<1>3. CASE Allows(p)
  <2>1. PICK i \in Inode : i = self[p] /\ Sets(i, [inode[i] EXCEPT !.denyWriteCnt = inode[i].denyWriteCnt - 1])
    BY <1>3 DEF Allows, Sets
  <2>2. inode[i] # None /\ inode'[i].denyWriteCnt = inode[i].denyWriteCnt - 1
    BY <1>0, <2>1, NoneIsNothing DEF Sets, InMemory, TypeInode
  <2>3. RunsFrom(p) = i /\ RunsFrom(p)' = None
    BY <1>0, <1>3, <2>1 DEF Allows, ProcessExit, RunsFrom, StageOf, TypeControl, Purpose
  <2>4. Running(i)' = Running(i) \ {p} /\ p \in Running(i)
    BY <1>0, <1>a, <2>3
  <2>5. Cardinality(Running(i)') = Cardinality(Running(i)) - 1
    BY <1>a, <2>4, RunningFinite, FS_RemoveElement
  <2>6. \A j \in Inode : j # i => Running(j)' = Running(j)
    BY <1>0, <1>a, <2>3
  <2>7. QED
    BY <1>0, <1>1, <2>1, <2>2, <2>5, <2>6 DEF DenyCntOK
<1>4. ASSUME ~DenyWrite(p), ~(ProcessExit(p) /\ self[p] # None)
      PROVE  \A j \in Inode : Running(j)' = Running(j)
  <2>1. RunsFrom(p)' = RunsFrom(p)
    BY <1>0, <1>4, RunsFromStays
  <2>2. QED
    BY <1>a, <2>1
<1>b. ASSUME \/ InodeOpen(p) \/ FdAcquire(p) \/ LoadDone(p) \/ HandleClose(p) \/ FdProcessExit(p) \/ Call(p)
             \/ ProcessExit(p) /\ self[p] = None
             \/ InodeReopen(p) \/ InodeFill(p) \/ EraseEntry(p) \/ InodeClose(p) \/ InodeFree(p)
      PROVE  ~DenyWrite(p) /\ ~(ProcessExit(p) /\ self[p] # None)
  <2>1. CASE DenyWrite(p)
    <3>1. /\ pc[p] = "opened" /\ op[p] = "self" /\ pc'[p] = "idle" /\ self'[p] = ino[p]
          /\ op'[p] = None /\ self[p] = None /\ ino[p] # None
      BY <1>0, <2>1 DEF DenyWrite, Return, TypeControl, StageOf, Opening
    <3>2. QED
      BY <1>b, <3>1 DEF InodeOpen, FdAcquire, LoadDone, HandleClose, FdProcessExit, ProcessExit,
         InodeReopen, InodeFill, EraseEntry, InodeClose, InodeFree, Call, OpenBy, CloseCheck, Create, HandleWrite
  <2>2. CASE ProcessExit(p) /\ self[p] # None
    <3>1. pc[p] \in {"idle", "exit"} /\ pc'[p] = "close" /\ op'[p] = "exitSelf" /\ op[p] = None
      BY <1>0, <2>2 DEF ProcessExit, Goto, TypeControl, StageOf
    <3>2. ~Call(p)
      BY <1>0, <3>1 DEF Call, OpenBy, CloseCheck, Create, HandleWrite, callVars, Goto, TypeControl
    <3>3. QED
      BY <1>b, <2>2, <3>1, <3>2 DEF InodeOpen, FdAcquire, LoadDone, HandleClose, FdProcessExit,
         InodeReopen, InodeFill, EraseEntry, InodeClose, InodeFree
  <2>3. QED
    BY <2>1, <2>2
<1>5. CASE Looks(p) \/ Makes(p) \/ CountsUp(p) \/ Fills(p) \/ Marks(p) \/ CountsDown(p) \/ Frees(p)
  <2>1. \A j \in Inode : Running(j)' = Running(j)
    BY <1>4, <1>5, <1>b DEF Looks, Makes, CountsUp, Fills, Marks, CountsDown, Frees
  <2>2. ASSUME NEW i, NEW r, Sets(i, r), r.denyWriteCnt = inode[i].denyWriteCnt PROVE DenyCntOK'
    <3>1. \A j \in Inode : inode'[j] # None => inode[j] # None /\ inode'[j].denyWriteCnt = inode[j].denyWriteCnt
      BY <1>0, <2>2, NoneIsNothing DEF Sets, TypeInode
    <3>2. QED
      BY <1>0, <2>1, <3>1 DEF DenyCntOK
  <2>3. CASE Looks(p)
    BY <1>0, <2>1, <2>3 DEF Looks, SameInodes, DenyCntOK
  <2>4. CASE Fills(p)
    <3>1. PICK D : D = diskInode[inode[ino[p]].sector]
      OBVIOUS
    <3>2. Sets(ino[p], [inode[ino[p]] EXCEPT !.data = D])
      BY <2>4, <3>1 DEF Fills
    <3>3. [inode[ino[p]] EXCEPT !.data = D].denyWriteCnt = inode[ino[p]].denyWriteCnt
      BY <3>2 DEF Sets, InMemory
    <3>4. QED
      BY <2>2, <3>2, <3>3
  <2>5. CASE Marks(p)
    <3>1. Sets(ino[p], [inode[ino[p]] EXCEPT !.removed = TRUE])
      BY <2>5 DEF Marks
    <3>2. [inode[ino[p]] EXCEPT !.removed = TRUE].denyWriteCnt = inode[ino[p]].denyWriteCnt
      BY <3>1 DEF Sets, InMemory
    <3>3. QED
      BY <2>2, <3>1, <3>2
  <2>6. CASE CountsUp(p) \/ CountsDown(p)
    <3>1. PICK i, n : Sets(i, [inode[i] EXCEPT !.openCnt = n])
      BY <2>6 DEF CountsUp, CountsDown
    <3>2. [inode[i] EXCEPT !.openCnt = n].denyWriteCnt = inode[i].denyWriteCnt
      BY <3>1 DEF Sets, InMemory
    <3>3. QED
      BY <2>2, <3>1, <3>2
  <2>7. CASE Frees(p)
    <3>1. \A j \in Inode : inode'[j] # None => inode[j] # None /\ inode'[j].denyWriteCnt = inode[j].denyWriteCnt
      BY <1>0, <2>7 DEF Frees, TypeInode
    <3>2. QED
      BY <1>0, <2>1, <3>1 DEF DenyCntOK
  <2>8. CASE Makes(p)
    <3>1. PICK i \in Inode : inode[i] = None /\ inode' = [inode EXCEPT ![i] = NewInode(dirEntry[arg[p]])]
      BY <2>8 DEF Makes
    <3>2. inode'[i].denyWriteCnt = 0 /\ \A j \in Inode : j # i => inode'[j] = inode[j]
      BY <1>0, <3>1 DEF TypeInode, NewInode
    <3>3. Running(i) = {}
      BY <1>0, <3>1 DEF Running, FilesInv, AllInMemory
    <3>4. Cardinality(Running(i)') = 0
      BY <2>1, <3>3, FS_EmptySet
    <3>5. QED
      BY <1>0, <2>1, <3>2, <3>4 DEF DenyCntOK
  <2>9. QED
    BY <1>5, <2>3, <2>4, <2>5, <2>6, <2>7, <2>8
<1>6. QED
  BY <1>2, <1>3, <1>5, InodeCases

-----------------------------------------------------------------------------
(* Who refers to an inode.                                                 *)
Holds(i) ==
    \/ \E q \in Proc : ino[q] = i \/ self[q] = i
    \/ \E f \in Fd : fd[f] # None /\ fd[f].inode = i

(* A step makes p refer only to an inode that somebody refers to already,  *)
(* or that inode_open has found or made.                                   *)
LEMMA InoComesFrom ==
    ASSUME ControlInv, NEW p \in Proc, ByOne(p), ino'[p] # None, ino'[p] # ino[p]
    PROVE  \/ InodeOpen(p) /\ ino'[p] \in openInodes /\ pc'[p] = "found"
              /\ inode[ino'[p]].sector = dirEntry[arg[p]] /\ SameInodes
           \/ InodeOpen(p) /\ pc'[p] = "fill"
           \/ HandleClose(p) /\ \E f \in Fd : fd[f] # None /\ fd[f].inode = ino'[p]
           \/ ProcessExit(p) /\ self[p] = ino'[p]
           \/ FdProcessExit(p) /\ \E f \in Fd : fd[f] # None /\ fd[f].inode = ino'[p]
<1>0. TypeControl /\ StageOf(p) /\ TypeFd
  BY TypeParts DEF ControlInv, StageOK
<1> USE <1>0 DEF TypeControl, Goto, Return
<1>1. CASE OpenStep(p)
  <2>1. ASSUME OpenFails(p) PROVE FALSE
    BY <2>1 DEF OpenFails
  <2>2. CASE InodeOpen(p)
    <3>1. ASSUME NEW i \in openInodes, inode[i].sector = dirEntry[arg[p]],
                 ino' = [ino EXCEPT ![p] = i], pc' = [pc EXCEPT ![p] = "found"], SameInodes
          PROVE  /\ ino'[p] \in openInodes /\ pc'[p] = "found"
                 /\ inode[ino'[p]].sector = dirEntry[arg[p]] /\ SameInodes
      BY <3>1
    <3>2. CASE OpenNew(p)
      BY <2>1, <2>2, <3>2 DEF OpenNew
    <3>3. QED
      BY <2>1, <2>2, <3>1, <3>2 DEF InodeOpen, SameInodes
  <2>3. CASE InodeReopen(p) \/ InodeFill(p) \/ EraseEntry(p) \/ LoadDone(p)
    BY <2>3 DEF InodeReopen, InodeFill, EraseEntry, LoadDone
  <2>4. CASE FdAcquire(p) \/ DenyWrite(p)
    BY <2>4 DEF FdAcquire, DenyWrite
  <2>5. QED
    BY <1>1, <2>2, <2>3, <2>4 DEF OpenStep
<1>2. ASSUME Closed(p), pc[p] \in {"close", "last"} PROVE FALSE
  BY <1>2 DEF Closed, StageOf
<1>3. CASE InodeClose(p) \/ InodeFree(p)
  BY <1>2, <1>3 DEF InodeClose, InodeFree
<1>4. CASE HandleClose(p)
  <2>1. arg[p] \in Fd /\ fd[arg[p]] # None
    BY <1>4 DEF HandleClose, ControlInv, CheckStaysTrue, FdIsValid, StageOf
  <2>2. QED
    BY <1>4, <2>1 DEF HandleClose
<1>5. CASE ProcessExit(p)
  BY <1>5 DEF ProcessExit
<1>6. CASE FdProcessExit(p)
  <2>1. PICK f \in Fd : FdIsValid(p, f) /\ ino' = [ino EXCEPT ![p] = fd[f].inode]
    BY <1>6 DEF FdProcessExit
  <2>2. QED
    BY <1>6, <2>1 DEF FdIsValid
<1>7. CASE Call(p)
  BY <1>7 DEF Call, OpenBy, Create, CloseCheck, HandleWrite, callVars
<1>8. QED
  BY <1>1, <1>3, <1>4, <1>5, <1>6, <1>7 DEF ByOne, CloseStep

LEMMA SelfComesFrom ==
    ASSUME ControlInv, NEW p \in Proc, ByOne(p), self'[p] # None, self'[p] # self[p]
    PROVE  pc[p] = "opened" /\ self'[p] = ino[p]
<1>0. TypeControl
  BY TypeParts DEF ControlInv
<1> USE <1>0 DEF TypeControl
<1>1. CASE OpenStep(p)
  BY <1>1 DEF OpenStep, InodeOpen, InodeReopen, InodeFill, EraseEntry, LoadDone, FdAcquire, DenyWrite
<1>2. CASE CloseStep(p)
  BY <1>2 DEF CloseStep, InodeClose, InodeFree, Closed, HandleClose, ProcessExit, FdProcessExit
<1>3. CASE Call(p)
  BY <1>3 DEF Call, OpenBy, Create, CloseCheck, HandleWrite
<1>4. QED
  BY <1>1, <1>2, <1>3 DEF ByOne

LEMMA FdComesFrom ==
    ASSUME ControlInv, NEW p \in Proc, ByOne(p), NEW f \in Fd, fd'[f] # None, fd'[f] # fd[f]
    PROVE  pc[p] = "opened" /\ fd'[f].inode = ino[p]
<1>1. f = Acquired /\ Acquires(p)
  BY FdsOfOthers
<1>2. PICK g \in Fd : g = Acquired
  BY <1>1
<1>3. fd' = [fd EXCEPT ![g] = [inode |-> ino[p], owner |-> p]] /\ pc[p] = "opened" /\ f = g
  BY <1>1, <1>2 DEF Acquires
<1>4. fd'[f] = [inode |-> ino[p], owner |-> p]
  BY <1>3, TypeParts DEF ControlInv, TypeFd
<1>5. QED
  BY <1>3, <1>4

LEMMA HoldersNext ==
    ASSUME ControlInv, NEW p \in Proc, ByOne(p), NEW i, i # None, Holds(i)'
    PROVE  Holds(i) \/ (InodeOpen(p) /\ ino'[p] = i /\ pc'[p] \in {"found", "fill"})
<1>0. OthersStay(p) /\ TypeFd
  BY TypeParts, StepOthersStay DEF ByOne, ControlInv
<1>1. ASSUME NEW q \in Proc, ino'[q] = i
      PROVE  Holds(i) \/ (InodeOpen(p) /\ ino'[p] = i /\ pc'[p] \in {"found", "fill"})
  <2>1. CASE ino'[q] = ino[q]
    BY <1>1, <2>1 DEF Holds
  <2>2. CASE ino'[q] # ino[q]
    <3>1. q = p
      BY <1>0, <2>2 DEF OthersStay
    <3>2. QED
      BY <1>1, <2>2, <3>1, InoComesFrom DEF Holds
  <2>3. QED
    BY <2>1, <2>2
<1>2. ASSUME NEW q \in Proc, self'[q] = i PROVE Holds(i)
  <2>1. CASE self'[q] = self[q]
    BY <1>2, <2>1 DEF Holds
  <2>2. CASE self'[q] # self[q]
    <3>1. q = p
      BY <1>0, <2>2 DEF OthersStay
    <3>2. QED
      BY <1>2, <2>2, <3>1, SelfComesFrom DEF Holds
  <2>3. QED
    BY <2>1, <2>2
<1>3. ASSUME NEW f \in Fd, fd'[f] # None, fd'[f].inode = i PROVE Holds(i)
  <2>1. CASE fd'[f] = fd[f]
    BY <1>3, <2>1 DEF Holds
  <2>2. CASE fd'[f] # fd[f]
    BY <1>3, <2>2, FdComesFrom DEF Holds
  <2>3. QED
    BY <2>1, <2>2
<1>4. QED
  BY <1>1, <1>2, <1>3 DEF Holds

(* When the last opener has gone nobody holds the inode.                   *)
LEMMA FreedUnheld ==
    ASSUME FilesInv, NEW p \in Proc, ByOne(p), Frees(p), ~FreesFound(p), NEW i \in Inode, i = ino[p]
    PROVE  ~Holds(i)'
<1>0. /\ ControlInv /\ TypeControl /\ TypeFd /\ StageOK /\ OthersStay(p) /\ OpenCntOK /\ ~freedInUse
      /\ InodeFree(p) /\ TypeInode
      /\ None \notin Inode /\ None \notin Purpose /\ None \notin InMemory
  BY TypeParts, StepOthersStay, NoneIsNothing DEF FilesInv, ControlInv, ByOne, Frees
<1>1. i = ino[p] /\ inode[i] \in InMemory /\ i # None
  BY <1>0 DEF Frees
<1>2. pc[p] = "last" /\ pc'[p] # "last"
  BY <1>0 DEF InodeFree, Closed, Return, Goto, TypeControl
<1>3. /\ inode[i].openCnt = 0
      /\ \A q \in Proc : q # p /\ ino[q] = i => pc[q] \notin {"found", "last"}
  BY <1>0, <1>1, <1>2 DEF FreesFound, InMemory
<1>4. Cardinality(Counted(Ref, i)) = 0
  BY <1>0, <1>1, <1>3 DEF OpenCntOK
<1>5. \A t \in Token : Ref[t] # i
  <2>1. Counted(Ref, i) = {}
    BY <1>4, CountedFinite, FS_EmptySet
  <2>2. QED
    BY <2>1 DEF Counted
<1>6. ASSUME NEW q \in Proc, q # p PROVE ino[q] # i
  <2>1. StageOf(q)
    BY <1>0 DEF StageOK
  <2>2. pc[q] \in {"fill", "opened"} => CallRef(q) = ino[q]
    BY DEF CallRef
  <2>3. pc[q] = "close" => \E t \in Token : Ref[t] = ino[q]
    BY <1>0, Mine
  <2>4. CallRef(q) # i
    BY <1>5, Refs
  <2>5. pc[q] \in {"none", "idle", "exit", "checked", "open", "fds"} => ino[q] = None
    BY <2>1 DEF StageOf, NothingOn, Opening
  <2>6. pc[q] \in Stage
    BY <1>0 DEF TypeControl
  <2>7. QED
    BY <1>1, <1>3, <1>5, <1>6, <2>2, <2>3, <2>4, <2>5, <2>6 DEF Stage
<1>7. ASSUME NEW q \in Proc PROVE self'[q] # i
  <2>1. SelfRef(q) # i
    BY <1>5, Refs
  <2>2. CASE pc[q] = "last" /\ op[q] = "exitSelf"
    <3>1. ino[q] = self[q]
      BY <1>0, <2>2 DEF StageOK, StageOf
    <3>2. CASE q = p
      BY <1>0, <1>1, <2>2, <3>2 DEF InodeFree, Closed, TypeControl
    <3>3. CASE q # p
      BY <1>0, <1>6, <3>1, <3>3 DEF OthersStay
    <3>4. QED
      BY <3>2, <3>3
  <2>3. CASE ~(pc[q] = "last" /\ op[q] = "exitSelf")
    <3>1. self[q] # i
      BY <2>1, <2>3 DEF SelfRef
    <3>2. CASE q = p
      BY <1>0, <1>1, <3>1, <3>2 DEF InodeFree, Closed, TypeControl
    <3>3. CASE q # p
      BY <1>0, <3>1, <3>3 DEF OthersStay
    <3>4. QED
      BY <3>2, <3>3
  <2>4. QED
    BY <2>2, <2>3
<1>8. ASSUME NEW f \in Fd, fd'[f] # None PROVE fd'[f].inode # i
  <2>1. fd'[f] = fd[f]
    BY <1>0, <1>2, <1>8, FdComesFrom
  <2>2. FdRef(f) # i
    BY <1>5, Refs
  <2>3. CASE LeavesFd(fd[f].owner, f)
    <3>1. PICK q \in Proc : q = fd[f].owner
      BY <1>0, <1>8, <2>1 DEF TypeFd, Descriptor
    <3>2. ino[q] = fd[f].inode /\ arg[q] = f
      BY <1>0, <2>3, <3>1 DEF StageOK, StageOf, LeavesFd
    <3>3. CASE q = p
      BY <1>0, <1>8, <2>3, <3>1, <3>2, <3>3 DEF InodeFree, Closed, FdRelease, LeavesFd, TypeFd
    <3>4. CASE q # p
      BY <1>6, <2>1, <3>2, <3>4
    <3>5. QED
      BY <3>3, <3>4
  <2>4. CASE ~LeavesFd(fd[f].owner, f)
    BY <1>8, <2>1, <2>2, <2>4 DEF FdRef
  <2>5. QED
    BY <2>3, <2>4
<1>9. ino'[p] # i
  BY <1>0, <1>1 DEF InodeFree, Closed, Return, TypeControl, StageOK, StageOf
<1>10. ASSUME NEW q \in Proc PROVE ino'[q] # i
  BY <1>0, <1>6, <1>9 DEF OthersStay
<1>11. QED
  BY <1>7, <1>8, <1>10 DEF Holds

LEMMA OpenMakes ==
    ASSUME FilesInv, NEW p \in Proc, ByOne(p), InodeOpen(p), pc'[p] = "fill"
    PROVE  Makes(p)
<1>1. pc[p] = "open"
  BY DEF InodeOpen
<1>2. ~Call(p)
  BY <1>1 DEF Call, OpenBy, Create, CloseCheck, HandleWrite
<1>3. ~Looks(p)
  BY <1>1, <1>2 DEF Looks, FdAcquire, LoadDone, HandleClose, FdProcessExit, ProcessExit
<1>4. ~CountsUp(p) /\ ~Fills(p) /\ ~Marks(p) /\ ~Denies(p)
  BY <1>1 DEF CountsUp, Fills, Marks, Denies, InodeReopen, InodeFill, EraseEntry, DenyWrite
<1>5. ~CountsDown(p) /\ ~Frees(p) /\ ~Allows(p)
  BY <1>1 DEF CountsDown, Frees, Allows, InodeClose, InodeFree, ProcessExit
<1>6. QED
  BY <1>3, <1>4, <1>5, InodeCases

(* Inodes stay in memory, and new ones are added, unless p frees one.      *)
LEMMA MemoryNext ==
    ASSUME FilesInv, NEW p \in Proc, ByOne(p), NEW i \in Inode, inode[i] # None, inode'[i] = None
    PROVE  Frees(p) /\ i = ino[p]
<1>0. TypeInode /\ None \notin InMemory
  BY TypeParts, NoneIsNothing DEF FilesInv, ControlInv
<1>1. ASSUME NEW j, NEW r, Sets(j, r) PROVE FALSE
  BY <1>0, <1>1 DEF Sets, TypeInode
<1>2. CASE Makes(p)
  BY <1>0, <1>2 DEF Makes, TypeInode
<1>3. CASE Frees(p)
  BY <1>0, <1>3 DEF Frees, TypeInode
<1>4. CASE Looks(p)
  BY <1>4 DEF Looks, SameInodes
<1>5. QED
  BY <1>1, <1>2, <1>3, <1>4, InodeCases DEF CountsUp, Fills, Marks, Denies, CountsDown, Allows

LEMMA InMemoryNext ==
    ASSUME FilesInv, NEW p \in Proc, ByOne(p), ~FreesFound(p)
    PROVE  AllInMemory'
<1>0. /\ ControlInv /\ TypeControl /\ TypeInode /\ TypeFd /\ AllInMemory /\ ~freedInUse
      /\ TypeInode' /\ TypeFd' /\ ino' \in [Proc -> Inode \cup {None}]
      /\ self' \in [Proc -> Inode \cup {None}] /\ None \notin Inode /\ None \notin InMemory
  BY TypeParts, NoneIsNothing, TypeInodeNext, FdTypes, ControlTypes DEF FilesInv, ControlInv, ByOne
<1>1. ASSUME NEW i \in Inode, Holds(i)' PROVE inode'[i] # None
  <2>1. Holds(i) \/ (InodeOpen(p) /\ ino'[p] = i /\ pc'[p] \in {"found", "fill"})
    BY <1>0, <1>1, HoldersNext
  <2>2. CASE Holds(i)
    <3>1. inode[i] # None
      BY <1>0, <2>2 DEF Holds, AllInMemory
    <3>2. QED
      BY <1>1, <3>1, MemoryNext, FreedUnheld
  <2>3. CASE InodeOpen(p) /\ ino'[p] = i /\ pc'[p] \in {"found", "fill"} /\ ~Holds(i)
    <3>1. ino[p] # i
      BY <2>3 DEF Holds
    <3>2. CASE pc'[p] = "found"
      <4>1. ino'[p] \in openInodes /\ SameInodes
        BY <1>0, <2>3, <3>1, <3>2, InoComesFrom DEF HandleClose, ProcessExit, FdProcessExit, InodeOpen
      <4>2. QED
        BY <1>0, <2>3, <4>1 DEF SameInodes, TypeInode
    <3>3. CASE pc'[p] = "fill"
      <4>1. PICK j \in Inode : inode' = [inode EXCEPT ![j] = NewInode(dirEntry[arg[p]])] /\ ino'[p] = j
                               /\ dirEntry[arg[p]] \in Sector
        BY <2>3, <3>3, OpenMakes DEF Makes
      <4>2. NewInode(dirEntry[arg[p]]) \in InMemory
        BY <4>1 DEF NewInode, InMemory
      <4>3. QED
        BY <1>0, <2>3, <4>1, <4>2 DEF TypeInode
    <3>4. QED
      BY <2>3, <3>2, <3>3
  <2>4. QED
    BY <2>1, <2>2, <2>3
<1>2. ASSUME NEW q \in Proc, ino'[q] # None PROVE inode'[ino'[q]] # None
  <2>1. PICK i \in Inode : i = ino'[q]
    BY <1>0, <1>2
  <2>2. Holds(i)'
    BY <2>1 DEF Holds
  <2>3. QED
    BY <1>1, <2>1, <2>2
<1>3. ASSUME NEW q \in Proc, self'[q] # None PROVE inode'[self'[q]] # None
  <2>1. PICK i \in Inode : i = self'[q]
    BY <1>0, <1>3
  <2>2. Holds(i)'
    BY <2>1 DEF Holds
  <2>3. QED
    BY <1>1, <2>1, <2>2
<1>4. ASSUME NEW f \in Fd, fd'[f] # None PROVE inode'[fd'[f].inode] # None
  <2>1. PICK i \in Inode : i = fd'[f].inode
    BY <1>0, <1>4 DEF TypeFd, Descriptor
  <2>2. Holds(i)'
    BY <1>4, <2>1 DEF Holds
  <2>3. QED
    BY <1>1, <2>1, <2>2
<1>5. QED
  BY <1>2, <1>3, <1>4 DEF AllInMemory

-----------------------------------------------------------------------------
(* The disk.  A step puts a file there, loses sectors, erases an entry or  *)
(* gives back what a removed file had; or it leaves all but the contents.  *)
Elsewhere == UNCHANGED <<inode, openInodes, fdVars, self, fileLock, callVars>>
AddsFile(n, s, D) ==
    /\ n \in Name /\ dirEntry[n] = None
    /\ s \in Sector \ freeMap /\ D \in SUBSET (Sector \ freeMap) /\ s \notin D
    /\ dirEntry' = [dirEntry EXCEPT ![n] = s]
    /\ diskInode' = [diskInode EXCEPT ![s] = D]
    /\ freeMap' = freeMap \cup {s} \cup D /\ lost' = lost
LosesSectors(D) ==
    /\ D \in SUBSET (Sector \ freeMap)
    /\ freeMap' = freeMap \cup D /\ lost' = lost \cup D
    /\ UNCHANGED <<dirEntry, diskInode>>
Erases(p) ==
    /\ Marks(p) /\ arg[p] \in Name /\ ino[p] \in Inode
    /\ dirEntry' = [dirEntry EXCEPT ![arg[p]] = None]
    /\ UNCHANGED <<freeMap, diskInode, lost>>
GivesBack(p) ==
    /\ Frees(p) /\ inode[ino[p]].removed
    /\ freeMap' = freeMap \ ({inode[ino[p]].sector} \cup inode[ino[p]].data)
    /\ diskInode' = [diskInode EXCEPT ![inode[ino[p]].sector] = {}]
    /\ UNCHANGED <<dirEntry, lost>>
Keeps == UNCHANGED <<dirEntry, freeMap, diskInode, lost>>

LEMMA CreateAdds ==
    ASSUME TypeDisk, NEW p \in Proc, NEW n \in Name, NEW len \in {0, 1}, Create(p, n, len)
    PROVE  /\ (\E s, D : AddsFile(n, s, D)) \/ (\E D : LosesSectors(D))
           /\ Elsewhere
<1>1. /\ Allocated(len).sector \in Free /\ Allocated(len).data \in SUBSET Free
      /\ Allocated(len).sector \notin Allocated(len).data
  BY Allocates DEF Create
<1>2. Free = Sector \ freeMap
  BY DEF Free
<1>3. PICK s, D : s = Allocated(len).sector /\ D = Allocated(len).data
  OBVIOUS
<1>4. CASE dirEntry[n] = None
  <2>1. AddsFile(n, s, D)
    BY <1>1, <1>2, <1>3, <1>4 DEF Create, AddsFile
  <2>2. QED
    BY <2>1 DEF Create, Elsewhere
<1>5. CASE dirEntry[n] # None
  <2>1. LosesSectors(D)
    BY <1>1, <1>2, <1>3, <1>5 DEF Create, LosesSectors
  <2>2. QED
    BY <2>1 DEF Create, Elsewhere
<1>6. QED
  BY <1>4, <1>5

LEMMA ExtractAdds ==
    ASSUME TypeDisk, NEW n \in Name, Extract(n)
    PROVE  (\E s, D : AddsFile(n, s, D)) /\ Elsewhere
<1>1. /\ Allocated(1).sector \in Free /\ Allocated(1).data \in SUBSET Free
      /\ Allocated(1).sector \notin Allocated(1).data
  BY Allocates DEF Extract
<1>2. Free = Sector \ freeMap
  BY DEF Free
<1>3. PICK s, D : s = Allocated(1).sector /\ D = Allocated(1).data
  OBVIOUS
<1>4. AddsFile(n, s, D)
  BY <1>1, <1>2, <1>3 DEF Extract, AddsFile
<1>5. QED
  BY <1>4 DEF Extract, Elsewhere

LEMMA DiskCases ==
    ASSUME FilesInv, NEW p \in Proc, ByOne(p)
    PROVE  \/ Keeps /\ ~EraseEntry(p) /\ (Frees(p) => ~inode[ino[p]].removed)
           \/ Erases(p) \/ GivesBack(p)
           \/ Elsewhere /\ ((\E n \in Name : \E s, D : AddsFile(n, s, D)) \/ \E D : LosesSectors(D))
<1>0. ~freedInUse /\ TypeControl /\ TypeDisk /\ StageOf(p)
  BY TypeParts DEF ByOne, FilesInv, ControlInv, StageOK
<1>1. CASE EraseEntry(p)
  <2>1. pc[p] = "opened" /\ op[p] = "remove" /\ pc'[p] = "close" /\ Opening(p)
    BY <1>0, <1>1 DEF EraseEntry, Goto, TypeControl, Opening
  <2>2. ~Call(p)
    BY <2>1 DEF Call, OpenBy, Create, CloseCheck, HandleWrite
  <2>3. ~Looks(p)
    BY <2>1, <2>2 DEF Looks, InodeOpen, FdAcquire, LoadDone, HandleClose, FdProcessExit, ProcessExit
  <2>4. ~Makes(p) /\ ~CountsUp(p) /\ ~Fills(p) /\ ~Denies(p) /\ ~CountsDown(p) /\ ~Frees(p) /\ ~Allows(p)
    BY <2>1 DEF Makes, CountsUp, Fills, Denies, CountsDown, Frees, Allows, InodeOpen, InodeReopen,
       InodeFill, DenyWrite, InodeClose, InodeFree, ProcessExit
  <2>5. Marks(p)
    BY <2>3, <2>4, InodeCases
  <2>6. arg[p] \in Name /\ ino[p] \in Inode
    BY <1>0, <2>1 DEF StageOf, TypeControl
  <2>7. QED
    BY <1>1, <2>5, <2>6 DEF EraseEntry, Erases
<1>2. CASE InodeFree(p)
  <2>1. pc[p] = "last"
    BY <1>2 DEF InodeFree
  <2>2. ~Call(p) /\ ~EraseEntry(p)
    BY <2>1 DEF Call, OpenBy, Create, CloseCheck, HandleWrite, EraseEntry
  <2>3. ~Looks(p)
    BY <2>1, <2>2 DEF Looks, InodeOpen, FdAcquire, LoadDone, HandleClose, FdProcessExit, ProcessExit
  <2>4. ~Makes(p) /\ ~CountsUp(p) /\ ~Fills(p) /\ ~Denies(p) /\ ~CountsDown(p) /\ ~Marks(p) /\ ~Allows(p)
    BY <2>1 DEF Makes, CountsUp, Fills, Denies, CountsDown, Marks, Allows, InodeOpen, InodeReopen,
       InodeFill, DenyWrite, InodeClose, EraseEntry, ProcessExit
  <2>5. Frees(p)
    BY <2>3, <2>4, InodeCases
  <2>6. CASE inode[ino[p]].removed
    BY <1>2, <2>5, <2>6 DEF InodeFree, GivesBack
  <2>7. CASE ~inode[ino[p]].removed
    BY <1>2, <2>2, <2>7 DEF InodeFree, Keeps
  <2>8. QED
    BY <2>6, <2>7
<1>3. CASE Call(p)
  <2>1. ASSUME NEW n \in Name, NEW len \in {0, 1}, Create(p, n, len)
        PROVE  Elsewhere /\ ((\E m \in Name : \E s, D : AddsFile(m, s, D)) \/ \E D : LosesSectors(D))
    BY <1>0, <2>1, CreateAdds
  <2>2. pc[p] # "last" /\ pc[p] # "opened"
    BY <1>3 DEF Call, OpenBy, Create, CloseCheck, HandleWrite
  <2>3. ~Frees(p) /\ ~EraseEntry(p)
    BY <2>2 DEF Frees, InodeFree, EraseEntry
  <2>4. CASE Keeps
    BY <2>3, <2>4
  <2>5. CASE ~Keeps
    <3>1. \E n \in Name, len \in {0, 1} : Create(p, n, len)
      BY <1>3, <2>5 DEF Call, OpenBy, CloseCheck, HandleWrite, Keeps, diskVars
    <3>2. QED
      BY <2>1, <3>1
  <2>6. QED
    BY <2>4, <2>5
<1>4. CASE ~InodeFree(p) /\ ~EraseEntry(p) /\ ~Call(p)
  <2>1. Keeps
    BY <1>4 DEF ByOne, OpenStep, CloseStep, InodeOpen, InodeReopen, InodeFill, FdAcquire, LoadDone, DenyWrite,
       InodeClose, HandleClose, ProcessExit, FdProcessExit, diskVars, Keeps
  <2>2. QED
    BY <1>4, <2>1 DEF Frees
<1>5. QED
  BY <1>1, <1>2, <1>3, <1>4

LEMMA ContentNext ==
    ASSUME FilesInv, NEW p \in Proc, ByOne(p)
    PROVE  content' \in [Sector -> Value]
<1>0. content \in [Sector -> Value] /\ Zero \in Value
  BY TypeParts, FilesAssumption DEF FilesInv, ControlInv, FilesAssumption, TypeDisk
<1>1. CASE OpenStep(p)
  BY <1>0, <1>1 DEF OpenStep, InodeOpen, InodeReopen, InodeFill, FdAcquire, EraseEntry, LoadDone, DenyWrite, diskVars
<1>2. CASE CloseStep(p)
  BY <1>0, <1>2 DEF CloseStep, InodeClose, InodeFree, HandleClose, ProcessExit, FdProcessExit, diskVars
<1>3. CASE Call(p)
  BY <1>0, <1>3 DEF Call, OpenBy, Create, CloseCheck, HandleWrite, diskVars
<1>4. QED
  BY <1>1, <1>2, <1>3 DEF ByOne

LEMMA AddsTypes ==
    ASSUME TypeDisk, content' \in [Sector -> Value],
           (\E n \in Name : \E s, D : AddsFile(n, s, D)) \/ (\E D : LosesSectors(D))
    PROVE  TypeDisk'
<1>1. ASSUME NEW n \in Name, NEW s, NEW D, AddsFile(n, s, D) PROVE TypeDisk'
  BY <1>1 DEF AddsFile, TypeDisk
<1>2. ASSUME NEW D, LosesSectors(D) PROVE TypeDisk'
  BY <1>2 DEF LosesSectors, TypeDisk
<1>3. QED
  BY <1>1, <1>2

LEMMA TypeDiskNext ==
    ASSUME FilesInv, NEW p \in Proc, ByOne(p)
    PROVE  TypeDisk'
<1>0. TypeDisk /\ content' \in [Sector -> Value]
  BY TypeParts, ContentNext DEF FilesInv, ControlInv
<1>1. CASE Keeps
  BY <1>0, <1>1 DEF Keeps, TypeDisk
<1>2. CASE Erases(p)
  BY <1>0, <1>2 DEF Erases, TypeDisk
<1>3. CASE GivesBack(p)
  BY <1>0, <1>3 DEF GivesBack, TypeDisk
<1>4. QED
  BY <1>0, <1>1, <1>2, <1>3, AddsTypes, DiskCases

-----------------------------------------------------------------------------
(* The sectors of files.                                                   *)
SectorsOf(L, DI) == UNION {{s} \cup DI[s] : s \in L}
Exclusive(L, DI, F, X) ==
    /\ \A s, t \in L : s # t => ({s} \cup DI[s]) \cap ({t} \cup DI[t]) = {}
    /\ \A s \in L : s \notin DI[s]
    /\ F = X \cup SectorsOf(L, DI)
    /\ X \cap SectorsOf(L, DI) = {}

LEMMA ExclusiveIs == SectorsHaveOneFile <=> Exclusive(LiveFile, diskInode, freeMap, lost)
BY DEF SectorsHaveOneFile, Exclusive, SectorsOf

LEMMA AddExclusive ==
    ASSUME NEW L \in SUBSET Sector, NEW DI \in [Sector -> SUBSET Sector], NEW F, NEW X,
           Exclusive(L, DI, F, X), NEW s \in Sector \ F, NEW D \in SUBSET (Sector \ F), s \notin D
    PROVE  Exclusive(L \cup {s}, [DI EXCEPT ![s] = D], F \cup {s} \cup D, X)
<1> DEFINE DJ == [DI EXCEPT ![s] = D]
<1>1. s \notin L
  BY DEF Exclusive, SectorsOf
<1>2. DJ[s] = D /\ \A t \in L : DJ[t] = DI[t]
  BY <1>1
<1>3. \A t \in L : ({t} \cup DI[t]) \subseteq F
  BY DEF Exclusive, SectorsOf
<1> HIDE DEF DJ
<1>4. \A t \in L : ({t} \cup DJ[t]) \cap ({s} \cup DJ[s]) = {}
  BY <1>2, <1>3
<1>5. \A t, u \in L \cup {s} : t # u => ({t} \cup DJ[t]) \cap ({u} \cup DJ[u]) = {}
  BY <1>2, <1>4 DEF Exclusive
<1>6. \A t \in L \cup {s} : t \notin DJ[t]
  BY <1>2 DEF Exclusive
<1>7. SectorsOf(L \cup {s}, DJ) = SectorsOf(L, DI) \cup {s} \cup D
  BY <1>2 DEF SectorsOf
<1>8. X \cap SectorsOf(L \cup {s}, DJ) = {} /\ F \cup {s} \cup D = X \cup SectorsOf(L \cup {s}, DJ)
  <2>1. PICK S : S = SectorsOf(L, DI)
    OBVIOUS
  <2>2. F = X \cup S /\ X \cap S = {} /\ SectorsOf(L \cup {s}, DJ) = S \cup {s} \cup D
    BY <1>7, <2>1 DEF Exclusive
  <2>3. X \cap (S \cup {s} \cup D) = {}
    BY <2>2
  <2>4. QED
    BY <2>2, <2>3
<1>9. Exclusive(L \cup {s}, DJ, F \cup {s} \cup D, X)
  BY <1>5, <1>6, <1>8 DEF Exclusive
<1>10. QED
  BY <1>9 DEF DJ

LEMMA LoseExclusive ==
    ASSUME NEW L, NEW DI, NEW F, NEW X, Exclusive(L, DI, F, X), NEW D, D \cap F = {}
    PROVE  Exclusive(L, DI, F \cup D, X \cup D)
BY DEF Exclusive

LEMMA FreeExclusive ==
    ASSUME NEW L \in SUBSET Sector, NEW DI \in [Sector -> SUBSET Sector], NEW F, NEW X,
           Exclusive(L, DI, F, X), NEW s \in L
    PROVE  Exclusive(L \ {s}, [DI EXCEPT ![s] = {}], F \ ({s} \cup DI[s]), X)
<1> DEFINE DJ == [DI EXCEPT ![s] = {}]
<1>1. \A t \in L \ {s} : DJ[t] = DI[t]
  OBVIOUS
<1> HIDE DEF DJ
<1>2. SectorsOf(L \ {s}, DJ) = SectorsOf(L, DI) \ ({s} \cup DI[s])
  <2>1. \A t \in L \ {s} : ({s} \cup DI[s]) \cap ({t} \cup DI[t]) = {}
    BY DEF Exclusive
  <2>2. \A x : x \in SectorsOf(L \ {s}, DJ) <=> \E t \in L \ {s} : x \in {t} \cup DI[t]
    BY <1>1 DEF SectorsOf
  <2>3. \A x : x \in SectorsOf(L, DI) <=> \E t \in L : x \in {t} \cup DI[t]
    BY DEF SectorsOf
  <2>4. QED
    BY <2>1, <2>2, <2>3
<1>3. F \ ({s} \cup DI[s]) = X \cup SectorsOf(L \ {s}, DJ) /\ X \cap SectorsOf(L \ {s}, DJ) = {}
  <2>1. {s} \cup DI[s] \subseteq SectorsOf(L, DI)
    BY DEF SectorsOf
  <2>2. QED
    BY <1>2, <2>1 DEF Exclusive
<1>4. Exclusive(L \ {s}, DJ, F \ ({s} \cup DI[s]), X)
  BY <1>1, <1>3 DEF Exclusive
<1>5. QED
  BY <1>4 DEF DJ

(* What the invariant says of the sector of a file, or of an inode.        *)
LEMMA SectorsInUse ==
    ASSUME FilesInv
    PROVE  /\ LiveFile \in SUBSET Sector
           /\ \A n \in Name : dirEntry[n] # None => dirEntry[n] \in LiveFile
           /\ \A i \in Inode : inode[i] # None => inode[i].sector \in LiveFile
           /\ LiveFile \subseteq freeMap
<1>0. TypeInode /\ TypeDisk /\ InodeLive /\ Exclusive(LiveFile, diskInode, freeMap, lost)
  BY TypeParts, ExclusiveIs DEF FilesInv, ControlInv, StorageIsExclusive
<1>1. \A i \in Inode : inode[i] # None => inode[i].sector \in Sector
  BY <1>0 DEF TypeInode, InMemory
<1>2. LiveFile \in SUBSET Sector
  BY <1>0, <1>1 DEF LiveFile, TypeInode, TypeDisk
<1>3. \A n \in Name : dirEntry[n] # None => dirEntry[n] \in LiveFile
  BY DEF LiveFile
<1>4. ASSUME NEW i \in Inode, inode[i] # None PROVE inode[i].sector \in LiveFile
  <2>1. CASE inode[i].removed
    BY <1>0, <1>4, <2>1 DEF LiveFile, TypeInode
  <2>2. CASE ~inode[i].removed
    <3>1. PICK n \in Name : dirEntry[n] = inode[i].sector
      BY <1>0, <1>4, <2>2 DEF InodeLive
    <3>2. QED
      BY <1>1, <1>3, <1>4, <3>1, NoneIsNothing
  <2>3. QED
    BY <2>1, <2>2
<1>5. LiveFile \subseteq freeMap
  BY <1>0 DEF Exclusive, SectorsOf
<1>6. QED
  BY <1>2, <1>3, <1>4, <1>5

(* What an inode in memory was before the step.                            *)
NewAt(p, j) ==
    /\ InodeOpen(p) /\ pc'[p] = "fill" /\ ino'[p] = j /\ inode[j] = None
    /\ dirEntry[arg[p]] \in Sector /\ inode'[j] = NewInode(dirEntry[arg[p]])
    /\ \A k \in openInodes : inode[k].sector # dirEntry[arg[p]]
SameFile(j) ==
    inode[j] # None /\ inode'[j].sector = inode[j].sector /\ inode'[j].removed = inode[j].removed
JustFilled(p, j) == InodeFill(p) /\ j = ino[p] /\ inode'[j].data = diskInode[inode[j].sector]
JustMarked(p, j) ==
    /\ EraseEntry(p) /\ j = ino[p] /\ inode[j] # None
    /\ inode'[j].sector = inode[j].sector /\ inode'[j].removed /\ inode'[j].data = inode[j].data

LEMMA InodeBefore ==
    ASSUME FilesInv, NEW p \in Proc, ByOne(p), NEW j \in Inode, inode'[j] # None
    PROVE  \/ NewAt(p, j) \/ JustMarked(p, j)
           \/ SameFile(j) /\ (inode'[j].data = inode[j].data \/ JustFilled(p, j))
<1>0. TypeInode /\ None \notin InMemory
  BY TypeParts, NoneIsNothing DEF FilesInv, ControlInv
<1>1. ASSUME NEW i, NEW r, Sets(i, r)
      PROVE  \/ j # i /\ inode'[j] = inode[j]
             \/ j = i /\ inode'[j] = r /\ inode[j] \in InMemory
  BY <1>0, <1>1 DEF Sets, TypeInode
<1>2. CASE Looks(p)
  BY <1>2 DEF Looks, SameInodes, SameFile
<1>3. CASE Makes(p)
  BY <1>0, <1>3 DEF Makes, NewAt, TypeInode, SameFile
<1>4. CASE CountsUp(p) \/ CountsDown(p)
  <2>1. PICK i, n : Sets(i, [inode[i] EXCEPT !.openCnt = n])
    BY <1>4 DEF CountsUp, CountsDown
  <2>2. \A x \in InMemory : /\ [x EXCEPT !.openCnt = n].sector = x.sector
                            /\ [x EXCEPT !.openCnt = n].removed = x.removed
                            /\ [x EXCEPT !.openCnt = n].data = x.data
    BY DEF InMemory
  <2>3. \/ j # i /\ inode'[j] = inode[j]
        \/ j = i /\ inode'[j] = [inode[i] EXCEPT !.openCnt = n] /\ inode[i] \in InMemory
    BY <1>1, <2>1
  <2>4. CASE j # i /\ inode'[j] = inode[j]
    BY <2>4 DEF SameFile
  <2>5. CASE j = i /\ inode'[j] = [inode[i] EXCEPT !.openCnt = n] /\ inode[i] \in InMemory
    <3>1. inode[j] # None
      BY <1>0, <2>5
    <3>2. QED
      BY <2>1, <2>2, <2>5, <3>1 DEF SameFile
  <2>6. QED
    BY <2>3, <2>4, <2>5
<1>5. CASE Denies(p) \/ Allows(p)
  <2>1. PICK i, n : Sets(i, [inode[i] EXCEPT !.denyWriteCnt = n])
    BY <1>5 DEF Denies, Allows
  <2>2. \A x \in InMemory : /\ [x EXCEPT !.denyWriteCnt = n].sector = x.sector
                            /\ [x EXCEPT !.denyWriteCnt = n].removed = x.removed
                            /\ [x EXCEPT !.denyWriteCnt = n].data = x.data
    BY DEF InMemory
  <2>3. \/ j # i /\ inode'[j] = inode[j]
        \/ j = i /\ inode'[j] = [inode[i] EXCEPT !.denyWriteCnt = n] /\ inode[i] \in InMemory
    BY <1>1, <2>1
  <2>4. CASE j # i /\ inode'[j] = inode[j]
    BY <2>4 DEF SameFile
  <2>5. CASE j = i /\ inode'[j] = [inode[i] EXCEPT !.denyWriteCnt = n] /\ inode[i] \in InMemory
    <3>1. inode[j] # None
      BY <1>0, <2>5
    <3>2. QED
      BY <2>1, <2>2, <2>5, <3>1 DEF SameFile
  <2>6. QED
    BY <2>3, <2>4, <2>5
<1>6. CASE Fills(p)
  <2>1. PICK i, D : /\ Sets(i, [inode[i] EXCEPT !.data = D]) /\ i = ino[p] /\ D = diskInode[inode[i].sector]
                    /\ InodeFill(p)
    BY <1>6 DEF Fills
  <2>2. \A x \in InMemory : /\ [x EXCEPT !.data = D].sector = x.sector
                            /\ [x EXCEPT !.data = D].removed = x.removed
                            /\ [x EXCEPT !.data = D].data = D
    BY DEF InMemory
  <2>3. \/ j # i /\ inode'[j] = inode[j]
        \/ j = i /\ inode'[j] = [inode[i] EXCEPT !.data = D] /\ inode[i] \in InMemory
    BY <1>1, <2>1
  <2>4. CASE j # i /\ inode'[j] = inode[j]
    BY <2>4 DEF SameFile
  <2>5. CASE j = i /\ inode'[j] = [inode[i] EXCEPT !.data = D] /\ inode[i] \in InMemory
    <3>1. inode[j] # None
      BY <1>0, <2>5
    <3>2. QED
      BY <2>1, <2>2, <2>5, <3>1 DEF SameFile, JustFilled
  <2>6. QED
    BY <2>3, <2>4, <2>5
<1>7. CASE Marks(p)
  <2>1. PICK i : Sets(i, [inode[i] EXCEPT !.removed = TRUE]) /\ i = ino[p] /\ EraseEntry(p)
    BY <1>7 DEF Marks
  <2>2. \A x \in InMemory : /\ [x EXCEPT !.removed = TRUE].sector = x.sector
                            /\ [x EXCEPT !.removed = TRUE].removed
                            /\ [x EXCEPT !.removed = TRUE].data = x.data
    BY DEF InMemory
  <2>3. \/ j # i /\ inode'[j] = inode[j]
        \/ j = i /\ inode'[j] = [inode[i] EXCEPT !.removed = TRUE] /\ inode[i] \in InMemory
    BY <1>1, <2>1
  <2>4. CASE j # i /\ inode'[j] = inode[j]
    BY <2>4 DEF SameFile
  <2>5. CASE j = i /\ inode'[j] = [inode[i] EXCEPT !.removed = TRUE] /\ inode[i] \in InMemory
    <3>1. inode[j] # None
      BY <1>0, <2>5
    <3>2. QED
      BY <2>1, <2>2, <2>5, <3>1 DEF SameFile, JustMarked
  <2>6. QED
    BY <2>3, <2>4, <2>5
<1>8. CASE Frees(p)
  BY <1>0, <1>8 DEF Frees, TypeInode, SameFile
<1>9. QED
  BY <1>2, <1>3, <1>4, <1>5, <1>6, <1>7, <1>8, InodeCases

(* The sector of an inode that is still in memory keeps its index.         *)
LEMMA IndexStays ==
    ASSUME FilesInv, NEW p \in Proc, ByOne(p), NEW j \in Inode, inode[j] # None, inode'[j] # None
    PROVE  diskInode'[inode[j].sector] = diskInode[inode[j].sector]
<1>0. TypeInode /\ TypeDisk /\ inode[j].sector \in freeMap /\ inode[j].sector \in Sector
  BY TypeParts, SectorsInUse DEF FilesInv, ControlInv, TypeInode, InMemory
<1>1. CASE Keeps \/ Erases(p)
  BY <1>1 DEF Keeps, Erases
<1>2. CASE \E n \in Name : \E s, D : AddsFile(n, s, D)
  BY <1>0, <1>2 DEF AddsFile, TypeDisk
<1>3. CASE \E D : LosesSectors(D)
  BY <1>3 DEF LosesSectors
<1>4. CASE GivesBack(p)
  <2>1. ino[p] \in Inode /\ inode[ino[p]] \in InMemory /\ inode'[ino[p]] = None
    BY <1>0, <1>4 DEF GivesBack, Frees, TypeInode
  <2>2. inode[ino[p]].sector # inode[j].sector
    BY <1>0, <2>1, NoneIsNothing DEF FilesInv, StorageIsExclusive, OneInodePerSector, TypeInode
  <2>3. QED
    BY <1>0, <1>4, <2>2 DEF GivesBack, TypeDisk
<1>5. QED
  BY <1>1, <1>2, <1>3, <1>4, DiskCases

(* How p comes to the stages in which it has an inode to open.             *)
LEMMA OpeningFrom ==
    ASSUME ControlInv, NEW p \in Proc, ByOne(p), pc'[p] \in {"found", "fill", "opened"}
    PROVE  /\ arg'[p] = arg[p]
           /\ \/ InodeOpen(p) /\ pc'[p] # "opened"
              \/ /\ InodeReopen(p) \/ InodeFill(p)
                 /\ ino'[p] = ino[p] /\ pc[p] \in {"found", "fill"} /\ pc'[p] = "opened"
<1>0. TypeControl
  BY TypeParts DEF ControlInv
<1> USE <1>0 DEF TypeControl, Goto, Return
<1>1. CASE OpenStep(p)
  <2>1. ASSUME OpenFails(p) PROVE FALSE
    <3>1. pc' = [pc EXCEPT ![p] = "exit"] \/ pc' = [pc EXCEPT ![p] = "idle"]
      BY <2>1 DEF OpenFails
    <3>2. QED
      BY <3>1
  <2>2. CASE InodeOpen(p)
    BY <2>1, <2>2 DEF InodeOpen, OpenNew
  <2>3. CASE InodeReopen(p) \/ InodeFill(p)
    BY <2>3 DEF InodeReopen, InodeFill
  <2>4. CASE FdAcquire(p) \/ DenyWrite(p) \/ EraseEntry(p) \/ LoadDone(p)
    BY <2>4 DEF FdAcquire, DenyWrite, EraseEntry, LoadDone
  <2>5. QED
    BY <1>1, <2>2, <2>3, <2>4 DEF OpenStep
<1>2. CASE CloseStep(p)
  BY <1>2 DEF CloseStep, InodeClose, InodeFree, Closed, HandleClose, ProcessExit, FdProcessExit
<1>3. CASE Call(p)
  BY <1>3 DEF Call, OpenBy, Create, CloseCheck, HandleWrite, callVars
<1>4. QED
  BY <1>1, <1>2, <1>3 DEF ByOne

LEMMA FillingFills ==
    ASSUME ControlInv, NEW p \in Proc, ByOne(p), pc[p] = "fill"
    PROVE  InodeFill(p)
BY DEF ByOne, OpenStep, CloseStep, Call, InodeOpen, InodeReopen, FdAcquire, DenyWrite, EraseEntry, LoadDone,
   InodeClose, InodeFree, HandleClose, ProcessExit, FdProcessExit, OpenBy, Create, CloseCheck, HandleWrite

LEMMA FilledNext ==
    ASSUME FilesInv, NEW p \in Proc, ByOne(p)
    PROVE  Filled'
<1>0. TypeInode /\ TypeDisk /\ Filled /\ ControlInv /\ OthersStay(p)
  BY TypeParts, StepOthersStay DEF FilesInv, ControlInv, ByOne
<1> SUFFICES ASSUME NEW j \in Inode, inode'[j] # None
             PROVE  \/ inode'[j].data = diskInode'[inode'[j].sector]
                    \/ inode'[j].data = {} /\ \E q \in Proc : pc'[q] = "fill" /\ ino'[q] = j
  BY DEF Filled
<1>1. CASE NewAt(p, j)
  BY <1>1 DEF NewAt, NewInode
<1>2. ASSUME inode[j] # None, inode'[j].sector = inode[j].sector, inode'[j].data = inode[j].data
      PROVE  \/ inode'[j].data = diskInode'[inode'[j].sector]
             \/ inode'[j].data = {} /\ \E q \in Proc : pc'[q] = "fill" /\ ino'[q] = j
  <2>1. CASE inode[j].data = diskInode[inode[j].sector]
    BY <1>2, <2>1, IndexStays
  <2>2. ASSUME NEW q \in Proc, pc[q] = "fill", ino[q] = j, inode[j].data = {}
        PROVE  \/ inode'[j].data = diskInode'[inode'[j].sector]
               \/ inode'[j].data = {} /\ \E r \in Proc : pc'[r] = "fill" /\ ino'[r] = j
    <3>1. CASE q # p
      BY <1>0, <1>2, <2>2, <3>1 DEF OthersStay
    <3>2. CASE q = p
      <4>1. InodeFill(p)
        BY <1>0, <2>2, <3>2, FillingFills
      <4>2. inode[j] \in InMemory
        BY <1>0, <1>2 DEF TypeInode
      <4>3. inode'[j].data = diskInode[inode[j].sector] /\ diskInode' = diskInode
        BY <1>0, <2>2, <3>2, <4>1, <4>2 DEF InodeFill, diskVars, TypeInode, InMemory
      <4>4. QED
        BY <1>2, <4>3
    <3>3. QED
      BY <3>1, <3>2
  <2>3. QED
    BY <1>0, <1>2, <2>1, <2>2 DEF Filled
<1>3. CASE SameFile(j) /\ JustFilled(p, j)
  BY <1>3 DEF SameFile, JustFilled, InodeFill, diskVars
<1>4. QED
  BY <1>1, <1>2, <1>3, InodeBefore DEF SameFile, JustMarked

LEMMA FillAloneNext ==
    ASSUME FilesInv, NEW p \in Proc, ByOne(p)
    PROVE  FillAlone'
<1>0. /\ TypeInode /\ TypeFd /\ FillAlone /\ ControlInv /\ OthersStay(p) /\ AllInMemory /\ ~freedInUse
      /\ LockOK /\ StageOK /\ TypeControl /\ None \notin Inode
  BY TypeParts, StepOthersStay, NoneIsNothing DEF FilesInv, ControlInv, ByOne
<1> SUFFICES ASSUME NEW q \in Proc, pc'[q] = "fill"
             PROVE  /\ \A r \in Proc : (ino'[r] = ino'[q] => r = q) /\ self'[r] # ino'[q]
                    /\ \A f \in Fd : fd'[f] # None => fd'[f].inode # ino'[q]
  BY DEF FillAlone
<1>1. CASE q = p
  <2>1. InodeOpen(p)
    BY <1>0, <1>1, OpeningFrom
  <2>2. PICK i \in Inode : inode[i] = None /\ ino'[p] = i
    BY <1>1, <2>1, OpenMakes DEF Makes
  <2>3. UNCHANGED <<self, fd>>
    BY <2>1 DEF InodeOpen, fdVars
  <2>4. /\ \A r \in Proc : ino[r] # i /\ self[r] # i
        /\ \A f \in Fd : fd[f] # None => fd[f].inode # i
    BY <1>0, <2>2 DEF AllInMemory
  <2>5. QED
    BY <1>0, <1>1, <2>2, <2>3, <2>4 DEF OthersStay
<1>2. CASE q # p
  <2>1. PICK i \in Inode : i = ino[q] /\ ino'[q] = i /\ pc[q] = "fill"
    BY <1>0, <1>2 DEF OthersStay, StageOK, StageOf, TypeControl, Opening
  <2>2. /\ \A r \in Proc : (ino[r] = i => r = q) /\ self[r] # i
        /\ \A f \in Fd : fd[f] # None => fd[f].inode # i
    BY <1>0, <2>1 DEF FillAlone
  <2>3. ~Opening(p)
    BY <1>0, <1>2, <2>1, OneWorks DEF Working, Opening
  <2>4. ino'[p] # i
    <3>1. CASE ino'[p] = ino[p]
      BY <1>2, <2>2, <3>1
    <3>2. CASE ino'[p] # ino[p]
      <4>1. ~InodeOpen(p)
        BY <2>3 DEF InodeOpen, Opening
      <4>2. QED
        BY <1>0, <2>2, <3>2, <4>1, InoComesFrom
    <3>3. QED
      BY <3>1, <3>2
  <2>5. self'[p] # i
    BY <1>0, <2>2, <2>3, SelfComesFrom DEF Opening
  <2>6. \A f \in Fd : fd'[f] # None => fd'[f].inode # i
    BY <1>0, <2>2, <2>3, FdComesFrom DEF Opening
  <2>7. QED
    BY <1>0, <2>1, <2>2, <2>4, <2>5, <2>6 DEF OthersStay
<1>3. QED
  BY <1>1, <1>2

LEMMA SectorFoundNext ==
    ASSUME FilesInv, NEW p \in Proc, ByOne(p), AllInMemory', ~freedInUse'
    PROVE  SectorFound'
<1>0. /\ TypeInode /\ TypeDisk /\ SectorFound /\ ControlInv /\ OthersStay(p) /\ AllInMemory /\ ~freedInUse
      /\ LockOK /\ StageOK /\ TypeControl /\ None \notin Inode /\ None \notin Sector /\ None \notin InMemory
      /\ InodeLive
  BY TypeParts, StepOthersStay, NoneIsNothing DEF FilesInv, ControlInv, ByOne
<1>a. ASSUME NEW q \in Proc, pc[q] \in {"found", "fill", "opened"}
      PROVE  /\ dirEntry[arg[q]] # None /\ inode[ino[q]].sector = dirEntry[arg[q]]
             /\ ~inode[ino[q]].removed /\ ino[q] \in Inode /\ inode[ino[q]] # None /\ arg[q] \in Name
  BY <1>0, <1>a DEF SectorFound, AllInMemory, StageOK, StageOf, Opening, TypeControl
(* The entry and the inode stay, unless p is the one that erases.          *)
<1>b. ASSUME NEW q \in Proc, pc[q] \in {"found", "fill", "opened"}, ~EraseEntry(p), inode'[ino[q]] # None
      PROVE  /\ dirEntry'[arg[q]] = dirEntry[arg[q]]
             /\ inode'[ino[q]].sector = dirEntry[arg[q]] /\ ~inode'[ino[q]].removed
  <2>1. dirEntry'[arg[q]] = dirEntry[arg[q]]
    BY <1>0, <1>a, <1>b, DiskCases DEF Keeps, Erases, Marks, GivesBack, AddsFile, LosesSectors, TypeDisk
  <2>2. SameFile(ino[q])
    BY <1>a, <1>b, InodeBefore DEF NewAt, JustMarked
  <2>3. QED
    BY <1>a, <1>b, <2>1, <2>2 DEF SameFile
<1> SUFFICES ASSUME NEW q \in Proc, pc'[q] \in {"found", "fill", "opened"}
             PROVE  /\ dirEntry'[arg'[q]] # None /\ inode'[ino'[q]].sector = dirEntry'[arg'[q]]
                    /\ ~inode'[ino'[q]].removed
  BY DEF SectorFound
<1>1. CASE q # p
  <2>1. pc[q] = pc'[q] /\ ino'[q] = ino[q] /\ arg'[q] = arg[q]
    BY <1>0, <1>1 DEF OthersStay
  <2>2. ~EraseEntry(p)
    BY <1>0, <1>1, <2>1, OneWorks DEF EraseEntry, Working, Opening
  <2>3. inode'[ino[q]] # None
    BY <1>0, <1>a, <2>1 DEF AllInMemory
  <2>4. QED
    BY <1>a, <1>b, <2>1, <2>2, <2>3
<1>2. CASE q = p /\ ~InodeOpen(p)
  <2>1. /\ InodeReopen(p) \/ InodeFill(p)
        /\ ino'[p] = ino[p] /\ arg'[p] = arg[p] /\ pc[p] \in {"found", "fill"}
    BY <1>0, <1>2, OpeningFrom
  <2>2. ~EraseEntry(p)
    BY <2>1 DEF EraseEntry
  <2>3. inode'[ino[p]] # None
    BY <1>0, <1>a, <2>1 DEF AllInMemory
  <2>4. QED
    BY <1>2, <1>a, <1>b, <2>1, <2>2, <2>3
<1>3. CASE q = p /\ InodeOpen(p)
  <2>1. arg'[p] = arg[p] /\ pc'[p] \in {"found", "fill"} /\ dirEntry' = dirEntry
    BY <1>0, <1>3, OpeningFrom DEF InodeOpen, diskVars
  <2>2. ino[p] = None /\ arg[p] \in Name
    BY <1>0, <1>3 DEF InodeOpen, StageOK, StageOf, Opening
  <2>3. CASE pc'[p] = "fill"
    <3>1. PICK i \in Inode : /\ dirEntry[arg[p]] \in Sector /\ ino'[p] = i
                             /\ inode' = [inode EXCEPT ![i] = NewInode(dirEntry[arg[p]])]
      BY <1>3, <2>3, OpenMakes DEF Makes
    <3>2. inode'[i].sector = dirEntry[arg[p]] /\ ~inode'[i].removed
      BY <1>0, <3>1 DEF TypeInode, NewInode
    <3>3. QED
      BY <1>0, <1>3, <2>1, <3>1, <3>2
  <2>4. CASE pc'[p] = "found"
    <3>1. ino'[p] # None
      BY <1>0, <1>3, <2>4 DEF InodeOpen, OpenFails, OpenNew, Return, Goto, TypeControl, TypeInode
    <3>2. ino'[p] \in openInodes /\ inode[ino'[p]].sector = dirEntry[arg[p]] /\ SameInodes
      BY <1>0, <1>3, <2>2, <2>4, <3>1, InoComesFrom DEF InodeOpen, HandleClose, ProcessExit, FdProcessExit
    <3>3. PICK i \in Inode : i = ino'[p] /\ inode[i] \in InMemory /\ inode' = inode
      BY <1>0, <3>2 DEF TypeInode, SameInodes
    <3>4. dirEntry[arg[p]] \in Sector
      BY <3>2, <3>3 DEF InMemory
    <3>5. ~inode[i].removed
      BY <1>0, <2>2, <3>2, <3>3 DEF InodeLive
    <3>6. QED
      BY <1>0, <1>3, <2>1, <3>2, <3>3, <3>4, <3>5
  <2>5. QED
    BY <2>1, <2>3, <2>4
<1>4. QED
  BY <1>1, <1>2, <1>3

(* The files there are: those with a name, and those removed but open.     *)
HasName(s) == \E n \in Name : dirEntry[n] = s /\ s # None
OpenRemoved(s) == \E i \in Inode : inode[i] # None /\ inode[i].removed /\ inode[i].sector = s

LEMMA LiveFileIs ==
    ASSUME TypeInode
    PROVE  \A s : s \in LiveFile <=> HasName(s) \/ OpenRemoved(s)
BY DEF LiveFile, HasName, OpenRemoved, TypeInode

LEMMA LiveFileNext ==
    ASSUME TypeInode'
    PROVE  \A s : s \in LiveFile' <=> HasName(s)' \/ OpenRemoved(s)'
BY DEF LiveFile, HasName, OpenRemoved, TypeInode

LEMMA AddsKeep ==
    ASSUME FilesInv, Elsewhere, NEW n \in Name, NEW s, NEW D, AddsFile(n, s, D)
    PROVE  InjectiveDir' /\ InodeLive' /\ StorageIsExclusive'
<1>0. /\ TypeInode /\ TypeDisk /\ TypeInode' /\ None \notin Sector /\ InjectiveDir /\ InodeLive
      /\ OneInodePerSector /\ Exclusive(LiveFile, diskInode, freeMap, lost)
  BY TypeParts, NoneIsNothing, ExclusiveIs
     DEF FilesInv, ControlInv, Elsewhere, TypeInode, StorageIsExclusive
<1>1. /\ dirEntry'[n] = s /\ \A m \in Name : m # n => dirEntry'[m] = dirEntry[m]
      /\ s \notin freeMap /\ s \in Sector
  BY <1>0 DEF AddsFile, TypeDisk
<1>2. /\ \A m \in Name : dirEntry[m] # s
      /\ \A i \in Inode : inode[i] # None => inode[i].sector # s
  BY <1>0, <1>1, SectorsInUse
<1>3. InjectiveDir'
  BY <1>0, <1>1, <1>2 DEF InjectiveDir
<1>4. InodeLive'
  <2>1. ASSUME NEW i \in Inode, inode'[i] # None
        PROVE  IF inode'[i].removed THEN \A m \in Name : dirEntry'[m] # inode'[i].sector
               ELSE \E m \in Name : dirEntry'[m] = inode'[i].sector
    <3>1. inode'[i] = inode[i]
      BY DEF Elsewhere
    <3>2. CASE inode[i].removed
      BY <1>0, <1>1, <1>2, <2>1, <3>1, <3>2 DEF InodeLive
    <3>3. CASE ~inode[i].removed
      <4>1. PICK m \in Name : dirEntry[m] = inode[i].sector
        BY <1>0, <2>1, <3>1, <3>3 DEF InodeLive
      <4>2. inode[i].sector \in Sector
        BY <1>0, <2>1, <3>1 DEF TypeInode, InMemory
      <4>3. m # n
        BY <1>0, <4>1, <4>2 DEF AddsFile
      <4>4. QED
        BY <1>1, <3>1, <3>3, <4>1, <4>3
    <3>4. QED
      BY <3>2, <3>3
  <2>2. QED
    BY <2>1 DEF InodeLive
<1>5. LiveFile' = LiveFile \cup {s}
  <2>1. \A t : OpenRemoved(t)' <=> OpenRemoved(t)
    BY DEF Elsewhere, OpenRemoved
  <2>2. \A t : HasName(t)' <=> HasName(t) \/ t = s
    BY <1>0, <1>1, NoneIsNothing DEF HasName, AddsFile
  <2>3. QED
    BY <1>0, <2>1, <2>2, LiveFileIs, LiveFileNext
<1>6. Exclusive(LiveFile \cup {s}, [diskInode EXCEPT ![s] = D], freeMap \cup {s} \cup D, lost)
  <2>1. /\ LiveFile \in SUBSET Sector /\ diskInode \in [Sector -> SUBSET Sector]
        /\ s \in Sector \ freeMap /\ D \in SUBSET (Sector \ freeMap) /\ s \notin D
    BY <1>0, SectorsInUse DEF AddsFile, TypeDisk
  <2>2. QED
    BY <1>0, <2>1, AddExclusive
<1>7. SectorsHaveOneFile'
  <2>1. /\ diskInode' = [diskInode EXCEPT ![s] = D] /\ freeMap' = freeMap \cup {s} \cup D
        /\ lost' = lost
    BY DEF AddsFile
  <2>2. PICK L, DI, F, X : L = LiveFile' /\ DI = diskInode' /\ F = freeMap' /\ X = lost'
    OBVIOUS
  <2>3. Exclusive(L, DI, F, X)
    BY <1>5, <1>6, <2>1, <2>2
  <2>4. QED
    BY <2>2, <2>3 DEF SectorsHaveOneFile, Exclusive, SectorsOf
<1>8. OneInodePerSector'
  BY <1>0 DEF Elsewhere, OneInodePerSector
<1>9. QED
  BY <1>3, <1>4, <1>7, <1>8 DEF StorageIsExclusive

LEMMA ExclusiveNext ==
    ASSUME Exclusive(LiveFile', diskInode', freeMap', lost')
    PROVE  SectorsHaveOneFile'
BY DEF SectorsHaveOneFile, Exclusive, SectorsOf

LEMMA LosesKeep ==
    ASSUME FilesInv, Elsewhere, NEW D, LosesSectors(D)
    PROVE  InjectiveDir' /\ InodeLive' /\ StorageIsExclusive'
<1>1. InjectiveDir' /\ InodeLive' /\ OneInodePerSector' /\ LiveFile' = LiveFile
  BY DEF FilesInv, Elsewhere, LosesSectors, InjectiveDir, InodeLive, StorageIsExclusive, OneInodePerSector, LiveFile
<1>2. Exclusive(LiveFile, diskInode, freeMap, lost) /\ D \cap freeMap = {}
  BY ExclusiveIs DEF FilesInv, StorageIsExclusive, LosesSectors
<1>3. Exclusive(LiveFile, diskInode, freeMap \cup D, lost \cup D)
  BY <1>2, LoseExclusive
<1>4. Exclusive(LiveFile', diskInode', freeMap', lost')
  BY <1>1, <1>3 DEF LosesSectors
<1>5. QED
  BY <1>1, <1>4, ExclusiveNext DEF StorageIsExclusive

(* The directory and the inodes after the other steps.                     *)
LEMMA ErasedAt ==
    ASSUME FilesInv, NEW p \in Proc, ByOne(p), Erases(p)
    PROVE  /\ ino[p] \in Inode /\ inode[ino[p]] # None /\ arg[p] \in Name
           /\ inode[ino[p]].sector = dirEntry[arg[p]] /\ dirEntry[arg[p]] \in Sector
           /\ ~inode[ino[p]].removed
           /\ inode'[ino[p]] # None /\ inode'[ino[p]].sector = inode[ino[p]].sector
           /\ inode'[ino[p]].removed
           /\ \A j \in Inode : j # ino[p] => inode'[j] = inode[j]
           /\ dirEntry'[arg[p]] = None /\ \A n \in Name : n # arg[p] => dirEntry'[n] = dirEntry[n]
<1>0. /\ TypeInode /\ TypeDisk /\ SectorFound /\ ~freedInUse /\ EraseEntry(p) /\ arg[p] \in Name
      /\ Sets(ino[p], [inode[ino[p]] EXCEPT !.removed = TRUE])
  BY TypeParts DEF FilesInv, ControlInv, ByOne, Erases, Marks
<1>1. ino[p] \in Inode /\ inode[ino[p]] \in InMemory /\ inode[ino[p]] # None
  BY <1>0, NoneIsNothing DEF Sets
<1>2. inode[ino[p]].sector = dirEntry[arg[p]] /\ ~inode[ino[p]].removed
  BY <1>0 DEF SectorFound, EraseEntry
<1>3. inode[ino[p]].sector \in Sector
  BY <1>1 DEF InMemory
<1>4. /\ inode'[ino[p]] # None /\ inode'[ino[p]].sector = inode[ino[p]].sector
      /\ inode'[ino[p]].removed
      /\ \A j \in Inode : j # ino[p] => inode'[j] = inode[j]
  BY <1>0, <1>1, NoneIsNothing DEF Sets, TypeInode, InMemory
<1>5. dirEntry'[arg[p]] = None /\ \A n \in Name : n # arg[p] => dirEntry'[n] = dirEntry[n]
  BY <1>0 DEF Erases, TypeDisk
<1>6. QED
  BY <1>0, <1>1, <1>2, <1>3, <1>4, <1>5

LEMMA InjectiveDirNext ==
    ASSUME FilesInv, NEW p \in Proc, ByOne(p)
    PROVE  InjectiveDir'
<1>0. InjectiveDir
  BY DEF FilesInv
<1>1. CASE Keeps \/ GivesBack(p)
  BY <1>0, <1>1 DEF Keeps, GivesBack, InjectiveDir
<1>2. CASE Erases(p)
  BY <1>0, <1>2, ErasedAt DEF InjectiveDir
<1>3. QED
  BY <1>1, <1>2, AddsKeep, LosesKeep, DiskCases

LEMMA EraseIsAlone ==
    ASSUME FilesInv, NEW p \in Proc, ByOne(p), EraseEntry(p)
    PROVE  Erases(p) /\ ~Keeps /\ ~GivesBack(p) /\ ~Elsewhere
<1>0. TypeControl
  BY TypeParts DEF FilesInv, ControlInv
<1>1. pc[p] = "opened" /\ pc'[p] = "close"
  BY <1>0 DEF EraseEntry, Goto, TypeControl
<1>2. ~Elsewhere /\ ~GivesBack(p)
  BY <1>1 DEF Elsewhere, callVars, GivesBack, Frees, InodeFree
<1>3. Erases(p)
  BY <1>2, DiskCases
<1>4. dirEntry'[arg[p]] # dirEntry[arg[p]]
  BY <1>3, ErasedAt, NoneIsNothing
<1>5. QED
  BY <1>2, <1>3, <1>4 DEF Keeps

LEMMA InodeLiveNext ==
    ASSUME FilesInv, NEW p \in Proc, ByOne(p)
    PROVE  InodeLive'
<1>0. TypeInode /\ TypeDisk /\ InodeLive /\ InjectiveDir /\ OneInodePerSector /\ StageOK
  BY TypeParts DEF FilesInv, ControlInv, StorageIsExclusive
<1>1. CASE Elsewhere
  <2>1. CASE Keeps
    BY <1>0, <1>1, <2>1 DEF Elsewhere, Keeps, InodeLive
  <2>2. CASE GivesBack(p)
    BY <1>0, <1>1, <2>2 DEF Elsewhere, GivesBack, InodeLive
  <2>3. CASE Erases(p)
    BY <1>1, <2>3, EraseIsAlone DEF Erases, Marks
  <2>4. QED
    BY <1>1, <2>1, <2>2, <2>3, AddsKeep, LosesKeep, DiskCases
<1>2. CASE Erases(p)
  <2>1. ASSUME NEW j \in Inode, inode'[j] # None
        PROVE  IF inode'[j].removed THEN \A n \in Name : dirEntry'[n] # inode'[j].sector
               ELSE \E n \in Name : dirEntry'[n] = inode'[j].sector
    <3>1. CASE j = ino[p]
      BY <1>0, <1>2, <3>1, ErasedAt, NoneIsNothing DEF InjectiveDir
    <3>2. CASE j # ino[p]
      <4>1. inode'[j] = inode[j] /\ inode[j] # None /\ inode[j].sector \in Sector
        BY <1>0, <1>2, <2>1, <3>2, ErasedAt DEF TypeInode, InMemory
      <4>2. inode[j].sector # dirEntry[arg[p]]
        BY <1>0, <1>2, <3>2, <4>1, ErasedAt DEF OneInodePerSector, TypeInode
      <4>3. QED
        BY <1>0, <1>2, <4>1, <4>2, ErasedAt, NoneIsNothing DEF InodeLive
    <3>3. QED
      BY <3>1, <3>2
  <2>2. QED
    BY <2>1 DEF InodeLive
<1>3. CASE Keeps \/ GivesBack(p)
  <2>1. ASSUME NEW j \in Inode, inode'[j] # None
        PROVE  IF inode'[j].removed THEN \A n \in Name : dirEntry'[n] # inode'[j].sector
               ELSE \E n \in Name : dirEntry'[n] = inode'[j].sector
    <3>1. dirEntry' = dirEntry
      BY <1>3 DEF Keeps, GivesBack
    <3>2. CASE NewAt(p, j)
      <4>1. arg[p] \in Name
        BY <1>0, <3>2 DEF NewAt, InodeOpen, StageOK, StageOf, Opening
      <4>2. QED
        BY <3>1, <3>2, <4>1 DEF NewAt, NewInode
    <3>3. CASE SameFile(j)
      BY <1>0, <3>1, <3>3 DEF SameFile, InodeLive
    <3>4. ~JustMarked(p, j)
      BY <1>3, EraseIsAlone DEF JustMarked
    <3>5. QED
      BY <2>1, <3>2, <3>3, <3>4, InodeBefore
  <2>2. QED
    BY <2>1 DEF InodeLive
<1>4. QED
  BY <1>1, <1>2, <1>3, DiskCases

LEMMA OnePerSectorNext ==
    ASSUME FilesInv, NEW p \in Proc, ByOne(p)
    PROVE  OneInodePerSector'
<1>0. TypeInode /\ TypeInode' /\ OneInodePerSector
  BY TypeParts, TypeInodeNext DEF FilesInv, ControlInv, StorageIsExclusive
<1>1. ASSUME NEW j \in Inode, inode'[j] # None
      PROVE  NewAt(p, j) \/ (inode[j] # None /\ inode'[j].sector = inode[j].sector)
  BY <1>1, InodeBefore DEF SameFile, JustMarked
<1>2. ASSUME NEW j \in Inode, NewAt(p, j), NEW k \in Inode, inode'[k] # None, j # k
      PROVE  inode'[j].sector # inode'[k].sector
  BY <1>0, <1>1, <1>2 DEF NewAt, NewInode, TypeInode
<1>3. QED
  BY <1>0, <1>1, <1>2 DEF OneInodePerSector, TypeInode

LEMMA SectorsNext ==
    ASSUME FilesInv, NEW p \in Proc, ByOne(p)
    PROVE  SectorsHaveOneFile'
<1>0. /\ TypeInode /\ TypeInode' /\ TypeDisk /\ InodeLive /\ InjectiveDir /\ OneInodePerSector
      /\ Exclusive(LiveFile, diskInode, freeMap, lost)
  BY TypeParts, TypeInodeNext, ExclusiveIs DEF FilesInv, ControlInv, StorageIsExclusive
<1>1. CASE Keeps
  <2>1. \A s : HasName(s)' <=> HasName(s)
    BY <1>1 DEF Keeps, HasName
  <2>2. ASSUME NEW s, OpenRemoved(s)' PROVE OpenRemoved(s)
    <3>1. PICK j \in Inode : inode'[j] # None /\ inode'[j].removed /\ inode'[j].sector = s
      BY <2>2 DEF OpenRemoved
    <3>2. ~JustMarked(p, j)
      BY <1>1, EraseIsAlone DEF JustMarked
    <3>3. ~NewAt(p, j)
      BY <3>1 DEF NewAt, NewInode
    <3>4. SameFile(j)
      BY <3>1, <3>2, <3>3, InodeBefore
    <3>5. QED
      BY <3>1, <3>4 DEF SameFile, OpenRemoved
  <2>3. ASSUME NEW s, OpenRemoved(s) PROVE OpenRemoved(s)'
    <3>1. PICK j \in Inode : inode[j] # None /\ inode[j].removed /\ inode[j].sector = s
      BY <2>3 DEF OpenRemoved
    <3>2. CASE inode'[j] = None
      <4>1. Frees(p) /\ j = ino[p]
        BY <3>1, <3>2, MemoryNext
      <4>2. ~GivesBack(p) /\ ~Erases(p) /\ ~Elsewhere
        <5>1. inode[j].sector \in freeMap
          BY <3>1, SectorsInUse
        <5>2. ~GivesBack(p)
          BY <1>1, <4>1, <5>1 DEF GivesBack, Keeps
        <5>3. ~Erases(p)
          BY <1>1, EraseIsAlone DEF Erases, Marks
        <5>4. ~Elsewhere
          BY <3>1, <3>2 DEF Elsewhere
        <5>5. QED
          BY <5>2, <5>3, <5>4
      <4>3. ~inode[ino[p]].removed
        BY <4>1, <4>2, DiskCases
      <4>4. QED
        BY <3>1, <4>1, <4>3
    <3>3. CASE inode'[j] # None
      <4>1. ~NewAt(p, j) /\ ~JustMarked(p, j)
        BY <1>1, <3>1, EraseIsAlone DEF NewAt, JustMarked
      <4>2. SameFile(j)
        BY <3>3, <4>1, InodeBefore
      <4>3. QED
        BY <3>1, <3>3, <4>2 DEF SameFile, OpenRemoved
    <3>4. QED
      BY <3>2, <3>3
  <2>4. LiveFile' = LiveFile
    BY <1>0, <2>1, <2>2, <2>3, LiveFileIs, LiveFileNext
  <2>5. Exclusive(LiveFile', diskInode', freeMap', lost')
    BY <1>0, <1>1, <2>4 DEF Keeps
  <2>6. QED
    BY <2>5, ExclusiveNext
<1>2. CASE Erases(p)
  <2>1. PICK e \in Sector : /\ dirEntry[arg[p]] = e /\ inode[ino[p]].sector = e /\ inode'[ino[p]].sector = e
    BY <1>2, ErasedAt
  <2>2. \A s : HasName(s) <=> HasName(s)' \/ s = e
    BY <1>2, <2>1, ErasedAt, NoneIsNothing DEF HasName
  <2>3. \A s : OpenRemoved(s)' <=> OpenRemoved(s) \/ s = e
    BY <1>2, <2>1, ErasedAt DEF OpenRemoved
  <2>4. LiveFile' = LiveFile
    BY <1>0, <2>2, <2>3, LiveFileIs, LiveFileNext
  <2>5. Exclusive(LiveFile', diskInode', freeMap', lost')
    BY <1>0, <1>2, <2>4 DEF Erases
  <2>6. QED
    BY <2>5, ExclusiveNext
<1>3. CASE GivesBack(p)
  <2>1. PICK i \in Inode : /\ i = ino[p] /\ inode[i] \in InMemory /\ inode[i].removed
                           /\ inode'[i] = None /\ \A j \in Inode : j # i => inode'[j] = inode[j]
                           /\ pc[p] = "last"
    BY <1>0, <1>3 DEF GivesBack, Frees, TypeInode, InodeFree
  <2>2. PICK e \in Sector : inode[i].sector = e
    BY <2>1 DEF InMemory
  <2>3. inode[i] # None /\ e # None
    BY <2>1, NoneIsNothing
  <2>4. inode[i].data = diskInode[e]
    <3>1. ASSUME NEW q \in Proc, pc[q] = "fill", ino[q] = i PROVE FALSE
      <4>1. q = p
        BY <2>1, <3>1 DEF FilesInv, FillAlone
      <4>2. QED
        BY <2>1, <3>1, <4>1
    <3>2. QED
      BY <2>2, <2>3, <3>1 DEF FilesInv, Filled
  <2>5. \A s : HasName(s)' <=> HasName(s) /\ s # e
    BY <1>0, <1>3, <2>1, <2>2, <2>3 DEF GivesBack, HasName, InodeLive
  <2>6. \A s : OpenRemoved(s)' <=> OpenRemoved(s) /\ s # e
    BY <1>0, <2>1, <2>2, <2>3 DEF OpenRemoved, OneInodePerSector, TypeInode
  <2>7. LiveFile' = LiveFile \ {e}
    BY <1>0, <2>5, <2>6, LiveFileIs, LiveFileNext
  <2>8. e \in LiveFile /\ LiveFile \in SUBSET Sector
    BY <2>2, <2>3, SectorsInUse
  <2>9. Exclusive(LiveFile \ {e}, [diskInode EXCEPT ![e] = {}], freeMap \ ({e} \cup diskInode[e]), lost)
    BY <1>0, <2>8, FreeExclusive DEF TypeDisk
  <2>10. /\ diskInode' = [diskInode EXCEPT ![e] = {}] /\ freeMap' = freeMap \ ({e} \cup diskInode[e])
         /\ lost' = lost
    BY <1>3, <2>1, <2>2, <2>4 DEF GivesBack
  <2>11. Exclusive(LiveFile', diskInode', freeMap', lost')
    BY <2>7, <2>9, <2>10
  <2>12. QED
    BY <2>11, ExclusiveNext
<1>4. QED
  BY <1>1, <1>2, <1>3, AddsKeep, LosesKeep, DiskCases DEF StorageIsExclusive

-----------------------------------------------------------------------------
(* The invariant.                                                          *)
LEMMA FilesInvInit == Init => FilesInv
<1> SUFFICES ASSUME Init PROVE FilesInv
  OBVIOUS
<1>0. /\ None \notin Proc /\ None \notin Inode /\ None \notin Purpose /\ FDSIZE \in Nat /\ FDSIZE >= 3
      /\ Zero \in Value
  BY NoneIsNothing, FilesAssumption DEF FilesAssumption
<1>1. TypeControl
  BY DEF Init, TypeControl, Stage
<1>2. TypeFd
  BY <1>0 DEF Init, TypeFd
<1>3. TypeInode /\ TypeDisk
  BY <1>0 DEF Init, TypeInode, TypeDisk
<1>4. LockOK /\ StageOK /\ CheckStaysTrue
  BY <1>0 DEF Init, LockOK, Working, Opening, StageOK, StageOf, NothingOn, CheckStaysTrue
<1>5. FdsOK
  BY DEF Init, FdsOK, Opening
<1>6. AllInMemory /\ OpenCntOK /\ DenyCntOK
  BY DEF Init, AllInMemory, OpenCntOK, DenyCntOK
<1>7. InjectiveDir /\ InodeLive /\ Filled /\ FillAlone /\ SectorFound
  BY DEF Init, InjectiveDir, InodeLive, Filled, FillAlone, SectorFound
<1>8. StorageIsExclusive
  <2>1. LiveFile = {}
    BY DEF Init, LiveFile
  <2>2. freeMap = {} /\ lost = {} /\ openInodes = {}
    BY DEF Init
  <2>3. QED
    BY <2>1, <2>2 DEF StorageIsExclusive, OneInodePerSector, SectorsHaveOneFile
<1>9. FilesTypeOK
  BY <1>1, <1>2, <1>3, TypeParts
<1>10. QED
  BY <1>4, <1>5, <1>6, <1>7, <1>8, <1>9 DEF FilesInv, ControlInv

LEMMA ProcNext ==
    ASSUME FilesInv, NEW p \in Proc, ByOne(p), freedInUse' = \E q \in Proc : FreesFound(q)
    PROVE  FilesInv'
<1>1. ControlInv'
  BY TypeInodeNext, TypeDiskNext, ControlNext DEF FilesInv
<1>2. OpenCntOK' /\ DenyCntOK'
  BY OpenCntNext, DenyCntNext
<1>3. InjectiveDir' /\ InodeLive' /\ Filled' /\ FillAlone'
  BY InjectiveDirNext, InodeLiveNext, FilledNext, FillAloneNext
<1>4. StorageIsExclusive'
  BY OnePerSectorNext, SectorsNext DEF StorageIsExclusive
<1>5. AllInMemory'
  <2>1. CASE freedInUse'
    BY <2>1 DEF AllInMemory
  <2>2. CASE ~freedInUse'
    BY <2>2, InMemoryNext
  <2>3. QED
    BY <2>1, <2>2
<1>6. SectorFound'
  <2>1. CASE freedInUse'
    BY <2>1 DEF SectorFound
  <2>2. CASE ~freedInUse'
    BY <1>5, <2>2, SectorFoundNext
  <2>3. QED
    BY <2>1, <2>2
<1>7. QED
  BY <1>1, <1>2, <1>3, <1>4, <1>5, <1>6 DEF FilesInv

LEMMA ExtractNext ==
    ASSUME FilesInv, NEW n \in Name, Extract(n), ~freedInUse,
           freedInUse' = \E q \in Proc : FreesFound(q)
    PROVE  FilesInv'
<1>0. /\ Elsewhere /\ content' = content /\ TypeDisk /\ TypeControl /\ TypeFd /\ TypeInode /\ ControlInv
      /\ \A p \in Proc : pc[p] = "none"
  BY ExtractAdds, TypeParts DEF FilesInv, ControlInv, Extract
<1>1. PICK s, D : AddsFile(n, s, D)
  BY <1>0, ExtractAdds
<1>2. ~freedInUse' /\ freedInUse' \in BOOLEAN
  BY <1>0 DEF FreesFound
<1>3. ControlInv'
  <2>1. TypeDisk'
    BY <1>0, <1>1, AddsTypes DEF TypeDisk
  <2>2. TypeControl' /\ TypeFd' /\ TypeInode'
    BY <1>0, <1>2 DEF Elsewhere, callVars, fdVars, TypeControl, TypeFd, TypeInode
  <2>3. LockOK' /\ StageOK' /\ FdsOK' /\ CheckStaysTrue'
    BY <1>0 DEF ControlInv, Elsewhere, callVars, fdVars, LockOK, Working, Opening, StageOK, StageOf, NothingOn,
       FdsOK, CheckStaysTrue, FdIsValid
  <2>4. FilesTypeOK'
    BY <2>1, <2>2 DEF FilesTypeOK, TypeControl, TypeFd, TypeInode, TypeDisk
  <2>5. QED
    BY <2>3, <2>4 DEF ControlInv
<1>4. AllInMemory' /\ FillAlone' /\ DenyCntOK'
  BY <1>0, <1>2 DEF FilesInv, Elsewhere, callVars, fdVars, AllInMemory, FillAlone, DenyCntOK, Running
<1>5. OpenCntOK'
  <2>1. Ref' = Ref
    BY <1>0 DEF Elsewhere, callVars, fdVars, Ref, CallRef, SelfRef, FdRef, LeavesFd
  <2>2. QED
    BY <1>0, <2>1 DEF FilesInv, Elsewhere, OpenCntOK, Counted
<1>6. SectorFound'
  BY <1>0 DEF Elsewhere, callVars, SectorFound
<1>7. Filled'
  <2>1. ASSUME NEW i \in Inode, inode[i] # None
        PROVE  diskInode'[inode[i].sector] = diskInode[inode[i].sector]
    <3>1. inode[i].sector \in freeMap /\ inode[i].sector \in Sector
      BY <1>0, <2>1, SectorsInUse DEF TypeInode, InMemory
    <3>2. QED
      BY <1>0, <1>1, <3>1 DEF AddsFile, TypeDisk
  <2>2. QED
    BY <1>0, <2>1 DEF FilesInv, Elsewhere, callVars, Filled
<1>8. QED
  BY <1>0, <1>1, <1>3, <1>4, <1>5, <1>6, <1>7, AddsKeep DEF FilesInv

LEMMA FilesInvStutters ==
    ASSUME FilesInv, UNCHANGED vars
    PROVE  FilesInv'
<1>1. /\ UNCHANGED <<dirEntry, freeMap, diskInode, content, lost, inode, openInodes, fd, fdCnt, emptyFds>>
      /\ UNCHANGED <<self, fileLock, pc, op, ino, arg, freedInUse>>
  BY DEF vars, diskVars, fdVars, callVars
<1>2. ControlInv'
  BY <1>1 DEF FilesInv, ControlInv, FilesTypeOK, LockOK, Working, Opening, StageOK, StageOf, NothingOn,
     FdsOK, CheckStaysTrue, FdIsValid
<1>3. Ref' = Ref
  BY <1>1 DEF Ref, CallRef, SelfRef, FdRef, LeavesFd
<1>4. AllInMemory' /\ OpenCntOK' /\ DenyCntOK'
  BY <1>1, <1>3 DEF FilesInv, AllInMemory, OpenCntOK, Counted, DenyCntOK, Running
<1>5. InjectiveDir' /\ InodeLive' /\ Filled' /\ FillAlone' /\ SectorFound' /\ StorageIsExclusive'
  <2>1. InjectiveDir' /\ InodeLive'
    BY <1>1 DEF FilesInv, InjectiveDir, InodeLive
  <2>2. Filled' /\ FillAlone' /\ SectorFound'
    BY <1>1 DEF FilesInv, Filled, FillAlone, SectorFound
  <2>3. LiveFile' = LiveFile
    BY <1>1 DEF LiveFile
  <2>4. StorageIsExclusive'
    BY <1>1, <2>3 DEF FilesInv, StorageIsExclusive, OneInodePerSector, SectorsHaveOneFile
  <2>5. QED
    BY <2>1, <2>2, <2>4
<1>6. QED
  BY <1>2, <1>4, <1>5 DEF FilesInv

LEMMA FilesInvNext == FilesInv /\ [Next]_vars => FilesInv'
<1> SUFFICES ASSUME FilesInv, [Next]_vars PROVE FilesInv'
  OBVIOUS
<1>1. ASSUME NEW n \in Name, Extract(n), Next PROVE FilesInv'
  BY <1>1, ExtractNext DEF Next
<1>2. ASSUME NEW p \in Proc, OpenStep(p) \/ CloseStep(p) \/ Call(p), Next PROVE FilesInv'
  BY <1>2, ProcNext DEF Next, ByOne
<1>3. CASE UNCHANGED vars
  BY <1>3, FilesInvStutters
<1>4. QED
  BY <1>1, <1>2, <1>3 DEF Next

(* The invariant of the proofs: what each process is at, what it holds,    *)
(* and what the counts and the disk have to do with it.                    *)
THEOREM FilesInvHolds == Spec => []FilesInv
BY FilesInvInit, FilesInvNext, PTL DEF Spec

(* The variables keep their types; the index of fd_acquire is in bounds.   *)
THEOREM FilesTypeCorrect == Spec => []FilesTypeOK
<1>1. FilesInv => FilesTypeOK
  BY DEF FilesInv, ControlInv
<1>2. QED
  BY <1>1, FilesInvHolds, PTL

(* handle_close looks at a descriptor without file_lock, and what it has   *)
(* seen is still so when it has the lock: a descriptor is given to and     *)
(* taken from a process only by that process.                              *)
THEOREM CheckHolds == Spec => []CheckStaysTrue
<1>1. FilesInv => CheckStaysTrue
  BY DEF FilesInv, ControlInv
<1>2. QED
  BY <1>1, FilesInvHolds, PTL

(* At any time an inode sector has one struct inode at most, and a sector  *)
(* is in one file at most and is in use just as long as that file.         *)
THEOREM StorageCorrect == Spec => []StorageIsExclusive
<1>1. FilesInv => StorageIsExclusive
  BY DEF FilesInv
<1>2. QED
  BY <1>1, FilesInvHolds, PTL

-----------------------------------------------------------------------------
(* open_cnt and deny_write_cnt.                                            *)
LEMMA Renamed ==
    ASSUME NEW S, IsFiniteSet(S), NEW T, NEW F \in [S -> T],
           \A x, y \in S : F[x] = F[y] => x = y, \A t \in T : \E x \in S : F[x] = t
    PROVE  IsFiniteSet(T) /\ Cardinality(T) = Cardinality(S)
<1>1. F \in Bijection(S, T)
  BY Fun_IsBij
<1>2. ExistsBijection(S, T)
  BY <1>1 DEF ExistsBijection
<1>3. QED
  BY <1>2, FS_Bijection

(* The opener that a process at "last" has counted off.                    *)
CountedOff ==
    [p \in Proc |-> IF op[p] \in CallOps THEN <<"call", p>>
                    ELSE IF op[p] = "exitSelf" THEN <<"self", p>> ELSE <<"fd", arg[p]>>]

LEMMA LeavingOpeners ==
    ASSUME FilesInv, NEW i \in Inode
    PROVE  LET T == {CountedOff[p] : p \in Leaving(i)} IN
           /\ T \cap Counted(Ref, i) = {} /\ Opener(i) = T \cup Counted(Ref, i)
           /\ IsFiniteSet(T) /\ Cardinality(T) = Cardinality(Leaving(i))
<1> DEFINE T == {CountedOff[p] : p \in Leaving(i)}
<1>0. TypeControl /\ TypeFd /\ StageOK /\ i # None
  BY TypeParts, NoneIsNothing DEF FilesInv, ControlInv
<1>1. ASSUME NEW p \in Leaving(i)
      PROVE  /\ p \in Proc /\ pc[p] = "last" /\ ino[p] = i
             /\ \/ op[p] \in CallOps /\ CountedOff[p] = <<"call", p>>
                \/ op[p] = "exitSelf" /\ CountedOff[p] = <<"self", p>> /\ self[p] = i
                \/ /\ op[p] \in {"close", "exitFd"} /\ CountedOff[p] = <<"fd", arg[p]>>
                   /\ arg[p] \in Fd /\ fd[arg[p]] # None /\ fd[arg[p]].inode = i /\ fd[arg[p]].owner = p
  BY <1>0 DEF Leaving, StageOK, StageOf, CountedOff, CallOps
<1>2. ASSUME NEW p \in Leaving(i) PROVE CountedOff[p] \in Token /\ Ref[CountedOff[p]] = None
  <2>1. CallRef(p) = None
    BY <1>1 DEF CallRef
  <2>2. op[p] = "exitSelf" => SelfRef(p) = None
    BY <1>1 DEF SelfRef
  <2>3. op[p] \in {"close", "exitFd"} => FdRef(arg[p]) = None
    BY <1>1 DEF FdRef, LeavesFd, CallOps
  <2>4. QED
    BY <1>1, <2>1, <2>2, <2>3, Refs DEF CallOps
<1>3. T \cap Counted(Ref, i) = {}
  BY <1>0, <1>2 DEF Counted
<1>4. ASSUME NEW f \in Fd
      PROVE  <<"fd", f>> \in Opener(i) <=> <<"fd", f>> \in T \/ FdRef(f) = i
  <2>1. <<"fd", f>> \in Opener(i) <=> fd[f] # None /\ fd[f].inode = i
    BY DEF Opener
  <2>2. ASSUME <<"fd", f>> \in T PROVE fd[f] # None /\ fd[f].inode = i
    <3>1. PICK p \in Leaving(i) : CountedOff[p] = <<"fd", f>>
      BY <2>2
    <3>2. QED
      BY <1>1, <3>1
  <2>3. FdRef(f) = i => fd[f] # None /\ fd[f].inode = i
    BY <1>0 DEF FdRef
  <2>4. ASSUME fd[f] # None, fd[f].inode = i, FdRef(f) # i PROVE <<"fd", f>> \in T
    <3>1. PICK p \in Proc : p = fd[f].owner
      BY <1>0, <2>4 DEF TypeFd, Descriptor
    <3>2. pc[p] = "last" /\ op[p] \in {"close", "exitFd"} /\ arg[p] = f
      BY <2>4, <3>1 DEF FdRef, LeavesFd
    <3>3. ino[p] = i
      BY <1>0, <2>4, <3>2 DEF StageOK, StageOf
    <3>4. p \in Leaving(i) /\ CountedOff[p] = <<"fd", f>>
      BY <3>2, <3>3 DEF Leaving, CountedOff, CallOps
    <3>5. QED
      BY <3>4
  <2>5. QED
    BY <2>1, <2>2, <2>3, <2>4
<1>5. ASSUME NEW p \in Proc
      PROVE  <<"self", p>> \in Opener(i) <=> <<"self", p>> \in T \/ SelfRef(p) = i
  <2>1. <<"self", p>> \in Opener(i) <=> self[p] = i
    BY DEF Opener
  <2>2. ASSUME <<"self", p>> \in T PROVE self[p] = i
    <3>1. PICK q \in Leaving(i) : CountedOff[q] = <<"self", p>>
      BY <2>2
    <3>2. QED
      BY <1>1, <3>1
  <2>3. SelfRef(p) = i => self[p] = i
    BY <1>0 DEF SelfRef
  <2>4. ASSUME self[p] = i, SelfRef(p) # i PROVE <<"self", p>> \in T
    <3>1. pc[p] = "last" /\ op[p] = "exitSelf"
      BY <2>4 DEF SelfRef
    <3>2. ino[p] = i
      BY <1>0, <2>4, <3>1 DEF StageOK, StageOf
    <3>3. p \in Leaving(i) /\ CountedOff[p] = <<"self", p>>
      BY <3>1, <3>2 DEF Leaving, CountedOff, CallOps
    <3>4. QED
      BY <3>3
  <2>5. QED
    BY <2>1, <2>2, <2>3, <2>4
<1>6. ASSUME NEW p \in Proc
      PROVE  <<"call", p>> \in Opener(i) <=> <<"call", p>> \in T \/ CallRef(p) = i
  <2>1. <<"call", p>> \in Opener(i) <=>
           ino[p] = i /\ (pc[p] \in {"fill", "opened"} \/ (pc[p] \in {"close", "last"} /\ op[p] \in CallOps))
    BY DEF Opener, CallOps
  <2>2. <<"call", p>> \in T <=> pc[p] = "last" /\ ino[p] = i /\ op[p] \in CallOps
    <3>1. ASSUME <<"call", p>> \in T PROVE pc[p] = "last" /\ ino[p] = i /\ op[p] \in CallOps
      <4>1. PICK q \in Leaving(i) : CountedOff[q] = <<"call", p>>
        BY <3>1
      <4>2. QED
        BY <1>1, <4>1
    <3>2. ASSUME pc[p] = "last", ino[p] = i, op[p] \in CallOps PROVE <<"call", p>> \in T
      <4>1. p \in Leaving(i) /\ CountedOff[p] = <<"call", p>>
        BY <3>2 DEF Leaving, CountedOff
      <4>2. QED
        BY <4>1
    <3>3. QED
      BY <3>1, <3>2
  <2>3. CallRef(p) = i <=>
           ino[p] = i /\ (pc[p] \in {"fill", "opened"} \/ (pc[p] = "close" /\ op[p] \in CallOps))
    BY <1>0 DEF CallRef
  <2>4. QED
    BY <2>1, <2>2, <2>3
<1>7. Opener(i) = T \cup Counted(Ref, i)
  <2>1. Opener(i) \subseteq Token
    BY DEF Opener, Token
  <2>2. T \subseteq Token
    BY <1>2
  <2>3. ASSUME NEW x \in Token PROVE x \in Opener(i) <=> x \in T \/ Ref[x] = i
    BY <1>4, <1>5, <1>6, Refs
  <2>4. QED
    BY <2>1, <2>2, <2>3 DEF Counted
<1>8. IsFiniteSet(T) /\ Cardinality(T) = Cardinality(Leaving(i))
  <2>1. IsFiniteSet(Leaving(i))
    <3>1. Leaving(i) \in SUBSET Proc
      BY DEF Leaving
    <3>2. QED
      BY <3>1, RunningFinite
  <2> DEFINE F == [p \in Leaving(i) |-> CountedOff[p]]
  <2>2. F \in [Leaving(i) -> T] /\ \A t \in T : \E p \in Leaving(i) : F[p] = t
    OBVIOUS
  <2>3. ASSUME NEW p \in Leaving(i), NEW q \in Leaving(i), F[p] = F[q] PROVE p = q
    <3>1. CountedOff[p] = CountedOff[q]
      BY <2>3
    <3>2. QED
      BY <1>1, <3>1 DEF CallOps
  <2> HIDE DEF F, T
  <2>4. QED
    BY <2>1, <2>2, <2>3, Renamed
<1>9. QED
  BY <1>3, <1>7, <1>8

LEMMA OpenersCounted == FilesInv => OpenersAreCounted
<1> SUFFICES ASSUME FilesInv, ~freedInUse PROVE
        /\ \A i \in Inode :
              IF inode[i] = None THEN Opener(i) = {}
              ELSE inode[i].openCnt = Cardinality(Opener(i)) - Cardinality(Leaving(i))
        /\ \A p \in Proc : ino[p] # None => inode[ino[p]] # None
  BY DEF OpenersAreCounted
<1>1. AllInMemory /\ OpenCntOK
  BY DEF FilesInv
<1>2. ASSUME NEW i \in Inode, inode[i] = None PROVE Opener(i) = {}
  <2>1. i # None
    BY NoneIsNothing
  <2>2. QED
    BY <1>1, <1>2, <2>1 DEF AllInMemory, Opener
<1>3. ASSUME NEW i \in Inode, inode[i] # None
      PROVE  inode[i].openCnt = Cardinality(Opener(i)) - Cardinality(Leaving(i))
  <2>1. PICK T : /\ T \cap Counted(Ref, i) = {} /\ Opener(i) = T \cup Counted(Ref, i)
                 /\ IsFiniteSet(T) /\ Cardinality(T) = Cardinality(Leaving(i))
    BY LeavingOpeners
  <2>2. /\ IsFiniteSet(Counted(Ref, i)) /\ Cardinality(Counted(Ref, i)) \in Nat /\ Cardinality(T) \in Nat
    BY <2>1, CountedFinite, FS_CardinalityType
  <2>3. Cardinality(Opener(i)) = Cardinality(T) + Cardinality(Counted(Ref, i)) - Cardinality({})
    BY <2>1, <2>2, FS_Union
  <2>4. Cardinality({}) = 0
    BY FS_EmptySet
  <2>5. inode[i].openCnt = Cardinality(Counted(Ref, i))
    BY <1>1, <1>3 DEF OpenCntOK
  <2>6. QED
    BY <2>1, <2>2, <2>3, <2>4, <2>5
<1>4. QED
  BY <1>1, <1>2, <1>3 DEF AllInMemory

LEMMA DenialsCounted == FilesInv => DenialsAreCounted
<1> SUFFICES ASSUME FilesInv, NEW i \in openInodes PROVE
        /\ inode[i].denyWriteCnt = Cardinality({p \in Proc : self[p] = i /\ ~(op[p] = "exitSelf")})
        /\ inode[i].denyWriteCnt <= inode[i].openCnt
  BY DEF DenialsAreCounted
<1>1. TypeInode /\ OpenCntOK /\ DenyCntOK
  BY TypeParts DEF FilesInv, ControlInv
<1>2. i \in Inode /\ inode[i] # None
  BY <1>1 DEF TypeInode
<1>3. inode[i].denyWriteCnt = Cardinality(Running(i)) /\ inode[i].openCnt = Cardinality(Counted(Ref, i))
  BY <1>1, <1>2 DEF OpenCntOK, DenyCntOK
<1>4. Running(i) = {p \in Proc : self[p] = i /\ ~(op[p] = "exitSelf")}
  BY DEF Running
<1>5. Cardinality(Running(i)) <= Cardinality(Counted(Ref, i))
  <2> DEFINE F == [p \in Running(i) |-> <<"self", p>>]
  <2>1. ASSUME NEW p \in Running(i) PROVE <<"self", p>> \in Counted(Ref, i)
    <3>1. p \in Proc /\ SelfRef(p) = i
      BY DEF Running, SelfRef
    <3>2. QED
      BY <3>1, Refs DEF Counted
  <2>2. F \in [Running(i) -> Counted(Ref, i)] /\ \A p, q \in Running(i) : F[p] = F[q] => p = q
    BY <2>1
  <2> HIDE DEF F
  <2>3. F \in Injection(Running(i), Counted(Ref, i))
    BY <2>2, Fun_IsInj
  <2>4. QED
    BY <2>3, CountedFinite, FS_Injection
<1>6. QED
  BY <1>3, <1>4, <1>5

(* open_cnt is the number of those that have an inode open, and            *)
(* deny_write_cnt of those that run it, whatever they are in the middle    *)
(* of, so that an inode is freed when and only when it is closed by the    *)
(* last, and no decrement goes below 0.                                    *)
THEOREM CountsCorrect == Spec => []CountsAreRight
<1>1. FilesInv => CountsAreRight
  BY OpenersCounted, DenialsCounted DEF CountsAreRight
<1>2. QED
  BY <1>1, FilesInvHolds, PTL

-----------------------------------------------------------------------------
(* What is written to.                                                     *)
LEMMA DataInUse ==
    ASSUME FilesInv, NEW i \in Inode, inode[i] # None
    PROVE  /\ inode[i].data \subseteq diskInode[inode[i].sector]
           /\ inode[i].data \subseteq freeMap /\ inode[i].data \subseteq Sector
           /\ inode[i].sector \in LiveFile
<1>1. inode[i].sector \in LiveFile /\ Exclusive(LiveFile, diskInode, freeMap, lost) /\ TypeInode
  BY SectorsInUse, ExclusiveIs, TypeParts DEF FilesInv, ControlInv, StorageIsExclusive
<1>2. diskInode[inode[i].sector] \subseteq freeMap
  BY <1>1 DEF Exclusive, SectorsOf
<1>3. inode[i].data \subseteq diskInode[inode[i].sector]
  BY DEF FilesInv, Filled
<1>4. QED
  BY <1>1, <1>2, <1>3 DEF TypeInode, InMemory

LEMMA DataDisjoint ==
    ASSUME FilesInv, NEW i \in Inode, NEW j \in Inode, i # j, inode[i] # None, inode[j] # None
    PROVE  inode[i].data \cap inode[j].data = {}
<1>1. inode[i].sector # inode[j].sector
  BY TypeParts DEF FilesInv, ControlInv, StorageIsExclusive, OneInodePerSector, TypeInode
<1>2. PICK s, t : s = inode[i].sector /\ t = inode[j].sector
  OBVIOUS
<1>3. s \in LiveFile /\ t \in LiveFile /\ s # t /\ inode[i].data \subseteq diskInode[s]
      /\ inode[j].data \subseteq diskInode[t]
  BY <1>1, <1>2, DataInUse
<1>4. ({s} \cup diskInode[s]) \cap ({t} \cup diskInode[t]) = {}
  BY <1>3 DEF FilesInv, StorageIsExclusive, SectorsHaveOneFile
<1>5. QED
  BY <1>3, <1>4

LEMMA ContentOfOthers ==
    ASSUME FilesInv, NEW p \in Proc, self[p] # None, pc[p] = "idle", [Next]_vars,
           NEW s \in inode[self[p]].data
    PROVE  content'[s] = content[s]
<1>1. CASE UNCHANGED content
  BY <1>1
<1>2. CASE ~UNCHANGED content
  <2>1. ~freedInUse
    BY <1>2 DEF Next, vars, diskVars
  <2>2. self[p] \in Inode /\ inode[self[p]] \in InMemory /\ inode[self[p]] # None
    BY <2>1, WorksOn, NoneIsNothing
  <2>3. s \in freeMap /\ s \in Sector
    BY <2>2, DataInUse
  <2>4. TypeDisk /\ StageOK
    BY TypeParts DEF FilesInv, ControlInv
  <2>5. ASSUME NEW q \in Proc, NEW n \in Name, NEW len \in {0, 1}, Create(q, n, len)
        PROVE  content'[s] = content[s]
    <3>1. Allocated(len).data \in SUBSET Free
      BY <2>4, <2>5, Allocates DEF Create
    <3>2. s \notin Allocated(len).data
      BY <2>3, <3>1 DEF Free
    <3>3. QED
      BY <2>3, <2>5, <3>2 DEF Create
  <2>6. ASSUME NEW q \in Proc, NEW f \in Fd, NEW v \in Value, HandleWrite(q, f, v)
        PROVE  content'[s] = content[s]
    <3>1. fd[f] # None /\ inode[fd[f].inode].denyWriteCnt = 0
      BY <2>6 DEF HandleWrite, FdIsValid
    <3>2. PICK j \in Inode : j = fd[f].inode
      BY <3>1, TypeParts DEF FilesInv, ControlInv, TypeFd, Descriptor
    <3>3. inode[j] # None
      BY <2>1, <3>1, <3>2 DEF FilesInv, AllInMemory
    <3>4. inode[self[p]].denyWriteCnt > 0
      BY <2>1, CountsPositive
    <3>5. s \notin inode[j].data
      BY <2>2, <3>1, <3>2, <3>3, <3>4, DataDisjoint
    <3>6. QED
      BY <2>3, <2>6, <3>2, <3>5 DEF HandleWrite
  <2>7. PICK q \in Proc : OpenStep(q) \/ CloseStep(q) \/ Call(q)
    BY <1>2 DEF Next, vars, diskVars, Extract
  <2>8. ~OpenStep(q) /\ ~CloseStep(q)
    <3>1. ~OpenStep(q)
      BY <1>2 DEF OpenStep, InodeOpen, InodeReopen, InodeFill, FdAcquire, EraseEntry, LoadDone, DenyWrite, diskVars
    <3>2. ~CloseStep(q)
      BY <1>2 DEF CloseStep, InodeClose, InodeFree, HandleClose, ProcessExit, FdProcessExit, diskVars
    <3>3. QED
      BY <3>1, <3>2
  <2>9. QED
    BY <1>2, <2>5, <2>6, <2>7, <2>8 DEF Call, OpenBy, CloseCheck, diskVars
<1>3. QED
  BY <1>1, <1>2

(* As long as a program runs, nothing is written to the sectors of its     *)
(* executable: inode_write_at refuses its inode, no other inode has them,  *)
(* and free_map_allocate does not hand them out.                           *)
THEOREM ExecutablesStay == Spec => ExecutablesAreNotWritten
<1>1. FilesInv /\ [Next]_vars =>
        [\A p \in Proc : self[p] # None /\ pc[p] = "idle" =>
            \A s \in inode[self[p]].data : content'[s] = content[s]]_vars
  BY ContentOfOthers
<1>2. QED
  BY <1>1, FilesInvHolds, PTL DEF Spec, ExecutablesAreNotWritten
=============================================================================
