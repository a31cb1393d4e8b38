-------------------------------- MODULE Files ---------------------------------
(***************************************************************************)
(* Open files: filesys/inode.c, file.c and free-map.c, the descriptors of  *)
(* userprog/fd.c, the system calls of userprog/syscall.c that use them,    *)
(* and process_exit.  All files are in one directory, which is never       *)
(* closed; the cache keeps what is written, as AbstractStore says.         *)
(* A call holds file_lock from its first look at the file system; what a   *)
(* process does when it ends is done without it, at the same time as the   *)
(* calls of others.  A change of open_inodes, of free_map or of the list   *)
(* of free descriptors is one step: what two threads make of it that       *)
(* preempt each other in the middle of one is not modelled.  pc:           *)
(*    "none"     no process                                                *)
(*    "idle"     in user code                                              *)
(*    "checked"  handle_close, fd_is_valid was true, about to take the lock*)
(*    "open"     holding file_lock, about to call inode_open               *)
(*    "found"    inode_open, inode found in open_inodes, not counted yet   *)
(*    "fill"     inode_open, new inode in open_inodes, about to read it    *)
(*    "opened"   inode_open has returned                                   *)
(*    "close"    about to call inode_close                                 *)
(*    "last"     inode_close, open_cnt has become 0                        *)
(*    "exit"     load has failed, about to call thread_exit                *)
(*    "fds"      in the loop of fd_process_exit                            *)
(* op says for what the inode is opened or closed:                         *)
(*    "open", "remove", "close"  the system call                           *)
(*    "load", "bad"   load, which accepts the executable or refuses it     *)
(*    "self"     the second filesys_open of start_process                  *)
(*    "exitSelf" file_close (cur->self) in process_exit                    *)
(*    "exitFd"   fd_release in fd_process_exit                             *)
(***************************************************************************)
EXTENDS Integers, Sequences, FiniteSets, FiniteSetsExt

CONSTANTS
    Proc, Name, Value,
    Zero,            \* the value of cache_fillzero
    DiskSize,        \* the number of sectors
    MaxInodes,       \* bound on the inodes in memory
    FDSIZE,          \* bound on descriptors: fd_acquire has no check of its own
    None

Sector == 0 .. DiskSize - 1
Inode == 1 .. MaxInodes
Fd == 3 .. FDSIZE - 1
Purpose == {"open", "remove", "close", "load", "bad", "self", "exitSelf", "exitFd"}
Descriptor == [inode : Inode, owner : Proc]
InMemory == [sector : Sector, openCnt : Nat, denyWriteCnt : Nat,
             removed : BOOLEAN, data : SUBSET Sector]

ASSUME FilesAssumption ==
    /\ DiskSize \in Nat /\ MaxInodes \in Nat /\ FDSIZE \in Nat \ 0 .. 2
    /\ Zero \in Value /\ IsFiniteSet(Proc)
    /\ None \notin Proc \cup Name \cup Sector \cup Inode \cup Fd
    /\ None \notin Purpose /\ None \notin Descriptor /\ None \notin InMemory

VARIABLES
    dirEntry,        \* dirEntry[n]: the inode sector of the file n, or None
    freeMap,         \* free_map: the sectors in use
    diskInode,       \* diskInode[s]: the data sectors of the inode on s, if any
    content,         \* content[s]: what is in the data sector s
    lost,            \* history: sectors that a failed create has left in use
    inode,           \* inode[i]: a struct inode, or None
    openInodes,      \* open_inodes
    fd,              \* fd_list; None where status is false
    fdCnt,           \* fd_cnt
    emptyFds,        \* empty_fd_list
    self,            \* self[p]: the inode of thread.self, or None
    fileLock,        \* the holder of file_lock, or None
    pc, op,
    ino,             \* the inode a process works on
    arg,             \* the name or descriptor it has been given
    freedInUse       \* history: an inode has been freed that was found to be open

diskVars == <<dirEntry, freeMap, diskInode, content, lost>>
fdVars == <<fd, fdCnt, emptyFds>>
callVars == <<pc, op, ino, arg>>
vars == <<diskVars, inode, openInodes, fdVars, self, fileLock, callVars, freedInUse>>

Goto(p, stage) == pc' = [pc EXCEPT ![p] = stage]
TakeFileLock(p) == fileLock = None /\ fileLock' = p

(* The call of p is over.                                                  *)
Return(p, stage) ==
    /\ fileLock' = None
    /\ pc' = [pc EXCEPT ![p] = stage]
    /\ op' = [op EXCEPT ![p] = None]
    /\ ino' = [ino EXCEPT ![p] = None]
    /\ arg' = [arg EXCEPT ![p] = None]

-----------------------------------------------------------------------------
FdIsValid(p, f) == fd[f] # None /\ fd[f].owner = p

(* handle_open and handle_remove; and handle_exec as the new process has   *)
(* it, whose parent holds file_lock until start_process is done.           *)
OpenBy(p, o, n) ==
    /\ pc[p] = IF o = "load" THEN "none" ELSE "idle"
    /\ o = "open" => emptyFds # <<>> \/ fdCnt < FDSIZE
    /\ TakeFileLock(p)
    /\ op' = [op EXCEPT ![p] = o]
    /\ arg' = [arg EXCEPT ![p] = n]
    /\ Goto(p, "open")
    /\ UNCHANGED <<diskVars, inode, openInodes, fdVars, self, ino>>

NewInode(s) == [sector |-> s, openCnt |-> 1, denyWriteCnt |-> 0,
                removed |-> FALSE, data |-> {}]

OpenFails(p) ==
    /\ Return(p, IF op[p] = "load" THEN "exit" ELSE "idle")
    /\ UNCHANGED <<inode, openInodes>>

(* A new inode is put on open_inodes, if malloc finds memory for it.       *)
OpenNew(p) ==
    \/ /\ \E i \in Inode :
             /\ inode[i] = None /\ \A j \in 1 .. i - 1 : inode[j] # None
             /\ inode' = [inode EXCEPT ![i] = NewInode(dirEntry[arg[p]])]
             /\ openInodes' = openInodes \cup {i}
             /\ ino' = [ino EXCEPT ![p] = i]
       /\ Goto(p, "fill")
       /\ UNCHANGED <<fileLock, op, arg>>
    \/ openInodes = Inode /\ OpenFails(p)

(* Mutant: an inode that is open is not looked for.                        *)
InodeOpenAnew(p) ==
    /\ pc[p] = "open"
    /\ \/ dirEntry[arg[p]] = None /\ OpenFails(p)
       \/ /\ dirEntry[arg[p]] # None
          /\ OpenNew(p)
    /\ UNCHANGED <<diskVars, fdVars, self>>

(* filesys_open up to inode_open, which takes an inode that is open        *)
(* already, or a new one.                                                  *)
InodeOpen(p) ==
    /\ pc[p] = "open"
    /\ \/ dirEntry[arg[p]] = None /\ OpenFails(p)
       \/ \E i \in openInodes :
             /\ inode[i].sector = dirEntry[arg[p]]
             /\ ino' = [ino EXCEPT ![p] = i]
             /\ Goto(p, "found")
             /\ UNCHANGED <<inode, openInodes, fileLock, op, arg>>
       \/ /\ dirEntry[arg[p]] # None
          /\ \A i \in openInodes : inode[i].sector # dirEntry[arg[p]]
          /\ OpenNew(p)
    /\ UNCHANGED <<diskVars, fdVars, self>>

(* Mutant: the inode that was found is returned without inode_reopen.      *)
InodeFoundOnly(p) ==
    /\ pc[p] = "found"
    /\ Goto(p, "opened")
    /\ UNCHANGED <<diskVars, inode, openInodes, fdVars, self, fileLock, op, ino, arg>>

InodeReopen(p) ==
    /\ pc[p] = "found"
    /\ inode' = [inode EXCEPT ![ino[p]].openCnt = @ + 1]
    /\ Goto(p, "opened")
    /\ UNCHANGED <<diskVars, openInodes, fdVars, self, fileLock, op, ino, arg>>

InodeFill(p) ==
    /\ pc[p] = "fill"
    /\ inode' = [inode EXCEPT ![ino[p]].data = diskInode[inode[ino[p]].sector]]
    /\ Goto(p, "opened")
    /\ UNCHANGED <<diskVars, openInodes, fdVars, self, fileLock, op, ino, arg>>

(* The rest of handle_open, with fd_acquire.                               *)
FdAcquire(p) ==
    /\ pc[p] = "opened" /\ op[p] = "open"
    /\ LET f == IF emptyFds # <<>> THEN emptyFds[Len(emptyFds)] ELSE fdCnt
       IN  fd' = [fd EXCEPT ![f] = [inode |-> ino[p], owner |-> p]]
    /\ IF emptyFds # <<>>
       THEN emptyFds' = SubSeq(emptyFds, 1, Len(emptyFds) - 1) /\ UNCHANGED fdCnt
       ELSE fdCnt' = fdCnt + 1 /\ UNCHANGED emptyFds
    /\ Return(p, "idle")
    /\ UNCHANGED <<diskVars, inode, openInodes, self>>

(* dir_remove erases the entry, and marks the inode.                       *)
EraseEntry(p) ==
    /\ pc[p] = "opened" /\ op[p] = "remove"
    /\ dirEntry' = [dirEntry EXCEPT ![arg[p]] = None]
    /\ inode' = [inode EXCEPT ![ino[p]].removed = TRUE]
    /\ Goto(p, "close")
    /\ UNCHANGED <<freeMap, diskInode, content, lost, openInodes, fdVars, self,
                   fileLock, op, ino, arg>>

(* load reads the executable, and closes it.                               *)
LoadDone(p) ==
    /\ pc[p] = "opened" /\ op[p] = "load"
    /\ \E o \in {"load", "bad"} : op' = [op EXCEPT ![p] = o]
    /\ Goto(p, "close")
    /\ UNCHANGED <<diskVars, inode, openInodes, fdVars, self, fileLock, ino, arg>>

(* start_process keeps it open in thread.self; file_deny_write.            *)
DenyWrite(p) ==
    /\ pc[p] = "opened" /\ op[p] = "self"
    /\ inode' = [inode EXCEPT ![ino[p]].denyWriteCnt = @ + 1]
    /\ self' = [self EXCEPT ![p] = ino[p]]
    /\ Return(p, "idle")
    /\ UNCHANGED <<diskVars, openInodes, fdVars>>

-----------------------------------------------------------------------------
(* The rest of fd_release.                                                 *)
FdRelease(f) ==
    /\ fd' = [fd EXCEPT ![f] = None]
    /\ emptyFds' = Append(emptyFds, f)

(* What comes after inode_close.                                           *)
Closed(p) ==
    \/ /\ op[p] = "remove" /\ Return(p, "idle")
       /\ UNCHANGED <<fd, emptyFds, self>>
    \/ /\ op[p] = "close" /\ FdRelease(arg[p]) /\ Return(p, "idle")
       /\ UNCHANGED self
    \/ /\ op[p] = "bad" /\ Return(p, "exit")
       /\ UNCHANGED <<fd, emptyFds, self>>
    \/ /\ op[p] = "load" /\ Goto(p, "open")
       /\ op' = [op EXCEPT ![p] = "self"]
       /\ ino' = [ino EXCEPT ![p] = None]
       /\ UNCHANGED <<fd, emptyFds, self, fileLock, arg>>
    \/ /\ op[p] \in {"exitSelf", "exitFd"} /\ Goto(p, "fds")
       /\ IF op[p] = "exitFd" THEN FdRelease(arg[p]) /\ UNCHANGED self
          ELSE self' = [self EXCEPT ![p] = None] /\ UNCHANGED <<fd, emptyFds>>
       /\ ino' = [ino EXCEPT ![p] = None]
       /\ arg' = [arg EXCEPT ![p] = None]
       /\ UNCHANGED <<op, fileLock>>

InodeClose(p) ==
    /\ pc[p] = "close"
    /\ inode' = [inode EXCEPT ![ino[p]].openCnt = @ - 1]
    /\ IF inode[ino[p]].openCnt = 1
       THEN /\ Goto(p, "last")
            /\ UNCHANGED <<fd, emptyFds, self, fileLock, op, ino, arg>>
       ELSE Closed(p)
    /\ UNCHANGED <<diskVars, openInodes, fdCnt>>

(* Mutant: only the inode's own sector is released.                        *)
InodeFreeHalf(p) ==
    /\ pc[p] = "last"
    /\ openInodes' = openInodes \ {ino[p]}
    /\ inode' = [inode EXCEPT ![ino[p]] = None]
    /\ LET i == inode[ino[p]]
       IN  freeMap' = IF i.removed THEN freeMap \ {i.sector} ELSE freeMap
    /\ Closed(p)
    /\ UNCHANGED <<dirEntry, diskInode, content, lost, fdCnt>>

(* Mutant: the memory is freed and the inode stays in open_inodes.         *)
InodeFreeListed(p) ==
    /\ pc[p] = "last"
    /\ inode' = [inode EXCEPT ![ino[p]] = None]
    /\ LET i == inode[ino[p]]
       IN  IF i.removed
           THEN /\ freeMap' = freeMap \ ({i.sector} \cup i.data)
                /\ diskInode' = [diskInode EXCEPT ![i.sector] = {}]
           ELSE UNCHANGED <<freeMap, diskInode>>
    /\ Closed(p)
    /\ UNCHANGED <<dirEntry, openInodes, content, lost, fdCnt>>

(* The last opener is gone: the inode is freed, with its sectors if it has *)
(* been removed.                                                           *)
InodeFree(p) ==
    /\ pc[p] = "last"
    /\ openInodes' = openInodes \ {ino[p]}
    /\ inode' = [inode EXCEPT ![ino[p]] = None]
    /\ LET i == inode[ino[p]]
       IN  IF i.removed
           THEN /\ freeMap' = freeMap \ ({i.sector} \cup i.data)
                /\ diskInode' = [diskInode EXCEPT ![i.sector] = {}]
           ELSE UNCHANGED <<freeMap, diskInode>>
    /\ Closed(p)
    /\ UNCHANGED <<dirEntry, content, lost, fdCnt>>

(* handle_close looks at the descriptor before it takes file_lock.         *)
CloseCheck(p, f) ==
    /\ pc[p] = "idle" /\ FdIsValid(p, f)
    /\ arg' = [arg EXCEPT ![p] = f]
    /\ Goto(p, "checked")
    /\ UNCHANGED <<diskVars, inode, openInodes, fdVars, self, fileLock, op, ino>>

HandleClose(p) ==
    /\ pc[p] = "checked"
    /\ TakeFileLock(p)
    /\ op' = [op EXCEPT ![p] = "close"]
    /\ ino' = [ino EXCEPT ![p] = fd[arg[p]].inode]
    /\ Goto(p, "close")
    /\ UNCHANGED <<diskVars, inode, openInodes, fdVars, self, arg>>

(* Mutant: file_allow_write ends what every process has denied.            *)
ProcessExitAllowAll(p) ==
    /\ pc[p] \in {"idle", "exit"}
    /\ IF self[p] = None
       THEN Goto(p, "fds") /\ UNCHANGED <<inode, op, ino>>
       ELSE /\ inode' = [inode EXCEPT ![self[p]].denyWriteCnt = 0]
            /\ op' = [op EXCEPT ![p] = "exitSelf"]
            /\ ino' = [ino EXCEPT ![p] = self[p]]
            /\ Goto(p, "close")
    /\ UNCHANGED <<diskVars, openInodes, fdVars, self, fileLock, arg>>

(* process_exit: file_close (cur->self), with file_allow_write.            *)
ProcessExit(p) ==
    /\ pc[p] \in {"idle", "exit"}
    /\ IF self[p] = None
       THEN Goto(p, "fds") /\ UNCHANGED <<inode, op, ino>>
       ELSE /\ inode' = [inode EXCEPT ![self[p]].denyWriteCnt = @ - 1]
            /\ op' = [op EXCEPT ![p] = "exitSelf"]
            /\ ino' = [ino EXCEPT ![p] = self[p]]
            /\ Goto(p, "close")
    /\ UNCHANGED <<diskVars, openInodes, fdVars, self, fileLock, arg>>

(* Mutant: the loop closes the descriptors of every process.               *)
FdProcessExitAll(p) ==
    /\ pc[p] = "fds"
    /\ \/ \E f \in Fd :
             /\ fd[f] # None /\ \A g \in 3 .. f - 1 : fd[g] = None
             /\ op' = [op EXCEPT ![p] = "exitFd"]
             /\ arg' = [arg EXCEPT ![p] = f]
             /\ ino' = [ino EXCEPT ![p] = fd[f].inode]
             /\ Goto(p, "close")
       \/ /\ \A f \in Fd : fd[f] = None
          /\ op' = [op EXCEPT ![p] = None]
          /\ Goto(p, "none")
          /\ UNCHANGED <<ino, arg>>
    /\ UNCHANGED <<diskVars, inode, openInodes, fdVars, self, fileLock>>

(* A turn of the loop in fd_process_exit, and its end.                     *)
FdProcessExit(p) ==
    /\ pc[p] = "fds"
    /\ \/ \E f \in Fd :
             /\ FdIsValid(p, f) /\ \A g \in 3 .. f - 1 : ~FdIsValid(p, g)
             /\ op' = [op EXCEPT ![p] = "exitFd"]
             /\ arg' = [arg EXCEPT ![p] = f]
             /\ ino' = [ino EXCEPT ![p] = fd[f].inode]
             /\ Goto(p, "close")
       \/ /\ \A f \in Fd : ~FdIsValid(p, f)
          /\ op' = [op EXCEPT ![p] = None]
          /\ Goto(p, "none")
          /\ UNCHANGED <<ino, arg>>
    /\ UNCHANGED <<diskVars, inode, openInodes, fdVars, self, fileLock>>

-----------------------------------------------------------------------------
(* free_map_allocate finds the first free sectors; a file has at most one  *)
(* sector of data here.                                                    *)
Free == Sector \ freeMap
Allocated(len) ==
    LET s == Min(Free) IN [sector |-> s, data |-> IF len = 0 THEN {} ELSE {Min(Free \ {s})}]

(* handle_create, when there is room on the disk.  The data sectors of a   *)
(* file whose name is taken are not given back.                            *)
Create(p, n, len) ==
    /\ pc[p] = "idle" /\ fileLock = None /\ Cardinality(Free) > len
    /\ LET new == Allocated(len)
       IN  /\ content' = [s \in Sector |-> IF s \in new.data THEN Zero ELSE content[s]]
           /\ IF dirEntry[n] = None
              THEN /\ diskInode' = [diskInode EXCEPT ![new.sector] = new.data]
                   /\ dirEntry' = [dirEntry EXCEPT ![n] = new.sector]
                   /\ freeMap' = freeMap \cup {new.sector} \cup new.data
                   /\ UNCHANGED lost
              ELSE /\ freeMap' = freeMap \cup new.data
                   /\ lost' = lost \cup new.data
                   /\ UNCHANGED <<dirEntry, diskInode>>
    /\ UNCHANGED <<inode, openInodes, fdVars, self, fileLock, callVars>>

(* handle_write with a valid descriptor, unless writes are denied.         *)
HandleWrite(p, f, v) ==
    /\ pc[p] = "idle" /\ fileLock = None /\ FdIsValid(p, f)
    /\ inode[fd[f].inode].denyWriteCnt = 0
    /\ content' = [s \in Sector |-> IF s \in inode[fd[f].inode].data THEN v
                                    ELSE content[s]]
    /\ UNCHANGED <<dirEntry, freeMap, diskInode, lost, inode, openInodes, fdVars, self,
                   fileLock, callVars>>

-----------------------------------------------------------------------------
Init ==
    /\ dirEntry = [n \in Name |-> None]
    /\ freeMap = {} /\ lost = {}
    /\ diskInode = [s \in Sector |-> {}]
    /\ content = [s \in Sector |-> Zero]
    /\ inode = [i \in Inode |-> None]
    /\ openInodes = {}
    /\ fd = [f \in Fd |-> None]
    /\ fdCnt = 3 /\ emptyFds = <<>>
    /\ self = [p \in Proc |-> None]
    /\ fileLock = None
    /\ pc = [p \in Proc |-> "none"]
    /\ op = [p \in Proc |-> None]
    /\ ino = [p \in Proc |-> None]
    /\ arg = [p \in Proc |-> None]
    /\ freedInUse = FALSE

(* The first file is put on the disk before the first process starts.      *)
Extract(n) ==
    /\ \A p \in Proc : pc[p] = "none"
    /\ dirEntry[n] = None /\ Cardinality(Free) > 1
    /\ LET new == Allocated(1)
       IN  /\ dirEntry' = [dirEntry EXCEPT ![n] = new.sector]
           /\ diskInode' = [diskInode EXCEPT ![new.sector] = new.data]
           /\ freeMap' = freeMap \cup {new.sector} \cup new.data
    /\ UNCHANGED <<content, lost, inode, openInodes, fdVars, self, fileLock, callVars>>

OpenStep(p) ==
    \/ InodeOpen(p) \/ InodeReopen(p) \/ InodeFill(p)
    \/ FdAcquire(p) \/ EraseEntry(p) \/ LoadDone(p) \/ DenyWrite(p)

CloseStep(p) ==
    InodeClose(p) \/ InodeFree(p) \/ HandleClose(p) \/ ProcessExit(p) \/ FdProcessExit(p)

Call(p) ==
    \/ \E n \in Name : \/ \E o \in {"open", "remove", "load"} : OpenBy(p, o, n)
                       \/ \E len \in {0, 1} : Create(p, n, len)
    \/ \E f \in Fd : CloseCheck(p, f) \/ \E v \in Value : HandleWrite(p, f, v)

(* An inode that inode_open has found in open_inodes goes: process_exit,   *)
(* which is without file_lock, was between open_cnt = 0 and list_remove.   *)
FreesFound(p) ==
    /\ pc[p] = "last" /\ pc'[p] # "last"
    /\ inode[ino[p]].openCnt > 0
          \/ \E q \in Proc \ {p} : pc[q] \in {"found", "last"} /\ ino[q] = ino[p]

(* What happens after that is not defined.                                 *)
Next ==
    /\ ~freedInUse
    /\ \/ \E n \in Name : Extract(n)
       \/ \E p \in Proc : OpenStep(p) \/ CloseStep(p) \/ Call(p)
    /\ freedInUse' = \E p \in Proc : FreesFound(p)

Spec == Init /\ [][Next]_vars

-----------------------------------------------------------------------------
Stage == {"none", "idle", "checked", "open", "found", "fill", "opened", "close", "last",
          "exit", "fds"}

(* Types of the variables.                                                 *)
FilesTypeOK ==
    /\ dirEntry \in [Name -> Sector \cup {None}]
    /\ freeMap \subseteq Sector /\ lost \subseteq Sector
    /\ diskInode \in [Sector -> SUBSET Sector] /\ content \in [Sector -> Value]
    /\ inode \in [Inode -> InMemory \cup {None}]
    /\ openInodes = {i \in Inode : inode[i] # None}
    /\ fd \in [Fd -> Descriptor \cup {None}]
    /\ fdCnt \in 3 .. FDSIZE /\ emptyFds \in Seq(Fd)
    /\ self \in [Proc -> Inode \cup {None}] /\ fileLock \in Proc \cup {None}
    /\ pc \in [Proc -> Stage]
    /\ op \in [Proc -> Purpose \cup {None}]
    /\ ino \in [Proc -> Inode \cup {None}]
    /\ arg \in [Proc -> Name \cup Fd \cup {None}] /\ freedInUse \in BOOLEAN

(* Who has the inode i open: descriptors, running programs, and calls.     *)
Opener(i) ==
    {<<"fd", f>> : f \in {g \in Fd : fd[g] # None /\ fd[g].inode = i}}
    \cup {<<"self", p>> : p \in {q \in Proc : self[q] = i}}
    \cup {<<"call", p>> : p \in {q \in Proc :
            /\ ino[q] = i
            /\ \/ pc[q] \in {"fill", "opened"}
               \/ /\ pc[q] \in {"close", "last"}
                  /\ op[q] \in {"remove", "load", "bad"}}}

(* A process counted off before its descriptor says so.                    *)
Leaving(i) == {p \in Proc : pc[p] = "last" /\ ino[p] = i}

(* open_cnt is the number of openers, and whoever has an inode open has    *)
(* one that is in memory: no close is lost and none is done twice, and     *)
(* nobody works on an inode that has been freed, but for the one race with *)
(* process_exit that freedInUse records.                                   *)
OpenersAreCounted ==
    ~freedInUse =>
        /\ \A i \in Inode :
              IF inode[i] = None THEN Opener(i) = {}
              ELSE inode[i].openCnt = Cardinality(Opener(i)) - Cardinality(Leaving(i))
        /\ \A p \in Proc : ino[p] # None => inode[ino[p]] # None

(* deny_write_cnt is the number of running programs that the file is the   *)
(* executable of, so that the assertions of inode_deny_write and           *)
(* inode_allow_write hold.                                                 *)
DenialsAreCounted ==
    \A i \in openInodes :
        /\ inode[i].denyWriteCnt =
              Cardinality({p \in Proc : self[p] = i /\ ~(op[p] = "exitSelf")})
        /\ pc \in [Proc -> Stage \ {"last"}] => inode[i].denyWriteCnt <= inode[i].openCnt

(* The two counts of every inode in memory are right.                      *)
CountsAreRight == OpenersAreCounted /\ DenialsAreCounted

(* "opening a single inode twice returns the same struct inode".           *)
OneInodePerSector ==
    \A i, j \in openInodes : inode[i].sector = inode[j].sector => i = j

(* The sectors in use are those of the files, each of one file, and what   *)
(* failed creates have lost.  A removed file keeps its sectors while it is *)
(* open, and gives them back then.                                         *)
LiveFile ==
    {dirEntry[n] : n \in {m \in Name : dirEntry[m] # None}}
    \cup {inode[i].sector : i \in {j \in openInodes : inode[j].removed}}
SectorsHaveOneFile ==
    /\ \A s, t \in LiveFile : s # t => ({s} \cup diskInode[s]) \cap ({t} \cup diskInode[t]) = {}
    /\ \A s \in LiveFile : s \notin diskInode[s]
    /\ freeMap = lost \cup UNION {{s} \cup diskInode[s] : s \in LiveFile}
    /\ lost \cap UNION {{s} \cup diskInode[s] : s \in LiveFile} = {}

(* No two inodes have a sector, and no two files have one.                 *)
StorageIsExclusive == OneInodePerSector /\ SectorsHaveOneFile

(* What handle_close has checked without the lock is still true when it    *)
(* has the lock.                                                           *)
CheckStaysTrue == \A p \in Proc : pc[p] = "checked" => FdIsValid(p, arg[p])

(* The executable of a running program does not change.                    *)
ExecutablesAreNotWritten ==
    [][\A p \in Proc : self[p] # None /\ pc[p] = "idle" =>
          \A s \in inode[self[p]].data : content'[s] = content[s]]_vars
=============================================================================
