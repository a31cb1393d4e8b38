------------------------------- MODULE Process -------------------------------
(***************************************************************************)
(* User processes: exec, wait and exit, userprog/process.c with its        *)
(* callers in userprog/syscall.c, and the part of threads/thread.c under   *)
(* USERPROG that keeps the struct thread of a dead process until its       *)
(* parent has asked for the exit code.                                     *)
(*                                                                         *)
(* A process is named by the page that holds its struct thread: a parent   *)
(* pointer is a page, and outlives the process it pointed to.  Processes   *)
(* all have PRI_DEFAULT and share the processor in round robin, so any of  *)
(* them may take the next step; what runs with interrupts off is one step. *)
(* pc says where a process stands:                                         *)
(*    "free"     the page is in the kernel pool                            *)
(*    "start"    start_process, its program not loaded yet                 *)
(*    "unloaded" start_process, load failed and the parent told            *)
(*    "run"      in user code; the main thread, between two actions        *)
(*    "exec"     in process_execute, before thread_create                  *)
(*    "loading"  in process_execute, in sema_down (&t->load_sema)          *)
(*    "executed" the main thread, about to call process_wait               *)
(*    "waiting"  in process_wait, in sema_down (&child->wait_sema)         *)
(*    "exiting"  at the beginning of thread_exit                           *)
(*    "reaping"  in thread_exit, in its loop over dead_list                *)
(*    "dead"     on dead_list                                              *)
(* Left out: the timer does not interrupt list_push_back in init_thread,   *)
(* a command line fits in the one stack page of start_process, and the     *)
(* mlfqs scheduler, under which priorities differ, is off.                 *)
(***************************************************************************)
EXTENDS KernelList, Integers

CONSTANTS
    Page,            \* the pages of the kernel pool
    Main,            \* the page of the main thread, in no pool
    None,            \* the null pointer
    Code,            \* the exit codes programs use
    MaxTid           \* bound: allocate_tid gives no tid above it

ASSUME ProcessAssumption ==
    /\ IsFiniteSet(Page) /\ Main \notin Page /\ None \notin Page \cup {Main}
    /\ Code \subseteq Int /\ None \notin Code \cup {0, -1}
    /\ MaxTid \in Nat \ {0}

VARIABLES
    thread,          \* the fields of struct thread this module is about
    pc,
    child,           \* the local variable "t" or "child" of the call, a page
    target,          \* the tid the call is about
    ret,             \* what process_execute or process_wait just returned
    cursor,          \* "e" of the loop of thread_exit; None is list_end
    deadList,        \* dead_list; all_list has the others that are not free
    fileLock,        \* file_lock.holder
    nextTid,         \* next_tid of allocate_tid
    machine,         \* "up", "off" or "panic"
    loaded,          \* history: the tids whose program was loaded
    ended,           \* history: the code of the last handle_exit of a tid
    reaped           \* history: the tids process_wait returned a code of

callVars == <<child, target>>
history == <<loaded, ended, reaped>>
vars == <<thread, pc, child, target, ret, cursor, deadList, fileLock, nextTid,
          machine, loaded, ended, reaped>>

Proc == Page \cup {Main}
Tid == 1..MaxTid
TidError == -1

(* The struct thread of a process with tid t, made by process p, and what  *)
(* palloc_free_page leaves of it: bytes that are no tid and no page.       *)
NewThread(t, p) ==
    [tid |-> t, parent |-> p, exit_code |-> 0, load_status |-> FALSE,
     load_sema |-> 0, wait_sema |-> 0]
Filled == NewThread(0, None)

Init ==
    /\ thread = [p \in Proc |-> IF p = Main THEN NewThread(1, None) ELSE Filled]
    /\ pc = [p \in Proc |-> IF p = Main THEN "run" ELSE "free"]
    /\ child = [p \in Proc |-> None]
    /\ target = [p \in Proc |-> 0]
    /\ ret = [p \in Proc |-> None]
    /\ cursor = [p \in Proc |-> None]
    /\ deadList = <<>>
    /\ fileLock = None
    /\ nextTid = 2
    /\ machine = "up"
    /\ loaded = {} /\ reaped = {}
    /\ ended = [t \in Tid |-> None]

-----------------------------------------------------------------------------
(* Process p stands at label, in a kernel that still runs.                 *)
At(p, label) == machine = "up" /\ pc[p] = label

(* thread_remove(q): off dead_list, the page back into the pool.           *)
Freed(q) ==
    /\ thread' = [thread EXCEPT ![q] = Filled]
    /\ deadList' = ListRemove(deadList, q)

(* sema_up of a semaphore of struct thread; who waits is ready by it.      *)
LoadSemaUp(p, success) ==
    thread' = [thread EXCEPT ![p].load_status = success, ![p].load_sema = @ + 1]

(* handle_exec takes file_lock, the main thread calls process_execute      *)
(* without.  lock_acquire asserts that the caller's page is not the        *)
(* holder, even if the holder was an earlier process in that page.         *)
Exec(p) ==
    /\ At(p, "run")
    /\ \/ p = Main /\ UNCHANGED <<fileLock, machine>> /\ pc' = [pc EXCEPT ![p] = "exec"]
       \/ /\ p # Main /\ fileLock = None
          /\ fileLock' = p
          /\ pc' = [pc EXCEPT ![p] = "exec"]
          /\ UNCHANGED machine
       \/ p # Main /\ fileLock = p /\ machine' = "panic" /\ UNCHANGED <<fileLock, pc>>
    /\ ret' = [ret EXCEPT ![p] = None]
    /\ UNCHANGED <<thread, callVars, cursor, deadList, nextTid, history>>

(* process_execute returns: so does handle_exec, after lock_release.       *)
ExecReturns(p, value) ==
    /\ ret' = [ret EXCEPT ![p] = value]
    /\ pc' = [pc EXCEPT ![p] = IF p = Main THEN "executed" ELSE "run"]
    /\ fileLock' = IF p = Main THEN fileLock ELSE None

(* No page for the arguments or the thread, or no argument at all.         *)
ExecFails(p) ==
    /\ At(p, "exec")
    /\ ExecReturns(p, TidError)
    /\ UNCHANGED <<thread, callVars, cursor, deadList, nextTid, machine, history>>

(* Mutant: the new thread's load_sema starts at 1.                         *)
ThreadCreateLoadSemaOne(p) ==
    /\ At(p, "exec") /\ nextTid <= MaxTid
    /\ \E q \in Page :
          /\ pc[q] = "free"
          /\ thread' = [thread EXCEPT ![q] =
                           [NewThread(nextTid, p) EXCEPT !.load_sema = 1]]
          /\ pc' = [pc EXCEPT ![q] = "start", ![p] = "loading"]
          /\ child' = [child EXCEPT ![p] = q]
    /\ target' = [target EXCEPT ![p] = nextTid]
    /\ nextTid' = nextTid + 1
    /\ UNCHANGED <<ret, cursor, deadList, fileLock, machine, history>>

(* thread_create takes a page, and thread_lookup of the new tid returns    *)
(* it: until the parent comes back only the parent could free it.          *)
ThreadCreate(p) ==
    /\ At(p, "exec") /\ nextTid <= MaxTid
    /\ \E q \in Page :
          /\ pc[q] = "free"
          /\ thread' = [thread EXCEPT ![q] = NewThread(nextTid, p)]
          /\ pc' = [pc EXCEPT ![q] = "start", ![p] = "loading"]
          /\ child' = [child EXCEPT ![p] = q]
    /\ target' = [target EXCEPT ![p] = nextTid]
    /\ nextTid' = nextTid + 1
    /\ UNCHANGED <<ret, cursor, deadList, fileLock, machine, history>>

(* Back from sema_down (&t->load_sema).                                    *)
ExecDone(p) ==
    /\ At(p, "loading") /\ thread[child[p]].load_sema > 0
    /\ thread' = [thread EXCEPT ![child[p]].load_sema = @ - 1]
    /\ ExecReturns(p, IF thread[child[p]].load_status THEN target[p] ELSE TidError)
    /\ child' = [child EXCEPT ![p] = None]
    /\ target' = [target EXCEPT ![p] = 0]
    /\ UNCHANGED <<cursor, deadList, nextTid, machine, history>>

(* start_process: the program is loaded, or not.                           *)
StartProcess(p) ==
    /\ At(p, "start")
    /\ \E success \in BOOLEAN :
          /\ LoadSemaUp(p, success)
          /\ pc' = [pc EXCEPT ![p] = IF success THEN "run" ELSE "unloaded"]
          /\ loaded' = IF success THEN loaded \cup {thread[p].tid} ELSE loaded
    /\ UNCHANGED <<callVars, ret, cursor, deadList, fileLock, nextTid, machine,
                   ended, reaped>>

-----------------------------------------------------------------------------
(* Mutant: process_wait does not compare child->parent.                    *)
ProcessWaitAnyParent(p, t) ==
    /\ IF p = Main THEN At(p, "executed") /\ t = ret[p] ELSE At(p, "run")
    /\ \/ /\ \E q \in Proc :
                /\ pc[q] # "free" /\ thread[q].tid = t
                /\ child' = [child EXCEPT ![p] = q]
          /\ target' = [target EXCEPT ![p] = t]
          /\ pc' = [pc EXCEPT ![p] = "waiting"]
          /\ ret' = [ret EXCEPT ![p] = None]
       \/ /\ \A q \in Proc : pc[q] # "free" => thread[q].tid # t
          /\ ret' = [ret EXCEPT ![p] = -1]
          /\ pc' = [pc EXCEPT ![p] = "run"]
          /\ UNCHANGED callVars
    /\ UNCHANGED <<thread, cursor, deadList, fileLock, nextTid, machine, history>>

(* process_wait(t): the process thread_lookup finds, on all_list or        *)
(* dead_list, counts only if its parent pointer is the caller's page.      *)
ProcessWait(p, t) ==
    /\ IF p = Main THEN At(p, "executed") /\ t = ret[p] ELSE At(p, "run")
    /\ \/ /\ \E q \in Proc :
                /\ pc[q] # "free" /\ thread[q].tid = t /\ thread[q].parent = p
                /\ child' = [child EXCEPT ![p] = q]
          /\ target' = [target EXCEPT ![p] = t]
          /\ pc' = [pc EXCEPT ![p] = "waiting"]
          /\ ret' = [ret EXCEPT ![p] = None]
       \/ /\ \A q \in Proc : pc[q] # "free" /\ thread[q].tid = t => thread[q].parent # p
          /\ ret' = [ret EXCEPT ![p] = -1]
          /\ pc' = [pc EXCEPT ![p] = "run"]
          /\ UNCHANGED callVars
    /\ UNCHANGED <<thread, cursor, deadList, fileLock, nextTid, machine, history>>

(* Mutant: process_wait returns without thread_remove.                     *)
WaitDoneKeepsThread(p) ==
    /\ At(p, "waiting") /\ thread[child[p]].wait_sema > 0
    /\ ret' = [ret EXCEPT ![p] = thread[child[p]].exit_code]
    /\ thread' = [thread EXCEPT ![child[p]].wait_sema = @ - 1]
    /\ pc' = [pc EXCEPT ![p] = "run"]
    /\ reaped' = reaped \cup {target[p]}
    /\ child' = [child EXCEPT ![p] = None]
    /\ target' = [target EXCEPT ![p] = 0]
    /\ UNCHANGED <<cursor, deadList, fileLock, nextTid, machine, loaded, ended>>

(* Mutant: process_wait reads the exit code after thread_remove.           *)
WaitDoneReadsFreed(p) ==
    /\ At(p, "waiting") /\ thread[child[p]].wait_sema > 0
    /\ Freed(child[p])
    /\ ret' = [ret EXCEPT ![p] = thread'[child[p]].exit_code]
    /\ pc' = [pc EXCEPT ![p] = "run", ![child[p]] = "free"]
    /\ reaped' = reaped \cup {target[p]}
    /\ child' = [child EXCEPT ![p] = None]
    /\ target' = [target EXCEPT ![p] = 0]
    /\ UNCHANGED <<cursor, fileLock, nextTid, machine, loaded, ended>>

(* Back from sema_down (&child->wait_sema): the code, then thread_remove.  *)
WaitDone(p) ==
    /\ At(p, "waiting") /\ thread[child[p]].wait_sema > 0
    /\ ret' = [ret EXCEPT ![p] = thread[child[p]].exit_code]
    /\ Freed(child[p])
    /\ pc' = [pc EXCEPT ![p] = "run", ![child[p]] = "free"]
    /\ reaped' = reaped \cup {target[p]}
    /\ child' = [child EXCEPT ![p] = None]
    /\ target' = [target EXCEPT ![p] = 0]
    /\ UNCHANGED <<cursor, fileLock, nextTid, machine, loaded, ended>>

-----------------------------------------------------------------------------
(* handle_exit(code) up to its call of thread_exit.                        *)
HandleExit(p, code) ==
    /\ thread' = [thread EXCEPT ![p].exit_code = code]
    /\ ended' = [ended EXCEPT ![thread[p].tid] = code]
    /\ pc' = [pc EXCEPT ![p] = "exiting"]
    /\ ret' = [ret EXCEPT ![p] = None]

(* The exit system call, or an exception or a bad argument in user code.   *)
Exit(p) ==
    /\ p # Main /\ At(p, "run")
    /\ \E code \in Code \cup {-1} : HandleExit(p, code)
    /\ UNCHANGED <<callVars, cursor, deadList, fileLock, nextTid, machine,
                   loaded, reaped>>

(* handle_halt ends the process, with the exit code it has: the 0 of a new *)
(* struct thread.                                                          *)
Halt(p) ==
    /\ p # Main /\ At(p, "run")
    /\ HandleExit(p, thread[p].exit_code)
    /\ UNCHANGED <<callVars, cursor, deadList, fileLock, nextTid, machine,
                   loaded, reaped>>

(* process_execute reads its argument from user memory: the page fault of  *)
(* a bad pointer ends the process where it is, with file_lock.             *)
ExecBadPointer(p) ==
    /\ p # Main /\ At(p, "exec")
    /\ HandleExit(p, -1)
    /\ UNCHANGED <<callVars, cursor, deadList, fileLock, nextTid, machine,
                   loaded, reaped>>

(* start_process calls handle_exit (-1) after it told the parent.          *)
LoadFailed(p) ==
    /\ At(p, "unloaded")
    /\ HandleExit(p, -1)
    /\ UNCHANGED <<callVars, cursor, deadList, fileLock, nextTid, machine,
                   loaded, reaped>>

(* thread_exit, process_exit done, at the head of its loop.                *)
ThreadExit(p) ==
    /\ At(p, "exiting")
    /\ pc' = [pc EXCEPT ![p] = "reaping"]
    /\ cursor' = [cursor EXCEPT ![p] = IF deadList = <<>> THEN None ELSE Head(deadList)]
    /\ UNCHANGED <<thread, callVars, ret, deadList, fileLock, nextTid, machine, history>>

(* list_next on dead_list.                                                 *)
NextDead(q) ==
    LET i == CHOOSE j \in DOMAIN deadList : deadList[j] = q
    IN  IF i = Len(deadList) THEN None ELSE deadList[i + 1]

(* One turn of the loop: e moves on before its element is looked at, and   *)
(* interrupts are on, so e may be reaped by its parent before the next     *)
(* turn.                                                                   *)
ReapChild(p) ==
    /\ At(p, "reaping") /\ cursor[p] # None /\ pc[cursor[p]] = "dead"
    /\ cursor' = [cursor EXCEPT ![p] = NextDead(cursor[p])]
    /\ IF thread[cursor[p]].parent = p
       THEN Freed(cursor[p]) /\ pc' = [pc EXCEPT ![cursor[p]] = "free"]
       ELSE UNCHANGED <<thread, deadList, pc>>
    /\ UNCHANGED <<callVars, ret, fileLock, nextTid, machine, history>>

(* The loop follows the links of an element that was freed since: through  *)
(* the bytes of palloc_free_page it reads an unmapped address, and the     *)
(* page fault calls handle_exit (-1), which begins thread_exit again; in a *)
(* page that is used again, or in freeing twice what thread_exit has       *)
(* freed, an assertion fails.                                              *)
ReapFreed(p) ==
    /\ At(p, "reaping") /\ cursor[p] # None /\ pc[cursor[p]] # "dead"
    /\ \/ pc[cursor[p]] = "free" /\ HandleExit(p, -1) /\ UNCHANGED machine
       \/ machine' = "panic" /\ UNCHANGED <<thread, ended, pc, ret>>
    /\ cursor' = [cursor EXCEPT ![p] = None]
    /\ UNCHANGED <<callVars, deadList, fileLock, nextTid, loaded, reaped>>

(* Mutant: thread_exit does not up wait_sema.                              *)
ThreadDiesSilently(p) ==
    /\ At(p, "reaping") /\ cursor[p] = None
    /\ deadList' = Append(deadList, p)
    /\ pc' = [pc EXCEPT ![p] = "dead"]
    /\ UNCHANGED <<thread, callVars, ret, cursor, fileLock, nextTid, machine, history>>

(* The end of thread_exit, with interrupts off: from all_list to           *)
(* dead_list, and another thread runs; the page stays.                     *)
ThreadDies(p) ==
    /\ At(p, "reaping") /\ cursor[p] = None
    /\ deadList' = Append(deadList, p)
    /\ thread' = [thread EXCEPT ![p].wait_sema = @ + 1]
    /\ pc' = [pc EXCEPT ![p] = "dead"]
    /\ UNCHANGED <<callVars, ret, cursor, fileLock, nextTid, machine, history>>

(* After the last action main powers off; without -q or -r it calls        *)
(* thread_exit, where sema_up finds a waiters list never initialised and   *)
(* an assertion of list_next fails.                                        *)
MainEnds ==
    /\ At(Main, "run")
    /\ machine' \in {"off", "panic"}
    /\ UNCHANGED <<thread, pc, callVars, ret, cursor, deadList, fileLock, nextTid, history>>

-----------------------------------------------------------------------------
(* What user code, or the command line of the main thread, decides.        *)
UserCall(p) ==
    \/ Exec(p) \/ Exit(p) \/ Halt(p)
    \/ p # Main /\ \E t \in Tid : ProcessWait(p, t)

(* What a process does inside the kernel.                                  *)
KernelStep(p) ==
    \/ ExecFails(p) \/ ThreadCreate(p) \/ ExecBadPointer(p) \/ ExecDone(p)
    \/ StartProcess(p) \/ LoadFailed(p) \/ WaitDone(p)
    \/ ThreadExit(p) \/ ReapChild(p) \/ ReapFreed(p) \/ ThreadDies(p)
    \/ p = Main /\ ProcessWait(p, ret[p])

Next == MainEnds \/ \E p \in Proc : UserCall(p) \/ KernelStep(p)

Spec == Init /\ [][Next]_vars

-----------------------------------------------------------------------------
ThreadType ==
    [tid : 0..MaxTid, parent : Proc \cup {None}, exit_code : Code \cup {0, -1},
     load_status : BOOLEAN, load_sema : 0..1, wait_sema : 0..1]

PC == {"free", "start", "unloaded", "run", "exec", "loading", "executed",
       "waiting", "exiting", "reaping", "dead"}

(* Types; the pages on dead_list are those of the dead processes, each     *)
(* once, whichever parents reap whichever children meanwhile.              *)
ProcessTypeOK ==
    /\ thread \in [Proc -> ThreadType]
    /\ pc \in [Proc -> PC]
    /\ child \in [Proc -> Proc \cup {None}]
    /\ target \in [Proc -> 0..MaxTid]
    /\ ret \in [Proc -> Code \cup Tid \cup {None, 0, -1}]
    /\ cursor \in [Proc -> Proc \cup {None}]
    /\ deadList \in Seq(Proc)
    /\ fileLock \in Proc \cup {None}
    /\ nextTid \in 2..(MaxTid + 1)
    /\ machine \in {"up", "off", "panic"}
    /\ loaded \subseteq Tid /\ reaped \subseteq Tid
    /\ ended \in [Tid -> Code \cup {None, 0, -1}]
    /\ NoDuplicates(deadList) /\ ToSet(deadList) = {p \in Proc : pc[p] = "dead"}

(* While a process is blocked on a semaphore in its child's struct thread, *)
(* in process_execute or process_wait, the page is still that child's: no  *)
(* thread_remove of another process or loop of thread_exit has freed it.   *)
ChildPageKept ==
    \A p \in Proc : pc[p] \in {"loading", "waiting"} =>
        /\ pc[child[p]] # "free"
        /\ thread[child[p]].tid = target[p]

(* process_execute returns the tid of the new process if its program was   *)
(* loaded and TID_ERROR if not, even when the child has run on, ended and  *)
(* lost its own children before its parent comes back from sema_down.      *)
ExecReturnsLoad ==
    [][\A p \in Proc : pc[p] = "loading" /\ pc'[p] # "loading" =>
          /\ pc[child[p]] # "start"
          /\ ret'[p] = IF target[p] \in loaded THEN target[p] ELSE TidError]_vars

(* process_wait returns the code its child ended with, which is the last   *)
(* one handle_exit was called with for it.                                 *)
WaitReturnsExitCode ==
    [][\A p \in Proc : pc[p] = "waiting" /\ pc'[p] # "waiting" =>
          ended[target[p]] # None /\ ret'[p] = ended[target[p]]]_vars

(* process_wait never blocks for a process whose exit code was returned    *)
(* already, to this caller or to another: it returns -1 at once.           *)
WaitOnce ==
    \A p \in Proc : pc[p] = "waiting" => target[p] \notin reaped

(* A process stays blocked in process_execute exactly while its child has *)
(* not tried to load its program, and in process_wait exactly while its    *)
(* child is not dead: the one up of each semaphore is neither lost nor     *)
(* taken by another, so the parent always comes back.                      *)
ParentIsWoken ==
    \A p \in Proc :
        /\ pc[p] = "loading" =>
              (thread[child[p]].load_sema > 0 <=> pc[child[p]] # "start")
        /\ pc[p] = "waiting" =>
              (thread[child[p]].wait_sema > 0 <=> pc[child[p]] = "dead")
=============================================================================
