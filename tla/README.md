# A verification project for the Pintos kernel

TLA+ models of the kernel in `src/src/pintos/src`, the TLC configurations that check them on
small instances, and theorems about them that TLAPS checks for every instance. Paths below
are relative to `src/src/pintos/src` unless they begin with `src/`.

## 1. The system

Pintos is a small kernel for one x86 processor. Threads share one address space in the
kernel and are preempted by the timer at any instruction at which interrupts are on;
there is no other parallelism. Four of the course's projects are done in this tree: threads
(priority scheduling with donation, mlfqs), user programs, virtual memory, file system.

| component | state | operations | depends on |
|---|---|---|---|
| scheduler, `threads/thread.c` | `ready_list`, `sleep_list`, the running thread, each thread's status, priority, deadline; `thread_ticks` | create, block, unblock, yield, sleep, exit, set priority, timer tick, idle loop | lists, timer interrupt |
| semaphores and locks, `threads/synch.c` | `value`, `waiters`; `holder`, `highest_priority`; `thread.locks`, `waits_for` | down, try_down, up; acquire, try_acquire, release | scheduler: they block and unblock, and donate priority |
| condition variables, `threads/synch.c` | `waiters` of semaphores on the stacks of waiting threads | wait, signal, broadcast | locks, semaphores |
| lists, `lib/kernel/list.c` | links embedded in the elements | push, remove, max, min | - |
| buffer cache, `filesys/cache.c` | `cache_table`, `victim_idx`, `read_list`, one lock for the table and two for each block | acquire, release, read, write, fillzero; threads `cache_flushd`, `cache_readd` | locks, conditions, disk |
| processes, `userprog/process.c`, `threads/thread.c` | `all_list`, `dead_list`, `parent`, `exit_code`, `load_sema`, `wait_sema` | execute, start, wait, exit | scheduler, semaphores, file system |
| system calls and descriptors, `userprog/syscall.c`, `fd.c` | `fd_list`, `fd_cnt`, `empty_fd_list`, `file_lock` | one handler for each call | processes, file system |
| page faults, `userprog/exception.c` | - | `page_fault`, `kill` | virtual memory, `thread_exit` |
| virtual memory, `vm/` | frame list, page tables, swap bitmap, `lock_ft` | fault, evict, swap in and out, free | disk, file system |
| inodes and free map, `filesys/inode.c`, `free-map.c` | `open_inodes`, counts, `removed`, sector bitmap | create, open, close, remove, read, write, deny_write | cache |
| files and directories, `filesys/` | directory entries | open, add, remove, look up, walk a path | inodes |
| disk, `devices/disk.c` | channel lock, `expecting_interrupt`, completion semaphore | read, write, interrupt handler | semaphores, interrupts |
| serial port and keyboard, `devices/serial.c`, `kbd.c`, `intq.c`, `input.c` | two ring buffers with the thread that waits for each, `mode`, the interrupt enable register | putc, flush, notify, getc, interrupt handlers | interrupts, scheduler |
| mlfqs scheduler, `threads/thread.c`, `lib/kernel/real.c` | `recent_cpu`, `nice`, `load_avg`, fixed-point numbers | tick, set nice, recalculate | scheduler |
| allocators, `threads/palloc.c`, `malloc.c` | page bitmaps, arenas, free lists | get, free | locks, bitmap |
| pure code, `lib/` | - | bitmap, hash, real, arithmetic, string, stdio | - |

What is hard about them: a thread can be preempted inside `lock_acquire`, `lock_release`,
`cond_wait` and every longer operation, so what one step read may be stale in the next;
`elem` of `struct thread` is linked into whichever list the thread is on; priorities move
along chains of locks; the cache is used by clients and two daemons at once, with three
locks that are taken in different orders and some data read without any. The properties
that make each component correct are stated beside its model, and `PROJECT.json` lists
under `hazards` where each of them could go wrong.

## 2. Modules

    KernelList -+- Sched -+- Synch                implements AbstractLock
                |         +- Mlfqs --- FixedPoint
                +- Condition                      implements AbstractMonitor
                +- Process
                +- VirtualMemory                  implements PrivateMemory
    Cache                                         implements AbstractStore
    Files    Serial    DiskChannel    Heap
    proofs   KernelListProofs  SynchProofs  ConditionProofs  ProcessProofs
             CacheProofs  VirtualMemoryProofs  FilesProofs  DevicesProofs
    TLC      MCSched  MCSynch  MCCondition  MCProcess  MCCache  MCCacheStore
             MCVirtualMemory  MCFiles  MCDevices

*Granularity.* A section of code that runs with interrupts off is one action, with the call
of `schedule()` that ends it; everything between two such sections can be preempted, and
`pc` says at which point of the code a thread stands. `Synch` shows that `lock_acquire` and
`lock_release` refine `AbstractLock`, so the modules above it take a lock to be one step
that waits until it is free and one that frees it. `Cache` takes `cond_wait` in the same
way to be what `Condition` shows it to be, and `Files` takes reads and writes of sectors to be
what `AbstractStore` says.

**KernelList** is `list.c` as far as the kernel uses it: a list is a sequence without
repetitions; `list_max` returns the first of the greatest elements, which is what the
scheduler's round robin rests on.

**Sched** is `thread.c`. `readyList`, `sleepList`, `current`, `status`, `priority`,
`oldPriority`, `threadTicks` are the variables and members of that name. `sleepLeft` is
`sleep_until` less the number of ticks so far, so that time needs no bound. `Thread` is the
set of pages that may hold a thread; a page without one has the status `"free"`. `Schedule`
is `schedule()` with `next_thread_to_run` and `schedule_tail`; `TimerInterrupt` is
`timer_interrupt` with `thread_tick` and the yield on return. A page is freed when its
thread has exited, as in a kernel built without user programs.

**Mlfqs** is the other half of `thread.c`, where `thread_mlfqs` is true: the tick charges the
running thread, recomputes `recent_cpu` and `load_avg` once a second (`TimerFreq`) and every
priority at each fourth tick, with the calls of `real.c` in the order of the code.
**FixedPoint** is `real.c`: a number is a sign and a magnitude, zero has the sign of the
negative numbers, and a sum keeps the sign of its left operand. `One` is the scale, 2^14 in
the code. `MlfqsSpec` begins with either scheduler and keeps it.

**Synch** adds `synch.c`: `SemaDown`, `SemaUp`, `SemaTryDown` are sections without interrupts;
`lock_acquire` is `LockAcquire` (the announcement and the donation loop), `LockDown`,
`LockSetHolder`, `LockAcquired`; `lock_release` is `LockRelease`, `LockReset`, `LockUp`,
`LockRestore` and the yield of `thread_set_priority`. The donation loop is a set,
`DonationChain`: the locks that it passes on its way from holder to awaited lock. A thread
that waits in `sema_down` looks at the value again when it runs (`SemaDownResume`), which
lets a third thread take the unit first.

**Condition** is `cond_wait`, `cond_signal` and `cond_broadcast`, one action for every call
they make. `unit` is the semaphore on a waiter's stack. `SignalChoice` keeps what
`sema_priority_less_func` does with a waiter that has not reached its `sema_down`: the list it
looks at is empty, and what it reads is any value in `Stray`. So a signal may pass over a
blocked waiter for one of a lower priority; that the highest is chosen is no property here.

**Cache** is `cache.c`, with `cache_flushd` and `cache_readd`. A sector's data is a function
from a few parts to a few values, so that a write that covers a part of the sector differs
from one that covers it all. The disk completes a transfer in one step.
The scan of `cache_victim` is one action for a block of its later rounds, since others change
the counters meanwhile; its first round only looks at `valid`, which nobody else changes.
`cache_fillzero` works without `data_lock` (`ZeroBegin`, `ZeroEnd`): when `cache_flush` is between
its `disk_write` and its `dirty = false`, a zeroed block is marked clean that the disk has the
old data of. `CleanIsOnDisk` is false with it, and `cache_store` has the other operations; the
kernel calls it for the sectors of a new file only. `cache_locks` has it.

**Process** is exec, wait and exit: `process.c`, its callers in `syscall.c` and
`exception.c`, and the `USERPROG` half of `thread_create` and `thread_exit`. A process is named
by the page of its `struct thread`, because a parent pointer is one: it outlives the process
it pointed to, and means another one when the page is used again. `thread` has the fields
these functions touch; `Freed` is `thread_remove`, which fills the page and gives it back.
User processes all have `PRI_DEFAULT`, so any of them may take the next step. `UserCall` is
what programs decide (exec, wait for any tid, exit, fault, halt), `KernelStep` what the kernel
does about it. The load is an outcome that `StartProcess` picks. The loop of `thread_exit`
over `dead_list` is a step for each turn, with the element that it is about to look at in
`cursor`: interrupts are on, so that element may be freed by its parent first. `ReapFreed`
says what the walk does then: it reads an unmapped address and the page fault ends the
process a second time, or an assertion stops the kernel. The model has three more ends that
the code has: `file_lock` stays with a process that gave exec a bad pointer, a later
process in that page fails the assertion of `lock_acquire`, and the main thread without `-q`
or `-r` fails one in `thread_exit`. `loaded`, `ended` and `reaped` are history, for
the properties.

What `process_wait` takes for a child is a process whose parent pointer is the caller's
page. A process in the page of a dead one can therefore wait for the orphans that one left,
which the comment at `process.c:186` denies. No property says that only one's own children
are waited for; `WaitOnce`, `ChildPageKept` and `WaitReturnsExitCode` hold for such a
wait as for any other.

**VirtualMemory** is demand paging: `vm/`, its callers `load_segment`, `setup_stack`,
`check_fault` and `thread_exit`, the user pool of `palloc.c` and the page directories. What
these do under `lock_ft` is cut at every point where something can be seen from outside:
between the unmapping of a victim, the choice of its slot and the write to the disk, and at
each entry that `frame_table_free` removes. What they do without the lock is there too:
`load_segment` reads the file into a frame that is on no list, `pagedir_destroy` frees frames
of which the frame list no longer knows, and user code reads and writes its mapped pages
at any time, also the page that is about to be evicted. `StoreBegin` is the processor coming to
an instruction that stores a value in a page, `storing`; `UserWrite` makes that store, if
the page is mapped and writable, and a page fault ends the instruction, which is begun again. Three assertions can stop the kernel
(`panic`): no frame on the list, an unmapped victim, no free slot; `MemoryIsAccounted`
says that the second never does. A page of the stack gets a frame of `victim` as it is, with
what another process had in it, against the comment at `process.c:573`; and a page that
was loaded read-only is writable once it has been swapped in, against `process.c:502`.
Neither is promised by `PrivateMemory`, which says that a page has any content when it first
comes to the process that waits for it. From then on `EndStore` alone changes it: only the store
that is visible in `storing` of its owner, at the page and with the value of that store, so that no
step of the paging or of another process may pass for a write. What is supplied a second time
is as it was, and pages go away at the exit of their own process only.

**Files** is open files: `inode.c`, `file.c`, `free-map.c`, `fd.c` and the system calls on
them, with one directory. A system call holds `file_lock` from its first look at the file
system; `process_exit` and `fd_process_exit` do without, so `inode_open` and `inode_close`
are cut where they read, count, unlink and free. An exiting process may bring the count of an
inode to 0 that another one has found in `open_inodes` and not counted yet
(`inode.c:172-182`), or that it has counted since: the inode is freed in use. After that nothing is
defined, so the model stops there with `freedInUse`; the properties say what holds until then.
Failed creates lose their data sectors (`filesys.c:63`), which `lost` records.

**Serial** is the serial port, the keyboard and both interrupt queues, with printing by
polling, by queue and from interrupt handlers. **DiskChannel** is one ATA channel with two
disks: lock, commands, the interrupt that may come before the thread waits for it, and, if
`noise`, spurious interrupts. **Heap** is `malloc` and `free` over `palloc.c`: descriptors,
arenas, big blocks, and pages freed one bit after the other without the pool's lock.
The UART and the ATA device are external code: their actions model what `serial.c` and `disk.c`
wait for.

**AbstractLock**, **AbstractMonitor**, **AbstractStore** and **PrivateMemory** say what these
components promise to their callers: a lock is granted when nobody has it and given back by
its owner; a monitor where waiting and giving back the lock are one step; a store of sectors,
each open to readers or to one writer, that keep what was last written; pages that belong to
one process and keep what it last stored. `AbstractStore` and `PrivateMemory` show, beside the
content, the write that is under way, and a content changes by such a write only.

## 3. What TLC checks

| run | question | properties |
|---|---|---|
| `sched` | both schedulers: three threads at three priorities with slices of two ticks, or two threads under mlfqs | `ElemOnOneList`: a thread is on the list of its status and on no other; `HighestPriorityRuns`: nobody ready outranks the running thread; `WakesIntoExecution`: a sleeper of the highest priority runs at once when it wakes; `PriorityRoundRobin`; `PriorityFollowsCpu`: priorities are what the formula gives for the recorded processor time |
| `synch_locks` | three threads, two locks, three priorities: nested locks, chains and cycles of waiting | `MutualExclusion` in every window; `WaitersAreBlocked`: waiters are the blocked threads; `EffectivePriority`: the priority is the own or the highest donated |
| `synch_live` | a lock and a semaphore, one priority, barging | `NoLostWakeup`; `ImplementsLock`; `LockProgress`: a free lock is granted |
| `condition` | three threads, two conditions | `FramesAlive`: list elements lie on living stacks; `ImplementsMonitor`; `BroadcastReachesAll` |
| `process` | the main thread and processes in three pages that are freed and used again, four tids | `ChildPageKept`: the page a parent is blocked on is still its child's; `ParentIsWoken` exactly when the child has loaded or is dead; `WaitOnce`; `ExecReturnsLoad`; `WaitReturnsExitCode` |
| `cache_store` | one block: two clients and both daemons on one sector of two parts, or one client and both daemons on two sectors | `ReadersWriter`: counters and exclusion; `NobodyStranded` in `cond_wait`; `CleanIsOnDisk`: clean blocks equal the disk; `ImplementsStore`; no deadlock |
| `cache_locks` | a client and the read-ahead daemon, three sectors, two blocks | `ReadersWriter` while blocks are replaced; `OneBlockPerSector` |
| `vm` | two processes of three pages each, two frames, two slots | `MemoryIsAccounted`: each frame in one place, each slot of one page, the frame list is what is mapped; `ImplementsPrivateMemory`: a page changes by its owner's stores only; `LockFtGivenBack` |
| `files` | two processes, two files, three sectors, two inodes in memory | `FilesTypeOK`; `CountsAreRight`: open counts and denials are those of the openers; `StorageIsExclusive`: a sector is of one file or free; `CheckStaysTrue`: a descriptor that was valid before `file_lock` is valid after; `ExecutablesAreNotWritten` |
| `devices` | the serial port, a disk channel, or the heap | `CharactersInOrder`; `WaitersAreTold`; `PrintedIsSent`; `ReaderIsServed`; `CommandsAreServed`; `DiskAnswers`; `HeapIsConsistent` |
| `synch_donation` | (violated) | a waiter's priority reaches the holder |
| `cache_victim` | (violated) | the block that is replaced is nobody's |

The type invariants of the modules with proofs are proved for all instances (section 4), and
not checked by a run. Every property has at least one mutant, a small wrong
version of a definition, in the same module and marked "Mutant", with which TLC finds it violated.

*Bounds.* Three threads are the fewest with which a thread can take a lock between a wakeup
and the awakened thread's run, and with which a donation passes along a chain of two locks.
Three priorities have one below and one above the default. `TimeSlice` is 2 in `sched` and 1
elsewhere, where any tick may preempt. Under mlfqs two threads (`MlfqsThread`) run for `MaxTicks` =
16 ticks, two seconds of `TimerFreq` = 8 ticks and four rounds of priorities; the scale
`One` = 4 keeps two binary digits, enough for rounding to show, and `LoadSpan` = 2 lets the
load average move within them. The threads of `synch_locks` do not sleep: sleeping is checked
in `sched`, and together with a lock and a semaphore in `synch_live`. `process` has three pages
and four tids: a parent, its child and a third process that may take the page of either, and
one tid more than pages, so that a page is used twice; with five tids the properties hold as
well (6.3 million states). One exit code suffices, beside the 0 and the -1 that the kernel
itself gives. `MaxSemaValue` bounds how far a client ups a semaphore and `MaxRequests` the list
of read-ahead requests.

Two sectors for one block make every access of `cache_store` a replacement; two parts make a
partial write. Two clients have one sector there, and one client has two (`access`,
`MCCacheStore`), because replacement under two clients does not keep the store: that is what
`cache_victim` shows. `cache_locks` checks what remains true of the locks then.

`vm` has two frames (`UserPages`) and two slots (`MAXDD`) for six pages: every load evicts, each
process loses pages to the other and to itself, and frames and slots both run out. `files` has
three sectors, one file with data and one without, or a file and one that was removed and is
still open; two inodes in memory; descriptors 3 and 4 (`FDSIZE` = 5), so that each process may have
one or one of them both. A queue of three places holds two characters, and `Count` = 5 numbers
them so that no two in flight have the same. Two callers, two disks and one more interrupt than
the driver expects (`MaxUps` = 1 ups that nobody has taken) show what a spurious one does. The
heap has four pages, two descriptors with one and two blocks in an arena, big blocks of two
pages, and at most four blocks in use (`MaxHeld`).

*Deadlock* is not checked in five runs, where the system may stop. `condition`: all threads
may wait. `process`: the machine is powered off or stops at an assertion, tids run out, and
`file_lock` may have been left behind. `cache_locks`: a thread waits in `cond_wait` for a
block it has just claimed, with `cache_lock` held. `vm`: an assertion stops the kernel. `files`:
`freedInUse`, and the disk may be full.

*Fairness.* `SchedSpec` assumes that the timer keeps ticking and that the idle loop goes on;
under mlfqs nothing is assumed and no liveness claimed, since a thread of nice 20 may starve
while others want the processor. `SynchFairSpec` adds that a thread which gets the processor
again and again finishes the kernel
code it is in, since between two ticks it executes something; strong fairness is needed since
a thread is not always the current one. Client code owes nothing: a thread may keep a lock for
ever. `FairSpec` of `Condition` says that a thread inside a call runs on, which is round robin
for threads of one priority. `VMFairSpec` says the same of the paging code, and that the disk
answers; user code owes nothing. The fairness of `DevicesSpec` is that of hardware and
interrupts: the UART transmits, a raised interrupt is taken, the disk finishes commands,
and a thread that was awakened runs. That the UART receives, or that anybody prints, is not assumed.
Nothing is assumed for `Process`: since a process may run for
ever, or die with `file_lock`, that exec and wait return is no liveness property there but
the invariant `ParentIsWoken`, that the semaphore is up as soon as the child has come so far.
Nothing is assumed for `Cache` and `Files` either: that no reader or writer is forgotten is the
invariant `NobodyStranded`.

*What the violated runs show.* `PROJECT.json`, `findings`, quotes for each the sentence of a
report that the code does not keep.

## 4. What is proved

| module | theorems | assumptions |
|---|---|---|
| `KernelListProofs` | lemmas on `ListRemove`, `IsListMax`, `Append` and duplicates | finite lists |
| `SynchProofs`, the scheduler | `SchedTypeCorrect`, `SchedListsExclusive`, `SchedHighestRuns`, `SchedWakes` | `SchedAssumption` |
| `SynchProofs`, either scheduler | `MlfqsListsExclusive`, `MlfqsHighestRuns`, `MlfqsWakes`, `MlfqsFollowsCpu` | `SchedAssumption`, `FixedPointAssumption`, `MlfqsAssumption` |
| `SynchProofs`, semaphores and locks | `SynchTypeCorrect`, `SynchMutualExclusion`, `SynchListsExclusive`, `SynchWaitersBlocked`, `SynchHighestRuns`, `SynchWakes`, `SynchEffectivePriority`, `SynchNoLostWakeup`, `SynchImplementsLock` | `SchedAssumption`, `SynchAssumption` |
| `ConditionProofs` | `CondTypeCorrect`, `CondFramesAlive`, `ConditionImplementsMonitor` | `ConditionAssumption` |
| `ProcessProofs` | `ProcInvariance`, `ProcessTypeCorrect`, `ChildPageIsKept`, `ParentIsAlwaysWoken`, `WaitedForOnce`, `ExecReturnsTheLoad`, `WaitReturnsTheCode` | `ProcessAssumption` |
| `CacheProofs` | `CacheInvariance`, `CacheTypeCorrect`, `SectorInOneBlock`, `CacheReadersWriter`, `CacheNobodyStranded`, `CacheIsStore`, `AccessesAreStore`, `CleanBlocksOnDisk` | `CacheAssumption`; the last three also `"fillzero" \notin Op` |
| `VirtualMemoryProofs` | `VMInvariance`, `VMTypeCorrect`, `MemoryAccounted`, `VMImplementsPrivateMemory` | `VMAssumption` |
| `FilesProofs` | `FilesInvHolds`, `FilesTypeCorrect`, `CheckHolds`, `StorageCorrect`, `CountsCorrect`, `ExecutablesStay` | `FilesAssumption` |
| `DevicesProofs` | `DiskServes`, `SerialTypeCorrect`, `SerialTellsWaiters`, `SerialKeepsOrder`, `HeapConsistent` | `DiskAssumption`, `SerialAssumption`, `HeapAssumption` |

The invariants are not inductive alone. Of the scheduler the three properties are proved
together: that the running thread has the highest priority needs that the ready list holds
the ready threads, each once, because `list_remove` takes away one occurrence. For semaphores and locks
the strengthening says for every value of `pc` what the thread has and waits for: the
unit of a lock's semaphore is with at most one thread, a blocked thread is on the list of
its `target`, and a unit in a semaphore with waiters has an awakened thread coming for it, which
`sema_up` re-establishes because it wakes a waiter for each unit. `WakesIntoExecution` is about single
ticks: a sleeper above all ready threads is the first of them after the merge of the woken,
and the tick's yield runs it.

Under mlfqs `MlfqsInv` adds `FollowsCpu`: the priority of a thread that exists is the formula's for
a `recent_cpu` which lies at most `tick % 4` whole ticks below the present one, so three at most, because
each tick adds at most one and every fourth computes the priorities anew. `QuarterFacts` bounds what
`calculate_priority` loses, rounding included: C's division rounds a negative `recent_cpu` towards zero,
and the sign that `real.c` keeps beside the value decides which way. `LoadFacts` and `RecentFacts` carry
the numbers through the second's boundary: `load_avg` never becomes negative, so the divisor
`2 * load_avg + 1` is positive whatever `nice` is. Both need that a dispatch neither
makes nor ends a thread (the `Alive` lemmas). The numbers are unbounded, in the proof as in the model.

In `ConditionProofs` the
invariant `CondInv` relates `owner` to `pc`, each element of a waiters list to its thread's
stage and unit, and the element in the hands of `cond_signal` to the list; the refinement of
the monitor follows step by step.

`ProcInv`, the invariant of `ProcessProofs`, has nine parts. `ChildKnown` says of a blocked
parent that its child's parent pointer is its page, which is why neither another process's
wait nor another's `thread_exit` frees the child, and `TidsDiffer` that no two pages in use
have one tid, so that `thread_lookup` finds the child. `SemasSay` gives both semaphores as a
function of how far the child and the parent have come, `LoadStatusOK` and `ExitCodeOK` relate
the two answers to the history, `ReapedGone` says that no page has the tid of a process whose
code was returned, and `DeadListOK` that `dead_list` is the dead processes. Each part is
proved by a lemma of its own, from what a step does to the fields that part reads.

`CacheInv` adds to the properties which stages go with which lock (`LockOK`: whoever looks up,
scans or claims has `cache_lock`) and that a thread which has missed stays right about it:
`MissOK` says that as long as it searches for a victim no valid block has the sector it wants.
`ReadersWriter` counts threads by stage, so that each step is a lemma on how the sets of
readers, writers and waiters of a block change, and their cardinalities with them. It holds
although a victim may be somebody's block: `VictimReset` leaves the counters alone. Up to
here the theorems are about `Cache!Spec`; `cache_store` checks two of them under `AccessSpec`, whose
steps are steps of `Spec`.

`ImplementsStore` and `CleanIsOnDisk` are false of `Cache!Spec`, for two reasons: `cache_fillzero`
does without `data_lock`, and `cache_victim` may choose a block that a thread is about to enter,
which the counters do not tell. `VictimIsFree` says of a step that it does not do the second.
`FreeVictimSpec` is `Spec` with such steps only, and `CacheIsStore` proves, without
`cache_fillzero`, that it refines `AbstractStore` for any cache and any threads: nothing else
stands between the cache and the store. `StoreInv` says what a thread relies on at its stage
(`ThreadsOK`: whoever has found a block or is in it finds it valid and with its own sector, and
`cache_flush` between its write and `dirty = false` finds the block as it wrote it), that nobody has found a
block which is another thread's victim (`VictimAlone`), and that a clean block equals the disk
unless a writer is about to replace all of it (`CleanOK`). The content of a sector is then that
of its dirty block, of which there is one at most, or the disk's; `KeepsDirty` and `ContentStays` show for
loads, read-ahead and replacement that it stays, and for both ends of a flush it is
the same before and after. For the accesses of `cache_store`, `AccessVictim` proves `VictimIsFree`: with
one sector a thread that looks for a victim contradicts `MissOK`, and with one client there is
nobody else. So `AccessesAreStore` and `CleanBlocksOnDisk` state the two properties of the run.

`VMInv` ties the tables together: `StageOK` says who has `lock_ft`, a frame or a page to fill, `MapOK`
that a page is mapped exactly if its table entry says so, the one on its way out apart
(`EvictOK`), `OnePlace` that every frame has one holder, which each step that moves a frame
replaces by another, `ContentOK` that what is mapped, or on its way, has content, and `StoreOK`
that a store is under way in user code only. The refinement goes by what a step does to the
page contents: nothing (`HiddenSteps`, with `MoveSteps` for the unmapping, the choice of a slot, the
write to the disk and the way back), a new content for the page its process waits for
(`SupplySteps`), the store of its process (`StoreMaps`), or their end at the exit of the process
(`ExitMaps`). That frames are in one place is what makes it go through: a store into one frame
changes no other page, and no slot is another page's.

`FilesInv` begins with control (`ControlInv`): at which stages a process has `file_lock`, what
it works on there and for which purpose, and that a free descriptor is in `empty_fd_list` once and
below `fd_cnt`, so that the index of `fd_acquire` is in bounds. For `open_cnt` the
argument is a function `Ref` from tokens, the descriptors, running programs and calls, to the
inode each has open: `OpenCntOK` says that the count is the number of tokens of the inode, and every step
moves one token at most. `CountsAreRight` follows by adding those who have counted themselves
off but have not yet cleared their descriptor. `DenyCntOK` counts the running programs in the same way.
`Filled`, `FillAlone`, `SectorFound` and `InodeLive` relate the inodes in memory to the disk: an
inode has the data of its sector unless its only opener is still reading it,
and stands for a file with a name exactly as long as it is not removed. From these follow
`StorageIsExclusive` for each way in which the set of files changes (a new file, a removed name, a last
close, a lost sector) and that a program's sectors are not written. `free_map_allocate` takes
the lowest free sectors; that there are lowest ones is by well-founded induction. All of this is proved up to
the first inode that is freed in use, where `Next` stops.

`DiskInv` says what the device is about at each stage of the lock's holder, and that a
write which a spurious interrupt has released early may go on into the next command's
`select_sector`. `WaitInv` is inductive as it stands.
`OrderInv` says for each direction that the ring holds the characters after the last one
taken up to the last one put, which are numbered; polling overtakes nothing because the queue is empty in
poll mode, and afterwards whoever polls sends the first character of the queue.

`HeapInv` says what each page is: `HeapArenas` that the blocks of an arena are those in the
free list of its descriptor, which `free_cnt` counts, and those in use or on their way through
`free`; `HeapBig` that the page after the first of a big block has no arena; and `HeapPages` that
`used_map` has the pages of arenas, of big blocks and of whoever still has bits to clear,
each at one thread. `HeapStages` and `HeapLocks` add that a list and the arenas on it change under the
descriptor's lock alone, so that the head which `PopBlock` takes is there. When the last block of an arena comes
back, `free_cnt + 1` blocks of its page are listed or in hand, and these are all it has, by
cardinality: so none is in use when the page goes. The bits are cleared without the pool's lock; the
proof shows why that is harmless here, since nobody looks for a page that is still set.

Only model-checked: the liveness properties (`PriorityRoundRobin`, `LockProgress`,
`BroadcastReachesAll`, `LockFtGivenBack`, `PrintedIsSent`, `ReaderIsServed`, `DiskAnswers`).

## 5. What is not modelled

| code | why |
|---|---|
| `lock_try_acquire`; `list_sort`, `list_merge`, `list_unique`; `real_sub`, `real_minus`, `real_less_func` | nothing calls them |
| the two halves of an assignment or of a list operation preempted in the middle, as in `init_thread` (`thread.c:745`), `fd_cnt++`, `open_inodes` | the modules take each as one step; the hazards name the places |
| `inode_read_at`, `inode_write_at`, `read`, `seek`, `tell` | arithmetic on positions, of one file under one lock |
| paths, subdirectories, working directories, `mkdir`, `chdir`, `readdir` | one directory is enough for the counts and sectors that `Files` is about; what two of these calls do to one directory without `file_lock` is a hazard without a property |
| the ELF loader, the arguments on the stack, command lines that do not fit on one page | conversion of data of one process |
| which addresses are growth of the stack | a set of pages, `Growth` |
| overflow of fixed-point numbers | `recent_cpu` times 100 leaves the word above 655; the model's numbers are not bounded |
| failures of `malloc` and `palloc_get_page` in the kernel | only where they lead somewhere: `load`, `inode_open`, `malloc` itself, `victim` |
| the reset and detection of disks, the calibration of the timer, boot, interrupt entry, descriptor tables, display and clock | hardware set-up that runs once, or has no state that threads share |
| the C library, console and `fsutil.c` but for the file that is put on the disk | sequential code |
| tests, examples, host tools, the Bochs emulator | not part of the kernel; Bochs is vendored and is nine tenths of the C and C++ lines of this tree, so that a model of the whole kernel would cover a small share of them |

What a continuation would add first: directories whose entries two processes change without
`file_lock`; and the steps inside `list_push_back` and `list_remove` for the three lists that are
changed with interrupts on (`all_list`, `dead_list`, `open_inodes`).
