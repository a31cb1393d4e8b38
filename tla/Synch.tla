-------------------------------- MODULE Synch --------------------------------
(***************************************************************************)
(* Semaphores and locks with priority donation, threads/synch.c, running   *)
(* on the scheduler of Sched.                                              *)
(*                                                                         *)
(* sema_down, sema_up, the donation loop and thread_set_priority each run  *)
(* with interrupts off and are one action.  lock_acquire and lock_release  *)
(* do not: between their calls and assignments a thread can be preempted,  *)
(* and pc says where it then stands:                                       *)
(*    "run"     in client code                                             *)
(*    "down"    lock_acquire, donation done, about to call sema_down       *)
(*    "parked"  in sema_down, inside its call of thread_block              *)
(*    "own"     lock_acquire, sema_down returned, holder not yet set       *)
(*    "clear"   lock_acquire, holder set, waits_for still set              *)
(*    "reset"   lock_release, holder cleared, highest_priority not yet     *)
(*    "up"      lock_release, about to call sema_up                        *)
(*    "restore" lock_release, about to call thread_set_priority            *)
(*    "yield"   thread_set_priority, about to call thread_yield            *)
(***************************************************************************)
EXTENDS Sched

CONSTANTS
    Lock,            \* the locks, each also the name of its semaphore
    Sema,            \* the semaphores that belong to no lock
    None,            \* the null pointer
    MaxSemaValue     \* bound: a client ups a semaphore only below this value

ASSUME SynchAssumption ==
    /\ IsFiniteSet(Lock) /\ Lock \cap Sema = {}
    /\ None \notin Lock \cup Sema \cup Thread
    /\ MaxSemaValue \in Nat

VARIABLES
    value,           \* semaphore.value
    waiters,         \* semaphore.waiters
    holder,          \* lock.holder
    highestPriority, \* lock.highest_priority
    locks,           \* thread.locks; its order is never used, so a set
    waitsFor,        \* thread.waits_for
    target           \* the semaphore or lock of the call a thread is in

semaVars == <<value, waiters>>
lockVars == <<holder, highestPriority, locks, waitsFor>>
synchVars == <<value, waiters, holder, highestPriority, locks, waitsFor, target>>
vars == <<schedVars, synchVars>>

AllSemas == Lock \cup Sema

(* A thread comes back from thread_block with interrupts still off.        *)
InterruptsOn == pc[current] # "parked"

-----------------------------------------------------------------------------
(* One turn of the loop of sema_down(s): wait at the back of the list, or  *)
(* take one unit and go on.  Only the wait happens again on waking up.     *)
SemaDownBody(t, s) ==
    IF value[s] = 0
    THEN /\ waiters' = [waiters EXCEPT ![s] = Append(@, t)]
         /\ pc' = [pc EXCEPT ![t] = "parked"]
         /\ target' = [target EXCEPT ![t] = s]
         /\ Schedule(readyList, [status EXCEPT ![t] = "blocked"], priority)
         /\ UNCHANGED value
    ELSE /\ value' = [value EXCEPT ![s] = @ - 1]
         /\ pc' = [pc EXCEPT ![t] = IF s \in Lock THEN "own" ELSE "run"]
         /\ target' = [target EXCEPT ![t] = IF s \in Lock THEN s ELSE None]
         /\ UNCHANGED <<waiters, dispatchVars>>

(* Mutant: sema_up wakes a waiter only when the value was 0.               *)
SemaUpBodyFromZero(s) ==
    /\ value' = [value EXCEPT ![s] = @ + 1]
    /\ IF waiters[s] = <<>> \/ value[s] > 0
       THEN UNCHANGED <<waiters, dispatchVars>>
       ELSE \E w \in ToSet(waiters[s]) :
            /\ IsListMax(waiters[s], priority, w)
            /\ waiters' = [waiters EXCEPT ![s] = ListRemove(@, w)]
            /\ UnblockAndMaybeYield(w, priority)

(* Mutant: sema_up leaves the thread it wakes on the waiters list.         *)
SemaUpBodyNoRemove(s) ==
    /\ value' = [value EXCEPT ![s] = @ + 1]
    /\ UNCHANGED waiters
    /\ IF waiters[s] = <<>>
       THEN UNCHANGED dispatchVars
       ELSE \E w \in ToSet(waiters[s]) :
            IsListMax(waiters[s], priority, w) /\ UnblockAndMaybeYield(w, priority)

(* sema_up(s): one more unit, and the first of the waiters of the highest  *)
(* priority is made ready; it runs at once if it outranks the caller.      *)
SemaUpBody(s) ==
    /\ value' = [value EXCEPT ![s] = @ + 1]
    /\ IF waiters[s] = <<>>
       THEN UNCHANGED <<waiters, dispatchVars>>
       ELSE \E w \in ToSet(waiters[s]) :
            /\ IsListMax(waiters[s], priority, w)
            /\ waiters' = [waiters EXCEPT ![s] = ListRemove(@, w)]
            /\ UnblockAndMaybeYield(w, priority)

SemaDown(t, s) ==
    /\ Running(t)
    /\ SemaDownBody(t, s)
    /\ UNCHANGED <<sleepVars, priorityVars, lockVars>>

(* Mutant: the awakened thread takes the unit without looking again, as    *)
(* with "if" in the place of "while".                                      *)
SemaDownResumeNoRecheck(t) ==
    /\ current = t /\ pc[t] = "parked"
    /\ value' = [value EXCEPT ![target[t]] = @ - 1]
    /\ pc' = [pc EXCEPT ![t] = IF target[t] \in Lock THEN "own" ELSE "run"]
    /\ target' = [target EXCEPT ![t] = IF @ \in Lock THEN @ ELSE None]
    /\ UNCHANGED <<waiters, dispatchVars, sleepVars, priorityVars, lockVars>>

(* A thread that sema_up made ready runs again, inside sema_down.          *)
SemaDownResume(t) ==
    /\ current = t /\ pc[t] = "parked"
    /\ SemaDownBody(t, target[t])
    /\ UNCHANGED <<sleepVars, priorityVars, lockVars>>

SemaTryDown(t, s) ==
    /\ Running(t)
    /\ value[s] > 0
    /\ value' = [value EXCEPT ![s] = @ - 1]
    /\ UNCHANGED <<schedVars, waiters, lockVars, target>>

SemaUp(t, s) ==
    /\ Running(t)
    /\ value[s] < MaxSemaValue
    /\ SemaUpBody(s)
    /\ UNCHANGED <<sleepVars, priorityVars, pc, lockVars, target>>

-----------------------------------------------------------------------------
(* The locks that the loop of lock_acquire(l) raises to priority p: l, the *)
(* lock its holder waits for, and so on, up to the first that nobody holds *)
(* or that was given p already.  The loop marks each lock it passes, so it *)
(* ends on a cycle; Cardinality(Lock) hops reach every lock it can.        *)
DonationChain(l, p, waits) ==
    LET takes(m) == m \in Lock /\ holder[m] # None /\ highestPriority[m] < p
        hop[n \in 0 .. Cardinality(Lock)] ==
            IF n = 0 THEN l
            ELSE IF takes(hop[n - 1]) THEN waits[holder[hop[n - 1]]] ELSE None
    IN  {m \in Lock : takes(m) /\ \E n \in 0 .. Cardinality(Lock) : hop[n] = m}

(* lock_acquire(l) as far as the sema_down: announce and donate.           *)
LockAcquire(t, l) ==
    /\ Running(t)
    /\ holder[l] # t
    /\ waitsFor' = [waitsFor EXCEPT ![t] = l]
    /\ LET p == priority[t]
           chain == DonationChain(l, p, waitsFor')
       IN  /\ highestPriority' =
                  [m \in Lock |-> IF m \in chain THEN p ELSE highestPriority[m]]
           /\ priority' =
                  [u \in AllThreads |->
                      IF priority[u] < p /\ \E m \in chain : holder[m] = u
                      THEN p ELSE priority[u]]
    /\ pc' = [pc EXCEPT ![t] = "down"]
    /\ target' = [target EXCEPT ![t] = l]
    /\ UNCHANGED <<dispatchVars, sleepVars, oldPriority, semaVars, holder, locks>>

LockDown(t) ==
    /\ current = t /\ pc[t] = "down"
    /\ SemaDownBody(t, target[t])
    /\ UNCHANGED <<sleepVars, priorityVars, lockVars>>

LockSetHolder(t) ==
    /\ current = t /\ pc[t] = "own"
    /\ holder' = [holder EXCEPT ![target[t]] = t]
    /\ pc' = [pc EXCEPT ![t] = "clear"]
    /\ UNCHANGED <<dispatchVars, sleepVars, priorityVars, semaVars,
                   highestPriority, locks, waitsFor, target>>

(* waits_for is cleared and the lock listed; no other thread reads locks.  *)
LockAcquired(t) ==
    /\ current = t /\ pc[t] = "clear"
    /\ waitsFor' = [waitsFor EXCEPT ![t] = None]
    /\ locks' = [locks EXCEPT ![t] = @ \cup {target[t]}]
    /\ pc' = [pc EXCEPT ![t] = "run"]
    /\ target' = [target EXCEPT ![t] = None]
    /\ UNCHANGED <<dispatchVars, sleepVars, priorityVars, semaVars, holder,
                   highestPriority>>

-----------------------------------------------------------------------------
(* Mutant: lock_release does not clear holder.                             *)
LockReleaseKeepHolder(t, l) ==
    /\ Running(t)
    /\ holder[l] = t
    /\ pc' = [pc EXCEPT ![t] = "reset"]
    /\ target' = [target EXCEPT ![t] = l]
    /\ UNCHANGED <<dispatchVars, sleepVars, priorityVars, semaVars, lockVars>>

LockRelease(t, l) ==
    /\ Running(t)
    /\ holder[l] = t
    /\ holder' = [holder EXCEPT ![l] = None]
    /\ pc' = [pc EXCEPT ![t] = "reset"]
    /\ target' = [target EXCEPT ![t] = l]
    /\ UNCHANGED <<dispatchVars, sleepVars, priorityVars, semaVars,
                   highestPriority, locks, waitsFor>>

(* Mutant: lock_release leaves highest_priority as the waiters raised it.  *)
LockResetKeepPriority(t) ==
    /\ current = t /\ pc[t] = "reset"
    /\ locks' = [locks EXCEPT ![t] = @ \ {target[t]}]
    /\ pc' = [pc EXCEPT ![t] = "up"]
    /\ UNCHANGED <<dispatchVars, sleepVars, priorityVars, semaVars, holder,
                   highestPriority, waitsFor, target>>

LockReset(t) ==
    /\ current = t /\ pc[t] = "reset"
    /\ highestPriority' = [highestPriority EXCEPT ![target[t]] = PriMin]
    /\ locks' = [locks EXCEPT ![t] = @ \ {target[t]}]
    /\ pc' = [pc EXCEPT ![t] = "up"]
    /\ UNCHANGED <<dispatchVars, sleepVars, priorityVars, semaVars, holder,
                   waitsFor, target>>

(* Mutant: lock_release adds the unit without waking a waiter.             *)
LockUpNoWake(t) ==
    /\ current = t /\ pc[t] = "up"
    /\ value' = [value EXCEPT ![target[t]] = @ + 1]
    /\ pc' = [pc EXCEPT ![t] = "restore"]
    /\ target' = [target EXCEPT ![t] = None]
    /\ UNCHANGED <<waiters, dispatchVars, sleepVars, priorityVars, lockVars>>

LockUp(t) ==
    /\ current = t /\ pc[t] = "up"
    /\ SemaUpBody(target[t])
    /\ pc' = [pc EXCEPT ![t] = "restore"]
    /\ target' = [target EXCEPT ![t] = None]
    /\ UNCHANGED <<sleepVars, priorityVars, lockVars>>

Donated(t) == {highestPriority[l] : l \in locks[t]}

LockRestore(t) ==
    /\ current = t /\ pc[t] = "restore"
    /\ SetPriorityOf(t, oldPriority[t], Donated(t))
    /\ UNCHANGED <<dispatchVars, sleepVars, synchVars>>

SetPriorityLocked(t, p) ==
    /\ Running(t)
    /\ SetPriorityOf(t, p, Donated(t))
    /\ UNCHANGED <<dispatchVars, sleepVars, synchVars>>

-----------------------------------------------------------------------------
SynchInit ==
    /\ SchedInit
    /\ value \in {v \in [AllSemas -> 0 .. MaxSemaValue] : \A l \in Lock : v[l] = 1}
    /\ waiters = [s \in AllSemas |-> <<>>]
    /\ holder = [l \in Lock |-> None]
    /\ highestPriority = [l \in Lock |-> PriMin]
    /\ locks = [t \in Thread |-> {}]
    /\ waitsFor = [t \in Thread |-> None]
    /\ target = [t \in Thread |-> None]

(* A step that t takes inside the kernel, without a choice of its client.  *)
KernelStep(t) ==
    \/ SemaDownResume(t) \/ LockDown(t) \/ LockSetHolder(t) \/ LockAcquired(t)
    \/ LockReset(t) \/ LockUp(t) \/ LockRestore(t)
    \/ pc[t] = "yield" /\ ThreadYield(t) /\ UNCHANGED synchVars

(* A call a client makes.  A client leaves no lock behind when it exits.   *)
ClientCall(t) ==
    \/ \E s \in Sema : SemaDown(t, s) \/ SemaTryDown(t, s) \/ SemaUp(t, s)
    \/ \E l \in Lock : LockAcquire(t, l) \/ LockRelease(t, l)
    \/ \E p \in Priority : SetPriorityLocked(t, p)
    \/ /\ \/ pc[t] = "run" /\ ThreadYield(t)
          \/ \E ticks \in SleepTicks : ThreadSleep(t, ticks)
          \/ \E u \in Thread, p \in Priority : Running(t) /\ ThreadCreate(u, p)
          \/ locks[t] = {} /\ ThreadExit(t)
       /\ UNCHANGED synchVars

Interrupt == InterruptsOn /\ TimerInterrupt /\ UNCHANGED synchVars
SynchIdle == IdleLoop /\ UNCHANGED synchVars

SynchNext ==
    \/ \E t \in Thread : KernelStep(t) \/ ClientCall(t)
    \/ SynchIdle
    \/ Interrupt

SynchSpec == SynchInit /\ [][SynchNext]_vars

-----------------------------------------------------------------------------
PC == {"run", "down", "parked", "own", "clear", "reset", "up", "restore", "yield"}

(* Every variable of thread.c and synch.c has a value of its type.         *)
SynchTypeOK ==
    /\ current \in AllThreads
    /\ status \in [AllThreads -> Status]
    /\ priority \in [AllThreads -> Priority]
    /\ oldPriority \in [AllThreads -> Priority]
    /\ readyList \in Seq(Thread)
    /\ sleepList \in SUBSET Thread
    /\ sleepLeft \in [Thread -> Int]
    /\ threadTicks \in 0 .. TimeSlice - 1
    /\ pc \in [AllThreads -> PC]
    /\ value \in [AllSemas -> Nat]
    /\ waiters \in [AllSemas -> Seq(Thread)]
    /\ holder \in [Lock -> Thread \cup {None}]
    /\ highestPriority \in [Lock -> Priority]
    /\ locks \in [Thread -> SUBSET Lock]
    /\ waitsFor \in [Thread -> Lock \cup {None}]
    /\ target \in [Thread -> AllSemas \cup {None}]

(* t has a unit of l's semaphore: it has come out of the sema_down of      *)
(* lock_acquire and not yet gone into the sema_up of lock_release.         *)
Owns(t, l) ==
    \/ l \in locks[t]
    \/ pc[t] \in {"own", "clear", "up"} /\ target[t] = l

(* "A lock can be held by at most a single thread at any given time"       *)
(* (synch.c:171), through every window in which lock_acquire and           *)
(* lock_release can be preempted; and holder names nobody but the owner.   *)
MutualExclusion ==
    \A l \in Lock :
        /\ \A t, u \in Thread : Owns(t, l) /\ Owns(u, l) => t = u
        /\ holder[l] # None => Owns(holder[l], l)
        /\ value[l] = 1 <=> \A t \in Thread : ~Owns(t, l)

(* A blocked thread waits on exactly one semaphore, the one it called      *)
(* sema_down on, and only blocked threads are on a waiters list; with      *)
(* ElemOnOneList this is the exclusion that thread.h relies on to share    *)
(* thread.elem between the ready list and the waiters lists.               *)
WaitersAreBlocked ==
    \A s \in AllSemas :
        /\ NoDuplicates(waiters[s])
        /\ ToSet(waiters[s]) =
               {t \in Thread : status[t] = "blocked" /\ target[t] = s}

(* The threads that sema_up(s) made ready and that have not run since.     *)
Awakened(s) ==
    {t \in Thread : pc[t] = "parked" /\ target[t] = s /\ status[t] # "blocked"}

(* No wakeup is lost: while threads wait on a semaphore, for each unit of  *)
(* its value some thread has been awakened that has yet to look at it, so  *)
(* no unit lies there with nobody coming for it.                           *)
NoLostWakeup ==
    \A s \in AllSemas :
        waiters[s] # <<>> => value[s] <= Cardinality(Awakened(s))

(* The priority a thread runs with is the one it was set to or, if higher, *)
(* the highest donated to a lock it holds: donations to a chain of locks,  *)
(* releases in any order and thread_set_priority never leave one behind or *)
(* lose one.  "clear", "up" and "restore" are inside an update.            *)
EffectivePriority ==
    \A t \in Thread :
        pc[t] \notin {"clear", "up", "restore"} =>
            /\ priority[t] \in {oldPriority[t]} \cup Donated(t)
            /\ \A q \in {oldPriority[t]} \cup Donated(t) : q <= priority[t]

-----------------------------------------------------------------------------
(* The processor executes something between two ticks, so a thread that    *)
(* gets it again and again finishes the kernel code it is in; a tick that  *)
(* comes while interrupts are off is taken when they are on again.         *)
SynchFairSpec ==
    /\ SynchSpec
    /\ SF_vars(Interrupt) /\ WF_vars(SynchIdle)
    /\ \A t \in Thread : SF_vars(KernelStep(t))

(* The locks are AbstractLock's, seen through the owner of each semaphore  *)
(* unit; a lock is asked for until the sema_down that takes the unit.      *)
OwnerOf(l) == IF \E t \in Thread : Owns(t, l)
              THEN CHOOSE t \in Thread : Owns(t, l) ELSE None
WantedBy(t) == IF pc[t] \in {"down", "parked"} /\ target[t] \in Lock
               THEN target[t] ELSE None

Abstract == INSTANCE AbstractLock
    WITH Client <- Thread, owner <- [l \in Lock |-> OwnerOf(l)],
         wanting <- [t \in Thread |-> WantedBy(t)]

(* lock_acquire and lock_release refine the abstract lock: no step of the  *)
(* code grants a lock that is taken, or takes it away from its owner.      *)
ImplementsLock == Abstract!Safety

(* Between threads of one priority a lock that is free is not left free    *)
(* while threads ask for it, whatever the preemptions inside lock_acquire  *)
(* and lock_release and however often a barging thread takes it first.     *)
LockProgress == Abstract!Progress

-----------------------------------------------------------------------------
(* The design report says that a thread that wants a lock donates its      *)
(* priority to all the threads in the lock chain: a thread in client code  *)
(* then never has a lower priority than one that waits for a lock it holds.*)
DonationReachesHolder ==
    \A l \in Lock, t, u \in Thread :
        /\ holder[l] = u /\ pc[u] = "run"
        /\ t \in ToSet(waiters[l])
        => priority[t] <= priority[u]
=============================================================================
