------------------------------ MODULE Condition ------------------------------
(***************************************************************************)
(* Condition variables, threads/synch.c: one lock, the conditions that go  *)
(* with it, and the semaphore that each thread in cond_wait has on its     *)
(* stack.  The lock is what Synch shows lock_acquire and lock_release to   *)
(* be, a step that takes it when it is free and a step that frees it; a    *)
(* thread can be preempted between any two steps.  pc:                     *)
(*    "out", "in"  client code, without and with the lock                  *)
(*    "release"    cond_wait, on the waiters list, lock still held         *)
(*    "down"       cond_wait, lock released, sema_down not yet called      *)
(*    "parked"     cond_wait, in sema_down, blocked                        *)
(*    "woken"      cond_wait, in sema_down, made ready by sema_up          *)
(*    "reacquire"  cond_wait, sema_down returned, in lock_acquire          *)
(*    "unlink"     cond_signal, sema_up done, list_remove not yet called   *)
(*    "unlinkAll"  the same, in a turn of the loop of cond_broadcast       *)
(*    "loop"       cond_broadcast, at the head of its loop                 *)
(***************************************************************************)
EXTENDS KernelList, FiniteSets

CONSTANTS
    Thread, Cond,
    None,            \* the null pointer
    Prio,            \* Prio[t]: the priority of t, which stays the same here
    Stray            \* what reading a priority that is not there may yield

ASSUME ConditionAssumption ==
    /\ None \notin Thread /\ None \notin Cond
    /\ Prio \in [Thread -> Int] /\ Stray \subseteq Int /\ Stray # {}

VARIABLES
    owner,           \* the thread that has the lock
    pc,
    cond,            \* the argument cond of the call a thread is in
    waiters,         \* condition.waiters
    unit,            \* the value of the semaphore on the thread's stack
    picked           \* e in cond_signal

vars == <<owner, pc, cond, waiters, unit, picked>>

-----------------------------------------------------------------------------
LockAcquire(t) ==
    /\ pc[t] = "out" /\ owner = None
    /\ owner' = t
    /\ pc' = [pc EXCEPT ![t] = "in"]
    /\ UNCHANGED <<cond, waiters, unit, picked>>

LockRelease(t) ==
    /\ pc[t] = "in"
    /\ owner' = None
    /\ pc' = [pc EXCEPT ![t] = "out"]
    /\ UNCHANGED <<cond, waiters, unit, picked>>

(* cond_wait(c), one action for each of its steps.                         *)
CondWait(t, c) ==
    /\ pc[t] = "in"
    /\ unit' = [unit EXCEPT ![t] = 0]
    /\ waiters' = [waiters EXCEPT ![c] = Append(@, t)]
    /\ cond' = [cond EXCEPT ![t] = c]
    /\ pc' = [pc EXCEPT ![t] = "release"]
    /\ UNCHANGED <<owner, picked>>

WaitRelease(t) ==
    /\ pc[t] = "release"
    /\ owner' = None
    /\ pc' = [pc EXCEPT ![t] = "down"]
    /\ UNCHANGED <<cond, waiters, unit, picked>>

WaitDown(t) ==
    /\ pc[t] \in {"down", "woken"}
    /\ IF unit[t] = 0
       THEN pc' = [pc EXCEPT ![t] = "parked"] /\ UNCHANGED unit
       ELSE /\ pc' = [pc EXCEPT ![t] = "reacquire"]
            /\ unit' = [unit EXCEPT ![t] = @ - 1]
    /\ UNCHANGED <<owner, cond, waiters, picked>>

(* Mutant: cond_wait returns without the lock.                             *)
WaitReacquireNoLock(t) ==
    /\ pc[t] = "reacquire"
    /\ pc' = [pc EXCEPT ![t] = "in"]
    /\ cond' = [cond EXCEPT ![t] = None]
    /\ UNCHANGED <<owner, waiters, unit, picked>>

WaitReacquire(t) ==
    /\ pc[t] = "reacquire" /\ owner = None
    /\ owner' = t
    /\ pc' = [pc EXCEPT ![t] = "in"]
    /\ cond' = [cond EXCEPT ![t] = None]
    /\ UNCHANGED <<waiters, unit, picked>>

-----------------------------------------------------------------------------
(* list_max by sema_priority_less_func.  It compares the priorities of the *)
(* first threads on the waiters lists of two semaphores; the list of a     *)
(* thread that has not reached its sema_down is empty, and since the       *)
(* function looks at a copy of it list_front returns the list's own tail   *)
(* as if that were a thread.                                               *)
SignalChoice(c, e) ==
    \E stray \in [{t \in ToSet(waiters[c]) : pc[t] # "parked"} -> Stray] :
        IsListMax(waiters[c],
                  [t \in Thread |-> IF t \in DOMAIN stray THEN stray[t]
                                                        ELSE Prio[t]],
                  e)

(* The body of cond_signal up to the end of its sema_up; next is the stage *)
(* at which the caller then stands.                                        *)
SignalOne(t, c, next) ==
    \E e \in ToSet(waiters[c]) :
        /\ SignalChoice(c, e)
        /\ unit' = [unit EXCEPT ![e] = @ + 1]
        /\ pc' = [pc EXCEPT ![t] = next,
                            ![e] = IF @ = "parked" THEN "woken" ELSE @]
        /\ cond' = [cond EXCEPT ![t] = c]
        /\ picked' = [picked EXCEPT ![t] = e]
        /\ UNCHANGED <<owner, waiters>>

(* Mutant: a signal is sent by a thread that does not have the lock.       *)
CondSignalUnlocked(t, c) == pc[t] \in {"in", "out"} /\ SignalOne(t, c, "unlink")

CondSignal(t, c) == pc[t] = "in" /\ SignalOne(t, c, "unlink")

CondBroadcast(t, c) ==
    /\ pc[t] = "in"
    /\ pc' = [pc EXCEPT ![t] = "loop"]
    /\ cond' = [cond EXCEPT ![t] = c]
    /\ UNCHANGED <<owner, waiters, unit, picked>>

BroadcastLoop(t) ==
    /\ pc[t] = "loop"
    /\ \/ waiters[cond[t]] # <<>> /\ SignalOne(t, cond[t], "unlinkAll")
       \/ /\ waiters[cond[t]] = <<>>
          /\ pc' = [pc EXCEPT ![t] = "in"]
          /\ cond' = [cond EXCEPT ![t] = None]
          /\ UNCHANGED <<owner, waiters, unit, picked>>

(* Mutant: cond_broadcast is over after its first turn.                    *)
CondUnlinkOnce(t) ==
    /\ pc[t] \in {"unlink", "unlinkAll"}
    /\ waiters' = [waiters EXCEPT ![cond[t]] = ListRemove(@, picked[t])]
    /\ pc' = [pc EXCEPT ![t] = "in"]
    /\ cond' = [cond EXCEPT ![t] = None]
    /\ picked' = [picked EXCEPT ![t] = None]
    /\ UNCHANGED <<owner, unit>>

(* list_remove(e), the end of cond_signal.                                 *)
CondUnlink(t) ==
    /\ pc[t] \in {"unlink", "unlinkAll"}
    /\ waiters' = [waiters EXCEPT ![cond[t]] = ListRemove(@, picked[t])]
    /\ pc' = [pc EXCEPT ![t] = IF @ = "unlinkAll" THEN "loop" ELSE "in"]
    /\ cond' = [cond EXCEPT ![t] = IF pc[t] = "unlinkAll" THEN @ ELSE None]
    /\ picked' = [picked EXCEPT ![t] = None]
    /\ UNCHANGED <<owner, unit>>

-----------------------------------------------------------------------------
Init ==
    /\ owner = None
    /\ pc = [t \in Thread |-> "out"]
    /\ cond = [t \in Thread |-> None]
    /\ waiters = [c \in Cond |-> <<>>]
    /\ unit = [t \in Thread |-> 0]
    /\ picked = [t \in Thread |-> None]

(* A step inside a call that does not wait for the lock.                   *)
KernelStep(t) == WaitRelease(t) \/ WaitDown(t) \/ BroadcastLoop(t) \/ CondUnlink(t)

Next ==
    \E t \in Thread :
        \/ LockAcquire(t) \/ LockRelease(t) \/ WaitReacquire(t) \/ KernelStep(t)
        \/ \E c \in Cond : CondWait(t, c) \/ CondSignal(t, c) \/ CondBroadcast(t, c)

Spec == Init /\ [][Next]_vars

(* Threads of one priority take turns, so a thread inside a call runs on.  *)
FairSpec == Spec /\ \A t \in Thread : WF_vars(KernelStep(t))

-----------------------------------------------------------------------------
InWait == {"release", "down", "parked", "woken", "reacquire"}
Inside == {"in", "release", "unlink", "unlinkAll", "loop"}

(* Every variable has a value of its type; the semaphore on the stack of a *)
(* thread in cond_wait never gets a second unit.                           *)
CondTypeOK ==
    /\ owner \in Thread \cup {None}
    /\ pc \in [Thread -> InWait \cup Inside \cup {"out"}]
    /\ cond \in [Thread -> Cond \cup {None}]
    /\ waiters \in [Cond -> Seq(Thread)]
    /\ unit \in [Thread -> 0 .. 1]
    /\ picked \in [Thread -> Thread \cup {None}]

(* The elements of a waiters list lie on the stacks of threads that are    *)
(* still in cond_wait for that condition, although cond_signal calls       *)
(* sema_up before list_remove; and the element that cond_signal has yet to *)
(* remove is one of them.                                                  *)
FramesAlive ==
    /\ \A c \in Cond :
          /\ NoDuplicates(waiters[c])
          /\ \A t \in ToSet(waiters[c]) : pc[t] \in InWait /\ cond[t] = c
    /\ \A t \in Thread :
          pc[t] \in {"unlink", "unlinkAll"} => picked[t] \in ToSet(waiters[cond[t]])

(* The monitor that AbstractMonitor states.  The lock is given back and    *)
(* the wait begins when lock_release is done; a thread that is signalled   *)
(* before it gets to its sema_down is notified all the same.               *)
Waiting(c) ==
    {t \in Thread : cond[t] = c /\ pc[t] \in {"down", "parked"} /\ unit[t] = 0}
Notified ==
    {t \in Thread : \/ pc[t] \in {"down", "woken"} /\ unit[t] = 1
                   \/ pc[t] = "reacquire"}

Monitor == INSTANCE AbstractMonitor
    WITH Client <- Thread, notified <- Notified,
         waiting <- [c \in Cond |-> Waiting(c)]

(* "Atomically releases LOCK and waits for COND to be signaled", and       *)
(* "After COND is signaled, LOCK is reacquired before returning"           *)
(* (synch.c:332-334), for each interleaving of the steps of cond_wait,     *)
(* cond_signal and cond_broadcast.                                         *)
ImplementsMonitor == Monitor!Spec

(* Every thread that waits when cond_broadcast begins comes out of its     *)
(* wait and only needs the lock then, whether it was blocked already or    *)
(* was preempted on its way to sema_down.                                  *)
BroadcastReachesAll ==
    \A t, w \in Thread :
        (pc[t] = "loop" /\ w \in Waiting(cond[t])) ~> pc[w] = "reacquire"
=============================================================================
