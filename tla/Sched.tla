-------------------------------- MODULE Sched --------------------------------
(***************************************************************************)
(* The thread scheduler of threads/thread.c on its single processor, with  *)
(* priorities set by the threads themselves (thread_mlfqs is false).       *)
(*                                                                         *)
(* A section of code that runs with interrupts off is one action, the call *)
(* of schedule() that ends it included; the timer interrupt may come       *)
(* between any two actions.  The operators that take a thread or a list as *)
(* a parameter are the bodies that Synch shares; SchedSpec at the end is   *)
(* the scheduler alone, driven by threads that hold no lock.               *)
(***************************************************************************)
EXTENDS KernelList, FiniteSets

CONSTANTS
    Thread,          \* the pages that may hold a struct thread, Idle's apart
    Idle,            \* idle_thread
    Initial,         \* initial_thread, the one that runs main()
    PriMin, PriDefault, PriMax,
    TimeSlice,       \* TIME_SLICE
    SleepTicks       \* the arguments threads pass to timer_sleep

ASSUME SchedAssumption ==
    /\ IsFiniteSet(Thread) /\ Idle \notin Thread /\ Initial \in Thread
    /\ PriMin \in Int /\ PriDefault \in Int /\ PriMax \in Int
    /\ PriMin <= PriDefault /\ PriDefault <= PriMax
    /\ TimeSlice \in Nat \ {0}
    /\ SleepTicks \subseteq Int

VARIABLES
    current,         \* the running thread
    status,          \* thread.status; "free" where the page holds no thread
    priority,        \* thread.priority
    oldPriority,     \* thread.old_priority, the one set without donation
    readyList,       \* ready_list
    sleepList,       \* sleep_list; its order only breaks ties, so a set
    sleepLeft,       \* thread.sleep_until less the tick count
    threadTicks,     \* thread_ticks, ticks since the last switch
    pc               \* where in the kernel's code each thread stands

dispatchVars == <<current, status, readyList, threadTicks>>
sleepVars == <<sleepList, sleepLeft>>
priorityVars == <<priority, oldPriority>>
schedVars == <<current, status, priority, oldPriority, readyList, sleepList,
               sleepLeft, threadTicks, pc>>

Priority == PriMin .. PriMax
AllThreads == Thread \cup {Idle}
Status == {"free", "running", "ready", "blocked", "sleep", "dying"}

-----------------------------------------------------------------------------
(* Mutant: the thread chosen to run stays on the ready list.               *)
ScheduleNoRemove(ready, st, prio) ==
    /\ threadTicks' = 0
    /\ readyList' = ready
    /\ \E next \in IF ready = <<>> THEN {Idle} ELSE ToSet(ready) :
          /\ next = Idle \/ IsListMax(ready, prio, next)
          /\ current' = next
          /\ status' = [st EXCEPT ![next] = "running"]

(* next_thread_to_run(), schedule() and schedule_tail().  ready, st and    *)
(* prio are the ready list, the statuses and the priorities at the call.   *)
Schedule(ready, st, prio) ==
    /\ threadTicks' = 0
    /\ IF ready = <<>>
       THEN /\ current' = Idle
            /\ readyList' = ready
            /\ status' = [st EXCEPT ![Idle] = "running"]
       ELSE \E next \in ToSet(ready) :
            /\ IsListMax(ready, prio, next)
            /\ current' = next
            /\ readyList' = ListRemove(ready, next)
            /\ status' = [st EXCEPT ![next] = "running"]

(* thread_yield(): the idle thread never enters the ready list.            *)
YieldFrom(ready, st, prio) ==
    Schedule(IF current = Idle THEN ready ELSE Append(ready, current),
             [st EXCEPT ![current] = "ready"], prio)

(* Mutant: no yield to a thread that outranks the running one.             *)
UnblockOnly(w, prio) ==
    /\ readyList' = Append(readyList, w)
    /\ status' = [status EXCEPT ![w] = "ready"]
    /\ UNCHANGED <<current, threadTicks>>

(* thread_unblock(w) and then, as sema_up and thread_create do, a yield    *)
(* when w outranks the running thread.                                     *)
UnblockAndMaybeYield(w, prio) ==
    LET ready == Append(readyList, w)
        st == [status EXCEPT ![w] = "ready"]
    IN  IF prio[current] < prio[w]
        THEN YieldFrom(ready, st, prio)
        ELSE /\ readyList' = ready /\ status' = st
             /\ UNCHANGED <<current, threadTicks>>

(* thread_set_priority(new), up to the point where it turns interrupts     *)
(* back on; donated holds highest_priority of each lock of t.              *)
SetPriorityOf(t, new, donated) ==
    \E p \in {new} \cup donated :
        /\ \A q \in {new} \cup donated : q <= p
        /\ oldPriority' = [oldPriority EXCEPT ![t] = new]
        /\ priority' = [priority EXCEPT ![t] = p]
        /\ pc' = [pc EXCEPT ![t] = IF p < priority[t] THEN "yield" ELSE "run"]

-----------------------------------------------------------------------------
(* What a thread does while it runs client code.                           *)
Running(t) == current = t /\ pc[t] = "run"

(* thread_create: the page t becomes a thread of priority p.  allocate_tid *)
(* takes tid_lock like any client of Synch does; the rest is one section.  *)
ThreadCreate(t, p) ==
    /\ status[t] = "free"
    /\ LET prio == [priority EXCEPT ![t] = p]
       IN  /\ priority' = prio
           /\ oldPriority' = [oldPriority EXCEPT ![t] = p]
           /\ UnblockAndMaybeYield(t, prio)
    /\ UNCHANGED <<sleepVars, pc>>

(* thread_yield, called by a client or at the end of thread_set_priority.  *)
ThreadYield(t) ==
    /\ current = t /\ pc[t] \in {"run", "yield"}
    /\ YieldFrom(readyList, status, priority)
    /\ pc' = [pc EXCEPT ![t] = "run"]
    /\ UNCHANGED <<sleepVars, priorityVars>>

(* timer_sleep(ticks), which is thread_sleep(timer_ticks() + ticks); ticks *)
(* that come between the two calls have the effect of a smaller argument.  *)
ThreadSleep(t, ticks) ==
    /\ Running(t)
    /\ sleepLeft' = [sleepLeft EXCEPT ![t] = ticks]
    /\ sleepList' = sleepList \cup {t}
    /\ Schedule(readyList, [status EXCEPT ![t] = "sleep"], priority)
    /\ UNCHANGED <<priorityVars, pc>>

(* thread_exit of a kernel thread; schedule_tail frees every page but      *)
(* initial_thread's.  What is left in the page is never read again, and is *)
(* PriDefault here.                                                        *)
ThreadExit(t) ==
    /\ Running(t)
    /\ Schedule(readyList,
                [status EXCEPT ![t] = IF t = Initial THEN "dying" ELSE "free"],
                priority)
    /\ priority' = [priority EXCEPT ![t] = PriDefault]
    /\ oldPriority' = [oldPriority EXCEPT ![t] = PriDefault]
    /\ UNCHANGED <<sleepVars, pc>>

(* One round of idle(): block, and so run whatever has become ready.       *)
IdleLoop ==
    /\ current = Idle
    /\ Schedule(readyList, [status EXCEPT ![Idle] = "blocked"], priority)
    /\ UNCHANGED <<sleepVars, priorityVars, pc>>

-----------------------------------------------------------------------------
(* The order in which thread_tick empties sleep_list: list_min by          *)
(* thread_sleep_less_func, earlier deadline first, then higher priority.   *)
WakesBefore(s, t, left) ==
    \/ left[s] < left[t]
    \/ left[s] = left[t] /\ priority[s] >= priority[t]

(* Mutant: a tick that wakes threads yields only at the end of the slice.  *)
TimerInterruptNoYield ==
    LET left == [t \in Thread |-> IF t \in sleepList THEN sleepLeft[t] - 1
                                                     ELSE sleepLeft[t]]
        due == {t \in sleepList : left[t] <= 0}
        st == [t \in AllThreads |-> IF t \in due THEN "ready" ELSE status[t]]
    IN  \E woken \in Bijection(1 .. Cardinality(due), due) :
        /\ sleepList' = sleepList \ due
        /\ sleepLeft' = [t \in Thread |-> IF t \in due THEN 0 ELSE left[t]]
        /\ IF threadTicks + 1 >= TimeSlice
           THEN YieldFrom(readyList \o woken, st, priority)
           ELSE /\ threadTicks' = threadTicks + 1
                /\ readyList' = readyList \o woken
                /\ status' = st
                /\ UNCHANGED current
        /\ UNCHANGED <<priorityVars, pc>>

(* timer_interrupt and thread_tick, and the yield on return from the       *)
(* interrupt.                                                              *)
TimerInterrupt ==
    LET left == [t \in Thread |-> IF t \in sleepList THEN sleepLeft[t] - 1
                                                     ELSE sleepLeft[t]]
        due == {t \in sleepList : left[t] <= 0}
    IN  \E woken \in Bijection(1 .. Cardinality(due), due) :
        /\ \A i, j \in DOMAIN woken :
              i < j => WakesBefore(woken[i], woken[j], left)
        /\ sleepList' = sleepList \ due
        /\ sleepLeft' = [t \in Thread |-> IF t \in due THEN 0 ELSE left[t]]
        /\ IF due # {} \/ threadTicks + 1 >= TimeSlice
           THEN YieldFrom(readyList \o woken,
                          [t \in AllThreads |->
                              IF t \in due THEN "ready" ELSE status[t]],
                          priority)
           ELSE /\ threadTicks' = threadTicks + 1
                /\ UNCHANGED <<current, status, readyList>>
        /\ UNCHANGED <<priorityVars, pc>>

-----------------------------------------------------------------------------
(* The state when thread_start() returns.                                  *)
DispatchInit ==
    /\ current = Initial
    /\ status = [t \in AllThreads |-> IF t = Initial THEN "running"
                                      ELSE IF t = Idle THEN "blocked"
                                      ELSE "free"]
    /\ readyList = <<>>
    /\ sleepList = {}
    /\ sleepLeft = [t \in Thread |-> 0]
    /\ threadTicks = 0
    /\ pc = [t \in AllThreads |-> "run"]
PriorityInit ==
    /\ priority = [t \in AllThreads |-> IF t = Idle THEN PriMin ELSE PriDefault]
    /\ oldPriority = priority
SchedInit == DispatchInit /\ PriorityInit

SetPriority(t, p) ==
    /\ Running(t)
    /\ SetPriorityOf(t, p, {})
    /\ UNCHANGED <<dispatchVars, sleepVars>>

Create == \E t \in Thread, p \in Priority :
    current \in Thread /\ Running(current) /\ ThreadCreate(t, p)

SchedNext ==
    \/ Create
    \/ \E t \in Thread : 
          \/ ThreadYield(t)
          \/ ThreadExit(t)
          \/ \E ticks \in SleepTicks : ThreadSleep(t, ticks)
          \/ \E p \in Priority : SetPriority(t, p)
    \/ IdleLoop
    \/ TimerInterrupt

(* The timer ticks for ever, and the idle thread goes round its loop.      *)
SchedSpec ==
    /\ SchedInit /\ [][SchedNext]_schedVars
    /\ WF_schedVars(TimerInterrupt) /\ WF_schedVars(IdleLoop)

-----------------------------------------------------------------------------
(* Every variable of thread.c and struct thread has a value of its type.   *)
SchedTypeOK ==
    /\ current \in AllThreads
    /\ status \in [AllThreads -> Status]
    /\ priority \in [AllThreads -> Priority]
    /\ oldPriority \in [AllThreads -> Priority]
    /\ readyList \in Seq(Thread)
    /\ sleepList \in SUBSET Thread
    /\ sleepLeft \in [Thread -> Int]
    /\ threadTicks \in 0 .. TimeSlice - 1
    /\ pc \in [AllThreads -> {"run", "yield"}]

(* thread.h says of thread.elem that the lists a thread may be on are      *)
(* mutually exclusive and follow its status: the ready list holds the      *)
(* ready threads, each once, the sleep list the sleeping ones, and the     *)
(* running thread, which is on neither, is the only one of that status.    *)
ElemOnOneList ==
    /\ NoDuplicates(readyList)
    /\ ToSet(readyList) = {t \in Thread : status[t] = "ready"}
    /\ sleepList = {t \in Thread : status[t] = "sleep"}
    /\ \A t \in AllThreads : status[t] = "running" <=> t = current

(* The scheduler never leaves a ready thread waiting behind a running one  *)
(* of lower priority, nor any behind the idle thread; the one exception is *)
(* the stretch of thread_set_priority between restoring interrupts and     *)
(* thread_yield, where the running thread has lowered itself.              *)
HighestPriorityRuns ==
    \A t \in ToSet(readyList) :
        /\ current # Idle
        /\ priority[t] <= priority[current] \/ pc[current] = "yield"

(* A thread is runnable and no runnable thread is above it.                *)
Runnable(t) == status[t] \in {"ready", "running"}
OnTop(t) ==
    /\ Runnable(t)
    /\ \A u \in Thread : Runnable(u) => priority[u] <= priority[t]

(* timer_sleep: a sleeper that outranks every other thread is running      *)
(* again, not merely ready, as soon as the tick that wakes it returns (the *)
(* priorities are those after the tick, which the mlfqs scheduler changes).*)
WakesIntoExecution ==
    [][\A t \in sleepList :
           /\ t \notin sleepList'
           /\ \A u \in Thread \ {t} : status[u] # "free" => priority'[u] < priority'[t]
           => current' = t]_schedVars
=============================================================================
