-------------------------------- MODULE Mlfqs --------------------------------
(***************************************************************************)
(* The other scheduler of threads/thread.c, which computes the priorities  *)
(* itself (thread_mlfqs is true): from the time that a thread has had,     *)
(* recent_cpu, how many threads there are to run, load_avg, and how nice   *)
(* the thread is.  What it shares with the first is Sched's.  Donation is  *)
(* off under this scheduler (synch.c), so locks have no part in it.        *)
(***************************************************************************)
EXTENDS Sched, FixedPoint

CONSTANTS
    Nice,            \* the arguments of thread_set_nice, NiceDefault apart
    NiceDefault,     \* NICE_DEFAULT
    TimerFreq,       \* TIMER_FREQ, the ticks of a second: 100 in the kernel
    MlfqsThread,     \* the threads there may be under this scheduler: a bound
    MaxTicks,        \* bound on the ticks under this scheduler
    LoadSpan         \* load_avg is averaged over so many seconds, 60 in the kernel

ASSUME MlfqsAssumption ==
    /\ Nice \subseteq Int /\ NiceDefault \in Int
    /\ TimerFreq \in Nat \ {0} /\ TimerFreq % 4 = 0 /\ MaxTicks \in Nat
    /\ MlfqsThread \subseteq Thread /\ Initial \in MlfqsThread
    /\ LoadSpan \in Nat \ {0}

VARIABLES
    thread_mlfqs,    \* the kernel's option -o mlfqs
    nice,            \* thread.nice
    recentCpu,       \* thread.recent_cpu
    loadAvg,         \* load_avg
    tick             \* timer_ticks()

mlfqsVars == <<nice, recentCpu, loadAvg, tick>>
allVars == <<schedVars, thread_mlfqs, mlfqsVars>>

-----------------------------------------------------------------------------
(* calculate_priority                                                      *)
CalculatePriority(recent, n) ==
    LET p == PriMax - IntOfReal(RealDiv(recent, RealOfInt(4))) - n * 2
    IN  IF p < PriMin THEN PriMin ELSE IF p > PriMax THEN PriMax ELSE p

(* calculate_recent_cpu, with the load average load                        *)
CalculateRecentCpu(recent, n, load) ==
    LET twice == RealMult(load, RealOfInt(2))
    IN  RealAdd(RealMult(recent, RealDiv(twice, RealAdd(twice, RealOfInt(1)))),
                RealOfInt(n))

(* The new load_avg, when so many threads are ready or running.            *)
CalculateLoadAvg(readyThreads) ==
    RealDiv(RealAdd(RealMult(RealOfInt(LoadSpan - 1), loadAvg), RealOfInt(readyThreads)),
            RealOfInt(LoadSpan))

(* recent_cpu of all threads after the running one is charged for a tick.  *)
Charged ==
    IF current = Idle THEN recentCpu
    ELSE [recentCpu EXCEPT ![current] = RealAdd(@, RealOfInt(1))]

-----------------------------------------------------------------------------
(* init_thread and thread_create: the thread is as nice as its creator.    *)
MlfqsCreate(t) ==
    /\ thread_mlfqs /\ Running(current) /\ current \in Thread /\ status[t] = "free"
    /\ nice' = [nice EXCEPT ![t] = nice[current]]
    /\ recentCpu' = [recentCpu EXCEPT ![t] = RealOfInt(0)]
    /\ LET prio == [priority EXCEPT ![t] = CalculatePriority(RealOfInt(0), nice[current])]
       IN  priority' = prio /\ UnblockAndMaybeYield(t, prio)
    /\ UNCHANGED <<oldPriority, sleepVars, pc, loadAvg, tick, thread_mlfqs>>

(* Mutant: a thread that becomes nicer keeps the processor.                *)
SetNiceNoYield(t, n) ==
    LET prio == [priority EXCEPT ![t] = CalculatePriority(recentCpu[t], n)]
    IN  /\ thread_mlfqs /\ Running(t)
        /\ nice' = [nice EXCEPT ![t] = n]
        /\ priority' = prio
        /\ UNCHANGED <<dispatchVars, oldPriority, sleepVars, pc, recentCpu, loadAvg, tick,
                       thread_mlfqs>>

(* thread_set_nice                                                         *)
SetNice(t, n) ==
    LET prio == [priority EXCEPT ![t] = CalculatePriority(recentCpu[t], n)]
    IN  /\ thread_mlfqs /\ Running(t)
        /\ nice' = [nice EXCEPT ![t] = n]
        /\ priority' = prio
        /\ IF prio[t] < priority[t] /\ readyList # <<>>
           THEN YieldFrom(readyList, status, prio)
           ELSE UNCHANGED dispatchVars
        /\ UNCHANGED <<oldPriority, sleepVars, pc, recentCpu, loadAvg, tick,
                       thread_mlfqs>>

(* thread_exit takes the thread off all_list; its page has nothing then.   *)
MlfqsExit(t) ==
    /\ thread_mlfqs /\ ThreadExit(t)
    /\ nice' = [nice EXCEPT ![t] = NiceDefault]
    /\ recentCpu' = [recentCpu EXCEPT ![t] = RealOfInt(0)]
    /\ UNCHANGED <<loadAvg, tick, thread_mlfqs>>

(* The threads on all_list.                                                *)
Listed(t) == status[t] \notin {"free", "dying"}

(* timer_interrupt and thread_tick: sleepers wake, the running thread is   *)
(* charged, then recent_cpu and load_avg are brought up to date if a second*)
(* is over, and the priorities every fourth tick.                          *)
MlfqsTick ==
    /\ thread_mlfqs /\ tick < MaxTicks
    /\ LET left == [t \in Thread |-> IF t \in sleepList THEN sleepLeft[t] - 1
                                                        ELSE sleepLeft[t]]
           due == {t \in sleepList : left[t] <= 0}
           now == tick + 1
           second == now % TimerFreq = 0
           load == IF ~second THEN loadAvg
                   ELSE CalculateLoadAvg(Len(readyList) + Cardinality(due)
                                             + (IF current = Idle THEN 0 ELSE 1))
           recent == [t \in AllThreads |->
                         IF second /\ Listed(t)
                         THEN CalculateRecentCpu(Charged[t], nice[t], load)
                         ELSE Charged[t]]
           prio == [t \in AllThreads |->
                       IF now % 4 = 0 /\ Listed(t) THEN CalculatePriority(recent[t], nice[t])
                       ELSE priority[t]]
       IN  \E woken \in Bijection(1 .. Cardinality(due), due) :
           /\ \A i, j \in DOMAIN woken :
                 i < j => WakesBefore(woken[i], woken[j], left)
           /\ sleepList' = sleepList \ due
           /\ sleepLeft' = [t \in Thread |-> IF t \in due THEN 0 ELSE left[t]]
           /\ tick' = now /\ loadAvg' = load /\ recentCpu' = recent /\ priority' = prio
           /\ IF \/ due # {}
                 \/ now % 4 = 0 /\ readyList # <<>>
                 \/ threadTicks + 1 >= TimeSlice
              THEN YieldFrom(readyList \o woken,
                             [t \in AllThreads |-> IF t \in due THEN "ready" ELSE status[t]],
                             prio)
              ELSE /\ threadTicks' = threadTicks + 1
                   /\ UNCHANGED <<current, status, readyList>>
           /\ UNCHANGED <<oldPriority, pc, nice, thread_mlfqs>>

-----------------------------------------------------------------------------
(* The state when thread_start() returns, under either scheduler;          *)
(* old_priority is not used under the second.                              *)
MlfqsInit ==
    /\ DispatchInit
    /\ thread_mlfqs \in BOOLEAN
    /\ nice = [t \in AllThreads |-> NiceDefault]
    /\ recentCpu = [t \in AllThreads |-> RealOfInt(0)]
    /\ loadAvg = RealOfInt(0) /\ tick = 0
    /\ IF thread_mlfqs
       THEN /\ priority = [t \in AllThreads |->
                              IF Listed(t) THEN CalculatePriority(recentCpu[t], nice[t])
                              ELSE PriDefault]
            /\ oldPriority = [t \in AllThreads |-> PriDefault]
       ELSE PriorityInit

(* What the two schedulers do alike.                                       *)
MlfqsDispatch(t) ==
    /\ thread_mlfqs
    /\ ThreadYield(t) \/ \E ticks \in SleepTicks : ThreadSleep(t, ticks)
    /\ UNCHANGED <<mlfqsVars, thread_mlfqs>>
MlfqsIdle == thread_mlfqs /\ IdleLoop /\ UNCHANGED <<mlfqsVars, thread_mlfqs>>

MlfqsNext ==
    \/ \E t \in MlfqsThread :
          \/ MlfqsCreate(t) \/ MlfqsExit(t) \/ MlfqsDispatch(t)
          \/ \E n \in Nice : SetNice(t, n)
    \/ MlfqsTick \/ MlfqsIdle

ByPriority(A) == ~thread_mlfqs /\ A /\ UNCHANGED <<mlfqsVars, thread_mlfqs>>

(* The fairness is that of SchedSpec; under mlfqs none is assumed.         *)
MlfqsSpec ==
    /\ MlfqsInit /\ [][MlfqsNext \/ ByPriority(SchedNext)]_allVars
    /\ WF_allVars(ByPriority(TimerInterrupt)) /\ WF_allVars(ByPriority(IdleLoop))

-----------------------------------------------------------------------------
(* The priority of a thread follows the processor time that it has had, as *)
(* real.c computes it: it is what the formula gives for its recent_cpu of  *)
(* now or of at most three ticks ago, rounded one way or the other.        *)
Clamped(p) == IF p < PriMin THEN PriMin ELSE IF p > PriMax THEN PriMax ELSE p
PriorityFollowsCpu ==
    thread_mlfqs => \A t \in AllThreads : Listed(t) =>
        LET share(r) == PriMax - nice[t] * 2 - r \div (4 * One)
            r == Exact(recentCpu[t])
        IN  /\ Clamped(share(r + 4 * One - 1)) <= priority[t]
            /\ priority[t] <= Clamped(share(r - 3 * One))

(* Round robin where threads set their priorities themselves: one that     *)
(* from some time on stays runnable, with no runnable thread above it,     *)
(* keeps getting the processor back.                                       *)
PriorityRoundRobin ==
    \A t \in Thread : <>[](OnTop(t) /\ ~thread_mlfqs) => []<>(current = t)
=============================================================================
