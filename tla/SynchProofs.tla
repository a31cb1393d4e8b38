----------------------------- MODULE SynchProofs -----------------------------
(***************************************************************************)
(* Proofs about Sched, Mlfqs and Synch.  The first part says what the      *)
(* shared bodies do to the ready list and the statuses, and is about       *)
(* Sched; the second is about the priorities that the scheduler computes;  *)
(* the proofs about Synch follow, each after those it needs: the types,    *)
(* then who owns a lock, then the lists and the priorities.                *)
(***************************************************************************)
EXTENDS Synch, Mlfqs, KernelListProofs, FiniteSetTheorems

(* The list ready holds the threads of status "ready", each once.          *)
Filed(ready, st) ==
    /\ ready \in Seq(Thread)
    /\ NoDuplicates(ready)
    /\ ToSet(ready) = {t \in Thread : st[t] = "ready"}

(* next and nobody else is running.                                        *)
Runs(next, st) == \A t \in AllThreads : st[t] = "running" <=> t = next

(* The step leaves each thread's status as st has it, but for an exchange  *)
(* of "ready" and "running".                                               *)
Rotates(st) ==
    \A t \in Thread : \/ status'[t] = st[t]
                      \/ /\ st[t] \in {"ready", "running"}
                         /\ status'[t] \in {"ready", "running"}

-----------------------------------------------------------------------------
LEMMA EmptyList == ToSet(<<>>) = {} /\ NoDuplicates(<<>>)
  BY DEF ToSet, NoDuplicates

LEMMA ScheduleFacts ==
    ASSUME SchedAssumption,
           NEW ready \in Seq(Thread), NEW st \in [AllThreads -> Status], NEW prio,
           Schedule(ready, st, prio)
    PROVE  /\ current' \in AllThreads
           /\ readyList' \in Seq(Thread)
           /\ status' = [st EXCEPT ![current'] = "running"]
           /\ status' \in [AllThreads -> Status]
           /\ threadTicks' \in 0 .. TimeSlice - 1
           /\ \/ current' = Idle /\ ready = <<>>
              \/ current' \in ToSet(ready)
           /\ NoDuplicates(ready) =>
                 /\ NoDuplicates(readyList')
                 /\ ToSet(readyList') = ToSet(ready) \ {current'}
<1>1. threadTicks' \in 0 .. TimeSlice - 1
  BY DEF Schedule, SchedAssumption
<1>2. CASE ready = <<>>
  <2>1. current' = Idle /\ readyList' = <<>> /\ status' = [st EXCEPT ![Idle] = "running"]
    BY <1>2 DEF Schedule
  <2>2. status' \in [AllThreads -> Status]
    BY <2>1 DEF AllThreads, Status
  <2> QED
    BY <1>1, <1>2, <2>1, <2>2, EmptyList DEF AllThreads
<1>3. CASE ready # <<>>
  <2>1. PICK next \in ToSet(ready) :
            /\ current' = next
            /\ readyList' = ListRemove(ready, next)
            /\ status' = [st EXCEPT ![next] = "running"]
    BY <1>3 DEF Schedule
  <2>2. next \in Thread
    BY DEF ToSet
  <2>3. status' \in [AllThreads -> Status]
    BY <2>1 DEF Status
  <2>4. readyList' \in Seq(Thread)
    BY <2>1, ListRemoveType
  <2>5. NoDuplicates(ready) => /\ NoDuplicates(readyList')
                               /\ ToSet(readyList') = ToSet(ready) \ {current'}
    BY <2>1, ListRemoveFacts
  <2> QED
    BY <1>1, <2>1, <2>2, <2>3, <2>4, <2>5 DEF AllThreads
<1> QED
  BY <1>2, <1>3

LEMMA YieldType ==
    ASSUME SchedAssumption, current \in AllThreads,
           NEW ready \in Seq(Thread), NEW st \in [AllThreads -> Status], NEW prio,
           YieldFrom(ready, st, prio)
    PROVE  /\ current' \in AllThreads
           /\ readyList' \in Seq(Thread)
           /\ status' \in [AllThreads -> Status]
           /\ threadTicks' \in 0 .. TimeSlice - 1
<1> DEFINE r == IF current = Idle THEN ready ELSE Append(ready, current)
           s == [st EXCEPT ![current] = "ready"]
<1>1. r \in Seq(Thread)
  BY DEF AllThreads
<1>2. s \in [AllThreads -> Status]
  BY DEF Status
<1>3. Schedule(r, s, prio)
  BY DEF YieldFrom
<1> HIDE DEF r, s
<1> QED
  BY <1>1, <1>2, <1>3, ScheduleFacts

LEMMA UnblockType ==
    ASSUME SchedAssumption, current \in AllThreads,
           readyList \in Seq(Thread), status \in [AllThreads -> Status],
           threadTicks \in 0 .. TimeSlice - 1,
           NEW w \in Thread, NEW prio, UnblockAndMaybeYield(w, prio)
    PROVE  /\ current' \in AllThreads
           /\ readyList' \in Seq(Thread)
           /\ status' \in [AllThreads -> Status]
           /\ threadTicks' \in 0 .. TimeSlice - 1
<1> DEFINE r == Append(readyList, w)
           s == [status EXCEPT ![w] = "ready"]
<1>1. r \in Seq(Thread)
  OBVIOUS
<1>2. s \in [AllThreads -> Status]
  BY DEF Status
<1>3. CASE prio[current] < prio[w]
  <2>1. YieldFrom(r, s, prio)
    BY <1>3 DEF UnblockAndMaybeYield
  <2> HIDE DEF r, s
  <2> QED
    BY <1>1, <1>2, <2>1, YieldType
<1>4. CASE ~(prio[current] < prio[w])
  BY <1>1, <1>2, <1>4 DEF UnblockAndMaybeYield
<1> QED
  BY <1>3, <1>4

-----------------------------------------------------------------------------
LEMMA ScheduleFiles ==
    ASSUME SchedAssumption, NEW ready, NEW st \in [AllThreads -> Status], NEW prio,
           Filed(ready, st), \A t \in AllThreads : st[t] # "running",
           Schedule(ready, st, prio)
    PROVE  Filed(readyList', status') /\ Runs(current', status') /\ Rotates(st)
<1>1. ready \in Seq(Thread) /\ NoDuplicates(ready)
      /\ ToSet(ready) = {t \in Thread : st[t] = "ready"}
  BY DEF Filed
<1>2. /\ current' \in AllThreads
      /\ readyList' \in Seq(Thread)
      /\ status' = [st EXCEPT ![current'] = "running"]
      /\ current' = Idle \/ current' \in ToSet(ready)
      /\ NoDuplicates(readyList') /\ ToSet(readyList') = ToSet(ready) \ {current'}
  BY <1>1, ScheduleFacts
<1>3. \A t \in AllThreads : status'[t] = IF t = current' THEN "running" ELSE st[t]
  BY <1>2
<1>4. Filed(readyList', status')
  BY <1>1, <1>2, <1>3 DEF Filed, AllThreads
<1>5. Runs(current', status')
  BY <1>3 DEF Runs
<1>6. Rotates(st)
  BY <1>1, <1>2, <1>3 DEF Rotates, AllThreads, SchedAssumption
<1> QED
  BY <1>4, <1>5, <1>6

LEMMA YieldFiles ==
    ASSUME SchedAssumption, current \in AllThreads,
           NEW ready, NEW st \in [AllThreads -> Status], NEW prio,
           Filed(ready, st), Runs(current, st), YieldFrom(ready, st, prio)
    PROVE  Filed(readyList', status') /\ Runs(current', status') /\ Rotates(st)
<1> DEFINE r == IF current = Idle THEN ready ELSE Append(ready, current)
           s == [st EXCEPT ![current] = "ready"]
<1>1. s \in [AllThreads -> Status] /\ \A t \in AllThreads : s[t] # "running"
  BY DEF Status, Runs
<1>2. Filed(r, s)
  <2>1. CASE current = Idle
    BY <2>1 DEF Filed, SchedAssumption
  <2>2. CASE current # Idle
    <3>1. current \in Thread /\ current \notin ToSet(ready)
      BY <2>2 DEF AllThreads, Filed, Runs
    <3>2. /\ Append(ready, current) \in Seq(Thread)
          /\ ToSet(Append(ready, current)) = ToSet(ready) \cup {current}
          /\ NoDuplicates(Append(ready, current))
      BY <3>1, PushBackFacts DEF Filed
    <3> QED
      BY <2>2, <3>1, <3>2 DEF Filed, AllThreads
  <2> QED
    BY <2>1, <2>2
<1>3. Schedule(r, s, prio)
  BY DEF YieldFrom
<1>4. \A t \in Thread : s[t] = IF t = current THEN "ready" ELSE st[t]
  BY DEF AllThreads
<1> HIDE DEF r, s
<1>5. Filed(readyList', status') /\ Runs(current', status') /\ Rotates(s)
  BY <1>1, <1>2, <1>3, ScheduleFiles
<1>6. Rotates(st)
  BY <1>4, <1>5 DEF Rotates, Runs, AllThreads
<1> QED
  BY <1>5, <1>6

LEMMA UnblockFiles ==
    ASSUME SchedAssumption, current \in AllThreads, status \in [AllThreads -> Status],
           Filed(readyList, status), Runs(current, status),
           NEW w \in Thread, status[w] \notin {"ready", "running"},
           NEW prio, UnblockAndMaybeYield(w, prio)
    PROVE  /\ Filed(readyList', status') /\ Runs(current', status')
           /\ Rotates([status EXCEPT ![w] = "ready"])
<1> DEFINE r == Append(readyList, w)
           s == [status EXCEPT ![w] = "ready"]
<1>1. /\ s \in [AllThreads -> Status]
      /\ \A t \in AllThreads : s[t] = IF t = w THEN "ready" ELSE status[t]
  BY DEF Status, AllThreads
<1>2. Runs(current, s)
  BY <1>1 DEF Runs
<1>3. Filed(r, s)
  <2>1. /\ r \in Seq(Thread) /\ ToSet(r) = ToSet(readyList) \cup {w}
        /\ NoDuplicates(r)
    BY PushBackFacts DEF Filed
  <2> QED
    BY <1>1, <2>1 DEF Filed, AllThreads
<1>4. CASE prio[current] < prio[w]
  <2>1. YieldFrom(r, s, prio)
    BY <1>4 DEF UnblockAndMaybeYield
  <2> HIDE DEF r, s
  <2> QED
    BY <1>1, <1>2, <1>3, <2>1, YieldFiles DEF s
<1>5. CASE ~(prio[current] < prio[w])
  <2>1. readyList' = r /\ status' = s /\ current' = current
    BY <1>5 DEF UnblockAndMaybeYield
  <2> QED
    BY <1>2, <1>3, <2>1 DEF Rotates
<1> QED
  BY <1>4, <1>5

-----------------------------------------------------------------------------
(* The types of the variables a dispatch touches, and of the sleep list.   *)
DispatchType ==
    /\ current \in AllThreads
    /\ status \in [AllThreads -> Status]
    /\ readyList \in Seq(Thread)
    /\ threadTicks \in 0 .. TimeSlice - 1

SleepType == sleepList \in SUBSET Thread /\ sleepLeft \in [Thread -> Int]

(* The lists of thread.c are those of the threads' statuses.               *)
Lists ==
    /\ Filed(readyList, status)
    /\ Runs(current, status)
    /\ sleepList = {t \in Thread : status[t] = "sleep"}

LEMMA ListsAreElemOnOneList == Lists => ElemOnOneList
  BY DEF Lists, Filed, Runs, ElemOnOneList

LEMMA TimerFacts ==
    ASSUME SchedAssumption, DispatchType, SleepType, TimerInterrupt
    PROVE  /\ DispatchType' /\ SleepType'
           /\ Lists => /\ Lists'
                       /\ \A t \in Thread :
                             \/ status'[t] = status[t]
                             \/ /\ status[t] \in {"ready", "running", "sleep"}
                                /\ status'[t] \in {"ready", "running"}
<1> DEFINE left == [t \in Thread |-> IF t \in sleepList THEN sleepLeft[t] - 1
                                                        ELSE sleepLeft[t]]
           due == {t \in sleepList : left[t] <= 0}
           n == Cardinality(due)
           st == [t \in AllThreads |-> IF t \in due THEN "ready" ELSE status[t]]
           yields == due # {} \/ threadTicks + 1 >= TimeSlice
<1>1. left \in [Thread -> Int]
  BY DEF SleepType
<1>2. due \in SUBSET Thread /\ due \subseteq sleepList
  BY DEF SleepType
<1>3. n \in Nat
  BY <1>2, FS_Subset, FS_CardinalityType DEF SchedAssumption
<1>4. st \in [AllThreads -> Status]
  BY DEF DispatchType, Status
<1>5. PICK woken \in Bijection(1 .. n, due) :
          /\ sleepList' = sleepList \ due
          /\ sleepLeft' = [t \in Thread |-> IF t \in due THEN 0 ELSE left[t]]
          /\ IF yields THEN YieldFrom(readyList \o woken, st, priority)
                       ELSE /\ threadTicks' = threadTicks + 1
                            /\ UNCHANGED <<current, status, readyList>>
  BY DEF TimerInterrupt
<1>6. SleepType'
  BY <1>1, <1>2, <1>5 DEF SleepType
<1>7. \A t \in Thread : st[t] = IF t \in due THEN "ready" ELSE status[t]
  BY DEF AllThreads
<1>8. st[Idle] = status[Idle]
  BY <1>2 DEF AllThreads, SchedAssumption
<1>9. yields \in BOOLEAN /\ (~yields => threadTicks + 1 < TimeSlice /\ due = {})
  BY DEF DispatchType, SchedAssumption
<1> HIDE DEF left, due, n, st, yields
<1>10. /\ readyList \o woken \in Seq(Thread)
       /\ ToSet(readyList \o woken) = ToSet(readyList) \cup due
       /\ /\ NoDuplicates(readyList)
          /\ ToSet(readyList) \cap due = {}
          => NoDuplicates(readyList \o woken)
  BY <1>2, <1>3, ConcatFacts DEF DispatchType
<1>11. CASE yields
  <2>1. YieldFrom(readyList \o woken, st, priority)
    BY <1>5, <1>11
  <2>2. DispatchType'
    BY <1>4, <1>10, <2>1, YieldType DEF DispatchType
  <2>3. ASSUME Lists
        PROVE  /\ Lists'
               /\ \A t \in Thread :
                      \/ status'[t] = status[t]
                      \/ /\ status[t] \in {"ready", "running", "sleep"}
                         /\ status'[t] \in {"ready", "running"}
    <3>1. \A t \in due : status[t] = "sleep"
      BY <1>2, <2>3 DEF Lists
    <3>2. Filed(readyList \o woken, st)
      BY <1>2, <1>7, <1>10, <2>3, <3>1 DEF Lists, Filed
    <3>3. Runs(current, st)
      BY <1>7, <1>8, <2>3, <3>1 DEF Lists, Runs, AllThreads
    <3>4. Filed(readyList', status') /\ Runs(current', status') /\ Rotates(st)
      BY <1>4, <2>1, <3>2, <3>3, YieldFiles DEF DispatchType
    <3>5. sleepList' = {t \in Thread : status'[t] = "sleep"}
      BY <1>2, <1>5, <1>7, <2>3, <3>4 DEF Lists, Rotates
    <3>6. \A t \in Thread : \/ status'[t] = status[t]
                            \/ /\ status[t] \in {"ready", "running", "sleep"}
                               /\ status'[t] \in {"ready", "running"}
      BY <1>7, <3>1, <3>4 DEF Rotates
    <3> QED
      BY <3>4, <3>5, <3>6 DEF Lists
  <2> QED
    BY <1>6, <2>2, <2>3
<1>12. CASE ~yields
  <2>1. /\ threadTicks' = threadTicks + 1 /\ threadTicks + 1 < TimeSlice
        /\ UNCHANGED <<current, status, readyList, sleepList>>
    BY <1>5, <1>9, <1>12
  <2>2. DispatchType'
    BY <2>1 DEF DispatchType, SchedAssumption
  <2>3. Lists => Lists'
    BY <2>1 DEF Lists, Filed, Runs
  <2> QED
    BY <1>6, <2>1, <2>2, <2>3
<1> QED
  BY <1>9, <1>11, <1>12

-----------------------------------------------------------------------------
(* Nobody on the ready list outranks the running thread.                   *)
NoneAbove(ready, run, prio) ==
    \A t \in ToSet(ready) : run # Idle /\ prio[t] <= prio[run]

LEMMA ScheduleHighest ==
    ASSUME SchedAssumption, NEW ready \in Seq(Thread), NoDuplicates(ready),
           NEW st \in [AllThreads -> Status], NEW prio \in [AllThreads -> Int],
           Schedule(ready, st, prio)
    PROVE  NoneAbove(readyList', current', prio)
<1>1. CASE ready = <<>>
  BY <1>1, EmptyList DEF Schedule, NoneAbove
<1>2. CASE ready # <<>>
  <2>1. PICK next \in ToSet(ready) :
            /\ IsListMax(ready, prio, next)
            /\ current' = next
            /\ readyList' = ListRemove(ready, next)
    BY <1>2 DEF Schedule
  <2>2. ToSet(readyList') \subseteq ToSet(ready) /\ ToSet(ready) \subseteq Thread
    <3>1. ToSet(readyList') = ToSet(ready) \ {next}
      BY <2>1, ListRemoveFacts
    <3>2. ToSet(ready) \subseteq Thread
      BY DEF ToSet
    <3> QED
      BY <3>1, <3>2
  <2>3. next # Idle
    BY <2>2 DEF SchedAssumption
  <2>4. ASSUME NEW t \in ToSet(ready) PROVE prio[t] <= prio[next]
    <3>1. t \in AllThreads /\ next \in AllThreads
      BY <2>2 DEF AllThreads
    <3>2. prio[t] \in Int /\ prio[next] \in Int
      BY <3>1
    <3>3. prio[t] < prio[next] \/ prio[t] = prio[next]
      BY <2>1, <2>4 DEF IsListMax, ToSet
    <3> QED
      BY <3>2, <3>3
  <2> QED
    BY <2>1, <2>2, <2>3, <2>4 DEF NoneAbove
<1> QED
  BY <1>1, <1>2

LEMMA YieldHighest ==
    ASSUME SchedAssumption, current \in AllThreads,
           NEW ready, NEW st \in [AllThreads -> Status],
           NEW prio \in [AllThreads -> Int],
           Filed(ready, st), Runs(current, st), YieldFrom(ready, st, prio)
    PROVE  NoneAbove(readyList', current', prio)
<1> DEFINE r == IF current = Idle THEN ready ELSE Append(ready, current)
           s == [st EXCEPT ![current] = "ready"]
<1>1. s \in [AllThreads -> Status]
  BY DEF Status
<1>2. r \in Seq(Thread) /\ NoDuplicates(r)
  <2>1. CASE current = Idle
    BY <2>1 DEF Filed
  <2>2. CASE current # Idle
    <3>1. current \in Thread /\ current \notin ToSet(ready)
      BY <2>2 DEF AllThreads, Filed, Runs
    <3> QED
      BY <2>2, <3>1, PushBackFacts DEF Filed
  <2> QED
    BY <2>1, <2>2
<1>3. Schedule(r, s, prio)
  BY DEF YieldFrom
<1> HIDE DEF r, s
<1> QED
  BY <1>1, <1>2, <1>3, ScheduleHighest

LEMMA UnblockHighest ==
    ASSUME SchedAssumption, current \in Thread, status \in [AllThreads -> Status],
           Filed(readyList, status), Runs(current, status),
           NEW w \in Thread, status[w] \notin {"ready", "running"},
           NEW prio \in [AllThreads -> Int], NoneAbove(readyList, current, prio),
           UnblockAndMaybeYield(w, prio)
    PROVE  NoneAbove(readyList', current', prio)
<1> DEFINE r == Append(readyList, w)
           s == [status EXCEPT ![w] = "ready"]
<1>1. /\ s \in [AllThreads -> Status]
      /\ \A t \in AllThreads : s[t] = IF t = w THEN "ready" ELSE status[t]
  BY DEF Status, AllThreads
<1>2. Runs(current, s)
  BY <1>1 DEF Runs
<1>3. /\ r \in Seq(Thread) /\ ToSet(r) = ToSet(readyList) \cup {w}
      /\ NoDuplicates(r)
  BY PushBackFacts DEF Filed
<1>4. Filed(r, s)
  BY <1>1, <1>3 DEF Filed, AllThreads
<1>5. CASE prio[current] < prio[w]
  <2>1. YieldFrom(r, s, prio)
    BY <1>5 DEF UnblockAndMaybeYield
  <2> HIDE DEF r, s
  <2> QED
    BY <1>1, <1>2, <1>4, <2>1, YieldHighest DEF AllThreads
<1>6. CASE ~(prio[current] < prio[w])
  <2>1. readyList' = r /\ current' = current
    BY <1>6 DEF UnblockAndMaybeYield
  <2>2. prio[w] <= prio[current] /\ current # Idle
    BY <1>6 DEF AllThreads, SchedAssumption
  <2> QED
    BY <1>3, <2>1, <2>2 DEF NoneAbove
<1> QED
  BY <1>5, <1>6

LEMMA TimerHighest ==
    ASSUME SchedAssumption, DispatchType, SleepType, Lists,
           priority \in [AllThreads -> Int], TimerInterrupt
    PROVE  \/ NoneAbove(readyList', current', priority')
           \/ UNCHANGED <<current, readyList, priority, pc>>
<1> DEFINE left == [t \in Thread |-> IF t \in sleepList THEN sleepLeft[t] - 1
                                                        ELSE sleepLeft[t]]
           due == {t \in sleepList : left[t] <= 0}
           n == Cardinality(due)
           st == [t \in AllThreads |-> IF t \in due THEN "ready" ELSE status[t]]
           yields == due # {} \/ threadTicks + 1 >= TimeSlice
<1>1. due \in SUBSET Thread /\ \A t \in due : status[t] = "sleep"
  BY DEF SleepType, Lists
<1>2. n \in Nat
  BY <1>1, FS_Subset, FS_CardinalityType DEF SchedAssumption
<1>3. st \in [AllThreads -> Status]
  BY DEF DispatchType, Status
<1>4. PICK woken \in Bijection(1 .. n, due) :
          /\ IF yields THEN YieldFrom(readyList \o woken, st, priority)
                       ELSE UNCHANGED <<current, readyList>>
          /\ UNCHANGED <<priority, pc>>
  BY DEF TimerInterrupt, priorityVars
<1>5. \A t \in AllThreads : st[t] = IF t \in due THEN "ready" ELSE status[t]
  OBVIOUS
<1>6. yields \in BOOLEAN
  OBVIOUS
<1> HIDE DEF left, due, n, st, yields
<1>7. CASE yields
  <2>1. YieldFrom(readyList \o woken, st, priority)
    BY <1>4, <1>7
  <2>2. /\ readyList \o woken \in Seq(Thread)
        /\ ToSet(readyList \o woken) = ToSet(readyList) \cup due
        /\ /\ NoDuplicates(readyList)
           /\ ToSet(readyList) \cap due = {}
           => NoDuplicates(readyList \o woken)
    BY <1>1, <1>2, ConcatFacts DEF DispatchType
  <2>3. Filed(readyList \o woken, st)
    BY <1>1, <1>5, <2>2 DEF Lists, Filed, AllThreads
  <2>4. Runs(current, st)
    BY <1>1, <1>5 DEF Lists, Runs, AllThreads
  <2>5. NoneAbove(readyList', current', priority)
    BY <1>3, <2>1, <2>3, <2>4, YieldHighest DEF DispatchType
  <2> QED
    BY <1>4, <2>5
<1>8. CASE ~yields
  BY <1>4, <1>8
<1> QED
  BY <1>6, <1>7, <1>8

(* A thread that leaves the processor for a status that is not "ready":    *)
(* to sleep, to exit or, in the case of the idle thread, to block.         *)
LEMMA LeaveFacts ==
    ASSUME SchedAssumption, DispatchType, Lists, priority \in [AllThreads -> Int],
           NEW to \in Status \ {"ready", "running"},
           Schedule(readyList, [status EXCEPT ![current] = to], priority)
    PROVE  /\ DispatchType' /\ Filed(readyList', status') /\ Runs(current', status')
           /\ Rotates([status EXCEPT ![current] = to])
           /\ NoneAbove(readyList', current', priority)
<1> DEFINE st == [status EXCEPT ![current] = to]
<1>1. /\ st \in [AllThreads -> Status]
      /\ \A t \in AllThreads : st[t] = IF t = current THEN to ELSE status[t]
  BY DEF DispatchType
<1>2. \A t \in AllThreads : st[t] # "running"
  BY <1>1 DEF Lists, Runs
<1>3. Filed(readyList, st)
  BY <1>1 DEF Lists, Filed, Runs, AllThreads
<1> HIDE DEF st
<1>4. Schedule(readyList, st, priority)
  BY DEF st
<1>5. DispatchType'
  BY <1>1, <1>4, ScheduleFacts DEF DispatchType
<1>6. Filed(readyList', status') /\ Runs(current', status') /\ Rotates(st)
  BY <1>1, <1>2, <1>3, <1>4, ScheduleFiles
<1>7. NoneAbove(readyList', current', priority)
  BY <1>1, <1>3, <1>4, ScheduleHighest DEF Filed
<1> QED
  BY <1>5, <1>6, <1>7 DEF st

-----------------------------------------------------------------------------
(* What holds of the lists and of the running thread, for the scheduler    *)
(* alone and under Synch, which adds stages to pc.                         *)
Dispatch ==
    /\ DispatchType /\ SleepType /\ Lists /\ HighestPriorityRuns
    /\ priority \in [AllThreads -> Int]

(* Outside of E no thread comes to an end, and nobody blocks or unblocks.  *)
KeepsBlocked(E) ==
    \A u \in Thread :
        /\ status'[u] = "blocked" <=> status[u] = "blocked"
        /\ status'[u] \in {"free", "dying"} /\ u \notin E
              => status[u] \in {"free", "dying"}

(* A new thread, with whatever priority it is given.                       *)
LEMMA CreateFacts ==
    ASSUME SchedAssumption, Dispatch, current \in Thread, pc[current] = "run",
           NEW w \in Thread, status[w] = "free", NEW p \in Int,
           NEW prio, prio = [priority EXCEPT ![w] = p], priority' = prio,
           UnblockAndMaybeYield(w, prio), UNCHANGED <<sleepVars, pc>>
    PROVE  Dispatch' /\ KeepsBlocked({})
<1> USE DEF Dispatch
<1>1. UNCHANGED <<sleepList, sleepLeft, pc>>
  BY DEF sleepVars
<1>2. /\ prio \in [AllThreads -> Int]
      /\ \A u \in AllThreads : u # w => prio[u] = priority[u]
  BY DEF AllThreads
<1>3. NoneAbove(readyList, current, prio)
  <2>1. NoneAbove(readyList, current, priority)
    BY DEF HighestPriorityRuns, NoneAbove
  <2>2. w \notin ToSet(readyList) /\ w # current /\ ToSet(readyList) \subseteq Thread
    BY <1>1 DEF Lists, Filed, Runs, AllThreads
  <2> QED
    BY <1>1, <1>2, <2>1, <2>2 DEF NoneAbove, AllThreads
<1>4. DispatchType'
  BY UnblockType DEF DispatchType
<1>5. /\ Filed(readyList', status') /\ Runs(current', status')
      /\ Rotates([status EXCEPT ![w] = "ready"])
  BY UnblockFiles DEF DispatchType, Lists
<1>6. \A u \in Thread :
          \/ status'[u] = status[u]
          \/ /\ status[u] \in {"ready", "running", "free"}
             /\ status'[u] \in {"ready", "running"}
  BY <1>5 DEF Rotates, DispatchType, AllThreads
<1>7. Lists' /\ KeepsBlocked({})
  BY <1>1, <1>5, <1>6 DEF Lists, KeepsBlocked
<1>8. NoneAbove(readyList', current', prio)
  BY <1>2, <1>3, UnblockHighest DEF Lists, DispatchType
<1> QED
  BY <1>1, <1>2, <1>4, <1>7, <1>8 DEF NoneAbove, HighestPriorityRuns, SleepType

LEMMA CreateStep ==
    ASSUME SchedAssumption, Dispatch, NEW t \in Thread, Running(t),
           NEW w \in Thread, NEW p \in Priority, ThreadCreate(w, p)
    PROVE  Dispatch' /\ KeepsBlocked({})
<1>1. /\ current \in Thread /\ pc[current] = "run" /\ status[w] = "free"
      /\ priority' = [priority EXCEPT ![w] = p]
      /\ UnblockAndMaybeYield(w, [priority EXCEPT ![w] = p])
      /\ UNCHANGED <<sleepVars, pc>>
  BY DEF ThreadCreate, Running
<1>2. p \in Int
  BY DEF Priority, SchedAssumption
<1> QED
  BY <1>1, <1>2, CreateFacts

LEMMA YieldStep ==
    ASSUME SchedAssumption, Dispatch, NEW t \in Thread, ThreadYield(t)
    PROVE  Dispatch' /\ KeepsBlocked({})
<1> USE DEF Dispatch
<1>1. /\ YieldFrom(readyList, status, priority)
      /\ UNCHANGED <<sleepList, sleepLeft, priority>>
  BY DEF ThreadYield, sleepVars, priorityVars
<1>2. DispatchType'
  BY <1>1, YieldType DEF DispatchType
<1>3. Filed(readyList', status') /\ Runs(current', status') /\ Rotates(status)
  BY <1>1, YieldFiles DEF DispatchType, Lists
<1>4. Lists' /\ KeepsBlocked({})
  BY <1>1, <1>3 DEF Lists, Rotates, KeepsBlocked
<1>5. NoneAbove(readyList', current', priority)
  BY <1>1, YieldHighest DEF DispatchType, Lists
<1> QED
  BY <1>1, <1>2, <1>4, <1>5 DEF NoneAbove, HighestPriorityRuns, SleepType

LEMMA ExitStep ==
    ASSUME SchedAssumption, Dispatch, NEW t \in Thread, ThreadExit(t)
    PROVE  Dispatch' /\ KeepsBlocked({t})
<1> DEFINE to == IF t = Initial THEN "dying" ELSE "free"
<1> USE DEF Dispatch
<1>1. /\ current = t
      /\ Schedule(readyList, [status EXCEPT ![current] = to], priority)
      /\ priority' = [priority EXCEPT ![t] = PriDefault]
      /\ UNCHANGED <<sleepList, sleepLeft, pc>>
  BY DEF ThreadExit, Running, sleepVars
<1>2. to \in {"dying", "free"}
  OBVIOUS
<1> HIDE DEF to
<1>3. /\ DispatchType' /\ Filed(readyList', status') /\ Runs(current', status')
      /\ Rotates([status EXCEPT ![current] = to])
      /\ NoneAbove(readyList', current', priority)
  BY <1>1, <1>2, LeaveFacts DEF Status
<1>4. \A u \in Thread : [status EXCEPT ![current] = to][u]
                            = IF u = t THEN to ELSE status[u]
  BY <1>1 DEF DispatchType, AllThreads
<1>5. status[t] = "running"
  BY <1>1 DEF Lists, Runs, AllThreads
<1>6. \A u \in Thread :
          \/ status'[u] = status[u] /\ u # t
          \/ u = t /\ status'[u] = to
          \/ /\ status[u] \in {"ready", "running"} /\ u # t
             /\ status'[u] \in {"ready", "running"}
  BY <1>2, <1>3, <1>4 DEF Rotates
<1>7. Lists' /\ KeepsBlocked({t})
  BY <1>1, <1>2, <1>3, <1>5, <1>6 DEF Lists, KeepsBlocked
<1>8. NoneAbove(readyList', current', priority')
  <2>1. t \notin ToSet(readyList') /\ current' # t
    BY <1>2, <1>3, <1>6 DEF Filed, Runs, AllThreads
  <2>2. current' \in AllThreads /\ ToSet(readyList') \subseteq Thread
    BY <1>3 DEF DispatchType, Filed
  <2> QED
    BY <1>1, <1>3, <2>1, <2>2 DEF NoneAbove, AllThreads
<1>9. priority' \in [AllThreads -> Int]
  BY <1>1 DEF SchedAssumption
<1> QED
  BY <1>1, <1>3, <1>7, <1>8, <1>9 DEF NoneAbove, HighestPriorityRuns, SleepType

LEMMA SleepStep ==
    ASSUME SchedAssumption, Dispatch, NEW t \in Thread, NEW ticks \in SleepTicks,
           ThreadSleep(t, ticks)
    PROVE  Dispatch' /\ KeepsBlocked({})
<1> USE DEF Dispatch
<1>1. /\ current = t
      /\ Schedule(readyList, [status EXCEPT ![current] = "sleep"], priority)
      /\ sleepLeft' = [sleepLeft EXCEPT ![t] = ticks]
      /\ sleepList' = sleepList \cup {t}
      /\ UNCHANGED <<priority, pc>>
  BY DEF ThreadSleep, Running, priorityVars
<1>2. "sleep" \in Status \ {"ready", "running"}
  BY DEF Status
<1>3. /\ DispatchType' /\ Filed(readyList', status') /\ Runs(current', status')
      /\ Rotates([status EXCEPT ![current] = "sleep"])
      /\ NoneAbove(readyList', current', priority)
  BY <1>1, <1>2, LeaveFacts
<1>4. SleepType'
  BY <1>1 DEF SleepType, SchedAssumption
<1>5. status[t] = "running"
  BY <1>1 DEF Lists, Runs, AllThreads
<1>6. \A u \in Thread :
          \/ status'[u] = status[u] /\ u # t
          \/ u = t /\ status'[u] = "sleep"
          \/ /\ status[u] \in {"ready", "running"} /\ u # t
             /\ status'[u] \in {"ready", "running"}
  BY <1>1, <1>3 DEF Rotates, DispatchType, AllThreads
<1>7. Lists' /\ KeepsBlocked({})
  BY <1>1, <1>3, <1>5, <1>6 DEF Lists, KeepsBlocked
<1> QED
  BY <1>1, <1>3, <1>4, <1>7 DEF NoneAbove, HighestPriorityRuns

LEMMA IdleStep ==
    ASSUME SchedAssumption, Dispatch, IdleLoop
    PROVE  Dispatch' /\ KeepsBlocked({})
<1> USE DEF Dispatch
<1>1. /\ Schedule(readyList, [status EXCEPT ![current] = "blocked"], priority)
      /\ current = Idle
      /\ UNCHANGED <<sleepList, sleepLeft, priority, pc>>
  BY DEF IdleLoop, sleepVars, priorityVars
<1>2. "blocked" \in Status \ {"ready", "running"}
  BY DEF Status
<1>3. /\ DispatchType' /\ Filed(readyList', status') /\ Runs(current', status')
      /\ Rotates([status EXCEPT ![current] = "blocked"])
      /\ NoneAbove(readyList', current', priority)
  BY <1>1, <1>2, LeaveFacts
<1>4. \A u \in Thread : [status EXCEPT ![current] = "blocked"][u] = status[u]
  BY <1>1 DEF DispatchType, SchedAssumption
<1>5. Lists' /\ KeepsBlocked({})
  BY <1>1, <1>3, <1>4 DEF Lists, Rotates, KeepsBlocked
<1> QED
  BY <1>1, <1>3, <1>5 DEF NoneAbove, HighestPriorityRuns, SleepType

LEMMA TimerStep ==
    ASSUME SchedAssumption, Dispatch, TimerInterrupt
    PROVE  Dispatch' /\ KeepsBlocked({})
<1> USE DEF Dispatch
<1>1. /\ DispatchType' /\ SleepType' /\ Lists' /\ KeepsBlocked({})
      /\ UNCHANGED <<priority, pc>>
  BY TimerFacts DEF TimerInterrupt, priorityVars, KeepsBlocked
<1>2. HighestPriorityRuns'
  BY <1>1, TimerHighest DEF NoneAbove, HighestPriorityRuns
<1> QED
  BY <1>1, <1>2

(* thread_set_priority: whoever it leaves above the caller, the caller is  *)
(* about to yield to.                                                      *)
LEMMA SetPriorityStep ==
    ASSUME SchedAssumption, Dispatch, NEW t \in Thread, current = t,
           pc[t] \in {"run", "restore"}, NEW D \in SUBSET Int, NEW new \in Int,
           SetPriorityOf(t, new, D), DOMAIN pc = AllThreads,
           UNCHANGED <<dispatchVars, sleepVars>>
    PROVE  Dispatch' /\ KeepsBlocked({})
<1> USE DEF Dispatch
<1>1. PICK p \in Int :
          /\ priority' = [priority EXCEPT ![t] = p]
          /\ pc' = [pc EXCEPT ![t] = IF p < priority[t] THEN "yield" ELSE "run"]
  BY DEF SetPriorityOf
<1>2. UNCHANGED <<current, status, readyList, threadTicks, sleepList, sleepLeft>>
  BY DEF dispatchVars, sleepVars
<1>3. DispatchType' /\ SleepType' /\ Lists' /\ KeepsBlocked({})
  BY <1>2 DEF DispatchType, SleepType, Lists, Filed, Runs, KeepsBlocked
<1>4. t \in AllThreads /\ t \notin ToSet(readyList) /\ ToSet(readyList) \subseteq AllThreads
  BY DEF Lists, Filed, Runs, AllThreads
<1>5. NoneAbove(readyList, t, priority)
  BY DEF HighestPriorityRuns, NoneAbove
<1>6. ASSUME NEW u \in ToSet(readyList)
      PROVE  t # Idle /\ (priority'[u] <= priority'[t] \/ pc'[t] = "yield")
  <2>1. /\ u \in AllThreads /\ u # t
        /\ priority'[u] = priority[u] /\ priority'[t] = p
        /\ priority[u] \in Int /\ priority[t] \in Int
    BY <1>1, <1>4
  <2>2. priority[u] <= priority[t] /\ t # Idle
    BY <1>5 DEF NoneAbove
  <2>3. pc'[t] = IF p < priority[t] THEN "yield" ELSE "run"
    BY <1>1, <1>4
  <2> QED
    BY <2>1, <2>2, <2>3
<1>7. HighestPriorityRuns'
  BY <1>2, <1>6 DEF HighestPriorityRuns
<1>8. priority' \in [AllThreads -> Int]
  BY <1>1, <1>4
<1> QED
  BY <1>3, <1>7, <1>8

-----------------------------------------------------------------------------
(* The inductive invariant of the scheduler.                               *)
SchedInv == SchedTypeOK /\ Lists /\ HighestPriorityRuns

LEMMA SchedInitInv == SchedAssumption /\ SchedInit => SchedInv
<1> SUFFICES ASSUME SchedAssumption, SchedInit PROVE SchedInv
  OBVIOUS
<1> USE DEF SchedInit, DispatchInit, PriorityInit, SchedAssumption
<1>1. SchedTypeOK
  BY DEF SchedTypeOK, AllThreads, Status, Priority
<1>2. Lists
  BY EmptyList DEF Lists, Filed, Runs, AllThreads
<1>3. HighestPriorityRuns
  BY EmptyList DEF HighestPriorityRuns
<1> QED
  BY <1>1, <1>2, <1>3 DEF SchedInv

LEMMA SchedStep ==
    ASSUME SchedAssumption, SchedInv, [SchedNext]_schedVars
    PROVE  SchedInv'
<1> DEFINE Typed == /\ priority \in [AllThreads -> Priority]
                    /\ oldPriority \in [AllThreads -> Priority]
                    /\ pc \in [AllThreads -> {"run", "yield"}]
<1>1. Dispatch /\ Typed
  BY DEF SchedInv, Dispatch, SchedTypeOK, DispatchType, SleepType, Priority,
     SchedAssumption
<1>2. ASSUME Dispatch', Typed' PROVE SchedInv'
  BY <1>2 DEF SchedInv, Dispatch, SchedTypeOK, DispatchType, SleepType
<1>3. CASE Create
  <2>1. PICK w \in Thread, p \in Priority :
            current \in Thread /\ Running(current) /\ ThreadCreate(w, p)
    BY <1>3 DEF Create
  <2>2. Typed'
    BY <1>1, <2>1 DEF ThreadCreate
  <2> QED
    BY <1>1, <1>2, <2>1, <2>2, CreateStep
<1>4. ASSUME NEW t \in Thread, ThreadYield(t)
      PROVE  SchedInv'
  <2>1. Typed'
    BY <1>1, <1>4 DEF ThreadYield, priorityVars
  <2> QED
    BY <1>1, <1>2, <1>4, <2>1, YieldStep
<1>5. ASSUME NEW t \in Thread, ThreadExit(t)
      PROVE  SchedInv'
  <2>1. PriDefault \in Priority
    BY DEF Priority, SchedAssumption
  <2>2. Typed'
    BY <1>1, <1>5, <2>1 DEF ThreadExit
  <2> QED
    BY <1>1, <1>2, <1>5, <2>2, ExitStep
<1>6. ASSUME NEW t \in Thread, NEW ticks \in SleepTicks, ThreadSleep(t, ticks)
      PROVE  SchedInv'
  <2>1. Typed'
    BY <1>1, <1>6 DEF ThreadSleep, priorityVars
  <2> QED
    BY <1>1, <1>2, <1>6, <2>1, SleepStep
<1>7. ASSUME NEW t \in Thread, NEW p \in Priority, SetPriority(t, p)
      PROVE  SchedInv'
  <2>1. /\ current = t /\ pc[t] = "run" /\ SetPriorityOf(t, p, {})
        /\ UNCHANGED <<dispatchVars, sleepVars>>
    BY <1>7 DEF SetPriority, Running
  <2>2. Typed'
    <3>1. PICK q \in Priority :
              /\ oldPriority' = [oldPriority EXCEPT ![t] = p]
              /\ priority' = [priority EXCEPT ![t] = q]
              /\ pc' = [pc EXCEPT ![t] = IF q < priority[t] THEN "yield" ELSE "run"]
      BY <2>1 DEF SetPriorityOf
    <3>2. pc' \in [AllThreads -> {"run", "yield"}]
      BY <1>1, <3>1
    <3> QED
      BY <1>1, <3>1, <3>2
  <2>3. p \in Int /\ DOMAIN pc = AllThreads
    BY <1>1 DEF Priority, SchedAssumption
  <2>4. Dispatch'
    BY <1>1, <2>1, <2>3, SetPriorityStep
  <2> QED
    BY <1>2, <2>2, <2>4
<1>8. CASE IdleLoop
  <2>1. Typed'
    BY <1>1, <1>8 DEF IdleLoop, priorityVars
  <2> QED
    BY <1>1, <1>2, <1>8, <2>1, IdleStep
<1>9. CASE TimerInterrupt
  <2>1. Typed'
    BY <1>1, <1>9 DEF TimerInterrupt, priorityVars
  <2> QED
    BY <1>1, <1>2, <1>9, <2>1, TimerStep
<1>10. CASE UNCHANGED schedVars
  BY <1>1, <1>2, <1>10 DEF schedVars, Dispatch, DispatchType, SleepType, Lists, Filed,
     Runs, HighestPriorityRuns
<1> QED
  BY <1>3, <1>4, <1>5, <1>6, <1>7, <1>8, <1>9, <1>10 DEF SchedNext

(* The scheduler's variables keep their types.                             *)
THEOREM SchedTypeCorrect == SchedSpec => []SchedTypeOK
<1>1. SchedInit => SchedInv
  BY SchedInitInv, SchedAssumption
<1>2. SchedInv /\ [SchedNext]_schedVars => SchedInv'
  BY SchedStep, SchedAssumption
<1>3. SchedInv => SchedTypeOK
  BY DEF SchedInv
<1> QED
  BY <1>1, <1>2, <1>3, PTL DEF SchedSpec

(* thread.elem is never on two lists: the ready list and the sleep list    *)
(* hold, once, exactly the threads of their status (thread.h:86).          *)
THEOREM SchedListsExclusive == SchedSpec => []ElemOnOneList
<1>1. SchedInit => SchedInv
  BY SchedInitInv, SchedAssumption
<1>2. SchedInv /\ [SchedNext]_schedVars => SchedInv'
  BY SchedStep, SchedAssumption
<1>3. SchedInv => ElemOnOneList
  BY ListsAreElemOnOneList DEF SchedInv
<1> QED
  BY <1>1, <1>2, <1>3, PTL DEF SchedSpec

(* The running thread is one of the highest priority, or is about to yield *)
(* because it has lowered its own.                                         *)
THEOREM SchedHighestRuns == SchedSpec => []HighestPriorityRuns
<1>1. SchedInit => SchedInv
  BY SchedInitInv, SchedAssumption
<1>2. SchedInv /\ [SchedNext]_schedVars => SchedInv'
  BY SchedStep, SchedAssumption
<1>3. SchedInv => HighestPriorityRuns
  BY DEF SchedInv
<1> QED
  BY <1>1, <1>2, <1>3, PTL DEF SchedSpec

-----------------------------------------------------------------------------
(* A tick that ends sleeps and yields: lists, order and who runs then.     *)
LEMMA TickFacts ==
    ASSUME SchedAssumption, DispatchType, SleepType, Lists,
           NEW left \in [Thread -> Int], NEW due \in SUBSET sleepList,
           NEW prio \in [AllThreads -> Int],
           NEW woken \in Bijection(1 .. Cardinality(due), due),
           sleepList' = sleepList \ due,
           sleepLeft' = [t \in Thread |-> IF t \in due THEN 0 ELSE left[t]],
           YieldFrom(readyList \o woken,
                     [t \in AllThreads |-> IF t \in due THEN "ready" ELSE status[t]], prio)
    PROVE  /\ DispatchType' /\ SleepType' /\ Lists'
           /\ NoneAbove(readyList', current', prio)
           /\ \A t \in due :
                 (\A u \in Thread \ {t} : status[u] # "free" => prio[u] < prio[t])
                 => current' = t
<1> DEFINE st == [t \in AllThreads |-> IF t \in due THEN "ready" ELSE status[t]]
<1>1. due \in SUBSET Thread /\ \A t \in due : status[t] = "sleep"
  BY DEF SleepType, Lists
<1>2. Cardinality(due) \in Nat
  BY <1>1, FS_Subset, FS_CardinalityType DEF SchedAssumption
<1>3. /\ st \in [AllThreads -> Status]
      /\ \A t \in AllThreads : st[t] = IF t \in due THEN "ready" ELSE status[t]
  BY DEF DispatchType, Status
<1>4. YieldFrom(readyList \o woken, st, prio)
  OBVIOUS
<1> HIDE DEF st
<1>5. /\ readyList \o woken \in Seq(Thread)
      /\ ToSet(readyList \o woken) = ToSet(readyList) \cup due
      /\ /\ NoDuplicates(readyList)
         /\ ToSet(readyList) \cap due = {}
         => NoDuplicates(readyList \o woken)
  BY <1>1, <1>2, ConcatFacts DEF DispatchType
<1>6. Filed(readyList \o woken, st)
  BY <1>1, <1>3, <1>5 DEF Lists, Filed, AllThreads
<1>7. Runs(current, st)
  BY <1>1, <1>3 DEF Lists, Runs, AllThreads
<1>8. DispatchType'
  BY <1>3, <1>4, <1>5, YieldType DEF DispatchType
<1>9. Filed(readyList', status') /\ Runs(current', status') /\ Rotates(st)
  BY <1>3, <1>4, <1>6, <1>7, YieldFiles DEF DispatchType
<1>10. SleepType'
  BY <1>1 DEF SleepType
<1>11. sleepList' = {t \in Thread : status'[t] = "sleep"}
  BY <1>1, <1>3, <1>9 DEF Lists, Rotates, AllThreads
<1>12. NoneAbove(readyList', current', prio)
  BY <1>3, <1>4, <1>6, <1>7, YieldHighest DEF DispatchType
<1>13. ASSUME NEW t \in due,
              \A u \in Thread \ {t} : status[u] # "free" => prio[u] < prio[t],
              current' # t
       PROVE  FALSE
  <2>1. t \in Thread /\ st[t] = "ready"
    BY <1>1, <1>3 DEF AllThreads
  <2>2. t \in ToSet(readyList')
    BY <1>9, <1>13, <2>1 DEF Filed, Runs, Rotates, AllThreads
  <2>3. current' # Idle /\ prio[t] <= prio[current']
    BY <1>12, <2>2 DEF NoneAbove
  <2>4. current' \in Thread \ {t} /\ status'[current'] = "running"
    BY <1>8, <1>9, <1>13, <2>3 DEF DispatchType, AllThreads, Runs
  <2>5. status[current'] # "free"
    BY <1>1, <1>3, <1>9, <2>4 DEF Rotates, AllThreads
  <2>6. prio[t] \in Int /\ prio[current'] \in Int
    BY <2>1, <2>4 DEF AllThreads
  <2> QED
    BY <1>13, <2>3, <2>4, <2>5, <2>6
<1> QED
  BY <1>8, <1>9, <1>10, <1>11, <1>12, <1>13 DEF Lists

(* What a step that takes a thread off sleep_list has to do.               *)
Wakes ==
    \A t \in sleepList :
        /\ t \notin sleepList'
        /\ \A u \in Thread \ {t} : status[u] # "free" => priority'[u] < priority'[t]
        => current' = t

LEMMA TimerWakes ==
    ASSUME SchedAssumption, Dispatch, TimerInterrupt
    PROVE  Wakes
<1> DEFINE left == [t \in Thread |-> IF t \in sleepList THEN sleepLeft[t] - 1
                                                        ELSE sleepLeft[t]]
           due == {t \in sleepList : left[t] <= 0}
<1>1. left \in [Thread -> Int] /\ due \in SUBSET sleepList
  BY DEF Dispatch, SleepType
<1>2. PICK woken \in Bijection(1 .. Cardinality(due), due) :
          /\ sleepList' = sleepList \ due
          /\ sleepLeft' = [t \in Thread |-> IF t \in due THEN 0 ELSE left[t]]
          /\ due # {} =>
                YieldFrom(readyList \o woken,
                          [t \in AllThreads |-> IF t \in due THEN "ready" ELSE status[t]],
                          priority)
          /\ priority' = priority
  BY DEF TimerInterrupt, priorityVars
<1> HIDE DEF left, due
<1>3. CASE due = {}
  BY <1>2, <1>3 DEF Wakes
<1>4. CASE due # {}
  BY <1>1, <1>2, <1>4, TickFacts DEF Dispatch, Wakes
<1> QED
  BY <1>3, <1>4

LEMMA SchedStepWakes ==
    ASSUME SchedAssumption, SchedInv, [SchedNext]_schedVars
    PROVE  Wakes
<1>1. Dispatch
  BY DEF SchedInv, Dispatch, SchedTypeOK, DispatchType, SleepType, Priority,
     SchedAssumption
<1>2. CASE TimerInterrupt
  BY <1>1, <1>2, TimerWakes
<1>3. CASE UNCHANGED schedVars
  BY <1>3 DEF schedVars, Wakes
<1>4. CASE Create
  BY <1>4 DEF Create, ThreadCreate, sleepVars, Wakes
<1>5. ASSUME NEW t \in Thread, ThreadYield(t) \/ ThreadExit(t) PROVE Wakes
  BY <1>5 DEF ThreadYield, ThreadExit, sleepVars, Wakes
<1>6. ASSUME NEW t \in Thread, NEW ticks \in SleepTicks, ThreadSleep(t, ticks) PROVE Wakes
  BY <1>6 DEF ThreadSleep, Wakes
<1>7. ASSUME NEW t \in Thread, NEW p \in Priority, SetPriority(t, p) PROVE Wakes
  BY <1>7 DEF SetPriority, sleepVars, Wakes
<1>8. CASE IdleLoop
  BY <1>8 DEF IdleLoop, sleepVars, Wakes
<1> QED
  BY <1>2, <1>3, <1>4, <1>5, <1>6, <1>7, <1>8 DEF SchedNext

(* A sleeper above all other threads runs as soon as its tick returns.     *)
THEOREM SchedWakes == SchedSpec => WakesIntoExecution
<1>1. SchedInit => SchedInv
  BY SchedInitInv, SchedAssumption
<1>2. SchedInv /\ [SchedNext]_schedVars => SchedInv'
  BY SchedStep, SchedAssumption
<1>3. SchedInv /\ [SchedNext]_schedVars => [Wakes]_schedVars
  BY SchedStepWakes, SchedAssumption
<1>4. SchedSpec => [][Wakes]_schedVars
  BY <1>1, <1>2, <1>3, PTL DEF SchedSpec
<1> QED
  BY <1>4 DEF Wakes, WakesIntoExecution

-----------------------------------------------------------------------------
(* The fixed-point numbers of real.c.                                      *)
Fixed == [value : Int, sign : {0, 1}]

LEMMA DivBounds ==
    ASSUME NEW a \in Int, NEW b \in Nat \ {0}
    PROVE  a \div b \in Int /\ b * (a \div b) <= a /\ a < b * (a \div b) + b
  OBVIOUS

LEMMA DivBelow ==
    ASSUME NEW a \in Int, NEW b \in Nat \ {0}, NEW q \in Int, a < b * q + b
    PROVE  a \div b <= q
<1>1. b * (a \div b) <= a /\ a \div b \in Int
  BY DivBounds
<1>2. ASSUME a \div b >= q + 1 PROVE b * (a \div b) >= b * (q + 1)
  BY <1>1, <1>2
<1>3. b * (q + 1) = b * q + b
  OBVIOUS
<1> QED
  BY <1>1, <1>2, <1>3

LEMMA DivAbove ==
    ASSUME NEW a \in Int, NEW b \in Nat \ {0}, NEW q \in Int, b * q <= a
    PROVE  q <= a \div b
<1>1. a < b * (a \div b) + b /\ a \div b \in Int
  BY DivBounds
<1>2. ASSUME a \div b <= q - 1 PROVE b * (a \div b) <= b * (q - 1)
  BY <1>1, <1>2
<1>3. b * (q - 1) = b * q - b
  OBVIOUS
<1> QED
  BY <1>1, <1>2, <1>3

LEMMA DivMonotone ==
    ASSUME NEW a \in Int, NEW c \in Int, a <= c, NEW b \in Nat \ {0}
    PROVE  a \div b <= c \div b
<1>1. b * (a \div b) <= a /\ a \div b \in Int
  BY DivBounds
<1> QED
  BY <1>1, DivAbove

LEMMA QuotientFacts ==
    ASSUME NEW a \in Int, NEW b \in Int, b # 0
    PROVE  /\ Quotient(a, b) \in Int
           /\ b > 0 /\ a >= 0 => Quotient(a, b) = a \div b /\ Quotient(a, b) >= 0
           /\ b > 0 /\ a < 0 => Quotient(a, b) = -((-a) \div b) /\ Quotient(a, b) <= 0
<1> DEFINE abs(x) == IF x < 0 THEN -x ELSE x
           q == abs(a) \div abs(b)
<1>1. abs(a) \in Nat /\ abs(b) \in Nat \ {0}
  OBVIOUS
<1>2. q \in Int /\ 0 <= q
  <2>1. abs(b) * 0 <= abs(a)
    BY <1>1
  <2> HIDE DEF abs
  <2> QED
    BY <1>1, <2>1, DivBounds, DivAbove
<1>3. Quotient(a, b) = IF (a < 0) = (b < 0) THEN q ELSE -q
  BY DEF Quotient
<1>4. b > 0 /\ a >= 0 => q = a \div b
  OBVIOUS
<1>5. b > 0 /\ a < 0 => q = (-a) \div b
  OBVIOUS
<1> HIDE DEF q
<1> QED
  BY <1>2, <1>3, <1>4, <1>5

LEMMA ExactOfInt ==
    ASSUME FixedPointAssumption, NEW x \in Int
    PROVE  RealOfInt(x) \in Fixed /\ Exact(RealOfInt(x)) = x * One
  BY DEF FixedPointAssumption, RealOfInt, Exact, Fixed

LEMMA ExactOfSum ==
    ASSUME NEW a \in Fixed, NEW b \in Fixed
    PROVE  RealAdd(a, b) \in Fixed /\ Exact(RealAdd(a, b)) = Exact(a) + Exact(b)
<1>1. a.value \in Int /\ b.value \in Int /\ a.sign \in {0, 1} /\ b.sign \in {0, 1}
  BY DEF Fixed
<1>2. /\ RealAdd(a, b) \in Fixed
      /\ RealAdd(a, b).sign = a.sign
      /\ RealAdd(a, b).value = IF a.sign = b.sign THEN a.value + b.value ELSE a.value - b.value
  BY <1>1 DEF RealAdd, Fixed
<1> QED
  BY <1>1, <1>2 DEF Exact

LEMMA ProductFacts ==
    ASSUME FixedPointAssumption, NEW a \in Fixed, NEW b \in Fixed
    PROVE  /\ RealMult(a, b) \in Fixed
           /\ Exact(a) >= 0 /\ Exact(b) >= 0 => Exact(RealMult(a, b)) >= 0
<1> DEFINE v == a.value * b.value
           m == v \div One
<1>1. a.value \in Int /\ b.value \in Int /\ a.sign \in {0, 1} /\ b.sign \in {0, 1} /\ One \in Nat \ {0}
  BY DEF Fixed, FixedPointAssumption
<1>2. v \in Int
  BY <1>1
<1>3. /\ a.value >= 0 /\ b.value >= 0 => v >= 0
      /\ a.value >= 0 /\ b.value <= 0 => v <= 0
      /\ a.value <= 0 /\ b.value >= 0 => v <= 0
      /\ a.value <= 0 /\ b.value <= 0 => v >= 0
  BY <1>1
<1>4. RealMult(a, b) = [value |-> m, sign |-> (a.sign + b.sign) % 2]
  BY DEF RealMult
<1> HIDE DEF v
<1>5. m \in Int
  BY <1>1, <1>2, DivBounds
<1>6. v >= 0 => m >= 0
  BY <1>1, <1>2, DivAbove
<1>7. v <= 0 => m <= 0
  BY <1>1, <1>2, DivBelow
<1> HIDE DEF m
<1>8. /\ (a.sign + b.sign) % 2 \in {0, 1}
      /\ (a.sign + b.sign) % 2 = IF a.sign = b.sign THEN 0 ELSE 1
  BY <1>1
<1> QED
  BY <1>1, <1>3, <1>4, <1>5, <1>6, <1>7, <1>8 DEF Exact, Fixed

LEMMA RatioFacts ==
    ASSUME FixedPointAssumption, NEW a \in Fixed, NEW b \in Fixed, b.value # 0
    PROVE  /\ RealDiv(a, b) \in Fixed
           /\ Exact(a) >= 0 /\ b.sign = 0 /\ b.value > 0 => Exact(RealDiv(a, b)) >= 0
<1> DEFINE v == a.value * One
           q == Quotient(v, b.value)
<1>1. a.value \in Int /\ b.value \in Int /\ a.sign \in {0, 1} /\ b.sign \in {0, 1} /\ One \in Nat \ {0}
  BY DEF Fixed, FixedPointAssumption
<1>2. /\ v \in Int
      /\ a.value >= 0 => v >= 0
      /\ a.value <= 0 => v <= 0
  BY <1>1
<1>3. RealDiv(a, b) = [value |-> q, sign |-> (a.sign + b.sign) % 2]
  BY DEF RealDiv
<1> HIDE DEF v
<1>4. /\ q \in Int
      /\ b.value > 0 /\ v >= 0 => q >= 0
      /\ b.value > 0 /\ v < 0 => q <= 0
  BY <1>1, <1>2, QuotientFacts
<1>5. b.value > 0 /\ v = 0 => q = 0
  <2>1. ASSUME b.value > 0, v = 0 PROVE q = 0 \div b.value
    BY <1>1, <1>2, <2>1, QuotientFacts
  <2> QED
    BY <1>1, <2>1
<1> HIDE DEF q
<1>6. /\ (a.sign + b.sign) % 2 \in {0, 1}
      /\ b.sign = 0 => (a.sign + b.sign) % 2 = a.sign
  BY <1>1
<1> QED
  BY <1>1, <1>2, <1>3, <1>4, <1>5, <1>6 DEF Exact, Fixed

-----------------------------------------------------------------------------
(* calculate_priority, before it is clamped, and what it may be late by.   *)
Share(n, x) == PriMax - n * 2 - x \div (4 * One)
Follows(p, n, x, k) ==
    /\ Clamped(Share(n, x + 4 * One - 1)) <= p
    /\ p <= Clamped(Share(n, x - k * One))

LEMMA QuarterFacts ==
    ASSUME FixedPointAssumption, NEW r \in Fixed
    PROVE  LET i == IntOfReal(RealDiv(r, RealOfInt(4))) IN
           /\ i \in Int
           /\ Exact(r) \div (4 * One) <= i
           /\ i <= (Exact(r) + 4 * One - 1) \div (4 * One)
<1> DEFINE v == r.value
           c == IF v < 0 THEN -v ELSE v
           h == c \div 4
           w == IF v < 0 THEN -h ELSE h
           j == w \div One
           i == IF r.sign = 0 THEN j ELSE -j
           D == 4 * One
<1>1. v \in Int /\ r.sign \in {0, 1} /\ One \in Nat \ {0}
  BY DEF Fixed, FixedPointAssumption
<1>2. c \in Nat /\ (v < 0 => v = -c) /\ (v >= 0 => v = c)
  BY <1>1
<1> HIDE DEF c, v
<1>3. h \in Int /\ 4 * h <= c /\ c < 4 * h + 4 /\ 0 <= h
  <2>1. h \in Int /\ 4 * h <= c /\ c < 4 * h + 4
    BY <1>2, DivBounds
  <2> HIDE DEF h
  <2> QED
    BY <1>2, <2>1
<1>4. D \in Nat \ {0} /\ D >= 4
  BY <1>1
<1>5. v * One \in Int /\ (v >= 0 => v * One = c * One) /\ (v < 0 => v * One = -(c * One))
      /\ c * One \in Nat
  BY <1>1, <1>2
<1>6. (c * One) \div D = h
  <2>1. /\ D * h = (4 * h) * One /\ (4 * h) * One <= c * One
        /\ D * h + D = (4 * h + 4) * One /\ c * One < (4 * h + 4) * One
    <3> HIDE DEF h
    <3>1. D * h = (4 * h) * One /\ D * h + D = (4 * h + 4) * One
      BY <1>1, <1>3
    <3>2. (4 * h) * One <= c * One /\ c * One < (4 * h + 4) * One
      BY <1>1, <1>2, <1>3
    <3> QED
      BY <3>1, <3>2
  <2> HIDE DEF h, D
  <2>2. (c * One) \div D <= h /\ h <= (c * One) \div D
    BY <1>3, <1>4, <1>5, <2>1, DivBelow, DivAbove
  <2>3. (c * One) \div D \in Int
    BY <1>4, <1>5, DivBounds
  <2> QED
    BY <1>3, <2>2, <2>3
<1>7. RealOfInt(4) = [value |-> 4 * One, sign |-> 0]
  BY DEF RealOfInt
<1>8. Quotient(v * One, D) = w
  <2> HIDE DEF h, D
  <2>1. CASE v >= 0
    <3>1. v * One >= 0
      BY <1>5, <2>1
    <3>2. Quotient(v * One, D) = (v * One) \div D
      BY <1>4, <1>5, <3>1, QuotientFacts
    <3> QED
      BY <1>1, <1>5, <1>6, <2>1, <3>2
  <2>2. CASE v < 0
    <3>1. v * One < 0
      BY <1>1, <2>2
    <3>2. Quotient(v * One, D) = -((-(v * One)) \div D)
      <4>1. D \in Int /\ D # 0 /\ D > 0 /\ v * One \in Int
        BY <1>4, <1>5
      <4> QED
        BY <3>1, <4>1, QuotientFacts
    <3>3. -(v * One) = c * One
      BY <1>5, <2>2
    <3> QED
      BY <1>6, <2>2, <3>2, <3>3
  <2> QED
    BY <1>1, <2>1, <2>2
<1>9. RealDiv(r, RealOfInt(4)).value = w /\ RealDiv(r, RealOfInt(4)).sign = r.sign
  <2>1. RealDiv(r, RealOfInt(4)) = [value |-> Quotient(v * One, D), sign |-> (r.sign + 0) % 2]
    BY <1>7 DEF RealDiv, v
  <2>2. (r.sign + 0) % 2 = r.sign
    BY <1>1
  <2> HIDE DEF w
  <2> QED
    BY <1>8, <2>1, <2>2
<1>10. IntOfReal(RealDiv(r, RealOfInt(4))) = i
  BY <1>9 DEF IntOfReal
<1>11. w \in Int /\ (v < 0 => w = -h) /\ (v >= 0 => w = h)
  BY <1>1, <1>3
<1> HIDE DEF h, w
<1>12. j \in Int /\ One * j <= w /\ w < One * j + One
  BY <1>1, <1>11, DivBounds
<1> HIDE DEF j
<1>13. i \in Int
  BY <1>12
<1> DEFINE x == One * j
<1>14. x \in Int /\ x <= w /\ w <= x + One - 1 /\ D = 4 * One
  BY <1>1, <1>11, <1>12
<1>15. D * i = IF r.sign = 0 THEN 4 * x ELSE -(4 * x)
  BY <1>1, <1>12
<1>16. Exact(r) = IF r.sign = 0 THEN v ELSE -v
  BY DEF Exact, v
<1> HIDE DEF x, i, D
<1>17. Exact(r) < D * i + D /\ D * i <= Exact(r) + D - 1 /\ Exact(r) \in Int
  <2>1. CASE r.sign = 0
    BY <1>1, <1>2, <1>3, <1>4, <1>11, <1>14, <1>15, <1>16, <2>1
  <2>2. CASE r.sign = 1
    BY <1>1, <1>2, <1>3, <1>4, <1>11, <1>14, <1>15, <1>16, <2>2
  <2> QED
    BY <1>1, <2>1, <2>2
<1>18. Exact(r) \div D <= i /\ i <= (Exact(r) + D - 1) \div D
  BY <1>4, <1>13, <1>17, DivBelow, DivAbove
<1> QED
  BY <1>10, <1>13, <1>18 DEF D

LEMMA ClampedFacts ==
    ASSUME SchedAssumption, NEW p \in Int
    PROVE  /\ Clamped(p) \in Priority
           /\ \A q \in Int : p <= q => Clamped(p) <= Clamped(q)
  BY DEF SchedAssumption, Clamped, Priority

LEMMA ShareFacts ==
    ASSUME SchedAssumption, FixedPointAssumption, NEW n \in Int, NEW x \in Int, NEW y \in Int, x <= y
    PROVE  /\ Share(n, x) \in Int /\ Share(n, y) \in Int
           /\ Clamped(Share(n, x)) \in Priority /\ Clamped(Share(n, y)) \in Priority
           /\ Clamped(Share(n, y)) <= Clamped(Share(n, x))
<1>1. 4 * One \in Nat \ {0} /\ PriMax \in Int
  BY DEF FixedPointAssumption, SchedAssumption
<1>2. x \div (4 * One) \in Int /\ y \div (4 * One) \in Int /\ x \div (4 * One) <= y \div (4 * One)
  BY <1>1, DivBounds, DivMonotone
<1>3. Share(n, x) \in Int /\ Share(n, y) \in Int /\ Share(n, y) <= Share(n, x)
  BY <1>1, <1>2 DEF Share
<1> QED
  BY <1>3, ClampedFacts

(* A tick more, and k one more: the bounds only get wider.                 *)
LEMMA FollowsOn ==
    ASSUME SchedAssumption, FixedPointAssumption, NEW n \in Int, NEW p \in Priority,
           NEW x \in Int, NEW y \in Int, NEW k \in Nat, NEW m \in Nat, Follows(p, n, x, k),
           x <= y, y - m * One <= x - k * One
    PROVE  Follows(p, n, y, m)
<1>1. One \in Nat \ {0} /\ p \in Int
  BY DEF FixedPointAssumption, Priority, SchedAssumption
<1>2. k * One \in Int /\ m * One \in Int
  BY <1>1
<1>3. x + 4 * One - 1 \in Int /\ y + 4 * One - 1 \in Int /\ x + 4 * One - 1 <= y + 4 * One - 1
  BY <1>1
<1>4. x - k * One \in Int /\ y - m * One \in Int
  BY <1>2
<1>5. Clamped(Share(n, y + 4 * One - 1)) <= Clamped(Share(n, x + 4 * One - 1))
  BY <1>3, ShareFacts
<1>6. Clamped(Share(n, x - k * One)) <= Clamped(Share(n, y - m * One))
  BY <1>4, ShareFacts
<1>7. /\ Clamped(Share(n, y + 4 * One - 1)) \in Int /\ Clamped(Share(n, x + 4 * One - 1)) \in Int
      /\ Clamped(Share(n, x - k * One)) \in Int /\ Clamped(Share(n, y - m * One)) \in Int
  <2>1. ASSUME NEW z \in Int PROVE Clamped(Share(n, z)) \in Int
    <3>1. z <= z
      OBVIOUS
    <3>2. Clamped(Share(n, z)) \in Priority
      BY <3>1, ShareFacts
    <3> QED
      BY <3>2 DEF Priority, SchedAssumption
  <2> QED
    BY <1>3, <1>4, <2>1
<1> QED
  BY <1>1, <1>5, <1>6, <1>7 DEF Follows

LEMMA PriorityComputed ==
    ASSUME SchedAssumption, FixedPointAssumption, NEW r \in Fixed, NEW n \in Int
    PROVE  /\ CalculatePriority(r, n) \in Priority
           /\ \A k \in Nat : Follows(CalculatePriority(r, n), n, Exact(r), k)
<1> DEFINE i == IntOfReal(RealDiv(r, RealOfInt(4)))
           p == PriMax - i - n * 2
           x == Exact(r)
<1>1. x \in Int /\ 4 * One \in Int /\ PriMax \in Int
  BY DEF Exact, Fixed, FixedPointAssumption, SchedAssumption
<1>2. i \in Int /\ x \div (4 * One) <= i /\ i <= (x + 4 * One - 1) \div (4 * One)
  BY QuarterFacts
<1>3. CalculatePriority(r, n) = Clamped(p)
  BY DEF CalculatePriority, Clamped
<1> HIDE DEF i, x
<1>4. x \div (4 * One) \in Int /\ (x + 4 * One - 1) \div (4 * One) \in Int
  BY <1>1, DivBounds DEF FixedPointAssumption
<1>5. p \in Int /\ p <= Share(n, x) /\ Share(n, x + 4 * One - 1) <= p
  BY <1>1, <1>2, <1>4 DEF Share
<1> HIDE DEF p
<1>6. /\ Share(n, x) \in Int /\ Share(n, x + 4 * One - 1) \in Int
  BY <1>1, ShareFacts
<1>7. /\ Clamped(p) \in Priority /\ Clamped(p) <= Clamped(Share(n, x))
      /\ Clamped(Share(n, x + 4 * One - 1)) <= Clamped(p)
  BY <1>5, <1>6, ClampedFacts
<1>8. Follows(Clamped(p), n, x, 0)
  <2>1. x - 0 * One = x
    BY <1>1 DEF FixedPointAssumption
  <2> QED
    BY <1>7, <2>1 DEF Follows
<1>9. ASSUME NEW k \in Nat PROVE Follows(Clamped(p), n, x, k)
  <2>1. 0 <= k * One /\ k * One \in Int /\ 0 * One = 0
    BY DEF FixedPointAssumption
  <2>2. x - k * One <= x - 0 * One
    BY <1>1, <2>1
  <2> QED
    BY <1>1, <1>7, <1>8, <2>2, FollowsOn
<1> QED
  BY <1>3, <1>7, <1>9 DEF x

-----------------------------------------------------------------------------
(* The scheduler that computes the priorities.                             *)
MlfqsTyped ==
    /\ thread_mlfqs \in BOOLEAN /\ tick \in Nat
    /\ nice \in [AllThreads -> Int]
    /\ recentCpu \in [AllThreads -> Fixed]
    /\ loadAvg \in Fixed /\ Exact(loadAvg) >= 0

(* Each priority is of the recent_cpu of at most tick % 4 ticks ago.       *)
FollowsCpu ==
    \A t \in AllThreads : Listed(t) =>
        Follows(priority[t], nice[t], Exact(recentCpu[t]), tick % 4)
MlfqsInv == SchedInv /\ MlfqsTyped /\ (thread_mlfqs => FollowsCpu)

AllAssumptions == SchedAssumption /\ FixedPointAssumption /\ MlfqsAssumption

LEMMA ZeroCpu == FixedPointAssumption => RealOfInt(0) \in Fixed /\ Exact(RealOfInt(0)) = 0
  BY ExactOfInt DEF FixedPointAssumption

LEMMA ExactIsInt == \A r \in Fixed : Exact(r) \in Int
  BY DEF Exact, Fixed

LEMMA LoadFacts ==
    ASSUME AllAssumptions, MlfqsTyped, NEW ready \in Nat
    PROVE  CalculateLoadAvg(ready) \in Fixed /\ Exact(CalculateLoadAvg(ready)) >= 0
<1> DEFINE a == RealOfInt(LoadSpan - 1)
           b == RealOfInt(ready)
           c == RealOfInt(LoadSpan)
           p == RealMult(a, loadAvg)
           s == RealAdd(p, b)
<1>1. LoadSpan \in Nat \ {0} /\ One \in Nat \ {0}
  BY DEF AllAssumptions, MlfqsAssumption, FixedPointAssumption
<1>2. /\ a \in Fixed /\ Exact(a) = (LoadSpan - 1) * One
      /\ b \in Fixed /\ Exact(b) = ready * One
      /\ c \in Fixed
  BY <1>1, ExactOfInt DEF AllAssumptions
<1>3. (LoadSpan - 1) * One >= 0 /\ ready * One >= 0
  BY <1>1
<1>4. c.sign = 0 /\ c.value > 0
  <2>1. LoadSpan * One > 0
    BY <1>1
  <2> QED
    BY <1>1, <2>1 DEF RealOfInt
<1>5. CalculateLoadAvg(ready) = RealDiv(s, c)
  BY DEF CalculateLoadAvg
<1> HIDE DEF a, b, c
<1>6. p \in Fixed /\ Exact(p) >= 0
  BY <1>2, <1>3, ProductFacts DEF AllAssumptions, MlfqsTyped
<1> HIDE DEF p
<1>7. s \in Fixed /\ Exact(s) >= 0
  BY <1>2, <1>3, <1>6, ExactOfSum, ExactIsInt
<1> QED
  BY <1>2, <1>4, <1>5, <1>7, RatioFacts DEF AllAssumptions, Fixed

LEMMA RecentFacts ==
    ASSUME AllAssumptions, NEW r \in Fixed, NEW n \in Int,
           NEW load \in Fixed, Exact(load) >= 0
    PROVE  CalculateRecentCpu(r, n, load) \in Fixed
<1> DEFINE two == RealOfInt(2)
           one == RealOfInt(1)
           twice == RealMult(load, two)
           more == RealAdd(twice, one)
           q == RealDiv(twice, more)
           m == RealMult(r, q)
<1>1. One \in Nat \ {0}
  BY DEF AllAssumptions, FixedPointAssumption
<1>2. two \in Fixed /\ Exact(two) = 2 * One /\ one \in Fixed /\ Exact(one) = 1 * One
      /\ RealOfInt(n) \in Fixed
  BY ExactOfInt DEF AllAssumptions
<1>3. CalculateRecentCpu(r, n, load) = RealAdd(m, RealOfInt(n))
  BY DEF CalculateRecentCpu
<1> HIDE DEF two, one
<1>4. twice \in Fixed /\ Exact(twice) >= 0
  BY <1>1, <1>2, ProductFacts DEF AllAssumptions
<1> HIDE DEF twice
<1>5. more \in Fixed /\ Exact(more) > 0
  BY <1>1, <1>2, <1>4, ExactOfSum, ExactIsInt
<1> HIDE DEF more
<1>6. more.value # 0
  BY <1>5 DEF Exact, Fixed
<1>7. q \in Fixed
  BY <1>4, <1>5, <1>6, RatioFacts DEF AllAssumptions
<1> HIDE DEF q
<1>8. m \in Fixed
  BY <1>7, ProductFacts DEF AllAssumptions
<1> HIDE DEF m
<1> QED
  BY <1>2, <1>3, <1>8, ExactOfSum

LEMMA ChargedFacts ==
    ASSUME AllAssumptions, MlfqsTyped, current \in AllThreads
    PROVE  /\ Charged \in [AllThreads -> Fixed]
           /\ \A t \in AllThreads : /\ Exact(recentCpu[t]) <= Exact(Charged[t])
                                    /\ Exact(Charged[t]) <= Exact(recentCpu[t]) + One
<1> DEFINE one == RealOfInt(1)
<1>1. One \in Nat \ {0}
  BY DEF AllAssumptions, FixedPointAssumption
<1>2. one \in Fixed /\ Exact(one) = One
  BY <1>1, ExactOfInt DEF AllAssumptions
<1>3. /\ recentCpu \in [AllThreads -> Fixed]
      /\ Charged = IF current = Idle THEN recentCpu
                   ELSE [recentCpu EXCEPT ![current] = RealAdd(@, one)]
  BY DEF Charged, MlfqsTyped
<1> HIDE DEF one
<1>4. ASSUME NEW t \in AllThreads
      PROVE  /\ recentCpu[t] \in Fixed /\ Exact(recentCpu[t]) \in Int
             /\ RealAdd(recentCpu[t], one) \in Fixed
             /\ Exact(RealAdd(recentCpu[t], one)) = Exact(recentCpu[t]) + One
  BY <1>2, <1>3, ExactOfSum, ExactIsInt
<1>5. Charged \in [AllThreads -> Fixed]
  BY <1>3, <1>4
<1>6. ASSUME NEW t \in AllThreads
      PROVE  Charged[t] = recentCpu[t] \/ Charged[t] = RealAdd(recentCpu[t], one)
  BY <1>3
<1> QED
  BY <1>1, <1>4, <1>5, <1>6

-----------------------------------------------------------------------------
(* The threads that there are: a dispatch neither makes nor ends one.      *)
Gone == {"free", "dying"}

LEMMA ScheduleAlive ==
    ASSUME SchedAssumption, NEW ready \in Seq(Thread), NEW st \in [AllThreads -> Status], NEW prio,
           st[Idle] \notin Gone, \A u \in ToSet(ready) : st[u] \notin Gone,
           Schedule(ready, st, prio)
    PROVE  \A u \in AllThreads : status'[u] \in Gone <=> st[u] \in Gone
<1>1. /\ current' \in AllThreads
      /\ current' = Idle \/ current' \in ToSet(ready)
      /\ status' = [st EXCEPT ![current'] = "running"]
  BY ScheduleFacts
<1>2. \A u \in AllThreads : status'[u] = IF u = current' THEN "running" ELSE st[u]
  BY <1>1
<1> QED
  BY <1>1, <1>2 DEF Gone

LEMMA YieldAlive ==
    ASSUME SchedAssumption, current \in AllThreads,
           NEW ready \in Seq(Thread), NEW st \in [AllThreads -> Status], NEW prio,
           st[Idle] \notin Gone, st[current] \notin Gone, \A u \in ToSet(ready) : st[u] \notin Gone,
           YieldFrom(ready, st, prio)
    PROVE  \A u \in AllThreads : status'[u] \in Gone <=> st[u] \in Gone
<1> DEFINE r == IF current = Idle THEN ready ELSE Append(ready, current)
           s == [st EXCEPT ![current] = "ready"]
<1>1. s \in [AllThreads -> Status] /\ \A u \in AllThreads : s[u] \in Gone <=> st[u] \in Gone
  BY DEF Status, Gone
<1>2. r \in Seq(Thread) /\ ToSet(r) \subseteq ToSet(ready) \cup {current}
  <2>1. CASE current = Idle
    BY <2>1
  <2>2. CASE current # Idle
    BY <2>2, PushBackFacts DEF AllThreads
  <2> QED
    BY <2>1, <2>2
<1>3. Schedule(r, s, prio)
  BY DEF YieldFrom
<1>4. ToSet(ready) \subseteq AllThreads
  BY DEF ToSet, AllThreads
<1> HIDE DEF r, s
<1>5. s[Idle] \notin Gone /\ \A u \in ToSet(r) : s[u] \notin Gone
  BY <1>1, <1>2, <1>4 DEF AllThreads
<1>6. \A u \in AllThreads : status'[u] \in Gone <=> s[u] \in Gone
  BY <1>1, <1>2, <1>3, <1>5, ScheduleAlive
<1> QED
  BY <1>1, <1>6

LEMMA WhoIsAlive ==
    ASSUME SchedAssumption, Lists, DispatchType, status[Idle] \notin Gone
    PROVE  /\ status[current] \notin Gone /\ \A u \in ToSet(readyList) : status[u] \notin Gone
           /\ current \notin ToSet(readyList) /\ ToSet(readyList) \subseteq Thread
  BY DEF Lists, Filed, Runs, Gone, DispatchType

LEMMA LeaveAlive ==
    ASSUME SchedAssumption, Lists, DispatchType, status[Idle] \notin Gone,
           NEW to \in Status, to \in Gone => current # Idle,
           Schedule(readyList, [status EXCEPT ![current] = to], priority)
    PROVE  \A u \in AllThreads :
              status'[u] \in Gone <=> IF u = current THEN to \in Gone ELSE status[u] \in Gone
<1> DEFINE st == [status EXCEPT ![current] = to]
<1>1. /\ st \in [AllThreads -> Status] /\ readyList \in Seq(Thread)
      /\ \A u \in AllThreads : st[u] = IF u = current THEN to ELSE status[u]
  BY DEF DispatchType
<1>2. Schedule(readyList, st, priority)
  OBVIOUS
<1> HIDE DEF st
<1>3. st[Idle] \notin Gone
  BY <1>1 DEF AllThreads
<1>4. \A u \in ToSet(readyList) : st[u] \notin Gone
  BY <1>1, WhoIsAlive DEF AllThreads
<1> QED
  BY <1>1, <1>2, <1>3, <1>4, ScheduleAlive

LEMMA UnblockAlive ==
    ASSUME SchedAssumption, Lists, DispatchType, status[Idle] \notin Gone,
           NEW t \in Thread, NEW prio, UnblockAndMaybeYield(t, prio)
    PROVE  \A u \in AllThreads : status'[u] \in Gone <=> u # t /\ status[u] \in Gone
<1> DEFINE st == [status EXCEPT ![t] = "ready"]
<1>1. /\ st \in [AllThreads -> Status]
      /\ \A u \in AllThreads : st[u] = IF u = t THEN "ready" ELSE status[u]
  BY DEF Status, AllThreads, DispatchType
<1>2. /\ readyList \in Seq(Thread) /\ Append(readyList, t) \in Seq(Thread)
      /\ ToSet(Append(readyList, t)) = ToSet(readyList) \cup {t}
  BY PushBackFacts DEF DispatchType
<1>3. /\ status[current] \notin Gone /\ \A u \in ToSet(readyList) : status[u] \notin Gone
      /\ ToSet(readyList) \subseteq Thread /\ current \in AllThreads
  BY WhoIsAlive DEF DispatchType
<1>4. /\ st[current] \notin Gone /\ st[Idle] \notin Gone
      /\ \A u \in ToSet(Append(readyList, t)) : st[u] \notin Gone
  BY <1>1, <1>2, <1>3 DEF AllThreads, Gone
<1>5. CASE prio[current] < prio[t]
  <2>1. YieldFrom(Append(readyList, t), st, prio)
    BY <1>5 DEF UnblockAndMaybeYield
  <2> HIDE DEF st
  <2>2. \A u \in AllThreads : status'[u] \in Gone <=> st[u] \in Gone
    BY <1>1, <1>2, <1>3, <1>4, <2>1, YieldAlive
  <2> QED
    BY <1>1, <2>2 DEF Gone
<1>6. CASE ~(prio[current] < prio[t])
  <2>1. status' = st
    BY <1>6 DEF UnblockAndMaybeYield
  <2> HIDE DEF st
  <2> QED
    BY <1>1, <2>1 DEF Gone
<1> QED
  BY <1>5, <1>6

LEMMA TickAlive ==
    ASSUME SchedAssumption, DispatchType, SleepType, Lists, status[Idle] \notin Gone,
           NEW due \in SUBSET sleepList, NEW prio,
           NEW woken \in Bijection(1 .. Cardinality(due), due),
           YieldFrom(readyList \o woken,
                     [t \in AllThreads |-> IF t \in due THEN "ready" ELSE status[t]], prio)
    PROVE  \A u \in AllThreads : status'[u] \in Gone <=> status[u] \in Gone
<1> DEFINE st == [t \in AllThreads |-> IF t \in due THEN "ready" ELSE status[t]]
<1>1. due \in SUBSET Thread /\ \A t \in due : status[t] = "sleep" /\ t # Idle
  BY DEF SleepType, Lists, SchedAssumption
<1>2. Cardinality(due) \in Nat
  BY <1>1, FS_Subset, FS_CardinalityType DEF SchedAssumption
<1>3. /\ readyList \o woken \in Seq(Thread)
      /\ ToSet(readyList \o woken) = ToSet(readyList) \cup due
  BY <1>1, <1>2, ConcatFacts DEF DispatchType
<1>4. /\ st \in [AllThreads -> Status]
      /\ \A u \in AllThreads : st[u] \in Gone <=> status[u] \in Gone
  BY <1>1 DEF Status, Gone, DispatchType
<1>5. YieldFrom(readyList \o woken, st, prio)
  OBVIOUS
<1>6. /\ status[current] \notin Gone /\ \A u \in ToSet(readyList) : status[u] \notin Gone
      /\ ToSet(readyList) \subseteq Thread /\ current \in AllThreads
  BY WhoIsAlive DEF DispatchType
<1> HIDE DEF st
<1>7. /\ st[current] \notin Gone /\ st[Idle] \notin Gone
      /\ \A u \in ToSet(readyList \o woken) : st[u] \notin Gone
  BY <1>1, <1>3, <1>4, <1>6 DEF AllThreads, Gone
<1>8. \A u \in AllThreads : status'[u] \in Gone <=> st[u] \in Gone
  BY <1>3, <1>4, <1>5, <1>6, <1>7, YieldAlive
<1> QED
  BY <1>4, <1>8

-----------------------------------------------------------------------------
MlfqsAll == MlfqsInv /\ status[Idle] \notin Gone

LEMMA MlfqsInitInv == AllAssumptions /\ MlfqsInit => MlfqsAll
<1> SUFFICES ASSUME AllAssumptions, MlfqsInit PROVE MlfqsAll
  OBVIOUS
<1> DEFINE zero == RealOfInt(0)
<1>1. zero \in Fixed /\ Exact(zero) = 0
  BY ZeroCpu DEF AllAssumptions
<1>2. /\ nice = [t \in AllThreads |-> NiceDefault] /\ NiceDefault \in Int
      /\ recentCpu = [t \in AllThreads |-> zero] /\ loadAvg = zero /\ tick = 0
      /\ thread_mlfqs \in BOOLEAN
      /\ thread_mlfqs => /\ priority = [t \in AllThreads |->
                                  IF Listed(t) THEN CalculatePriority(recentCpu[t], nice[t])
                                  ELSE PriDefault]
                         /\ oldPriority = [t \in AllThreads |-> PriDefault]
      /\ ~thread_mlfqs => PriorityInit
  BY DEF MlfqsInit, AllAssumptions, MlfqsAssumption
<1>3. DispatchInit
  BY DEF MlfqsInit
<1> HIDE DEF zero
<1>4. MlfqsTyped
  BY <1>1, <1>2 DEF MlfqsTyped
<1>5. ASSUME thread_mlfqs PROVE FollowsCpu
  <2>1. ASSUME NEW t \in AllThreads, Listed(t)
        PROVE  Follows(priority[t], nice[t], Exact(recentCpu[t]), tick % 4)
    <3>1. priority[t] = CalculatePriority(zero, NiceDefault) /\ recentCpu[t] = zero /\ nice[t] = NiceDefault
      BY <1>2, <1>5, <2>1
    <3>2. tick % 4 \in Nat
      BY <1>2
    <3> QED
      BY <1>1, <1>2, <3>1, <3>2, PriorityComputed DEF AllAssumptions
  <2> QED
    BY <2>1 DEF FollowsCpu
<1>6. PriDefault \in Priority /\ PriMin \in Priority
  BY DEF AllAssumptions, SchedAssumption, Priority
<1>7. priority \in [AllThreads -> Priority] /\ oldPriority \in [AllThreads -> Priority]
  <2>1. CASE thread_mlfqs
    <3>1. CalculatePriority(zero, NiceDefault) \in Priority
      BY <1>1, <1>2, PriorityComputed DEF AllAssumptions
    <3> QED
      BY <1>2, <1>6, <2>1, <3>1
  <2>2. CASE ~thread_mlfqs
    BY <1>2, <1>6, <2>2 DEF PriorityInit
  <2> QED
    BY <1>2, <2>1, <2>2
<1>8. SchedTypeOK
  BY <1>3, <1>7 DEF DispatchInit, SchedTypeOK, AllThreads, Status, AllAssumptions, SchedAssumption
<1>9. Lists /\ HighestPriorityRuns
  BY <1>3, EmptyList DEF DispatchInit, Lists, Filed, Runs, AllThreads, HighestPriorityRuns,
     AllAssumptions, SchedAssumption
<1>10. status[Idle] \notin Gone
  BY <1>3 DEF DispatchInit, Gone, AllThreads, AllAssumptions, SchedAssumption
<1> QED
  BY <1>4, <1>5, <1>8, <1>9, <1>10 DEF MlfqsAll, MlfqsInv, SchedInv

LEMMA SchedInvParts ==
    ASSUME SchedAssumption
    PROVE  SchedInv <=> /\ Dispatch
                        /\ priority \in [AllThreads -> Priority]
                        /\ oldPriority \in [AllThreads -> Priority]
                        /\ pc \in [AllThreads -> {"run", "yield"}]
<1>1. Priority \subseteq Int
  BY DEF Priority, SchedAssumption
<1> QED
  BY <1>1 DEF SchedInv, Dispatch, SchedTypeOK, DispatchType, SleepType

(* Between ticks a priority is computed anew or stays as it is.            *)
LEMMA FollowsStays ==
    ASSUME AllAssumptions, MlfqsInv, thread_mlfqs, tick' = tick, MlfqsTyped',
           \A t \in AllThreads : Listed(t)' =>
               \/ Listed(t) /\ UNCHANGED <<priority[t], nice[t], recentCpu[t]>>
               \/ priority'[t] = CalculatePriority(recentCpu'[t], nice'[t])
    PROVE  FollowsCpu'
<1> SUFFICES ASSUME NEW t \in AllThreads, Listed(t)'
             PROVE  Follows(priority'[t], nice'[t], Exact(recentCpu'[t]), tick' % 4)
  BY DEF FollowsCpu
<1>1. tick' % 4 \in Nat /\ recentCpu'[t] \in Fixed /\ nice'[t] \in Int
  BY DEF MlfqsTyped
<1>2. CASE Listed(t) /\ UNCHANGED <<priority[t], nice[t], recentCpu[t]>>
  <2>1. Follows(priority[t], nice[t], Exact(recentCpu[t]), tick % 4)
    BY <1>2 DEF MlfqsInv, FollowsCpu
  <2> QED
    BY <1>2, <2>1
<1>3. CASE priority'[t] = CalculatePriority(recentCpu'[t], nice'[t])
  BY <1>1, <1>3, PriorityComputed DEF AllAssumptions
<1> QED
  BY <1>2, <1>3

LEMMA MlfqsParts ==
    ASSUME AllAssumptions, Dispatch', MlfqsTyped', status'[Idle] \notin Gone,
           priority' \in [AllThreads -> Priority], oldPriority' \in [AllThreads -> Priority],
           pc' \in [AllThreads -> {"run", "yield"}], thread_mlfqs' => FollowsCpu'
    PROVE  MlfqsAll'
<1>1. SchedInv'
  BY SchedInvParts DEF AllAssumptions, SchedInv, Dispatch, SchedTypeOK, DispatchType, SleepType
<1> QED
  BY <1>1 DEF MlfqsAll, MlfqsInv

LEMMA MlfqsCreateStep ==
    ASSUME AllAssumptions, MlfqsAll, NEW t \in Thread, MlfqsCreate(t)
    PROVE  MlfqsAll' /\ UNCHANGED sleepList
<1> DEFINE zero == RealOfInt(0)
           p == CalculatePriority(zero, nice[current])
           prio == [priority EXCEPT ![t] = p]
<1>1. /\ thread_mlfqs /\ current \in Thread /\ pc[current] = "run" /\ status[t] = "free"
      /\ nice' = [nice EXCEPT ![t] = nice[current]]
      /\ recentCpu' = [recentCpu EXCEPT ![t] = zero]
      /\ priority' = prio /\ UnblockAndMaybeYield(t, prio)
      /\ UNCHANGED <<oldPriority, sleepVars, pc, loadAvg, tick, thread_mlfqs>>
  BY DEF MlfqsCreate, Running
<1>2. /\ SchedAssumption /\ SchedInv /\ MlfqsTyped /\ Dispatch
      /\ priority \in [AllThreads -> Priority] /\ oldPriority \in [AllThreads -> Priority]
      /\ pc \in [AllThreads -> {"run", "yield"}]
  BY SchedInvParts DEF AllAssumptions, MlfqsAll, MlfqsInv
<1>3. zero \in Fixed /\ nice[current] \in Int /\ t \in AllThreads /\ t # Idle
  BY <1>1, <1>2, ZeroCpu DEF AllAssumptions, MlfqsTyped, AllThreads, SchedAssumption
<1> HIDE DEF zero
<1>4. p \in Priority /\ p \in Int
  BY <1>3, PriorityComputed DEF AllAssumptions, Priority, SchedAssumption
<1>5. MlfqsTyped'
  BY <1>1, <1>2, <1>3 DEF MlfqsTyped, AllThreads
<1> HIDE DEF p, prio
<1>6. Dispatch'
  BY <1>1, <1>2, <1>4, CreateFacts DEF prio
<1>7. \A u \in AllThreads : status'[u] \in Gone <=> u # t /\ status[u] \in Gone
  BY <1>1, <1>2, UnblockAlive DEF MlfqsAll, Dispatch
<1>8. FollowsCpu'
  <2>1. /\ priority'[t] = CalculatePriority(recentCpu'[t], nice'[t])
        /\ \A u \in AllThreads : u # t => UNCHANGED <<priority[u], nice[u], recentCpu[u]>>
    BY <1>1, <1>2, <1>3 DEF MlfqsTyped, p, prio
  <2> QED
    BY <1>1, <1>5, <1>7, <2>1, FollowsStays DEF MlfqsAll, Listed, Gone
<1>9. priority' \in [AllThreads -> Priority] /\ status'[Idle] \notin Gone
  BY <1>1, <1>2, <1>4, <1>7 DEF prio, MlfqsAll, AllThreads
<1> QED
  BY <1>1, <1>2, <1>5, <1>6, <1>8, <1>9, MlfqsParts DEF sleepVars

LEMMA SetNiceStep ==
    ASSUME AllAssumptions, MlfqsAll, NEW t \in Thread, NEW n \in Nice, SetNice(t, n)
    PROVE  MlfqsAll' /\ UNCHANGED sleepList
<1> DEFINE p == CalculatePriority(recentCpu[t], n)
           prio == [priority EXCEPT ![t] = p]
<1>1. /\ thread_mlfqs /\ current = t /\ pc[t] = "run"
      /\ nice' = [nice EXCEPT ![t] = n] /\ priority' = prio
      /\ IF prio[t] < priority[t] /\ readyList # <<>>
         THEN YieldFrom(readyList, status, prio) ELSE UNCHANGED dispatchVars
      /\ UNCHANGED <<oldPriority, sleepList, sleepLeft, pc, recentCpu, loadAvg, tick, thread_mlfqs>>
  BY DEF SetNice, Running, sleepVars
<1>2. /\ SchedAssumption /\ SchedInv /\ MlfqsTyped /\ Dispatch
      /\ priority \in [AllThreads -> Priority] /\ oldPriority \in [AllThreads -> Priority]
      /\ pc \in [AllThreads -> {"run", "yield"}]
  BY SchedInvParts DEF AllAssumptions, MlfqsAll, MlfqsInv
<1>3. recentCpu[t] \in Fixed /\ n \in Int /\ t \in AllThreads
  BY <1>2 DEF AllAssumptions, MlfqsTyped, AllThreads, MlfqsAssumption
<1>4. p \in Priority
  BY <1>3, PriorityComputed DEF AllAssumptions
<1>5. MlfqsTyped'
  BY <1>1, <1>2, <1>3 DEF MlfqsTyped
<1>6. /\ priority'[t] = CalculatePriority(recentCpu'[t], nice'[t])
      /\ \A u \in AllThreads : u # t => UNCHANGED <<priority[u], nice[u], recentCpu[u]>>
  BY <1>1, <1>2, <1>3 DEF MlfqsTyped
<1> HIDE DEF p
<1>7. /\ prio \in [AllThreads -> Priority] /\ prio \in [AllThreads -> Int] /\ prio[t] = p
      /\ \A u \in AllThreads : u # t => prio[u] = priority[u]
  BY <1>2, <1>3, <1>4 DEF Priority, SchedAssumption
<1> HIDE DEF prio
<1>8. Dispatch' /\ \A u \in AllThreads : status'[u] \in Gone <=> status[u] \in Gone
  <2>1. CASE prio[t] < priority[t] /\ readyList # <<>>
    <3>1. YieldFrom(readyList, status, prio)
      BY <1>1, <2>1
    <3>2. DispatchType'
      BY <1>2, <3>1, YieldType DEF Dispatch, DispatchType
    <3>3. Filed(readyList', status') /\ Runs(current', status') /\ Rotates(status)
      BY <1>2, <3>1, YieldFiles DEF Dispatch, DispatchType, Lists
    <3>4. Lists'
      BY <1>1, <1>2, <3>3 DEF Dispatch, Lists, Rotates
    <3>5. NoneAbove(readyList', current', prio)
      BY <1>2, <1>7, <3>1, YieldHighest DEF Dispatch, DispatchType, Lists
    <3>6. \A u \in AllThreads : status'[u] \in Gone <=> status[u] \in Gone
      BY <1>2, <3>1, WhoIsAlive, YieldAlive DEF MlfqsAll, Dispatch, DispatchType
    <3> QED
      BY <1>1, <1>2, <1>7, <3>2, <3>4, <3>5, <3>6
         DEF Dispatch, NoneAbove, HighestPriorityRuns, SleepType
  <2>2. CASE ~(prio[t] < priority[t] /\ readyList # <<>>)
    <3>1. UNCHANGED <<current, status, readyList, threadTicks>>
      BY <1>1, <2>2 DEF dispatchVars
    <3>2. DispatchType' /\ SleepType' /\ Lists'
      BY <1>1, <1>2, <3>1 DEF Dispatch, DispatchType, SleepType, Lists, Filed, Runs
    <3>3. HighestPriorityRuns'
      <4>1. CASE readyList = <<>>
        BY <3>1, <4>1, EmptyList DEF HighestPriorityRuns
      <4>2. CASE ~(prio[t] < priority[t])
        <5>1. \A u \in ToSet(readyList) : u \in AllThreads /\ u # t
          BY <1>1, <1>2, WhoIsAlive DEF Dispatch, MlfqsAll, AllThreads
        <5>2. \A u \in AllThreads : priority[u] \in Int /\ prio[u] \in Int
          BY <1>2, <1>7 DEF Dispatch
        <5> QED
          BY <1>1, <1>2, <1>3, <1>7, <3>1, <4>2, <5>1, <5>2 DEF HighestPriorityRuns, Dispatch
      <4> QED
        BY <2>2, <4>1, <4>2
    <3> QED
      BY <1>1, <1>7, <3>1, <3>2, <3>3 DEF Dispatch
  <2> QED
    BY <2>1, <2>2
<1>9. FollowsCpu'
  BY <1>1, <1>5, <1>6, <1>8, FollowsStays DEF MlfqsAll, Listed, Gone
<1>10. status'[Idle] \notin Gone
  BY <1>8 DEF MlfqsAll, AllThreads
<1> QED
  BY <1>1, <1>2, <1>5, <1>7, <1>8, <1>9, <1>10, MlfqsParts

LEMMA MlfqsExitStep ==
    ASSUME AllAssumptions, MlfqsAll, NEW t \in Thread, MlfqsExit(t)
    PROVE  MlfqsAll' /\ UNCHANGED sleepList
<1> DEFINE zero == RealOfInt(0)
           to == IF t = Initial THEN "dying" ELSE "free"
<1>1. /\ thread_mlfqs /\ ThreadExit(t) /\ current = t
      /\ nice' = [nice EXCEPT ![t] = NiceDefault] /\ recentCpu' = [recentCpu EXCEPT ![t] = zero]
      /\ priority' = [priority EXCEPT ![t] = PriDefault]
      /\ oldPriority' = [oldPriority EXCEPT ![t] = PriDefault]
      /\ UNCHANGED <<sleepList, pc, loadAvg, tick, thread_mlfqs>>
      /\ Schedule(readyList, [status EXCEPT ![current] = to], priority)
  BY DEF MlfqsExit, ThreadExit, Running, sleepVars
<1>2. /\ SchedAssumption /\ SchedInv /\ MlfqsTyped /\ Dispatch
      /\ priority \in [AllThreads -> Priority] /\ oldPriority \in [AllThreads -> Priority]
      /\ pc \in [AllThreads -> {"run", "yield"}]
  BY SchedInvParts DEF AllAssumptions, MlfqsAll, MlfqsInv
<1>3. zero \in Fixed /\ NiceDefault \in Int /\ PriDefault \in Priority /\ t # Idle
  BY ZeroCpu DEF AllAssumptions, MlfqsAssumption, SchedAssumption, Priority
<1>4. to \in Status /\ to \in Gone
  BY DEF Status, Gone
<1> HIDE DEF zero, to
<1>5. Dispatch'
  BY <1>1, <1>2, ExitStep
<1>6. \A u \in AllThreads : status'[u] \in Gone <=> u = t \/ status[u] \in Gone
  BY <1>1, <1>2, <1>3, <1>4, LeaveAlive DEF MlfqsAll, Dispatch
<1>7. MlfqsTyped'
  BY <1>1, <1>2, <1>3 DEF MlfqsTyped
<1>8. FollowsCpu'
  <2>1. \A u \in AllThreads : u # t => UNCHANGED <<priority[u], nice[u], recentCpu[u]>>
    BY <1>1, <1>2 DEF MlfqsTyped
  <2> QED
    BY <1>1, <1>6, <1>7, <2>1, FollowsStays DEF MlfqsAll, Listed, Gone
<1>9. status'[Idle] \notin Gone
  BY <1>3, <1>6 DEF MlfqsAll, AllThreads
<1> QED
  BY <1>1, <1>2, <1>3, <1>5, <1>7, <1>8, <1>9, MlfqsParts

(* Yields, sleep and idle leave what the priorities are computed from.     *)
LEMMA MlfqsQuietStep ==
    ASSUME AllAssumptions, MlfqsAll, UNCHANGED <<priority, oldPriority, mlfqsVars, thread_mlfqs>>,
           Dispatch', \A u \in AllThreads : status'[u] \in Gone <=> status[u] \in Gone,
           pc' \in [AllThreads -> {"run", "yield"}]
    PROVE  MlfqsAll'
<1>1. /\ SchedAssumption /\ SchedInv /\ MlfqsTyped /\ Dispatch
      /\ priority \in [AllThreads -> Priority] /\ oldPriority \in [AllThreads -> Priority]
  BY SchedInvParts DEF AllAssumptions, MlfqsAll, MlfqsInv
<1>2. UNCHANGED <<nice, recentCpu, loadAvg, tick>>
  BY DEF mlfqsVars
<1>3. MlfqsTyped'
  BY <1>1, <1>2 DEF MlfqsTyped
<1>4. thread_mlfqs => FollowsCpu'
  BY <1>2, <1>3, FollowsStays DEF MlfqsAll, Listed, Gone
<1>5. status'[Idle] \notin Gone
  BY DEF MlfqsAll, AllThreads
<1> QED
  BY <1>1, <1>3, <1>4, <1>5, MlfqsParts

LEMMA MlfqsDispatchStep ==
    ASSUME AllAssumptions, MlfqsAll,
           MlfqsIdle \/ \E t \in Thread : MlfqsDispatch(t)
    PROVE  MlfqsAll' /\ sleepList \subseteq sleepList'
<1>1. /\ SchedAssumption /\ SchedInv /\ MlfqsTyped /\ Dispatch
      /\ pc \in [AllThreads -> {"run", "yield"}] /\ status[Idle] \notin Gone
  BY SchedInvParts DEF AllAssumptions, MlfqsAll, MlfqsInv
<1>2. CASE MlfqsIdle
  <2>1. /\ IdleLoop /\ UNCHANGED <<mlfqsVars, thread_mlfqs, priority, oldPriority, pc, sleepList>>
        /\ Schedule(readyList, [status EXCEPT ![current] = "blocked"], priority) /\ current = Idle
    BY <1>2 DEF MlfqsIdle, IdleLoop, priorityVars, sleepVars
  <2>2. Dispatch'
    BY <1>1, <2>1, IdleStep
  <2>3. "blocked" \in Status /\ "blocked" \notin Gone
    BY DEF Status, Gone
  <2>4. \A u \in AllThreads : status'[u] \in Gone <=> status[u] \in Gone
    BY <1>1, <2>1, <2>3, LeaveAlive DEF Dispatch
  <2> QED
    BY <1>1, <2>1, <2>2, <2>4, MlfqsQuietStep
<1>3. ASSUME NEW t \in Thread, MlfqsDispatch(t), ThreadYield(t)
      PROVE  MlfqsAll' /\ sleepList \subseteq sleepList'
  <2>1. /\ UNCHANGED <<mlfqsVars, thread_mlfqs, priority, oldPriority, sleepList>>
        /\ YieldFrom(readyList, status, priority) /\ pc' = [pc EXCEPT ![t] = "run"]
    BY <1>3 DEF MlfqsDispatch, ThreadYield, priorityVars, sleepVars
  <2>2. Dispatch'
    BY <1>1, <1>3, YieldStep
  <2>3. \A u \in AllThreads : status'[u] \in Gone <=> status[u] \in Gone
    BY <1>1, <2>1, WhoIsAlive, YieldAlive DEF Dispatch, DispatchType
  <2>4. pc' \in [AllThreads -> {"run", "yield"}]
    BY <1>1, <2>1
  <2> QED
    BY <2>1, <2>2, <2>3, <2>4, MlfqsQuietStep
<1>4. ASSUME NEW t \in Thread, MlfqsDispatch(t), NEW ticks \in SleepTicks, ThreadSleep(t, ticks)
      PROVE  MlfqsAll' /\ sleepList \subseteq sleepList'
  <2>1. /\ UNCHANGED <<mlfqsVars, thread_mlfqs, priority, oldPriority, pc>>
        /\ Schedule(readyList, [status EXCEPT ![current] = "sleep"], priority) /\ current = t
        /\ sleepList' = sleepList \cup {t}
    BY <1>4 DEF MlfqsDispatch, ThreadSleep, priorityVars, Running
  <2>2. Dispatch'
    BY <1>1, <1>4, SleepStep
  <2>3. "sleep" \in Status /\ "sleep" \notin Gone /\ status[current] \notin Gone
    BY <1>1, WhoIsAlive DEF Status, Gone, Dispatch
  <2>4. \A u \in AllThreads : status'[u] \in Gone <=> status[u] \in Gone
    BY <1>1, <2>1, <2>3, LeaveAlive DEF Dispatch
  <2> QED
    BY <1>1, <2>1, <2>2, <2>4, MlfqsQuietStep
<1> QED
  BY <1>2, <1>3, <1>4 DEF MlfqsDispatch

LEMMA FourthTicks ==
    ASSUME NEW f \in Nat \ {0}, f % 4 = 0, NEW n \in Nat, n % f = 0
    PROVE  n % 4 = 0
<1> DEFINE a == f \div 4
           b == n \div f
<1>1. a \in Int /\ f = 4 * a
  OBVIOUS
<1>2. b \in Int /\ n = f * b
  OBVIOUS
<1> HIDE DEF a, b
<1>3. n = 4 * (a * b) /\ a * b \in Int
  BY <1>1, <1>2
<1> QED
  BY <1>3

LEMMA MlfqsTickStep ==
    ASSUME AllAssumptions, MlfqsAll, MlfqsTick
    PROVE  MlfqsAll' /\ Wakes
<1> DEFINE left == [t \in Thread |-> IF t \in sleepList THEN sleepLeft[t] - 1
                                                        ELSE sleepLeft[t]]
           due == {t \in sleepList : left[t] <= 0}
           now == tick + 1
           second == now % TimerFreq = 0
           fourth == now % 4 = 0
           runnable == Len(readyList) + Cardinality(due) + (IF current = Idle THEN 0 ELSE 1)
           load == IF ~second THEN loadAvg ELSE CalculateLoadAvg(runnable)
           recent == [t \in AllThreads |->
                         IF second /\ Listed(t)
                         THEN CalculateRecentCpu(Charged[t], nice[t], load)
                         ELSE Charged[t]]
           prio == [t \in AllThreads |->
                       IF fourth /\ Listed(t) THEN CalculatePriority(recent[t], nice[t])
                       ELSE priority[t]]
           st == [t \in AllThreads |-> IF t \in due THEN "ready" ELSE status[t]]
           yields == \/ due # {}
                     \/ fourth /\ readyList # <<>>
                     \/ threadTicks + 1 >= TimeSlice
<1>1. PICK woken \in Bijection(1 .. Cardinality(due), due) :
          /\ thread_mlfqs
          /\ sleepList' = sleepList \ due
          /\ sleepLeft' = [t \in Thread |-> IF t \in due THEN 0 ELSE left[t]]
          /\ tick' = now /\ loadAvg' = load /\ recentCpu' = recent /\ priority' = prio
          /\ IF yields THEN YieldFrom(readyList \o woken, st, prio)
             ELSE /\ threadTicks' = threadTicks + 1
                  /\ UNCHANGED <<current, status, readyList>>
          /\ UNCHANGED <<oldPriority, pc, nice, thread_mlfqs>>
  BY DEF MlfqsTick
<1>2. /\ SchedAssumption /\ SchedInv /\ MlfqsTyped /\ Dispatch /\ DispatchType /\ SleepType /\ Lists
      /\ priority \in [AllThreads -> Priority] /\ oldPriority \in [AllThreads -> Priority]
      /\ pc \in [AllThreads -> {"run", "yield"}] /\ status[Idle] \notin Gone
  BY SchedInvParts DEF AllAssumptions, MlfqsAll, MlfqsInv, Dispatch
<1>3. left \in [Thread -> Int] /\ due \in SUBSET sleepList /\ sleepList \in SUBSET Thread
  BY <1>2 DEF SleepType
<1>4. now \in Nat /\ fourth \in BOOLEAN /\ second \in BOOLEAN /\ yields \in BOOLEAN
  BY <1>2 DEF MlfqsTyped
<1>5. runnable \in Nat
  <2>1. Cardinality(due) \in Nat
    BY <1>2, <1>3, FS_Subset, FS_CardinalityType DEF SchedAssumption
  <2> QED
    BY <1>2, <2>1 DEF DispatchType
<1>6. load \in Fixed /\ Exact(load) >= 0
  BY <1>2, <1>5, LoadFacts DEF MlfqsTyped
<1>7. second => fourth
  BY <1>2, <1>4, FourthTicks DEF AllAssumptions, MlfqsAssumption, MlfqsTyped
<1>8. fourth \/ now % 4 = (tick % 4) + 1
  BY <1>2 DEF MlfqsTyped
<1> HIDE DEF runnable, load
<1>9. /\ Charged \in [AllThreads -> Fixed]
      /\ \A t \in AllThreads : /\ Exact(recentCpu[t]) <= Exact(Charged[t])
                               /\ Exact(Charged[t]) <= Exact(recentCpu[t]) + One
  BY <1>2, ChargedFacts DEF DispatchType
<1>10. recent \in [AllThreads -> Fixed]
  <2>1. \A t \in AllThreads : CalculateRecentCpu(Charged[t], nice[t], load) \in Fixed
    BY <1>2, <1>6, <1>9, RecentFacts DEF MlfqsTyped
  <2> QED
    BY <1>9, <2>1
<1>11. ~second => \A t \in AllThreads : recent[t] = Charged[t]
  OBVIOUS
<1> HIDE DEF recent
<1>12. \A t \in AllThreads : CalculatePriority(recent[t], nice[t]) \in Priority
  BY <1>2, <1>10, PriorityComputed DEF AllAssumptions, MlfqsTyped
<1>13. /\ prio \in [AllThreads -> Priority]
       /\ \A t \in AllThreads : prio[t] = IF fourth /\ Listed(t)
                                          THEN CalculatePriority(recent[t], nice[t])
                                          ELSE priority[t]
  BY <1>2, <1>12
<1>14. prio \in [AllThreads -> Int]
  BY <1>13 DEF Priority, SchedAssumption, AllAssumptions
<1>15. MlfqsTyped'
  BY <1>1, <1>2, <1>4, <1>6, <1>10 DEF MlfqsTyped
<1> HIDE DEF left, now, second, prio
<1>16. /\ Dispatch' /\ Wakes
       /\ \A u \in AllThreads : status'[u] \in Gone <=> status[u] \in Gone
  <2>1. CASE yields
    <3>1. YieldFrom(readyList \o woken, st, prio)
      BY <1>1, <2>1
    <3>2. /\ DispatchType' /\ SleepType' /\ Lists'
          /\ NoneAbove(readyList', current', prio)
          /\ \A t \in due :
                (\A u \in Thread \ {t} : status[u] # "free" => prio[u] < prio[t])
                => current' = t
      BY <1>1, <1>2, <1>3, <1>14, <3>1, TickFacts
    <3>3. Wakes
      BY <1>1, <3>2 DEF Wakes
    <3>4. \A u \in AllThreads : status'[u] \in Gone <=> status[u] \in Gone
      BY <1>2, <1>3, <3>1, TickAlive
    <3> QED
      BY <1>1, <1>14, <3>2, <3>3, <3>4 DEF Dispatch, NoneAbove, HighestPriorityRuns
  <2>2. CASE ~yields
    <3>1. /\ UNCHANGED <<current, status, readyList, pc, sleepList>>
          /\ threadTicks' = threadTicks + 1 /\ threadTicks + 1 < TimeSlice /\ due = {}
          /\ fourth => readyList = <<>>
      BY <1>1, <1>2, <2>2 DEF DispatchType, SchedAssumption
    <3>2. DispatchType' /\ Lists'
      BY <1>2, <3>1 DEF DispatchType, Lists, Filed, Runs, SchedAssumption
    <3>3. SleepType'
      BY <1>1, <1>2, <1>3, <3>1 DEF SleepType
    <3>4. HighestPriorityRuns'
      <4>1. CASE readyList = <<>>
        BY <3>1, <4>1, EmptyList DEF HighestPriorityRuns
      <4>2. CASE ~fourth
        <5>1. \A t \in AllThreads : priority'[t] = priority[t]
          BY <1>1, <1>13, <4>2
        <5>2. ToSet(readyList) \subseteq AllThreads /\ current \in AllThreads
          BY <1>2, WhoIsAlive DEF AllThreads, DispatchType
        <5> QED
          BY <1>2, <3>1, <5>1, <5>2 DEF HighestPriorityRuns, Dispatch
      <4> QED
        BY <1>4, <3>1, <4>1, <4>2
    <3> QED
      BY <1>1, <1>14, <3>1, <3>2, <3>3, <3>4 DEF Dispatch, Wakes
  <2> QED
    BY <1>4, <2>1, <2>2
<1>17. FollowsCpu'
  <2> SUFFICES ASSUME NEW t \in AllThreads, Listed(t)'
               PROVE  Follows(prio[t], nice[t], Exact(recent[t]), now % 4)
    BY <1>1 DEF FollowsCpu
  <2>1. Listed(t) /\ now % 4 \in Nat /\ tick % 4 \in Nat
    BY <1>2, <1>4, <1>16 DEF Listed, Gone, MlfqsTyped
  <2>2. recent[t] \in Fixed /\ nice[t] \in Int /\ recentCpu[t] \in Fixed
    BY <1>2, <1>10 DEF MlfqsTyped
  <2>3. CASE fourth
    BY <1>13, <2>1, <2>2, <2>3, PriorityComputed DEF AllAssumptions
  <2>4. CASE ~fourth
    <3>1. prio[t] = priority[t] /\ recent[t] = Charged[t] /\ now % 4 = (tick % 4) + 1
      BY <1>7, <1>8, <1>11, <1>13, <2>4
    <3>2. Follows(priority[t], nice[t], Exact(recentCpu[t]), tick % 4)
      BY <1>1, <2>1 DEF MlfqsAll, MlfqsInv, FollowsCpu
    <3> DEFINE x == Exact(recentCpu[t])
               y == Exact(recent[t])
    <3>3. x \in Int /\ y \in Int /\ x <= y /\ y <= x + One /\ One \in Nat
      BY <1>9, <2>2, <3>1, ExactIsInt DEF AllAssumptions, FixedPointAssumption
    <3>4. ((tick % 4) + 1) * One = (tick % 4) * One + One /\ (tick % 4) * One \in Int
      BY <2>1, <3>3
    <3> HIDE DEF x, y
    <3>5. y - (now % 4) * One <= x - (tick % 4) * One
      BY <3>1, <3>3, <3>4
    <3>6. Follows(priority[t], nice[t], x, tick % 4) /\ priority[t] \in Priority
      BY <1>2, <3>2 DEF x
    <3>7. Follows(priority[t], nice[t], y, now % 4)
      BY <2>1, <2>2, <3>3, <3>5, <3>6, FollowsOn DEF AllAssumptions
    <3> QED
      BY <3>1, <3>7 DEF y
  <2> QED
    BY <2>3, <2>4
<1>18. status'[Idle] \notin Gone
  BY <1>2, <1>16 DEF AllThreads
<1> QED
  BY <1>1, <1>2, <1>13, <1>15, <1>16, <1>17, <1>18, MlfqsParts

-----------------------------------------------------------------------------
LEMMA SchedIdleStays ==
    ASSUME SchedAssumption, SchedInv, status[Idle] \notin Gone, [SchedNext]_schedVars
    PROVE  status'[Idle] \notin Gone
<1>0. Dispatch
  BY SchedInvParts
<1>1. ASSUME NEW t \in Thread, ThreadExit(t) PROVE status'[Idle] \notin Gone
  <2>1. /\ Schedule(readyList,
              [status EXCEPT ![current] = IF t = Initial THEN "dying" ELSE "free"], priority)
        /\ current = t
    BY <1>1 DEF ThreadExit, Running
  <2>2. (IF t = Initial THEN "dying" ELSE "free") \in Status /\ current # Idle
    BY <1>0, <2>1 DEF Status, SchedAssumption
  <2>3. status'[Idle] \in Gone <=> status[Idle] \in Gone
    BY <1>0, <2>1, <2>2, LeaveAlive DEF Dispatch, AllThreads
  <2> QED
    BY <2>3
<1>2. ASSUME NEW t \in Thread, NEW ticks \in SleepTicks, ThreadSleep(t, ticks)
      PROVE  status'[Idle] \notin Gone
  <2>1. /\ Schedule(readyList, [status EXCEPT ![current] = "sleep"], priority)
        /\ current = t
    BY <1>2 DEF ThreadSleep, Running
  <2>2. "sleep" \in Status /\ "sleep" \notin Gone /\ current # Idle
    BY <1>0, <2>1 DEF Status, SchedAssumption, Gone
  <2>3. status'[Idle] \in Gone <=> status[Idle] \in Gone
    BY <1>0, <2>1, <2>2, LeaveAlive DEF Dispatch, AllThreads
  <2> QED
    BY <2>3
<1>3. ASSUME NEW t \in Thread, ThreadYield(t) PROVE status'[Idle] \notin Gone
  <2>1. YieldFrom(readyList, status, priority)
    BY <1>3 DEF ThreadYield
  <2>2. \A u \in AllThreads : status'[u] \in Gone <=> status[u] \in Gone
    BY <1>0, <2>1, WhoIsAlive, YieldAlive DEF Dispatch, DispatchType
  <2> QED
    BY <2>2 DEF AllThreads
<1>4. CASE IdleLoop
  <2>1. /\ Schedule(readyList, [status EXCEPT ![current] = "blocked"], priority)
        /\ current = Idle
    BY <1>4 DEF IdleLoop
  <2>2. "blocked" \in Status /\ "blocked" \notin Gone
    BY DEF Status, Gone
  <2>3. status'[Idle] \notin Gone
    BY <1>0, <2>1, <2>2, LeaveAlive DEF Dispatch, AllThreads
  <2> QED
    BY <2>3
<1>5. ASSUME NEW t \in Thread, NEW p \in Priority, SetPriority(t, p)
      PROVE  status'[Idle] \notin Gone
  BY <1>5 DEF SetPriority, dispatchVars
<1>6. CASE UNCHANGED schedVars
  BY <1>6 DEF schedVars
<1>7. CASE Create
  <2>1. PICK w \in Thread : /\ UnblockAndMaybeYield(w, priority')
    BY <1>7 DEF Create, ThreadCreate
  <2> QED
    BY <1>0, <2>1, UnblockAlive DEF Dispatch, AllThreads, SchedAssumption
<1>8. CASE TimerInterrupt
  <2> DEFINE left == [t \in Thread |-> IF t \in sleepList THEN sleepLeft[t] - 1
                                                          ELSE sleepLeft[t]]
             due == {t \in sleepList : left[t] <= 0}
  <2>1. PICK woken \in Bijection(1 .. Cardinality(due), due) :
            \/ YieldFrom(readyList \o woken,
                         [t \in AllThreads |-> IF t \in due THEN "ready" ELSE status[t]], priority)
            \/ UNCHANGED status
    BY <1>8 DEF TimerInterrupt
  <2>2. due \in SUBSET sleepList
    OBVIOUS
  <2> HIDE DEF due
  <2> QED
    BY <1>0, <2>1, <2>2, TickAlive DEF Dispatch, AllThreads
<1> QED
  BY <1>1, <1>2, <1>3, <1>4, <1>5, <1>6, <1>7, <1>8 DEF SchedNext

LEMMA MlfqsStep ==
    ASSUME AllAssumptions, MlfqsAll, [MlfqsNext \/ ByPriority(SchedNext)]_allVars
    PROVE  MlfqsAll' /\ Wakes
<1>1. Dispatch /\ SchedInv /\ SchedAssumption /\ MlfqsThread \subseteq Thread
  BY SchedInvParts DEF AllAssumptions, MlfqsAll, MlfqsInv, MlfqsAssumption
<1>2. ASSUME sleepList \subseteq sleepList' PROVE Wakes
  BY <1>2 DEF Wakes
<1>3. ASSUME NEW t \in Thread, MlfqsCreate(t) PROVE MlfqsAll' /\ Wakes
  BY <1>2, <1>3, MlfqsCreateStep
<1>4. ASSUME NEW t \in Thread, MlfqsExit(t) PROVE MlfqsAll' /\ Wakes
  BY <1>2, <1>4, MlfqsExitStep
<1>5. ASSUME NEW t \in Thread, NEW n \in Nice, SetNice(t, n) PROVE MlfqsAll' /\ Wakes
  BY <1>2, <1>5, SetNiceStep
<1>6. CASE MlfqsIdle \/ \E t \in Thread : MlfqsDispatch(t)
  BY <1>2, <1>6, MlfqsDispatchStep
<1>7. CASE MlfqsTick
  BY <1>7, MlfqsTickStep
<1>8. CASE ByPriority(SchedNext) \/ UNCHANGED allVars
  <2>1. [SchedNext]_schedVars /\ UNCHANGED <<mlfqsVars, thread_mlfqs>>
        /\ (~thread_mlfqs \/ UNCHANGED schedVars)
    BY <1>8 DEF ByPriority, allVars
  <2>2. SchedInv' /\ Wakes
    BY <1>1, <2>1, SchedStep, SchedStepWakes
  <2>3. UNCHANGED <<nice, recentCpu, loadAvg, tick, thread_mlfqs>>
    BY <2>1 DEF mlfqsVars
  <2>4. MlfqsTyped'
    BY <2>3 DEF MlfqsAll, MlfqsInv, MlfqsTyped
  <2>5. thread_mlfqs' => FollowsCpu'
    BY <2>1, <2>3 DEF schedVars, MlfqsAll, MlfqsInv, FollowsCpu, Listed
  <2>6. status'[Idle] \notin Gone
    BY <1>1, <2>1, SchedIdleStays DEF MlfqsAll
  <2> QED
    BY <2>2, <2>4, <2>5, <2>6 DEF MlfqsAll, MlfqsInv
<1> QED
  BY <1>1, <1>3, <1>4, <1>5, <1>6, <1>7, <1>8 DEF MlfqsNext

(* The invariant of MlfqsSpec: it starts, a step keeps it, and a step that *)
(* runs a tick runs who sleeps on top of all others.                       *)
LEMMA MlfqsSafe ==
    /\ MlfqsInit => MlfqsAll
    /\ MlfqsAll /\ [MlfqsNext \/ ByPriority(SchedNext)]_allVars => MlfqsAll'
    /\ MlfqsAll /\ [MlfqsNext \/ ByPriority(SchedNext)]_allVars => [Wakes]_schedVars
  BY MlfqsInitInv, MlfqsStep, SchedAssumption, FixedPointAssumption, MlfqsAssumption
     DEF AllAssumptions

(* Under either scheduler no thread is on two lists (thread.h:86).         *)
THEOREM MlfqsListsExclusive == MlfqsSpec => []ElemOnOneList
<1>1. MlfqsAll => ElemOnOneList
  BY ListsAreElemOnOneList DEF MlfqsAll, MlfqsInv, SchedInv
<1> QED
  BY <1>1, MlfqsSafe, PTL DEF MlfqsSpec

(* No ready thread outranks the running one, under either scheduler.       *)
THEOREM MlfqsHighestRuns == MlfqsSpec => []HighestPriorityRuns
<1>1. MlfqsAll => HighestPriorityRuns
  BY DEF MlfqsAll, MlfqsInv, SchedInv
<1> QED
  BY <1>1, MlfqsSafe, PTL DEF MlfqsSpec

(* A sleeper above all other threads runs as soon as its tick returns,     *)
(* under either scheduler.                                                 *)
THEOREM MlfqsWakes == MlfqsSpec => WakesIntoExecution
<1>1. MlfqsSpec => [][Wakes]_schedVars
  BY MlfqsSafe, PTL DEF MlfqsSpec
<1> QED
  BY <1>1 DEF Wakes, WakesIntoExecution

(* The priority of a thread is what the formula gives for its recent_cpu   *)
(* of at most three ticks ago, rounded one way or the other, whatever      *)
(* signs real.c has given to the numbers on the way.                       *)
THEOREM MlfqsFollowsCpu == MlfqsSpec => []PriorityFollowsCpu
<1>1. ASSUME MlfqsAll PROVE PriorityFollowsCpu
  <2>1. SUFFICES ASSUME thread_mlfqs, NEW t \in AllThreads, Listed(t)
                 PROVE  Follows(priority[t], nice[t], Exact(recentCpu[t]), 3)
    BY DEF PriorityFollowsCpu, Follows, Share
  <2> DEFINE x == Exact(recentCpu[t])
  <2>2. /\ SchedAssumption /\ FixedPointAssumption /\ MlfqsTyped
        /\ priority[t] \in Priority /\ nice[t] \in Int /\ x \in Int
        /\ tick % 4 \in 0 .. 3 /\ One \in Nat
    BY <1>1, SchedAssumption, FixedPointAssumption, ExactIsInt
       DEF MlfqsAll, MlfqsInv, MlfqsTyped, SchedInv, SchedTypeOK, FixedPointAssumption
  <2>3. Follows(priority[t], nice[t], x, tick % 4)
    BY <1>1, <2>1 DEF MlfqsAll, MlfqsInv, FollowsCpu
  <2> HIDE DEF x
  <2>4. (tick % 4) * One <= 3 * One /\ (tick % 4) * One \in Int
    BY <2>2
  <2>5. x <= x /\ x - 3 * One <= x - (tick % 4) * One
    BY <2>2, <2>4
  <2>6. Follows(priority[t], nice[t], x, 3)
    BY <2>2, <2>3, <2>5, FollowsOn
  <2> QED
    BY <2>6 DEF x
<1>2. MlfqsAll => PriorityFollowsCpu
  BY <1>1
<1> QED
  BY <1>2, MlfqsSafe, PTL DEF MlfqsSpec

-----------------------------------------------------------------------------
(* Semaphores and locks.                                                   *)

(* The stages of lock_acquire and lock_release in which target is a lock.  *)
InLockCall == {"down", "own", "clear", "reset", "up"}

PcTarget ==
    \A t \in Thread :
        /\ pc[t] \in InLockCall => target[t] \in Lock
        /\ pc[t] = "parked" => target[t] \in AllSemas

PriorityType ==
    priority \in [AllThreads -> Priority] /\ oldPriority \in [AllThreads -> Priority]
SemaType == value \in [AllSemas -> Nat] /\ waiters \in [AllSemas -> Seq(Thread)]
LockType ==
    /\ holder \in [Lock -> Thread \cup {None}]
    /\ highestPriority \in [Lock -> Priority]
    /\ locks \in [Thread -> SUBSET Lock]
    /\ waitsFor \in [Thread -> Lock \cup {None}]
ControlType ==
    /\ pc \in [AllThreads -> PC]
    /\ target \in [Thread -> AllSemas \cup {None}]
    /\ PcTarget

TypeInv ==
    DispatchType /\ SleepType /\ PriorityType /\ SemaType /\ LockType /\ ControlType

LEMMA TypeInvSuffices == TypeInv => SynchTypeOK
  BY DEF TypeInv, SynchTypeOK, DispatchType, SleepType, PriorityType, SemaType,
     LockType, ControlType

LEMMA PriorityIsInt ==
    ASSUME SchedAssumption, PriorityType
    PROVE  priority \in [AllThreads -> Int]
  BY DEF SchedAssumption, PriorityType, Priority

-----------------------------------------------------------------------------
(* The bodies of sema_down and sema_up keep the types.                     *)
LEMMA SemaDownType ==
    ASSUME SchedAssumption, DispatchType, SemaType, ControlType,
           NEW t \in Thread, current = t, NEW s \in AllSemas, SemaDownBody(t, s)
    PROVE  DispatchType' /\ SemaType' /\ ControlType'
<1>1. t \in AllThreads
  BY DEF AllThreads
<1>2. CASE value[s] = 0
  <2>1. /\ waiters' = [waiters EXCEPT ![s] = Append(@, t)]
        /\ pc' = [pc EXCEPT ![t] = "parked"]
        /\ target' = [target EXCEPT ![t] = s]
        /\ Schedule(readyList, [status EXCEPT ![t] = "blocked"], priority)
        /\ value' = value
    BY <1>2 DEF SemaDownBody
  <2>2. [status EXCEPT ![t] = "blocked"] \in [AllThreads -> Status]
    BY <1>1 DEF DispatchType, Status
  <2>3. DispatchType'
    BY <2>1, <2>2, ScheduleFacts DEF DispatchType
  <2>4. Append(waiters[s], t) \in Seq(Thread)
    BY PushBackFacts DEF SemaType
  <2>5. SemaType'
    BY <2>1, <2>4 DEF SemaType
  <2>6. ControlType'
    BY <1>1, <2>1 DEF ControlType, PcTarget, InLockCall, PC
  <2> QED
    BY <2>3, <2>5, <2>6
<1>3. CASE value[s] # 0
  <2>1. /\ value' = [value EXCEPT ![s] = @ - 1]
        /\ pc' = [pc EXCEPT ![t] = IF s \in Lock THEN "own" ELSE "run"]
        /\ target' = [target EXCEPT ![t] = IF s \in Lock THEN s ELSE None]
        /\ UNCHANGED <<waiters, current, status, readyList, threadTicks>>
    BY <1>3 DEF SemaDownBody, dispatchVars
  <2>2. value[s] - 1 \in Nat
    BY <1>3 DEF SemaType
  <2>3. SemaType' /\ DispatchType'
    BY <2>1, <2>2 DEF SemaType, DispatchType
  <2>4. ControlType'
    BY <1>1, <2>1 DEF ControlType, PcTarget, InLockCall, PC, AllSemas
  <2> QED
    BY <2>3, <2>4
<1> QED
  BY <1>2, <1>3

LEMMA SemaUpType ==
    ASSUME SchedAssumption, DispatchType, SemaType,
           NEW s \in AllSemas, SemaUpBody(s)
    PROVE  DispatchType' /\ SemaType'
<1>1. value' \in [AllSemas -> Nat]
  BY DEF SemaUpBody, SemaType
<1>2. CASE waiters[s] = <<>>
  BY <1>1, <1>2 DEF SemaUpBody, SemaType, DispatchType, dispatchVars
<1>3. CASE waiters[s] # <<>>
  <2>1. PICK w \in ToSet(waiters[s]) :
            /\ waiters' = [waiters EXCEPT ![s] = ListRemove(@, w)]
            /\ UnblockAndMaybeYield(w, priority)
    BY <1>3 DEF SemaUpBody
  <2>2. waiters[s] \in Seq(Thread)
    BY DEF SemaType
  <2>3. w \in Thread /\ ListRemove(waiters[s], w) \in Seq(Thread)
    BY <2>1, <2>2, ListRemoveType DEF ToSet
  <2>4. DispatchType'
    BY <2>1, <2>3, UnblockType DEF DispatchType
  <2> QED
    BY <1>1, <2>1, <2>3, <2>4 DEF SemaType
<1> QED
  BY <1>2, <1>3

LEMMA SetPriorityType ==
    ASSUME SchedAssumption, PriorityType, LockType, ControlType,
           NEW t \in Thread, pc[t] \in {"run", "restore"},
           NEW new \in Priority, SetPriorityOf(t, new, Donated(t)),
           UNCHANGED target
    PROVE  PriorityType' /\ ControlType'
<1>1. Donated(t) \subseteq Priority
  BY DEF Donated, LockType
<1>2. PICK p \in Priority :
          /\ oldPriority' = [oldPriority EXCEPT ![t] = new]
          /\ priority' = [priority EXCEPT ![t] = p]
          /\ pc' = [pc EXCEPT ![t] = IF p < priority[t] THEN "yield" ELSE "run"]
  BY <1>1 DEF SetPriorityOf
<1>3. pc' = [pc EXCEPT ![t] = "yield"] \/ pc' = [pc EXCEPT ![t] = "run"]
  BY <1>2
<1>4. t \in AllThreads
  BY DEF AllThreads
<1>5. PriorityType'
  BY <1>2, <1>4 DEF PriorityType
<1>6. pc' \in [AllThreads -> PC]
  BY <1>3, <1>4 DEF ControlType, PC
<1>7. \A u \in Thread : pc'[u] = pc[u] \/ pc'[u] \in {"run", "yield"}
  BY <1>3, <1>4 DEF ControlType, AllThreads
<1>8. ControlType'
  BY <1>6, <1>7 DEF ControlType, PcTarget, InLockCall
<1> QED
  BY <1>5, <1>8

(* What a client or a tick does without a semaphore.                       *)
LEMMA ThreadActionType ==
    ASSUME SchedAssumption, DispatchType, SleepType, PriorityType, ControlType,
           NEW t \in Thread,
           \/ ThreadYield(t) \/ ThreadExit(t)
           \/ \E ticks \in SleepTicks : ThreadSleep(t, ticks)
           \/ \E u \in Thread, p \in Priority : Running(t) /\ ThreadCreate(u, p),
           UNCHANGED target
    PROVE  DispatchType' /\ SleepType' /\ PriorityType' /\ ControlType'
<1>0. t \in AllThreads /\ PriDefault \in Priority
  BY DEF AllThreads, Priority, SchedAssumption
<1>1. CASE ThreadYield(t)
  <2>1. /\ YieldFrom(readyList, status, priority)
        /\ pc' = [pc EXCEPT ![t] = "run"]
        /\ pc[t] \in {"run", "yield"}
        /\ UNCHANGED <<sleepList, sleepLeft, priority, oldPriority>>
    BY <1>1 DEF ThreadYield, sleepVars, priorityVars
  <2>2. DispatchType'
    BY <2>1, YieldType DEF DispatchType
  <2>3. ControlType'
    BY <1>0, <2>1 DEF ControlType, PcTarget, InLockCall, PC
  <2> QED
    BY <2>1, <2>2, <2>3 DEF SleepType, PriorityType
<1>2. CASE ThreadExit(t)
  <2> DEFINE to == IF t = Initial THEN "dying" ELSE "free"
             st == [status EXCEPT ![t] = to]
  <2>1. /\ Schedule(readyList, st, priority)
        /\ priority' = [priority EXCEPT ![t] = PriDefault]
        /\ oldPriority' = [oldPriority EXCEPT ![t] = PriDefault]
        /\ UNCHANGED <<sleepList, sleepLeft, pc>>
    BY <1>2 DEF ThreadExit, sleepVars
  <2>2. st \in [AllThreads -> Status]
    BY <1>0 DEF DispatchType, Status
  <2> HIDE DEF st
  <2>3. DispatchType'
    BY <2>1, <2>2, ScheduleFacts DEF DispatchType
  <2> QED
    BY <1>0, <2>1, <2>3 DEF SleepType, PriorityType, ControlType, PcTarget
<1>3. ASSUME NEW ticks \in SleepTicks, ThreadSleep(t, ticks)
      PROVE  DispatchType' /\ SleepType' /\ PriorityType' /\ ControlType'
  <2>1. /\ Schedule(readyList, [status EXCEPT ![t] = "sleep"], priority)
        /\ sleepLeft' = [sleepLeft EXCEPT ![t] = ticks]
        /\ sleepList' = sleepList \cup {t}
        /\ UNCHANGED <<priority, oldPriority, pc>>
    BY <1>3 DEF ThreadSleep, priorityVars
  <2>2. [status EXCEPT ![t] = "sleep"] \in [AllThreads -> Status]
    BY <1>0 DEF DispatchType, Status
  <2>3. DispatchType'
    BY <2>1, <2>2, ScheduleFacts DEF DispatchType
  <2>4. ticks \in Int
    BY DEF SchedAssumption
  <2> QED
    BY <2>1, <2>3, <2>4 DEF SleepType, PriorityType, ControlType, PcTarget
<1>4. ASSUME NEW u \in Thread, NEW p \in Priority, Running(t), ThreadCreate(u, p)
      PROVE  DispatchType' /\ SleepType' /\ PriorityType' /\ ControlType'
  <2>1. /\ UnblockAndMaybeYield(u, [priority EXCEPT ![u] = p])
        /\ priority' = [priority EXCEPT ![u] = p]
        /\ oldPriority' = [oldPriority EXCEPT ![u] = p]
        /\ UNCHANGED <<sleepList, sleepLeft, pc>>
    BY <1>4 DEF ThreadCreate, sleepVars
  <2>2. DispatchType'
    BY <2>1, UnblockType DEF DispatchType
  <2> QED
    BY <2>1, <2>2 DEF SleepType, PriorityType, ControlType, PcTarget
<1> QED
  BY <1>1, <1>2, <1>3, <1>4

LEMMA SynchInitType == SchedAssumption /\ SynchAssumption /\ SynchInit => TypeInv
<1> SUFFICES ASSUME SchedAssumption, SynchAssumption, SynchInit PROVE TypeInv
  OBVIOUS
<1> USE DEF SynchInit, SchedInit, DispatchInit, PriorityInit, SchedAssumption, SynchAssumption
<1>1. DispatchType /\ SleepType
  BY DEF DispatchType, SleepType, AllThreads, Status
<1>2. PriorityType
  BY DEF PriorityType, Priority, AllThreads
<1>3. SemaType
  BY DEF SemaType
<1>4. LockType
  BY DEF LockType, Priority
<1>5. ControlType
  BY DEF ControlType, PcTarget, InLockCall, PC, AllThreads
<1> QED
  BY <1>1, <1>2, <1>3, <1>4, <1>5 DEF TypeInv

LEMMA TypeStep ==
    ASSUME SchedAssumption, SynchAssumption, TypeInv, [SynchNext]_vars
    PROVE  TypeInv'
<1> USE DEF TypeInv
<1>1. ASSUME NEW t \in Thread, NEW s \in AllSemas, current = t, SemaDownBody(t, s),
             UNCHANGED <<sleepVars, priorityVars, lockVars>>
      PROVE  TypeInv'
  BY <1>1, SemaDownType DEF SleepType, PriorityType, LockType, sleepVars, priorityVars,
     lockVars
<1>2. ASSUME NEW t \in Thread, NEW s \in Sema, SemaDown(t, s)
      PROVE  TypeInv'
  BY <1>1, <1>2 DEF SemaDown, Running, AllSemas
<1>3. ASSUME NEW t \in Thread, SemaDownResume(t) \/ LockDown(t)
      PROVE  TypeInv'
  <2>1. target[t] \in AllSemas
    BY <1>3 DEF SemaDownResume, LockDown, ControlType, PcTarget, InLockCall, AllSemas
  <2> QED
    BY <1>1, <1>3, <2>1 DEF SemaDownResume, LockDown
<1>4. ASSUME NEW t \in Thread, NEW s \in Sema, SemaTryDown(t, s)
      PROVE  TypeInv'
  <2>1. s \in AllSemas /\ value[s] - 1 \in Nat
    BY <1>4 DEF SemaTryDown, AllSemas, SemaType
  <2>2. SemaType'
    BY <1>4, <2>1 DEF SemaTryDown, SemaType
  <2> QED
    BY <1>4, <2>2 DEF SemaTryDown, schedVars, lockVars, DispatchType, SleepType,
       PriorityType, LockType, ControlType, PcTarget
<1>5. ASSUME NEW t \in Thread, NEW s \in Sema, SemaUp(t, s)
      PROVE  TypeInv'
  <2>1. DispatchType' /\ SemaType'
    BY <1>5, SemaUpType DEF SemaUp, AllSemas
  <2> QED
    BY <1>5, <2>1 DEF SemaUp, sleepVars, priorityVars, lockVars, SleepType,
       PriorityType, LockType, ControlType, PcTarget
<1>6. ASSUME NEW t \in Thread, NEW l \in Lock, LockAcquire(t, l)
      PROVE  TypeInv'
  <2>1. t \in AllThreads /\ priority[t] \in Priority /\ l \in AllSemas
    BY DEF AllThreads, PriorityType, AllSemas
  <2>2. PriorityType'
    BY <1>6, <2>1 DEF LockAcquire, PriorityType
  <2>3. waitsFor' \in [Thread -> Lock \cup {None}]
    BY <1>6 DEF LockAcquire, LockType
  <2>4. highestPriority' \in [Lock -> Priority]
    BY <1>6, <2>1 DEF LockAcquire, LockType
  <2>5. LockType'
    BY <1>6, <2>3, <2>4 DEF LockAcquire, LockType
  <2>6. pc' = [pc EXCEPT ![t] = "down"] /\ target' = [target EXCEPT ![t] = l]
    BY <1>6 DEF LockAcquire
  <2>7. ControlType'
    BY <2>1, <2>6 DEF ControlType, PcTarget, InLockCall, PC
  <2> QED
    BY <1>6, <2>2, <2>5, <2>7 DEF LockAcquire, dispatchVars, sleepVars, semaVars,
       DispatchType, SleepType, SemaType
<1>7. ASSUME NEW t \in Thread,
             LockSetHolder(t) \/ LockAcquired(t) \/ LockReset(t)
               \/ \E l \in Lock : LockRelease(t, l)
      PROVE  TypeInv'
  <2>1. t \in AllThreads /\ PriMin \in Priority
    BY DEF AllThreads, Priority, SchedAssumption
  <2>2. UNCHANGED <<dispatchVars, sleepVars, priorityVars, semaVars>>
    BY <1>7 DEF LockSetHolder, LockAcquired, LockReset, LockRelease
  <2>3. DispatchType' /\ SleepType' /\ PriorityType' /\ SemaType'
    BY <2>2 DEF DispatchType, SleepType, PriorityType, SemaType, dispatchVars,
       sleepVars, priorityVars, semaVars
  <2>4. CASE LockSetHolder(t)
    <3>1. target[t] \in Lock
      BY <2>4 DEF LockSetHolder, ControlType, PcTarget, InLockCall
    <3>2. LockType'
      BY <2>4, <3>1 DEF LockSetHolder, LockType
    <3>3. ControlType'
      BY <2>1, <2>4, <3>1 DEF LockSetHolder, ControlType, PcTarget, InLockCall, PC
    <3> QED
      BY <2>3, <3>2, <3>3
  <2>5. CASE LockAcquired(t)
    <3>1. target[t] \in Lock
      BY <2>5 DEF LockAcquired, ControlType, PcTarget, InLockCall
    <3>2. LockType'
      BY <2>5, <3>1 DEF LockAcquired, LockType
    <3>3. ControlType'
      BY <2>1, <2>5 DEF LockAcquired, ControlType, PcTarget, InLockCall, PC
    <3> QED
      BY <2>3, <3>2, <3>3
  <2>6. CASE LockReset(t)
    <3>1. target[t] \in Lock
      BY <2>6 DEF LockReset, ControlType, PcTarget, InLockCall
    <3>2. LockType'
      BY <2>1, <2>6, <3>1 DEF LockReset, LockType
    <3>3. ControlType'
      BY <2>1, <2>6, <3>1 DEF LockReset, ControlType, PcTarget, InLockCall, PC
    <3> QED
      BY <2>3, <3>2, <3>3
  <2>7. ASSUME NEW l \in Lock, LockRelease(t, l)
        PROVE  TypeInv'
    <3>1. LockType'
      BY <2>7 DEF LockRelease, LockType
    <3>2. ControlType'
      BY <2>1, <2>7 DEF LockRelease, ControlType, PcTarget, InLockCall, PC, AllSemas
    <3> QED
      BY <2>3, <3>1, <3>2
  <2> QED
    BY <1>7, <2>4, <2>5, <2>6, <2>7
<1>8. ASSUME NEW t \in Thread, LockUp(t)
      PROVE  TypeInv'
  <2>1. t \in AllThreads /\ target[t] \in AllSemas
    BY <1>8 DEF LockUp, AllThreads, ControlType, PcTarget, InLockCall, AllSemas
  <2>2. DispatchType' /\ SemaType'
    BY <1>8, <2>1, SemaUpType DEF LockUp
  <2>3. ControlType'
    BY <1>8, <2>1 DEF LockUp, ControlType, PcTarget, InLockCall, PC
  <2> QED
    BY <1>8, <2>2, <2>3 DEF LockUp, sleepVars, priorityVars, lockVars, SleepType,
       PriorityType, LockType
<1>9. ASSUME NEW t \in Thread,
             LockRestore(t) \/ \E p \in Priority : SetPriorityLocked(t, p)
      PROVE  TypeInv'
  <2>1. PICK p \in Priority : SetPriorityOf(t, p, Donated(t))
    BY <1>9 DEF LockRestore, SetPriorityLocked, PriorityType, AllThreads
  <2>2. pc[t] \in {"run", "restore"} /\ UNCHANGED <<dispatchVars, sleepVars, synchVars>>
    BY <1>9 DEF LockRestore, SetPriorityLocked, Running
  <2>3. PriorityType' /\ ControlType'
    BY <2>1, <2>2, SetPriorityType DEF synchVars
  <2> QED
    BY <2>2, <2>3 DEF dispatchVars, sleepVars, synchVars, DispatchType, SleepType,
       SemaType, LockType
<1>10. ASSUME NEW t \in Thread, UNCHANGED synchVars,
              \/ ThreadYield(t) \/ ThreadExit(t)
              \/ \E ticks \in SleepTicks : ThreadSleep(t, ticks)
              \/ \E u \in Thread, p \in Priority : Running(t) /\ ThreadCreate(u, p)
       PROVE  TypeInv'
  BY <1>10, ThreadActionType DEF synchVars, SemaType, LockType
<1>11. CASE SynchIdle
  <2>1. /\ Schedule(readyList, [status EXCEPT ![Idle] = "blocked"], priority)
        /\ UNCHANGED <<sleepVars, priorityVars, pc, synchVars>>
    BY <1>11 DEF SynchIdle, IdleLoop
  <2>2. [status EXCEPT ![Idle] = "blocked"] \in [AllThreads -> Status]
    BY DEF DispatchType, AllThreads, Status
  <2>3. DispatchType'
    BY <2>1, <2>2, ScheduleFacts DEF DispatchType
  <2> QED
    BY <2>1, <2>3 DEF sleepVars, priorityVars, synchVars, SleepType, PriorityType,
       SemaType, LockType, ControlType, PcTarget
<1>12. CASE Interrupt
  <2>1. TimerInterrupt /\ UNCHANGED <<priority, oldPriority, pc, synchVars>>
    BY <1>12 DEF Interrupt, TimerInterrupt, priorityVars
  <2>2. DispatchType' /\ SleepType'
    BY <2>1, TimerFacts
  <2> QED
    BY <2>1, <2>2 DEF synchVars, PriorityType, SemaType, LockType, ControlType, PcTarget
<1>13. CASE UNCHANGED vars
  BY <1>13 DEF vars, schedVars, synchVars, DispatchType, SleepType, PriorityType,
     SemaType, LockType, ControlType, PcTarget
<1>14. ASSUME NEW t \in Thread, KernelStep(t)
       PROVE  TypeInv'
  BY <1>14, <1>3, <1>7, <1>8, <1>9, <1>10 DEF KernelStep
<1>15. ASSUME NEW t \in Thread, ClientCall(t)
       PROVE  TypeInv'
  BY <1>15, <1>2, <1>4, <1>5, <1>6, <1>7, <1>9, <1>10 DEF ClientCall
<1> QED
  BY <1>11, <1>12, <1>13, <1>14, <1>15 DEF SynchNext

(* The variables of thread.c and synch.c keep their types.                 *)
THEOREM SynchTypeCorrect == SynchSpec => []SynchTypeOK
<1>1. SynchInit => TypeInv
  BY SynchInitType, SchedAssumption, SynchAssumption
<1>2. TypeInv /\ [SynchNext]_vars => TypeInv'
  BY TypeStep, SchedAssumption, SynchAssumption
<1> QED
  BY <1>1, <1>2, TypeInvSuffices, PTL DEF SynchSpec

-----------------------------------------------------------------------------
(* Who owns a lock.  MutualExclusion is not inductive: it needs to know    *)
(* that locks, holder and the stage of the call agree in every window.     *)
Inside == {"own", "clear", "reset", "up"}

LockOwned(l) ==
    /\ value[l] \in {0, 1}
    /\ value[l] = 1 <=> \A t \in Thread : ~Owns(t, l)
    /\ \A t, u \in Thread : Owns(t, l) /\ Owns(u, l) => t = u
    /\ \A t \in Thread :
          /\ holder[l] = t => Owns(t, l)
          /\ l \in locks[t] => holder[l] = t \/ (pc[t] = "reset" /\ target[t] = l)
          /\ pc[t] = "clear" /\ target[t] = l => holder[l] = t
          /\ pc[t] = "reset" /\ target[t] = l => l \in locks[t]
          /\ pc[t] \in {"own", "reset", "up"} /\ target[t] = l => holder[l] = None
          /\ pc[t] \in {"own", "clear", "up"} /\ target[t] = l => l \notin locks[t]

Ownership == \A l \in Lock : LockOwned(l)

LEMMA OwnershipExcludes ==
    ASSUME TypeInv, Ownership
    PROVE  MutualExclusion
  BY DEF TypeInv, LockType, Ownership, LockOwned, MutualExclusion

(* A step that does not touch lock l, nor any thread inside a call for it. *)
LEMMA OwnershipFrame ==
    ASSUME NEW l \in Lock, LockOwned(l), value'[l] = value[l], holder'[l] = holder[l],
           \A t \in Thread :
              /\ l \in locks'[t] <=> l \in locks[t]
              /\ \/ pc'[t] = pc[t] /\ target'[t] = target[t]
                 \/ /\ pc[t] \notin Inside \/ target[t] # l
                    /\ pc'[t] \notin Inside \/ target'[t] # l
    PROVE  LockOwned(l)'
<1>1. \A t \in Thread : Owns(t, l)' <=> Owns(t, l)
  BY DEF Owns, Inside
<1> QED
  BY <1>1 DEF LockOwned, Inside

LEMMA SemaDownOwnership ==
    ASSUME SynchAssumption, TypeInv, Ownership, NEW t \in Thread, NEW s \in AllSemas,
           pc[t] \notin Inside, SemaDownBody(t, s), UNCHANGED lockVars
    PROVE  Ownership'
<1>0. t \in AllThreads
  BY DEF AllThreads
<1> USE DEF TypeInv, ControlType, SemaType
<1>1. ASSUME NEW l \in Lock, l # s \/ value[s] = 0
      PROVE  LockOwned(l)'
  <2>1. l \in AllSemas
    BY DEF AllSemas
  <2>2. CASE value[s] = 0
    BY <1>0, <2>2, OwnershipFrame DEF SemaDownBody, lockVars, Inside, Ownership, AllThreads
  <2>3. CASE value[s] # 0
    <3>1. /\ value'[l] = value[l] /\ UNCHANGED <<holder, locks>>
          /\ pc[t] \notin Inside
          /\ target'[t] = (IF s \in Lock THEN s ELSE None)
          /\ \A u \in Thread \ {t} : pc'[u] = pc[u] /\ target'[u] = target[u]
      <4>1. /\ value' = [value EXCEPT ![s] = @ - 1]
            /\ pc' = [pc EXCEPT ![t] = IF s \in Lock THEN "own" ELSE "run"]
            /\ target' = [target EXCEPT ![t] = IF s \in Lock THEN s ELSE None]
            /\ UNCHANGED <<holder, locks>>
        BY <2>3 DEF SemaDownBody, lockVars
      <4>2. l # s
        BY <1>1, <2>3
      <4>3. value'[l] = value[l]
        BY <2>1, <4>1, <4>2
      <4> QED
        BY <1>0, <4>1, <4>3
    <3>2. target'[t] # l
      BY <1>1, <2>3, <3>1 DEF SynchAssumption
    <3> QED
      BY <3>1, <3>2, OwnershipFrame DEF Ownership
  <2> QED
    BY <2>2, <2>3
<1>2. ASSUME s \in Lock, value[s] # 0
      PROVE  LockOwned(s)'
  <2>1. value[s] = 1 /\ \A u \in Thread : ~Owns(u, s)
    BY <1>2 DEF Ownership, LockOwned
  <2>2. value'[s] = 0 /\ UNCHANGED <<holder, locks>>
    BY <1>2, <2>1 DEF SemaDownBody, lockVars
  <2>3. /\ pc'[t] = "own" /\ target'[t] = s
        /\ \A u \in Thread \ {t} : pc'[u] = pc[u] /\ target'[u] = target[u]
    BY <1>0, <1>2 DEF SemaDownBody, AllThreads
  <2>4. \A u \in Thread : Owns(u, s)' <=> u = t
    BY <2>1, <2>2, <2>3 DEF Owns
  <2>5. LockOwned(s)
    BY <1>2 DEF Ownership
  <2>6. \A u \in Thread : holder[s] # u
    BY <2>1, <2>5 DEF LockOwned
  <2>7. holder[s] = None
    BY <1>2, <2>6 DEF LockType
  <2>8. \A u \in Thread : s \notin locks[u]
    BY <2>1 DEF Owns
  <2>9. \A u \in Thread : /\ holder'[s] = None /\ None # u
                           /\ s \notin locks'[u]
                           /\ ~(pc'[u] \in {"reset", "clear", "up"} /\ target'[u] = s)
    <3>1. \A u \in Thread :
             /\ s \notin locks[u]
             /\ ~(pc[u] \in {"reset", "clear", "up"} /\ target[u] = s)
      BY <2>1, <2>5, <2>8 DEF LockOwned, Owns
    <3> QED
      BY <2>2, <2>3, <2>7, <3>1 DEF SynchAssumption
  <2> QED
    BY <2>2, <2>4, <2>9 DEF LockOwned
<1> QED
  BY <1>1, <1>2 DEF Ownership

LEMMA OwnershipStep ==
    ASSUME SchedAssumption, SynchAssumption, TypeInv, Ownership, [SynchNext]_vars
    PROVE  Ownership'
<1>0. \A t \in Thread : t \in AllThreads
  BY DEF AllThreads
<1> USE DEF TypeInv
<1>1. ASSUME NEW t \in Thread,
             \/ \E s \in Sema : SemaDown(t, s)
             \/ SemaDownResume(t) \/ LockDown(t)
      PROVE  Ownership'
  <2>1. pc[t] \notin Inside /\ UNCHANGED lockVars
    BY <1>1 DEF SemaDown, SemaDownResume, LockDown, Running, Inside
  <2>2. PICK s \in AllSemas : SemaDownBody(t, s)
    BY <1>1 DEF SemaDown, SemaDownResume, LockDown, ControlType, PcTarget, InLockCall,
       AllSemas
  <2> QED
    BY <2>1, <2>2, SemaDownOwnership
<1>2. ASSUME NEW t \in Thread, NEW s \in Sema, SemaTryDown(t, s) \/ SemaUp(t, s)
      PROVE  Ownership'
  <2>1. /\ \A r \in AllSemas \ {s} : value'[r] = value[r]
        /\ UNCHANGED <<pc, target, lockVars>>
    BY <1>2 DEF SemaTryDown, SemaUp, SemaUpBody, schedVars, SemaType
  <2>2. \A l \in Lock : l \in AllSemas \ {s}
    BY DEF SynchAssumption, AllSemas
  <2> QED
    BY <2>1, <2>2, OwnershipFrame DEF Ownership, lockVars
<1>3. ASSUME NEW t \in Thread,
             \/ \E l \in Lock : LockAcquire(t, l)
             \/ LockRestore(t) \/ \E p \in Priority : SetPriorityLocked(t, p)
      PROVE  Ownership'
  <2>1. /\ UNCHANGED <<value, holder, locks>>
        /\ pc[t] \notin Inside /\ pc'[t] \notin Inside
        /\ \A u \in Thread \ {t} : pc'[u] = pc[u] /\ target'[u] = target[u]
    BY <1>0, <1>3 DEF LockAcquire, LockRestore, SetPriorityLocked, SetPriorityOf, Running,
       Inside, semaVars, synchVars, ControlType
  <2> QED
    BY <2>1, OwnershipFrame DEF Ownership
<1>4. ASSUME NEW t \in Thread, LockSetHolder(t)
      PROVE  Ownership'
  <2>1. PICK m \in Lock :
        /\ target[t] = m /\ pc[t] = "own" /\ pc'[t] = "clear"
        /\ holder' = [holder EXCEPT ![m] = t]
        /\ UNCHANGED <<value, locks, target>>
        /\ \A u \in Thread \ {t} : pc'[u] = pc[u]
    BY <1>0, <1>4 DEF LockSetHolder, semaVars, ControlType, PcTarget, InLockCall
  <2>2. ASSUME NEW l \in Lock, l # m
        PROVE  LockOwned(l)'
    BY <2>1, <2>2, OwnershipFrame DEF Ownership, LockType
  <2>3. LockOwned(m)'
    <3>1. \A u \in Thread : Owns(u, m)' <=> Owns(u, m)
      BY <2>1 DEF Owns
    <3>2. holder'[m] = t /\ LockOwned(m) /\ Owns(t, m)
      BY <2>1 DEF LockType, Ownership, Owns
    <3> QED
      BY <2>1, <3>1, <3>2 DEF LockOwned, Owns
  <2> QED
    BY <2>2, <2>3 DEF Ownership
<1>5. ASSUME NEW t \in Thread, LockAcquired(t)
      PROVE  Ownership'
  <2>1. PICK m \in Lock :
        /\ target[t] = m /\ pc[t] = "clear" /\ pc'[t] = "run" /\ target'[t] = None
        /\ locks' = [locks EXCEPT ![t] = @ \cup {m}]
        /\ UNCHANGED <<value, holder>>
        /\ \A u \in Thread \ {t} : pc'[u] = pc[u] /\ target'[u] = target[u]
    BY <1>0, <1>5 DEF LockAcquired, semaVars, ControlType, PcTarget, InLockCall
  <2>2. ASSUME NEW l \in Lock, l # m
        PROVE  LockOwned(l)'
    BY <2>1, <2>2, OwnershipFrame DEF Ownership, LockType, Inside
  <2>3. LockOwned(m)'
    <3>1. LockOwned(m) /\ Owns(t, m)
      BY <2>1 DEF Ownership, Owns
    <3>2. \A u \in Thread : Owns(u, m)' <=> Owns(u, m)
      BY <2>1, <3>1 DEF Owns, LockType
    <3>3. m \in locks'[t] /\ \A u \in Thread \ {t} : locks'[u] = locks[u]
      BY <2>1 DEF LockType
    <3>4. holder[m] = t
      BY <2>1, <3>1 DEF LockOwned
    <3> QED
      BY <2>1, <3>1, <3>2, <3>3, <3>4 DEF LockOwned
  <2> QED
    BY <2>2, <2>3 DEF Ownership
<1>6. ASSUME NEW t \in Thread, NEW m \in Lock, LockRelease(t, m)
      PROVE  Ownership'
  <2>1. /\ pc[t] = "run" /\ pc'[t] = "reset" /\ target'[t] = m
        /\ holder[m] = t /\ holder' = [holder EXCEPT ![m] = None]
        /\ UNCHANGED <<value, locks>>
        /\ \A u \in Thread \ {t} : pc'[u] = pc[u] /\ target'[u] = target[u]
    BY <1>0, <1>6 DEF LockRelease, Running, semaVars, ControlType
  <2>2. ASSUME NEW l \in Lock, l # m
        PROVE  LockOwned(l)'
    BY <2>1, <2>2, OwnershipFrame DEF Ownership, LockType, Inside
  <2>3. LockOwned(m)'
    <3>1. LockOwned(m) /\ Owns(t, m) /\ m \in locks[t]
      BY <2>1 DEF Ownership, LockOwned, Owns
    <3>2. \A u \in Thread : Owns(u, m)' <=> Owns(u, m)
      BY <2>1, <3>1 DEF Owns
    <3>3. holder'[m] = None
      BY <2>1 DEF LockType
    <3>4. \A u \in Thread \ {t} : ~Owns(u, m)
      BY <3>1 DEF LockOwned
    <3> QED
      BY <2>1, <3>1, <3>2, <3>3, <3>4 DEF LockOwned, Owns, SynchAssumption
  <2> QED
    BY <2>2, <2>3 DEF Ownership
<1>7. ASSUME NEW t \in Thread, LockReset(t)
      PROVE  Ownership'
  <2>1. PICK m \in Lock :
        /\ target[t] = m /\ pc[t] = "reset" /\ pc'[t] = "up"
        /\ locks' = [locks EXCEPT ![t] = @ \ {m}]
        /\ UNCHANGED <<value, holder, target>>
        /\ \A u \in Thread \ {t} : pc'[u] = pc[u]
    BY <1>0, <1>7 DEF LockReset, semaVars, ControlType, PcTarget, InLockCall
  <2>2. ASSUME NEW l \in Lock, l # m
        PROVE  LockOwned(l)'
    BY <2>1, <2>2, OwnershipFrame DEF Ownership, LockType
  <2>3. LockOwned(m)'
    <3>1. LockOwned(m) /\ Owns(t, m)
      BY <2>1 DEF Ownership, LockOwned, Owns
    <3>2. \A u \in Thread : Owns(u, m)' <=> Owns(u, m)
      BY <2>1, <3>1 DEF Owns, LockType
    <3>3. m \notin locks'[t] /\ \A u \in Thread \ {t} : locks'[u] = locks[u]
      BY <2>1 DEF LockType
    <3> QED
      BY <2>1, <3>1, <3>2, <3>3 DEF LockOwned
  <2> QED
    BY <2>2, <2>3 DEF Ownership
<1>8. ASSUME NEW t \in Thread, LockUp(t)
      PROVE  Ownership'
  <2>1. PICK m \in Lock :
        /\ target[t] = m /\ m \in AllSemas /\ pc[t] = "up"
        /\ pc'[t] = "restore" /\ target'[t] = None
        /\ value' = [value EXCEPT ![m] = @ + 1]
        /\ UNCHANGED <<locks, holder>>
        /\ \A u \in Thread \ {t} : pc'[u] = pc[u] /\ target'[u] = target[u]
    BY <1>0, <1>8 DEF LockUp, SemaUpBody, lockVars, ControlType, PcTarget, InLockCall,
       AllSemas
  <2>2. ASSUME NEW l \in Lock, l # m
        PROVE  LockOwned(l)'
    <3>1. value'[l] = value[l]
      BY <2>1, <2>2 DEF SemaType, AllSemas
    <3> QED
      BY <2>1, <2>2, <3>1, OwnershipFrame DEF Ownership, Inside
  <2>3. LockOwned(m)'
    <3>1. LockOwned(m) /\ Owns(t, m) /\ holder[m] = None /\ m \notin locks[t]
      BY <2>1 DEF Ownership, LockOwned, Owns
    <3>2. \A u \in Thread : ~Owns(u, m)'
      BY <2>1, <3>1 DEF Owns, LockOwned, SynchAssumption
    <3>3. value'[m] = 1
      BY <2>1, <3>1 DEF LockOwned, SemaType
    <3>4. \A u \in Thread : m \notin locks[u] /\ ~(pc'[u] \in Inside /\ target'[u] = m)
      BY <2>1, <3>1, <3>2 DEF Owns, Inside, LockOwned, SynchAssumption
    <3> QED
      BY <2>1, <3>1, <3>2, <3>3, <3>4 DEF LockOwned, Inside, SynchAssumption
  <2> QED
    BY <2>2, <2>3 DEF Ownership
<1>9. ASSUME NEW t \in Thread, UNCHANGED synchVars,
             \/ ThreadYield(t) \/ ThreadExit(t)
             \/ \E ticks \in SleepTicks : ThreadSleep(t, ticks)
             \/ \E u \in Thread, p \in Priority : Running(t) /\ ThreadCreate(u, p)
      PROVE  Ownership'
  <2>1. \A u \in Thread : \/ pc'[u] = pc[u]
                          \/ pc[u] \notin Inside /\ pc'[u] \notin Inside
    BY <1>0, <1>9 DEF ThreadYield, ThreadExit, ThreadSleep, ThreadCreate, Inside, ControlType
  <2> QED
    BY <1>9, <2>1, OwnershipFrame DEF Ownership, synchVars
<1>10. CASE SynchIdle \/ Interrupt
  <2>1. UNCHANGED <<pc, synchVars>>
    BY <1>10 DEF SynchIdle, Interrupt, IdleLoop, TimerInterrupt
  <2> QED
    BY <2>1, OwnershipFrame DEF Ownership, synchVars
<1>11. CASE UNCHANGED vars
  BY <1>11, OwnershipFrame DEF Ownership, vars, schedVars, synchVars
<1>12. ASSUME NEW t \in Thread, KernelStep(t)
       PROVE  Ownership'
  BY <1>12, <1>1, <1>3, <1>4, <1>5, <1>7, <1>8, <1>9 DEF KernelStep
<1>13. ASSUME NEW t \in Thread, ClientCall(t)
       PROVE  Ownership'
  BY <1>13, <1>1, <1>2, <1>3, <1>6, <1>9 DEF ClientCall
<1> QED
  BY <1>10, <1>11, <1>12, <1>13 DEF SynchNext

LEMMA SynchInitOwnership ==
    ASSUME SchedAssumption, SynchAssumption, SynchInit
    PROVE  Ownership
  BY DEF SynchInit, SchedInit, DispatchInit, PriorityInit, Ownership, LockOwned, Owns, AllThreads, AllSemas,
     SynchAssumption

(* A lock has at most one owner, whichever windows of lock_acquire and     *)
(* lock_release the threads are preempted in (synch.c:171).                *)
THEOREM SynchMutualExclusion == SynchSpec => []MutualExclusion
<1>1. SynchInit => TypeInv /\ Ownership
  BY SynchInitType, SynchInitOwnership, SchedAssumption, SynchAssumption
<1>2. TypeInv /\ Ownership /\ [SynchNext]_vars => (TypeInv /\ Ownership)'
  BY TypeStep, OwnershipStep, SchedAssumption, SynchAssumption
<1>3. TypeInv /\ Ownership => MutualExclusion
  BY OwnershipExcludes
<1> QED
  BY <1>1, <1>2, <1>3, PTL DEF SynchSpec

-----------------------------------------------------------------------------
(* The lists, and who runs.  A blocked thread is in the sema_down that put *)
(* it on the waiters list its target names; a page that holds no thread is *)
(* in no call and has no lock.                                             *)
Waiting ==
    /\ \A t \in Thread :
          /\ status[t] = "blocked" => pc[t] = "parked"
          /\ status[t] \in {"free", "dying"} => pc[t] = "run" /\ locks[t] = {}
    /\ WaitersAreBlocked

QueueInv == Dispatch /\ Waiting

(* A step of the running thread, or of none, that blocks nobody.           *)
LEMMA WaitingFrame ==
    ASSUME Waiting, NEW E, KeepsBlocked(E), waiters' = waiters,
           \A u \in Thread :
              /\ status[u] = "blocked" => pc'[u] = pc[u] /\ target'[u] = target[u]
              /\ status[u] \in {"free", "dying"} \/ u \in E
                    => pc'[u] = "run" /\ locks'[u] = {}
    PROVE  Waiting'
<1>1. \A s \in AllSemas :
          {u \in Thread : status'[u] = "blocked" /\ target'[u] = s}
              = {u \in Thread : status[u] = "blocked" /\ target[u] = s}
  BY DEF KeepsBlocked
<1>2. WaitersAreBlocked'
  BY <1>1 DEF Waiting, WaitersAreBlocked
<1>3. \A u \in Thread :
          /\ status'[u] = "blocked" => pc'[u] = "parked"
          /\ status'[u] \in {"free", "dying"} => pc'[u] = "run" /\ locks'[u] = {}
  BY DEF Waiting, KeepsBlocked
<1> QED
  BY <1>2, <1>3 DEF Waiting

(* A step that dispatches nobody and does not end thread_set_priority.     *)
LEMMA DispatchFrame ==
    ASSUME Dispatch, UNCHANGED <<dispatchVars, sleepVars>>,
           priority' \in [AllThreads -> Int],
           pc[current] # "yield" \/ pc'[current] = "yield",
           \A u \in ToSet(readyList) :
              priority[u] <= priority[current] => priority'[u] <= priority'[current]
    PROVE  Dispatch' /\ KeepsBlocked({})
  BY DEF Dispatch, dispatchVars, sleepVars, DispatchType, SleepType, Lists, Filed, Runs,
     HighestPriorityRuns, KeepsBlocked

LEMMA SemaDownQueues ==
    ASSUME SchedAssumption, SynchAssumption, TypeInv, QueueInv, NEW t \in Thread,
           current = t, pc[t] # "yield", NEW s \in AllSemas, SemaDownBody(t, s),
           UNCHANGED <<sleepVars, priorityVars, lockVars>>
    PROVE  QueueInv'
<1>0. t \in AllThreads
  BY DEF AllThreads
<1> USE DEF QueueInv, TypeInv
<1>1. status[t] = "running"
  BY <1>0 DEF Dispatch, Lists, Runs
<1>2. CASE value[s] = 0
  <2>1. /\ waiters' = [waiters EXCEPT ![s] = Append(@, t)]
        /\ pc' = [pc EXCEPT ![t] = "parked"]
        /\ target' = [target EXCEPT ![t] = s]
        /\ Schedule(readyList, [status EXCEPT ![current] = "blocked"], priority)
        /\ UNCHANGED <<sleepList, sleepLeft, priority, locks>>
    BY <1>2 DEF SemaDownBody, sleepVars, priorityVars, lockVars
  <2>2. "blocked" \in Status \ {"ready", "running"}
    BY DEF Status
  <2>3. /\ DispatchType' /\ Filed(readyList', status') /\ Runs(current', status')
        /\ Rotates([status EXCEPT ![current] = "blocked"])
        /\ NoneAbove(readyList', current', priority)
    BY <2>1, <2>2, LeaveFacts DEF Dispatch
  <2>4. \A u \in Thread :
            \/ status'[u] = status[u] /\ u # t
            \/ u = t /\ status'[u] = "blocked"
            \/ /\ status[u] \in {"ready", "running"} /\ u # t
               /\ status'[u] \in {"ready", "running"}
    BY <1>0, <2>3 DEF Rotates, Dispatch, DispatchType, AllThreads
  <2>5. Lists'
    BY <1>1, <2>1, <2>3, <2>4 DEF Dispatch, Lists
  <2>6. Dispatch'
    BY <2>1, <2>3, <2>5 DEF Dispatch, SleepType, NoneAbove, HighestPriorityRuns
  <2>7. /\ pc'[t] = "parked" /\ target'[t] = s
        /\ \A u \in Thread \ {t} : pc'[u] = pc[u] /\ target'[u] = target[u]
    BY <1>0, <2>1 DEF ControlType, AllThreads
  <2>8. \A r \in AllSemas :
            {u \in Thread : status'[u] = "blocked" /\ target'[u] = r}
                = {u \in Thread : status[u] = "blocked" /\ target[u] = r}
                      \cup (IF r = s THEN {t} ELSE {})
    BY <1>1, <2>4, <2>7
  <2>9. ASSUME NEW r \in AllSemas
        PROVE  /\ NoDuplicates(waiters'[r])
               /\ ToSet(waiters'[r]) =
                      {u \in Thread : status'[u] = "blocked" /\ target'[u] = r}
    <3>1. /\ waiters[r] \in Seq(Thread) /\ NoDuplicates(waiters[r])
          /\ ToSet(waiters[r]) =
                 {u \in Thread : status[u] = "blocked" /\ target[u] = r}
      BY DEF SemaType, Waiting, WaitersAreBlocked
    <3>2. CASE r = s
      <4>1. waiters'[r] = Append(waiters[r], t) /\ t \notin ToSet(waiters[r])
        BY <1>1, <2>1, <3>1, <3>2 DEF SemaType
      <4>2. /\ NoDuplicates(waiters'[r])
            /\ ToSet(waiters'[r]) = ToSet(waiters[r]) \cup {t}
        BY <3>1, <4>1, PushBackFacts
      <4> QED
        BY <2>8, <3>1, <3>2, <4>2
    <3>3. CASE r # s
      <4>1. waiters'[r] = waiters[r]
        BY <2>1, <3>3 DEF SemaType
      <4> QED
        BY <2>8, <3>1, <3>3, <4>1
    <3> QED
      BY <3>2, <3>3
  <2>10. \A u \in Thread :
            /\ status'[u] = "blocked" => pc'[u] = "parked"
            /\ status'[u] \in {"free", "dying"} => pc'[u] = "run" /\ locks'[u] = {}
    BY <2>1, <2>4, <2>7 DEF Waiting
  <2> QED
    BY <2>6, <2>9, <2>10 DEF Waiting, WaitersAreBlocked
<1>3. CASE value[s] # 0
  <2>1. /\ UNCHANGED <<waiters, dispatchVars>>
        /\ \A u \in Thread \ {t} : pc'[u] = pc[u] /\ target'[u] = target[u]
    BY <1>0, <1>3 DEF SemaDownBody, ControlType, AllThreads
  <2>2. Dispatch' /\ KeepsBlocked({})
    BY <2>1, DispatchFrame DEF Dispatch, priorityVars
  <2>3. Waiting'
    BY <1>1, <2>1, <2>2, WaitingFrame DEF Waiting, lockVars
  <2> QED
    BY <2>2, <2>3
<1> QED
  BY <1>2, <1>3

LEMMA SemaUpQueues ==
    ASSUME SchedAssumption, SynchAssumption, TypeInv, QueueInv, NEW t \in Thread,
           current = t, pc[t] # "yield", NEW s \in AllSemas, SemaUpBody(s),
           UNCHANGED <<sleepVars, priorityVars, lockVars>>,
           \A u \in Thread \ {t} : pc'[u] = pc[u] /\ target'[u] = target[u],
           pc'[t] # "yield"
    PROVE  QueueInv'
<1>0. t \in AllThreads
  BY DEF AllThreads
<1> USE DEF QueueInv, TypeInv
<1>1. status[t] = "running"
  BY <1>0 DEF Dispatch, Lists, Runs
<1>2. CASE waiters[s] = <<>>
  <2>1. UNCHANGED <<waiters, dispatchVars>>
    BY <1>2 DEF SemaUpBody
  <2>2. Dispatch' /\ KeepsBlocked({})
    BY <2>1, DispatchFrame DEF Dispatch, priorityVars
  <2>3. Waiting'
    BY <1>1, <2>1, <2>2, WaitingFrame DEF Waiting, lockVars
  <2> QED
    BY <2>2, <2>3
<1>3. CASE waiters[s] # <<>>
  <2>1. PICK w \in ToSet(waiters[s]) :
            /\ waiters' = [waiters EXCEPT ![s] = ListRemove(@, w)]
            /\ UnblockAndMaybeYield(w, priority)
    BY <1>3 DEF SemaUpBody
  <2>2. w \in Thread /\ status[w] = "blocked" /\ target[w] = s
    BY DEF Waiting, WaitersAreBlocked
  <2>3. UNCHANGED <<sleepList, sleepLeft, priority, locks>>
    BY DEF sleepVars, priorityVars, lockVars
  <2>4. DispatchType'
    BY <2>1, <2>2, UnblockType DEF Dispatch, DispatchType
  <2>5. /\ Filed(readyList', status') /\ Runs(current', status')
        /\ Rotates([status EXCEPT ![w] = "ready"])
    BY <2>1, <2>2, UnblockFiles DEF Dispatch, DispatchType, Lists
  <2>6. \A u \in Thread :
            \/ status'[u] = status[u] /\ u # w
            \/ u = w /\ status'[u] \in {"ready", "running"}
            \/ /\ status[u] \in {"ready", "running"} /\ u # w
               /\ status'[u] \in {"ready", "running"}
    BY <2>2, <2>5 DEF Rotates, Dispatch, DispatchType, AllThreads
  <2>7. Lists'
    BY <2>2, <2>3, <2>5, <2>6 DEF Dispatch, Lists
  <2>8. NoneAbove(readyList, current, priority)
    BY DEF Dispatch, HighestPriorityRuns, NoneAbove
  <2>9. NoneAbove(readyList', current', priority)
    BY <2>1, <2>2, <2>8, UnblockHighest DEF Dispatch, DispatchType, Lists
  <2>10. Dispatch'
    BY <2>3, <2>4, <2>7, <2>9 DEF Dispatch, SleepType, NoneAbove, HighestPriorityRuns
  <2>11. \A r \in AllSemas :
            {u \in Thread : status'[u] = "blocked" /\ target'[u] = r}
                = {u \in Thread : status[u] = "blocked" /\ target[u] = r}
                      \ (IF r = s THEN {w} ELSE {})
    BY <1>1, <2>2, <2>6
  <2>12. ASSUME NEW r \in AllSemas
         PROVE  /\ NoDuplicates(waiters'[r])
                /\ ToSet(waiters'[r]) =
                       {u \in Thread : status'[u] = "blocked" /\ target'[u] = r}
    <3>1. /\ waiters[r] \in Seq(Thread) /\ NoDuplicates(waiters[r])
          /\ ToSet(waiters[r]) =
                 {u \in Thread : status[u] = "blocked" /\ target[u] = r}
      BY DEF SemaType, Waiting, WaitersAreBlocked
    <3>2. CASE r = s
      <4>1. waiters'[r] = ListRemove(waiters[r], w)
        BY <2>1, <3>2 DEF SemaType
      <4>2. /\ NoDuplicates(waiters'[r])
            /\ ToSet(waiters'[r]) = ToSet(waiters[r]) \ {w}
        BY <2>1, <3>1, <3>2, <4>1, ListRemoveFacts
      <4> QED
        BY <2>11, <3>1, <3>2, <4>2
    <3>3. CASE r # s
      <4>1. waiters'[r] = waiters[r]
        BY <2>1, <3>3 DEF SemaType
      <4> QED
        BY <2>11, <3>1, <3>3, <4>1
    <3> QED
      BY <3>2, <3>3
  <2>13. \A u \in Thread :
            /\ status'[u] = "blocked" => pc'[u] = "parked"
            /\ status'[u] \in {"free", "dying"} => pc'[u] = "run" /\ locks'[u] = {}
    BY <1>1, <2>3, <2>6 DEF Waiting
  <2> QED
    BY <2>10, <2>12, <2>13 DEF Waiting, WaitersAreBlocked
<1> QED
  BY <1>2, <1>3

LEMMA QueueStep ==
    ASSUME SchedAssumption, SynchAssumption, TypeInv, QueueInv, [SynchNext]_vars
    PROVE  QueueInv'
<1>0. \A t \in Thread :
          /\ t \in AllThreads
          /\ current = t => status[t] = "running"
  BY DEF AllThreads, QueueInv, Dispatch, Lists, Runs
<1> USE DEF TypeInv, QueueInv
<1>1. ASSUME NEW t \in Thread,
             \/ \E s \in Sema : SemaDown(t, s)
             \/ SemaDownResume(t) \/ LockDown(t)
      PROVE  QueueInv'
  <2>1. /\ current = t /\ pc[t] # "yield"
        /\ UNCHANGED <<sleepVars, priorityVars, lockVars>>
    BY <1>1 DEF SemaDown, SemaDownResume, LockDown, Running
  <2>2. PICK s \in AllSemas : SemaDownBody(t, s)
    BY <1>1 DEF SemaDown, SemaDownResume, LockDown, ControlType, PcTarget, InLockCall,
       AllSemas
  <2> QED
    BY <2>1, <2>2, SemaDownQueues
<1>2. ASSUME NEW t \in Thread, NEW s \in Sema, SemaUp(t, s)
      PROVE  QueueInv'
  BY <1>2, SemaUpQueues DEF SemaUp, Running, AllSemas
<1>3. ASSUME NEW t \in Thread, LockUp(t)
      PROVE  QueueInv'
  <2>1. /\ current = t /\ pc[t] = "up" /\ target[t] \in AllSemas
        /\ SemaUpBody(target[t]) /\ pc'[t] = "restore"
        /\ UNCHANGED <<sleepVars, priorityVars, lockVars>>
        /\ \A u \in Thread \ {t} : pc'[u] = pc[u] /\ target'[u] = target[u]
    BY <1>0, <1>3 DEF LockUp, ControlType, PcTarget, InLockCall, AllSemas
  <2> QED
    BY <2>1, SemaUpQueues
<1>4. ASSUME NEW t \in Thread,
             \/ LockSetHolder(t) \/ LockAcquired(t) \/ LockReset(t)
             \/ \E l \in Lock : LockRelease(t, l)
             \/ \E s \in Sema : SemaTryDown(t, s)
      PROVE  QueueInv'
  <2>1. /\ current = t /\ status[t] = "running" /\ pc[t] # "yield"
        /\ UNCHANGED <<dispatchVars, sleepVars, priorityVars, waiters>>
        /\ \A u \in Thread \ {t} : /\ pc'[u] = pc[u] /\ target'[u] = target[u]
                                   /\ locks'[u] = locks[u]
    BY <1>0, <1>4 DEF LockSetHolder, LockAcquired, LockReset, LockRelease, SemaTryDown,
       Running, semaVars, lockVars, schedVars, dispatchVars, sleepVars, priorityVars,
       ControlType, LockType
  <2>2. Dispatch' /\ KeepsBlocked({})
    BY <2>1, DispatchFrame DEF Dispatch, priorityVars
  <2>3. Waiting'
    BY <2>1, <2>2, WaitingFrame DEF Waiting
  <2> QED
    BY <2>2, <2>3
<1>5. ASSUME NEW t \in Thread, NEW l \in Lock, LockAcquire(t, l)
      PROVE  QueueInv'
  <2>1. /\ current = t /\ status[t] = "running" /\ pc[t] = "run"
        /\ UNCHANGED <<dispatchVars, sleepVars, waiters, locks>>
        /\ \A u \in Thread \ {t} : pc'[u] = pc[u] /\ target'[u] = target[u]
    BY <1>0, <1>5 DEF LockAcquire, Running, semaVars, ControlType
  <2>2. PICK S \in SUBSET AllThreads :
            priority' = [u \in AllThreads |->
                IF priority[u] < priority[t] /\ u \in S THEN priority[t] ELSE priority[u]]
    <3> DEFINE chain == DonationChain(l, priority[t], waitsFor')
               S == {u \in AllThreads : \E m \in chain : holder[m] = u}
    <3>1. priority' = [u \in AllThreads |->
              IF priority[u] < priority[t] /\ u \in S THEN priority[t] ELSE priority[u]]
      BY <1>5 DEF LockAcquire
    <3> QED
      BY <3>1
  <2>3. /\ priority \in [AllThreads -> Int] /\ t \in AllThreads
        /\ ToSet(readyList) \subseteq AllThreads
    BY <1>0 DEF Dispatch, Lists, Filed, AllThreads
  <2>4. priority' \in [AllThreads -> Int]
    BY <2>2, <2>3
  <2>5. \A u \in ToSet(readyList) :
            priority[u] <= priority[t] => priority'[u] <= priority'[t]
    BY <2>2, <2>3
  <2>6. Dispatch' /\ KeepsBlocked({})
    BY <2>1, <2>4, <2>5, DispatchFrame
  <2>7. Waiting'
    BY <2>1, <2>6, WaitingFrame DEF Waiting
  <2> QED
    BY <2>6, <2>7
<1>6. ASSUME NEW t \in Thread,
             LockRestore(t) \/ \E p \in Priority : SetPriorityLocked(t, p)
      PROVE  QueueInv'
  <2>1. PICK p \in Priority : SetPriorityOf(t, p, Donated(t))
    BY <1>6, <1>0 DEF LockRestore, SetPriorityLocked, PriorityType
  <2>2. /\ current = t /\ pc[t] \in {"run", "restore"} /\ status[t] = "running"
        /\ UNCHANGED <<dispatchVars, sleepVars, waiters, locks, target>>
    BY <1>0, <1>6 DEF LockRestore, SetPriorityLocked, Running, synchVars
  <2>3. Donated(t) \in SUBSET Int /\ p \in Int /\ DOMAIN pc = AllThreads
    BY DEF Donated, LockType, Priority, SchedAssumption, ControlType
  <2>4. Dispatch' /\ KeepsBlocked({})
    BY <2>1, <2>2, <2>3, SetPriorityStep
  <2>5. \A u \in Thread \ {t} : pc'[u] = pc[u]
    BY <1>0, <2>1, <2>3 DEF SetPriorityOf
  <2>6. Waiting'
    BY <2>2, <2>4, <2>5, WaitingFrame DEF Waiting
  <2> QED
    BY <2>4, <2>6
<1>7. ASSUME NEW t \in Thread, UNCHANGED synchVars,
             ThreadYield(t) \/ (ThreadExit(t) /\ locks[t] = {})
      PROVE  QueueInv'
  <2>1. /\ status[t] = "running"
        /\ \A u \in Thread \ {t} : pc'[u] = pc[u]
        /\ UNCHANGED <<waiters, target, locks>>
    BY <1>0, <1>7 DEF ThreadYield, ThreadExit, Running, synchVars, ControlType
  <2>2. CASE ThreadYield(t)
    <3>1. Dispatch' /\ KeepsBlocked({})
      BY <2>2, YieldStep
    <3> QED
      BY <2>1, <3>1, WaitingFrame DEF Waiting
  <2>3. CASE ThreadExit(t) /\ locks[t] = {}
    <3>1. Dispatch' /\ KeepsBlocked({t}) /\ pc'[t] = "run"
      BY <2>3, ExitStep DEF ThreadExit, Running
    <3> QED
      BY <2>1, <2>3, <3>1, WaitingFrame DEF Waiting
  <2> QED
    BY <1>7, <2>2, <2>3
<1>8. ASSUME UNCHANGED synchVars,
             \/ SynchIdle \/ Interrupt
             \/ \E t \in Thread :
                   \/ \E ticks \in SleepTicks : ThreadSleep(t, ticks)
                   \/ \E u \in Thread, p \in Priority : Running(t) /\ ThreadCreate(u, p)
      PROVE  QueueInv'
  <2>1. pc' = pc /\ UNCHANGED <<waiters, target, locks>>
    BY <1>8 DEF SynchIdle, Interrupt, IdleLoop, TimerInterrupt, ThreadSleep, ThreadCreate,
       synchVars
  <2>2. Dispatch' /\ KeepsBlocked({})
    BY <1>8, IdleStep, TimerStep, SleepStep, CreateStep DEF SynchIdle, Interrupt
  <2> QED
    BY <2>1, <2>2, WaitingFrame DEF Waiting
<1>9. CASE UNCHANGED vars
  <2>1. Dispatch' /\ KeepsBlocked({})
    BY <1>9, DispatchFrame DEF vars, schedVars, dispatchVars, sleepVars, Dispatch
  <2> QED
    BY <1>9, <2>1, WaitingFrame DEF Waiting, vars, schedVars, synchVars
<1>10. ASSUME NEW t \in Thread, KernelStep(t)
       PROVE  QueueInv'
  BY <1>10, <1>1, <1>3, <1>4, <1>6, <1>7 DEF KernelStep
<1>11. ASSUME NEW t \in Thread, ClientCall(t)
       PROVE  QueueInv'
  BY <1>11, <1>1, <1>2, <1>4, <1>5, <1>6, <1>7, <1>8 DEF ClientCall
<1> QED
  BY <1>8, <1>9, <1>10, <1>11 DEF SynchNext, SynchIdle, Interrupt

LEMMA SynchInitQueues ==
    ASSUME SchedAssumption, SynchAssumption, SynchInit
    PROVE  QueueInv
<1>1. Dispatch
  <2>1. SchedInv
    BY SchedInitInv DEF SynchInit
  <2> QED
    BY <2>1 DEF SchedInv, SchedTypeOK, Dispatch, DispatchType, SleepType, Priority,
       SchedAssumption
<1>2. Waiting
  BY EmptyList DEF SynchInit, SchedInit, DispatchInit, PriorityInit, Waiting, WaitersAreBlocked, AllThreads,
     SynchAssumption, AllSemas
<1> QED
  BY <1>1, <1>2 DEF QueueInv

(* thread.elem is on one list: the ready list and the sleep list hold, each *)
(* once, the threads of their status ...                                   *)
THEOREM SynchListsExclusive == SynchSpec => []ElemOnOneList
<1>1. SynchInit => TypeInv /\ QueueInv
  BY SynchInitType, SynchInitQueues, SchedAssumption, SynchAssumption
<1>2. TypeInv /\ QueueInv /\ [SynchNext]_vars => (TypeInv /\ QueueInv)'
  BY TypeStep, QueueStep, SchedAssumption, SynchAssumption
<1>3. TypeInv /\ QueueInv => ElemOnOneList
  BY ListsAreElemOnOneList DEF QueueInv, Dispatch
<1> QED
  BY <1>1, <1>2, <1>3, PTL DEF SynchSpec

(* ... and each waiters list the blocked threads that called sema_down on  *)
(* its semaphore (thread.h:86).                                            *)
THEOREM SynchWaitersBlocked == SynchSpec => []WaitersAreBlocked
<1>1. SynchInit => TypeInv /\ QueueInv
  BY SynchInitType, SynchInitQueues, SchedAssumption, SynchAssumption
<1>2. TypeInv /\ QueueInv /\ [SynchNext]_vars => (TypeInv /\ QueueInv)'
  BY TypeStep, QueueStep, SchedAssumption, SynchAssumption
<1>3. TypeInv /\ QueueInv => WaitersAreBlocked
  BY DEF QueueInv, Waiting
<1> QED
  BY <1>1, <1>2, <1>3, PTL DEF SynchSpec

(* With donation, wakeups and releases the running thread is still one of  *)
(* the highest priority, or about to yield.                                *)
THEOREM SynchHighestRuns == SynchSpec => []HighestPriorityRuns
<1>1. SynchInit => TypeInv /\ QueueInv
  BY SynchInitType, SynchInitQueues, SchedAssumption, SynchAssumption
<1>2. TypeInv /\ QueueInv /\ [SynchNext]_vars => (TypeInv /\ QueueInv)'
  BY TypeStep, QueueStep, SchedAssumption, SynchAssumption
<1>3. TypeInv /\ QueueInv => HighestPriorityRuns
  BY DEF QueueInv, Dispatch
<1> QED
  BY <1>1, <1>2, <1>3, PTL DEF SynchSpec

(* Only the tick takes a thread off the sleep list.                        *)
LEMMA SynchStepWakes ==
    ASSUME SchedAssumption, QueueInv, [SynchNext]_vars
    PROVE  Wakes
<1>1. CASE Interrupt
  BY <1>1, TimerWakes DEF Interrupt, QueueInv
<1>2. CASE UNCHANGED vars
  BY <1>2 DEF vars, schedVars, Wakes
<1>3. CASE UNCHANGED sleepVars
  BY <1>3 DEF sleepVars, Wakes
<1>4. ASSUME NEW t \in Thread, KernelStep(t)
      PROVE  UNCHANGED sleepVars
  BY <1>4 DEF KernelStep, SemaDownResume, LockDown, LockSetHolder, LockAcquired,
     LockReset, LockUp, LockRestore, ThreadYield
<1>5. ASSUME NEW t \in Thread, ClientCall(t)
      PROVE  \/ UNCHANGED sleepVars
             \/ \E ticks \in SleepTicks : ThreadSleep(t, ticks)
  <2>1. ASSUME NEW s \in Sema, SemaDown(t, s) \/ SemaTryDown(t, s) \/ SemaUp(t, s)
        PROVE  UNCHANGED sleepVars
    BY <2>1 DEF SemaDown, SemaTryDown, SemaUp, schedVars, sleepVars
  <2>2. ASSUME NEW l \in Lock, LockAcquire(t, l) \/ LockRelease(t, l)
        PROVE  UNCHANGED sleepVars
    BY <2>2 DEF LockAcquire, LockRelease
  <2>3. ASSUME NEW p \in Priority, SetPriorityLocked(t, p) PROVE UNCHANGED sleepVars
    BY <2>3 DEF SetPriorityLocked
  <2>4. ASSUME NEW u \in Thread, NEW p \in Priority, ThreadCreate(u, p)
        PROVE  UNCHANGED sleepVars
    BY <2>4 DEF ThreadCreate
  <2>5. CASE ThreadYield(t) \/ ThreadExit(t)
    BY <2>5 DEF ThreadYield, ThreadExit
  <2> QED
    BY <1>5, <2>1, <2>2, <2>3, <2>4, <2>5 DEF ClientCall
<1>6. ASSUME NEW t \in Thread, NEW ticks \in SleepTicks, ThreadSleep(t, ticks)
      PROVE  Wakes
  BY <1>6 DEF ThreadSleep, Wakes
<1>7. CASE SynchIdle
  BY <1>3, <1>7 DEF SynchIdle, IdleLoop
<1> QED
  BY <1>1, <1>2, <1>3, <1>4, <1>5, <1>6, <1>7 DEF SynchNext

(* Donation included, a sleeper above all other threads runs as soon as    *)
(* its tick returns.                                                       *)
THEOREM SynchWakes == SynchSpec => WakesIntoExecution
<1>1. SynchInit => TypeInv /\ QueueInv
  BY SynchInitType, SynchInitQueues, SchedAssumption, SynchAssumption
<1>2. TypeInv /\ QueueInv /\ [SynchNext]_vars => (TypeInv /\ QueueInv)'
  BY TypeStep, QueueStep, SchedAssumption, SynchAssumption
<1>3. TypeInv /\ QueueInv /\ [SynchNext]_vars => [Wakes]_schedVars
  BY SynchStepWakes, SchedAssumption
<1>4. SynchSpec => [][Wakes]_schedVars
  BY <1>1, <1>2, <1>3, PTL DEF SynchSpec
<1> QED
  BY <1>4 DEF Wakes, WakesIntoExecution

-----------------------------------------------------------------------------
(* What a thread's priority is made of.  A lock whose holder is set counts *)
(* although it is not listed yet, and a lock that nobody holds carries no  *)
(* donation, once lock_release has passed the line that takes it back.     *)
Giving(t) == locks[t] \cup IF pc[t] = "clear" THEN {target[t]} ELSE {}
Claims(t) == {oldPriority[t]} \cup {highestPriority[l] : l \in Giving(t)}
Topped(t) == priority[t] \in Claims(t) /\ \A q \in Claims(t) : q <= priority[t]
Settled(t) == pc[t] \notin {"up", "restore"} => Topped(t)
Clean(l) ==
    holder[l] = None /\ (\A t \in Thread : ~(pc[t] = "reset" /\ target[t] = l))
       => highestPriority[l] = PriMin

DonationInv == (\A t \in Thread : Settled(t)) /\ (\A l \in Lock : Clean(l))

LEMMA DonationIsEffective ==
    ASSUME DonationInv
    PROVE  EffectivePriority
  BY DEF DonationInv, Settled, Topped, Claims, Giving, EffectivePriority, Donated

(* The locks that give to a thread are in its hands.                       *)
LEMMA GivingFacts ==
    ASSUME SynchAssumption, TypeInv, Ownership, NEW t \in Thread
    PROVE  /\ Giving(t) \in SUBSET Lock
           /\ \A l \in Giving(t) : /\ Owns(t, l)
                                   /\ holder[l] \in {t, None}
           /\ \A l \in Lock : holder[l] = t => l \in Giving(t)
<1>1. Giving(t) \in SUBSET Lock
  BY DEF Giving, TypeInv, LockType, ControlType, PcTarget, InLockCall
<1>2. \A l \in Lock : LockOwned(l)
  BY DEF Ownership
<1>3. \A l \in Giving(t) : Owns(t, l)
  BY DEF Giving, Owns
<1>4. \A l \in Giving(t) : holder[l] \in {t, None}
  BY <1>1, <1>2 DEF Giving, LockOwned
<1>5. ASSUME NEW l \in Lock, holder[l] = t
      PROVE  l \in Giving(t)
  <2>1. Owns(t, l) /\ LockOwned(l)
    BY <1>2, <1>5 DEF LockOwned
  <2>2. ~(pc[t] \in {"own", "up"} /\ target[t] = l)
    BY <1>5, <2>1 DEF LockOwned, TypeInv, SynchAssumption
  <2> QED
    BY <2>1, <2>2 DEF Owns, Giving
<1> QED
  BY <1>1, <1>3, <1>4, <1>5

LEMMA SettledFrame ==
    ASSUME NEW t \in Thread, Settled(t),
           pc'[t] \in {"up", "restore"} \/ pc[t] \notin {"up", "restore"},
           pc'[t] \in {"up", "restore"} \/
              /\ priority'[t] = priority[t] /\ oldPriority'[t] = oldPriority[t]
              /\ Giving(t)' = Giving(t)
              /\ \A l \in Giving(t) : highestPriority'[l] = highestPriority[l]
    PROVE  Settled(t)'
<1>1. CASE pc'[t] \in {"up", "restore"}
  BY <1>1 DEF Settled
<1>2. CASE pc'[t] \notin {"up", "restore"}
  <2>1. Claims(t)' = Claims(t)
    BY <1>2 DEF Claims
  <2> QED
    BY <1>2, <2>1 DEF Settled, Topped
<1> QED
  BY <1>1, <1>2

(* A step that neither donates nor passes a stage where locks change hands. *)
LEMMA DonationFrame ==
    ASSUME DonationInv, UNCHANGED <<priorityVars, lockVars>>,
           \A t \in Thread :
              \/ pc'[t] = pc[t] /\ target'[t] = target[t]
              \/ /\ pc[t] \notin {"clear", "reset", "up", "restore"}
                 /\ pc'[t] \notin {"clear", "reset"}
              \/ pc[t] = "up" /\ pc'[t] = "restore"
    PROVE  DonationInv'
<1>1. UNCHANGED <<priority, oldPriority, holder, highestPriority, locks>>
  BY DEF priorityVars, lockVars
<1>2. ASSUME NEW t \in Thread
      PROVE  Settled(t)'
  <2>1. pc'[t] \in {"up", "restore"} \/ Giving(t)' = Giving(t)
    BY <1>1 DEF Giving
  <2>2. pc'[t] \in {"up", "restore"} \/ pc[t] \notin {"up", "restore"}
    OBVIOUS
  <2> QED
    BY <1>1, <2>1, <2>2, SettledFrame DEF DonationInv
<1>3. ASSUME NEW l \in Lock
      PROVE  Clean(l)'
  BY <1>1 DEF Clean, DonationInv
<1> QED
  BY <1>2, <1>3 DEF DonationInv

(* lock_acquire's donation loop raises a holder to p with the lock.        *)
LEMMA DonateSettles ==
    ASSUME SchedAssumption, SynchAssumption, TypeInv, Ownership, DonationInv,
           NEW t \in Thread, NEW l \in Lock, LockAcquire(t, l)
    PROVE  DonationInv'
<1> DEFINE p == priority[t]
           chain == DonationChain(l, priority[t], waitsFor')
<1>1. \A m \in chain : m \in Lock /\ holder[m] # None /\ highestPriority[m] < p
  BY DEF DonationChain
<1>2. PICK C \in SUBSET Lock : C = chain
  BY <1>1
<1> HIDE DEF chain
<1>3. /\ highestPriority' = [m \in Lock |-> IF m \in C THEN p ELSE highestPriority[m]]
      /\ priority' = [u \in AllThreads |->
                         IF priority[u] < p /\ \E m \in C : holder[m] = u
                         THEN p ELSE priority[u]]
      /\ UNCHANGED <<oldPriority, holder, locks>>
      /\ pc[t] = "run" /\ pc' = [pc EXCEPT ![t] = "down"]
      /\ target' = [target EXCEPT ![t] = l]
  BY <1>2 DEF LockAcquire, Running, chain
<1>4. /\ p \in Int /\ \A u \in AllThreads : priority[u] \in Int
      /\ \A m \in Lock : highestPriority[m] \in Int
      /\ \A u \in AllThreads : oldPriority[u] \in Int
      /\ \A u \in Thread : u \in AllThreads
  BY DEF TypeInv, PriorityType, LockType, AllThreads, Priority, SchedAssumption
<1>5. /\ pc'[t] = "down"
      /\ \A u \in Thread \ {t} : pc'[u] = pc[u] /\ target'[u] = target[u]
  BY <1>3, <1>4 DEF TypeInv, ControlType
<1>6. ASSUME NEW u \in Thread
      PROVE  Settled(u)'
  <2>1. CASE pc[u] \in {"up", "restore"}
    BY <1>3, <1>5, <2>1 DEF Settled
  <2>2. CASE pc[u] \notin {"up", "restore"}
    <3>1. Giving(u)' = Giving(u)
      BY <1>3, <1>5 DEF Giving
    <3>2. Topped(u)
      BY <2>2 DEF DonationInv, Settled
    <3>3. /\ Giving(u) \in SUBSET Lock
          /\ \A m \in C : m \in Giving(u) <=> holder[m] = u
      BY <1>1, <1>2, GivingFacts
    <3>4. \A m \in Giving(u) : highestPriority'[m] = IF m \in C THEN p ELSE highestPriority[m]
      BY <1>3, <3>3
    <3>5. priority'[u] = IF priority[u] < p /\ \E m \in C : m \in Giving(u)
                         THEN p ELSE priority[u]
      BY <1>3, <1>4, <3>3
    <3>6. /\ oldPriority[u] <= priority[u]
          /\ \A m \in Giving(u) : highestPriority[m] <= priority[u]
          /\ \/ priority[u] = oldPriority[u]
             \/ \E m \in Giving(u) : priority[u] = highestPriority[m]
      BY <3>2 DEF Topped, Claims
    <3>7. oldPriority[u] <= priority'[u]
      BY <1>4, <3>5, <3>6
    <3>8. \A m \in Giving(u) : highestPriority'[m] <= priority'[u]
      BY <1>4, <3>3, <3>4, <3>5, <3>6
    <3>9. \/ priority'[u] = oldPriority[u]
          \/ \E m \in Giving(u) : priority'[u] = highestPriority'[m]
      <4>1. CASE priority[u] < p /\ \E m \in C : m \in Giving(u)
        BY <3>4, <3>5, <4>1
      <4>2. CASE ~(priority[u] < p /\ \E m \in C : m \in Giving(u))
        <5>1. priority'[u] = priority[u]
          BY <3>5, <4>2
        <5>2. ASSUME NEW m \in Giving(u), priority[u] = highestPriority[m]
              PROVE  highestPriority'[m] = highestPriority[m]
          <6>1. m \notin C
            <7>1. SUFFICES ASSUME m \in C PROVE FALSE
              OBVIOUS
            <7>2. highestPriority[m] < p
              BY <1>1, <1>2, <7>1
            <7> QED
              BY <4>2, <5>2, <7>1, <7>2
          <6> QED
            BY <3>4, <6>1
        <5> QED
          BY <3>6, <5>1, <5>2
      <4> QED
        BY <4>1, <4>2
    <3> QED
      BY <1>3, <3>1, <3>7, <3>8, <3>9 DEF Settled, Topped, Claims
  <2> QED
    BY <2>1, <2>2
<1>7. ASSUME NEW m \in Lock
      PROVE  Clean(m)'
  <2>1. m \in C => holder[m] # None
    BY <1>1, <1>2
  <2> QED
    BY <1>3, <1>5, <2>1 DEF Clean, DonationInv
<1> QED
  BY <1>6, <1>7 DEF DonationInv

LEMMA DonationStep ==
    ASSUME SchedAssumption, SynchAssumption, TypeInv, Ownership, QueueInv, DonationInv,
           [SynchNext]_vars
    PROVE  DonationInv'
<1>0. \A t \in Thread : t \in AllThreads
  BY DEF AllThreads
<1> USE DEF TypeInv
<1>1. ASSUME NEW t \in Thread,
             \/ \E s \in Sema : SemaDown(t, s) \/ SemaTryDown(t, s) \/ SemaUp(t, s)
             \/ SemaDownResume(t) \/ LockDown(t) \/ LockUp(t)
      PROVE  DonationInv'
  <2>1. UNCHANGED <<priorityVars, lockVars>>
    BY <1>1 DEF SemaDown, SemaTryDown, SemaUp, SemaDownResume, LockDown, LockUp, schedVars,
       priorityVars
  <2>2. \A u \in Thread \ {t} : pc'[u] = pc[u] /\ target'[u] = target[u]
    BY <1>0, <1>1 DEF SemaDown, SemaTryDown, SemaUp, SemaDownResume, LockDown, LockUp,
       SemaDownBody, schedVars, ControlType
  <2>3. \/ pc'[t] = pc[t] /\ target'[t] = target[t]
        \/ /\ pc[t] \notin {"clear", "reset", "up", "restore"}
           /\ pc'[t] \notin {"clear", "reset"}
        \/ pc[t] = "up" /\ pc'[t] = "restore"
    <3>1. CASE \E s \in Sema : SemaTryDown(t, s) \/ SemaUp(t, s)
      BY <3>1 DEF SemaTryDown, SemaUp, schedVars
    <3>2. CASE LockUp(t)
      BY <1>0, <3>2 DEF LockUp, ControlType
    <3>3. CASE \/ \E s \in Sema : SemaDown(t, s)
               \/ SemaDownResume(t) \/ LockDown(t)
      <4>1. pc[t] \in {"run", "parked", "down"} /\ \E s \in AllSemas : SemaDownBody(t, s)
        BY <3>3 DEF SemaDown, SemaDownResume, LockDown, Running, ControlType, PcTarget,
           InLockCall, AllSemas
      <4>2. pc'[t] \in {"parked", "own", "run"}
        BY <1>0, <4>1 DEF SemaDownBody, ControlType
      <4> QED
        BY <4>1, <4>2
    <3> QED
      BY <1>1, <3>1, <3>2, <3>3
  <2> QED
    BY <2>1, <2>2, <2>3, DonationFrame
<1>2. ASSUME NEW t \in Thread, LockSetHolder(t)
      PROVE  DonationInv'
  <2>1. PICK m \in Lock :
            /\ target[t] = m /\ target'[t] = m /\ pc[t] = "own" /\ pc'[t] = "clear"
            /\ holder' = [holder EXCEPT ![m] = t]
            /\ UNCHANGED <<priority, oldPriority, highestPriority, locks, target>>
            /\ \A u \in Thread \ {t} : pc'[u] = pc[u]
    BY <1>0, <1>2 DEF LockSetHolder, priorityVars, ControlType, PcTarget, InLockCall
  <2>2. LockOwned(m) /\ Owns(t, m)
    BY <2>1 DEF Ownership, Owns
  <2>3. highestPriority[m] = PriMin
    <3>1. holder[m] = None
      BY <2>1, <2>2 DEF LockOwned
    <3>2. \A u \in Thread : ~(pc[u] = "reset" /\ target[u] = m)
      <4>1. \A u \in Thread : pc[u] = "reset" /\ target[u] = m => Owns(u, m)
        BY <2>2 DEF LockOwned, Owns
      <4> QED
        BY <2>1, <2>2, <4>1 DEF LockOwned
    <3> QED
      BY <3>1, <3>2 DEF DonationInv, Clean
  <2>4. Settled(t)'
    <3>1. Topped(t) /\ Claims(t) = {oldPriority[t]} \cup {highestPriority[l] : l \in locks[t]}
      BY <2>1 DEF DonationInv, Settled, Claims, Giving
    <3>2. Claims(t)' = Claims(t) \cup {PriMin}
      BY <2>1, <2>3, <3>1 DEF Claims, Giving
    <3>3. PriMin <= priority[t]
      BY <1>0 DEF PriorityType, Priority, SchedAssumption
    <3> QED
      BY <2>1, <3>1, <3>2, <3>3 DEF Settled, Topped
  <2>5. ASSUME NEW u \in Thread, u # t
        PROVE  Settled(u)'
    <3>1. Giving(u)' = Giving(u)
      BY <2>1, <2>5 DEF Giving
    <3> QED
      BY <2>1, <2>5, <3>1, SettledFrame DEF DonationInv
  <2>6. ASSUME NEW l \in Lock
        PROVE  Clean(l)'
    <3>1. holder'[l] = IF l = m THEN t ELSE holder[l]
      BY <2>1 DEF LockType
    <3> QED
      BY <2>1, <3>1 DEF DonationInv, Clean, SynchAssumption
  <2> QED
    BY <2>4, <2>5, <2>6 DEF DonationInv
<1>3. ASSUME NEW t \in Thread, LockAcquired(t)
      PROVE  DonationInv'
  <2>1. PICK m \in Lock :
            /\ target[t] = m /\ target'[t] = None /\ pc[t] = "clear" /\ pc'[t] = "run"
            /\ locks' = [locks EXCEPT ![t] = @ \cup {m}]
            /\ UNCHANGED <<priority, oldPriority, highestPriority, holder>>
            /\ \A u \in Thread \ {t} : pc'[u] = pc[u] /\ target'[u] = target[u]
    BY <1>0, <1>3 DEF LockAcquired, priorityVars, ControlType, PcTarget, InLockCall
  <2>2. ASSUME NEW u \in Thread
        PROVE  Settled(u)'
    <3>1. Giving(u)' = Giving(u)
      BY <2>1 DEF Giving, LockType
    <3> QED
      BY <2>1, <3>1, SettledFrame DEF DonationInv
  <2>3. ASSUME NEW l \in Lock
        PROVE  Clean(l)'
    BY <2>1 DEF DonationInv, Clean
  <2> QED
    BY <2>2, <2>3 DEF DonationInv
<1>4. ASSUME NEW t \in Thread, NEW m \in Lock, LockRelease(t, m)
      PROVE  DonationInv'
  <2>1. /\ target'[t] = m /\ pc[t] = "run" /\ pc'[t] = "reset"
        /\ holder' = [holder EXCEPT ![m] = None]
        /\ UNCHANGED <<priority, oldPriority, highestPriority, locks>>
        /\ \A u \in Thread \ {t} : pc'[u] = pc[u] /\ target'[u] = target[u]
    BY <1>0, <1>4 DEF LockRelease, Running, priorityVars, ControlType
  <2>2. ASSUME NEW u \in Thread
        PROVE  Settled(u)'
    <3>1. Giving(u)' = Giving(u)
      BY <2>1 DEF Giving
    <3> QED
      BY <2>1, <3>1, SettledFrame DEF DonationInv
  <2>3. ASSUME NEW l \in Lock
        PROVE  Clean(l)'
    <3>1. l # m => holder'[l] = holder[l]
      BY <2>1 DEF LockType
    <3> QED
      BY <2>1, <3>1 DEF DonationInv, Clean
  <2> QED
    BY <2>2, <2>3 DEF DonationInv
<1>5. ASSUME NEW t \in Thread, LockReset(t)
      PROVE  DonationInv'
  <2>1. PICK m \in Lock :
            /\ target[t] = m /\ pc[t] = "reset" /\ pc'[t] = "up"
            /\ highestPriority' = [highestPriority EXCEPT ![m] = PriMin]
            /\ locks' = [locks EXCEPT ![t] = @ \ {m}]
            /\ UNCHANGED <<priority, oldPriority, holder, target>>
            /\ \A u \in Thread \ {t} : pc'[u] = pc[u]
    BY <1>0, <1>5 DEF LockReset, priorityVars, ControlType, PcTarget, InLockCall
  <2>2. LockOwned(m) /\ Owns(t, m)
    BY <2>1 DEF Ownership, LockOwned, Owns
  <2>3. ASSUME NEW u \in Thread, u # t
        PROVE  Settled(u)'
    <3>1. Giving(u)' = Giving(u)
      BY <2>1, <2>3 DEF Giving, LockType
    <3>2. Giving(u) \in SUBSET Lock /\ m \notin Giving(u)
      BY <2>2, <2>3, GivingFacts DEF LockOwned
    <3>3. \A l \in Giving(u) : highestPriority'[l] = highestPriority[l]
      BY <2>1, <3>2 DEF LockType
    <3> QED
      BY <2>1, <2>3, <3>1, <3>3, SettledFrame DEF DonationInv
  <2>4. Settled(t)'
    BY <2>1 DEF Settled
  <2>5. ASSUME NEW l \in Lock
        PROVE  Clean(l)'
    <3>1. highestPriority'[l] = IF l = m THEN PriMin ELSE highestPriority[l]
      BY <2>1 DEF LockType
    <3> QED
      BY <2>1, <3>1 DEF DonationInv, Clean
  <2> QED
    BY <2>3, <2>4, <2>5 DEF DonationInv
<1>6. ASSUME NEW t \in Thread,
             LockRestore(t) \/ \E p \in Priority : SetPriorityLocked(t, p)
      PROVE  DonationInv'
  <2>1. PICK new \in Priority : SetPriorityOf(t, new, Donated(t))
    BY <1>6, <1>0 DEF LockRestore, SetPriorityLocked, PriorityType
  <2>2. /\ pc[t] \in {"run", "restore"}
        /\ UNCHANGED <<holder, highestPriority, locks, target>>
    BY <1>6 DEF LockRestore, SetPriorityLocked, Running, synchVars
  <2>3. PICK p \in {new} \cup Donated(t) :
            /\ \A q \in {new} \cup Donated(t) : q <= p
            /\ oldPriority' = [oldPriority EXCEPT ![t] = new]
            /\ priority' = [priority EXCEPT ![t] = p]
            /\ pc' = [pc EXCEPT ![t] = IF p < priority[t] THEN "yield" ELSE "run"]
    BY <2>1 DEF SetPriorityOf
  <2>4. /\ pc'[t] \in {"yield", "run"} /\ priority'[t] = p /\ oldPriority'[t] = new
        /\ \A u \in Thread \ {t} : /\ pc'[u] = pc[u]
                                   /\ priority'[u] = priority[u]
                                   /\ oldPriority'[u] = oldPriority[u]
    BY <1>0, <2>3 DEF PriorityType, ControlType
  <2>5. Claims(t)' = {new} \cup Donated(t)
    BY <2>2, <2>4 DEF Claims, Giving, Donated
  <2>6. Settled(t)'
    BY <2>3, <2>4, <2>5 DEF Settled, Topped
  <2>7. ASSUME NEW u \in Thread, u # t
        PROVE  Settled(u)'
    <3>1. Giving(u)' = Giving(u)
      BY <2>2, <2>4, <2>7 DEF Giving
    <3> QED
      BY <2>2, <2>4, <2>7, <3>1, SettledFrame DEF DonationInv
  <2>8. ASSUME NEW l \in Lock
        PROVE  Clean(l)'
    BY <2>2, <2>4 DEF DonationInv, Clean
  <2> QED
    BY <2>6, <2>7, <2>8 DEF DonationInv
<1>7. ASSUME NEW w \in Thread, NEW p \in Priority, pc[w] = "run", locks[w] = {},
             priority' = [priority EXCEPT ![w] = p],
             oldPriority' = [oldPriority EXCEPT ![w] = p],
             UNCHANGED <<pc, synchVars>>
      PROVE  DonationInv'
  <2>1. UNCHANGED <<pc, target, holder, highestPriority, locks>>
    BY <1>7 DEF synchVars
  <2>2. \A u \in Thread : Giving(u)' = Giving(u)
    BY <2>1 DEF Giving
  <2>3. Settled(w)'
    <3>1. /\ Claims(w)' = {p} /\ priority'[w] = p
      BY <1>0, <1>7, <2>1 DEF Claims, Giving, PriorityType
    <3>2. p <= p
      BY DEF Priority, SchedAssumption
    <3> QED
      BY <3>1, <3>2 DEF Settled, Topped
  <2>4. ASSUME NEW u \in Thread, u # w
        PROVE  Settled(u)'
    <3>1. priority'[u] = priority[u] /\ oldPriority'[u] = oldPriority[u]
      BY <1>0, <1>7, <2>4 DEF PriorityType
    <3> QED
      BY <2>1, <2>2, <3>1, SettledFrame DEF DonationInv
  <2>5. \A l \in Lock : Clean(l)'
    BY <2>1 DEF DonationInv, Clean
  <2> QED
    BY <2>3, <2>4, <2>5 DEF DonationInv
<1>8. ASSUME NEW t \in Thread, UNCHANGED synchVars,
             \/ ThreadYield(t)
             \/ \E ticks \in SleepTicks : ThreadSleep(t, ticks)
             \/ \E u \in Thread, p \in Priority : Running(t) /\ ThreadCreate(u, p)
             \/ locks[t] = {} /\ ThreadExit(t)
      PROVE  DonationInv'
  <2>1. CASE ThreadYield(t)
    <3>1. \A u \in Thread : \/ pc'[u] = pc[u]
                            \/ pc[u] \in {"run", "yield"} /\ pc'[u] = "run"
      BY <1>0, <2>1 DEF ThreadYield, ControlType
    <3> QED
      BY <1>8, <2>1, <3>1, DonationFrame DEF ThreadYield, synchVars, lockVars
  <2>2. CASE \E ticks \in SleepTicks : ThreadSleep(t, ticks)
    BY <1>8, <2>2, DonationFrame DEF ThreadSleep, synchVars, lockVars
  <2>3. ASSUME NEW u \in Thread, NEW p \in Priority, Running(t), ThreadCreate(u, p)
        PROVE  DonationInv'
    <3>1. pc[u] = "run" /\ locks[u] = {}
      BY <2>3 DEF ThreadCreate, QueueInv, Waiting
    <3> QED
      BY <1>7, <1>8, <2>3, <3>1 DEF ThreadCreate
  <2>4. CASE locks[t] = {} /\ ThreadExit(t)
    <3>1. PriDefault \in Priority
      BY DEF Priority, SchedAssumption
    <3> QED
      BY <1>7, <1>8, <2>4, <3>1 DEF ThreadExit, Running
  <2> QED
    BY <1>8, <2>1, <2>2, <2>3, <2>4
<1>9. CASE SynchIdle \/ Interrupt \/ UNCHANGED vars
  <2>1. UNCHANGED <<pc, target, priorityVars, lockVars>>
    BY <1>9 DEF SynchIdle, Interrupt, IdleLoop, TimerInterrupt, vars, schedVars, synchVars,
       priorityVars, lockVars
  <2> QED
    BY <2>1, DonationFrame
<1>10. ASSUME NEW t \in Thread, KernelStep(t)
       PROVE  DonationInv'
  BY <1>10, <1>1, <1>2, <1>3, <1>5, <1>6, <1>8 DEF KernelStep
<1>11. ASSUME NEW t \in Thread, ClientCall(t)
       PROVE  DonationInv'
  BY <1>11, <1>1, <1>4, <1>6, <1>8, DonateSettles DEF ClientCall
<1> QED
  BY <1>9, <1>10, <1>11 DEF SynchNext

LEMMA SynchInitDonation ==
    ASSUME SchedAssumption, SynchAssumption, SynchInit
    PROVE  DonationInv
<1>1. ASSUME NEW t \in Thread
      PROVE  Settled(t)
  <2>1. Claims(t) = {oldPriority[t]} /\ priority[t] = oldPriority[t] /\ priority[t] \in Int
    BY DEF SynchInit, SchedInit, DispatchInit, PriorityInit, Claims, Giving, AllThreads, SchedAssumption
  <2> QED
    BY <2>1 DEF Settled, Topped
<1>2. \A l \in Lock : Clean(l)
  BY DEF SynchInit, Clean
<1> QED
  BY <1>1, <1>2 DEF DonationInv

(* A thread's priority is the maximum of the one it was set to and of the  *)
(* donations to the locks it has, and it always runs with it, outside the  *)
(* stretches of lock_acquire and lock_release that update it.              *)
THEOREM SynchEffectivePriority == SynchSpec => []EffectivePriority
<1> DEFINE I == TypeInv /\ Ownership /\ QueueInv /\ DonationInv
<1>1. SynchInit => I
  BY SynchInitType, SynchInitOwnership, SynchInitQueues, SynchInitDonation,
     SchedAssumption, SynchAssumption
<1>2. I /\ [SynchNext]_vars => I'
  BY TypeStep, OwnershipStep, QueueStep, DonationStep, SchedAssumption, SynchAssumption
<1>3. I => EffectivePriority
  BY DonationIsEffective
<1> QED
  BY <1>1, <1>2, <1>3, PTL DEF SynchSpec

-----------------------------------------------------------------------------
(* Wakeups.  A step that leaves a semaphore, and the threads parked on it, *)
(* as they are leaves its wakeups as they are.                             *)
NoneLost(s) == waiters[s] # <<>> => value[s] <= Cardinality(Awakened(s))

LEMMA AwakenedFinite ==
    ASSUME SchedAssumption, NEW s
    PROVE  IsFiniteSet(Awakened(s)) /\ Cardinality(Awakened(s)) \in Nat
<1>1. Awakened(s) \subseteq Thread
  BY DEF Awakened
<1>2. IsFiniteSet(Awakened(s))
  BY <1>1, FS_Subset DEF SchedAssumption
<1> QED
  BY <1>2, FS_CardinalityType

LEMMA WakeupFrame ==
    ASSUME NEW s \in AllSemas, NoneLost(s), waiters'[s] = waiters[s], value'[s] = value[s],
           \A u \in Thread :
              /\ status'[u] = "blocked" <=> status[u] = "blocked"
              /\ \/ pc'[u] = pc[u] /\ target'[u] = target[u]
                 \/ pc[u] # "parked" /\ pc'[u] # "parked"
    PROVE  NoneLost(s)'
<1>1. Awakened(s)' = Awakened(s)
  BY DEF Awakened
<1> QED
  BY <1>1 DEF NoneLost

LEMMA SemaDownWakeups ==
    ASSUME SchedAssumption, SynchAssumption, TypeInv, QueueInv, NoLostWakeup,
           NEW t \in Thread, current = t, NEW s \in AllSemas,
           pc[t] = "parked" => target[t] = s,
           SemaDownBody(t, s)
    PROVE  NoLostWakeup'
<1>0. t \in AllThreads /\ status[t] = "running"
  BY DEF AllThreads, QueueInv, Dispatch, Lists, Runs
<1> USE DEF TypeInv
<1>1. \A u \in Thread \ {t} : pc'[u] = pc[u] /\ target'[u] = target[u]
  BY <1>0 DEF SemaDownBody, ControlType, AllThreads
<1>2. \A r \in AllSemas \ {s} : value'[r] = value[r] /\ waiters'[r] = waiters[r]
  BY DEF SemaDownBody, SemaType
<1>3. CASE value[s] = 0
  <2>1. /\ pc' = [pc EXCEPT ![t] = "parked"]
        /\ target' = [target EXCEPT ![t] = s]
        /\ Schedule(readyList, [status EXCEPT ![current] = "blocked"], priority)
        /\ value' = value
    BY <1>3 DEF SemaDownBody
  <2>2. "blocked" \in Status \ {"ready", "running"}
    BY DEF Status
  <2>3. Rotates([status EXCEPT ![current] = "blocked"])
    BY <2>1, <2>2, LeaveFacts DEF QueueInv, Dispatch
  <2>4. \A u \in Thread :
            IF u = t THEN status'[u] = "blocked"
                     ELSE status'[u] = "blocked" <=> status[u] = "blocked"
    BY <1>0, <2>3 DEF Rotates, QueueInv, Dispatch, DispatchType, AllThreads
  <2>5. ASSUME NEW r \in AllSemas, r # s
        PROVE  NoneLost(r)'
    <3>1. Awakened(r)' = Awakened(r)
      BY <1>0, <1>1, <2>1, <2>4, <2>5 DEF Awakened, ControlType, AllThreads
    <3> QED
      BY <1>2, <2>5, <3>1 DEF NoneLost, NoLostWakeup
  <2>6. NoneLost(s)'
    <3>1. value'[s] = 0 /\ Cardinality(Awakened(s))' \in Nat
      <4>1. Awakened(s)' \subseteq Thread
        BY DEF Awakened
      <4>2. IsFiniteSet(Awakened(s)')
        BY <4>1, FS_Subset DEF SchedAssumption
      <4> QED
        BY <1>3, <2>1, <4>2, FS_CardinalityType
    <3> QED
      BY <3>1 DEF NoneLost
  <2> QED
    BY <2>5, <2>6 DEF NoneLost, NoLostWakeup
<1>4. CASE value[s] # 0
  <2>1. /\ value' = [value EXCEPT ![s] = @ - 1]
        /\ pc'[t] \in {"own", "run"}
        /\ UNCHANGED <<waiters, status>>
    BY <1>0, <1>4 DEF SemaDownBody, ControlType, dispatchVars
  <2>2. ASSUME NEW r \in AllSemas, r # s
        PROVE  NoneLost(r)'
    <3>1. Awakened(r)' = Awakened(r)
      BY <1>1, <2>1, <2>2 DEF Awakened
    <3> QED
      BY <1>2, <2>2, <3>1 DEF NoneLost, NoLostWakeup
  <2>3. NoneLost(s)'
    <3>1. Awakened(s)' = Awakened(s) \ {t}
      BY <1>1, <2>1 DEF Awakened
    <3>2. IsFiniteSet(Awakened(s)) /\ Cardinality(Awakened(s)) \in Nat
      BY AwakenedFinite
    <3>3. /\ Cardinality(Awakened(s) \ {t}) \in Nat
          /\ Cardinality(Awakened(s)) - 1 <= Cardinality(Awakened(s) \ {t})
      <4>1. /\ IsFiniteSet(Awakened(s) \ {t})
            /\ Cardinality(Awakened(s) \ {t}) =
                   IF t \in Awakened(s) THEN Cardinality(Awakened(s)) - 1
                                        ELSE Cardinality(Awakened(s))
        BY <3>2, FS_RemoveElement
      <4>2. Cardinality(Awakened(s) \ {t}) \in Nat
        BY <4>1, FS_CardinalityType
      <4> QED
        BY <3>2, <4>1, <4>2
    <3>4. value[s] \in Nat /\ value'[s] = value[s] - 1
      BY <2>1 DEF SemaType
    <3> QED
      BY <2>1, <3>1, <3>2, <3>3, <3>4 DEF NoneLost, NoLostWakeup
  <2> QED
    BY <2>2, <2>3 DEF NoneLost, NoLostWakeup
<1> QED
  BY <1>3, <1>4

LEMMA SemaUpWakeups ==
    ASSUME SchedAssumption, SynchAssumption, TypeInv, QueueInv, NoLostWakeup,
           NEW t \in Thread, current = t, NEW s \in AllSemas, SemaUpBody(s),
           \A u \in Thread \ {t} : pc'[u] = pc[u] /\ target'[u] = target[u],
           pc[t] # "parked", pc'[t] # "parked"
    PROVE  NoLostWakeup'
<1>0. t \in AllThreads /\ status[t] = "running"
  BY DEF AllThreads, QueueInv, Dispatch, Lists, Runs
<1> USE DEF TypeInv
<1>1. value' = [value EXCEPT ![s] = @ + 1]
  BY DEF SemaUpBody
<1>2. CASE waiters[s] = <<>>
  <2>1. UNCHANGED <<waiters, status>>
    BY <1>2 DEF SemaUpBody, dispatchVars
  <2>2. ASSUME NEW r \in AllSemas, r # s
        PROVE  NoneLost(r)'
    <3>1. value'[r] = value[r]
      BY <1>1, <2>2 DEF SemaType
    <3> QED
      BY <2>1, <3>1, WakeupFrame DEF NoneLost, NoLostWakeup
  <2>3. NoneLost(s)'
    BY <1>2, <2>1 DEF NoneLost
  <2> QED
    BY <2>2, <2>3 DEF NoneLost, NoLostWakeup
<1>3. CASE waiters[s] # <<>>
  <2>1. PICK w \in ToSet(waiters[s]) :
            /\ waiters' = [waiters EXCEPT ![s] = ListRemove(@, w)]
            /\ UnblockAndMaybeYield(w, priority)
    BY <1>3 DEF SemaUpBody
  <2>2. w \in Thread /\ status[w] = "blocked" /\ target[w] = s /\ pc[w] = "parked"
    BY DEF QueueInv, Waiting, WaitersAreBlocked
  <2>3. Rotates([status EXCEPT ![w] = "ready"])
    BY <2>1, <2>2, UnblockFiles DEF QueueInv, Dispatch, DispatchType, Lists
  <2>4. \A u \in Thread :
            IF u = w THEN status'[u] # "blocked"
                     ELSE status'[u] = "blocked" <=> status[u] = "blocked"
    BY <2>2, <2>3 DEF Rotates, QueueInv, Dispatch, DispatchType, AllThreads
  <2>5. w # t
    BY <1>0, <2>2
  <2>6. ASSUME NEW r \in AllSemas, r # s
        PROVE  NoneLost(r)'
    <3>1. value'[r] = value[r] /\ waiters'[r] = waiters[r]
      BY <1>1, <2>1, <2>6 DEF SemaType
    <3>2. Awakened(r)' = Awakened(r)
      BY <2>2, <2>4, <2>5, <2>6 DEF Awakened
    <3> QED
      BY <3>1, <3>2 DEF NoneLost, NoLostWakeup
  <2>7. NoneLost(s)'
    <3>1. Awakened(s)' = Awakened(s) \cup {w} /\ w \notin Awakened(s)
      BY <2>2, <2>4, <2>5 DEF Awakened
    <3>2. IsFiniteSet(Awakened(s)) /\ Cardinality(Awakened(s)) \in Nat
      BY AwakenedFinite
    <3>3. Cardinality(Awakened(s) \cup {w}) = Cardinality(Awakened(s)) + 1
      BY <3>1, <3>2, FS_AddElement
    <3>4. value[s] \in Nat /\ value'[s] = value[s] + 1
      BY <1>1 DEF SemaType
    <3> QED
      BY <1>3, <3>1, <3>2, <3>3, <3>4 DEF NoneLost, NoLostWakeup
  <2> QED
    BY <2>6, <2>7 DEF NoneLost, NoLostWakeup
<1> QED
  BY <1>2, <1>3

LEMMA WakeupStep ==
    ASSUME SchedAssumption, SynchAssumption, TypeInv, QueueInv, NoLostWakeup,
           [SynchNext]_vars
    PROVE  NoLostWakeup'
<1>0. \A t \in Thread :
          /\ t \in AllThreads
          /\ current = t => status[t] = "running"
  BY DEF AllThreads, QueueInv, Dispatch, Lists, Runs
<1> USE DEF TypeInv
<1>1. ASSUME NEW t \in Thread,
             \/ \E s \in Sema : SemaDown(t, s)
             \/ SemaDownResume(t) \/ LockDown(t)
      PROVE  NoLostWakeup'
  <2>1. PICK s \in AllSemas : /\ SemaDownBody(t, s)
                              /\ pc[t] = "parked" => target[t] = s
    BY <1>1 DEF SemaDown, SemaDownResume, LockDown, Running, ControlType, PcTarget,
       InLockCall, AllSemas
  <2>2. current = t
    BY <1>1 DEF SemaDown, SemaDownResume, LockDown, Running
  <2> QED
    BY <2>1, <2>2, SemaDownWakeups
<1>2. ASSUME NEW t \in Thread, (\E s \in Sema : SemaUp(t, s)) \/ LockUp(t)
      PROVE  NoLostWakeup'
  <2>1. PICK s \in AllSemas : SemaUpBody(s)
    BY <1>2 DEF SemaUp, LockUp, ControlType, PcTarget, InLockCall, AllSemas
  <2>2. /\ current = t /\ pc[t] # "parked" /\ pc'[t] # "parked"
        /\ \A u \in Thread \ {t} : pc'[u] = pc[u] /\ target'[u] = target[u]
    BY <1>0, <1>2 DEF SemaUp, LockUp, Running, ControlType
  <2> QED
    BY <2>1, <2>2, SemaUpWakeups
<1>3. ASSUME NEW t \in Thread, NEW s \in Sema, SemaTryDown(t, s)
      PROVE  NoLostWakeup'
  <2>1. /\ value' = [value EXCEPT ![s] = @ - 1] /\ s \in AllSemas
        /\ UNCHANGED <<waiters, status, pc, target>>
    BY <1>3 DEF SemaTryDown, schedVars, AllSemas
  <2>2. ASSUME NEW r \in AllSemas
        PROVE  NoneLost(r)'
    <3>1. value[r] \in Int /\ value'[r] <= value[r] /\ value'[r] \in Int
      BY <2>1 DEF SemaType
    <3>2. Awakened(r)' = Awakened(r)
      BY <2>1 DEF Awakened
    <3>3. Cardinality(Awakened(r)) \in Nat
      BY AwakenedFinite
    <3> QED
      BY <2>1, <3>1, <3>2, <3>3 DEF NoneLost, NoLostWakeup
  <2> QED
    BY <2>2 DEF NoneLost, NoLostWakeup
<1>4. ASSUME NEW E, KeepsBlocked(E), UNCHANGED <<value, waiters>>,
             \A u \in Thread : \/ pc'[u] = pc[u] /\ target'[u] = target[u]
                               \/ pc[u] # "parked" /\ pc'[u] # "parked"
      PROVE  NoLostWakeup'
  BY <1>4, WakeupFrame DEF KeepsBlocked, NoneLost, NoLostWakeup
<1>5. ASSUME NEW t \in Thread,
             \/ LockSetHolder(t) \/ LockAcquired(t) \/ LockReset(t) \/ LockRestore(t)
             \/ \E l \in Lock : LockAcquire(t, l) \/ LockRelease(t, l)
             \/ \E p \in Priority : SetPriorityLocked(t, p)
      PROVE  NoLostWakeup'
  <2>1. UNCHANGED <<value, waiters, status>> /\ KeepsBlocked({})
    BY <1>5 DEF LockSetHolder, LockAcquired, LockReset, LockRestore, LockAcquire,
       LockRelease, SetPriorityLocked, semaVars, synchVars, dispatchVars, KeepsBlocked
  <2>2. /\ pc[t] # "parked" /\ pc'[t] # "parked"
        /\ \A u \in Thread \ {t} : pc'[u] = pc[u] /\ target'[u] = target[u]
    BY <1>0, <1>5 DEF LockSetHolder, LockAcquired, LockReset, LockRestore, LockAcquire,
       LockRelease, SetPriorityLocked, SetPriorityOf, Running, synchVars, ControlType
  <2> QED
    BY <1>4, <2>1, <2>2
<1>6. ASSUME NEW t \in Thread, UNCHANGED synchVars, ThreadYield(t) \/ ThreadExit(t)
      PROVE  NoLostWakeup'
  <2>1. KeepsBlocked({}) \/ KeepsBlocked({t})
    BY <1>6, YieldStep, ExitStep DEF QueueInv
  <2>2. \A u \in Thread : pc'[u] = pc[u] \/ (pc[u] # "parked" /\ pc'[u] # "parked")
    BY <1>0, <1>6 DEF ThreadYield, ThreadExit, ControlType
  <2> QED
    BY <1>4, <1>6, <2>1, <2>2 DEF synchVars
<1>7. ASSUME UNCHANGED synchVars,
             \/ SynchIdle \/ Interrupt
             \/ \E t \in Thread :
                   \/ \E ticks \in SleepTicks : ThreadSleep(t, ticks)
                   \/ \E u \in Thread, p \in Priority : Running(t) /\ ThreadCreate(u, p)
      PROVE  NoLostWakeup'
  <2>1. pc' = pc
    BY <1>7 DEF SynchIdle, Interrupt, IdleLoop, TimerInterrupt, ThreadSleep, ThreadCreate
  <2>2. KeepsBlocked({})
    BY <1>7, IdleStep, TimerStep, SleepStep, CreateStep DEF QueueInv, SynchIdle, Interrupt
  <2> QED
    BY <1>4, <1>7, <2>1, <2>2 DEF synchVars
<1>8. CASE UNCHANGED vars
  BY <1>4, <1>8 DEF vars, schedVars, synchVars, KeepsBlocked
<1>9. ASSUME NEW t \in Thread, KernelStep(t)
      PROVE  NoLostWakeup'
  BY <1>9, <1>1, <1>2, <1>5, <1>6 DEF KernelStep
<1>10. ASSUME NEW t \in Thread, ClientCall(t)
       PROVE  NoLostWakeup'
  BY <1>10, <1>1, <1>2, <1>3, <1>5, <1>6, <1>7 DEF ClientCall
<1> QED
  BY <1>7, <1>8, <1>9, <1>10 DEF SynchNext, SynchIdle, Interrupt

(* No wakeup is lost, however many threads barge in between a sema_up and  *)
(* the thread it awakened.                                                 *)
THEOREM SynchNoLostWakeup == SynchSpec => []NoLostWakeup
<1> DEFINE I == TypeInv /\ QueueInv /\ NoLostWakeup
<1>1. SynchInit => I
  BY SynchInitType, SynchInitQueues, SchedAssumption, SynchAssumption
     DEF SynchInit, NoLostWakeup
<1>2. I /\ [SynchNext]_vars => I'
  BY TypeStep, QueueStep, WakeupStep, SchedAssumption, SynchAssumption
<1> QED
  BY <1>1, <1>2, PTL DEF SynchSpec

-----------------------------------------------------------------------------
(* Refinement.  By Ownership the owner of a unit is unique, so OwnerOf is  *)
(* that thread.                                                            *)
OwnerKnown(l) ==
    /\ \A t \in Thread : OwnerOf(l) = t <=> Owns(t, l)
    /\ OwnerOf(l) = None <=> \A t \in Thread : ~Owns(t, l)
    /\ OwnerOf(l) \in Thread \cup {None}
OwnersKnown == \A l \in Lock : OwnerKnown(l)

LEMMA OwnerFacts == SynchAssumption /\ Ownership => OwnersKnown
<1> SUFFICES ASSUME SynchAssumption, Ownership, NEW l \in Lock
             PROVE  OwnerKnown(l)
  BY DEF OwnersKnown
<1>1. \A t, u \in Thread : Owns(t, l) /\ Owns(u, l) => t = u
  BY DEF Ownership, LockOwned
<1>2. CASE \E t \in Thread : Owns(t, l)
  <2>1. PICK t \in Thread : Owns(t, l)
    BY <1>2
  <2>2. OwnerOf(l) = CHOOSE u \in Thread : Owns(u, l)
    BY <1>2 DEF OwnerOf
  <2>3. OwnerOf(l) = t
    BY <1>1, <2>1, <2>2
  <2> QED
    BY <1>1, <2>1, <2>3 DEF SynchAssumption, OwnerKnown
<1>3. CASE ~ \E t \in Thread : Owns(t, l)
  BY <1>3 DEF OwnerOf, SynchAssumption, OwnerKnown
<1> QED
  BY <1>2, <1>3

LEMMA OwnerFactsNext == SynchAssumption' /\ Ownership' => OwnersKnown'
  BY OwnerFacts, PTL

AbstractVars == <<[l \in Lock |-> OwnerOf(l)], [t \in Thread |-> WantedBy(t)]>>

LEMMA RefineStutter ==
    ASSUME SynchAssumption, Ownership, Ownership',
           \A t \in Thread : /\ WantedBy(t)' = WantedBy(t)
                             /\ \A l \in Lock : Owns(t, l)' <=> Owns(t, l)
    PROVE  UNCHANGED AbstractVars
<1>1. OwnersKnown /\ OwnersKnown'
  BY OwnerFacts, OwnerFactsNext
<1>2. ASSUME NEW l \in Lock
      PROVE  OwnerOf(l)' = OwnerOf(l)
  BY <1>1 DEF OwnersKnown, OwnerKnown, SynchAssumption
<1> QED
  BY <1>2 DEF AbstractVars

(* A call of thread t moves at most lock l and its own wish.               *)
LEMMA RefineOne ==
    ASSUME SynchAssumption, Ownership, Ownership', NEW t \in Thread, NEW l \in Lock,
           \A u \in Thread, m \in Lock :
              (u # t \/ m # l) => (Owns(u, m)' <=> Owns(u, m)),
           \A u \in Thread \ {t} : WantedBy(u)' = WantedBy(u)
    PROVE  /\ [m \in Lock |-> OwnerOf(m)]' =
                  [[m \in Lock |-> OwnerOf(m)] EXCEPT ![l] = OwnerOf(l)']
           /\ [u \in Thread |-> WantedBy(u)]' =
                  [[u \in Thread |-> WantedBy(u)] EXCEPT ![t] = WantedBy(t)']
<1>1. OwnersKnown /\ OwnersKnown'
  BY OwnerFacts, OwnerFactsNext
<1>2. ASSUME NEW m \in Lock, m # l
      PROVE  OwnerOf(m)' = OwnerOf(m)
  BY <1>1, <1>2 DEF OwnersKnown, OwnerKnown, SynchAssumption
<1> QED
  BY <1>2

LEMMA RefineDown ==
    ASSUME SynchAssumption, TypeInv, Ownership, Ownership', NEW t \in Thread,
           NEW s \in AllSemas, UNCHANGED lockVars, SemaDownBody(t, s),
           \/ pc[t] = "run" /\ s \in Sema
           \/ pc[t] \in {"down", "parked"} /\ target[t] = s
    PROVE  [Abstract!Next]_AbstractVars
<1>0. t \in AllThreads /\ OwnersKnown /\ OwnersKnown'
  BY OwnerFacts, OwnerFactsNext DEF AllThreads
<1>1. /\ locks' = locks
      /\ \A u \in Thread \ {t} : pc'[u] = pc[u] /\ target'[u] = target[u]
  BY <1>0 DEF SemaDownBody, TypeInv, ControlType, lockVars, AllThreads
<1>2. CASE value[s] = 0 \/ s \notin Lock
  <2>1. \/ pc'[t] = "parked" /\ target'[t] = s
        \/ pc'[t] = "run" /\ s \notin Lock
    BY <1>0, <1>2 DEF SemaDownBody, TypeInv, ControlType
  <2>2. \A u \in Thread : /\ WantedBy(u)' = WantedBy(u)
                          /\ \A l \in Lock : Owns(u, l)' <=> Owns(u, l)
    BY <1>1, <2>1 DEF WantedBy, Owns, SynchAssumption
  <2> QED
    BY <2>2, RefineStutter
<1>3. CASE value[s] # 0 /\ s \in Lock
  <2>1. value[s] = 1 /\ \A u \in Thread : ~Owns(u, s)
    BY <1>3 DEF Ownership, LockOwned
  <2>2. pc'[t] = "own" /\ target'[t] = s /\ WantedBy(t) = s
    BY <1>0, <1>3 DEF SemaDownBody, TypeInv, ControlType, WantedBy, SynchAssumption
  <2>3. Owns(t, s)' /\ WantedBy(t)' = None
    BY <2>2 DEF Owns, WantedBy
  <2>4. OwnerOf(s) = None /\ OwnerOf(s)' = t
    BY <1>0, <1>3, <2>1, <2>3 DEF OwnersKnown, OwnerKnown
  <2>5. /\ \A u \in Thread, m \in Lock :
              (u # t \/ m # s) => (Owns(u, m)' <=> Owns(u, m))
        /\ \A u \in Thread \ {t} : WantedBy(u)' = WantedBy(u)
    <3>1. pc[t] \in {"down", "parked"}
      BY <1>3 DEF SynchAssumption
    <3> QED
      BY <1>1, <2>2, <3>1 DEF Owns, WantedBy
  <2>6. Abstract!Grant(t, s)
    BY <1>3, <2>2, <2>3, <2>4, <2>5, RefineOne DEF Abstract!Grant
  <2> QED
    BY <1>3, <2>6 DEF Abstract!Next
<1> QED
  BY <1>2, <1>3

LEMMA RefineStep ==
    ASSUME SchedAssumption, SynchAssumption, TypeInv, Ownership, Ownership',
           [SynchNext]_vars
    PROVE  [Abstract!Next]_AbstractVars
<1>0. /\ \A t \in Thread : t \in AllThreads
      /\ OwnersKnown /\ OwnersKnown'
  BY OwnerFacts, OwnerFactsNext DEF AllThreads
<1>1. ASSUME NEW t \in Thread,
             \/ \E s \in Sema : SemaDown(t, s)
             \/ SemaDownResume(t) \/ LockDown(t)
      PROVE  [Abstract!Next]_AbstractVars
  <2>1. /\ UNCHANGED lockVars
        /\ \E s \in AllSemas :
              /\ SemaDownBody(t, s)
              /\ \/ pc[t] = "run" /\ s \in Sema
                 \/ pc[t] \in {"down", "parked"} /\ target[t] = s
    BY <1>1 DEF SemaDown, SemaDownResume, LockDown, Running, TypeInv, ControlType,
       PcTarget, InLockCall, AllSemas
  <2> QED
    BY <2>1, RefineDown
<1>2. ASSUME NEW t \in Thread, NEW l \in Lock, LockAcquire(t, l)
      PROVE  [Abstract!Next]_AbstractVars
  <2>1. /\ pc[t] = "run" /\ pc'[t] = "down" /\ target'[t] = l /\ holder[l] # t
        /\ locks' = locks
        /\ \A u \in Thread \ {t} : pc'[u] = pc[u] /\ target'[u] = target[u]
    BY <1>0, <1>2 DEF LockAcquire, Running, TypeInv, ControlType
  <2>2. ~Owns(t, l)
    BY <2>1 DEF Owns, Ownership, LockOwned
  <2>3. /\ \A u \in Thread, m \in Lock : Owns(u, m)' <=> Owns(u, m)
        /\ \A u \in Thread \ {t} : WantedBy(u)' = WantedBy(u)
        /\ WantedBy(t) = None /\ WantedBy(t)' = l
    BY <2>1 DEF Owns, WantedBy
  <2>4. OwnerOf(l)' = OwnerOf(l) /\ OwnerOf(l) # t
    BY <1>0, <2>2, <2>3 DEF OwnersKnown, OwnerKnown, SynchAssumption
  <2>5. Abstract!Ask(t, l)
    BY <2>3, <2>4, RefineOne DEF Abstract!Ask
  <2> QED
    BY <2>5 DEF Abstract!Next
<1>3. ASSUME NEW t \in Thread, LockUp(t)
      PROVE  [Abstract!Next]_AbstractVars
  <2>1. PICK l \in Lock :
            /\ target[t] = l /\ pc[t] = "up" /\ pc'[t] = "restore" /\ locks' = locks
            /\ \A u \in Thread \ {t} : pc'[u] = pc[u] /\ target'[u] = target[u]
    BY <1>0, <1>3 DEF LockUp, lockVars, TypeInv, ControlType, PcTarget, InLockCall
  <2>2. Owns(t, l) /\ LockOwned(l) /\ l \notin locks[t]
    BY <2>1 DEF Owns, Ownership, LockOwned
  <2>3. /\ \A u \in Thread, m \in Lock :
              (u # t \/ m # l) => (Owns(u, m)' <=> Owns(u, m))
        /\ \A u \in Thread : WantedBy(u)' = WantedBy(u)
        /\ WantedBy(t) = None /\ ~Owns(t, l)'
    BY <2>1, <2>2 DEF Owns, WantedBy
  <2>4. OwnerOf(l) = t /\ OwnerOf(l)' = None
    <3>1. \A u \in Thread : ~Owns(u, l)'
      BY <2>2, <2>3 DEF LockOwned
    <3> QED
      BY <1>0, <2>2, <3>1 DEF OwnersKnown, OwnerKnown
  <2>5. Abstract!GiveBack(t, l)
    <3>1. [u \in Thread |-> WantedBy(u)]' = [u \in Thread |-> WantedBy(u)]
      BY <2>3
    <3> QED
      BY <2>3, <2>4, <3>1, RefineOne DEF Abstract!GiveBack
  <2> QED
    BY <2>5 DEF Abstract!Next
<1>4. ASSUME NEW t \in Thread,
             LockSetHolder(t) \/ LockAcquired(t) \/ LockReset(t)
               \/ \E l \in Lock : LockRelease(t, l)
      PROVE  [Abstract!Next]_AbstractVars
  <2>1. \A u \in Thread \ {t} : pc'[u] = pc[u] /\ target'[u] = target[u]
    BY <1>0, <1>4 DEF LockSetHolder, LockAcquired, LockReset, LockRelease, TypeInv,
       ControlType
  <2>2. \A u \in Thread \ {t} : locks'[u] = locks[u]
    BY <1>4 DEF LockSetHolder, LockAcquired, LockReset, LockRelease, TypeInv, LockType
  <2>3. ASSUME NEW u \in Thread
        PROVE  WantedBy(u)' = WantedBy(u)
    <3>1. pc[t] \notin {"down", "parked"} /\ pc'[t] \notin {"down", "parked"}
      BY <1>0, <1>4 DEF LockSetHolder, LockAcquired, LockReset, LockRelease, Running,
         TypeInv, ControlType
    <3> QED
      BY <2>1, <3>1 DEF WantedBy
  <2>4. ASSUME NEW u \in Thread, NEW m \in Lock
        PROVE  Owns(u, m)' <=> Owns(u, m)
    <3>1. CASE u # t
      BY <2>1, <2>2, <3>1 DEF Owns
    <3>2. CASE u = t /\ LockSetHolder(t)
      BY <1>0, <3>2 DEF LockSetHolder, Owns, TypeInv, ControlType
    <3>3. CASE u = t /\ LockAcquired(t)
      BY <1>0, <3>3 DEF LockAcquired, Owns, TypeInv, ControlType, LockType
    <3>4. CASE u = t /\ LockReset(t)
      <4>1. target[t] \in Lock /\ target[t] \in locks[t]
        BY <3>4 DEF LockReset, TypeInv, ControlType, PcTarget, InLockCall, Ownership,
           LockOwned
      <4> QED
        BY <1>0, <3>4, <4>1 DEF LockReset, Owns, TypeInv, ControlType, LockType
    <3>5. CASE u = t /\ \E l \in Lock : LockRelease(t, l)
      BY <1>0, <3>5 DEF LockRelease, Running, Owns, TypeInv, ControlType
    <3> QED
      BY <1>4, <3>1, <3>2, <3>3, <3>4, <3>5
  <2> QED
    BY <2>3, <2>4, RefineStutter
<1>5. ASSUME UNCHANGED <<locks, target>>,
             \A u \in Thread :
                \/ pc'[u] = pc[u]
                \/ /\ pc[u] \in {"run", "restore", "yield"}
                   /\ pc'[u] \in {"run", "restore", "yield"}
      PROVE  [Abstract!Next]_AbstractVars
  <2>1. \A u \in Thread : /\ WantedBy(u)' = WantedBy(u)
                          /\ \A l \in Lock : Owns(u, l)' <=> Owns(u, l)
    BY <1>5 DEF WantedBy, Owns
  <2> QED
    BY <2>1, RefineStutter
<1>6. ASSUME NEW t \in Thread,
             \/ LockRestore(t)
             \/ \E s \in Sema : SemaTryDown(t, s) \/ SemaUp(t, s)
             \/ \E p \in Priority : SetPriorityLocked(t, p)
             \/ /\ UNCHANGED synchVars
                /\ \/ ThreadYield(t) \/ ThreadExit(t)
                   \/ \E ticks \in SleepTicks : ThreadSleep(t, ticks)
                   \/ \E u \in Thread, p \in Priority : Running(t) /\ ThreadCreate(u, p)
      PROVE  [Abstract!Next]_AbstractVars
  <2>1. UNCHANGED <<locks, target>>
    BY <1>6 DEF LockRestore, SemaTryDown, SemaUp, SetPriorityLocked, synchVars, lockVars
  <2>2. \A u \in Thread :
                \/ pc'[u] = pc[u]
                \/ /\ pc[u] \in {"run", "restore", "yield"}
                   /\ pc'[u] \in {"run", "restore", "yield"}
    BY <1>0, <1>6 DEF LockRestore, SemaTryDown, SemaUp, SetPriorityLocked, SetPriorityOf,
       ThreadYield, ThreadExit, ThreadSleep, ThreadCreate, Running, schedVars, TypeInv,
       ControlType
  <2> QED
    BY <1>5, <2>1, <2>2
<1>7. CASE SynchIdle \/ Interrupt \/ UNCHANGED vars
  <2>1. UNCHANGED <<pc, locks, target>>
    BY <1>7 DEF SynchIdle, Interrupt, IdleLoop, TimerInterrupt, vars, schedVars, synchVars
  <2> QED
    BY <1>5, <2>1
<1>8. ASSUME NEW t \in Thread, KernelStep(t)
      PROVE  [Abstract!Next]_AbstractVars
  BY <1>8, <1>1, <1>3, <1>4, <1>6 DEF KernelStep
<1>9. ASSUME NEW t \in Thread, ClientCall(t)
      PROVE  [Abstract!Next]_AbstractVars
  BY <1>9, <1>1, <1>2, <1>4, <1>6 DEF ClientCall
<1> QED
  BY <1>7, <1>8, <1>9 DEF SynchNext

(* lock_acquire and lock_release implement the abstract lock: every step   *)
(* of theirs asks for a lock, is granted a free one, gives one back, or    *)
(* changes nothing a caller can see.                                       *)
THEOREM SynchImplementsLock == SynchSpec => ImplementsLock
<1>1. SynchInit => Abstract!Init
  <2> SUFFICES ASSUME SynchInit PROVE Abstract!Init
    OBVIOUS
  <2>1. \A t \in Thread : WantedBy(t) = None /\ \A l \in Lock : ~Owns(t, l)
    BY DEF SynchInit, SchedInit, DispatchInit, PriorityInit, WantedBy, Owns, AllThreads
  <2> QED
    BY <2>1 DEF Abstract!Init, OwnerOf
<1>2. SynchInit => TypeInv /\ Ownership
  BY SynchInitType, SynchInitOwnership, SchedAssumption, SynchAssumption
<1>3. TypeInv /\ Ownership /\ [SynchNext]_vars => (TypeInv /\ Ownership)'
  BY TypeStep, OwnershipStep, SchedAssumption, SynchAssumption
<1>4. TypeInv /\ Ownership /\ Ownership' /\ [SynchNext]_vars
          => [Abstract!Next]_(Abstract!lockVars)
  BY RefineStep, SchedAssumption, SynchAssumption DEF Abstract!lockVars, AbstractVars
<1> QED
  BY <1>1, <1>2, <1>3, <1>4, PTL DEF SynchSpec, ImplementsLock, Abstract!Safety

=============================================================================
