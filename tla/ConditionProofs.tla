--------------------------- MODULE ConditionProofs ---------------------------
(***************************************************************************)
(* Proofs about Condition: the waiters lists hold only stack frames that   *)
(* are in use, and cond_wait, cond_signal and cond_broadcast implement the *)
(* monitor.  Both rest on one inductive invariant, which says what pc      *)
(* implies about the lock, the units and the lists.                        *)
(***************************************************************************)
EXTENDS Condition, KernelListProofs, TLAPS

Signalling == {"unlink", "unlinkAll"}

(* Only the owner of the lock is at a stage that needs it.                 *)
LockInv == \A t \in Thread : pc[t] \in Inside <=> owner = t

(* cond names the condition of a call; a unit is there only from sema_up   *)
(* until the waiter takes it.                                              *)
CallInv ==
    \A t \in Thread :
        /\ pc[t] \in InWait \cup Signalling \cup {"loop"} => cond[t] \in Cond
        /\ unit[t] = 1 => pc[t] \in {"down", "woken"}
        /\ pc[t] = "woken" => unit[t] = 1

Unsignalled(t) == pc[t] \in {"release", "down", "parked"} /\ unit[t] = 0
Signalled(t) ==
    \/ pc[t] \in {"down", "woken"} /\ unit[t] = 1
    \/ pc[t] = "reacquire"

(* A thread on a list has not been signalled, but for the one that the     *)
(* signaller, which has the lock, is about to remove.                      *)
ListInv ==
    \A c \in Cond :
        /\ NoDuplicates(waiters[c])
        /\ \A t \in ToSet(waiters[c]) :
              /\ cond[t] = c
              /\ \/ Unsignalled(t)
                 \/ \E u \in Thread : pc[u] \in Signalling /\ picked[u] = t

PickInv ==
    \A u \in Thread : pc[u] \in Signalling =>
        picked[u] \in ToSet(waiters[cond[u]]) /\ Signalled(picked[u])

CondInv == CondTypeOK /\ LockInv /\ CallInv /\ ListInv /\ PickInv

LEMMA ListedIsThread ==
    ASSUME CondTypeOK, NEW c \in Cond, NEW t \in ToSet(waiters[c])
    PROVE  t \in Thread
  BY DEF CondTypeOK, ToSet

LEMMA CondInitInv ==
    ASSUME ConditionAssumption, Init
    PROVE  CondInv
<1>1. CondTypeOK
  BY DEF Init, CondTypeOK
<1>2. LockInv /\ CallInv /\ PickInv
  BY DEF Init, LockInv, CallInv, PickInv, Inside, InWait, Signalling,
     ConditionAssumption
<1>3. ListInv
  BY DEF Init, ListInv, NoDuplicates, ToSet
<1> QED
  BY <1>1, <1>2, <1>3 DEF CondInv

(* While nobody is in cond_signal, a listed thread has not been signalled. *)
LEMMA ListedUnsignalled ==
    ASSUME CondInv, NEW c \in Cond, NEW t \in ToSet(waiters[c]),
           \A u \in Thread : pc[u] \notin Signalling
    PROVE  t \in Thread /\ cond[t] = c /\ Unsignalled(t)
  BY ListedIsThread DEF CondInv, ListInv

LEMMA NoSignaller ==
    ASSUME CondInv, NEW t \in Thread \cup {None}, owner = t,
           t \in Thread => pc[t] \notin Signalling,
           ConditionAssumption
    PROVE  \A u \in Thread : pc[u] \notin Signalling
  BY DEF CondInv, LockInv, Inside, Signalling, ConditionAssumption

(* A step that leaves the lists and units alone, made while nobody is in   *)
(* cond_signal, by a thread that is on no list or stays on its list.       *)
LEMMA QuietLists ==
    ASSUME ConditionAssumption, CondInv, NEW t \in Thread,
           UNCHANGED <<waiters, unit, picked>>,
           \A u \in Thread : pc[u] \notin Signalling,
           \A u \in Thread \ {t} : pc'[u] = pc[u] /\ cond'[u] = cond[u],
           pc'[t] \notin Signalling,
           Unsignalled(t) => Unsignalled(t)' /\ cond'[t] = cond[t]
    PROVE  ListInv' /\ PickInv'
<1>1. \A c \in Cond : waiters'[c] = waiters[c]
  OBVIOUS
<1>2. ASSUME NEW c \in Cond, NEW u \in ToSet(waiters[c])
      PROVE  cond'[u] = c /\ Unsignalled(u)'
  <2>1. u \in Thread /\ cond[u] = c /\ Unsignalled(u)
    BY ListedUnsignalled
  <2> QED
    BY <2>1 DEF Unsignalled
<1>3. ListInv'
  BY <1>1, <1>2 DEF CondInv, ListInv
<1>4. PickInv'
  BY DEF PickInv
<1> QED
  BY <1>3, <1>4

LEMMA LockAcquireStep ==
    ASSUME ConditionAssumption, CondInv, NEW t \in Thread, LockAcquire(t)
    PROVE  CondInv'
<1> USE DEF LockAcquire
<1>1. CondTypeOK' /\ LockInv' /\ CallInv'
  BY DEF CondInv, CondTypeOK, LockInv, CallInv, Inside, InWait, Signalling,
     ConditionAssumption
<1>2. \A u \in Thread : pc[u] \notin Signalling
  BY NoSignaller
<1>3. ListInv' /\ PickInv'
  BY <1>2, QuietLists DEF CondInv, CondTypeOK, Unsignalled, Signalling
<1> QED
  BY <1>1, <1>3 DEF CondInv

LEMMA LockReleaseStep ==
    ASSUME ConditionAssumption, CondInv, NEW t \in Thread, LockRelease(t)
    PROVE  CondInv'
<1> USE DEF LockRelease
<1>1. CondTypeOK' /\ LockInv' /\ CallInv'
  BY DEF CondInv, CondTypeOK, LockInv, CallInv, Inside, InWait, Signalling,
     ConditionAssumption
<1>2. \A u \in Thread : pc[u] \notin Signalling
  BY NoSignaller DEF CondInv, LockInv, Inside, Signalling
<1>3. ListInv' /\ PickInv'
  BY <1>2, QuietLists DEF CondInv, CondTypeOK, Unsignalled, Signalling
<1> QED
  BY <1>1, <1>3 DEF CondInv

LEMMA WaitReleaseStep ==
    ASSUME ConditionAssumption, CondInv, NEW t \in Thread, WaitRelease(t)
    PROVE  CondInv'
<1> USE DEF WaitRelease
<1>1. CondTypeOK' /\ LockInv' /\ CallInv'
  BY DEF CondInv, CondTypeOK, LockInv, CallInv, Inside, InWait, Signalling,
     ConditionAssumption
<1>2. \A u \in Thread : pc[u] \notin Signalling
  BY NoSignaller DEF CondInv, LockInv, Inside, Signalling
<1>3. ListInv' /\ PickInv'
  BY <1>2, QuietLists DEF CondInv, CondTypeOK, Unsignalled, Signalling
<1> QED
  BY <1>1, <1>3 DEF CondInv

LEMMA WaitReacquireStep ==
    ASSUME ConditionAssumption, CondInv, NEW t \in Thread, WaitReacquire(t)
    PROVE  CondInv'
<1> USE DEF WaitReacquire
<1>1. CondTypeOK' /\ LockInv' /\ CallInv'
  BY DEF CondInv, CondTypeOK, LockInv, CallInv, Inside, InWait, Signalling,
     ConditionAssumption
<1>2. \A u \in Thread : pc[u] \notin Signalling
  BY NoSignaller
<1>3. ListInv' /\ PickInv'
  BY <1>2, QuietLists DEF CondInv, CondTypeOK, Unsignalled, Signalling
<1> QED
  BY <1>1, <1>3 DEF CondInv

LEMMA CondBroadcastStep ==
    ASSUME ConditionAssumption, CondInv, NEW t \in Thread, NEW c \in Cond,
           CondBroadcast(t, c)
    PROVE  CondInv'
<1> USE DEF CondBroadcast
<1>1. CondTypeOK' /\ LockInv' /\ CallInv'
  BY DEF CondInv, CondTypeOK, LockInv, CallInv, Inside, InWait, Signalling,
     ConditionAssumption
<1>2. \A u \in Thread : pc[u] \notin Signalling
  BY NoSignaller DEF CondInv, LockInv, Inside, Signalling
<1>3. ListInv' /\ PickInv'
  BY <1>2, QuietLists DEF CondInv, CondTypeOK, Unsignalled, Signalling
<1> QED
  BY <1>1, <1>3 DEF CondInv

(* The end of cond_broadcast's loop.                                       *)
LEMMA BroadcastEndStep ==
    ASSUME ConditionAssumption, CondInv, NEW t \in Thread, pc[t] = "loop",
           pc' = [pc EXCEPT ![t] = "in"], cond' = [cond EXCEPT ![t] = None],
           UNCHANGED <<owner, waiters, unit, picked>>
    PROVE  CondInv'
<1>1. CondTypeOK' /\ LockInv' /\ CallInv'
  BY DEF CondInv, CondTypeOK, LockInv, CallInv, Inside, InWait, Signalling,
     ConditionAssumption
<1>2. \A u \in Thread : pc[u] \notin Signalling
  BY NoSignaller DEF CondInv, LockInv, Inside, Signalling
<1>3. ListInv' /\ PickInv'
  BY <1>2, QuietLists DEF CondInv, CondTypeOK, Unsignalled, Signalling
<1> QED
  BY <1>1, <1>3 DEF CondInv


LEMMA CondWaitStep ==
    ASSUME ConditionAssumption, CondInv, NEW t \in Thread, NEW c \in Cond,
           CondWait(t, c)
    PROVE  CondInv'
<1> USE DEF CondWait
<1>1. \A u \in Thread : pc[u] \notin Signalling
  BY NoSignaller DEF CondInv, LockInv, Inside, Signalling
<1>2. waiters \in [Cond -> Seq(Thread)] /\ waiters' = [waiters EXCEPT ![c] = Append(@, t)]
  BY DEF CondInv, CondTypeOK
<1>3. t \notin ToSet(waiters[c])
  BY <1>1, ListedUnsignalled DEF Unsignalled
<1>4. /\ waiters'[c] \in Seq(Thread)
      /\ ToSet(waiters'[c]) = ToSet(waiters[c]) \cup {t}
      /\ NoDuplicates(waiters'[c])
  BY <1>2, <1>3, PushBackFacts DEF CondInv, ListInv
<1>5. CondTypeOK' /\ LockInv' /\ CallInv'
  <2>1. waiters' \in [Cond -> Seq(Thread)]
    BY <1>2, <1>4
  <2> QED
    BY <2>1 DEF CondInv, CondTypeOK, LockInv, CallInv, Inside, InWait,
       Signalling, ConditionAssumption
<1>6. ASSUME NEW d \in Cond, NEW u \in ToSet(waiters'[d])
      PROVE  cond'[u] = d /\ Unsignalled(u)'
  <2>1. CASE u = t
    <3>1. d = c
      BY <1>1, <1>2, <2>1, ListedUnsignalled DEF Unsignalled
    <3> QED
      BY <2>1, <3>1 DEF Unsignalled, CondInv, CondTypeOK
  <2>2. CASE u # t
    <3>1. u \in ToSet(waiters[d])
      BY <1>2, <1>4, <2>2
    <3> QED
      BY <1>1, <2>2, <3>1, ListedUnsignalled DEF Unsignalled
  <2> QED
    BY <2>1, <2>2
<1>7. ListInv'
  BY <1>2, <1>4, <1>6 DEF CondInv, ListInv
<1>8. PickInv'
  BY <1>1 DEF PickInv, Signalling, CondInv, CondTypeOK
<1> QED
  BY <1>5, <1>7, <1>8 DEF CondInv

LEMMA WaitDownStep ==
    ASSUME ConditionAssumption, CondInv, NEW t \in Thread, WaitDown(t)
    PROVE  CondInv'
<1> USE DEF WaitDown
<1>1. CondTypeOK' /\ LockInv' /\ CallInv'
  <2>1. CASE unit[t] = 0
    BY <2>1 DEF CondInv, CondTypeOK, LockInv, CallInv, Inside, InWait, Signalling
  <2>2. CASE unit[t] # 0
    <3>1. unit[t] = 1
      BY <2>2 DEF CondInv, CondTypeOK
    <3>2. /\ pc' = [pc EXCEPT ![t] = "reacquire"]
          /\ unit' = [unit EXCEPT ![t] = 0]
          /\ UNCHANGED <<owner, cond, waiters, picked>>
      BY <3>1
    <3> QED
      BY <3>2 DEF CondInv, CondTypeOK, LockInv, CallInv, Inside, InWait, Signalling
  <2> QED
    BY <2>1, <2>2
<1>2. /\ Unsignalled(t) => Unsignalled(t)'
      /\ Signalled(t) => Signalled(t)'
      /\ pc[t] \notin Signalling /\ pc'[t] \notin Signalling
      /\ UNCHANGED <<waiters, cond, picked>>
      /\ \A u \in Thread \ {t} : pc'[u] = pc[u] /\ unit'[u] = unit[u]
  BY DEF CondInv, CondTypeOK, CallInv, Unsignalled, Signalled, Signalling
<1>3. ASSUME NEW c \in Cond, NEW u \in ToSet(waiters[c])
      PROVE  \/ Unsignalled(u)'
             \/ \E v \in Thread : pc'[v] \in Signalling /\ picked'[v] = u
  <2>1. u \in Thread
    BY ListedIsThread DEF CondInv
  <2> QED
    BY <1>2, <2>1 DEF CondInv, ListInv, Unsignalled
<1>4. ListInv'
  BY <1>2, <1>3 DEF CondInv, ListInv
<1>5. PickInv'
  <2> SUFFICES ASSUME NEW u \in Thread, pc'[u] \in Signalling
               PROVE  picked[u] \in ToSet(waiters[cond[u]]) /\ Signalled(picked[u])'
    BY <1>2 DEF PickInv
  <2>1. pc[u] \in Signalling
    BY <1>2
  <2>2. /\ picked[u] \in ToSet(waiters[cond[u]]) /\ Signalled(picked[u])
        /\ cond[u] \in Cond
    BY <2>1 DEF CondInv, PickInv, CallInv
  <2>3. picked[u] \in Thread
    BY <2>2, ListedIsThread DEF CondInv
  <2> QED
    BY <1>2, <2>2, <2>3 DEF Signalled
<1> QED
  BY <1>1, <1>4, <1>5 DEF CondInv

(* sema_up for the listed thread e, which t signals.                       *)
LEMMA SignalOneStep ==
    ASSUME ConditionAssumption, CondInv, NEW t \in Thread, NEW c \in Cond,
           NEW next \in Signalling, pc[t] \in {"in", "loop"}, SignalOne(t, c, next)
    PROVE  CondInv'
<1>1. PICK e \in ToSet(waiters[c]) :
        /\ unit' = [unit EXCEPT ![e] = @ + 1]
        /\ pc' = [pc EXCEPT ![t] = next,
                            ![e] = IF @ = "parked" THEN "woken" ELSE @]
        /\ cond' = [cond EXCEPT ![t] = c]
        /\ picked' = [picked EXCEPT ![t] = e]
        /\ UNCHANGED <<owner, waiters>>
  BY DEF SignalOne
<1>2. \A u \in Thread : pc[u] \notin Signalling
  BY NoSignaller DEF CondInv, LockInv, Inside, Signalling
<1>3. e \in Thread /\ cond[e] = c /\ Unsignalled(e) /\ e # t
  BY <1>2, ListedUnsignalled DEF Unsignalled
<1>4. pc[e] \in {"down", "parked"}
  BY <1>3 DEF CondInv, LockInv, Unsignalled, Inside
<1>5. CondTypeOK' /\ LockInv' /\ CallInv'
  <2>1. /\ unit' = [unit EXCEPT ![e] = 1]
        /\ pc' = [u \in Thread |->
                     IF u = t THEN next
                     ELSE IF u = e THEN IF pc[e] = "parked" THEN "woken" ELSE "down"
                     ELSE pc[u]]
    <3>1. pc \in [Thread -> InWait \cup Inside \cup {"out"}] /\ unit[e] = 0
      BY <1>3 DEF CondInv, CondTypeOK, Unsignalled
    <3>2. unit' = [unit EXCEPT ![e] = 1]
      BY <1>1, <3>1
    <3>3. /\ pc' \in [Thread -> {next, "woken"} \cup InWait \cup Inside \cup {"out"}]
          /\ pc'[t] = next
          /\ pc'[e] = IF pc[e] = "parked" THEN "woken" ELSE "down"
          /\ \A u \in Thread \ {t, e} : pc'[u] = pc[u]
      BY <1>1, <1>3, <1>4, <3>1
    <3> QED
      BY <1>3, <3>2, <3>3
  <2>2. CondTypeOK'
    BY <1>1, <1>3, <2>1 DEF CondInv, CondTypeOK, InWait, Inside, Signalling
  <2>3. LockInv'
    BY <1>1, <1>3, <1>4, <2>1 DEF CondInv, CondTypeOK, LockInv, Inside, Signalling
  <2>4. CallInv'
    BY <1>1, <1>3, <1>4, <2>1 DEF CondInv, CondTypeOK, CallInv, InWait, Signalling
  <2> QED
    BY <2>2, <2>3, <2>4
<1>6. /\ pc'[t] \in Signalling /\ picked'[t] = e /\ cond'[t] = c
      /\ Signalled(e)'
      /\ \A u \in Thread \ {t} :
            /\ cond'[u] = cond[u]
            /\ u # e => pc'[u] = pc[u] /\ unit'[u] = unit[u]
  BY <1>1, <1>3, <1>4 DEF CondInv, CondTypeOK, Unsignalled, Signalled
<1>7. ASSUME NEW d \in Cond, NEW u \in ToSet(waiters[d])
      PROVE  /\ cond'[u] = d
             /\ Unsignalled(u)' \/ u = e
  <2>1. u \in Thread /\ cond[u] = d /\ Unsignalled(u)
    BY <1>2, ListedUnsignalled
  <2>2. u # t
    BY <2>1 DEF Unsignalled
  <2> QED
    BY <1>6, <2>1, <2>2 DEF Unsignalled
<1>8. ListInv'
  BY <1>1, <1>6, <1>7 DEF CondInv, ListInv
<1>9. PickInv'
  <2> SUFFICES ASSUME NEW u \in Thread, pc'[u] \in Signalling
               PROVE  u = t
    BY <1>1, <1>6 DEF PickInv
  <2> QED
    BY <1>2, <1>3, <1>4, <1>6, <1>1 DEF CondInv, CondTypeOK, Signalling
<1> QED
  BY <1>5, <1>8, <1>9 DEF CondInv

LEMMA CondUnlinkStep ==
    ASSUME ConditionAssumption, CondInv, NEW t \in Thread, CondUnlink(t)
    PROVE  CondInv'
<1> USE DEF CondUnlink
<1>1. pc[t] \in Signalling /\ cond[t] \in Cond /\ picked[t] \in ToSet(waiters[cond[t]])
  BY DEF CondInv, PickInv, CallInv, Signalling
<1>a. PICK c \in Cond : c = cond[t]
  BY <1>1
<1>b. PICK e \in ToSet(waiters[c]) : e = picked[t]
  BY <1>1, <1>a
<1>2. c = cond[t] /\ e = picked[t]
  BY <1>a, <1>b
<1>3. /\ waiters \in [Cond -> Seq(Thread)]
      /\ waiters' = [waiters EXCEPT ![c] = ListRemove(@, e)]
  BY <1>2 DEF CondInv, CondTypeOK
<1>4. /\ waiters'[c] \in Seq(Thread)
      /\ ToSet(waiters'[c]) = ToSet(waiters[c]) \ {e}
      /\ NoDuplicates(waiters'[c])
  BY <1>3, ListRemoveFacts DEF CondInv, ListInv
<1>5. \A u \in Thread : pc[u] \in Signalling => u = t
  BY <1>1 DEF CondInv, LockInv, Inside, Signalling
<1>6. CondTypeOK' /\ LockInv' /\ CallInv'
  <2>1. waiters' \in [Cond -> Seq(Thread)]
    BY <1>3, <1>4
  <2> QED
    BY <2>1 DEF CondInv, CondTypeOK, LockInv, CallInv, Inside, InWait, Signalling,
       ConditionAssumption
<1>7. \A u \in Thread : pc'[u] \notin Signalling
  BY <1>5 DEF CondInv, CondTypeOK, Signalling
<1>8. e \in Thread /\ cond[e] = c
  BY <1>2, ListedIsThread DEF CondInv, ListInv
<1>9. ASSUME NEW d \in Cond, NEW u \in ToSet(waiters'[d])
      PROVE  cond'[u] = d /\ Unsignalled(u)'
  <2>1. u \in ToSet(waiters[d]) /\ u # e
    <3>1. CASE d = c
      BY <1>4, <3>1
    <3>2. CASE d # c
      BY <1>3, <1>8, <3>2 DEF CondInv, ListInv
    <3> QED
      BY <3>1, <3>2
  <2>2. u \in Thread /\ cond[u] = d /\ Unsignalled(u)
    BY <1>2, <1>5, <2>1, ListedIsThread DEF CondInv, ListInv
  <2>3. u # t
    BY <2>2 DEF Unsignalled
  <2> QED
    BY <2>2, <2>3 DEF Unsignalled, CondInv, CondTypeOK
<1>10. ListInv'
  BY <1>3, <1>4, <1>9 DEF CondInv, ListInv
<1>11. PickInv'
  BY <1>7 DEF PickInv
<1> QED
  BY <1>6, <1>10, <1>11 DEF CondInv

LEMMA CondStep ==
    ASSUME ConditionAssumption, CondInv, [Next]_vars
    PROVE  CondInv'
<1>1. CASE UNCHANGED vars
  BY <1>1 DEF vars, CondInv, CondTypeOK, LockInv, CallInv, ListInv, PickInv,
     Unsignalled, Signalled, NoDuplicates
<1>2. CASE Next
  <2>1. PICK t \in Thread :
          \/ LockAcquire(t) \/ LockRelease(t) \/ WaitReacquire(t) \/ KernelStep(t)
          \/ \E c \in Cond : CondWait(t, c) \/ CondSignal(t, c) \/ CondBroadcast(t, c)
    BY <1>2 DEF Next
  <2>2. CASE BroadcastLoop(t)
    <3>1. pc[t] = "loop" /\ cond[t] \in Cond
      BY <2>2 DEF BroadcastLoop, CondInv, CallInv
    <3>2. CASE SignalOne(t, cond[t], "unlinkAll")
      BY <3>1, <3>2, SignalOneStep DEF Signalling
    <3>3. CASE waiters[cond[t]] = <<>> /\ ~SignalOne(t, cond[t], "unlinkAll")
      BY <2>2, <3>3, BroadcastEndStep DEF BroadcastLoop
    <3> QED
      BY <2>2, <3>2, <3>3 DEF BroadcastLoop
  <2>3. CASE \E c \in Cond : CondSignal(t, c)
    BY <2>3, SignalOneStep DEF CondSignal, Signalling
  <2> QED
    BY <2>1, <2>2, <2>3, LockAcquireStep, LockReleaseStep, WaitReleaseStep,
       WaitReacquireStep, WaitDownStep, CondUnlinkStep, CondWaitStep,
       CondBroadcastStep DEF KernelStep
<1> QED
  BY <1>1, <1>2

LEMMA CondInvariant == Spec => []CondInv
<1>1. Init => CondInv
  BY CondInitInv, ConditionAssumption
<1>2. CondInv /\ [Next]_vars => CondInv'
  BY CondStep, ConditionAssumption
<1> QED
  BY <1>1, <1>2, PTL DEF Spec

-----------------------------------------------------------------------------
(* Every variable has a value of its type, and the semaphore on the stack  *)
(* of a waiter never gets a second unit.                                   *)
THEOREM CondTypeCorrect == Spec => []CondTypeOK
<1>1. CondInv => CondTypeOK
  BY DEF CondInv
<1> QED
  BY <1>1, CondInvariant, PTL

(* No list of waiters has an element on the stack of a thread that has     *)
(* left cond_wait, in any interleaving and for any number of threads.      *)
THEOREM CondFramesAlive == Spec => []FramesAlive
<1>1. ASSUME CondInv PROVE FramesAlive
  <2>1. ASSUME NEW c \in Cond, NEW t \in ToSet(waiters[c])
        PROVE  pc[t] \in InWait /\ cond[t] = c
    BY <1>1 DEF CondInv, ListInv, PickInv, Unsignalled, Signalled, InWait
  <2> QED
    BY <1>1, <2>1 DEF FramesAlive, CondInv, ListInv, PickInv, Signalling
<1> QED
  BY <1>1, CondInvariant, PTL

-----------------------------------------------------------------------------
(* What the mapping to the monitor looks at in each thread.                *)
Parking(t) == pc[t] \in {"down", "parked"} /\ unit[t] = 0

LEMMA MonitorSets ==
    /\ \A c \in Cond : Waiting(c) = {t \in Thread : cond[t] = c /\ Parking(t)}
    /\ Notified = {t \in Thread : Signalled(t)}
  BY DEF Waiting, Notified, Parking, Signalled

LEMMA MonitorSame ==
    ASSUME \A t \in Thread : /\ Parking(t)' <=> Parking(t)
                             /\ Parking(t) => cond'[t] = cond[t]
                             /\ Signalled(t)' <=> Signalled(t)
    PROVE  Notified' = Notified /\ \A c \in Cond : Waiting(c)' = Waiting(c)
  BY DEF Waiting, Notified, Parking, Signalled

(* A step that moves nobody in the monitor's sets and leaves the lock.     *)
LEMMA MonitorStutter ==
    ASSUME owner' = owner,
           \A t \in Thread : /\ Parking(t)' <=> Parking(t)
                             /\ Parking(t) => cond'[t] = cond[t]
                             /\ Signalled(t)' <=> Signalled(t)
    PROVE  UNCHANGED Monitor!monitorVars
  BY MonitorSame DEF Monitor!monitorVars

LEMMA MonitorEnter ==
    ASSUME ConditionAssumption, CondInv, NEW t \in Thread, LockAcquire(t)
    PROVE  Monitor!Enter(t)
<1>1. Notified' = Notified /\ \A c \in Cond : Waiting(c)' = Waiting(c)
  BY MonitorSame DEF LockAcquire, CondInv, CondTypeOK, Parking, Signalled
<1>2. t \notin Notified /\ \A c \in Cond : t \notin Waiting(c)
  BY DEF LockAcquire, Waiting, Notified
<1> QED
  BY <1>1, <1>2 DEF LockAcquire, Monitor!Enter, Monitor!Outside, ConditionAssumption

LEMMA MonitorLeave ==
    ASSUME ConditionAssumption, CondInv, NEW t \in Thread, LockRelease(t)
    PROVE  Monitor!Leave(t)
<1>1. Notified' = Notified /\ \A c \in Cond : Waiting(c)' = Waiting(c)
  BY MonitorSame DEF LockRelease, CondInv, CondTypeOK, Parking, Signalled
<1>2. owner = t
  BY DEF LockRelease, CondInv, LockInv, Inside
<1> QED
  BY <1>1, <1>2 DEF LockRelease, Monitor!Leave

LEMMA MonitorReturn ==
    ASSUME ConditionAssumption, CondInv, NEW t \in Thread, WaitReacquire(t)
    PROVE  Monitor!Return(t)
<1>1. \A u \in Thread : /\ Parking(u)' <=> Parking(u)
                        /\ Parking(u) => cond'[u] = cond[u]
                        /\ Signalled(u)' <=> (Signalled(u) /\ u # t)
                        /\ u = t => Signalled(u)
  BY DEF WaitReacquire, CondInv, CondTypeOK, CallInv, Parking, Signalled
<1>2. /\ Notified' = Notified \ {t} /\ t \in Notified
      /\ \A c \in Cond : Waiting(c)' = Waiting(c)
  BY <1>1 DEF Waiting, Notified, Parking, Signalled
<1> QED
  BY <1>2 DEF WaitReacquire, Monitor!Return

LEMMA MonitorWait ==
    ASSUME ConditionAssumption, CondInv, NEW t \in Thread, WaitRelease(t)
    PROVE  cond[t] \in Cond /\ Monitor!Wait(t, cond[t])
<1>1. /\ cond[t] \in Cond /\ owner = t
      /\ unit[t] = 0
  BY DEF WaitRelease, CondInv, CondTypeOK, LockInv, CallInv, Inside, InWait
<1>2. \A u \in Thread : /\ Parking(u)' <=> (Parking(u) \/ u = t)
                        /\ Signalled(u)' <=> Signalled(u)
                        /\ cond'[u] = cond[u]
                        /\ u = t => ~Parking(u)
  BY <1>1 DEF WaitRelease, CondInv, CondTypeOK, Parking, Signalled
<1>3. /\ Notified' = Notified
      /\ \A c \in Cond : Waiting(c)' = IF c = cond[t] THEN Waiting(c) \cup {t}
                                                     ELSE Waiting(c)
  BY <1>1, <1>2 DEF Waiting, Notified, Parking, Signalled
<1> QED
  BY <1>1, <1>3 DEF WaitRelease, Monitor!Wait

LEMMA MonitorSignal ==
    ASSUME ConditionAssumption, CondInv, NEW t \in Thread, NEW c \in Cond,
           NEW next \in Signalling, pc[t] \in {"in", "loop"}, SignalOne(t, c, next)
    PROVE  \E e \in Thread : Monitor!Signal(c, e)
<1>1. PICK e \in ToSet(waiters[c]) :
        /\ unit' = [unit EXCEPT ![e] = @ + 1]
        /\ pc' = [pc EXCEPT ![t] = next,
                            ![e] = IF @ = "parked" THEN "woken" ELSE @]
        /\ cond' = [cond EXCEPT ![t] = c]
        /\ UNCHANGED owner
  BY DEF SignalOne
<1>2. owner = t /\ \A u \in Thread : pc[u] \notin Signalling
  BY NoSignaller DEF CondInv, LockInv, Inside, Signalling
<1>3. e \in Thread /\ cond[e] = c /\ Unsignalled(e) /\ e # t
  BY <1>2, ListedUnsignalled DEF Unsignalled
<1>4. pc[e] \in {"down", "parked"} /\ unit[e] = 0
  BY <1>2, <1>3 DEF CondInv, LockInv, Unsignalled, Inside
<1>5. /\ pc \in [Thread -> InWait \cup Inside \cup {"out"}]
      /\ unit \in [Thread -> 0 .. 1] /\ cond \in [Thread -> Cond \cup {None}]
  BY DEF CondInv, CondTypeOK
<1>6. /\ pc'[t] = next /\ unit'[t] = unit[t]
      /\ pc'[e] \in {"down", "woken"} /\ unit'[e] = 1
      /\ \A u \in Thread \ {t, e} : pc'[u] = pc[u] /\ unit'[u] = unit[u]
      /\ \A u \in Thread \ {t} : cond'[u] = cond[u]
  BY <1>1, <1>3, <1>4, <1>5
<1>7. \A u \in Thread : /\ Parking(u)' <=> (Parking(u) /\ u # e)
                        /\ Signalled(u)' <=> (Signalled(u) \/ u = e)
                        /\ Parking(u) => cond'[u] = cond[u]
  BY <1>3, <1>4, <1>6 DEF Parking, Signalled, Signalling
<1>8. /\ Notified' = Notified \cup {e} /\ e \in Waiting(c)
      /\ \A d \in Cond : Waiting(d)' = IF d = c THEN Waiting(d) \ {e} ELSE Waiting(d)
  BY <1>3, <1>4, <1>7 DEF Waiting, Notified, Parking, Signalled
<1>9. Monitor!Signal(c, e)
  BY <1>1, <1>2, <1>8 DEF Monitor!Signal, ConditionAssumption
<1> QED
  BY <1>3, <1>9

LEMMA MonitorStep ==
    ASSUME ConditionAssumption, CondInv, [Next]_vars
    PROVE  [Monitor!Next]_(Monitor!monitorVars)
<1>1. CASE UNCHANGED vars
  BY <1>1, MonitorStutter DEF vars, Parking, Signalled
<1>2. CASE Next
  <2>1. PICK t \in Thread :
          \/ LockAcquire(t) \/ LockRelease(t) \/ WaitReacquire(t) \/ KernelStep(t)
          \/ \E c \in Cond : CondWait(t, c) \/ CondSignal(t, c) \/ CondBroadcast(t, c)
    BY <1>2 DEF Next
  <2>2. CASE LockAcquire(t)
    BY <2>2, MonitorEnter DEF Monitor!Next
  <2>3. CASE LockRelease(t)
    BY <2>3, MonitorLeave DEF Monitor!Next
  <2>4. CASE WaitReacquire(t)
    BY <2>4, MonitorReturn DEF Monitor!Next
  <2>5. CASE WaitRelease(t)
    BY <2>5, MonitorWait DEF Monitor!Next
  <2>6. CASE WaitDown(t)
    BY <2>6, MonitorStutter DEF WaitDown, CondInv, CondTypeOK, CallInv,
       Parking, Signalled
  <2>7. CASE BroadcastLoop(t)
    <3>1. pc[t] = "loop" /\ cond[t] \in Cond
      BY <2>7 DEF BroadcastLoop, CondInv, CallInv
    <3>2. CASE SignalOne(t, cond[t], "unlinkAll")
      BY <3>1, <3>2, MonitorSignal DEF Signalling, Monitor!Next
    <3>3. CASE ~SignalOne(t, cond[t], "unlinkAll")
      BY <2>7, <3>3, MonitorStutter DEF BroadcastLoop, CondInv, CondTypeOK,
         Parking, Signalled
    <3> QED
      BY <3>2, <3>3
  <2>8. CASE CondUnlink(t)
    BY <2>8, MonitorStutter DEF CondUnlink, CondInv, CondTypeOK, Parking, Signalled
  <2>9. CASE \E c \in Cond : CondWait(t, c)
    BY <2>9, MonitorStutter DEF CondWait, CondInv, CondTypeOK, CallInv,
       Parking, Signalled
  <2>10. CASE \E c \in Cond : CondSignal(t, c)
    BY <2>10, MonitorSignal DEF CondSignal, Signalling, Monitor!Next
  <2>11. CASE \E c \in Cond : CondBroadcast(t, c)
    BY <2>11, MonitorStutter DEF CondBroadcast, CondInv, CondTypeOK,
       Parking, Signalled
  <2> QED
    BY <2>1, <2>2, <2>3, <2>4, <2>5, <2>6, <2>7, <2>8, <2>9, <2>10, <2>11
       DEF KernelStep
<1> QED
  BY <1>1, <1>2

(* The condition variables implement the monitor: the lock is given back   *)
(* and the wait begins in one step, a signal is never lost on a thread on  *)
(* its way to sema_down, and cond_wait returns only with the lock.         *)
THEOREM ConditionImplementsMonitor == Spec => ImplementsMonitor
<1>1. Init => Monitor!Init
  BY DEF Init, Monitor!Init, Waiting, Notified
<1>2. CondInv /\ [Next]_vars => [Monitor!Next]_(Monitor!monitorVars)
  BY MonitorStep, ConditionAssumption
<1> QED
  BY <1>1, <1>2, CondInvariant, PTL DEF Spec, ImplementsMonitor, Monitor!Spec
=============================================================================
