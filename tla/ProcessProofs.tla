---------------------------- MODULE ProcessProofs ----------------------------
(***************************************************************************)
(* Proofs about Process: a struct thread is kept as long as its parent     *)
(* needs it, exec and wait return what became of the child, and nobody     *)
(* waits in vain.  The invariants rest on one inductive invariant, which   *)
(* ties a blocked process to its child by the parent pointer: only the     *)
(* process in the page that pointer names ever frees the child, even       *)
(* though pages and so parent pointers are used again.                     *)
(***************************************************************************)
EXTENDS Process, KernelListProofs, TLAPS

ExitCode == Code \cup {0, -1}

(* The types, without the sequence.                                        *)
FieldsOK ==
    /\ thread \in [Proc -> ThreadType]
    /\ pc \in [Proc -> PC]
    /\ child \in [Proc -> Proc \cup {None}]
    /\ target \in [Proc -> 0..MaxTid]
    /\ nextTid \in 2..(MaxTid + 1)
    /\ loaded \subseteq Tid /\ reaped \subseteq Tid
    /\ ended \in [Tid -> ExitCode \cup {None}]

CallsOK ==
    /\ ret \in [Proc -> Code \cup Tid \cup {None, 0, -1}]
    /\ cursor \in [Proc -> Proc \cup {None}]
    /\ fileLock \in Proc \cup {None}
    /\ machine \in {"up", "off", "panic"}

DeadListOK ==
    /\ deadList \in Seq(Proc)
    /\ NoDuplicates(deadList) /\ ToSet(deadList) = {p \in Proc : pc[p] = "dead"}

(* The main thread is never loaded and never exits.                        *)
MainLives == pc[Main] \in {"run", "exec", "loading", "executed", "waiting"}

(* A tid names one struct thread, and was given by allocate_tid.           *)
TidsDiffer ==
    /\ \A p \in Proc : pc[p] # "free" => thread[p].tid \in Tid /\ thread[p].tid < nextTid
    /\ \A p, q \in Proc :
          pc[p] # "free" /\ pc[q] # "free" /\ thread[p].tid = thread[q].tid => p = q

Blocked == {"loading", "waiting"}

(* A blocked process and its child know each other.                        *)
ChildKnown ==
    \A p \in Proc : pc[p] \in Blocked =>
        /\ child[p] \in Proc
        /\ pc[child[p]] # "free"
        /\ thread[child[p]].parent = p
        /\ thread[child[p]].tid = target[p]

(* How far a process is, its semaphores say.                               *)
SemasSay ==
    \A p \in Proc :
        /\ thread[p].wait_sema = IF pc[p] = "dead" THEN 1 ELSE 0
        /\ pc[p] = "start" => thread[p].load_sema = 0
        /\ pc[p] = "loading" /\ pc[child[p]] # "start" => thread[child[p]].load_sema = 1

(* load_status and exit_code agree with the history.                       *)
LoadStatusOK ==
    /\ \A t \in loaded : t < nextTid
    /\ \A p \in Proc : pc[p] # "free" =>
          /\ thread[p].load_status <=> thread[p].tid \in loaded
          /\ pc[p] = "start" => ~thread[p].load_status

ExitCodeOK ==
    \A p \in Proc : pc[p] \in {"exiting", "reaping", "dead"} =>
        ended[thread[p].tid] = thread[p].exit_code

(* A process whose exit code was returned has no struct thread any more.   *)
ReapedGone ==
    /\ \A t \in reaped : t < nextTid
    /\ \A p \in Proc : pc[p] # "free" => thread[p].tid \notin reaped

ProcInv ==
    /\ FieldsOK /\ DeadListOK /\ MainLives /\ TidsDiffer
    /\ ChildKnown /\ SemasSay /\ LoadStatusOK /\ ExitCodeOK /\ ReapedGone

-----------------------------------------------------------------------------
(* What the actions do to the state that ProcInv is about.                 *)
Moves(p, l) ==
    /\ \/ pc[p] \in {"run", "exec", "executed"} /\ l \in {"run", "exec", "executed"}
       \/ pc[p] = "exiting" /\ l = "reaping"
    /\ pc' = [pc EXCEPT ![p] = l]
    /\ UNCHANGED <<thread, callVars, deadList, nextTid, history>>

Exits(p, code) ==
    /\ p # Main /\ pc[p] \in {"run", "exec", "unloaded", "reaping"}
    /\ HandleExit(p, code)
    /\ UNCHANGED <<callVars, deadList, nextTid, loaded, reaped>>

Waits(p, q) ==
    /\ pc[p] \in {"run", "executed"}
    /\ pc[q] # "free" /\ thread[q].parent = p
    /\ child' = [child EXCEPT ![p] = q]
    /\ target' = [target EXCEPT ![p] = thread[q].tid]
    /\ pc' = [pc EXCEPT ![p] = "waiting"]
    /\ UNCHANGED <<thread, deadList, nextTid, history>>

Reaps(p, q) ==
    /\ pc[p] = "reaping" /\ pc[q] = "dead" /\ thread[q].parent = p
    /\ Freed(q)
    /\ pc' = [pc EXCEPT ![q] = "free"]
    /\ UNCHANGED <<callVars, nextTid, history>>

Effect(p) ==
    \/ \E l \in PC : Moves(p, l)
    \/ ThreadCreate(p) \/ ExecDone(p) \/ StartProcess(p) \/ WaitDone(p) \/ ThreadDies(p)
    \/ \E code \in ExitCode : Exits(p, code)
    \/ \E q \in Proc : Waits(p, q) \/ Reaps(p, q)

Still == UNCHANGED <<thread, pc, callVars, deadList, nextTid, history>>

LEMMA StepHasEffect ==
    ASSUME ProcessAssumption, FieldsOK, CallsOK, MainLives, [Next]_vars
    PROVE  Still \/ \E p \in Proc : Effect(p)
<1> SUFFICES ASSUME ~Still
             PROVE  \E p \in Proc : Effect(p)
  OBVIOUS
<1> USE DEF Still
<1>1. ~UNCHANGED vars /\ ~MainEnds
  BY DEF vars, MainEnds, callVars, history
<1>2. PICK p \in Proc : UserCall(p) \/ KernelStep(p)
  BY <1>1 DEF Next
<1> SUFFICES Effect(p)
  OBVIOUS
<1>3. CASE Exec(p)
  <2>1. Moves(p, "exec")
    BY <1>3 DEF Exec, At, Moves, callVars, history
  <2> QED
    BY <2>1 DEF Effect, PC
<1>4. CASE ExecFails(p)
  <2>1. Moves(p, IF p = Main THEN "executed" ELSE "run")
    BY <1>4 DEF ExecFails, ExecReturns, At, Moves, callVars, history
  <2> QED
    BY <2>1 DEF Effect, PC
<1>5. CASE Exit(p)
  <2>1. PICK code \in Code \cup {-1} : HandleExit(p, code)
    BY <1>5 DEF Exit
  <2>2. Exits(p, code)
    BY <1>5, <2>1 DEF Exit, At, Exits
  <2> QED
    BY <2>2 DEF Effect, ExitCode
<1>6. CASE Halt(p)
  <2>1. Exits(p, thread[p].exit_code) /\ thread[p].exit_code \in ExitCode
    BY <1>6 DEF Halt, At, Exits, FieldsOK, ThreadType, ExitCode
  <2> QED
    BY <2>1 DEF Effect
<1>7. CASE ExecBadPointer(p)
  <2>1. Exits(p, -1)
    BY <1>7 DEF ExecBadPointer, At, Exits
  <2> QED
    BY <2>1 DEF Effect, ExitCode
<1>8. CASE LoadFailed(p)
  <2>1. Exits(p, -1)
    BY <1>8 DEF LoadFailed, At, Exits, MainLives
  <2> QED
    BY <2>1 DEF Effect, ExitCode
<1>9. CASE \E t \in Tid \cup {ret[p]} : ProcessWait(p, t)
  <2>1. PICK t \in Tid \cup {ret[p]} : ProcessWait(p, t)
    BY <1>9
  <2>2. pc[p] \in {"run", "executed"}
    BY <2>1 DEF ProcessWait, At
  <2>3. ASSUME NEW q \in Proc, pc[q] # "free", thread[q].tid = t, thread[q].parent = p,
               child' = [child EXCEPT ![p] = q],
               target' = [target EXCEPT ![p] = t],
               pc' = [pc EXCEPT ![p] = "waiting"]
        PROVE  Effect(p)
    <3>1. Waits(p, q)
      BY <2>1, <2>2, <2>3 DEF ProcessWait, Waits
    <3> QED
      BY <3>1 DEF Effect
  <2>4. ASSUME pc' = [pc EXCEPT ![p] = "run"], UNCHANGED callVars
        PROVE  Effect(p)
    <3>1. Moves(p, "run")
      BY <2>1, <2>2, <2>4 DEF ProcessWait, Moves
    <3> QED
      BY <3>1 DEF Effect, PC
  <2> QED
    BY <2>1, <2>3, <2>4 DEF ProcessWait
<1>10. CASE ThreadExit(p)
  <2>1. Moves(p, "reaping")
    BY <1>10 DEF ThreadExit, At, Moves
  <2> QED
    BY <2>1 DEF Effect, PC
<1>11. CASE ReapChild(p)
  <2>1. Reaps(p, cursor[p]) /\ cursor[p] \in Proc
    BY <1>11 DEF ReapChild, At, Reaps, Freed, CallsOK, callVars, history
  <2> QED
    BY <2>1 DEF Effect
<1>12. CASE ReapFreed(p)
  <2>1. Exits(p, -1)
    BY <1>12 DEF ReapFreed, At, Exits, MainLives, callVars, history
  <2> QED
    BY <2>1 DEF Effect, ExitCode
<1>13. CASE ThreadCreate(p) \/ ExecDone(p) \/ StartProcess(p) \/ WaitDone(p) \/ ThreadDies(p)
  BY <1>13 DEF Effect
<1> QED
  BY <1>2, <1>3, <1>4, <1>5, <1>6, <1>7, <1>8, <1>9, <1>10, <1>11, <1>12, <1>13
  DEF UserCall, KernelStep

LEMMA NewThreadType ==
    ASSUME ProcessAssumption, NEW t \in 0..MaxTid, NEW p \in Proc \cup {None}
    PROVE  NewThread(t, p) \in ThreadType
  BY DEF NewThread, ThreadType

LEMMA FilledType ==
    ASSUME ProcessAssumption
    PROVE  Filled \in ThreadType
<1>1. 0 \in 0..MaxTid
  BY DEF ProcessAssumption
<1> QED
  BY <1>1, NewThreadType DEF Filled

LEMMA FieldsStep ==
    ASSUME ProcessAssumption, ProcInv, NEW p \in Proc, Effect(p)
    PROVE  FieldsOK'
<1> USE DEF ProcInv, FieldsOK
<1>0. /\ PC = PC' /\ MaxTid \in Nat \ {0}
      /\ \A q \in Proc : pc[q] # "free" => thread[q].tid \in Tid
  BY DEF ProcessAssumption, TidsDiffer
<1>1. ASSUME NEW l \in PC, Moves(p, l)
      PROVE  FieldsOK'
  BY <1>1 DEF Moves, callVars, history
<1>2. CASE ThreadCreate(p)
  <2>1. PICK q \in Page :
           /\ thread' = [thread EXCEPT ![q] = NewThread(nextTid, p)]
           /\ pc' = [pc EXCEPT ![q] = "start", ![p] = "loading"]
           /\ child' = [child EXCEPT ![p] = q]
    BY <1>2 DEF ThreadCreate
  <2>2. nextTid \in 0..MaxTid /\ nextTid + 1 \in 2..(MaxTid + 1)
    BY <1>0, <1>2 DEF ThreadCreate
  <2>3. NewThread(nextTid, p) \in ThreadType
    BY <2>2, NewThreadType
  <2> QED
    BY <1>2, <2>1, <2>2, <2>3 DEF ThreadCreate, history, PC, Proc
<1>3. CASE ExecDone(p)
  <2>1. child[p] \in Proc
    BY <1>3 DEF ExecDone, At, ChildKnown, Blocked
  <2>2. thread' \in [Proc -> ThreadType]
    BY <1>3, <2>1 DEF ExecDone, ThreadType
  <2> QED
    BY <1>0, <1>3, <2>2 DEF ExecDone, ExecReturns, history, PC
<1>4. CASE StartProcess(p)
  <2>1. PICK success \in BOOLEAN :
           /\ LoadSemaUp(p, success)
           /\ pc' = [pc EXCEPT ![p] = IF success THEN "run" ELSE "unloaded"]
           /\ loaded' = IF success THEN loaded \cup {thread[p].tid} ELSE loaded
    BY <1>4 DEF StartProcess
  <2>2. thread[p].load_sema = 0 /\ thread[p].tid \in Tid
    BY <1>0, <1>4 DEF StartProcess, At, SemasSay
  <2>3. thread' \in [Proc -> ThreadType]
    BY <2>1, <2>2 DEF LoadSemaUp, ThreadType
  <2> QED
    BY <1>4, <2>1, <2>2, <2>3 DEF StartProcess, callVars, PC
<1>5. CASE WaitDone(p)
  <2>1. /\ child[p] \in Proc /\ target[p] \in Tid
        /\ thread' = [thread EXCEPT ![child[p]] = Filled]
    BY <1>0, <1>5 DEF WaitDone, At, ChildKnown, Blocked, Freed
  <2> QED
    BY <1>0, <1>5, <2>1, FilledType DEF WaitDone, PC
<1>6. CASE ThreadDies(p)
  <2>1. thread[p].wait_sema = 0
    BY <1>6 DEF ThreadDies, At, SemasSay
  <2>2. thread' \in [Proc -> ThreadType]
    <3>1. [thread[p] EXCEPT !.wait_sema = 1] \in ThreadType
      BY DEF ThreadType
    <3>2. thread' = [thread EXCEPT ![p] = [thread[p] EXCEPT !.wait_sema = 1]]
      BY <1>6, <2>1 DEF ThreadDies
    <3> QED
      BY <3>1, <3>2
  <2>3. pc' \in [Proc -> PC]
    BY <1>6 DEF ThreadDies, PC
  <2>4. UNCHANGED <<child, target, nextTid, loaded, ended, reaped>>
    BY <1>6 DEF ThreadDies, callVars, history
  <2> QED
    BY <2>2, <2>3, <2>4
<1>7. ASSUME NEW code \in ExitCode, Exits(p, code)
      PROVE  FieldsOK'
  <2>1. thread' \in [Proc -> ThreadType]
    BY <1>7 DEF Exits, HandleExit, ThreadType, ExitCode
  <2>2. thread[p].tid \in Tid
    BY <1>0, <1>7 DEF Exits
  <2> QED
    BY <1>7, <2>1, <2>2 DEF Exits, HandleExit, PC, callVars
<1>8. ASSUME NEW q \in Proc, Waits(p, q)
      PROVE  FieldsOK'
  <2>1. thread[q].tid \in 0..MaxTid
    BY <1>0, <1>8 DEF ThreadType
  <2> QED
    BY <1>8, <2>1 DEF Waits, PC, history
<1>9. ASSUME NEW q \in Proc, Reaps(p, q)
      PROVE  FieldsOK'
  BY <1>9, FilledType DEF Reaps, Freed, PC, callVars, history
<1> QED
  BY <1>1, <1>2, <1>3, <1>4, <1>5, <1>6, <1>7, <1>8, <1>9 DEF Effect

LEMMA DeadListStep ==
    ASSUME ProcessAssumption, ProcInv, NEW p \in Proc, Effect(p)
    PROVE  DeadListOK'
<1> USE DEF ProcInv, FieldsOK, DeadListOK
<1>1. ASSUME NEW q \in Proc, pc[q] = "dead", deadList' = ListRemove(deadList, q),
             \A r \in Proc : pc'[r] = "dead" <=> pc[r] = "dead" /\ r # q
      PROVE  DeadListOK'
  <2>1. /\ ListRemove(deadList, q) \in Seq(Proc)
        /\ ToSet(ListRemove(deadList, q)) = ToSet(deadList) \ {q}
        /\ NoDuplicates(ListRemove(deadList, q))
    BY <1>1, ListRemoveFacts
  <2> QED
    BY <1>1, <2>1
<1>2. CASE ThreadDies(p)
  <2>1. p \notin ToSet(deadList)
    BY <1>2 DEF ThreadDies, At
  <2>2. /\ Append(deadList, p) \in Seq(Proc)
        /\ ToSet(Append(deadList, p)) = ToSet(deadList) \cup {p}
        /\ NoDuplicates(Append(deadList, p))
    BY <2>1, PushBackFacts
  <2>3. \A r \in Proc : pc'[r] = "dead" <=> pc[r] = "dead" \/ r = p
    BY <1>2 DEF ThreadDies
  <2> QED
    BY <1>2, <2>2, <2>3 DEF ThreadDies
<1>3. CASE WaitDone(p)
  <2>1. child[p] \in Proc /\ pc[child[p]] = "dead" /\ child[p] # p
    BY <1>3 DEF WaitDone, At, ChildKnown, Blocked, SemasSay
  <2> QED
    BY <1>1, <1>3, <2>1 DEF WaitDone, Freed, At
<1>4. ASSUME NEW q \in Proc, Reaps(p, q)
      PROVE  DeadListOK'
  BY <1>1, <1>4 DEF Reaps, Freed
<1>5. ASSUME deadList' = deadList, \A r \in Proc : pc'[r] = "dead" <=> pc[r] = "dead"
      PROVE  DeadListOK'
  BY <1>5
<1>6. ASSUME NEW l \in PC, Moves(p, l)
      PROVE  DeadListOK'
  BY <1>5, <1>6 DEF Moves
<1>7. CASE ThreadCreate(p)
  BY <1>5, <1>7 DEF ThreadCreate, At, Proc
<1>8. CASE ExecDone(p)
  BY <1>5, <1>8 DEF ExecDone, ExecReturns, At
<1>9. CASE StartProcess(p)
  BY <1>5, <1>9 DEF StartProcess, At
<1>10. ASSUME NEW code \in ExitCode, Exits(p, code)
       PROVE  DeadListOK'
  BY <1>5, <1>10 DEF Exits, HandleExit
<1>11. ASSUME NEW q \in Proc, Waits(p, q)
       PROVE  DeadListOK'
  BY <1>5, <1>11 DEF Waits
<1> QED
  BY <1>2, <1>3, <1>4, <1>6, <1>7, <1>8, <1>9, <1>10, <1>11 DEF Effect

LEMMA MainLivesStep ==
    ASSUME ProcessAssumption, ProcInv, NEW p \in Proc, Effect(p)
    PROVE  MainLives'
<1> USE DEF ProcInv, FieldsOK, MainLives
<1>0. Main \in Proc /\ Main \notin Page
  BY DEF Proc, ProcessAssumption
<1>1. ASSUME NEW l \in PC, Moves(p, l)
      PROVE  MainLives'
  BY <1>0, <1>1 DEF Moves
<1>2. CASE ThreadCreate(p)
  BY <1>0, <1>2 DEF ThreadCreate
<1>3. CASE ExecDone(p)
  BY <1>0, <1>3 DEF ExecDone, ExecReturns
<1>4. CASE StartProcess(p)
  BY <1>0, <1>4 DEF StartProcess, At
<1>5. CASE WaitDone(p)
  <2>1. child[p] \in Proc /\ pc[child[p]] = "dead"
    BY <1>5 DEF WaitDone, At, ChildKnown, Blocked, SemasSay
  <2> QED
    BY <1>0, <1>5, <2>1 DEF WaitDone
<1>6. CASE ThreadDies(p)
  BY <1>0, <1>6 DEF ThreadDies, At
<1>7. ASSUME NEW code \in ExitCode, Exits(p, code)
      PROVE  MainLives'
  BY <1>0, <1>7 DEF Exits, HandleExit
<1>8. ASSUME NEW q \in Proc, Waits(p, q)
      PROVE  MainLives'
  BY <1>0, <1>8 DEF Waits
<1>9. ASSUME NEW q \in Proc, Reaps(p, q)
      PROVE  MainLives'
  BY <1>0, <1>9 DEF Reaps
<1> QED
  BY <1>1, <1>2, <1>3, <1>4, <1>5, <1>6, <1>7, <1>8, <1>9 DEF Effect

(* Every effect but thread_create keeps the tids of the struct threads and *)
(* takes none into use.                                                    *)
LEMMA TidsStay ==
    ASSUME ProcessAssumption, ProcInv, NEW p \in Proc, Effect(p), ~ThreadCreate(p)
    PROVE  /\ nextTid' = nextTid
           /\ \A q \in Proc : pc'[q] # "free" =>
                 pc[q] # "free" /\ thread'[q].tid = thread[q].tid
                 /\ thread'[q].parent = thread[q].parent
<1> USE DEF ProcInv, FieldsOK
<1> DEFINE Goal == /\ nextTid' = nextTid
                   /\ \A q \in Proc : pc'[q] # "free" =>
                         pc[q] # "free" /\ thread'[q].tid = thread[q].tid
                         /\ thread'[q].parent = thread[q].parent
<1>1. ASSUME NEW l \in PC, Moves(p, l)
      PROVE  Goal
  BY <1>1 DEF Moves
<1>2. CASE ExecDone(p)
  <2>1. child[p] \in Proc
    BY <1>2 DEF ExecDone, At, ChildKnown, Blocked
  <2> QED
    BY <1>2, <2>1 DEF ExecDone, ExecReturns, At, ThreadType
<1>3. CASE StartProcess(p)
  BY <1>3 DEF StartProcess, LoadSemaUp, At, ThreadType
<1>4. CASE WaitDone(p)
  <2>1. child[p] \in Proc
    BY <1>4 DEF WaitDone, At, ChildKnown, Blocked
  <2> QED
    BY <1>4, <2>1 DEF WaitDone, At, Freed
<1>5. CASE ThreadDies(p)
  BY <1>5 DEF ThreadDies, At, ThreadType
<1>6. ASSUME NEW code \in ExitCode, Exits(p, code)
      PROVE  Goal
  BY <1>6 DEF Exits, HandleExit, ThreadType
<1>7. ASSUME NEW q \in Proc, Waits(p, q)
      PROVE  Goal
  BY <1>7 DEF Waits
<1>8. ASSUME NEW q \in Proc, Reaps(p, q)
      PROVE  Goal
  BY <1>8 DEF Reaps, Freed
<1> QED
  BY <1>1, <1>2, <1>3, <1>4, <1>5, <1>6, <1>7, <1>8 DEF Effect

(* What thread_create adds: the struct thread in a free page q.            *)
Creates(p, q) ==
    /\ pc[p] = "exec" /\ nextTid <= MaxTid /\ p # q
    /\ q \in Page /\ pc[q] = "free"
    /\ thread' = [thread EXCEPT ![q] = NewThread(nextTid, p)]
    /\ pc' = [pc EXCEPT ![q] = "start", ![p] = "loading"]
    /\ child' = [child EXCEPT ![p] = q]
    /\ target' = [target EXCEPT ![p] = nextTid]
    /\ nextTid' = nextTid + 1
    /\ UNCHANGED <<deadList, history>>

LEMMA ThreadCreated ==
    ASSUME NEW p \in Proc, ThreadCreate(p)
    PROVE  \E q \in Proc : Creates(p, q)
  BY DEF ThreadCreate, At, Creates, Proc

LEMMA TidsStep ==
    ASSUME ProcessAssumption, ProcInv, NEW p \in Proc, Effect(p)
    PROVE  TidsDiffer'
<1> USE DEF ProcInv, FieldsOK, TidsDiffer
<1>1. CASE ThreadCreate(p)
  <2>1. PICK q \in Proc : Creates(p, q)
    BY <1>1, ThreadCreated
  <2>2. /\ thread'[q].tid = nextTid /\ nextTid \in Tid
        /\ \A r \in Proc : r # q => thread'[r] = thread[r]
    BY <2>1 DEF Creates, NewThread, Tid
  <2>3. \A r \in Proc : r # q /\ pc'[r] # "free" =>
           pc[r] # "free" /\ thread[r].tid \in Tid /\ thread[r].tid < nextTid
    BY <2>1 DEF Creates
  <2>4. nextTid' = nextTid + 1 /\ nextTid \in Nat /\ Tid \subseteq Nat
    BY <2>1 DEF Creates, Tid
  <2>5. ASSUME NEW r \in Proc, pc'[r] # "free"
        PROVE  thread'[r].tid \in Tid /\ thread'[r].tid < nextTid'
    <3>1. CASE r = q
      BY <3>1, <2>2, <2>4
    <3>2. CASE r # q
      <4>1. thread'[r].tid \in Tid /\ thread'[r].tid < nextTid
        BY <3>2, <2>2, <2>3, <2>5
      <4>2. thread'[r].tid \in Nat
        BY <4>1, <2>4
      <4>3. \A i, j \in Nat : i < j => i < j + 1
        OBVIOUS
      <4> QED
        BY <4>1, <4>2, <4>3, <2>4
    <3> QED
      BY <3>1, <3>2
  <2>6. ASSUME NEW r \in Proc, NEW s \in Proc, pc'[r] # "free", pc'[s] # "free",
               thread'[r].tid = thread'[s].tid
        PROVE  r = s
    <3>1. ASSUME NEW z \in Proc, z # q, pc'[z] # "free"
          PROVE  thread'[z].tid # nextTid
      <4>1. thread'[z].tid \in Nat /\ thread'[z].tid < nextTid
        BY <3>1, <2>2, <2>3, <2>4
      <4> QED
        BY <4>1, <2>4
    <3>2. CASE r = q \/ s = q
      BY <3>1, <3>2, <2>2, <2>6
    <3>3. CASE r # q /\ s # q
      BY <3>3, <2>2, <2>3, <2>6
    <3> QED
      BY <3>2, <3>3
  <2> QED
    BY <2>5, <2>6
<1>2. CASE ~ThreadCreate(p)
  <2>1. /\ nextTid' = nextTid
        /\ \A q \in Proc : pc'[q] # "free" =>
              pc[q] # "free" /\ thread'[q].tid = thread[q].tid
    BY <1>2, TidsStay
  <2> QED
    BY <2>1
<1> QED
  BY <1>1, <1>2

LEMMA ChildKnownStep ==
    ASSUME ProcessAssumption, ProcInv, NEW p \in Proc, Effect(p)
    PROVE  ChildKnown'
<1> USE DEF ProcInv, FieldsOK, Blocked
<1>1. SUFFICES ASSUME NEW r \in Proc, pc'[r] \in Blocked
               PROVE  /\ child'[r] \in Proc
                      /\ pc'[child'[r]] # "free"
                      /\ thread'[child'[r]].parent = r
                      /\ thread'[child'[r]].tid = target'[r]
  BY DEF ChildKnown
<1> DEFINE Known == /\ child'[r] \in Proc
                    /\ pc'[child'[r]] # "free"
                    /\ thread'[child'[r]].parent = r
                    /\ thread'[child'[r]].tid = target'[r]
<1> SUFFICES Known
  OBVIOUS
(* A process that was blocked before, and whose child was not freed.       *)
<1>2. ASSUME pc[r] \in Blocked, child'[r] = child[r], target'[r] = target[r],
             pc'[child[r]] # "free", ~ThreadCreate(p)
      PROVE  Known
  BY <1>2, TidsStay DEF ChildKnown
<1>3. CASE ThreadCreate(p)
  <2>1. PICK q \in Proc : Creates(p, q)
    BY <1>3, ThreadCreated
  <2>2. CASE r = p
    BY <2>1, <2>2 DEF Creates, NewThread
  <2>3. CASE r # p
    <3>1. r # q /\ pc[r] \in Blocked
      BY <1>1, <2>1, <2>3 DEF Creates
    <3>2. child[r] # q
      BY <2>1, <3>1 DEF ChildKnown, Creates
    <3> QED
      BY <2>1, <2>3, <3>1, <3>2 DEF ChildKnown, Creates
  <2> QED
    BY <2>2, <2>3
<1>4. ASSUME NEW l \in PC, Moves(p, l), ~ThreadCreate(p)
      PROVE  Known
  BY <1>1, <1>2, <1>4 DEF Moves, callVars, ChildKnown
<1>5. CASE ExecDone(p) /\ ~ThreadCreate(p)
  <2>1. r # p /\ pc[r] \in Blocked
    BY <1>1, <1>5 DEF ExecDone, ExecReturns
  <2> QED
    BY <1>2, <1>5, <2>1 DEF ExecDone, ExecReturns, ChildKnown
<1>6. CASE StartProcess(p) /\ ~ThreadCreate(p)
  BY <1>1, <1>2, <1>6 DEF StartProcess, callVars, ChildKnown
<1>7. CASE WaitDone(p) /\ ~ThreadCreate(p)
  <2>1. child[p] \in Proc /\ thread[child[p]].parent = p /\ pc[p] = "waiting"
    BY <1>7 DEF WaitDone, At, ChildKnown
  <2>2. r # p /\ pc[r] \in Blocked
    BY <1>1, <1>7, <2>1 DEF WaitDone
  <2>3. child[r] # child[p]
    BY <2>1, <2>2 DEF ChildKnown
  <2> QED
    BY <1>2, <1>7, <2>1, <2>2, <2>3 DEF WaitDone, ChildKnown
<1>8. CASE ThreadDies(p) /\ ~ThreadCreate(p)
  BY <1>1, <1>2, <1>8 DEF ThreadDies, callVars, ChildKnown
<1>9. ASSUME NEW code \in ExitCode, Exits(p, code), ~ThreadCreate(p)
      PROVE  Known
  BY <1>1, <1>2, <1>9 DEF Exits, HandleExit, callVars, ChildKnown
<1>10. ASSUME NEW q \in Proc, Waits(p, q), ~ThreadCreate(p)
       PROVE  Known
  <2>1. CASE r = p
    BY <1>10, <2>1 DEF Waits
  <2>2. CASE r # p
    BY <1>1, <1>2, <1>10, <2>2 DEF Waits, ChildKnown
  <2> QED
    BY <2>1, <2>2
<1>11. ASSUME NEW q \in Proc, Reaps(p, q), ~ThreadCreate(p)
       PROVE  Known
  <2>1. r # p /\ pc[r] \in Blocked
    BY <1>1, <1>11 DEF Reaps
  <2>2. child[r] # q
    BY <1>11, <2>1 DEF ChildKnown, Reaps
  <2> QED
    BY <1>2, <1>11, <2>1, <2>2 DEF Reaps, callVars, ChildKnown
<1> HIDE DEF Known
<1> QED
  BY <1>3, <1>4, <1>5, <1>6, <1>7, <1>8, <1>9, <1>10, <1>11 DEF Effect

LEMMA SemasStep ==
    ASSUME ProcessAssumption, ProcInv, NEW p \in Proc, Effect(p), ChildKnown'
    PROVE  SemasSay'
<1> USE DEF ProcInv, FieldsOK
<1> DEFINE Says(r) ==
        /\ thread[r].wait_sema = IF pc[r] = "dead" THEN 1 ELSE 0
        /\ pc[r] = "start" => thread[r].load_sema = 0
        /\ pc[r] = "loading" /\ pc[child[r]] # "start" => thread[child[r]].load_sema = 1
<1>0. /\ \A r \in Proc : Says(r)
      /\ \A r \in Proc : pc[r] = "loading" =>
            child[r] \in Proc /\ pc[child[r]] # "free" /\ thread[child[r]].parent = r
  BY DEF SemasSay, ChildKnown, Blocked
<1> SUFFICES ASSUME NEW r \in Proc
             PROVE  Says(r)'
  BY DEF SemasSay
<1>1. ASSUME NEW l \in PC, Moves(p, l)
      PROVE  Says(r)'
  BY <1>0, <1>1 DEF Moves, callVars
<1>2. CASE ThreadCreate(p)
  <2>1. PICK q \in Proc : Creates(p, q)
    BY <1>2, ThreadCreated
  <2> QED
    BY <1>0, <2>1 DEF Creates, NewThread
<1>3. CASE ExecDone(p)
  <2>1. child[p] \in Proc /\ pc[p] = "loading" /\ thread[child[p]].parent = p
    BY <1>0, <1>3 DEF ExecDone, At
  <2>2. thread[child[p]].load_sema # 0
    BY <1>3 DEF ExecDone
  <2>3. pc[child[p]] # "start"
    BY <1>0, <2>1, <2>2
  <2>4. /\ pc' = [pc EXCEPT ![p] = IF p = Main THEN "executed" ELSE "run"]
        /\ thread' = [thread EXCEPT ![child[p]].load_sema = @ - 1]
        /\ \A u \in Proc : u # p => child'[u] = child[u]
    BY <1>3 DEF ExecDone, ExecReturns
  <2>5. \A u \in Proc : u # child[p] => thread'[u] = thread[u]
    BY <2>1, <2>4
  <2>6. thread'[child[p]].wait_sema = thread[child[p]].wait_sema
    BY <2>1, <2>4 DEF ThreadType
  <2>7. pc[r] = "loading" /\ r # p => child[r] # child[p]
    BY <1>0, <2>1
  <2> QED
    BY <1>0, <2>1, <2>3, <2>4, <2>5, <2>6, <2>7
<1>4. CASE StartProcess(p)
  <2>1. PICK success \in BOOLEAN :
           /\ LoadSemaUp(p, success)
           /\ pc' = [pc EXCEPT ![p] = IF success THEN "run" ELSE "unloaded"]
    BY <1>4 DEF StartProcess
  <2>2. pc[p] = "start" /\ thread[p].load_sema = 0 /\ child' = child
    BY <1>0, <1>4 DEF StartProcess, At, callVars
  <2>3. /\ thread'[p].load_sema = 1 /\ thread'[p].wait_sema = thread[p].wait_sema
        /\ \A u \in Proc : u # p => thread'[u] = thread[u]
    BY <2>1, <2>2 DEF LoadSemaUp, ThreadType
  <2> QED
    BY <1>0, <2>1, <2>2, <2>3
<1>5. CASE WaitDone(p)
  <2>1. child[p] \in Proc /\ pc[p] = "waiting" /\ thread[child[p]].parent = p
    BY <1>5 DEF WaitDone, At, ChildKnown, Blocked
  <2>2. child[p] # p /\ pc[child[p]] = "dead"
    BY <1>0, <1>5, <2>1 DEF WaitDone
  <2>3. /\ pc' = [pc EXCEPT ![p] = "run", ![child[p]] = "free"]
        /\ thread' = [thread EXCEPT ![child[p]] = Filled]
        /\ \A u \in Proc : u # p => child'[u] = child[u]
    BY <1>5 DEF WaitDone, Freed
  <2>4. pc[r] = "loading" => child[r] # child[p]
    BY <1>0, <2>1
  <2> QED
    BY <1>0, <2>1, <2>2, <2>3, <2>4 DEF Filled, NewThread
<1>6. CASE ThreadDies(p)
  <2>1. /\ pc[p] = "reaping" /\ child' = child
        /\ pc' = [pc EXCEPT ![p] = "dead"]
        /\ thread' = [thread EXCEPT ![p].wait_sema = @ + 1]
    BY <1>6 DEF ThreadDies, At, callVars
  <2>2. /\ thread'[p].wait_sema = 1 /\ thread'[p].load_sema = thread[p].load_sema
        /\ \A u \in Proc : u # p => thread'[u] = thread[u]
    BY <1>0, <2>1 DEF ThreadType
  <2> QED
    BY <1>0, <2>1, <2>2
<1>7. ASSUME NEW code \in ExitCode, Exits(p, code)
      PROVE  Says(r)'
  <2>1. /\ pc[p] \in {"run", "exec", "unloaded", "reaping"} /\ child' = child
        /\ pc' = [pc EXCEPT ![p] = "exiting"]
        /\ thread' = [thread EXCEPT ![p].exit_code = code]
    BY <1>7 DEF Exits, HandleExit, callVars
  <2>2. \A u \in Proc : /\ thread'[u].wait_sema = thread[u].wait_sema
                        /\ thread'[u].load_sema = thread[u].load_sema
    BY <2>1 DEF ThreadType
  <2> QED
    BY <1>0, <2>1, <2>2
<1>8. ASSUME NEW q \in Proc, Waits(p, q)
      PROVE  Says(r)'
  BY <1>0, <1>8 DEF Waits
<1>9. ASSUME NEW q \in Proc, Reaps(p, q)
      PROVE  Says(r)'
  <2>1. /\ pc[q] = "dead" /\ thread[q].parent = p /\ pc[p] = "reaping" /\ child' = child
        /\ pc' = [pc EXCEPT ![q] = "free"]
        /\ thread' = [thread EXCEPT ![q] = Filled]
    BY <1>9 DEF Reaps, Freed, callVars
  <2>2. pc[r] = "loading" => child[r] # q
    BY <1>0, <2>1
  <2> QED
    BY <1>0, <2>1, <2>2 DEF Filled, NewThread
<1> HIDE DEF Says
<1> QED
  BY <1>1, <1>2, <1>3, <1>4, <1>5, <1>6, <1>7, <1>8, <1>9 DEF Effect

LEMMA LoadStatusStep ==
    ASSUME ProcessAssumption, ProcInv, NEW p \in Proc, Effect(p)
    PROVE  LoadStatusOK'
<1> USE DEF ProcInv, FieldsOK
<1>0. /\ \A t \in loaded : t < nextTid
      /\ \A q \in Proc : pc[q] # "free" =>
            /\ thread[q].tid \in Tid /\ thread[q].tid < nextTid
            /\ thread[q].load_status <=> thread[q].tid \in loaded
            /\ pc[q] = "start" => ~thread[q].load_status
  BY DEF LoadStatusOK, TidsDiffer
<1>1. CASE ThreadCreate(p)
  <2>1. PICK q \in Proc : Creates(p, q)
    BY <1>1, ThreadCreated
  <2>2. thread'[q].tid = nextTid /\ ~thread'[q].load_status /\ nextTid \notin loaded
    BY <1>0, <2>1 DEF Creates, NewThread
  <2>3. nextTid' = nextTid + 1 /\ loaded' = loaded
    BY <2>1 DEF Creates, history
  <2>4. \A r \in Proc : r # q /\ pc'[r] # "free" =>
           /\ pc[r] # "free" /\ thread'[r] = thread[r]
           /\ pc'[r] = "start" => pc[r] = "start"
    BY <2>1 DEF Creates
  <2>5. \A t \in loaded' : t < nextTid'
    BY <1>0, <2>3 DEF Tid
  <2>6. \A r \in Proc : pc'[r] # "free" =>
           /\ thread'[r].load_status <=> thread'[r].tid \in loaded'
           /\ pc'[r] = "start" => ~thread'[r].load_status
    BY <1>0, <2>2, <2>3, <2>4
  <2> QED
    BY <2>5, <2>6 DEF LoadStatusOK
<1>2. CASE StartProcess(p) /\ ~ThreadCreate(p)
  <2>1. PICK success \in BOOLEAN :
           /\ LoadSemaUp(p, success)
           /\ loaded' = IF success THEN loaded \cup {thread[p].tid} ELSE loaded
    BY <1>2 DEF StartProcess
  <2>2. /\ pc[p] = "start"
        /\ thread'[p].load_status = success
        /\ \A r \in Proc : r # p => thread'[r] = thread[r]
    BY <1>2, <2>1 DEF StartProcess, At, LoadSemaUp, ThreadType
  <2>3. thread[p].tid \notin loaded
    BY <1>0, <1>2, <2>2 DEF LoadStatusOK
  <2>4. /\ nextTid' = nextTid
        /\ \A q \in Proc : pc'[q] # "free" =>
              pc[q] # "free" /\ thread'[q].tid = thread[q].tid
    BY <1>2, TidsStay
  <2>5. \A q \in Proc : q # p /\ pc[q] # "free" => thread[q].tid # thread[p].tid
    BY <2>2 DEF TidsDiffer
  <2>6. pc'[p] # "start" /\ \A q \in Proc : q # p => pc'[q] = pc[q]
    BY <1>2 DEF StartProcess
  <2>7. \A t \in loaded' : t < nextTid'
    BY <1>0, <2>1, <2>2, <2>4
  <2>8. \A q \in Proc : pc'[q] # "free" =>
           (thread'[q].load_status <=> thread'[q].tid \in loaded')
    BY <1>0, <2>1, <2>2, <2>3, <2>4, <2>5
  <2>9. \A q \in Proc : pc'[q] = "start" => ~thread'[q].load_status
    BY <1>0, <2>2, <2>6
  <2> QED
    BY <2>7, <2>8, <2>9 DEF LoadStatusOK
<1>3. ASSUME ~ThreadCreate(p), loaded' = loaded,
             \A q \in Proc : pc'[q] # "free" =>
                /\ thread'[q].load_status = thread[q].load_status
                /\ pc'[q] = "start" => pc[q] = "start"
      PROVE  LoadStatusOK'
  BY <1>0, <1>3, TidsStay DEF LoadStatusOK
<1>4. ASSUME NEW l \in PC, Moves(p, l), ~ThreadCreate(p)
      PROVE  LoadStatusOK'
  BY <1>3, <1>4 DEF Moves, history
<1>5. CASE ExecDone(p) /\ ~ThreadCreate(p)
  <2>1. child[p] \in Proc
    BY <1>5 DEF ExecDone, At, ChildKnown, Blocked
  <2>2. \A q \in Proc : thread'[q].load_status = thread[q].load_status
    BY <1>5, <2>1 DEF ExecDone, ThreadType
  <2>3. \A q \in Proc : pc'[q] = "start" => pc[q] = "start"
    BY <1>5 DEF ExecDone, ExecReturns
  <2> QED
    BY <1>3, <1>5, <2>2, <2>3 DEF ExecDone, history
<1>6. CASE WaitDone(p) /\ ~ThreadCreate(p)
  <2>1. child[p] \in Proc
    BY <1>6 DEF WaitDone, At, ChildKnown, Blocked
  <2> QED
    BY <1>3, <1>6, <2>1 DEF WaitDone, At, Freed
<1>7. CASE ThreadDies(p) /\ ~ThreadCreate(p)
  <2>1. \A q \in Proc : thread'[q].load_status = thread[q].load_status
    BY <1>7 DEF ThreadDies, ThreadType
  <2> QED
    BY <1>3, <1>7, <2>1 DEF ThreadDies, history
<1>8. ASSUME NEW code \in ExitCode, Exits(p, code), ~ThreadCreate(p)
      PROVE  LoadStatusOK'
  <2>1. \A q \in Proc : thread'[q].load_status = thread[q].load_status
    BY <1>8 DEF Exits, HandleExit, ThreadType
  <2> QED
    BY <1>3, <1>8, <2>1 DEF Exits, HandleExit
<1>9. ASSUME NEW q \in Proc, Waits(p, q), ~ThreadCreate(p)
      PROVE  LoadStatusOK'
  BY <1>3, <1>9 DEF Waits, history
<1>10. ASSUME NEW q \in Proc, Reaps(p, q), ~ThreadCreate(p)
       PROVE  LoadStatusOK'
  BY <1>3, <1>10 DEF Reaps, Freed, history
<1> QED
  BY <1>1, <1>2, <1>4, <1>5, <1>6, <1>7, <1>8, <1>9, <1>10 DEF Effect

LEMMA ExitCodeStep ==
    ASSUME ProcessAssumption, ProcInv, NEW p \in Proc, Effect(p)
    PROVE  ExitCodeOK'
<1> USE DEF ProcInv, FieldsOK
<1> DEFINE Gone == {"exiting", "reaping", "dead"}
<1>0. /\ \A q \in Proc : pc[q] \in Gone => ended[thread[q].tid] = thread[q].exit_code
      /\ \A q \in Proc : pc[q] # "free" => thread[q].tid \in Tid
  BY DEF ExitCodeOK, TidsDiffer
<1>1. ASSUME ended' = ended,
             \A q \in Proc : pc'[q] \in Gone =>
                /\ pc[q] \in Gone
                /\ thread'[q].tid = thread[q].tid
                /\ thread'[q].exit_code = thread[q].exit_code
      PROVE  ExitCodeOK'
  BY <1>0, <1>1 DEF ExitCodeOK
<1>2. CASE ThreadCreate(p)
  <2>1. PICK q \in Proc : Creates(p, q)
    BY <1>2, ThreadCreated
  <2> QED
    BY <1>1, <2>1 DEF Creates, history
<1>3. ASSUME NEW l \in PC, Moves(p, l)
      PROVE  ExitCodeOK'
  BY <1>1, <1>3 DEF Moves, history
<1>4. CASE ExecDone(p)
  <2>1. child[p] \in Proc
    BY <1>4 DEF ExecDone, At, ChildKnown, Blocked
  <2>2. \A q \in Proc : /\ thread'[q].exit_code = thread[q].exit_code
                        /\ thread'[q].tid = thread[q].tid
    BY <1>4, <2>1 DEF ExecDone, ThreadType
  <2>3. \A q \in Proc : pc'[q] \in Gone => pc[q] \in Gone
    BY <1>4 DEF ExecDone, ExecReturns
  <2> QED
    BY <1>1, <1>4, <2>2, <2>3 DEF ExecDone, history
<1>5. CASE StartProcess(p)
  <2>1. PICK success \in BOOLEAN :
           /\ LoadSemaUp(p, success)
           /\ pc' = [pc EXCEPT ![p] = IF success THEN "run" ELSE "unloaded"]
    BY <1>5 DEF StartProcess
  <2> QED
    BY <1>1, <1>5, <2>1 DEF StartProcess, LoadSemaUp
<1>6. CASE WaitDone(p)
  <2>1. child[p] \in Proc
    BY <1>6 DEF WaitDone, At, ChildKnown, Blocked
  <2> QED
    BY <1>1, <1>6, <2>1 DEF WaitDone, Freed
<1>7. CASE ThreadDies(p)
  <2>1. \A q \in Proc : /\ thread'[q].exit_code = thread[q].exit_code
                        /\ thread'[q].tid = thread[q].tid
    BY <1>7 DEF ThreadDies, ThreadType
  <2> QED
    BY <1>1, <1>7, <2>1 DEF ThreadDies, At, history
<1>8. ASSUME NEW code \in ExitCode, Exits(p, code)
      PROVE  ExitCodeOK'
  <2>1. /\ ended' = [ended EXCEPT ![thread[p].tid] = code]
        /\ pc' = [pc EXCEPT ![p] = "exiting"] /\ pc[p] # "free"
        /\ thread' = [thread EXCEPT ![p].exit_code = code]
    BY <1>8 DEF Exits, HandleExit
  <2>2. /\ thread'[p].tid = thread[p].tid /\ thread'[p].exit_code = code
        /\ \A q \in Proc : q # p => thread'[q] = thread[q]
    BY <2>1 DEF ThreadType
  <2>3. \A q \in Proc : q # p /\ pc[q] # "free" => thread[q].tid # thread[p].tid
    BY <2>1 DEF TidsDiffer
  <2> QED
    BY <1>0, <2>1, <2>2, <2>3 DEF ExitCodeOK
<1>9. ASSUME NEW q \in Proc, Waits(p, q)
      PROVE  ExitCodeOK'
  BY <1>1, <1>9 DEF Waits, history
<1>10. ASSUME NEW q \in Proc, Reaps(p, q)
       PROVE  ExitCodeOK'
  BY <1>1, <1>10 DEF Reaps, Freed, history
<1> QED
  BY <1>2, <1>3, <1>4, <1>5, <1>6, <1>7, <1>8, <1>9, <1>10 DEF Effect

LEMMA ReapedStep ==
    ASSUME ProcessAssumption, ProcInv, NEW p \in Proc, Effect(p)
    PROVE  ReapedGone'
<1> USE DEF ProcInv, FieldsOK
<1>0. /\ \A t \in reaped : t < nextTid
      /\ \A q \in Proc : pc[q] # "free" =>
            thread[q].tid \in Tid /\ thread[q].tid < nextTid /\ thread[q].tid \notin reaped
  BY DEF ReapedGone, TidsDiffer
<1>1. CASE ThreadCreate(p)
  <2>1. PICK q \in Proc : Creates(p, q)
    BY <1>1, ThreadCreated
  <2>2. thread'[q].tid = nextTid /\ nextTid \notin reaped
    BY <1>0, <2>1 DEF Creates, NewThread
  <2>3. nextTid' = nextTid + 1 /\ reaped' = reaped
    BY <2>1 DEF Creates, history
  <2>4. \A r \in Proc : r # q /\ pc'[r] # "free" => pc[r] # "free" /\ thread'[r] = thread[r]
    BY <2>1 DEF Creates
  <2>5. \A t \in reaped' : t < nextTid'
    BY <1>0, <2>3 DEF Tid
  <2>6. \A r \in Proc : pc'[r] # "free" => thread'[r].tid \notin reaped'
    BY <1>0, <2>2, <2>3, <2>4
  <2> QED
    BY <2>5, <2>6 DEF ReapedGone
<1>2. CASE WaitDone(p) /\ ~ThreadCreate(p)
  <2>1. /\ child[p] \in Proc /\ pc[child[p]] # "free"
        /\ thread[child[p]].tid = target[p]
    BY <1>2 DEF WaitDone, At, ChildKnown, Blocked
  <2>2. /\ reaped' = reaped \cup {target[p]} /\ pc'[child[p]] = "free"
    BY <1>2, <2>1 DEF WaitDone
  <2>3. \A q \in Proc : pc[q] # "free" /\ q # child[p] => thread[q].tid # target[p]
    BY <2>1 DEF TidsDiffer
  <2>4. /\ nextTid' = nextTid
        /\ \A q \in Proc : pc'[q] # "free" =>
              pc[q] # "free" /\ thread'[q].tid = thread[q].tid
    BY <1>2, TidsStay
  <2>5. \A t \in reaped' : t < nextTid'
    BY <1>0, <2>1, <2>2, <2>4
  <2>6. \A q \in Proc : pc'[q] # "free" => thread'[q].tid \notin reaped'
    BY <1>0, <2>2, <2>3, <2>4
  <2> QED
    BY <2>5, <2>6 DEF ReapedGone
<1>3. CASE ~WaitDone(p) /\ ~ThreadCreate(p)
  <2>1. reaped' = reaped
    BY <1>3 DEF Effect, Moves, ExecDone, StartProcess, ThreadDies, Exits, Waits, Reaps,
       history
  <2> QED
    BY <1>0, <1>3, <2>1, TidsStay DEF ReapedGone
<1> QED
  BY <1>1, <1>2, <1>3

-----------------------------------------------------------------------------
LEMMA ProcInitInv ==
    ASSUME ProcessAssumption, Init
    PROVE  ProcInv /\ CallsOK
<1>1. Main \in Proc /\ None \notin Proc /\ MaxTid \in Nat \ {0}
  BY DEF Proc, ProcessAssumption
<1>2. FieldsOK
  <2>1. NewThread(1, None) \in ThreadType /\ Filled \in ThreadType
    BY <1>1, NewThreadType, FilledType
  <2> QED
    BY <1>1, <2>1 DEF Init, FieldsOK, PC, Tid
<1>3. CallsOK
  BY <1>1 DEF Init, CallsOK
<1>4. DeadListOK
  BY DEF Init, DeadListOK, NoDuplicates, ToSet
<1>5. MainLives /\ ChildKnown
  BY <1>1 DEF Init, MainLives, ChildKnown, Blocked
<1>6. TidsDiffer
  BY <1>1 DEF Init, TidsDiffer, NewThread, Tid
<1>7. SemasSay /\ LoadStatusOK /\ ExitCodeOK /\ ReapedGone
  BY <1>1 DEF Init, SemasSay, LoadStatusOK, ExitCodeOK, ReapedGone, Filled, NewThread
<1> QED
  BY <1>2, <1>3, <1>4, <1>5, <1>6, <1>7 DEF ProcInv

LEMMA StillInv ==
    ASSUME ProcInv, Still
    PROVE  ProcInv'
<1> USE DEF Still, callVars, history
<1>1. FieldsOK' /\ DeadListOK' /\ MainLives' /\ TidsDiffer'
  BY DEF ProcInv, FieldsOK, DeadListOK, MainLives, TidsDiffer
<1>2. ChildKnown' /\ SemasSay'
  BY DEF ProcInv, ChildKnown, SemasSay
<1>3. LoadStatusOK' /\ ExitCodeOK' /\ ReapedGone'
  BY DEF ProcInv, LoadStatusOK, ExitCodeOK, ReapedGone
<1> QED
  BY <1>1, <1>2, <1>3 DEF ProcInv

LEMMA ProcNextInv ==
    ASSUME ProcessAssumption, ProcInv, CallsOK, [Next]_vars
    PROVE  ProcInv'
<1>1. CASE Still
  BY <1>1, StillInv
<1>2. ASSUME NEW p \in Proc, Effect(p)
      PROVE  ProcInv'
  <2>1. FieldsOK' /\ DeadListOK' /\ MainLives' /\ TidsDiffer' /\ ChildKnown'
    BY <1>2, FieldsStep, DeadListStep, MainLivesStep, TidsStep, ChildKnownStep
  <2>2. SemasSay' /\ LoadStatusOK' /\ ExitCodeOK' /\ ReapedGone'
    BY <1>2, <2>1, SemasStep, LoadStatusStep, ExitCodeStep, ReapedStep
  <2> QED
    BY <2>1, <2>2 DEF ProcInv
<1> QED
  BY <1>1, <1>2, StepHasEffect DEF ProcInv

LEMMA CallsStep ==
    ASSUME ProcessAssumption, ProcInv, CallsOK, [Next]_vars
    PROVE  CallsOK'
<1> USE DEF ProcInv, FieldsOK
<1> DEFINE Ret == Code \cup Tid \cup {None, 0, -1}
<1>0. /\ ret \in [Proc -> Ret] /\ cursor \in [Proc -> Proc \cup {None}]
      /\ fileLock \in Proc \cup {None} /\ machine \in {"up", "off", "panic"}
      /\ {None, 0, -1} \cup Code \cup Tid \subseteq Ret
  BY DEF CallsOK
<1>1. CASE UNCHANGED vars
  BY <1>1 DEF vars, CallsOK
<1>2. CASE MainEnds
  BY <1>0, <1>2 DEF MainEnds, CallsOK
<1>3. ASSUME NEW p \in Proc, UserCall(p) \/ KernelStep(p)
      PROVE  CallsOK'
  <2>1. ret' \in [Proc -> Ret]
    <3>1. ASSUME NEW v \in Ret, ret' = [ret EXCEPT ![p] = v]
          PROVE  ret' \in [Proc -> Ret]
      BY <1>0, <3>1
    <3>2. CASE ret' = ret
      BY <1>0, <3>2
    <3>3. CASE Exec(p)
      BY <3>1, <3>3 DEF Exec
    <3>4. CASE ExecFails(p)
      BY <3>1, <3>4 DEF ExecFails, ExecReturns, TidError
    <3>5. CASE ExecDone(p)
      <4>1. target[p] \in Tid
        BY <3>5 DEF ExecDone, At, ChildKnown, Blocked, TidsDiffer
      <4> QED
        BY <3>1, <3>5, <4>1 DEF ExecDone, ExecReturns, TidError
    <3>6. CASE WaitDone(p)
      <4>1. thread[child[p]].exit_code \in Code \cup {0, -1}
        BY <3>6 DEF WaitDone, At, ChildKnown, Blocked, ThreadType
      <4> QED
        BY <3>1, <3>6, <4>1 DEF WaitDone
    <3>7. CASE \E t \in Tid \cup {ret[p]} : ProcessWait(p, t)
      BY <3>1, <3>7 DEF ProcessWait
    <3>8. CASE \E code : HandleExit(p, code)
      BY <3>1, <3>8 DEF HandleExit
    <3>9. CASE Exit(p) \/ Halt(p) \/ ExecBadPointer(p) \/ LoadFailed(p)
      BY <3>8, <3>9 DEF Exit, Halt, ExecBadPointer, LoadFailed
    <3>10. CASE ReapFreed(p)
      BY <3>2, <3>8, <3>10 DEF ReapFreed
    <3>11. CASE ThreadCreate(p) \/ StartProcess(p) \/ ThreadExit(p) \/ ReapChild(p)
                \/ ThreadDies(p)
      BY <3>2, <3>11 DEF ThreadCreate, StartProcess, ThreadExit, ReapChild, ThreadDies
    <3> QED
      BY <1>3, <3>3, <3>4, <3>5, <3>6, <3>7, <3>9, <3>10, <3>11 DEF UserCall, KernelStep
  <2>2. cursor' \in [Proc -> Proc \cup {None}]
    <3>1. CASE ThreadExit(p)
      <4>1. deadList # <<>> => Head(deadList) \in Proc
        BY DEF DeadListOK
      <4> QED
        BY <1>0, <3>1, <4>1 DEF ThreadExit
    <3>2. CASE ReapChild(p)
      <4>1. cursor[p] \in Proc /\ cursor[p] \in ToSet(deadList)
        BY <1>0, <3>2 DEF ReapChild, At, DeadListOK
      <4>2. NextDead(cursor[p]) \in Proc \cup {None}
        <5> DEFINE i == CHOOSE j \in DOMAIN deadList : deadList[j] = cursor[p]
        <5>1. i \in 1..Len(deadList) /\ deadList \in Seq(Proc) /\ Len(deadList) \in Nat
          BY <4>1 DEF ToSet, DeadListOK
        <5>2. NextDead(cursor[p]) = IF i = Len(deadList) THEN None ELSE deadList[i + 1]
          BY DEF NextDead
        <5> HIDE DEF i
        <5>3. i # Len(deadList) => deadList[i + 1] \in Proc
          BY <5>1, ElementOfSeq
        <5> QED
          BY <5>2, <5>3
      <4> QED
        BY <1>0, <3>2, <4>2 DEF ReapChild
    <3>3. CASE ReapFreed(p)
      BY <1>0, <3>3 DEF ReapFreed
    <3>4. CASE ~ThreadExit(p) /\ ~ReapChild(p) /\ ~ReapFreed(p)
      <4>1. cursor' = cursor
        BY <1>3, <3>4 DEF UserCall, KernelStep, Exec, Exit, Halt, ProcessWait, ExecFails,
           ThreadCreate, ExecBadPointer, ExecDone, StartProcess, LoadFailed, WaitDone,
           ThreadDies
      <4> QED
        BY <1>0, <4>1
    <3> QED
      BY <3>1, <3>2, <3>3, <3>4
  <2>3. fileLock' \in Proc \cup {None}
    <3>1. fileLock' \in {fileLock, p, None}
      BY <1>3 DEF UserCall, KernelStep, Exec, Exit, Halt, ProcessWait, ExecFails, ExecReturns,
         ThreadCreate, ExecBadPointer, ExecDone, StartProcess, LoadFailed, WaitDone,
         ThreadExit, ReapChild, ReapFreed, ThreadDies
    <3> QED
      BY <1>0, <3>1
  <2>4. machine' \in {"up", "off", "panic"}
    <3>1. machine' \in {machine, "panic"}
      BY <1>3 DEF UserCall, KernelStep, Exec, Exit, Halt, ProcessWait, ExecFails,
         ThreadCreate, ExecBadPointer, ExecDone, StartProcess, LoadFailed, WaitDone,
         ThreadExit, ReapChild, ReapFreed, ThreadDies
    <3> QED
      BY <1>0, <3>1
  <2> QED
    BY <2>1, <2>2, <2>3, <2>4 DEF CallsOK
<1> QED
  BY <1>1, <1>2, <1>3 DEF Next

(* The inductive invariant holds in every state of every behaviour.        *)
THEOREM ProcInvariance ==
    ASSUME ProcessAssumption
    PROVE  Spec => [](ProcInv /\ CallsOK)
<1>1. Init => ProcInv /\ CallsOK
  BY ProcInitInv
<1>2. ProcInv /\ CallsOK /\ [Next]_vars => (ProcInv /\ CallsOK)'
  BY ProcNextInv, CallsStep
<1> QED
  BY <1>1, <1>2, PTL DEF Spec

(* Type correctness, and dead_list holds each dead process once.           *)
THEOREM ProcessTypeCorrect ==
    ASSUME ProcessAssumption
    PROVE  Spec => []ProcessTypeOK
<1>1. ProcInv /\ CallsOK => ProcessTypeOK
  <2>1. ExitCode \cup {None} = Code \cup {None, 0, -1}
    BY DEF ExitCode
  <2> QED
    BY <2>1 DEF ProcInv, CallsOK, FieldsOK, DeadListOK, ProcessTypeOK
<1> QED
  BY <1>1, ProcInvariance, PTL

(* Nobody frees or reuses the page of a child its parent is blocked on.    *)
THEOREM ChildPageIsKept ==
    ASSUME ProcessAssumption
    PROVE  Spec => []ChildPageKept
<1>1. ProcInv => ChildPageKept
  BY DEF ProcInv, ChildKnown, Blocked, ChildPageKept
<1> QED
  BY <1>1, ProcInvariance, PTL

(* The one up of load_sema and of wait_sema is there for the parent.       *)
THEOREM ParentIsAlwaysWoken ==
    ASSUME ProcessAssumption
    PROVE  Spec => []ParentIsWoken
<1>1. ProcInv => ParentIsWoken
  <2> SUFFICES ASSUME ProcInv, NEW p \in Proc
               PROVE  /\ pc[p] = "loading" =>
                            (thread[child[p]].load_sema > 0 <=> pc[child[p]] # "start")
                      /\ pc[p] = "waiting" =>
                            (thread[child[p]].wait_sema > 0 <=> pc[child[p]] = "dead")
    BY DEF ParentIsWoken
  <2> QED
    BY DEF ProcInv, ChildKnown, Blocked, SemasSay
<1> QED
  BY <1>1, ProcInvariance, PTL

(* process_wait blocks at most once for a process, over all its callers    *)
(* that got its exit code.                                                 *)
THEOREM WaitedForOnce ==
    ASSUME ProcessAssumption
    PROVE  Spec => []WaitOnce
<1>1. ProcInv => WaitOnce
  BY DEF ProcInv, ChildKnown, Blocked, ReapedGone, WaitOnce
<1> QED
  BY <1>1, ProcInvariance, PTL

(* A process leaves process_execute or process_wait only by the step that  *)
(* returns from it.                                                        *)
LEMMA UnblockedBy ==
    ASSUME ProcessAssumption, ProcInv, CallsOK, [Next]_vars,
           NEW p \in Proc, pc[p] \in Blocked, pc'[p] # pc[p]
    PROVE  IF pc[p] = "loading" THEN ExecDone(p) ELSE WaitDone(p)
<1> USE DEF ProcInv, FieldsOK, Blocked
<1>1. PICK r \in Proc : Effect(r)
  BY StepHasEffect DEF Still
<1>2. ~\E l \in PC : Moves(r, l)
  BY DEF Moves
<1>3. ~ThreadCreate(r)
  <2>1. ASSUME NEW q \in Proc, Creates(r, q)
        PROVE  FALSE
    BY <2>1 DEF Creates
  <2> QED
    BY <2>1, ThreadCreated
<1>4. ~StartProcess(r) /\ ~ThreadDies(r)
  BY DEF StartProcess, ThreadDies, At
<1>5. ~\E code \in ExitCode : Exits(r, code)
  BY DEF Exits, HandleExit
<1>6. ~\E q \in Proc : Waits(r, q) \/ Reaps(r, q)
  BY DEF Waits, Reaps
<1>7. CASE ExecDone(r)
  BY <1>7 DEF ExecDone, ExecReturns, At
<1>8. CASE WaitDone(r)
  <2>1. child[r] # p
    BY <1>8 DEF WaitDone, At, ChildKnown, SemasSay
  <2> QED
    BY <1>8, <2>1 DEF WaitDone, At
<1> QED
  BY <1>1, <1>2, <1>3, <1>4, <1>5, <1>6, <1>7, <1>8 DEF Effect

(* exec answers for the program that was, or was not, loaded.              *)
THEOREM ExecReturnsTheLoad ==
    ASSUME ProcessAssumption
    PROVE  Spec => ExecReturnsLoad
<1> DEFINE Answer == \A p \in Proc : pc[p] = "loading" /\ pc'[p] # "loading" =>
          /\ pc[child[p]] # "start"
          /\ ret'[p] = IF target[p] \in loaded THEN target[p] ELSE TidError
<1>1. ASSUME ProcInv, CallsOK, [Next]_vars
      PROVE  Answer
  <2> SUFFICES ASSUME NEW p \in Proc, pc[p] = "loading", pc'[p] # "loading"
               PROVE  /\ pc[child[p]] # "start"
                      /\ ret'[p] = IF target[p] \in loaded THEN target[p] ELSE TidError
    OBVIOUS
  <2>1. ExecDone(p)
    BY <1>1, UnblockedBy DEF Blocked
  <2>2. /\ child[p] \in Proc /\ pc[child[p]] # "free"
        /\ thread[child[p]].tid = target[p]
    BY <1>1 DEF ProcInv, ChildKnown, Blocked
  <2>3. pc[child[p]] # "start"
    BY <1>1, <2>1, <2>2 DEF ProcInv, SemasSay, ExecDone
  <2>4. thread[child[p]].load_status <=> target[p] \in loaded
    BY <1>1, <2>2 DEF ProcInv, LoadStatusOK
  <2>5. ret'[p] = IF thread[child[p]].load_status THEN target[p] ELSE TidError
    BY <1>1, <2>1 DEF ExecDone, ExecReturns, CallsOK
  <2> QED
    BY <2>3, <2>4, <2>5
<1>2. ProcInv /\ CallsOK /\ [Next]_vars => [Answer]_vars
  BY <1>1
<1> QED
  BY <1>2, ProcInvariance, PTL DEF Spec, ExecReturnsLoad

(* wait answers with the code the child ended with.                        *)
THEOREM WaitReturnsTheCode ==
    ASSUME ProcessAssumption
    PROVE  Spec => WaitReturnsExitCode
<1> DEFINE Answer == \A p \in Proc : pc[p] = "waiting" /\ pc'[p] # "waiting" =>
          ended[target[p]] # None /\ ret'[p] = ended[target[p]]
<1>1. ASSUME ProcInv, CallsOK, [Next]_vars
      PROVE  Answer
  <2> SUFFICES ASSUME NEW p \in Proc, pc[p] = "waiting", pc'[p] # "waiting"
               PROVE  ended[target[p]] # None /\ ret'[p] = ended[target[p]]
    OBVIOUS
  <2>1. WaitDone(p)
    BY <1>1, UnblockedBy DEF Blocked
  <2>2. child[p] \in Proc /\ thread[child[p]].tid = target[p]
    BY <1>1 DEF ProcInv, ChildKnown, Blocked
  <2>3. pc[child[p]] = "dead"
    BY <1>1, <2>1, <2>2 DEF ProcInv, SemasSay, WaitDone
  <2>4. ended[target[p]] = thread[child[p]].exit_code
    BY <1>1, <2>2, <2>3 DEF ProcInv, ExitCodeOK
  <2>5. thread[child[p]].exit_code \in Code \cup {0, -1}
    BY <1>1, <2>2 DEF ProcInv, FieldsOK, ThreadType
  <2>6. ret'[p] = thread[child[p]].exit_code
    BY <1>1, <2>1 DEF WaitDone, CallsOK
  <2>7. None \notin Code \cup {0, -1}
    BY ProcessAssumption DEF ProcessAssumption
  <2> QED
    BY <2>4, <2>5, <2>6, <2>7
<1>2. ProcInv /\ CallsOK /\ [Next]_vars => [Answer]_vars
  BY <1>1
<1> QED
  BY <1>2, ProcInvariance, PTL DEF Spec, WaitReturnsExitCode
=============================================================================
