----------------------------- MODULE AbstractLock -----------------------------
(***************************************************************************)
(* What lock_acquire and lock_release of threads/synch.c promise to the    *)
(* code that calls them: a thread asks for a lock, is granted it when no   *)
(* thread has it, and gives it back itself.                                *)
(***************************************************************************)
CONSTANTS Client, Lock, None

VARIABLES
    owner,           \* owner[l]: the thread that has l, or None
    wanting          \* wanting[t]: the lock t has asked for, or None

lockVars == <<owner, wanting>>

Init ==
    /\ owner = [l \in Lock |-> None]
    /\ wanting = [t \in Client |-> None]

Ask(t, l) ==
    /\ wanting[t] = None /\ owner[l] # t
    /\ wanting' = [wanting EXCEPT ![t] = l]
    /\ UNCHANGED owner

Grant(t, l) ==
    /\ wanting[t] = l /\ owner[l] = None
    /\ owner' = [owner EXCEPT ![l] = t]
    /\ wanting' = [wanting EXCEPT ![t] = None]

GiveBack(t, l) ==
    /\ wanting[t] = None /\ owner[l] = t
    /\ owner' = [owner EXCEPT ![l] = None]
    /\ UNCHANGED wanting

Next == \E t \in Client, l \in Lock : Ask(t, l) \/ Grant(t, l) \/ GiveBack(t, l)

Safety == Init /\ [][Next]_lockVars

(* A free lock that threads ask for is granted to one of them in the end.  *)
Progress == \A l \in Lock : WF_lockVars(\E t \in Client : Grant(t, l))

Spec == Safety /\ Progress
=============================================================================
