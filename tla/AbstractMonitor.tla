--------------------------- MODULE AbstractMonitor ---------------------------
(***************************************************************************)
(* The Mesa monitor that the comments of threads/synch.c promise: a lock,  *)
(* and conditions that a thread inside can wait for.  cond_wait gives the  *)
(* lock back and starts to wait in one step; cond_signal moves one waiting *)
(* thread to those that only need the lock again.                          *)
(***************************************************************************)
CONSTANTS Client, Cond, None

VARIABLES
    owner,           \* the thread inside the monitor, or None
    waiting,         \* waiting[c]: the threads that wait for c
    notified         \* the threads that a signal has released

monitorVars == <<owner, waiting, notified>>

Init ==
    /\ owner = None
    /\ waiting = [c \in Cond |-> {}]
    /\ notified = {}

Outside(t) == owner # t /\ t \notin notified /\ \A c \in Cond : t \notin waiting[c]

Enter(t) ==
    /\ owner = None /\ Outside(t)
    /\ owner' = t
    /\ UNCHANGED <<waiting, notified>>

Leave(t) ==
    /\ owner = t
    /\ owner' = None
    /\ UNCHANGED <<waiting, notified>>

Wait(t, c) ==
    /\ owner = t
    /\ owner' = None
    /\ waiting' = [waiting EXCEPT ![c] = @ \cup {t}]
    /\ UNCHANGED notified

Signal(c, w) ==
    /\ owner # None /\ w \in waiting[c]
    /\ waiting' = [waiting EXCEPT ![c] = @ \ {w}]
    /\ notified' = notified \cup {w}
    /\ UNCHANGED owner

Return(t) ==
    /\ owner = None /\ t \in notified
    /\ owner' = t
    /\ notified' = notified \ {t}
    /\ UNCHANGED waiting

Next ==
    \E t \in Client :
        \/ Enter(t) \/ Leave(t) \/ Return(t)
        \/ \E c \in Cond : Wait(t, c) \/ Signal(c, t)

Spec == Init /\ [][Next]_monitorVars
=============================================================================
