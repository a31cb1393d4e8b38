---------------------------- MODULE AbstractStore ----------------------------
(***************************************************************************)
(* What filesys/cache.c promises its callers: sectors that are opened by   *)
(* many readers or by one writer, and that keep what was last written to   *)
(* them.  How far a sector's content has come to the disk is not visible.  *)
(***************************************************************************)
CONSTANTS Client, Sector, Part, Value, Zero, None

VARIABLES
    content,         \* content[s][p]: what a reader finds in part p of s
    reading,         \* reading[t]: the sector that t has open to read, or None
    writing          \* writing[t]: the sector that t has open to write, or None

storeVars == <<content, reading, writing>>

Init ==
    /\ content \in [Sector -> [Part -> Value]]
    /\ reading = [t \in Client |-> None]
    /\ writing = [t \in Client |-> None]

Closed(t) == reading[t] = None /\ writing[t] = None

OpenRead(t, s) ==
    /\ Closed(t) /\ \A u \in Client : writing[u] # s
    /\ reading' = [reading EXCEPT ![t] = s]
    /\ UNCHANGED <<content, writing>>

OpenWrite(t, s) ==
    /\ Closed(t) /\ \A u \in Client : reading[u] # s /\ writing[u] # s
    /\ writing' = [writing EXCEPT ![t] = s]
    /\ UNCHANGED <<content, reading>>

CloseRead(t) ==
    /\ reading' = [reading EXCEPT ![t] = None]
    /\ UNCHANGED <<content, writing>>

(* A writer makes its one change and has no further business there.        *)
Write(t) ==
    \E s \in Sector, parts \in SUBSET Part, v \in Value :
        /\ writing[t] = s
        /\ content' = [content EXCEPT ![s] =
                          [p \in Part |-> IF p \in parts THEN v ELSE @[p]]]
        /\ writing' = [writing EXCEPT ![t] = None]
        /\ UNCHANGED reading

Next ==
    \E t \in Client :
        \/ Write(t) \/ CloseRead(t)
        \/ \E s \in Sector : OpenRead(t, s) \/ OpenWrite(t, s)

Spec == Init /\ [][Next]_storeVars
=============================================================================
