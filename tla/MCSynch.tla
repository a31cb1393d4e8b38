------------------------------- MODULE MCSynch -------------------------------
(* Synch on a few threads, locks and priorities.                           *)
EXTENDS Synch

SynchSymmetry == Permutations(Thread \ {Initial}) \cup Permutations(Lock)
=============================================================================
