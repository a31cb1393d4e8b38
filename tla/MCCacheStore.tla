----------------------------- MODULE MCCacheStore -----------------------------
(* Cache as far as a victim is never a block that somebody is about to     *)
(* enter: all threads use one sector, or one thread uses all sectors.      *)
(* access says which, and stays as it is.                                  *)
EXTENDS Cache, TLC

VARIABLE access

Access == {User \X {CHOOSE s \in Sector : TRUE}, {CHOOSE t \in Client : TRUE} \X Sector}

Used == {a[2] : a \in access}

AccessInit ==
    /\ access \in Access
    /\ Init
    /\ \A s \in Sector \ Used : disk[s] = [p \in Part |-> Zero]

AccessNext ==
    /\ Next
    /\ UNCHANGED access
    /\ \A t \in Client : want'[t] # None => <<t, want'[t]>> \in access
    /\ \A i \in DOMAIN readList' : <<Readd, readList'[i]>> \in access

AccessSpec == AccessInit /\ [][AccessNext]_<<vars, access>>
=============================================================================
