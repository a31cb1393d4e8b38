---------------------------- MODULE PrivateMemory -----------------------------
(***************************************************************************)
(* What the virtual memory promises user processes: pages of their own     *)
(* that keep what they last stored in them.  A page has a content once its *)
(* process has been given it and until the process ends, and only a store  *)
(* that the process has begun changes it.  Whether a page is in a frame or *)
(* on the swap disk is not visible.                                        *)
(***************************************************************************)
CONSTANTS Proc, Page, Value, None

VARIABLES
    alive,       \* whether p has its pages
    wanted,      \* the page p waits for, or None
    storing,     \* the page and the value of the store p is executing, or None
    memory       \* memory[p][pg]: the content of p's page pg, or None

vars == <<alive, wanted, storing, memory>>
NoPages == [pg \in Page |-> None]

Init ==
    /\ alive = [p \in Proc |-> FALSE]
    /\ wanted = [p \in Proc |-> None]
    /\ storing = [p \in Proc |-> None]
    /\ memory = [p \in Proc |-> NoPages]

Start(p) ==
    /\ ~alive[p]
    /\ alive' = [alive EXCEPT ![p] = TRUE]
    /\ UNCHANGED <<wanted, storing, memory>>

(* p has to wait for pg, and begins its store again when it has it.        *)
Want(p, pg) ==
    /\ alive[p] /\ wanted[p] = None
    /\ wanted' = [wanted EXCEPT ![p] = pg]
    /\ storing' = [storing EXCEPT ![p] = None]
    /\ UNCHANGED <<alive, memory>>

(* A page that p did not have has some content, from its executable or as  *)
(* a page of the stack; one that it had is as it was.                      *)
Supply(p) ==
    /\ wanted[p] # None
    /\ \/ memory[p][wanted[p]] # None /\ UNCHANGED memory
       \/ /\ memory[p][wanted[p]] = None
          /\ \E v \in Value : memory' = [memory EXCEPT ![p][wanted[p]] = v]
    /\ wanted' = [wanted EXCEPT ![p] = None]
    /\ UNCHANGED <<alive, storing>>

Refuse(p) ==
    /\ wanted[p] # None
    /\ wanted' = [wanted EXCEPT ![p] = None]
    /\ UNCHANGED <<alive, storing, memory>>

BeginStore(p, pg, v) ==
    /\ alive[p] /\ wanted[p] = None /\ storing[p] = None
    /\ storing' = [storing EXCEPT ![p] = <<pg, v>>]
    /\ UNCHANGED <<alive, wanted, memory>>

EndStore(p, pg, v) ==
    /\ storing[p] = <<pg, v>> /\ memory[p][pg] # None
    /\ memory' = [memory EXCEPT ![p][pg] = v]
    /\ storing' = [storing EXCEPT ![p] = None]
    /\ UNCHANGED <<alive, wanted>>

(* The process is ended instead.                                           *)
AbandonStore(p) ==
    /\ storing[p] # None
    /\ storing' = [storing EXCEPT ![p] = None]
    /\ UNCHANGED <<alive, wanted, memory>>

Exit(p) ==
    /\ alive[p] /\ wanted[p] = None /\ storing[p] = None
    /\ alive' = [alive EXCEPT ![p] = FALSE]
    /\ memory' = [memory EXCEPT ![p] = NoPages]
    /\ UNCHANGED <<wanted, storing>>

Next ==
    \E p \in Proc :
        \/ Start(p) \/ Supply(p) \/ Refuse(p) \/ AbandonStore(p) \/ Exit(p)
        \/ \E pg \in Page : Want(p, pg)
        \/ \E pg \in Page, v \in Value : BeginStore(p, pg, v) \/ EndStore(p, pg, v)

Spec == Init /\ [][Next]_vars
=============================================================================
