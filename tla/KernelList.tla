----------------------------- MODULE KernelList -----------------------------
(***************************************************************************)
(* The doubly linked lists of lib/kernel/list.c, as the kernel uses them:  *)
(* a list is a sequence of the structures that embed its elements, no      *)
(* structure twice.  Only the operations that the other modules need.      *)
(***************************************************************************)
EXTENDS Integers, Sequences, SequencesExt

(* list_remove: unlinks the element e, which is on the list.               *)
ListRemove(list, e) == RemoveAt(list, CHOOSE i \in DOMAIN list : list[i] = e)

(* Mutant: the scan replaces its candidate by an equal element too.        *)
IsListMaxLast(list, key, e) ==
    \E i \in DOMAIN list :
        /\ list[i] = e
        /\ \A j \in DOMAIN list :
              key[list[j]] < key[e] \/ (key[list[j]] = key[e] /\ j <= i)

(* list_max with a "less" function that compares key: the scan replaces    *)
(* its candidate only by a strictly greater element, so among equals it    *)
(* returns the one nearest the front.  e is that element.                  *)
IsListMax(list, key, e) ==
    \E i \in DOMAIN list :
        /\ list[i] = e
        /\ \A j \in DOMAIN list : 
              \/ key[list[j]] < key[e]
              \/ key[list[j]] = key[e] /\ i <= j

(* No structure is linked twice into the list.                             *)
NoDuplicates(list) == \A i, j \in DOMAIN list : list[i] = list[j] => i = j
=============================================================================
