--------------------------------- MODULE Heap ---------------------------------
(***************************************************************************)
(* malloc and free of threads/malloc.c, on the pages of the kernel pool of *)
(* threads/palloc.c.  A block is a page and its place there; blocks of one *)
(* descriptor are cut from arenas of one page under the descriptor's lock, *)
(* and a big block is two pages that follow each other, and has the place  *)
(* 0.  Pages are freed one bit after the other without the pool's lock.    *)
(* A thread calls realloc by calling malloc and then free.  pc:            *)
(*    "idle"   not in the allocator                                        *)
(*    "locked" malloc, holding the descriptor's lock                       *)
(*    "pop"    malloc, about to take a block from the free list            *)
(*    "push"   free, holding the lock                                      *)
(*    "free"   in palloc_free_multiple                                     *)
(***************************************************************************)
EXTENDS Integers, Sequences, FiniteSets, SequencesExt

CONSTANTS
    User,            \* the threads
    Pages,           \* the number of pages in the pool
    Desc,            \* the descriptors
    BlocksPerArena,  \* BlocksPerArena[d]: blocks_per_arena
    MaxHeld,         \* bound on the blocks that the threads have
    Nobody

Page == 1 .. Pages
Block == Page \X Nat
Arena == [desc : Desc \cup {Nobody}, freeCnt : Nat]
BigPages == 2

ASSUME HeapAssumption ==
    /\ Pages \in Nat /\ MaxHeld \in Nat
    /\ BlocksPerArena \in [Desc -> Nat \ {0}]
    /\ Nobody \notin User \cup Desc \cup Block \cup Arena

VARIABLES
    usedMap,         \* used_map
    arena,           \* arena[p]: the desc and free_cnt written on page p, or Nobody
    freeList,        \* freeList[d]: free_list
    descLock,        \* descLock[d]: the holder of lock, or Nobody
    held,            \* the blocks that malloc has given out
    heapPc,
    desc,            \* desc[t]: d in malloc and free
    block,           \* block[t]: what free is called with
    freeing          \* freeing[t]: the pages that are still to be freed

heapVars == <<usedMap, arena, freeList, descLock, held, heapPc, desc, block, freeing>>

Stage(t, s) == heapPc' = [heapPc EXCEPT ![t] = s]
BlocksOf(p, d) == [i \in 1 .. BlocksPerArena[d] |-> <<p, i>>]

(* Without the lock of its descriptor a thread has no d.                   *)
Unlock(t) ==
    /\ descLock' = [descLock EXCEPT ![desc[t]] = Nobody]
    /\ desc' = [desc EXCEPT ![t] = Nobody]

-----------------------------------------------------------------------------
(* palloc_get_multiple: the first n free pages in a row, as bitmap_scan    *)
(* finds them.                                                             *)
Run(p, n) == p .. p + n - 1
FreeRun(p, n) == Run(p, n) \subseteq Page \ usedMap
FirstRun(p, n) == FreeRun(p, n) /\ \A q \in 1 .. p - 1 : ~FreeRun(q, n)

(* malloc of a big block.                                                  *)
MallocBig(t) ==
    /\ heapPc[t] = "idle" /\ Cardinality(held) < MaxHeld
    /\ \E p \in Page :
          /\ FirstRun(p, BigPages)
          /\ usedMap' = usedMap \cup Run(p, BigPages)
          /\ arena' = [arena EXCEPT ![p] = [desc |-> Nobody, freeCnt |-> BigPages]]
          /\ held' = held \cup {<<p, 0>>}
    /\ UNCHANGED <<freeList, descLock, heapPc, desc, block, freeing>>

Malloc(t, d) ==
    /\ heapPc[t] = "idle" /\ Cardinality(held) < MaxHeld
    /\ descLock[d] = Nobody
    /\ descLock' = [descLock EXCEPT ![d] = t]
    /\ desc' = [desc EXCEPT ![t] = d]
    /\ Stage(t, "locked")
    /\ UNCHANGED <<usedMap, arena, freeList, held, block, freeing>>

(* Mutant: free_cnt of a new arena does not count the block to be taken.   *)
GrowShort(t) ==
    /\ heapPc[t] = "locked"
    /\ LET d == desc[t]
       IN  \/ /\ freeList[d] # <<>>
              /\ Stage(t, "pop")
              /\ UNCHANGED <<usedMap, arena, freeList, descLock, desc>>
           \/ /\ freeList[d] = <<>>
              /\ \E p \in Page :
                    /\ FirstRun(p, 1)
                    /\ usedMap' = usedMap \cup {p}
                    /\ arena' = [arena EXCEPT ![p] =
                                    [desc |-> d, freeCnt |-> BlocksPerArena[d] - 1]]
                    /\ freeList' = [freeList EXCEPT ![d] = BlocksOf(p, d)]
              /\ Stage(t, "pop")
              /\ UNCHANGED <<descLock, desc>>
           \/ /\ freeList[d] = <<>> /\ usedMap = Page
              /\ Unlock(t) /\ Stage(t, "idle")
              /\ UNCHANGED <<usedMap, arena, freeList>>
    /\ UNCHANGED <<held, block, freeing>>

(* An empty free list gets the blocks of a new arena; when there is no     *)
(* page for it malloc fails.                                               *)
Grow(t) ==
    /\ heapPc[t] = "locked"
    /\ LET d == desc[t]
       IN  \/ /\ freeList[d] # <<>>
              /\ Stage(t, "pop")
              /\ UNCHANGED <<usedMap, arena, freeList, descLock, desc>>
           \/ /\ freeList[d] = <<>>
              /\ \E p \in Page :
                    /\ FirstRun(p, 1)
                    /\ usedMap' = usedMap \cup {p}
                    /\ arena' = [arena EXCEPT ![p] =
                                    [desc |-> d, freeCnt |-> BlocksPerArena[d]]]
                    /\ freeList' = [freeList EXCEPT ![d] = BlocksOf(p, d)]
              /\ Stage(t, "pop")
              /\ UNCHANGED <<descLock, desc>>
           \/ /\ freeList[d] = <<>> /\ usedMap = Page
              /\ Unlock(t) /\ Stage(t, "idle")
              /\ UNCHANGED <<usedMap, arena, freeList>>
    /\ UNCHANGED <<held, block, freeing>>

PopBlock(t) ==
    /\ heapPc[t] = "pop"
    /\ LET b == Head(freeList[desc[t]])
       IN  /\ freeList' = [freeList EXCEPT ![desc[t]] = Tail(@)]
           /\ arena' = [arena EXCEPT ![b[1]].freeCnt = @ - 1]
           /\ held' = held \cup {b}
    /\ Unlock(t) /\ Stage(t, "idle")
    /\ UNCHANGED <<usedMap, block, freeing>>

-----------------------------------------------------------------------------
(* free takes the lock of the descriptor that is written in the arena, or  *)
(* frees the pages of a big block.                                         *)
Free(t, b) ==
    /\ heapPc[t] = "idle" /\ b \in held
    /\ held' = held \ {b}
    /\ LET a == arena[b[1]]
       IN  \/ /\ a.desc # Nobody /\ descLock[a.desc] = Nobody
              /\ descLock' = [descLock EXCEPT ![a.desc] = t]
              /\ desc' = [desc EXCEPT ![t] = a.desc]
              /\ block' = [block EXCEPT ![t] = b]
              /\ Stage(t, "push")
              /\ UNCHANGED <<arena, freeing>>
           \/ /\ a.desc = Nobody
              /\ freeing' = [freeing EXCEPT ![t] = Run(b[1], a.freeCnt)]
              /\ arena' = [arena EXCEPT ![b[1]] = Nobody]
              /\ Stage(t, "free")
              /\ UNCHANGED <<descLock, desc, block>>
    /\ UNCHANGED <<usedMap, freeList>>

(* Mutant: the blocks of an unused arena stay in the free list.            *)
PushBlockOnly(t) ==
    /\ heapPc[t] = "push"
    /\ LET d == desc[t]
           p == block[t][1]
       IN  /\ freeList' = [freeList EXCEPT ![d] = <<block[t]>> \o @]
           /\ IF arena[p].freeCnt + 1 >= BlocksPerArena[d]
              THEN /\ arena' = [arena EXCEPT ![p] = Nobody]
                   /\ freeing' = [freeing EXCEPT ![t] = {p}]
                   /\ Stage(t, "free")
                   /\ UNCHANGED <<descLock, desc>>
              ELSE /\ arena' = [arena EXCEPT ![p].freeCnt = @ + 1]
                   /\ Unlock(t) /\ Stage(t, "idle")
                   /\ UNCHANGED freeing
    /\ block' = [block EXCEPT ![t] = Nobody]
    /\ UNCHANGED <<usedMap, held>>

(* The block goes to the front of the free list; an arena with no block in *)
(* use is taken apart: list_remove for each of its blocks, and its page is *)
(* freed.                                                                  *)
PushBlock(t) ==
    /\ heapPc[t] = "push"
    /\ LET d == desc[t]
           p == block[t][1]
           list == <<block[t]>> \o freeList[d]
           kept == {i \in DOMAIN list : list[i][1] # p}
       IN  IF arena[p].freeCnt + 1 >= BlocksPerArena[d]
           THEN /\ \E at \in Bijection(1 .. Cardinality(kept), kept) :
                      /\ \A i, j \in DOMAIN at : i < j => at[i] < at[j]
                      /\ freeList' = [freeList EXCEPT ![d] =
                                        [i \in DOMAIN at |-> list[at[i]]]]
                /\ arena' = [arena EXCEPT ![p] = Nobody]
                /\ freeing' = [freeing EXCEPT ![t] = {p}]
                /\ Stage(t, "free")
                /\ UNCHANGED <<descLock, desc>>
           ELSE /\ freeList' = [freeList EXCEPT ![d] = list]
                /\ arena' = [arena EXCEPT ![p].freeCnt = @ + 1]
                /\ Unlock(t) /\ Stage(t, "idle")
                /\ UNCHANGED freeing
    /\ block' = [block EXCEPT ![t] = Nobody]
    /\ UNCHANGED <<usedMap, held>>

(* A turn of bitmap_set_multiple in palloc_free_multiple, and the end of   *)
(* free.                                                                   *)
FreePage(t) ==
    /\ heapPc[t] = "free"
    /\ \E p \in freeing[t] :
          /\ \A q \in freeing[t] : p <= q
          /\ usedMap' = usedMap \ {p}
          /\ freeing' = [freeing EXCEPT ![t] = @ \ {p}]
    /\ IF Cardinality(freeing[t]) > 1
       THEN UNCHANGED <<descLock, desc, heapPc>>
       ELSE /\ IF desc[t] = Nobody THEN UNCHANGED <<descLock, desc>> ELSE Unlock(t)
            /\ Stage(t, "idle")
    /\ UNCHANGED <<arena, freeList, held, block>>

-----------------------------------------------------------------------------
HeapInit ==
    /\ usedMap = {}
    /\ arena = [p \in Page |-> Nobody]
    /\ freeList = [d \in Desc |-> <<>>]
    /\ descLock = [d \in Desc |-> Nobody]
    /\ held = {}
    /\ heapPc = [t \in User |-> "idle"]
    /\ desc = [t \in User |-> Nobody]
    /\ block = [t \in User |-> Nobody]
    /\ freeing = [t \in User |-> {}]

HeapStep(t) == Grow(t) \/ PopBlock(t) \/ PushBlock(t) \/ FreePage(t)

HeapNext ==
    \E t \in User :
        \/ MallocBig(t) \/ \E d \in Desc : Malloc(t, d)
        \/ \E b \in held : Free(t, b)
        \/ HeapStep(t)

HeapSpec == HeapInit /\ [][HeapNext]_heapVars

-----------------------------------------------------------------------------
(* Types of the variables.                                                 *)
HeapTypeOK ==
    /\ usedMap \subseteq Page
    /\ arena \in [Page -> Arena \cup {Nobody}]
    /\ freeList \in [Desc -> Seq(Block)]
    /\ descLock \in [Desc -> User \cup {Nobody}]
    /\ held \subseteq Block
    /\ heapPc \in [User -> {"idle", "locked", "pop", "push", "free"}]
    /\ desc \in [User -> Desc \cup {Nobody}]
    /\ block \in [User -> Block \cup {Nobody}]
    /\ freeing \in [User -> SUBSET Page]

(* The pages that a block is on, and the blocks of the arena p.            *)
PagesOf(b) == IF b[2] = 0 THEN Run(b[1], BigPages) ELSE {b[1]}
Listed(p) == {b \in UNION {ToSet(freeList[d]) : d \in Desc} : b[1] = p}
Freed(p) == {block[t] : t \in {u \in User : block[u] # Nobody /\ block[u][1] = p}}

(* A block is given out once: blocks in use and in the free lists do not   *)
(* overlap, none is listed twice, and the pages of all are the pool's used *)
(* ones, except for those that are being freed.                            *)
BlocksAreDisjoint ==
    LET listed == UNION {ToSet(freeList[d]) : d \in Desc}
        mine == held \cup {block[t] : t \in {u \in User : block[u] # Nobody}}
        leaving == UNION {freeing[t] : t \in User}
        inUse == UNION {PagesOf(b) : b \in mine \cup listed}
    IN  /\ listed \cap mine = {}
        /\ \A d \in Desc : IsInjective(freeList[d])
        /\ \A b, c \in mine :
              \/ b = c \/ PagesOf(b) \cap PagesOf(c) = {}
              \/ (b[1] = c[1] /\ b[2] > 0 /\ c[2] > 0)
        /\ inUse \cap leaving = {}
        /\ usedMap = inUse \cup leaving

(* free_cnt of an arena is the number of its blocks in the free list of    *)
(* its descriptor; the others are in use, or on their way through free.    *)
FreeBlocksAreCounted ==
    \A p \in Page :
        arena[p] # Nobody /\ arena[p].desc # Nobody =>
            /\ arena[p].freeCnt = Cardinality(Listed(p))
            /\ Listed(p) \subseteq ToSet(freeList[arena[p].desc])
            /\ Listed(p) \cup Freed(p) \cup {b \in held : b[1] = p}
                  = ToSet(BlocksOf(p, arena[p].desc))

(* The allocator's records have their types and agree with each other and  *)
(* with what is in use.                                                    *)
HeapIsConsistent == HeapTypeOK /\ BlocksAreDisjoint /\ FreeBlocksAreCounted
=============================================================================
