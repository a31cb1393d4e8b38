-------------------------------- MODULE Cache --------------------------------
(***************************************************************************)
(* The buffer cache, filesys/cache.c: a table of blocks, each with a       *)
(* readers-writer lock made of rw_lock and two conditions, the lock        *)
(* data_lock of its data, and one cache_lock for the table; the threads    *)
(* cache_flushd and cache_readd.  Locks and conditions are those that      *)
(* Synch and Condition show; the disk finishes a transfer in one step.  An *)
(* acquisition, which may be delayed, begins an action.  pc:               *)
(*    "idle"       not in the cache                                        *)
(*    "lookup"     cache_acquire, about to take cache_lock                 *)
(*    "hit"        cache_acquire, block found, about to take its rw_lock   *)
(*    "scan"       cache_victim, all blocks in use, looking for an idle one*)
(*    "flush"      cache_flush, about to take data_lock                    *)
(*    "flushed"    cache_flush, disk written, dirty not yet cleared        *)
(*    "reset"      cache_victim, block chosen and clean                    *)
(*    "claim"      cache_acquire, victim in hand, about to take its rw_lock*)
(*    "enter"      cache_acquire, holding rw_lock                          *)
(*    "wait"       cache_acquire, in cond_wait                             *)
(*    "notified"   cache_acquire, in cond_wait, signalled                  *)
(*    "held"       cache_acquire has returned                              *)
(*    "data"       cache_read or cache_write, block loaded, data_lock held *)
(*    "zero"       cache_fillzero, block loaded                            *)
(*    "readin"     cache_load of cache_readd, loaded found to be false     *)
(*    "release"    cache_release, about to take cache_lock                 *)
(*    "releasing"  cache_release, about to take rw_lock                    *)
(*    "nextBlock"  cache_flush_all, between two turns of its loop          *)
(***************************************************************************)
EXTENDS Integers, Sequences, FiniteSets

CONSTANTS
    Client,          \* the threads that run the file system's code
    Flushd, Readd,   \* cache_flushd and cache_readd
    CacheSize,       \* CACHE_SIZE
    Sector,
    Part, Value,     \* a sector's data is a value for each of its parts
    Zero,            \* the value of a zeroed part
    Op,              \* what clients do: "read", "write", "overwrite", "fillzero"
    None,
    MaxRequests      \* bound on the length of read_list

ASSUME CacheAssumption ==
    /\ Flushd \notin Client /\ Readd \notin Client /\ Flushd # Readd
    /\ CacheSize \in Nat \ {0} /\ MaxRequests \in Nat
    /\ IsFiniteSet(Client) /\ Sector # {}
    /\ Zero \in Value /\ None \notin Sector \cup Client \cup {Flushd, Readd}
    /\ Op \subseteq {"read", "write", "overwrite", "fillzero"}

VARIABLES
    cache,           \* cache_table, without its locks
    victimIdx,       \* victim_idx
    cacheLock,       \* the holder of cache_lock, or None
    rwLock,          \* rwLock[b], dataLock[b]: the same of rw_lock, data_lock
    dataLock,
    disk,
    readList,        \* read_list
    pc,
    want,            \* the argument sector of cache_acquire
    op,              \* what the thread acquires the block for
    blk              \* the block a thread works on; i in cache_flush_all

tableVars == <<cache, victimIdx>>
threadVars == <<want, op>>
vars == <<cache, victimIdx, cacheLock, rwLock, dataLock, disk, readList, pc,
          want, op, blk>>

Block == 0 .. CacheSize - 1
User == Client \cup {Readd}
AllThreads == User \cup {Flushd}
Data == [Part -> Value]
ReadOnly(t) == op[t] \in {"read", "readahead"}

Goto(t, stage) == pc' = [pc EXCEPT ![t] = stage]
Unlocked(lock, t) == IF lock = t THEN None ELSE lock

-----------------------------------------------------------------------------
(* cache_acquire(s) is called by a client for the operation o.             *)
CacheAcquire(t, s, o) ==
    /\ pc[t] = "idle"
    /\ want' = [want EXCEPT ![t] = s]
    /\ op' = [op EXCEPT ![t] = o]
    /\ Goto(t, "lookup")
    /\ UNCHANGED <<tableVars, cacheLock, rwLock, dataLock, disk, readList, blk>>

(* cache_victim takes the first block from victim_idx on that is not       *)
(* valid; in its first round it takes no other.                            *)
FirstInvalid(b) ==
    \E n \in 0 .. CacheSize - 1 :
        /\ b = (victimIdx + n) % CacheSize /\ ~cache[b].valid
        /\ \A m \in 0 .. n - 1 : cache[(victimIdx + m) % CacheSize].valid

(* cache_acquire as far as it needs no second lock.  What it looks at here *)
(* is only changed by a thread that has cache_lock.                        *)
Lookup(t) ==
    /\ pc[t] = "lookup" /\ cacheLock = None
    /\ cacheLock' = t
    /\ \/ \E b \in Block :
             /\ cache[b].valid /\ cache[b].sector = want[t]
             /\ \A a \in 0 .. b - 1 : ~(cache[a].valid /\ cache[a].sector = want[t])
             /\ blk' = [blk EXCEPT ![t] = b]
             /\ Goto(t, "hit")
             /\ UNCHANGED victimIdx
       \/ /\ \A b \in Block : ~(cache[b].valid /\ cache[b].sector = want[t])
          /\ \/ \E b \in Block :
                   /\ FirstInvalid(b)
                   /\ victimIdx' = b
                   /\ blk' = [blk EXCEPT ![t] = b]
                   /\ Goto(t, "reset")
             \/ /\ \A b \in Block : cache[b].valid
                /\ Goto(t, "scan")
                /\ UNCHANGED <<victimIdx, blk>>
    /\ UNCHANGED <<cache, rwLock, dataLock, disk, readList, want, op>>

Hit(t) ==
    /\ pc[t] = "hit" /\ rwLock[blk[t]] = None
    /\ rwLock' = [rwLock EXCEPT ![blk[t]] = t]
    /\ cacheLock' = None
    /\ Goto(t, "enter")
    /\ UNCHANGED <<tableVars, dataLock, disk, readList, threadVars, blk>>

(* Mutant: a dirty victim is not flushed.                                  *)
VictimScanNoFlush(t) ==
    /\ pc[t] = "scan"
    /\ LET b == victimIdx
           inUse == {cache[b].readers, cache[b].writers, cache[b].readWaiters,
                     cache[b].writeWaiters} # {0}
       IN  \/ /\ inUse
              /\ victimIdx' = (b + 1) % CacheSize
              /\ UNCHANGED <<blk, pc>>
           \/ /\ ~inUse
              /\ blk' = [blk EXCEPT ![t] = b]
              /\ Goto(t, "reset")
              /\ UNCHANGED victimIdx
    /\ UNCHANGED <<cache, cacheLock, rwLock, dataLock, disk, readList, threadVars>>

(* A later turn of cache_victim's loop.  It looks at the block's counters  *)
(* without its rw_lock, and goes on as long as it finds no idle block.     *)
VictimScan(t) ==
    /\ pc[t] = "scan"
    /\ LET b == victimIdx
           inUse == {cache[b].readers, cache[b].writers, cache[b].readWaiters,
                     cache[b].writeWaiters} # {0}
       IN  \/ /\ inUse
              /\ victimIdx' = (b + 1) % CacheSize
              /\ UNCHANGED <<blk, pc>>
           \/ /\ ~inUse
              /\ blk' = [blk EXCEPT ![t] = b]
              /\ Goto(t, "flush")
              /\ UNCHANGED victimIdx
    /\ UNCHANGED <<cache, cacheLock, rwLock, dataLock, disk, readList, threadVars>>

(* Mutant: the victim's "loaded" is left as it was.                        *)
VictimResetKeepsLoaded(t) ==
    /\ pc[t] = "reset"
    /\ cache' = [cache EXCEPT ![blk[t]] = [@ EXCEPT !.valid = FALSE, !.dirty = FALSE]]
    /\ Goto(t, "claim")
    /\ UNCHANGED <<victimIdx, cacheLock, rwLock, dataLock, disk, readList,
                   threadVars, blk>>

(* Mutant: cache_lock is released before the victim is claimed.            *)
VictimResetUnlocks(t) ==
    /\ pc[t] = "reset"
    /\ cache' = [cache EXCEPT ![blk[t]] =
                    [@ EXCEPT !.valid = FALSE, !.loaded = FALSE, !.dirty = FALSE]]
    /\ cacheLock' = None
    /\ Goto(t, "claim")
    /\ UNCHANGED <<victimIdx, rwLock, dataLock, disk, readList, threadVars, blk>>

(* The end of cache_victim, which forgets what was in the block.           *)
VictimReset(t) ==
    /\ pc[t] = "reset"
    /\ cache' = [cache EXCEPT ![blk[t]] =
                    [@ EXCEPT !.valid = FALSE, !.loaded = FALSE, !.dirty = FALSE]]
    /\ Goto(t, "claim")
    /\ UNCHANGED <<victimIdx, cacheLock, rwLock, dataLock, disk, readList,
                   threadVars, blk>>

Claim(t) ==
    /\ pc[t] = "claim" /\ rwLock[blk[t]] = None
    /\ rwLock' = [rwLock EXCEPT ![blk[t]] = t]
    /\ cache' = [cache EXCEPT ![blk[t]] = [@ EXCEPT !.sector = want[t], !.valid = TRUE]]
    /\ Goto(t, "enter")
    /\ UNCHANGED <<victimIdx, cacheLock, dataLock, disk, readList, threadVars, blk>>

-----------------------------------------------------------------------------
(* Mutant: a writer does not wait for readers.                             *)
MustWaitWritersOnly(t, c) ==
    IF ReadOnly(t) THEN c.writers > 0 \/ c.writeWaiters > 0 ELSE c.writers > 0

(* The readers-writer lock.  c is the block as the waiting thread finds it *)
(* with rw_lock held; a writer that waits keeps new readers out.           *)
MustWait(t, c) ==
    IF ReadOnly(t) THEN c.writers > 0 \/ c.writeWaiters > 0
                   ELSE c.readers > 0 \/ c.writers > 0

Admitted(t, c) ==
    IF ReadOnly(t) THEN [c EXCEPT !.readers = @ + 1] ELSE [c EXCEPT !.writers = 1]

Queued(t, c, n) ==
    IF ReadOnly(t) THEN [c EXCEPT !.readWaiters = @ + n]
                   ELSE [c EXCEPT !.writeWaiters = @ + n]

(* The rest of cache_acquire once it has rw_lock: go in or wait.  cond_wait*)
(* gives up rw_lock only; cache_lock, if it is held, goes at the end.      *)
Enter(t) ==
    /\ pc[t] = "enter"
    /\ rwLock' = [rwLock EXCEPT ![blk[t]] = None]
    /\ IF MustWait(t, cache[blk[t]])
       THEN /\ cache' = [cache EXCEPT ![blk[t]] = Queued(t, @, 1)]
            /\ Goto(t, "wait")
            /\ UNCHANGED cacheLock
       ELSE /\ cache' = [cache EXCEPT ![blk[t]] = Admitted(t, @)]
            /\ cacheLock' = Unlocked(cacheLock, t)
            /\ Goto(t, "held")
    /\ UNCHANGED <<victimIdx, dataLock, disk, readList, threadVars, blk>>

(* Mutant: a signalled thread goes in without a second look.               *)
RecheckNot(t) ==
    /\ pc[t] = "notified" /\ rwLock[blk[t]] = None
    /\ cache' = [cache EXCEPT ![blk[t]] = Admitted(t, Queued(t, @, -1))]
    /\ cacheLock' = Unlocked(cacheLock, t)
    /\ Goto(t, "held")
    /\ UNCHANGED <<victimIdx, rwLock, dataLock, disk, readList, threadVars, blk>>

(* A signalled thread has rw_lock again and looks once more.               *)
Recheck(t) ==
    /\ pc[t] = "notified" /\ rwLock[blk[t]] = None
    /\ IF MustWait(t, cache[blk[t]])
       THEN Goto(t, "wait") /\ UNCHANGED <<cache, cacheLock>>
       ELSE /\ cache' = [cache EXCEPT ![blk[t]] = Admitted(t, Queued(t, @, -1))]
            /\ cacheLock' = Unlocked(cacheLock, t)
            /\ Goto(t, "held")
    /\ UNCHANGED <<victimIdx, rwLock, dataLock, disk, readList, threadVars, blk>>

CacheRelease(t) ==
    /\ pc[t] = "release" /\ cacheLock = None
    /\ cacheLock' = t
    /\ Goto(t, "releasing")
    /\ UNCHANGED <<tableVars, rwLock, dataLock, disk, readList, threadVars, blk>>

WaitingFor(b, readOnly) ==
    {u \in User : pc[u] = "wait" /\ blk[u] = b /\ ReadOnly(u) = readOnly}

(* cond_signal (&cache->write).                                            *)
SignalWriter(t) ==
    LET writers == WaitingFor(blk[t], FALSE)
    IN  IF writers = {} THEN Goto(t, "idle")
        ELSE \E w \in writers : pc' = [pc EXCEPT ![t] = "idle", ![w] = "notified"]

(* Mutant: cond_signal in the place of cond_broadcast.                     *)
BroadcastOne(t) ==
    LET readers == WaitingFor(blk[t], TRUE)
    IN  IF readers = {} THEN Goto(t, "idle")
        ELSE \E r \in readers : pc' = [pc EXCEPT ![t] = "idle", ![r] = "notified"]

(* cond_broadcast (&cache->read).                                          *)
BroadcastReaders(t) ==
    pc' = [u \in AllThreads |->
              IF u = t THEN "idle"
              ELSE IF u \in WaitingFor(blk[t], TRUE) THEN "notified" ELSE pc[u]]

(* The rest of cache_release, with both locks held.                        *)
Leave(t) ==
    /\ pc[t] = "releasing" /\ rwLock[blk[t]] = None
    /\ LET c == cache[blk[t]]
       IN  /\ cache' = [cache EXCEPT ![blk[t]] =
                           IF c.readers > 0 THEN [c EXCEPT !.readers = @ - 1]
                                            ELSE [c EXCEPT !.writers = 0]]
           /\ \/ c.writeWaiters > 0 /\ SignalWriter(t)
              \/ c.writeWaiters = 0 /\ c.readers > 0 /\ Goto(t, "idle")
              \/ c.writeWaiters = 0 /\ c.readers = 0 /\ BroadcastReaders(t)
    /\ cacheLock' = None
    /\ want' = [want EXCEPT ![t] = None]
    /\ op' = [op EXCEPT ![t] = None]
    /\ blk' = [blk EXCEPT ![t] = None]
    /\ UNCHANGED <<victimIdx, rwLock, dataLock, disk, readList>>

-----------------------------------------------------------------------------
(* cache_load on the block c.                                              *)
Loaded(c) ==
    IF c.loaded THEN c
    ELSE [c EXCEPT !.data = disk[c.sector], !.loaded = TRUE, !.dirty = FALSE]

(* cache_read and cache_write take data_lock and see to it that the block  *)
(* is loaded, unless all of it is to be written.                           *)
DataBegin(t) ==
    /\ pc[t] = "held" /\ op[t] \in {"read", "write", "overwrite"}
    /\ dataLock[blk[t]] = None
    /\ dataLock' = [dataLock EXCEPT ![blk[t]] = t]
    /\ cache' = [cache EXCEPT ![blk[t]] =
                    IF op[t] = "overwrite" THEN [@ EXCEPT !.loaded = TRUE]
                                           ELSE Loaded(@)]
    /\ Goto(t, "data")
    /\ UNCHANGED <<victimIdx, cacheLock, rwLock, disk, readList, threadVars, blk>>

Overwritten(d, parts, v) == [p \in Part |-> IF p \in parts THEN v ELSE d[p]]

(* The memcpy; of what a reader copies the block itself shows nothing.     *)
DataEnd(t) ==
    /\ pc[t] = "data"
    /\ \/ op[t] = "read" /\ UNCHANGED cache
       \/ /\ op[t] # "read"
          /\ \E v \in Value, parts \in IF op[t] = "overwrite" THEN {Part}
                                       ELSE {{p} : p \in Part} :
                cache' = [cache EXCEPT ![blk[t]] =
                    [@ EXCEPT !.data = Overwritten(cache[blk[t]].data, parts, v),
                              !.dirty = TRUE]]
    /\ dataLock' = [dataLock EXCEPT ![blk[t]] = None]
    /\ Goto(t, "release")
    /\ UNCHANGED <<victimIdx, cacheLock, rwLock, disk, readList, threadVars, blk>>

(* cache_fillzero does the same to all of the block without data_lock.     *)
ZeroBegin(t) ==
    /\ pc[t] = "held" /\ op[t] = "fillzero"
    /\ cache' = [cache EXCEPT ![blk[t]] = Loaded(@)]
    /\ Goto(t, "zero")
    /\ UNCHANGED <<victimIdx, cacheLock, rwLock, dataLock, disk, readList,
                   threadVars, blk>>

ZeroEnd(t) ==
    /\ pc[t] = "zero"
    /\ cache' = [cache EXCEPT ![blk[t]] =
                    [@ EXCEPT !.data = [p \in Part |-> Zero], !.dirty = TRUE]]
    /\ Goto(t, "release")
    /\ UNCHANGED <<victimIdx, cacheLock, rwLock, dataLock, disk, readList,
                   threadVars, blk>>

-----------------------------------------------------------------------------
(* cache_flush, in cache_victim and in cache_flush_all, and what comes     *)
(* after it there: the victim is reset, or the next block has its turn.    *)
FlushDone(t) ==
    IF t = Flushd
    THEN /\ cacheLock' = None
         /\ IF blk[t] = CacheSize - 1
            THEN Goto(t, "idle") /\ blk' = [blk EXCEPT ![t] = None]
            ELSE Goto(t, "nextBlock") /\ blk' = [blk EXCEPT ![t] = @ + 1]
    ELSE Goto(t, "reset") /\ UNCHANGED <<cacheLock, blk>>

(* Mutant: cache_flush does without data_lock.                             *)
CacheFlushUnlocked(t) ==
    /\ pc[t] = "flush"
    /\ LET c == cache[blk[t]]
       IN  IF c.loaded /\ c.dirty
           THEN /\ disk' = [disk EXCEPT ![c.sector] = c.data]
                /\ Goto(t, "flushed")
                /\ UNCHANGED <<cacheLock, dataLock, blk>>
           ELSE FlushDone(t) /\ UNCHANGED <<dataLock, disk>>
    /\ UNCHANGED <<tableVars, rwLock, readList, threadVars>>

CacheFlush(t) ==
    /\ pc[t] = "flush" /\ dataLock[blk[t]] = None
    /\ LET c == cache[blk[t]]
       IN  IF c.loaded /\ c.dirty
           THEN /\ dataLock' = [dataLock EXCEPT ![blk[t]] = t]
                /\ disk' = [disk EXCEPT ![c.sector] = c.data]
                /\ Goto(t, "flushed")
                /\ UNCHANGED <<cacheLock, blk>>
           ELSE FlushDone(t) /\ UNCHANGED <<dataLock, disk>>
    /\ UNCHANGED <<tableVars, rwLock, readList, threadVars>>

FlushEnd(t) ==
    /\ pc[t] = "flushed"
    /\ cache' = [cache EXCEPT ![blk[t]].dirty = FALSE]
    /\ dataLock' = [dataLock EXCEPT ![blk[t]] = None]
    /\ FlushDone(t)
    /\ UNCHANGED <<victimIdx, rwLock, disk, readList, threadVars>>

(* timer_sleep of cache_flushd is over.                                    *)
FlushAll ==
    /\ pc[Flushd] = "idle"
    /\ Goto(Flushd, "nextBlock")
    /\ blk' = [blk EXCEPT ![Flushd] = 0]
    /\ UNCHANGED <<tableVars, cacheLock, rwLock, dataLock, disk, readList, threadVars>>

FlushNext ==
    /\ pc[Flushd] = "nextBlock" /\ cacheLock = None
    /\ IF cache[blk[Flushd]].valid
       THEN cacheLock' = Flushd /\ Goto(Flushd, "flush") /\ UNCHANGED blk
       ELSE FlushDone(Flushd)
    /\ UNCHANGED <<tableVars, rwLock, dataLock, disk, readList, threadVars>>

-----------------------------------------------------------------------------
(* cache_read_request, unless its malloc fails.                            *)
ReadRequest(t, s) ==
    /\ pc[t] = "idle" /\ Len(readList) < MaxRequests
    /\ readList' = Append(readList, s)
    /\ UNCHANGED <<tableVars, cacheLock, rwLock, dataLock, disk, pc, threadVars, blk>>

(* One round of cache_readd, which loads the block without data_lock.      *)
ReadAhead ==
    /\ pc[Readd] = "idle" /\ readList # <<>>
    /\ readList' = Tail(readList)
    /\ want' = [want EXCEPT ![Readd] = Head(readList)]
    /\ op' = [op EXCEPT ![Readd] = "readahead"]
    /\ Goto(Readd, "lookup")
    /\ UNCHANGED <<tableVars, cacheLock, rwLock, dataLock, disk, blk>>

ReadAheadCheck ==
    /\ pc[Readd] = "held"
    /\ Goto(Readd, IF cache[blk[Readd]].loaded THEN "release" ELSE "readin")
    /\ UNCHANGED <<tableVars, cacheLock, rwLock, dataLock, disk, readList,
                   threadVars, blk>>

ReadAheadLoad ==
    /\ pc[Readd] = "readin"
    /\ cache' = [cache EXCEPT ![blk[Readd]] =
                    Loaded([@ EXCEPT !.loaded = FALSE])]
    /\ Goto(Readd, "release")
    /\ UNCHANGED <<victimIdx, cacheLock, rwLock, dataLock, disk, readList,
                   threadVars, blk>>

-----------------------------------------------------------------------------
(* cache_init; what the static table's data and sector hold is not used.   *)
Init ==
    /\ disk \in [Sector -> Data]
    /\ cache = [b \in Block |->
                   [valid |-> FALSE, loaded |-> FALSE, dirty |-> FALSE,
                    sector |-> CHOOSE s \in Sector : TRUE,
                    data |-> [p \in Part |-> Zero],
                    readers |-> 0, writers |-> 0,
                    readWaiters |-> 0, writeWaiters |-> 0]]
    /\ victimIdx = 0
    /\ cacheLock = None
    /\ rwLock = [b \in Block |-> None]
    /\ dataLock = [b \in Block |-> None]
    /\ readList = <<>>
    /\ pc = [t \in AllThreads |-> "idle"]
    /\ want = [t \in AllThreads |-> None]
    /\ op = [t \in AllThreads |-> None]
    /\ blk = [t \in AllThreads |-> None]

UserStep(t) ==
    \/ Lookup(t) \/ Hit(t) \/ VictimScan(t) \/ VictimReset(t) \/ Claim(t)
    \/ Enter(t) \/ Recheck(t) \/ CacheRelease(t) \/ Leave(t)
    \/ DataBegin(t) \/ DataEnd(t) \/ ZeroBegin(t) \/ ZeroEnd(t)

Next ==
    \/ \E t \in Client, s \in Sector :
          ReadRequest(t, s) \/ \E o \in Op : CacheAcquire(t, s, o)
    \/ \E t \in User : UserStep(t)
    \/ \E t \in AllThreads : CacheFlush(t) \/ FlushEnd(t)
    \/ FlushAll \/ FlushNext
    \/ ReadAhead \/ ReadAheadCheck \/ ReadAheadLoad

Spec == Init /\ [][Next]_vars

-----------------------------------------------------------------------------
PC == {"idle", "lookup", "hit", "scan", "flush", "flushed", "reset", "claim",
       "enter", "wait", "notified", "held", "data", "zero", "readin", "release",
       "releasing", "nextBlock"}

(* A struct cache, without its locks and conditions.                       *)
CacheBlock == [valid : BOOLEAN, loaded : BOOLEAN, dirty : BOOLEAN, sector : Sector,
               data : Data, readers : Nat, writers : 0 .. 1, readWaiters : Nat,
               writeWaiters : Nat]

(* Every variable has a value of its type.                                 *)
CacheTypeOK ==
    /\ cache \in [Block -> CacheBlock]
    /\ victimIdx \in Block
    /\ cacheLock \in AllThreads \cup {None}
    /\ rwLock \in [Block -> AllThreads \cup {None}]
    /\ dataLock \in [Block -> AllThreads \cup {None}]
    /\ disk \in [Sector -> Data]
    /\ readList \in Seq(Sector)
    /\ pc \in [AllThreads -> PC]
    /\ want \in [AllThreads -> Sector \cup {None}]
    /\ op \in [AllThreads -> Op \cup {"readahead", None}]
    /\ blk \in [AllThreads -> Block \cup {None}]

(* The threads that are between the return of cache_acquire and the end of *)
(* cache_release, and those that wait in cache_acquire.                    *)
Holders(b, readOnly) ==
    {t \in User : /\ pc[t] \in {"held", "data", "zero", "readin", "release", "releasing"}
                  /\ blk[t] = b /\ ReadOnly(t) = readOnly}
Waiters(b, readOnly) ==
    {t \in User : pc[t] \in {"wait", "notified"} /\ blk[t] = b /\ ReadOnly(t) = readOnly}

(* The counters of a block are the numbers of threads that read it, write  *)
(* it and wait for it, and it has one writer or any number of readers; so  *)
(* also when cache_victim reads the counters without rw_lock and hands the *)
(* block to another sector while a thread is on its way into it.           *)
ReadersWriter ==
    \A b \in Block :
        /\ cache[b].readers = Cardinality(Holders(b, TRUE))
        /\ cache[b].writers = Cardinality(Holders(b, FALSE))
        /\ cache[b].readWaiters = Cardinality(Waiters(b, TRUE))
        /\ cache[b].writeWaiters = Cardinality(Waiters(b, FALSE))
        /\ cache[b].writers = 0 \/ cache[b].readers = 0

(* No sector is in two blocks, whatever misses, evictions and read-ahead   *)
(* come together, so no two threads work on different copies of it.        *)
OneBlockPerSector ==
    \A a, b \in Block :
        cache[a].valid /\ cache[b].valid /\ cache[a].sector = cache[b].sector => a = b

(* No thread is left behind in cond_wait: when a block is free, a writer   *)
(* that waits for it has been signalled, or one that will signal on its    *)
(* way out has; and a reader waits only for a writer.                      *)
NobodyStranded ==
    \A b \in Block :
        /\ WaitingFor(b, FALSE) # {} /\ cache[b].readers = 0 /\ cache[b].writers = 0
              => \E t \in Waiters(b, FALSE) : pc[t] = "notified"
        /\ WaitingFor(b, TRUE) # {}
              => cache[b].writers > 0 \/ cache[b].writeWaiters > 0

-----------------------------------------------------------------------------
(* The store that the cache implements.  What a reader finds is the data   *)
(* of a dirty block or else what is on the disk.                           *)
Content(s) ==
    LET held == {b \in Block : cache[b].valid /\ cache[b].loaded /\ cache[b].dirty
                               /\ cache[b].sector = s}
    IN  IF held = {} THEN disk[s] ELSE cache[CHOOSE b \in held : TRUE].data

InBlock(t) == pc[t] \in {"held", "data", "zero", "readin"}
ReadingOf(t) ==
    IF InBlock(t) /\ ReadOnly(t) THEN want[t] ELSE None
WritingOf(t) ==
    IF InBlock(t) /\ ~ReadOnly(t) THEN want[t] ELSE None

Store == INSTANCE AbstractStore
    WITH Client <- User, content <- [s \in Sector |-> Content(s)],
         reading <- [t \in User |-> ReadingOf(t)],
         writing <- [t \in User |-> WritingOf(t)]

(* The cache implements the store: a sector is open to readers or to one   *)
(* writer, and what is found in it changes only when its writer changes    *)
(* it; not when a block is loaded, flushed by either thread or dropped.    *)
ImplementsStore == Store!Spec

-----------------------------------------------------------------------------
(* The design report says that cache_victim finds a block which is not     *)
(* allocated by any process: nobody holds it when it is given to another   *)
(* sector.                                                                 *)
VictimIsUnallocated ==
    \A t \in User :
        pc[t] = "claim" => Holders(blk[t], TRUE) = {} /\ Holders(blk[t], FALSE) = {}

(* The design report says of "dirty" that the data is updated from the     *)
(* data in the disk: a block that is not dirty has what the disk has.      *)
CleanIsOnDisk ==
    \A b \in Block :
        cache[b].valid /\ cache[b].loaded /\ ~cache[b].dirty /\ dataLock[b] = None
            => cache[b].data = disk[cache[b].sector]
=============================================================================
