----------------------------- MODULE CacheProofs -----------------------------
(***************************************************************************)
(* Proofs about the buffer cache, for any number of threads, blocks and    *)
(* sectors: its invariants with all its operations, cache_fillzero and     *)
(* replacement under several clients included; and that it implements the  *)
(* store without the two things that stand in its way.                     *)
(***************************************************************************)
EXTENDS MCCacheStore, FiniteSetTheorems, TLAPS

-----------------------------------------------------------------------------
(* How far a thread is.                                                    *)
HoldStage == {"held", "data", "zero", "readin", "release", "releasing"}
WaitStage == {"wait", "notified"}
FlushStage == {"idle", "nextBlock", "flush", "flushed"}
(* ... and holds cache_lock; ... and has found its sector in no block.     *)
LockStage == {"hit", "scan", "flush", "flushed", "reset", "claim", "releasing"}
MissStage == {"scan", "flush", "flushed", "reset", "claim"}

StagesOK ==
    /\ \A t \in User : pc[t] # "nextBlock" /\ (pc[t] # "idle" => want[t] \in Sector)
    /\ pc[Flushd] \in FlushStage
    /\ \A t \in AllThreads : pc[t] \notin {"idle", "lookup", "scan"} => blk[t] \in Block

LockOK == \A t \in AllThreads : pc[t] \in LockStage => cacheLock = t

MissOK ==
    \A t \in User, b \in Block :
        pc[t] \in MissStage => ~(cache[b].valid /\ cache[b].sector = want[t])

CacheInv ==
    /\ CacheTypeOK /\ StagesOK /\ LockOK
    /\ MissOK /\ OneBlockPerSector
    /\ ReadersWriter /\ NobodyStranded

-----------------------------------------------------------------------------
(* Types.                                                                  *)
LEMMA BlockTypes ==
    ASSUME CacheTypeOK, NEW b \in Block
    PROVE  /\ cache[b] \in CacheBlock
           /\ cache[b].valid \in BOOLEAN /\ cache[b].loaded \in BOOLEAN
           /\ cache[b].dirty \in BOOLEAN /\ cache[b].sector \in Sector
           /\ cache[b].data \in Data /\ cache[b].readers \in Nat
           /\ cache[b].writers \in 0 .. 1 /\ cache[b].readWaiters \in Nat
           /\ cache[b].writeWaiters \in Nat
  BY DEF CacheTypeOK, CacheBlock

LEMMA LoadedType ==
    ASSUME NEW c \in CacheBlock, disk \in [Sector -> Data]
    PROVE  /\ Loaded(c) \in CacheBlock
           /\ Loaded(c).valid = c.valid /\ Loaded(c).sector = c.sector
           /\ Loaded(c).readers = c.readers /\ Loaded(c).writers = c.writers
           /\ Loaded(c).readWaiters = c.readWaiters
           /\ Loaded(c).writeWaiters = c.writeWaiters
  BY DEF Loaded, CacheBlock

LEMMA UpdateTypes ==
    ASSUME NEW c \in CacheBlock
    PROVE  /\ [c EXCEPT !.valid = FALSE, !.loaded = FALSE, !.dirty = FALSE] \in CacheBlock
           /\ [c EXCEPT !.dirty = FALSE] \in CacheBlock
           /\ [c EXCEPT !.loaded = FALSE] \in CacheBlock
           /\ [c EXCEPT !.loaded = TRUE] \in CacheBlock
           /\ \A s \in Sector : [c EXCEPT !.sector = s, !.valid = TRUE] \in CacheBlock
           /\ \A d \in Data : [c EXCEPT !.data = d, !.dirty = TRUE] \in CacheBlock
  BY DEF CacheBlock

(* What the steps of the readers-writer lock do to the counters.           *)
LEMMA QueuedFields ==
    ASSUME NEW c \in CacheBlock, NEW t, NEW n \in {1, -1},
           n = -1 => IF ReadOnly(t) THEN c.readWaiters > 0 ELSE c.writeWaiters > 0
    PROVE  /\ Queued(t, c, n) \in CacheBlock
           /\ Queued(t, c, n).valid = c.valid /\ Queued(t, c, n).sector = c.sector
           /\ Queued(t, c, n).readers = c.readers /\ Queued(t, c, n).writers = c.writers
           /\ Queued(t, c, n).readWaiters =
                 IF ReadOnly(t) THEN c.readWaiters + n ELSE c.readWaiters
           /\ Queued(t, c, n).writeWaiters =
                 IF ReadOnly(t) THEN c.writeWaiters ELSE c.writeWaiters + n
<1>1. CASE ReadOnly(t)
  <2>1. c.readWaiters + n \in Nat
    BY <1>1 DEF CacheBlock
  <2>2. Queued(t, c, n) = [c EXCEPT !.readWaiters = c.readWaiters + n]
    BY <1>1 DEF Queued
  <2>3. QED
    BY <1>1, <2>1, <2>2 DEF CacheBlock
<1>2. CASE ~ReadOnly(t)
  <2>1. c.writeWaiters + n \in Nat
    BY <1>2 DEF CacheBlock
  <2>2. Queued(t, c, n) = [c EXCEPT !.writeWaiters = c.writeWaiters + n]
    BY <1>2 DEF Queued
  <2>3. QED
    BY <1>2, <2>1, <2>2 DEF CacheBlock
<1>3. QED
  BY <1>1, <1>2

LEMMA AdmittedFields ==
    ASSUME NEW c \in CacheBlock, NEW t
    PROVE  /\ Admitted(t, c) \in CacheBlock
           /\ Admitted(t, c).valid = c.valid /\ Admitted(t, c).sector = c.sector
           /\ Admitted(t, c).readWaiters = c.readWaiters
           /\ Admitted(t, c).writeWaiters = c.writeWaiters
           /\ Admitted(t, c).readers = IF ReadOnly(t) THEN c.readers + 1 ELSE c.readers
           /\ Admitted(t, c).writers = IF ReadOnly(t) THEN c.writers ELSE 1
<1>1. CASE ReadOnly(t)
  <2>1. c.readers + 1 \in Nat
    BY DEF CacheBlock
  <2>2. Admitted(t, c) = [c EXCEPT !.readers = c.readers + 1]
    BY <1>1 DEF Admitted
  <2>3. QED
    BY <1>1, <2>1, <2>2 DEF CacheBlock
<1>2. CASE ~ReadOnly(t)
  <2>1. Admitted(t, c) = [c EXCEPT !.writers = 1]
    BY <1>2 DEF Admitted
  <2>2. QED
    BY <1>2, <2>1 DEF CacheBlock
<1>3. QED
  BY <1>1, <1>2

Left(c) ==
    IF c.readers > 0 THEN [c EXCEPT !.readers = @ - 1] ELSE [c EXCEPT !.writers = 0]

LEMMA LeftFields ==
    ASSUME NEW c \in CacheBlock
    PROVE  /\ Left(c) \in CacheBlock
           /\ Left(c).valid = c.valid /\ Left(c).sector = c.sector
           /\ Left(c).readWaiters = c.readWaiters /\ Left(c).writeWaiters = c.writeWaiters
           /\ Left(c).readers = IF c.readers > 0 THEN c.readers - 1 ELSE c.readers
           /\ Left(c).writers = IF c.readers > 0 THEN c.writers ELSE 0
<1>1. CASE c.readers > 0
  <2>1. c.readers - 1 \in Nat
    BY <1>1 DEF CacheBlock
  <2>2. Left(c) = [c EXCEPT !.readers = c.readers - 1]
    BY <1>1 DEF Left
  <2>3. QED
    BY <1>1, <2>1, <2>2 DEF CacheBlock
<1>2. CASE ~(c.readers > 0)
  <2>1. Left(c) = [c EXCEPT !.writers = 0]
    BY <1>2 DEF Left
  <2>2. QED
    BY <1>2, <2>1 DEF CacheBlock
<1>3. QED
  BY <1>1, <1>2

(* The threads of a block that are counted, and the counters.              *)
LEMMA FiniteThreads ==
    ASSUME NEW b, NEW ro
    PROVE  /\ IsFiniteSet(User)
           /\ IsFiniteSet(Holders(b, ro)) /\ IsFiniteSet(Waiters(b, ro))
<1>1. IsFiniteSet(User)
  BY CacheAssumption, FS_AddElement DEF CacheAssumption, User
<1>2. Holders(b, ro) \subseteq User /\ Waiters(b, ro) \subseteq User
  BY DEF Holders, Waiters
<1>3. QED
  BY <1>1, <1>2, FS_Subset

LEMMA Counted ==
    ASSUME CacheTypeOK, ReadersWriter, NEW t \in User, blk[t] \in Block
    PROVE  /\ pc[t] \in WaitStage => IF ReadOnly(t) THEN cache[blk[t]].readWaiters > 0
                                                    ELSE cache[blk[t]].writeWaiters > 0
           /\ pc[t] \in HoldStage => IF ReadOnly(t) THEN cache[blk[t]].readers > 0
                                                    ELSE cache[blk[t]].writers = 1
<1> DEFINE b == blk[t]  ro == ReadOnly(t)
<1>1. ASSUME NEW S, IsFiniteSet(S), t \in S PROVE Cardinality(S) \in Nat /\ Cardinality(S) # 0
  BY <1>1, FS_CardinalityType, FS_EmptySet
<1>2. pc[t] \in WaitStage => t \in Waiters(b, ro)
  BY DEF Waiters, WaitStage
<1>3. pc[t] \in HoldStage => t \in Holders(b, ro)
  BY DEF Holders, HoldStage
<1>4. ro \in BOOLEAN
  BY DEF ReadOnly
<1>5. cache[b].writers \in 0 .. 1
  BY DEF CacheTypeOK, CacheBlock
<1>6. pc[t] \in WaitStage => Cardinality(Waiters(b, ro)) > 0
  BY <1>1, <1>2, FiniteThreads
<1>7. pc[t] \in HoldStage => Cardinality(Holders(b, ro)) > 0
  BY <1>1, <1>3, FiniteThreads
<1>8. /\ cache[b].readers = Cardinality(Holders(b, TRUE))
      /\ cache[b].writers = Cardinality(Holders(b, FALSE))
      /\ cache[b].readWaiters = Cardinality(Waiters(b, TRUE))
      /\ cache[b].writeWaiters = Cardinality(Waiters(b, FALSE))
  BY DEF ReadersWriter
<1>9. CASE ro
  BY <1>6, <1>7, <1>8, <1>9
<1>10. CASE ~ro
  <2>1. ro = FALSE
    BY <1>4, <1>10
  <2>2. pc[t] \in WaitStage => cache[b].writeWaiters > 0
    BY <1>6, <1>8, <2>1
  <2>3. pc[t] \in HoldStage => cache[b].writers > 0
    BY <1>7, <1>8, <2>1
  <2>4. QED
    BY <1>5, <1>10, <2>2, <2>3
<1>11. QED
  BY <1>9, <1>10

LEMMA NextBlock ==
    ASSUME NEW b \in Block, b # CacheSize - 1 PROVE b + 1 \in Block
  BY CacheAssumption DEF CacheAssumption, Block

LEMMA TypeStep == CacheTypeOK /\ StagesOK /\ ReadersWriter /\ [Next]_vars => CacheTypeOK'
<1> SUFFICES ASSUME CacheTypeOK, StagesOK, ReadersWriter, [Next]_vars PROVE CacheTypeOK'
  OBVIOUS
<1> USE CacheAssumption DEF CacheAssumption
<1> USE DEF CacheTypeOK, StagesOK, Goto, PC, AllThreads, User
<1>1. ASSUME NEW t \in Client, NEW s \in Sector, ReadRequest(t, s) PROVE CacheTypeOK'
  BY <1>1 DEF ReadRequest, tableVars, threadVars
<1>2. ASSUME NEW t \in Client, NEW s \in Sector, NEW o \in Op, CacheAcquire(t, s, o)
      PROVE CacheTypeOK'
  BY <1>2 DEF CacheAcquire, tableVars
<1>3. ASSUME NEW t \in User, Lookup(t) PROVE CacheTypeOK'
  BY <1>3 DEF Lookup
<1>4. ASSUME NEW t \in User, Hit(t) PROVE CacheTypeOK'
  BY <1>4 DEF Hit, tableVars, threadVars
<1>5. ASSUME NEW t \in User, VictimScan(t) PROVE CacheTypeOK'
  <2>1. (victimIdx + 1) % CacheSize \in Block
    BY DEF Block
  <2>2. victimIdx' \in Block /\ blk' \in [AllThreads -> Block \cup {None}]
    BY <1>5, <2>1 DEF VictimScan
  <2>3. QED
    BY <1>5, <2>2 DEF VictimScan, threadVars
<1>6. ASSUME NEW t \in User, VictimReset(t) PROVE CacheTypeOK'
  <2>1. blk[t] \in Block /\ cache[blk[t]] \in CacheBlock
    BY <1>6 DEF VictimReset
  <2>2. cache' \in [Block -> CacheBlock]
    BY <1>6, <2>1, UpdateTypes DEF VictimReset
  <2>3. QED
    BY <1>6, <2>2 DEF VictimReset, threadVars
<1>7. ASSUME NEW t \in User, Claim(t) PROVE CacheTypeOK'
  <2>1. blk[t] \in Block /\ cache[blk[t]] \in CacheBlock
    BY <1>7 DEF Claim
  <2>2. cache' \in [Block -> CacheBlock]
    BY <1>7, <2>1, UpdateTypes DEF Claim
  <2>3. QED
    BY <1>7, <2>2 DEF Claim, threadVars
<1>8. ASSUME NEW t \in User, Enter(t) PROVE CacheTypeOK'
  <2>1. blk[t] \in Block /\ cache[blk[t]] \in CacheBlock
    BY <1>8 DEF Enter
  <2>2. Queued(t, cache[blk[t]], 1) \in CacheBlock /\ Admitted(t, cache[blk[t]]) \in CacheBlock
    BY <2>1, QueuedFields, AdmittedFields
  <2>3. cache' \in [Block -> CacheBlock]
    BY <1>8, <2>1, <2>2 DEF Enter
  <2>4. QED
    BY <1>8, <2>1, <2>3 DEF Enter, threadVars, Unlocked
<1>9. ASSUME NEW t \in User, Recheck(t) PROVE CacheTypeOK'
  <2>1. blk[t] \in Block /\ cache[blk[t]] \in CacheBlock
    BY <1>9 DEF Recheck
  <2> DEFINE c == Queued(t, cache[blk[t]], -1)
  <2>2. IF ReadOnly(t) THEN cache[blk[t]].readWaiters > 0 ELSE cache[blk[t]].writeWaiters > 0
    BY <1>9, <2>1, Counted DEF Recheck, WaitStage
  <2>3. c \in CacheBlock
    BY <2>1, <2>2, QueuedFields
  <2>4. Admitted(t, c) \in CacheBlock
    BY <2>3, AdmittedFields
  <2>5. cache' \in [Block -> CacheBlock]
    BY <1>9, <2>1, <2>4 DEF Recheck
  <2>6. QED
    BY <1>9, <2>5 DEF Recheck, threadVars, Unlocked
<1>10. ASSUME NEW t \in User, CacheRelease(t) PROVE CacheTypeOK'
  BY <1>10 DEF CacheRelease, tableVars, threadVars
<1>11. ASSUME NEW t \in User, Leave(t) PROVE CacheTypeOK'
  <2>1. blk[t] \in Block /\ cache[blk[t]] \in CacheBlock
    BY <1>11 DEF Leave
  <2>2. cache' = [cache EXCEPT ![blk[t]] = Left(cache[blk[t]])]
    <3>1. CASE cache[blk[t]].readers > 0
      BY <1>11, <2>1, <3>1 DEF Leave, Left
    <3>2. CASE ~(cache[blk[t]].readers > 0)
      BY <1>11, <2>1, <3>2 DEF Leave, Left
    <3>3. QED
      BY <3>1, <3>2
  <2>3. cache' \in [Block -> CacheBlock]
    BY <2>1, <2>2, LeftFields
  <2>4. pc' \in [AllThreads -> PC]
    <3>1. CASE SignalWriter(t)
      BY <3>1 DEF SignalWriter, WaitingFor
    <3>2. CASE Goto(t, "idle")
      BY <3>2
    <3>3. CASE BroadcastReaders(t)
      BY <3>3 DEF BroadcastReaders
    <3>4. QED
      BY <1>11, <3>1, <3>2, <3>3 DEF Leave
  <2>5. QED
    BY <1>11, <2>3, <2>4 DEF Leave
<1>12. ASSUME NEW t \in User, DataBegin(t) PROVE CacheTypeOK'
  <2>1. blk[t] \in Block /\ cache[blk[t]] \in CacheBlock
    BY <1>12 DEF DataBegin
  <2>2. cache' \in [Block -> CacheBlock]
    BY <1>12, <2>1, UpdateTypes, LoadedType DEF DataBegin
  <2>3. QED
    BY <1>12, <2>2 DEF DataBegin, threadVars
<1>13. ASSUME NEW t \in User, DataEnd(t) PROVE CacheTypeOK'
  <2>1. blk[t] \in Block /\ cache[blk[t]] \in CacheBlock
    BY <1>13 DEF DataEnd
  <2>2. \A v \in Value : \A parts : Overwritten(cache[blk[t]].data, parts, v) \in Data
    BY <2>1 DEF Overwritten, Data, CacheBlock
  <2>3. cache' \in [Block -> CacheBlock]
    <3>1. CASE op[t] = "read"
      BY <1>13, <3>1 DEF DataEnd
    <3>2. CASE op[t] # "read"
      <4>1. PICK v \in Value, parts \in {Part} \cup {{p} : p \in Part} :
               cache' = [cache EXCEPT ![blk[t]] =
                   [@ EXCEPT !.data = Overwritten(cache[blk[t]].data, parts, v),
                             !.dirty = TRUE]]
        BY <1>13, <3>2 DEF DataEnd
      <4> DEFINE d == Overwritten(cache[blk[t]].data, parts, v)
      <4>2. [cache[blk[t]] EXCEPT !.data = d, !.dirty = TRUE] \in CacheBlock
        BY <2>1, <2>2, UpdateTypes
      <4>3. cache' = [cache EXCEPT ![blk[t]] =
                          [cache[blk[t]] EXCEPT !.data = d, !.dirty = TRUE]]
        BY <2>1, <4>1
      <4>4. QED
        BY <2>1, <4>2, <4>3
    <3>3. QED
      BY <3>1, <3>2
  <2>4. QED
    BY <1>13, <2>3 DEF DataEnd, threadVars
<1>14. ASSUME NEW t \in User, ZeroBegin(t) PROVE CacheTypeOK'
  <2>1. blk[t] \in Block /\ cache[blk[t]] \in CacheBlock
    BY <1>14 DEF ZeroBegin
  <2>2. cache' \in [Block -> CacheBlock]
    BY <1>14, <2>1, UpdateTypes, LoadedType DEF ZeroBegin
  <2>3. QED
    BY <1>14, <2>2 DEF ZeroBegin, threadVars
<1>15. ASSUME NEW t \in User, ZeroEnd(t) PROVE CacheTypeOK'
  <2>1. blk[t] \in Block /\ cache[blk[t]] \in CacheBlock
    BY <1>15 DEF ZeroEnd
  <2>2. cache' \in [Block -> CacheBlock]
    BY <1>15, <2>1, UpdateTypes DEF ZeroEnd, Data
  <2>3. QED
    BY <1>15, <2>2 DEF ZeroEnd, threadVars
<1>16. ASSUME NEW t \in AllThreads, CacheFlush(t) PROVE CacheTypeOK'
  <2>1. blk[t] \in Block /\ cache[blk[t]] \in CacheBlock
    BY <1>16 DEF CacheFlush
  <2>2. disk' \in [Sector -> Data]
    BY <1>16, <2>1, BlockTypes DEF CacheFlush
  <2>3. blk[t] # CacheSize - 1 => blk[t] + 1 \in Block
    BY <2>1, NextBlock
  <2>4. blk' \in [AllThreads -> Block \cup {None}]
    BY <1>16, <2>1, <2>3 DEF CacheFlush, FlushDone
  <2>5. QED
    BY <1>16, <2>2, <2>4 DEF CacheFlush, FlushDone, tableVars, threadVars
<1>17. ASSUME NEW t \in AllThreads, FlushEnd(t) PROVE CacheTypeOK'
  <2>1. blk[t] \in Block /\ cache[blk[t]] \in CacheBlock
    BY <1>17 DEF FlushEnd
  <2>2. cache' \in [Block -> CacheBlock]
    BY <1>17, <2>1, UpdateTypes DEF FlushEnd
  <2>3. blk' \in [AllThreads -> Block \cup {None}]
    BY <1>17, <2>1 DEF FlushEnd, FlushDone, Block
  <2>4. QED
    BY <1>17, <2>2, <2>3 DEF FlushEnd, FlushDone, threadVars
<1>18. ASSUME FlushAll PROVE CacheTypeOK'
  BY <1>18 DEF FlushAll, tableVars, threadVars, Block
<1>19. ASSUME FlushNext PROVE CacheTypeOK'
  BY <1>19 DEF FlushNext, FlushDone, tableVars, threadVars, Block
<1>20. ASSUME ReadAhead PROVE CacheTypeOK'
  BY <1>20 DEF ReadAhead, tableVars
<1>21. ASSUME ReadAheadCheck PROVE CacheTypeOK'
  BY <1>21 DEF ReadAheadCheck, tableVars, threadVars
<1>22. ASSUME ReadAheadLoad PROVE CacheTypeOK'
  <2>1. blk[Readd] \in Block /\ cache[blk[Readd]] \in CacheBlock
    BY <1>22 DEF ReadAheadLoad
  <2>2. cache' \in [Block -> CacheBlock]
    BY <1>22, <2>1, UpdateTypes, LoadedType DEF ReadAheadLoad
  <2>3. QED
    BY <1>22, <2>2 DEF ReadAheadLoad, threadVars
<1>23. ASSUME UNCHANGED vars PROVE CacheTypeOK'
  BY <1>23 DEF vars
<1>24. QED
  BY <1>1, <1>2, <1>3, <1>4, <1>5, <1>6, <1>7, <1>8, <1>9, <1>10, <1>11, <1>12, <1>13,
     <1>14, <1>15, <1>16, <1>17, <1>18, <1>19, <1>20, <1>21, <1>22, <1>23
     DEF Next, UserStep
LEMMA StagesStep == CacheTypeOK /\ StagesOK /\ [Next]_vars => StagesOK'
<1> SUFFICES ASSUME CacheTypeOK, StagesOK, [Next]_vars PROVE StagesOK'
  OBVIOUS
<1> USE CacheAssumption DEF CacheAssumption
<1> USE DEF CacheTypeOK, StagesOK, Goto, AllThreads, User, FlushStage
<1>1. ASSUME NEW t \in Client, NEW s \in Sector, ReadRequest(t, s) PROVE StagesOK'
  BY <1>1 DEF ReadRequest, tableVars, threadVars
<1>2. ASSUME NEW t \in Client, NEW s \in Sector, NEW o \in Op, CacheAcquire(t, s, o) PROVE StagesOK'
  BY <1>2 DEF CacheAcquire, tableVars
<1>3. ASSUME NEW t \in User, Lookup(t) PROVE StagesOK'
  BY <1>3 DEF Lookup
<1>4. ASSUME NEW t \in User, Hit(t) PROVE StagesOK'
  BY <1>4 DEF Hit, tableVars, threadVars
<1>5. ASSUME NEW t \in User, VictimScan(t) PROVE StagesOK'
  BY <1>5 DEF VictimScan, threadVars
<1>6. ASSUME NEW t \in User, VictimReset(t) PROVE StagesOK'
  BY <1>6 DEF VictimReset, threadVars
<1>7. ASSUME NEW t \in User, Claim(t) PROVE StagesOK'
  BY <1>7 DEF Claim, threadVars
<1>8. ASSUME NEW t \in User, Enter(t) PROVE StagesOK'
  BY <1>8 DEF Enter, Unlocked, threadVars
<1>9. ASSUME NEW t \in User, Recheck(t) PROVE StagesOK'
  BY <1>9 DEF Recheck, Unlocked, threadVars
<1>10. ASSUME NEW t \in User, CacheRelease(t) PROVE StagesOK'
  BY <1>10 DEF CacheRelease, tableVars, threadVars
<1>11. ASSUME NEW t \in User, Leave(t) PROVE StagesOK'
  BY <1>11 DEF Leave, SignalWriter, BroadcastReaders, WaitingFor
<1>12. ASSUME NEW t \in User, DataBegin(t) PROVE StagesOK'
  BY <1>12 DEF DataBegin, threadVars
<1>13. ASSUME NEW t \in User, DataEnd(t) PROVE StagesOK'
  BY <1>13 DEF DataEnd, threadVars
<1>14. ASSUME NEW t \in User, ZeroBegin(t) PROVE StagesOK'
  BY <1>14 DEF ZeroBegin, threadVars
<1>15. ASSUME NEW t \in User, ZeroEnd(t) PROVE StagesOK'
  BY <1>15 DEF ZeroEnd, threadVars
<1>16. ASSUME NEW t \in AllThreads, CacheFlush(t) PROVE StagesOK'
  BY <1>16, NextBlock DEF CacheFlush, FlushDone, tableVars, threadVars
<1>17. ASSUME NEW t \in AllThreads, FlushEnd(t) PROVE StagesOK'
  <2>1. blk[t] \in Block
    BY <1>17 DEF FlushEnd
  <2>2. CASE t # Flushd
    BY <1>17, <2>2 DEF FlushEnd, FlushDone, threadVars
  <2>3. CASE t = Flushd /\ blk[t] = CacheSize - 1
    BY <1>17, <2>3 DEF FlushEnd, FlushDone, threadVars
  <2>4. CASE t = Flushd /\ blk[t] # CacheSize - 1
    <3>1. blk[t] + 1 \in Block
      BY <2>1, <2>4, NextBlock
    <3>2. QED
      BY <1>17, <2>4, <3>1 DEF FlushEnd, FlushDone, threadVars
  <2>5. QED
    BY <2>2, <2>3, <2>4
<1>18. ASSUME FlushAll PROVE StagesOK'
  <2>1. 0 \in Block
    BY DEF Block
  <2>2. QED
    BY <1>18, <2>1 DEF FlushAll, tableVars, threadVars
<1>19. ASSUME FlushNext PROVE StagesOK'
  BY <1>19, NextBlock DEF FlushNext, FlushDone, tableVars, threadVars
<1>20. ASSUME ReadAhead PROVE StagesOK'
  BY <1>20 DEF ReadAhead, tableVars
<1>21. ASSUME ReadAheadCheck PROVE StagesOK'
  BY <1>21 DEF ReadAheadCheck, tableVars, threadVars
<1>22. ASSUME ReadAheadLoad PROVE StagesOK'
  BY <1>22 DEF ReadAheadLoad, threadVars
<1>23. ASSUME UNCHANGED vars PROVE StagesOK'
  BY <1>23 DEF vars
<1>24. QED
  BY <1>1, <1>2, <1>3, <1>4, <1>5, <1>6, <1>7, <1>8, <1>9, <1>10, <1>11, <1>12,
     <1>13, <1>14, <1>15, <1>16, <1>17, <1>18, <1>19, <1>20, <1>21, <1>22, <1>23
     DEF Next, UserStep

LEMMA LockStep == CacheTypeOK /\ StagesOK /\ LockOK /\ [Next]_vars => LockOK'
<1> SUFFICES ASSUME CacheTypeOK, StagesOK, LockOK, [Next]_vars PROVE LockOK'
  OBVIOUS
<1> USE CacheAssumption DEF CacheAssumption
<1> USE DEF CacheTypeOK, StagesOK, LockOK, LockStage, Goto, AllThreads, User, FlushStage
<1>1. ASSUME NEW t \in Client, NEW s \in Sector, ReadRequest(t, s) PROVE LockOK'
  BY <1>1 DEF ReadRequest, tableVars, threadVars
<1>2. ASSUME NEW t \in Client, NEW s \in Sector, NEW o \in Op, CacheAcquire(t, s, o) PROVE LockOK'
  BY <1>2 DEF CacheAcquire, tableVars
<1>3. ASSUME NEW t \in User, Lookup(t) PROVE LockOK'
  BY <1>3 DEF Lookup
<1>4. ASSUME NEW t \in User, Hit(t) PROVE LockOK'
  BY <1>4 DEF Hit, tableVars, threadVars
<1>5. ASSUME NEW t \in User, VictimScan(t) PROVE LockOK'
  BY <1>5 DEF VictimScan, threadVars
<1>6. ASSUME NEW t \in User, VictimReset(t) PROVE LockOK'
  BY <1>6 DEF VictimReset, threadVars
<1>7. ASSUME NEW t \in User, Claim(t) PROVE LockOK'
  BY <1>7 DEF Claim, threadVars
<1>8. ASSUME NEW t \in User, Enter(t) PROVE LockOK'
  BY <1>8 DEF Enter, Unlocked, threadVars
<1>9. ASSUME NEW t \in User, Recheck(t) PROVE LockOK'
  BY <1>9 DEF Recheck, Unlocked, threadVars
<1>10. ASSUME NEW t \in User, CacheRelease(t) PROVE LockOK'
  BY <1>10 DEF CacheRelease, tableVars, threadVars
<1>11. ASSUME NEW t \in User, Leave(t) PROVE LockOK'
  BY <1>11 DEF Leave, SignalWriter, BroadcastReaders, WaitingFor
<1>12. ASSUME NEW t \in User, DataBegin(t) PROVE LockOK'
  BY <1>12 DEF DataBegin, threadVars
<1>13. ASSUME NEW t \in User, DataEnd(t) PROVE LockOK'
  BY <1>13 DEF DataEnd, threadVars
<1>14. ASSUME NEW t \in User, ZeroBegin(t) PROVE LockOK'
  BY <1>14 DEF ZeroBegin, threadVars
<1>15. ASSUME NEW t \in User, ZeroEnd(t) PROVE LockOK'
  BY <1>15 DEF ZeroEnd, threadVars
<1>16. ASSUME NEW t \in AllThreads, CacheFlush(t) PROVE LockOK'
  BY <1>16 DEF CacheFlush, FlushDone, tableVars, threadVars
<1>17. ASSUME NEW t \in AllThreads, FlushEnd(t) PROVE LockOK'
  BY <1>17 DEF FlushEnd, FlushDone, threadVars
<1>18. ASSUME FlushAll PROVE LockOK'
  BY <1>18 DEF FlushAll, tableVars, threadVars
<1>19. ASSUME FlushNext PROVE LockOK'
  BY <1>19 DEF FlushNext, FlushDone, tableVars, threadVars
<1>20. ASSUME ReadAhead PROVE LockOK'
  BY <1>20 DEF ReadAhead, tableVars
<1>21. ASSUME ReadAheadCheck PROVE LockOK'
  BY <1>21 DEF ReadAheadCheck, tableVars, threadVars
<1>22. ASSUME ReadAheadLoad PROVE LockOK'
  BY <1>22 DEF ReadAheadLoad, threadVars
<1>23. ASSUME UNCHANGED vars PROVE LockOK'
  BY <1>23 DEF vars
<1>24. QED
  BY <1>1, <1>2, <1>3, <1>4, <1>5, <1>6, <1>7, <1>8, <1>9, <1>10, <1>11, <1>12,
     <1>13, <1>14, <1>15, <1>16, <1>17, <1>18, <1>19, <1>20, <1>21, <1>22, <1>23
     DEF Next, UserStep

-----------------------------------------------------------------------------
(* What the steps do to the blocks, apart from their data.  Which sector a *)
(* block has is changed by VictimReset and Claim, its counters by Enter,   *)
(* Recheck and Leave.                                                      *)
SameTable ==
    \A b \in Block : cache'[b].valid = cache[b].valid /\ cache'[b].sector = cache[b].sector
SameCounters ==
    \A b \in Block :
        /\ cache'[b].readers = cache[b].readers /\ cache'[b].writers = cache[b].writers
        /\ cache'[b].readWaiters = cache[b].readWaiters
        /\ cache'[b].writeWaiters = cache[b].writeWaiters
OtherBlocks(b) == \A a \in Block \ {b} : cache'[a] = cache[a]

LEMMA ResetStep ==
    ASSUME CacheTypeOK, StagesOK, NEW t \in User, VictimReset(t)
    PROVE  /\ SameCounters /\ OtherBlocks(blk[t])
           /\ blk[t] \in Block /\ ~cache'[blk[t]].valid
<1>1. blk[t] \in Block /\ cache[blk[t]] \in CacheBlock /\ cache \in [Block -> CacheBlock]
  BY DEF VictimReset, CacheTypeOK, StagesOK, AllThreads
<1>2. QED
  BY <1>1 DEF VictimReset, SameCounters, OtherBlocks, CacheBlock

LEMMA ClaimStep ==
    ASSUME CacheTypeOK, StagesOK, NEW t \in User, Claim(t)
    PROVE  /\ SameCounters /\ OtherBlocks(blk[t])
           /\ blk[t] \in Block /\ cache'[blk[t]].sector = want[t]
<1>1. blk[t] \in Block /\ cache[blk[t]] \in CacheBlock /\ cache \in [Block -> CacheBlock]
  BY DEF Claim, CacheTypeOK, StagesOK, AllThreads
<1>2. QED
  BY <1>1 DEF Claim, SameCounters, OtherBlocks, CacheBlock

LEMMA EnterStep ==
    ASSUME CacheTypeOK, StagesOK, NEW t \in User, Enter(t)
    PROVE  /\ SameTable /\ OtherBlocks(blk[t]) /\ blk[t] \in Block
           /\ LET c == cache[blk[t]]
              IN  cache'[blk[t]] = IF MustWait(t, c) THEN Queued(t, c, 1) ELSE Admitted(t, c)
<1>1. blk[t] \in Block /\ cache[blk[t]] \in CacheBlock /\ cache \in [Block -> CacheBlock]
  BY DEF Enter, CacheTypeOK, StagesOK, AllThreads
<1>2. QED
  BY <1>1, QueuedFields, AdmittedFields DEF Enter, SameTable, OtherBlocks

LEMMA RecheckStep ==
    ASSUME CacheTypeOK, StagesOK, ReadersWriter, NEW t \in User, Recheck(t)
    PROVE  /\ SameTable /\ OtherBlocks(blk[t]) /\ blk[t] \in Block
           /\ LET c == cache[blk[t]]
              IN  /\ cache'[blk[t]] =
                        IF MustWait(t, c) THEN c ELSE Admitted(t, Queued(t, c, -1))
                  /\ IF ReadOnly(t) THEN c.readWaiters > 0 ELSE c.writeWaiters > 0
<1>1. blk[t] \in Block /\ cache[blk[t]] \in CacheBlock /\ cache \in [Block -> CacheBlock]
  BY DEF Recheck, CacheTypeOK, StagesOK, AllThreads
<1> DEFINE c == cache[blk[t]]
<1>2. IF ReadOnly(t) THEN c.readWaiters > 0 ELSE c.writeWaiters > 0
  BY <1>1, Counted DEF Recheck, WaitStage
<1>3. Queued(t, c, -1) \in CacheBlock /\ Queued(t, c, -1).valid = c.valid
      /\ Queued(t, c, -1).sector = c.sector
  BY <1>1, <1>2, QueuedFields
<1>4. Admitted(t, Queued(t, c, -1)).valid = c.valid
      /\ Admitted(t, Queued(t, c, -1)).sector = c.sector
  BY <1>3, AdmittedFields
<1>5. cache'[blk[t]] = IF MustWait(t, c) THEN c ELSE Admitted(t, Queued(t, c, -1))
  BY <1>1 DEF Recheck
<1>6. OtherBlocks(blk[t])
  BY <1>1 DEF Recheck, OtherBlocks
<1>7. QED
  BY <1>1, <1>2, <1>4, <1>5, <1>6 DEF SameTable, OtherBlocks

LEMMA LeaveStep ==
    ASSUME CacheTypeOK, StagesOK, NEW t \in User, Leave(t)
    PROVE  /\ SameTable /\ OtherBlocks(blk[t]) /\ blk[t] \in Block
           /\ cache'[blk[t]] = Left(cache[blk[t]])
<1>1. blk[t] \in Block /\ cache[blk[t]] \in CacheBlock /\ cache \in [Block -> CacheBlock]
  BY DEF Leave, CacheTypeOK, StagesOK, AllThreads
<1>2. cache' = [cache EXCEPT ![blk[t]] = Left(cache[blk[t]])]
  BY DEF Leave, Left
<1>3. QED
  BY <1>1, <1>2, LeftFields DEF SameTable, OtherBlocks

LEMMA DataStep ==
    ASSUME CacheTypeOK, StagesOK, [Next]_vars,
           ~\E t \in User : VictimReset(t) \/ Claim(t) \/ Enter(t) \/ Recheck(t) \/ Leave(t)
    PROVE  SameTable /\ SameCounters
<1> USE CacheAssumption DEF CacheAssumption
<1> DEFINE Update(b, c) == cache' = [cache EXCEPT ![b] = c]
           SameFields(b, c) ==
              /\ c.valid = cache[b].valid /\ c.sector = cache[b].sector
              /\ c.readers = cache[b].readers /\ c.writers = cache[b].writers
              /\ c.readWaiters = cache[b].readWaiters
              /\ c.writeWaiters = cache[b].writeWaiters
<1>1. ASSUME NEW b \in Block, NEW c, Update(b, c), SameFields(b, c)
      PROVE  SameTable /\ SameCounters
  BY <1>1 DEF SameTable, SameCounters, CacheTypeOK
<1>2. UNCHANGED cache => SameTable /\ SameCounters
  BY DEF SameTable, SameCounters
<1>3. ASSUME NEW t \in AllThreads, pc[t] \notin {"idle", "lookup", "scan"}
      PROVE  blk[t] \in Block /\ cache[blk[t]] \in CacheBlock
  BY <1>3 DEF StagesOK, CacheTypeOK
<1>4. Readd \in User /\ Flushd \in AllThreads /\ User \subseteq AllThreads
  BY DEF User, AllThreads
<1>5. ASSUME NEW t \in User, DataBegin(t) PROVE SameTable /\ SameCounters
  <2>1. blk[t] \in Block /\ cache[blk[t]] \in CacheBlock
    BY <1>3, <1>4, <1>5 DEF DataBegin
  <2>2. SameFields(blk[t], [cache[blk[t]] EXCEPT !.loaded = TRUE])
    BY <2>1 DEF CacheBlock
  <2>3. SameFields(blk[t], Loaded(cache[blk[t]]))
    BY <2>1, LoadedType DEF CacheTypeOK
  <2>4. QED
    BY <1>1, <1>5, <2>1, <2>2, <2>3 DEF DataBegin
<1>6. ASSUME NEW t \in User, DataEnd(t) PROVE SameTable /\ SameCounters
  <2>1. blk[t] \in Block /\ cache[blk[t]] \in CacheBlock
    BY <1>3, <1>4, <1>6 DEF DataEnd
  <2>2. \A d : SameFields(blk[t], [cache[blk[t]] EXCEPT !.data = d, !.dirty = TRUE])
    BY <2>1 DEF CacheBlock
  <2>3. CASE op[t] = "read"
    BY <1>2, <1>6, <2>3 DEF DataEnd
  <2>4. CASE op[t] # "read"
    <3>1. PICK v \in Value, parts \in {Part} \cup {{p} : p \in Part} :
             cache' = [cache EXCEPT ![blk[t]] =
                 [@ EXCEPT !.data = Overwritten(cache[blk[t]].data, parts, v), !.dirty = TRUE]]
      BY <1>6, <2>4 DEF DataEnd
    <3> DEFINE c == [cache[blk[t]] EXCEPT
                        !.data = Overwritten(cache[blk[t]].data, parts, v), !.dirty = TRUE]
    <3>2. Update(blk[t], c)
      BY <2>1, <3>1
    <3>3. SameFields(blk[t], c)
      BY <2>2
    <3>4. QED
      BY <1>1, <2>1, <3>2, <3>3
  <2>5. QED
    BY <2>3, <2>4
<1>7. ASSUME NEW t \in User, ZeroBegin(t) PROVE SameTable /\ SameCounters
  <2>1. blk[t] \in Block /\ cache[blk[t]] \in CacheBlock
    BY <1>3, <1>4, <1>7 DEF ZeroBegin
  <2>2. SameFields(blk[t], Loaded(cache[blk[t]]))
    BY <2>1, LoadedType DEF CacheTypeOK
  <2>3. QED
    BY <1>1, <1>7, <2>1, <2>2 DEF ZeroBegin
<1>8. ASSUME NEW t \in User, ZeroEnd(t) PROVE SameTable /\ SameCounters
  <2>1. blk[t] \in Block /\ cache[blk[t]] \in CacheBlock
    BY <1>3, <1>4, <1>8 DEF ZeroEnd
  <2>2. \A d : SameFields(blk[t], [cache[blk[t]] EXCEPT !.data = d, !.dirty = TRUE])
    BY <2>1 DEF CacheBlock
  <2>3. QED
    BY <1>1, <1>8, <2>1, <2>2 DEF ZeroEnd
<1>9. ASSUME NEW t \in AllThreads, FlushEnd(t) PROVE SameTable /\ SameCounters
  <2>1. blk[t] \in Block /\ cache[blk[t]] \in CacheBlock
    BY <1>3, <1>9 DEF FlushEnd
  <2>2. SameFields(blk[t], [cache[blk[t]] EXCEPT !.dirty = FALSE])
    BY <2>1 DEF CacheBlock
  <2>3. QED
    BY <1>1, <1>9, <2>1, <2>2 DEF FlushEnd
<1>10. ASSUME ReadAheadLoad PROVE SameTable /\ SameCounters
  <2>1. blk[Readd] \in Block /\ cache[blk[Readd]] \in CacheBlock
    BY <1>3, <1>4, <1>10 DEF ReadAheadLoad
  <2> DEFINE c == [cache[blk[Readd]] EXCEPT !.loaded = FALSE]
  <2>2. c \in CacheBlock /\ SameFields(blk[Readd], c)
    BY <2>1 DEF CacheBlock
  <2>3. SameFields(blk[Readd], Loaded(c))
    BY <2>2, LoadedType DEF CacheTypeOK
  <2>4. QED
    BY <1>1, <1>10, <2>1, <2>3 DEF ReadAheadLoad
<1>11. QED
  BY <1>2, <1>5, <1>6, <1>7, <1>8, <1>9, <1>10
     DEF Next, UserStep, vars, tableVars, ReadRequest, CacheAcquire, Lookup, Hit, VictimScan,
         CacheRelease, CacheFlush, FlushAll, FlushNext, ReadAhead, ReadAheadCheck

LEMMA SameTableStep ==
    ASSUME CacheTypeOK, StagesOK, ReadersWriter, [Next]_vars,
           ~\E t \in User : VictimReset(t) \/ Claim(t)
    PROVE  SameTable
  BY EnterStep, RecheckStep, LeaveStep, DataStep

LEMMA SameCountersStep ==
    ASSUME CacheTypeOK, StagesOK, [Next]_vars,
           ~\E t \in User : Enter(t) \/ Recheck(t) \/ Leave(t)
    PROVE  SameCounters
  BY ResetStep, ClaimStep, DataStep

-----------------------------------------------------------------------------
(* No sector is in two blocks.                                             *)
LEMMA LookupMisses ==
    ASSUME CacheTypeOK, NEW t \in User, Lookup(t), pc'[t] \in MissStage, NEW b \in Block
    PROVE  ~(cache[b].valid /\ cache[b].sector = want[t])
  BY DEF Lookup, CacheTypeOK, MissStage, Goto, AllThreads

LEMMA MissStays ==
    ASSUME CacheTypeOK, StagesOK, [Next]_vars, NEW t \in User, pc'[t] \in MissStage,
           ~Lookup(t)
    PROVE  pc[t] \in MissStage /\ want'[t] = want[t]
<1> USE CacheAssumption DEF CacheAssumption
<1> USE DEF CacheTypeOK, StagesOK, Goto, AllThreads, User, FlushStage, MissStage
<1> DEFINE G == pc[t] \in MissStage /\ want'[t] = want[t]
<1>1. ASSUME NEW u \in Client, NEW s \in Sector, ReadRequest(u, s) PROVE G
  BY <1>1 DEF ReadRequest, tableVars, threadVars
<1>2. ASSUME NEW u \in Client, NEW s \in Sector, NEW o \in Op, CacheAcquire(u, s, o) PROVE G
  BY <1>2 DEF CacheAcquire, tableVars
<1>3. ASSUME NEW u \in User, Lookup(u) PROVE G
  <2>1. u # t
    BY <1>3
  <2>2. QED
    BY <1>3, <2>1 DEF Lookup
<1>4. ASSUME NEW u \in User, Hit(u) PROVE G
  BY <1>4 DEF Hit, tableVars, threadVars
<1>5. ASSUME NEW u \in User, VictimScan(u) PROVE G
  BY <1>5 DEF VictimScan, threadVars
<1>6. ASSUME NEW u \in User, VictimReset(u) PROVE G
  BY <1>6 DEF VictimReset, threadVars
<1>7. ASSUME NEW u \in User, Claim(u) PROVE G
  BY <1>7 DEF Claim, threadVars
<1>8. ASSUME NEW u \in User, Enter(u) PROVE G
  BY <1>8 DEF Enter, Unlocked, threadVars
<1>9. ASSUME NEW u \in User, Recheck(u) PROVE G
  BY <1>9 DEF Recheck, Unlocked, threadVars
<1>10. ASSUME NEW u \in User, CacheRelease(u) PROVE G
  BY <1>10 DEF CacheRelease, tableVars, threadVars
<1>11. ASSUME NEW u \in User, Leave(u) PROVE G
  BY <1>11 DEF Leave, SignalWriter, BroadcastReaders, WaitingFor
<1>12. ASSUME NEW u \in User, DataBegin(u) PROVE G
  BY <1>12 DEF DataBegin, threadVars
<1>13. ASSUME NEW u \in User, DataEnd(u) PROVE G
  BY <1>13 DEF DataEnd, threadVars
<1>14. ASSUME NEW u \in User, ZeroBegin(u) PROVE G
  BY <1>14 DEF ZeroBegin, threadVars
<1>15. ASSUME NEW u \in User, ZeroEnd(u) PROVE G
  BY <1>15 DEF ZeroEnd, threadVars
<1>16. ASSUME NEW u \in AllThreads, CacheFlush(u) PROVE G
  BY <1>16 DEF CacheFlush, FlushDone, tableVars, threadVars, FlushDone
<1>17. ASSUME NEW u \in AllThreads, FlushEnd(u) PROVE G
  BY <1>17 DEF FlushEnd, FlushDone, threadVars
<1>18. ASSUME FlushAll PROVE G
  BY <1>18 DEF FlushAll, tableVars, threadVars
<1>19. ASSUME FlushNext PROVE G
  BY <1>19 DEF FlushNext, FlushDone, tableVars, threadVars
<1>20. ASSUME ReadAhead PROVE G
  BY <1>20 DEF ReadAhead, tableVars
<1>21. ASSUME ReadAheadCheck PROVE G
  BY <1>21 DEF ReadAheadCheck, tableVars, threadVars
<1>22. ASSUME ReadAheadLoad PROVE G
  BY <1>22 DEF ReadAheadLoad, threadVars
<1>23. ASSUME UNCHANGED vars PROVE G
  BY <1>23 DEF vars
<1>24. QED
  BY <1>1, <1>2, <1>3, <1>4, <1>5, <1>6, <1>7, <1>8, <1>9, <1>10, <1>11, <1>12,
     <1>13, <1>14, <1>15, <1>16, <1>17, <1>18, <1>19, <1>20, <1>21, <1>22, <1>23
     DEF Next, UserStep

(* Who is past its lookup either has just had it or was so before.         *)
LEMMA MissStep ==
    CacheTypeOK /\ StagesOK /\ LockOK /\ MissOK /\ ReadersWriter /\ [Next]_vars => MissOK'
<1> SUFFICES ASSUME CacheTypeOK, StagesOK, LockOK, MissOK, ReadersWriter, [Next]_vars,
                    NEW t \in User', NEW b \in Block', pc'[t] \in MissStage
             PROVE  ~(cache'[b].valid /\ cache'[b].sector = want'[t])
  BY DEF MissOK
<1>1. t \in User /\ t \in AllThreads /\ b \in Block /\ None \notin AllThreads /\ t # Flushd
  BY CacheAssumption DEF CacheAssumption, User, AllThreads, Block
<1>2. CASE \E u \in User : VictimReset(u) \/ Claim(u)
  <2>1. PICK u \in User : VictimReset(u) \/ Claim(u)
    BY <1>2
  <2>2. u \in AllThreads /\ cacheLock = u /\ pc[u] \in MissStage
    BY <2>1 DEF LockOK, LockStage, MissStage, VictimReset, Claim, User, AllThreads
  <2>3. pc[t] \in MissStage /\ want'[t] = want[t]
    BY <1>1, <2>1, <2>2 DEF VictimReset, Claim, Goto, MissStage, CacheTypeOK, threadVars
  <2>4. t = u
    BY <1>1, <2>2, <2>3 DEF LockOK, LockStage, MissStage
  <2>5. VictimReset(t)
    BY <1>1, <2>1, <2>4 DEF Claim, Goto, MissStage, CacheTypeOK
  <2>6. QED
    BY <1>1, <2>3, <2>5, ResetStep DEF MissOK, OtherBlocks
<1>3. CASE ~\E u \in User : VictimReset(u) \/ Claim(u)
  <2>1. SameTable
    BY <1>3, SameTableStep
  <2>2. CASE Lookup(t)
    BY <1>1, <2>1, <2>2, LookupMisses DEF SameTable, Lookup
  <2>3. CASE ~Lookup(t)
    <3>1. pc[t] \in MissStage /\ want'[t] = want[t]
      BY <1>1, <1>3, <2>3, MissStays
    <3>2. QED
      BY <1>1, <2>1, <3>1 DEF MissOK, SameTable
  <2>4. QED
    BY <2>2, <2>3
<1>4. QED
  BY <1>2, <1>3

LEMMA OneBlockStep ==
    /\ CacheTypeOK /\ StagesOK /\ MissOK /\ OneBlockPerSector /\ ReadersWriter
    /\ [Next]_vars
    => OneBlockPerSector'
<1> SUFFICES ASSUME CacheTypeOK, StagesOK, MissOK, OneBlockPerSector, ReadersWriter, [Next]_vars
             PROVE  OneBlockPerSector'
  OBVIOUS
<1>1. CASE \E t \in User : VictimReset(t)
  BY <1>1, ResetStep DEF OneBlockPerSector, OtherBlocks, Block
<1>2. ASSUME NEW t \in User, Claim(t) PROVE OneBlockPerSector'
  <2>1. \A b \in Block : ~(cache[b].valid /\ cache[b].sector = want[t])
    BY <1>2 DEF MissOK, Claim, MissStage
  <2>2. QED
    BY <1>2, <2>1, ClaimStep DEF OneBlockPerSector, OtherBlocks, Block
<1>3. CASE ~\E t \in User : VictimReset(t) \/ Claim(t)
  BY <1>3, SameTableStep DEF OneBlockPerSector, SameTable, Block
<1>4. QED
  BY <1>1, <1>2, <1>3

-----------------------------------------------------------------------------
(* The readers-writer lock.  A step moves at most one thread in or out of  *)
(* a block or of its waiters; how many there are follows.                  *)
SamePlace(u) ==
    /\ pc'[u] \in HoldStage <=> pc[u] \in HoldStage
    /\ pc'[u] \in WaitStage <=> pc[u] \in WaitStage
    /\ pc[u] \in HoldStage \cup WaitStage => blk'[u] = blk[u] /\ op'[u] = op[u]

LEMMA MovesCount ==
    ASSUME NEW t \in User, NEW b, NEW ro \in BOOLEAN,
           \A u \in User \ {t} : SamePlace(u),
           pc'[t] \in HoldStage \cup WaitStage => blk'[t] = blk[t] /\ op'[t] = op[t]
    PROVE  LET mine == blk[t] = b /\ ReadOnly(t) = ro
               n(here) == IF mine /\ here THEN 1 ELSE 0
           IN  /\ Cardinality(Holders(b, ro)') = Cardinality(Holders(b, ro))
                     + n(pc'[t] \in HoldStage) - n(pc[t] \in HoldStage)
               /\ Cardinality(Waiters(b, ro)') = Cardinality(Waiters(b, ro))
                     + n(pc'[t] \in WaitStage) - n(pc[t] \in WaitStage)
               /\ Cardinality(Holders(b, ro)) \in Nat /\ Cardinality(Waiters(b, ro)) \in Nat
<1> DEFINE mine == blk[t] = b /\ ReadOnly(t) = ro
           n(here) == IF mine /\ here THEN 1 ELSE 0
<1>1. Holders(b, ro)' = (Holders(b, ro) \ {t}) \cup (IF mine /\ pc'[t] \in HoldStage THEN {t} ELSE {})
  BY DEF Holders, HoldStage, WaitStage, SamePlace, ReadOnly, User
<1>2. Waiters(b, ro)' = (Waiters(b, ro) \ {t}) \cup (IF mine /\ pc'[t] \in WaitStage THEN {t} ELSE {})
  BY DEF Waiters, HoldStage, WaitStage, SamePlace, ReadOnly, User
<1>3. t \in Holders(b, ro) <=> mine /\ pc[t] \in HoldStage
  BY DEF Holders, HoldStage
<1>4. t \in Waiters(b, ro) <=> mine /\ pc[t] \in WaitStage
  BY DEF Waiters, WaitStage
<1>5. ASSUME NEW S, NEW T, NEW A \in BOOLEAN, IsFiniteSet(S),
             T = (S \ {t}) \cup (IF A THEN {t} ELSE {})
      PROVE  /\ Cardinality(S) \in Nat
             /\ Cardinality(T) = Cardinality(S) + (IF A THEN 1 ELSE 0)
                                   - (IF t \in S THEN 1 ELSE 0)
  <2>1. /\ IsFiniteSet(S \ {t}) /\ Cardinality(S) \in Nat /\ Cardinality(S \ {t}) \in Nat
        /\ Cardinality(S \ {t}) = Cardinality(S) - (IF t \in S THEN 1 ELSE 0)
    BY <1>5, FS_RemoveElement, FS_CardinalityType
  <2>2. t \notin S \ {t}
    OBVIOUS
  <2>3. Cardinality((S \ {t}) \cup {t}) = Cardinality(S \ {t}) + 1
    BY <2>1, <2>2, FS_AddElement
  <2>4. CASE A
    BY <1>5, <2>1, <2>3, <2>4
  <2>5. CASE ~A
    <3>1. T = S \ {t}
      BY <1>5, <2>5
    <3>2. QED
      BY <2>1, <2>5, <3>1
  <2>6. QED
    BY <2>4, <2>5
<1> DEFINE A == mine /\ pc'[t] \in HoldStage
           B == mine /\ pc'[t] \in WaitStage
<1>6. A \in BOOLEAN /\ B \in BOOLEAN
  OBVIOUS
<1>7. /\ Cardinality(Holders(b, ro)) \in Nat
      /\ Cardinality(Holders(b, ro)') = Cardinality(Holders(b, ro))
             + (IF A THEN 1 ELSE 0) - (IF t \in Holders(b, ro) THEN 1 ELSE 0)
  <2> HIDE DEF A
  <2>1. QED
    BY <1>1, <1>5, <1>6, FiniteThreads DEF A
<1>8. /\ Cardinality(Waiters(b, ro)) \in Nat
      /\ Cardinality(Waiters(b, ro)') = Cardinality(Waiters(b, ro))
             + (IF B THEN 1 ELSE 0) - (IF t \in Waiters(b, ro) THEN 1 ELSE 0)
  <2> HIDE DEF B
  <2>1. QED
    BY <1>2, <1>5, <1>6, FiniteThreads DEF B
<1>9. QED
  BY <1>3, <1>4, <1>7, <1>8

One(p) == IF p THEN 1 ELSE 0

LEMMA CountersFollow ==
    ASSUME CacheTypeOK, ReadersWriter, NEW t \in User, blk[t] \in Block,
           OtherBlocks(blk[t]), \A u \in User \ {t} : SamePlace(u),
           pc'[t] \in HoldStage \cup WaitStage => blk'[t] = blk[t] /\ op'[t] = op[t],
           LET c == cache[blk[t]]
               d == cache'[blk[t]]
               holds == One(pc'[t] \in HoldStage) - One(pc[t] \in HoldStage)
               waits == One(pc'[t] \in WaitStage) - One(pc[t] \in WaitStage)
           IN  /\ IF ReadOnly(t)
                  THEN /\ d.readers = c.readers + holds
                       /\ d.readWaiters = c.readWaiters + waits
                       /\ d.writers = c.writers /\ d.writeWaiters = c.writeWaiters
                  ELSE /\ d.writers = c.writers + holds
                       /\ d.writeWaiters = c.writeWaiters + waits
                       /\ d.readers = c.readers /\ d.readWaiters = c.readWaiters
               /\ d.writers = 0 \/ d.readers = 0
    PROVE  ReadersWriter'
<1> SUFFICES ASSUME NEW b \in Block
             PROVE  /\ cache'[b].readers = Cardinality(Holders(b, TRUE)')
                    /\ cache'[b].writers = Cardinality(Holders(b, FALSE)')
                    /\ cache'[b].readWaiters = Cardinality(Waiters(b, TRUE)')
                    /\ cache'[b].writeWaiters = Cardinality(Waiters(b, FALSE)')
                    /\ cache'[b].writers = 0 \/ cache'[b].readers = 0
  BY DEF ReadersWriter, Block
<1>1. /\ cache[b].readers = Cardinality(Holders(b, TRUE))
      /\ cache[b].writers = Cardinality(Holders(b, FALSE))
      /\ cache[b].readWaiters = Cardinality(Waiters(b, TRUE))
      /\ cache[b].writeWaiters = Cardinality(Waiters(b, FALSE))
      /\ cache[b].writers = 0 \/ cache[b].readers = 0
  BY DEF ReadersWriter
<1> DEFINE mine(ro) == blk[t] = b /\ ReadOnly(t) = ro
           n(ro, here) == IF mine(ro) /\ here THEN 1 ELSE 0
<1>2. ASSUME NEW ro \in BOOLEAN
      PROVE  /\ Cardinality(Holders(b, ro)') = Cardinality(Holders(b, ro))
                  + n(ro, pc'[t] \in HoldStage) - n(ro, pc[t] \in HoldStage)
             /\ Cardinality(Waiters(b, ro)') = Cardinality(Waiters(b, ro))
                  + n(ro, pc'[t] \in WaitStage) - n(ro, pc[t] \in WaitStage)
             /\ Cardinality(Holders(b, ro)) \in Nat /\ Cardinality(Waiters(b, ro)) \in Nat
  BY MovesCount
<1>3. ASSUME NEW ro \in BOOLEAN, ~mine(ro)
      PROVE  /\ Cardinality(Holders(b, ro)') = Cardinality(Holders(b, ro))
             /\ Cardinality(Waiters(b, ro)') = Cardinality(Waiters(b, ro))
  <2>1. /\ n(ro, pc'[t] \in HoldStage) = 0 /\ n(ro, pc[t] \in HoldStage) = 0
        /\ n(ro, pc'[t] \in WaitStage) = 0 /\ n(ro, pc[t] \in WaitStage) = 0
    BY <1>3
  <2>2. ASSUME NEW x \in Nat, NEW y, y = x + 0 - 0 PROVE y = x
    BY <2>2
  <2>3. Cardinality(Holders(b, ro)') = Cardinality(Holders(b, ro)) + 0 - 0
    BY <1>2, <2>1
  <2>4. Cardinality(Waiters(b, ro)') = Cardinality(Waiters(b, ro)) + 0 - 0
    BY <1>2, <2>1
  <2>5. QED
    BY <1>2, <2>2, <2>3, <2>4
<1>4. ReadOnly(t) \in BOOLEAN
  BY DEF ReadOnly
<1>5. CASE b # blk[t]
  <2>1. cache'[b] = cache[b]
    BY <1>5 DEF OtherBlocks
  <2>2. ~mine(TRUE) /\ ~mine(FALSE)
    BY <1>5
  <2>3. /\ Cardinality(Holders(b, TRUE)') = Cardinality(Holders(b, TRUE))
        /\ Cardinality(Waiters(b, TRUE)') = Cardinality(Waiters(b, TRUE))
        /\ Cardinality(Holders(b, FALSE)') = Cardinality(Holders(b, FALSE))
        /\ Cardinality(Waiters(b, FALSE)') = Cardinality(Waiters(b, FALSE))
    BY <2>2, <1>3
  <2>4. QED
    BY <1>1, <2>1, <2>3
<1>6. CASE b = blk[t] /\ ReadOnly(t)
  <2>1. ReadOnly(t) = TRUE
    BY <1>4, <1>6
  <2>2. /\ Cardinality(Holders(b, TRUE)') = Cardinality(Holders(b, TRUE))
              + One(pc'[t] \in HoldStage) - One(pc[t] \in HoldStage)
        /\ Cardinality(Waiters(b, TRUE)') = Cardinality(Waiters(b, TRUE))
              + One(pc'[t] \in WaitStage) - One(pc[t] \in WaitStage)
    BY <1>2, <1>6, <2>1 DEF One
  <2>3. /\ Cardinality(Holders(b, FALSE)') = Cardinality(Holders(b, FALSE))
        /\ Cardinality(Waiters(b, FALSE)') = Cardinality(Waiters(b, FALSE))
    BY <2>1, <1>3
  <2>4. QED
    BY <1>1, <1>6, <2>2, <2>3 DEF One
<1>7. CASE b = blk[t] /\ ~ReadOnly(t)
  <2>1. ReadOnly(t) = FALSE
    BY <1>4, <1>7
  <2>2. /\ Cardinality(Holders(b, FALSE)') = Cardinality(Holders(b, FALSE))
              + One(pc'[t] \in HoldStage) - One(pc[t] \in HoldStage)
        /\ Cardinality(Waiters(b, FALSE)') = Cardinality(Waiters(b, FALSE))
              + One(pc'[t] \in WaitStage) - One(pc[t] \in WaitStage)
    BY <1>2, <1>7, <2>1 DEF One
  <2>3. /\ Cardinality(Holders(b, TRUE)') = Cardinality(Holders(b, TRUE))
        /\ Cardinality(Waiters(b, TRUE)') = Cardinality(Waiters(b, TRUE))
    BY <2>1, <1>3
  <2>4. QED
    BY <1>1, <1>7, <2>2, <2>3 DEF One
<1>8. QED
  BY <1>5, <1>6, <1>7

LEMMA QuietStep ==
    ASSUME CacheTypeOK, StagesOK, [Next]_vars,
           ~\E t \in User : Enter(t) \/ Recheck(t) \/ Leave(t), NEW u \in User
    PROVE  SamePlace(u) /\ (pc[u] \in WaitStage => pc'[u] = pc[u])
<1> USE CacheAssumption DEF CacheAssumption
<1> USE DEF CacheTypeOK, StagesOK, Goto, AllThreads, User, FlushStage, HoldStage, WaitStage, SamePlace
<1> DEFINE Q(x) == SamePlace(x) /\ (pc[x] \in WaitStage => pc'[x] = pc[x])
<1>1. ASSUME NEW t \in Client, NEW s \in Sector, ReadRequest(t, s) PROVE Q(u)
  BY <1>1 DEF ReadRequest, tableVars, threadVars
<1>2. ASSUME NEW t \in Client, NEW s \in Sector, NEW o \in Op, CacheAcquire(t, s, o) PROVE Q(u)
  BY <1>2 DEF CacheAcquire, tableVars
<1>3. ASSUME NEW t \in User, Lookup(t) PROVE Q(u)
  BY <1>3 DEF Lookup
<1>4. ASSUME NEW t \in User, Hit(t) PROVE Q(u)
  BY <1>4 DEF Hit, tableVars, threadVars
<1>5. ASSUME NEW t \in User, VictimScan(t) PROVE Q(u)
  BY <1>5 DEF VictimScan, threadVars
<1>6. ASSUME NEW t \in User, VictimReset(t) PROVE Q(u)
  BY <1>6 DEF VictimReset, threadVars
<1>7. ASSUME NEW t \in User, Claim(t) PROVE Q(u)
  BY <1>7 DEF Claim, threadVars
<1>8. ASSUME NEW t \in User, CacheRelease(t) PROVE Q(u)
  BY <1>8 DEF CacheRelease, tableVars, threadVars
<1>9. ASSUME NEW t \in User, DataBegin(t) PROVE Q(u)
  BY <1>9 DEF DataBegin, threadVars
<1>10. ASSUME NEW t \in User, DataEnd(t) PROVE Q(u)
  BY <1>10 DEF DataEnd, threadVars
<1>11. ASSUME NEW t \in User, ZeroBegin(t) PROVE Q(u)
  BY <1>11 DEF ZeroBegin, threadVars
<1>12. ASSUME NEW t \in User, ZeroEnd(t) PROVE Q(u)
  BY <1>12 DEF ZeroEnd, threadVars
<1>13. ASSUME NEW t \in AllThreads, CacheFlush(t) PROVE Q(u)
  BY <1>13 DEF CacheFlush, FlushDone, tableVars, threadVars
<1>14. ASSUME NEW t \in AllThreads, FlushEnd(t) PROVE Q(u)
  BY <1>14 DEF FlushEnd, FlushDone, threadVars
<1>15. ASSUME FlushAll PROVE Q(u)
  BY <1>15 DEF FlushAll, tableVars, threadVars
<1>16. ASSUME FlushNext PROVE Q(u)
  BY <1>16 DEF FlushNext, FlushDone, tableVars, threadVars
<1>17. ASSUME ReadAhead PROVE Q(u)
  BY <1>17 DEF ReadAhead, tableVars
<1>18. ASSUME ReadAheadCheck PROVE Q(u)
  BY <1>18 DEF ReadAheadCheck, tableVars, threadVars
<1>19. ASSUME ReadAheadLoad PROVE Q(u)
  BY <1>19 DEF ReadAheadLoad, threadVars
<1>20. ASSUME UNCHANGED vars PROVE Q(u)
  BY <1>20 DEF vars
<1>21. QED
  BY <1>1, <1>2, <1>3, <1>4, <1>5, <1>6, <1>7, <1>8, <1>9,
     <1>10, <1>11, <1>12, <1>13, <1>14, <1>15, <1>16, <1>17, <1>18, <1>19, <1>20
     DEF Next, UserStep

(* Threads that move in a block, and those that a release wakes.           *)
LEMMA EnterMoves ==
    ASSUME CacheTypeOK, NEW t \in User, Enter(t)
    PROVE  /\ pc[t] = "enter" /\ pc'[t] = IF MustWait(t, cache[blk[t]]) THEN "wait" ELSE "held"
           /\ blk' = blk /\ op' = op
           /\ \A u \in User \ {t} : pc'[u] = pc[u]
  BY DEF CacheTypeOK, Enter, Goto, threadVars, User, AllThreads

LEMMA RecheckMoves ==
    ASSUME CacheTypeOK, NEW t \in User, Recheck(t)
    PROVE  /\ pc[t] = "notified"
           /\ pc'[t] = IF MustWait(t, cache[blk[t]]) THEN "wait" ELSE "held"
           /\ blk' = blk /\ op' = op
           /\ \A u \in User \ {t} : pc'[u] = pc[u]
  BY DEF CacheTypeOK, Recheck, Goto, threadVars, User, AllThreads

LEMMA LeaveMoves ==
    ASSUME CacheTypeOK, StagesOK, NEW t \in User, Leave(t)
    PROVE  /\ pc[t] = "releasing" /\ pc'[t] = "idle"
           /\ \A u \in User \ {t} :
                 /\ blk'[u] = blk[u] /\ op'[u] = op[u]
                 /\ pc'[u] = pc[u] \/ (pc[u] = "wait" /\ pc'[u] = "notified" /\ blk[u] = blk[t])
           /\ WaitingFor(blk[t], FALSE) # {} /\ cache[blk[t]].writeWaiters > 0 =>
                 \E w \in WaitingFor(blk[t], FALSE) : pc'[w] = "notified"
           /\ cache[blk[t]].writeWaiters = 0 /\ cache[blk[t]].readers = 0 =>
                 \A r \in WaitingFor(blk[t], TRUE) : pc'[r] = "notified"
<1> DEFINE c == cache[blk[t]]
           W(ro) == WaitingFor(blk[t], ro)
           Moves == /\ pc'[t] = "idle"
                    /\ \A u \in User \ {t} :
                          pc'[u] = pc[u] \/ (pc[u] = "wait" /\ pc'[u] = "notified" /\ blk[u] = blk[t])
           Signals == W(FALSE) # {} /\ c.writeWaiters > 0 =>
                         \E w \in W(FALSE) : pc'[w] = "notified"
           Broadcasts == c.writeWaiters = 0 /\ c.readers = 0 =>
                            \A u \in W(TRUE) : pc'[u] = "notified"
<1>1. t \in AllThreads /\ User \subseteq AllThreads
  BY DEF User, AllThreads
<1>2. blk' = [blk EXCEPT ![t] = None] /\ op' = [op EXCEPT ![t] = None] /\ pc[t] = "releasing"
  BY DEF Leave
<1>3. c.writeWaiters \in Nat /\ c.readers \in Nat
  BY <1>1, <1>2, BlockTypes DEF StagesOK
<1>4. \A ro : \A u \in W(ro) : u \in User /\ u # t /\ pc[u] = "wait" /\ blk[u] = blk[t]
  BY <1>2 DEF WaitingFor
<1>5. \A u \in User \ {t} : blk'[u] = blk[u] /\ op'[u] = op[u]
  BY <1>1, <1>2 DEF CacheTypeOK
<1>6. ASSUME c.writeWaiters > 0 PROVE Moves /\ Signals /\ Broadcasts
  <2>1. SignalWriter(t)
    BY <1>3, <1>6 DEF Leave
  <2>2. Broadcasts
    BY <1>3, <1>6
  <2>3. CASE W(FALSE) = {}
    <3>1. pc' = [pc EXCEPT ![t] = "idle"]
      BY <2>1, <2>3 DEF SignalWriter, Goto
    <3>2. Moves
      BY <1>1, <3>1 DEF CacheTypeOK
    <3>3. Signals
      BY <2>3
    <3>4. QED
      BY <2>2, <3>2, <3>3
  <2>4. CASE W(FALSE) # {}
    <3>1. PICK w \in W(FALSE) : pc' = [pc EXCEPT ![t] = "idle", ![w] = "notified"]
      BY <2>1, <2>4 DEF SignalWriter
    <3>2. Moves /\ pc'[w] = "notified"
      BY <1>1, <1>4, <3>1 DEF CacheTypeOK
    <3>3. Signals
      BY <3>2
    <3>4. QED
      BY <2>2, <3>2, <3>3
  <2>5. QED
    BY <2>3, <2>4
<1>7. ASSUME c.writeWaiters = 0, c.readers > 0 PROVE Moves /\ Signals /\ Broadcasts
  <2>1. pc' = [pc EXCEPT ![t] = "idle"]
    BY <1>3, <1>7 DEF Leave, Goto
  <2>2. Moves
    BY <1>1, <2>1 DEF CacheTypeOK
  <2>3. ~(c.writeWaiters > 0) /\ c.readers # 0
    BY <1>3, <1>7
  <2>4. Signals
    BY <2>3
  <2>5. Broadcasts
    BY <2>3
  <2>6. QED
    BY <2>2, <2>4, <2>5
<1>8. ASSUME c.writeWaiters = 0, c.readers = 0 PROVE Moves /\ Signals /\ Broadcasts
  <2>1. BroadcastReaders(t)
    BY <1>3, <1>8 DEF Leave
  <2>2. \A u \in AllThreads : pc'[u] = IF u = t THEN "idle"
                                 ELSE IF u \in W(TRUE) THEN "notified" ELSE pc[u]
    BY <2>1 DEF BroadcastReaders
  <2>3. Moves /\ \A r \in W(TRUE) : pc'[r] = "notified"
    BY <1>1, <1>4, <2>2
  <2>4. Signals
    BY <1>3, <1>8
  <2>5. QED
    BY <2>3, <2>4
<1>9. \/ c.writeWaiters > 0
      \/ c.writeWaiters = 0 /\ c.readers > 0
      \/ c.writeWaiters = 0 /\ c.readers = 0
  BY <1>3
<1>10. Moves /\ Signals /\ Broadcasts
  BY <1>6, <1>7, <1>8, <1>9
<1>11. QED
  BY <1>2, <1>5, <1>10

LEMMA ReadersWriterStep ==
    CacheTypeOK /\ StagesOK /\ ReadersWriter /\ [Next]_vars => ReadersWriter'
<1> SUFFICES ASSUME CacheTypeOK, StagesOK, ReadersWriter, [Next]_vars PROVE ReadersWriter'
  OBVIOUS
<1>1. ASSUME NEW b \in Block
      PROVE  cache[b].writers = 0 \/ cache[b].readers = 0
  BY DEF ReadersWriter
<1>2. ASSUME NEW t \in User, Enter(t) PROVE ReadersWriter'
  <2> DEFINE c == cache[blk[t]]
  <2>1. /\ OtherBlocks(blk[t]) /\ blk[t] \in Block /\ c \in CacheBlock
        /\ cache'[blk[t]] = IF MustWait(t, c) THEN Queued(t, c, 1) ELSE Admitted(t, c)
    BY <1>2, EnterStep DEF CacheTypeOK
  <2>2. /\ \A u \in User \ {t} : SamePlace(u)
        /\ blk'[t] = blk[t] /\ op'[t] = op[t]
        /\ ~(pc[t] \in HoldStage) /\ ~(pc[t] \in WaitStage)
    BY <1>2, EnterMoves DEF SamePlace, HoldStage, WaitStage
  <2>3. CASE MustWait(t, c)
    <3>1. ~(pc'[t] \in HoldStage) /\ pc'[t] \in WaitStage
      BY <1>2, <2>3, EnterMoves DEF HoldStage, WaitStage
    <3>2. QED
      BY <1>1, <2>1, <2>2, <2>3, <3>1, QueuedFields, CountersFollow, BlockTypes DEF One
  <2>4. CASE ~MustWait(t, c)
    <3>1. pc'[t] \in HoldStage /\ ~(pc'[t] \in WaitStage)
      BY <1>2, <2>4, EnterMoves DEF HoldStage, WaitStage
    <3>2. c.writers = 0 /\ (~ReadOnly(t) => c.readers = 0)
      BY <2>1, <2>4, BlockTypes DEF MustWait
    <3>3. QED
      BY <1>1, <2>1, <2>2, <2>4, <3>1, <3>2, AdmittedFields, CountersFollow, BlockTypes DEF One
  <2>5. QED
    BY <2>3, <2>4
<1>3. ASSUME NEW t \in User, Recheck(t) PROVE ReadersWriter'
  <2> DEFINE c == cache[blk[t]]  q == Queued(t, c, -1)
  <2>1. /\ OtherBlocks(blk[t]) /\ blk[t] \in Block /\ c \in CacheBlock
        /\ cache'[blk[t]] = IF MustWait(t, c) THEN c ELSE Admitted(t, q)
        /\ IF ReadOnly(t) THEN c.readWaiters > 0 ELSE c.writeWaiters > 0
    BY <1>3, RecheckStep DEF CacheTypeOK
  <2>2. /\ \A u \in User \ {t} : SamePlace(u)
        /\ blk'[t] = blk[t] /\ op'[t] = op[t]
        /\ ~(pc[t] \in HoldStage) /\ pc[t] \in WaitStage
    BY <1>3, RecheckMoves DEF SamePlace, HoldStage, WaitStage
  <2>3. CASE MustWait(t, c)
    <3>1. ~(pc'[t] \in HoldStage) /\ pc'[t] \in WaitStage
      BY <1>3, <2>3, RecheckMoves DEF HoldStage, WaitStage
    <3>2. QED
      BY <1>1, <2>1, <2>2, <2>3, <3>1, CountersFollow, BlockTypes DEF One
  <2>4. CASE ~MustWait(t, c)
    <3>1. pc'[t] \in HoldStage /\ ~(pc'[t] \in WaitStage)
      BY <1>3, <2>4, RecheckMoves DEF HoldStage, WaitStage
    <3>2. c.writers = 0 /\ (~ReadOnly(t) => c.readers = 0)
      BY <2>1, <2>4, BlockTypes DEF MustWait
    <3>3. /\ q \in CacheBlock
          /\ q.readers = c.readers /\ q.writers = c.writers
          /\ q.readWaiters = IF ReadOnly(t) THEN c.readWaiters - 1 ELSE c.readWaiters
          /\ q.writeWaiters = IF ReadOnly(t) THEN c.writeWaiters ELSE c.writeWaiters - 1
      BY <2>1, QueuedFields, BlockTypes
    <3> HIDE DEF q
    <3>4. QED
      BY <1>1, <2>1, <2>2, <2>4, <3>1, <3>2, <3>3, AdmittedFields, CountersFollow, BlockTypes
         DEF One
  <2>5. QED
    BY <2>3, <2>4
<1>4. ASSUME NEW t \in User, Leave(t) PROVE ReadersWriter'
  <2> DEFINE c == cache[blk[t]]
  <2>1. /\ OtherBlocks(blk[t]) /\ blk[t] \in Block /\ c \in CacheBlock
        /\ cache'[blk[t]] = Left(c)
    BY <1>4, LeaveStep DEF CacheTypeOK
  <2>2. /\ \A u \in User \ {t} : SamePlace(u)
        /\ pc[t] \in HoldStage /\ ~(pc[t] \in WaitStage)
        /\ ~(pc'[t] \in HoldStage) /\ ~(pc'[t] \in WaitStage)
    BY <1>4, LeaveMoves DEF SamePlace, HoldStage, WaitStage
  <2>3. IF ReadOnly(t) THEN c.readers > 0 ELSE c.writers = 1
    BY <2>1, <2>2, Counted
  <2>4. IF ReadOnly(t) THEN c.writers = 0 ELSE c.readers = 0
    BY <1>1, <2>1, <2>3, BlockTypes
  <2>5. QED
    BY <2>1, <2>2, <2>3, <2>4, LeftFields, CountersFollow, BlockTypes DEF One
<1>5. CASE ~\E t \in User : Enter(t) \/ Recheck(t) \/ Leave(t)
  <2>1. SameCounters /\ \A u \in User : SamePlace(u)
    BY <1>5, SameCountersStep, QuietStep
  <2>2. \A b, ro : Holders(b, ro)' = Holders(b, ro) /\ Waiters(b, ro)' = Waiters(b, ro)
    BY <2>1 DEF SamePlace, Holders, Waiters, HoldStage, WaitStage, ReadOnly, User
  <2>3. QED
    BY <2>1, <2>2 DEF ReadersWriter, SameCounters, Block
<1>6. QED
  BY <1>2, <1>3, <1>4, <1>5

-----------------------------------------------------------------------------
(* Nobody is left behind in cond_wait.                                     *)
LEMMA StrandedStep ==
    CacheTypeOK /\ StagesOK /\ ReadersWriter /\ NobodyStranded /\ [Next]_vars
        => NobodyStranded'
<1> SUFFICES ASSUME CacheTypeOK, StagesOK, ReadersWriter, NobodyStranded, [Next]_vars,
                    NEW b \in Block
             PROVE  /\ WaitingFor(b, FALSE)' # {}
                       /\ cache'[b].readers = 0 /\ cache'[b].writers = 0
                          => \E u \in Waiters(b, FALSE)' : pc'[u] = "notified"
                    /\ WaitingFor(b, TRUE)' # {}
                          => cache'[b].writers > 0 \/ cache'[b].writeWaiters > 0
  BY DEF NobodyStranded, Block
<1> DEFINE Writers == WaitingFor(b, FALSE)' # {}
                      /\ cache'[b].readers = 0 /\ cache'[b].writers = 0
                          => \E u \in Waiters(b, FALSE)' : pc'[u] = "notified"
           Readers == WaitingFor(b, TRUE)' # {}
                          => cache'[b].writers > 0 \/ cache'[b].writeWaiters > 0
<1>1. /\ WaitingFor(b, FALSE) # {} /\ cache[b].readers = 0 /\ cache[b].writers = 0
            => \E u \in Waiters(b, FALSE) : pc[u] = "notified"
      /\ WaitingFor(b, TRUE) # {} => cache[b].writers > 0 \/ cache[b].writeWaiters > 0
  BY DEF NobodyStranded
<1>2. /\ cache[b] \in CacheBlock
      /\ cache[b].readers \in Nat /\ cache[b].writers \in Nat
      /\ cache[b].readWaiters \in Nat /\ cache[b].writeWaiters \in Nat
  BY BlockTypes
<1>3. ASSUME \A u \in User : SamePlace(u) /\ (pc[u] \in WaitStage => pc'[u] = pc[u]),
             SameCounters
      PROVE  Writers /\ Readers
  <2>1. \A ro : WaitingFor(b, ro)' = WaitingFor(b, ro)
    BY <1>3 DEF SamePlace, WaitingFor, HoldStage, WaitStage, ReadOnly, User
  <2>2. ASSUME NEW u \in Waiters(b, FALSE), pc[u] = "notified"
        PROVE  u \in Waiters(b, FALSE)' /\ pc'[u] = "notified"
    BY <1>3, <2>2 DEF SamePlace, Waiters, HoldStage, WaitStage, ReadOnly, User
  <2>3. QED
    BY <1>1, <1>3, <2>1, <2>2 DEF SameCounters
<1>4. CASE ~\E t \in User : Enter(t) \/ Recheck(t) \/ Leave(t)
  BY <1>3, <1>4, SameCountersStep, QuietStep
(* A step in another block.                                                *)
<1>5. ASSUME NEW t \in User, blk[t] # b, OtherBlocks(blk[t]), pc'[t] \in WaitStage => blk'[t] = blk[t],
             \A u \in User \ {t} :
                 /\ blk'[u] = blk[u] /\ op'[u] = op[u]
                 /\ pc'[u] = pc[u] \/ blk[u] = blk[t]
      PROVE  Writers /\ Readers
  <2>1. \A ro : WaitingFor(b, ro)' = WaitingFor(b, ro)
    BY <1>5 DEF WaitingFor, WaitStage, ReadOnly, User
  <2>2. ASSUME NEW u \in Waiters(b, FALSE), pc[u] = "notified"
        PROVE  u \in Waiters(b, FALSE)' /\ pc'[u] = "notified"
    BY <1>5, <2>2 DEF Waiters, WaitStage, ReadOnly, User
  <2>3. cache'[b] = cache[b]
    BY <1>5 DEF OtherBlocks
  <2>4. QED
    BY <1>1, <2>1, <2>2, <2>3
(* One thread of this block goes in or waits (again).                      *)
<1>6. ASSUME NEW t \in User, blk[t] = b, pc[t] \in {"enter", "notified"},
             pc'[t] = IF MustWait(t, cache[b]) THEN "wait" ELSE "held",
             blk' = blk, op' = op, \A u \in User \ {t} : pc'[u] = pc[u],
             LET c == cache[b]
                 d == cache'[b]
             IN  IF MustWait(t, c)
                 THEN /\ d.readers = c.readers /\ d.writers = c.writers
                      /\ IF ReadOnly(t) THEN d.writeWaiters = c.writeWaiters
                                         ELSE d.writeWaiters > 0
                 ELSE IF ReadOnly(t)
                 THEN /\ d.readers > 0 /\ d.writers = c.writers
                      /\ d.writeWaiters = c.writeWaiters
                 ELSE d.writers = 1
      PROVE  Writers /\ Readers
  <2>1. \A ro : WaitingFor(b, ro)' \subseteq WaitingFor(b, ro) \cup (IF MustWait(t, cache[b]) /\ ReadOnly(t) = ro THEN {t} ELSE {})
    BY <1>6 DEF WaitingFor, ReadOnly, User
  <2>2. ReadOnly(t) \in BOOLEAN
    BY DEF ReadOnly
  <2>3. CASE ~MustWait(t, cache[b])
    <3>1. WaitingFor(b, TRUE)' \subseteq WaitingFor(b, TRUE)
      BY <2>1, <2>3
    <3>2. CASE ReadOnly(t)
      <4>1. /\ cache'[b].readers > 0 /\ cache'[b].writers = cache[b].writers
            /\ cache'[b].writeWaiters = cache[b].writeWaiters
        BY <1>6, <2>3, <3>2
      <4>2. ~(cache'[b].readers = 0)
        BY <4>1
      <4>3. QED
        BY <1>1, <3>1, <4>1, <4>2
    <3>3. CASE ~ReadOnly(t)
      <4>1. cache'[b].writers = 1
        BY <1>6, <2>3, <3>3
      <4>2. cache'[b].writers > 0 /\ ~(cache'[b].writers = 0)
        BY <4>1
      <4>3. QED
        BY <4>2
    <3>4. QED
      BY <3>2, <3>3
  <2>4. CASE MustWait(t, cache[b]) /\ ReadOnly(t)
    <3>1. cache[b].writers > 0 \/ cache[b].writeWaiters > 0
      BY <2>4 DEF MustWait
    <3>2. cache'[b].writers > 0 \/ cache'[b].writeWaiters > 0
      BY <1>6, <1>2, <2>4, <3>1
    <3>3. Readers
      BY <3>2
    <3>4. WaitingFor(b, FALSE)' \subseteq WaitingFor(b, FALSE)
      BY <2>1, <2>2, <2>4
    <3>5. ASSUME NEW u \in Waiters(b, FALSE), pc[u] = "notified"
          PROVE  u \in Waiters(b, FALSE)' /\ pc'[u] = "notified"
      BY <1>6, <2>2, <2>4, <3>5 DEF Waiters, ReadOnly, User
    <3>6. QED
      BY <1>1, <1>6, <2>4, <3>3, <3>4, <3>5
  <2>5. CASE MustWait(t, cache[b]) /\ ~ReadOnly(t)
    <3>1. cache[b].readers > 0 \/ cache[b].writers > 0
      BY <2>5 DEF MustWait
    <3>2. /\ cache'[b].readers = cache[b].readers /\ cache'[b].writers = cache[b].writers
          /\ cache'[b].writeWaiters > 0
      BY <1>6, <2>5
    <3>3. ~(cache'[b].readers = 0 /\ cache'[b].writers = 0)
      BY <1>2, <3>1, <3>2
    <3>4. QED
      BY <3>2, <3>3
  <2>6. QED
    BY <2>3, <2>4, <2>5
<1>7. ASSUME NEW t \in User, Enter(t) PROVE Writers /\ Readers
  <2>1. CASE blk[t] # b
    BY <1>5, <1>7, <2>1, EnterStep, EnterMoves
  <2>2. CASE blk[t] = b
    <3>1. cache'[b] = IF MustWait(t, cache[b]) THEN Queued(t, cache[b], 1)
                      ELSE Admitted(t, cache[b])
      BY <1>7, <2>2, EnterStep
    <3> DEFINE c == cache[b]  d == cache'[b]
    <3>2. CASE MustWait(t, c)
      <4>1. /\ d.readers = c.readers /\ d.writers = c.writers
            /\ IF ReadOnly(t) THEN d.writeWaiters = c.writeWaiters ELSE d.writeWaiters > 0
        BY <1>2, <3>1, <3>2, QueuedFields
      <4>2. QED
        BY <1>6, <1>7, <2>2, <3>2, <4>1, EnterMoves
    <3>3. CASE ~MustWait(t, c)
      <4>1. IF ReadOnly(t)
            THEN d.readers > 0 /\ d.writers = c.writers /\ d.writeWaiters = c.writeWaiters
            ELSE d.writers = 1
        BY <1>2, <3>1, <3>3, AdmittedFields
      <4>2. QED
        BY <1>6, <1>7, <2>2, <3>3, <4>1, EnterMoves
    <3>4. QED
      BY <3>2, <3>3
  <2>3. QED
    BY <2>1, <2>2
<1>8. ASSUME NEW t \in User, Recheck(t) PROVE Writers /\ Readers
  <2>1. CASE blk[t] # b
    BY <1>5, <1>8, <2>1, RecheckStep, RecheckMoves
  <2>2. CASE blk[t] = b
    <3> DEFINE q == Queued(t, cache[b], -1)
    <3>1. /\ cache'[b] = IF MustWait(t, cache[b]) THEN cache[b] ELSE Admitted(t, q)
          /\ IF ReadOnly(t) THEN cache[b].readWaiters > 0 ELSE cache[b].writeWaiters > 0
      BY <1>8, <2>2, RecheckStep
    <3>2. /\ q \in CacheBlock /\ q.readers \in Nat /\ q.writers = cache[b].writers
          /\ ReadOnly(t) => q.writeWaiters = cache[b].writeWaiters
      BY <1>2, <3>1, QueuedFields
    <3> HIDE DEF q
    <3> DEFINE c == cache[b]  d == cache'[b]
    <3>3. CASE MustWait(t, c)
      <4>1. d = c
        BY <3>1, <3>3
      <4>2. ~ReadOnly(t) => d.writeWaiters > 0
        BY <3>1, <4>1
      <4>3. QED
        BY <1>6, <1>8, <2>2, <3>3, <4>1, <4>2, RecheckMoves
    <3>4. CASE ~MustWait(t, c)
      <4>1. IF ReadOnly(t)
            THEN d.readers > 0 /\ d.writers = c.writers /\ d.writeWaiters = c.writeWaiters
            ELSE d.writers = 1
        BY <3>1, <3>2, <3>4, AdmittedFields
      <4>2. QED
        BY <1>6, <1>8, <2>2, <3>4, <4>1, RecheckMoves
    <3>5. QED
      BY <3>3, <3>4
  <2>3. QED
    BY <2>1, <2>2
<1>9. ASSUME NEW t \in User, Leave(t) PROVE Writers /\ Readers
  <2>1. CASE blk[t] # b
    BY <1>5, <1>9, <2>1, LeaveStep, LeaveMoves DEF WaitStage
  <2>2. CASE blk[t] = b
    <3>1. /\ cache'[b].writeWaiters = cache[b].writeWaiters
          /\ pc[t] = "releasing" /\ pc'[t] = "idle"
      BY <1>9, <1>2, <2>2, LeaveStep, LeaveMoves, LeftFields
    <3>2. \A ro : WaitingFor(b, ro)' \subseteq WaitingFor(b, ro)
      BY <1>9, <2>2, <3>1, LeaveMoves DEF WaitingFor, ReadOnly, User
    <3>3. ASSUME WaitingFor(b, FALSE) # {} PROVE cache[b].writeWaiters > 0
      <4>1. PICK w \in WaitingFor(b, FALSE) : TRUE
        BY <3>3
      <4>2. w \in User /\ pc[w] \in WaitStage /\ blk[w] = b /\ ~ReadOnly(w)
        BY <4>1 DEF WaitingFor, WaitStage
      <4>3. QED
        BY <4>2, Counted
    <3>4. ASSUME NEW w \in WaitingFor(b, FALSE), pc'[w] = "notified"
          PROVE  w \in Waiters(b, FALSE)'
      BY <1>9, <3>1, <3>4, LeaveMoves DEF WaitingFor, Waiters, ReadOnly, User
    <3>5. Writers
      BY <1>9, <2>2, <3>2, <3>3, <3>4, LeaveMoves
    <3>6. Readers
      <4>1. SUFFICES ASSUME WaitingFor(b, TRUE)' # {}, ~(cache[b].writeWaiters > 0)
                     PROVE  FALSE
        BY <3>1
      <4>2. cache[b].writeWaiters = 0 /\ WaitingFor(b, TRUE) # {}
        <5>1. cache[b].writeWaiters = 0
          BY <1>2, <4>1
        <5>2. WaitingFor(b, TRUE) # {}
          BY <3>2, <4>1
        <5>3. QED
          BY <5>1, <5>2
      <4>3. cache[b].writers > 0
        BY <1>1, <4>1, <4>2
      <4>4. cache[b].readers = 0
        <5>1. cache[b].writers = 0 \/ cache[b].readers = 0
          BY DEF ReadersWriter
        <5>2. QED
          BY <1>2, <4>3, <5>1
      <4>5. \A r \in WaitingFor(b, TRUE) : pc'[r] = "notified"
        BY <1>9, <2>2, <4>2, <4>4, LeaveMoves
      <4>6. PICK r \in WaitingFor(b, TRUE)' : TRUE
        BY <4>1
      <4>7. r \in WaitingFor(b, TRUE) /\ pc'[r] = "wait"
        BY <3>2, <4>6 DEF WaitingFor
      <4>8. QED
        BY <4>5, <4>7
    <3>7. QED
      BY <3>5, <3>6
  <2>3. QED
    BY <2>1, <2>2
<1>10. QED
  BY <1>4, <1>7, <1>8, <1>9

-----------------------------------------------------------------------------
LEMMA InitInv == Init => CacheInv
<1> SUFFICES ASSUME Init PROVE CacheInv
  OBVIOUS
<1> USE CacheAssumption DEF CacheAssumption, Init
<1>1. (CHOOSE s \in Sector : TRUE) \in Sector
  OBVIOUS
<1>2. CacheTypeOK
  BY <1>1 DEF CacheTypeOK, CacheBlock, Block, Data, PC
<1>3. StagesOK
  BY DEF StagesOK, FlushStage, AllThreads, User
<1>4. LockOK /\ MissOK
  BY DEF LockOK, MissOK, LockStage, MissStage, AllThreads, User
<1>5. OneBlockPerSector
  BY DEF OneBlockPerSector
<1>6. \A b, ro : Holders(b, ro) = {} /\ Waiters(b, ro) = {} /\ WaitingFor(b, ro) = {}
  BY DEF Holders, Waiters, WaitingFor, User, AllThreads
<1>7. ReadersWriter
  BY <1>6, FS_EmptySet DEF ReadersWriter
<1>8. NobodyStranded
  BY <1>6 DEF NobodyStranded
<1>9. QED
  BY <1>2, <1>3, <1>4, <1>5, <1>7, <1>8 DEF CacheInv

(* The steps of all threads keep the invariant.                            *)
THEOREM CacheInvariance == Spec => []CacheInv
<1>1. CacheInv /\ [Next]_vars => CacheInv'
  BY TypeStep, StagesStep, LockStep, MissStep, OneBlockStep, ReadersWriterStep, StrandedStep
     DEF CacheInv
<1>2. QED
  BY <1>1, InitInv, PTL DEF Spec

(* The table, the locks and the threads of the cache have values of their  *)
(* types; no counter of a block is ever decremented below zero.            *)
THEOREM CacheTypeCorrect == Spec => []CacheTypeOK
<1>1. CacheInv => CacheTypeOK
  BY DEF CacheInv
<1>2. QED
  BY <1>1, CacheInvariance, PTL

(* No sector is in two blocks, for any cache, although blocks are replaced *)
(* while threads wait for them.                                            *)
THEOREM SectorInOneBlock == Spec => []OneBlockPerSector
<1>1. CacheInv => OneBlockPerSector
  BY DEF CacheInv
<1>2. QED
  BY <1>1, CacheInvariance, PTL

(* The counters of a block count its threads, and no writer shares it.     *)
THEOREM CacheReadersWriter == Spec => []ReadersWriter
<1>1. CacheInv => ReadersWriter
  BY DEF CacheInv
<1>2. QED
  BY <1>1, CacheInvariance, PTL

(* Nobody is left behind in cond_wait of a block.                          *)
THEOREM CacheNobodyStranded == Spec => []NobodyStranded
<1>1. CacheInv => NobodyStranded
  BY DEF CacheInv
<1>2. QED
  BY <1>1, CacheInvariance, PTL

-----------------------------------------------------------------------------
(* The store.  Two things stand in its way: cache_fillzero does without    *)
(* data_lock, and cache_victim may take a block that a thread is about to  *)
(* enter, whose counters do not tell.  Without them the cache implements   *)
(* the store.                                                              *)
VictimIsFree ==
    \A t \in User : VictimScan(t) /\ pc'[t] = "flush" =>
        \A u \in User : pc[u] = "enter" => blk[u] # victimIdx

FreeVictimSpec == Init /\ [][Next /\ VictimIsFree]_vars

(* A thread goes for a block it has found, or is in it; it has a victim.   *)
EnteredStage == {"hit", "enter"} \cup WaitStage \cup HoldStage
VictimStage == {"flush", "flushed", "reset", "claim"}

(* What a thread at its stage relies on.                                   *)
OwnOK(t) ==
    /\ pc[t] # "zero"
    /\ pc[t] = "data" => op[t] \in {"read", "write", "overwrite"}
    /\ pc[t] = "readin" => t = Readd
    /\ t = Readd => pc[t] = "idle" \/ op[t] = "readahead"
    /\ t \in Client => pc[t] = "idle" \/ op[t] \in Op
    /\ pc[t] \in EnteredStage => cache[blk[t]].valid /\ cache[blk[t]].sector = want[t]
    /\ pc[t] = "scan" => \A b \in Block : cache[b].valid
    /\ pc[t] \in {"flush", "flushed"} => cache[blk[t]].valid
    /\ pc[t] = "flushed" =>
          /\ dataLock[blk[t]] = t /\ cache[blk[t]].dirty
          /\ cache[blk[t]].data = disk[cache[blk[t]].sector]
    /\ pc[t] = "data" => dataLock[blk[t]] = t /\ cache[blk[t]].loaded
    /\ pc[t] \in {"reset", "readin"} => ~cache[blk[t]].dirty
    /\ pc[t] = "claim" => ~cache[blk[t]].valid
ThreadsOK == \A t \in AllThreads : OwnOK(t)

VictimAlone ==
    \A t, u \in User :
        pc[t] \in VictimStage /\ pc[u] \in EnteredStage => blk[u] # blk[t]
FlagsOK ==
    \A b \in Block :
        (cache[b].loaded => cache[b].valid) /\ (cache[b].dirty => cache[b].loaded)
Overwriting(b) == \E t \in User : pc[t] = "data" /\ op[t] = "overwrite" /\ blk[t] = b
CleanOK ==
    \A b \in Block :
        cache[b].loaded /\ ~cache[b].dirty =>
            cache[b].data = disk[cache[b].sector] \/ Overwriting(b)

StoreInv == ThreadsOK /\ VictimAlone /\ FlagsOK /\ CleanOK

(* What a step does to the other threads, and to the data of a block.      *)
SameThread(u) ==
    /\ pc'[u] = pc[u] \/ (pc[u] = "wait" /\ pc'[u] = "notified")
    /\ blk'[u] = blk[u] /\ op'[u] = op[u] /\ want'[u] = want[u]
Others(t) == \A u \in AllThreads \ {t} : SameThread(u)
SameData(b) ==
    /\ cache'[b].valid = cache[b].valid /\ cache'[b].sector = cache[b].sector
    /\ cache'[b].loaded = cache[b].loaded /\ cache'[b].dirty = cache[b].dirty
    /\ cache'[b].data = cache[b].data
(* No other thread has the block of t as its victim, or enters t's victim. *)
StaysAlone(t) ==
    \A u \in User \ {t} :
        /\ pc'[t] \in VictimStage /\ pc[u] \in EnteredStage => blk[u] # blk'[t]
        /\ pc'[t] \in EnteredStage /\ pc[u] \in VictimStage => blk[u] # blk'[t]

LEMMA AloneKept ==
    ASSUME StoreInv, NEW t \in AllThreads, Others(t), t \in User => StaysAlone(t)
    PROVE  VictimAlone'
<1> SUFFICES ASSUME NEW v \in User, NEW u \in User,
                    pc'[v] \in VictimStage, pc'[u] \in EnteredStage
             PROVE  blk'[u] # blk'[v]
  BY DEF VictimAlone
<1>1. v # u
  BY DEF VictimStage, EnteredStage, HoldStage, WaitStage
<1>2. \A w \in User : w # t => /\ pc'[w] \in VictimStage => pc[w] \in VictimStage
                               /\ pc'[w] \in EnteredStage => pc[w] \in EnteredStage
                               /\ blk'[w] = blk[w]
  BY DEF Others, SameThread, VictimStage, EnteredStage, HoldStage, WaitStage, AllThreads
<1> QED
  BY <1>1, <1>2 DEF StaysAlone, StoreInv, VictimAlone

(* A step that changes no data.                                            *)
LEMMA QuietKeeps ==
    ASSUME CacheTypeOK, StagesOK, StoreInv, NEW t \in AllThreads, Others(t), OwnOK(t)',
           t \in User => StaysAlone(t), \A b \in Block : SameData(b),
           UNCHANGED <<dataLock, disk>>, pc[t] # "data"
    PROVE  StoreInv'
<1>1. ASSUME NEW u \in AllThreads, u # t PROVE OwnOK(u)'
  <2>1. OwnOK(u) /\ SameThread(u) /\ (pc[u] \notin {"idle", "lookup", "scan"} => blk[u] \in Block)
    BY <1>1 DEF StoreInv, ThreadsOK, Others, StagesOK
  <2>2. CASE pc'[u] = pc[u]
    <3>1. pc[u] \in {"data", "flush", "flushed", "reset", "readin", "claim"} \cup EnteredStage =>
             SameData(blk[u])
      BY <2>1 DEF EnteredStage, WaitStage, HoldStage
    <3>2. pc[u] = "scan" => \A b \in Block : cache'[b].valid
      BY <2>1 DEF OwnOK, SameData
    <3> QED
      BY <2>1, <2>2, <3>1, <3>2 DEF OwnOK, SameThread, SameData
  <2>3. CASE pc[u] = "wait" /\ pc'[u] = "notified"
    BY <2>1, <2>3 DEF OwnOK, SameThread, SameData, EnteredStage, WaitStage
  <2> QED
    BY <2>1, <2>2, <2>3 DEF SameThread
<1>2. FlagsOK'
  BY DEF StoreInv, FlagsOK, SameData
<1>3. CleanOK'
  <2> SUFFICES ASSUME NEW b \in Block, cache'[b].loaded, ~cache'[b].dirty
               PROVE  cache'[b].data = disk'[cache'[b].sector] \/ Overwriting(b)'
    BY DEF CleanOK
  <2>1. cache[b].data = disk[cache[b].sector] \/ Overwriting(b)
    BY DEF StoreInv, CleanOK, SameData
  <2>2. ASSUME Overwriting(b) PROVE Overwriting(b)'
    BY <2>2 DEF Overwriting, Others, SameThread, AllThreads
  <2> QED
    BY <2>1, <2>2 DEF SameData
<1> QED
  BY <1>1, <1>2, <1>3, AloneKept DEF StoreInv, ThreadsOK

LEMMA ThreadSets ==
    /\ Readd \in User /\ Readd \notin Client /\ Client \subseteq User /\ User \subseteq AllThreads
    /\ Flushd \in AllThreads /\ Flushd \notin User /\ AllThreads = User \cup {Flushd}
  BY CacheAssumption DEF CacheAssumption, User, AllThreads

LEMMA SameCache == UNCHANGED cache => \A b \in Block : SameData(b)
  BY DEF SameData

(* cache_lock is with one thread.                                          *)
LEMMA OneLocked ==
    ASSUME LockOK, NEW t \in AllThreads, NEW u \in AllThreads,
           pc[t] \in LockStage, pc[u] \in LockStage
    PROVE  t = u
  BY DEF LockOK

LEMMA VictimLocks == VictimStage \subseteq LockStage
  BY DEF VictimStage, LockStage

LEMMA UnlockedAlone ==
    ASSUME LockOK, CacheTypeOK, cacheLock = None, NEW u \in User
    PROVE  pc[u] \notin VictimStage
  BY CacheAssumption, ThreadSets, VictimLocks DEF CacheAssumption, LockOK, User

LEMMA AcquireKeeps ==
    ASSUME CacheInv, StoreInv, NEW t \in Client, NEW s \in Sector, NEW o \in Op,
           CacheAcquire(t, s, o)
    PROVE  StoreInv'
<1>1. t \in User /\ t \in AllThreads /\ t # Readd
  BY ThreadSets
<1>2. pc[t] = "idle" /\ pc'[t] = "lookup" /\ op'[t] \in Op /\ Others(t)
  BY <1>1 DEF CacheAcquire, Goto, CacheInv, CacheTypeOK, Others, SameThread
<1>3. OwnOK(t)' /\ StaysAlone(t)
  BY <1>1, <1>2 DEF OwnOK, StaysAlone, EnteredStage, VictimStage, WaitStage, HoldStage
<1> QED
  BY <1>1, <1>2, <1>3, SameCache, QuietKeeps DEF CacheAcquire, tableVars, CacheInv

LEMMA ReadAheadKeeps ==
    ASSUME CacheInv, StoreInv, ReadAhead
    PROVE  StoreInv'
<1> DEFINE t == Readd
<1>1. t \in User /\ t \in AllThreads
  BY ThreadSets
<1>2. pc[t] = "idle" /\ pc'[t] = "lookup" /\ op'[t] = "readahead" /\ Others(t)
  BY <1>1 DEF ReadAhead, Goto, CacheInv, CacheTypeOK, Others, SameThread
<1>3. OwnOK(t)' /\ StaysAlone(t)
  BY <1>1, <1>2, ThreadSets DEF OwnOK, StaysAlone, EnteredStage, VictimStage, WaitStage, HoldStage
<1> QED
  BY <1>1, <1>2, <1>3, SameCache, QuietKeeps DEF ReadAhead, tableVars, CacheInv

LEMMA LookupKeeps ==
    ASSUME CacheInv, StoreInv, NEW t \in User, Lookup(t)
    PROVE  StoreInv'
<1>1. t \in AllThreads
  BY ThreadSets
<1>2. /\ pc[t] = "lookup" /\ cacheLock = None /\ Others(t) /\ op'[t] = op[t] /\ want'[t] = want[t]
      /\ UNCHANGED <<cache, dataLock, disk>>
  BY <1>1 DEF Lookup, Goto, CacheInv, CacheTypeOK, Others, SameThread
<1>3. \A u \in User : pc[u] \notin VictimStage
  BY <1>2, UnlockedAlone DEF CacheInv
<1>4. (t = Readd => op[t] = "readahead") /\ (t \in Client => op[t] \in Op)
  BY <1>1, <1>2 DEF StoreInv, ThreadsOK, OwnOK
<1>5. \/ \E b \in Block : /\ cache[b].valid /\ cache[b].sector = want[t]
                          /\ blk'[t] = b /\ pc'[t] = "hit"
      \/ \E b \in Block : /\ ~cache[b].valid /\ blk'[t] = b /\ pc'[t] = "reset"
      \/ /\ \A b \in Block : cache[b].valid
         /\ pc'[t] = "scan"
  BY <1>1 DEF Lookup, Goto, CacheInv, CacheTypeOK, FirstInvalid
<1>6. CASE \E b \in Block : /\ cache[b].valid /\ cache[b].sector = want[t]
                            /\ blk'[t] = b /\ pc'[t] = "hit"
  <2>1. OwnOK(t)' /\ StaysAlone(t)
    BY <1>2, <1>3, <1>4, <1>6 DEF OwnOK, StaysAlone, VictimStage
  <2> QED
    BY <1>1, <1>2, <2>1, SameCache, QuietKeeps DEF CacheInv
<1>7. CASE \E b \in Block : ~cache[b].valid /\ blk'[t] = b /\ pc'[t] = "reset"
  <2>1. OwnOK(t)'
    BY <1>2, <1>4, <1>7 DEF OwnOK, EnteredStage, WaitStage, HoldStage, StoreInv, FlagsOK
  <2>2. StaysAlone(t)
    BY <1>1, <1>7, ThreadSets DEF StaysAlone, StoreInv, ThreadsOK, OwnOK, EnteredStage, WaitStage,
       HoldStage
  <2> QED
    BY <1>1, <1>2, <2>1, <2>2, SameCache, QuietKeeps DEF CacheInv
<1>8. CASE (\A b \in Block : cache[b].valid) /\ pc'[t] = "scan"
  <2>1. OwnOK(t)' /\ StaysAlone(t)
    BY <1>2, <1>4, <1>8 DEF OwnOK, StaysAlone, EnteredStage, VictimStage, WaitStage, HoldStage
  <2> QED
    BY <1>1, <1>2, <2>1, SameCache, QuietKeeps DEF CacheInv
<1> QED
  BY <1>5, <1>6, <1>7, <1>8

LEMMA HitKeeps ==
    ASSUME CacheInv, StoreInv, NEW t \in User, Hit(t)
    PROVE  StoreInv'
<1>1. t \in AllThreads
  BY ThreadSets
<1>2. /\ pc[t] = "hit" /\ pc'[t] = "enter" /\ Others(t)
      /\ op'[t] = op[t] /\ want'[t] = want[t] /\ blk'[t] = blk[t]
      /\ UNCHANGED <<cache, dataLock, disk>>
  BY <1>1 DEF Hit, Goto, threadVars, tableVars, CacheInv, CacheTypeOK, Others, SameThread
<1>3. OwnOK(t)' /\ StaysAlone(t)
  BY <1>1, <1>2 DEF OwnOK, StaysAlone, EnteredStage, VictimStage, StoreInv, ThreadsOK, VictimAlone
<1> QED
  BY <1>1, <1>2, <1>3, SameCache, QuietKeeps DEF CacheInv

(* The victim has no reader, writer or waiter by its counters, and nobody  *)
(* is about to enter it.                                                   *)
LEMMA ScanKeeps ==
    ASSUME CacheInv, StoreInv, VictimIsFree, NEW t \in User, VictimScan(t)
    PROVE  StoreInv'
<1>1. t \in AllThreads
  BY ThreadSets
<1>2. /\ pc[t] = "scan" /\ Others(t) /\ op'[t] = op[t] /\ want'[t] = want[t]
      /\ UNCHANGED <<cache, dataLock, disk>>
      /\ \/ pc'[t] = "scan"
         \/ /\ pc'[t] = "flush" /\ blk'[t] = victimIdx
            /\ cache[victimIdx].readers = 0 /\ cache[victimIdx].writers = 0
            /\ cache[victimIdx].readWaiters = 0 /\ cache[victimIdx].writeWaiters = 0
  BY <1>1 DEF VictimScan, Goto, threadVars, CacheInv, CacheTypeOK, Others, SameThread
<1>3. /\ \A b \in Block : cache[b].valid
      /\ t = Readd => op[t] = "readahead"
      /\ t \in Client => op[t] \in Op
  BY <1>1, <1>2 DEF StoreInv, ThreadsOK, OwnOK
<1>4. CASE pc'[t] = "scan"
  <2>1. OwnOK(t)' /\ StaysAlone(t)
    BY <1>2, <1>3, <1>4 DEF OwnOK, StaysAlone, EnteredStage, VictimStage, WaitStage, HoldStage
  <2> QED
    BY <1>1, <1>2, <2>1, SameCache, QuietKeeps DEF CacheInv
<1>5. CASE pc'[t] = "flush"
  <2>1. victimIdx \in Block /\ blk'[t] = victimIdx
    BY <1>2, <1>5 DEF CacheInv, CacheTypeOK
  <2>2. OwnOK(t)'
    BY <1>2, <1>3, <1>5, <2>1 DEF OwnOK, EnteredStage, WaitStage, HoldStage
  <2>3. ASSUME NEW u \in User, u # t, pc[u] \in EnteredStage PROVE blk[u] # victimIdx
    <3>1. CASE pc[u] = "hit"
      BY <1>1, <1>2, <2>3, <3>1, ThreadSets, OneLocked DEF CacheInv, LockStage
    <3>2. CASE pc[u] = "enter"
      BY <1>5, <3>2 DEF VictimIsFree
    <3>3. CASE pc[u] \in WaitStage \cup HoldStage
      <4>1. blk[u] \in Block
        BY <3>3, ThreadSets DEF CacheInv, StagesOK, WaitStage, HoldStage
      <4> QED
        BY <1>2, <1>5, <3>3, <4>1, Counted DEF CacheInv
    <3> QED
      BY <2>3, <3>1, <3>2, <3>3 DEF EnteredStage
  <2>4. StaysAlone(t)
    BY <1>5, <2>1, <2>3 DEF StaysAlone, EnteredStage, WaitStage, HoldStage
  <2> QED
    BY <1>1, <1>2, <2>2, <2>4, SameCache, QuietKeeps DEF CacheInv
<1> QED
  BY <1>2, <1>4, <1>5

LEMMA ReleaseKeeps ==
    ASSUME CacheInv, StoreInv, NEW t \in User, CacheRelease(t)
    PROVE  StoreInv'
<1>1. t \in AllThreads
  BY ThreadSets
<1>2. /\ pc[t] = "release" /\ pc'[t] = "releasing" /\ Others(t)
      /\ op'[t] = op[t] /\ want'[t] = want[t] /\ blk'[t] = blk[t]
      /\ UNCHANGED <<cache, dataLock, disk>>
  BY <1>1 DEF CacheRelease, Goto, threadVars, tableVars, CacheInv, CacheTypeOK, Others, SameThread
<1>3. OwnOK(t)' /\ StaysAlone(t)
  BY <1>1, <1>2 DEF OwnOK, StaysAlone, EnteredStage, VictimStage, WaitStage, HoldStage, StoreInv,
     ThreadsOK, VictimAlone
<1> QED
  BY <1>1, <1>2, <1>3, SameCache, QuietKeeps DEF CacheInv

LEMMA CheckKeeps ==
    ASSUME CacheInv, StoreInv, ReadAheadCheck
    PROVE  StoreInv'
<1> DEFINE t == Readd
<1>1. t \in User /\ t \in AllThreads
  BY ThreadSets
<1>2. /\ pc[t] = "held" /\ Others(t)
      /\ pc'[t] = IF cache[blk[t]].loaded THEN "release" ELSE "readin"
      /\ op'[t] = op[t] /\ want'[t] = want[t] /\ blk'[t] = blk[t]
      /\ UNCHANGED <<cache, dataLock, disk>>
  BY <1>1 DEF ReadAheadCheck, Goto, threadVars, tableVars, CacheInv, CacheTypeOK, Others,
     SameThread
<1>3. blk[t] \in Block
  BY <1>1, <1>2 DEF CacheInv, StagesOK
<1>4. OwnOK(t)' /\ StaysAlone(t)
  BY <1>1, <1>2, <1>3 DEF OwnOK, StaysAlone, EnteredStage, VictimStage, WaitStage, HoldStage,
     StoreInv, ThreadsOK, VictimAlone, FlagsOK
<1> QED
  BY <1>1, <1>2, <1>4, SameCache, QuietKeeps DEF CacheInv

LEMMA FlushAllKeeps ==
    ASSUME CacheInv, StoreInv, FlushAll \/ FlushNext
    PROVE  StoreInv'
<1> DEFINE t == Flushd
<1>1. t \in AllThreads /\ t \notin User /\ t \notin Client /\ t # Readd
  BY ThreadSets
<1>2. /\ pc[t] \in {"idle", "nextBlock"} /\ Others(t)
      /\ \/ pc'[t] \in {"idle", "nextBlock"}
         \/ pc'[t] = "flush" /\ blk'[t] = blk[t] /\ cache[blk[t]].valid
      /\ UNCHANGED <<cache, dataLock, disk>>
  BY <1>1 DEF FlushAll, FlushNext, FlushDone, Goto, threadVars, tableVars, CacheInv, CacheTypeOK,
     Others, SameThread
<1>3. OwnOK(t)'
  BY <1>1, <1>2 DEF OwnOK, EnteredStage, WaitStage, HoldStage
<1> QED
  BY <1>1, <1>2, <1>3, SameCache, QuietKeeps DEF CacheInv

(* The readers-writer lock touches no data.                                *)
Alike(c, d) ==
    /\ d.valid = c.valid /\ d.sector = c.sector
    /\ d.loaded = c.loaded /\ d.dirty = c.dirty /\ d.data = c.data

LEMMA CounterData ==
    ASSUME NEW c \in CacheBlock, NEW t
    PROVE  /\ Alike(c, Queued(t, c, 1)) /\ Alike(c, Admitted(t, c))
           /\ Alike(c, Admitted(t, Queued(t, c, -1))) /\ Alike(c, Left(c))
  BY DEF Queued, Admitted, Left, CacheBlock, Alike

LEMMA OneBlockData ==
    ASSUME CacheTypeOK, NEW b \in Block, NEW c, cache' = [cache EXCEPT ![b] = c],
           Alike(cache[b], c)
    PROVE  \A a \in Block : SameData(a)
  BY DEF CacheTypeOK, SameData, Alike

LEMMA EnterKeeps ==
    ASSUME CacheInv, StoreInv, NEW t \in User, Enter(t)
    PROVE  StoreInv' /\ \A b \in Block : SameData(b)
<1>1. t \in AllThreads
  BY ThreadSets
<1>2. /\ pc[t] = "enter" /\ pc'[t] \in {"wait", "held"} /\ Others(t)
      /\ op'[t] = op[t] /\ want'[t] = want[t] /\ blk'[t] = blk[t]
      /\ UNCHANGED <<dataLock, disk>>
  BY <1>1 DEF Enter, Goto, threadVars, CacheInv, CacheTypeOK, Others, SameThread
<1>3. blk[t] \in Block /\ cache[blk[t]] \in CacheBlock
  BY <1>1, <1>2, BlockTypes DEF CacheInv, StagesOK
<1>4. \A b \in Block : SameData(b)
  <2>1. CASE cache' = [cache EXCEPT ![blk[t]] = Queued(t, cache[blk[t]], 1)]
    BY <1>3, <2>1, CounterData, OneBlockData DEF CacheInv
  <2>2. CASE cache' = [cache EXCEPT ![blk[t]] = Admitted(t, cache[blk[t]])]
    BY <1>3, <2>2, CounterData, OneBlockData DEF CacheInv
  <2> QED
    BY <2>1, <2>2 DEF Enter
<1>5. OwnOK(t)' /\ StaysAlone(t)
  BY <1>1, <1>2, <1>3, <1>4 DEF OwnOK, StaysAlone, EnteredStage, VictimStage, WaitStage, HoldStage,
     StoreInv, ThreadsOK, VictimAlone, SameData
<1> QED
  BY <1>1, <1>2, <1>4, <1>5, QuietKeeps DEF CacheInv

LEMMA RecheckKeeps ==
    ASSUME CacheInv, StoreInv, NEW t \in User, Recheck(t)
    PROVE  StoreInv' /\ \A b \in Block : SameData(b)
<1>1. t \in AllThreads
  BY ThreadSets
<1>2. /\ pc[t] = "notified" /\ pc'[t] \in {"wait", "held"} /\ Others(t)
      /\ op'[t] = op[t] /\ want'[t] = want[t] /\ blk'[t] = blk[t]
      /\ UNCHANGED <<dataLock, disk>>
  BY <1>1 DEF Recheck, Goto, threadVars, CacheInv, CacheTypeOK, Others, SameThread
<1>3. blk[t] \in Block /\ cache[blk[t]] \in CacheBlock
  BY <1>1, <1>2, BlockTypes DEF CacheInv, StagesOK
<1>4. \A b \in Block : SameData(b)
  <2>1. CASE UNCHANGED cache
    BY <2>1, SameCache
  <2>2. CASE cache' = [cache EXCEPT ![blk[t]] = Admitted(t, Queued(t, cache[blk[t]], -1))]
    BY <1>3, <2>2, CounterData, OneBlockData DEF CacheInv
  <2> QED
    BY <2>1, <2>2 DEF Recheck
<1>5. OwnOK(t)' /\ StaysAlone(t)
  BY <1>1, <1>2, <1>3, <1>4 DEF OwnOK, StaysAlone, EnteredStage, VictimStage, WaitStage, HoldStage,
     StoreInv, ThreadsOK, VictimAlone, SameData
<1> QED
  BY <1>1, <1>2, <1>4, <1>5, QuietKeeps DEF CacheInv

LEMMA LeaveKeeps ==
    ASSUME CacheInv, StoreInv, NEW t \in User, Leave(t)
    PROVE  StoreInv' /\ \A b \in Block : SameData(b)
<1>1. t \in AllThreads
  BY ThreadSets
<1>2. /\ pc[t] = "releasing" /\ pc'[t] = "idle" /\ Others(t)
      /\ UNCHANGED <<dataLock, disk>>
  <2>1. /\ pc[t] = "releasing" /\ UNCHANGED <<dataLock, disk>>
        /\ blk' = [blk EXCEPT ![t] = None] /\ want' = [want EXCEPT ![t] = None]
        /\ op' = [op EXCEPT ![t] = None]
    BY DEF Leave
  <2>2. SignalWriter(t) \/ Goto(t, "idle") \/ BroadcastReaders(t)
    BY DEF Leave
  <2>3. pc'[t] = "idle" /\ \A u \in AllThreads \ {t} :
            pc'[u] = pc[u] \/ (pc[u] = "wait" /\ pc'[u] = "notified")
    BY <1>1, <2>1, <2>2 DEF SignalWriter, BroadcastReaders, WaitingFor, Goto, CacheInv, CacheTypeOK
  <2> QED
    BY <1>1, <2>1, <2>3 DEF Others, SameThread, CacheInv, CacheTypeOK
<1>3. blk[t] \in Block /\ cache[blk[t]] \in CacheBlock
  BY <1>1, <1>2, BlockTypes DEF CacheInv, StagesOK
<1>4. \A b \in Block : SameData(b)
  <2>1. cache' = [cache EXCEPT ![blk[t]] = Left(cache[blk[t]])]
    BY DEF Leave, Left
  <2> QED
    BY <1>3, <2>1, CounterData, OneBlockData DEF CacheInv
<1>5. OwnOK(t)' /\ StaysAlone(t)
  BY <1>2 DEF OwnOK, StaysAlone, EnteredStage, VictimStage, WaitStage, HoldStage
<1> QED
  BY <1>1, <1>2, <1>4, <1>5, QuietKeeps DEF CacheInv

(* A step that changes block b, its data_lock or its sector on disk.       *)
FlagsAt(b) == (cache[b].loaded => cache[b].valid) /\ (cache[b].dirty => cache[b].loaded)
CleanAt(b) ==
    cache[b].loaded /\ ~cache[b].dirty =>
        cache[b].data = disk[cache[b].sector] \/ Overwriting(b)
OnlyBlock(b) ==
    \A a \in Block \ {b} :
        /\ SameData(a) /\ dataLock'[a] = dataLock[a]
        /\ cache[a].valid => disk'[cache[a].sector] = disk[cache[a].sector]
(* A dirty block stays as it is, and no other block becomes dirty.         *)
KeepsDirty ==
    \A b \in Block :
        /\ cache'[b].dirty <=> cache[b].dirty
        /\ cache[b].dirty => /\ cache'[b].sector = cache[b].sector
                             /\ cache'[b].data = cache[b].data

LEMMA BlockKeeps ==
    ASSUME CacheTypeOK, StagesOK, StoreInv, NEW t \in AllThreads, NEW b \in Block,
           Others(t), OwnOK(t)', t \in User => StaysAlone(t), pc[t] = "data" => blk[t] = b,
           OnlyBlock(b), FlagsAt(b)', CleanAt(b)',
           \A u \in AllThreads \ {t} : pc[u] = "scan" => cache'[b].valid,
           \A u \in AllThreads \ {t} :
              blk[u] = b /\ pc[u] \notin {"idle", "lookup", "scan", "nextBlock"} => OwnOK(u)'
    PROVE  StoreInv'
<1>1. ASSUME NEW u \in AllThreads, u # t PROVE OwnOK(u)'
  <2>1. OwnOK(u) /\ SameThread(u)
    BY <1>1 DEF StoreInv, ThreadsOK, Others
  <2>2. CASE pc[u] \in {"idle", "lookup", "nextBlock"}
    BY <2>1, <2>2 DEF OwnOK, SameThread, EnteredStage, WaitStage, HoldStage
  <2>3. CASE pc[u] = "scan"
    <3>1. \A a \in Block : cache'[a].valid
      BY <1>1, <2>1, <2>3 DEF OwnOK, OnlyBlock, SameData
    <3> QED
      BY <2>1, <2>3, <3>1 DEF OwnOK, SameThread, EnteredStage, WaitStage, HoldStage
  <2>4. CASE pc[u] \notin {"idle", "lookup", "scan", "nextBlock"} /\ blk[u] # b
    <3>1. blk[u] \in Block
      BY <2>4 DEF StagesOK
    <3> DEFINE a == blk[u]
    <3>2. /\ SameData(a) /\ dataLock'[a] = dataLock[a]
          /\ cache[a].valid => disk'[cache[a].sector] = disk[cache[a].sector]
      BY <2>4, <3>1 DEF OnlyBlock
    <3>3. CASE pc'[u] = pc[u]
      BY <2>1, <2>4, <3>2, <3>3 DEF OwnOK, SameThread, SameData
    <3>4. CASE pc[u] = "wait" /\ pc'[u] = "notified"
      BY <2>1, <3>2, <3>4 DEF OwnOK, SameThread, SameData, EnteredStage, WaitStage
    <3> QED
      BY <2>1, <3>3, <3>4 DEF SameThread
  <2>5. CASE pc[u] \notin {"idle", "lookup", "scan", "nextBlock"} /\ blk[u] = b
    BY <1>1, <2>5
  <2> QED
    BY <2>2, <2>3, <2>4, <2>5
<1>2. FlagsOK'
  BY DEF StoreInv, FlagsOK, SameData, OnlyBlock, FlagsAt
<1>3. CleanOK'
  <2> SUFFICES ASSUME NEW a \in Block, a # b PROVE CleanAt(a)'
    BY DEF CleanOK, CleanAt
  <2>1. CleanAt(a) /\ FlagsAt(a)
    BY DEF StoreInv, CleanOK, CleanAt, FlagsOK, FlagsAt
  <2>2. ASSUME Overwriting(a) PROVE Overwriting(a)'
    BY <2>2 DEF Overwriting, Others, SameThread, AllThreads
  <2>3. SameData(a) /\ (cache[a].valid => disk'[cache[a].sector] = disk[cache[a].sector])
    BY DEF OnlyBlock
  <2> QED
    BY <2>1, <2>2, <2>3 DEF SameData, CleanAt, FlagsAt
<1> QED
  BY <1>1, <1>2, <1>3, AloneKept DEF StoreInv, ThreadsOK

(* Who else may be at the block of a thread: none at a lock stage beside   *)
(* the holder of cache_lock, none inside beside the owner of a victim.     *)
LEMMA NobodyAtVictim ==
    ASSUME CacheInv, StoreInv, NEW t \in User, pc[t] \in VictimStage,
           NEW u \in AllThreads, u # t, blk[u] = blk[t]
    PROVE  pc[u] \in {"idle", "lookup", "nextBlock"}
<1>1. pc[u] \notin LockStage
  BY OneLocked, ThreadSets, VictimLocks DEF CacheInv
<1>2. u \in User => pc[u] \notin EnteredStage
  BY DEF StoreInv, VictimAlone
<1>3. u \notin User => pc[u] \in FlushStage
  BY ThreadSets DEF CacheInv, StagesOK
<1>4. pc[u] \in PC /\ pc[u] # "zero"
  BY DEF CacheInv, CacheTypeOK, StoreInv, ThreadsOK, OwnOK
<1> QED
  BY <1>1, <1>2, <1>3, <1>4
     DEF PC, LockStage, EnteredStage, WaitStage, HoldStage, FlushStage

LEMMA NobodyScans ==
    ASSUME CacheInv, NEW t \in AllThreads, pc[t] \in LockStage
    PROVE  \A u \in AllThreads \ {t} : pc[u] \notin LockStage
  BY OneLocked DEF CacheInv

LEMMA ResetKeeps ==
    ASSUME CacheInv, StoreInv, NEW t \in User, VictimReset(t)
    PROVE  StoreInv' /\ KeepsDirty
<1>0. PICK b : b = blk[t]
  OBVIOUS
<1> USE <1>0
<1>1. t \in AllThreads
  BY ThreadSets
<1>2. /\ pc[t] = "reset" /\ pc'[t] = "claim" /\ Others(t)
      /\ op'[t] = op[t] /\ want'[t] = want[t] /\ blk'[t] = b
      /\ cache' = [cache EXCEPT ![b] =
                      [@ EXCEPT !.valid = FALSE, !.loaded = FALSE, !.dirty = FALSE]]
      /\ UNCHANGED <<dataLock, disk>>
  BY <1>1 DEF VictimReset, Goto, threadVars, CacheInv, CacheTypeOK, Others, SameThread
<1>3. b \in Block /\ cache[b] \in CacheBlock
  BY <1>1, <1>2, BlockTypes DEF CacheInv, StagesOK
<1>4. ~cache'[b].valid /\ ~cache'[b].loaded /\ ~cache'[b].dirty /\ OnlyBlock(b)
  BY <1>2, <1>3 DEF OnlyBlock, SameData, CacheInv, CacheTypeOK, CacheBlock
<1>5. OwnOK(t)'
  BY <1>1, <1>2, <1>4 DEF OwnOK, StoreInv, ThreadsOK, EnteredStage, WaitStage, HoldStage
<1>6. StaysAlone(t)
  BY <1>2 DEF StaysAlone, StoreInv, VictimAlone, EnteredStage, VictimStage, WaitStage, HoldStage
<1>7. \A u \in AllThreads \ {t} :
         /\ pc[u] # "scan"
         /\ blk[u] = b => pc[u] \in {"idle", "lookup", "nextBlock"}
  BY <1>1, <1>2, NobodyAtVictim, NobodyScans DEF VictimStage, LockStage
<1>8. FlagsAt(b)' /\ CleanAt(b)'
  BY <1>4 DEF FlagsAt, CleanAt
<1>9. ~cache[b].dirty
  BY <1>1, <1>2 DEF StoreInv, ThreadsOK, OwnOK
<1>10. KeepsDirty
  BY <1>4, <1>9 DEF KeepsDirty, OnlyBlock, SameData
<1> QED
  BY <1>1, <1>2, <1>3, <1>4, <1>5, <1>6, <1>7, <1>8, <1>10, BlockKeeps DEF CacheInv

LEMMA ClaimKeeps ==
    ASSUME CacheInv, StoreInv, NEW t \in User, Claim(t)
    PROVE  StoreInv' /\ KeepsDirty
<1>0. PICK b : b = blk[t]
  OBVIOUS
<1> USE <1>0
<1>1. t \in AllThreads
  BY ThreadSets
<1>2. /\ pc[t] = "claim" /\ pc'[t] = "enter" /\ Others(t)
      /\ op'[t] = op[t] /\ want'[t] = want[t] /\ blk'[t] = b
      /\ cache' = [cache EXCEPT ![b] = [@ EXCEPT !.sector = want[t], !.valid = TRUE]]
      /\ UNCHANGED <<dataLock, disk>>
  BY <1>1 DEF Claim, Goto, threadVars, CacheInv, CacheTypeOK, Others, SameThread
<1>3. b \in Block /\ cache[b] \in CacheBlock
  BY <1>1, <1>2, BlockTypes DEF CacheInv, StagesOK
<1>4. ~cache[b].loaded /\ ~cache[b].dirty
  BY <1>1, <1>2, <1>3 DEF StoreInv, ThreadsOK, OwnOK, FlagsOK
<1>5. /\ cache'[b].valid /\ ~cache'[b].loaded /\ ~cache'[b].dirty
      /\ cache'[b].sector = want[t] /\ OnlyBlock(b)
  BY <1>2, <1>3, <1>4 DEF OnlyBlock, SameData, CacheInv, CacheTypeOK, CacheBlock
<1>6. OwnOK(t)'
  BY <1>1, <1>2, <1>5 DEF OwnOK, StoreInv, ThreadsOK, EnteredStage, WaitStage, HoldStage
<1>7. \A u \in AllThreads \ {t} :
         /\ pc[u] \notin LockStage
         /\ blk[u] = b => pc[u] \in {"idle", "lookup", "nextBlock"}
  BY <1>1, <1>2, NobodyAtVictim, NobodyScans DEF VictimStage, LockStage
<1>8. StaysAlone(t)
  BY <1>2, <1>7, ThreadSets, VictimLocks DEF StaysAlone, VictimStage
<1>9. FlagsAt(b)' /\ CleanAt(b)'
  BY <1>5 DEF FlagsAt, CleanAt
<1>10. KeepsDirty
  BY <1>4, <1>5 DEF KeepsDirty, OnlyBlock, SameData
<1> QED
  BY <1>1, <1>2, <1>3, <1>5, <1>6, <1>7, <1>8, <1>9, <1>10, BlockKeeps DEF CacheInv

(* With data_lock of block b in hand or free, nobody else is in its data.  *)
LEMMA DataLockAlone ==
    ASSUME CacheInv, StoreInv, NEW t \in AllThreads, NEW b \in Block,
           dataLock[b] = None \/ dataLock[b] = t, NEW u \in AllThreads, u # t, blk[u] = b
    PROVE  pc[u] \notin {"data", "flushed"}
<1>1. u # None
  BY CacheAssumption DEF CacheAssumption, AllThreads, User
<1> QED
  BY <1>1 DEF StoreInv, ThreadsOK, OwnOK

LEMMA EnteredAlone ==
    ASSUME StoreInv, NEW t \in User, pc[t] \in EnteredStage, NEW u \in User, blk[u] = blk[t]
    PROVE  pc[u] \notin VictimStage
  BY DEF StoreInv, VictimAlone

LEMMA DataBeginKeeps ==
    ASSUME CacheInv, StoreInv, NEW t \in User, DataBegin(t)
    PROVE  StoreInv' /\ KeepsDirty
<1>0. PICK b : b = blk[t]
  OBVIOUS
<1> USE <1>0
<1>1. t \in AllThreads
  BY ThreadSets
<1>2. /\ pc[t] = "held" /\ pc'[t] = "data" /\ Others(t) /\ dataLock[b] = None
      /\ op'[t] = op[t] /\ want'[t] = want[t] /\ blk'[t] = b
      /\ op[t] \in {"read", "write", "overwrite"}
      /\ cache' = [cache EXCEPT ![b] = IF op[t] = "overwrite" THEN [@ EXCEPT !.loaded = TRUE]
                                       ELSE Loaded(@)]
      /\ dataLock' = [dataLock EXCEPT ![b] = t] /\ UNCHANGED disk
  BY <1>1 DEF DataBegin, Goto, threadVars, CacheInv, CacheTypeOK, Others, SameThread
<1>3. b \in Block /\ cache[b] \in CacheBlock
  BY <1>1, <1>2, BlockTypes DEF CacheInv, StagesOK
<1>4. cache[b].valid /\ cache[b].sector = want[t] /\ FlagsAt(b) /\ CleanAt(b)
  BY <1>1, <1>2, <1>3 DEF StoreInv, ThreadsOK, OwnOK, EnteredStage, HoldStage, FlagsOK, FlagsAt,
     CleanOK, CleanAt
<1>5. ~Overwriting(b)
  BY <1>1, <1>2, <1>3, DataLockAlone, ThreadSets DEF Overwriting
<1>6. /\ cache'[b].valid /\ cache'[b].sector = want[t] /\ cache'[b].loaded
      /\ cache'[b].dirty = cache[b].dirty /\ OnlyBlock(b) /\ dataLock'[b] = t
      /\ op[t] = "overwrite" \/ cache[b].dirty \/ cache'[b].data = disk[want[t]]
      /\ cache[b].dirty => cache'[b].data = cache[b].data
  <2>1. OnlyBlock(b) /\ dataLock'[b] = t
    BY <1>2, <1>3 DEF OnlyBlock, SameData, CacheInv, CacheTypeOK
  <2>2. CASE op[t] = "overwrite"
    <3>1. cache'[b] = [cache[b] EXCEPT !.loaded = TRUE]
      BY <1>2, <1>3, <2>2 DEF CacheInv, CacheTypeOK
    <3> QED
      BY <1>3, <1>4, <2>1, <2>2, <3>1 DEF CacheBlock
  <2>3. CASE op[t] # "overwrite"
    <3>1. cache'[b] = Loaded(cache[b])
      BY <1>2, <1>3, <2>3 DEF CacheInv, CacheTypeOK
    <3>2. CASE cache[b].loaded
      BY <1>4, <1>5, <2>1, <3>1, <3>2 DEF Loaded, CleanAt
    <3>3. CASE ~cache[b].loaded
      <4>1. cache'[b] = [cache[b] EXCEPT !.data = disk[cache[b].sector], !.loaded = TRUE,
                                         !.dirty = FALSE]
        BY <3>1, <3>3 DEF Loaded
      <4>2. cache[b].dirty = FALSE
        BY <1>3, <1>4, <3>3 DEF CacheBlock, FlagsAt
      <4>3. /\ cache'[b].valid = cache[b].valid /\ cache'[b].sector = cache[b].sector
            /\ cache'[b].loaded = TRUE /\ cache'[b].dirty = FALSE
            /\ cache'[b].data = disk[cache[b].sector]
        BY <1>3, <4>1 DEF CacheBlock
      <4> QED
        BY <1>4, <2>1, <4>2, <4>3
    <3> QED
      BY <3>2, <3>3
  <2> QED
    BY <2>2, <2>3
<1>7. OwnOK(t)'
  BY <1>1, <1>2, <1>6 DEF OwnOK, StoreInv, ThreadsOK
<1>8. StaysAlone(t)
  BY <1>2, EnteredAlone DEF StaysAlone, EnteredStage, VictimStage, WaitStage, HoldStage
<1>9. ASSUME NEW u \in AllThreads \ {t}, blk[u] = b,
             pc[u] \notin {"idle", "lookup", "scan", "nextBlock"}
      PROVE  OwnOK(u)'
  <2>1. OwnOK(u) /\ SameThread(u) /\ pc[u] \notin {"data", "flushed"}
    BY <1>1, <1>2, <1>3, <1>9, DataLockAlone DEF StoreInv, ThreadsOK, Others
  <2> QED
    BY <1>4, <1>6, <1>9, <2>1 DEF OwnOK, SameThread, EnteredStage, WaitStage, HoldStage
<1>10. FlagsAt(b)' /\ CleanAt(b)'
  <2>1. op[t] = "overwrite" => Overwriting(b)'
    BY <1>2 DEF Overwriting
  <2> QED
    BY <1>2, <1>4, <1>6, <2>1 DEF FlagsAt, CleanAt
<1>11. KeepsDirty
  BY <1>4, <1>6 DEF KeepsDirty, OnlyBlock, SameData
<1> QED
  BY <1>1, <1>2, <1>3, <1>6, <1>7, <1>8, <1>9, <1>10, <1>11, BlockKeeps DEF CacheInv

(* Only a writer makes a block dirty, and then nobody reads it.            *)
LEMMA DataEndKeeps ==
    ASSUME CacheInv, StoreInv, NEW t \in User, DataEnd(t)
    PROVE  StoreInv'
<1>0. PICK b : b = blk[t]
  OBVIOUS
<1> USE <1>0
<1>1. t \in AllThreads
  BY ThreadSets
<1>2. /\ pc[t] = "data" /\ pc'[t] = "release" /\ Others(t)
      /\ op'[t] = op[t] /\ want'[t] = want[t] /\ blk'[t] = b
      /\ op[t] = "read" => UNCHANGED cache
      /\ op[t] # "read" =>
            \E d : cache' = [cache EXCEPT ![b] = [@ EXCEPT !.data = d, !.dirty = TRUE]]
      /\ dataLock' = [dataLock EXCEPT ![b] = None] /\ UNCHANGED disk
  BY <1>1 DEF DataEnd, Goto, threadVars, CacheInv, CacheTypeOK, Others, SameThread
<1>3. b \in Block /\ cache[b] \in CacheBlock
  BY <1>1, <1>2, BlockTypes DEF CacheInv, StagesOK
<1>4. /\ cache[b].valid /\ cache[b].sector = want[t] /\ FlagsAt(b) /\ CleanAt(b)
      /\ cache[b].loaded /\ dataLock[b] = t /\ op[t] \in {"read", "write", "overwrite"}
  <2>1. OwnOK(t) /\ pc[t] \in EnteredStage
    BY <1>1, <1>2 DEF StoreInv, ThreadsOK, EnteredStage, HoldStage
  <2>2. FlagsAt(b) /\ CleanAt(b)
    BY <1>3 DEF StoreInv, FlagsOK, FlagsAt, CleanOK, CleanAt
  <2> QED
    BY <1>2, <2>1, <2>2 DEF OwnOK
<1>5. op[t] = "read" => ~Overwriting(b)
  BY <1>1, <1>2, <1>3, <1>4, DataLockAlone, ThreadSets DEF Overwriting
<1>6. /\ cache'[b].valid /\ cache'[b].sector = want[t] /\ cache'[b].loaded
      /\ cache'[b].dirty = (cache[b].dirty \/ op[t] # "read") /\ OnlyBlock(b)
      /\ op[t] = "read" => cache'[b] = cache[b]
  <2>1. CASE op[t] = "read"
    BY <1>2, <1>3, <1>4, <2>1 DEF OnlyBlock, SameData, CacheInv, CacheTypeOK, CacheBlock
  <2>2. CASE op[t] # "read"
    <3>1. PICK d : cache' = [cache EXCEPT ![b] = [@ EXCEPT !.data = d, !.dirty = TRUE]]
      BY <1>2, <2>2
    <3>2. /\ cache'[b] = [cache[b] EXCEPT !.data = d, !.dirty = TRUE]
          /\ \A a \in Block \ {b} : cache'[a] = cache[a] /\ dataLock'[a] = dataLock[a]
      BY <1>2, <1>3, <3>1 DEF CacheInv, CacheTypeOK
    <3> QED
      BY <1>2, <1>3, <1>4, <2>2, <3>2 DEF OnlyBlock, SameData, CacheBlock
  <2> QED
    BY <2>1, <2>2
<1>7. OwnOK(t)'
  BY <1>1, <1>2, <1>6 DEF OwnOK, StoreInv, ThreadsOK
<1>8. StaysAlone(t)
  BY <1>2, EnteredAlone DEF StaysAlone, EnteredStage, VictimStage, WaitStage, HoldStage
<1>9. ASSUME NEW u \in AllThreads \ {t}, blk[u] = b,
             pc[u] \notin {"idle", "lookup", "scan", "nextBlock"}
      PROVE  OwnOK(u)'
  <2>1. OwnOK(u) /\ SameThread(u) /\ pc[u] \notin {"data", "flushed"}
    BY <1>1, <1>2, <1>3, <1>4, <1>9, DataLockAlone DEF StoreInv, ThreadsOK, Others
  <2>2. pc[u] \notin {"reset", "claim"}
    <3>1. u \in User => pc[u] \notin VictimStage
      BY <1>2, <1>9, EnteredAlone DEF EnteredStage, HoldStage
    <3>2. u \notin User => pc[u] \in FlushStage
      BY ThreadSets DEF CacheInv, StagesOK
    <3> QED
      BY <3>1, <3>2 DEF VictimStage, FlushStage
  <2>3. pc[u] = "readin" => op[t] = "read"
    <3> SUFFICES ASSUME pc[u] = "readin", op[t] # "read" PROVE FALSE
      OBVIOUS
    <3>1. u = Readd /\ u \in User /\ op[u] = "readahead"
      BY <2>1, ThreadSets DEF OwnOK
    <3>2. cache[b].readers > 0
      BY <1>3, <1>9, <3>1, Counted DEF CacheInv, HoldStage, ReadOnly
    <3>3. cache[b].writers = 1
      BY <1>2, <1>3, <1>4, Counted DEF CacheInv, HoldStage, ReadOnly
    <3>4. cache[b].writers = 0 \/ cache[b].readers = 0
      BY <1>3 DEF CacheInv, ReadersWriter
    <3>5. cache[b].readers \in Nat
      BY <1>3 DEF CacheBlock
    <3> QED
      BY <3>2, <3>3, <3>4, <3>5
  <2> QED
    BY <1>4, <1>6, <1>9, <2>1, <2>2, <2>3 DEF OwnOK, SameThread, EnteredStage, WaitStage, HoldStage
<1>10. FlagsAt(b)' /\ CleanAt(b)'
  BY <1>2, <1>4, <1>5, <1>6 DEF FlagsAt, CleanAt
<1> QED
  BY <1>1, <1>2, <1>3, <1>6, <1>7, <1>8, <1>9, <1>10, BlockKeeps DEF CacheInv

LEMMA LoadKeeps ==
    ASSUME CacheInv, StoreInv, ReadAheadLoad
    PROVE  StoreInv' /\ KeepsDirty
<1>0. PICK t, b : t = Readd /\ b = blk[t]
  OBVIOUS
<1> USE <1>0
<1>1. t \in AllThreads /\ t \in User
  BY ThreadSets
<1>2. /\ pc[t] = "readin" /\ pc'[t] = "release" /\ Others(t)
      /\ op'[t] = op[t] /\ want'[t] = want[t] /\ blk'[t] = b
      /\ cache' = [cache EXCEPT ![b] = Loaded([@ EXCEPT !.loaded = FALSE])]
      /\ UNCHANGED <<dataLock, disk>>
  BY <1>1 DEF ReadAheadLoad, Goto, threadVars, CacheInv, CacheTypeOK, Others, SameThread
<1>3. b \in Block /\ cache[b] \in CacheBlock
  BY <1>1, <1>2, BlockTypes DEF CacheInv, StagesOK
<1>4. cache[b].valid /\ cache[b].sector = want[t] /\ ~cache[b].dirty
  BY <1>1, <1>2 DEF StoreInv, ThreadsOK, OwnOK, EnteredStage, HoldStage
<1>5. /\ cache'[b].valid /\ cache'[b].sector = want[t] /\ cache'[b].loaded /\ ~cache'[b].dirty
      /\ cache'[b].data = disk[want[t]] /\ OnlyBlock(b)
  <2>1. cache'[b] = Loaded([cache[b] EXCEPT !.loaded = FALSE])
    BY <1>2, <1>3 DEF CacheInv, CacheTypeOK
  <2>2. OnlyBlock(b)
    BY <1>2, <1>3 DEF OnlyBlock, SameData, CacheInv, CacheTypeOK
  <2> QED
    BY <1>3, <1>4, <2>1, <2>2 DEF Loaded, CacheBlock
<1>6. OwnOK(t)'
  BY <1>1, <1>2, <1>5 DEF OwnOK, StoreInv, ThreadsOK
<1>7. StaysAlone(t)
  BY <1>1, <1>2, EnteredAlone DEF StaysAlone, EnteredStage, VictimStage, WaitStage, HoldStage
<1>8. ASSUME NEW u \in AllThreads \ {t}, blk[u] = b,
             pc[u] \notin {"idle", "lookup", "scan", "nextBlock"}
      PROVE  OwnOK(u)'
  <2>1. OwnOK(u) /\ SameThread(u)
    BY <1>2, <1>8 DEF StoreInv, ThreadsOK, Others
  <2>2. pc[u] \notin {"claim", "flushed"}
    BY <1>4, <1>8, <2>1 DEF OwnOK
  <2>3. CASE pc'[u] = pc[u]
    BY <1>2, <1>4, <1>5, <1>8, <2>1, <2>2, <2>3 DEF OwnOK, SameThread
  <2>4. CASE pc[u] = "wait" /\ pc'[u] = "notified"
    BY <1>4, <1>5, <1>8, <2>1, <2>4 DEF OwnOK, SameThread, EnteredStage, WaitStage
  <2> QED
    BY <2>1, <2>3, <2>4 DEF SameThread
<1>9. FlagsAt(b)' /\ CleanAt(b)'
  BY <1>2, <1>5 DEF FlagsAt, CleanAt
<1>10. KeepsDirty
  BY <1>4, <1>5 DEF KeepsDirty, OnlyBlock, SameData
<1> QED
  BY <1>1, <1>2, <1>3, <1>5, <1>6, <1>7, <1>8, <1>9, <1>10, BlockKeeps DEF CacheInv

(* cache_flush writes the sector of a valid block, which no other has.     *)
LEMMA FlushKeeps ==
    ASSUME CacheInv, StoreInv, NEW t \in AllThreads, CacheFlush(t)
    PROVE  StoreInv'
<1>0. PICK b : b = blk[t]
  OBVIOUS
<1> USE <1>0
<1>1. /\ pc[t] = "flush" /\ dataLock[b] = None /\ Others(t)
      /\ op'[t] = op[t] /\ want'[t] = want[t] /\ UNCHANGED cache
  BY DEF CacheFlush, FlushDone, Goto, threadVars, tableVars, CacheInv, CacheTypeOK, Others,
     SameThread
<1>2. b \in Block /\ cache[b] \in CacheBlock /\ \A a \in Block : SameData(a)
  BY <1>1, BlockTypes, SameCache DEF CacheInv, StagesOK
<1>3. cache[b].valid /\ FlagsAt(b) /\ CleanAt(b)
  BY <1>1, <1>2 DEF StoreInv, ThreadsOK, OwnOK, FlagsOK, FlagsAt, CleanOK, CleanAt
<1>4. (t = Readd => op[t] = "readahead") /\ (t \in Client => op[t] \in Op)
  BY <1>1 DEF StoreInv, ThreadsOK, OwnOK
<1>5. CASE cache[b].loaded /\ cache[b].dirty
  <2>1. /\ pc'[t] = "flushed" /\ blk'[t] = b
        /\ dataLock' = [dataLock EXCEPT ![b] = t]
        /\ disk' = [disk EXCEPT ![cache[b].sector] = cache[b].data]
    BY <1>5 DEF CacheFlush, Goto, CacheInv, CacheTypeOK
  <2>2. /\ OnlyBlock(b) /\ dataLock'[b] = t /\ cache[b].sector \in Sector
        /\ disk'[cache[b].sector] = cache[b].data
    BY <1>1, <1>2, <1>3, <2>1, BlockTypes
       DEF OnlyBlock, SameData, CacheInv, CacheTypeOK, OneBlockPerSector
  <2>3. OwnOK(t)'
    BY <1>1, <1>3, <1>4, <1>5, <2>1, <2>2 DEF OwnOK, EnteredStage, WaitStage, HoldStage
  <2>4. t \in User => StaysAlone(t)
    BY <1>1, <2>1 DEF StaysAlone, StoreInv, VictimAlone, EnteredStage, VictimStage, WaitStage,
       HoldStage
  <2>5. ASSUME NEW u \in AllThreads \ {t}, blk[u] = b,
               pc[u] \notin {"idle", "lookup", "scan", "nextBlock"}
        PROVE  OwnOK(u)'
    <3>1. OwnOK(u) /\ SameThread(u) /\ pc[u] \notin {"data", "flushed"}
      BY <1>1, <1>2, <2>5, DataLockAlone DEF StoreInv, ThreadsOK, Others
    <3> QED
      BY <1>1, <2>5, <3>1 DEF OwnOK, SameThread, EnteredStage, WaitStage, HoldStage
  <2>6. FlagsAt(b)' /\ CleanAt(b)'
    BY <1>1, <1>3, <1>5 DEF FlagsAt, CleanAt
  <2> QED
    BY <1>1, <1>2, <1>3, <2>2, <2>3, <2>4, <2>5, <2>6, BlockKeeps DEF CacheInv
<1>6. CASE ~(cache[b].loaded /\ cache[b].dirty)
  <2>1. FlushDone(t) /\ UNCHANGED <<dataLock, disk>>
    BY <1>6 DEF CacheFlush
  <2>2. CASE t = Flushd
    <3>1. pc'[t] \in {"idle", "nextBlock"} /\ t \notin User /\ t \notin Client /\ t # Readd
      BY <2>1, <2>2, ThreadSets DEF FlushDone, Goto, CacheInv, CacheTypeOK
    <3>2. OwnOK(t)'
      BY <3>1 DEF OwnOK, EnteredStage, WaitStage, HoldStage
    <3> QED
      BY <1>1, <1>2, <2>1, <3>1, <3>2, QuietKeeps DEF CacheInv
  <2>3. CASE t # Flushd
    <3>1. pc'[t] = "reset" /\ blk'[t] = b /\ t \in User
      BY <2>1, <2>3, ThreadSets DEF FlushDone, Goto, CacheInv, CacheTypeOK
    <3>2. OwnOK(t)'
      BY <1>1, <1>3, <1>4, <1>6, <3>1 DEF OwnOK, EnteredStage, WaitStage, HoldStage, FlagsAt
    <3>3. StaysAlone(t)
      BY <1>1, <3>1 DEF StaysAlone, StoreInv, VictimAlone, EnteredStage, VictimStage, WaitStage,
         HoldStage
    <3> QED
      BY <1>1, <1>2, <2>1, <3>2, <3>3, QuietKeeps DEF CacheInv
  <2> QED
    BY <2>2, <2>3
<1> QED
  BY <1>5, <1>6

LEMMA FlushEndKeeps ==
    ASSUME CacheInv, StoreInv, NEW t \in AllThreads, FlushEnd(t)
    PROVE  StoreInv'
<1>0. PICK b : b = blk[t]
  OBVIOUS
<1> USE <1>0
<1>1. /\ pc[t] = "flushed" /\ Others(t)
      /\ op'[t] = op[t] /\ want'[t] = want[t] /\ UNCHANGED disk
      /\ cache' = [cache EXCEPT ![b].dirty = FALSE]
      /\ dataLock' = [dataLock EXCEPT ![b] = None]
      /\ \/ pc'[t] \in {"idle", "nextBlock"} /\ t \notin User
         \/ pc'[t] = "reset" /\ blk'[t] = b
  BY ThreadSets DEF FlushEnd, FlushDone, Goto, threadVars, CacheInv, CacheTypeOK, Others, SameThread
<1>2. b \in Block /\ cache[b] \in CacheBlock
  BY <1>1, BlockTypes DEF CacheInv, StagesOK
<1>3. /\ cache[b].valid /\ cache[b].data = disk[cache[b].sector] /\ dataLock[b] = t
      /\ t = Readd => op[t] = "readahead"
      /\ t \in Client => op[t] \in Op
  BY <1>1 DEF StoreInv, ThreadsOK, OwnOK
<1>4. /\ cache'[b].valid /\ cache'[b].loaded = cache[b].loaded /\ ~cache'[b].dirty
      /\ cache'[b].data = cache[b].data /\ cache'[b].sector = cache[b].sector /\ OnlyBlock(b)
  <2>1. cache'[b] = [cache[b] EXCEPT !.dirty = FALSE]
    BY <1>1, <1>2 DEF CacheInv, CacheTypeOK
  <2>2. OnlyBlock(b)
    BY <1>1, <1>2 DEF OnlyBlock, SameData, CacheInv, CacheTypeOK
  <2> QED
    BY <1>2, <1>3, <2>1, <2>2 DEF CacheBlock
<1>5. OwnOK(t)'
  BY <1>1, <1>3, <1>4, ThreadSets DEF OwnOK, EnteredStage, WaitStage, HoldStage
<1>6. t \in User => StaysAlone(t)
  BY <1>1 DEF StaysAlone, StoreInv, VictimAlone, EnteredStage, VictimStage, WaitStage, HoldStage
<1>7. ASSUME NEW u \in AllThreads \ {t}, blk[u] = b,
             pc[u] \notin {"idle", "lookup", "scan", "nextBlock"}
      PROVE  OwnOK(u)'
  <2>1. OwnOK(u) /\ SameThread(u) /\ pc[u] \notin {"data", "flushed"}
    <3>1. pc[u] \notin {"data", "flushed"}
      BY <1>2, <1>3, <1>7, DataLockAlone
    <3> QED
      BY <1>1, <1>7, <3>1 DEF StoreInv, ThreadsOK, Others
  <2>2. CASE pc'[u] = pc[u]
    BY <1>3, <1>4, <1>7, <2>1, <2>2 DEF OwnOK, SameThread
  <2>3. CASE pc[u] = "wait" /\ pc'[u] = "notified"
    BY <1>3, <1>4, <1>7, <2>1, <2>3 DEF OwnOK, SameThread, EnteredStage, WaitStage
  <2> QED
    BY <2>1, <2>2, <2>3 DEF SameThread
<1>8. FlagsAt(b)' /\ CleanAt(b)'
  BY <1>1, <1>3, <1>4 DEF FlagsAt, CleanAt
<1> QED
  BY <1>1, <1>2, <1>4, <1>5, <1>6, <1>7, <1>8, BlockKeeps DEF CacheInv

(* cache_fillzero is not called.                                           *)
LEMMA NoFillzero ==
    ASSUME "fillzero" \notin Op, StoreInv, NEW t \in User
    PROVE  ~ZeroBegin(t) /\ ~ZeroEnd(t)
  BY ThreadSets DEF StoreInv, ThreadsOK, OwnOK, ZeroBegin, ZeroEnd, User

LEMMA StoreInit == Init => StoreInv
<1> SUFFICES ASSUME Init PROVE StoreInv
  OBVIOUS
<1>1. \A t \in AllThreads : pc[t] = "idle"
  BY DEF Init
<1>2. \A b \in Block : ~cache[b].loaded /\ ~cache[b].dirty
  BY DEF Init
<1>3. ThreadsOK /\ VictimAlone
  BY <1>1, ThreadSets
     DEF ThreadsOK, OwnOK, VictimAlone, EnteredStage, VictimStage, WaitStage, HoldStage
<1> QED
  BY <1>2, <1>3 DEF StoreInv, FlagsOK, CleanOK

LEMMA StoreInvStep ==
    ASSUME "fillzero" \notin Op, CacheInv, StoreInv, [Next /\ VictimIsFree]_vars
    PROVE  StoreInv'
<1>1. CASE UNCHANGED <<cache, dataLock, disk, pc, blk, op, want>>
  BY <1>1 DEF StoreInv, ThreadsOK, OwnOK, VictimAlone, FlagsOK, CleanOK, Overwriting
<1>2. CASE \E t \in Client, s \in Sector :
              ReadRequest(t, s) \/ \E o \in Op : CacheAcquire(t, s, o)
  BY <1>1, <1>2, AcquireKeeps DEF ReadRequest, tableVars, threadVars
<1>3. CASE VictimIsFree /\ \E t \in User : UserStep(t)
  BY <1>3, LookupKeeps, HitKeeps, ScanKeeps, ResetKeeps, ClaimKeeps, EnterKeeps, RecheckKeeps,
     ReleaseKeeps, LeaveKeeps, DataBeginKeeps, DataEndKeeps, NoFillzero DEF UserStep
<1>4. CASE \E t \in AllThreads : CacheFlush(t) \/ FlushEnd(t)
  BY <1>4, FlushKeeps, FlushEndKeeps
<1>5. CASE FlushAll \/ FlushNext
  BY <1>5, FlushAllKeeps
<1>6. CASE ReadAhead \/ ReadAheadCheck \/ ReadAheadLoad
  BY <1>6, ReadAheadKeeps, CheckKeeps, LoadKeeps
<1> QED
  BY <1>1, <1>2, <1>3, <1>4, <1>5, <1>6 DEF Next, vars, tableVars

(* What is clean is on the disk, unless a writer is about to replace it.   *)
LEMMA CleanFollows ==
    ASSUME CacheInv, StoreInv
    PROVE  CleanIsOnDisk
<1> SUFFICES ASSUME NEW b \in Block, cache[b].loaded, ~cache[b].dirty, dataLock[b] = None
             PROVE  cache[b].data = disk[cache[b].sector]
  BY DEF CleanIsOnDisk
<1>1. ~Overwriting(b)
  <2>1. \A u \in User : blk[u] = b => pc[u] # "data"
    <3>1. \A u \in User : u # None /\ u \in AllThreads
      BY CacheAssumption DEF CacheAssumption, AllThreads, User
    <3> QED
      BY <3>1 DEF StoreInv, ThreadsOK, OwnOK
  <2> QED
    BY <2>1 DEF Overwriting
<1> QED
  BY <1>1 DEF StoreInv, CleanOK

-----------------------------------------------------------------------------
(* The content of a sector: that of its dirty block, or else the disk's.   *)
DirtyWith(b, s) == cache[b].dirty /\ cache[b].sector = s
ContentOK ==
    \A s \in Sector :
        /\ \A b \in Block : DirtyWith(b, s) => Content(s) = cache[b].data
        /\ (\A b \in Block : ~DirtyWith(b, s)) => Content(s) = disk[s]

LEMMA ContentIs == FlagsOK /\ OneBlockPerSector => ContentOK
<1> SUFFICES ASSUME FlagsOK, OneBlockPerSector, NEW s \in Sector
             PROVE  /\ \A b \in Block : DirtyWith(b, s) => Content(s) = cache[b].data
                    /\ (\A b \in Block : ~DirtyWith(b, s)) => Content(s) = disk[s]
  BY DEF ContentOK
<1> DEFINE held == {b \in Block : cache[b].valid /\ cache[b].loaded /\ cache[b].dirty
                                  /\ cache[b].sector = s}
<1>1. Content(s) = IF held = {} THEN disk[s] ELSE cache[CHOOSE b \in held : TRUE].data
  BY DEF Content
<1>2. ASSUME NEW b \in Block, DirtyWith(b, s) PROVE Content(s) = cache[b].data
  <2>1. b \in held /\ \A a \in held : a = b
    BY <1>2 DEF FlagsOK, OneBlockPerSector, DirtyWith
  <2>2. (CHOOSE a \in held : TRUE) = b /\ held # {}
    BY <2>1
  <2> QED
    BY <1>1, <2>2
<1>3. ASSUME \A b \in Block : ~DirtyWith(b, s) PROVE Content(s) = disk[s]
  <2>1. held = {}
    BY <1>3 DEF DirtyWith
  <2> QED
    BY <1>1, <2>1
<1> QED
  BY <1>2, <1>3

LEMMA ContentsAre ==
    ASSUME CacheInv, StoreInv, CacheInv', StoreInv'
    PROVE  ContentOK /\ ContentOK'
<1>1. FlagsOK /\ OneBlockPerSector /\ FlagsOK' /\ OneBlockPerSector'
  BY DEF CacheInv, StoreInv
<1> QED
  BY <1>1, ContentIs, PTL

(* A sector keeps its content while its dirty block, if it has one, keeps  *)
(* its data, or else while the disk does.                                  *)
LEMMA ContentStays ==
    ASSUME CacheInv, StoreInv, CacheInv', StoreInv', NEW s \in Sector, KeepsDirty,
           disk'[s] = disk[s] \/ \E b \in Block : DirtyWith(b, s)
    PROVE  Content(s)' = Content(s)
<1>1. \A b \in Block : DirtyWith(b, s)' <=> DirtyWith(b, s)
  BY DEF KeepsDirty, DirtyWith
<1>2. /\ \A b \in Block : DirtyWith(b, s) => Content(s) = cache[b].data
      /\ (\A b \in Block : ~DirtyWith(b, s)) => Content(s) = disk[s]
  BY ContentsAre DEF ContentOK
<1>3. /\ \A b \in Block : DirtyWith(b, s)' => Content(s)' = cache'[b].data
      /\ (\A b \in Block : ~DirtyWith(b, s)') => Content(s)' = disk'[s]
  BY ContentsAre DEF ContentOK
<1> QED
  BY <1>1, <1>2, <1>3 DEF KeepsDirty, DirtyWith

-----------------------------------------------------------------------------
(* Steps of the store, in terms of the cache.                              *)
SameContents == \A s \in Sector : Content(s)' = Content(s)
SameOpen(u) == ReadingOf(u)' = ReadingOf(u) /\ WritingOf(u)' = WritingOf(u)
OthersOpen(t) == \A u \in User \ {t} : SameOpen(u)

LEMMA StoreStutters ==
    ASSUME SameContents, \A u \in User : SameOpen(u)
    PROVE  UNCHANGED Store!storeVars
<1>1. [s \in Sector |-> Content(s)]' = [s \in Sector |-> Content(s)]
  BY DEF SameContents
<1>2. /\ [u \in User |-> ReadingOf(u)]' = [u \in User |-> ReadingOf(u)]
      /\ [u \in User |-> WritingOf(u)]' = [u \in User |-> WritingOf(u)]
  BY DEF SameOpen
<1> QED
  BY <1>1, <1>2 DEF Store!storeVars

LEMMA StoreOpensRead ==
    ASSUME SameContents, NEW t \in User, NEW s \in Sector, OthersOpen(t),
           ReadingOf(t) = None, WritingOf(t) = None, \A u \in User : WritingOf(u) # s,
           ReadingOf(t)' = s, WritingOf(t)' = None
    PROVE  Store!Next
<1>1. [r \in Sector |-> Content(r)]' = [r \in Sector |-> Content(r)]
  BY DEF SameContents
<1>2. /\ [u \in User |-> ReadingOf(u)]' = [[u \in User |-> ReadingOf(u)] EXCEPT ![t] = s]
      /\ [u \in User |-> WritingOf(u)]' = [u \in User |-> WritingOf(u)]
  BY DEF OthersOpen, SameOpen
<1>3. Store!OpenRead(t, s)
  BY <1>1, <1>2 DEF Store!OpenRead, Store!Closed
<1> QED
  BY <1>3 DEF Store!Next

LEMMA StoreOpensWrite ==
    ASSUME SameContents, NEW t \in User, NEW s \in Sector, OthersOpen(t),
           ReadingOf(t) = None, WritingOf(t) = None,
           \A u \in User : ReadingOf(u) # s /\ WritingOf(u) # s,
           ReadingOf(t)' = None, WritingOf(t)' = s
    PROVE  Store!Next
<1>1. [r \in Sector |-> Content(r)]' = [r \in Sector |-> Content(r)]
  BY DEF SameContents
<1>2. /\ [u \in User |-> WritingOf(u)]' = [[u \in User |-> WritingOf(u)] EXCEPT ![t] = s]
      /\ [u \in User |-> ReadingOf(u)]' = [u \in User |-> ReadingOf(u)]
  BY DEF OthersOpen, SameOpen
<1>3. Store!OpenWrite(t, s)
  BY <1>1, <1>2 DEF Store!OpenWrite, Store!Closed
<1> QED
  BY <1>3 DEF Store!Next

LEMMA StoreClosesRead ==
    ASSUME SameContents, NEW t \in User, OthersOpen(t),
           ReadingOf(t)' = None, WritingOf(t)' = WritingOf(t)
    PROVE  Store!Next
<1>1. [r \in Sector |-> Content(r)]' = [r \in Sector |-> Content(r)]
  BY DEF SameContents
<1>2. /\ [u \in User |-> ReadingOf(u)]' = [[u \in User |-> ReadingOf(u)] EXCEPT ![t] = None]
      /\ [u \in User |-> WritingOf(u)]' = [u \in User |-> WritingOf(u)]
  BY DEF OthersOpen, SameOpen
<1>3. Store!CloseRead(t)
  BY <1>1, <1>2 DEF Store!CloseRead
<1> QED
  BY <1>3 DEF Store!Next

LEMMA StoreWrites ==
    ASSUME NEW t \in User, NEW s \in Sector, NEW parts \in SUBSET Part, NEW v \in Value,
           OthersOpen(t), WritingOf(t) = s, WritingOf(t)' = None, ReadingOf(t)' = ReadingOf(t),
           Content(s)' = Overwritten(Content(s), parts, v),
           \A r \in Sector \ {s} : Content(r)' = Content(r)
    PROVE  Store!Next
<1> DEFINE content == [r \in Sector |-> Content(r)]
<1>1. [r \in Sector |-> Content(r)]' =
         [content EXCEPT ![s] = [p \in Part |-> IF p \in parts THEN v ELSE content[s][p]]]
  BY DEF Overwritten
<1>2. /\ [u \in User |-> WritingOf(u)]' = [[u \in User |-> WritingOf(u)] EXCEPT ![t] = None]
      /\ [u \in User |-> ReadingOf(u)]' = [u \in User |-> ReadingOf(u)]
  BY DEF OthersOpen, SameOpen
<1>3. [r \in Sector |-> Content(r)]' =
         [[r \in Sector |-> Content(r)] EXCEPT
             ![s] = [p \in Part |-> IF p \in parts THEN v ELSE @[p]]]
  BY <1>1
<1>4. [u \in User |-> WritingOf(u)][t] = s
  OBVIOUS
<1>5. Store!Write(t)
  <2> DEFINE Change(r, ps, w) ==
                /\ [u \in User |-> WritingOf(u)][t] = r
                /\ [a \in Sector |-> Content(a)]' =
                      [[a \in Sector |-> Content(a)] EXCEPT
                          ![r] = [p \in Part |-> IF p \in ps THEN w ELSE @[p]]]
                /\ [u \in User |-> WritingOf(u)]' =
                      [[u \in User |-> WritingOf(u)] EXCEPT ![t] = None]
                /\ [u \in User |-> ReadingOf(u)]' = [u \in User |-> ReadingOf(u)]
  <2>1. Change(s, parts, v)
    BY <1>2, <1>3, <1>4
  <2>2. \E r \in Sector, ps \in SUBSET Part, w \in Value : Change(r, ps, w)
    <3> HIDE DEF Change
    <3> QED
      BY <2>1
  <2> QED
    BY <2>2 DEF Store!Write
<1> QED
  BY <1>5 DEF Store!Next

-----------------------------------------------------------------------------
(* The steps of the cache are steps of the store or of nobody's.           *)
BothInv == CacheInv /\ StoreInv /\ CacheInv' /\ StoreInv'

LEMMA OthersStay ==
    ASSUME NEW t \in AllThreads, Others(t)
    PROVE  OthersOpen(t)
<1> SUFFICES ASSUME NEW u \in User, u # t PROVE SameOpen(u)
  BY DEF OthersOpen
<1>1. SameThread(u)
  BY ThreadSets DEF Others
<1>2. InBlock(u)' = InBlock(u) /\ ReadOnly(u)' = ReadOnly(u) /\ want'[u] = want[u]
  BY <1>1 DEF SameThread, InBlock, ReadOnly
<1> QED
  BY <1>2 DEF SameOpen, ReadingOf, WritingOf

LEMMA StaysOut ==
    ASSUME NEW t, ~InBlock(t), ~InBlock(t)'
    PROVE  SameOpen(t)
  BY DEF SameOpen, ReadingOf, WritingOf

LEMMA QuietContents ==
    ASSUME BothInv, \A b \in Block : SameData(b), UNCHANGED disk
    PROVE  SameContents
  BY ContentStays DEF BothInv, SameData, SameContents, KeepsDirty

LEMMA QuietStutters ==
    ASSUME NEW t \in AllThreads, Others(t), t \in User => SameOpen(t), SameContents
    PROVE  UNCHANGED Store!storeVars
  BY OthersStay, StoreStutters DEF OthersOpen

(* Who has the sector of a block open is counted in the block.             *)
LEMMA OpenIsCounted ==
    ASSUME CacheInv, StoreInv, NEW b \in Block, cache[b].valid, NEW u \in User
    PROVE  /\ ReadingOf(u) = cache[b].sector => cache[b].readers > 0
           /\ WritingOf(u) = cache[b].sector => cache[b].writers > 0
<1>1. cache[b].sector \in Sector /\ cache[b].sector # None
  BY CacheAssumption, BlockTypes DEF CacheAssumption, CacheInv
<1>2. SUFFICES ASSUME InBlock(u), want[u] = cache[b].sector
               PROVE  IF ReadOnly(u) THEN cache[b].readers > 0 ELSE cache[b].writers > 0
  BY <1>1 DEF ReadingOf, WritingOf
<1>3. u \in AllThreads /\ pc[u] \in HoldStage /\ pc[u] \in EnteredStage
  BY <1>2, ThreadSets DEF InBlock, HoldStage, EnteredStage
<1>4. blk[u] \in Block
  BY <1>3 DEF CacheInv, StagesOK, HoldStage
<1>5. cache[blk[u]].valid /\ cache[blk[u]].sector = want[u]
  BY <1>3 DEF StoreInv, ThreadsOK, OwnOK
<1>6. blk[u] = b
  BY <1>2, <1>4, <1>5 DEF CacheInv, OneBlockPerSector
<1> QED
  BY <1>3, <1>4, <1>6, Counted DEF CacheInv

LEMMA Opens ==
    ASSUME BothInv, NEW t \in User, Others(t), SameContents,
           pc[t] \in {"enter", "notified"}, pc'[t] = "held", op'[t] = op[t], want'[t] = want[t],
           ~MustWait(t, cache[blk[t]])
    PROVE  Store!Next
<1>0. PICK b : b = blk[t]
  OBVIOUS
<1> USE <1>0
<1>1. t \in AllThreads /\ pc[t] \in EnteredStage
  BY ThreadSets DEF EnteredStage, WaitStage
<1>2. b \in Block /\ cache[b].valid /\ cache[b].sector = want[t]
  BY <1>1 DEF BothInv, CacheInv, StagesOK, StoreInv, ThreadsOK, OwnOK
<1>3. want[t] \in Sector /\ cache[b].readers \in Nat /\ cache[b].writers \in Nat
  BY <1>2, BlockTypes DEF BothInv, CacheInv
<1>4. ReadingOf(t) = None /\ WritingOf(t) = None
  BY DEF ReadingOf, WritingOf, InBlock
<1>5. \A u \in User : /\ ReadingOf(u) = want[t] => cache[b].readers > 0
                      /\ WritingOf(u) = want[t] => cache[b].writers > 0
  BY <1>2, OpenIsCounted DEF BothInv
<1>6. OthersOpen(t)
  BY <1>1, OthersStay
<1>7. CASE ReadOnly(t)
  <2>1. ReadingOf(t)' = want[t] /\ WritingOf(t)' = None
    BY <1>7 DEF ReadingOf, WritingOf, InBlock, ReadOnly
  <2>2. \A u \in User : WritingOf(u) # want[t]
    BY <1>3, <1>5, <1>7 DEF MustWait
  <2> QED
    BY <1>3, <1>4, <1>6, <2>1, <2>2, StoreOpensRead
<1>8. CASE ~ReadOnly(t)
  <2>1. ReadingOf(t)' = None /\ WritingOf(t)' = want[t]
    BY <1>8 DEF ReadingOf, WritingOf, InBlock, ReadOnly
  <2>2. \A u \in User : ReadingOf(u) # want[t] /\ WritingOf(u) # want[t]
    BY <1>3, <1>5, <1>8 DEF MustWait
  <2> QED
    BY <1>3, <1>4, <1>6, <2>1, <2>2, StoreOpensWrite
<1> QED
  BY <1>7, <1>8

LEMMA EnterStore ==
    ASSUME BothInv, NEW t \in User, Enter(t)
    PROVE  [Store!Next]_(Store!storeVars)
<1>1. t \in AllThreads
  BY ThreadSets
<1>2. /\ pc[t] = "enter" /\ pc'[t] \in {"wait", "held"} /\ Others(t)
      /\ op'[t] = op[t] /\ want'[t] = want[t] /\ UNCHANGED disk
      /\ pc'[t] = "held" => ~MustWait(t, cache[blk[t]])
  BY <1>1 DEF Enter, Goto, threadVars, BothInv, CacheInv, CacheTypeOK, Others, SameThread
<1>3. SameContents
  BY <1>2, EnterKeeps, QuietContents DEF BothInv
<1>4. CASE pc'[t] = "wait"
  BY <1>1, <1>2, <1>3, <1>4, StaysOut, QuietStutters DEF InBlock
<1>5. CASE pc'[t] = "held"
  BY <1>2, <1>3, <1>5, Opens
<1> QED
  BY <1>2, <1>4, <1>5

LEMMA RecheckStore ==
    ASSUME BothInv, NEW t \in User, Recheck(t)
    PROVE  [Store!Next]_(Store!storeVars)
<1>1. t \in AllThreads
  BY ThreadSets
<1>2. /\ pc[t] = "notified" /\ pc'[t] \in {"wait", "held"} /\ Others(t)
      /\ op'[t] = op[t] /\ want'[t] = want[t] /\ UNCHANGED disk
      /\ pc'[t] = "held" => ~MustWait(t, cache[blk[t]])
  BY <1>1 DEF Recheck, Goto, threadVars, BothInv, CacheInv, CacheTypeOK, Others, SameThread
<1>3. SameContents
  BY <1>2, RecheckKeeps, QuietContents DEF BothInv
<1>4. CASE pc'[t] = "wait"
  BY <1>1, <1>2, <1>3, <1>4, StaysOut, QuietStutters DEF InBlock
<1>5. CASE pc'[t] = "held"
  BY <1>2, <1>3, <1>5, Opens
<1> QED
  BY <1>2, <1>4, <1>5

LEMMA OutsideStutters ==
    ASSUME NEW t \in AllThreads, Others(t), SameContents,
           t \in User => ~InBlock(t) /\ ~InBlock(t)'
    PROVE  UNCHANGED Store!storeVars
  BY StaysOut, QuietStutters

LEMMA DirtyContents ==
    ASSUME BothInv, KeepsDirty, UNCHANGED disk
    PROVE  SameContents
  BY ContentStays DEF BothInv, SameContents

LEMMA CallsStutter ==
    ASSUME BothInv, NEW t \in Client, NEW s \in Sector, NEW o \in Op, CacheAcquire(t, s, o)
    PROVE  UNCHANGED Store!storeVars
<1>1. t \in AllThreads
  BY ThreadSets
<1>2. /\ Others(t) /\ UNCHANGED <<cache, disk>>
      /\ ~InBlock(t) /\ ~InBlock(t)'
  BY <1>1 DEF CacheAcquire, Goto, BothInv, CacheInv, CacheTypeOK, Others, SameThread, InBlock,
     tableVars
<1> QED
  BY <1>1, <1>2, SameCache, QuietContents, OutsideStutters

(* Steps on the way into a block and out of it, with nothing done to it.   *)
LEMMA WaysStutter ==
    ASSUME BothInv, NEW t \in User,
           Lookup(t) \/ Hit(t) \/ VictimScan(t) \/ CacheRelease(t)
    PROVE  UNCHANGED Store!storeVars
<1>1. t \in AllThreads
  BY ThreadSets
<1>2. UNCHANGED <<cache, disk>>
  BY DEF Lookup, Hit, VictimScan, CacheRelease, tableVars
<1>3. Others(t) /\ ~InBlock(t) /\ ~InBlock(t)'
  BY <1>1 DEF Lookup, Hit, VictimScan, CacheRelease, Goto, threadVars, BothInv, CacheInv,
     CacheTypeOK, Others, SameThread, InBlock
<1> QED
  BY <1>1, <1>2, <1>3, SameCache, QuietContents, OutsideStutters

LEMMA LeaveStutters ==
    ASSUME BothInv, NEW t \in User, Leave(t)
    PROVE  UNCHANGED Store!storeVars
<1>1. t \in AllThreads
  BY ThreadSets
<1>2. /\ pc[t] = "releasing" /\ UNCHANGED disk
      /\ blk' = [blk EXCEPT ![t] = None] /\ want' = [want EXCEPT ![t] = None]
      /\ op' = [op EXCEPT ![t] = None]
  BY DEF Leave
<1>3. SignalWriter(t) \/ Goto(t, "idle") \/ BroadcastReaders(t)
  BY DEF Leave
<1>4. pc'[t] = "idle" /\ \A u \in AllThreads \ {t} :
          pc'[u] = pc[u] \/ (pc[u] = "wait" /\ pc'[u] = "notified")
  BY <1>1, <1>2, <1>3 DEF SignalWriter, BroadcastReaders, WaitingFor, Goto, BothInv, CacheInv,
     CacheTypeOK
<1>5. Others(t) /\ ~InBlock(t) /\ ~InBlock(t)'
  BY <1>1, <1>2, <1>4 DEF Others, SameThread, BothInv, CacheInv, CacheTypeOK, InBlock
<1>6. SameContents
  BY <1>2, LeaveKeeps, QuietContents DEF BothInv
<1> QED
  BY <1>1, <1>5, <1>6, OutsideStutters

(* A block is taken from one sector and given to another.                  *)
LEMMA VictimStutters ==
    ASSUME BothInv, NEW t \in User, VictimReset(t) \/ Claim(t)
    PROVE  UNCHANGED Store!storeVars
<1>1. t \in AllThreads
  BY ThreadSets
<1>2. Others(t) /\ ~InBlock(t) /\ ~InBlock(t)' /\ UNCHANGED disk
  BY <1>1 DEF VictimReset, Claim, Goto, threadVars, BothInv, CacheInv, CacheTypeOK, Others,
     SameThread, InBlock
<1>3. SameContents
  BY <1>2, ResetKeeps, ClaimKeeps, DirtyContents DEF BothInv
<1> QED
  BY <1>1, <1>2, <1>3, OutsideStutters

(* A block is loaded for a client.                                         *)
LEMMA DataBeginStutters ==
    ASSUME BothInv, NEW t \in User, DataBegin(t)
    PROVE  UNCHANGED Store!storeVars
<1>1. t \in AllThreads
  BY ThreadSets
<1>2. /\ pc[t] = "held" /\ pc'[t] = "data" /\ op'[t] = op[t] /\ want'[t] = want[t]
      /\ Others(t) /\ UNCHANGED disk
  BY <1>1 DEF DataBegin, Goto, threadVars, BothInv, CacheInv, CacheTypeOK, Others, SameThread
<1>3. SameContents
  BY <1>2, DataBeginKeeps, DirtyContents DEF BothInv
<1>4. SameOpen(t)
  BY <1>2 DEF SameOpen, ReadingOf, WritingOf, InBlock, ReadOnly
<1> QED
  BY <1>1, <1>2, <1>3, <1>4, QuietStutters

(* The thread of read-ahead.                                               *)
LEMMA ReadAheadStore ==
    ASSUME BothInv, ReadAhead \/ ReadAheadCheck \/ ReadAheadLoad
    PROVE  [Store!Next]_(Store!storeVars)
<1>0. PICK t : t = Readd
  OBVIOUS
<1> USE <1>0
<1>1. t \in AllThreads /\ t \in User
  BY ThreadSets
<1>2. Others(t) /\ UNCHANGED disk
  BY <1>1 DEF ReadAhead, ReadAheadCheck, ReadAheadLoad, Goto, threadVars, BothInv, CacheInv,
     CacheTypeOK, Others, SameThread
<1>3. CASE ReadAhead
  <2>1. ~InBlock(t) /\ ~InBlock(t)' /\ UNCHANGED cache
    BY <1>1, <1>3 DEF ReadAhead, Goto, BothInv, CacheInv, CacheTypeOK, InBlock, tableVars
  <2> QED
    BY <1>1, <1>2, <2>1, SameCache, QuietContents, OutsideStutters
<1>4. CASE ReadAheadCheck \/ ReadAheadLoad
  <2>1. /\ pc[t] \in {"held", "readin"} /\ pc'[t] \in {"release", "readin"}
        /\ op'[t] = op[t] /\ want'[t] = want[t]
    BY <1>1, <1>4 DEF ReadAheadCheck, ReadAheadLoad, Goto, threadVars, BothInv, CacheInv,
       CacheTypeOK
  <2>2. ReadOnly(t) /\ ReadOnly(t)'
    BY <1>1, <2>1 DEF ReadOnly, BothInv, StoreInv, ThreadsOK, OwnOK
  <2>3. SameContents
    <3>1. CASE ReadAheadCheck
      BY <1>2, <3>1, SameCache, QuietContents DEF ReadAheadCheck, tableVars
    <3>2. CASE ReadAheadLoad
      BY <1>2, <3>2, LoadKeeps, DirtyContents DEF BothInv
    <3> QED
      BY <1>4, <3>1, <3>2
  <2>4. CASE pc'[t] = "readin"
    <3>1. SameOpen(t)
      BY <2>1, <2>2, <2>4 DEF SameOpen, ReadingOf, WritingOf, InBlock
    <3> QED
      BY <1>1, <1>2, <2>3, <3>1, QuietStutters
  <2>5. CASE pc'[t] = "release"
    <3>1. ReadingOf(t)' = None /\ WritingOf(t)' = WritingOf(t)
      BY <2>1, <2>2, <2>5 DEF ReadingOf, WritingOf, InBlock
    <3> QED
      BY <1>1, <1>2, <2>3, <3>1, OthersStay, StoreClosesRead
  <2> QED
    BY <2>1, <2>4, <2>5
<1> QED
  BY <1>3, <1>4

(* A reader leaves; a writer has made its one change, to what was in the   *)
(* block or, if the block was clean, on the disk.                          *)
LEMMA DataEndStore ==
    ASSUME BothInv, NEW t \in User, DataEnd(t)
    PROVE  Store!Next
<1>0. PICK b, s : b = blk[t] /\ s = want[t]
  OBVIOUS
<1> USE <1>0
<1>1. t \in AllThreads
  BY ThreadSets
<1>2. /\ pc[t] = "data" /\ pc'[t] = "release" /\ Others(t) /\ OthersOpen(t)
      /\ op'[t] = op[t] /\ want'[t] = s /\ UNCHANGED disk
  BY <1>1, OthersStay DEF DataEnd, Goto, threadVars, BothInv, CacheInv, CacheTypeOK, Others,
     SameThread
<1>3. /\ b \in Block /\ cache[b].valid /\ cache[b].sector = s /\ cache[b].loaded
      /\ dataLock[b] = t /\ op[t] \in {"read", "write", "overwrite"}
  BY <1>1, <1>2 DEF BothInv, CacheInv, StagesOK, StoreInv, ThreadsOK, OwnOK, EnteredStage, HoldStage
<1>4. s \in Sector /\ cache[b] \in CacheBlock
  BY <1>3, BlockTypes DEF BothInv, CacheInv
<1>5. CASE op[t] = "read"
  <2>1. SameContents
    BY <1>2, <1>5, SameCache, QuietContents DEF DataEnd
  <2>2. ReadingOf(t)' = None /\ WritingOf(t)' = WritingOf(t)
    BY <1>2, <1>5 DEF ReadingOf, WritingOf, InBlock, ReadOnly
  <2> QED
    BY <1>2, <2>1, <2>2, StoreClosesRead
<1>6. CASE op[t] # "read"
  <2>0. PICK v \in Value, parts \in IF op[t] = "overwrite" THEN {Part} ELSE {{p} : p \in Part} :
           cache' = [cache EXCEPT ![b] =
              [@ EXCEPT !.data = Overwritten(cache[b].data, parts, v), !.dirty = TRUE]]
    BY <1>6 DEF DataEnd
  <2>1. /\ parts \in SUBSET Part /\ (op[t] = "overwrite" => parts = Part)
        /\ cache' = [cache EXCEPT ![b] =
              [@ EXCEPT !.data = Overwritten(cache[b].data, parts, v), !.dirty = TRUE]]
    <3>1. op[t] # "overwrite" => \E p \in Part : parts = {p}
      OBVIOUS
    <3> QED
      BY <2>0, <3>1
  <2>2. cache'[b] = [cache[b] EXCEPT !.data = Overwritten(cache[b].data, parts, v), !.dirty = TRUE]
    BY <1>3, <2>1 DEF BothInv, CacheInv, CacheTypeOK
  <2>3. /\ cache'[b].dirty /\ cache'[b].sector = s
        /\ cache'[b].data = Overwritten(cache[b].data, parts, v)
    BY <1>3, <1>4, <2>2 DEF CacheBlock
  <2>4. \A a \in Block \ {b} : cache'[a] = cache[a]
    BY <1>3, <2>1 DEF BothInv, CacheInv, CacheTypeOK
  <2>5. ContentOK /\ ContentOK'
    BY ContentsAre DEF BothInv
  <2>6. Content(s)' = Overwritten(cache[b].data, parts, v)
    BY <1>3, <1>4, <2>3, <2>5 DEF ContentOK, DirtyWith
  <2>7. op[t] = "overwrite" \/ Content(s) = cache[b].data
    <3>1. CASE cache[b].dirty
      BY <1>3, <1>4, <2>5, <3>1 DEF ContentOK, DirtyWith
    <3>2. CASE ~cache[b].dirty
      <4>1. \A a \in Block : ~DirtyWith(a, s)
        BY <1>3, <3>2 DEF DirtyWith, BothInv, CacheInv, OneBlockPerSector, StoreInv, FlagsOK
      <4>2. Content(s) = disk[s]
        BY <1>4, <2>5, <4>1 DEF ContentOK
      <4>3. op[t] # "overwrite" => ~Overwriting(b)
        BY <1>1, <1>3, DataLockAlone, ThreadSets DEF Overwriting, BothInv
      <4> QED
        BY <1>3, <3>2, <4>2, <4>3 DEF BothInv, StoreInv, CleanOK
    <3> QED
      BY <3>1, <3>2
  <2>8. Content(s)' = Overwritten(Content(s), parts, v)
    BY <2>1, <2>6, <2>7 DEF Overwritten
  <2>9. ASSUME NEW r \in Sector \ {s} PROVE Content(r)' = Content(r)
    <3>1. \A a \in Block : (DirtyWith(a, r)' <=> DirtyWith(a, r)) /\ ~(a = b /\ DirtyWith(a, r))
      BY <1>3, <2>3, <2>4, <2>9 DEF DirtyWith
    <3>2. /\ \A a \in Block : DirtyWith(a, r) => Content(r) = cache[a].data
          /\ (\A a \in Block : ~DirtyWith(a, r)) => Content(r) = disk[r]
      BY <2>5 DEF ContentOK
    <3>3. /\ \A a \in Block : DirtyWith(a, r)' => Content(r)' = cache'[a].data
          /\ (\A a \in Block : ~DirtyWith(a, r)') => Content(r)' = disk[r]
      BY <1>2, <2>5 DEF ContentOK
    <3> QED
      BY <2>4, <3>1, <3>2, <3>3
  <2>10. /\ WritingOf(t) = s /\ WritingOf(t)' = None
         /\ ReadingOf(t)' = ReadingOf(t)
    BY <1>2, <1>3, <1>6 DEF ReadingOf, WritingOf, InBlock, ReadOnly
  <2> QED
    BY <1>2, <1>4, <2>8, <2>9, <2>10, StoreWrites
<1> QED
  BY <1>5, <1>6

(* The disk takes over what its dirty block has held for a sector.         *)
LEMMA FlushStutters ==
    ASSUME BothInv, NEW t \in AllThreads, CacheFlush(t) \/ FlushEnd(t)
    PROVE  UNCHANGED Store!storeVars
<1>0. PICK b : b = blk[t]
  OBVIOUS
<1> USE <1>0
<1>1. Others(t) /\ (t \in User => ~InBlock(t) /\ ~InBlock(t)') /\ pc[t] \in {"flush", "flushed"}
  BY ThreadSets DEF CacheFlush, FlushEnd, FlushDone, Goto, threadVars, BothInv, CacheInv,
     CacheTypeOK, Others, SameThread, InBlock
<1>2. b \in Block /\ cache[b] \in CacheBlock /\ cache[b].sector \in Sector
  BY <1>1, BlockTypes DEF BothInv, CacheInv, StagesOK
<1>3. CASE CacheFlush(t)
  <2>1. UNCHANGED cache /\ (~UNCHANGED disk => /\ cache[b].dirty
                                               /\ disk' = [disk EXCEPT ![cache[b].sector] =
                                                              cache[b].data])
    BY <1>3 DEF CacheFlush, tableVars
  <2>2. \A s \in Sector : disk'[s] = disk[s] \/ DirtyWith(b, s)
    BY <1>2, <2>1 DEF DirtyWith, BothInv, CacheInv, CacheTypeOK
  <2>3. SameContents
    BY <1>2, <2>1, <2>2, ContentStays DEF SameContents, KeepsDirty, BothInv
  <2> QED
    BY <1>1, <2>3, OutsideStutters
<1>4. CASE FlushEnd(t)
  <2>1. /\ UNCHANGED disk /\ cache[b].dirty
        /\ cache[b].data = disk[cache[b].sector]
        /\ cache' = [cache EXCEPT ![b].dirty = FALSE]
    BY <1>4 DEF FlushEnd, BothInv, StoreInv, ThreadsOK, OwnOK
  <2>2. cache'[b] = [cache[b] EXCEPT !.dirty = FALSE] /\ \A a \in Block \ {b} : cache'[a] = cache[a]
    BY <1>2, <2>1 DEF BothInv, CacheInv, CacheTypeOK
  <2>3. ~cache'[b].dirty
    BY <1>2, <2>2 DEF CacheBlock
  <2>4. ContentOK /\ ContentOK'
    BY ContentsAre DEF BothInv
  <2>5. ASSUME NEW s \in Sector PROVE Content(s)' = Content(s)
    <3>1. \A a \in Block : DirtyWith(a, s)' <=> (a # b /\ DirtyWith(a, s))
      BY <2>2, <2>3 DEF DirtyWith
    <3>2. /\ \A a \in Block : DirtyWith(a, s) => Content(s) = cache[a].data
          /\ (\A a \in Block : ~DirtyWith(a, s)) => Content(s) = disk[s]
      BY <2>4 DEF ContentOK
    <3>3. /\ \A a \in Block : DirtyWith(a, s)' => Content(s)' = cache'[a].data
          /\ (\A a \in Block : ~DirtyWith(a, s)') => Content(s)' = disk[s]
      BY <2>1, <2>4 DEF ContentOK
    <3>4. CASE cache[b].sector = s
      <4>1. \A a \in Block : DirtyWith(a, s) => a = b
        BY <1>2, <2>1, <3>4 DEF DirtyWith, BothInv, CacheInv, OneBlockPerSector, StoreInv, FlagsOK
      <4> QED
        BY <1>2, <2>1, <3>1, <3>2, <3>3, <3>4, <4>1 DEF DirtyWith
    <3>5. CASE cache[b].sector # s
      BY <1>2, <2>2, <3>1, <3>2, <3>3, <3>5 DEF DirtyWith
    <3> QED
      BY <3>4, <3>5
  <2> QED
    BY <1>1, <2>5, OutsideStutters DEF SameContents
<1> QED
  BY <1>3, <1>4

LEMMA FlushdStutters ==
    ASSUME BothInv, FlushAll \/ FlushNext
    PROVE  UNCHANGED Store!storeVars
<1>1. Flushd \in AllThreads /\ Flushd \notin User
  BY ThreadSets
<1>2. Others(Flushd) /\ UNCHANGED <<cache, disk>>
  BY <1>1 DEF FlushAll, FlushNext, FlushDone, Goto, threadVars, tableVars, BothInv, CacheInv,
     CacheTypeOK, Others, SameThread
<1> QED
  BY <1>1, <1>2, SameCache, QuietContents, OutsideStutters

LEMMA StoreInits == Init => Store!Init
<1> SUFFICES ASSUME Init PROVE Store!Init
  OBVIOUS
<1>1. \A u \in User : ReadingOf(u) = None /\ WritingOf(u) = None
  BY ThreadSets DEF Init, ReadingOf, WritingOf, InBlock
<1>2. \A s \in Sector : Content(s) = disk[s]
  BY DEF Init, Content
<1>3. \A s \in Sector : disk[s] \in [Part -> Value]
  BY DEF Init, Data
<1> QED
  BY <1>1, <1>2, <1>3 DEF Store!Init

LEMMA StoreSteps ==
    ASSUME "fillzero" \notin Op, BothInv, [Next /\ VictimIsFree]_vars
    PROVE  [Store!Next]_(Store!storeVars)
<1>1. CASE UNCHANGED <<cache, disk, pc, op, want>>
  <2>1. \A s \in Sector : Content(s)' = Content(s)
    BY <1>1 DEF Content
  <2>2. \A u \in User : SameOpen(u)
    BY <1>1 DEF SameOpen, ReadingOf, WritingOf, InBlock, ReadOnly
  <2> QED
    BY <2>1, <2>2, StoreStutters DEF SameContents
<1>2. CASE \E t \in Client, s \in Sector :
              ReadRequest(t, s) \/ \E o \in Op : CacheAcquire(t, s, o)
  BY <1>1, <1>2, CallsStutter DEF ReadRequest, tableVars, threadVars
<1>3. CASE \E t \in User : UserStep(t)
  BY <1>3, WaysStutter, VictimStutters, EnterStore, RecheckStore, LeaveStutters,
     DataBeginStutters, DataEndStore, NoFillzero DEF UserStep, BothInv
<1>4. CASE \E t \in AllThreads : CacheFlush(t) \/ FlushEnd(t)
  BY <1>4, FlushStutters
<1>5. CASE FlushAll \/ FlushNext
  BY <1>5, FlushdStutters
<1>6. CASE ReadAhead \/ ReadAheadCheck \/ ReadAheadLoad
  BY <1>6, ReadAheadStore
<1> QED
  BY <1>1, <1>2, <1>3, <1>4, <1>5, <1>6 DEF Next, vars, tableVars, threadVars

-----------------------------------------------------------------------------
(* The accesses of MCCacheStore.  With one sector there is no victim, and  *)
(* with one client nobody else is about to enter a block.                  *)
AccessOK ==
    /\ access \in Access
    /\ \A t \in User : want[t] # None => <<t, want[t]>> \in access
    /\ \A i \in DOMAIN readList : <<Readd, readList[i]>> \in access
    /\ \A b \in Block : cache[b].valid => cache[b].sector \in Used

LEMMA WantStep ==
    ASSUME [Next]_vars
    PROVE  \/ want' = want
           \/ \E t \in Client, s \in Sector, o \in Op : CacheAcquire(t, s, o)
           \/ \E t \in User : Leave(t)
           \/ ReadAhead
  BY DEF Next, UserStep, vars, tableVars, threadVars, ReadRequest, Lookup, Hit, VictimScan,
     VictimReset, Claim, Enter, Recheck, CacheRelease, DataBegin, DataEnd, ZeroBegin, ZeroEnd,
     CacheFlush, FlushEnd, FlushAll, FlushNext, ReadAheadCheck, ReadAheadLoad

LEMMA AccessInits == AccessInit => AccessOK
<1> SUFFICES ASSUME AccessInit PROVE AccessOK
  OBVIOUS
<1>1. Init /\ access \in Access
  BY DEF AccessInit
<1>2. /\ \A t \in User : want[t] = None
      /\ readList = <<>> /\ \A b \in Block : ~cache[b].valid
  BY <1>1, ThreadSets DEF Init
<1> QED
  BY <1>1, <1>2 DEF AccessOK

LEMMA AccessStep ==
    ASSUME CacheInv, AccessOK, [AccessNext]_<<vars, access>>
    PROVE  AccessOK'
<1>1. CASE UNCHANGED <<vars, access>>
  BY <1>1 DEF AccessOK, Used, vars
<1>2. CASE AccessNext
  <2>1. /\ Next /\ UNCHANGED access
        /\ \A t \in Client : want'[t] # None => <<t, want'[t]>> \in access
        /\ \A i \in DOMAIN readList' : <<Readd, readList'[i]>> \in access
    BY <1>2 DEF AccessNext
  <2>2. want'[Readd] # None => <<Readd, want'[Readd]>> \in access
    <3>1. Readd \in User /\ Readd \in AllThreads /\ Readd \notin Client
      BY ThreadSets
    <3>2. CASE want' = want
      BY <3>1, <3>2 DEF AccessOK
    <3>3. CASE \E t \in Client, s \in Sector, o \in Op : CacheAcquire(t, s, o)
      BY <3>1, <3>3 DEF CacheAcquire, AccessOK, CacheInv, CacheTypeOK
    <3>4. CASE \E t \in User : Leave(t)
      BY <3>1, <3>4 DEF Leave, AccessOK, CacheInv, CacheTypeOK
    <3>5. CASE ReadAhead
      <4>1. readList # <<>> /\ readList \in Seq(Sector)
        BY <3>5 DEF ReadAhead, CacheInv, CacheTypeOK
      <4>2. 1 \in DOMAIN readList /\ Head(readList) = readList[1]
        BY <4>1
      <4>3. want'[Readd] = readList[1]
        BY <3>1, <3>5, <4>2 DEF ReadAhead, CacheInv, CacheTypeOK
      <4> QED
        BY <4>2, <4>3 DEF AccessOK
    <3> QED
      BY <2>1, <3>2, <3>3, <3>4, <3>5, WantStep
  <2>3. ASSUME NEW b \in Block, cache'[b].valid PROVE cache'[b].sector \in Used
    <3>1. CASE \E t \in User : VictimReset(t)
      BY <2>3, <3>1, ResetStep DEF OtherBlocks, AccessOK, CacheInv
    <3>2. ASSUME NEW t \in User, Claim(t) PROVE cache'[b].sector \in Used
      <4>1. CASE b = blk[t]
        <5>1. cache'[b].sector = want[t] /\ want[t] \in Sector
          BY <3>2, <4>1, ClaimStep DEF CacheInv, StagesOK, Claim
        <5>2. <<t, want[t]>> \in access
          BY <5>1, CacheAssumption DEF AccessOK, CacheAssumption
        <5>3. want[t] = <<t, want[t]>>[2]
          OBVIOUS
        <5> QED
          BY <5>1, <5>2, <5>3 DEF Used
      <4>2. CASE b # blk[t]
        BY <2>3, <3>2, <4>2, ClaimStep DEF OtherBlocks, AccessOK, CacheInv
      <4> QED
        BY <4>1, <4>2
    <3>3. CASE ~\E t \in User : VictimReset(t) \/ Claim(t)
      BY <2>1, <2>3, <3>3, SameTableStep DEF SameTable, AccessOK, CacheInv
    <3> QED
      BY <3>1, <3>2, <3>3
  <2> QED
    BY <2>1, <2>2, <2>3 DEF AccessOK, User, Used, Block
<1> QED
  BY <1>1, <1>2

LEMMA AccessVictim ==
    ASSUME CacheInv, StoreInv, AccessOK
    PROVE  VictimIsFree
<1> SUFFICES ASSUME NEW t \in User, pc[t] = "scan", NEW u \in User, pc[u] = "enter"
             PROVE  FALSE
  BY DEF VictimIsFree, VictimScan
<1>1. t \in AllThreads /\ u \in AllThreads
  BY ThreadSets
<1>2. want[t] \in Sector /\ want[u] \in Sector
  BY DEF CacheInv, StagesOK
<1>3. <<t, want[t]>> \in access /\ <<u, want[u]>> \in access
  BY <1>2, CacheAssumption DEF AccessOK, CacheAssumption
<1>4. CASE access = User \X {CHOOSE s \in Sector : TRUE}
  <2>1. Used \subseteq {CHOOSE s \in Sector : TRUE}
    BY <1>4 DEF Used
  <2>2. want[t] = CHOOSE s \in Sector : TRUE
    BY <1>3, <1>4
  <2>3. 0 \in Block
    BY CacheAssumption DEF CacheAssumption, Block
  <2>4. cache[0].valid
    BY <1>1, <2>3 DEF StoreInv, ThreadsOK, OwnOK
  <2>5. cache[0].sector = want[t]
    BY <2>1, <2>2, <2>3, <2>4 DEF AccessOK
  <2> QED
    BY <2>3, <2>4, <2>5 DEF CacheInv, MissOK, MissStage
<1>5. CASE access = {CHOOSE c \in Client : TRUE} \X Sector
  <2>1. t = u
    BY <1>3, <1>5
  <2> QED
    BY <2>1
<1> QED
  BY <1>4, <1>5 DEF AccessOK, Access

-----------------------------------------------------------------------------
(* What is read from a sector is what was last written to it, and a sector *)
(* is open to many readers or one writer, while blocks are loaded, read    *)
(* ahead, flushed by either thread and given to other sectors: for any     *)
(* cache and threads, when cache_fillzero is not called and cache_victim   *)
(* takes no block that somebody is about to enter.                         *)
THEOREM CacheIsStore ==
    ASSUME "fillzero" \notin Op
    PROVE  FreeVictimSpec => ImplementsStore
<1>1. CacheInv /\ [Next /\ VictimIsFree]_vars => CacheInv'
  BY TypeStep, StagesStep, LockStep, MissStep, OneBlockStep, ReadersWriterStep, StrandedStep
     DEF CacheInv
<1>2. CacheInv /\ StoreInv /\ [Next /\ VictimIsFree]_vars => StoreInv'
  BY StoreInvStep
<1>3. CacheInv /\ StoreInv /\ CacheInv' /\ StoreInv' /\ [Next /\ VictimIsFree]_vars
      => [Store!Next]_(Store!storeVars)
  BY StoreSteps DEF BothInv
<1> QED
  BY <1>1, <1>2, <1>3, InitInv, StoreInit, StoreInits, PTL
     DEF FreeVictimSpec, ImplementsStore, Store!Spec

(* The accesses of MCCacheStore keep the invariant, and take no block that *)
(* somebody is about to enter.                                             *)
LEMMA AccessInvariance ==
    ASSUME "fillzero" \notin Op
    PROVE  AccessSpec => [](CacheInv /\ StoreInv /\ AccessOK)
<1>1. AccessInit => CacheInv /\ StoreInv /\ AccessOK
  BY InitInv, StoreInit, AccessInits DEF AccessInit
<1>2. CacheInv /\ StoreInv /\ AccessOK /\ [AccessNext]_<<vars, access>>
      => CacheInv' /\ StoreInv' /\ AccessOK'
  <2> SUFFICES ASSUME CacheInv, StoreInv, AccessOK, [AccessNext]_<<vars, access>>
               PROVE  CacheInv' /\ StoreInv' /\ AccessOK'
    OBVIOUS
  <2>1. [Next /\ VictimIsFree]_vars
    BY AccessVictim DEF AccessNext
  <2>2. CacheInv'
    BY <2>1, TypeStep, StagesStep, LockStep, MissStep, OneBlockStep, ReadersWriterStep, StrandedStep
       DEF CacheInv
  <2> QED
    BY <2>1, <2>2, StoreInvStep, AccessStep
<1> QED
  BY <1>1, <1>2, PTL DEF AccessSpec

(* All threads use one sector or one client uses all sectors: cache_read   *)
(* and cache_write do what the store promises, whatever cache_flushd and   *)
(* cache_readd do meanwhile.                                               *)
THEOREM AccessesAreStore ==
    ASSUME "fillzero" \notin Op
    PROVE  AccessSpec => ImplementsStore
<1>1. CacheInv /\ StoreInv /\ AccessOK /\ [AccessNext]_<<vars, access>>
      => [Next /\ VictimIsFree]_vars
  BY AccessVictim DEF AccessNext
<1>2. AccessInit => Init
  BY DEF AccessInit
<1>3. AccessSpec => FreeVictimSpec
  BY <1>1, <1>2, AccessInvariance, PTL DEF AccessSpec, FreeVictimSpec
<1> QED
  BY <1>3, CacheIsStore

(* With these accesses a loaded block that is not dirty has what the disk  *)
(* has, whenever no thread holds its data_lock.                            *)
THEOREM CleanBlocksOnDisk ==
    ASSUME "fillzero" \notin Op
    PROVE  AccessSpec => []CleanIsOnDisk
<1>1. CacheInv /\ StoreInv => CleanIsOnDisk
  BY CleanFollows
<1> QED
  BY <1>1, AccessInvariance, PTL
=============================================================================
