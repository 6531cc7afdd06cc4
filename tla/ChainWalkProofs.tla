-------------------------- MODULE ChainWalkProofs --------------------------
(***************************************************************************)
(* Proofs about the ingest walk of ChainWalk, for any set of branches, any *)
(* start height, batch size and window, and any mix of failed requests,    *)
(* bad payloads and failed commits: first without restarts (Spec), then    *)
(* with the process killed at any step (CrashSpec).                        *)
(***************************************************************************)
EXTENDS ChainWalk, TLAPS

\* What the assumptions give, in the form the proofs use.
LEMMA Constants ==
    /\ MaxHeight \in Nat /\ Heights = 0 .. MaxHeight
    /\ NoBlock \notin Block /\ NoBlock \in MaybeBlock
    /\ \A b \in MaybeBlock : b # NoBlock => b \in Block
    /\ \A b \in Block : b \in MaybeBlock
    /\ StartHeight \in Heights /\ MaxBatch \in Nat \ {0} /\ MaxKept \in Nat
    /\ \A c \in Chain : Tip[c] \in Heights
    /\ \A c \in Chain, h \in Heights : BlockOf[c][h] \in MaybeBlock
BY ChainAssumption, ConfigAssumption DEF Heights, MaybeBlock

\* The cursor a tick reads is a height.
LEMMA CursorType ==
    ASSUME TypeOK
    PROVE  /\ TickCursor \in Heights
           /\ CursorHeight \in Heights \cup {NoHeight}
BY Constants DEF TypeOK, TickCursor, CursorHeight

\* The locals of a finished tick have their types.
LEMMA ResetType ==
    ASSUME ResetLocals
    PROVE  /\ cur' \in Heights /\ last' \in Heights
           /\ locators' \in [Heights -> MaybeBlock]
           /\ at' \in 0 .. MaxHeight + 1
           /\ prev' \in MaybeBlock
           /\ pending' \in [Heights -> MaybeBlock]
BY Constants DEF ResetLocals, NoBlocks

\* A fresh database is well typed.
LEMMA InitType == Init => TypeOK
BY Constants DEF Init, TypeOK, NoBlocks, Pcs, NoHeight

\* The tick's end and the exit of the verification loop keep the types.
LEMMA EndTickType ==
    ASSUME EndTick
    PROVE  /\ pc' \in Pcs
           /\ cur' \in Heights /\ last' \in Heights
           /\ locators' \in [Heights -> MaybeBlock]
           /\ at' \in 0 .. MaxHeight + 1
           /\ prev' \in MaybeBlock
           /\ pending' \in [Heights -> MaybeBlock]
BY ResetType DEF EndTick, Pcs

\* So does leaving the verification loop.
LEMMA AfterLoopType ==
    ASSUME TypeOK, NEW h \in 0 .. MaxHeight + 1, AfterLoop(h)
    PROVE  /\ pc' \in Pcs
           /\ cur' \in Heights /\ last' \in Heights
           /\ locators' \in [Heights -> MaybeBlock]
           /\ at' \in 0 .. MaxHeight + 1
           /\ prev' \in MaybeBlock
           /\ pending' \in [Heights -> MaybeBlock]
BY EndTickType DEF AfterLoop, TypeOK, Pcs, fetch

\* Every step preserves the type invariant, action by action.
LEMMA TypeStep ==
    ASSUME TypeOK, Bounds, [Next]_vars
    PROVE  TypeOK' /\ Bounds'
<1> USE Constants, CursorType
<1>1. CASE UNCHANGED vars
    BY <1>1 DEF TypeOK, Bounds, vars, disk, cache, locals
<1>2. CASE UpToDate
    BY <1>2 DEF TypeOK, Bounds, UpToDate, vars, disk, cache, locals
<1>3. CASE BeginTick
    BY <1>3 DEF TypeOK, Bounds, BeginTick, WindowEnd, disk, cache, Pcs
<1>4. ASSUME NEW h \in Heights, FetchHash(h) PROVE TypeOK' /\ Bounds'
    BY <1>4 DEF TypeOK, Bounds, FetchHash, Window, disk, cache, Pcs
<1>5. CASE FetchWires
    <2>1. BlockAt(cur) \in MaybeBlock
        BY DEF BlockAt, TypeOK
    <2>2. QED
        BY <1>5, <2>1 DEF TypeOK, Bounds, FetchWires, PrevHash, disk, fetch, Pcs
<1>6. ASSUME NEW w \in Wire, Halt(w) PROVE TypeOK' /\ Bounds'
    <2>1. UNCHANGED <<node, disk, cache>> /\ AfterLoop(at) /\ pc = "verify"
        BY <1>6 DEF Halt
    <2>2. TypeOK'
        BY <2>1, AfterLoopType DEF TypeOK, disk, cache
    <2>3. Bounds'
        BY <2>1 DEF Bounds, AfterLoop, EndTick, TypeOK, fetch
    <2>4. QED
        BY <2>2, <2>3
<1>7. ASSUME NEW w \in Wire, Accept(w) PROVE TypeOK' /\ Bounds'
    BY <1>7 DEF TypeOK, Bounds, Accept, Wire, disk, cache, fetch, Pcs
<1>8. ASSUME NEW w \in Wire, LinkageBroken(w) PROVE TypeOK' /\ Bounds'
    BY <1>8 DEF TypeOK, Bounds, LinkageBroken, disk, cache, locals, Pcs
<1>9. CASE RollbackCommit
    BY <1>9 DEF TypeOK, Bounds, RollbackCommit, RemoveFrom, cache, locals, Pcs
<1>10. CASE RollbackCache
    <2>1. /\ UNCHANGED <<node, disk>>
          /\ cacheBlocks' \in [Heights -> MaybeBlock]
          /\ pc = "rollback_cache"
        BY <1>10 DEF RollbackCache, RemoveFrom, TypeOK
    <2>2. CASE CursorHeight # NoHeight /\ CursorHeight >= RollbackHeight(at)
        BY <1>10, <2>1, <2>2 DEF TypeOK, Bounds, RollbackCache, RollbackHeight,
                                 CursorBelow, disk, locals, Pcs
    <2>3. CASE ~ (CursorHeight # NoHeight /\ CursorHeight >= RollbackHeight(at))
        <3>1. AfterLoop(at) /\ cacheCursor' = CursorHeight
            BY <1>10, <2>3 DEF RollbackCache
        <3>2. TypeOK'
            BY <2>1, <3>1, AfterLoopType DEF TypeOK, disk
        <3>3. Bounds'
            BY <2>1, <3>1 DEF Bounds, AfterLoop, EndTick, TypeOK, fetch
        <3>4. QED
            BY <3>2, <3>3
    <2>4. QED
        BY <2>2, <2>3
<1>11. CASE RollbackCursor
    <2>1. TypeOK'
        BY <1>11, AfterLoopType DEF TypeOK, RollbackCursor, cache
    <2>2. Bounds'
        BY <1>11 DEF Bounds, RollbackCursor, AfterLoop, EndTick, TypeOK, fetch
    <2>3. QED
        BY <2>1, <2>2
<1>12. CASE InsertCache
    BY <1>12 DEF TypeOK, Bounds, InsertCache, Overlay, disk, locals, Pcs
<1>13. CASE InsertCommit
    BY <1>13 DEF TypeOK, Bounds, InsertCommit, Overlay, cache, locals, Pcs
<1>14. CASE SetCursor
    BY <1>14 DEF TypeOK, Bounds, SetCursor, LastPending, disk, locals, Pcs
<1>15. CASE CommitCursor
    <2>1. CASE PruneDue
        BY <1>15, <2>1 DEF TypeOK, Bounds, CommitCursor, cache, locals, Pcs
    <2>2. CASE ~ PruneDue
        BY <1>15, <2>2, EndTickType DEF TypeOK, Bounds, CommitCursor, EndTick, cache
    <2>3. QED
        BY <2>1, <2>2
<1>16. CASE PruneCommit
    BY <1>16 DEF TypeOK, Bounds, PruneCommit, RemoveBelow, cache, locals, Pcs
<1>17. CASE PruneCache
    BY <1>17, EndTickType DEF TypeOK, Bounds, PruneCache, RemoveBelow, EndTick, disk
<1>18. CASE FetchFails
    BY <1>18, EndTickType DEF TypeOK, Bounds, FetchFails, EndTick, disk, cache
<1>19. CASE CommitFails
    BY <1>19, EndTickType DEF TypeOK, Bounds, CommitFails, EndTick, disk, cache
<1>20. ASSUME NEW c \in Chain, Reorg(c) PROVE TypeOK' /\ Bounds'
    BY <1>20 DEF TypeOK, Bounds, Reorg, disk, cache, locals
<1>21. QED
    BY <1>1, <1>2, <1>3, <1>4, <1>5, <1>6, <1>7, <1>8, <1>9, <1>10, <1>11, <1>12,
       <1>13, <1>14, <1>15, <1>16, <1>17, <1>18, <1>19, <1>20
    DEF Next, Fetch, Verify, Rollback, Store

(***************************************************************************)
(* Heights, cursors, tables and locals stay in range through every step of *)
(* ingest_chain, every failure and every reorg.                            *)
(***************************************************************************)
THEOREM TypeCorrect == Spec => []TypeOK
<1>1. Init => TypeOK /\ Bounds
    BY InitType DEF Init, Bounds
<1>2. TypeOK /\ Bounds /\ [Next]_vars => (TypeOK /\ Bounds)'
    BY TypeStep
<1>3. QED
    BY <1>1, <1>2, PTL DEF Spec

(***************************************************************************)
(* The inductive step, one lemma per action.  The first two lemmas say what*)
(* is left to show when a step ends the tick, or leaves the loop.          *)
(***************************************************************************)
LEMMA EndTickInv ==
    ASSUME TypeOK', EndTick, DiskRun', CacheAgrees', FreshEmpty'
    PROVE  WalkInv'
<1>1. TickLocals' /\ Conflict'
    BY DEF TickLocals, Bounds, Conflict, EndTick, ResetLocals
<1>2. BatchLinked'
    BY Constants DEF BatchLinked, EndTick, ResetLocals, NoBlocks, TypeOK
<1>3. QED
    BY <1>1, <1>2 DEF WalkInv

\* Nothing was collected, so the tick is over; or the batch goes to insert.
LEMMA AfterLoopInv ==
    ASSUME TypeOK, TypeOK', WalkInv, AfterLoop(at),
           pc \in {"verify", "rollback_cache", "rollback_cursor"},
           DiskRun', CacheAgrees', FreshEmpty',
           cur + 1 < at =>
               /\ pc # "rollback_cursor"
               /\ TickCursor' = TickCursor
               /\ diskBlocks' = diskBlocks
    PROVE  WalkInv'
<1>1. CASE at <= cur + 1
    BY <1>1, EndTickInv DEF AfterLoop
<1>2. CASE cur + 1 < at
    <2>1. /\ pc' = "insert"
          /\ UNCHANGED <<cur, last, locators, prev, pending, at>>
          /\ UNCHANGED <<TickCursor, diskBlocks>>
          /\ pc # "rollback_cursor"
        BY <1>2 DEF AfterLoop, fetch, TypeOK, Heights
    <2>2. TickLocals'
        BY <1>2, <2>1 DEF WalkInv, TickLocals, Bounds, TypeOK, Heights
    <2>3. BatchLinked'
        BY <2>1 DEF WalkInv, BatchLinked
    <2>4. Conflict'
        BY <2>1 DEF Conflict
    <2>5. QED
        BY <2>2, <2>3, <2>4 DEF WalkInv
<1>3. QED
    BY <1>1, <1>2 DEF TypeOK, Heights

\* A tick starts from the cursor and a window above it.
LEMMA BeginTickInv ==
    ASSUME TypeOK, TypeOK', WalkInv, BeginTick
    PROVE  WalkInv'
<1> USE DEF BeginTick, disk, cache
<1>1. TickCursor' = TickCursor /\ Top' = Top /\ at = 0
    BY DEF TickCursor, CursorHeight, Top, WalkInv, TickLocals
<1>2. DiskRun' /\ CacheAgrees' /\ FreshEmpty'
    BY <1>1 DEF WalkInv, DiskRun, CacheAgrees, FreshEmpty
<1>3. TickLocals'
    BY <1>1, Constants DEF TickLocals, Bounds, WindowEnd, TypeOK
<1>4. BatchLinked' /\ Conflict'
    BY <1>1, Constants DEF WalkInv, BatchLinked, Conflict, TypeOK
<1>5. QED
    BY <1>2, <1>3, <1>4 DEF WalkInv

\* Locator hashes say nothing about the store.
LEMMA FetchHashInv ==
    ASSUME TypeOK, TypeOK', WalkInv, NEW h \in Heights, FetchHash(h)
    PROVE  WalkInv'
<1> USE DEF FetchHash, disk, cache
<1>1. TickCursor' = TickCursor /\ Top' = Top
    BY DEF TickCursor, CursorHeight, Top
<1>2. DiskRun' /\ CacheAgrees' /\ FreshEmpty' /\ TickLocals'
    BY <1>1 DEF WalkInv, DiskRun, CacheAgrees, FreshEmpty, TickLocals, Bounds
<1>3. BatchLinked' /\ Conflict'
    BY <1>1 DEF WalkInv, BatchLinked, Conflict
<1>4. QED
    BY <1>2, <1>3 DEF WalkInv

\* The cursor's block is read from a cache that agrees with the table.
LEMMA FetchWiresInv ==
    ASSUME TypeOK, TypeOK', WalkInv, FetchWires
    PROVE  WalkInv'
<1> USE DEF FetchWires, disk, fetch
<1>1. TickCursor' = TickCursor /\ Top' = Top /\ Top = cur /\ cur \in Heights
    BY DEF TickCursor, CursorHeight, Top, WalkInv, TickLocals, TypeOK
<1>2. cacheBlocks[cur] = diskBlocks[cur] /\ BlockAt(cur) = diskBlocks[cur]
    BY <1>1, Constants DEF WalkInv, CacheAgrees, BlockAt
<1>3. cacheBlocks' = cacheBlocks
    BY <1>2 DEF TypeOK
<1>4. diskBlocks[0] = NoBlock
    BY Constants DEF WalkInv, DiskRun
<1>5. prev' = diskBlocks[cur]
    BY <1>2, <1>4 DEF PrevHash
<1>6. DiskRun' /\ CacheAgrees' /\ FreshEmpty'
    BY <1>1, <1>3 DEF WalkInv, DiskRun, CacheAgrees, FreshEmpty
<1>7. TickLocals' /\ Conflict'
    BY <1>1 DEF WalkInv, TickLocals, Bounds, Conflict, TypeOK, Heights
<1>8. BatchLinked'
    BY <1>5, Constants DEF WalkInv, TickLocals, BatchLinked, TypeOK
<1>9. QED
    BY <1>6, <1>7, <1>8 DEF WalkInv

\* A halted loop keeps the verified prefix.
LEMMA HaltInv ==
    ASSUME TypeOK, TypeOK', WalkInv, NEW w \in Wire, Halt(w)
    PROVE  WalkInv'
<1> USE DEF Halt, disk, cache
<1>1. pc' \in {"idle", "insert"}
    BY DEF AfterLoop, EndTick
<1>2. TickCursor' = TickCursor /\ Top' = Top
    BY <1>1 DEF TickCursor, CursorHeight, Top
<1>3. DiskRun' /\ CacheAgrees' /\ FreshEmpty'
    BY <1>1, <1>2 DEF WalkInv, DiskRun, CacheAgrees, FreshEmpty
<1>4. QED
    BY <1>2, <1>3, AfterLoopInv

\* An accepted header extends the batch by one linked block.
LEMMA AcceptInv ==
    ASSUME TypeOK, TypeOK', WalkInv, NEW w \in Wire, Accept(w)
    PROVE  WalkInv'
<1> USE DEF Accept, disk, cache, fetch
<1>1. /\ w.base \in Block /\ w.base # NoBlock
      /\ prev # NoBlock => Prev[w.base] = prev
      /\ cur < at /\ at <= last /\ at \in Heights
    BY Constants DEF Wire, LinkageGate, WalkInv, TickLocals, Bounds, TypeOK
<1>2. TickCursor' = TickCursor /\ Top' = Top
    BY DEF TickCursor, CursorHeight, Top
<1>3. DiskRun' /\ CacheAgrees' /\ FreshEmpty'
    BY <1>2 DEF WalkInv, DiskRun, CacheAgrees, FreshEmpty
<1>4. TickLocals' /\ Conflict'
    BY <1>1, <1>2, Constants DEF WalkInv, TickLocals, Bounds, Conflict, TypeOK
<1>5. BatchLinked'
    <2>1. \A h \in Heights : pending'[h] = IF h = at THEN w.base ELSE pending[h]
        BY DEF TypeOK
    <2>2. \A h \in Heights : pending'[h] # NoBlock <=> cur < h /\ h < at'
        BY <1>1, <2>1, Constants DEF WalkInv, BatchLinked, TypeOK
    <2>3. at # cur + 1 => prev # NoBlock /\ prev = pending[at - 1]
        BY <1>1, Constants DEF WalkInv, BatchLinked, TypeOK
    <2>4. \A h \in Heights :
            cur + 1 < h /\ h < at' => Prev[pending'[h]] = pending'[h - 1]
        <3> SUFFICES ASSUME NEW h \in Heights, cur + 1 < h, h < at'
                     PROVE  Prev[pending'[h]] = pending'[h - 1]
            OBVIOUS
        <3>1. h - 1 \in Heights /\ h - 1 # at
            BY <1>1, Constants DEF TypeOK
        <3>2. CASE h = at
            <4>1. prev # NoBlock /\ prev = pending[h - 1]
                BY <2>3, <3>2, Constants DEF TypeOK
            <4>2. Prev[w.base] = pending[h - 1]
                BY <1>1, <4>1
            <4>3. QED
                BY <2>1, <3>1, <3>2, <4>2
        <3>3. CASE h # at
            <4>1. h < at
                BY <3>3, Constants DEF TypeOK
            <4>2. Prev[pending[h]] = pending[h - 1]
                BY <4>1 DEF WalkInv, BatchLinked
            <4>3. QED
                BY <2>1, <3>1, <3>3, <4>2
        <3>4. QED
            BY <3>2, <3>3
    <2>5. cur + 1 < at' /\ diskBlocks[cur] # NoBlock =>
            Prev[pending'[cur + 1]] = diskBlocks[cur]
        BY <1>1, <2>1, Constants DEF WalkInv, BatchLinked, TypeOK
    <2>6. prev' = pending'[at' - 1] /\ at' # cur + 1
        BY <1>1, <2>1, Constants DEF TypeOK
    <2>7. QED
        BY <2>2, <2>4, <2>5, <2>6 DEF BatchLinked
<1>6. QED
    BY <1>3, <1>4, <1>5 DEF WalkInv

\* The header that breaks the link contradicts the stored block below it.
LEMMA LinkageBrokenInv ==
    ASSUME TypeOK, TypeOK', WalkInv, NEW w \in Wire, LinkageBroken(w)
    PROVE  WalkInv'
<1> USE DEF LinkageBroken, disk, cache, locals
<1>1. TickCursor' = TickCursor /\ Top' = Top
    BY DEF TickCursor, CursorHeight, Top
<1>2. DiskRun' /\ CacheAgrees' /\ FreshEmpty' /\ TickLocals' /\ BatchLinked'
    BY <1>1 DEF WalkInv, DiskRun, CacheAgrees, FreshEmpty, TickLocals, Bounds,
                BatchLinked
<1>3. Conflict'
    BY DEF WalkInv, BatchLinked, Conflict, IntegrityGate, LinkageGate, Wire
<1>4. QED
    BY <1>2, <1>3 DEF WalkInv

(***************************************************************************)
(* rollback_from.  With an empty batch the cut is at the cursor and takes  *)
(* its block; with a batch it is above everything stored and takes nothing.*)
(***************************************************************************)
LEMMA RollbackCut ==
    ASSUME TypeOK, WalkInv, pc \in {"rollback", "rollback_cache"}
    PROVE  /\ RollbackHeight(at) = at - 1
           /\ RollbackHeight(at) \in Heights
           /\ TickCursor = cur /\ cur \in Heights
           /\ cur < at
           /\ at = cur + 1 => cur > 0 /\ CursorHeight = cur
BY Constants DEF RollbackHeight, WalkInv, TickLocals, Bounds, Conflict, DiskRun,
                 FreshEmpty, TickCursor, CursorHeight, TypeOK, NoHeight

\* The table loses the block at the cursor, or nothing mid-window.
LEMMA RollbackCommitInv ==
    ASSUME TypeOK, TypeOK', WalkInv, RollbackCommit
    PROVE  WalkInv'
<1> USE RollbackCut DEF RollbackCommit, cache, locals
<1>1. TickCursor' = TickCursor /\ CursorHeight' = CursorHeight
    BY DEF TickCursor, CursorHeight, NoHeight, WalkInv, FreshEmpty
<1>2. Top = cur /\ Top' = IF at = cur + 1 THEN cur - 1 ELSE cur
    <2>1. Top = cur
        BY DEF Top
    <2>2. PendingEmpty' <=> at = cur + 1
        BY Constants DEF PendingEmpty, TypeOK
    <2>3. Top' = IF PendingEmpty' THEN cur' - 1 ELSE TickCursor'
        BY DEF Top
    <2>4. QED
        BY <1>1, <2>1, <2>2, <2>3
<1>3. \A h \in Heights :
        diskBlocks'[h] = IF h >= at - 1 THEN NoBlock ELSE diskBlocks[h]
    BY DEF RemoveFrom
<1>4. DiskRun'
    <2>1. \A k \in Heights :
            diskBlocks'[k] # NoBlock =>
                /\ 0 < k /\ k <= Top'
                /\ \A h \in k .. Top' : diskBlocks'[h] # NoBlock
        BY <1>2, <1>3, Constants DEF WalkInv, DiskRun, TypeOK
    <2>2. \A h \in Heights \ {0} :
            diskBlocks'[h] # NoBlock /\ diskBlocks'[h - 1] # NoBlock =>
                Prev[diskBlocks'[h]] = diskBlocks'[h - 1]
        <3> SUFFICES ASSUME NEW h \in Heights, h # 0, diskBlocks'[h] # NoBlock,
                            diskBlocks'[h - 1] # NoBlock
                     PROVE  Prev[diskBlocks'[h]] = diskBlocks'[h - 1]
            OBVIOUS
        <3>1. h - 1 \in Heights
            BY Constants
        <3>2. diskBlocks'[h] = diskBlocks[h] /\ diskBlocks'[h - 1] = diskBlocks[h - 1]
            BY <1>3, <3>1
        <3>3. QED
            BY <3>1, <3>2 DEF WalkInv, DiskRun
    <2>3. QED
        BY <2>1, <2>2 DEF DiskRun
<1>5. CacheAgrees'
    BY <1>2, <1>3, Constants DEF WalkInv, CacheAgrees, TypeOK
<1>6. FreshEmpty' /\ TickLocals'
    BY <1>1, <1>3 DEF WalkInv, FreshEmpty, TickLocals, Bounds
<1>7. BatchLinked'
    BY <1>3, Constants DEF WalkInv, BatchLinked, TypeOK
<1>8. Conflict'
    BY <1>1, Constants DEF Conflict, TypeOK, NoHeight
<1>9. QED
    BY <1>4, <1>5, <1>6, <1>7, <1>8 DEF WalkInv

\* The cache follows, and the cursor in memory drops below the cut.
LEMMA RollbackCacheInv ==
    ASSUME TypeOK, TypeOK', WalkInv, RollbackCache
    PROVE  WalkInv'
<1> USE RollbackCut DEF RollbackCache, disk
<1>1. \A h \in Heights :
        cacheBlocks'[h] = IF h >= at - 1 THEN NoBlock ELSE cacheBlocks[h]
    BY DEF RemoveFrom
<1>2. CASE at = cur + 1
    <2>1. /\ cacheCursor' = cur - 1 /\ pc' = "rollback_cursor"
          /\ UNCHANGED locals
        BY <1>2, Constants DEF CursorBelow, TypeOK, NoHeight
    <2>2. Top = cur - 1 /\ Top' = cur - 1 /\ TickCursor' = cur - 1
        BY <1>2, <2>1, Constants DEF Top, PendingEmpty, TickCursor, CursorHeight,
                                     NoHeight, TypeOK
    <2>3. DiskRun' /\ FreshEmpty'
        <3>1. DiskRun'
            BY <2>2 DEF WalkInv, DiskRun
        <3>2. cacheCursor' # NoHeight
            BY <1>2, <2>1, Constants DEF NoHeight
        <3>3. QED
            BY <3>1, <3>2 DEF FreshEmpty
    <2>4. CacheAgrees'
        BY <1>1, <1>2, <2>1, <2>2, Constants DEF WalkInv, CacheAgrees, TypeOK
    <2>5. TickLocals' /\ Conflict'
        BY <1>2, <2>1 DEF WalkInv, TickLocals, Bounds, Conflict, locals
    <2>6. BatchLinked'
        BY <2>1 DEF WalkInv, BatchLinked, locals
    <2>7. QED
        BY <2>3, <2>4, <2>5, <2>6 DEF WalkInv
<1>3. CASE at # cur + 1
    <2>1. AfterLoop(at) /\ cacheCursor' = CursorHeight /\ pc' = "insert"
        BY <1>3, Constants DEF AfterLoop, TickCursor, TypeOK
    <2>2. TickCursor' = TickCursor /\ Top = cur /\ Top' = cur
        BY <1>3, <2>1, Constants DEF Top, PendingEmpty, TickCursor, CursorHeight,
                                     TypeOK
    <2>3. DiskRun'
        BY <2>2 DEF WalkInv, DiskRun
    <2>4. FreshEmpty'
        BY <2>1 DEF WalkInv, FreshEmpty, CursorHeight
    <2>5. CacheAgrees'
        BY <1>1, <1>3, <2>1, <2>2, Constants DEF WalkInv, CacheAgrees, TypeOK
    <2>6. QED
        BY <2>1, <2>2, <2>3, <2>4, <2>5, AfterLoopInv
<1>4. QED
    BY <1>2, <1>3

\* The cursor row is written; nothing was collected, so the tick is over.
LEMMA RollbackCursorInv ==
    ASSUME TypeOK, TypeOK', WalkInv, RollbackCursor
    PROVE  WalkInv'
<1> USE DEF RollbackCursor, cache
<1>1. at = cur + 1
    BY DEF WalkInv, TickLocals
<1>2. pc' = "idle"
    BY <1>1 DEF AfterLoop, EndTick, TypeOK, Heights
<1>3. TickCursor' = TickCursor /\ Top' = Top
    BY <1>2 DEF TickCursor, CursorHeight, Top, WalkInv, FreshEmpty
<1>4. DiskRun' /\ CacheAgrees' /\ FreshEmpty'
    BY <1>2, <1>3 DEF WalkInv, DiskRun, CacheAgrees, FreshEmpty
<1>5. QED
    BY <1>1, <1>3, <1>4, AfterLoopInv DEF TypeOK, Heights

(***************************************************************************)
(* insert_blocks and set_cursor_height: the batch lands on top of the run. *)
(***************************************************************************)
LEMMA InsertCacheInv ==
    ASSUME TypeOK, TypeOK', WalkInv, InsertCache
    PROVE  WalkInv'
<1> USE DEF InsertCache, disk, locals
<1>1. TickCursor' = TickCursor /\ Top' = Top /\ Top = cur
    BY DEF TickCursor, CursorHeight, Top, WalkInv, TickLocals
<1>2. \A h \in Heights :
        cacheBlocks'[h] = IF cur < h /\ h < at THEN pending[h] ELSE cacheBlocks[h]
    BY DEF Overlay, WalkInv, BatchLinked
<1>3. CacheAgrees'
    BY <1>1, <1>2, Constants DEF WalkInv, CacheAgrees, TypeOK
<1>4. DiskRun' /\ FreshEmpty' /\ TickLocals' /\ BatchLinked' /\ Conflict'
    BY <1>1 DEF WalkInv, DiskRun, FreshEmpty, TickLocals, Bounds, BatchLinked,
                Conflict
<1>5. QED
    BY <1>3, <1>4 DEF WalkInv

\* The batch becomes the top of the stored run.
LEMMA InsertCommitInv ==
    ASSUME TypeOK, TypeOK', WalkInv, InsertCommit
    PROVE  WalkInv'
<1> USE DEF InsertCommit, cache, locals
<1>1. /\ TickCursor' = TickCursor /\ Top = cur /\ Top' = at - 1
      /\ cur \in Heights /\ cur + 1 < at /\ at - 1 \in Heights
    BY Constants DEF TickCursor, CursorHeight, Top, LastPending, WalkInv,
                     TickLocals, Bounds, TypeOK
<1>2. \A h \in Heights :
        diskBlocks'[h] = IF cur < h /\ h < at THEN pending[h] ELSE diskBlocks[h]
    BY DEF Overlay, WalkInv, BatchLinked
<1>3. \A h \in Heights : cur < h /\ h < at => pending[h] # NoBlock
    BY DEF WalkInv, BatchLinked
<1>4. \A k \in Heights :
        diskBlocks'[k] # NoBlock =>
            /\ 0 < k /\ k <= Top'
            /\ \A h \in k .. Top' : diskBlocks'[h] # NoBlock
    <2> SUFFICES ASSUME NEW k \in Heights, diskBlocks'[k] # NoBlock
                 PROVE  /\ 0 < k /\ k <= Top'
                        /\ \A h \in k .. Top' : diskBlocks'[h] # NoBlock
        OBVIOUS
    <2>1. CASE k > cur
        BY <1>1, <1>2, <1>3, <2>1, Constants DEF WalkInv, DiskRun, TypeOK
    <2>2. CASE k <= cur
        <3>1. 0 < k /\ \A h \in k .. cur : diskBlocks[h] # NoBlock
            BY <1>1, <1>2, <2>2, Constants DEF WalkInv, DiskRun
        <3>2. QED
            BY <1>1, <1>2, <1>3, <2>2, <3>1, Constants DEF TypeOK
    <2>3. QED
        BY <1>1, <2>1, <2>2, Constants
<1>5. \A h \in Heights \ {0} :
        diskBlocks'[h] # NoBlock /\ diskBlocks'[h - 1] # NoBlock =>
            Prev[diskBlocks'[h]] = diskBlocks'[h - 1]
    <2> SUFFICES ASSUME NEW h \in Heights \ {0},
                        diskBlocks'[h] # NoBlock, diskBlocks'[h - 1] # NoBlock
                 PROVE  Prev[diskBlocks'[h]] = diskBlocks'[h - 1]
        OBVIOUS
    <2>1. h - 1 \in Heights /\ h < at
        BY <1>1, <1>4, Constants DEF TypeOK
    <2>2. CASE h <= cur
        BY <1>1, <1>2, <2>1, <2>2, Constants DEF WalkInv, DiskRun
    <2>3. CASE h = cur + 1
        BY <1>1, <1>2, <2>1, <2>3, Constants DEF WalkInv, BatchLinked
    <2>4. CASE h > cur + 1
        <3>1. Prev[pending[h]] = pending[h - 1]
            BY <2>1, <2>4 DEF WalkInv, BatchLinked
        <3>2. cur < h - 1 /\ h - 1 < at /\ cur < h
            BY <1>1, <2>1, <2>4, Constants DEF TypeOK
        <3>3. QED
            BY <1>2, <2>1, <3>1, <3>2
    <2>5. QED
        BY <1>1, <2>2, <2>3, <2>4, Constants
<1>6. DiskRun'
    BY <1>4, <1>5 DEF DiskRun
<1>7. CacheAgrees'
    BY <1>1, <1>2, Constants DEF WalkInv, CacheAgrees, TypeOK
<1>8. FreshEmpty' /\ TickLocals' /\ BatchLinked' /\ Conflict'
    BY <1>1 DEF WalkInv, FreshEmpty, TickLocals, Bounds, BatchLinked, Conflict
<1>9. QED
    BY <1>6, <1>7, <1>8 DEF WalkInv

\* The cursor in memory catches up with the run.
LEMMA SetCursorInv ==
    ASSUME TypeOK, TypeOK', WalkInv, SetCursor
    PROVE  WalkInv'
<1> USE DEF SetCursor, disk, locals
<1>1. LastPending \in Heights /\ LastPending' = LastPending
    BY Constants DEF LastPending, WalkInv, TickLocals, Bounds, TypeOK
<1>2. Top' = Top /\ cacheCursor' # NoHeight
    BY <1>1, Constants DEF Top, TickCursor, CursorHeight, NoHeight, TypeOK
<1>3. DiskRun' /\ CacheAgrees' /\ FreshEmpty'
    BY <1>2 DEF WalkInv, DiskRun, CacheAgrees, FreshEmpty
<1>4. TickLocals' /\ BatchLinked' /\ Conflict'
    BY <1>1 DEF WalkInv, TickLocals, Bounds, BatchLinked, Conflict
<1>5. QED
    BY <1>3, <1>4 DEF WalkInv

\* The cursor row follows; a prune starts only when it is due.
LEMMA CommitCursorInv ==
    ASSUME TypeOK, TypeOK', WalkInv, CommitCursor
    PROVE  WalkInv'
<1> USE DEF CommitCursor, cache
<1>1. pc' \in {"prune", "idle"}
    BY DEF EndTick
<1>2. cacheCursor # NoHeight /\ TickCursor' = TickCursor /\ Top' = Top
    BY <1>1, Constants DEF WalkInv, TickLocals, Bounds, LastPending, TickCursor,
                           CursorHeight, Top, NoHeight, TypeOK
<1>3. DiskRun' /\ CacheAgrees' /\ FreshEmpty'
    BY <1>1, <1>2 DEF WalkInv, DiskRun, CacheAgrees, FreshEmpty
<1>4. CASE PruneDue
    <2>1. pc' = "prune" /\ UNCHANGED <<locals, cache>>
        BY <1>4
    <2>2. TickLocals'
        BY <1>4, <2>1 DEF WalkInv, TickLocals, Bounds, LastPending, PruneDue,
                          PruneBelow, locals
    <2>3. BatchLinked' /\ Conflict'
        BY <2>1 DEF WalkInv, BatchLinked, Conflict, locals
    <2>4. QED
        BY <1>3, <2>2, <2>3 DEF WalkInv
<1>5. CASE ~ PruneDue
    BY <1>3, <1>5, EndTickInv
<1>6. QED
    BY <1>4, <1>5

(***************************************************************************)
(* prune_before: the window's lowest height lies inside the stored run.    *)
(***************************************************************************)
LEMMA PruneBelowStored ==
    ASSUME TypeOK, WalkInv, pc \in {"prune", "prune_cache"}
    PROVE  /\ PruneBelow \in Nat /\ Top = LastPending
           /\ pc = "prune" => PruneBelow <= Top /\ diskBlocks[PruneBelow] # NoBlock
<1>1. Top = LastPending /\ LastPending \in Heights /\ LastPending > 0
    BY Constants DEF Top, TickCursor, CursorHeight, LastPending, WalkInv,
                     TickLocals, Bounds, NoHeight, TypeOK
<1>2. PruneBelow \in Nat /\ (MaxKept > 0 => PruneBelow <= LastPending)
    BY <1>1, Constants DEF PruneBelow
<1>3. pc = "prune" => PruneBelow <= Top /\ diskBlocks[PruneBelow] # NoBlock
    <2> SUFFICES ASSUME pc = "prune"
                 PROVE  PruneBelow <= Top /\ diskBlocks[PruneBelow] # NoBlock
        OBVIOUS
    <2>1. PICK k \in Heights : k < PruneBelow /\ cacheBlocks[k] # NoBlock
        BY DEF WalkInv, TickLocals, PruneDue
    <2>2. PruneBelow <= Top
        BY <1>1, <1>2 DEF WalkInv, TickLocals, PruneDue
    <2>3. diskBlocks[k] # NoBlock
        BY <1>1, <1>2, <2>1, <2>2, Constants DEF WalkInv, CacheAgrees
    <2>4. PruneBelow \in k .. Top
        BY <1>1, <1>2, <2>1, <2>2, Constants
    <2>5. QED
        BY <2>2, <2>3, <2>4 DEF WalkInv, DiskRun
<1>4. QED
    BY <1>1, <1>2, <1>3

\* The run loses its lowest blocks and keeps its top.
LEMMA PruneCommitInv ==
    ASSUME TypeOK, TypeOK', WalkInv, PruneCommit
    PROVE  WalkInv'
<1> USE PruneBelowStored DEF PruneCommit, cache, locals
<1>1. TickCursor' = TickCursor /\ Top' = Top /\ PruneBelow' = PruneBelow
    BY Constants DEF TickCursor, CursorHeight, Top, PruneBelow, LastPending, NoHeight,
                     WalkInv, TickLocals, Bounds, TypeOK
<1>2. \A h \in Heights :
        diskBlocks'[h] = IF h < PruneBelow THEN NoBlock ELSE diskBlocks[h]
    BY DEF RemoveBelow
<1>3. \A k \in Heights :
        diskBlocks'[k] # NoBlock =>
            /\ 0 < k /\ k <= Top'
            /\ \A h \in k .. Top' : diskBlocks'[h] # NoBlock
    BY <1>1, <1>2, Constants DEF WalkInv, DiskRun, LastPending, TypeOK
<1>4. \A h \in Heights \ {0} :
        diskBlocks'[h] # NoBlock /\ diskBlocks'[h - 1] # NoBlock =>
            Prev[diskBlocks'[h]] = diskBlocks'[h - 1]
    BY <1>2, Constants DEF WalkInv, DiskRun
<1>5. DiskRun'
    BY <1>3, <1>4 DEF DiskRun
<1>6. CacheAgrees'
    BY <1>1, <1>2, Constants DEF WalkInv, CacheAgrees
<1>7. FreshEmpty' /\ TickLocals' /\ BatchLinked' /\ Conflict'
    BY <1>1, <1>2 DEF WalkInv, FreshEmpty, TickLocals, Bounds, LastPending,
                      BatchLinked, Conflict
<1>8. QED
    BY <1>5, <1>6, <1>7 DEF WalkInv

\* The cache follows the pruned table.
LEMMA PruneCacheInv ==
    ASSUME TypeOK, TypeOK', WalkInv, PruneCache
    PROVE  WalkInv'
<1> USE PruneBelowStored DEF PruneCache, EndTick, disk
<1>1. TickCursor' = TickCursor /\ Top' = Top
    BY DEF TickCursor, CursorHeight, Top
<1>2. \A h \in Heights :
        cacheBlocks'[h] = IF h < PruneBelow THEN NoBlock ELSE cacheBlocks[h]
    BY DEF RemoveBelow
<1>3. CacheAgrees'
    BY <1>1, <1>2, Constants DEF WalkInv, CacheAgrees
<1>4. DiskRun' /\ FreshEmpty'
    BY <1>1 DEF WalkInv, DiskRun, FreshEmpty
<1>5. QED
    BY <1>3, <1>4, EndTickInv

\* A failed request or commit ends the tick and leaves the tables alone.
LEMMA FailsInv ==
    ASSUME TypeOK, TypeOK', WalkInv, FetchFails \/ CommitFails
    PROVE  WalkInv'
<1> USE DEF FetchFails, CommitFails, EndTick, disk, cache
<1>1. TickCursor' = TickCursor /\ Top' = Top
    BY DEF TickCursor, CursorHeight, Top
<1>2. DiskRun' /\ CacheAgrees' /\ FreshEmpty'
    BY <1>1 DEF WalkInv, DiskRun, CacheAgrees, FreshEmpty
<1>3. QED
    BY <1>2, EndTickInv

\* The node is no part of the invariant.
LEMMA ReorgInv ==
    ASSUME TypeOK, WalkInv, NEW c \in Chain, Reorg(c)
    PROVE  WalkInv'
BY DEF Reorg, disk, cache, locals, WalkInv, DiskRun, CacheAgrees, FreshEmpty,
       TickLocals, Bounds, BatchLinked, Conflict, Top, TickCursor, CursorHeight,
       LastPending, PendingEmpty, PruneBelow, PruneDue

-----------------------------------------------------------------------------

\* A fresh database has no cursor and no blocks.
LEMMA InitInv == Init => WalkInv
<1> SUFFICES ASSUME Init PROVE WalkInv
    OBVIOUS
<1> USE DEF Init, NoBlocks
<1>1. DiskRun /\ CacheAgrees /\ FreshEmpty
    BY Constants DEF DiskRun, CacheAgrees, FreshEmpty
<1>2. TickLocals /\ Conflict
    BY DEF TickLocals, Bounds, Conflict
<1>3. BatchLinked
    BY Constants DEF BatchLinked
<1>4. QED
    BY <1>1, <1>2, <1>3 DEF WalkInv

\* Every step preserves the invariant, action by action.
LEMMA InvStep ==
    ASSUME TypeOK, TypeOK', WalkInv, [Next]_vars
    PROVE  WalkInv'
<1>1. CASE UNCHANGED vars
    BY <1>1 DEF vars, disk, cache, locals, WalkInv, DiskRun, CacheAgrees,
                FreshEmpty, TickLocals, Bounds, BatchLinked, Conflict, Top,
                TickCursor, CursorHeight, LastPending, PendingEmpty, PruneBelow,
                PruneDue
<1>2. CASE UpToDate
    BY <1>1, <1>2 DEF UpToDate
<1>3. CASE Fetch
    BY <1>3, BeginTickInv, FetchHashInv, FetchWiresInv DEF Fetch
<1>4. CASE Verify
    BY <1>4, HaltInv, AcceptInv, LinkageBrokenInv DEF Verify
<1>5. CASE Rollback
    BY <1>5, RollbackCommitInv, RollbackCacheInv, RollbackCursorInv DEF Rollback
<1>6. CASE Store
    BY <1>6, InsertCacheInv, InsertCommitInv, SetCursorInv, CommitCursorInv,
       PruneCommitInv, PruneCacheInv DEF Store
<1>7. CASE FetchFails \/ CommitFails
    BY <1>7, FailsInv
<1>8. CASE \E c \in Chain : Reorg(c)
    BY <1>8, ReorgInv
<1>9. QED
    BY <1>1, <1>2, <1>3, <1>4, <1>5, <1>6, <1>7, <1>8 DEF Next

(***************************************************************************)
(* The inductive invariant of the walk: at every step of a tick the table  *)
(* holds one linked run of heights ending where the cursor says or is about*)
(* to say, the cache agrees with it, and the batch links onto it.          *)
(***************************************************************************)
THEOREM WalkInvariant == Spec => []WalkInv
<1>1. Init => WalkInv
    BY InitInv
<1>2. TypeOK /\ TypeOK' /\ WalkInv /\ [Next]_vars => WalkInv'
    BY InvStep
<1>3. QED
    BY <1>1, <1>2, TypeCorrect, PTL DEF Spec

(***************************************************************************)
(* README's "each header's prev_hash equals the stored previous block": no *)
(* gap and no broken link is ever stored, whatever the node serves and     *)
(* whatever fails, as long as the process is not killed inside a tick.     *)
(***************************************************************************)
THEOREM LinkageTheorem == Spec => []StoredBlocksLinked
<1>1. TypeOK /\ WalkInv => StoredBlocksLinked
    <2> SUFFICES ASSUME TypeOK, WalkInv,
                        NEW h \in Heights, NEW k \in Heights,
                        diskBlocks[h] # NoBlock, diskBlocks[k] # NoBlock, k < h
                 PROVE  /\ diskBlocks[h - 1] # NoBlock
                        /\ Prev[diskBlocks[h]] = diskBlocks[h - 1]
        BY DEF StoredBlocksLinked, HC!Unbroken, HC!Stored, HC!Heights, Heights
    <2>1. h <= Top /\ \A j \in k .. Top : diskBlocks[j] # NoBlock
        BY DEF WalkInv, DiskRun
    <2>2. Top \in Int
        BY CursorType, Constants DEF Top, LastPending, TypeOK
    <2>3. h - 1 \in k .. Top /\ h # 0
        BY <2>1, <2>2, Constants
    <2>4. diskBlocks[h - 1] # NoBlock
        BY <2>1, <2>3
    <2>5. QED
        BY <2>3, <2>4 DEF WalkInv, DiskRun
<1>2. QED
    BY <1>1, TypeCorrect, WalkInvariant, PTL

(***************************************************************************)
(* Between ticks the stored run ends at the cursor and the cache agrees    *)
(* with the table up to it, after any history of failures.                 *)
(***************************************************************************)
THEOREM CursorTheorem == Spec => []CursorIsTop
<1>1. TypeOK /\ WalkInv => CursorIsTop
    <2> SUFFICES ASSUME TypeOK, WalkInv, pc = "idle"
                 PROVE  /\ \A h \in Heights :
                            diskBlocks[h] # NoBlock =>
                                h <= TickCursor /\ diskBlocks[TickCursor] # NoBlock
                        /\ \A h \in Heights :
                            h <= TickCursor => cacheBlocks[h] = diskBlocks[h]
        BY DEF CursorIsTop
    <2>1. Top = TickCursor /\ TickCursor \in Heights
        BY CursorType DEF Top
    <2>2. QED
        BY <2>1, Constants DEF WalkInv, DiskRun, CacheAgrees
<1>2. QED
    BY <1>1, TypeCorrect, WalkInvariant, PTL

(***************************************************************************)
(* rollback_from deletes a stored block only in the face of a header, with *)
(* the hash the node gave, that names another predecessor.                 *)
(***************************************************************************)
THEOREM RollbackTheorem == Spec => RollbackOnlyOnConflict
<1> DEFINE Justified ==
        \A h \in Heights :
            pc = "rollback" /\ diskBlocks[h] # NoBlock /\ diskBlocks'[h] = NoBlock =>
                locators[h + 1] # NoBlock /\ Prev[locators[h + 1]] # diskBlocks[h]
<1>1. TypeOK /\ WalkInv /\ [Next]_vars => [Justified]_vars
    <2> SUFFICES ASSUME TypeOK, WalkInv, [Next]_vars, NEW h \in Heights,
                        pc = "rollback", diskBlocks[h] # NoBlock,
                        diskBlocks'[h] = NoBlock
                 PROVE  locators[h + 1] # NoBlock /\ Prev[locators[h + 1]] # diskBlocks[h]
        OBVIOUS
    <2>1. diskBlocks' # diskBlocks
        OBVIOUS
    <2>2. RollbackCommit
        BY <2>1 DEF Next, Fetch, Verify, Rollback, Store, UpToDate, BeginTick,
                    FetchHash, FetchWires, Halt, Accept, LinkageBroken,
                    RollbackCache, RollbackCursor, InsertCache, InsertCommit,
                    SetCursor, CommitCursor, PruneCommit, PruneCache, FetchFails,
                    CommitFails, Reorg, vars, disk
    <2>3. at - 1 <= h
        BY <2>2, RollbackCut DEF RollbackCommit, RemoveFrom, TypeOK, Heights
    <2>4. h <= cur /\ cur < at
        BY RollbackCut DEF WalkInv, DiskRun, Top
    <2>5. h = cur /\ at = cur + 1
        <3>1. h \in Int /\ cur \in Int /\ at \in Int
            BY Constants DEF TypeOK
        <3>2. QED
            BY <2>3, <2>4, <3>1
    <2>6. QED
        BY <2>5, Constants DEF WalkInv, Conflict
<1>2. QED
    BY <1>1, TypeCorrect, WalkInvariant, PTL DEF Spec, RollbackOnlyOnConflict

(***************************************************************************)
(* Refinement: the table aux_blocks implements the abstract header chain.  *)
(* Every commit of a tick is an append of a linked batch on top, the loss  *)
(* of the top block, a drop from the bottom, or no change at all.          *)
(***************************************************************************)
LEMMA OtherStepsKeepBlocks ==
    ASSUME [Next]_vars, ~ RollbackCommit, ~ InsertCommit, ~ PruneCommit
    PROVE  diskBlocks' = diskBlocks
BY DEF Next, Fetch, Verify, Rollback, Store, UpToDate, BeginTick, FetchHash,
       FetchWires, Halt, Accept, LinkageBroken, RollbackCache, RollbackCursor,
       InsertCache, SetCursor, CommitCursor, PruneCache, FetchFails, CommitFails,
       Reorg, vars, disk

\* A rollback takes the top block, or nothing.
LEMMA RollbackRetracts ==
    ASSUME TypeOK, WalkInv, RollbackCommit
    PROVE  HC!Retract(cur) \/ diskBlocks' = diskBlocks
<1>0. /\ RollbackHeight(at) = at - 1 /\ TickCursor = cur
      /\ cur \in Heights /\ cur < at /\ at \in Int
    BY RollbackCut, Constants DEF RollbackCommit, TypeOK
<1>1. /\ \A h \in Heights : diskBlocks[h] # NoBlock => h <= cur
      /\ diskBlocks' = [h \in Heights |-> IF h >= at - 1 THEN NoBlock ELSE diskBlocks[h]]
      /\ diskBlocks \in [Heights -> MaybeBlock]
    BY <1>0 DEF WalkInv, DiskRun, Top, RollbackCommit, RemoveFrom, TypeOK
<1>2. CASE at = cur + 1
    <2>1. diskBlocks[cur] # NoBlock
        BY <1>2 DEF WalkInv, Conflict, RollbackCommit
    <2>2. HC!IsTop(cur)
        BY <1>0, <1>1, <2>1, Constants DEF HC!IsTop, HC!Stored, HC!Heights
    <2>3. \A h \in Heights : diskBlocks'[h] = [diskBlocks EXCEPT ![cur] = NoBlock][h]
        BY <1>0, <1>1, <1>2, Constants
    <2>4. QED
        BY <1>1, <2>2, <2>3 DEF HC!Retract
<1>3. CASE at # cur + 1
    <2>1. \A h \in Heights : h >= at - 1 => diskBlocks[h] = NoBlock
        BY <1>0, <1>1, <1>3, Constants
    <2>2. QED
        BY <1>1, <2>1
<1>4. QED
    BY <1>2, <1>3

\* An insert appends the linked batch.
LEMMA InsertExtends ==
    ASSUME TypeOK, TypeOK', WalkInv, WalkInv', InsertCommit
    PROVE  \E lo, hi \in HC!Heights : HC!Extend(lo, hi)
<1>1. /\ Top = cur /\ cur \in Heights /\ cur + 1 < at /\ at - 1 \in Heights
      /\ HC!Heights = Heights
    BY Constants DEF InsertCommit, Top, WalkInv, TickLocals, Bounds, TypeOK, HC!Heights
<1>2. PICK lo \in Heights, hi \in Heights : lo = cur + 1 /\ hi = at - 1
    BY <1>1, Constants DEF TypeOK
<1>3. HC!Empty \/ (lo > 0 /\ HC!IsTop(lo - 1))
    <2>1. CASE \E k \in Heights : diskBlocks[k] # NoBlock
        <3>1. diskBlocks[cur] # NoBlock
            BY <1>1, <2>1, Constants DEF WalkInv, DiskRun
        <3>2. \A h \in Heights : h > cur => diskBlocks[h] = NoBlock
            BY <1>1, Constants DEF WalkInv, DiskRun
        <3>3. lo > 0 /\ lo - 1 = cur
            BY <1>1, <1>2, Constants
        <3>4. QED
            BY <1>1, <3>1, <3>2, <3>3 DEF HC!IsTop, HC!Stored
    <2>2. CASE ~ \E k \in Heights : diskBlocks[k] # NoBlock
        BY <1>1, <2>2 DEF HC!Empty, HC!Stored
    <2>3. QED
        BY <2>1, <2>2
<1>4. /\ \A h \in Heights \ (lo .. hi) : diskBlocks'[h] = diskBlocks[h]
      /\ \A h \in lo .. hi : diskBlocks'[h] \in Block
    <2>1. \A h \in Heights : diskBlocks'[h] =
            IF cur < h /\ h < at THEN pending[h] ELSE diskBlocks[h]
        BY DEF InsertCommit, Overlay, WalkInv, BatchLinked
    <2>2. \A h \in Heights : cur < h /\ h < at => pending[h] \in Block
        BY Constants DEF WalkInv, BatchLinked, TypeOK
    <2>3. QED
        BY <1>1, <1>2, <2>1, <2>2, Constants DEF TypeOK
<1>5. \A h \in lo .. hi :
        h > 0 /\ diskBlocks'[h - 1] # NoBlock => Prev[diskBlocks'[h]] = diskBlocks'[h - 1]
    <2>1. lo .. hi \subseteq Heights \ {0}
        BY <1>1, <1>2, Constants
    <2>2. \A h \in lo .. hi : diskBlocks'[h] # NoBlock
        BY <1>4, Constants
    <2>3. QED
        BY <2>1, <2>2 DEF WalkInv, DiskRun
<1>6. diskBlocks' \in [HC!Heights -> Block \cup {NoBlock}]
    BY <1>1 DEF TypeOK, MaybeBlock
<1>7. HC!Extend(lo, hi)
    BY <1>1, <1>3, <1>4, <1>5, <1>6 DEF HC!Extend
<1>8. QED
    BY <1>1, <1>2, <1>7

\* A prune drops from the bottom.
LEMMA PruneDrops ==
    ASSUME TypeOK, WalkInv, PruneCommit
    PROVE  HC!Drop(PruneBelow) /\ PruneBelow \in Heights
<1>1. PruneBelow \in Nat /\ PruneBelow <= Top /\ diskBlocks[PruneBelow] # NoBlock
    BY PruneBelowStored DEF PruneCommit
<1>2. Top \in Heights
    BY CursorType DEF Top, PruneCommit
<1>3. PruneBelow \in Heights
    BY <1>1, <1>2, Constants
<1>4. QED
    BY <1>1, <1>3, Constants DEF HC!Drop, HC!Stored, HC!Heights, PruneCommit, RemoveBelow

(***************************************************************************)
(* insert_blocks, rollback_from and prune_before, driven by ingest_chain   *)
(* under any reorgs, bad payloads and failed commits, implement the        *)
(* abstract header chain on the table aux_blocks.                          *)
(***************************************************************************)
THEOREM Refinement == Spec => StoreIsHeaderChain
<1>1. Init => HC!Init
    BY Constants DEF Init, HC!Init, HC!Heights, NoBlocks
<1>2. TypeOK /\ TypeOK' /\ WalkInv /\ WalkInv' /\ [Next]_vars => [HC!Next]_diskBlocks
    <2> SUFFICES ASSUME TypeOK, TypeOK', WalkInv, WalkInv', [Next]_vars
                 PROVE  HC!Next \/ diskBlocks' = diskBlocks
        OBVIOUS
    <2>1. CASE RollbackCommit
        <3>1. cur \in HC!Heights
            BY Constants DEF TypeOK, HC!Heights
        <3>2. QED
            BY <2>1, <3>1, RollbackRetracts DEF HC!Next
    <2>2. CASE InsertCommit
        BY <2>2, InsertExtends DEF HC!Next
    <2>3. CASE PruneCommit
        BY <2>3, PruneDrops, Constants DEF HC!Next, HC!Heights
    <2>4. QED
        BY <2>1, <2>2, <2>3, OtherStepsKeepBlocks
<1>3. QED
    BY <1>1, <1>2, TypeCorrect, WalkInvariant, PTL DEF Spec, StoreIsHeaderChain, HC!Spec

(***************************************************************************)
(* The bounded window, for any max_kept_blocks: when a tick that stored a  *)
(* batch runs to its end, the stored heights span fewer than               *)
(* max_kept_blocks, whether it pruned or found nothing to prune.           *)
(***************************************************************************)
THEOREM WindowTheorem == Spec => WindowBounded
<1> DEFINE Narrow ==
        TickCompletes /\ MaxKept > 0 =>
            \A h, k \in Heights :
                diskBlocks'[h] # NoBlock /\ diskBlocks'[k] # NoBlock => h - k < MaxKept
<1>1. TypeOK /\ WalkInv /\ [Next]_vars => [Narrow]_vars
    <2> SUFFICES ASSUME TypeOK, WalkInv, TickCompletes, MaxKept > 0,
                        NEW h \in Heights, NEW k \in Heights,
                        diskBlocks'[h] # NoBlock, diskBlocks'[k] # NoBlock
                 PROVE  h - k < MaxKept
        OBVIOUS
    <2>1. diskBlocks' = diskBlocks /\ pc \in {"prune_cache", "cursor_commit"}
        BY DEF TickCompletes, PruneCache, CommitCursor, disk
    <2>2. Top = LastPending /\ LastPending \in Heights
        BY <2>1, Constants DEF Top, TickCursor, CursorHeight, LastPending, WalkInv,
                               TickLocals, Bounds, NoHeight, TypeOK
    <2>3. h <= LastPending /\ 0 < k /\ k <= LastPending
        BY <2>1, <2>2 DEF WalkInv, DiskRun
    <2>4. k >= PruneBelow \/ PruneBelow <= 1
        <3>1. PruneBelow \in Nat
            BY <2>2, Constants DEF PruneBelow
        <3>2. CASE pc = "prune_cache"
            BY <2>1, <3>1, <3>2, Constants DEF WalkInv, CacheAgrees
        <3>3. CASE pc = "cursor_commit"
            <4>1. ~ PruneDue
                BY <3>3 DEF TickCompletes, PruneCache, CommitCursor
            <4>2. cacheBlocks[k] # NoBlock
                BY <2>1, <2>2, <2>3, <3>3 DEF WalkInv, CacheAgrees
            <4>3. ~ (k < PruneBelow) \/ ~ (PruneBelow > 1)
                BY <4>1, <4>2 DEF PruneDue
            <4> QED
                BY <3>1, <4>3, Constants
        <3> QED
            BY <2>1, <3>2, <3>3
    <2>5. QED
        BY <2>2, <2>3, <2>4, Constants DEF PruneBelow
<1>2. QED
    BY <1>1, TypeCorrect, WalkInvariant, PTL DEF Spec, WindowBounded
-----------------------------------------------------------------------------
(***************************************************************************)
(* The walk when the process may be killed and restarted between any two   *)
(* steps (CrashSpec).  A killed tick leaves blocks above the cursor, or a  *)
(* cursor without its block, so the invariant above does not hold; what    *)
(* stays true is that no pair of adjacent blocks up to the cursor is       *)
(* unlinked.                                                               *)
(***************************************************************************)
(* The inductive invariant. *)

\* Adjacent stored blocks up to height n are linked.
LinkedTo(n) ==
    \A h \in Heights :
        h > 0 /\ h <= n /\ diskBlocks[h] # NoBlock /\ diskBlocks[h - 1] # NoBlock
            => Prev[diskBlocks[h]] = diskBlocks[h - 1]

\* The height the store is accounted for: the cursor, and the whole batch
\* between its commit and the write of the cursor.
Reach == IF pc = "cursor" THEN LastPending ELSE TickCursor

\* The cursor a restart would find.
Restart == IF diskCursor # NoHeight THEN diskCursor ELSE StartHeight

Linked == LinkedTo(Reach) /\ LinkedTo(Restart)

\* The row on disk is above the cursor in memory only after a roll-back whose
\* cursor write failed, and that roll-back left nothing above its cut.
Clean ==
    /\ Restart > TickCursor =>
         \A h \in Heights : h > Reach => diskBlocks[h] = NoBlock
    /\ pc = "rollback_cache" =>
         \A h \in Heights : h >= RollbackHeight(at) => diskBlocks[h] = NoBlock
    /\ cacheCursor = NoHeight => diskCursor = NoHeight
    /\ diskBlocks[0] = NoBlock

\* Up to that height the cache never contradicts the table.
Agree ==
    /\ \A h \in Heights :
         h <= Reach /\ cacheBlocks[h] # NoBlock /\ diskBlocks[h] # NoBlock
            => cacheBlocks[h] = diskBlocks[h]
    /\ pc = "insert_commit" =>
         \A h \in Heights : cur < h /\ h < at => cacheBlocks[h] = pending[h]

\* The tick works from the cursor, and its loop index stays in the window.
Placed ==
    /\ Bounds
    /\ pc \in {"hashes", "wires", "verify", "rollback", "rollback_cache",
              "insert", "insert_commit", "cursor"} => TickCursor = cur
    /\ pc \in {"idle", "hashes", "wires"} => at = 0
    /\ pc = "rollback_cursor" => at = cur + 1

\* The batch links inside, and onto the block at the cursor if it is stored.
Batch ==
    /\ \A h \in Heights : pending[h] # NoBlock <=> cur < h /\ h < at
    /\ \A h \in Heights : cur + 1 < h /\ h < at => Prev[pending[h]] = pending[h - 1]
    /\ pc \in {"verify", "rollback", "rollback_cache", "insert", "insert_commit"} =>
         (cur + 1 < at /\ diskBlocks[cur] # NoBlock =>
            Prev[pending[cur + 1]] = diskBlocks[cur])
    /\ pc = "verify" /\ at = cur + 1 => diskBlocks[cur] \in {NoBlock, prev}
    /\ pc = "verify" /\ at # cur + 1 => prev = pending[at - 1]

CrashInv == Linked /\ Clean /\ Agree /\ Placed /\ Batch

-----------------------------------------------------------------------------
(* Lemmas for steps that change little. *)

LEMMA Numbers ==
    ASSUME TypeOK
    PROVE  /\ TickCursor \in Heights /\ Restart \in Heights /\ at \in Nat /\ cur \in Heights
           /\ Reach \in Int /\ \A h \in Heights : h > 0 => h - 1 \in Heights
BY Constants, CursorType DEF TypeOK, Restart, Reach, LastPending, NoHeight

\* The tables and the cursors stay.
LEMMA StoreSame ==
    ASSUME Linked, Clean, UNCHANGED <<diskBlocks, diskCursor>>,
           TickCursor' = TickCursor, Reach' = Reach, pc' # "rollback_cache",
           cacheCursor' = NoHeight => cacheCursor = NoHeight
    PROVE  Linked' /\ Clean'
BY DEF Linked, LinkedTo, Clean, Restart

\* The end of a tick.
LEMMA EndTickPlaced ==
    ASSUME TypeOK', EndTick
    PROVE  Placed' /\ Batch' /\ pc' = "idle" /\ Reach' = TickCursor'
<1>1. /\ pc' = "idle" /\ at' = 0 /\ cur' = 0 /\ \A h \in Heights : pending'[h] = NoBlock
    BY DEF EndTick, ResetLocals, NoBlocks
<1>2. Placed'
    BY <1>1 DEF Placed, Bounds
<1>3. Batch'
    BY <1>1, Constants DEF Batch
<1> QED
    BY <1>1, <1>2, <1>3 DEF Reach

\* A tick that ends without having touched the store.
LEMMA EndTickQuiet ==
    ASSUME TypeOK', CrashInv, EndTick, UNCHANGED <<disk, cache>>, pc # "cursor"
    PROVE  CrashInv'
<1>1. Placed' /\ Batch' /\ pc' = "idle" /\ Reach' = TickCursor'
    BY EndTickPlaced
<1>2. TickCursor' = TickCursor /\ Reach' = Reach
    BY <1>1 DEF TickCursor, CursorHeight, Reach, disk, cache
<1>3. Linked' /\ Clean'
    BY <1>1, <1>2, StoreSame DEF CrashInv, disk, cache
<1>4. Agree'
    BY <1>1, <1>2 DEF CrashInv, Agree, disk, cache
<1> QED
    BY <1>1, <1>3, <1>4 DEF CrashInv

\* Leaving the loop with a batch in hand.
LEMMA LoopExit ==
    ASSUME TypeOK, TypeOK', CrashInv, AfterLoop(at), cur + 1 < at, diskBlocks' = diskBlocks,
           pc \in {"verify", "rollback_cache"}, TickCursor' = TickCursor
    PROVE  Placed' /\ Batch' /\ pc' = "insert"
<1>1. /\ pc' = "insert" /\ UNCHANGED <<cur, last, locators, prev, pending, at>>
    BY Constants DEF AfterLoop, fetch, TypeOK
<1>2. Placed'
    BY <1>1, Constants DEF CrashInv, Placed, Bounds, TypeOK
<1>3. Batch'
    BY <1>1 DEF CrashInv, Batch
<1> QED
    BY <1>1, <1>2, <1>3

-----------------------------------------------------------------------------
(* The fetch and the loop. *)

LEMMA BeginTickSafe ==
    ASSUME TypeOK, TypeOK', CrashInv, BeginTick
    PROVE  CrashInv'
<1> USE DEF BeginTick, disk, cache
<1>1. TickCursor' = TickCursor /\ Reach' = Reach /\ at = 0
    BY DEF TickCursor, CursorHeight, Reach, CrashInv, Placed
<1>2. Linked' /\ Clean' /\ Agree'
    BY <1>1, StoreSame DEF CrashInv, Agree
<1>3. Placed'
    BY <1>1, Constants, Numbers DEF Placed, Bounds, WindowEnd, TypeOK
<1>4. Batch'
    BY <1>1, Constants, Numbers DEF CrashInv, Batch, TypeOK
<1> QED
    BY <1>2, <1>3, <1>4 DEF CrashInv

LEMMA FetchHashSafe ==
    ASSUME TypeOK, TypeOK', CrashInv, NEW h \in Heights, FetchHash(h)
    PROVE  CrashInv'
<1> USE DEF FetchHash, disk, cache
<1>1. TickCursor' = TickCursor /\ Reach' = Reach
    BY DEF TickCursor, CursorHeight, Reach
<1>2. Linked' /\ Clean' /\ Agree'
    BY <1>1, StoreSame DEF CrashInv, Agree
<1>3. Placed' /\ Batch'
    BY <1>1 DEF CrashInv, Placed, Bounds, Batch
<1> QED
    BY <1>2, <1>3 DEF CrashInv

\* What the gate compares with is the stored block, wherever one is stored.
LEMMA FetchWiresSafe ==
    ASSUME TypeOK, TypeOK', CrashInv, FetchWires
    PROVE  CrashInv'
<1> USE DEF FetchWires, disk, fetch
<1>1. /\ TickCursor' = TickCursor /\ Reach' = Reach /\ Reach = cur /\ cur \in Heights
      /\ at = 0 /\ cur < last
    BY DEF TickCursor, CursorHeight, Reach, CrashInv, Placed, Bounds, TypeOK
<1>2. Linked' /\ Clean'
    BY <1>1, StoreSame DEF CrashInv
<1>3. diskBlocks[cur] # NoBlock => BlockAt(cur) = diskBlocks[cur] /\ cur # 0
    BY <1>1, Constants DEF BlockAt, CrashInv, Agree, Clean
<1>4. diskBlocks[cur] \in {NoBlock, prev'}
    BY <1>3 DEF PrevHash
<1>5. Agree'
    <2>1. \A h \in Heights : cacheBlocks'[h] = IF h = cur /\ cur # 0 THEN BlockAt(cur)
                                               ELSE cacheBlocks[h]
        BY <1>1 DEF TypeOK
    <2> QED
        BY <1>1, <1>3, <2>1 DEF CrashInv, Agree
<1>6. Placed'
    BY <1>1, Constants DEF CrashInv, Placed, Bounds, TypeOK
<1>7. Batch'
    BY <1>1, <1>4, Constants DEF CrashInv, Batch, TypeOK
<1> QED
    BY <1>2, <1>5, <1>6, <1>7 DEF CrashInv

LEMMA HaltSafe ==
    ASSUME TypeOK, TypeOK', CrashInv, NEW w \in Wire, Halt(w)
    PROVE  CrashInv'
<1> USE DEF Halt, disk, cache
<1>1. CASE at <= cur + 1
    BY <1>1, EndTickQuiet DEF AfterLoop
<1>2. CASE cur + 1 < at
    <2>1. TickCursor' = TickCursor
        BY DEF TickCursor, CursorHeight
    <2>2. Placed' /\ Batch' /\ pc' = "insert"
        BY <1>2, <2>1, LoopExit
    <2>3. Reach' = Reach
        BY <2>1, <2>2 DEF Reach
    <2>4. Linked' /\ Clean' /\ Agree'
        BY <2>1, <2>2, <2>3, StoreSame DEF CrashInv, Agree
    <2> QED
        BY <2>2, <2>4 DEF CrashInv
<1> QED
    BY <1>1, <1>2, Constants DEF TypeOK

LEMMA AcceptSafe ==
    ASSUME TypeOK, TypeOK', CrashInv, NEW w \in Wire, Accept(w)
    PROVE  CrashInv'
<1> USE DEF Accept, disk, cache, fetch
<1>1. /\ w.base \in Block /\ w.base # NoBlock
      /\ prev # NoBlock => Prev[w.base] = prev
      /\ cur < at /\ at <= last /\ at \in Heights
    BY Constants DEF Wire, LinkageGate, CrashInv, Placed, Bounds, TypeOK
<1>2. TickCursor' = TickCursor /\ Reach' = Reach
    BY DEF TickCursor, CursorHeight, Reach
<1>3. Linked' /\ Clean' /\ Agree'
    BY <1>2, StoreSame DEF CrashInv, Agree
<1>4. Placed'
    BY <1>1, <1>2, Constants DEF CrashInv, Placed, Bounds, TypeOK
<1>5. Batch'
    <2>1. \A h \in Heights : pending'[h] = IF h = at THEN w.base ELSE pending[h]
        BY DEF TypeOK
    <2>2. \A h \in Heights : pending'[h] # NoBlock <=> cur < h /\ h < at'
        BY <1>1, <2>1, Constants DEF CrashInv, Batch, TypeOK
    <2>3. at # cur + 1 => prev # NoBlock /\ prev = pending[at - 1]
        BY <1>1, Constants DEF CrashInv, Batch, TypeOK
    <2>4. ASSUME NEW h \in Heights, cur + 1 < h, h < at'
          PROVE  Prev[pending'[h]] = pending'[h - 1]
        <3>1. h - 1 \in Heights /\ h - 1 # at
            BY <1>1, <2>4, Constants DEF TypeOK
        <3>2. CASE h = at
            <4>1. prev # NoBlock /\ prev = pending[h - 1]
                BY <2>3, <2>4, <3>2, Constants DEF TypeOK
            <4> QED
                BY <1>1, <2>1, <3>1, <3>2, <4>1
        <3>3. CASE h # at
            <4>1. h < at
                BY <2>4, <3>3, Constants DEF TypeOK
            <4>2. Prev[pending[h]] = pending[h - 1]
                BY <2>4, <4>1 DEF CrashInv, Batch
            <4> QED
                BY <2>1, <3>1, <3>3, <4>2
        <3> QED
            BY <3>2, <3>3
    <2>5. ASSUME diskBlocks[cur] # NoBlock
          PROVE  Prev[pending'[cur + 1]] = diskBlocks[cur]
        <3>1. cur + 1 \in Heights
            BY <1>1, Constants DEF TypeOK
        <3>2. CASE at = cur + 1
            BY <1>1, <2>1, <2>5, <3>1, <3>2 DEF CrashInv, Batch
        <3>3. CASE at # cur + 1
            <4>1. cur + 1 < at
                BY <1>1, <3>3, Constants DEF TypeOK
            <4> QED
                BY <2>1, <2>5, <3>1, <3>3, <4>1 DEF CrashInv, Batch
        <3> QED
            BY <3>2, <3>3
    <2>6. prev' = pending'[at' - 1] /\ at' # cur + 1
        BY <1>1, <2>1, Constants DEF TypeOK
    <2> QED
        BY <2>2, <2>4, <2>5, <2>6 DEF Batch
<1> QED
    BY <1>3, <1>4, <1>5 DEF CrashInv

LEMMA LinkageBrokenSafe ==
    ASSUME TypeOK, TypeOK', CrashInv, NEW w \in Wire, LinkageBroken(w)
    PROVE  CrashInv'
<1> USE DEF LinkageBroken, disk, cache, locals
<1>1. TickCursor' = TickCursor /\ Reach' = Reach
    BY DEF TickCursor, CursorHeight, Reach
<1>2. Linked' /\ Clean' /\ Agree'
    BY <1>1, StoreSame DEF CrashInv, Agree
<1>3. Placed' /\ Batch'
    BY <1>1 DEF CrashInv, Placed, Bounds, Batch
<1> QED
    BY <1>2, <1>3 DEF CrashInv

-----------------------------------------------------------------------------
(* rollback_from. *)

LEMMA CutHeight ==
    ASSUME TypeOK, CrashInv, pc \in {"rollback", "rollback_cache"}
    PROVE  /\ RollbackHeight(at) = at - 1 /\ at - 1 \in Heights
           /\ TickCursor = cur /\ Reach = cur /\ cur \in Heights /\ cur < at
BY Constants DEF RollbackHeight, CrashInv, Placed, Bounds, Reach, TypeOK

\* Taking blocks away unlinks nothing.
LEMMA StillLinked ==
    ASSUME TypeOK, NEW n \in Int, LinkedTo(n),
           \A h \in Heights : diskBlocks'[h] \in {NoBlock, diskBlocks[h]}
    PROVE  \A h \in Heights :
               h > 0 /\ h <= n /\ diskBlocks'[h] # NoBlock /\ diskBlocks'[h - 1] # NoBlock
                   => Prev[diskBlocks'[h]] = diskBlocks'[h - 1]
<1> SUFFICES ASSUME NEW h \in Heights, h > 0, h <= n, diskBlocks'[h] # NoBlock,
                    diskBlocks'[h - 1] # NoBlock
             PROVE  Prev[diskBlocks'[h]] = diskBlocks'[h - 1]
    OBVIOUS
<1>1. h - 1 \in Heights
    BY Numbers
<1>2. diskBlocks'[h] = diskBlocks[h] /\ diskBlocks'[h - 1] = diskBlocks[h - 1]
    BY <1>1
<1> QED
    BY <1>1, <1>2 DEF LinkedTo

LEMMA RollbackCommitSafe ==
    ASSUME TypeOK, TypeOK', CrashInv, RollbackCommit
    PROVE  CrashInv'
<1> USE DEF RollbackCommit, cache, locals
<1>1. /\ RollbackHeight(at) = at - 1 /\ at - 1 \in Heights
      /\ TickCursor = cur /\ Reach = cur /\ cur \in Heights /\ cur < at
    BY CutHeight
<1>2. \A h \in Heights : diskBlocks'[h] = IF h >= at - 1 THEN NoBlock ELSE diskBlocks[h]
    BY <1>1 DEF RemoveFrom
<1>3. TickCursor' = TickCursor /\ Reach' = Reach /\ Restart' = Restart
    BY DEF TickCursor, CursorHeight, Reach, Restart
<1>4. Reach \in Int /\ Restart \in Int
    BY Numbers, Constants
<1>5. Linked'
    <2>1. \A h \in Heights : diskBlocks'[h] \in {NoBlock, diskBlocks[h]}
        BY <1>2
    <2>2. LinkedTo(Reach) /\ LinkedTo(Restart)
        BY DEF CrashInv, Linked
    <2> QED
        BY <1>3, <1>4, <2>1, <2>2, StillLinked DEF Linked, LinkedTo
<1>6. Clean'
    <2>1. 0 \in Heights
        BY Constants
    <2> QED
        BY <1>1, <1>2, <1>3, <2>1 DEF CrashInv, Clean, RollbackHeight
<1>7. Agree'
    BY <1>2, <1>3 DEF CrashInv, Agree
<1>8. Placed'
    BY <1>3 DEF CrashInv, Placed, Bounds
<1>9. Batch'
    BY <1>1, <1>2 DEF CrashInv, Batch
<1> QED
    BY <1>5, <1>6, <1>7, <1>8, <1>9 DEF CrashInv

LEMMA RollbackCacheSafe ==
    ASSUME TypeOK, TypeOK', CrashInv, RollbackCache
    PROVE  CrashInv'
<1> USE DEF RollbackCache, disk
<1>1. /\ RollbackHeight(at) = at - 1 /\ at - 1 \in Heights
      /\ TickCursor = cur /\ Reach = cur /\ cur \in Heights /\ cur < at
    BY CutHeight
<1>2. \A h \in Heights : cacheBlocks'[h] = IF h >= at - 1 THEN NoBlock ELSE cacheBlocks[h]
    BY <1>1 DEF RemoveFrom
<1>3. \A h \in Heights : h >= at - 1 => diskBlocks[h] = NoBlock
    BY <1>1 DEF CrashInv, Clean
<1>4. CASE CursorHeight # NoHeight /\ CursorHeight >= at - 1
    <2>1. /\ cacheCursor' = CursorBelow(at - 1) /\ pc' = "rollback_cursor" /\ UNCHANGED locals
        BY <1>1, <1>4
    <2>2. CursorHeight = cur /\ at = cur + 1
        BY <1>1, <1>4, Constants DEF TickCursor, TypeOK
    <2>3. TickCursor' = CursorBelow(cur) /\ Reach' = CursorBelow(cur) /\ cacheCursor' # NoHeight
        <3>1. cacheCursor' = CursorBelow(cur)
            BY <1>1, <2>1, <2>2, Constants
        <3>2. CursorBelow(cur) \in Heights
            BY <1>1, Constants DEF CursorBelow
        <3>3. cacheCursor' # NoHeight
            BY <3>1, <3>2, Constants DEF NoHeight
        <3> QED
            BY <2>1, <3>1, <3>3 DEF TickCursor, CursorHeight, Reach
    <2>4. /\ CursorBelow(cur) \in Int /\ CursorBelow(cur) <= cur
          /\ \A h \in Heights : h > CursorBelow(cur) => h >= cur
        BY <1>1, Constants DEF CursorBelow
    <2>5. Linked'
        <3>1. Restart' = Restart
            BY DEF Restart
        <3>2. LinkedTo(cur) /\ LinkedTo(Restart)
            BY <1>1 DEF CrashInv, Linked
        <3>3. \A h \in Heights : h <= CursorBelow(cur) => h <= cur
            BY <1>1, <2>4, Constants
        <3> QED
            BY <2>3, <3>1, <3>2, <3>3 DEF Linked, LinkedTo
    <2>6. Clean'
        <3>1. \A h \in Heights : h > Reach' => diskBlocks'[h] = NoBlock
            BY <1>1, <1>3, <2>2, <2>3, <2>4, Constants
        <3> QED
            BY <2>1, <2>3, <3>1 DEF CrashInv, Clean
    <2>7. Agree'
        <3>1. \A h \in Heights : h <= CursorBelow(cur) => h <= Reach
            BY <1>1, <2>4, Constants
        <3> QED
            BY <1>2, <2>1, <2>3, <3>1 DEF CrashInv, Agree
    <2>8. Placed'
        BY <2>1, <2>2 DEF CrashInv, Placed, Bounds, locals
    <2>9. Batch'
        BY <2>1 DEF CrashInv, Batch, locals
    <2> QED
        BY <2>5, <2>6, <2>7, <2>8, <2>9 DEF CrashInv
<1>5. CASE ~ (CursorHeight # NoHeight /\ CursorHeight >= at - 1)
    <2>1. AfterLoop(at) /\ cacheCursor' = CursorHeight
        BY <1>1, <1>5
    <2>2. TickCursor' = TickCursor
        BY <2>1 DEF TickCursor, CursorHeight
    <2>3. pc' # "cursor" /\ pc' # "insert_commit" /\ pc' # "rollback_cache"
        BY <2>1 DEF AfterLoop, EndTick
    <2>4. Reach' = Reach
        BY <1>1, <2>2, <2>3 DEF Reach
    <2>5. cacheCursor' = NoHeight => cacheCursor = NoHeight
        BY <2>1 DEF CursorHeight
    <2>6. Linked' /\ Clean'
        BY <2>2, <2>3, <2>4, <2>5, StoreSame DEF CrashInv
    <2>7. Agree'
        BY <1>2, <2>3, <2>4 DEF CrashInv, Agree
    <2>8. Placed' /\ Batch'
        <3>1. CASE at <= cur + 1
            BY <2>1, <3>1, EndTickPlaced DEF AfterLoop
        <3>2. CASE cur + 1 < at
            BY <2>1, <2>2, <3>2, LoopExit
        <3> QED
            BY <1>1, <3>1, <3>2, Constants DEF TypeOK
    <2> QED
        BY <2>6, <2>7, <2>8 DEF CrashInv
<1> QED
    BY <1>4, <1>5

\* The cursor row catches up with the cursor in memory.
LEMMA RowWritten ==
    ASSUME TypeOK, CrashInv, diskBlocks' = diskBlocks, diskCursor' = cacheCursor,
           cacheCursor' = cacheCursor, pc # "cursor", pc' \notin {"cursor", "rollback_cache"}
    PROVE  Linked' /\ Clean' /\ TickCursor' = TickCursor /\ Reach' = Reach
<1>1. TickCursor' = TickCursor
    BY DEF TickCursor, CursorHeight, CrashInv, Clean
<1>2. Reach' = Reach /\ Reach = TickCursor
    BY <1>1 DEF Reach
<1>3. Restart' = TickCursor
    BY DEF Restart, TickCursor, CursorHeight, CrashInv, Clean
<1>4. Linked'
    BY <1>2, <1>3 DEF CrashInv, Linked, LinkedTo
<1>5. Clean'
    <2>1. ~ (Restart' > TickCursor')
        BY <1>1, <1>3, Numbers, Constants
    <2> QED
        BY <2>1 DEF CrashInv, Clean
<1> QED
    BY <1>1, <1>2, <1>4, <1>5

LEMMA RollbackCursorSafe ==
    ASSUME TypeOK, TypeOK', CrashInv, RollbackCursor
    PROVE  CrashInv'
<1> USE DEF RollbackCursor, cache
<1>1. EndTick
    BY Constants DEF AfterLoop, CrashInv, Placed, TypeOK
<1>2. Placed' /\ Batch' /\ pc' = "idle"
    BY <1>1, EndTickPlaced
<1>3. Linked' /\ Clean' /\ Reach' = Reach
    BY <1>2, RowWritten
<1>4. Agree'
    BY <1>2, <1>3 DEF CrashInv, Agree
<1> QED
    BY <1>2, <1>3, <1>4 DEF CrashInv

-----------------------------------------------------------------------------
(* insert_blocks, set_cursor_height and prune_before. *)

LEMMA InsertCacheSafe ==
    ASSUME TypeOK, TypeOK', CrashInv, InsertCache
    PROVE  CrashInv'
<1> USE DEF InsertCache, disk, locals
<1>1. /\ TickCursor' = TickCursor /\ Reach' = Reach /\ Reach = cur
    BY DEF TickCursor, CursorHeight, Reach, CrashInv, Placed
<1>2. \A h \in Heights :
        cacheBlocks'[h] = IF cur < h /\ h < at THEN pending[h] ELSE cacheBlocks[h]
    BY DEF Overlay, CrashInv, Batch
<1>3. Linked' /\ Clean'
    BY <1>1, StoreSame DEF CrashInv
<1>4. Agree'
    BY <1>1, <1>2, Constants DEF CrashInv, Agree, TypeOK
<1>5. Placed' /\ Batch'
    BY <1>1 DEF CrashInv, Placed, Bounds, Batch
<1> QED
    BY <1>3, <1>4, <1>5 DEF CrashInv

\* Blocks a dead tick left above the cursor may stay above the batch; if the
\* row on disk is above them too, there were none.
LEMMA InsertCommitSafe ==
    ASSUME TypeOK, TypeOK', CrashInv, InsertCommit
    PROVE  CrashInv'
<1> USE DEF InsertCommit, cache, locals
<1>1. /\ TickCursor' = TickCursor /\ TickCursor = cur /\ Reach = cur /\ Reach' = at - 1
      /\ cur \in Heights /\ cur + 1 < at /\ at - 1 \in Heights /\ Restart' = Restart
    BY Constants DEF TickCursor, CursorHeight, Reach, LastPending, CrashInv, Placed, Bounds,
                     TypeOK, Restart
<1>2. \A h \in Heights :
        diskBlocks'[h] = IF cur < h /\ h < at THEN pending[h] ELSE diskBlocks[h]
    BY DEF Overlay, CrashInv, Batch
<1>3. ASSUME NEW h \in Heights, h > 0, h < at, diskBlocks'[h] # NoBlock,
             diskBlocks'[h - 1] # NoBlock
      PROVE  Prev[diskBlocks'[h]] = diskBlocks'[h - 1]
    <2>1. h - 1 \in Heights
        BY <1>3, Constants
    <2>2. CASE h <= cur
        <3>1. diskBlocks'[h] = diskBlocks[h] /\ diskBlocks'[h - 1] = diskBlocks[h - 1]
            BY <1>1, <1>2, <2>1, <2>2, Constants
        <3> QED
            BY <1>1, <1>3, <2>2, <3>1 DEF CrashInv, Linked, LinkedTo
    <2>3. CASE h = cur + 1
        <3>1. diskBlocks'[h] = pending[h] /\ diskBlocks'[h - 1] = diskBlocks[cur]
            BY <1>1, <1>2, <1>3, <2>1, <2>3, Constants
        <3> QED
            BY <1>1, <1>3, <2>3, <3>1 DEF CrashInv, Batch
    <2>4. CASE h > cur + 1
        <3>1. diskBlocks'[h] = pending[h] /\ diskBlocks'[h - 1] = pending[h - 1]
            BY <1>1, <1>2, <1>3, <2>1, <2>4, Constants DEF TypeOK
        <3>2. Prev[pending[h]] = pending[h - 1]
            BY <1>3, <2>4 DEF CrashInv, Batch
        <3> QED
            BY <3>1, <3>2
    <2> QED
        BY <1>1, <2>2, <2>3, <2>4, Constants
<1>4. LinkedTo(Reach)'
    <2>1. \A h \in Heights : h <= at - 1 => h < at
        BY Constants DEF TypeOK
    <2> QED
        BY <1>1, <1>3, <2>1 DEF LinkedTo
<1>5. Restart > cur => \A h \in Heights : h > at - 1 => diskBlocks'[h] = NoBlock
    <2> SUFFICES ASSUME Restart > cur, NEW h \in Heights, h > at - 1
                 PROVE  diskBlocks'[h] = NoBlock
        OBVIOUS
    <2>1. h > cur /\ ~ (h < at)
        BY <1>1, Constants DEF TypeOK
    <2> QED
        BY <1>1, <1>2, <2>1 DEF CrashInv, Clean
<1>6. LinkedTo(Restart)'
    <2> SUFFICES ASSUME NEW h \in Heights, h > 0, h <= Restart, diskBlocks'[h] # NoBlock,
                        diskBlocks'[h - 1] # NoBlock
                 PROVE  Prev[diskBlocks'[h]] = diskBlocks'[h - 1]
        BY <1>1 DEF LinkedTo
    <2>1. CASE h < at
        BY <1>3, <2>1
    <2>2. CASE ~ (h < at)
        <3>1. Restart > cur /\ h > at - 1
            BY <1>1, <2>2, Numbers, Constants DEF TypeOK
        <3> QED
            BY <1>5, <3>1
    <2> QED
        BY <2>1, <2>2
<1>7. Clean'
    <2>1. 0 \in Heights /\ ~ (cur < 0)
        BY <1>1, Constants
    <2> QED
        BY <1>1, <1>2, <1>5, <2>1 DEF CrashInv, Clean
<1>8. Agree'
    <2>1. \A h \in Heights : h <= at - 1 => h <= cur \/ (cur < h /\ h < at)
        BY <1>1, Constants DEF TypeOK
    <2> QED
        BY <1>1, <1>2, <2>1 DEF CrashInv, Agree
<1>9. Placed' /\ Batch'
    BY <1>1 DEF CrashInv, Placed, Bounds, Batch
<1> QED
    BY <1>4, <1>6, <1>7, <1>8, <1>9 DEF CrashInv, Linked

LEMMA SetCursorSafe ==
    ASSUME TypeOK, TypeOK', CrashInv, SetCursor
    PROVE  CrashInv'
<1> USE DEF SetCursor, disk, locals
<1>1. LastPending \in Heights /\ LastPending' = LastPending /\ TickCursor = cur
      /\ cur < LastPending /\ Reach = LastPending
    BY Constants DEF LastPending, CrashInv, Placed, Bounds, TypeOK, Reach
<1>2. /\ TickCursor' = LastPending /\ Reach' = Reach /\ cacheCursor' # NoHeight
      /\ Restart' = Restart
    BY <1>1, Constants DEF TickCursor, CursorHeight, NoHeight, Reach, Restart
<1>3. Linked'
    BY <1>2 DEF CrashInv, Linked, LinkedTo
<1>4. Clean'
    <2>1. Restart' > TickCursor' => Restart > TickCursor
        BY <1>1, <1>2, Numbers, Constants
    <2> QED
        BY <1>2, <2>1 DEF CrashInv, Clean
<1>5. Agree'
    BY <1>2 DEF CrashInv, Agree
<1>6. Placed' /\ Batch'
    BY DEF CrashInv, Placed, Bounds, Batch
<1> QED
    BY <1>3, <1>4, <1>5, <1>6 DEF CrashInv

LEMMA CommitCursorSafe ==
    ASSUME TypeOK, TypeOK', CrashInv, CommitCursor
    PROVE  CrashInv'
<1> USE DEF CommitCursor, cache
<1>1. pc' \in {"prune", "idle"}
    BY DEF EndTick
<1>2. Linked' /\ Clean' /\ Reach' = Reach
    BY <1>1, RowWritten
<1>3. Agree'
    BY <1>1, <1>2 DEF CrashInv, Agree
<1>4. Placed' /\ Batch'
    <2>1. CASE PruneDue
        BY <2>1 DEF CrashInv, Placed, Bounds, Batch, locals
    <2>2. CASE ~ PruneDue
        BY <2>2, EndTickPlaced
    <2> QED
        BY <2>1, <2>2
<1> QED
    BY <1>2, <1>3, <1>4 DEF CrashInv

LEMMA PruneCommitSafe ==
    ASSUME TypeOK, TypeOK', CrashInv, PruneCommit
    PROVE  CrashInv'
<1> USE DEF PruneCommit, cache, locals
<1>1. \A h \in Heights : diskBlocks'[h] \in {NoBlock, diskBlocks[h]}
    BY DEF RemoveBelow
<1>2. TickCursor' = TickCursor /\ Reach' = Reach /\ Restart' = Restart
    BY DEF TickCursor, CursorHeight, Reach, Restart
<1>3. Reach \in Int /\ Restart \in Int
    BY Numbers, Constants
<1>4. Linked'
    <2>1. LinkedTo(Reach) /\ LinkedTo(Restart)
        BY DEF CrashInv, Linked
    <2> QED
        BY <1>1, <1>2, <1>3, <2>1, StillLinked DEF Linked, LinkedTo
<1>5. Clean'
    <2>1. 0 \in Heights
        BY Constants
    <2> QED
        BY <1>1, <1>2, <2>1 DEF CrashInv, Clean
<1>6. Agree'
    BY <1>1, <1>2 DEF CrashInv, Agree
<1>7. Placed' /\ Batch'
    BY DEF CrashInv, Placed, Bounds, Batch
<1> QED
    BY <1>4, <1>5, <1>6, <1>7 DEF CrashInv

LEMMA PruneCacheSafe ==
    ASSUME TypeOK, TypeOK', CrashInv, PruneCache
    PROVE  CrashInv'
<1> USE DEF PruneCache, disk
<1>1. Placed' /\ Batch' /\ pc' = "idle"
    BY EndTickPlaced
<1>2. TickCursor' = TickCursor /\ Reach' = Reach
    BY <1>1 DEF TickCursor, CursorHeight, Reach
<1>3. Linked' /\ Clean'
    BY <1>1, <1>2, StoreSame DEF CrashInv
<1>4. \A h \in Heights : cacheBlocks'[h] \in {NoBlock, cacheBlocks[h]}
    BY DEF RemoveBelow
<1>5. Agree'
    BY <1>1, <1>2, <1>4 DEF CrashInv, Agree
<1> QED
    BY <1>1, <1>3, <1>5 DEF CrashInv

-----------------------------------------------------------------------------
(* The restart, and the theorems. *)

\* A restart keeps the tables and moves the cursor to the row on disk.
LEMMA CrashSafe ==
    ASSUME TypeOK, TypeOK', CrashInv, Crash
    PROVE  CrashInv'
<1> USE DEF Crash, disk
<1>1. Placed' /\ Batch' /\ pc' = "idle"
    BY EndTickPlaced
<1>2. TickCursor' = Restart /\ Reach' = Restart /\ Restart' = Restart
    BY <1>1 DEF TickCursor, CursorHeight, Reach, Restart
<1>3. Linked'
    BY <1>2 DEF CrashInv, Linked, LinkedTo
<1>4. Clean'
    <2>1. ~ (Restart' > TickCursor')
        BY <1>2, Numbers, Constants
    <2> QED
        BY <1>1, <2>1 DEF CrashInv, Clean
<1>5. Agree'
    BY <1>1 DEF Agree
<1> QED
    BY <1>1, <1>3, <1>4, <1>5 DEF CrashInv

LEMMA CrashType ==
    ASSUME TypeOK, Bounds, [Next \/ Crash]_vars
    PROVE  TypeOK' /\ Bounds'
<1>1. CASE Crash
    BY <1>1, EndTickType DEF Crash, EndTick, TypeOK, Bounds, disk
<1> QED
    BY <1>1, TypeStep

\* Every step, and a restart, preserves the invariant.
LEMMA CrashStep ==
    ASSUME TypeOK, TypeOK', CrashInv, [Next \/ Crash]_vars
    PROVE  CrashInv'
<1>1. CASE UNCHANGED vars \/ UpToDate \/ \E c \in Chain : Reorg(c)
    <2>1. UNCHANGED <<diskBlocks, diskCursor, cacheBlocks, cacheCursor, pc, cur, last,
                      locators, at, prev, pending>>
        BY <1>1 DEF UpToDate, Reorg, vars, disk, cache, locals
    <2>2. TickCursor' = TickCursor /\ Reach' = Reach /\ Restart' = Restart
        BY <2>1 DEF TickCursor, CursorHeight, Reach, LastPending, Restart
    <2> QED
        BY <2>1, <2>2 DEF CrashInv, Linked, LinkedTo, Clean, Agree, Placed, Bounds, Batch
<1>2. CASE Fetch
    BY <1>2, BeginTickSafe, FetchHashSafe, FetchWiresSafe DEF Fetch
<1>3. CASE Verify
    BY <1>3, HaltSafe, AcceptSafe, LinkageBrokenSafe DEF Verify
<1>4. CASE Rollback
    BY <1>4, RollbackCommitSafe, RollbackCacheSafe, RollbackCursorSafe DEF Rollback
<1>5. CASE Store
    BY <1>5, InsertCacheSafe, InsertCommitSafe, SetCursorSafe, CommitCursorSafe,
       PruneCommitSafe, PruneCacheSafe DEF Store
<1>6. CASE FetchFails \/ CommitFails
    BY <1>6, EndTickQuiet DEF FetchFails, CommitFails
<1> QED
    BY <1>1, <1>2, <1>3, <1>4, <1>5, <1>6, CrashSafe DEF Next

\* Heights, cursors, tables and locals stay in range through restarts too.
THEOREM RestartTypes == CrashSpec => []TypeOK
<1>1. Init => TypeOK /\ Bounds
    BY InitType DEF Init, Bounds
<1>2. TypeOK /\ Bounds /\ [Next \/ Crash]_vars => (TypeOK /\ Bounds)'
    BY CrashType
<1> QED
    BY <1>1, <1>2, PTL DEF CrashSpec

(***************************************************************************)
(* However often the process is killed, and at whatever step, no two       *)
(* adjacent stored blocks up to the cursor are unlinked: a block left over *)
(* by a dead tick is overwritten before the cursor passes it.              *)
(***************************************************************************)
THEOREM RestartTheorem == CrashSpec => []LinkedUpToCursor
<1>1. Init => CrashInv
    <2> SUFFICES ASSUME Init PROVE CrashInv
        OBVIOUS
    <2> USE DEF Init, NoBlocks
    <2>1. Linked /\ Clean
        BY Constants DEF Linked, LinkedTo, Clean, Restart, TickCursor, CursorHeight
    <2>2. Agree /\ Placed /\ Batch
        BY Constants DEF Agree, Placed, Bounds, Batch
    <2> QED
        BY <2>1, <2>2 DEF CrashInv
<1>2. TypeOK /\ TypeOK' /\ CrashInv /\ [Next \/ Crash]_vars => CrashInv'
    BY CrashStep
<1>3. TypeOK /\ CrashInv => LinkedUpToCursor
    <2> SUFFICES ASSUME TypeOK, CrashInv PROVE LinkedUpToCursor
        OBVIOUS
    <2>1. TickCursor <= Reach
        BY Numbers, Constants DEF Reach, LastPending, CrashInv, Placed, Bounds, TypeOK
    <2>2. \A h \in Heights : h <= TickCursor => h <= Reach
        BY <2>1, Numbers, Constants
    <2> QED
        BY <2>2 DEF CrashInv, Linked, LinkedTo, LinkedUpToCursor
<1> QED
    BY <1>1, <1>2, <1>3, RestartTypes, PTL DEF CrashSpec
=============================================================================
