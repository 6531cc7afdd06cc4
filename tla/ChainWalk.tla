----------------------------- MODULE ChainWalk -----------------------------
(***************************************************************************)
(* The ingest task of one aux chain: `ingest_chain` walks the stored       *)
(* cursor toward the node's tip, gates every header, and writes the        *)
(* survivors through the two-level store of `Database` (an L1 cache in     *)
(* memory over redb tables on disk).                                       *)
(*                                                                         *)
(* A step of the model ends where the code awaits the network or commits a *)
(* redb transaction, so a reorg of the node, a failed request, a failed    *)
(* commit or a killed process can come between any two of them.            *)
(* What insert, rollback and prune do to parents and to the                *)
(* sibling index in the same transactions is the subject of SiblingStore;  *)
(* this module keeps their block tables, block cache and cursor.           *)
(***************************************************************************)
EXTENDS Integers

CONSTANTS
    Chain,        \* the branches the node may serve
    Tip,          \* Tip[c]: height of the tip of branch c
    BlockOf,      \* BlockOf[c][h]: hash of the block of c at height h
    Block,        \* block hashes
    NoBlock,      \* no block (an absent row, a None)
    Prev,         \* Prev[b]: prev_hash field of the header hashing to b
    MaxHeight,    \* bound on heights
    StartHeight,  \* start_height of a fresh database
    MaxBatch,     \* max_batch: blocks per tick
    MaxKept,      \* max_kept_blocks; 0 = unset, everything is kept
    Faults        \* the failures that may happen: a subset of Fault

Heights == 0 .. MaxHeight
Fault   == {"fetch", "wire", "disk"}
NoHeight == -1    \* no cursor recorded yet

ASSUME ChainAssumption ==
    /\ MaxHeight \in Nat
    /\ NoBlock \notin Block
    /\ Prev \in [Block -> Block \cup {NoBlock}]
    /\ Tip \in [Chain -> Heights]
    /\ BlockOf \in [Chain -> [Heights -> Block \cup {NoBlock}]]
    /\ \A c \in Chain : \A h \in 0 .. Tip[c] : BlockOf[c][h] \in Block

ASSUME ConfigAssumption ==
    /\ StartHeight \in Heights
    /\ MaxBatch \in Nat \ {0}
    /\ MaxKept \in Nat
    /\ Faults \subseteq Fault

VARIABLES
    node,         \* the branch the node serves now
    diskBlocks,   \* redb table aux_blocks
    diskCursor,   \* redb table meta, row "<chain>.cursor_height"
    cacheBlocks,  \* cache_blocks
    cacheCursor,  \* cache_meta, same row
    pc,           \* where the tick stands
    cur,          \* local: cursor read at the start of the tick
    last,         \* local: end of the window
    locators,     \* local: locator hash by height
    at,           \* local: height the verification loop is at
    prev,         \* local: prev_hash
    pending       \* local: verified blocks of the tick, by height

disk   == <<diskBlocks, diskCursor>>
cache  == <<cacheBlocks, cacheCursor>>
fetch  == <<cur, last, locators>>
locals == <<cur, last, locators, at, prev, pending>>
vars   == <<node, disk, cache, pc, locals>>

NoBlocks   == [h \in Heights |-> NoBlock]
MaybeBlock == Block \cup {NoBlock}

Pcs == {"idle", "hashes", "wires", "verify",
        "rollback", "rollback_cache", "rollback_cursor",
        "insert", "insert_commit", "cursor", "cursor_commit",
        "prune", "prune_cache"}

TypeOK ==
    /\ node \in Chain
    /\ diskBlocks \in [Heights -> MaybeBlock]
    /\ cacheBlocks \in [Heights -> MaybeBlock]
    /\ diskCursor \in Heights \cup {NoHeight}
    /\ cacheCursor \in Heights \cup {NoHeight}
    /\ pc \in Pcs
    /\ cur \in Heights /\ last \in Heights
    /\ locators \in [Heights -> MaybeBlock]
    /\ at \in 0 .. MaxHeight + 1
    /\ prev \in MaybeBlock
    /\ pending \in [Heights -> MaybeBlock]

Init ==
    /\ node \in Chain
    /\ diskBlocks = NoBlocks /\ cacheBlocks = NoBlocks
    /\ diskCursor = NoHeight /\ cacheCursor = NoHeight
    /\ pc = "idle"
    /\ cur = 0 /\ last = 0 /\ locators = NoBlocks
    /\ at = 0 /\ prev = NoBlock /\ pending = NoBlocks

-----------------------------------------------------------------------------
(* Helpers of the database and of the tick. *)

\* get_meta of the cursor row: the cache first, then the table.
CursorHeight == IF cacheCursor # NoHeight THEN cacheCursor ELSE diskCursor

\* The cursor a tick starts from; a fresh database starts at start_height.
TickCursor == IF CursorHeight # NoHeight THEN CursorHeight ELSE StartHeight

\* block_at: the cache first, then the table.
BlockAt(h) == IF cacheBlocks[h] # NoBlock THEN cacheBlocks[h] ELSE diskBlocks[h]

Window == (cur + 1) .. last

\* Heights collected so far; the loop collects from the window's start up.
PendingEmpty == at <= cur + 1
LastPending  == at - 1

MutRollbackHeight(h) == h
\* The stored block that disagrees with the header at height h is one below it.
RollbackHeight(h) == IF h = 0 THEN 0 ELSE h - 1

MutRemoveFrom(blocks, from) ==
    [h \in Heights |-> IF h > from THEN NoBlock ELSE blocks[h]]
RemoveFrom(blocks, from) ==
    [h \in Heights |-> IF h >= from THEN NoBlock ELSE blocks[h]]

\* Where rollback_from leaves the cursor.
CursorBelow(from) == IF from = 0 THEN 0 ELSE from - 1

RemoveBelow(blocks, below) ==
    [h \in Heights |-> IF h < below THEN NoBlock ELSE blocks[h]]

\* The rows of the batch written over what is stored.
Overlay(blocks) ==
    [h \in Heights |-> IF pending[h] # NoBlock THEN pending[h] ELSE blocks[h]]

MutPruneBelow == LastPending + 1
MutPruneBelowLate == IF LastPending > MaxKept THEN LastPending - MaxKept ELSE 0
\* First height the bounded window keeps.
PruneBelow == (IF LastPending > MaxKept THEN LastPending - MaxKept ELSE 0) + 1

\* Prune only once the window is exceeded; `stats` reads the cache.
PruneDue ==
    /\ MaxKept > 0
    /\ PruneBelow > 1
    /\ \E h \in Heights : h < PruneBelow /\ cacheBlocks[h] # NoBlock

ResetLocals ==
    /\ cur' = 0 /\ last' = 0 /\ locators' = NoBlocks
    /\ at' = 0 /\ prev' = NoBlock /\ pending' = NoBlocks

\* The tick ends, with or without an error, and its locals go.
EndTick == pc' = "idle" /\ ResetLocals

\* After the verification loop: store what was collected, if anything.
AfterLoop(h) ==
    IF h <= cur + 1
    THEN EndTick
    ELSE /\ pc' = "insert"
         /\ UNCHANGED <<fetch, prev, pending>>
         /\ at' = h

-----------------------------------------------------------------------------
(* The node. *)

\* The node switches to another branch, or the same branch grows.
Reorg(c) ==
    /\ c # node
    /\ node' = c
    /\ UNCHANGED <<disk, cache, pc, locals>>

-----------------------------------------------------------------------------
(* One tick of ingest_chain. *)

\* Tip and cursor leave nothing to fetch: the tick is over.
UpToDate ==
    /\ pc = "idle"
    /\ TickCursor >= Tip[node]
    /\ UNCHANGED vars

MutWindowEnd(c, t) == IF c + MaxBatch <= t THEN c + MaxBatch + 1 ELSE t
WindowEnd(c, t) == IF c + MaxBatch <= t THEN c + MaxBatch ELSE t

BeginTick ==
    /\ pc = "idle"
    /\ TickCursor < Tip[node]
    /\ pc' = "hashes"
    /\ cur' = TickCursor
    /\ last' = WindowEnd(TickCursor, Tip[node])
    /\ UNCHANGED <<node, disk, cache, locators, at, prev, pending>>

\* One of the concurrent block_hash_at answers, in any order.
FetchHash(h) ==
    /\ pc = "hashes"
    /\ h \in Window /\ locators[h] = NoBlock
    /\ h <= Tip[node]
    /\ locators' = [locators EXCEPT ![h] = BlockOf[node][h]]
    /\ pc' = IF \A k \in Window \ {h} : locators[k] # NoBlock
             THEN "wires" ELSE "hashes"
    /\ UNCHANGED <<node, disk, cache, cur, last, at, prev, pending>>

\* A request fails for good (its height is gone, or the node is unreachable):
\* the error propagates and the tick is retried after a backoff.
FetchFails ==
    /\ pc \in {"hashes", "wires"}
    /\ \/ "fetch" \in Faults
       \/ \E h \in Window : locators[h] = NoBlock /\ h > Tip[node]
    /\ EndTick
    /\ UNCHANGED <<node, disk, cache>>

MutPrevHash(c) == NoBlock
\* The hash the first header of the window must link to.
PrevHash(c) == IF c = 0 THEN NoBlock ELSE BlockAt(c)

\* All wires have arrived; block_at(cursor) fills the cache on a miss.
FetchWires ==
    /\ pc = "wires"
    /\ pc' = "verify"
    /\ at' = cur + 1
    /\ prev' = PrevHash(cur)
    /\ cacheBlocks' = IF cur = 0 THEN cacheBlocks
                      ELSE [cacheBlocks EXCEPT ![cur] = BlockAt(cur)]
    /\ UNCHANGED <<node, disk, cacheCursor, fetch, pending>>

(***************************************************************************)
(* The payload served for a locator.  `kind` is the first check it fails:  *)
(* shorter than 80 bytes, AuxPow bytes that do not parse, a header that    *)
(* light_verify refuses; `base` is the hash of its 80-byte header, which   *)
(* need not be the locator's.                                              *)
(***************************************************************************)
Wire == [kind : {"short", "unparsable", "unverified", "good"}, base : Block]

Wires(locator) ==
    IF "wire" \in Faults
    THEN Wire
    ELSE [kind : {"good"}, base : {locator}]

MutIntegrityGate(w, locator) == w.kind # "short"
IntegrityGate(w, locator) == w.kind # "short" /\ w.base = locator

ConsensusGate(w) == w.kind \notin {"unparsable", "unverified"}

MutLinkageGate(w) == at = cur + 1 /\ prev # NoBlock => Prev[w.base] = prev
LinkageGate(w) == prev # NoBlock => Prev[w.base] = prev

\* A bad payload halts the loop without touching the store.
Halt(w) ==
    /\ pc = "verify"
    /\ w \in Wires(locators[at])
    /\ ~ (IntegrityGate(w, locators[at]) /\ ConsensusGate(w))
    /\ AfterLoop(at)
    /\ UNCHANGED <<node, disk, cache>>

\* The header passes every gate and joins the batch.
Accept(w) ==
    /\ pc = "verify"
    /\ w \in Wires(locators[at])
    /\ IntegrityGate(w, locators[at]) /\ ConsensusGate(w) /\ LinkageGate(w)
    /\ prev' = w.base
    /\ pending' = [pending EXCEPT ![at] = w.base]
    /\ at' = at + 1
    /\ pc' = IF at = last THEN "insert" ELSE "verify"
    /\ UNCHANGED <<node, disk, cache, fetch>>

\* The header does not link to the block below: roll that block back.
LinkageBroken(w) ==
    /\ pc = "verify"
    /\ w \in Wires(locators[at])
    /\ IntegrityGate(w, locators[at]) /\ ConsensusGate(w) /\ ~ LinkageGate(w)
    /\ pc' = "rollback"
    /\ UNCHANGED <<node, disk, cache, locals>>

-----------------------------------------------------------------------------
(* rollback_from: blocks on disk, blocks in memory, then the cursor row. *)

RollbackCommit ==
    /\ pc = "rollback"
    /\ diskBlocks' = RemoveFrom(diskBlocks, RollbackHeight(at))
    /\ pc' = "rollback_cache"
    /\ UNCHANGED <<node, diskCursor, cache, locals>>

\* Memory, then set_meta's cache half if the cursor is at or above the cut.
RollbackCache ==
    LET from == RollbackHeight(at) IN
    /\ pc = "rollback_cache"
    /\ cacheBlocks' = RemoveFrom(cacheBlocks, from)
    /\ IF CursorHeight # NoHeight /\ CursorHeight >= from
       THEN /\ cacheCursor' = CursorBelow(from)
            /\ pc' = "rollback_cursor"
            /\ UNCHANGED locals
       ELSE AfterLoop(at) /\ cacheCursor' = CursorHeight
    /\ UNCHANGED <<node, disk>>

RollbackCursor ==
    /\ pc = "rollback_cursor"
    /\ diskCursor' = cacheCursor
    /\ AfterLoop(at)
    /\ UNCHANGED <<node, diskBlocks, cache>>

-----------------------------------------------------------------------------
(* insert_blocks, set_cursor_height and prune_before. *)

InsertCache ==
    /\ pc = "insert"
    /\ cacheBlocks' = Overlay(cacheBlocks)
    /\ pc' = "insert_commit"
    /\ UNCHANGED <<node, disk, cacheCursor, locals>>

InsertCommit ==
    /\ pc = "insert_commit"
    /\ diskBlocks' = Overlay(diskBlocks)
    /\ pc' = "cursor"
    /\ UNCHANGED <<node, diskCursor, cache, locals>>

SetCursor ==
    /\ pc = "cursor"
    /\ cacheCursor' = LastPending
    /\ pc' = "cursor_commit"
    /\ UNCHANGED <<node, disk, cacheBlocks, locals>>

CommitCursor ==
    /\ pc = "cursor_commit"
    /\ diskCursor' = cacheCursor
    /\ IF PruneDue
       THEN pc' = "prune" /\ UNCHANGED locals
       ELSE EndTick
    /\ UNCHANGED <<node, diskBlocks, cache>>

PruneCommit ==
    /\ pc = "prune"
    /\ diskBlocks' = RemoveBelow(diskBlocks, PruneBelow)
    /\ pc' = "prune_cache"
    /\ UNCHANGED <<node, diskCursor, cache, locals>>

PruneCache ==
    /\ pc = "prune_cache"
    /\ cacheBlocks' = RemoveBelow(cacheBlocks, PruneBelow)
    /\ EndTick
    /\ UNCHANGED <<node, disk, cacheCursor>>

\* A transaction fails: nothing of it is on disk, the error ends the tick,
\* and what was already written to memory stays there.
CommitFails ==
    /\ "disk" \in Faults
    /\ pc \in {"rollback", "rollback_cursor", "insert_commit",
               "cursor_commit", "prune"}
    /\ EndTick
    /\ UNCHANGED <<node, disk, cache>>

-----------------------------------------------------------------------------
(* The process dies and is restarted: warm_up_cache reloads the tables. *)

Crash ==
    /\ cacheBlocks' = diskBlocks
    /\ cacheCursor' = diskCursor
    /\ EndTick
    /\ UNCHANGED <<node, disk>>

-----------------------------------------------------------------------------

Fetch   == BeginTick \/ (\E h \in Heights : FetchHash(h)) \/ FetchWires
Verify  == \E w \in Wire : Halt(w) \/ Accept(w) \/ LinkageBroken(w)
Rollback == RollbackCommit \/ RollbackCache \/ RollbackCursor
Store   == InsertCache \/ InsertCommit \/ SetCursor \/ CommitCursor
               \/ PruneCommit \/ PruneCache

Next == UpToDate \/ Fetch \/ Verify \/ Rollback \/ Store \/ FetchFails \/ CommitFails \/ \E c \in Chain : Reorg(c)

\* The task alone, and with restarts at any point.
Spec      == Init /\ [][Next]_vars
CrashSpec == Init /\ [][Next \/ Crash]_vars

(***************************************************************************)
(* chain_loop never stops: while a tick can do something, it does.  A tick *)
(* that fails is retried after a bounded backoff, so nothing is assumed of *)
(* the failures themselves.                                                *)
(***************************************************************************)
Work == Fetch \/ Verify \/ Rollback \/ Store

FairSpec == Spec /\ WF_vars(Work)

-----------------------------------------------------------------------------
(* Properties. *)

HC == INSTANCE HeaderChain WITH chain <- diskBlocks

(***************************************************************************)
(* The table aux_blocks behaves as the abstract header chain: insert_blocks*)
(* only appends a linked batch on top, rollback_from only takes the top    *)
(* block, prune_before only drops from the bottom.                         *)
(***************************************************************************)
StoreIsHeaderChain == HC!Spec

(***************************************************************************)
(* README: each header's prev_hash equals the stored previous block.  Every*)
(* stored block but the lowest links to a stored block one below.          *)
(***************************************************************************)
StoredBlocksLinked == HC!Unbroken

(***************************************************************************)
(* Between ticks the stored run ends exactly at the cursor the next tick   *)
(* starts from (so the linkage gate has the block it needs), and the cache *)
(* and the table agree up to it, whatever requests and commits failed.     *)
(***************************************************************************)
CursorIsTop ==
    pc = "idle" =>
        /\ \A h \in Heights :
            diskBlocks[h] # NoBlock =>
                h <= TickCursor /\ diskBlocks[TickCursor] # NoBlock
        /\ \A h \in Heights :
            h <= TickCursor => cacheBlocks[h] = diskBlocks[h]

(***************************************************************************)
(* rollback_from deletes a stored block only when the header whose hash the*)
(* node gave for the next height names another predecessor: a payload that *)
(* does not match its locator never costs honest history.                  *)
(***************************************************************************)
RollbackOnlyOnConflict ==
    [][\A h \in Heights :
        pc = "rollback" /\ diskBlocks[h] # NoBlock /\ diskBlocks'[h] = NoBlock =>
            locators[h + 1] # NoBlock /\ Prev[locators[h + 1]] # diskBlocks[h]]_vars

(***************************************************************************)
(* The bounded window: a tick that stored a batch and ran to its end leaves*)
(* no two stored heights max_kept_blocks or more apart, whatever rollbacks *)
(* and failed prunes came before.                                          *)
(***************************************************************************)
TickCompletes == PruneCache \/ (CommitCursor /\ pc' = "idle")

WindowBounded ==
    [][TickCompletes /\ MaxKept > 0 =>
        \A h, k \in Heights :
            diskBlocks'[h] # NoBlock /\ diskBlocks'[k] # NoBlock =>
                h - k < MaxKept]_vars

(***************************************************************************)
(* Restarts at any point: up to the cursor, two adjacent stored blocks are *)
(* always linked (blocks a dead tick left above the cursor may not be).    *)
(***************************************************************************)
LinkedUpToCursor ==
    \A h \in Heights :
        h > 0 /\ h <= TickCursor /\ diskBlocks[h] # NoBlock /\ diskBlocks[h - 1] # NoBlock
            => Prev[diskBlocks[h]] = diskBlocks[h - 1]

(***************************************************************************)
(* The inductive invariant behind the properties above.  Top is the height *)
(* the stored run of blocks must end at; it differs from the cursor only   *)
(* between the block transaction of an insert or a rollback and the cursor *)
(* write that follows it.                                                  *)
(***************************************************************************)
Top == IF pc = "cursor" THEN LastPending
       ELSE IF pc = "rollback_cache" /\ PendingEmpty THEN cur - 1
       ELSE TickCursor

\* The stored heights are an interval that ends at Top, and hash-linked.
DiskRun ==
    /\ \A k \in Heights :
        diskBlocks[k] # NoBlock =>
            /\ 0 < k /\ k <= Top
            /\ \A h \in k .. Top : diskBlocks[h] # NoBlock
    /\ \A h \in Heights \ {0} :
        diskBlocks[h] # NoBlock /\ diskBlocks[h - 1] # NoBlock =>
            Prev[diskBlocks[h]] = diskBlocks[h - 1]

\* The cache agrees with the table up to Top, but for rows being pruned, and
\* is ahead of it by the batch being inserted.
CacheAgrees ==
    /\ \A h \in Heights :
        h <= Top /\ (pc = "prune_cache" => h >= PruneBelow) =>
            cacheBlocks[h] = diskBlocks[h]
    /\ pc = "prune_cache" =>
        \A h \in Heights : h < PruneBelow => diskBlocks[h] = NoBlock
    /\ pc = "insert_commit" =>
        \A h \in Heights : cur < h /\ h < at => cacheBlocks[h] = pending[h]

\* No cursor row means no blocks; set_meta writes the cache half first.
FreshEmpty ==
    /\ cacheCursor = NoHeight => diskCursor = NoHeight
    /\ cacheCursor = NoHeight /\ pc # "cursor" =>
        \A h \in Heights : diskBlocks[h] = NoBlock

\* The ranges of a tick's window and of its loop index, step by step.
Bounds ==
    /\ pc \in {"hashes", "wires"} => cur < last
    /\ pc \in {"verify", "rollback", "rollback_cache", "rollback_cursor"} =>
        cur < at /\ at <= last
    /\ pc \in {"insert", "insert_commit", "cursor", "cursor_commit",
              "prune", "prune_cache"} => cur + 1 < at /\ at <= last + 1

\* What the locals of a tick say about the database, step by step.
TickLocals ==
    /\ Bounds
    /\ pc \in {"hashes", "wires", "verify", "rollback", "rollback_cache",
              "insert", "insert_commit", "cursor"} => TickCursor = cur
    /\ pc \in {"cursor_commit", "prune", "prune_cache"} => cacheCursor = LastPending
    /\ pc \in {"idle", "hashes", "wires"} => at = 0
    /\ pc = "rollback_cursor" => at = cur + 1
    /\ pc = "prune" => PruneDue

\* The batch is the window's verified prefix, linked inside and to the store.
BatchLinked ==
    /\ \A h \in Heights : pending[h] # NoBlock <=> cur < h /\ h < at
    /\ \A h \in Heights : cur + 1 < h /\ h < at => Prev[pending[h]] = pending[h - 1]
    /\ pc \in {"verify", "rollback", "rollback_cache", "insert", "insert_commit"} =>
        (cur + 1 < at /\ diskBlocks[cur] # NoBlock =>
            Prev[pending[cur + 1]] = diskBlocks[cur])
    /\ pc = "verify" =>
        prev = IF at = cur + 1 THEN diskBlocks[cur] ELSE pending[at - 1]

\* A rollback that deletes something has a conflicting header to show.
Conflict ==
    /\ pc = "rollback" /\ at = cur + 1 =>
        /\ diskBlocks[cur] # NoBlock
        /\ locators[at] \in Block
        /\ Prev[locators[at]] # diskBlocks[cur]
    /\ pc \in {"rollback_cache", "rollback_cursor"} /\ at = cur + 1 => cur > 0
    /\ pc = "rollback_cache" /\ at = cur + 1 => CursorHeight # NoHeight

WalkInv ==
    DiskRun /\ CacheAgrees /\ FreshEmpty /\ TickLocals /\ BatchLinked /\ Conflict

Follows(c) ==
    /\ TickCursor = Tip[c]
    /\ \A h \in Heights :
        diskBlocks[h] # NoBlock => diskBlocks[h] = BlockOf[c][h]

Tallest(c) == \A d \in Chain \ {c} : Tip[d] < Tip[c]

Fails == FetchFails \/ CommitFails \/ \E w \in Wire : Halt(w)

(***************************************************************************)
(* Once the node stays on a branch whose tip is above every other branch,  *)
(* and requests, payloads and commits stop failing, the cursor reaches its *)
(* tip and the store agrees with it at every stored height, for good: a    *)
(* fork of any depth is unwound, and no tick repeats itself for ever.      *)
(***************************************************************************)
Converges ==
    \A c \in Chain :
        Tallest(c) =>
            (<>[](node = c) /\ <>[][~ Fails]_vars => <>[]Follows(c))
=============================================================================
