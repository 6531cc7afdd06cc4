# TLA+ models of psob-indexer

psob-indexer walks several merge-mined (AuxPoW) chains, keeps the verified
blocks in a redb store with an in-memory cache in front, groups blocks of
different chains that were mined under the same Litecoin parent, and serves and
gossips what it found. This directory holds TLA+ models of its core logic, the
TLC configurations that check them on small instances, and TLAPS proofs.

Paths below are relative to the repository; `PROJECT.json` repeats them with a
leading `src/`, and maps every definition of a model to the lines it models.

## Inventory

| Component | State | Operations | Correct when |
|---|---|---|---|
| Ingest walk (`src/ingest.rs`) | locals of a tick: cursor, window, locator hashes, wires, `prev_hash`, `pending` | `chain_loop`, `ingest_chain`: tip, locators, wires, gates, rollback or insert, cursor, prune | only linked blocks are stored, history is deleted only on a real conflict, the walk catches up after a reorg |
| Database (`src/db.rs`) | redb tables `aux_blocks`, `sibling_index`, `parent_blocks`, `meta`, `swap_intents`, `chains`; a DashMap per table | `insert_blocks`, `rollback_from`, `prune_before`, `set_meta`, `classify_parent`, `block_at`, `get_parent`, queries, `warm_up_cache` | the index agrees with the blocks, cache with tables, through failures and restarts |
| Parent classification (`src/ingest.rs`, `src/resolve.rs`) | `parent_state` per parent, `announced` | `classify_pending_parents`, `resolve`, `announce_sibling_group` | a mainnet parent is recorded as one, each provable group is announced once |
| Swap intents (`src/swap.rs`, `src/db.rs`) | `swap_intents` and its cache | validate, insert, list, prune expired | bounded book, no accepted intent lost, nothing squats in it |
| Parent resolver (`src/resolve.rs`) | attempt, whether the fallback was asked | `resolve` | a verdict rests on evidence or on the whole budget |
| Chain RPC (`crates/chain-rpc`) | `last_request` slot | `get_raw`, `build_proof_input`, `find_payouts` and the requests they make | request spacing, bounded retries, witnesses that verify, no payout missed |
| AuxPoW verification (`src/verify.rs`, `crates/common`) | none | `verify_auxpow_commitment`, `light_verify`, `verify_aux_header`, `expand_target`, `block_work`, `get_expected_index`, `parse_auxpow` | the verifiers agree, one block per parent and chain, arithmetic and parsers exact |
| PSob proof (`crates/common`) | none | `verify_psob_chain`, deposit and withdrawal parsers, journal encoding | one branch, the sums really paid, fields read where written |
| HTTP server (`src/server.rs`) | rate-limit buckets | middleware, handlers over the database | limits hold per address, endpoints agree with each other |
| P2P (`src/p2p`) | publish channel, peer set | `publish_json`, `announce_*`, `run_swarm_loop` | a full channel never stops the loop that empties it |
| Configuration (`src/config.rs`) | none | `Config::load` | what loads is what the tasks assume |
| Metrics, entry points, tools | none that matters | counters, start-up, printing | not modelled |

**Interaction.** One tokio task per chain runs `chain_loop`; all of them share one
`Database`, one `announced` set and one resolver. The HTTP server reads the same
`Database` from its own threads, and `block_at` and `get_parent` *write* the cache
when they read. redb transactions are atomic and serialised; nothing holds across
two of them, nor between a transaction and the cache updates around it.

**What is hard here.** Awaits inside a tick during which the node reorgs; stores
written in several transactions with the process killed in between; caches written
before the transaction that may fail; tasks of different chains meeting at a
shared parent; verdicts of an unreliable explorer written by several tasks; posts,
prunes and the swarm loop meeting at one order book; witnesses pieced together from
requests to a node that moves; checks and layouts written more than once that must
agree; late cache fills of readers. `PROJECT.json` lists each with its line under `hazards`.

## Modules

| Module | Content |
|---|---|
| `HeaderChain` | abstract specification of one chain's block table: append a linked batch on top, lose the top block, drop from the bottom |
| `ChainWalk` | one chain's ingest task on the two-level store, with its specifications `Spec`, `CrashSpec`, `FairSpec` and its properties |
| `ChainWalkProofs` | TLAPS proofs about `ChainWalk`, without restarts (`Spec`) and with them (`CrashSpec`) |
| `SiblingStore` | the tasks of several chains on the shared sibling index, parents and announcements; `Spec`, `CrashSpec`, `FairSpec` |
| `SiblingStoreProofs` | TLAPS proofs about `SiblingStore` |
| `IntentBook` | the order book of swap intents: HTTP requests and the swarm loop on cache, table and gossip channel; `Spec`, `FairSpec` |
| `IntentBookProofs` | TLAPS proofs about `IntentBook` |
| `ExplorerClient` | `get_raw`: the limiter shared by all callers, retries, backoff |
| `HttpGate` | `security_middleware`: token, attribution to an address, then a fixed window per address |
| `ParentResolver` | one call of `resolve` |
| `ProofWindow` | `build_proof_input` against a node that changes, and `verify_psob_chain` on the result |
| `PayoutScan` | `find_payouts` over a history that grows |
| `CompactTarget` | 256-bit arithmetic, compact targets, work |
| `AuxPowVerify` | the merged-mining checks of guest and indexer |
| `TxParse` | parsers of CAuxPow payloads and of deposit and payout transactions |
| `Queries` | queries of `db.rs` and the handlers that answer from them |
| `JournalAbi` | the two journal layouts |
| `ConfigLoad` | `Config::load` |
| `MCChainWalk`, `MCSiblingStore`, `MCIntentBook` | instances for TLC |
| `MCLimits` | `ExplorerClient`, `HttpGate` and `ParentResolver`, one per behaviour |
| `MCCases` | the algorithms on bounded sets of cases, and the two clients of the bridge |
| `LimitsProofs` | TLAPS proofs about the limiters and the resolver |
| `AlgorithmProofs` | TLAPS proofs about `AuxPowVerify`, `ConfigLoad` and the targets of `CompactTarget` |
| `WorkProofs` | TLAPS proofs about the arithmetic and the work of `CompactTarget` |
| `QueryProofs` | TLAPS proofs about `ProofWindow`, `PayoutScan` and `Queries` |
| `WireProofs` | TLAPS proofs about `TxParse` |

`ChainWalk` and `SiblingStore` split `insert_blocks`, `rollback_from` and
`prune_before` by the tables they write: the first keeps blocks and cursor in
detail (batches, gates, failed commits, branches of different height), the second
keeps blocks, sibling rows and parents and abstracts the walk to its verdict on
the next block (insert, roll back the cursor's block, or halt).

Operators named `Mut...` are the mutated forms used to show that each property
can fail; no specification refers to them.

### ChainWalk

State: the branch the node serves; `aux_blocks` and the cursor row on disk and in
the cache; `pc` and the locals of the tick. A block is its hash; `Prev` is the `prev_hash` field of the header
with that hash. A step ends at each await and at each redb commit:

| Steps | Code |
|---|---|
| `BeginTick`, `UpToDate` | `ingest_chain` up to the window (one step from `tip_height` on: both reads come before any write) |
| `FetchHash(h)`, `FetchFails` | the concurrent `block_hash_at`, one answer each, in any order |
| `FetchWires` | all `header_wire` answers, then `block_at(cursor)` |
| `Halt`, `Accept`, `LinkageBroken` | one iteration of the verification loop: integrity, parse and `light_verify`, linkage |
| `RollbackCommit`, `RollbackCache`, `RollbackCursor` | `rollback_from` and its `set_meta` |
| `InsertCache`, `InsertCommit`, `SetCursor`, `CommitCursor` | `insert_blocks`, `set_cursor_height` |
| `PruneCommit`, `PruneCache` | `prune_before` |
| `CommitFails` | any transaction of the tick failing |
| `Crash` | the process killed anywhere and `warm_up_cache` |

Payloads are abstracted to the first gate they fail and the hash of their header;
`Faults` says whether requests, payloads and commits may fail.

### SiblingStore

State: per chain the fork its node serves; the tables `aux_blocks`,
`sibling_index`, `parent_blocks` and the cursors; the three caches; `announced`
and the number of announcements sent; per task its place in the tick and its
locals. `ParentOf` gives the parent embedded in each block. Operations on
different DashMaps are different steps: `contains_key` and `insert` on
`cache_parents`, and the three removals by which `rollback_from` forgets an emptied
parent, interleave with the other tasks. Batches have one block, commits do not
fail (`ChainWalk` has both), and one explorer is up or down for all probes of a
`join_all`; `resolve` is its answer (a height, or nothing; `ParentResolver` has
the call itself).

### IntentBook

State: the clock; `cache_intents` and `swap_intents`; per actor (an HTTP request,
or the one task of the swarm loop) where its job is, the intent it is about and the
ids its prune collected; how many messages wait in the gossip channel. Two history
variables: the last intent committed under each id, and the ids on which two jobs
overlapped or a commit failed. `insert_intent` is six steps, because nothing is
locked between them: `Scan`, `Erase`, `Drop` (`prune_expired_intents`: the scan of
the cache, the transaction, the removals one by one), `CheckRoom`, `Insert` (cache),
`Commit` (table). `Send` waits for room in the channel, `Publish` is the other
branch of the swarm loop's `select!` and runs only while the loop is not inside an
inbound intent. `FailTxn` lets either transaction fail, `Crash` is a restart with
`warm_up_cache`. Of an intent the model keeps id, chains, timestamp and expiry; the
format of the other fields is one boolean, a signature that verifies another.
`signatures` is the setting `PSOB_REQUIRE_SIGNATURES`: with "0" or "false"
`verify_intent_signature` (`src/swap.rs:126`) returns Ok without looking. It is
fixed for a process and may change at a restart, and `warm_up_cache` validates
nothing again; so `NoSquatter` promises signatures only as long as no process so far
ran with the setting relaxed. The bound on an intent's life and the known chains do
not depend on it.

### The limiters

`ExplorerClient`, `HttpGate` and `ParentResolver` share no state; `MCLimits` runs
one of them per behaviour. Times are ages in ticks, capped where the code no longer
tells them apart, so that their state is finite though behaviours are not bounded.
What the properties count over a sliding stretch (`Admitted`, `FirstSends`) is kept
as a running total per age: how much happened no longer ago than that, up to the
largest count that matters (`OneMore`).
In `ExplorerClient` a timer may fire late but never early. `HttpGate` handles a
request in one step: the buckets are behind a mutex. `ClientIp` is the address a
request counts for: its TCP peer where the server has connect-info (`ConnectInfo`),
otherwise the first hop of `x-forwarded-for`, which the sender chooses, otherwise
none. Requests without an address, and all of them where no limit is configured (the
default, `Limit` = 0), pass without touching a bucket (`Unlimited`). A comment in
`src/server.rs:762` takes connect-info for what production has, but `src/main.rs:100`
serves without it, so there the address is the header's; the run `limits` has
`ConnectInfo` FALSE, the theorems hold for both. What `AtMostTwice` and
`RefusedWhenSpent` say is therefore about addresses, the keys of the buckets: a
sender that claims many addresses has as many buckets, one that claims none is not
limited, and senders that claim the same one share its limit. One step of `ParentResolver`
is one round of the retry loop, with every pair of answers of the two explorers.

### The bridge client

`ProofWindow` splits `build_proof_input` at its requests; between any two of them
the node may grow or switch branches. A block is the path that leads to it, so its
hash is its whole past. `VerifyPsobChain` and `FoldMerkle` are the verifying side.
`PayoutScan` pages through a history, newest first, that grows meanwhile.

### The algorithms

`CompactTarget`, `AuxPowVerify`, `TxParse`, `Queries`, `JournalAbi` and `ConfigLoad`
are operators without state; each ends with reference definitions, and `MCCases`
looks at one case per behaviour. What is abstracted: widths of bytes and words are
constants; hashes are terms, equal exactly when what they hash is equal (no
collisions); fields of a wire format that are copied whole are one number; a stored
block is its key and its parent. A parsed parent header always has 80 bytes, yet
`AuxPowVerify` also looks at shorter ones, since `AuxPow` can be built otherwise.
The fold of a branch (`Folded`), powers (`Powers`) and the value of a byte array
(`Leading`) are recursive functions on an interval, so that they can be proved about.

## Runs

Every passing run finishes within two minutes. `PROJECT.json` has a sentence on each.

| Run | Question | Result |
|---|---|---|
| `walk` | linked run ending at the cursor, refinement of `HeaderChain`, rollbacks only on conflict, bounded window, convergence, under reorgs, bad payloads, failed requests and commits | holds |
| `walk_crash` | linkage up to the cursor with restarts anywhere | holds |
| `walk_crash_gap` | full linkage with restarts | violated |
| `siblings` | exact lists and index, no parent forgotten, truthful and single announcements, every mainnet parent recorded with the explorer up; two chains, one of them reorged, with pruning | holds |
| `sibling_crash` | stored blocks are in the index, restarts anywhere | holds |
| `parent_outage` | a parent probed in an outage is probed again | violated |
| `group_never_announced` | every provable group is announced | violated |
| `swap_intents` | bounded overshoot of the capacity, accepted intents stay, neutral restarts, admission with signatures enforced, relaxed and restored, every job ends | holds |
| `limits` | bursts and termination of the explorer client, windows of the server's rate limit per address, evidence of the resolver | holds |
| `pacing` | a minimum gap between requests to one host | violated |
| `verification` | the algorithms against their references, witnesses on one branch, payouts found | holds |
| `chain_filter` | a chain filter keeps the groups with a leg on that chain | violated |

The violated properties are statements of the repository's own text; `findings`
quotes each one beside what the code does. In short: `rollback_from` moves the
cursor in a second transaction; an exhausted resolver is recorded as a final
"trial"; a parent is marked announced before it has two legs; the limiter's slot
holds when a request entered, not when it is sent; the chain filter of `/siblings`
removes the legs it should only select by.

What the code does promise in those places is checked beside them: `LinkedUpToCursor`,
`VerdictIsEarned`, `AnnouncedOnce`, `BurstBound` (one first send more than there are
callers in any interval), `OneStory`.

Known and outside what the runs claim: with two chains reorganising, `rollback_from`
may forget a parent another chain has just inserted under (`src/db.rs:660`); a block
overwritten after a restart leaves its sibling row (`src/db.rs:537`);
`classify_parent` overwrites a confirmed verdict (`src/db.rs:768`). `ListsExact` names
the first in its premise, and `hazards` lists all three. `latest_sibling_group` sorts
by the number of legs before the height, so an older group with more legs is called
the latest (`src/db.rs:889`).
Similarly the properties of the order book except ids on which two jobs met: a prune
that collected an id before it was posted again removes the new intent from the
cache (`src/db.rs:388`).

Other texts that disagree with the code. The properties in these places state what
the code does, and no run checks the texts:

- `expand_target`: the comments at `crates/common/src/lib.rs:626-640` say that a zero
  target is rejected ("Zero target is never valid PoW"). The code rejects a zero
  mantissa. A nonzero mantissa that a size below 3 shifts out (`0x01000001`) expands
  to the zero target, as `TargetExact` states with `ShiftedOut`. Only a hash of zero
  meets that target, and its work wraps to zero (`WorkExact`).
- `Journal`: the struct's doc gives 13 words and 416 bytes (`lib.rs:346`), and the
  layout above `abi_encode` lists `ltcCheckpointHash` and `ltcTipHash` after `chainId`
  (`lib.rs:389-390`). The struct has no such fields; `abi_encode` and `abi_decode` use
  11 words, 352 bytes, as the line `lib.rs:392` and the tests say.
- `WithdrawalJournal`: the doc gives 10 words and 320 bytes and speaks of an
  `ltc_checkpoint_hash` anchor (`lib.rs:460-461`); the functions use 8 words, 256 bytes.
  `JournalsExact` is about these functions: encoder and decoder of each journal agree
  at the sizes they use. The contract that decodes the journals is not in the
  repository, so whether they match it is not claimed.
- `ProofInput.headers` and `min_confirmations` (`lib.rs:300-306`): the docs ask for
  `min_confirmations` headers on top of the deposit's block; `build_proof_input`
  (`chain-rpc/src/lib.rs:481-484`) counts that block among the confirmations, one
  header fewer, and `verify_psob_chain` counts none: it checks each header and its link.
  `AcceptedIsOneBranch` and `QuietBuildAccepted` are about this window as the code
  has it.

### Bounds

- `ChainWalk`: heights 0..5 and three branches with tips 3, 4 and 5: two part above
  height 1, the tallest parts above genesis, deeper than the bounded window, so that
  reorgs to taller and lower branches, cursors above the tip and unwinding over
  several ticks all occur. Batches of 2
  give links broken at the window's start and inside it; a window of 2 blocks gives
  prunes in most ticks, and rollbacks that reach below what was kept.
- `SiblingStore`: two chains meet at the parents `p1` (mainnet) and `p2`; two forks
  that embed them in opposite order, so that a reorg moves a block from one parent
  to the other. Height 4 gives two blocks of a chain under one parent, pruned and
  rolled back. Announcements are counted up to 2, enough to see a second one. No
  symmetry is used: chains, forks and parents have roles.
- `IntentBook`: a capacity and a channel of one make every limit bite; one request
  beside the swarm loop gives every overlap of two jobs; four jobs, two ids with two
  versions each and one fault let a job meet what an earlier one left behind. One
  version has no valid signature, so that it is stored where signatures are not
  enforced, and the fault may be a restart that relaxes or restores them. The proofs
  are for any numbers.
- `MCLimits`: a window of two ticks and a limit of two for two addresses, with requests
  that claim either or none, and room for one bucket (so that floods happen); two callers, an interval of three ticks
  and two retries; three retries of the resolver, with a fallback.
- `MCCases`: numbers of four 2-bit bytes: all compact values, all targets, all
  carries. Trees of up to two levels (and one beyond the limit), LCG words of five
  bits, all chain ids and nonces. Witnesses wrong in at most one place outside the
  coinbase. Transactions of up to two inputs and outputs, every prefix of each.
  Stores of up to four blocks of three chains under two parents, in every state.
  Branches of up to four blocks, one change of the node between two requests, up to
  two confirmations. Pages of two transactions, at most two pages, five transactions.

### Fairness

`ChainWalk!FairSpec` assumes weak fairness of the tick's successful steps
together: `chain_loop` never returns, retries a failed tick after a bounded
backoff, and a request to a reachable node completes. `Converges` asks for the outcome only
where, from some point on, the node stays on the branch and requests, payloads and
commits stop failing, and where that branch is the tallest, since a cursor at or
above the tip keeps the tick from looking. `SiblingStore!FairSpec` assumes weak fairness of each chain's
task. Nothing is assumed of reorgs, of the explorer or of crashes.

`IntentBook!FairSpec`: weak fairness of the swarm loop's work, strong fairness of
the requests and of `Publish`. tokio's `mpsc` gives permits in the order in which
senders asked, so a waiting sender is not overtaken forever, and `select!` polls its
branches in random order, so inbound events do not starve the queue. For
`ExplorerClient`: time passes, ready tasks run, and reqwest's timeout ends every
request.

## Proofs

Every theorem holds for all values of the constants that satisfy the named
assumptions of the component's module. TLC evaluates those assumptions in each run,
and every inductive invariant also holds in TLC on the instances of the runs.

| Module | Theorem | States |
|---|---|---|
| `ChainWalkProofs` | `TypeCorrect`, `WalkInvariant` | `TypeOK`, `WalkInv` |
| | `LinkageTheorem`, `CursorTheorem` | `StoredBlocksLinked`, `CursorIsTop` |
| | `RollbackTheorem`, `WindowTheorem` | `RollbackOnlyOnConflict`, `WindowBounded` (action properties) |
| | `Refinement` | `StoreIsHeaderChain` |
| | `RestartTypes`, `RestartTheorem` | `TypeOK`, `LinkedUpToCursor` with restarts |
| `SiblingStoreProofs` | `TypeTheorem`, `SiblingsFoundTheorem` | `TypeOK`, `SiblingsFound` with restarts |
| | `AnnouncedOnceTheorem`, `ListsExactTheorem` | `AnnouncedOnce`, `ListsExact` |
| | `IndexExactTheorem` | `IndexExact`, when at most one chain's node reorganises |
| `IntentBookProofs` | `BookTypes`, `CapacityTheorem` | `TypeOK`, `CapacityBound` |
| | `AcceptedTheorem`, `RestartTheorem`, `AdmissionTheorem` | `AcceptedStays`, `RestartNeutral`, `NoSquatter` |
| `LimitsProofs` | `VerdictTheorem` | `VerdictIsEarned` |
| | `AtMostTwiceTheorem`, `RefusedTheorem` | `AtMostTwice`, `RefusedWhenSpent` |
| | `BurstTheorem` | `BurstBound` |
| `AlgorithmProofs` | `OneBlockTheorem`, `VerifiersTheorem` | `OneBlockPerParent`, `VerifiersAgree` |
| | `SlotsTheorem`, `TargetTheorem`, `ConfigTheorem` | `SlotsApart`, `TargetExact`, `ConfigMeetsAssumptions` |
| `WorkProofs` | `WorkTheorem` | `WorkExact` |
| `QueryProofs` | `OneBranchTheorem`, `QuietBuildTheorem` | `AcceptedIsOneBranch`, `QuietBuildAccepted` |
| | `PayoutsTheorem` | `PayoutsExact` |
| | `PagesTheorem`, `StoryTheorem` | `PagesPartition`, `OneStory` |
| `WireProofs` | `PaymentsTheorem`, `AuxpowTheorem` | `PaymentsExact`, `AuxpowExact` |

### The walk

The assumptions of `ChainWalk`: heights are bounded by some `MaxHeight`; every branch
has a block at each height up to its tip; `max_batch` is positive.

None of the properties is inductive alone. That a new batch links onto the store depends on
what `prev_hash` was when the loop began, which depends on cache and table agreeing
at the cursor, which depends on what a failed commit of an *earlier* tick left
behind. `WalkInv` carries this from step to step: `DiskRun` (the stored heights are
an interval that ends at `Top` and is linked, where `Top` is the cursor except
between a block transaction and the cursor write that follows), `CacheAgrees`,
`FreshEmpty` (no cursor, no blocks), `TickLocals`, `BatchLinked`, and `Conflict`
(a rollback in progress has a header that contradicts the stored block). The proof
has one lemma per action. `Refinement` shows that every step of the task is a step of
`HeaderChain` on `aux_blocks`, or leaves it alone.

With restarts `WalkInv` is false: a killed tick leaves blocks above the cursor, or a
cursor whose block is gone. `CrashSpec` has an invariant of its own, `CrashInv`:
adjacent blocks are linked up to `Reach` (the cursor, or the end of the batch between
its commit and the cursor write) and also up to `Restart` (the cursor a restart would
find), which differ after a rollback whose cursor write failed; `Clean` (that
rollback left nothing above its cut), `Agree` (up to `Reach` the cache never
contradicts the table), `Placed` and `Batch` (where the tick is, and that what it
holds links onto what is stored).

### The sibling store

Two proofs cover restarts. `SiblingsFound` needs only that three steps write the two
tables and a row leaves the index with its block. `TypeOK` needs `Shapes`: which
steps of a task hold a block, a parent or a set of legs.

`AnnouncedOnce` rests on `Judged` (what a table, a cache or a task between probe and
write calls mainnet is mainnet) and `Sends` (a task past the insertion into `announced` is the only
one that will send for that parent, and what was sent was marked).

`ListsExact` and `IndexExact` share `StoreInv`. Per chain it says what tables and
cursor are at each step (`Tables`, `Steady`), and, for a chain beside which no other
chain's node reorganises (`Undisturbed`), that the lists in memory have the stored blocks
and nothing else, but for the block being inserted or removed (`LegsRight`,
`BlocksListed`, `Doomed`). `NoStrayRow` (no index row without its block) is inductive
only if at most one chain's node switches forks: the rollback of one chain may forget
a parent that another chain's rollback needs in order to find its rows. `OneReorgs`
says so in the theorem, and the configuration of `siblings` is such an instance. The
assumption that `Nil` is not itself a set of legs is about how the model marks an
absent entry.

### The order book

`IntentBookProofs` is for every finite set of requests and ids, every set of
intents, capacity, slack and window that satisfies `BookAssumption`. Its invariant
`Inv` adds to the properties: `JobsHold` (which step has an
intent or ids to remove), `Apart` and `Alone` (outside contested ids, no two jobs
write one id and no prune removes what a job writes), `Rows` and `Ledger` (where
table, cache and the last committed intent may differ, by the step of the one job
that makes the difference) and `OnlyAdmitted` (everything held past validation and
everything stored was valid at some time up to now, in this process or, its signature
perhaps not verified, in an earlier one). The capacity bound is not
inductive without the actors between check and insert, which `CapacityBound`
counts, nor without `Rows`, which says that a restart brings back only what the
cache had.

### The limiters

For any number of addresses and callers, any limit, window, interval and number of
retries, with and without connect-info. `ResolverInv` ties the round to the answers so far. `GateInv` bounds, for every age,
what was let through for an address since then by the count of its bucket, plus one limit
where that time reaches back before the bucket (`Bounded`), and says that what a
bucket counts was admitted since its window began (`Backed`): the second gives `RefusedWhenSpent`, the first gives twice the
limit, since a stretch of one window meets at most two buckets. Requests the limiter does
not see change neither (`GateSkips`). `ClientInv` gives
`BurstBound` through `StretchHolds`: first sends of a stretch, plus the callers that
may still send within it (`Waiting`, `DueWithin`), never exceed the callers plus one.

### The bridge client

`WindowInv` follows `build_proof_input` from request to request: which
heights it has (`Placed`, `Fetching`, `AllFetched`), that each fetched header names the one before
it or will be refused (`Chained`), and that without reorgs all of it is on the node's
chain (`Quiet`). Since a hash stands for the whole past of a block, two headers that link
are on one branch whatever the node did between the requests. `ScanInv` follows
`find_payouts`: where the cursor transaction is in the growing history (`Places`), that
what was confirmed at the start, down to the lowest transaction looked at
(`Reached`), and is a payout has been reported (`Reported`), and that reports descend, hence none twice (`Descending`).

### The algorithms

Each theorem states the property for every input and, from that, for the cases of
`MCCases`. `OneBlockTheorem` covers branches of any depth: the fold is injective in
leaf and index (`FoldInjective`) and `Pow2` tells depths apart (`Pow2Apart`).
Both need induction over a number; the library's induction rule takes an operator as
parameter and is not available to the provers, so they are done by least
counterexample (`LeastNumber`, from the well-foundedness of `<`). `SlotsTheorem`
undoes the wrapping at the word's width, which every size of a tree divides
(`SlotForm`), and then cancels the multiplier, which is odd (`OddCancels`,
`OddReaches`). `TargetTheorem` shows that the three overflow guards reject exactly what
does not fit (`OverflowExact`) and that the mantissa bytes cut off at the top are zero
where the guards let the size through (`MantissaBytes`, `ThreeBytes`), and that zero
comes out exactly for mantissas that are shifted out (`ZeroExact`); size bytes
above `Bytes + 3` are left out of `Compact`, the first guard rejects them all alike. `VerifiersTheorem`
assumes a parent header of at most 80 bytes, which is what the `CAuxPow` parser
takes. `ConfigTheorem` is for every environment and file whose values have the types
the parsers of `config.rs` give them (`EnvironmentOK`, `FileOK`).

`WorkTheorem` is for bytes of any number of bits and arrays of any length from three.
`FirstDifference` and `ComparisonExact` say that arrays compare like the numbers they
denote; `CarryChain` and `BorrowFacts` follow the carry and the borrow from the last
byte to the first and give `AddValue` and `SubExact`; `ShiftExact` is the shift. The
long division keeps, before each bit, that the dividend's leading bits are quotient times divisor
plus remainder and that the remainder is below the divisor (`AtByte`, `AtBit`);
`BitStep` is one round of the loop. A remainder that is doubled before the divisor is
taken off still fits in the array, since it is at most the dividend's bits brought down
so far. `block_work` divides the complement of the target by the target plus one and
adds one; `WorkExactLemma` shows that this is 2^256 divided by the target plus one,
the overflow at the largest target and the wrap at target zero included.

### The queries

`PagesTheorem` and `StoryTheorem` are for every store that meets `StoreOK`: finite tables, every block's
parent on record, every parent in the cache once, an LTC height exactly for the parents in
state 1, which is how `insert_blocks` and `classify_parent` write a row. `InOrderFacts` says that a finite set listed by a strict total order
has every member once, and the three orders of the queries are such (`KeysOrdered`,
`RowsOrdered`, `GroupFacts`). `PagesOfList` glues pages of any size back into the
list, so a client that follows the pages reads everything, in order, for every limit,
default and maximum. `LegsCountChains` and `GroupsCounted` show that legs count
chains and that the groups of `/siblings` are those of the statistics,
`BlocksAddUp` that the chains' blocks add up to the total in whatever order
the sum takes them, `PairStory` that `/cosettle`, `/siblings` and `/epoch` agree about any two
blocks. `StoryTheorem` asks that the store fits in the largest page (`FitsPage`), since its questions
look at one page; for the stores of `MCCases` that is `MaxLimit >= 4`.

### The parsers

`WireProofs` is for every transaction with at least one input and one output whose
fields are numbers (`TxOK`), any number of inputs, outputs and witness items, scripts
and branches of any length, values of any size, and varints in either width; `Wide`,
`MaxValue` and `MaxBranch` are any numbers, `Wide` above the script markers.
The argument has three parts.

- `At(w, p, v)` says that the bytes `v` stand on the wire `w` from `p` on. Each reader
  has a lemma of what it yields there (`VarintAt`, `ScriptAt`, `SkipAt`, `OutputAt`,
  `InAt`, `OutAt`, `WitnessAt`, `BranchAt`). `PartsAt` places the parts that
  `FlattenSeq` glues together, and `RunReaches` follows a repetition from item to item, so
  `SkipsInputs`, `ReadsOutputs`, `TakesInputs`, `TakesOutputs` and `DropsWitnesses` hold for
  any number of them. `TxLegacy` and `TxSegwit` then say that `take_tx` yields the same
  legacy form from a transaction without a witness and from one with it.
- `Begins(w, u)` says that `w` is `u` with more bytes behind it. Whatever a reader
  finds on `u` it finds on `w`, at the same place (`VarintGrows`, `ScriptGrows`,
  `RunGrows`, `TxGrows`, `AuxGrows`). So a proper prefix from which something is
  read would make the parser of the whole wire end before the wire does, and it
  ends exactly there.
- `PaidAddsUp` and `SetAddsUp` show that adding the values along the outputs and adding
  them as a set, in whatever order, give one sum.

The form with a witness is no deposit because its marker is read as a transaction
without inputs (`SegwitNotRead`). The transactions, witnesses and branches of `MCCases` meet the hypotheses
(`TxsAreSound`, `CoinbasesAreSound`), so both theorems also state the invariants of the run.

### Only model-checked

- `JournalsExact`: the layouts have no parameter, TLC's one case is all of it.
- `Converges`, `EventuallyClassified`, `EveryJobEnds` and the other liveness properties: outside the
  prover.
- The properties expected to be violated.

## Not modelled

- Hash functions, elliptic-curve signatures and scrypt (which the guest checks,
  outside this repository): terms, or a boolean.
- redb's own durability (a committed transaction is on disk), storage errors on
  reads, and failing commits in `SiblingStore` (`ChainWalk` has them).
- Readers: a server request inside `block_at` or `get_parent` that fills a cache
  after the row it read was deleted (`src/db.rs:430`). `Queries` is about a store at
  rest whose caches agree with its tables.
- `verify_handler` (size and hex checks in front of `VerifyAuxHeader`), health,
  metrics, OpenAPI, the p2p status handlers and the peer list they show, the
  `chains` registry, which is written once at start-up.
- libp2p itself: discovery, the mesh, deduplication of messages. A published message
  leaves the channel, an inbound intent arrives.
- Settings that are strings passed on; logging; `main`, `psob-explain` and the wasm
  bindings.

## Plan

1. Readers as actors of `SiblingStore`, with the late cache fill.
2. `SiblingStore` over `ParentResolver` instead of its answer.
