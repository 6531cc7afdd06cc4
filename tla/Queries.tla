------------------------------ MODULE Queries ------------------------------
(***************************************************************************)
(* The read side: the range and group queries of db.rs and the handlers of *)
(* server.rs that answer from them, over a store at rest.  A store has     *)
(*   blocks   from keys <<chain, height>> to the parent of the block       *)
(*   parents  from every parent on record to its state and LTC height      *)
(*   order    the parents in the order the cache iterates over them        *)
(* with the sibling lists and the sibling index holding exactly the stored *)
(* blocks of each parent (ListsExact and IndexExact of SiblingStore).      *)
(***************************************************************************)
EXTENDS Integers, Sequences, SequencesExt, FiniteSets, FiniteSetsExt

CONSTANTS
    DefaultLimit,   \* 20 in the code
    MaxLimit,       \* 200 in the code
    MaxRange,       \* 10,000 in the code
    MaxU64          \* u64::MAX

ASSUME PageAssumption ==
    /\ MaxLimit \in Nat /\ DefaultLimit \in 1 .. MaxLimit
    /\ MaxRange \in Nat /\ MaxU64 \in Nat

None == -1
NotFound == <<>>
OrElse(x, default) == IF x = None THEN default ELSE x

(* Page::new and Page::default.                                            *)
PageNew(limit, offset) ==
    [limit |-> Max({1, Min({OrElse(limit, DefaultLimit), MaxLimit})}),
     offset |-> OrElse(offset, 0)]
PageDefault == [limit |-> DefaultLimit, offset |-> 0]

(* Mutant: the page starts one item late.                                  *)
MutPageOf(s, page) ==
    SubSeq(s, page.offset + 2, Min({page.offset + 1 + page.limit, Len(s)}))

PageOf(s, page) ==
    SubSeq(s, page.offset + 1, Min({page.offset + page.limit, Len(s)}))

(* The members of S as a list, each behind those that come before it.      *)
InOrder(S, before) ==
    [i \in 1 .. Cardinality(S) |-> CHOOSE x \in S : Cardinality(before[x]) = i - 1]

(* Keys in the order of the tables.                                        *)
KeyLess(a, b) == a[1] < b[1] \/ (a[1] = b[1] /\ a[2] < b[2])
Keys(S) == InOrder(S, [k \in S |-> {j \in S : KeyLess(j, k)}])

(* siblings_for_parent                                                     *)
SiblingsOf(st, p) == {k \in DOMAIN st.blocks : st.blocks[k] = p}

-----------------------------------------------------------------------------
LatestHeight(st, chain) ==
    LET heights == {k[2] : k \in {x \in DOMAIN st.blocks : x[1] = chain}}
    IN  IF heights = {} THEN None ELSE Max(heights)

BlocksRange(st, chain, from, to, page) ==
    PageOf(Keys({k \in DOMAIN st.blocks : k[1] = chain /\ k[2] \in from .. to}), page)

SiblingBlocksRange(st, p, page) ==
    [items |-> PageOf(Keys(SiblingsOf(st, p)), page),
     total |-> Cardinality(SiblingsOf(st, p))]

(* One leg per chain, at the lowest height seen; with a filter only the    *)
(* siblings of that chain are looked at.                                   *)
Legs(st, p, filter) ==
    {k \in SiblingsOf(st, p) :
        /\ filter \in {None, k[1]}
        /\ \A j \in SiblingsOf(st, p) : j[1] = k[1] => j[2] >= k[2]}

Enough(legs, minLegs) == Cardinality(legs) >= minLegs

(* Groups of mainnet parents, by their places in the cache; the sort is    *)
(* stable.                                                                 *)
Found(st, minLegs, filter) ==
    {i \in DOMAIN st.order :
        /\ st.parents[st.order[i]].ltc # None
        /\ Enough(Legs(st, st.order[i], filter), minLegs)}

GroupAt(st, i, filter) ==
    [parent |-> st.order[i], ltc |-> st.parents[st.order[i]].ltc,
     legs |-> Legs(st, st.order[i], filter)]

GroupLess(st, filter, i, j) ==
    LET size(n) == Cardinality(Legs(st, st.order[n], filter))
        ltc(n)  == st.parents[st.order[n]].ltc
    IN  \/ size(i) > size(j)
        \/ size(i) = size(j) /\ ltc(i) > ltc(j)
        \/ size(i) = size(j) /\ ltc(i) = ltc(j) /\ i < j

Groups(st, minLegs, filter) ==
    LET found  == Found(st, minLegs, filter)
        sorted == InOrder(found, [j \in found |-> {i \in found : GroupLess(st, filter, i, j)}])
    IN  [i \in 1 .. Cardinality(found) |-> GroupAt(st, sorted[i], filter)]

SharedMainnetParents(st, minLegs, page, filter) ==
    [items |-> PageOf(Groups(st, minLegs, filter), page),
     total |-> Len(Groups(st, minLegs, filter))]

LatestSiblingGroup(st, minLegs) ==
    SharedMainnetParents(st, minLegs, PageNew(1, 0), None).items

(* Rows of epoch_blocks: LTC height, chain, height, in that order.         *)
(* Mutant: the window is half open.                                        *)
MutInEpoch(ltc, start, end) == ltc >= start /\ ltc < end

InEpoch(ltc, start, end) == ltc >= start /\ ltc <= end

RowLess(a, b) == \/ a[1] < b[1]
                 \/ a[1] = b[1] /\ KeyLess(<<a[2], a[3]>>, <<b[2], b[3]>>)

EpochRows(st, start, end, filter) ==
    LET ltc(k) == st.parents[st.blocks[k]].ltc
    IN  {<<ltc(k), k[1], k[2]>> : k \in {x \in DOMAIN st.blocks :
            /\ ltc(x) # None /\ InEpoch(ltc(x), start, end)
            /\ filter \in {None, x[1]}}}

EpochBlocks(st, start, end, filter, page) ==
    LET rows == EpochRows(st, start, end, filter)
    IN  [items |-> PageOf(InOrder(rows, [b \in rows |-> {a \in rows : RowLess(a, b)}]), page),
         total |-> Cardinality(rows)]

Stats(st) ==
    LET heights(c) == {k[2] : k \in {x \in DOMAIN st.blocks : x[1] = c}}
    IN  [totalBlocks |-> Cardinality(DOMAIN st.blocks),
         totalParents |-> Cardinality(DOMAIN st.parents),
         siblingGroups |-> Cardinality({p \in DOMAIN st.parents :
             /\ st.parents[p].state = 1
             /\ Cardinality({k[1] : k \in SiblingsOf(st, p)}) >= 2}),
         chains |-> [c \in {k[1] : k \in DOMAIN st.blocks} |->
             [blocks |-> Cardinality(heights(c)),
              min |-> Min(heights(c)), max |-> Max(heights(c))]]]

-----------------------------------------------------------------------------
BadRequest == <<"400">>

SiblingsHandler(st, minLegs, filter, limit, offset) ==
    SharedMainnetParents(st, OrElse(minLegs, 2), PageNew(limit, offset), filter)

(* The count is of all siblings, the items are of the first page.          *)
SiblingDetailHandler(st, p) ==
    IF p \notin DOMAIN st.parents THEN NotFound
    ELSE LET found == SiblingBlocksRange(st, p, PageDefault)
         IN  [ltc |-> st.parents[p].ltc, state |-> st.parents[p].state,
              count |-> found.total, siblings |-> found.items]

(* block_from_stored                                                       *)
BlockFromStored(st, k) ==
    [key |-> k, parent |-> st.blocks[k], ltc |-> st.parents[st.blocks[k]].ltc,
     state |-> st.parents[st.blocks[k]].state]

BlocksHandler(st, chain, from, to, limit, offset) ==
    IF \/ chain = None
       \/ from # None /\ to # None /\ (from > to \/ to - from > MaxRange)
      THEN BadRequest
      ELSE LET keys == BlocksRange(st, chain, OrElse(from, 0), OrElse(to, MaxU64),
                                   PageNew(limit, offset))
           IN  [i \in DOMAIN keys |-> BlockFromStored(st, keys[i])]

(* block_detail_handler and proof_handler, without the verification report *)
(* and the witness, which are AuxPowVerify's.                              *)
BlockDetailHandler(st, k) ==
    IF k \in DOMAIN st.blocks THEN BlockFromStored(st, k) ELSE NotFound

EpochHandler(st, start, end, filter, limit, offset) ==
    IF start > end \/ end - start > MaxRange THEN BadRequest
    ELSE EpochBlocks(st, start, end, filter, PageNew(limit, offset))

EpochLatestHandler(st, minLegs) == LatestSiblingGroup(st, OrElse(minLegs, 2))

(* stats_handler and the part of chains_handler that is about the store.   *)
ChainsHandler(st, chain) ==
    IF chain \in DOMAIN Stats(st).chains THEN Stats(st).chains[chain]
    ELSE [blocks |-> 0, min |-> None, max |-> None]

(* cosettle_handler: a height left out is the latest indexed one.          *)
CosettleHandler(st, aChain, aHeight, bChain, bHeight) ==
    LET a == <<aChain, OrElse(aHeight, LatestHeight(st, aChain))>>
        b == <<bChain, OrElse(bHeight, LatestHeight(st, bChain))>>
    IN  IF a \notin DOMAIN st.blocks \/ b \notin DOMAIN st.blocks THEN NotFound
        ELSE LET shared == st.blocks[a] = st.blocks[b]
             IN  [coSettled |-> shared,
                  parent |-> IF shared THEN st.blocks[a] ELSE None,
                  ltc |-> IF shared THEN st.parents[st.blocks[a]].ltc ELSE None,
                  a |-> BlockFromStored(st, a), b |-> BlockFromStored(st, b)]

-----------------------------------------------------------------------------
(* A client that follows the pages of a list, by the page size the server  *)
(* reports back, reads every item once and in order, whatever limit it     *)
(* asks for: nothing, zero, or more than the server gives.                 *)
Followed(query(_, _), limit) ==
    LET size == PageNew(limit, 0).limit
        total == query(limit, 0).total
    IN  FlattenSeq([n \in 1 .. total + 1 |-> query(limit, (n - 1) * size).items])

PagesPartitionFor(st, limits) ==
    \A limit \in limits, chain \in {None} \cup {k[1] : k \in DOMAIN st.blocks} :
        /\ Followed(LAMBDA l, o : SiblingsHandler(st, 1, chain, l, o), limit)
             = Groups(st, 1, chain)
        /\ LET all == EpochBlocks(st, 0, MaxRange, chain,
                                  [limit |-> MaxU64, offset |-> 0])
           IN  /\ Len(all.items) = all.total
               /\ Followed(LAMBDA l, o : EpochHandler(st, 0, MaxRange, chain, l, o), limit)
                    = all.items
        /\ chain # None =>
             Followed(LAMBDA l, o :
                        [items |-> BlocksHandler(st, chain, None, None, l, o),
                         total |-> ChainsHandler(st, chain).blocks], limit)
               = LET keys == Keys({k \in DOMAIN st.blocks : k[1] = chain})
                 IN  [i \in DOMAIN keys |-> BlockFromStored(st, keys[i])]

(* The statistics and the lists count alike: a sibling group is counted by *)
(* stats exactly when /siblings lists it by default, although one goes by  *)
(* parent_state and counts chains and the other goes by ltc_height and     *)
(* builds legs; and the chains' blocks add up to the total.                *)
StatsAgreeFor(st) ==
    /\ Stats(st).siblingGroups = SiblingsHandler(st, None, None, None, None).total
    /\ Stats(st).totalBlocks =
         MapThenSumSet(LAMBDA c : ChainsHandler(st, c).blocks, DOMAIN Stats(st).chains)
    /\ (EpochLatestHandler(st, None) = NotFound) <=> (Stats(st).siblingGroups = 0)

(* The endpoints tell one story of a block and of a pair of blocks: the    *)
(* detail of a block and that of its parent agree on the parent's state    *)
(* and LTC height, and the parent's lists the block unless its first page  *)
(* is full; /cosettle calls two blocks of different chains settled         *)
(* together under a mainnet parent exactly when /siblings lists a group    *)
(* with legs of both chains, and then the epoch of its LTC height alone    *)
(* holds both blocks.                                                      *)
ParentTellsOf(st, k) ==
    LET block  == BlockDetailHandler(st, k)
        parent == SiblingDetailHandler(st, block.parent)
    IN  /\ block.ltc = parent.ltc /\ block.state = parent.state
        /\ Len(parent.siblings) = Min({parent.count, DefaultLimit})
        /\ parent.count <= DefaultLimit => k \in ToSet(parent.siblings)

OneStoryFor(st) ==
    /\ \A k \in DOMAIN st.blocks : ParentTellsOf(st, k)
    /\ \A a, b \in DOMAIN st.blocks : a[1] # b[1] =>
           LET answer == CosettleHandler(st, a[1], a[2], b[1], b[2])
               groups == SiblingsHandler(st, None, None, MaxLimit, 0).items
               both(g) == /\ g.parent = st.blocks[a] /\ g.parent = st.blocks[b]
                          /\ {a[1], b[1]} \subseteq {leg[1] : leg \in g.legs}
               rows(h) == ToSet(EpochHandler(st, h, h, None, MaxLimit, 0).items)
           IN  /\ (answer.coSettled /\ answer.ltc # None)
                     <=> \E i \in DOMAIN groups : both(groups[i])
               /\ answer.coSettled /\ answer.ltc # None =>
                     {<<answer.ltc>> \o a, <<answer.ltc>> \o b} \subseteq rows(answer.ltc)

(* "Include only groups with a leg on this chain": with chain_id given and *)
(* the default min_legs, /siblings lists the groups that have such a leg.  *)
FilterKeepsGroupsFor(st) ==
    \A chain \in {k[1] : k \in DOMAIN st.blocks} :
        LET parents(filter) ==
              {g.parent : g \in ToSet(SiblingsHandler(st, None, filter, MaxLimit, 0).items)}
        IN  parents(chain) = {p \in parents(None) :
                                \E k \in SiblingsOf(st, p) : k[1] = chain}
=============================================================================
