---------------------------- MODULE SiblingStore ----------------------------
(***************************************************************************)
(* The sibling side of the database and of the ingest tasks: which blocks  *)
(* of which chains hang under one Litecoin parent, what is known of that   *)
(* parent, and when a sibling group is gossiped.                           *)
(*                                                                         *)
(* One task per chain runs ticks of ingest_chain, all on the shared        *)
(* Database.  The walk itself is abstract here (ChainWalk has it): the node*)
(* of a chain serves one of its forks, and a tick inserts the next block of*)
(* that fork, rolls the cursor's block back when the fork disagrees with   *)
(* it, or halts.  A step ends at every redb commit, at every await and     *)
(* between two operations on different shared maps, so the tasks           *)
(* interleave as their threads do.                                         *)
(***************************************************************************)
EXTENDS Integers, FiniteSets

CONSTANTS
    Chain,        \* chain ids, one ingest task each
    MaxHeight,    \* bound: heights 1..MaxHeight exist
    Tip,          \* the tip every fork of a chain has, per chain
    Fork,         \* the forks a node may serve
    Parent,       \* Litecoin parent hashes
    Nil,          \* no block, no parent, no list
    ParentOf,     \* ParentOf[c][h][f]: parent embedded in that block's AuxPoW
    Mainnet,      \* the parents that really are mainnet blocks
    MaxKept,      \* max_kept_blocks; 0 = unset
    MayReorg,     \* the chains whose nodes may switch forks
    MayFail       \* the resolver may be unreachable

Heights == 1 .. MaxHeight
Legs    == Chain \X Heights \X Fork

ASSUME SiblingAssumption ==
    /\ MaxHeight \in Nat /\ MaxKept \in Nat
    /\ Nil \notin Fork /\ Nil \notin Parent /\ \A legs \in SUBSET Legs : legs # Nil
    /\ Mainnet \subseteq Parent
    /\ ParentOf \in [Chain -> [Heights -> [Fork -> Parent]]]
    /\ Tip \in [Chain -> 0 .. MaxHeight]
    /\ MayReorg \subseteq Chain /\ MayFail \in BOOLEAN

VARIABLES
    node,         \* the fork each chain's node serves
    resolverUp,   \* the parent-chain explorer answers
    diskBlocks,   \* aux_blocks: the fork stored at (chain, height)
    diskSiblings, \* sibling_index: rows <<parent, chain, height>>
    diskParents,  \* parent_blocks: state of the row
    cursor,       \* meta "<chain>.cursor_height"; 0 before the first block
    cacheBlocks,  \* cache_blocks
    cacheSiblings,\* cache_siblings: legs <<chain, height, fork>> of a parent
    cacheParents, \* cache_parents: state of the entry
    announced,    \* Ingestor.announced
    sent,         \* announcements on /psob/siblings/v1, per parent
    task          \* each task's place in its tick, and its locals

world  == <<node, resolverUp>>
blocks == <<diskBlocks, cacheBlocks>>
rows   == <<diskSiblings, cacheSiblings>>
parents == <<diskParents, cacheParents>>
gossip == <<announced, sent>>
vars   == <<world, blocks, rows, parents, cursor, gossip, task>>

State     == {"absent", "unprobed", "mainnet", "trial"}
MaxSent   == 2   \* bound: announcements counted per parent

Pcs == {"idle", "insert", "push_sibling", "check_parent", "add_parent",
        "set_cursor", "prune", "prune_cache",
        "rollback", "rollback_cache", "retain", "forget", "forget_parent",
        "forget_row", "rewind",
        "snapshot", "resolve", "classify", "classify_commit",
        "announce_tip", "announce", "announce_send"}

Task == [pc    : Pcs,
         at    : 0 .. MaxHeight,      \* height inserted, or rolled back from
         fork  : Fork \cup {Nil},     \* the block of the batch; Nil = none
         todo  : SUBSET Parent,       \* parents the current loop has left
         found : SUBSET Parent,       \* empty_parents, later new_mainnet
         par   : Parent \cup {Nil}]   \* parent in hand

Idle == [pc |-> "idle", at |-> 0, fork |-> Nil, todo |-> {}, found |-> {},
         par |-> Nil]

TypeOK ==
    /\ node \in [Chain -> Fork]
    /\ resolverUp \in BOOLEAN
    /\ diskBlocks \in [Chain -> [Heights -> Fork \cup {Nil}]]
    /\ cacheBlocks \in [Chain -> [Heights -> Fork \cup {Nil}]]
    /\ diskSiblings \subseteq Parent \X Chain \X Heights
    /\ diskParents \in [Parent -> State]
    /\ cacheParents \in [Parent -> State]
    /\ DOMAIN cacheSiblings = Parent
    /\ \A p \in Parent : cacheSiblings[p] = Nil \/ cacheSiblings[p] \subseteq Legs
    /\ cursor \in [Chain -> 0 .. MaxHeight]
    /\ announced \subseteq Parent
    /\ sent \in [Parent -> 0 .. MaxSent]
    /\ task \in [Chain -> Task]

NoBlocks == [c \in Chain |-> [h \in Heights |-> Nil]]

Init ==
    /\ node \in [Chain -> Fork]
    /\ resolverUp = TRUE
    /\ diskBlocks = NoBlocks /\ cacheBlocks = NoBlocks
    /\ diskSiblings = {}
    /\ cacheSiblings = [p \in Parent |-> Nil]
    /\ diskParents = [p \in Parent |-> "absent"]
    /\ cacheParents = [p \in Parent |-> "absent"]
    /\ cursor = [c \in Chain |-> 0]
    /\ announced = {} /\ sent = [p \in Parent |-> 0]
    /\ task = [c \in Chain |-> Idle]

-----------------------------------------------------------------------------
(* Helpers. *)

At(c, label)   == task[c].pc = label
Goto(c, label) == task' = [task EXCEPT ![c].pc = label]

\* Parent of the block the tick inserts.
NewParent(c) == ParentOf[c][task[c].at][task[c].fork]

\* Heights at which a table or cache holds a block of chain c.
Stored(bs, c) == {h \in Heights : bs[c][h] # Nil}

ParentsAt(bs, c, hs) == {ParentOf[c][h][bs[c][h]] : h \in hs \cap Stored(bs, c)}

Clear(bs, c, hs) ==
    [bs EXCEPT ![c] = [h \in Heights |-> IF h \in hs THEN Nil ELSE bs[c][h]]]

\* A parent's list; an absent entry reads as empty.
ListOf(p) == IF cacheSiblings[p] = Nil THEN {} ELSE cacheSiblings[p]

MutWithout(c, hs, ps) ==
    [p \in Parent |->
        IF p \in ps /\ cacheSiblings[p] # Nil
        THEN {s \in cacheSiblings[p] : s[1] # c}
        ELSE cacheSiblings[p]]
\* The lists with chain c's legs at heights hs retained out of those of ps.
Without(c, hs, ps) ==
    [p \in Parent |->
        IF p \in ps /\ cacheSiblings[p] # Nil
        THEN {s \in cacheSiblings[p] : ~ (s[1] = c /\ s[2] \in hs)}
        ELSE cacheSiblings[p]]

From(h)  == {k \in Heights : k >= h}
Below(h) == {k \in Heights : k < h}

-----------------------------------------------------------------------------
(* The outside world. *)

Reorg(c, f) ==
    /\ c \in MayReorg /\ f # node[c]
    /\ node' = [node EXCEPT ![c] = f]
    /\ UNCHANGED <<resolverUp, blocks, rows, parents, cursor, gossip, task>>

ResolverFlips ==
    /\ MayFail
    /\ resolverUp' = ~ resolverUp
    /\ UNCHANGED <<node, blocks, rows, parents, cursor, gossip, task>>

-----------------------------------------------------------------------------
(* A tick begins: the walk's verdict on the block above the cursor. *)

\* The served header links to the block at the cursor, or there is none.
Links(c) == cursor[c] > 0 => cacheBlocks[c][cursor[c]] \in {Nil, node[c]}

MutNextHeight(c) == cursor[c] + 2
NextHeight(c) == cursor[c] + 1

TickInsert(c) ==
    /\ At(c, "idle") /\ cursor[c] < Tip[c]
    /\ Links(c)
    /\ task' = [task EXCEPT ![c] =
            [Idle EXCEPT !.pc = "insert", !.at = NextHeight(c), !.fork = node[c]]]
    /\ UNCHANGED <<world, blocks, rows, parents, cursor, gossip>>

TickRollback(c) ==
    /\ At(c, "idle") /\ cursor[c] < Tip[c]
    /\ ~ Links(c)
    /\ task' = [task EXCEPT ![c] = [Idle EXCEPT !.pc = "rollback", !.at = cursor[c]]]
    /\ UNCHANGED <<world, blocks, rows, parents, cursor, gossip>>

\* A payload that fails a gate stores nothing; parents are still classified.
TickHalt(c) ==
    /\ At(c, "idle") /\ cursor[c] < Tip[c]
    /\ Goto(c, "snapshot")
    /\ UNCHANGED <<world, blocks, rows, parents, cursor, gossip>>

\* The cursor is at the tip: the tick returns before it classifies anything.
UpToDate(c) ==
    /\ At(c, "idle") /\ cursor[c] = Tip[c]
    /\ UNCHANGED vars

-----------------------------------------------------------------------------
(* insert_blocks of the one-block batch, and set_cursor_height. *)

\* Cache row, then one transaction for the block and its sibling row.
InsertCommit(c) ==
    LET h == task[c].at IN
    /\ At(c, "insert")
    /\ cacheBlocks' = [cacheBlocks EXCEPT ![c][h] = task[c].fork]
    /\ diskBlocks' = [diskBlocks EXCEPT ![c][h] = task[c].fork]
    /\ diskSiblings' = diskSiblings \cup {<<NewParent(c), c, h>>}
    /\ Goto(c, "push_sibling")
    /\ UNCHANGED <<world, cacheSiblings, parents, cursor, gossip>>

\* Pushed unless the list already has that chain and height.
PushSibling(c) ==
    LET p == NewParent(c)
        h == task[c].at
    IN
    /\ At(c, "push_sibling")
    /\ cacheSiblings' = [cacheSiblings EXCEPT ![p] =
            IF \E s \in ListOf(p) : s[1] = c /\ s[2] = h THEN ListOf(p)
            ELSE ListOf(p) \cup {<<c, h, task[c].fork>>}]
    /\ Goto(c, "check_parent")
    /\ UNCHANGED <<world, blocks, diskSiblings, parents, cursor, gossip>>

\* contains_key and insert are two operations on cache_parents.
CheckParent(c) ==
    /\ At(c, "check_parent")
    /\ Goto(c, IF cacheParents[NewParent(c)] = "absent"
               THEN "add_parent" ELSE "set_cursor")
    /\ UNCHANGED <<world, blocks, rows, parents, cursor, gossip>>

\* A new parent is unprobed, and known in memory only.
AddParent(c) ==
    /\ At(c, "add_parent")
    /\ cacheParents' = [cacheParents EXCEPT ![NewParent(c)] = "unprobed"]
    /\ Goto(c, "set_cursor")
    /\ UNCHANGED <<world, blocks, rows, diskParents, cursor, gossip>>

\* First height of the bounded window whose last height is h.
PruneBelow(h) == (IF h > MaxKept THEN h - MaxKept ELSE 0) + 1

PruneDue(c) ==
    /\ MaxKept > 0
    /\ Below(PruneBelow(task[c].at)) \cap Stored(cacheBlocks, c) # {}

SetCursor(c) ==
    /\ At(c, "set_cursor")
    /\ cursor' = [cursor EXCEPT ![c] = task[c].at]
    /\ Goto(c, IF PruneDue(c) THEN "prune" ELSE "snapshot")
    /\ UNCHANGED <<world, blocks, rows, parents, gossip>>

-----------------------------------------------------------------------------
(* prune_before: old blocks and their sibling rows go, parents stay. *)

MutPrunedRows(c, hs) == {}
\* The sibling rows named by the stored blocks themselves.
PrunedRows(c, hs) ==
    {<<ParentOf[c][h][diskBlocks[c][h]], c, h>> : h \in hs \cap Stored(diskBlocks, c)}

PruneCommit(c) ==
    LET old == Below(PruneBelow(task[c].at)) IN
    /\ At(c, "prune")
    /\ diskBlocks' = Clear(diskBlocks, c, old)
    /\ diskSiblings' = diskSiblings \ PrunedRows(c, old)
    /\ Goto(c, "prune_cache")
    /\ UNCHANGED <<world, cacheBlocks, cacheSiblings, parents, cursor, gossip>>

\* An emptied list stays in the map.
PruneCache(c) ==
    LET old == Below(PruneBelow(task[c].at)) IN
    /\ At(c, "prune_cache")
    /\ cacheBlocks' = Clear(cacheBlocks, c, old)
    /\ cacheSiblings' = Without(c, old, ParentsAt(cacheBlocks, c, old))
    /\ Goto(c, "snapshot")
    /\ UNCHANGED <<world, diskBlocks, diskSiblings, parents, cursor, gossip>>

-----------------------------------------------------------------------------
(* rollback_from. *)

MutRolledBackRows(c, from) ==
    {r \in diskSiblings : cacheParents[r[1]] # "absent" /\ r[2] = c}
\* Sibling rows of the chain from the cut up, under the parents in memory.
RolledBackRows(c, from) ==
    {r \in diskSiblings : cacheParents[r[1]] # "absent" /\ r[2] = c /\ r[3] >= from}

RollbackCommit(c) ==
    LET from == task[c].at IN
    /\ At(c, "rollback")
    /\ diskBlocks' = Clear(diskBlocks, c, From(from))
    /\ diskSiblings' = diskSiblings \ RolledBackRows(c, from)
    /\ Goto(c, "rollback_cache")
    /\ UNCHANGED <<world, cacheBlocks, cacheSiblings, parents, cursor, gossip>>

\* The parents of the blocks removed from memory are visited next.
RollbackCache(c) ==
    LET gone == From(task[c].at) IN
    /\ At(c, "rollback_cache")
    /\ cacheBlocks' = Clear(cacheBlocks, c, gone)
    /\ task' = [task EXCEPT ![c].pc = "retain",
                            ![c].todo = ParentsAt(cacheBlocks, c, gone)]
    /\ UNCHANGED <<world, diskBlocks, rows, parents, cursor, gossip>>

\* The parent has lost its last leg.
Emptied(p, lists) == lists[p] = {}

\* Drop the chain's legs from one parent's list.
Retain(c, p) ==
    LET lists == Without(c, From(task[c].at), {p}) IN
    /\ At(c, "retain") /\ p \in task[c].todo
    /\ cacheSiblings' = lists
    /\ task' = [task EXCEPT ![c].todo = @ \ {p},
                    ![c].found = IF Emptied(p, lists) THEN @ \cup {p} ELSE @]
    /\ UNCHANGED <<world, blocks, diskSiblings, parents, cursor, gossip>>

RetainDone(c) ==
    /\ At(c, "retain") /\ task[c].todo = {}
    /\ task' = [task EXCEPT ![c].pc = "forget", ![c].todo = task[c].found,
                            ![c].found = {}]
    /\ UNCHANGED <<world, blocks, rows, parents, cursor, gossip>>

\* An emptied parent is forgotten: its list, its entry, then its row.
ForgetList(c, p) ==
    /\ At(c, "forget") /\ p \in task[c].todo
    /\ cacheSiblings' = [cacheSiblings EXCEPT ![p] = Nil]
    /\ task' = [task EXCEPT ![c].pc = "forget_parent", ![c].par = p,
                            ![c].todo = @ \ {p}]
    /\ UNCHANGED <<world, blocks, diskSiblings, parents, cursor, gossip>>

ForgetParent(c) ==
    /\ At(c, "forget_parent")
    /\ cacheParents' = [cacheParents EXCEPT ![task[c].par] = "absent"]
    /\ Goto(c, "forget_row")
    /\ UNCHANGED <<world, blocks, rows, diskParents, cursor, gossip>>

ForgetRow(c) ==
    /\ At(c, "forget_row")
    /\ diskParents' = [diskParents EXCEPT ![task[c].par] = "absent"]
    /\ Goto(c, "forget")
    /\ UNCHANGED <<world, blocks, rows, cacheParents, cursor, gossip>>

\* The cursor, if it is at or above the cut.
Rewind(c) ==
    /\ At(c, "forget") /\ task[c].todo = {}
    /\ cursor' = [cursor EXCEPT ![c] = IF @ >= task[c].at THEN task[c].at - 1 ELSE @]
    /\ Goto(c, "snapshot")
    /\ UNCHANGED <<world, blocks, rows, parents, gossip>>

-----------------------------------------------------------------------------
(* classify_pending_parents: all unprobed parents, whoever inserted them. *)

MutUnclassified == {p \in Parent : diskParents[p] = "unprobed"}
Unclassified == {p \in Parent : cacheParents[p] = "unprobed"}

\* `pending` was stored: the tick's batch has a head to announce.
AfterClassify(c) == IF task[c].fork # Nil THEN "announce_tip" ELSE "announce"

Snapshot(c) ==
    /\ At(c, "snapshot")
    /\ task' = [task EXCEPT ![c].todo = Unclassified, ![c].found = {},
            ![c].par = Nil,
            ![c].pc = IF Unclassified = {} THEN AfterClassify(c) ELSE "resolve"]
    /\ UNCHANGED <<world, blocks, rows, parents, cursor, gossip>>

\* resolve: a height for a mainnet block, None for any other and for no answer.
Resolved(p) == p \in Mainnet /\ resolverUp

\* join_all of the probes: every verdict is in before the first is recorded.
Resolve(c) ==
    /\ At(c, "resolve")
    /\ task' = [task EXCEPT ![c].pc = "classify",
                            ![c].found = {p \in task[c].todo : Resolved(p)}]
    /\ UNCHANGED <<world, blocks, rows, parents, cursor, gossip>>

Verdict(c, p) == IF p \in task[c].found THEN "mainnet" ELSE "trial"

\* classify_parent, memory: only an entry that is still there is updated.
Classify(c, p) ==
    /\ At(c, "classify") /\ p \in task[c].todo
    /\ cacheParents' = [cacheParents EXCEPT ![p] =
            IF @ = "absent" THEN @ ELSE Verdict(c, p)]
    /\ task' = [task EXCEPT ![c].pc = "classify_commit", ![c].par = p,
                            ![c].todo = @ \ {p}]
    /\ UNCHANGED <<world, blocks, rows, diskParents, cursor, gossip>>

\* What the transaction writes: the entry as it is by then, if it is there.
RowOf(p) == IF cacheParents[p] = "absent" THEN diskParents[p] ELSE cacheParents[p]

ClassifyCommit(c) ==
    LET p == task[c].par IN
    /\ At(c, "classify_commit")
    /\ diskParents' = [diskParents EXCEPT ![p] = RowOf(p)]
    /\ task' = [task EXCEPT ![c].pc = IF task[c].todo = {} THEN AfterClassify(c)
                                      ELSE "classify",
                            ![c].par = Nil]
    /\ UNCHANGED <<world, blocks, rows, cacheParents, cursor, gossip>>

-----------------------------------------------------------------------------
(* chain_loop's announcements. *)

\* get_parent: a miss in memory is filled from the table.
GetParent(p) == IF cacheParents[p] = "absent" THEN diskParents[p] ELSE cacheParents[p]

\* announce_batch_tip; only its effect on cache_parents is kept.
AnnounceTip(c) ==
    /\ At(c, "announce_tip")
    /\ cacheParents' = [cacheParents EXCEPT ![NewParent(c)] = GetParent(NewParent(c))]
    /\ Goto(c, "announce")
    /\ UNCHANGED <<world, blocks, rows, diskParents, cursor, gossip>>

MutFirstTime(p) == TRUE
FirstTime(p) == p \notin announced

\* announce_sibling_group: the set is marked first, under its mutex.
AnnounceMark(c, p) ==
    /\ At(c, "announce") /\ p \in task[c].found
    /\ announced' = announced \cup {p}
    /\ task' = [task EXCEPT ![c].found = @ \ {p},
            ![c].par = IF FirstTime(p) THEN p ELSE Nil,
            ![c].pc = IF FirstTime(p) THEN "announce_send" ELSE "announce"]
    /\ UNCHANGED <<world, blocks, rows, parents, cursor, sent>>

\* siblings_for_parent: the list in memory, else the rows that join to a block.
SiblingChains(p) ==
    IF cacheSiblings[p] # Nil
    THEN {s[1] : s \in cacheSiblings[p]}
    ELSE {r[2] : r \in {q \in diskSiblings : q[1] = p /\ diskBlocks[q[2]][q[3]] # Nil}}

\* Only groups of at least two chains under a mainnet parent are advertised.
Provable(p) == GetParent(p) = "mainnet" /\ Cardinality(SiblingChains(p)) >= 2

AnnounceSend(c) ==
    LET p == task[c].par IN
    /\ At(c, "announce_send")
    /\ cacheParents' = [cacheParents EXCEPT ![p] = GetParent(p)]
    /\ sent' = [sent EXCEPT ![p] = IF Provable(p) /\ @ < MaxSent THEN @ + 1 ELSE @]
    /\ task' = [task EXCEPT ![c].pc = "announce", ![c].par = Nil]
    /\ UNCHANGED <<world, blocks, rows, diskParents, cursor, announced>>

EndTick(c) ==
    /\ At(c, "announce") /\ task[c].found = {}
    /\ task' = [task EXCEPT ![c] = Idle]
    /\ UNCHANGED <<world, blocks, rows, parents, cursor, gossip>>

-----------------------------------------------------------------------------
(* The process dies and is restarted: warm_up_cache reloads the tables, the *)
(* sibling lists from the blocks, the parents from the classified rows.     *)

WarmLists ==
    [p \in Parent |->
        LET legs == {s \in Legs : diskBlocks[s[1]][s[2]] = s[3]
                                  /\ ParentOf[s[1]][s[2]][s[3]] = p}
        IN IF legs = {} THEN Nil ELSE legs]

Crash ==
    /\ cacheBlocks' = diskBlocks
    /\ cacheSiblings' = WarmLists
    /\ cacheParents' = diskParents
    /\ announced' = {}
    /\ task' = [c \in Chain |-> Idle]
    /\ UNCHANGED <<world, diskBlocks, diskSiblings, diskParents, cursor, sent>>

-----------------------------------------------------------------------------

Insert(c) == InsertCommit(c) \/ PushSibling(c) \/ CheckParent(c) \/ AddParent(c)
                 \/ SetCursor(c) \/ PruneCommit(c) \/ PruneCache(c)
Rollback(c) == RollbackCommit(c) \/ RollbackCache(c) \/ RetainDone(c)
                 \/ ForgetParent(c) \/ ForgetRow(c) \/ Rewind(c)
                 \/ \E p \in Parent : Retain(c, p) \/ ForgetList(c, p)
Probe(c) == Snapshot(c) \/ Resolve(c) \/ ClassifyCommit(c)
                 \/ \E p \in Parent : Classify(c, p)
Announce(c) == AnnounceTip(c) \/ AnnounceSend(c) \/ EndTick(c)
                 \/ \E p \in Parent : AnnounceMark(c, p)

Step(c) == TickInsert(c) \/ TickRollback(c) \/ TickHalt(c) \/ UpToDate(c)
               \/ Insert(c) \/ Rollback(c) \/ Probe(c) \/ Announce(c)

World == ResolverFlips \/ \E c \in Chain, f \in Fork : Reorg(c, f)

Next == World \/ \E c \in Chain : Step(c)

Spec      == Init /\ [][Next]_vars
CrashSpec == Init /\ [][Next \/ Crash]_vars

\* chain_loop runs for ever, and a task that can move is scheduled.
FairSpec  == Spec /\ \A c \in Chain : WF_vars(Step(c))

-----------------------------------------------------------------------------
(* Properties. *)

Joins(r) == diskBlocks[r[2]][r[3]] # Nil

\* The row a stored block is found by.
RowAt(c, h) == <<ParentOf[c][h][diskBlocks[c][h]], c, h>>

(***************************************************************************)
(* Every stored block is found under its parent, whatever is interrupted:  *)
(* insert_blocks, rollback_from and prune_before change the two tables in  *)
(* one transaction and never take a row a remaining block needs.           *)
(***************************************************************************)
SiblingsFound ==
    \A c \in Chain, h \in Heights :
        diskBlocks[c][h] # Nil => RowAt(c, h) \in diskSiblings

(***************************************************************************)
(* sibling_index holds exactly the rows of the stored blocks: rollback_from*)
(* derives the rows it deletes from the parents in memory, prune_before    *)
(* from the blocks, and both come out right.                               *)
(***************************************************************************)
IndexExact ==
    /\ SiblingsFound
    /\ \A r \in diskSiblings : Joins(r) /\ r = RowAt(r[2], r[3])

Settled(c) == task[c].pc \in {"idle", "snapshot", "resolve", "classify",
                              "classify_commit", "announce_tip", "announce",
                              "announce_send"}

\* No other chain reorganises, so no other task forgets parents.
Undisturbed(c) == MayReorg \subseteq {c}

(***************************************************************************)
(* Between two changes of the store by a task, the lists in memory         *)
(* (cache_siblings) hold exactly the stored blocks of its chain, and the   *)
(* parent of each is known (has an entry in cache_parents, without which   *)
(* it is never classified), provided no other chain rolls back:            *)
(* rollback_from forgets an emptied parent in several steps, and a block   *)
(* another task pushes in between is lost.                                 *)
(***************************************************************************)
ListsExact ==
    \A c \in Chain : Settled(c) /\ Undisturbed(c) =>
        /\ \A p \in Parent : \A s \in ListOf(p) :
            s[1] = c => diskBlocks[c][s[2]] = s[3] /\ RowAt(c, s[2])[1] = p
        /\ \A h \in Stored(diskBlocks, c) :
            <<c, h, diskBlocks[c][h]>> \in ListOf(RowAt(c, h)[1])
        /\ \A p \in ParentsAt(diskBlocks, c, Heights) : cacheParents[p] # "absent"

(***************************************************************************)
(* A parent recorded or announced as mainnet is one, and its group is      *)
(* gossiped once at most, across all the chains' tasks.                    *)
(***************************************************************************)
AnnouncedOnce ==
    \A p \in Parent :
        /\ cacheParents[p] = "mainnet" \/ diskParents[p] = "mainnet" => p \in Mainnet
        /\ sent[p] > 0 => p \in Mainnet
        /\ sent[p] <= 1

(***************************************************************************)
(* A parent that is known and really is a mainnet block is classified so   *)
(* (in cache_parents, which answers every request), unless a rollback      *)
(* forgets it, provided the explorer stays up from some point on.  Its row *)
(* need not follow: get_parent of one task may bring the entry back between*)
(* rollback_from's removal of the entry and that of the row.               *)
(***************************************************************************)
EventuallyClassified ==
    <>[]resolverUp => \A p \in Mainnet :
        cacheParents[p] # "absent"
            ~> cacheParents[p] \in {"mainnet", "absent"}

(***************************************************************************)
(* A mainnet parent with legs of two chains in memory gets announced.      *)
(***************************************************************************)
EventuallyAnnounced ==
    \A p \in Mainnet :
        Cardinality({s[1] : s \in ListOf(p)}) >= 2 ~> sent[p] > 0
=============================================================================
