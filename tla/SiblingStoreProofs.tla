------------------------- MODULE SiblingStoreProofs -------------------------
(***************************************************************************)
(* Proofs about SiblingStore for any number of chains, heights, forks and  *)
(* parents.  With restarts at any point: the types, and that no stored     *)
(* block is missing from the sibling index.  Without restarts: groups are  *)
(* announced once at most and truthfully, the lists in memory are exact for*)
(* a chain no other chain's roll-back disturbs, and the index is exact when*)
(* at most one chain's node switches forks.                                *)
(***************************************************************************)
EXTENDS SiblingStore, TLAPS

\* The table aux_blocks is keyed by chain and height.
Keyed ==
    /\ DOMAIN diskBlocks = Chain
    /\ \A c \in Chain : DOMAIN diskBlocks[c] = Heights
    /\ diskBlocks = [c \in Chain |-> [h \in Heights |-> diskBlocks[c][h]]]

FoundInv == Keyed /\ SiblingsFound

\* A fresh database has no blocks to find.
LEMMA FoundInit == Init => FoundInv
  BY DEF Init, NoBlocks, FoundInv, Keyed, SiblingsFound

\* Clearing heights of one chain leaves the other rows of the table alone.
LEMMA ClearRows ==
  ASSUME Keyed, NEW c \in Chain, NEW hs, diskBlocks' = Clear(diskBlocks, c, hs)
  PROVE  /\ Keyed'
         /\ \A d \in Chain, h \in Heights :
                diskBlocks'[d][h] = IF d = c /\ h \in hs THEN Nil ELSE diskBlocks[d][h]
  BY DEF Keyed, Clear

\* insert_blocks writes the row with the block.
LEMMA FoundInsert ==
  ASSUME FoundInv, NEW c \in Chain, InsertCommit(c)
  PROVE  FoundInv'
  <1> DEFINE k == task[c].at
             f == task[c].fork
  <1>1. diskBlocks' = [diskBlocks EXCEPT ![c][k] = f]
    BY DEF InsertCommit
  <1>2. diskSiblings' = diskSiblings \cup {<<ParentOf[c][k][f], c, k>>}
    BY DEF InsertCommit, NewParent
  <1>3. Keyed'
    BY <1>1 DEF FoundInv, Keyed
  <1>4. \A d \in Chain, h \in Heights :
            diskBlocks'[d][h] = IF d = c /\ h = k THEN f ELSE diskBlocks[d][h]
    BY <1>1 DEF FoundInv, Keyed
  <1>5. SiblingsFound'
    BY <1>2, <1>4 DEF FoundInv, SiblingsFound, RowAt
  <1> QED BY <1>3, <1>5 DEF FoundInv

\* prune_before deletes the rows of the blocks it deletes, and no others.
LEMMA FoundPrune ==
  ASSUME FoundInv, NEW c \in Chain, PruneCommit(c)
  PROVE  FoundInv'
  <1> DEFINE old == Below(PruneBelow(task[c].at))
  <1>1. /\ diskBlocks' = Clear(diskBlocks, c, old)
        /\ diskSiblings' = diskSiblings \ PrunedRows(c, old)
    BY DEF PruneCommit
  <1>2. /\ Keyed'
        /\ \A d \in Chain, h \in Heights :
              diskBlocks'[d][h] = IF d = c /\ h \in old THEN Nil ELSE diskBlocks[d][h]
    BY <1>1, ClearRows DEF FoundInv
  <1>3. \A r \in PrunedRows(c, old) : r[2] = c /\ r[3] \in old
    BY DEF PrunedRows
  <1>4. SiblingsFound'
    BY <1>1, <1>2, <1>3 DEF FoundInv, SiblingsFound, RowAt
  <1> QED BY <1>2, <1>4 DEF FoundInv

\* rollback_from deletes rows of the chain from the cut up, where no block
\* of it remains.
LEMMA FoundRollback ==
  ASSUME FoundInv, NEW c \in Chain, RollbackCommit(c)
  PROVE  FoundInv'
  <1> DEFINE from == task[c].at
  <1>1. /\ diskBlocks' = Clear(diskBlocks, c, From(from))
        /\ diskSiblings' = diskSiblings \ RolledBackRows(c, from)
    BY DEF RollbackCommit
  <1>2. /\ Keyed'
        /\ \A d \in Chain, h \in Heights :
              diskBlocks'[d][h] = IF d = c /\ h \in From(from) THEN Nil
                                  ELSE diskBlocks[d][h]
    BY <1>1, ClearRows DEF FoundInv
  <1>3. \A r \in RolledBackRows(c, from) : r[2] = c /\ r[3] >= from
    BY DEF RolledBackRows
  <1>4. SiblingsFound'
    <2> SUFFICES ASSUME NEW d \in Chain, NEW h \in Heights, diskBlocks'[d][h] # Nil
                 PROVE  RowAt(d, h)' \in diskSiblings'
      BY DEF SiblingsFound
    <2>1. ~ (d = c /\ h \in From(from)) /\ diskBlocks'[d][h] = diskBlocks[d][h]
      BY <1>2
    <2>2. RowAt(d, h)' = RowAt(d, h) /\ RowAt(d, h) \in diskSiblings
      BY <2>1 DEF FoundInv, SiblingsFound, RowAt
    <2>3. RowAt(d, h) \notin RolledBackRows(c, from)
      BY <2>1, <1>3 DEF From, RowAt
    <2> QED BY <1>1, <2>2, <2>3
  <1> QED BY <1>2, <1>4 DEF FoundInv

\* Every other step leaves both tables alone.
LEMMA FoundUnchanged ==
  ASSUME FoundInv, UNCHANGED <<diskBlocks, diskSiblings>>
  PROVE  FoundInv'
  BY DEF FoundInv, Keyed, SiblingsFound, RowAt

\* Every step, and a restart, preserves the invariant.
LEMMA FoundStep ==
  ASSUME FoundInv, [Next \/ Crash]_vars
  PROVE  FoundInv'
  <1>1. CASE World
    BY <1>1, FoundUnchanged DEF World, ResolverFlips, Reorg, blocks, rows
  <1>2. CASE Crash
    BY <1>2, FoundUnchanged DEF Crash
  <1>3. CASE UNCHANGED vars
    BY <1>3, FoundUnchanged DEF vars, blocks, rows
  <1>4. ASSUME NEW c \in Chain, Step(c)
        PROVE  FoundInv'
    <2>1. CASE TickInsert(c) \/ TickRollback(c) \/ TickHalt(c) \/ UpToDate(c)
      BY <2>1, FoundUnchanged
         DEF TickInsert, TickRollback, TickHalt, UpToDate, vars, blocks, rows
    <2>2. CASE Insert(c)
      <3>1. CASE PushSibling(c) \/ CheckParent(c) \/ AddParent(c)
                     \/ SetCursor(c) \/ PruneCache(c)
        BY <3>1, FoundUnchanged
           DEF PushSibling, CheckParent, AddParent, SetCursor, PruneCache, blocks, rows
      <3> QED BY <2>2, <3>1, FoundInsert, FoundPrune DEF Insert
    <2>3. CASE Rollback(c)
      <3>1. CASE RollbackCache(c) \/ RetainDone(c) \/ ForgetParent(c)
                     \/ ForgetRow(c) \/ Rewind(c)
        BY <3>1, FoundUnchanged
           DEF RollbackCache, RetainDone, ForgetParent, ForgetRow, Rewind, blocks, rows
      <3>2. ASSUME NEW p \in Parent, Retain(c, p) \/ ForgetList(c, p)
            PROVE  FoundInv'
        BY <3>2, FoundUnchanged DEF Retain, ForgetList, blocks
      <3> QED BY <2>3, <3>1, <3>2, FoundRollback DEF Rollback
    <2>4. CASE Probe(c)
      <3>1. ASSUME NEW p \in Parent, Classify(c, p)
            PROVE  FoundInv'
        BY <3>1, FoundUnchanged DEF Classify, blocks, rows
      <3>2. CASE Snapshot(c) \/ Resolve(c) \/ ClassifyCommit(c)
        BY <3>2, FoundUnchanged DEF Snapshot, Resolve, ClassifyCommit, blocks, rows
      <3> QED BY <2>4, <3>1, <3>2 DEF Probe
    <2>5. CASE Announce(c)
      <3>1. ASSUME NEW p \in Parent, AnnounceMark(c, p)
            PROVE  FoundInv'
        BY <3>1, FoundUnchanged DEF AnnounceMark, blocks, rows
      <3>2. CASE AnnounceTip(c) \/ AnnounceSend(c) \/ EndTick(c)
        BY <3>2, FoundUnchanged DEF AnnounceTip, AnnounceSend, EndTick, blocks, rows
      <3> QED BY <2>5, <3>1, <3>2 DEF Announce
    <2> QED BY <1>4, <2>1, <2>2, <2>3, <2>4, <2>5 DEF Step
  <1> QED BY <1>1, <1>2, <1>3, <1>4 DEF Next

(***************************************************************************)
(* Every stored block is found under its parent in sibling_index, however  *)
(* many chains insert, roll back and prune at once and wherever the process*)
(* is killed.                                                              *)
(***************************************************************************)
THEOREM SiblingsFoundTheorem == CrashSpec => []SiblingsFound
  <1>1. Init => FoundInv
    BY FoundInit
  <1>2. FoundInv /\ [Next \/ Crash]_vars => FoundInv'
    BY FoundStep
  <1>3. FoundInv => SiblingsFound
    BY DEF FoundInv
  <1> QED BY <1>1, <1>2, <1>3, PTL DEF CrashSpec

-----------------------------------------------------------------------------
(* Types and the shape of a task. *)

Pushing     == {"push_sibling", "check_parent", "add_parent", "set_cursor"}
Removed     == {"retain", "forget", "forget_parent", "forget_row"}
RollingBack == {"rollback", "rollback_cache"} \cup Removed
Holding     == {"forget_parent", "forget_row", "classify_commit", "announce_send"}

\* What the place of a task in its tick says of its locals.
Shape(c) ==
    /\ task[c].fork # Nil => task[c].at \in Heights
    /\ task[c].pc \in {"insert"} \cup Pushing =>
         task[c].fork # Nil /\ task[c].at = cursor[c] + 1
    /\ task[c].pc \in {"prune", "prune_cache"} =>
         task[c].fork # Nil /\ task[c].at = cursor[c]
    /\ task[c].pc = "announce_tip" => task[c].fork # Nil
    /\ task[c].pc \in RollingBack => task[c].at = cursor[c] /\ task[c].at \in Heights
    /\ task[c].pc \in {"rollback", "rollback_cache"} => task[c].found = {}
    /\ task[c].pc \in Holding => task[c].par \in Parent

Shapes == \A c \in Chain : Shape(c)

LEMMA Bounds ==
  /\ MaxHeight \in Nat /\ MaxKept \in Nat /\ Heights = 1 .. MaxHeight
  /\ \A c \in Chain : Tip[c] \in 0 .. MaxHeight
  /\ \A c \in Chain, h \in Heights, f \in Fork : ParentOf[c][h][f] \in Parent
  /\ Nil \notin Fork /\ Nil \notin Parent /\ Mainnet \subseteq Parent
  BY SiblingAssumption DEF Heights

\* A task in the middle of an insertion has a block in hand.
LEMMA InHand ==
  ASSUME TypeOK, NEW c \in Chain, Shape(c), task[c].fork # Nil
  PROVE  /\ task[c].at \in Heights /\ task[c].fork \in Fork /\ NewParent(c) \in Parent
  BY Bounds DEF TypeOK, Task, Shape, NewParent

TaskMoves(c) ==
    /\ task' \in [Chain -> Task]
    /\ \A d \in Chain \ {c} : task'[d] = task[d]

LEMMA IdleIsTask == Idle \in Task
  BY Bounds DEF Idle, Task, Pcs

\* Steps that only move the task.
LEMMA MovesQuiet ==
  ASSUME TypeOK, Shapes, NEW c \in Chain,
         \/ TickInsert(c) \/ TickRollback(c) \/ TickHalt(c) \/ CheckParent(c)
         \/ RetainDone(c) \/ Snapshot(c) \/ Resolve(c) \/ EndTick(c) \/ UpToDate(c)
  PROVE  TaskMoves(c)
  <1>1. task \in [Chain -> Task] /\ task[c] \in Task /\ cursor[c] \in 0 .. MaxHeight
        /\ node[c] \in Fork
    BY DEF TypeOK
  <1>2. CASE TickInsert(c)
    <2>1. cursor[c] + 1 \in 0 .. MaxHeight
      BY <1>1, <1>2, Bounds DEF TickInsert
    <2>2. [Idle EXCEPT !.pc = "insert", !.at = NextHeight(c), !.fork = node[c]] \in Task
      BY <1>1, <2>1 DEF Idle, Task, Pcs, NextHeight
    <2> QED BY <1>1, <1>2, <2>2 DEF TickInsert, TaskMoves
  <1>3. CASE TickRollback(c)
    <2>1. [Idle EXCEPT !.pc = "rollback", !.at = cursor[c]] \in Task
      BY <1>1 DEF Idle, Task, Pcs
    <2> QED BY <1>1, <1>3, <2>1 DEF TickRollback, TaskMoves
  <1>4. CASE TickHalt(c)
    BY <1>1, <1>4 DEF TickHalt, Goto, TaskMoves, Task, Pcs
  <1>5. CASE CheckParent(c)
    BY <1>1, <1>5 DEF CheckParent, Goto, TaskMoves, Task, Pcs
  <1>6. CASE RetainDone(c)
    BY <1>1, <1>6 DEF RetainDone, TaskMoves, Task, Pcs
  <1>7. CASE Snapshot(c)
    BY <1>1, <1>7 DEF Snapshot, TaskMoves, Task, Pcs, Unclassified, AfterClassify
  <1>8. CASE Resolve(c)
    BY <1>1, <1>8 DEF Resolve, TaskMoves, Task, Pcs
  <1>9. CASE EndTick(c)
    BY <1>1, <1>9, IdleIsTask DEF EndTick, TaskMoves
  <1>10. CASE UpToDate(c)
    BY <1>1, <1>10 DEF UpToDate, TaskMoves, vars
  <1> QED BY <1>2, <1>3, <1>4, <1>5, <1>6, <1>7, <1>8, <1>9, <1>10

\* Steps that change the store or the books as well.
LEMMA MovesRest ==
  ASSUME TypeOK, Shapes, NEW c \in Chain,
         \/ InsertCommit(c) \/ PushSibling(c) \/ AddParent(c) \/ SetCursor(c)
         \/ PruneCommit(c) \/ PruneCache(c) \/ RollbackCommit(c) \/ RollbackCache(c)
         \/ ForgetParent(c) \/ ForgetRow(c) \/ Rewind(c) \/ ClassifyCommit(c)
         \/ AnnounceTip(c) \/ AnnounceSend(c)
         \/ \E p \in Parent : \/ Retain(c, p) \/ ForgetList(c, p) \/ Classify(c, p)
                              \/ AnnounceMark(c, p)
  PROVE  TaskMoves(c)
  <1>1. task \in [Chain -> Task] /\ task[c] \in Task
    BY DEF TypeOK
  <1>2. CASE \/ InsertCommit(c) \/ PushSibling(c) \/ AddParent(c) \/ SetCursor(c)
             \/ PruneCommit(c) \/ PruneCache(c) \/ RollbackCommit(c)
             \/ ForgetParent(c) \/ ForgetRow(c) \/ Rewind(c) \/ AnnounceTip(c)
    <2>1. \E label \in Pcs : task' = [task EXCEPT ![c].pc = label]
      BY <1>2 DEF InsertCommit, PushSibling, AddParent, SetCursor, PruneCommit, PruneCache,
                  RollbackCommit, ForgetParent, ForgetRow, Rewind, AnnounceTip, Goto, Pcs
    <2> QED BY <1>1, <2>1 DEF TaskMoves, Task
  <1>3. CASE RollbackCache(c)
    <2>1. ParentsAt(cacheBlocks, c, From(task[c].at)) \subseteq Parent
      BY Bounds DEF ParentsAt, Stored, TypeOK
    <2> QED BY <1>1, <1>3, <2>1 DEF RollbackCache, TaskMoves, Task, Pcs
  <1>4. CASE ClassifyCommit(c)
    BY <1>1, <1>4 DEF ClassifyCommit, AfterClassify, TaskMoves, Task, Pcs
  <1>5. CASE AnnounceSend(c)
    BY <1>1, <1>5 DEF AnnounceSend, TaskMoves, Task, Pcs
  <1>6. ASSUME NEW p \in Parent, Retain(c, p) PROVE TaskMoves(c)
    BY <1>1, <1>6 DEF Retain, TaskMoves, Task, Pcs
  <1>7. ASSUME NEW p \in Parent, ForgetList(c, p) PROVE TaskMoves(c)
    BY <1>1, <1>7 DEF ForgetList, TaskMoves, Task, Pcs
  <1>8. ASSUME NEW p \in Parent, Classify(c, p) PROVE TaskMoves(c)
    BY <1>1, <1>8 DEF Classify, TaskMoves, Task, Pcs
  <1>9. ASSUME NEW p \in Parent, AnnounceMark(c, p) PROVE TaskMoves(c)
    BY <1>1, <1>9 DEF AnnounceMark, TaskMoves, Task, Pcs
  <1> QED BY <1>2, <1>3, <1>4, <1>5, <1>6, <1>7, <1>8, <1>9

\* Clearing heights keeps the type of a table.
LEMMA ClearType ==
  ASSUME NEW bs \in [Chain -> [Heights -> Fork \cup {Nil}]], NEW c \in Chain, NEW hs
  PROVE  Clear(bs, c, hs) \in [Chain -> [Heights -> Fork \cup {Nil}]]
  <1>1. [h \in Heights |-> IF h \in hs THEN Nil ELSE bs[c][h]] \in [Heights -> Fork \cup {Nil}]
    OBVIOUS
  <1> QED BY <1>1 DEF Clear

\* Lists change one at a time or by losing legs.
ListsTyped ==
    /\ DOMAIN cacheSiblings = Parent
    /\ \A p \in Parent : cacheSiblings[p] = Nil \/ cacheSiblings[p] \subseteq Legs

LEMMA WithoutType ==
  ASSUME ListsTyped, NEW c, NEW hs, NEW ps, cacheSiblings' = Without(c, hs, ps)
  PROVE  ListsTyped'
  BY DEF ListsTyped, Without

LEMMA TypeByTask ==
  ASSUME TypeOK, Shapes, NEW c \in Chain, Step(c)
  PROVE  TaskMoves(c)
  BY MovesQuiet, MovesRest DEF Step, Insert, Rollback, Probe, Announce

\* Everything but the tasks' locals has its type.
StoreTyped ==
    /\ diskBlocks \in [Chain -> [Heights -> Fork \cup {Nil}]]
    /\ cacheBlocks \in [Chain -> [Heights -> Fork \cup {Nil}]]
    /\ diskSiblings \subseteq Parent \X Chain \X Heights

BooksTyped ==
    /\ node \in [Chain -> Fork] /\ resolverUp \in BOOLEAN
    /\ diskParents \in [Parent -> State] /\ cacheParents \in [Parent -> State]
    /\ cursor \in [Chain -> 0 .. MaxHeight]
    /\ announced \subseteq Parent /\ sent \in [Parent -> 0 .. MaxSent]

LEMMA TypeParts ==
  TypeOK <=> StoreTyped /\ BooksTyped /\ ListsTyped /\ task \in [Chain -> Task]
  BY DEF TypeOK, StoreTyped, BooksTyped, ListsTyped

\* The tables.
LEMMA StoreTypeStep ==
  ASSUME TypeOK, Shapes, NEW c \in Chain, Step(c)
  PROVE  StoreTyped'
  <1>1. StoreTyped /\ Shape(c)
    BY TypeParts DEF Shapes
  <1>2. CASE UNCHANGED <<diskBlocks, cacheBlocks, diskSiblings>>
    BY <1>1, <1>2 DEF StoreTyped
  <1>3. CASE InsertCommit(c)
    <2>1. task[c].at \in Heights /\ task[c].fork \in Fork /\ NewParent(c) \in Parent
      BY <1>1, <1>3, InHand DEF InsertCommit, At, Shape
    <2> QED BY <1>1, <1>3, <2>1 DEF InsertCommit, StoreTyped
  <1>4. CASE PruneCommit(c)
    BY <1>1, <1>4, ClearType DEF PruneCommit, StoreTyped
  <1>5. CASE PruneCache(c)
    BY <1>1, <1>5, ClearType DEF PruneCache, StoreTyped
  <1>6. CASE RollbackCommit(c)
    BY <1>1, <1>6, ClearType DEF RollbackCommit, StoreTyped
  <1>7. CASE RollbackCache(c)
    BY <1>1, <1>7, ClearType DEF RollbackCache, StoreTyped, rows
  <1>8. CASE \/ TickInsert(c) \/ TickRollback(c) \/ TickHalt(c) \/ UpToDate(c)
             \/ PushSibling(c) \/ CheckParent(c) \/ AddParent(c) \/ SetCursor(c)
             \/ RetainDone(c) \/ ForgetParent(c) \/ ForgetRow(c) \/ Rewind(c)
             \/ \E p \in Parent : Retain(c, p) \/ ForgetList(c, p)
    BY <1>2, <1>8 DEF TickInsert, TickRollback, TickHalt, UpToDate, PushSibling, CheckParent,
       AddParent, SetCursor, RetainDone, ForgetParent, ForgetRow, Rewind, Retain, ForgetList,
       vars, blocks, rows
  <1>9. CASE Probe(c) \/ Announce(c)
    BY <1>2, <1>9 DEF Probe, Announce, Snapshot, Resolve, Classify, ClassifyCommit,
       AnnounceTip, AnnounceMark, AnnounceSend, EndTick, blocks, rows
  <1> QED BY <1>3, <1>4, <1>5, <1>6, <1>7, <1>8, <1>9 DEF Step, Insert, Rollback

\* The lists.
LEMMA ListTypeStep ==
  ASSUME TypeOK, Shapes, NEW c \in Chain, Step(c)
  PROVE  ListsTyped'
  <1>1. ListsTyped /\ Shape(c)
    BY TypeParts DEF Shapes
  <1>2. CASE UNCHANGED cacheSiblings
    BY <1>1, <1>2 DEF ListsTyped
  <1>3. CASE PushSibling(c)
    <2>1. task[c].at \in Heights /\ task[c].fork \in Fork /\ NewParent(c) \in Parent
      BY <1>1, <1>3, InHand DEF PushSibling, At, Shape, Pushing
    <2>2. <<c, task[c].at, task[c].fork>> \in Legs
      BY <2>1 DEF Legs
    <2>3. ListOf(NewParent(c)) \subseteq Legs
      BY <1>1, <2>1 DEF ListsTyped, ListOf
    <2> QED BY <1>1, <1>3, <2>1, <2>2, <2>3 DEF PushSibling, ListsTyped
  <1>4. CASE PruneCache(c)
    BY <1>1, <1>4, WithoutType DEF PruneCache
  <1>5. ASSUME NEW p \in Parent, Retain(c, p) PROVE ListsTyped'
    BY <1>1, <1>5, WithoutType DEF Retain
  <1>6. ASSUME NEW p \in Parent, ForgetList(c, p) PROVE ListsTyped'
    BY <1>1, <1>6 DEF ForgetList, ListsTyped
  <1>7. CASE \/ TickInsert(c) \/ TickRollback(c) \/ TickHalt(c) \/ UpToDate(c)
             \/ InsertCommit(c) \/ CheckParent(c) \/ AddParent(c) \/ SetCursor(c)
             \/ PruneCommit(c) \/ RollbackCommit(c) \/ RollbackCache(c)
             \/ RetainDone(c) \/ ForgetParent(c) \/ ForgetRow(c) \/ Rewind(c)
    BY <1>2, <1>7 DEF TickInsert, TickRollback, TickHalt, UpToDate, InsertCommit, CheckParent,
       AddParent, SetCursor, PruneCommit, RollbackCommit, RollbackCache, RetainDone,
       ForgetParent, ForgetRow, Rewind, vars, blocks, rows
  <1>8. CASE Probe(c) \/ Announce(c)
    BY <1>2, <1>8 DEF Probe, Announce, Snapshot, Resolve, Classify, ClassifyCommit,
       AnnounceTip, AnnounceMark, AnnounceSend, EndTick, blocks, rows
  <1> QED BY <1>3, <1>4, <1>5, <1>6, <1>7, <1>8 DEF Step, Insert, Rollback

\* The parents' states, the cursors and the announcements.
LEMMA BookTypeStep ==
  ASSUME TypeOK, Shapes, NEW c \in Chain, Step(c)
  PROVE  BooksTyped'
  <1>1. BooksTyped /\ Shape(c) /\ task[c] \in Task
    BY TypeParts DEF Shapes
  <1>2. CASE UNCHANGED <<world, parents, cursor, gossip>>
    BY <1>1, <1>2 DEF BooksTyped, world, parents, gossip
  <1>3. CASE AddParent(c)
    BY <1>1, <1>3 DEF AddParent, BooksTyped, State, world, gossip
  <1>4. CASE SetCursor(c)
    BY <1>1, <1>4 DEF SetCursor, BooksTyped, Task, world, gossip, parents
  <1>5. CASE ForgetParent(c)
    BY <1>1, <1>5 DEF ForgetParent, BooksTyped, State, world, gossip
  <1>6. CASE ForgetRow(c)
    BY <1>1, <1>6 DEF ForgetRow, BooksTyped, State, world, gossip
  <1>7. CASE Rewind(c)
    BY <1>1, <1>7, Bounds DEF Rewind, BooksTyped, world, gossip, parents, Shape, RollingBack,
                      Removed, At
  <1>8. ASSUME NEW p \in Parent, Classify(c, p) PROVE BooksTyped'
    BY <1>1, <1>8 DEF Classify, BooksTyped, State, Verdict, world, gossip
  <1>9. CASE ClassifyCommit(c)
    BY <1>1, <1>9 DEF ClassifyCommit, BooksTyped, State, RowOf, world, gossip, At, Shape, Holding
  <1>10. CASE AnnounceTip(c)
    BY <1>1, <1>10, InHand DEF AnnounceTip, BooksTyped, State, GetParent, world, gossip, At, Shape
  <1>11. CASE AnnounceSend(c)
    <2>1. task[c].par \in Parent
      BY <1>1, <1>11 DEF AnnounceSend, Shape, Holding, At
    <2>2. cacheParents' \in [Parent -> State]
      BY <1>1, <1>11, <2>1 DEF AnnounceSend, BooksTyped, GetParent
    <2>3. sent' \in [Parent -> 0 .. MaxSent]
      BY <1>1, <1>11, <2>1 DEF AnnounceSend, BooksTyped, MaxSent
    <2> QED BY <1>1, <1>11, <2>2, <2>3 DEF AnnounceSend, BooksTyped, world
  <1>12. ASSUME NEW p \in Parent, AnnounceMark(c, p) PROVE BooksTyped'
    BY <1>1, <1>12 DEF AnnounceMark, BooksTyped, world, parents
  <1>13. CASE \/ TickInsert(c) \/ TickRollback(c) \/ TickHalt(c) \/ UpToDate(c)
              \/ InsertCommit(c) \/ PushSibling(c) \/ CheckParent(c)
              \/ PruneCommit(c) \/ PruneCache(c)
    BY <1>2, <1>13 DEF TickInsert, TickRollback, TickHalt, UpToDate, InsertCommit, PushSibling,
       CheckParent, PruneCommit, PruneCache, vars
  <1>14. CASE \/ RollbackCommit(c) \/ RollbackCache(c) \/ RetainDone(c)
              \/ \E p \in Parent : Retain(c, p) \/ ForgetList(c, p)
    BY <1>2, <1>14 DEF RollbackCommit, RollbackCache, RetainDone, Retain, ForgetList
  <1>15. CASE Snapshot(c) \/ Resolve(c) \/ EndTick(c)
    BY <1>2, <1>15 DEF Snapshot, Resolve, EndTick
  <1> QED BY <1>3, <1>4, <1>5, <1>6, <1>7, <1>8, <1>9, <1>10, <1>11, <1>12, <1>13, <1>14, <1>15
         DEF Step, Insert, Rollback, Probe, Announce

\* A task changes no other chain's cursor.
LEMMA OwnCursor ==
  ASSUME TypeOK, NEW c \in Chain, Step(c), NEW d \in Chain, d # c
  PROVE  cursor'[d] = cursor[d]
  <1>1. cursor \in [Chain -> 0 .. MaxHeight]
    BY DEF TypeOK
  <1>2. CASE SetCursor(c) \/ Rewind(c)
    BY <1>1, <1>2 DEF SetCursor, Rewind
  <1>3. CASE \/ TickInsert(c) \/ TickRollback(c) \/ TickHalt(c) \/ UpToDate(c)
             \/ InsertCommit(c) \/ PushSibling(c) \/ CheckParent(c) \/ AddParent(c)
             \/ PruneCommit(c) \/ PruneCache(c)
    BY <1>3 DEF TickInsert, TickRollback, TickHalt, UpToDate, InsertCommit, PushSibling,
       CheckParent, AddParent, PruneCommit, PruneCache, vars
  <1>4. CASE \/ RollbackCommit(c) \/ RollbackCache(c) \/ RetainDone(c)
             \/ ForgetParent(c) \/ ForgetRow(c)
             \/ \E p \in Parent : Retain(c, p) \/ ForgetList(c, p)
    BY <1>4 DEF RollbackCommit, RollbackCache, RetainDone, ForgetParent, ForgetRow, Retain,
       ForgetList
  <1>5. CASE Probe(c) \/ Announce(c)
    BY <1>5 DEF Probe, Announce, Snapshot, Resolve, Classify, ClassifyCommit,
       AnnounceTip, AnnounceMark, AnnounceSend, EndTick
  <1> QED BY <1>2, <1>3, <1>4, <1>5 DEF Step, Insert, Rollback

\* Each step leaves its own task in shape: insertions.
LEMMA ShapeInsert ==
  ASSUME TypeOK, NEW c \in Chain, Shape(c),
         \/ TickInsert(c) \/ TickRollback(c) \/ TickHalt(c) \/ UpToDate(c) \/ Insert(c)
  PROVE  Shape(c)'
  <1> USE DEF Pushing, Removed, RollingBack, Holding, At, Goto
  <1>1. task \in [Chain -> Task] /\ task[c] \in Task /\ cursor \in [Chain -> 0 .. MaxHeight]
        /\ cursor[c] \in 0 .. MaxHeight /\ node[c] \in Fork
    BY DEF TypeOK
  <1>2. CASE TickInsert(c)
    <2>1. /\ task'[c] = [Idle EXCEPT !.pc = "insert", !.at = cursor[c] + 1, !.fork = node[c]]
          /\ cursor' = cursor
      BY <1>1, <1>2 DEF TickInsert, NextHeight
    <2>2. cursor[c] + 1 \in Heights
      BY <1>1, <1>2, Bounds DEF TickInsert
    <2> QED BY <1>1, <2>1, <2>2, Bounds DEF Shape, Idle
  <1>3. CASE TickRollback(c)
    <2>1. /\ task'[c] = [Idle EXCEPT !.pc = "rollback", !.at = cursor[c]]
          /\ cursor' = cursor
      BY <1>1, <1>3 DEF TickRollback
    <2>2. cursor[c] \in Heights
      BY <1>1, <1>3, Bounds DEF TickRollback, Links
    <2> QED BY <1>1, <2>1, <2>2, Bounds DEF Shape, Idle
  <1>4. CASE TickHalt(c)
    BY <1>1, <1>4 DEF TickHalt, Shape, Task
  <1>5. CASE UpToDate(c)
    BY <1>5 DEF UpToDate, vars, Shape
  <1>6. CASE \/ InsertCommit(c) \/ PushSibling(c) \/ CheckParent(c) \/ AddParent(c)
             \/ PruneCommit(c) \/ PruneCache(c)
    BY <1>1, <1>6 DEF InsertCommit, PushSibling, CheckParent, AddParent, PruneCommit,
       PruneCache, Shape, Task
  <1>7. CASE SetCursor(c)
    BY <1>1, <1>7 DEF SetCursor, Shape, Task
  <1> QED BY <1>2, <1>3, <1>4, <1>5, <1>6, <1>7 DEF Insert

\* Roll-backs.
LEMMA ShapeRollback ==
  ASSUME TypeOK, NEW c \in Chain, Shape(c), Rollback(c)
  PROVE  Shape(c)'
  <1> USE DEF Pushing, Removed, RollingBack, Holding, At, Goto
  <1>1. task \in [Chain -> Task] /\ task[c] \in Task /\ cursor \in [Chain -> 0 .. MaxHeight]
    BY DEF TypeOK
  <1>2. CASE RollbackCommit(c) \/ RollbackCache(c) \/ RetainDone(c) \/ ForgetParent(c)
             \/ ForgetRow(c)
    BY <1>1, <1>2 DEF RollbackCommit, RollbackCache, RetainDone, ForgetParent, ForgetRow,
       Shape, Task
  <1>3. ASSUME NEW p \in Parent, Retain(c, p) \/ ForgetList(c, p)
        PROVE  Shape(c)'
    BY <1>1, <1>3 DEF Retain, ForgetList, Shape, Task
  <1>4. CASE Rewind(c)
    BY <1>1, <1>4 DEF Rewind, Shape, Task
  <1> QED BY <1>2, <1>3, <1>4 DEF Rollback

\* Classification and announcements.
LEMMA ShapeRest ==
  ASSUME TypeOK, NEW c \in Chain, Shape(c), Probe(c) \/ Announce(c)
  PROVE  Shape(c)'
  <1> USE DEF Pushing, Removed, RollingBack, Holding, At, Goto, AfterClassify
  <1>1. task \in [Chain -> Task] /\ task[c] \in Task /\ cursor \in [Chain -> 0 .. MaxHeight]
    BY DEF TypeOK
  <1>2. CASE Snapshot(c) \/ Resolve(c) \/ ClassifyCommit(c)
    BY <1>1, <1>2 DEF Snapshot, Resolve, ClassifyCommit, Shape, Task
  <1>3. ASSUME NEW p \in Parent, Classify(c, p) \/ AnnounceMark(c, p)
        PROVE  Shape(c)'
    BY <1>1, <1>3 DEF Classify, AnnounceMark, Shape, Task
  <1>4. CASE AnnounceTip(c) \/ AnnounceSend(c)
    BY <1>1, <1>4 DEF AnnounceTip, AnnounceSend, Shape, Task
  <1>5. CASE EndTick(c)
    BY <1>1, <1>5 DEF EndTick, Idle, Shape
  <1> QED BY <1>2, <1>3, <1>4, <1>5 DEF Probe, Announce

TypedShaped == TypeOK /\ Shapes

LEMMA TypeInit == Init => TypedShaped
  <1> SUFFICES ASSUME Init PROVE TypedShaped
    OBVIOUS
  <1>1. task \in [Chain -> Task]
    BY IdleIsTask DEF Init
  <1>2. TypeOK
    BY <1>1, Bounds DEF Init, TypeOK, NoBlocks, State, MaxSent
  <1>3. Shapes
    BY DEF Init, Shapes, Shape, Idle, Pushing, Removed, RollingBack, Holding
  <1> QED BY <1>2, <1>3 DEF TypedShaped

\* A restart reloads the caches from the tables and starts every task afresh.
LEMMA TypeCrash ==
  ASSUME TypedShaped, Crash
  PROVE  TypedShaped'
  <1>1. task' \in [Chain -> Task] /\ \A c \in Chain : task'[c] = Idle
    BY IdleIsTask DEF Crash
  <1>2. ListsTyped'
    BY DEF Crash, WarmLists, ListsTyped
  <1>3. StoreTyped' /\ BooksTyped'
    BY TypeParts DEF TypedShaped, Crash, StoreTyped, BooksTyped, world
  <1>4. Shapes'
    BY <1>1 DEF Shapes, Shape, Idle, Pushing, Removed, RollingBack, Holding
  <1> QED BY <1>1, <1>2, <1>3, <1>4, TypeParts DEF TypedShaped, TypeOK, StoreTyped, BooksTyped,
             ListsTyped

LEMMA TypeStep ==
  ASSUME TypedShaped, [Next \/ Crash]_vars
  PROVE  TypedShaped'
  <1>1. CASE World
    BY <1>1 DEF World, ResolverFlips, Reorg, TypedShaped, TypeOK, Shapes, Shape, blocks, rows,
       parents, gossip
  <1>2. CASE UNCHANGED vars
    BY <1>2 DEF vars, world, blocks, rows, parents, gossip, TypedShaped, TypeOK, Shapes, Shape
  <1>3. ASSUME NEW c \in Chain, Step(c)
        PROVE  TypedShaped'
    <2>1. StoreTyped' /\ ListsTyped' /\ BooksTyped' /\ TaskMoves(c)
      BY <1>3, StoreTypeStep, ListTypeStep, BookTypeStep, TypeByTask DEF TypedShaped
    <2>2. TypeOK'
      BY <2>1 DEF TaskMoves, TypeOK, StoreTyped, ListsTyped, BooksTyped
    <2>3. Shape(c)'
      BY <1>3, ShapeInsert, ShapeRollback, ShapeRest DEF TypedShaped, Shapes, Step
    <2>4. ASSUME NEW d \in Chain, d # c PROVE Shape(d)'
      <3>1. task'[d] = task[d] /\ cursor'[d] = cursor[d] /\ Shape(d)
        BY <1>3, <2>1, <2>4, OwnCursor DEF TaskMoves, TypedShaped, Shapes
      <3> QED BY <3>1 DEF Shape
    <2> QED BY <2>2, <2>3, <2>4 DEF TypedShaped, Shapes
  <1> QED BY <1>1, <1>2, <1>3, TypeCrash DEF Next

(***************************************************************************)
(* Every table, cache and local of the store has its type, with restarts   *)
(* at any point: no cursor leaves the heights, no task reaches a step      *)
(* without the block or the parent that step works on.                     *)
(***************************************************************************)
THEOREM TypeTheorem == CrashSpec => []TypeOK
  <1>1. TypedShaped /\ [Next \/ Crash]_vars => TypedShaped'
    BY TypeStep
  <1>2. TypedShaped => TypeOK
    BY DEF TypedShaped
  <1> QED BY TypeInit, <1>1, <1>2, PTL DEF CrashSpec

-----------------------------------------------------------------------------
(* The two copies of a chain's blocks. *)

\* The cache and the table agree except between the commit of a removal and
\* the removal from memory; no block is stored above the cursor but the one
\* being inserted, none above the cut once a roll-back has removed them.
Tables(c) ==
    /\ task[c].pc \notin {"prune_cache", "rollback_cache"} =>
         diskBlocks[c] = cacheBlocks[c]
    /\ task[c].pc = "prune_cache" => \A h \in Heights :
         diskBlocks[c][h] =
            IF h \in Below(PruneBelow(task[c].at)) THEN Nil ELSE cacheBlocks[c][h]
    /\ task[c].pc = "rollback_cache" => \A h \in Heights :
         diskBlocks[c][h] = IF h \in From(task[c].at) THEN Nil ELSE cacheBlocks[c][h]
    /\ \A h \in Heights : cacheBlocks[c][h] # Nil =>
         /\ h <= cursor[c] \/ (task[c].pc \in Pushing /\ h = task[c].at)
         /\ task[c].pc \in Removed => h < task[c].at
    /\ task[c].pc \in Pushing => cacheBlocks[c][task[c].at] = task[c].fork

\* A chain whose node never switches forks stores one fork and never rolls back.
Steady(c) ==
    c \notin MayReorg =>
        /\ task[c].pc \notin RollingBack /\ task[c].fork \in {Nil, node[c]}
        /\ \A h \in Heights : cacheBlocks[c][h] \in {Nil, node[c]}

\* A task changes no other chain's blocks, and no node.
LEMMA OwnBlocks ==
  ASSUME TypeOK, NEW c \in Chain, Step(c), NEW d \in Chain, d # c
  PROVE  cacheBlocks'[d] = cacheBlocks[d] /\ diskBlocks'[d] = diskBlocks[d]
  <1>1. StoreTyped
    BY TypeParts
  <1>2. CASE UNCHANGED blocks
    BY <1>2 DEF blocks
  <1>3. CASE \/ InsertCommit(c) \/ PruneCommit(c) \/ PruneCache(c) \/ RollbackCommit(c)
             \/ RollbackCache(c)
    BY <1>1, <1>3 DEF InsertCommit, PruneCommit, PruneCache, RollbackCommit, RollbackCache,
       Clear, StoreTyped
  <1>4. CASE \/ TickInsert(c) \/ TickRollback(c) \/ TickHalt(c) \/ UpToDate(c)
             \/ PushSibling(c) \/ CheckParent(c) \/ AddParent(c) \/ SetCursor(c)
             \/ RetainDone(c) \/ ForgetParent(c) \/ ForgetRow(c) \/ Rewind(c)
             \/ \E p \in Parent : Retain(c, p) \/ ForgetList(c, p)
    BY <1>2, <1>4 DEF TickInsert, TickRollback, TickHalt, UpToDate, PushSibling, CheckParent,
       AddParent, SetCursor, RetainDone, ForgetParent, ForgetRow, Rewind, Retain, ForgetList,
       vars
  <1>5. CASE Probe(c) \/ Announce(c)
    BY <1>2, <1>5 DEF Probe, Announce, Snapshot, Resolve, Classify, ClassifyCommit,
       AnnounceTip, AnnounceMark, AnnounceSend, EndTick
  <1> QED BY <1>3, <1>4, <1>5 DEF Step, Insert, Rollback

LEMMA SameNode ==
  ASSUME NEW c \in Chain, Step(c)
  PROVE  node' = node
  <1>1. CASE \/ TickInsert(c) \/ TickRollback(c) \/ TickHalt(c) \/ UpToDate(c) \/ Insert(c)
    BY <1>1 DEF Insert, TickInsert, TickRollback, TickHalt, UpToDate, InsertCommit, PushSibling,
       CheckParent, AddParent, SetCursor, PruneCommit, PruneCache, vars, world
  <1>2. CASE Rollback(c)
    BY <1>2 DEF Rollback, RollbackCommit, RollbackCache, RetainDone, ForgetParent, ForgetRow,
       Rewind, Retain, ForgetList, world
  <1>3. CASE Probe(c) \/ Announce(c)
    BY <1>3 DEF Probe, Announce, Snapshot, Resolve, Classify, ClassifyCommit,
       AnnounceTip, AnnounceMark, AnnounceSend, EndTick, world
  <1> QED BY <1>1, <1>2, <1>3 DEF Step

\* Clear, height by height.
LEMMA ClearAt ==
  ASSUME NEW bs \in [Chain -> [Heights -> Fork \cup {Nil}]], NEW c \in Chain, NEW hs
  PROVE  \A h \in Heights : Clear(bs, c, hs)[c][h] = IF h \in hs THEN Nil ELSE bs[c][h]
  BY DEF Clear

LEMMA TablesInsert ==
  ASSUME TypeOK, NEW c \in Chain, Shape(c), Tables(c),
         \/ TickInsert(c) \/ TickRollback(c) \/ TickHalt(c) \/ UpToDate(c) \/ Insert(c)
  PROVE  Tables(c)'
  <1> USE DEF Pushing, Removed, RollingBack, At, Goto
  <1>1. task \in [Chain -> Task] /\ task[c] \in Task /\ cursor \in [Chain -> 0 .. MaxHeight]
        /\ cursor[c] \in 0 .. MaxHeight /\ StoreTyped
    BY TypeParts DEF TypeOK
  <1>2. CASE TickInsert(c) \/ TickRollback(c) \/ TickHalt(c) \/ UpToDate(c)
    <2>1. /\ UNCHANGED <<diskBlocks, cacheBlocks, cursor>>
          /\ task'[c].pc \in {"insert", "rollback", "snapshot", "idle"}
          /\ task[c].pc = "idle"
      <3>1. CASE TickInsert(c)
        BY <1>1, <3>1 DEF TickInsert, blocks, Idle
      <3>2. CASE TickRollback(c)
        BY <1>1, <3>2 DEF TickRollback, blocks, Idle
      <3>3. CASE TickHalt(c) \/ UpToDate(c)
        BY <1>1, <3>3 DEF TickHalt, UpToDate, blocks, vars, Task
      <3> QED BY <1>2, <3>1, <3>2, <3>3
    <2> QED BY <2>1 DEF Tables
  <1>3. CASE InsertCommit(c)
    <2>1. task[c].at \in Heights /\ task[c].fork \in Fork /\ task[c].at = cursor[c] + 1
      BY <1>3, InHand DEF InsertCommit, Shape
    <2>2. /\ cacheBlocks'[c] = [cacheBlocks[c] EXCEPT ![task[c].at] = task[c].fork]
          /\ diskBlocks'[c] = [diskBlocks[c] EXCEPT ![task[c].at] = task[c].fork]
          /\ task'[c].pc = "push_sibling" /\ task'[c].at = task[c].at /\ cursor' = cursor
          /\ task'[c].fork = task[c].fork
          /\ task[c].pc = "insert"
      BY <1>1, <1>3, <2>1 DEF InsertCommit, StoreTyped, Task
    <2> QED BY <1>1, <2>1, <2>2 DEF Tables, StoreTyped
  <1>4. CASE PushSibling(c) \/ CheckParent(c) \/ AddParent(c)
    <2>1. /\ UNCHANGED <<diskBlocks, cacheBlocks, cursor>>
          /\ task'[c].pc \in Pushing /\ task[c].pc \in Pushing /\ task'[c].at = task[c].at
          /\ task'[c].fork = task[c].fork
      BY <1>1, <1>4 DEF PushSibling, CheckParent, AddParent, blocks, Task
    <2> QED BY <2>1 DEF Tables
  <1>5. CASE SetCursor(c)
    <2>1. /\ UNCHANGED <<diskBlocks, cacheBlocks>> /\ cursor'[c] = task[c].at
          /\ task'[c].pc \in {"prune", "snapshot"} /\ task[c].pc \in Pushing
          /\ task[c].at = cursor[c] + 1
      BY <1>1, <1>5 DEF SetCursor, blocks, Task, Shape
    <2> QED BY <1>1, <2>1, Bounds DEF Tables
  <1>6. CASE PruneCommit(c)
    <2>1. /\ UNCHANGED <<cacheBlocks, cursor>>
          /\ diskBlocks' = Clear(diskBlocks, c, Below(PruneBelow(task[c].at)))
          /\ task'[c].pc = "prune_cache" /\ task[c].pc = "prune" /\ task'[c].at = task[c].at
      BY <1>1, <1>6 DEF PruneCommit, Task
    <2>2. \A h \in Heights : diskBlocks'[c][h] =
            IF h \in Below(PruneBelow(task[c].at)) THEN Nil ELSE diskBlocks[c][h]
      BY <1>1, <2>1, ClearAt DEF StoreTyped
    <2> QED BY <2>1, <2>2 DEF Tables, Below, PruneBelow
  <1>7. CASE PruneCache(c)
    <2>1. /\ UNCHANGED <<diskBlocks, cursor>>
          /\ cacheBlocks' = Clear(cacheBlocks, c, Below(PruneBelow(task[c].at)))
          /\ task'[c].pc = "snapshot" /\ task[c].pc = "prune_cache"
      BY <1>1, <1>7 DEF PruneCache, Task
    <2>2. \A h \in Heights : cacheBlocks'[c][h] =
            IF h \in Below(PruneBelow(task[c].at)) THEN Nil ELSE cacheBlocks[c][h]
      BY <1>1, <2>1, ClearAt DEF StoreTyped
    <2>3. \A h \in Heights : diskBlocks'[c][h] = cacheBlocks'[c][h]
      BY <2>1, <2>2 DEF Tables
    <2>4. cacheBlocks'[c] \in [Heights -> Fork \cup {Nil}]
          /\ diskBlocks'[c] \in [Heights -> Fork \cup {Nil}]
      BY <1>1, <2>1, ClearType DEF StoreTyped
    <2>5. diskBlocks'[c] = cacheBlocks'[c]
      BY <2>3, <2>4
    <2> QED BY <2>1, <2>2, <2>5 DEF Tables
  <1> QED BY <1>2, <1>3, <1>4, <1>5, <1>6, <1>7 DEF Insert

LEMMA TablesRollback ==
  ASSUME TypeOK, NEW c \in Chain, Shape(c), Tables(c), Rollback(c)
  PROVE  Tables(c)'
  <1> USE DEF Pushing, Removed, RollingBack, At, Goto
  <1>1. task \in [Chain -> Task] /\ task[c] \in Task /\ cursor \in [Chain -> 0 .. MaxHeight]
        /\ cursor[c] \in 0 .. MaxHeight /\ StoreTyped
    BY TypeParts DEF TypeOK
  <1>2. CASE RollbackCommit(c)
    <2>1. /\ UNCHANGED <<cacheBlocks, cursor>>
          /\ diskBlocks' = Clear(diskBlocks, c, From(task[c].at))
          /\ task'[c].pc = "rollback_cache" /\ task[c].pc = "rollback"
          /\ task'[c].at = task[c].at
      BY <1>1, <1>2 DEF RollbackCommit, Task
    <2>2. \A h \in Heights : diskBlocks'[c][h] =
            IF h \in From(task[c].at) THEN Nil ELSE diskBlocks[c][h]
      BY <1>1, <2>1, ClearAt DEF StoreTyped
    <2> QED BY <2>1, <2>2 DEF Tables, From
  <1>3. CASE RollbackCache(c)
    <2>1. /\ UNCHANGED <<diskBlocks, cursor>>
          /\ cacheBlocks' = Clear(cacheBlocks, c, From(task[c].at))
          /\ task'[c].pc = "retain" /\ task[c].pc = "rollback_cache"
          /\ task'[c].at = task[c].at
      BY <1>1, <1>3 DEF RollbackCache, Task
    <2>2. \A h \in Heights : cacheBlocks'[c][h] =
            IF h \in From(task[c].at) THEN Nil ELSE cacheBlocks[c][h]
      BY <1>1, <2>1, ClearAt DEF StoreTyped
    <2>3. \A h \in Heights : diskBlocks'[c][h] = cacheBlocks'[c][h]
      BY <2>1, <2>2 DEF Tables
    <2>4. cacheBlocks'[c] \in [Heights -> Fork \cup {Nil}]
          /\ diskBlocks'[c] \in [Heights -> Fork \cup {Nil}]
      BY <1>1, <2>1, ClearType DEF StoreTyped
    <2>5. diskBlocks'[c] = cacheBlocks'[c]
      BY <2>3, <2>4
    <2>6. \A h \in Heights : h \notin From(task[c].at) => h < task[c].at
      BY <1>1, Bounds DEF From, Task
    <2> QED BY <2>1, <2>2, <2>5, <2>6 DEF Tables
  <1>4. CASE \/ RetainDone(c) \/ ForgetParent(c) \/ ForgetRow(c)
             \/ \E p \in Parent : Retain(c, p) \/ ForgetList(c, p)
    <2>1. /\ UNCHANGED <<diskBlocks, cacheBlocks, cursor>>
          /\ task'[c].pc \in Removed /\ task[c].pc \in Removed /\ task'[c].at = task[c].at
      <3>1. CASE RetainDone(c) \/ ForgetParent(c) \/ ForgetRow(c)
        BY <1>1, <3>1 DEF RetainDone, ForgetParent, ForgetRow, blocks, Task
      <3>2. ASSUME NEW p \in Parent, Retain(c, p)
            PROVE  /\ UNCHANGED <<diskBlocks, cacheBlocks, cursor>>
                   /\ task'[c].pc = "retain" /\ task[c].pc = "retain"
                   /\ task'[c].at = task[c].at
        BY <1>1, <3>2 DEF Retain, blocks, Task
      <3>3. ASSUME NEW p \in Parent, ForgetList(c, p)
            PROVE  /\ UNCHANGED <<diskBlocks, cacheBlocks, cursor>>
                   /\ task'[c].pc = "forget_parent" /\ task[c].pc = "forget"
                   /\ task'[c].at = task[c].at
        BY <1>1, <3>3 DEF ForgetList, blocks, Task
      <3> QED BY <1>4, <3>1, <3>2, <3>3
    <2> QED BY <2>1 DEF Tables
  <1>5. CASE Rewind(c)
    <2>1. /\ UNCHANGED <<diskBlocks, cacheBlocks>> /\ cursor'[c] = task[c].at - 1
          /\ task'[c].pc = "snapshot" /\ task[c].pc = "forget" /\ task[c].at \in Heights
      BY <1>1, <1>5 DEF Rewind, blocks, Task, Shape
    <2> QED BY <1>1, <2>1, Bounds DEF Tables
  <1> QED BY <1>2, <1>3, <1>4, <1>5 DEF Rollback

\* Classification and announcements read the blocks and change none.
Reading == {"idle", "snapshot", "resolve", "classify", "classify_commit",
            "announce_tip", "announce", "announce_send"}

LEMMA ReadingSteps ==
  ASSUME TypeOK, NEW c \in Chain, Probe(c) \/ Announce(c)
  PROVE  /\ UNCHANGED <<diskBlocks, cacheBlocks, diskSiblings, cacheSiblings, cursor>>
         /\ task'[c].pc \in Reading /\ task[c].pc \in Reading
         /\ task'[c].fork \in {task[c].fork, Nil}
  <1> USE DEF Reading, At, Goto, AfterClassify, blocks, rows
  <1>1. task \in [Chain -> Task] /\ task[c] \in Task
    BY DEF TypeOK
  <1>2. CASE Snapshot(c)
    BY <1>1, <1>2 DEF Snapshot, Task
  <1>3. CASE Resolve(c)
    BY <1>1, <1>3 DEF Resolve, Task
  <1>4. CASE ClassifyCommit(c)
    BY <1>1, <1>4 DEF ClassifyCommit, Task
  <1>5. CASE \E p \in Parent : Classify(c, p)
    BY <1>1, <1>5 DEF Classify, Task
  <1>6. CASE AnnounceTip(c)
    BY <1>1, <1>6 DEF AnnounceTip, Task
  <1>7. CASE AnnounceSend(c)
    BY <1>1, <1>7 DEF AnnounceSend, Task
  <1>8. CASE EndTick(c)
    BY <1>1, <1>8 DEF EndTick, Idle
  <1>9. CASE \E p \in Parent : AnnounceMark(c, p)
    BY <1>1, <1>9 DEF AnnounceMark, Task
  <1> QED BY <1>2, <1>3, <1>4, <1>5, <1>6, <1>7, <1>8, <1>9 DEF Probe, Announce

LEMMA TablesRest ==
  ASSUME TypeOK, NEW c \in Chain, Tables(c), Probe(c) \/ Announce(c)
  PROVE  Tables(c)'
  BY ReadingSteps DEF Tables, Pushing, Removed, Reading

LEMMA TablesStep ==
  ASSUME TypedShaped, NEW c \in Chain, Step(c), \A d \in Chain : Tables(d)
  PROVE  \A d \in Chain : Tables(d)'
  <1>1. Tables(c)'
    BY TablesInsert, TablesRollback, TablesRest DEF TypedShaped, Shapes, Step
  <1>2. ASSUME NEW d \in Chain, d # c PROVE Tables(d)'
    <2>1. /\ task'[d] = task[d] /\ cursor'[d] = cursor[d]
          /\ cacheBlocks'[d] = cacheBlocks[d] /\ diskBlocks'[d] = diskBlocks[d] /\ Tables(d)
      BY <1>2, OwnCursor, OwnBlocks, TypeByTask DEF TaskMoves, TypedShaped
    <2> QED BY <2>1 DEF Tables
  <1> QED BY <1>1, <1>2

\* A task moves to a roll-back only from a fork its node no longer serves.
LEMMA SteadyStep ==
  ASSUME TypedShaped, NEW c \in Chain, Step(c), \A d \in Chain : Steady(d)
  PROVE  \A d \in Chain : Steady(d)'
  <1> USE DEF Removed, RollingBack, At, Goto
  <1>1. task \in [Chain -> Task] /\ task[c] \in Task /\ cursor[c] \in 0 .. MaxHeight /\ StoreTyped
    BY TypeParts DEF TypedShaped, TypeOK
  <1>2. node' = node
    BY SameNode
  <1>3. ASSUME NEW d \in Chain, d # c PROVE Steady(d)'
    <2>1. /\ task'[d] = task[d] /\ cacheBlocks'[d] = cacheBlocks[d] /\ Steady(d)
      BY <1>3, OwnBlocks, TypeByTask DEF TaskMoves, TypedShaped
    <2> QED BY <1>2, <2>1 DEF Steady
  <1>4. ASSUME c \notin MayReorg PROVE Steady(c)'
    <2>1. /\ task[c].pc \notin RollingBack /\ task[c].fork \in {Nil, node[c]}
          /\ \A h \in Heights : cacheBlocks[c][h] \in {Nil, node[c]}
      BY <1>4 DEF Steady
    <2>2. CASE TickInsert(c)
      <3>1. task'[c].pc = "insert" /\ task'[c].fork = node[c] /\ cacheBlocks' = cacheBlocks
        BY <1>1, <2>2 DEF TickInsert, Idle, blocks
      <3> QED BY <1>2, <2>1, <3>1 DEF Steady
    <2>3. CASE TickRollback(c)
      <3>1. cursor[c] \in Heights /\ cacheBlocks[c][cursor[c]] \notin {Nil, node[c]}
        BY <1>1, <2>3, Bounds DEF TickRollback, Links
      <3> QED BY <2>1, <3>1
    <2>4. CASE InsertCommit(c)
      <3>1. task[c].at \in Heights /\ task[c].fork \in Fork
        BY <2>4, InHand DEF InsertCommit, Shape, TypedShaped, Shapes
      <3>2. /\ cacheBlocks'[c] = [cacheBlocks[c] EXCEPT ![task[c].at] = task[c].fork]
            /\ task'[c].pc = "push_sibling" /\ task'[c].fork = task[c].fork
        BY <1>1, <2>4, <3>1 DEF InsertCommit, StoreTyped, Task
      <3> QED BY <1>1, <1>2, <2>1, <3>1, <3>2 DEF Steady, StoreTyped
    <2>5. CASE PruneCache(c)
      <3>1. /\ \A h \in Heights : cacheBlocks'[c][h] \in {Nil, cacheBlocks[c][h]}
            /\ task'[c].pc = "snapshot" /\ task'[c].fork = task[c].fork
        BY <1>1, <2>5, ClearAt DEF PruneCache, StoreTyped, Task
      <3> QED BY <1>2, <2>1, <3>1 DEF Steady
    <2>6. CASE \/ TickHalt(c) \/ UpToDate(c) \/ PushSibling(c) \/ CheckParent(c)
               \/ AddParent(c) \/ SetCursor(c) \/ PruneCommit(c)
      <3>1. /\ task'[c].pc \notin RollingBack /\ task'[c].fork = task[c].fork
            /\ cacheBlocks' = cacheBlocks
        BY <1>1, <2>6 DEF TickHalt, UpToDate, PushSibling, CheckParent, AddParent, SetCursor,
           PruneCommit, blocks, vars, Task
      <3> QED BY <1>2, <2>1, <3>1 DEF Steady
    <2>7. CASE Probe(c) \/ Announce(c)
      <3>1. /\ task'[c].pc \notin RollingBack /\ task'[c].fork \in {task[c].fork, Nil}
            /\ cacheBlocks' = cacheBlocks
        BY <2>7, ReadingSteps DEF Reading, TypedShaped
      <3> QED BY <1>2, <2>1, <3>1 DEF Steady
    <2>8. CASE Rollback(c)
      BY <2>1, <2>8 DEF Rollback, RollbackCommit, RollbackCache, RetainDone, ForgetParent,
         ForgetRow, Rewind, Retain, ForgetList
    <2> QED BY <2>2, <2>3, <2>4, <2>5, <2>6, <2>7, <2>8 DEF Step, Insert
  <1>5. Steady(c)'
    BY <1>4 DEF Steady
  <1> QED BY <1>3, <1>5

-----------------------------------------------------------------------------
(* Verdicts and announcements. *)

Judging == {"classify", "classify_commit", "announce_tip", "announce", "announce_send"}

\* A mainnet verdict, recorded or in a task's hands, is true of the parent.
Judged ==
    /\ \A p \in Parent :
          cacheParents[p] = "mainnet" \/ diskParents[p] = "mainnet" => p \in Mainnet
    /\ \A c \in Chain : task[c].pc \in Judging => task[c].found \subseteq Mainnet

\* Only one task ever holds a parent that it has marked and not yet sent.
Sends ==
    /\ \A p \in Parent : sent[p] <= 1 /\ (sent[p] > 0 => p \in announced /\ p \in Mainnet)
    /\ \A c \in Chain : At(c, "announce_send") =>
          /\ task[c].par \in announced /\ sent[task[c].par] = 0
          /\ \A d \in Chain : At(d, "announce_send") /\ task[d].par = task[c].par => d = c

\* Steps that touch neither the verdicts nor the announcements.
LEMMA SendsQuiet ==
  ASSUME TypeOK, NEW c \in Chain, TaskMoves(c), Judged /\ Sends,
         task'[c].pc \notin Judging,
         \A p \in Parent : cacheParents'[p] = "mainnet" => cacheParents[p] = "mainnet",
         \A p \in Parent : diskParents'[p] = "mainnet" => diskParents[p] = "mainnet",
         UNCHANGED <<announced, sent>>
  PROVE  Judged' /\ Sends'
  <1>1. Judged'
    BY DEF Judged, TaskMoves
  <1>2. \A d \in Chain : At(d, "announce_send")' => d # c /\ task'[d] = task[d]
    BY DEF At, TaskMoves, Judging
  <1>3. Sends'
    BY <1>2 DEF Sends, At
  <1> QED BY <1>1, <1>3

LEMMA SendsInsert ==
  ASSUME TypedShaped, NEW c \in Chain, Judged /\ Sends,
         \/ TickInsert(c) \/ TickRollback(c) \/ TickHalt(c) \/ UpToDate(c)
         \/ Insert(c) \/ Rollback(c)
  PROVE  Judged' /\ Sends'
  <1> USE DEF At, Goto, Judging
  <1>1. TaskMoves(c) /\ TypeOK
    BY TypeByTask DEF Step, TypedShaped
  <1>2. task \in [Chain -> Task] /\ task[c] \in Task /\ BooksTyped
    BY TypeParts, <1>1
  <1>3. CASE TickInsert(c) \/ TickRollback(c)
    <2>1. task'[c].pc \notin Judging /\ UNCHANGED <<cacheParents, diskParents, announced, sent>>
      <3>1. CASE TickInsert(c)
        BY <1>2, <3>1 DEF TickInsert, Idle, parents, gossip
      <3>2. CASE TickRollback(c)
        BY <1>2, <3>2 DEF TickRollback, Idle, parents, gossip
      <3> QED BY <1>3, <3>1, <3>2
    <2> QED BY <1>1, <2>1, SendsQuiet
  <1>4. CASE TickHalt(c) \/ UpToDate(c)
    <2>1. task'[c].pc \notin Judging /\ UNCHANGED <<cacheParents, diskParents, announced, sent>>
      BY <1>2, <1>4 DEF TickHalt, UpToDate, parents, gossip, vars, Task
    <2> QED BY <1>1, <2>1, SendsQuiet
  <1>5. CASE \/ InsertCommit(c) \/ PushSibling(c) \/ CheckParent(c) \/ SetCursor(c)
             \/ PruneCommit(c) \/ PruneCache(c) \/ RollbackCommit(c)
             \/ Rewind(c) \/ RollbackCache(c) \/ RetainDone(c)
    <2>1. task'[c].pc \notin Judging /\ UNCHANGED <<cacheParents, diskParents, announced, sent>>
      <3>1. CASE \/ InsertCommit(c) \/ PushSibling(c) \/ CheckParent(c) \/ SetCursor(c)
                 \/ PruneCommit(c) \/ PruneCache(c)
        BY <1>2, <3>1 DEF InsertCommit, PushSibling, CheckParent, SetCursor, PruneCommit,
           PruneCache, parents, gossip, Task
      <3>2. CASE RollbackCommit(c) \/ Rewind(c) \/ RollbackCache(c) \/ RetainDone(c)
        BY <1>2, <3>2 DEF RollbackCommit, Rewind, RollbackCache, RetainDone, parents, gossip, Task
      <3> QED BY <1>5, <3>1, <3>2
    <2> QED BY <1>1, <2>1, SendsQuiet
  <1>6. CASE \E p \in Parent : Retain(c, p) \/ ForgetList(c, p)
    <2>1. task'[c].pc \notin Judging /\ UNCHANGED <<cacheParents, diskParents, announced, sent>>
      BY <1>2, <1>6 DEF Retain, ForgetList, parents, gossip, Task
    <2> QED BY <1>1, <2>1, SendsQuiet
  <1>7. CASE AddParent(c) \/ ForgetParent(c) \/ ForgetRow(c)
    <2>1. /\ task'[c].pc \notin Judging /\ UNCHANGED <<announced, sent>>
          /\ \A p \in Parent : cacheParents'[p] = "mainnet" => cacheParents[p] = "mainnet"
          /\ \A p \in Parent : diskParents'[p] = "mainnet" => diskParents[p] = "mainnet"
      BY <1>2, <1>7 DEF AddParent, ForgetParent, ForgetRow, gossip, BooksTyped, Task
    <2> QED BY <1>1, <2>1, SendsQuiet
  <1> QED BY <1>3, <1>4, <1>5, <1>6, <1>7 DEF Insert, Rollback

\* Verdicts come from the resolver, and are copied between entry and row.
LEMMA SendsProbe ==
  ASSUME TypedShaped, NEW c \in Chain, Judged /\ Sends,
         Probe(c) \/ AnnounceTip(c) \/ EndTick(c)
  PROVE  Judged' /\ Sends'
  <1> USE DEF At, Goto, Judging
  <1>1. TaskMoves(c) /\ TypeOK /\ Shape(c)
    BY TypeByTask DEF Step, Announce, TypedShaped, Shapes
  <1>2. task \in [Chain -> Task] /\ task[c] \in Task /\ BooksTyped
    BY TypeParts, <1>1
  <1>3. UNCHANGED <<announced, sent>> /\ task'[c].pc # "announce_send"
    <2>1. CASE Snapshot(c) \/ Resolve(c) \/ ClassifyCommit(c)
      BY <1>2, <2>1 DEF Snapshot, Resolve, ClassifyCommit, gossip, AfterClassify, Task
    <2>2. CASE AnnounceTip(c)
      BY <1>2, <2>2 DEF AnnounceTip, gossip, Task
    <2>3. CASE EndTick(c)
      BY <1>2, <2>3 DEF EndTick, gossip, Idle
    <2>4. CASE \E p \in Parent : Classify(c, p)
      BY <1>2, <2>4 DEF Classify, gossip, Task
    <2> QED BY <2>1, <2>2, <2>3, <2>4 DEF Probe
  <1>4. Sends'
    <2>1. \A d \in Chain : At(d, "announce_send")' => d # c /\ task'[d] = task[d]
      BY <1>1, <1>3 DEF TaskMoves
    <2> QED BY <1>3, <2>1 DEF Sends
  <1>5. \A d \in Chain \ {c} : task'[d].pc \in Judging => task'[d].found \subseteq Mainnet
    BY <1>1 DEF TaskMoves, Judged
  <1>6. CASE Snapshot(c)
    <2>1. task'[c].found = {} /\ UNCHANGED <<cacheParents, diskParents>>
      BY <1>2, <1>6 DEF Snapshot, parents, Task
    <2> QED BY <1>4, <1>5, <2>1 DEF Judged
  <1>7. CASE Resolve(c)
    <2>1. task'[c].found = {p \in task[c].todo : Resolved(p)} /\ UNCHANGED <<cacheParents, diskParents>>
      BY <1>2, <1>7 DEF Resolve, parents, Task
    <2> QED BY <1>4, <1>5, <2>1 DEF Judged, Resolved
  <1>8. ASSUME NEW p \in Parent, Classify(c, p) PROVE Judged' /\ Sends'
    <2>1. /\ task'[c].found = task[c].found /\ diskParents' = diskParents
          /\ task[c].pc \in Judging
      BY <1>2, <1>8 DEF Classify, Task
    <2>2. task[c].found \subseteq Mainnet
      BY <2>1 DEF Judged
    <2>3. cacheParents'[p] = "mainnet" => p \in Mainnet
      BY <1>2, <1>8, <2>2 DEF Classify, Verdict, BooksTyped
    <2>4. \A q \in Parent \ {p} : cacheParents'[q] = cacheParents[q]
      BY <1>2, <1>8 DEF Classify, BooksTyped
    <2> QED BY <1>4, <1>5, <2>1, <2>2, <2>3, <2>4 DEF Judged
  <1>9. CASE ClassifyCommit(c)
    <2>1. /\ task'[c].found = task[c].found /\ cacheParents' = cacheParents
          /\ task[c].pc \in Judging
      BY <1>2, <1>9 DEF ClassifyCommit, Task
    <2>2. \A q \in Parent : diskParents'[q] \in {diskParents[q], cacheParents[q]}
      BY <1>2, <1>9 DEF ClassifyCommit, RowOf, BooksTyped
    <2> QED BY <1>4, <1>5, <2>1, <2>2 DEF Judged
  <1>10. CASE AnnounceTip(c)
    <2>1. /\ task'[c].found = task[c].found /\ diskParents' = diskParents
          /\ task[c].pc \in Judging
      BY <1>2, <1>10 DEF AnnounceTip, Task
    <2>2. \A q \in Parent : cacheParents'[q] \in {diskParents[q], cacheParents[q]}
      BY <1>2, <1>10 DEF AnnounceTip, GetParent, BooksTyped
    <2> QED BY <1>4, <1>5, <2>1, <2>2 DEF Judged
  <1>11. CASE EndTick(c)
    <2>1. task'[c].pc = "idle" /\ UNCHANGED <<cacheParents, diskParents>>
      BY <1>2, <1>11 DEF EndTick, parents, Idle
    <2> QED BY <1>4, <1>5, <2>1 DEF Judged
  <1> QED BY <1>6, <1>7, <1>8, <1>9, <1>10, <1>11 DEF Probe

\* The mark is taken before the send, so no second task gets past it.
LEMMA SendsMark ==
  ASSUME TypedShaped, NEW c \in Chain, Judged /\ Sends, NEW p \in Parent, AnnounceMark(c, p)
  PROVE  Judged' /\ Sends'
  <1> USE DEF At, Judging
  <1>1. TaskMoves(c) /\ TypeOK
    BY TypeByTask DEF Step, Announce, TypedShaped
  <1>2. task \in [Chain -> Task] /\ task[c] \in Task /\ BooksTyped
    BY TypeParts, <1>1
  <1>3. /\ task[c].pc = "announce" /\ task'[c].found = task[c].found \ {p}
        /\ announced' = announced \cup {p}
        /\ UNCHANGED <<cacheParents, diskParents, sent>>
    BY <1>2 DEF AnnounceMark, parents, Task
  <1>4. \/ p \notin announced /\ task'[c].pc = "announce_send" /\ task'[c].par = p
        \/ task'[c].pc = "announce"
    BY <1>2 DEF AnnounceMark, FirstTime, Task
  <1>5. Judged'
    BY <1>1, <1>3 DEF Judged, TaskMoves
  <1>6. \A q \in Parent : sent[q] \in Nat /\ (q \notin announced => sent[q] = 0)
    BY <1>2 DEF BooksTyped, Sends, MaxSent
  <1>7. \A d \in Chain \ {c} : task'[d] = task[d]
    BY <1>1 DEF TaskMoves
  <1>8. \A d \in Chain \ {c} : task[d].pc = "announce_send" =>
           task[d].par \in announced /\ sent[task[d].par] = 0
    BY DEF Sends
  <1>9. \A q \in Parent : sent'[q] <= 1 /\ (sent'[q] > 0 => q \in announced' /\ q \in Mainnet)
    BY <1>3 DEF Sends
  <1>10. ASSUME NEW d \in Chain, task'[d].pc = "announce_send"
         PROVE  /\ task'[d].par \in announced' /\ sent'[task'[d].par] = 0
                /\ \A e \in Chain : task'[e].pc = "announce_send"
                        /\ task'[e].par = task'[d].par => e = d
    <2>1. CASE d = c
      <3>1. p \notin announced /\ task'[c].par = p
        BY <1>4, <1>10, <2>1
      <3> QED BY <1>3, <1>6, <1>7, <1>8, <2>1, <3>1
    <2>2. CASE d # c
      <3>1. task[d].pc = "announce_send" /\ task'[d] = task[d]
        BY <1>7, <1>10, <2>2
      <3>2. ASSUME NEW e \in Chain, task'[e].pc = "announce_send", task'[e].par = task'[d].par
            PROVE  e = d
        <4>1. CASE e = c
          BY <1>4, <1>8, <2>2, <3>1, <3>2, <4>1
        <4>2. CASE e # c
          BY <1>7, <3>1, <3>2, <4>2 DEF Sends
        <4> QED BY <4>1, <4>2
      <3> QED BY <1>3, <1>8, <2>2, <3>1, <3>2
    <2> QED BY <2>1, <2>2
  <1>11. Sends'
    BY <1>9, <1>10 DEF Sends
  <1> QED BY <1>5, <1>11

\* The one send of a parent.
LEMMA SendsSend ==
  ASSUME TypedShaped, NEW c \in Chain, Judged /\ Sends, AnnounceSend(c)
  PROVE  Judged' /\ Sends'
  <1> USE DEF At, Judging
  <1> DEFINE p == task[c].par
  <1>1. TaskMoves(c) /\ TypeOK /\ p \in Parent
    BY TypeByTask DEF Step, Announce, TypedShaped, Shapes, Shape, Holding, AnnounceSend
  <1>2. task \in [Chain -> Task] /\ task[c] \in Task /\ BooksTyped
    BY TypeParts, <1>1
  <1>3. /\ task[c].pc = "announce_send" /\ task'[c].found = task[c].found
        /\ task'[c].pc = "announce"
        /\ UNCHANGED <<diskParents, announced>>
    BY <1>2 DEF AnnounceSend, Task
  <1>4. \A q \in Parent : cacheParents'[q] \in {diskParents[q], cacheParents[q]}
    BY <1>2 DEF AnnounceSend, GetParent, BooksTyped
  <1>5. Judged'
    BY <1>1, <1>3, <1>4 DEF Judged, TaskMoves
  <1>6. Provable(p) => p \in Mainnet
    BY <1>1 DEF Provable, GetParent, Judged
  <1>7. p \in announced /\ sent[p] = 0
    BY <1>3 DEF Sends
  <1>8. sent'[p] \in {0, 1} /\ (sent'[p] = 1 => p \in Mainnet)
    BY <1>1, <1>2, <1>6, <1>7 DEF AnnounceSend, BooksTyped, MaxSent
  <1>9. \A q \in Parent \ {p} : sent'[q] = sent[q]
    BY <1>2 DEF AnnounceSend, BooksTyped
  <1>10. \A q \in Parent : sent'[q] <= 1 /\ (sent'[q] > 0 => q \in announced' /\ q \in Mainnet)
    BY <1>3, <1>7, <1>8, <1>9 DEF Sends
  <1>11. \A d \in Chain : task'[d].pc = "announce_send" =>
            d # c /\ task'[d] = task[d] /\ task[d].par # p
    BY <1>1, <1>3 DEF TaskMoves, Sends
  <1>12. \A d \in Chain : task[d].pc = "announce_send" => task[d].par \in Parent
    BY DEF TypedShaped, Shapes, Shape, Holding
  <1>13. Sends'
    BY <1>3, <1>9, <1>10, <1>11, <1>12 DEF Sends
  <1> QED BY <1>5, <1>13

AnnounceInv == TypedShaped /\ Judged /\ Sends

LEMMA AnnounceInit == Init => AnnounceInv
  <1> SUFFICES ASSUME Init PROVE AnnounceInv
    OBVIOUS
  <1>1. Judged
    BY DEF Init, Judged, Judging, Idle
  <1>2. Sends
    BY DEF Init, Sends, At, Idle
  <1> QED BY <1>1, <1>2, TypeInit DEF AnnounceInv

LEMMA AnnounceStep ==
  ASSUME AnnounceInv, [Next]_vars
  PROVE  AnnounceInv'
  <1>1. TypedShaped'
    BY TypeStep DEF AnnounceInv
  <1>2. CASE World \/ UNCHANGED vars
    <2>1. UNCHANGED <<cacheParents, diskParents, announced, sent, task>>
      BY <1>2 DEF World, ResolverFlips, Reorg, vars, parents, gossip
    <2> QED BY <1>1, <2>1 DEF AnnounceInv, Judged, Sends, At
  <1>3. ASSUME NEW c \in Chain, Step(c)
        PROVE  Judged' /\ Sends'
    <2>1. TypedShaped /\ Judged /\ Sends
      BY DEF AnnounceInv
    <2>2. CASE \/ TickInsert(c) \/ TickRollback(c) \/ TickHalt(c) \/ UpToDate(c)
               \/ Insert(c) \/ Rollback(c)
      BY <2>1, <2>2, SendsInsert
    <2>3. CASE Probe(c) \/ AnnounceTip(c) \/ EndTick(c)
      BY <2>1, <2>3, SendsProbe
    <2>4. ASSUME NEW p \in Parent, AnnounceMark(c, p) PROVE Judged' /\ Sends'
      BY <2>1, <2>4, SendsMark
    <2>5. CASE AnnounceSend(c)
      BY <2>1, <2>5, SendsSend
    <2> QED BY <1>3, <2>2, <2>3, <2>4, <2>5 DEF Step, Announce
  <1> QED BY <1>1, <1>2, <1>3 DEF AnnounceInv, Next

(***************************************************************************)
(* No parent is recorded or announced as mainnet that is not, and a group  *)
(* is gossiped once at most, whatever number of chains classify and        *)
(* announce the same parent at once and however often the explorer fails.  *)
(***************************************************************************)
THEOREM AnnouncedOnceTheorem == Spec => []AnnouncedOnce
  <1>1. AnnounceInv /\ [Next]_vars => AnnounceInv'
    BY AnnounceStep
  <1>2. AnnounceInv => AnnouncedOnce
    BY DEF AnnounceInv, Judged, Sends, AnnouncedOnce
  <1> QED BY AnnounceInit, <1>1, <1>2, PTL DEF Spec

-----------------------------------------------------------------------------
(* The lists in memory. *)

BlockParent(c, h) == ParentOf[c][h][cacheBlocks[c][h]]

\* The parents the roll-back of chain c has found empty and not yet forgotten.
Doomed(c) ==
    CASE task[c].pc = "retain" -> task[c].found
      [] task[c].pc = "forget" -> task[c].todo
      [] task[c].pc \in {"forget_parent", "forget_row"} -> task[c].todo \cup {task[c].par}
      [] OTHER -> {}

\* A leg of the chain is under its own parent and names a stored block, or is
\* one that a roll-back is about to retain out.
LegsRight(c) ==
    \A p \in Parent : \A s \in ListOf(p) : s[1] = c =>
        /\ ParentOf[c][s[2]][s[3]] = p
        /\ \/ cacheBlocks[c][s[2]] = s[3]
           \/ task[c].pc = "retain" /\ s[2] >= task[c].at /\ p \in task[c].todo

\* A stored block is listed under a known parent, which no roll-back of its
\* own chain will forget, unless it is still being inserted.
BlocksListed(c) ==
    \A h \in Heights : cacheBlocks[c][h] # Nil =>
        /\ \/ task[c].pc = "push_sibling" /\ h = task[c].at
           \/ <<c, h, cacheBlocks[c][h]>> \in ListOf(BlockParent(c, h))
        /\ \/ task[c].pc \in {"push_sibling", "check_parent", "add_parent"} /\ h = task[c].at
           \/ cacheParents[BlockParent(c, h)] # "absent"
        /\ BlockParent(c, h) \notin Doomed(c)

Lists(c) == LegsRight(c) /\ BlocksListed(c)

LEMMA LegParts ==
  ASSUME ListsTyped, NEW p \in Parent, NEW s \in ListOf(p)
  PROVE  s[1] \in Chain /\ s[2] \in Heights /\ s[3] \in Fork /\ s = <<s[1], s[2], s[3]>>
  BY DEF ListsTyped, ListOf, Legs

\* Without, leg by leg.
LEMMA AfterWithout ==
  ASSUME ListsTyped, NEW c, NEW hs, NEW ps, cacheSiblings' = Without(c, hs, ps),
         NEW p \in Parent, NEW s
  PROVE  s \in ListOf(p)' <=> s \in ListOf(p) /\ ~ (p \in ps /\ s[1] = c /\ s[2] \in hs)
  <1>1. CASE p \in ps /\ cacheSiblings[p] # Nil
    <2>1. cacheSiblings'[p] = {q \in cacheSiblings[p] : ~ (q[1] = c /\ q[2] \in hs)}
      BY <1>1 DEF Without
    <2>2. cacheSiblings[p] \in SUBSET Legs /\ cacheSiblings'[p] \in SUBSET Legs
      BY <1>1, <2>1 DEF ListsTyped
    <2>3. cacheSiblings'[p] # Nil
      BY <2>2, SiblingAssumption
    <2> QED BY <1>1, <2>1, <2>3 DEF ListOf
  <1>2. CASE ~ (p \in ps /\ cacheSiblings[p] # Nil)
    <2>1. cacheSiblings'[p] = cacheSiblings[p]
      BY <1>2 DEF Without
    <2> QED BY <1>2, <2>1 DEF ListOf
  <1> QED BY <1>1, <1>2

\* A push adds one leg, unless the list has one of that chain and height.
LEMMA AfterPush ==
  ASSUME TypedShaped, NEW c \in Chain, PushSibling(c), NEW p \in Parent, NEW s
  PROVE  s \in ListOf(p)' <=>
            \/ s \in ListOf(p)
            \/ /\ p = NewParent(c) /\ s = <<c, task[c].at, task[c].fork>>
               /\ ~ \E q \in ListOf(p) : q[1] = c /\ q[2] = task[c].at
  <1>1. ListsTyped /\ ListsTyped'
    BY TypeParts, ListTypeStep DEF TypedShaped, Step, Insert
  <1>2. CASE p = NewParent(c)
    <2>1. cacheSiblings'[p] = IF \E q \in ListOf(p) : q[1] = c /\ q[2] = task[c].at
                              THEN ListOf(p)
                              ELSE ListOf(p) \cup {<<c, task[c].at, task[c].fork>>}
      BY <1>1, <1>2 DEF PushSibling, ListsTyped
    <2>2. task[c].at \in Heights /\ task[c].fork \in Fork
      BY InHand DEF PushSibling, At, Shape, Pushing, TypedShaped, Shapes
    <2>3. ListOf(p) \in SUBSET Legs /\ <<c, task[c].at, task[c].fork>> \in Legs
      BY <1>1, <2>2 DEF ListsTyped, ListOf, Legs
    <2>4. cacheSiblings'[p] \in SUBSET Legs
      BY <2>1, <2>3
    <2>5. cacheSiblings'[p] # Nil
      BY <2>4, SiblingAssumption
    <2> QED BY <1>2, <2>1, <2>5 DEF ListOf
  <1>3. CASE p # NewParent(c)
    <2>1. cacheSiblings'[p] = cacheSiblings[p]
      BY <1>1, <1>3 DEF PushSibling, ListsTyped
    <2> QED BY <1>3, <2>1 DEF ListOf
  <1> QED BY <1>2, <1>3

\* The lists change only where a leg is pushed, pruned, retained or forgotten.
LEMMA ListsFixed ==
  ASSUME NEW c \in Chain, Step(c), ~ PushSibling(c), ~ PruneCache(c),
         ~ (\E p \in Parent : Retain(c, p)), ~ (\E p \in Parent : ForgetList(c, p))
  PROVE  cacheSiblings' = cacheSiblings
  <1>1. CASE \/ TickInsert(c) \/ TickRollback(c) \/ TickHalt(c) \/ UpToDate(c) \/ Insert(c)
    BY <1>1 DEF Insert, TickInsert, TickRollback, TickHalt, UpToDate, InsertCommit,
       CheckParent, AddParent, SetCursor, PruneCommit, vars, rows
  <1>2. CASE Rollback(c)
    BY <1>2 DEF Rollback, RollbackCommit, RollbackCache, RetainDone, ForgetParent, ForgetRow,
       Rewind, rows
  <1>3. CASE Probe(c) \/ Announce(c)
    BY <1>3 DEF Probe, Announce, Snapshot, Resolve, Classify, ClassifyCommit,
       AnnounceTip, AnnounceMark, AnnounceSend, EndTick, rows
  <1> QED BY <1>1, <1>2, <1>3 DEF Step

\* A known parent stays known unless it is the one being forgotten.
LEMMA StaysKnown ==
  ASSUME TypedShaped, NEW c \in Chain, Step(c), NEW p \in Parent, cacheParents[p] # "absent",
         ForgetParent(c) => p # task[c].par
  PROVE  cacheParents'[p] # "absent"
  <1>1. BooksTyped
    BY TypeParts DEF TypedShaped
  <1>2. CASE UNCHANGED cacheParents
    BY <1>2
  <1>3. CASE AddParent(c)
    BY <1>1, <1>3 DEF AddParent, BooksTyped
  <1>4. CASE ForgetParent(c)
    BY <1>1, <1>4 DEF ForgetParent, BooksTyped
  <1>5. ASSUME NEW q \in Parent, Classify(c, q) PROVE cacheParents'[p] # "absent"
    BY <1>1, <1>5 DEF Classify, Verdict, BooksTyped
  <1>6. CASE AnnounceTip(c)
    BY <1>1, <1>6 DEF AnnounceTip, GetParent, BooksTyped
  <1>7. CASE AnnounceSend(c)
    BY <1>1, <1>7 DEF AnnounceSend, GetParent, BooksTyped
  <1>8. CASE \/ TickInsert(c) \/ TickRollback(c) \/ TickHalt(c) \/ UpToDate(c)
             \/ InsertCommit(c) \/ PushSibling(c) \/ CheckParent(c) \/ SetCursor(c)
             \/ PruneCommit(c) \/ PruneCache(c)
    BY <1>2, <1>8 DEF TickInsert, TickRollback, TickHalt, UpToDate, InsertCommit, PushSibling,
       CheckParent, SetCursor, PruneCommit, PruneCache, vars, parents
  <1>9. CASE \/ RollbackCommit(c) \/ RollbackCache(c) \/ RetainDone(c) \/ ForgetRow(c)
             \/ Rewind(c) \/ \E q \in Parent : Retain(c, q) \/ ForgetList(c, q)
    BY <1>2, <1>9 DEF RollbackCommit, RollbackCache, RetainDone, ForgetRow, Rewind, Retain,
       ForgetList, parents
  <1>10. CASE \/ Snapshot(c) \/ Resolve(c) \/ ClassifyCommit(c) \/ EndTick(c)
              \/ \E q \in Parent : AnnounceMark(c, q)
    BY <1>2, <1>10 DEF Snapshot, Resolve, ClassifyCommit, EndTick, AnnounceMark, parents
  <1> QED BY <1>3, <1>4, <1>5, <1>6, <1>7, <1>8, <1>9, <1>10
         DEF Step, Insert, Rollback, Probe, Announce

\* A task of another chain that does not roll back leaves this chain's legs
\* and parents alone.
LEMMA ListsOther ==
  ASSUME TypedShaped, NEW c \in Chain, NEW d \in Chain, d # c, Step(d), Lists(c),
         task[d].pc \notin RollingBack
  PROVE  Lists(c)'
  <1>1. /\ task'[c] = task[c] /\ cacheBlocks'[c] = cacheBlocks[c] /\ ListsTyped
    BY OwnBlocks, TypeByTask, TypeParts DEF TaskMoves, TypedShaped
  <1>2. ASSUME NEW p \in Parent, NEW s, s[1] = c
        PROVE  s \in ListOf(p)' <=> s \in ListOf(p)
    <2>1. CASE PushSibling(d)
      <3>1. s # <<d, task[d].at, task[d].fork>>
        BY <1>2
      <3> QED BY <2>1, <3>1, AfterPush
    <2>2. CASE PruneCache(d)
      BY <1>1, <1>2, <2>2, AfterWithout DEF PruneCache
    <2>3. ~ (\E q \in Parent : Retain(d, q)) /\ ~ (\E q \in Parent : ForgetList(d, q))
      BY DEF Retain, ForgetList, At, RollingBack, Removed
    <2>4. CASE ~ PushSibling(d) /\ ~ PruneCache(d)
      BY <2>3, <2>4, ListsFixed DEF ListOf
    <2> QED BY <2>1, <2>2, <2>4
  <1>3. \A p \in Parent : cacheParents[p] # "absent" => cacheParents'[p] # "absent"
    BY StaysKnown DEF ForgetParent, At, RollingBack, Removed
  <1>4. \A h \in Heights : cacheBlocks[c][h] # Nil => BlockParent(c, h) \in Parent
    BY Bounds DEF BlockParent, TypedShaped, TypeOK
  <1>5. \A h \in Heights : BlockParent(c, h)' = BlockParent(c, h)
    BY <1>1 DEF BlockParent
  <1>6. Doomed(c)' = Doomed(c)
    BY <1>1 DEF Doomed
  <1>7. LegsRight(c)'
    BY <1>1, <1>2 DEF LegsRight, Lists
  <1>8. BlocksListed(c)'
    <2> SUFFICES ASSUME NEW h \in Heights, cacheBlocks'[c][h] # Nil
                 PROVE  /\ \/ task'[c].pc = "push_sibling" /\ h = task'[c].at
                           \/ <<c, h, cacheBlocks'[c][h]>> \in ListOf(BlockParent(c, h))'
                        /\ \/ /\ task'[c].pc \in {"push_sibling", "check_parent", "add_parent"}
                              /\ h = task'[c].at
                           \/ cacheParents'[BlockParent(c, h)'] # "absent"
                        /\ BlockParent(c, h)' \notin Doomed(c)'
      BY DEF BlocksListed
    <2>1. BlockParent(c, h) \in Parent /\ cacheBlocks[c][h] # Nil
      BY <1>1, <1>4
    <2>2. ListOf(BlockParent(c, h))' =
            IF cacheSiblings'[BlockParent(c, h)] = Nil THEN {} ELSE cacheSiblings'[BlockParent(c, h)]
      BY <1>5 DEF ListOf
    <2>3. <<c, h, cacheBlocks[c][h]>> \in ListOf(BlockParent(c, h)) =>
              <<c, h, cacheBlocks[c][h]>> \in ListOf(BlockParent(c, h))'
      <3> DEFINE p == BlockParent(c, h)
                 s == <<c, h, cacheBlocks[c][h]>>
      <3>1. \A q \in Parent : s \in ListOf(q)' <=> s \in ListOf(q)
        BY <1>2
      <3>2. PICK q \in Parent : q = p
        BY <2>1
      <3>3. s \in ListOf(q)' <=> s \in ListOf(q)
        BY <3>1
      <3>4. ListOf(q)' = ListOf(p)'
        BY <2>2, <3>2 DEF ListOf
      <3> QED BY <3>2, <3>3, <3>4
    <2> QED BY <1>1, <1>3, <1>5, <1>6, <2>1, <2>3 DEF BlocksListed, Lists
  <1> QED BY <1>7, <1>8 DEF Lists

LEMMA BlockParentIs ==
  ASSUME TypeOK, NEW c \in Chain, NEW h \in Heights, cacheBlocks[c][h] # Nil
  PROVE  BlockParent(c, h) \in Parent /\ cacheBlocks[c][h] \in Fork
  BY Bounds DEF BlockParent, TypeOK

\* Steps of the chain that change neither its blocks nor the lists.
LEMMA ListsKept ==
  ASSUME TypeOK, NEW c \in Chain, Lists(c), cacheBlocks'[c] = cacheBlocks[c],
         cacheSiblings' = cacheSiblings,
         task[c].pc # "retain" \/ task[c].todo = {},
         task[c].pc # "push_sibling",
         Doomed(c)' \subseteq Doomed(c),
         \A h \in Heights : cacheBlocks[c][h] # Nil =>
            \/ task'[c].pc \in {"push_sibling", "check_parent", "add_parent"} /\ h = task'[c].at
            \/ cacheParents'[BlockParent(c, h)] # "absent"
  PROVE  Lists(c)'
  <1>1. \A p : ListOf(p)' = ListOf(p)
    BY DEF ListOf
  <1>2. \A h \in Heights : BlockParent(c, h)' = BlockParent(c, h)
    BY DEF BlockParent
  <1>3. LegsRight(c)'
    BY <1>1 DEF LegsRight, Lists
  <1>4. ASSUME NEW h \in Heights, cacheBlocks'[c][h] # Nil
        PROVE  /\ <<c, h, cacheBlocks'[c][h]>> \in ListOf(BlockParent(c, h))'
               /\ BlockParent(c, h)' \notin Doomed(c)'
    <2>1. /\ <<c, h, cacheBlocks[c][h]>> \in ListOf(BlockParent(c, h))
          /\ BlockParent(c, h) \notin Doomed(c)
      BY <1>4 DEF Lists, BlocksListed
    <2>2. ListOf(BlockParent(c, h))' = ListOf(BlockParent(c, h))
      BY <1>2 DEF ListOf
    <2> QED BY <1>2, <2>1, <2>2
  <1>5. BlocksListed(c)'
    BY <1>2, <1>4 DEF BlocksListed
  <1> QED BY <1>3, <1>5 DEF Lists

\* The beginning of a tick, and everything after the store's changes.
LEMMA ListsQuiet ==
  ASSUME TypedShaped, NEW c \in Chain, Lists(c),
         \/ TickInsert(c) \/ TickRollback(c) \/ TickHalt(c) \/ UpToDate(c)
         \/ Probe(c) \/ Announce(c)
  PROVE  Lists(c)'
  <1>1. TypeOK /\ task \in [Chain -> Task] /\ task[c] \in Task
    BY DEF TypedShaped, TypeOK
  <1>2. /\ task[c].pc \in Reading /\ task'[c].pc \in Reading \cup {"insert", "rollback"}
        /\ cacheBlocks' = cacheBlocks /\ cacheSiblings' = cacheSiblings
    <2>1. CASE TickInsert(c)
      BY <1>1, <2>1 DEF TickInsert, Idle, At, Reading, blocks, rows
    <2>2. CASE TickRollback(c)
      BY <1>1, <2>2 DEF TickRollback, Idle, At, Reading, blocks, rows
    <2>3. CASE TickHalt(c) \/ UpToDate(c)
      BY <1>1, <2>3 DEF TickHalt, UpToDate, At, Goto, Reading, blocks, rows, vars, Task
    <2>4. CASE Probe(c) \/ Announce(c)
      BY <1>1, <2>4, ReadingSteps
    <2> QED BY <2>1, <2>2, <2>3, <2>4
  <1>3. Doomed(c)' = {}
    BY <1>2 DEF Doomed, Reading
  <1>4. \A h \in Heights : cacheBlocks[c][h] # Nil => cacheParents'[BlockParent(c, h)] # "absent"
    <2> TAKE h \in Heights
    <2> HAVE cacheBlocks[c][h] # Nil
    <2>1. cacheParents[BlockParent(c, h)] # "absent" /\ BlockParent(c, h) \in Parent
      BY <1>1, <1>2, BlockParentIs DEF Lists, BlocksListed, Reading
    <2>2. ~ ForgetParent(c)
      BY <1>2 DEF ForgetParent, At, Reading
    <2> QED BY <2>1, <2>2, StaysKnown DEF Step
  <1> QED BY <1>1, <1>2, <1>3, <1>4, ListsKept DEF Reading

\* insert_blocks and set_cursor_height, where the lists stay.
LEMMA ListsInsertQuiet ==
  ASSUME TypedShaped, NEW c \in Chain, Lists(c), Tables(c),
         CheckParent(c) \/ AddParent(c) \/ SetCursor(c) \/ PruneCommit(c)
  PROVE  Lists(c)'
  <1> USE DEF At, Goto
  <1>1. TypeOK /\ task \in [Chain -> Task] /\ task[c] \in Task
    BY DEF TypedShaped, TypeOK
  <1>2. /\ task[c].pc \in {"check_parent", "add_parent", "set_cursor", "prune"}
        /\ task'[c].pc \in {"add_parent", "set_cursor", "prune", "prune_cache", "snapshot"}
        /\ cacheBlocks' = cacheBlocks /\ cacheSiblings' = cacheSiblings
        /\ task'[c].at = task[c].at
    BY <1>1 DEF CheckParent, AddParent, SetCursor, PruneCommit, blocks, rows, Task
  <1>3. Doomed(c)' = {}
    BY <1>2 DEF Doomed
  <1>4. ASSUME NEW h \in Heights, cacheBlocks[c][h] # Nil
        PROVE  \/ task'[c].pc = "add_parent" /\ h = task'[c].at
               \/ cacheParents'[BlockParent(c, h)] # "absent"
    <2>1. BlockParent(c, h) \in Parent
      BY <1>1, <1>4, BlockParentIs
    <2>2. CASE cacheParents[BlockParent(c, h)] # "absent"
      <3>1. ~ ForgetParent(c)
        BY <1>2 DEF ForgetParent
      <3> QED BY <2>1, <2>2, <3>1, StaysKnown DEF Step, Insert
    <2>3. CASE cacheParents[BlockParent(c, h)] = "absent"
      <3>1. task[c].pc \in {"check_parent", "add_parent"} /\ h = task[c].at
        BY <1>2, <1>4, <2>3 DEF Lists, BlocksListed
      <3>2. BlockParent(c, h) = NewParent(c)
        BY <3>1 DEF Tables, Pushing, BlockParent, NewParent
      <3>3. CASE CheckParent(c)
        BY <1>1, <1>2, <2>3, <3>1, <3>2, <3>3 DEF CheckParent, Task
      <3>4. CASE AddParent(c)
        BY <2>1, <3>2, <3>4 DEF AddParent, TypedShaped, TypeOK
      <3> QED BY <3>1, <3>3, <3>4 DEF SetCursor, PruneCommit
    <2> QED BY <2>2, <2>3
  <1> QED BY <1>1, <1>2, <1>3, <1>4, ListsKept

\* rollback_from, where the lists stay.
LEMMA ListsRollbackQuiet ==
  ASSUME TypedShaped, NEW c \in Chain, Lists(c),
         \/ RollbackCommit(c) \/ RetainDone(c) \/ ForgetParent(c) \/ ForgetRow(c) \/ Rewind(c)
  PROVE  Lists(c)'
  <1> USE DEF At, Goto
  <1>1. TypeOK /\ task \in [Chain -> Task] /\ task[c] \in Task
    BY DEF TypedShaped, TypeOK
  <1>2. /\ task[c].pc \notin {"push_sibling", "check_parent", "add_parent"}
        /\ task[c].pc # "retain" \/ task[c].todo = {}
        /\ cacheBlocks' = cacheBlocks /\ cacheSiblings' = cacheSiblings
    BY DEF RollbackCommit, RetainDone, ForgetParent, ForgetRow, Rewind, blocks, rows
  <1>3. Doomed(c)' \subseteq Doomed(c)
    <2>1. CASE RollbackCommit(c) \/ Rewind(c)
      BY <1>1, <2>1 DEF RollbackCommit, Rewind, Doomed, Task
    <2>2. CASE RetainDone(c)
      BY <1>1, <2>2 DEF RetainDone, Doomed, Task
    <2>3. CASE ForgetParent(c)
      BY <1>1, <2>3 DEF ForgetParent, Doomed, Task
    <2>4. CASE ForgetRow(c)
      BY <1>1, <2>4 DEF ForgetRow, Doomed, Task
    <2> QED BY <2>1, <2>2, <2>3, <2>4
  <1>4. \A h \in Heights : cacheBlocks[c][h] # Nil => cacheParents'[BlockParent(c, h)] # "absent"
    <2> TAKE h \in Heights
    <2> HAVE cacheBlocks[c][h] # Nil
    <2>1. /\ cacheParents[BlockParent(c, h)] # "absent" /\ BlockParent(c, h) \in Parent
          /\ BlockParent(c, h) \notin Doomed(c)
      BY <1>1, <1>2, BlockParentIs DEF Lists, BlocksListed
    <2>2. ForgetParent(c) => BlockParent(c, h) # task[c].par
      BY <2>1 DEF ForgetParent, Doomed
    <2> QED BY <2>1, <2>2, StaysKnown DEF Step, Rollback
  <1> QED BY <1>1, <1>2, <1>3, <1>4, ListsKept

\* The new block goes where none is stored, so no leg names its height yet.
LEMMA ListsCommit ==
  ASSUME TypedShaped, NEW c \in Chain, Lists(c), Tables(c), InsertCommit(c)
  PROVE  Lists(c)'
  <1> USE DEF At, Goto
  <1> DEFINE k == task[c].at
             f == task[c].fork
  <1>1. /\ TypeOK /\ task \in [Chain -> Task] /\ task[c] \in Task /\ ListsTyped /\ StoreTyped
        /\ cursor[c] \in 0 .. MaxHeight
    BY TypeParts DEF TypedShaped, TypeOK
  <1>2. k \in Heights /\ f \in Fork /\ k = cursor[c] + 1
    BY InHand DEF InsertCommit, Shape, TypedShaped, Shapes
  <1>3. /\ \A h \in Heights : cacheBlocks'[c][h] = IF h = k THEN f ELSE cacheBlocks[c][h]
        /\ cacheSiblings' = cacheSiblings /\ cacheParents' = cacheParents
        /\ task[c].pc = "insert" /\ task'[c].pc = "push_sibling" /\ task'[c].at = k
    BY <1>1, <1>2 DEF InsertCommit, StoreTyped, parents, Task
  <1>4. cacheBlocks[c][k] = Nil
    BY <1>1, <1>2, <1>3, Bounds DEF Tables, Pushing
  <1>5. LegsRight(c)'
    <2> SUFFICES ASSUME NEW p \in Parent, NEW s \in ListOf(p), s[1] = c
                 PROVE  ParentOf[c][s[2]][s[3]] = p /\ cacheBlocks'[c][s[2]] = s[3]
      BY <1>3 DEF LegsRight, ListOf
    <2>1. s[2] \in Heights /\ s[3] \in Fork
      BY <1>1, LegParts
    <2>2. ParentOf[c][s[2]][s[3]] = p /\ cacheBlocks[c][s[2]] = s[3]
      BY <1>3 DEF Lists, LegsRight
    <2>3. s[2] # k
      BY <1>4, <2>1, <2>2, Bounds
    <2> QED BY <1>3, <2>1, <2>2, <2>3
  <1>6. BlocksListed(c)'
    <2> SUFFICES ASSUME NEW h \in Heights, cacheBlocks'[c][h] # Nil, h # k
                 PROVE  /\ <<c, h, cacheBlocks'[c][h]>> \in ListOf(BlockParent(c, h))'
                        /\ cacheParents'[BlockParent(c, h)'] # "absent"
      <3>1. Doomed(c)' = {}
        BY <1>3 DEF Doomed
      <3> QED BY <1>3, <3>1 DEF BlocksListed
    <2>1. cacheBlocks'[c][h] = cacheBlocks[c][h] /\ BlockParent(c, h)' = BlockParent(c, h)
      BY <1>3 DEF BlockParent
    <2>2. ListOf(BlockParent(c, h))' = ListOf(BlockParent(c, h))
      BY <1>3, <2>1 DEF ListOf
    <2> QED BY <1>3, <2>1, <2>2 DEF Lists, BlocksListed
  <1> QED BY <1>5, <1>6 DEF Lists

\* The push lists the block just committed.
LEMMA ListsPush ==
  ASSUME TypedShaped, NEW c \in Chain, Lists(c), Tables(c), PushSibling(c)
  PROVE  Lists(c)'
  <1> USE DEF At, Goto
  <1> DEFINE k == task[c].at
             f == task[c].fork
             leg == <<c, k, f>>
  <1>1. TypeOK /\ task \in [Chain -> Task] /\ task[c] \in Task /\ ListsTyped
    BY TypeParts DEF TypedShaped, TypeOK
  <1>2. k \in Heights /\ f \in Fork /\ NewParent(c) \in Parent
    BY InHand DEF PushSibling, Shape, Pushing, TypedShaped, Shapes
  <1>3. /\ cacheBlocks' = cacheBlocks /\ cacheParents' = cacheParents
        /\ task[c].pc = "push_sibling" /\ task'[c].pc = "check_parent" /\ task'[c].at = k
    BY <1>1 DEF PushSibling, blocks, parents, Task
  <1>4. cacheBlocks[c][k] = f /\ NewParent(c) = ParentOf[c][k][f]
    BY <1>3 DEF Tables, Pushing, NewParent
  <1>5. LegsRight(c)'
    <2> SUFFICES ASSUME NEW p \in Parent, NEW s, s \in ListOf(p)', s[1] = c
                 PROVE  ParentOf[c][s[2]][s[3]] = p /\ cacheBlocks[c][s[2]] = s[3]
      BY <1>3 DEF LegsRight
    <2>1. CASE s \in ListOf(p)
      BY <1>3, <2>1 DEF Lists, LegsRight
    <2>2. CASE s \notin ListOf(p)
      <3>1. p = NewParent(c) /\ s = leg
        BY <2>2, AfterPush
      <3> QED BY <1>4, <3>1
    <2> QED BY <2>1, <2>2
  <1>6. PICK new \in Parent : new = NewParent(c)
    BY <1>2
  <1>8. leg \in ListOf(new)'
    <2>1. CASE \E q \in ListOf(new) : q[1] = c /\ q[2] = k
      <3>1. PICK q \in ListOf(new) : q[1] = c /\ q[2] = k
        BY <2>1
      <3>2. q = <<q[1], q[2], q[3]>>
        BY <1>1, LegParts
      <3>3. q[3] = f
        BY <1>3, <1>4, <3>1 DEF Lists, LegsRight
      <3>4. leg \in ListOf(new)
        BY <3>1, <3>2, <3>3
      <3> QED BY <3>4, AfterPush
    <2>2. CASE ~ \E q \in ListOf(new) : q[1] = c /\ q[2] = k
      BY <1>6, <2>2, AfterPush
    <2> QED BY <2>1, <2>2
  <1>7. BlocksListed(c)'
    <2> SUFFICES ASSUME NEW h \in Heights, cacheBlocks'[c][h] # Nil
                 PROVE  /\ <<c, h, cacheBlocks'[c][h]>> \in ListOf(BlockParent(c, h))'
                        /\ h = k \/ cacheParents'[BlockParent(c, h)'] # "absent"
      <3>1. Doomed(c)' = {}
        BY <1>3 DEF Doomed
      <3> QED BY <1>3, <3>1 DEF BlocksListed
    <2>1. BlockParent(c, h)' = BlockParent(c, h) /\ BlockParent(c, h) \in Parent
      BY <1>1, <1>3, BlockParentIs DEF BlockParent
    <2>2. h = k \/ cacheParents'[BlockParent(c, h)'] # "absent"
      BY <1>3, <2>1 DEF Lists, BlocksListed
    <2>3. PICK p \in Parent : p = BlockParent(c, h)
      BY <2>1
    <2>4. ListOf(BlockParent(c, h))' = ListOf(p)'
      BY <2>1, <2>3 DEF ListOf
    <2>5. CASE h = k
      <3>1. p = new
        BY <1>4, <1>6, <2>3, <2>5 DEF BlockParent
      <3> QED BY <1>3, <1>4, <1>8, <2>2, <2>4, <2>5, <3>1
    <2>6. CASE h # k
      <3>1. <<c, h, cacheBlocks[c][h]>> \in ListOf(p)
        BY <1>3, <2>3, <2>6 DEF Lists, BlocksListed
      <3>2. <<c, h, cacheBlocks[c][h]>> \in ListOf(p)'
        BY <3>1, AfterPush
      <3> QED BY <1>3, <2>2, <2>4, <3>2
    <2> QED BY <2>5, <2>6
  <1> QED BY <1>5, <1>7 DEF Lists

\* A block that stays is still listed when a step only takes away other legs.
LEMMA StillListed ==
  ASSUME TypedShaped, NEW c \in Chain, Lists(c),
         task[c].pc \notin {"push_sibling", "check_parent", "add_parent"},
         cacheParents' = cacheParents,
         NEW h \in Heights, cacheBlocks'[c][h] # Nil, cacheBlocks'[c][h] = cacheBlocks[c][h],
         \A p \in Parent : p \notin Doomed(c) /\ <<c, h, cacheBlocks[c][h]>> \in ListOf(p) =>
             <<c, h, cacheBlocks[c][h]>> \in ListOf(p)'
  PROVE  /\ <<c, h, cacheBlocks'[c][h]>> \in ListOf(BlockParent(c, h))'
         /\ cacheParents'[BlockParent(c, h)'] # "absent"
  <1>1. BlockParent(c, h)' = BlockParent(c, h) /\ BlockParent(c, h) \in Parent
    BY BlockParentIs DEF BlockParent, TypedShaped
  <1>2. PICK p \in Parent : p = BlockParent(c, h)
    BY <1>1
  <1>3. ListOf(BlockParent(c, h))' = ListOf(p)'
    BY <1>1, <1>2 DEF ListOf
  <1>4. /\ <<c, h, cacheBlocks[c][h]>> \in ListOf(p) /\ p \notin Doomed(c)
        /\ cacheParents[p] # "absent"
    BY <1>2 DEF Lists, BlocksListed
  <1>5. <<c, h, cacheBlocks[c][h]>> \in ListOf(p)'
    BY <1>4
  <1> QED BY <1>1, <1>2, <1>3, <1>4, <1>5

\* prune_before takes the legs of the blocks it takes.
LEMMA ListsPrune ==
  ASSUME TypedShaped, NEW c \in Chain, Lists(c), PruneCache(c)
  PROVE  Lists(c)'
  <1> USE DEF At, Goto
  <1> DEFINE old == Below(PruneBelow(task[c].at))
             ps  == ParentsAt(cacheBlocks, c, old)
  <1>1. TypeOK /\ task \in [Chain -> Task] /\ task[c] \in Task /\ ListsTyped /\ StoreTyped
    BY TypeParts DEF TypedShaped, TypeOK
  <1>2. /\ \A h \in Heights : cacheBlocks'[c][h] = IF h \in old THEN Nil ELSE cacheBlocks[c][h]
        /\ cacheSiblings' = Without(c, old, ps) /\ cacheParents' = cacheParents
        /\ task[c].pc = "prune_cache" /\ task'[c].pc = "snapshot"
    BY <1>1, ClearAt DEF PruneCache, StoreTyped, parents, Task
  <1> HIDE DEF old, ps
  <1>3. \A p \in Parent : \A s :
           s \in ListOf(p)' <=> s \in ListOf(p) /\ ~ (p \in ps /\ s[1] = c /\ s[2] \in old)
    BY <1>1, <1>2, AfterWithout
  <1>4. LegsRight(c)'
    <2> SUFFICES ASSUME NEW p \in Parent, NEW s, s \in ListOf(p)', s[1] = c
                 PROVE  ParentOf[c][s[2]][s[3]] = p /\ cacheBlocks'[c][s[2]] = s[3]
      BY DEF LegsRight
    <2>1. s \in ListOf(p) /\ ~ (p \in ps /\ s[2] \in old)
      BY <1>3
    <2>2. ParentOf[c][s[2]][s[3]] = p /\ cacheBlocks[c][s[2]] = s[3]
      BY <1>2, <2>1 DEF Lists, LegsRight
    <2>3. s[2] \in Heights /\ s[3] \in Fork
      BY <1>1, <2>1, LegParts
    <2>4. s[2] \notin old
      BY <2>1, <2>2, <2>3, Bounds DEF ps, ParentsAt, Stored
    <2> QED BY <1>2, <2>2, <2>3, <2>4
  <1>5. BlocksListed(c)'
    <2> SUFFICES ASSUME NEW h \in Heights, cacheBlocks'[c][h] # Nil
                 PROVE  /\ <<c, h, cacheBlocks'[c][h]>> \in ListOf(BlockParent(c, h))'
                        /\ cacheParents'[BlockParent(c, h)'] # "absent"
      <3>1. Doomed(c)' = {}
        BY <1>2 DEF Doomed
      <3> QED BY <3>1 DEF BlocksListed
    <2>1. h \notin old /\ cacheBlocks'[c][h] = cacheBlocks[c][h]
      BY <1>2
    <2>2. \A p \in Parent : <<c, h, cacheBlocks[c][h]>> \in ListOf(p) =>
              <<c, h, cacheBlocks[c][h]>> \in ListOf(p)'
      BY <1>3, <2>1
    <2> QED BY <1>2, <2>1, <2>2, StillListed
  <1> QED BY <1>4, <1>5 DEF Lists

\* Removed blocks leave legs behind, under the parents to be visited.
LEMMA ListsCut ==
  ASSUME TypedShaped, NEW c \in Chain, Lists(c), RollbackCache(c)
  PROVE  Lists(c)'
  <1> USE DEF At
  <1> DEFINE gone == From(task[c].at)
             ps   == ParentsAt(cacheBlocks, c, gone)
  <1>1. TypeOK /\ task \in [Chain -> Task] /\ task[c] \in Task /\ ListsTyped /\ StoreTyped
    BY TypeParts DEF TypedShaped, TypeOK
  <1>2. /\ \A h \in Heights : cacheBlocks'[c][h] = IF h \in gone THEN Nil ELSE cacheBlocks[c][h]
        /\ cacheSiblings' = cacheSiblings /\ cacheParents' = cacheParents
        /\ task[c].pc = "rollback_cache" /\ task'[c].pc = "retain" /\ task'[c].todo = ps
        /\ task'[c].at = task[c].at /\ task'[c].found = task[c].found
    BY <1>1, ClearAt DEF RollbackCache, StoreTyped, parents, rows, Task
  <1>3. \A h \in gone : h >= task[c].at
    BY DEF From
  <1> HIDE DEF gone, ps
  <1>4. LegsRight(c)'
    <2> SUFFICES ASSUME NEW p \in Parent, NEW s \in ListOf(p), s[1] = c
                 PROVE  /\ ParentOf[c][s[2]][s[3]] = p
                        /\ \/ cacheBlocks'[c][s[2]] = s[3]
                           \/ s[2] >= task[c].at /\ p \in ps
      BY <1>2 DEF LegsRight, ListOf
    <2>1. ParentOf[c][s[2]][s[3]] = p /\ cacheBlocks[c][s[2]] = s[3]
      BY <1>2 DEF Lists, LegsRight
    <2>2. s[2] \in Heights /\ s[3] \in Fork
      BY <1>1, LegParts
    <2>3. s[2] \in gone => p \in ps
      BY <2>1, <2>2, Bounds DEF ps, ParentsAt, Stored
    <2> QED BY <1>2, <1>3, <2>1, <2>2, <2>3
  <1>5. BlocksListed(c)'
    <2>1. Doomed(c)' = {}
      BY <1>2 DEF Doomed, TypedShaped, Shapes, Shape
    <2> SUFFICES ASSUME NEW h \in Heights, cacheBlocks'[c][h] # Nil
                 PROVE  /\ <<c, h, cacheBlocks'[c][h]>> \in ListOf(BlockParent(c, h))'
                        /\ cacheParents'[BlockParent(c, h)'] # "absent"
      BY <2>1 DEF BlocksListed
    <2>2. cacheBlocks'[c][h] = cacheBlocks[c][h]
      BY <1>2
    <2>3. \A p \in Parent : ListOf(p)' = ListOf(p)
      BY <1>2 DEF ListOf
    <2> QED BY <1>2, <2>2, <2>3, StillListed
  <1> QED BY <1>4, <1>5 DEF Lists

\* A parent is found empty only when no block of the chain is left under it.
LEMMA ListsRetain ==
  ASSUME TypedShaped, NEW c \in Chain, Lists(c), Tables(c), NEW q \in Parent, Retain(c, q)
  PROVE  Lists(c)'
  <1> USE DEF At
  <1> DEFINE gone == From(task[c].at)
  <1>1. TypeOK /\ task \in [Chain -> Task] /\ task[c] \in Task /\ ListsTyped
    BY TypeParts DEF TypedShaped, TypeOK
  <1>2. /\ cacheSiblings' = Without(c, gone, {q}) /\ cacheParents' = cacheParents
        /\ cacheBlocks' = cacheBlocks
        /\ task[c].pc = "retain" /\ task'[c].pc = "retain" /\ task'[c].at = task[c].at
        /\ task'[c].todo = task[c].todo \ {q}
        /\ task'[c].found = IF cacheSiblings'[q] = {} THEN task[c].found \cup {q}
                            ELSE task[c].found
    BY <1>1 DEF Retain, Emptied, parents, blocks, Task
  <1>3. \A h \in Heights : h \in gone <=> h >= task[c].at
    BY DEF From
  <1> HIDE DEF gone
  <1>4. \A p \in Parent : \A s :
           s \in ListOf(p)' <=> s \in ListOf(p) /\ ~ (p \in {q} /\ s[1] = c /\ s[2] \in gone)
    BY <1>1, <1>2, AfterWithout
  <1>5. LegsRight(c)'
    <2> SUFFICES ASSUME NEW p \in Parent, NEW s, s \in ListOf(p)', s[1] = c
                 PROVE  /\ ParentOf[c][s[2]][s[3]] = p
                        /\ \/ cacheBlocks[c][s[2]] = s[3]
                           \/ s[2] >= task[c].at /\ p \in task[c].todo \ {q}
      BY <1>2 DEF LegsRight
    <2>1. s \in ListOf(p) /\ ~ (p = q /\ s[2] \in gone)
      BY <1>4
    <2>2. s[2] \in Heights
      BY <1>1, <2>1, LegParts
    <2> QED BY <1>2, <1>3, <2>1, <2>2 DEF Lists, LegsRight
  <1>6. ASSUME NEW h \in Heights, cacheBlocks[c][h] # Nil
        PROVE  /\ <<c, h, cacheBlocks'[c][h]>> \in ListOf(BlockParent(c, h))'
               /\ cacheParents'[BlockParent(c, h)'] # "absent"
               /\ BlockParent(c, h)' \notin Doomed(c)'
    <2>1. h \notin gone
      BY <1>1, <1>2, <1>3, <1>6, Bounds DEF Tables, Removed, Task
    <2>2. \A p \in Parent : <<c, h, cacheBlocks[c][h]>> \in ListOf(p) =>
              <<c, h, cacheBlocks[c][h]>> \in ListOf(p)'
      BY <1>4, <2>1
    <2>3. /\ <<c, h, cacheBlocks'[c][h]>> \in ListOf(BlockParent(c, h))'
          /\ cacheParents'[BlockParent(c, h)'] # "absent"
      BY <1>2, <1>6, <2>2, StillListed
    <2>4. BlockParent(c, h)' = BlockParent(c, h)
      BY <1>2 DEF BlockParent
    <2>5. BlockParent(c, h) \notin task[c].found
      BY <1>2, <1>6 DEF Lists, BlocksListed, Doomed
    <2>6. cacheSiblings'[q] = {} => BlockParent(c, h) # q
      <3>1. ListOf(BlockParent(c, h))' # {}
        BY <2>3
      <3>2. ListOf(BlockParent(c, h))' =
              IF cacheSiblings'[BlockParent(c, h)] = Nil THEN {} ELSE cacheSiblings'[BlockParent(c, h)]
        BY <2>4 DEF ListOf
      <3> QED BY <3>1, <3>2
    <2>7. Doomed(c)' = task'[c].found
      BY <1>2 DEF Doomed
    <2> QED BY <1>2, <2>3, <2>4, <2>5, <2>6, <2>7
  <1>7. BlocksListed(c)'
    BY <1>2, <1>6 DEF BlocksListed
  <1> QED BY <1>5, <1>7 DEF Lists

\* The list of a doomed parent holds no leg of a stored block.
LEMMA ListsForget ==
  ASSUME TypedShaped, NEW c \in Chain, Lists(c), NEW q \in Parent, ForgetList(c, q)
  PROVE  Lists(c)'
  <1> USE DEF At
  <1>1. TypeOK /\ task \in [Chain -> Task] /\ task[c] \in Task /\ ListsTyped
    BY TypeParts DEF TypedShaped, TypeOK
  <1>2. /\ cacheParents' = cacheParents /\ cacheBlocks' = cacheBlocks
        /\ task[c].pc = "forget" /\ task'[c].pc = "forget_parent" /\ task'[c].par = q
        /\ task'[c].todo = task[c].todo \ {q} /\ q \in task[c].todo
    BY <1>1 DEF ForgetList, parents, blocks, Task
  <1>3. ListOf(q)' = {} /\ \A p \in Parent \ {q} : ListOf(p)' = ListOf(p)
    BY <1>1 DEF ForgetList, ListOf, ListsTyped
  <1>4. LegsRight(c)'
    BY <1>2, <1>3 DEF Lists, LegsRight
  <1>5. Doomed(c)' = Doomed(c) /\ q \in Doomed(c)
    BY <1>2 DEF Doomed
  <1>6. ASSUME NEW h \in Heights, cacheBlocks[c][h] # Nil
        PROVE  /\ <<c, h, cacheBlocks'[c][h]>> \in ListOf(BlockParent(c, h))'
               /\ cacheParents'[BlockParent(c, h)'] # "absent"
               /\ BlockParent(c, h)' \notin Doomed(c)'
    <2>1. \A p \in Parent : p \notin Doomed(c) /\ <<c, h, cacheBlocks[c][h]>> \in ListOf(p) =>
              <<c, h, cacheBlocks[c][h]>> \in ListOf(p)'
      BY <1>3, <1>5
    <2>2. /\ <<c, h, cacheBlocks'[c][h]>> \in ListOf(BlockParent(c, h))'
          /\ cacheParents'[BlockParent(c, h)'] # "absent"
      BY <1>2, <1>6, <2>1, StillListed
    <2>3. BlockParent(c, h)' = BlockParent(c, h) /\ BlockParent(c, h) \notin Doomed(c)
      BY <1>2, <1>6 DEF BlockParent, Lists, BlocksListed
    <2> QED BY <1>5, <2>2, <2>3
  <1>7. BlocksListed(c)'
    BY <1>2, <1>6 DEF BlocksListed
  <1> QED BY <1>4, <1>7 DEF Lists

\* A step of the chain itself keeps its lists.
LEMMA ListsOwn ==
  ASSUME TypedShaped, NEW c \in Chain, Lists(c), Tables(c), Step(c)
  PROVE  Lists(c)'
  <1>1. CASE Insert(c)
    BY <1>1, ListsCommit, ListsPush, ListsInsertQuiet, ListsPrune DEF Insert
  <1>2. CASE Rollback(c)
    <2>1. ASSUME NEW p \in Parent, Retain(c, p) \/ ForgetList(c, p) PROVE Lists(c)'
      BY <2>1, ListsRetain, ListsForget
    <2> QED BY <1>2, <2>1, ListsCut, ListsRollbackQuiet DEF Rollback
  <1> QED BY <1>1, <1>2, ListsQuiet DEF Step

-----------------------------------------------------------------------------
(* The index and the lists are exact. *)

OneReorgs == \A c, d \in MayReorg : c = d

\* The half of IndexExact that is not SiblingsFound: no row is left over.
NoStrayRow == \A r \in diskSiblings : Joins(r) /\ r = RowAt(r[2], r[3])

LEMMA RowParts ==
  ASSUME StoreTyped, NEW r \in diskSiblings
  PROVE  r[1] \in Parent /\ r[2] \in Chain /\ r[3] \in Heights
  BY DEF StoreTyped

\* insert_blocks adds a row where no block, hence no row, was.
LEMMA IndexInsert ==
  ASSUME TypedShaped, NEW c \in Chain, Tables(c), NoStrayRow, InsertCommit(c)
  PROVE  NoStrayRow'
  <1> DEFINE k == task[c].at
             f == task[c].fork
  <1>1. /\ TypeOK /\ StoreTyped /\ cursor[c] \in 0 .. MaxHeight
    BY TypeParts DEF TypedShaped, TypeOK
  <1>2. k \in Heights /\ f \in Fork /\ k = cursor[c] + 1
    BY InHand DEF InsertCommit, At, Shape, TypedShaped, Shapes
  <1>3. diskBlocks[c][k] = Nil
    BY <1>1, <1>2, Bounds DEF Tables, Pushing, InsertCommit, At
  <1>4. /\ \A d \in Chain, h \in Heights :
              diskBlocks'[d][h] = IF d = c /\ h = k THEN f ELSE diskBlocks[d][h]
        /\ diskSiblings' = diskSiblings \cup {<<ParentOf[c][k][f], c, k>>}
    BY <1>1, <1>2 DEF InsertCommit, StoreTyped, NewParent
  <1>5. ASSUME NEW r \in diskSiblings
        PROVE  Joins(r)' /\ r = RowAt(r[2], r[3])'
    <2>1. r[2] \in Chain /\ r[3] \in Heights
      BY <1>1, RowParts
    <2>2. diskBlocks[r[2]][r[3]] # Nil /\ r = RowAt(r[2], r[3])
      BY DEF NoStrayRow, Joins
    <2>3. diskBlocks'[r[2]][r[3]] = diskBlocks[r[2]][r[3]]
      BY <1>3, <1>4, <2>1, <2>2
    <2> QED BY <2>2, <2>3 DEF Joins, RowAt
  <1>6. ASSUME NEW r, r = <<ParentOf[c][k][f], c, k>>
        PROVE  Joins(r)' /\ r = RowAt(r[2], r[3])'
    <2>1. diskBlocks'[c][k] = f /\ f # Nil
      BY <1>2, <1>4, Bounds
    <2> QED BY <1>6, <2>1 DEF Joins, RowAt
  <1> QED BY <1>4, <1>5, <1>6 DEF NoStrayRow

\* A removal of chain c's blocks at heights hs that takes every row of them.
LEMMA IndexRemove ==
  ASSUME StoreTyped, NEW c \in Chain, NoStrayRow, NEW hs, NEW gone,
         diskBlocks' = Clear(diskBlocks, c, hs), diskSiblings' = diskSiblings \ gone,
         \A r \in diskSiblings : r[2] = c /\ r[3] \in hs => r \in gone
  PROVE  NoStrayRow'
  <1>1. \A d \in Chain, h \in Heights :
            diskBlocks'[d][h] = IF d = c /\ h \in hs THEN Nil ELSE diskBlocks[d][h]
    BY DEF Clear, StoreTyped
  <1>2. ASSUME NEW r \in diskSiblings, r \notin gone
        PROVE  Joins(r)' /\ r = RowAt(r[2], r[3])'
    <2>1. r[2] \in Chain /\ r[3] \in Heights
      BY RowParts
    <2>2. diskBlocks[r[2]][r[3]] # Nil /\ r = RowAt(r[2], r[3])
      BY DEF NoStrayRow, Joins
    <2>3. diskBlocks'[r[2]][r[3]] = diskBlocks[r[2]][r[3]]
      BY <1>1, <1>2, <2>1
    <2> QED BY <2>2, <2>3 DEF Joins, RowAt
  <1> QED BY <1>2 DEF NoStrayRow

LEMMA IndexPrune ==
  ASSUME TypedShaped, NEW c \in Chain, NoStrayRow, PruneCommit(c)
  PROVE  NoStrayRow'
  <1> DEFINE old == Below(PruneBelow(task[c].at))
  <1>1. StoreTyped
    BY TypeParts DEF TypedShaped
  <1>2. /\ diskBlocks' = Clear(diskBlocks, c, old)
        /\ diskSiblings' = diskSiblings \ PrunedRows(c, old)
    BY DEF PruneCommit
  <1> HIDE DEF old
  <1>3. ASSUME NEW r \in diskSiblings, r[2] = c, r[3] \in old
        PROVE  r \in PrunedRows(c, old)
    <2>1. r[3] \in Heights
      BY <1>1, RowParts
    <2>2. diskBlocks[c][r[3]] # Nil /\ r = <<ParentOf[c][r[3]][diskBlocks[c][r[3]]], c, r[3]>>
      BY <1>3 DEF NoStrayRow, Joins, RowAt
    <2>3. r[3] \in old \cap Stored(diskBlocks, c)
      BY <1>3, <2>1, <2>2 DEF Stored
    <2> QED BY <2>2, <2>3 DEF PrunedRows
  <1> QED BY <1>1, <1>2, <1>3, IndexRemove

\* rollback_from looks under the parents in memory: the parent of every block
\* of the chain is among them.
LEMMA IndexRollback ==
  ASSUME TypedShaped, NEW c \in Chain, NoStrayRow, Tables(c), Lists(c), RollbackCommit(c)
  PROVE  NoStrayRow'
  <1> DEFINE from == task[c].at
  <1>1. StoreTyped
    BY TypeParts DEF TypedShaped
  <1>2. /\ diskBlocks' = Clear(diskBlocks, c, From(from))
        /\ diskSiblings' = diskSiblings \ RolledBackRows(c, from)
        /\ task[c].pc = "rollback"
    BY DEF RollbackCommit, At
  <1>3. ASSUME NEW r \in diskSiblings, r[2] = c, r[3] \in From(from)
        PROVE  r \in RolledBackRows(c, from)
    <2>1. r[3] \in Heights
      BY <1>1, RowParts
    <2>2. diskBlocks[c][r[3]] # Nil /\ r = <<ParentOf[c][r[3]][diskBlocks[c][r[3]]], c, r[3]>>
      BY <1>3 DEF NoStrayRow, Joins, RowAt
    <2>3. diskBlocks[c][r[3]] = cacheBlocks[c][r[3]]
      BY <1>2 DEF Tables
    <2>4. cacheParents[BlockParent(c, r[3])] # "absent"
      BY <1>2, <2>1, <2>2, <2>3 DEF Lists, BlocksListed
    <2>5. r[1] = BlockParent(c, r[3])
      BY <2>2, <2>3 DEF BlockParent
    <2> QED BY <1>3, <2>4, <2>5 DEF RolledBackRows, From
  <1> QED BY <1>1, <1>2, <1>3, IndexRemove

\* No other step touches the two tables.
LEMMA IndexFixed ==
  ASSUME NEW c \in Chain, Step(c), ~ InsertCommit(c), ~ PruneCommit(c), ~ RollbackCommit(c)
  PROVE  UNCHANGED <<diskBlocks, diskSiblings>>
  <1>1. CASE \/ TickInsert(c) \/ TickRollback(c) \/ TickHalt(c) \/ UpToDate(c) \/ Insert(c)
    BY <1>1 DEF Insert, TickInsert, TickRollback, TickHalt, UpToDate, PushSibling,
       CheckParent, AddParent, SetCursor, PruneCache, vars, blocks, rows
  <1>2. CASE Rollback(c)
    BY <1>2 DEF Rollback, RollbackCache, RetainDone, ForgetParent, ForgetRow, Rewind, Retain,
       ForgetList, blocks, rows
  <1>3. CASE Probe(c) \/ Announce(c)
    BY <1>3 DEF Probe, Announce, Snapshot, Resolve, Classify, ClassifyCommit,
       AnnounceTip, AnnounceMark, AnnounceSend, EndTick, blocks, rows
  <1> QED BY <1>1, <1>2, <1>3 DEF Step

\* The inductive invariant of the store.
StoreInv ==
    /\ TypedShaped
    /\ \A c \in Chain : Tables(c)
    /\ \A c \in Chain : Steady(c)
    /\ \A c \in Chain : Undisturbed(c) => Lists(c)
    /\ OneReorgs => NoStrayRow

LEMMA StoreInit == Init => StoreInv
  <1> SUFFICES ASSUME Init PROVE StoreInv
    OBVIOUS
  <1>1. \A c \in Chain : Tables(c)
    BY DEF Init, NoBlocks, Tables, Idle, Pushing
  <1>2. \A c \in Chain : Steady(c)
    BY DEF Init, NoBlocks, Steady, Idle, RollingBack, Removed
  <1>3. \A p \in Parent : ListOf(p) = {}
    BY DEF Init, ListOf
  <1>4. \A c \in Chain : Lists(c)
    BY <1>3 DEF Init, NoBlocks, Lists, LegsRight, BlocksListed
  <1>5. NoStrayRow
    BY DEF Init, NoStrayRow
  <1> QED BY <1>1, <1>2, <1>4, <1>5, TypeInit DEF StoreInv

LEMMA StoreStep ==
  ASSUME StoreInv, [Next]_vars
  PROVE  StoreInv'
  <1>1. TypedShaped' /\ TypedShaped
    BY TypeStep DEF StoreInv
  <1>2. ASSUME UNCHANGED <<blocks, rows, parents, cursor, task>>,
               \A c \in Chain \ MayReorg : node'[c] = node[c]
        PROVE  StoreInv'
    <2>1. UNCHANGED <<diskBlocks, cacheBlocks, diskSiblings, cacheSiblings, cacheParents>>
      BY <1>2 DEF blocks, rows, parents
    <2>2. \A c \in Chain : Tables(c)'
      BY <1>2, <2>1 DEF StoreInv, Tables
    <2>3. \A c \in Chain : Steady(c)'
      BY <1>2, <2>1 DEF StoreInv, Steady
    <2>4. \A c \in Chain : Lists(c) => Lists(c)'
      BY <1>2, <2>1 DEF Lists, LegsRight, BlocksListed, ListOf, BlockParent, Doomed
    <2>5. NoStrayRow => NoStrayRow'
      BY <2>1 DEF NoStrayRow, Joins, RowAt
    <2> QED BY <1>1, <2>2, <2>3, <2>4, <2>5 DEF StoreInv, Undisturbed, OneReorgs
  <1>3. CASE World
    <2>1. \A c \in Chain \ MayReorg : node'[c] = node[c]
      BY <1>1, <1>3 DEF World, ResolverFlips, Reorg, TypedShaped, TypeOK
    <2> QED BY <1>2, <1>3, <2>1 DEF World, ResolverFlips, Reorg
  <1>4. CASE UNCHANGED vars
    BY <1>2, <1>4 DEF vars, world
  <1>5. ASSUME NEW c \in Chain, Step(c)
        PROVE  StoreInv'
    <2>1. (\A d \in Chain : Tables(d)') /\ (\A d \in Chain : Steady(d)')
      BY <1>1, <1>5, TablesStep, SteadyStep DEF StoreInv
    <2>2. ASSUME NEW d \in Chain, Undisturbed(d) PROVE Lists(d)'
      <3>1. CASE d = c
        BY <1>1, <1>5, <2>2, <3>1, ListsOwn DEF StoreInv
      <3>2. CASE d # c
        <4>1. task[c].pc \notin RollingBack
          BY <2>2, <3>2 DEF StoreInv, Steady, Undisturbed
        <4> QED BY <1>1, <1>5, <2>2, <3>2, <4>1, ListsOther DEF StoreInv
      <3> QED BY <3>1, <3>2
    <2>3. ASSUME OneReorgs PROVE NoStrayRow'
      <3>1. CASE InsertCommit(c)
        BY <1>1, <2>3, <3>1, IndexInsert DEF StoreInv
      <3>2. CASE PruneCommit(c)
        BY <1>1, <2>3, <3>2, IndexPrune DEF StoreInv
      <3>3. CASE RollbackCommit(c)
        <4>1. c \in MayReorg
          BY <3>3 DEF StoreInv, Steady, RollbackCommit, At, RollingBack
        <4>2. Undisturbed(c)
          BY <2>3, <4>1 DEF OneReorgs, Undisturbed
        <4> QED BY <1>1, <2>3, <3>3, <4>2, IndexRollback DEF StoreInv
      <3>4. CASE ~ InsertCommit(c) /\ ~ PruneCommit(c) /\ ~ RollbackCommit(c)
        BY <1>5, <2>3, <3>4, IndexFixed DEF StoreInv, NoStrayRow, Joins, RowAt
      <3> QED BY <3>1, <3>2, <3>3, <3>4
    <2> QED BY <1>1, <2>1, <2>2, <2>3 DEF StoreInv, Undisturbed, OneReorgs
  <1> QED BY <1>3, <1>4, <1>5 DEF Next

\* Once a task has settled, the table and the cache are one.
LEMMA StoreExact == StoreInv => ListsExact
  <1> SUFFICES ASSUME StoreInv, NEW c \in Chain, Settled(c), Undisturbed(c)
               PROVE  /\ \A p \in Parent : \A s \in ListOf(p) : s[1] = c =>
                            diskBlocks[c][s[2]] = s[3] /\ RowAt(c, s[2])[1] = p
                      /\ \A h \in Stored(diskBlocks, c) :
                            <<c, h, diskBlocks[c][h]>> \in ListOf(RowAt(c, h)[1])
                      /\ \A p \in ParentsAt(diskBlocks, c, Heights) : cacheParents[p] # "absent"
    BY DEF ListsExact
  <1>1. Lists(c) /\ diskBlocks[c] = cacheBlocks[c]
    BY DEF StoreInv, Tables, Settled
  <1>2. \A h : RowAt(c, h)[1] = BlockParent(c, h)
    BY <1>1 DEF RowAt, BlockParent
  <1>3. \A p \in Parent : \A s \in ListOf(p) : s[1] = c =>
            diskBlocks[c][s[2]] = s[3] /\ RowAt(c, s[2])[1] = p
    BY <1>1, <1>2 DEF Lists, LegsRight, Settled, BlockParent
  <1>4. \A h \in Heights : cacheBlocks[c][h] # Nil =>
            /\ <<c, h, cacheBlocks[c][h]>> \in ListOf(BlockParent(c, h))
            /\ cacheParents[BlockParent(c, h)] # "absent"
    BY <1>1 DEF Lists, BlocksListed, Settled
  <1>5. \A h \in Stored(diskBlocks, c) : <<c, h, diskBlocks[c][h]>> \in ListOf(RowAt(c, h)[1])
    BY <1>1, <1>2, <1>4 DEF Stored
  <1>6. \A p \in ParentsAt(diskBlocks, c, Heights) : cacheParents[p] # "absent"
    BY <1>1, <1>4 DEF ParentsAt, Stored, BlockParent
  <1> QED BY <1>3, <1>5, <1>6

(***************************************************************************)
(* Between two changes of the store by a chain's task, the lists in memory *)
(* hold exactly that chain's stored blocks and each one's parent is known, *)
(* as long as no other chain rolls back: for any number of chains that     *)
(* insert, prune, classify and announce meanwhile.                         *)
(***************************************************************************)
THEOREM ListsExactTheorem == Spec => []ListsExact
  <1>1. StoreInv /\ [Next]_vars => StoreInv'
    BY StoreStep
  <1> QED BY StoreInit, <1>1, StoreExact, PTL DEF Spec

(***************************************************************************)
(* sibling_index holds exactly the rows of the stored blocks when at most  *)
(* one chain's node switches forks: the rows rollback_from finds through   *)
(* the parents in memory are all the rows of the blocks it removes.  With  *)
(* two, the roll-back of one may forget a parent the other's needs.        *)
(***************************************************************************)
THEOREM IndexExactTheorem == OneReorgs => (Spec => []IndexExact)
  <1> SUFFICES ASSUME OneReorgs PROVE Spec => []IndexExact
    OBVIOUS
  <1>1. StoreInv /\ [Next]_vars => StoreInv'
    BY StoreStep
  <1>2. Spec => []StoreInv
    BY StoreInit, <1>1, PTL DEF Spec
  <1>3. [Next]_vars => [Next \/ Crash]_vars
    OBVIOUS
  <1>4. Spec => CrashSpec
    BY <1>3, PTL DEF Spec, CrashSpec
  <1>5. StoreInv /\ SiblingsFound => IndexExact
    BY DEF StoreInv, NoStrayRow, IndexExact
  <1> QED BY <1>2, <1>4, <1>5, SiblingsFoundTheorem, PTL
=============================================================================
