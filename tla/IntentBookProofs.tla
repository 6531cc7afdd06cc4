-------------------------- MODULE IntentBookProofs --------------------------
(***************************************************************************)
(* What the order book keeps for any number of requests, ids and intents:  *)
(* its types, the bound on its size, the admission of what is in it, the   *)
(* intents it accepted and the agreement of cache and table that makes a   *)
(* restart neutral.                                                        *)
(***************************************************************************)
EXTENDS IntentBook, FiniteSetTheorems, TLAPS

-----------------------------------------------------------------------------
(* The inductive invariant.  A job has an intent where it needs one, a     *)
(* listing has none, and ids to remove are held only while removing them.  *)
Handling == {"validate", "scan", "room", "insert", "commit"}
Removing == {"erase", "drop"}

JobsHold ==
    /\ \A a \in Actor : pc[a] \in Handling => held[a] # None
    /\ \A a \in Actor : pc[a] = "list_scan" => held[a] = None
    /\ \A a \in Actor : pc[a] \notin Removing => gone[a] = {}

(* An intent that passed validation at some time until now, in this process*)
(* or in an earlier one.                                                   *)
Admitted(o) ==
    /\ o.expiry <= now + FutureSlack + MaxWindow
    /\ signatures = "enforced" => o.signed
    /\ o.from # o.to /\ {o.from, o.to} \subseteq KnownChain

Past == {"scan", "erase", "drop", "room", "insert", "commit"}

OnlyAdmitted ==
    /\ \A i \in Id : cache[i] # None => Admitted(cache[i])
    /\ \A i \in Id : disk[i] # None => Admitted(disk[i])
    /\ \A a \in Actor : pc[a] \in Past /\ held[a] # None => Admitted(held[a])

(* On an id that is not contested nobody writes while another removes.     *)
Apart == \A i \in Id \ contested : \A a \in Actor : i \in gone[a] =>
    \A b \in Actor \ {a} : held[b] # None /\ held[b].id = i => pc[b] = "send"

(* Nor do two jobs write it.                                               *)
Alone == \A i \in Id \ contested : \A a, b \in Actor :
    /\ held[a] # None /\ held[a].id = i /\ pc[a] # "send"
    /\ held[b] # None /\ held[b].id = i /\ pc[b] # "send"
    => a = b

(* There, the cache and the table differ only while a job is between its   *)
(* transaction and its access to the cache: a removal that has erased the  *)
(* row, or an insertion that has not written it.                           *)
Rows == \A i \in Id \ contested :
    /\ \A a \in Actor : pc[a] = "drop" /\ i \in gone[a] => disk[i] = None
    /\ disk[i] # None => cache[i] # None
    /\ \A a \in Actor : pc[a] = "commit" /\ held[a].id = i => cache[i] = held[a]
    /\ \/ cache[i] = disk[i]
       \/ \E a \in Actor : pc[a] = "drop" /\ i \in gone[a]
       \/ \E a \in Actor : pc[a] = "commit" /\ held[a].id = i

(* What was accepted and is still open.                                    *)
Live(i) == stored[i] # None /\ stored[i].expiry > now

(* There, the table holds what was accepted last, if it is open, and       *)
(* nothing else; and nothing open is about to be removed.                  *)
Ledger == \A i \in Id \ contested :
    /\ disk[i] # None => disk[i] = stored[i]
    /\ Live(i) => disk[i] = stored[i]
    /\ \A a \in Actor : i \in gone[a] => ~ Live(i)

Inv ==
    TypeOK /\ JobsHold /\ Apart /\ Alone /\ Rows /\ Ledger /\ OnlyAdmitted
           /\ CapacityBound

-----------------------------------------------------------------------------
(* Sizes.                                                                  *)
LEMMA FiniteActors == IsFiniteSet(Actor) /\ Cardinality(Actor) \in Nat
  BY BookAssumption, FS_AddElement, FS_CardinalityType DEF Actor

LEMMA SubsetSize ==
  ASSUME NEW S, NEW T, S \subseteq T, IsFiniteSet(T)
  PROVE  /\ IsFiniteSet(S)
         /\ Cardinality(S) \in Nat /\ Cardinality(T) \in Nat
         /\ Cardinality(S) <= Cardinality(T)
  BY FS_Subset, FS_CardinalityType

(* The intents that count, as a set of ids of a state.                     *)
Counted(c, d) == {i \in Id : c[i] # None} \ d

LEMMA CountedFinite ==
  ASSUME NEW c, NEW d
  PROVE  IsFiniteSet(Counted(c, d)) /\ Cardinality(Counted(c, d)) \in Nat
<1>1. Counted(c, d) \subseteq Id
  BY DEF Counted
<1> QED BY <1>1, SubsetSize, BookAssumption

LEMMA EnteringFinite ==
  IsFiniteSet(Entering) /\ Cardinality(Entering) \in Nat
<1>1. Entering \subseteq Actor
  BY DEF Entering
<1> QED BY <1>1, SubsetSize, FiniteActors

(* A step after which fewer intents count and fewer jobs are entering      *)
(* keeps the bound.                                                        *)
LEMMA Shrinks ==
  ASSUME CapacityBound, 
         Counted(cache', contested') \subseteq Counted(cache, contested),
         Entering' \subseteq Entering
  PROVE  CapacityBound'
<1> DEFINE S == Counted(cache, contested)
           T == Counted(cache', contested')
           E == Entering
           F == Entering'
<1>1. /\ Cardinality(T) \in Nat /\ Cardinality(S) \in Nat
      /\ Cardinality(T) <= Cardinality(S)
  BY CountedFinite, SubsetSize
<1>2. /\ Cardinality(F) \in Nat /\ Cardinality(E) \in Nat
      /\ Cardinality(F) <= Cardinality(E)
  BY EnteringFinite, SubsetSize
<1>3. /\ Open \ contested = S
      /\ (Open \ contested)' = T
  BY DEF Open, Counted
<1>4. Cardinality(S) + Cardinality(E) <= MaxIntents - 1 + Cardinality(Actor)
  BY <1>3 DEF CapacityBound
<1> HIDE DEF S, T, E, F
<1>5. Cardinality(T) + Cardinality(F) <= MaxIntents - 1 + Cardinality(Actor)
  BY <1>1, <1>2, <1>4, FiniteActors, BookAssumption
<1> QED BY <1>3, <1>5 DEF CapacityBound, F

-----------------------------------------------------------------------------
(* Types.                                                                  *)
LEMMA TypeStep ==
  ASSUME TypeOK, JobsHold, [Next]_vars
  PROVE  TypeOK'
<1>1. ASSUME NEW a \in Actor, Post(a) PROVE TypeOK'
  BY <1>1, BookAssumption
     DEF TypeOK, JobsHold, Handling, Step, Intent, Post, Begin, Goto
<1>2. ASSUME NEW a \in Actor, Broadcast(a) PROVE TypeOK'
  BY <1>2, BookAssumption
     DEF TypeOK, JobsHold, Handling, Step, Intent, Broadcast, Begin, Goto
<1>3. ASSUME NEW a \in Actor, List(a) PROVE TypeOK'
  BY <1>3, BookAssumption
     DEF TypeOK, JobsHold, Handling, Step, Intent, List, Begin, Goto
<1>4. ASSUME NEW a \in Actor, Validate(a) PROVE TypeOK'
  BY <1>4, BookAssumption
     DEF TypeOK, JobsHold, Handling, Step, Intent, Validate, Goto, Finish,
         Book
<1>5. ASSUME NEW a \in Actor, Scan(a) PROVE TypeOK'
  BY <1>5, BookAssumption
     DEF TypeOK, JobsHold, Handling, Step, Intent, Scan, Goto, AfterPrune,
         Expired, Open
<1>6. ASSUME NEW a \in Actor, Erase(a) PROVE TypeOK'
  BY <1>6, BookAssumption
     DEF TypeOK, JobsHold, Handling, Step, Intent, Erase, Goto
<1>7. ASSUME NEW a \in Actor, Drop(a) PROVE TypeOK'
  BY <1>7, BookAssumption
     DEF TypeOK, JobsHold, Handling, Step, Intent, Drop, Goto, AfterPrune
<1>8. ASSUME NEW a \in Actor, CheckRoom(a) PROVE TypeOK'
  BY <1>8, BookAssumption
     DEF TypeOK, JobsHold, Handling, Step, Intent, CheckRoom, Goto, Finish,
         Book
<1>9. ASSUME NEW a \in Actor, Insert(a) PROVE TypeOK'
  BY <1>9, BookAssumption
     DEF TypeOK, JobsHold, Handling, Step, Intent, Insert, Goto
<1>10. ASSUME NEW a \in Actor, Commit(a) PROVE TypeOK'
  BY <1>10, BookAssumption
     DEF TypeOK, JobsHold, Handling, Step, Intent, Commit, Goto, Finish
<1>11. ASSUME NEW a \in Actor, Send(a) PROVE TypeOK'
  BY <1>11, BookAssumption
     DEF TypeOK, JobsHold, Handling, Step, Intent, Send, HasSlot, Finish,
         Goto, Book
<1>12. ASSUME NEW a \in Actor, Answer(a) PROVE TypeOK'
  BY <1>12, BookAssumption
     DEF TypeOK, JobsHold, Handling, Step, Intent, Answer, Finish, Goto,
         Book
<1>13. ASSUME NEW a \in Actor, FailTxn(a) PROVE TypeOK'
  BY <1>13, BookAssumption
     DEF TypeOK, JobsHold, Handling, Step, Intent, FailTxn, Finish, Goto
<1>14. CASE Publish
  BY <1>14, BookAssumption
     DEF TypeOK, JobsHold, Handling, Step, Intent, Publish, Book
<1>15. CASE Crash
  BY <1>15, BookAssumption
     DEF TypeOK, JobsHold, Handling, Step, Intent, Crash, WarmUp
<1>16. CASE Tick
  BY <1>16, BookAssumption
     DEF TypeOK, JobsHold, Handling, Step, Intent, Tick, Book
<1>17. CASE UNCHANGED vars
  BY <1>17, BookAssumption DEF TypeOK, JobsHold, Handling, Step, Intent, vars
<1> QED
  BY <1>1, <1>2, <1>3, <1>4, <1>5, <1>6, <1>7, <1>8, <1>9, <1>10, <1>11,
     <1>12, <1>13, <1>14, <1>15, <1>16, <1>17 DEF Next, Work, Actor

LEMMA JobsStep ==
  ASSUME TypeOK, JobsHold, [Next]_vars
  PROVE  JobsHold'
<1>1. ASSUME NEW a \in Actor, Post(a) PROVE JobsHold'
  BY <1>1, BookAssumption
     DEF TypeOK, JobsHold, Handling, Removing, Step, Post, Begin, Goto
<1>2. ASSUME NEW a \in Actor, Broadcast(a) PROVE JobsHold'
  BY <1>2, BookAssumption
     DEF TypeOK, JobsHold, Handling, Removing, Step, Broadcast, Begin, Goto
<1>3. ASSUME NEW a \in Actor, List(a) PROVE JobsHold'
  BY <1>3, BookAssumption
     DEF TypeOK, JobsHold, Handling, Removing, Step, List, Begin, Goto
<1>4. ASSUME NEW a \in Actor, Validate(a) PROVE JobsHold'
  BY <1>4, BookAssumption
     DEF TypeOK, JobsHold, Handling, Removing, Step, Validate, Goto,
         Finish, Book
<1>5. ASSUME NEW a \in Actor, Scan(a) PROVE JobsHold'
  BY <1>5, BookAssumption
     DEF TypeOK, JobsHold, Handling, Removing, Step, Scan, Goto,
         AfterPrune, Expired, Open
<1>6. ASSUME NEW a \in Actor, Erase(a) PROVE JobsHold'
  BY <1>6, BookAssumption
     DEF TypeOK, JobsHold, Handling, Removing, Step, Erase, Goto
<1>7. ASSUME NEW a \in Actor, Drop(a) PROVE JobsHold'
  BY <1>7, BookAssumption
     DEF TypeOK, JobsHold, Handling, Removing, Step, Drop, Goto, AfterPrune
<1>8. ASSUME NEW a \in Actor, CheckRoom(a) PROVE JobsHold'
  BY <1>8, BookAssumption
     DEF TypeOK, JobsHold, Handling, Removing, Step, CheckRoom, Goto,
         Finish, Book
<1>9. ASSUME NEW a \in Actor, Insert(a) PROVE JobsHold'
  BY <1>9, BookAssumption
     DEF TypeOK, JobsHold, Handling, Removing, Step, Insert, Goto
<1>10. ASSUME NEW a \in Actor, Commit(a) PROVE JobsHold'
  BY <1>10, BookAssumption
     DEF TypeOK, JobsHold, Handling, Removing, Step, Commit, Goto, Finish
<1>11. ASSUME NEW a \in Actor, Send(a) PROVE JobsHold'
  BY <1>11, BookAssumption
     DEF TypeOK, JobsHold, Handling, Removing, Step, Send, HasSlot, Finish,
         Goto, Book
<1>12. ASSUME NEW a \in Actor, Answer(a) PROVE JobsHold'
  BY <1>12, BookAssumption
     DEF TypeOK, JobsHold, Handling, Removing, Step, Answer, Finish, Goto,
         Book
<1>13. ASSUME NEW a \in Actor, FailTxn(a) PROVE JobsHold'
  BY <1>13, BookAssumption
     DEF TypeOK, JobsHold, Handling, Removing, Step, FailTxn, Finish, Goto
<1>14. CASE Publish
  BY <1>14, BookAssumption
     DEF TypeOK, JobsHold, Handling, Removing, Step, Publish, Book
<1>15. CASE Crash
  BY <1>15, BookAssumption
     DEF TypeOK, JobsHold, Handling, Removing, Step, Crash, WarmUp
<1>16. CASE Tick
  BY <1>16, BookAssumption
     DEF TypeOK, JobsHold, Handling, Removing, Step, Tick, Book
<1>17. CASE UNCHANGED vars
  BY <1>17, BookAssumption
     DEF TypeOK, JobsHold, Handling, Removing, Step, vars
<1> QED
  BY <1>1, <1>2, <1>3, <1>4, <1>5, <1>6, <1>7, <1>8, <1>9, <1>10, <1>11,
     <1>12, <1>13, <1>14, <1>15, <1>16, <1>17 DEF Next, Work, Actor

-----------------------------------------------------------------------------
(* On an id that is not contested, jobs do not meet.                       *)
LEMMA ApartStep ==
  ASSUME TypeOK, JobsHold, Apart, [Next]_vars
  PROVE  Apart'
<1>1. ASSUME NEW a \in Actor, Post(a) PROVE Apart'
  BY <1>1, BookAssumption
     DEF TypeOK, JobsHold, Apart, Handling, Removing, Intent, Writing,
         Dropping, Post, Begin, Goto
<1>2. ASSUME NEW a \in Actor, Broadcast(a) PROVE Apart'
  BY <1>2, BookAssumption
     DEF TypeOK, JobsHold, Apart, Handling, Removing, Intent, Writing,
         Dropping, Broadcast, Begin, Goto
<1>3. ASSUME NEW a \in Actor, List(a) PROVE Apart'
  BY <1>3, BookAssumption
     DEF TypeOK, JobsHold, Apart, Handling, Removing, Intent, Writing,
         Dropping, List, Begin, Goto
<1>4. ASSUME NEW a \in Actor, Validate(a) PROVE Apart'
  BY <1>4, BookAssumption
     DEF TypeOK, JobsHold, Apart, Handling, Removing, Intent, Writing,
         Dropping, Validate, Goto, Finish, Book
<1>5. ASSUME NEW a \in Actor, Scan(a) PROVE Apart'
  BY <1>5, BookAssumption
     DEF TypeOK, JobsHold, Apart, Handling, Removing, Intent, Writing,
         Dropping, Scan, Goto, AfterPrune, Expired, Open
<1>6. ASSUME NEW a \in Actor, Erase(a) PROVE Apart'
  BY <1>6, BookAssumption
     DEF TypeOK, JobsHold, Apart, Handling, Removing, Intent, Writing,
         Dropping, Erase, Goto
<1>7. ASSUME NEW a \in Actor, Drop(a) PROVE Apart'
  BY <1>7, BookAssumption
     DEF TypeOK, JobsHold, Apart, Handling, Removing, Intent, Writing,
         Dropping, Drop, Goto, AfterPrune
<1>8. ASSUME NEW a \in Actor, CheckRoom(a) PROVE Apart'
  BY <1>8, BookAssumption
     DEF TypeOK, JobsHold, Apart, Handling, Removing, Intent, Writing,
         Dropping, CheckRoom, Goto, Finish, Book
<1>9. ASSUME NEW a \in Actor, Insert(a) PROVE Apart'
  BY <1>9, BookAssumption
     DEF TypeOK, JobsHold, Apart, Handling, Removing, Intent, Writing,
         Dropping, Insert, Goto
<1>10. ASSUME NEW a \in Actor, Commit(a) PROVE Apart'
  BY <1>10, BookAssumption
     DEF TypeOK, JobsHold, Apart, Handling, Removing, Intent, Writing,
         Dropping, Commit, Goto, Finish
<1>11. ASSUME NEW a \in Actor, Send(a) PROVE Apart'
  BY <1>11, BookAssumption
     DEF TypeOK, JobsHold, Apart, Handling, Removing, Intent, Writing,
         Dropping, Send, HasSlot, Finish, Goto, Book
<1>12. ASSUME NEW a \in Actor, Answer(a) PROVE Apart'
  BY <1>12, BookAssumption
     DEF TypeOK, JobsHold, Apart, Handling, Removing, Intent, Writing,
         Dropping, Answer, Finish, Goto, Book
<1>13. ASSUME NEW a \in Actor, FailTxn(a) PROVE Apart'
  BY <1>13, BookAssumption
     DEF TypeOK, JobsHold, Apart, Handling, Removing, Intent, Writing,
         Dropping, FailTxn, Finish, Goto
<1>14. CASE Publish
  BY <1>14, BookAssumption
     DEF TypeOK, JobsHold, Apart, Handling, Removing, Intent, Writing,
         Dropping, Publish, Book
<1>15. CASE Crash
  BY <1>15, BookAssumption
     DEF TypeOK, JobsHold, Apart, Handling, Removing, Intent, Writing,
         Dropping, Crash, WarmUp
<1>16. CASE Tick
  BY <1>16, BookAssumption
     DEF TypeOK, JobsHold, Apart, Handling, Removing, Intent, Writing,
         Dropping, Tick, Book
<1>17. CASE UNCHANGED vars
  BY <1>17, BookAssumption
     DEF TypeOK, JobsHold, Apart, Handling, Removing, Intent, Writing,
         Dropping, vars
<1> QED
  BY <1>1, <1>2, <1>3, <1>4, <1>5, <1>6, <1>7, <1>8, <1>9, <1>10, <1>11,
     <1>12, <1>13, <1>14, <1>15, <1>16, <1>17 DEF Next, Work, Actor

LEMMA AloneStep ==
  ASSUME TypeOK, JobsHold, Alone, [Next]_vars
  PROVE  Alone'
<1>1. ASSUME NEW a \in Actor, Post(a) PROVE Alone'
  BY <1>1, BookAssumption
     DEF TypeOK, JobsHold, Alone, Handling, Removing, Intent, Writing,
         Post, Begin, Goto
<1>2. ASSUME NEW a \in Actor, Broadcast(a) PROVE Alone'
  BY <1>2, BookAssumption
     DEF TypeOK, JobsHold, Alone, Handling, Removing, Intent, Writing,
         Broadcast, Begin, Goto
<1>3. ASSUME NEW a \in Actor, List(a) PROVE Alone'
  BY <1>3, BookAssumption
     DEF TypeOK, JobsHold, Alone, Handling, Removing, Intent, Writing,
         List, Begin, Goto
<1>4. ASSUME NEW a \in Actor, Validate(a) PROVE Alone'
  BY <1>4, BookAssumption
     DEF TypeOK, JobsHold, Alone, Handling, Removing, Intent, Writing,
         Validate, Goto, Finish, Book
<1>5. ASSUME NEW a \in Actor, Scan(a) PROVE Alone'
  BY <1>5, BookAssumption
     DEF TypeOK, JobsHold, Alone, Handling, Removing, Intent, Writing,
         Scan, Goto, AfterPrune, Expired, Open
<1>6. ASSUME NEW a \in Actor, Erase(a) PROVE Alone'
  BY <1>6, BookAssumption
     DEF TypeOK, JobsHold, Alone, Handling, Removing, Intent, Writing,
         Erase, Goto
<1>7. ASSUME NEW a \in Actor, Drop(a) PROVE Alone'
  BY <1>7, BookAssumption
     DEF TypeOK, JobsHold, Alone, Handling, Removing, Intent, Writing,
         Drop, Goto, AfterPrune
<1>8. ASSUME NEW a \in Actor, CheckRoom(a) PROVE Alone'
  BY <1>8, BookAssumption
     DEF TypeOK, JobsHold, Alone, Handling, Removing, Intent, Writing,
         CheckRoom, Goto, Finish, Book
<1>9. ASSUME NEW a \in Actor, Insert(a) PROVE Alone'
  BY <1>9, BookAssumption
     DEF TypeOK, JobsHold, Alone, Handling, Removing, Intent, Writing,
         Insert, Goto
<1>10. ASSUME NEW a \in Actor, Commit(a) PROVE Alone'
  BY <1>10, BookAssumption
     DEF TypeOK, JobsHold, Alone, Handling, Removing, Intent, Writing,
         Commit, Goto, Finish
<1>11. ASSUME NEW a \in Actor, Send(a) PROVE Alone'
  BY <1>11, BookAssumption
     DEF TypeOK, JobsHold, Alone, Handling, Removing, Intent, Writing,
         Send, HasSlot, Finish, Goto, Book
<1>12. ASSUME NEW a \in Actor, Answer(a) PROVE Alone'
  BY <1>12, BookAssumption
     DEF TypeOK, JobsHold, Alone, Handling, Removing, Intent, Writing,
         Answer, Finish, Goto, Book
<1>13. ASSUME NEW a \in Actor, FailTxn(a) PROVE Alone'
  BY <1>13, BookAssumption
     DEF TypeOK, JobsHold, Alone, Handling, Removing, Intent, Writing,
         FailTxn, Finish, Goto
<1>14. CASE Publish
  BY <1>14, BookAssumption
     DEF TypeOK, JobsHold, Alone, Handling, Removing, Intent, Writing,
         Publish, Book
<1>15. CASE Crash
  BY <1>15, BookAssumption
     DEF TypeOK, JobsHold, Alone, Handling, Removing, Intent, Writing,
         Crash, WarmUp
<1>16. CASE Tick
  BY <1>16, BookAssumption
     DEF TypeOK, JobsHold, Alone, Handling, Removing, Intent, Writing,
         Tick, Book
<1>17. CASE UNCHANGED vars
  BY <1>17, BookAssumption
     DEF TypeOK, JobsHold, Alone, Handling, Removing, Intent, Writing, vars
<1> QED
  BY <1>1, <1>2, <1>3, <1>4, <1>5, <1>6, <1>7, <1>8, <1>9, <1>10, <1>11,
     <1>12, <1>13, <1>14, <1>15, <1>16, <1>17 DEF Next, Work, Actor

-----------------------------------------------------------------------------
(* The cache, the table and what was accepted.                             *)
LEMMA RowsStep ==
  ASSUME TypeOK, JobsHold, Apart, Alone, Rows, [Next]_vars
  PROVE  Rows'
<1>1. ASSUME NEW a \in Actor, Post(a) PROVE Rows'
  BY <1>1, BookAssumption
     DEF TypeOK, JobsHold, Apart, Alone, Rows, Handling, Removing, Intent,
         Post, Begin, Goto
<1>2. ASSUME NEW a \in Actor, Broadcast(a) PROVE Rows'
  BY <1>2, BookAssumption
     DEF TypeOK, JobsHold, Apart, Alone, Rows, Handling, Removing, Intent,
         Broadcast, Begin, Goto
<1>3. ASSUME NEW a \in Actor, List(a) PROVE Rows'
  BY <1>3, BookAssumption
     DEF TypeOK, JobsHold, Apart, Alone, Rows, Handling, Removing, Intent,
         List, Begin, Goto
<1>4. ASSUME NEW a \in Actor, Validate(a) PROVE Rows'
  <2>1. UNCHANGED <<cache, disk, contested>>
    BY <1>4 DEF Validate, Book
  <2>2. \A b \in Actor : gone'[b] = gone[b]
    <3>1. pc[a] = "validate" /\ gone[a] = {}
      BY <1>4 DEF Validate, JobsHold, Removing
    <3> QED BY <1>4, <3>1 DEF Validate, Finish, TypeOK
  <2>3. \A b \in Actor : /\ pc'[b] = "commit" <=> pc[b] = "commit"
                         /\ pc'[b] = "drop" <=> pc[b] = "drop"
                         /\ pc[b] = "commit" => held'[b] = held[b]
    BY <1>4 DEF Validate, Goto, Finish, TypeOK
  <2> QED BY <2>1, <2>2, <2>3 DEF Rows
<1>5. ASSUME NEW a \in Actor, Scan(a) PROVE Rows'
  BY <1>5, BookAssumption
     DEF TypeOK, JobsHold, Apart, Alone, Rows, Handling, Removing, Intent,
         Scan, Goto, AfterPrune, Expired, Open
<1>6. ASSUME NEW a \in Actor, Erase(a) PROVE Rows'
  BY <1>6, BookAssumption
     DEF TypeOK, JobsHold, Apart, Alone, Rows, Handling, Removing, Intent,
         Erase, Goto
<1>7. ASSUME NEW a \in Actor, Drop(a) PROVE Rows'
  BY <1>7, BookAssumption
     DEF TypeOK, JobsHold, Apart, Alone, Rows, Handling, Removing, Intent,
         Drop, Goto, AfterPrune
<1>8. ASSUME NEW a \in Actor, CheckRoom(a) PROVE Rows'
  <2>1. UNCHANGED <<cache, disk, contested>>
    BY <1>8 DEF CheckRoom, Book
  <2>2. \A b \in Actor : gone'[b] = gone[b]
    <3>1. pc[a] = "room" /\ gone[a] = {}
      BY <1>8 DEF CheckRoom, JobsHold, Removing
    <3> QED BY <1>8, <3>1 DEF CheckRoom, Finish, TypeOK
  <2>3. \A b \in Actor : /\ pc'[b] = "commit" <=> pc[b] = "commit"
                         /\ pc'[b] = "drop" <=> pc[b] = "drop"
                         /\ pc[b] = "commit" => held'[b] = held[b]
    BY <1>8 DEF CheckRoom, Goto, Finish, TypeOK
  <2> QED BY <2>1, <2>2, <2>3 DEF Rows
<1>9. ASSUME NEW a \in Actor, Insert(a) PROVE Rows'
  BY <1>9, BookAssumption
     DEF TypeOK, JobsHold, Apart, Alone, Rows, Handling, Removing, Intent,
         Insert, Goto
<1>10. ASSUME NEW a \in Actor, Commit(a) PROVE Rows'
  <2> DEFINE k == held[a].id
  <2>1. /\ held[a] # None /\ k \in Id /\ gone[a] = {}
        /\ \A b \in Actor : gone'[b] = gone[b]
        /\ UNCHANGED <<cache, contested>>
        /\ disk' = [disk EXCEPT ![k] = held[a]]
    <3>1. held[a] # None /\ gone[a] = {}
      BY <1>10 DEF Commit, JobsHold, Handling, Removing
    <3>2. k \in Id
      BY <3>1, BookAssumption DEF TypeOK, Intent
    <3>3. \A b \in Actor : gone'[b] = gone[b]
      BY <1>10, <3>1 DEF Commit, Finish, TypeOK
    <3> QED BY <1>10, <3>1, <3>2, <3>3 DEF Commit
  <2>2. \A b \in Actor \ {a} : pc'[b] = pc[b] /\ held'[b] = held[b]
    BY <1>10 DEF Commit, Goto, Finish, TypeOK
  <2>3. pc[a] = "commit" /\ pc'[a] \notin {"commit", "drop"}
    BY <1>10 DEF Commit, Goto, Finish, TypeOK
  <2>4. ASSUME NEW i \in Id \ contested, i = k
        PROVE  /\ \A b \in Actor : i \notin gone[b]
               /\ cache[i] = held[a] /\ disk'[i] = held[a]
               /\ \A b \in Actor \ {a} : pc[b] = "commit" => held[b].id # i
    <3>1. \A b \in Actor : i \notin gone[b]
      BY <2>1, <2>3, <2>4 DEF Apart
    <3>2. cache[i] = held[a] /\ disk'[i] = held[a]
      BY <2>1, <2>3, <2>4 DEF Rows, TypeOK
    <3>3. \A b \in Actor \ {a} : pc[b] = "commit" => held[b].id # i
      BY <2>1, <2>3, <2>4 DEF Alone, JobsHold, Handling
    <3> QED BY <3>1, <3>2, <3>3
  <2>5. ASSUME NEW i \in Id \ contested, i # k
        PROVE  disk'[i] = disk[i]
    BY <2>1, <2>5 DEF TypeOK
  <2> HIDE DEF k
  <2>6. ASSUME NEW i \in Id \ contested
        PROVE
          /\ \A b \in Actor : pc'[b] = "drop" /\ i \in gone[b] => disk'[i] = None
          /\ disk'[i] # None => cache[i] # None
          /\ \A b \in Actor :
               pc'[b] = "commit" /\ held'[b].id = i => cache[i] = held'[b]
          /\ \/ cache[i] = disk'[i]
             \/ \E b \in Actor : pc'[b] = "drop" /\ i \in gone[b]
             \/ \E b \in Actor : pc'[b] = "commit" /\ held'[b].id = i
    <3>1. CASE i = k
      BY <3>1, <2>1, <2>2, <2>3, <2>4
    <3>2. CASE i # k
      BY <3>2, <2>1, <2>2, <2>3, <2>5 DEF Rows, k
    <3> QED BY <3>1, <3>2
  <2> QED BY <2>1, <2>6 DEF Rows
<1>11. ASSUME NEW a \in Actor, Send(a) PROVE Rows'
  BY <1>11, BookAssumption
     DEF TypeOK, JobsHold, Apart, Alone, Rows, Handling, Removing, Intent,
         Send, HasSlot, Finish, Goto, Book
<1>12. ASSUME NEW a \in Actor, Answer(a) PROVE Rows'
  BY <1>12, BookAssumption
     DEF TypeOK, JobsHold, Apart, Alone, Rows, Handling, Removing, Intent,
         Answer, Finish, Goto, Book
<1>13. ASSUME NEW a \in Actor, FailTxn(a) PROVE Rows'
  BY <1>13, BookAssumption
     DEF TypeOK, JobsHold, Apart, Alone, Rows, Handling, Removing, Intent,
         FailTxn, Finish, Goto
<1>14. CASE Publish
  BY <1>14, BookAssumption
     DEF TypeOK, JobsHold, Apart, Alone, Rows, Handling, Removing, Intent,
         Publish, Book
<1>15. CASE Crash
  BY <1>15, BookAssumption
     DEF TypeOK, JobsHold, Apart, Alone, Rows, Handling, Removing, Intent,
         Crash, WarmUp
<1>16. CASE Tick
  BY <1>16, BookAssumption
     DEF TypeOK, JobsHold, Apart, Alone, Rows, Handling, Removing, Intent,
         Tick, Book
<1>17. CASE UNCHANGED vars
  BY <1>17, BookAssumption
     DEF TypeOK, JobsHold, Apart, Alone, Rows, Handling, Removing, Intent,
         vars
<1> QED
  BY <1>1, <1>2, <1>3, <1>4, <1>5, <1>6, <1>7, <1>8, <1>9, <1>10, <1>11,
     <1>12, <1>13, <1>14, <1>15, <1>16, <1>17 DEF Next, Work, Actor

LEMMA LedgerStep ==
  ASSUME TypeOK, JobsHold, Apart, Rows, Ledger, [Next]_vars
  PROVE  Ledger'
<1>1. ASSUME NEW a \in Actor, Post(a) PROVE Ledger'
  BY <1>1, BookAssumption
     DEF TypeOK, JobsHold, Apart, Rows, Ledger, Live, Handling, Removing,
         Intent, Writing, Post, Begin, Goto
<1>2. ASSUME NEW a \in Actor, Broadcast(a) PROVE Ledger'
  BY <1>2, BookAssumption
     DEF TypeOK, JobsHold, Apart, Rows, Ledger, Live, Handling, Removing,
         Intent, Writing, Broadcast, Begin, Goto
<1>3. ASSUME NEW a \in Actor, List(a) PROVE Ledger'
  BY <1>3, BookAssumption
     DEF TypeOK, JobsHold, Apart, Rows, Ledger, Live, Handling, Removing,
         Intent, Writing, List, Begin, Goto
<1>4. ASSUME NEW a \in Actor, Validate(a) PROVE Ledger'
  BY <1>4, BookAssumption
     DEF TypeOK, JobsHold, Apart, Rows, Ledger, Live, Handling, Removing,
         Intent, Writing, Validate, Goto, Finish, Book
<1>5. ASSUME NEW a \in Actor, Scan(a) PROVE Ledger'
  BY <1>5, BookAssumption
     DEF TypeOK, JobsHold, Apart, Rows, Ledger, Live, Handling, Removing,
         Intent, Writing, Scan, Goto, AfterPrune, Expired, Open
<1>6. ASSUME NEW a \in Actor, Erase(a) PROVE Ledger'
  BY <1>6, BookAssumption
     DEF TypeOK, JobsHold, Apart, Rows, Ledger, Live, Handling, Removing,
         Intent, Writing, Erase, Goto
<1>7. ASSUME NEW a \in Actor, Drop(a) PROVE Ledger'
  BY <1>7, BookAssumption
     DEF TypeOK, JobsHold, Apart, Rows, Ledger, Live, Handling, Removing,
         Intent, Writing, Drop, Goto, AfterPrune
<1>8. ASSUME NEW a \in Actor, CheckRoom(a) PROVE Ledger'
  BY <1>8, BookAssumption
     DEF TypeOK, JobsHold, Apart, Rows, Ledger, Live, Handling, Removing,
         Intent, Writing, CheckRoom, Goto, Finish, Book
<1>9. ASSUME NEW a \in Actor, Insert(a) PROVE Ledger'
  BY <1>9, BookAssumption
     DEF TypeOK, JobsHold, Apart, Rows, Ledger, Live, Handling, Removing,
         Intent, Writing, Insert, Goto
<1>10. ASSUME NEW a \in Actor, Commit(a) PROVE Ledger'
  BY <1>10, BookAssumption
     DEF TypeOK, JobsHold, Apart, Rows, Ledger, Live, Handling, Removing,
         Intent, Writing, Commit, Goto, Finish
<1>11. ASSUME NEW a \in Actor, Send(a) PROVE Ledger'
  BY <1>11, BookAssumption
     DEF TypeOK, JobsHold, Apart, Rows, Ledger, Live, Handling, Removing,
         Intent, Writing, Send, HasSlot, Finish, Goto, Book
<1>12. ASSUME NEW a \in Actor, Answer(a) PROVE Ledger'
  BY <1>12, BookAssumption
     DEF TypeOK, JobsHold, Apart, Rows, Ledger, Live, Handling, Removing,
         Intent, Writing, Answer, Finish, Goto, Book
<1>13. ASSUME NEW a \in Actor, FailTxn(a) PROVE Ledger'
  BY <1>13, BookAssumption
     DEF TypeOK, JobsHold, Apart, Rows, Ledger, Live, Handling, Removing,
         Intent, Writing, FailTxn, Finish, Goto
<1>14. CASE Publish
  BY <1>14, BookAssumption
     DEF TypeOK, JobsHold, Apart, Rows, Ledger, Live, Handling, Removing,
         Intent, Writing, Publish, Book
<1>15. CASE Crash
  BY <1>15, BookAssumption
     DEF TypeOK, JobsHold, Apart, Rows, Ledger, Live, Handling, Removing,
         Intent, Writing, Crash, WarmUp
<1>16. CASE Tick
  BY <1>16, BookAssumption
     DEF TypeOK, JobsHold, Apart, Rows, Ledger, Live, Handling, Removing,
         Intent, Writing, Tick, Book
<1>17. CASE UNCHANGED vars
  BY <1>17, BookAssumption
     DEF TypeOK, JobsHold, Apart, Rows, Ledger, Live, Handling, Removing,
         Intent, Writing, vars
<1> QED
  BY <1>1, <1>2, <1>3, <1>4, <1>5, <1>6, <1>7, <1>8, <1>9, <1>10, <1>11,
     <1>12, <1>13, <1>14, <1>15, <1>16, <1>17 DEF Next, Work, Actor

-----------------------------------------------------------------------------
(* Admission.                                                              *)
LEMMA AdmittedStep ==
  ASSUME TypeOK, JobsHold, OnlyAdmitted, [Next]_vars
  PROVE  OnlyAdmitted'
<1>1. ASSUME NEW a \in Actor, Post(a) PROVE OnlyAdmitted'
  BY <1>1, BookAssumption
     DEF TypeOK, JobsHold, OnlyAdmitted, Admitted, Past, Handling, Intent,
         Post, Begin, Goto
<1>2. ASSUME NEW a \in Actor, Broadcast(a) PROVE OnlyAdmitted'
  BY <1>2, BookAssumption
     DEF TypeOK, JobsHold, OnlyAdmitted, Admitted, Past, Handling, Intent,
         Broadcast, Begin, Goto
<1>3. ASSUME NEW a \in Actor, List(a) PROVE OnlyAdmitted'
  BY <1>3, BookAssumption
     DEF TypeOK, JobsHold, OnlyAdmitted, Admitted, Past, Handling, Intent,
         List, Begin, Goto
<1>4. ASSUME NEW a \in Actor, Validate(a) PROVE OnlyAdmitted'
  BY <1>4, BookAssumption
     DEF TypeOK, JobsHold, OnlyAdmitted, Admitted, Past, Handling, Intent,
         ValidSwapIntent, SignatureAccepted, Validate, Goto, Finish, Book
<1>5. ASSUME NEW a \in Actor, Scan(a) PROVE OnlyAdmitted'
  BY <1>5, BookAssumption
     DEF TypeOK, JobsHold, OnlyAdmitted, Admitted, Past, Handling, Intent,
         Scan, Goto, AfterPrune, Expired, Open
<1>6. ASSUME NEW a \in Actor, Erase(a) PROVE OnlyAdmitted'
  BY <1>6, BookAssumption
     DEF TypeOK, JobsHold, OnlyAdmitted, Admitted, Past, Handling, Intent,
         Erase, Goto
<1>7. ASSUME NEW a \in Actor, Drop(a) PROVE OnlyAdmitted'
  BY <1>7, BookAssumption
     DEF TypeOK, JobsHold, OnlyAdmitted, Admitted, Past, Handling, Intent,
         Drop, Goto, AfterPrune
<1>8. ASSUME NEW a \in Actor, CheckRoom(a) PROVE OnlyAdmitted'
  BY <1>8, BookAssumption
     DEF TypeOK, JobsHold, OnlyAdmitted, Admitted, Past, Handling, Intent,
         CheckRoom, Goto, Finish, Book
<1>9. ASSUME NEW a \in Actor, Insert(a) PROVE OnlyAdmitted'
  BY <1>9, BookAssumption
     DEF TypeOK, JobsHold, OnlyAdmitted, Admitted, Past, Handling, Intent,
         Insert, Goto
<1>10. ASSUME NEW a \in Actor, Commit(a) PROVE OnlyAdmitted'
  BY <1>10, BookAssumption
     DEF TypeOK, JobsHold, OnlyAdmitted, Admitted, Past, Handling, Intent,
         Commit, Goto, Finish
<1>11. ASSUME NEW a \in Actor, Send(a) PROVE OnlyAdmitted'
  BY <1>11, BookAssumption
     DEF TypeOK, JobsHold, OnlyAdmitted, Admitted, Past, Handling, Intent,
         Send, HasSlot, Finish, Goto, Book
<1>12. ASSUME NEW a \in Actor, Answer(a) PROVE OnlyAdmitted'
  BY <1>12, BookAssumption
     DEF TypeOK, JobsHold, OnlyAdmitted, Admitted, Past, Handling, Intent,
         Answer, Finish, Goto, Book
<1>13. ASSUME NEW a \in Actor, FailTxn(a) PROVE OnlyAdmitted'
  BY <1>13, BookAssumption
     DEF TypeOK, JobsHold, OnlyAdmitted, Admitted, Past, Handling, Intent,
         FailTxn, Finish, Goto
<1>14. CASE Publish
  BY <1>14, BookAssumption
     DEF TypeOK, JobsHold, OnlyAdmitted, Admitted, Past, Handling, Intent,
         Publish, Book
<1>15. CASE Crash
  BY <1>15, BookAssumption
     DEF TypeOK, JobsHold, OnlyAdmitted, Admitted, Past, Handling, Intent,
         Crash, WarmUp
<1>16. CASE Tick
  BY <1>16, BookAssumption
     DEF TypeOK, JobsHold, OnlyAdmitted, Admitted, Past, Handling, Intent,
         Tick, Book
<1>17. CASE UNCHANGED vars
  BY <1>17, BookAssumption
     DEF TypeOK, JobsHold, OnlyAdmitted, Admitted, Past, Handling, Intent,
         vars
<1> QED
  BY <1>1, <1>2, <1>3, <1>4, <1>5, <1>6, <1>7, <1>8, <1>9, <1>10, <1>11,
     <1>12, <1>13, <1>14, <1>15, <1>16, <1>17 DEF Next, Work, Actor

-----------------------------------------------------------------------------
(* The capacity: only a job that passed the check enters, and it leaves    *)
(* the set of entering jobs as its intent joins the book.                  *)
LEMMA CapacityStep ==
  ASSUME TypeOK, JobsHold, Rows, CapacityBound, [Next]_vars
  PROVE  CapacityBound'
<1>1. ASSUME NEW a \in Actor, Post(a) PROVE CapacityBound'
  <2>1. Counted(cache', contested') \subseteq Counted(cache, contested)
    BY <1>1, BookAssumption DEF TypeOK, Counted, Post, Begin, Goto
  <2>2. Entering' \subseteq Entering
    BY <1>1 DEF TypeOK, Entering, Post, Begin, Goto
  <2> QED BY <2>1, <2>2, Shrinks
<1>2. ASSUME NEW a \in Actor, Broadcast(a) PROVE CapacityBound'
  <2>1. Counted(cache', contested') \subseteq Counted(cache, contested)
    BY <1>2, BookAssumption DEF TypeOK, Counted, Broadcast, Begin, Goto
  <2>2. Entering' \subseteq Entering
    BY <1>2 DEF TypeOK, Entering, Broadcast, Begin, Goto
  <2> QED BY <2>1, <2>2, Shrinks
<1>3. ASSUME NEW a \in Actor, List(a) PROVE CapacityBound'
  <2>1. Counted(cache', contested') \subseteq Counted(cache, contested)
    BY <1>3, BookAssumption DEF TypeOK, Counted, List, Begin, Goto
  <2>2. Entering' \subseteq Entering
    BY <1>3 DEF TypeOK, Entering, List, Begin, Goto
  <2> QED BY <2>1, <2>2, Shrinks
<1>4. ASSUME NEW a \in Actor, Validate(a) PROVE CapacityBound'
  <2>1. Counted(cache', contested') \subseteq Counted(cache, contested)
    BY <1>4, BookAssumption DEF TypeOK, Counted, Validate, Goto, Finish, Book
  <2>2. Entering' \subseteq Entering
    BY <1>4 DEF TypeOK, Entering, Validate, Goto, Finish, Book
  <2> QED BY <2>1, <2>2, Shrinks
<1>5. ASSUME NEW a \in Actor, Scan(a) PROVE CapacityBound'
  <2>1. Counted(cache', contested') \subseteq Counted(cache, contested)
    BY <1>5, BookAssumption
       DEF TypeOK, Counted, Scan, Goto, AfterPrune, Expired, Open
  <2>2. Entering' \subseteq Entering
    BY <1>5 DEF TypeOK, Entering, Scan, Goto, AfterPrune, Expired, Open
  <2> QED BY <2>1, <2>2, Shrinks
<1>6. ASSUME NEW a \in Actor, Erase(a) PROVE CapacityBound'
  <2>1. Counted(cache', contested') \subseteq Counted(cache, contested)
    BY <1>6, BookAssumption DEF TypeOK, Counted, Erase, Goto
  <2>2. Entering' \subseteq Entering
    BY <1>6 DEF TypeOK, Entering, Erase, Goto
  <2> QED BY <2>1, <2>2, Shrinks
<1>7. ASSUME NEW a \in Actor, Drop(a) PROVE CapacityBound'
  <2>1. Counted(cache', contested') \subseteq Counted(cache, contested)
    BY <1>7, BookAssumption DEF TypeOK, Counted, Drop, Goto, AfterPrune
  <2>2. Entering' \subseteq Entering
    BY <1>7 DEF TypeOK, Entering, Drop, Goto, AfterPrune
  <2> QED BY <2>1, <2>2, Shrinks
<1>8. ASSUME NEW a \in Actor, CheckRoom(a) PROVE CapacityBound'
  <2> DEFINE S == Counted(cache, contested)
             F == Entering'
  <2>1. CASE ~ Room
    <3>1. Counted(cache', contested') \subseteq Counted(cache, contested)
      BY <1>8, <2>1 DEF CheckRoom, Book, Counted
    <3>2. Entering' \subseteq Entering
      BY <1>8, <2>1 DEF CheckRoom, Finish, Goto, TypeOK, Entering
    <3> QED BY <3>1, <3>2, Shrinks
  <2>2. CASE Room
    <3>1. S \subseteq Open /\ Open \subseteq Id /\ (Open \ contested)' = S
      BY <1>8 DEF CheckRoom, Book, Open, Counted
    <3>2. Cardinality(S) <= Cardinality(Open) /\ Cardinality(S) \in Nat
          /\ Cardinality(Open) \in Nat
      BY <3>1, SubsetSize, BookAssumption
    <3>3. Cardinality(F) <= Cardinality(Actor) /\ Cardinality(F) \in Nat
      <4>1. F \subseteq Actor
        BY DEF Entering
      <4> QED BY <4>1, SubsetSize, FiniteActors
    <3>4. Cardinality(Open) < MaxIntents
      BY <2>2 DEF Room
    <3> HIDE DEF S, F
    <3>5. Cardinality(S) + Cardinality(F)
            <= MaxIntents - 1 + Cardinality(Actor)
      BY <3>2, <3>3, <3>4, FiniteActors, BookAssumption
    <3> QED BY <3>1, <3>5 DEF CapacityBound, F
  <2> QED BY <2>1, <2>2
<1>9. ASSUME NEW a \in Actor, Insert(a) PROVE CapacityBound'
  <2> DEFINE S == Counted(cache, contested)
             T == Counted(cache', contested')
             k == held[a].id
             F == Entering'
  <2>1. T \subseteq S \cup {k}
    BY <1>9 DEF Insert, TypeOK, Counted
  <2>2. Entering' = Entering \ {a} /\ a \in Entering
    BY <1>9 DEF Insert, Goto, TypeOK, Entering
  <2>3. /\ Open \ contested = S
        /\ (Open \ contested)' = T
    BY DEF Open, Counted
  <2>4. IsFiniteSet(S) /\ Cardinality(S) \in Nat /\ Cardinality(T) \in Nat
    BY CountedFinite
  <2> HIDE DEF S, T, k
  <2>5. Cardinality(T) <= Cardinality(S) + 1
    <3>1. /\ IsFiniteSet(S \cup {k})
          /\ Cardinality(S \cup {k}) <= Cardinality(S) + 1
      BY <2>4, FS_AddElement
    <3>2. /\ Cardinality(T) <= Cardinality(S \cup {k})
          /\ Cardinality(S \cup {k}) \in Nat
      BY <3>1, <2>1, SubsetSize
    <3> QED BY <3>1, <3>2, <2>4
  <2>6. Cardinality(F) = Cardinality(Entering) - 1
    BY <2>2, EnteringFinite, FS_RemoveElement
  <2>7. Cardinality(S) + Cardinality(Entering)
          <= MaxIntents - 1 + Cardinality(Actor)
    BY <2>3 DEF CapacityBound
  <2> HIDE DEF F
  <2>8. Cardinality(T) + Cardinality(F)
          <= MaxIntents - 1 + Cardinality(Actor)
    BY <2>4, <2>5, <2>6, <2>7, EnteringFinite, FiniteActors, BookAssumption
  <2> QED BY <2>3, <2>8 DEF CapacityBound, F
<1>10. ASSUME NEW a \in Actor, Commit(a) PROVE CapacityBound'
  <2>1. Counted(cache', contested') \subseteq Counted(cache, contested)
    BY <1>10, BookAssumption DEF TypeOK, Counted, Commit, Goto, Finish
  <2>2. Entering' \subseteq Entering
    BY <1>10 DEF TypeOK, Entering, Commit, Goto, Finish
  <2> QED BY <2>1, <2>2, Shrinks
<1>11. ASSUME NEW a \in Actor, Send(a) PROVE CapacityBound'
  <2>1. Counted(cache', contested') \subseteq Counted(cache, contested)
    BY <1>11, BookAssumption
       DEF TypeOK, Counted, Send, HasSlot, Finish, Goto, Book
  <2>2. Entering' \subseteq Entering
    BY <1>11 DEF TypeOK, Entering, Send, HasSlot, Finish, Goto, Book
  <2> QED BY <2>1, <2>2, Shrinks
<1>12. ASSUME NEW a \in Actor, Answer(a) PROVE CapacityBound'
  <2>1. Counted(cache', contested') \subseteq Counted(cache, contested)
    BY <1>12, BookAssumption DEF TypeOK, Counted, Answer, Finish, Goto, Book
  <2>2. Entering' \subseteq Entering
    BY <1>12 DEF TypeOK, Entering, Answer, Finish, Goto, Book
  <2> QED BY <2>1, <2>2, Shrinks
<1>13. ASSUME NEW a \in Actor, FailTxn(a) PROVE CapacityBound'
  <2>1. Counted(cache', contested') \subseteq Counted(cache, contested)
    BY <1>13, BookAssumption DEF TypeOK, Counted, FailTxn, Finish, Goto
  <2>2. Entering' \subseteq Entering
    BY <1>13 DEF TypeOK, Entering, FailTxn, Finish, Goto
  <2> QED BY <2>1, <2>2, Shrinks
<1>14. CASE Publish
  <2>1. Counted(cache', contested') \subseteq Counted(cache, contested)
    BY <1>14, BookAssumption DEF TypeOK, Counted, Publish, Book
  <2>2. Entering' \subseteq Entering
    BY <1>14 DEF TypeOK, Entering, Publish, Book
  <2> QED BY <2>1, <2>2, Shrinks
<1>15. CASE Crash
  <2>1. Counted(cache', contested') \subseteq Counted(cache, contested)
    BY <1>15 DEF TypeOK, Rows, Counted, Crash, WarmUp
  <2>2. Entering' \subseteq Entering
    BY <1>15 DEF Entering, Crash
  <2> QED BY <2>1, <2>2, Shrinks
<1>16. CASE Tick
  <2>1. Counted(cache', contested') \subseteq Counted(cache, contested)
    BY <1>16, BookAssumption DEF TypeOK, Counted, Tick, Book
  <2>2. Entering' \subseteq Entering
    BY <1>16 DEF TypeOK, Entering, Tick, Book
  <2> QED BY <2>1, <2>2, Shrinks
<1>17. CASE UNCHANGED vars
  <2>1. Counted(cache', contested') \subseteq Counted(cache, contested)
    BY <1>17, BookAssumption DEF TypeOK, Counted, vars
  <2>2. Entering' \subseteq Entering
    BY <1>17 DEF TypeOK, Entering, vars
  <2> QED BY <2>1, <2>2, Shrinks
<1> QED
  BY <1>1, <1>2, <1>3, <1>4, <1>5, <1>6, <1>7, <1>8, <1>9, <1>10, <1>11,
     <1>12, <1>13, <1>14, <1>15, <1>16, <1>17 DEF Next, Work, Actor

-----------------------------------------------------------------------------
LEMMA InitInv == ASSUME Init PROVE Inv
<1>1. TypeOK /\ JobsHold
  BY BookAssumption DEF Init, TypeOK, JobsHold, Step, Handling, Removing
<1>2. Apart /\ Alone /\ Rows /\ Ledger /\ OnlyAdmitted
  BY BookAssumption
     DEF Init, Apart, Alone, Rows, Ledger, Live, OnlyAdmitted, Past
<1>3. CapacityBound
  <2>1. Open \ contested = {} /\ Entering = {}
    BY DEF Init, Open, Entering
  <2>2. Cardinality(Open \ contested) = 0 /\ Cardinality(Entering) = 0
    BY <2>1, FS_EmptySet
  <2> HIDE DEF Open, Entering
  <2> QED BY <2>2, FiniteActors, BookAssumption DEF CapacityBound
<1> QED BY <1>1, <1>2, <1>3 DEF Inv

LEMMA Inductive == Inv /\ [Next]_vars => Inv'
  BY TypeStep, JobsStep, ApartStep, AloneStep, RowsStep, LedgerStep,
     AdmittedStep, CapacityStep DEF Inv

LEMMA Invariance == Spec => []Inv
  BY InitInv, Inductive, PTL DEF Spec

(* The book's state keeps its types for any number of requests and intents *)
(* and any capacity; in particular the gossip channel of publish_json is   *)
(* never over its capacity.                                                *)
THEOREM BookTypes == Spec => []TypeOK
<1>1. Inv => TypeOK
  BY DEF Inv
<1> QED BY <1>1, Invariance, PTL

(* However many requests pass insert_intent's capacity check at once, the  *)
(* book exceeds MAX_ACTIVE_INTENTS by less than the number of actors.      *)
THEOREM CapacityTheorem == Spec => []CapacityBound
<1>1. Inv => CapacityBound
  BY DEF Inv
<1> QED BY <1>1, Invariance, PTL

(* Whatever insert_intent committed stays in the table and in the cache    *)
(* until it expires, through every interleaving of prunes, posts, failed   *)
(* transactions and restarts on ids where no two jobs met.                 *)
THEOREM AcceptedTheorem == Spec => []AcceptedStays
<1>1. Inv => AcceptedStays
  <2> SUFFICES ASSUME Inv, NEW i \in Id \ contested, Live(i)
               PROVE  /\ disk[i] = stored[i]
                      /\ \/ cache[i] = stored[i]
                         \/ \E a \in Actor : pc[a] = "commit" /\ cache[i] = held[a]
    BY DEF AcceptedStays, Live
  <2>1. disk[i] = stored[i] /\ disk[i] # None
    BY DEF Inv, Ledger, Live
  <2>2. \/ cache[i] = disk[i]
        \/ \E a \in Actor : pc[a] = "commit" /\ cache[i] = held[a]
    BY <2>1 DEF Inv, Rows
  <2> QED BY <2>1, <2>2
<1> QED BY <1>1, Invariance, PTL

(* On such ids a restart, which refills the cache from the table in        *)
(* warm_up_cache, changes nothing that no job is in the middle of.         *)
THEOREM RestartTheorem == Spec => []RestartNeutral
<1>1. Inv => RestartNeutral
  BY DEF Inv, Rows, RestartNeutral, Settled
<1> QED BY <1>1, Invariance, PTL

(* Only intents that passed validate_swap_intent are in the cache or the   *)
(* table, from either door, and none for longer than slack and window;     *)
(* their signatures verified if no process so far ran with                 *)
(* PSOB_REQUIRE_SIGNATURES relaxed.                                        *)
THEOREM AdmissionTheorem == Spec => []NoSquatter
<1>1. Inv => NoSquatter
  BY DEF Inv, OnlyAdmitted, Admitted, NoSquatter
<1> QED BY <1>1, Invariance, PTL
=============================================================================
