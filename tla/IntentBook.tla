----------------------------- MODULE IntentBook -----------------------------
(***************************************************************************)
(* The psob-swap/1 order book: swap intents posted over HTTP               *)
(* (server.rs, create_swap_intent) or received from the gossip mesh        *)
(* (p2p/swarm.rs, run_swarm_loop), validated (swap.rs), kept in a cache    *)
(* and in a table of the database (db.rs, insert_intent, list_intents,     *)
(* prune_expired_intents, warm_up_cache), and handed to the swarm through  *)
(* a bounded channel (p2p/mod.rs, publish_json).                           *)
(*                                                                         *)
(* Every handler is a job of an actor: an HTTP request, or the one task    *)
(* that runs the swarm loop.  Jobs interleave at each access to the cache  *)
(* and at each database transaction, because nothing is locked in between. *)
(***************************************************************************)
EXTENDS Integers, FiniteSets

CONSTANTS
    Poster,         \* the HTTP requests that may run at the same time
    Swarm,          \* the task of the swarm loop
    Id,             \* intent ids
    Offer,          \* the intents that may be posted or received
    None,           \* no intent
    KnownChain,     \* the chains of the registry
    MaxIntents,     \* MAX_ACTIVE_INTENTS, 20,000 in the code
    ChannelCap,     \* capacity of the gossip channel, 1,000 in the code
    FutureSlack,    \* how far ahead a timestamp may be, 300 s in the code
    MaxWindow,      \* longest validity of an intent, 30 days in the code
    P2pEnabled,     \* whether the swarm was started
    MaxTime,        \* bound: the clock stops here
    MaxJobs,        \* bound: how many jobs are started
    MaxFaults       \* bound: how many crashes and failed transactions

Actor == Poster \cup {Swarm}

(* An intent: the fields the code compares.  `envelope' stands for the     *)
(* protocol, version, settlement, amounts, address and the lengths of the  *)
(* key and signature; `signed' for a signature that verifies.              *)
Intent == [id : Id, from : Nat, to : Nat, timestamp : Nat, expiry : Nat,
           envelope : BOOLEAN, signed : BOOLEAN]

ASSUME BookAssumption ==
    /\ IsFiniteSet(Poster) /\ IsFiniteSet(Id) /\ Swarm \notin Poster
    /\ Offer \subseteq Intent /\ None \notin Offer
    /\ MaxIntents \in Nat \ {0} /\ ChannelCap \in Nat \ {0}
    /\ FutureSlack \in Nat /\ MaxWindow \in Nat
    /\ P2pEnabled \in BOOLEAN
    /\ MaxTime \in Nat /\ MaxJobs \in Nat /\ MaxFaults \in Nat

VARIABLES
    now,        \* seconds, SystemTime::now
    cache,      \* cache_intents: id -> intent or None
    disk,       \* TABLE_SWAP_INTENTS: id -> intent or None
    pc,         \* where the job of each actor is
    held,       \* the intent the job of each actor is about
    gone,       \* the expired ids the actor's prune collected
    channel,    \* how many messages wait between tx_gossip and rx_gossip
    jobs,       \* how many jobs were started
    faults,     \* how many faults happened
    stored,     \* history: the last intent committed under each id
    contested,  \* history: ids on which two jobs overlapped or one failed
    signatures  \* PSOB_REQUIRE_SIGNATURES, which a restart may change:
                \* "relaxed" in this process, "restored" after an earlier one
                \* was, or "enforced" in all processes so far

vars == <<now, cache, disk, pc, held, gone, channel, jobs, faults,
          stored, contested, signatures>>

Step == {"idle", "validate", "scan", "erase", "drop", "room", "insert",
         "commit", "send", "list_scan", "list"}

TypeOK ==
    /\ now \in 0 .. MaxTime
    /\ cache \in [Id -> Offer \cup {None}]
    /\ disk \in [Id -> Offer \cup {None}]
    /\ pc \in [Actor -> Step]
    /\ held \in [Actor -> Offer \cup {None}]
    /\ gone \in [Actor -> SUBSET Id]
    /\ channel \in 0 .. ChannelCap
    /\ jobs \in 0 .. MaxJobs /\ faults \in 0 .. MaxFaults
    /\ stored \in [Id -> Offer \cup {None}]
    /\ contested \in SUBSET Id
    /\ signatures \in {"enforced", "relaxed", "restored"}

-----------------------------------------------------------------------------
(* validate_swap_intent with verify_intent_signature.                      *)

(* The signature is not verified while the setting is relaxed.             *)
SignatureAccepted(o) == signatures = "relaxed" \/ o.signed

(* Mutant: the upper bound on the timestamp is forgotten.                  *)
MutValidSwapIntent(o, t) ==
    /\ o.envelope
    /\ o.from # o.to /\ {o.from, o.to} \subseteq KnownChain
    /\ o.expiry > t
    /\ o.expiry - o.timestamp <= MaxWindow
    /\ SignatureAccepted(o)

(* The intents accepted at time t; expiry - timestamp saturates at zero.   *)
ValidSwapIntent(o, t) ==
    /\ o.envelope
    /\ o.from # o.to /\ {o.from, o.to} \subseteq KnownChain
    /\ o.timestamp <= t + FutureSlack
    /\ o.expiry > t
    /\ o.expiry - o.timestamp <= MaxWindow
    /\ SignatureAccepted(o)

Open == {i \in Id : cache[i] # None}

(* The ids prune_expired_intents collects.                                 *)
Expired == {i \in Open : cache[i].expiry <= now}

(* Mutant: one more intent than the capacity is let in.                    *)
MutRoom == Cardinality(Open) <= MaxIntents

(* The capacity check of insert_intent.                                    *)
Room == Cardinality(Open) < MaxIntents

(* The ids the others' jobs will still write, and those their prunes will  *)
(* still remove.                                                           *)
Writing(a) == {held[b].id : b \in {c \in Actor \ {a} :
                                     held[c] # None /\ pc[c] # "send"}}
Dropping(a) == UNION {gone[b] : b \in Actor \ {a}}

-----------------------------------------------------------------------------
Init ==
    /\ now = 0
    /\ cache = [i \in Id |-> None] /\ disk = [i \in Id |-> None]
    /\ pc = [a \in Actor |-> "idle"]
    /\ held = [a \in Actor |-> None]
    /\ gone = [a \in Actor |-> {}]
    /\ channel = 0
    /\ jobs = 0 /\ faults = 0
    /\ stored = [i \in Id |-> None]
    /\ contested = {}
    /\ signatures \in {"enforced", "relaxed"}

Goto(a, l) == pc' = [pc EXCEPT ![a] = l]

(* The job of a ends.                                                      *)
Finish(a) ==
    /\ Goto(a, "idle")
    /\ held' = [held EXCEPT ![a] = None]
    /\ gone' = [gone EXCEPT ![a] = {}]

Book == <<cache, disk, stored, contested>>

(* A job starts at step l with intent o: a POST of an intent, the swarm's  *)
(* event of an inbound intent, a direct broadcast, or a listing.           *)
Begin(a, l, o) ==
    /\ pc[a] = "idle" /\ jobs < MaxJobs
    /\ jobs' = jobs + 1
    /\ Goto(a, l)
    /\ held' = [held EXCEPT ![a] = o]
    /\ UNCHANGED <<signatures, now, cache, disk, gone, channel, faults, stored>>

Post(a) == \E o \in Offer :
    /\ Begin(a, "validate", o)
    /\ contested' = contested \cup ({o.id} \cap (Writing(a) \cup Dropping(a)))

(* POST /p2p/broadcast: the intent is neither validated nor stored.        *)
Broadcast(h) == P2pEnabled /\ Begin(h, "send", None) /\ UNCHANGED contested

List(h) == Begin(h, "list_scan", None) /\ UNCHANGED contested

(* 400 for an HTTP request, a warning in the swarm loop.                   *)
Validate(a) ==
    /\ pc[a] = "validate"
    /\ IF ValidSwapIntent(held[a], now)
         THEN Goto(a, "scan") /\ UNCHANGED <<held, gone>>
         ELSE Finish(a)
    /\ UNCHANGED <<signatures, now, Book, channel, jobs, faults>>

(* prune_expired_intents, in the three steps in which others can see it:   *)
(* the scan of the cache, the transaction, the removals from the cache.    *)
AfterPrune(a) == IF held[a] = None THEN "list" ELSE "room"

Scan(a) ==
    /\ pc[a] \in {"scan", "list_scan"}
    /\ gone' = [gone EXCEPT ![a] = Expired]
    /\ contested' = contested \cup (Expired \cap Writing(a))
    /\ Goto(a, IF Expired = {} THEN AfterPrune(a) ELSE "erase")
    /\ UNCHANGED <<signatures, now, cache, disk, held, channel, jobs, faults,
                   stored>>

Erase(a) ==
    /\ pc[a] = "erase"
    /\ disk' = [i \in Id |-> IF i \in gone[a] THEN None ELSE disk[i]]
    /\ Goto(a, "drop")
    /\ UNCHANGED <<signatures, now, cache, held, gone, channel, jobs, faults,
                   stored, contested>>

(* Mutant: the loop over the expired ids ends after the first.             *)
MutDrop(a) ==
    /\ pc[a] = "drop"
    /\ \E i \in gone[a] :
         /\ cache' = [cache EXCEPT ![i] = None]
         /\ gone' = [gone EXCEPT ![a] = {}]
         /\ Goto(a, AfterPrune(a))
    /\ UNCHANGED <<signatures, now, disk, held, channel, jobs, faults, stored,
                   contested>>

Drop(a) ==
    /\ pc[a] = "drop"
    /\ \E i \in gone[a] :
         /\ cache' = [cache EXCEPT ![i] = None]
         /\ gone' = [gone EXCEPT ![a] = @ \ {i}]
         /\ Goto(a, IF gone[a] = {i} THEN AfterPrune(a) ELSE "drop")
    /\ UNCHANGED <<signatures, now, disk, held, channel, jobs, faults, stored,
                   contested>>

(* The rest of insert_intent: capacity check, cache, transaction.          *)
CheckRoom(a) ==
    /\ pc[a] = "room"
    /\ IF Room THEN Goto(a, "insert") /\ UNCHANGED <<held, gone>>
               ELSE Finish(a)
    /\ UNCHANGED <<signatures, now, Book, channel, jobs, faults>>

Insert(a) ==
    /\ pc[a] = "insert"
    /\ cache' = [cache EXCEPT ![held[a].id] = held[a]]
    /\ Goto(a, "commit")
    /\ UNCHANGED <<signatures, now, disk, held, gone, channel, jobs, faults,
                   stored, contested>>

(* Mutant: the swarm loop relays what it stored.                           *)
MutRelays(a) == P2pEnabled

(* Only create_swap_intent hands a stored intent to the swarm.             *)
Relays(a) == P2pEnabled /\ a # Swarm

Commit(a) ==
    /\ pc[a] = "commit"
    /\ disk' = [disk EXCEPT ![held[a].id] = held[a]]
    /\ stored' = [stored EXCEPT ![held[a].id] = held[a]]
    /\ IF Relays(a) THEN Goto(a, "send") /\ UNCHANGED <<held, gone>>
                    ELSE Finish(a)
    /\ UNCHANGED <<signatures, now, cache, channel, jobs, faults, contested>>

(* Mutant: the channel is unbounded.                                       *)
MutHasSlot == TRUE

HasSlot == channel < ChannelCap

(* publish_json awaits room in the channel; then the request is answered.  *)
Send(a) ==
    /\ pc[a] = "send"
    /\ HasSlot
    /\ channel' = channel + 1
    /\ Finish(a)
    /\ UNCHANGED <<signatures, now, Book, jobs, faults>>

(* list_intents answers with the intents that are open now.                *)
Answer(a) ==
    /\ pc[a] = "list"
    /\ Finish(a)
    /\ UNCHANGED <<signatures, now, Book, channel, jobs, faults>>

(* The other branch of the loop's select: a queued message is published.   *)
(* A publish that fails is logged and the message is dropped all the same. *)
Publish ==
    /\ P2pEnabled /\ pc[Swarm] = "idle" /\ channel > 0
    /\ channel' = channel - 1
    /\ UNCHANGED <<signatures, now, Book, pc, held, gone, jobs, faults>>

(* A transaction fails: the job ends with an error (500 or a warning), and *)
(* what it had put into the cache stays there.                             *)
FailTxn(a) ==
    /\ pc[a] \in {"erase", "commit"} /\ faults < MaxFaults
    /\ faults' = faults + 1
    /\ contested' = IF pc[a] = "commit" THEN contested \cup {held[a].id}
                                        ELSE contested
    /\ Finish(a)
    /\ UNCHANGED <<signatures, now, cache, disk, channel, jobs, stored>>

(* Mutant: the warm-up forgets the intents.                                *)
MutWarmUp == [i \in Id |-> None]

(* warm_up_cache fills the cache from the table.                           *)
WarmUp == disk

Crash ==
    /\ faults < MaxFaults
    /\ faults' = faults + 1
    /\ cache' = WarmUp
    /\ pc' = [a \in Actor |-> "idle"]
    /\ held' = [a \in Actor |-> None]
    /\ gone' = [a \in Actor |-> {}]
    /\ channel' = 0
    /\ signatures' \in IF signatures = "enforced" THEN {"enforced", "relaxed"}
                                                ELSE {"relaxed", "restored"}
    /\ UNCHANGED <<now, disk, jobs, stored, contested>>

Tick ==
    /\ now < MaxTime
    /\ now' = now + 1
    /\ UNCHANGED <<signatures, Book, pc, held, gone, channel, jobs, faults>>

(* The steps of a job that do not wait for anyone.                         *)
Work(a) ==
    \/ Validate(a) \/ Scan(a) \/ Erase(a) \/ Drop(a)
    \/ CheckRoom(a) \/ Insert(a) \/ Commit(a) \/ Send(a) \/ Answer(a)

Next ==
    \/ \E h \in Poster : Post(h) \/ Broadcast(h) \/ List(h)
    \/ P2pEnabled /\ Post(Swarm)
    \/ \E a \in Actor : Work(a) \/ FailTxn(a)
    \/ Publish
    \/ Crash
    \/ Tick

Spec == Init /\ [][Next]_vars

(* Tokio runs every ready task; the select of the swarm loop polls its     *)
(* branches in random order, so that a queued message is not starved by    *)
(* inbound events.                                                         *)
Fairness ==
    /\ \A h \in Poster : SF_vars(Work(h))
    /\ WF_vars(Work(Swarm))
    /\ SF_vars(Publish)

FairSpec == Spec /\ Fairness

-----------------------------------------------------------------------------
(* The capacity of insert_intent is checked in one step and used in a      *)
(* later one.  Requests that pass the check together overshoot it, but     *)
(* never by more than one intent for each other actor: the intents in the  *)
(* cache and those about to enter it stay below MaxIntents plus the number *)
(* of actors, across restarts.  Ids on which two jobs met do not count:    *)
(* a prune may hide such an intent from the capacity check and leave its   *)
(* row, and a restart then brings it back on top of a full book.           *)
Entering == {a \in Actor : pc[a] = "insert"}

CapacityBound ==
    Cardinality(Open \ contested) + Cardinality(Entering)
        <= MaxIntents - 1 + Cardinality(Actor)

(* An intent whose transaction was committed, which is what "accepted"     *)
(* answers to, is in the table and in the cache until it expires, across   *)
(* prunes, other posts, failed transactions and restarts, unless two jobs  *)
(* met on its id; in the cache it may only be overtaken by a newer post of *)
(* the same id that is about to be committed.                              *)
AcceptedStays == \A i \in Id \ contested :
    (stored[i] # None /\ stored[i].expiry > now) =>
        /\ disk[i] = stored[i]
        /\ \/ cache[i] = stored[i]
           \/ \E a \in Actor : pc[a] = "commit" /\ cache[i] = held[a]

(* The cache and the table agree on every id nobody is working on, so that *)
(* a restart neither revives a pruned intent nor loses a listed one.       *)
Settled(i) == \A a \in Actor : /\ i \notin gone[a]
                               /\ pc[a] = "commit" => held[a].id # i

RestartNeutral == \A i \in Id \ contested : Settled(i) => cache[i] = disk[i]

(* No intent, from either door, can occupy the book for longer than the    *)
(* slack and the validity window together: validation bounds the timestamp *)
(* by the clock and the expiry by the timestamp, and only both bound the   *)
(* expiry.  Nothing between unknown chains is ever stored, and nothing     *)
(* whose signature does not verify as long as every process so far         *)
(* enforced signatures; what a process with PSOB_REQUIRE_SIGNATURES        *)
(* relaxed let in stays, because warm_up_cache validates nothing again.    *)
NoSquatter == \A i \in Id : \A o \in {cache[i], disk[i]} \ {None} :
    /\ o.expiry <= now + FutureSlack + MaxWindow
    /\ signatures = "enforced" => o.signed
    /\ o.from # o.to /\ {o.from, o.to} \subseteq KnownChain

(* Every request is answered and every inbound intent is dealt with, even  *)
(* when the channel is full: the swarm loop, which alone empties the       *)
(* channel, never waits for it.                                            *)
EveryJobEnds == \A a \in Actor : pc[a] # "idle" ~> pc[a] = "idle"
=============================================================================
