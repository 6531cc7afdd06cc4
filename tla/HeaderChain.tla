---------------------------- MODULE HeaderChain ----------------------------
(***************************************************************************)
(* What the block store of one aux chain promises its readers: the stored  *)
(* headers are one unbroken, hash-linked run of heights, and it changes    *)
(* only at its two ends.  A batch of verified headers is appended on top,  *)
(* a reorg takes the top header away, the bounded-window policy drops      *)
(* headers from the bottom.  Nothing is ever rewritten in place.           *)
(***************************************************************************)
EXTENDS Integers

CONSTANTS
    Block,      \* block hashes
    NoBlock,    \* no block stored at a height
    Prev,       \* Prev[b]: the prev_hash field of the header hashing to b
    MaxHeight   \* the largest representable height

VARIABLE chain  \* the stored header at each height

Heights == 0 .. MaxHeight

Stored(h) == chain[h] # NoBlock

\* h is the highest (lowest) stored height.
IsTop(h) == Stored(h) /\ \A k \in Heights : k > h => ~ Stored(k)

Empty == \A h \in Heights : ~ Stored(h)

TypeOK == chain \in [Heights -> Block \cup {NoBlock}]

Init == chain = [h \in Heights |-> NoBlock]

(***************************************************************************)
(* Append the headers lo..hi.  They are linked to one another, and to the  *)
(* top of the chain unless the store is empty.                             *)
(***************************************************************************)
Extend(lo, hi) ==
    /\ Empty \/ (lo > 0 /\ IsTop(lo - 1))
    /\ chain' \in [Heights -> Block \cup {NoBlock}]
    /\ \A h \in Heights \ (lo .. hi) : chain'[h] = chain[h]
    /\ \A h \in lo .. hi : chain'[h] \in Block
    /\ \A h \in lo .. hi :
        h > 0 /\ chain'[h - 1] # NoBlock => Prev[chain'[h]] = chain'[h - 1]

\* A reorg takes away the top header, and only that one.
Retract(h) ==
    /\ IsTop(h)
    /\ chain' = [chain EXCEPT ![h] = NoBlock]

\* The bounded window drops everything below a stored height.
Drop(below) ==
    /\ Stored(below)
    /\ chain' = [h \in Heights |-> IF h < below THEN NoBlock ELSE chain[h]]

Next ==
    \/ \E lo, hi \in Heights : Extend(lo, hi)
    \/ \E h \in Heights : Retract(h)
    \/ \E h \in Heights : Drop(h)

Spec == Init /\ [][Next]_chain

(***************************************************************************)
(* Every stored header but the lowest names the stored header one below it *)
(* as its predecessor; in particular there is no gap.                      *)
(***************************************************************************)
Unbroken ==
    \A h, k \in Heights :
        Stored(h) /\ Stored(k) /\ k < h =>
            Stored(h - 1) /\ Prev[chain[h]] = chain[h - 1]
=============================================================================
