---------------------------- MODULE MCChainWalk ----------------------------
(***************************************************************************)
(* Three branches for ChainWalk: a and b fork above height 1, c forks      *)
(* above genesis (deeper than the bounded window) and is the tallest.      *)
(***************************************************************************)
EXTENDS ChainWalk, Sequences

CONSTANTS g, a1, a2, a3, b2, b3, b4, c1, c2, c3, c4, c5

MCBlock == {g, a1, a2, a3, b2, b3, b4, c1, c2, c3, c4, c5}

\* A branch is written as its blocks from height 0 up.
Branches == [a |-> <<g, a1, a2, a3>>,
             b |-> <<g, a1, b2, b3, b4>>,
             c |-> <<g, c1, c2, c3, c4, c5>>]

MCChain == DOMAIN Branches
MCMaxHeight == 5
MCTip == [c \in MCChain |-> Len(Branches[c]) - 1]
MCBlockOf ==
    [c \in MCChain |-> [h \in 0 .. MCMaxHeight |->
        IF h <= MCTip[c] THEN Branches[c][h + 1] ELSE NoBlock]]
MCPrev ==
    [x \in MCBlock |->
        IF x = g THEN NoBlock
        ELSE LET s == CHOOSE s \in {Branches[c] : c \in MCChain} :
                        \E i \in DOMAIN s : s[i] = x
             IN  s[(CHOOSE i \in DOMAIN s : s[i] = x) - 1]]
=============================================================================
