--------------------------- MODULE MCSiblingStore ---------------------------
EXTENDS SiblingStore

CONSTANTS a, b, p1, p2

(***************************************************************************)
(* The two forks embed the two parents in opposite order: the first block  *)
(* of fork a is under p1, the later ones under p2, and the other way round *)
(* on fork b.  A reorg moves every height to the other parent, and from    *)
(* height 2 on a chain has several blocks under one parent.                *)
(***************************************************************************)
MCParentOf ==
    [c \in Chain |-> [h \in Heights |-> [f \in Fork |->
        IF f = a THEN (IF h = 1 THEN p1 ELSE p2)
                 ELSE (IF h = 1 THEN p2 ELSE p1)]]]

\* Chain 1 is as long as the bound allows; a second chain has one block.
MCTip == [c \in Chain |-> IF c = 1 THEN MaxHeight ELSE 1]
=============================================================================
