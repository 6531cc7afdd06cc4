---------------------------- MODULE MCIntentBook ----------------------------
(* A small order book: an HTTP client and the swarm loop, two ids, each    *)
(* posted in two versions, intents that expire while jobs run, some dated  *)
(* ahead of the clock, and one without a valid signature, which is stored  *)
(* only where a process does not enforce signatures.                       *)
EXTENDS IntentBook

CONSTANTS p1, swarm, none

MCIntent(i, ts, exp) == [id |-> i, from |-> 1, to |-> 2, timestamp |-> ts,
                         expiry |-> exp, envelope |-> TRUE, signed |-> TRUE]

MCOffer ==
    { MCIntent(1, 0, 1), MCIntent(1, 1, 3), MCIntent(2, 2, 4),
      [MCIntent(2, 0, 1) EXCEPT !.signed = FALSE] }
=============================================================================
