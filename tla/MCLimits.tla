------------------------------ MODULE MCLimits ------------------------------
(* The three limiters of the indexer at its edges: requests it sends to    *)
(* explorers, requests it receives, and the retries of the parent          *)
(* resolver.  They share no state, so each behaviour is about one of them. *)
EXTENDS ExplorerClient, HttpGate, ParentResolver

VARIABLE subject

vars == <<clientVars, gateVars, resolverVars, subject>>

Init ==
    /\ subject \in {"client", "gate", "resolver"}
    /\ ClientInit /\ GateInit /\ ResolverInit

Next ==
    /\ UNCHANGED subject
    /\ \/ subject = "client" /\ ClientNext /\ UNCHANGED <<gateVars, resolverVars>>
       \/ subject = "gate" /\ GateNext /\ UNCHANGED <<clientVars, resolverVars>>
       \/ subject = "resolver" /\ ResolverNext
                               /\ UNCHANGED <<clientVars, gateVars>>

Fairness == subject = "client" => ClientFairness

Spec == Init /\ [][Next]_vars /\ Fairness
=============================================================================
