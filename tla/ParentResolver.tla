--------------------------- MODULE ParentResolver ---------------------------
(***************************************************************************)
(* ParentResolver::resolve (resolve.rs): is a parent header on the parent  *)
(* chain?  One call as a state machine: each step is one round of the      *)
(* retry loop, with whatever the explorers answer.                         *)
(***************************************************************************)
EXTENDS Integers, Sequences

CONSTANTS
    Retries,        \* policy.max_retries
    HasFallback     \* whether a fallback explorer is configured

ASSUME ResolverAssumption == Retries \in Nat /\ HasFallback \in BOOLEAN

(* What an explorer may answer: the block itself, another block, a body    *)
(* that does not decode, 404, another 4xx, 429 or 5xx, or no answer.       *)
Said == {"match", "mismatch", "garbled", "404", "4xx", "busy", "down"}

VARIABLES
    round,          \* attempt
    consulted,      \* attempted_fallback
    verdictOf,      \* "open", "mainnet" or "trial"
    primary,        \* history: the answers of the primary explorer
    secondary       \* history: the answer of the fallback, or "unasked"

resolverVars == <<round, consulted, verdictOf, primary, secondary>>

ResolverInit ==
    /\ round = 0 /\ consulted = FALSE /\ verdictOf = "open"
    /\ primary = <<>> /\ secondary = "unasked"

-----------------------------------------------------------------------------
(* The explorer returned the block that was asked for.                     *)
Same(a) == a = "match"

(* Mutant: a server that is too busy is a definite miss.                   *)
MutTryAgain(a) == a = "garbled" /\ round < Retries

(* Answers after which the loop goes on, while attempts are left.          *)
TryAgain(a) == a \in {"garbled", "busy"} /\ round < Retries

(* Only a transport failure, and only the first, goes to the fallback.     *)
AsksFallback(a) == a = "down" /\ HasFallback /\ ~consulted

(* The loop goes on to the next attempt, or ends with Ok(None).            *)
NextRound == /\ round' = round + 1
             /\ verdictOf' = IF round = Retries THEN "trial" ELSE "open"

Decide(v) == verdictOf' = v /\ UNCHANGED round

(* One attempt.  A fallback that does not find the block is no evidence,   *)
(* but it uses up the attempt, without backoff.                            *)
Ask(a, b) ==
    /\ verdictOf = "open"
    /\ primary' = Append(primary, a)
    /\ IF AsksFallback(a)
         THEN /\ consulted' = TRUE /\ secondary' = b
              /\ IF Same(b) THEN Decide("mainnet") ELSE NextRound
         ELSE /\ UNCHANGED <<consulted, secondary>>
              /\ CASE Same(a) -> Decide("mainnet")
                   [] TryAgain(a) \/ (a = "down" /\ round < Retries) -> NextRound
                   [] OTHER -> Decide("trial")

ResolverNext == \E a, b \in Said : Ask(a, b)

-----------------------------------------------------------------------------
AnsweredMiss == {"mismatch", "404", "4xx"}
Unreachable == \E n \in DOMAIN primary : primary[n] = "down"

(* A parent is called a trial block only on evidence or after the whole    *)
(* budget: either the primary denied it in its last answer, or it failed   *)
(* Retries + 1 times, and then a configured fallback was asked whenever    *)
(* the primary could not be reached.  It is called mainnet only because an *)
(* explorer returned the very block, and the fallback is asked only when   *)
(* the primary could not be reached.                                       *)
VerdictIsEarned ==
    /\ verdictOf = "trial" =>
         \/ primary[Len(primary)] \in AnsweredMiss
         \/ /\ Len(primary) = Retries + 1
            /\ HasFallback /\ Unreachable => secondary # "unasked"
    /\ verdictOf = "mainnet" =>
         "match" \in {primary[Len(primary)], secondary}
    /\ secondary # "unasked" => Unreachable
=============================================================================
