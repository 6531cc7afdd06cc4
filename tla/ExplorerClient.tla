--------------------------- MODULE ExplorerClient ---------------------------
(***************************************************************************)
(* The HTTP client of crates/chain-rpc (ElectrsClient::get_raw): a shared  *)
(* rate limiter, then attempts with exponential backoff.                   *)
(*                                                                         *)
(* Time passes in ticks and only differences of times are kept: how long   *)
(* ago the limiter's slot was set, how long a sleeper still sleeps, and,   *)
(* as history, how many requests were first sent how long ago.  Nothing    *)
(* bounds the number of requests or the length of a behaviour.             *)
(***************************************************************************)
EXTENDS Integers, FiniteSetsExt

CONSTANTS
    Caller,         \* the tasks that share one client, each with one request
    Interval,       \* policy.min_request_interval
    MaxRetries,     \* policy.max_retries
    BaseBackoff,    \* policy.base_backoff
    MaxBackoff      \* policy.max_backoff

ASSUME ClientAssumption ==
    /\ IsFiniteSet(Caller)
    /\ {Interval, MaxRetries, BaseBackoff, MaxBackoff} \subseteq Nat

VARIABLES
    slotAge,    \* time since *slot was set, capped at Interval (also: None)
    stage,      \* "idle", "wait", "send" or "backoff" of each caller
    sleep,      \* how long each caller still sleeps
    attempt,    \* the attempt each caller is at
    result,     \* what get_text or get_json last returned to each caller
    first       \* history: first[k] first sends in the last k + 1 ticks

clientVars == <<slotAge, stage, sleep, attempt, result, first>>

Answer == {"success", "client_error", "transient", "transport", "other"}
ClientInit ==
    /\ slotAge = Interval
    /\ stage = [c \in Caller |-> "idle"]
    /\ sleep = [c \in Caller |-> 0]
    /\ attempt = [c \in Caller |-> 0]
    /\ result = [c \in Caller |-> "none"]
    /\ first = [k \in 0 .. Interval - 1 |-> 0]

-----------------------------------------------------------------------------
(* Mutant: the limiter only sleeps, and forgets to record the request.     *)
MutRecorded == slotAge

(* The age of the slot after a request took it: set to now, not to the     *)
(* time the request will be sent.                                          *)
Recorded == 0

(* The longest backoff of an attempt: base * 2^min(attempt, 10), capped; a *)
(* policy without backoff still waits one tick (50 ms in the code).        *)
Capped(n) == Min({BaseBackoff * 2 ^ Min({n, 10}), MaxBackoff})
Backoffs(n) == IF Capped(n) = 0 THEN {1} ELSE 0 .. Capped(n)

(* Every stretch that ends now has one more first send.                    *)
Noted == [k \in DOMAIN first |-> first[k] + 1]

(* get_raw up to the first send: the mutex makes this one step, and whoever *)
(* need not wait sends at once.                                             *)
Enter(c) ==
    /\ stage[c] = "idle"
    /\ slotAge' = IF Interval = 0 THEN slotAge ELSE Recorded
    /\ attempt' = [attempt EXCEPT ![c] = 0]
    /\ IF slotAge >= Interval
         THEN /\ stage' = [stage EXCEPT ![c] = "send"]
              /\ first' = Noted
              /\ UNCHANGED sleep
         ELSE /\ stage' = [stage EXCEPT ![c] = "wait"]
              /\ sleep' = [sleep EXCEPT ![c] = Interval - slotAge]
              /\ UNCHANGED first
    /\ UNCHANGED result

(* The sleep is over: the request is sent for the first time.              *)
FirstSend(c) ==
    /\ stage[c] = "wait" /\ sleep[c] = 0
    /\ stage' = [stage EXCEPT ![c] = "send"]
    /\ first' = Noted
    /\ UNCHANGED <<slotAge, sleep, attempt, result>>

(* 429 and 5xx, and connection, timeout and request errors, are retried.   *)
Retried(a) == a \in {"transient", "transport"}

MayRetry(c) == attempt[c] < MaxRetries

(* Mutant: the loop forgets to count.                                      *)
MutCounted(c) == attempt[c]

Counted(c) == attempt[c] + 1

(* What get_text makes of the last answer.                                 *)
Outcome(a) == CASE a = "success" -> "ok"
                [] a \in {"client_error", "transient"} -> "http_error"
                [] OTHER -> "error"

(* An answer, or the error reqwest gives after at most the timeout.        *)
Reply(c) == \E a \in Answer :
    /\ stage[c] = "send"
    /\ IF Retried(a) /\ MayRetry(c)
         THEN /\ stage' = [stage EXCEPT ![c] = "backoff"]
              /\ \E d \in Backoffs(attempt[c]) :
                     sleep' = [sleep EXCEPT ![c] = d]
              /\ attempt' = [attempt EXCEPT ![c] = Counted(c)]
              /\ UNCHANGED result
         ELSE /\ stage' = [stage EXCEPT ![c] = "idle"]
              /\ result' = [result EXCEPT ![c] = Outcome(a)]
              /\ UNCHANGED <<sleep, attempt>>
    /\ UNCHANGED <<slotAge, first>>

(* A retry is sent without asking the limiter again.                       *)
Resend(c) ==
    /\ stage[c] = "backoff" /\ sleep[c] = 0
    /\ stage' = [stage EXCEPT ![c] = "send"]
    /\ UNCHANGED <<slotAge, sleep, attempt, result, first>>

(* A tick.  A sleeper that is due may run later: a timer is never early,   *)
(* but a busy runtime makes it late.                                       *)
ClientTick ==
    /\ slotAge' = Min({slotAge + 1, Interval})
    /\ sleep' = [c \in Caller |-> IF sleep[c] > 0 THEN sleep[c] - 1 ELSE 0]
    /\ first' = [k \in 0 .. Interval - 1 |-> IF k = 0 THEN 0 ELSE first[k - 1]]
    /\ UNCHANGED <<stage, attempt, result>>

ClientStep(c) == FirstSend(c) \/ Reply(c) \/ Resend(c)

ClientNext ==
    \/ \E c \in Caller : Enter(c) \/ ClientStep(c)
    \/ ClientTick

(* Tokio runs whoever is ready, time passes, and the client's timeout      *)
(* guarantees that every send gets an answer or an error.                  *)
ClientFairness ==
    /\ WF_clientVars(ClientTick)
    /\ \A c \in Caller : WF_clientVars(ClientStep(c))

-----------------------------------------------------------------------------
(* What the limiter does guarantee, retries aside: in any stretch of       *)
(* Interval ticks the host sees at most one first send more than there are *)
(* callers, since a request overtakes the gap only when it entered the     *)
(* limiter before the stretch began.                                       *)
FirstSends == IF Interval = 0 THEN 0 ELSE first[Interval - 1]

BurstBound == FirstSends <= Cardinality(Caller) + 1

(* The comments of the client: "keep a minimum inter-request gap" and      *)
(* "enforce the minimum gap between requests to this host".                *)
MinimumGap == FirstSends <= 1

(* Every call returns: the retries of the loop are limited and each of its *)
(* waits ends.                                                             *)
EveryCallReturns == \A c \in Caller : stage[c] # "idle" ~> stage[c] = "idle"
=============================================================================
