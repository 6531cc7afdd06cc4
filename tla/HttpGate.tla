------------------------------ MODULE HttpGate ------------------------------
(***************************************************************************)
(* The middleware in front of every route (server.rs, security_middleware):*)
(* bearer-token authentication, the attribution of the request to an       *)
(* address, then a fixed-window rate limit per address.  The buckets are   *)
(* behind one mutex, so a request is one step.                             *)
(*                                                                         *)
(* An address is a key of the buckets, not a client.  It is the TCP peer   *)
(* where the server was started with connect-info, and otherwise the first *)
(* hop of the x-forwarded-for header, which the sender writes; main.rs     *)
(* starts it without connect-info.  A request with neither is not limited. *)
(* Times are kept as ages in ticks, like in ExplorerClient.                *)
(***************************************************************************)
EXTENDS Integers, FiniteSetsExt

CONSTANTS
    Address,        \* the IP addresses requests come from or claim
    NoAddress,      \* no connect-info; a header that is missing or no address
    ConnectInfo,    \* whether requests carry the address of their TCP peer
    Limit,          \* rate_limit_per_min; 0, which the loader drops, for None
    Window,         \* 60 s in the code
    MaxBuckets,     \* 65,536 in the code
    TokenRequired   \* whether auth_token is configured

(* Bound: the history counts no further.                                   *)
MaxCounted == 2 * Limit + 1

NoBucket == [count |-> 0, age |-> -1]

ASSUME GateAssumption ==
    /\ IsFiniteSet(Address) /\ NoAddress \notin Address
    /\ ConnectInfo \in BOOLEAN
    /\ Limit \in Nat /\ Window \in Nat \ {0} /\ MaxBuckets \in Nat
    /\ TokenRequired \in BOOLEAN

VARIABLES
    bucket,     \* buckets: address -> admitted and age, or NoBucket
    answer,     \* the last request's status, and the address it counted for
    admitted,   \* history: admitted[a][k] requests that the limiter let through
                \* for address a in the last k + 1 ticks
    cleared     \* history: ticks since the buckets were dropped, capped

gateVars == <<bucket, answer, admitted, cleared>>

NoAnswer == [ip |-> NoAddress, status |-> "none"]

GateInit ==
    /\ bucket = [a \in Address |-> NoBucket]
    /\ answer = NoAnswer
    /\ admitted = [a \in Address |-> [k \in 0 .. Window - 1 |-> 0]]
    /\ cleared = Window

-----------------------------------------------------------------------------
Buckets == {a \in Address : bucket[a] # NoBucket}

(* The map is dropped when it has grown too large.                         *)
Flooded == Cardinality(Buckets) > MaxBuckets

(* Mutant: the window never starts again.                                  *)
MutRenewed(b) == IF b = NoBucket THEN [count |-> 0, age |-> 0] ELSE b

(* The bucket a request finds: a new one, or one whose minute is over and  *)
(* starts again.                                                           *)
Renewed(b) == IF b = NoBucket \/ b.age >= Window
                THEN [count |-> 0, age |-> 0] ELSE b

(* Mutant: one request more than the limit.                                *)
MutFull(b) == b.count > Limit

Full(b) == b.count >= Limit

(* Every stretch that ends now has one more request.                       *)
OneMore(counts) == [k \in DOMAIN counts |-> Min({counts[k] + 1, MaxCounted})]

(* The peer addresses a request may come with.                             *)
Peers == IF ConnectInfo THEN Address ELSE {NoAddress}

(* The address a request is attributed to.                                 *)
ClientIp(peer, forwarded) == IF peer # NoAddress THEN peer ELSE forwarded

Authorized(token) == TokenRequired => token

Respond(ip, status) == answer' = [ip |-> ip, status |-> status]

(* The three ways a request is answered: 401 without the right token; let  *)
(* through where no limit is configured or the request has no address;     *)
(* and otherwise what the bucket of its address says.                      *)
Unauthorized(token) ==
    /\ ~Authorized(token)
    /\ Respond(NoAddress, "401")
    /\ UNCHANGED <<bucket, admitted, cleared>>

Unlimited(ip, token) ==
    /\ Authorized(token)
    /\ Limit = 0 \/ ip = NoAddress
    /\ Respond(NoAddress, "next")
    /\ UNCHANGED <<bucket, admitted, cleared>>

Limited(ip, token) ==
    /\ Authorized(token)
    /\ Limit # 0 /\ ip # NoAddress
    /\ LET kept == IF Flooded THEN [x \in Address |-> NoBucket] ELSE bucket
           mine == Renewed(kept[ip])
       IN  /\ cleared' = IF Flooded THEN 0 ELSE cleared
           /\ bucket' = [kept EXCEPT ![ip] =
                IF Full(mine) THEN mine ELSE [mine EXCEPT !.count = @ + 1]]
           /\ Respond(ip, IF Full(mine) THEN "429" ELSE "next")
           /\ admitted' = IF Full(mine) THEN admitted
                            ELSE [admitted EXCEPT ![ip] = OneMore(@)]

(* A request with the address of its peer, the one its header claims, and  *)
(* the right token or not.                                                 *)
Request(peer, forwarded, token) ==
    LET ip == ClientIp(peer, forwarded)
    IN  Unauthorized(token) \/ Unlimited(ip, token) \/ Limited(ip, token)

GateTick ==
    /\ bucket' = [a \in Address |-> IF bucket[a] = NoBucket THEN NoBucket
                    ELSE [bucket[a] EXCEPT !.age = Min({@ + 1, Window})]]
    /\ admitted' = [a \in Address |-> [k \in 0 .. Window - 1 |->
                      IF k = 0 THEN 0 ELSE admitted[a][k - 1]]]
    /\ cleared' = Min({cleared + 1, Window})
    /\ answer' = NoAnswer

GateNext ==
    \/ \E peer \in Peers, forwarded \in Address \cup {NoAddress}, token \in BOOLEAN :
         Request(peer, forwarded, token)
    \/ GateTick

-----------------------------------------------------------------------------
Admitted(a) == admitted[a][Window - 1]

(* Of the requests that count for one address, at most twice the limit get *)
(* through in any stretch of Window ticks (the end of one fixed window and *)
(* the start of the next), unless a flood of addresses made the server     *)
(* drop all buckets meanwhile.  This bounds an address, not a sender: one  *)
(* that claims several addresses has a bucket for each, and requests that  *)
(* count for no address, or come while no limit is set, are not bounded.   *)
AtMostTwice == Limit # 0 => \A a \in Address :
    Admitted(a) <= 2 * Limit \/ cleared < Window

(* A request is refused only if the limit of the address it counts for was *)
(* used up within the last Window ticks: requests that count for another   *)
(* address or for none, refused ones and ones without a token cost it      *)
(* nothing, and a refusal does not prolong its window.  Senders that claim *)
(* the same address share its limit.                                       *)
RefusedWhenSpent ==
    answer.status = "429" => Limit # 0 /\ Admitted(answer.ip) >= Limit
=============================================================================
