---------------------------- MODULE LimitsProofs ----------------------------
(***************************************************************************)
(* Proofs about the three limiters: what the explorer client lets out,     *)
(* what the server lets in, and on what evidence the resolver decides, for *)
(* any number of callers and addresses and for any limits.                 *)
(***************************************************************************)
EXTENDS MCLimits, FiniteSetTheorems, TLAPS

\* The smaller of two numbers.
LEMMA MinOfTwo ==
  ASSUME NEW x \in Int, NEW y \in Int
  PROVE  Min({x, y}) = IF x <= y THEN x ELSE y
  <1> DEFINE m == IF x <= y THEN x ELSE y
  <1>1. m \in {x, y} /\ \A z \in {x, y} : m <= z
    OBVIOUS
  <1>2. \A z \in {x, y} : (\A w \in {x, y} : z <= w) => z = m
    OBVIOUS
  <1> QED BY <1>1, <1>2 DEF Min

-----------------------------------------------------------------------------
(* ParentResolver *)

ResolverInv ==
    /\ round \in 0 .. Retries + 1
    /\ consulted \in BOOLEAN
    /\ verdictOf \in {"open", "mainnet", "trial"}
    /\ primary \in Seq(Said)
    /\ secondary \in Said \cup {"unasked"}
    /\ secondary # "unasked" <=> consulted
    /\ verdictOf = "open" =>
         /\ round <= Retries /\ Len(primary) = round
         /\ HasFallback /\ Unreachable => consulted
    /\ VerdictIsEarned

\* Nothing is decided at first.
LEMMA ResolverStart == ResolverInit => ResolverInv
  <1> SUFFICES ASSUME ResolverInit PROVE ResolverInv
    OBVIOUS
  <1>1. primary \in Seq(Said) /\ Len(primary) = 0 /\ ~Unreachable
    BY DEF ResolverInit, Unreachable
  <1>2. consulted \in BOOLEAN /\ (secondary # "unasked" <=> consulted)
    BY DEF ResolverInit
  <1>3. VerdictIsEarned
    BY DEF ResolverInit, VerdictIsEarned
  <1> QED BY <1>1, <1>2, <1>3, ResolverAssumption DEF ResolverInit, ResolverInv

\* One round of the retry loop.
LEMMA ResolverRound ==
  ASSUME ResolverInv, NEW a \in Said, NEW b \in Said, Ask(a, b)
  PROVE  ResolverInv'
  <1> USE ResolverAssumption
  <1>1. /\ verdictOf = "open" /\ round \in 0 .. Retries
        /\ primary \in Seq(Said) /\ Len(primary) = round
        /\ HasFallback /\ Unreachable => consulted
        /\ consulted => Unreachable
        /\ secondary # "unasked" <=> consulted
    BY DEF Ask, ResolverInv, VerdictIsEarned
  <1>2. /\ primary' \in Seq(Said) /\ Len(primary') = round + 1
        /\ primary'[Len(primary')] = a
        /\ \A n \in DOMAIN primary' : primary'[n] = IF n = round + 1 THEN a ELSE primary[n]
        /\ DOMAIN primary' = 1 .. round + 1 /\ DOMAIN primary = 1 .. round
    BY <1>1 DEF Ask
  <1>3. Unreachable' <=> Unreachable \/ a = "down"
    BY <1>1, <1>2 DEF Unreachable
  <1>4. CASE AsksFallback(a)
    <2>1. consulted' = TRUE /\ secondary' = b /\ a = "down"
      BY <1>4 DEF Ask, AsksFallback
    <2>2. b # "unasked"
      BY DEF Said
    <2>3. CASE Same(b)
      BY <1>1, <1>2, <1>3, <1>4, <2>1, <2>2, <2>3
         DEF Ask, Same, Decide, ResolverInv, VerdictIsEarned
    <2>4. CASE ~Same(b)
      BY <1>1, <1>2, <1>3, <1>4, <2>1, <2>2, <2>4
         DEF Ask, Same, NextRound, ResolverInv, VerdictIsEarned
    <2> QED BY <2>3, <2>4
  <1>5. CASE ~AsksFallback(a)
    <2>1. consulted' = consulted /\ secondary' = secondary
      BY <1>5 DEF Ask
    <2>2. CASE Same(a)
      <3>1. verdictOf' = "mainnet" /\ round' = round
        BY <1>5, <2>2 DEF Ask, Same, Decide, TryAgain
      <3> QED BY <1>1, <1>2, <1>3, <2>1, <2>2, <3>1
              DEF Same, ResolverInv, VerdictIsEarned
    <2>3. CASE TryAgain(a) \/ (a = "down" /\ round < Retries)
      <3>1. verdictOf' = "open" /\ round' = round + 1 /\ round < Retries
        BY <1>1, <1>5, <2>3 DEF Ask, Same, NextRound, TryAgain
      <3> QED BY <1>1, <1>2, <1>3, <1>5, <2>1, <2>3, <3>1
              DEF AsksFallback, TryAgain, ResolverInv, VerdictIsEarned
    <2>4. CASE ~Same(a) /\ ~(TryAgain(a) \/ (a = "down" /\ round < Retries))
      <3>1. verdictOf' = "trial" /\ round' = round
        BY <1>5, <2>4 DEF Ask, Decide
      <3>2. a \in AnsweredMiss \/ (a \in {"garbled", "busy", "down"} /\ round = Retries)
        BY <1>1, <2>4 DEF Same, TryAgain, AnsweredMiss, Said
      <3> QED BY <1>1, <1>2, <1>3, <1>5, <2>1, <3>1, <3>2
              DEF AsksFallback, ResolverInv, VerdictIsEarned
    <2> QED BY <2>2, <2>3, <2>4
  <1> QED BY <1>4, <1>5

(***************************************************************************)
(* ParentResolver::resolve calls a parent a trial block only on a denial   *)
(* of the primary explorer or after its whole budget, the fallback         *)
(* included, and mainnet only on the block itself, for every number of     *)
(* retries and every sequence of answers.                                  *)
(***************************************************************************)
THEOREM VerdictTheorem == Spec => []VerdictIsEarned
  <1>1. Init => ResolverInv
    BY ResolverStart DEF Init
  <1>2. ResolverInv /\ [Next]_vars => ResolverInv'
    <2> SUFFICES ASSUME ResolverInv, [Next]_vars PROVE ResolverInv'
      OBVIOUS
    <2>1. CASE UNCHANGED resolverVars
      BY <2>1 DEF resolverVars, ResolverInv, VerdictIsEarned, Unreachable
    <2>2. CASE ResolverNext
      BY <2>2, ResolverRound DEF ResolverNext
    <2> QED BY <2>1, <2>2 DEF Next, vars
  <1>3. ResolverInv => VerdictIsEarned
    BY DEF ResolverInv
  <1> QED BY <1>1, <1>2, <1>3, PTL DEF Spec

-----------------------------------------------------------------------------
(* HttpGate: the bucket of an address against what was admitted for it.    *)

GateTypes ==
    /\ bucket \in [Address -> [count : 0 .. Limit, age : -1 .. Window]]
    /\ \A a \in Address : bucket[a].age = -1 => bucket[a].count = 0
    /\ answer \in [ip : Address \cup {NoAddress},
                   status : {"none", "next", "401", "429"}]
    /\ admitted \in [Address -> [0 .. Window - 1 -> 0 .. MaxCounted]]
    /\ cleared \in 0 .. Window

(***************************************************************************)
(* Of the stretch of the last k + 1 ticks, as long as no bucket was        *)
(* dropped in it: an address without a bucket had nothing admitted; the    *)
(* current window holds all that came after its first tick; and before it  *)
(* at most one more window reaches into the stretch.                       *)
(***************************************************************************)
Bounded(a, k) ==
    /\ bucket[a].age = -1 => admitted[a][k] = 0
    /\ k < bucket[a].age => admitted[a][k] <= bucket[a].count
    /\ admitted[a][k] <= bucket[a].count + Limit

\* What the bucket counts was admitted since the window began.
Backed(a) == \A k \in 0 .. Window - 1 :
    0 <= bucket[a].age /\ bucket[a].age <= k => bucket[a].count <= admitted[a][k]

GateInv ==
    /\ GateTypes
    /\ \A a \in Address : \A k \in 0 .. Window - 1 : k < cleared => Bounded(a, k)
    /\ \A a \in Address : Backed(a)
    /\ RefusedWhenSpent

LEMMA GateStart == GateInit => GateInv
  BY GateAssumption
     DEF GateInit, GateInv, GateTypes, NoBucket, NoAnswer, MaxCounted, Bounded, Backed,
         RefusedWhenSpent

\* Time passes: every stretch grows by the tick that begins.
LEMMA GatePasses ==
  ASSUME GateInv, GateTick
  PROVE  GateInv'
  <1> USE GateAssumption
  <1>1. /\ GateTypes
        /\ \A a \in Address : Backed(a)
        /\ \A a \in Address : \A k \in 0 .. Window - 1 : k < cleared => Bounded(a, k)
    BY DEF GateInv
  <1>2. cleared' = IF cleared < Window THEN cleared + 1 ELSE Window
    <2>1. cleared \in 0 .. Window /\ cleared' = Min({cleared + 1, Window})
      BY <1>1 DEF GateTick, GateTypes
    <2> QED BY <2>1, MinOfTwo
  <1>3. ASSUME NEW a \in Address
        PROVE  /\ bucket'[a] \in [count : 0 .. Limit, age : -1 .. Window]
               /\ bucket'[a].count = bucket[a].count
               /\ bucket'[a].age = IF bucket[a].age = -1 THEN -1
                                   ELSE IF bucket[a].age < Window THEN bucket[a].age + 1
                                   ELSE Window
    <2>1. bucket[a] \in [count : 0 .. Limit, age : -1 .. Window]
      BY <1>1 DEF GateTypes
    <2>2. bucket[a] = NoBucket <=> bucket[a].age = -1
      <3>1. bucket[a] = [count |-> bucket[a].count, age |-> bucket[a].age]
        BY <2>1
      <3>2. bucket[a].age = -1 => bucket[a].count = 0
        BY <1>1 DEF GateTypes
      <3> QED BY <3>1, <3>2 DEF NoBucket
    <2>3. CASE bucket[a] = NoBucket
      BY <2>1, <2>2, <2>3 DEF GateTick, NoBucket
    <2>4. CASE bucket[a] # NoBucket
      <3>1. bucket'[a] = [bucket[a] EXCEPT !.age = Min({bucket[a].age + 1, Window})]
        BY <2>4 DEF GateTick
      <3>2. Min({bucket[a].age + 1, Window}) =
              IF bucket[a].age < Window THEN bucket[a].age + 1 ELSE Window
        BY <2>1, MinOfTwo
      <3> QED BY <2>1, <2>2, <2>4, <3>1, <3>2
    <2> QED BY <2>3, <2>4
  <1>4. \A a \in Address : \A k \in 0 .. Window - 1 :
          admitted'[a][k] = IF k = 0 THEN 0 ELSE admitted[a][k - 1]
    BY DEF GateTick
  <1>5. GateTypes'
    <2>1. bucket' = [a \in Address |-> bucket'[a]]
      BY DEF GateTick
    <2>2. ASSUME NEW a \in Address, bucket'[a].age = -1
          PROVE  bucket'[a].count = 0
      <3>1. bucket[a].age \in -1 .. Window /\ (bucket[a].age = -1 => bucket[a].count = 0)
        BY <1>1 DEF GateTypes
      <3> QED BY <1>3, <2>2, <3>1
    <2>3. admitted' \in [Address -> [0 .. Window - 1 -> 0 .. MaxCounted]]
      <3>1. \A a \in Address : \A k \in 0 .. Window - 1 :
              admitted'[a][k] \in 0 .. MaxCounted
        <4> SUFFICES ASSUME NEW a \in Address, NEW k \in 0 .. Window - 1
                     PROVE  admitted'[a][k] \in 0 .. MaxCounted
          OBVIOUS
        <4>1. 0 \in 0 .. MaxCounted
          BY DEF MaxCounted
        <4>2. k # 0 => admitted[a][k - 1] \in 0 .. MaxCounted
          BY <1>1 DEF GateTypes
        <4> QED BY <1>4, <4>1, <4>2
      <3>2. admitted' = [a \in Address |-> [k \in 0 .. Window - 1 |-> admitted'[a][k]]]
        BY DEF GateTick
      <3> QED BY <3>1, <3>2
    <2>4. answer' \in [ip : Address \cup {NoAddress},
                       status : {"none", "next", "401", "429"}]
      BY DEF GateTick, NoAnswer
    <2>5. cleared' \in 0 .. Window
      BY <1>1, <1>2 DEF GateTypes
    <2> QED BY <1>3, <2>1, <2>2, <2>3, <2>4, <2>5 DEF GateTypes
  <1>6. ASSUME NEW a \in Address, NEW k \in 0 .. Window - 1, k < cleared'
        PROVE  Bounded(a, k)'
    <2>1. k # 0 => k - 1 \in 0 .. Window - 1 /\ k - 1 < cleared
      BY <1>1, <1>2, <1>6 DEF GateTypes
    <2>2. /\ bucket[a].count \in 0 .. Limit /\ bucket[a].age \in -1 .. Window
          /\ \A j \in 0 .. Window - 1 : admitted[a][j] \in 0 .. MaxCounted
      BY <1>1 DEF GateTypes
    <2>3. CASE k = 0
      BY <1>3, <1>4, <2>2, <2>3 DEF Bounded
    <2>4. CASE k # 0
      <3>1. Bounded(a, k - 1) /\ admitted'[a][k] = admitted[a][k - 1]
        BY <1>1, <1>4, <2>1, <2>4
      <3> QED BY <1>3, <2>2, <3>1 DEF Bounded
    <2> QED BY <2>3, <2>4
  <1>7. ASSUME NEW a \in Address
        PROVE  Backed(a)'
    <2> SUFFICES ASSUME NEW k \in 0 .. Window - 1,
                        0 <= bucket'[a].age, bucket'[a].age <= k
                 PROVE  bucket'[a].count <= admitted'[a][k]
      BY DEF Backed
    <2>1. /\ bucket[a].age \in 0 .. Window - 1 /\ bucket'[a].age = bucket[a].age + 1
          /\ bucket'[a].count = bucket[a].count
      <3>1. bucket[a].age \in -1 .. Window
        BY <1>1 DEF GateTypes
      <3> QED BY <1>3, <3>1
    <2>2. k - 1 \in 0 .. Window - 1 /\ bucket[a].age <= k - 1
      BY <2>1
    <2> QED BY <1>1, <1>4, <2>1, <2>2 DEF Backed
  <1>8. RefusedWhenSpent'
    BY DEF GateTick, NoAnswer, RefusedWhenSpent
  <1> QED BY <1>5, <1>6, <1>7, <1>8 DEF GateInv

\* A request that is refused for its token, or that the limiter does not see.
LEMMA GateSkips ==
  ASSUME GateInv, NEW ip, NEW token \in BOOLEAN, Unauthorized(token) \/ Unlimited(ip, token)
  PROVE  GateInv'
  <1>1. /\ UNCHANGED <<bucket, admitted, cleared>>
        /\ answer' \in [ip : Address \cup {NoAddress}, status : {"next", "401"}]
    BY DEF Unauthorized, Unlimited, Respond
  <1>2. GateTypes' /\ RefusedWhenSpent'
    BY <1>1 DEF GateInv, GateTypes, RefusedWhenSpent
  <1> QED BY <1>1, <1>2 DEF GateInv, Backed, Bounded

\* A request that counts for an address, admitted or not.
LEMMA GateCounts ==
  ASSUME GateInv, NEW a \in Address, NEW token \in BOOLEAN, Limited(a, token)
  PROVE  GateInv'
  <1> USE GateAssumption
  <1>1. /\ GateTypes
        /\ \A x \in Address : Backed(x)
        /\ \A x \in Address : \A k \in 0 .. Window - 1 : k < cleared => Bounded(x, k)
        /\ RefusedWhenSpent
    BY DEF GateInv
  <1> DEFINE kept == IF Flooded THEN [x \in Address |-> NoBucket] ELSE bucket
             mine == Renewed(kept[a])
  <1>2. /\ cleared' = IF Flooded THEN 0 ELSE cleared
        /\ bucket' = [kept EXCEPT ![a] =
              IF Full(mine) THEN mine ELSE [mine EXCEPT !.count = @ + 1]]
        /\ answer' = [ip |-> a, status |-> IF Full(mine) THEN "429" ELSE "next"]
        /\ Limit # 0
        /\ admitted' = IF Full(mine) THEN admitted
                       ELSE [admitted EXCEPT ![a] = OneMore(@)]
    BY DEF Limited, Respond
  <1>3. /\ kept \in [Address -> [count : 0 .. Limit, age : -1 .. Window]]
        /\ \A x \in Address : kept[x].age = -1 => kept[x].count = 0
    BY <1>1 DEF GateTypes, NoBucket
  <1>4. cleared' \in 0 .. Window
    BY <1>1, <1>2 DEF GateTypes
  <1>5. \A x \in Address : \A k \in 0 .. Window - 1 : k < cleared' =>
          /\ kept[x].age = -1 => admitted[x][k] = 0
          /\ k < kept[x].age => admitted[x][k] <= kept[x].count
          /\ admitted[x][k] <= kept[x].count + Limit
    BY <1>1, <1>2 DEF Bounded, GateTypes
  <1>6. \A x \in Address : \A k \in 0 .. Window - 1 :
          0 <= kept[x].age /\ kept[x].age <= k => kept[x].count <= admitted[x][k]
    BY <1>1 DEF Backed, NoBucket
  <1>7. /\ mine \in [count : 0 .. Limit, age : 0 .. Window - 1]
        /\ kept[a].age \in 0 .. Window - 1 => mine = kept[a]
        /\ kept[a].age \notin 0 .. Window - 1 => mine = [count |-> 0, age |-> 0]
    BY <1>3 DEF Renewed, NoBucket
  <1> HIDE DEF kept, mine
  <1>8. ASSUME NEW k \in 0 .. Window - 1
        PROVE  /\ k < cleared' =>
                    /\ k < mine.age => admitted[a][k] <= mine.count
                    /\ admitted[a][k] <= mine.count + Limit
               /\ mine.age <= k => mine.count <= admitted[a][k]
    <2>1. kept[a] \in [count : 0 .. Limit, age : -1 .. Window]
      BY <1>3
    <2>2. admitted[a][k] \in 0 .. MaxCounted
      BY <1>1 DEF GateTypes
    <2>3. CASE kept[a].age \in 0 .. Window - 1
      BY <1>5, <1>6, <1>7, <2>1, <2>3
    <2>4. CASE kept[a].age = -1
      BY <1>5, <1>7, <2>1, <2>2, <2>4 DEF MaxCounted
    <2>5. CASE kept[a].age = Window
      BY <1>4, <1>5, <1>7, <2>1, <2>2, <2>5 DEF MaxCounted
    <2> QED BY <2>1, <2>3, <2>4, <2>5
  <1>9. \A x \in Address : \A k \in 0 .. Window - 1 :
          /\ admitted'[x][k] \in 0 .. MaxCounted
          /\ x # a \/ Full(mine) => admitted'[x][k] = admitted[x][k]
          /\ x = a /\ ~Full(mine) =>
               admitted'[x][k] = IF admitted[x][k] < MaxCounted THEN admitted[x][k] + 1
                                 ELSE MaxCounted
    <2>1. \A x \in Address : \A k \in 0 .. Window - 1 :
            admitted[x][k] \in 0 .. MaxCounted
      BY <1>1 DEF GateTypes
    <2>2. \A k \in 0 .. Window - 1 : OneMore(admitted[a])[k] =
            IF admitted[a][k] < MaxCounted THEN admitted[a][k] + 1 ELSE MaxCounted
      <3> SUFFICES ASSUME NEW k \in 0 .. Window - 1
                   PROVE  OneMore(admitted[a])[k] =
                            IF admitted[a][k] < MaxCounted THEN admitted[a][k] + 1
                            ELSE MaxCounted
        OBVIOUS
      <3>1. OneMore(admitted[a])[k] = Min({admitted[a][k] + 1, MaxCounted})
        BY <1>1 DEF OneMore, GateTypes
      <3>2. admitted[a][k] \in 0 .. MaxCounted /\ MaxCounted \in Nat
        BY <2>1 DEF MaxCounted
      <3> QED BY <3>1, <3>2, MinOfTwo
    <2>3. \A x \in Address : admitted'[x] = IF x = a /\ ~Full(mine) THEN OneMore(admitted[x])
                                            ELSE admitted[x]
      BY <1>1, <1>2 DEF GateTypes
    <2> QED BY <2>1, <2>2, <2>3 DEF MaxCounted
  <1>10. /\ \A x \in Address \ {a} : bucket'[x] = kept[x]
        /\ bucket'[a] \in [count : 0 .. Limit, age : 0 .. Window - 1]
        /\ bucket'[a].age = mine.age
        /\ bucket'[a].count = IF Full(mine) THEN mine.count ELSE mine.count + 1
    BY <1>2, <1>3, <1>7 DEF Full
  <1>11. GateTypes'
    <2>1. bucket' \in [Address -> [count : 0 .. Limit, age : -1 .. Window]]
      <3>1. DOMAIN bucket' = Address /\ bucket' = [x \in Address |-> bucket'[x]]
        BY <1>2, <1>3
      <3>2. \A x \in Address : bucket'[x] \in [count : 0 .. Limit, age : -1 .. Window]
        BY <1>3, <1>10
      <3> QED BY <3>1, <3>2
    <2>2. \A x \in Address : bucket'[x].age = -1 => bucket'[x].count = 0
      BY <1>3, <1>10
    <2>3. admitted' \in [Address -> [0 .. Window - 1 -> 0 .. MaxCounted]]
      <3>1. admitted \in [Address -> [0 .. Window - 1 -> 0 .. MaxCounted]]
        BY <1>1 DEF GateTypes
      <3>2. OneMore(admitted[a]) = [k \in 0 .. Window - 1 |-> OneMore(admitted[a])[k]]
        BY <3>1 DEF OneMore
      <3>3. /\ admitted' = [x \in Address |-> admitted'[x]]
            /\ \A x \in Address : admitted'[x] = [k \in 0 .. Window - 1 |-> admitted'[x][k]]
        BY <1>2, <3>1, <3>2
      <3> QED BY <1>9, <3>3
    <2>4. answer' \in [ip : Address \cup {NoAddress},
                       status : {"none", "next", "401", "429"}]
      BY <1>2
    <2> QED BY <1>4, <2>1, <2>2, <2>3, <2>4 DEF GateTypes
  <1>12. ASSUME NEW x \in Address, NEW k \in 0 .. Window - 1, k < cleared'
         PROVE  Bounded(x, k)'
    <2>1. admitted[x][k] \in 0 .. MaxCounted /\ MaxCounted \in Nat
      <3>1. admitted[x] \in [0 .. Window - 1 -> 0 .. MaxCounted]
        BY <1>1 DEF GateTypes
      <3> QED BY <3>1 DEF MaxCounted
    <2>2. CASE x # a
      BY <1>5, <1>9, <1>10, <1>12, <2>2 DEF Bounded
    <2>3. CASE x = a
      BY <1>7, <1>8, <1>9, <1>10, <1>12, <2>1, <2>3 DEF Bounded
    <2> QED BY <2>2, <2>3
  <1>13. ASSUME NEW x \in Address
         PROVE  Backed(x)'
    <2> SUFFICES ASSUME NEW k \in 0 .. Window - 1,
                        0 <= bucket'[x].age, bucket'[x].age <= k
                 PROVE  bucket'[x].count <= admitted'[x][k]
      BY DEF Backed
    <2>1. admitted[x][k] \in 0 .. MaxCounted /\ MaxCounted = 2 * Limit + 1
      <3>1. admitted[x] \in [0 .. Window - 1 -> 0 .. MaxCounted]
        BY <1>1 DEF GateTypes
      <3> QED BY <3>1 DEF MaxCounted
    <2>2. CASE x # a
      BY <1>6, <1>9, <1>10, <2>2
    <2>3. CASE x = a
      BY <1>7, <1>8, <1>9, <1>10, <2>1, <2>3
    <2> QED BY <2>2, <2>3
  <1>14. RefusedWhenSpent'
    <2> SUFFICES ASSUME answer'.status = "429"
                 PROVE  admitted'[a][Window - 1] >= Limit
      BY <1>2 DEF RefusedWhenSpent, Admitted
    <2>1. Window - 1 \in 0 .. Window - 1
      OBVIOUS
    <2>2. Full(mine)
      BY <1>2
    <2>3. admitted'[a][Window - 1] = admitted[a][Window - 1]
      BY <1>9, <2>1, <2>2
    <2>4. mine.count >= Limit /\ mine.count <= admitted[a][Window - 1]
          /\ admitted[a][Window - 1] \in 0 .. MaxCounted /\ MaxCounted \in Nat
      BY <1>1, <1>7, <1>8, <2>1, <2>2 DEF Full, GateTypes, MaxCounted
    <2> QED BY <1>7, <2>3, <2>4
  <1> QED BY <1>11, <1>12, <1>13, <1>14 DEF GateInv

LEMMA GateStep == GateInv /\ [Next]_vars => GateInv'
  <1> SUFFICES ASSUME GateInv, [Next]_vars PROVE GateInv'
    OBVIOUS
  <1>1. CASE UNCHANGED gateVars
    BY <1>1 DEF gateVars, GateInv, GateTypes, Bounded, Backed, RefusedWhenSpent, Admitted
  <1>2. CASE GateNext
    <2>1. ASSUME NEW peer \in Peers, NEW forwarded \in Address \cup {NoAddress},
                 NEW token \in BOOLEAN, Request(peer, forwarded, token)
          PROVE  GateInv'
      <3> DEFINE ip == ClientIp(peer, forwarded)
      <3>1. ip \in Address \cup {NoAddress}
        BY DEF Peers, ClientIp
      <3>2. Unauthorized(token) \/ Unlimited(ip, token) \/ Limited(ip, token)
        BY <2>1 DEF Request
      <3> HIDE DEF ip
      <3>3. CASE Limited(ip, token)
        BY <3>1, <3>3, GateCounts DEF Limited
      <3> QED BY <3>2, <3>3, GateSkips
    <2> QED BY <1>2, <2>1, GatePasses DEF GateNext
  <1> QED BY <1>1, <1>2 DEF Next, vars

(***************************************************************************)
(* security_middleware, with or without connect-info and for every limit,  *)
(* window and set of addresses: of the requests that count for an address, *)
(* at most twice rate_limit_per_min get through in any stretch of one      *)
(* window, unless the buckets were dropped in it.  Requests that count for *)
(* no address are not bounded.                                             *)
(***************************************************************************)
THEOREM AtMostTwiceTheorem == Spec => []AtMostTwice
  <1>1. Init => GateInv
    BY GateStart DEF Init
  <1>2. GateInv => AtMostTwice
    <2> SUFFICES ASSUME GateInv, NEW a \in Address, ~(cleared < Window)
                 PROVE  Admitted(a) <= 2 * Limit
      BY DEF AtMostTwice
    <2>1. Window - 1 \in 0 .. Window - 1 /\ Window - 1 < cleared
      BY GateAssumption DEF GateInv, GateTypes
    <2>2. /\ admitted[a][Window - 1] <= bucket[a].count + Limit
          /\ admitted[a][Window - 1] \in 0 .. MaxCounted
          /\ bucket[a].count \in 0 .. Limit
      BY <2>1 DEF GateInv, GateTypes, Bounded
    <2> QED BY <2>2, GateAssumption DEF Admitted, MaxCounted
  <1> QED BY <1>1, <1>2, GateStep, PTL DEF Spec

(***************************************************************************)
(* security_middleware answers 429 only to a request that counts for an    *)
(* address for which as many requests as the limit allows were let through *)
(* within the last window, whatever is sent for other addresses or none.   *)
(***************************************************************************)
THEOREM RefusedTheorem == Spec => []RefusedWhenSpent
  <1>1. Init => GateInv
    BY GateStart DEF Init
  <1>2. GateInv => RefusedWhenSpent
    BY DEF GateInv
  <1> QED BY <1>1, <1>2, GateStep, PTL DEF Spec

-----------------------------------------------------------------------------
(* ExplorerClient: first sends against the callers that may still send.    *)

Waiting == {c \in Caller : stage[c] = "wait"}
DueWithin(n) == {c \in Waiting : sleep[c] <= n}

ClientTypes ==
    /\ slotAge \in 0 .. Interval
    /\ stage \in [Caller -> {"idle", "wait", "send", "backoff"}]
    /\ sleep \in [Caller -> Nat]
    /\ first \in [0 .. Interval - 1 -> Nat]

(***************************************************************************)
(* The stretch that began k ticks ago and lasts Interval ticks.  As long   *)
(* as nobody entered the limiter in it, its first sends are of callers     *)
(* that waited when it began and no longer do.  Once somebody has, whoever *)
(* enters next waits beyond its end, so that only those count that are due *)
(* before it.                                                              *)
(***************************************************************************)
StretchHolds(k) ==
    /\ k < slotAge => first[k] + Cardinality(Waiting) <= Cardinality(Caller)
    /\ slotAge <= k =>
         first[k] + Cardinality(DueWithin(Interval - 1 - k)) <= Cardinality(Caller) + 1

ClientInv == ClientTypes /\ \A k \in 0 .. Interval - 1 : StretchHolds(k)

\* Cardinalities of the sets of callers.
LEMMA CallerSets ==
  ASSUME NEW S, S \subseteq Caller
  PROVE  /\ IsFiniteSet(S) /\ Cardinality(S) \in Nat
         /\ Cardinality(Caller) \in Nat /\ Cardinality(S) <= Cardinality(Caller)
         /\ \A c \in Caller : Cardinality(S \cup {c}) =
                IF c \in S THEN Cardinality(S) ELSE Cardinality(S) + 1
         /\ \A c \in S : Cardinality(S \ {c}) = Cardinality(S) - 1
         /\ \A T \in SUBSET S : Cardinality(T) <= Cardinality(S)
  <1>1. IsFiniteSet(Caller)
    BY ClientAssumption
  <1>2. IsFiniteSet(S) /\ Cardinality(S) <= Cardinality(Caller)
    BY <1>1, FS_Subset
  <1>3. Cardinality(S) \in Nat /\ Cardinality(Caller) \in Nat
    BY <1>1, <1>2, FS_CardinalityType
  <1>4. \A c \in Caller : Cardinality(S \cup {c}) =
          IF c \in S THEN Cardinality(S) ELSE Cardinality(S) + 1
    BY <1>2, FS_AddElement
  <1>5. \A c \in S : Cardinality(S \ {c}) = Cardinality(S) - 1
    BY <1>2, FS_RemoveElement
  <1>6. \A T \in SUBSET S : Cardinality(T) <= Cardinality(S)
    BY <1>2, FS_Subset
  <1> QED BY <1>2, <1>3, <1>4, <1>5, <1>6

LEMMA ClientStart == ClientInit => ClientInv
  <1> SUFFICES ASSUME ClientInit PROVE ClientInv
    OBVIOUS
  <1> USE ClientAssumption
  <1>1. Waiting = {}
    BY DEF ClientInit, Waiting
  <1>2. Cardinality(Waiting) <= Cardinality(Caller) /\ Cardinality(Caller) \in Nat
        /\ Cardinality(Waiting) \in Nat
    BY CallerSets DEF Waiting
  <1>3. ClientTypes
    BY DEF ClientInit, ClientTypes
  <1>4. ASSUME NEW k \in 0 .. Interval - 1 PROVE StretchHolds(k)
    BY <1>2 DEF ClientInit, StretchHolds
  <1> QED BY <1>3, <1>4 DEF ClientInv

\* A step that leaves the limiter, the waiting callers and the history alone.
LEMMA ClientQuiet ==
  ASSUME ClientInv, NEW c \in Caller,
         slotAge' = slotAge, first' = first,
         stage' \in [Caller -> {"idle", "wait", "send", "backoff"}],
         sleep' \in [Caller -> Nat],
         stage[c] # "wait", stage'[c] # "wait",
         \A d \in Caller \ {c} : stage'[d] = stage[d] /\ sleep'[d] = sleep[d]
  PROVE  ClientInv'
  <1>1. Waiting' = Waiting
    BY DEF Waiting
  <1>2. \A n : DueWithin(n)' = DueWithin(n)
    BY <1>1 DEF DueWithin, Waiting
  <1> QED BY <1>1, <1>2 DEF ClientInv, ClientTypes, StretchHolds

\* get_raw up to the first send.
LEMMA ClientEnters ==
  ASSUME ClientInv, NEW c \in Caller, Enter(c)
  PROVE  ClientInv'
  <1> USE ClientAssumption
  <1>1. ClientTypes /\ stage[c] = "idle"
    BY DEF ClientInv, Enter
  <1>2. /\ slotAge' \in 0 .. Interval
        /\ Interval > 0 => slotAge' = 0
    BY <1>1 DEF Enter, Recorded, ClientTypes
  <1>3. CASE slotAge >= Interval
    <2>1. /\ stage' = [stage EXCEPT ![c] = "send"] /\ sleep' = sleep
          /\ first' = [k \in DOMAIN first |-> first[k] + 1]
      BY <1>3 DEF Enter, Noted
    <2>2. ClientTypes'
      BY <1>1, <1>2, <2>1 DEF ClientTypes
    <2>3. Waiting' = Waiting
      BY <1>1, <2>1 DEF Waiting, ClientTypes
    <2>4. ASSUME NEW k \in 0 .. Interval - 1
          PROVE  StretchHolds(k)'
      <3> DEFINE due == DueWithin(Interval - 1 - k)'
      <3>1. due \subseteq Waiting /\ Waiting \subseteq Caller
        BY <2>3 DEF DueWithin, Waiting
      <3>2. /\ Cardinality(due) <= Cardinality(Waiting)
            /\ Cardinality(due) \in Nat /\ Cardinality(Waiting) \in Nat
            /\ Cardinality(Caller) \in Nat
        BY <3>1, CallerSets
      <3>3. k < slotAge /\ first[k] + Cardinality(Waiting) <= Cardinality(Caller)
        BY <1>1, <1>3 DEF ClientInv, ClientTypes, StretchHolds
      <3>4. first'[k] = first[k] + 1 /\ first[k] \in Nat /\ slotAge' = 0
        <4>1. DOMAIN first = 0 .. Interval - 1 /\ first[k] \in Nat
          BY <1>1 DEF ClientTypes
        <4>2. first'[k] = first[k] + 1
          BY <4>1, <2>1
        <4>3. Interval > 0
          OBVIOUS
        <4> QED BY <4>1, <4>2, <4>3, <1>2
      <3> HIDE DEF due
      <3>5. first'[k] + Cardinality(due) <= Cardinality(Caller) + 1
        BY <3>2, <3>3, <3>4
      <3> QED BY <3>4, <3>5 DEF StretchHolds, due
    <2> QED BY <2>2, <2>4 DEF ClientInv
  <1>4. CASE slotAge < Interval
    <2>1. /\ stage' = [stage EXCEPT ![c] = "wait"] /\ first' = first
          /\ sleep' = [sleep EXCEPT ![c] = Interval - slotAge]
          /\ Interval > 0 /\ slotAge' = 0
      BY <1>1, <1>2, <1>4 DEF Enter, ClientTypes
    <2>2. ClientTypes'
      BY <1>1, <1>2, <2>1 DEF ClientTypes
    <2>3. Waiting' = Waiting \cup {c} /\ c \notin Waiting
      BY <1>1, <2>1 DEF Waiting, ClientTypes
    <2>4. ASSUME NEW k \in 0 .. Interval - 1
          PROVE  StretchHolds(k)'
      <3> DEFINE due == DueWithin(Interval - 1 - k)
      <3>1. due \subseteq Waiting /\ due' \subseteq Waiting' /\ Waiting' \subseteq Caller
            /\ Waiting \subseteq Caller
        BY <2>3 DEF DueWithin, Waiting
      <3>2. /\ Cardinality(due') <= Cardinality(Waiting')
            /\ Cardinality(due') \in Nat /\ Cardinality(Waiting') \in Nat
            /\ Cardinality(Waiting') = Cardinality(Waiting) + 1
            /\ Cardinality(Caller) \in Nat /\ Cardinality(Waiting) \in Nat
        <4>1. Cardinality(due') <= Cardinality(Waiting') /\ Cardinality(Waiting') \in Nat
          BY <3>1, CallerSets
        <4>2. Cardinality(due') \in Nat
          BY <3>1, CallerSets
        <4>3. Cardinality(Waiting') = Cardinality(Waiting) + 1
              /\ Cardinality(Caller) \in Nat /\ Cardinality(Waiting) \in Nat
          BY <2>3, <3>1, CallerSets
        <4> QED BY <4>1, <4>2, <4>3
      <3>3. first'[k] = first[k] /\ first[k] \in Nat /\ slotAge' = 0
        BY <1>1, <2>1 DEF ClientTypes
      <3>4. CASE k < slotAge
        <4>1. first[k] + Cardinality(Waiting) <= Cardinality(Caller)
          BY <3>4 DEF ClientInv, StretchHolds
        <4> HIDE DEF due
        <4>2. first'[k] + Cardinality(due') <= Cardinality(Caller) + 1
          BY <3>2, <3>3, <4>1
        <4> QED BY <3>3, <4>2 DEF StretchHolds, due
      <3>5. CASE slotAge <= k
        <4>1. first[k] + Cardinality(due) <= Cardinality(Caller) + 1
          BY <3>5 DEF ClientInv, StretchHolds
        <4>2. due' = due
          <5>1. sleep'[c] = Interval - slotAge /\ ~(sleep'[c] <= Interval - 1 - k)
            BY <1>1, <2>1, <3>5 DEF ClientTypes
          <5>2. \A d \in Waiting : sleep'[d] = sleep[d]
            BY <1>1, <2>1, <2>3 DEF ClientTypes, Waiting
          <5> QED BY <2>3, <5>1, <5>2 DEF DueWithin
        <4> QED BY <3>3, <4>1, <4>2 DEF StretchHolds
      <3> QED BY <1>1, <3>4, <3>5 DEF ClientTypes
    <2> QED BY <2>2, <2>4 DEF ClientInv
  <1> QED BY <1>1, <1>3, <1>4 DEF ClientTypes

\* A caller that waited sends: it counts where it was due.
LEMMA ClientSends ==
  ASSUME ClientInv, NEW c \in Caller, FirstSend(c)
  PROVE  ClientInv'
  <1> USE ClientAssumption
  <1>1. /\ ClientTypes /\ c \in Waiting /\ sleep[c] = 0
        /\ stage' = [stage EXCEPT ![c] = "send"] /\ sleep' = sleep /\ slotAge' = slotAge
        /\ first' = [k \in DOMAIN first |-> first[k] + 1]
    BY DEF ClientInv, FirstSend, Waiting, Noted
  <1>2. ClientTypes'
    BY <1>1 DEF ClientTypes
  <1>3. Waiting' = Waiting \ {c}
    BY <1>1 DEF Waiting, ClientTypes
  <1>4. ASSUME NEW k \in 0 .. Interval - 1
        PROVE  StretchHolds(k)'
    <2> DEFINE due == DueWithin(Interval - 1 - k)
    <2>1. c \in due /\ due' = due \ {c} /\ due \subseteq Caller /\ Waiting \subseteq Caller
      BY <1>1, <1>3 DEF DueWithin, Waiting
    <2>2. /\ Cardinality(due') = Cardinality(due) - 1
          /\ Cardinality(due) \in Nat
      BY <2>1, CallerSets
    <2>3. /\ Cardinality(Waiting') = Cardinality(Waiting) - 1
          /\ Cardinality(Waiting) \in Nat /\ Cardinality(Caller) \in Nat
      BY <1>1, <1>3, <2>1, CallerSets
    <2>4. first'[k] = first[k] + 1 /\ first[k] \in Nat
      BY <1>1 DEF ClientTypes
    <2>5. /\ k < slotAge => first[k] + Cardinality(Waiting) <= Cardinality(Caller)
          /\ slotAge <= k => first[k] + Cardinality(due) <= Cardinality(Caller) + 1
      BY DEF ClientInv, StretchHolds
    <2> HIDE DEF due
    <2>6. /\ k < slotAge => first'[k] + Cardinality(Waiting') <= Cardinality(Caller)
          /\ slotAge <= k => first'[k] + Cardinality(due') <= Cardinality(Caller) + 1
      BY <2>2, <2>3, <2>4, <2>5
    <2> QED BY <1>1, <2>6 DEF StretchHolds, due
  <1> QED BY <1>2, <1>4 DEF ClientInv

\* An answer, and a resend, do not concern the limiter.
LEMMA ClientRetries ==
  ASSUME ClientInv, NEW c \in Caller, Reply(c) \/ Resend(c)
  PROVE  ClientInv'
  <1>1. ClientTypes
    BY DEF ClientInv
  <1>2. CASE Resend(c)
    BY <1>1, <1>2, ClientQuiet DEF Resend, ClientTypes
  <1>3. CASE Reply(c)
    <2>1. PICK a \in Answer :
            /\ stage[c] = "send" /\ UNCHANGED <<slotAge, first>>
            /\ IF Retried(a) /\ MayRetry(c)
                 THEN /\ stage' = [stage EXCEPT ![c] = "backoff"]
                      /\ \E d \in Backoffs(attempt[c]) : sleep' = [sleep EXCEPT ![c] = d]
                 ELSE stage' = [stage EXCEPT ![c] = "idle"] /\ sleep' = sleep
      BY <1>3 DEF Reply
    <2>2. \A d \in Backoffs(attempt[c]) : d \in Nat
      BY DEF Backoffs
    <2>3. /\ stage' \in [Caller -> {"idle", "wait", "send", "backoff"}]
          /\ sleep' \in [Caller -> Nat] /\ stage[c] # "wait" /\ stage'[c] # "wait"
          /\ \A d \in Caller \ {c} : stage'[d] = stage[d] /\ sleep'[d] = sleep[d]
      BY <1>1, <2>1, <2>2 DEF ClientTypes
    <2> QED BY <2>1, <2>3, ClientQuiet
  <1> QED BY <1>2, <1>3

\* Time passes: every stretch moves on by one tick.
LEMMA ClientPasses ==
  ASSUME ClientInv, ClientTick
  PROVE  ClientInv'
  <1> USE ClientAssumption
  <1>1. ClientTypes
    BY DEF ClientInv
  <1>2. slotAge' = IF slotAge < Interval THEN slotAge + 1 ELSE Interval
    <2>1. slotAge \in 0 .. Interval /\ slotAge' = Min({slotAge + 1, Interval})
      BY <1>1 DEF ClientTick, ClientTypes
    <2> QED BY <2>1, MinOfTwo
  <1>3. \A d \in Caller : sleep'[d] = IF sleep[d] > 0 THEN sleep[d] - 1 ELSE 0
    BY DEF ClientTick
  <1>4. \A k \in 0 .. Interval - 1 : first'[k] = IF k = 0 THEN 0 ELSE first[k - 1]
    BY DEF ClientTick
  <1>5. ClientTypes'
    <2>1. first' \in [0 .. Interval - 1 -> Nat]
      BY <1>1, <1>4 DEF ClientTick, ClientTypes
    <2>2. sleep' \in [Caller -> Nat]
      BY <1>1, <1>3 DEF ClientTick, ClientTypes
    <2> QED BY <1>1, <1>2, <2>1, <2>2 DEF ClientTick, ClientTypes
  <1>6. Waiting' = Waiting
    BY DEF ClientTick, Waiting
  <1>7. ASSUME NEW k \in 0 .. Interval - 1
        PROVE  StretchHolds(k)'
    <2>1. /\ Cardinality(Waiting) \in Nat /\ Cardinality(Caller) \in Nat
          /\ Cardinality(Waiting) <= Cardinality(Caller)
      BY CallerSets DEF Waiting
    <2>2. CASE k = 0
      BY <1>1, <1>2, <1>4, <1>6, <2>1, <2>2 DEF StretchHolds, ClientTypes
    <2>3. CASE k # 0
      <3>1. k - 1 \in 0 .. Interval - 1 /\ StretchHolds(k - 1) /\ first'[k] = first[k - 1]
        BY <1>4, <2>3 DEF ClientInv
      <3>2. /\ k < slotAge' => k - 1 < slotAge
            /\ slotAge' <= k => slotAge <= k - 1
        BY <1>1, <1>2 DEF ClientTypes
      <3>3. DueWithin(Interval - 1 - k)' = DueWithin(Interval - 1 - (k - 1))
        <4>1. \A d \in Caller : sleep'[d] <= Interval - 1 - k
                                  <=> sleep[d] <= Interval - 1 - (k - 1)
          BY <1>1, <1>3 DEF ClientTypes
        <4> QED BY <1>6, <4>1 DEF DueWithin, Waiting
      <3> QED BY <1>6, <3>1, <3>2, <3>3 DEF StretchHolds
    <2> QED BY <2>2, <2>3
  <1> QED BY <1>5, <1>7 DEF ClientInv

(***************************************************************************)
(* ElectrsClient::get_raw, for any number of callers, any interval and any *)
(* policy of retries: in a stretch of one interval the host sees at most   *)
(* one first send more than there are callers.                             *)
(***************************************************************************)
THEOREM BurstTheorem == Spec => []BurstBound
  <1>1. Init => ClientInv
    BY ClientStart DEF Init
  <1>2. ClientInv /\ [Next]_vars => ClientInv'
    <2> SUFFICES ASSUME ClientInv, [Next]_vars PROVE ClientInv'
      OBVIOUS
    <2>1. CASE UNCHANGED clientVars
      BY <2>1 DEF clientVars, ClientInv, ClientTypes, StretchHolds, Waiting, DueWithin
    <2>2. CASE ClientNext
      BY <2>2, ClientEnters, ClientSends, ClientRetries, ClientPasses
         DEF ClientNext, ClientStep
    <2> QED BY <2>1, <2>2 DEF Next, vars
  <1>3. ClientInv => BurstBound
    <2> SUFFICES ASSUME ClientInv PROVE FirstSends <= Cardinality(Caller) + 1
      BY DEF BurstBound
    <2>1. Cardinality(Caller) \in Nat
      BY CallerSets
    <2>2. CASE Interval = 0
      BY <2>1, <2>2 DEF FirstSends
    <2>3. CASE Interval # 0
      <3> DEFINE k == Interval - 1
      <3>1. k \in 0 .. Interval - 1 /\ first[k] \in Nat /\ StretchHolds(k)
            /\ slotAge \in 0 .. Interval
        BY <2>3, ClientAssumption DEF ClientInv, ClientTypes
      <3>2. /\ Cardinality(Waiting) \in Nat
            /\ Cardinality(DueWithin(Interval - 1 - k)) \in Nat
        BY CallerSets DEF Waiting, DueWithin
      <3> QED BY <2>1, <2>3, <3>1, <3>2 DEF FirstSends, StretchHolds
    <2> QED BY <2>2, <2>3
  <1> QED BY <1>1, <1>2, <1>3, PTL DEF Spec
=============================================================================
