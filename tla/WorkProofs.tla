----------------------------- MODULE WorkProofs -----------------------------
(***************************************************************************)
(* Proofs about the arithmetic of work: the sum, the comparisons, the long *)
(* division and block_work itself agree with exact arithmetic at every     *)
(* width of a byte and every number of bytes.                              *)
(***************************************************************************)
EXTENDS AlgorithmProofs

(* Arrays of bytes as numbers. *)

LEMMA LeadingRange ==
  ASSUME NEW n \in Number
  PROVE  \A i \in 0 .. Bytes : Leading(n)[i] \in 0 .. ByteTo[i] - 1
  <1> DEFINE T == {i \in Nat : i <= Bytes => Leading(n)[i] \in 0 .. ByteTo[i] - 1}
  <1>1. 0 \in T
    BY ByteFacts, LeadingFacts
  <1>2. ASSUME NEW i \in T PROVE i + 1 \in T
    <2> SUFFICES ASSUME i + 1 <= Bytes PROVE Leading(n)[i + 1] \in 0 .. ByteTo[i + 1] - 1
      OBVIOUS
    <2> DEFINE x == Leading(n)[i]
               p == ByteTo[i]
               d == n[i + 1]
    <2>1. i \in 0 .. Bytes /\ i + 1 \in 1 .. Bytes /\ (i + 1) - 1 = i
      BY ByteFacts
    <2>2. x \in 0 .. p - 1 /\ p \in Nat /\ d \in 0 .. Byte - 1
      BY <2>1, ByteFacts DEF Number
    <2>3. Leading(n)[i + 1] = x * Byte + d /\ ByteTo[i + 1] = Byte * p
      BY <2>1, ByteFacts, LeadingFacts
    <2> HIDE DEF x, p, d
    <2>4. x * Byte \in Nat /\ Byte * p \in Nat
      BY <2>2, ByteFacts
    <2>5. (p - 1 - x) * Byte >= 0
      BY <2>2, ByteFacts
    <2>6. (p - 1 - x) * Byte = Byte * p - Byte - x * Byte
      BY <2>2, ByteFacts
    <2> DEFINE y == x * Byte
               z == Byte * p
    <2>7. y \in Nat /\ z \in Nat /\ y + Byte <= z
      BY <2>4, <2>5, <2>6, ByteFacts
    <2> HIDE DEF y, z
    <2>8. y + d \in 0 .. z - 1
      BY <2>2, <2>7, ByteFacts
    <2> QED BY <2>3, <2>8 DEF y, z
  <1>3. T = Nat
    <2> HIDE DEF T
    <2>1. T \in SUBSET Nat
      BY DEF T
    <2> QED BY <1>1, <1>2, <2>1, AllNumbers
  <1> QED BY <1>3, ByteFacts

LEMMA ValueRange ==
  ASSUME NEW n \in Number
  PROVE  ValueOf(n) \in 0 .. ByteTo[Bytes] - 1
  BY LeadingRange, ByteFacts DEF ValueOf

\* The leading bytes alone decide a leading value.
LEMMA LeadingSame ==
  ASSUME NEW a, NEW b, NEW m \in 0 .. Bytes, \A i \in 1 .. m : a[i] = b[i]
  PROVE  \A i \in 0 .. m : Leading(a)[i] = Leading(b)[i]
  <1> DEFINE T == {i \in Nat : i <= m => Leading(a)[i] = Leading(b)[i]}
  <1>1. 0 \in T
    BY LeadingFacts
  <1>2. ASSUME NEW i \in T PROVE i + 1 \in T
    <2> SUFFICES ASSUME i + 1 <= m PROVE Leading(a)[i + 1] = Leading(b)[i + 1]
      OBVIOUS
    <2>1. i + 1 \in 1 .. Bytes /\ (i + 1) - 1 = i /\ i + 1 \in 1 .. m
      BY ByteFacts
    <2>2. Leading(a)[i] = Leading(b)[i] /\ a[i + 1] = b[i + 1]
      BY <2>1
    <2>3. Leading(a)[i + 1] = Leading(a)[i] * Byte + a[i + 1]
      BY <2>1, LeadingFacts
    <2>4. Leading(b)[i + 1] = Leading(b)[i] * Byte + b[i + 1]
      BY <2>1, LeadingFacts
    <2> QED BY <2>2, <2>3, <2>4
  <1>3. T = Nat
    <2> HIDE DEF T
    <2>1. T \in SUBSET Nat
      BY DEF T
    <2> QED BY <1>1, <1>2, <2>1, AllNumbers
  <1> QED BY <1>3, ByteFacts

-----------------------------------------------------------------------------
(* Comparisons. *)

\* Once a byte is smaller and the bytes before it are equal, the number is
\* smaller, whatever follows.
LEMMA FirstDifference ==
  ASSUME NEW a \in Number, NEW b \in Number, NEW i \in 1 .. Bytes,
         \A j \in 1 .. i - 1 : a[j] = b[j], a[i] < b[i]
  PROVE  ValueOf(a) < ValueOf(b)
  <1> DEFINE T == {k \in Nat : i + k <= Bytes =>
                                 Leading(a)[i + k] < Leading(b)[i + k]}
  <1>1. 0 \in T
    <2> DEFINE x == Leading(a)[i - 1]
               y == Leading(b)[i - 1]
    <2>1. i - 1 \in 0 .. Bytes /\ i - 1 \in 0 .. i - 1
      BY ByteFacts
    <2>2. x = y
      BY <2>1, LeadingSame
    <2>3. x \in Nat
      BY <2>1, LeadingRange, ByteFacts
    <2>4. Leading(a)[i] = x * Byte + a[i] /\ Leading(b)[i] = y * Byte + b[i]
      BY LeadingFacts
    <2>5. a[i] \in Nat /\ b[i] \in Nat
      BY ByteFacts DEF Number
    <2> HIDE DEF x, y
    <2>6. x * Byte \in Nat
      BY <2>3, ByteFacts
    <2> QED BY <2>2, <2>4, <2>5, <2>6
  <1>2. ASSUME NEW k \in T PROVE k + 1 \in T
    <2> SUFFICES ASSUME i + (k + 1) <= Bytes
                 PROVE  Leading(a)[i + (k + 1)] < Leading(b)[i + (k + 1)]
      OBVIOUS
    <2> DEFINE m == i + (k + 1)
               x == Leading(a)[m - 1]
               y == Leading(b)[m - 1]
    <2>1. m - 1 \in 0 .. Bytes /\ m \in 1 .. Bytes /\ m - 1 = i + k
      BY ByteFacts
    <2>2. x < y /\ x \in Nat /\ y \in Nat
      BY <2>1, LeadingRange, ByteFacts
    <2>3. a[m] \in 0 .. Byte - 1 /\ b[m] \in 0 .. Byte - 1
      BY <2>1 DEF Number
    <2>4. Leading(a)[m] = x * Byte + a[m] /\ Leading(b)[m] = y * Byte + b[m]
      BY <2>1, LeadingFacts
    <2> HIDE DEF x, y, m
    <2>5. (y - x - 1) * Byte >= 0 /\ (y - x - 1) * Byte = y * Byte - x * Byte - Byte
      BY <2>2, ByteFacts
    <2>6. x * Byte \in Nat /\ y * Byte \in Nat
      BY <2>2, ByteFacts
    <2>7. Leading(a)[m] < Leading(b)[m]
      BY <2>3, <2>4, <2>5, <2>6, ByteFacts
    <2> QED BY <2>7 DEF m
  <1>3. T = Nat
    <2> HIDE DEF T
    <2>1. T \in SUBSET Nat
      BY DEF T
    <2> QED BY <1>1, <1>2, <2>1, AllNumbers
  <1>4. Bytes - i \in Nat /\ i + (Bytes - i) = Bytes
    BY ByteFacts
  <1>5. Bytes - i \in T
    BY <1>3, <1>4
  <1>6. Leading(a)[Bytes] < Leading(b)[Bytes]
    BY <1>4, <1>5, ByteFacts
  <1> QED BY <1>6 DEF ValueOf

\* Two numbers are equal or differ at a first byte.
LEMMA SameOrDiffers ==
  ASSUME NEW a \in Number, NEW b \in Number
  PROVE  a = b \/ \E i \in 1 .. Bytes : Differs(a, b, i)
  <1> SUFFICES ASSUME a # b PROVE \E i \in 1 .. Bytes : Differs(a, b, i)
    OBVIOUS
  <1> DEFINE T == {i \in 1 .. Bytes : a[i] # b[i]}
  <1>1. T \in SUBSET Nat
    BY ByteFacts
  <1>a. T # {}
    <2> SUFFICES ASSUME T = {} PROVE a = b
      OBVIOUS
    <2>1. \A i \in 1 .. Bytes : a[i] = b[i]
      OBVIOUS
    <2>2. a = [i \in 1 .. Bytes |-> a[i]] /\ b = [i \in 1 .. Bytes |-> b[i]]
      BY DEF Number
    <2> HIDE DEF T
    <2> QED BY <2>1, <2>2
  <1>2. PICK i \in T : \A k \in T : i <= k
    BY <1>1, <1>a, LeastNumber
  <1>3. \A j \in 1 .. i - 1 : a[j] = b[j]
    <2> SUFFICES ASSUME NEW j \in 1 .. i - 1, a[j] # b[j] PROVE FALSE
      OBVIOUS
    <2>1. i \in 1 .. Bytes
      BY <1>2
    <2>2. j \in 1 .. Bytes /\ ~(i <= j)
      BY <2>1, ByteFacts
    <2> QED BY <2>2, <1>2
  <1> QED BY <1>2, <1>3 DEF Differs

\* Byte arrays compare like their numbers.
LEMMA ComparisonExact ==
  ASSUME NEW a \in Number, NEW b \in Number
  PROVE  /\ TargetLeq(a, b) <=> ValueOf(a) <= ValueOf(b)
         /\ Ge(a, b) <=> ValueOf(a) >= ValueOf(b)
  <1>1. ValueOf(a) \in Int /\ ValueOf(b) \in Int
    BY ValueRange, ByteFacts
  <1>2. CASE a = b
    BY <1>1, <1>2 DEF TargetLeq, Ge, Differs
  <1>3. ASSUME NEW i \in 1 .. Bytes, Differs(a, b, i)
        PROVE  /\ TargetLeq(a, b) <=> ValueOf(a) <= ValueOf(b)
               /\ Ge(a, b) <=> ValueOf(a) >= ValueOf(b)
    <2>1. a[i] # b[i] /\ a[i] \in Int /\ b[i] \in Int
      BY <1>3, ByteFacts DEF Differs, Number
    <2>2. \A j \in 1 .. i - 1 : a[j] = b[j] /\ b[j] = a[j]
      BY <1>3 DEF Differs
    <2>3. ASSUME NEW k \in 1 .. Bytes, Differs(a, b, k) PROVE k = i
      <3>1. ~(k < i)
        <4> SUFFICES ASSUME k < i PROVE FALSE
          OBVIOUS
        <4>1. k \in 1 .. i - 1
          OBVIOUS
        <4> QED BY <2>2, <2>3, <4>1 DEF Differs
      <3>2. ~(i < k)
        <4> SUFFICES ASSUME i < k PROVE FALSE
          OBVIOUS
        <4>1. i \in 1 .. k - 1
          OBVIOUS
        <4> QED BY <1>3, <2>3, <4>1 DEF Differs
      <3> QED BY <3>1, <3>2
    <2>4. CASE a[i] < b[i]
      <3>1. ValueOf(a) < ValueOf(b)
        BY <2>2, <2>4, FirstDifference
      <3>2. TargetLeq(a, b)
        BY <2>3, <2>4 DEF TargetLeq
      <3>3. ~Ge(a, b)
        BY <1>3, <2>1, <2>4 DEF Ge
      <3> QED BY <1>1, <3>1, <3>2, <3>3
    <2>5. CASE b[i] < a[i]
      <3>1. ValueOf(b) < ValueOf(a)
        BY <2>2, <2>5, FirstDifference
      <3>2. Ge(a, b)
        BY <2>1, <2>3, <2>5 DEF Ge
      <3>3. ~TargetLeq(a, b)
        BY <1>3, <2>1, <2>5 DEF TargetLeq
      <3> QED BY <1>1, <3>1, <3>2, <3>3
    <2> QED BY <2>1, <2>4, <2>5
  <1> QED BY <1>2, <1>3, SameOrDiffers

-----------------------------------------------------------------------------
(* Carries and borrows run from the last byte to the first. *)

\* One bit or none is carried out of a byte.
LEMMA CarryStep ==
  ASSUME NEW x \in 0 .. Byte - 1, NEW y \in 0 .. Byte - 1, NEW c \in 0 .. 1
  PROVE  /\ (x + y + c) \div Byte \in 0 .. 1
         /\ (x + y + c) % Byte \in 0 .. Byte - 1
         /\ x + y + c = ((x + y + c) \div Byte) * Byte + ((x + y + c) % Byte)
  <1> DEFINE s == x + y + c
             q == s \div Byte
             r == s % Byte
  <1>1. s \in Nat /\ s < 2 * Byte /\ Byte \in Nat \ {0}
    BY ByteFacts
  <1> HIDE DEF s
  <1>2. q \in Int /\ r \in 0 .. Byte - 1 /\ s = q * Byte + r
    BY <1>1
  <1> HIDE DEF q, r
  <1>3. q >= 0
    <2> SUFFICES ASSUME q <= -1 PROVE FALSE
      BY <1>2
    <2>1. (-1 - q) * Byte >= 0 /\ (-1 - q) * Byte = -Byte - q * Byte
      BY <1>1, <1>2
    <2> QED BY <1>1, <1>2, <2>1
  <1>4. q <= 1
    <2> SUFFICES ASSUME q >= 2 PROVE FALSE
      BY <1>2
    <2>1. (q - 2) * Byte >= 0 /\ (q - 2) * Byte = q * Byte - 2 * Byte
      BY <1>1, <1>2
    <2> QED BY <1>1, <1>2, <2>1
  <1> QED BY <1>2, <1>3, <1>4 DEF s, q, r

LEMMA CarryFacts ==
  ASSUME NEW a \in Number, NEW b \in Number, NEW low \in 0 .. 1
  PROVE  LET c == Carry(a, b, low)
         IN  /\ c[Bytes + 1] = low
             /\ \A i \in 1 .. Bytes : c[i] = (a[i] + b[i] + c[i + 1]) \div Byte
             /\ \A i \in 1 .. Bytes + 1 : c[i] \in 0 .. 1
  <1> DEFINE N == Bytes + 1
             Level(i, next) == (a[i] + b[i] + next) \div Byte
             Solves(g, m) == \A i \in N - m .. N : g[i] = IF i = N THEN low ELSE Level(i, g[i + 1])
             T == {m \in Nat : \E g : Solves(g, m)}
  <1> HIDE DEF Level
  <1>a. N \in Nat
    BY ByteFacts
  <1> HIDE DEF N
  <1>1. 0 \in T
    <2> DEFINE g == [i \in N .. N |-> low]
    <2>1. Solves(g, 0)
      BY <1>a
    <2> QED BY <2>1
  <1>2. ASSUME NEW m \in T PROVE m + 1 \in T
    <2>1. PICK g : Solves(g, m)
      OBVIOUS
    <2> DEFINE f == N - (m + 1)
               h == [i \in f .. N |-> IF i = f THEN Level(f, g[f + 1]) ELSE g[i]]
    <2>2. Solves(h, m + 1)
      <3> SUFFICES ASSUME NEW i \in f .. N
                   PROVE  h[i] = IF i = N THEN low ELSE Level(i, h[i + 1])
        OBVIOUS
      <3>a. f \in Int /\ f < N /\ f + 1 = N - m /\ f + 1 \in f .. N
        BY <1>a
      <3>1. CASE i = f
        <4>1. i # N /\ h[f + 1] = g[f + 1] /\ h[f] = Level(f, g[f + 1])
          BY <1>a, <3>1, <3>a
        <4> QED BY <3>1, <4>1
      <3>2. CASE i # f
        <4>1. i \in N - m .. N /\ h[i] = g[i] /\ (i # N => h[i + 1] = g[i + 1])
          BY <1>a, <3>2, <3>a
        <4> QED BY <2>1, <4>1
      <3> QED BY <3>1, <3>2
    <2>3. m + 1 \in Nat
      OBVIOUS
    <2> QED BY <2>2, <2>3
  <1>3. Bytes \in T
    <2> HIDE DEF T
    <2>1. T \in SUBSET Nat
      BY DEF T
    <2> QED BY <1>1, <1>2, <2>1, AllNumbers, ByteFacts
  <1>4. PICK g : Solves(g, Bytes)
    BY <1>3
  <1>b. N - Bytes = 1
    BY ByteFacts DEF N
  <1> DEFINE h == [i \in 1 .. N |-> g[i]]
  <1>5. h = [i \in 1 .. N |-> IF i = N THEN low ELSE Level(i, h[i + 1])]
    <2>1. \A i \in 1 .. N : g[i] = IF i = N THEN low ELSE Level(i, g[i + 1])
      BY <1>4, <1>b
    <2>2. \A i \in 1 .. N : i # N => h[i + 1] = g[i + 1]
      BY <1>a
    <2> QED BY <2>1, <2>2
  <1> HIDE DEF h
  <1>6. \E f : f = [i \in 1 .. N |-> IF i = N THEN low ELSE Level(i, f[i + 1])]
    BY <1>5
  <1> DEFINE c == Carry(a, b, low)
  <1>7. c = [i \in 1 .. N |-> IF i = N THEN low ELSE Level(i, c[i + 1])]
    BY <1>6 DEF Carry, Level, N
  <1> HIDE DEF c
  <1>8. c[N] = low /\ \A i \in 1 .. Bytes : c[i] = Level(i, c[i + 1])
    BY <1>7, ByteFacts DEF N
  <1> DEFINE U == {m \in Nat : m <= Bytes => c[N - m] \in 0 .. 1}
  <1>9. 0 \in U
    BY <1>8, <1>a
  <1>10. ASSUME NEW m \in U PROVE m + 1 \in U
    <2> SUFFICES ASSUME m + 1 <= Bytes PROVE c[N - (m + 1)] \in 0 .. 1
      OBVIOUS
    <2> DEFINE i == N - (m + 1)
    <2>1. i \in 1 .. Bytes /\ i + 1 = N - m
      BY ByteFacts DEF N
    <2>2. c[i + 1] \in 0 .. 1 /\ c[i] = Level(i, c[i + 1])
      BY <1>8, <2>1, ByteFacts
    <2>3. a[i] \in 0 .. Byte - 1 /\ b[i] \in 0 .. Byte - 1
      BY <2>1 DEF Number
    <2> HIDE DEF i
    <2> DEFINE x == a[i]
               y == b[i]
               z == c[i + 1]
    <2>4. x \in 0 .. Byte - 1 /\ y \in 0 .. Byte - 1 /\ z \in 0 .. 1
      BY <2>2, <2>3
    <2>5. c[i] = (x + y + z) \div Byte
      BY <2>2 DEF Level
    <2> HIDE DEF x, y, z
    <2>6. (x + y + z) \div Byte \in 0 .. 1
      BY <2>4, CarryStep, Zenon
    <2>7. c[i] \in 0 .. 1
      BY <2>5, <2>6
    <2> QED BY <2>7 DEF i
  <1>11. U = Nat
    <2> HIDE DEF U
    <2>1. U \in SUBSET Nat
      BY DEF U
    <2> QED BY <1>9, <1>10, <2>1, AllNumbers
  <1>12. ASSUME NEW i \in 1 .. Bytes + 1 PROVE c[i] \in 0 .. 1
    <2>1. N - i \in Nat /\ N - i <= Bytes /\ N - (N - i) = i
      BY ByteFacts DEF N
    <2>2. N - i \in U
      BY <2>1, <1>11
    <2> QED BY <2>1, <2>2
  <1> QED BY <1>8, <1>12 DEF c, N, Level

\* Digits with carries into and out of every byte: the value of the digits and
\* what comes in at the end is the value of the bytes and what goes out in front.
LEMMA CarryChain ==
  ASSUME NEW U \in [0 .. Bytes -> Int], NEW D \in [1 .. Bytes -> Int],
         NEW c \in [1 .. Bytes + 1 -> Int], NEW s \in Number,
         U[0] = 0,
         \A i \in 1 .. Bytes : U[i] = U[i - 1] * Byte + D[i],
         \A i \in 1 .. Bytes : D[i] + c[i + 1] = c[i] * Byte + s[i]
  PROVE  U[Bytes] + c[Bytes + 1] = c[1] * ByteTo[Bytes] + ValueOf(s)
  <1> DEFINE T == {i \in Nat : i <= Bytes =>
                     U[i] + c[i + 1] = c[1] * ByteTo[i] + Leading(s)[i]}
  <1>a. Bytes \in Nat
    BY ByteFacts
  <1>1. 0 \in T
    <2>1. Leading(s)[0] = 0 /\ ByteTo[0] = 1
      BY LeadingFacts, ByteFacts
    <2>2. c[1] \in Int /\ c[0 + 1] = c[1]
      BY <1>a
    <2> QED BY <2>1, <2>2
  <1>2. ASSUME NEW k \in T PROVE k + 1 \in T
    <2> SUFFICES ASSUME k + 1 <= Bytes
                 PROVE  U[k + 1] + c[(k + 1) + 1]
                          = c[1] * ByteTo[k + 1] + Leading(s)[k + 1]
      OBVIOUS
    <2> DEFINE i == k + 1
               z == Leading(s)[k]
               p == ByteTo[k]
    <2>1. i \in 1 .. Bytes /\ k \in 0 .. Bytes /\ i - 1 = k
      BY <1>a
    <2>2. i + 1 \in 1 .. Bytes + 1 /\ i \in 1 .. Bytes + 1 /\ 1 \in 1 .. Bytes + 1
      BY <1>a, <2>1
    <2>3. Leading(s)[i] = z * Byte + s[i]
      BY <2>1, LeadingFacts
    <2>4. z \in Int
      <3>1. z \in 0 .. p - 1
        BY <2>1, LeadingRange
      <3> QED BY <3>1
    <2>5. p \in Int /\ ByteTo[i] = Byte * p
      <3>1. ByteTo[i] = Byte * ByteTo[i - 1]
        BY <2>1, ByteFacts
      <3>2. p \in Nat \ {0}
        BY <2>1, ByteFacts
      <3> HIDE DEF i
      <3> QED BY <2>1, <3>1, <3>2
    <2>6. s[i] \in Int
      BY <2>1, ByteFacts DEF Number
    <2>7. U[k] \in Int /\ D[i] \in Int /\ c[i] \in Int /\ c[i + 1] \in Int /\ c[1] \in Int
      BY <2>1, <2>2
    <2>8. U[k] + c[i] = c[1] * p + z
      BY <2>1
    <2>9. U[i] = U[k] * Byte + D[i] /\ D[i] + c[i + 1] = c[i] * Byte + s[i]
      BY <2>1
    <2> HIDE DEF z, p, i
    <2>10. (U[k] * Byte + D[i]) + c[i + 1] = c[1] * (Byte * p) + (z * Byte + s[i])
      <3> DEFINE u == U[k]
                 d == D[i]
                 ci == c[i]
                 cj == c[i + 1]
                 o == c[1]
                 si == s[i]
      <3>1. /\ u \in Int /\ ci \in Int /\ o \in Int /\ p \in Int /\ z \in Int
            /\ d \in Int /\ cj \in Int /\ si \in Int
        BY <2>4, <2>5, <2>6, <2>7
      <3>2. u + ci = o * p + z /\ d + cj = ci * Byte + si
        BY <2>8, <2>9
      <3> HIDE DEF u, d, ci, cj, o, si
      <3>3. (u * Byte + d) + cj = o * (Byte * p) + (z * Byte + si)
        <4> DEFINE uB == u * Byte
                   cB == ci * Byte
                   oB == o * (Byte * p)
                   zB == z * Byte
        <4>1. (u + ci) * Byte = (o * p + z) * Byte
          BY <3>2
        <4>2. (u + ci) * Byte = uB + cB
          BY <3>1, ByteFacts
        <4>3. (o * p + z) * Byte = oB + zB
          BY <3>1, ByteFacts
        <4>4. uB \in Int /\ cB \in Int /\ oB \in Int /\ zB \in Int
          BY <3>1, ByteFacts
        <4>5. uB + cB = oB + zB /\ d + cj = cB + si
          BY <3>2, <4>1, <4>2, <4>3
        <4> HIDE DEF uB, cB, oB, zB
        <4>6. (uB + d) + cj = oB + (zB + si)
          BY <3>1, <4>4, <4>5
        <4> QED BY <4>6 DEF uB, oB, zB
      <3> QED BY <3>3 DEF u, d, cj, o, si
    <2>11. U[i] + c[i + 1] = c[1] * ByteTo[i] + Leading(s)[i]
      BY <2>3, <2>5, <2>9, <2>10
    <2> QED BY <2>11 DEF i
  <1>3. T = Nat
    <2> HIDE DEF T
    <2>1. T \in SUBSET Nat
      BY DEF T
    <2> QED BY <1>1, <1>2, <2>1, AllNumbers
  <1>4. Bytes \in T
    BY <1>3, <1>a
  <1> QED BY <1>4, <1>a DEF ValueOf

\* What is added, with what is carried in, is the sum and what is carried out.
LEMMA AddValue ==
  ASSUME NEW a \in Number, NEW b \in Number, NEW low \in 0 .. 1, NEW s,
         s = [i \in 1 .. Bytes |-> (a[i] + b[i] + Carry(a, b, low)[i + 1]) % Byte]
  PROVE  /\ s \in Number
         /\ Carry(a, b, low)[1] \in 0 .. 1
         /\ ValueOf(a) + ValueOf(b) + low
              = Carry(a, b, low)[1] * ByteTo[Bytes] + ValueOf(s)
  <1> DEFINE c == Carry(a, b, low)
  <1>1. /\ c[Bytes + 1] = low
        /\ \A i \in 1 .. Bytes : c[i] = (a[i] + b[i] + c[i + 1]) \div Byte
        /\ \A i \in 1 .. Bytes + 1 : c[i] \in 0 .. 1
    BY CarryFacts
  <1>a. s = [i \in 1 .. Bytes |-> (a[i] + b[i] + c[i + 1]) % Byte]
    OBVIOUS
  <1>b. Bytes \in Nat /\ Byte \in Nat
    BY ByteFacts
  <1> HIDE DEF c
  <1>2. ASSUME NEW i \in 1 .. Bytes
        PROVE  /\ a[i] \in Int /\ b[i] \in Int /\ s[i] \in 0 .. Byte - 1
               /\ (a[i] + b[i]) + c[i + 1] = c[i] * Byte + s[i]
    <2> DEFINE x == a[i]
               y == b[i]
               z == c[i + 1]
    <2>1. x \in 0 .. Byte - 1 /\ y \in 0 .. Byte - 1
      BY DEF Number
    <2>2. i + 1 \in 1 .. Bytes + 1
      BY <1>b
    <2>3. z \in 0 .. 1
      BY <1>1, <2>2
    <2>4. c[i] = (x + y + z) \div Byte /\ s[i] = (x + y + z) % Byte
      BY <1>1, <1>a
    <2> HIDE DEF x, y, z
    <2>5. s[i] \in 0 .. Byte - 1 /\ x + y + z = c[i] * Byte + s[i]
      <3>1. (x + y + z) % Byte \in 0 .. Byte - 1
        BY <2>1, <2>3, CarryStep, Zenon
      <3>2. x + y + z = ((x + y + z) \div Byte) * Byte + ((x + y + z) % Byte)
        BY <2>1, <2>3, CarryStep, Zenon
      <3> QED BY <2>4, <3>1, <3>2
    <2>6. x \in Int /\ y \in Int
      BY <2>1, <1>b
    <2> QED BY <2>5, <2>6 DEF x, y, z
  <1>3. s \in Number
    BY <1>2, <1>a DEF Number
  <1> DEFINE U == [i \in 0 .. Bytes |-> Leading(a)[i] + Leading(b)[i]]
             D == [i \in 1 .. Bytes |-> a[i] + b[i]]
             C == [i \in 1 .. Bytes + 1 |-> c[i]]
  <1>4. U \in [0 .. Bytes -> Int]
    <2>1. \A i \in 0 .. Bytes : Leading(a)[i] \in Int /\ Leading(b)[i] \in Int
      BY LeadingRange, ByteFacts
    <2> QED BY <2>1
  <1>5. D \in [1 .. Bytes -> Int]
    BY <1>2
  <1>6. C \in [1 .. Bytes + 1 -> Int]
    BY <1>1
  <1>7. U[0] = 0
    BY LeadingFacts, <1>b
  <1>8. ASSUME NEW i \in 1 .. Bytes PROVE U[i] = U[i - 1] * Byte + D[i]
    <2> DEFINE x == Leading(a)[i - 1]
               y == Leading(b)[i - 1]
    <2>1. i - 1 \in 0 .. Bytes /\ i \in 0 .. Bytes
      BY <1>b
    <2>2. x \in Int /\ y \in Int
      BY <2>1, LeadingRange, ByteFacts
    <2>3. Leading(a)[i] = x * Byte + a[i]
      BY LeadingFacts
    <2>4. Leading(b)[i] = y * Byte + b[i]
      BY LeadingFacts
    <2>5. U[i] = (x * Byte + a[i]) + (y * Byte + b[i]) /\ U[i - 1] = x + y /\ D[i] = a[i] + b[i]
      BY <2>1, <2>3, <2>4
    <2>6. a[i] \in Int /\ b[i] \in Int
      BY <1>2
    <2> HIDE DEF x, y, U, D
    <2>7. (x + y) * Byte = x * Byte + y * Byte /\ x * Byte \in Int /\ y * Byte \in Int
      BY <2>2, <1>b
    <2> QED BY <2>5, <2>6, <2>7
  <1>9. \A i \in 1 .. Bytes : D[i] + C[i + 1] = C[i] * Byte + s[i]
    <2> SUFFICES ASSUME NEW i \in 1 .. Bytes PROVE D[i] + C[i + 1] = C[i] * Byte + s[i]
      OBVIOUS
    <2>1. C[i + 1] = c[i + 1] /\ C[i] = c[i] /\ D[i] = a[i] + b[i]
      BY <1>b
    <2> HIDE DEF C, D
    <2> QED BY <2>1, <1>2
  <1>10. C[Bytes + 1] = low /\ C[1] = c[1] /\ c[1] \in 0 .. 1
    BY <1>1, <1>b
  <1>11. U[Bytes] = ValueOf(a) + ValueOf(b)
    BY <1>b DEF ValueOf
  <1> HIDE DEF U, D, C
  <1>12. U[Bytes] + C[Bytes + 1] = C[1] * ByteTo[Bytes] + ValueOf(s)
    BY <1>3, <1>4, <1>5, <1>6, <1>7, <1>8, <1>9, CarryChain
  <1> QED BY <1>3, <1>10, <1>11, <1>12 DEF c

\* u256_add_be adds modulo the width.
LEMMA SumExact ==
  ASSUME NEW a \in Number, NEW b \in Number
  PROVE  AddBe(a, b) \in Number /\ SumExactFor(a, b)
  <1> DEFINE s == AddBe(a, b)
             c == Carry(a, b, 0)[1]
             M == ByteTo[Bytes]
             S == ValueOf(a) + ValueOf(b)
             v == ValueOf(s)
  <1>1. s = [i \in 1 .. Bytes |-> (a[i] + b[i] + Carry(a, b, 0)[i + 1]) % Byte]
    BY DEF AddBe
  <1>2. s \in Number /\ c \in 0 .. 1 /\ S + 0 = c * M + v
    BY <1>1, AddValue
  <1>3. S \in Int /\ M \in Nat \ {0} /\ v \in 0 .. M - 1
    BY <1>2, ValueRange, ByteFacts
  <1> HIDE DEF S, M, v, c
  <1>4. S = c * M + v
    BY <1>2, <1>3
  <1>5. S % M = v
    BY <1>2, <1>3, <1>4, Quotient
  <1>6. v = S % M
    BY <1>5
  <1> QED BY <1>2, <1>6, ComparisonExact DEF SumExactFor, S, M, v

\* Zero is the number 0.
LEMMA ZeroFacts == Zero \in Number /\ \A i \in 0 .. Bytes : Leading(Zero)[i] = 0
  <1> DEFINE T == {i \in Nat : i <= Bytes => Leading(Zero)[i] = 0}
  <1>1. 0 \in T
    BY LeadingFacts
  <1>2. ASSUME NEW i \in T PROVE i + 1 \in T
    <2> SUFFICES ASSUME i + 1 <= Bytes PROVE Leading(Zero)[i + 1] = 0
      OBVIOUS
    <2>1. i + 1 \in 1 .. Bytes /\ (i + 1) - 1 = i /\ Leading(Zero)[i] = 0
      BY ByteFacts
    <2>2. Leading(Zero)[i + 1] = Leading(Zero)[(i + 1) - 1] * Byte + Zero[i + 1]
      BY <2>1, LeadingFacts
    <2>3. Leading(Zero)[i + 1] = 0 * Byte + 0
      BY <2>1, <2>2 DEF Zero
    <2> QED BY <2>3, ByteFacts
  <1>3. T = Nat
    <2> HIDE DEF T
    <2>1. T \in SUBSET Nat
      BY DEF T
    <2> QED BY <1>1, <1>2, <2>1, AllNumbers
  <1>4. Zero \in Number
    BY ByteFacts DEF Zero, Number
  <1> QED BY <1>3, <1>4, ByteFacts

\* u256_add_one adds one, and tells when it wraps.
LEMMA AddOneValue ==
  ASSUME NEW a \in Number
  PROVE  /\ AddOne(a).sum \in Number
         /\ AddOne(a).overflow => ValueOf(a) + 1 = ByteTo[Bytes]
         /\ AddOne(a).overflow => ValueOf(AddOne(a).sum) = 0
         /\ ~AddOne(a).overflow => ValueOf(AddOne(a).sum) = ValueOf(a) + 1
  <1> DEFINE c == Carry(a, Zero, 1)
             s == AddOne(a).sum
  <1>1. s = [i \in 1 .. Bytes |-> (a[i] + c[i + 1]) % Byte]
    BY DEF AddOne
  <1>2. AddOne(a).overflow <=> c[1] = 1
    BY DEF AddOne
  <1>3. s = [i \in 1 .. Bytes |-> (a[i] + Zero[i] + c[i + 1]) % Byte]
    <2>1. ASSUME NEW i \in 1 .. Bytes PROVE a[i] + Zero[i] + c[i + 1] = a[i] + c[i + 1]
      <3>1. a[i] \in Int /\ Zero[i] = 0
        BY ByteFacts DEF Number, Zero
      <3>2. a[i] + Zero[i] = a[i]
        BY <3>1
      <3> QED BY <3>2
    <2> HIDE DEF c, s
    <2> QED BY <1>1, <2>1
  <1>4. /\ s \in Number /\ c[1] \in 0 .. 1
        /\ ValueOf(a) + ValueOf(Zero) + 1 = c[1] * ByteTo[Bytes] + ValueOf(s)
    <2>1. 1 \in 0 .. 1
      OBVIOUS
    <2> QED BY <1>3, <2>1, ZeroFacts, AddValue
  <1>5. ValueOf(Zero) = 0
    BY ZeroFacts, ByteFacts DEF ValueOf
  <1> DEFINE M == ByteTo[Bytes]
             x == ValueOf(a)
             v == ValueOf(s)
             o == c[1]
  <1>6. M \in Nat \ {0} /\ x \in 0 .. M - 1 /\ v \in 0 .. M - 1
    BY <1>4, ValueRange, ByteFacts
  <1>7. x + 1 = o * M + v /\ o \in 0 .. 1
    BY <1>4, <1>5, <1>6
  <1> HIDE DEF M, x, v, o
  <1>8. o = 1 => x + 1 = M /\ v = 0
    BY <1>6, <1>7
  <1>9. o # 1 => v = x + 1
    <2> SUFFICES ASSUME o = 0 PROVE v = x + 1
      BY <1>7
    <2> QED BY <1>6, <1>7
  <1> QED BY <1>2, <1>4, <1>8, <1>9 DEF M, x, v, o

\* The complement of every byte is the complement of the number.
LEMMA ComplementValue ==
  ASSUME NEW t \in Number, NEW n, n = [i \in 1 .. Bytes |-> Byte - 1 - t[i]]
  PROVE  n \in Number /\ ValueOf(n) = ByteTo[Bytes] - 1 - ValueOf(t)
  <1>1. ASSUME NEW i \in 1 .. Bytes
        PROVE  t[i] \in 0 .. Byte - 1 /\ n[i] = Byte - 1 - t[i] /\ n[i] \in 0 .. Byte - 1
    <2>1. t[i] \in 0 .. Byte - 1
      BY DEF Number
    <2>2. n[i] = Byte - 1 - t[i]
      OBVIOUS
    <2> QED BY <2>1, <2>2, ByteFacts
  <1>2. n \in Number
    BY <1>1 DEF Number
  <1> DEFINE T == {i \in Nat : i <= Bytes => Leading(n)[i] = ByteTo[i] - 1 - Leading(t)[i]}
  <1>3. 0 \in T
    BY LeadingFacts, ByteFacts
  <1>4. ASSUME NEW k \in T PROVE k + 1 \in T
    <2> SUFFICES ASSUME k + 1 <= Bytes
                 PROVE  Leading(n)[k + 1] = ByteTo[k + 1] - 1 - Leading(t)[k + 1]
      OBVIOUS
    <2> DEFINE i == k + 1
               x == Leading(t)[i - 1]
               y == Leading(n)[i - 1]
               p == ByteTo[i - 1]
    <2>1. i \in 1 .. Bytes /\ i - 1 \in 0 .. Bytes /\ i - 1 = k
      BY ByteFacts
    <2>2. Leading(n)[i] = y * Byte + n[i]
      BY <2>1, LeadingFacts
    <2>3. Leading(t)[i] = x * Byte + t[i]
      BY <2>1, LeadingFacts
    <2>4. ByteTo[i] = Byte * p
      BY <2>1, ByteFacts
    <2>5. x \in Int /\ p \in Int
      BY <2>1, LeadingRange, ByteFacts
    <2>6. y = p - 1 - x
      BY <2>1
    <2>7. t[i] \in Int /\ n[i] = Byte - 1 - t[i]
      BY <1>1, <2>1, ByteFacts
    <2> HIDE DEF i, x, y, p
    <2>8. (p - 1 - x) * Byte = Byte * p - Byte - x * Byte
      BY <2>5, ByteFacts
    <2>9. Byte * p \in Int /\ x * Byte \in Int
      BY <2>5, ByteFacts
    <2>10. Leading(n)[i] = ByteTo[i] - 1 - Leading(t)[i]
      <3> DEFINE pB == Byte * p
                 xB == x * Byte
      <3>1. pB \in Int /\ xB \in Int /\ y * Byte = pB - Byte - xB
        BY <2>6, <2>8, <2>9
      <3>2. Leading(n)[i] = (pB - Byte - xB) + (Byte - 1 - t[i])
        BY <2>2, <2>7, <3>1
      <3>3. Leading(t)[i] = xB + t[i] /\ ByteTo[i] = pB
        BY <2>3, <2>4
      <3> HIDE DEF pB, xB
      <3>4. (pB - Byte - xB) + (Byte - 1 - t[i]) = pB - 1 - (xB + t[i])
        <4>1. pB \in Int /\ xB \in Int /\ Byte \in Int /\ t[i] \in Int
          BY <2>7, <3>1, ByteFacts
        <4> QED BY <4>1
      <3> QED BY <3>2, <3>3, <3>4
    <2> QED BY <2>10 DEF i
  <1>5. T = Nat
    <2> HIDE DEF T
    <2>1. T \in SUBSET Nat
      BY DEF T
    <2> QED BY <1>3, <1>4, <2>1, AllNumbers
  <1>6. Bytes \in T
    BY <1>5, ByteFacts
  <1>7. Leading(n)[Bytes] = ByteTo[Bytes] - 1 - Leading(t)[Bytes]
    BY <1>6, ByteFacts
  <1> QED BY <1>2, <1>7 DEF ValueOf

LEMMA BorrowFacts ==
  ASSUME NEW a \in Number, NEW b \in Number
  PROVE  LET c == Borrow(a, b)
         IN  /\ c[Bytes + 1] = 0
             /\ \A i \in 1 .. Bytes : c[i] = IF a[i] - b[i] - c[i + 1] >= 0 THEN 0 ELSE 1
             /\ \A i \in 1 .. Bytes + 1 : c[i] \in 0 .. 1
  <1> DEFINE N == Bytes + 1
             Level(i, next) == IF i = N \/ a[i] - b[i] - next >= 0 THEN 0 ELSE 1
             Solves(g, m) == \A i \in N - m .. N : g[i] = Level(i, g[i + 1])
             T == {m \in Nat : \E g : Solves(g, m)}
  <1>z. \A x : Level(N, x) = 0
    OBVIOUS
  <1> HIDE DEF Level
  <1>a. N \in Nat
    BY ByteFacts
  <1> HIDE DEF N
  <1>1. 0 \in T
    <2> DEFINE g == [i \in N .. N |-> 0]
    <2>1. Solves(g, 0)
      BY <1>a, <1>z
    <2> QED BY <2>1
  <1>2. ASSUME NEW m \in T PROVE m + 1 \in T
    <2>1. PICK g : Solves(g, m)
      OBVIOUS
    <2> DEFINE f == N - (m + 1)
               h == [i \in f .. N |-> IF i = f THEN Level(f, g[f + 1]) ELSE g[i]]
    <2>2. Solves(h, m + 1)
      <3> SUFFICES ASSUME NEW i \in f .. N PROVE h[i] = Level(i, h[i + 1])
        OBVIOUS
      <3>a. f \in Int /\ f < N /\ f + 1 = N - m /\ f + 1 \in f .. N
        BY <1>a
      <3>1. CASE i = f
        <4>1. h[f + 1] = g[f + 1] /\ h[f] = Level(f, g[f + 1])
          BY <1>a, <3>a
        <4> QED BY <3>1, <4>1
      <3>2. CASE i # f /\ i # N
        <4>1. i \in N - m .. N /\ h[i] = g[i] /\ h[i + 1] = g[i + 1]
          BY <1>a, <3>2, <3>a
        <4> QED BY <2>1, <4>1
      <3>3. CASE i # f /\ i = N
        <4>1. N \in N - m .. N /\ h[N] = g[N]
          BY <1>a, <3>3, <3>a
        <4> QED BY <2>1, <3>3, <4>1, <1>z
      <3> QED BY <3>1, <3>2, <3>3
    <2>3. m + 1 \in Nat
      OBVIOUS
    <2> QED BY <2>2, <2>3
  <1>3. Bytes \in T
    <2> HIDE DEF T
    <2>1. T \in SUBSET Nat
      BY DEF T
    <2> QED BY <1>1, <1>2, <2>1, AllNumbers, ByteFacts
  <1>4. PICK g : Solves(g, Bytes)
    BY <1>3
  <1>b. N - Bytes = 1
    BY ByteFacts DEF N
  <1> DEFINE h == [i \in 1 .. N |-> g[i]]
  <1>5. h = [i \in 1 .. N |-> Level(i, h[i + 1])]
    <2>1. \A i \in 1 .. N : g[i] = Level(i, g[i + 1])
      BY <1>4, <1>b
    <2>2. \A i \in 1 .. N : i # N => h[i + 1] = g[i + 1]
      BY <1>a
    <2>3. \A i \in 1 .. N : g[i] = Level(i, h[i + 1])
      BY <2>1, <2>2, <1>z
    <2> QED BY <2>3
  <1> HIDE DEF h
  <1>6. \E f : f = [i \in 1 .. N |-> Level(i, f[i + 1])]
    BY <1>5
  <1> DEFINE c == Borrow(a, b)
  <1>7. c = [i \in 1 .. N |-> Level(i, c[i + 1])]
    BY <1>6 DEF Borrow, Level, N
  <1> HIDE DEF c
  <1>8. c[N] = 0 /\ \A i \in 1 .. N : c[i] = Level(i, c[i + 1])
    BY <1>7, <1>z, ByteFacts DEF N
  <1>9. \A i \in 1 .. N : c[i] \in 0 .. 1
    BY <1>8 DEF Level
  <1>10. ASSUME NEW i \in 1 .. Bytes
         PROVE  c[i] = IF a[i] - b[i] - c[i + 1] >= 0 THEN 0 ELSE 1
    <2>1. i \in 1 .. N /\ i # N
      BY ByteFacts DEF N
    <2> QED BY <1>8, <2>1 DEF Level
  <1> QED BY <1>8, <1>9, <1>10 DEF c, N

\* u256_sub subtracts, where what is taken away is not more than there is.
LEMMA SubExact ==
  ASSUME NEW a \in Number, NEW b \in Number, ValueOf(a) >= ValueOf(b)
  PROVE  Sub(a, b) \in Number /\ ValueOf(Sub(a, b)) = ValueOf(a) - ValueOf(b)
  <1> DEFINE c == Borrow(a, b)
             s == Sub(a, b)
  <1>1. /\ c[Bytes + 1] = 0
        /\ \A i \in 1 .. Bytes : c[i] = IF a[i] - b[i] - c[i + 1] >= 0 THEN 0 ELSE 1
        /\ \A i \in 1 .. Bytes + 1 : c[i] \in 0 .. 1
    BY BorrowFacts
  <1>a. s = [i \in 1 .. Bytes |-> (a[i] - b[i] - c[i + 1]) % Byte]
    BY DEF Sub
  <1>b. Bytes \in Nat /\ Byte \in Nat /\ Byte >= 2
    BY ByteFacts
  <1> HIDE DEF c, s
  <1>2. ASSUME NEW i \in 1 .. Bytes
        PROVE  /\ a[i] \in Int /\ b[i] \in Int /\ s[i] \in 0 .. Byte - 1
               /\ (a[i] - b[i]) + (-c[i + 1]) = (-c[i]) * Byte + s[i]
    <2> DEFINE x == a[i]
               y == b[i]
               z == c[i + 1]
               d == x - y - z
    <2>1. x \in 0 .. Byte - 1 /\ y \in 0 .. Byte - 1
      BY DEF Number
    <2>2. i + 1 \in 1 .. Bytes + 1
      BY <1>b
    <2>3. z \in 0 .. 1
      BY <1>1, <2>2
    <2>4. c[i] = IF d >= 0 THEN 0 ELSE 1
      BY <1>1
    <2>5. s[i] = d % Byte
      BY <1>a
    <2>6. d \in Int /\ d >= -Byte /\ d < Byte /\ d = (x - y) + (-z) /\ Byte \in Nat \ {0}
      BY <2>1, <2>3, <1>b
    <2>7. s[i] \in 0 .. Byte - 1 /\ d = (-c[i]) * Byte + s[i]
      <3> HIDE DEF d
      <3>1. CASE d >= 0
        <4>1. d \in 0 .. Byte - 1 /\ d = 0 * Byte + d /\ 0 \in Int
          BY <2>6, <3>1, <1>b
        <4>2. d % Byte = d
          BY <2>6, <4>1, Quotient
        <4> QED BY <2>4, <2>5, <3>1, <4>1, <4>2, <1>b
      <3>2. CASE d < 0
        <4> DEFINE r == d + Byte
        <4>1. r \in 0 .. Byte - 1 /\ d = (-1) * Byte + r /\ -1 \in Int
          BY <2>6, <3>2, <1>b
        <4>2. d % Byte = r
          BY <2>6, <4>1, Quotient
        <4>3. c[i] = 1
          BY <2>4, <2>6, <3>2
        <4> QED BY <2>5, <4>1, <4>2, <4>3, <1>b
      <3> QED BY <2>6, <3>1, <3>2
    <2>8. x \in Int /\ y \in Int
      BY <2>1, <1>b
    <2> QED BY <2>6, <2>7, <2>8
  <1>3. s \in Number
    BY <1>2, <1>a DEF Number
  <1> DEFINE U == [i \in 0 .. Bytes |-> Leading(a)[i] - Leading(b)[i]]
             D == [i \in 1 .. Bytes |-> a[i] - b[i]]
             C == [i \in 1 .. Bytes + 1 |-> -c[i]]
  <1>4. U \in [0 .. Bytes -> Int]
    <2>1. \A i \in 0 .. Bytes : Leading(a)[i] \in Int /\ Leading(b)[i] \in Int
      BY LeadingRange, ByteFacts
    <2> QED BY <2>1
  <1>5. D \in [1 .. Bytes -> Int]
    BY <1>2
  <1>6. C \in [1 .. Bytes + 1 -> Int]
    BY <1>1
  <1>7. U[0] = 0
    BY LeadingFacts, <1>b
  <1>8. ASSUME NEW i \in 1 .. Bytes PROVE U[i] = U[i - 1] * Byte + D[i]
    <2> DEFINE x == Leading(a)[i - 1]
               y == Leading(b)[i - 1]
    <2>1. i - 1 \in 0 .. Bytes /\ i \in 0 .. Bytes
      BY <1>b
    <2>2. x \in Int /\ y \in Int
      BY <2>1, LeadingRange, ByteFacts
    <2>3. Leading(a)[i] = x * Byte + a[i]
      BY LeadingFacts
    <2>4. Leading(b)[i] = y * Byte + b[i]
      BY LeadingFacts
    <2>5. U[i] = (x * Byte + a[i]) - (y * Byte + b[i]) /\ U[i - 1] = x - y /\ D[i] = a[i] - b[i]
      BY <2>1, <2>3, <2>4
    <2>6. a[i] \in Int /\ b[i] \in Int
      BY <1>2
    <2> HIDE DEF x, y, U, D
    <2>7. (x - y) * Byte = x * Byte - y * Byte /\ x * Byte \in Int /\ y * Byte \in Int
      BY <2>2, <1>b
    <2> QED BY <2>5, <2>6, <2>7
  <1>9. \A i \in 1 .. Bytes : D[i] + C[i + 1] = C[i] * Byte + s[i]
    <2> SUFFICES ASSUME NEW i \in 1 .. Bytes PROVE D[i] + C[i + 1] = C[i] * Byte + s[i]
      OBVIOUS
    <2>1. C[i + 1] = -c[i + 1] /\ C[i] = -c[i] /\ D[i] = a[i] - b[i]
      BY <1>b
    <2> HIDE DEF C, D
    <2> QED BY <2>1, <1>2
  <1>10. C[Bytes + 1] = 0 /\ C[1] = -c[1] /\ c[1] \in 0 .. 1
    BY <1>1, <1>b
  <1>11. U[Bytes] = ValueOf(a) - ValueOf(b)
    BY <1>b DEF ValueOf
  <1> HIDE DEF U, D, C
  <1>12. U[Bytes] + C[Bytes + 1] = C[1] * ByteTo[Bytes] + ValueOf(s)
    BY <1>3, <1>4, <1>5, <1>6, <1>7, <1>8, <1>9, CarryChain
  <1> DEFINE M == ByteTo[Bytes]
             x == ValueOf(a)
             y == ValueOf(b)
             v == ValueOf(s)
             o == c[1]
  <1>13. M \in Nat /\ v \in 0 .. M - 1 /\ x \in Int /\ y \in Int /\ x >= y
    BY <1>3, ValueRange, ByteFacts
  <1>14. x - y = (-o) * M + v /\ o \in 0 .. 1
    BY <1>10, <1>11, <1>12, <1>13
  <1> HIDE DEF M, x, y, v, o
  <1>15. CASE o = 0
    BY <1>3, <1>13, <1>14, <1>15 DEF x, y, v, s
  <1>16. CASE o = 1
    BY <1>13, <1>14, <1>16
  <1> QED BY <1>14, <1>15, <1>16

-----------------------------------------------------------------------------
(* Bits. *)

LEMMA TwoToFacts ==
  /\ ByteBits \in Nat \ {0}
  /\ TwoTo[0] = 1 /\ TwoTo[ByteBits] = Byte
  /\ \A k \in 1 .. ByteBits : TwoTo[k] = 2 * TwoTo[k - 1]
  /\ \A k \in 0 .. ByteBits : TwoTo[k] \in Nat \ {0}
  <1>1. ByteBits \in Nat \ {0}
    BY WidthAssumption
  <1>2. 2 \in Nat \ {0}
    OBVIOUS
  <1> QED BY <1>1, <1>2, PowersFacts DEF TwoTo, Byte

\* Two powers that multiply to a byte.
LEMMA TwoToSplits ==
  ASSUME NEW j \in 0 .. ByteBits
  PROVE  TwoTo[j] * TwoTo[ByteBits - j] = Byte
  <1> DEFINE T == {k \in Nat : k <= ByteBits => TwoTo[k] * TwoTo[ByteBits - k] = Byte}
  <1>1. 0 \in T
    BY TwoToFacts, ByteFacts
  <1>2. ASSUME NEW k \in T PROVE k + 1 \in T
    <2> SUFFICES ASSUME k + 1 <= ByteBits
                 PROVE  TwoTo[k + 1] * TwoTo[ByteBits - (k + 1)] = Byte
      OBVIOUS
    <2> DEFINE x == TwoTo[k]
               y == TwoTo[ByteBits - (k + 1)]
    <2>1. /\ k \in 0 .. ByteBits /\ k + 1 \in 1 .. ByteBits /\ (k + 1) - 1 = k
          /\ ByteBits - k \in 1 .. ByteBits /\ (ByteBits - k) - 1 = ByteBits - (k + 1)
          /\ ByteBits - (k + 1) \in 0 .. ByteBits
      BY TwoToFacts
    <2>2. TwoTo[k + 1] = 2 * x
      BY <2>1, TwoToFacts
    <2>3. TwoTo[ByteBits - k] = 2 * y
      BY <2>1, TwoToFacts
    <2>4. x \in Int /\ y \in Int
      BY <2>1, TwoToFacts
    <2>5. x * (2 * y) = Byte
      BY <2>1, <2>3
    <2> HIDE DEF x, y
    <2>6. x * (2 * y) = (2 * x) * y
      BY <2>4
    <2> QED BY <2>2, <2>5, <2>6 DEF y
  <1>3. T = Nat
    <2> HIDE DEF T
    <2>1. T \in SUBSET Nat
      BY DEF T
    <2> QED BY <1>1, <1>2, <2>1, AllNumbers
  <1>4. j \in Nat /\ j <= ByteBits
    BY TwoToFacts
  <1> QED BY <1>3, <1>4

\* A byte is twice a number.
LEMMA ByteEven == \E half \in Nat \ {0} : Byte = 2 * half
  <1>1. ByteBits \in 1 .. ByteBits /\ ByteBits - 1 \in 0 .. ByteBits
    BY TwoToFacts
  <1> QED BY <1>1, TwoToFacts

\* Halving a divisor uncovers one more bit of the quotient.
LEMMA NextBit ==
  ASSUME NEW x \in Nat, NEW h \in Nat \ {0}
  PROVE  /\ x \div h = 2 * (x \div (2 * h)) + ((x \div h) % 2)
         /\ (x \div h) % 2 \in 0 .. 1
  <1> DEFINE q == x \div h
             r == x % h
             p == q \div 2
             b == q % 2
  <1>1. q \in Int /\ r \in 0 .. h - 1 /\ x = q * h + r
    OBVIOUS
  <1> HIDE DEF q, r
  <1>2. p \in Int /\ b \in 0 .. 1 /\ q = p * 2 + b
    BY <1>1
  <1> HIDE DEF p, b
  <1>3. x = p * (2 * h) + (b * h + r)
    <2>1. (p * 2 + b) * h = p * (2 * h) + b * h
      BY <1>2
    <2>2. p * (2 * h) \in Int /\ b * h \in Int
      BY <1>2
    <2> QED BY <1>1, <1>2, <2>1, <2>2
  <1>4. b * h + r \in 0 .. (2 * h) - 1
    <2>1. CASE b = 0
      BY <1>1, <2>1
    <2>2. CASE b = 1
      BY <1>1, <2>2
    <2> QED BY <1>2, <2>1, <2>2
  <1>5. x \div (2 * h) = p
    <2> DEFINE m == 2 * h
               s == b * h + r
    <2>1. m \in Nat \ {0} /\ s \in 0 .. m - 1 /\ x = p * m + s
      BY <1>3, <1>4
    <2> HIDE DEF m, s
    <2>2. x \div m = p
      BY <1>2, <2>1, Quotient
    <2> QED BY <2>2 DEF m
  <1>6. q = 2 * p + b
    BY <1>2
  <1> QED BY <1>2, <1>5, <1>6 DEF q, b

\* u256_shl1 and the bit that is put in: twice the number and the bit, where
\* that fits.
LEMMA ShiftExact ==
  ASSUME NEW a \in Number, NEW bit \in 0 .. 1, NEW r,
         r = [Shl1(a) EXCEPT ![Bytes] = @ + bit],
         2 * ValueOf(a) + bit < ByteTo[Bytes]
  PROVE  r \in Number /\ ValueOf(r) = 2 * ValueOf(a) + bit
  <1>b. Bytes \in Nat /\ Bytes >= 3 /\ Byte \in Nat /\ Byte >= 2
    BY ByteFacts
  <1> DEFINE top(i) == (2 * a[i]) \div Byte
             rest(i) == (2 * a[i]) % Byte
             C == [i \in 1 .. Bytes + 1 |-> IF i = Bytes + 1 THEN bit ELSE top(i)]
  <1>1. ASSUME NEW i \in 1 .. Bytes
        PROVE  /\ a[i] \in 0 .. Byte - 1
               /\ top(i) \in 0 .. 1 /\ rest(i) \in 0 .. Byte - 2
               /\ 2 * a[i] = top(i) * Byte + rest(i)
    <2> DEFINE x == a[i]
               q == (2 * x) \div Byte
               s == (2 * x) % Byte
    <2>1. x \in 0 .. Byte - 1
      BY DEF Number
    <2>2. 0 \in 0 .. 1
      OBVIOUS
    <2>3. x + x + 0 = 2 * x
      BY <2>1, <1>b
    <2> HIDE DEF x
    <2>4. (x + x + 0) \div Byte \in 0 .. 1
      BY <2>1, <2>2, CarryStep, Zenon
    <2>5. (x + x + 0) % Byte \in 0 .. Byte - 1
      BY <2>1, <2>2, CarryStep, Zenon
    <2>6. x + x + 0 = ((x + x + 0) \div Byte) * Byte + ((x + x + 0) % Byte)
      BY <2>1, <2>2, CarryStep, Zenon
    <2>7. q \in 0 .. 1 /\ s \in 0 .. Byte - 1 /\ 2 * x = q * Byte + s
      BY <2>3, <2>4, <2>5, <2>6
    <2> HIDE DEF q, s
    <2>8. PICK half \in Nat \ {0} : Byte = 2 * half
      BY ByteEven
    <2>9. s # Byte - 1
      <3> SUFFICES ASSUME s = 2 * half - 1 PROVE FALSE
        BY <2>8
      <3>1. CASE q = 0
        BY <2>1, <2>7, <3>1, <1>b
      <3>2. CASE q = 1
        BY <2>1, <2>7, <2>8, <3>2, <1>b
      <3> QED BY <2>7, <3>1, <3>2
    <2>10. s \in 0 .. Byte - 2
      BY <2>7, <2>9, <1>b
    <2> QED BY <2>1, <2>7, <2>10 DEF x, q, s
  <1>2. ASSUME NEW i \in 1 .. Bytes PROVE r[i] = rest(i) + C[i + 1]
    <2>a. Shl1(a)[i] = rest(i) + (IF i < Bytes THEN top(i + 1) ELSE 0)
      BY DEF Shl1
    <2>b. \A j \in 1 .. Bytes : rest(j) \in Int /\ top(j) \in Int
      BY <1>1, <1>b
    <2>1. CASE i < Bytes
      <3>1. C[i + 1] = top(i + 1) /\ r[i] = Shl1(a)[i]
        BY <1>b, <2>1 DEF Shl1
      <3> QED BY <2>a, <2>1, <3>1
    <2>2. CASE i = Bytes
      <3>1. C[i + 1] = bit
        BY <1>b, <2>2
      <3>2. r[i] = Shl1(a)[i] + bit
        BY <1>b, <2>2 DEF Shl1
      <3>3. Shl1(a)[i] = rest(i) + 0
        BY <2>a, <2>2, <1>b
      <3> QED BY <2>b, <3>1, <3>2, <3>3
    <2> QED BY <1>b, <2>1, <2>2
  <1>3. \A i \in 1 .. Bytes + 1 : C[i] \in 0 .. 1
    <2> HIDE DEF top
    <2> QED BY <1>1, <1>b
  <1>4. DOMAIN r = 1 .. Bytes /\ r = [i \in 1 .. Bytes |-> r[i]]
    BY DEF Shl1
  <1> HIDE DEF C
  <1>5. ASSUME NEW i \in 1 .. Bytes PROVE r[i] \in 0 .. Byte - 1
    <2>1. C[i + 1] \in 0 .. 1
      BY <1>3, <1>b
    <2>2. rest(i) \in 0 .. Byte - 2 /\ r[i] = rest(i) + C[i + 1]
      BY <1>1, <1>2
    <2> HIDE DEF rest
    <2> QED BY <2>1, <2>2, <1>b
  <1>6. r \in Number
    BY <1>4, <1>5 DEF Number
  <1> DEFINE U == [i \in 0 .. Bytes |-> 2 * Leading(a)[i]]
             D == [i \in 1 .. Bytes |-> 2 * a[i]]
  <1>7. U \in [0 .. Bytes -> Int]
    <2>1. \A i \in 0 .. Bytes : Leading(a)[i] \in Int
      BY LeadingRange, ByteFacts
    <2> QED BY <2>1
  <1>8. D \in [1 .. Bytes -> Int]
    <2>1. \A i \in 1 .. Bytes : a[i] \in Int
      BY <1>1, <1>b
    <2> QED BY <2>1
  <1>9. C \in [1 .. Bytes + 1 -> Int]
    BY <1>3 DEF C
  <1>10. U[0] = 0
    BY LeadingFacts, <1>b
  <1>11. ASSUME NEW i \in 1 .. Bytes PROVE U[i] = U[i - 1] * Byte + D[i]
    <2> DEFINE x == Leading(a)[i - 1]
    <2>1. i - 1 \in 0 .. Bytes /\ i \in 0 .. Bytes
      BY <1>b
    <2>2. x \in Int
      BY <2>1, LeadingRange, ByteFacts
    <2>3. Leading(a)[i] = x * Byte + a[i]
      BY LeadingFacts
    <2>4. U[i] = 2 * (x * Byte + a[i]) /\ U[i - 1] = 2 * x /\ D[i] = 2 * a[i]
      BY <2>1, <2>3
    <2>5. a[i] \in Int
      BY <1>1, <1>b
    <2> HIDE DEF x, U, D
    <2>6. (2 * x) * Byte = 2 * (x * Byte) /\ x * Byte \in Int
      BY <2>2, <1>b
    <2> QED BY <2>4, <2>5, <2>6
  <1>12. \A i \in 1 .. Bytes : D[i] + C[i + 1] = C[i] * Byte + r[i]
    <2> SUFFICES ASSUME NEW i \in 1 .. Bytes PROVE D[i] + C[i + 1] = C[i] * Byte + r[i]
      OBVIOUS
    <2> DEFINE t == top(i)
               s == rest(i)
               e == C[i + 1]
    <2>1. C[i] = t /\ D[i] = 2 * a[i]
      BY <1>b DEF C
    <2>2. e \in 0 .. 1
      BY <1>3, <1>b
    <2>3. t \in 0 .. 1 /\ s \in 0 .. Byte - 2 /\ 2 * a[i] = t * Byte + s /\ r[i] = s + e
      BY <1>1, <1>2
    <2> HIDE DEF t, s, e, D
    <2>4. t * Byte \in Int
      BY <2>3, <1>b
    <2>5. (t * Byte + s) + e = t * Byte + (s + e)
      BY <2>2, <2>3, <2>4, <1>b
    <2> QED BY <2>1, <2>3, <2>5 DEF e
  <1>13. C[Bytes + 1] = bit /\ C[1] \in 0 .. 1
    BY <1>3, <1>b DEF C
  <1>14. U[Bytes] = 2 * ValueOf(a)
    BY <1>b DEF ValueOf
  <1> HIDE DEF U, D
  <1>15. U[Bytes] + C[Bytes + 1] = C[1] * ByteTo[Bytes] + ValueOf(r)
    BY <1>6, <1>7, <1>8, <1>9, <1>10, <1>11, <1>12, CarryChain
  <1> DEFINE M == ByteTo[Bytes]
             x == ValueOf(a)
             v == ValueOf(r)
             o == C[1]
  <1>16. M \in Nat /\ v \in 0 .. M - 1 /\ x \in Int
    BY <1>6, ValueRange, ByteFacts
  <1>17. 2 * x + bit = o * M + v /\ o \in 0 .. 1 /\ 2 * x + bit < M
    BY <1>13, <1>14, <1>15
  <1> HIDE DEF M, x, v, o
  <1>18. CASE o = 0
    BY <1>6, <1>16, <1>17, <1>18 DEF x, v
  <1>19. CASE o = 1
    BY <1>16, <1>17, <1>19
  <1> QED BY <1>17, <1>18, <1>19

-----------------------------------------------------------------------------
(* Long division. *)

\* The recursion of LongDivision has a solution.
LEMMA DivisionDefined ==
  ASSUME NEW num, NEW den
  PROVE  LET s == LongDivision(num, den)
         IN  /\ s[0] = [q |-> Zero, r |-> Zero]
             /\ \A k \in 0 .. Bytes * ByteBits - 1 :
                  s[k + 1] = BringDown(num, den, s[k], k)
  <1> DEFINE N == Bytes * ByteBits
             start == [q |-> Zero, r |-> Zero]
             Level(prev, k) == BringDown(num, den, prev, k)
             Solves(g, m) == \A k \in 0 .. m : g[k] = IF k = 0 THEN start ELSE Level(g[k - 1], k - 1)
             T == {m \in Nat : \E g : Solves(g, m)}
  <1> HIDE DEF Level, start
  <1>a. N \in Nat
    BY ByteFacts, TwoToFacts
  <1> HIDE DEF N
  <1>1. 0 \in T
    <2> DEFINE g == [k \in 0 .. 0 |-> start]
    <2>1. Solves(g, 0)
      OBVIOUS
    <2> QED BY <2>1
  <1>2. ASSUME NEW m \in T PROVE m + 1 \in T
    <2>1. PICK g : Solves(g, m)
      OBVIOUS
    <2> DEFINE h == [k \in 0 .. m + 1 |-> IF k = m + 1 THEN Level(g[m], m) ELSE g[k]]
    <2>2. Solves(h, m + 1)
      <3> SUFFICES ASSUME NEW k \in 0 .. m + 1
                   PROVE  h[k] = IF k = 0 THEN start ELSE Level(h[k - 1], k - 1)
        OBVIOUS
      <3>1. CASE k = m + 1
        <4>1. k # 0 /\ k - 1 = m /\ h[m] = g[m] /\ h[m + 1] = Level(g[m], m)
          BY <3>1
        <4> QED BY <3>1, <4>1
      <3>2. CASE k # m + 1
        <4>1. k \in 0 .. m /\ h[k] = g[k] /\ (k # 0 => h[k - 1] = g[k - 1])
          BY <3>2
        <4> QED BY <2>1, <4>1
      <3> QED BY <3>1, <3>2
    <2>3. m + 1 \in Nat
      OBVIOUS
    <2> QED BY <2>2, <2>3
  <1>3. N \in T
    <2> HIDE DEF T
    <2>1. T \in SUBSET Nat
      BY DEF T
    <2> QED BY <1>1, <1>2, <2>1, <1>a, AllNumbers
  <1>4. PICK g : Solves(g, N)
    BY <1>3
  <1> DEFINE h == [k \in 0 .. N |-> g[k]]
  <1>5. h = [k \in 0 .. N |-> IF k = 0 THEN start ELSE Level(h[k - 1], k - 1)]
    BY <1>4, <1>a
  <1> HIDE DEF h
  <1>6. \E f : f = [k \in 0 .. N |-> IF k = 0 THEN start ELSE Level(f[k - 1], k - 1)]
    BY <1>5
  <1> DEFINE s == LongDivision(num, den)
  <1>7. s = [k \in 0 .. N |-> IF k = 0 THEN start ELSE Level(s[k - 1], k - 1)]
    BY <1>6 DEF LongDivision, Level, start, N
  <1> HIDE DEF s
  <1>8. s[0] = start
    BY <1>7, <1>a
  <1>9. ASSUME NEW k \in 0 .. N - 1 PROVE s[k + 1] = Level(s[k], k)
    <2>1. k + 1 \in 0 .. N /\ k + 1 # 0 /\ (k + 1) - 1 = k
      BY <1>a
    <2> QED BY <1>7, <2>1
  <1> QED BY <1>8, <1>9 DEF s, N, Level, start

\* What long division knows between two bytes: the bytes brought down so far
\* are the quotient so far times the divisor and the remainder.
AtByte(num, den, s, i) ==
    /\ s.q \in Number /\ s.r \in Number
    /\ ValueOf(s.r) < ValueOf(den)
    /\ \A m \in i + 1 .. Bytes : s.q[m] = 0
    /\ Leading(num)[i] = Leading(s.q)[i] * ValueOf(den) + ValueOf(s.r)

\* The same between two bits: of byte i + 1, j bits are brought down, and y is
\* what they gave of the quotient's byte.
AtBit(num, den, s, i, j, y) ==
    /\ s.q \in Number /\ s.r \in Number
    /\ ValueOf(s.r) < ValueOf(den)
    /\ \A m \in i + 2 .. Bytes : s.q[m] = 0
    /\ y \in 0 .. TwoTo[j] - 1
    /\ s.q[i + 1] = y * TwoTo[ByteBits - j]
    /\ Leading(num)[i] * TwoTo[j] + (num[i + 1] \div TwoTo[ByteBits - j])
         = (Leading(s.q)[i] * TwoTo[j] + y) * ValueOf(den) + ValueOf(s.r)

LEMMA ByteStarts ==
  ASSUME NEW num \in Number, NEW den \in Number, NEW s, NEW i \in 0 .. Bytes - 1,
         AtByte(num, den, s, i)
  PROVE  AtBit(num, den, s, i, 0, 0)
  <1>1. i + 1 \in 1 .. Bytes /\ i \in 0 .. Bytes
    BY ByteFacts
  <1>2. TwoTo[0] = 1 /\ TwoTo[ByteBits - 0] = Byte /\ Byte \in Nat \ {0}
    BY TwoToFacts, ByteFacts
  <1>3. num[i + 1] \in 0 .. Byte - 1
    BY <1>1 DEF Number
  <1>4. num[i + 1] \div Byte = 0
    <2> DEFINE x == num[i + 1]
    <2>1. x \in 0 .. Byte - 1
      BY <1>3
    <2> HIDE DEF x
    <2>2. x \in Int /\ x = 0 * Byte + x /\ 0 \in Int
      BY <1>2, <2>1
    <2>3. x \div Byte = 0
      BY <1>2, <2>1, <2>2, Quotient
    <2> QED BY <2>3 DEF x
  <1>5. s.q[i + 1] = 0 /\ \A m \in i + 2 .. Bytes : s.q[m] = 0
    <2>1. \A m \in i + 1 .. Bytes : s.q[m] = 0
      BY DEF AtByte
    <2>2. i + 1 \in i + 1 .. Bytes
      BY <1>1, ByteFacts
    <2>3. \A m \in i + 2 .. Bytes : m \in i + 1 .. Bytes
      BY ByteFacts
    <2> QED BY <2>1, <2>2, <2>3
  <1>6. s.q \in Number /\ s.r \in Number
    BY DEF AtByte
  <1> DEFINE x == Leading(num)[i]
             z == Leading(s.q)[i]
             d == ValueOf(den)
             v == ValueOf(s.r)
  <1>7. x \in Int /\ z \in Int /\ d \in Int /\ v \in Int
    BY <1>1, <1>6, LeadingRange, ValueRange, ByteFacts
  <1>8. x = z * d + v /\ v < d
    BY DEF AtByte
  <1> HIDE DEF x, z, d, v
  <1>9. x * 1 + 0 = (z * 1 + 0) * d + v
    BY <1>7, <1>8
  <1>10. 0 \in 0 .. 1 - 1 /\ 0 = 0 * Byte
    BY <1>2
  <1> QED BY <1>2, <1>4, <1>5, <1>6, <1>8, <1>9, <1>10 DEF AtBit, x, z, d, v

LEMMA ByteEnds ==
  ASSUME NEW num \in Number, NEW den \in Number, NEW s, NEW i \in 0 .. Bytes - 1, NEW y,
         AtBit(num, den, s, i, ByteBits, y)
  PROVE  AtByte(num, den, s, i + 1)
  <1>1. i + 1 \in 1 .. Bytes /\ i \in 0 .. Bytes /\ (i + 1) - 1 = i /\ (i + 1) + 1 = i + 2
    BY ByteFacts
  <1>2. TwoTo[ByteBits] = Byte /\ TwoTo[ByteBits - ByteBits] = 1 /\ Byte \in Nat \ {0}
    BY TwoToFacts, ByteFacts
  <1>3. num[i + 1] \in Int
    BY <1>1, ByteFacts DEF Number
  <1>4. num[i + 1] \div 1 = num[i + 1]
    <2> DEFINE x == num[i + 1]
    <2>1. x \in Int
      BY <1>3
    <2> HIDE DEF x
    <2>2. 0 \in 0 .. 1 - 1 /\ x = x * 1 + 0 /\ 1 \in Nat \ {0}
      BY <2>1
    <2>3. x \div 1 = x
      BY <2>1, <2>2, Quotient
    <2> QED BY <2>3 DEF x
  <1>5. s.q \in Number /\ s.r \in Number /\ \A m \in i + 2 .. Bytes : s.q[m] = 0
    BY DEF AtBit
  <1>6. y \in Int /\ s.q[i + 1] = y * 1
    BY <1>2 DEF AtBit
  <1>7. s.q[i + 1] = y
    BY <1>6
  <1>8. Leading(num)[i + 1] = Leading(num)[i] * Byte + num[i + 1]
    BY <1>1, LeadingFacts
  <1>9. Leading(s.q)[i + 1] = Leading(s.q)[i] * Byte + y
    BY <1>1, <1>7, LeadingFacts
  <1>10. /\ Leading(num)[i] * Byte + num[i + 1]
               = (Leading(s.q)[i] * Byte + y) * ValueOf(den) + ValueOf(s.r)
         /\ ValueOf(s.r) < ValueOf(den)
    BY <1>2, <1>4 DEF AtBit
  <1>11. Leading(num)[i + 1] = Leading(s.q)[i + 1] * ValueOf(den) + ValueOf(s.r)
    BY <1>8, <1>9, <1>10
  <1>12. \A m \in (i + 1) + 1 .. Bytes : s.q[m] = 0
    BY <1>1, <1>5
  <1> QED BY <1>5, <1>10, <1>11, <1>12 DEF AtByte

\* Bringing down one bit keeps what is known, shifted by the bit.
LEMMA BitStep ==
  ASSUME NEW num \in Number, NEW den \in Number, NEW s, NEW i \in 0 .. Bytes - 1,
         NEW j \in 0 .. ByteBits - 1, NEW y, AtBit(num, den, s, i, j, y)
  PROVE  \E w : AtBit(num, den, BringDown(num, den, s, i * ByteBits + j), i, j + 1, w)
  <1> DEFINE k == i * ByteBits + j
             h == TwoTo[ByteBits - 1 - j]
             e == TwoTo[j]
             x == num[i + 1]
             bit == (x \div h) % 2
             M == ByteTo[Bytes]
             L == Leading(num)[i]
             z == Leading(s.q)[i]
             d == ValueOf(den)
             v == ValueOf(s.r)
             r == [Shl1(s.r) EXCEPT ![Bytes] = @ + bit]
  <1>1. k \div ByteBits = i /\ k % ByteBits = j
    <2>1. ByteBits \in Nat \ {0} /\ i \in Int /\ j \in 0 .. ByteBits - 1
      BY TwoToFacts, ByteFacts
    <2>2. k \in Int /\ k = i * ByteBits + j
      BY <2>1
    <2> HIDE DEF k
    <2> QED BY <2>1, <2>2, Quotient
  <1>2. BitOf(num, k) = bit
    BY <1>1 DEF BitOf
  <1>3. /\ i + 1 \in 1 .. Bytes /\ i \in 0 .. Bytes /\ (i + 1) - 1 = i
        /\ j + 1 \in 1 .. ByteBits /\ (j + 1) - 1 = j /\ j \in 0 .. ByteBits
        /\ ByteBits - j \in 1 .. ByteBits /\ (ByteBits - j) - 1 = ByteBits - 1 - j
        /\ ByteBits - (j + 1) = ByteBits - 1 - j /\ ByteBits - 1 - j \in 0 .. ByteBits
        /\ j + 1 \in 0 .. ByteBits
    BY ByteFacts, TwoToFacts
  <1>4. TwoTo[ByteBits - j] = 2 * h /\ TwoTo[j + 1] = 2 * e /\ TwoTo[ByteBits - (j + 1)] = h
    <2>1. TwoTo[ByteBits - j] = 2 * TwoTo[(ByteBits - j) - 1]
      BY <1>3, TwoToFacts
    <2>2. TwoTo[j + 1] = 2 * TwoTo[(j + 1) - 1]
      BY <1>3, TwoToFacts
    <2> QED BY <1>3, <2>1, <2>2
  <1>5. h \in Nat \ {0} /\ e \in Nat \ {0}
    BY <1>3, TwoToFacts
  <1>6. (2 * e) * h = Byte
    <2>1. TwoTo[j + 1] * TwoTo[ByteBits - (j + 1)] = Byte
      BY <1>3, TwoToSplits
    <2> QED BY <1>4, <2>1
  <1>7. x \in 0 .. Byte - 1
    BY <1>3 DEF Number
  <1>8. s.q \in Number /\ s.r \in Number /\ v < d /\ y \in 0 .. e - 1
    BY DEF AtBit
  <1>9. s.q[i + 1] = y * (2 * h)
    BY <1>4 DEF AtBit
  <1>10. L * e + (x \div (2 * h)) = (z * e + y) * d + v
    BY <1>4 DEF AtBit
  <1>11. \A m \in i + 2 .. Bytes : s.q[m] = 0
    BY DEF AtBit
  <1>12. L \in Nat /\ z \in Nat /\ d \in Nat /\ v \in Nat /\ M \in Nat
    BY <1>3, <1>8, LeadingRange, ValueRange, ByteFacts
  <1>13. Leading(num)[i + 1] = L * Byte + x
    BY <1>3, LeadingFacts
  <1>14. L * Byte + x < M
    <2> DEFINE p == ByteTo[i + 1]
               t == Leading(num)[i + 1]
    <2>1. i + 1 \in 0 .. Bytes /\ Bytes \in 0 .. Bytes /\ i + 1 <= Bytes
      BY <1>3, ByteFacts
    <2>2. p \in Nat /\ p <= M
      BY <2>1, ByteToGrows, ByteFacts
    <2>3. t \in 0 .. p - 1
      BY <2>1, LeadingRange
    <2>4. t < M
      <3> HIDE DEF p, t, M
      <3> QED BY <2>2, <2>3, <1>12
    <2> QED BY <1>13, <2>4
  <1> HIDE DEF L, z, d, v, M, e, h, x
  <1> DEFINE f == x \div (2 * h)
             g == x \div h
  <1>15. g = 2 * f + bit /\ bit \in 0 .. 1
    <2>1. x \in Nat
      BY <1>7, ByteFacts
    <2> QED BY <1>5, <2>1, NextBit
  <1>16. g \in Nat /\ g <= x /\ f \in Nat
    <2>1. x \in Nat /\ 2 * h \in Nat \ {0}
      BY <1>5, <1>7, ByteFacts
    <2> QED BY <1>5, <2>1, QuotientSmall
  <1> HIDE DEF f, g, bit
  <1>17. L * (2 * e) + g < M
    <2>1. 2 * e <= Byte
      <3>1. (2 * e) * (h - 1) >= 0 /\ (2 * e) * (h - 1) = (2 * e) * h - 2 * e
        BY <1>5
      <3> QED BY <1>5, <1>6, <3>1, ByteFacts
    <2>2. L * (Byte - 2 * e) >= 0 /\ L * (Byte - 2 * e) = L * Byte - L * (2 * e)
      BY <1>5, <1>12, <2>1, ByteFacts
    <2>3. L * Byte \in Int /\ L * (2 * e) \in Int /\ x \in Int
      BY <1>5, <1>7, <1>12, ByteFacts
    <2> QED BY <1>12, <1>14, <1>16, <2>2, <2>3
  <1> DEFINE Q == z * e + y
  <1>18. Q \in Nat /\ L * e + f = Q * d + v
    <2>1. z * e \in Nat /\ y \in Nat
      BY <1>5, <1>8, <1>12
    <2>2. Q \in Nat
      BY <2>1
    <2> QED BY <2>2, <1>10 DEF f
  <1>19. z * (2 * e) + 2 * y = 2 * Q
    BY <1>5, <1>8, <1>12
  <1> HIDE DEF Q
  <1>20. L * (2 * e) + g = (2 * Q) * d + (2 * v + bit)
    <2>1. L * (2 * e) = 2 * (L * e) /\ (2 * Q) * d = 2 * (Q * d)
      BY <1>5, <1>12, <1>18
    <2>2. L * e \in Int /\ Q * d \in Int
      BY <1>5, <1>12, <1>18
    <2> DEFINE Le == L * e
               Qd == Q * d
    <2>3. Le \in Int /\ Qd \in Int /\ Le + f = Qd + v
      BY <1>18, <2>2
    <2> HIDE DEF Le, Qd
    <2>4. 2 * Le + (2 * f + bit) = 2 * Qd + (2 * v + bit)
      BY <1>12, <1>15, <1>16, <2>3
    <2> QED BY <1>15, <2>1, <2>4 DEF Le, Qd
  <1>21. 2 * v + bit < M
    <2>1. (2 * Q) * d >= 0 /\ (2 * Q) * d \in Int
      BY <1>12, <1>18
    <2> QED BY <1>12, <1>15, <1>17, <1>20, <2>1
  <1>22. r \in Number /\ ValueOf(r) = 2 * v + bit
    <2> HIDE DEF r
    <2>1. r = [Shl1(s.r) EXCEPT ![Bytes] = @ + bit]
      BY DEF r
    <2>2. 2 * ValueOf(s.r) + bit < ByteTo[Bytes]
      BY <1>21 DEF v, M
    <2> QED BY <1>8, <1>15, <2>1, <2>2, ShiftExact DEF v
  <1> DEFINE new == BringDown(num, den, s, k)
             up == [s.q EXCEPT ![i + 1] = @ + h]
  <1>23. new = IF Ge(r, den) THEN [q |-> up, r |-> Sub(r, den)] ELSE [q |-> s.q, r |-> r]
    BY <1>1, <1>2 DEF BringDown, h
  <1> HIDE DEF r, new, k
  <1>24. Ge(r, den) <=> 2 * v + bit >= d
    BY <1>22, ComparisonExact DEF d
  <1>25. CASE Ge(r, den)
    <2> DEFINE w == 2 * y + 1
               rr == Sub(r, den)
    <2>1. new.q = up /\ new.r = rr
      BY <1>23, <1>25
    <2>2. rr \in Number /\ ValueOf(rr) = 2 * v + bit - d
      <3>1. ValueOf(r) >= ValueOf(den)
        BY <1>22, <1>24, <1>25 DEF d
      <3>2. rr \in Number /\ ValueOf(rr) = ValueOf(r) - ValueOf(den)
        BY <1>22, <3>1, SubExact
      <3>3. ValueOf(r) - ValueOf(den) = 2 * v + bit - d
        <4>1. (2 * v + bit) - d = 2 * v + bit - d
          BY <1>12, <1>15
        <4> QED BY <1>22, <4>1 DEF d
      <3> HIDE DEF rr
      <3> QED BY <3>2, <3>3
    <2>3. ValueOf(rr) < d
      BY <1>8, <1>12, <1>15, <2>2
    <2>4. w \in 0 .. 2 * e - 1
      BY <1>5, <1>8
    <2>5. up[i + 1] = w * h
      <3>1. up[i + 1] = y * (2 * h) + h
        BY <1>3, <1>8, <1>9 DEF Number
      <3>2. y \in Int /\ h \in Int
        BY <1>5, <1>8
      <3>3. y * (2 * h) + h = (2 * y + 1) * h
        BY <3>2
      <3> QED BY <3>1, <3>3
    <2>6. w * h \in 0 .. Byte - 1
      <3>1. w * h \in Nat
        BY <1>5, <2>4
      <3>2. (2 * e - 1 - w) * h >= 0 /\ (2 * e - 1 - w) * h = (2 * e) * h - h - w * h
        BY <1>5, <2>4
      <3> QED BY <1>5, <1>6, <3>1, <3>2, ByteFacts
    <2>7. up \in Number
      <3>1. \A m \in 1 .. Bytes : up[m] \in 0 .. Byte - 1
        <4> SUFFICES ASSUME NEW m \in 1 .. Bytes PROVE up[m] \in 0 .. Byte - 1
          OBVIOUS
        <4>1. CASE m = i + 1
          BY <2>5, <2>6, <4>1
        <4>2. CASE m # i + 1
          <5>1. up[m] = s.q[m]
            BY <1>8, <4>2 DEF Number
          <5> QED BY <1>8, <5>1 DEF Number
        <4> QED BY <4>1, <4>2
      <3>2. up = [m \in 1 .. Bytes |-> up[m]]
        BY <1>8 DEF Number
      <3> HIDE DEF up
      <3> QED BY <3>1, <3>2 DEF Number
    <2>8. \A m \in i + 2 .. Bytes : up[m] = 0
      <3> SUFFICES ASSUME NEW m \in i + 2 .. Bytes PROVE up[m] = 0
        OBVIOUS
      <3>1. m # i + 1 /\ m \in 1 .. Bytes
        BY ByteFacts
      <3>2. up[m] = s.q[m]
        BY <1>8, <3>1 DEF Number
      <3> QED BY <1>11, <3>2
    <2>9. Leading(up)[i] = z
      <3>1. \A m \in 1 .. i : up[m] = s.q[m]
        <4> SUFFICES ASSUME NEW m \in 1 .. i PROVE up[m] = s.q[m]
          OBVIOUS
        <4>1. m # i + 1 /\ m \in 1 .. Bytes
          BY ByteFacts
        <4> QED BY <1>8, <4>1 DEF Number
      <3>2. i \in 0 .. i
        BY <1>3
      <3> HIDE DEF up
      <3> QED BY <1>3, <3>1, <3>2, LeadingSame DEF z
    <2>10. L * (2 * e) + g = (z * (2 * e) + w) * d + ValueOf(rr)
      <3>1. z * (2 * e) + w = 2 * Q + 1
        <4>1. z * (2 * e) \in Int /\ y \in Int
          BY <1>5, <1>8, <1>12
        <4> DEFINE a == z * (2 * e)
        <4>2. a \in Int /\ a + 2 * y = 2 * Q
          BY <1>19, <4>1
        <4> HIDE DEF a
        <4>3. a + (2 * y + 1) = 2 * Q + 1
          BY <1>18, <4>1, <4>2
        <4> QED BY <4>3 DEF a
      <3>2. (2 * Q + 1) * d = (2 * Q) * d + d /\ (2 * Q) * d \in Int
        BY <1>12, <1>18
      <3>3. (2 * Q + 1) * d + (2 * v + bit - d) = (2 * Q) * d + (2 * v + bit)
        BY <3>2, <1>12, <1>15
      <3> QED BY <1>20, <2>2, <3>1, <3>3
    <2> HIDE DEF up, rr, w
    <2>11. AtBit(num, den, new, i, j + 1, w)
      BY <1>4, <2>1, <2>2, <2>3, <2>4, <2>5, <2>7, <2>8, <2>9, <2>10 DEF AtBit, L, d, g, x
    <2> QED BY <2>11 DEF new, k
  <1>26. CASE ~Ge(r, den)
    <2> DEFINE w == 2 * y
    <2>1. new.q = s.q /\ new.r = r
      BY <1>23, <1>26
    <2>2. ValueOf(r) < d
      BY <1>12, <1>15, <1>22, <1>24, <1>26
    <2>3. w \in 0 .. 2 * e - 1
      BY <1>5, <1>8
    <2>4. s.q[i + 1] = w * h
      <3>1. y \in Int /\ h \in Int
        BY <1>5, <1>8
      <3>2. y * (2 * h) = (2 * y) * h
        BY <3>1
      <3> QED BY <1>9, <3>2
    <2>5. L * (2 * e) + g = (z * (2 * e) + w) * d + ValueOf(r)
      BY <1>19, <1>20, <1>22
    <2> HIDE DEF w
    <2>6. AtBit(num, den, new, i, j + 1, w)
      BY <1>4, <1>8, <1>11, <1>22, <2>1, <2>2, <2>3, <2>4, <2>5 DEF AtBit, L, d, g, x, z
    <2> QED BY <2>6 DEF new, k
  <1> QED BY <1>25, <1>26

\* u256_divmod divides.
LEMMA DivisionExact ==
  ASSUME NEW num \in Number, NEW den \in Number, ValueOf(den) > 0
  PROVE  /\ DivMod(num, den).q \in Number
         /\ ValueOf(DivMod(num, den).q) = ValueOf(num) \div ValueOf(den)
         /\ ValueOf(DivMod(num, den).r) = ValueOf(num) % ValueOf(den)
  <1> DEFINE s == LongDivision(num, den)
  <1>1. /\ s[0] = [q |-> Zero, r |-> Zero]
        /\ \A k \in 0 .. Bytes * ByteBits - 1 : s[k + 1] = BringDown(num, den, s[k], k)
    BY DivisionDefined
  <1>a. Bytes \in Nat /\ ByteBits \in Nat \ {0}
    BY ByteFacts, TwoToFacts
  <1> HIDE DEF s
  <1> DEFINE T == {i \in Nat : i <= Bytes => AtByte(num, den, s[i * ByteBits], i)}
  <1>2. 0 \in T
    <2>1. 0 * ByteBits = 0
      BY <1>a
    <2>2. s[0].q = Zero /\ s[0].r = Zero
      BY <1>1
    <2>3. ValueOf(Zero) = 0 /\ Leading(Zero)[0] = 0 /\ Zero \in Number
      BY <1>a, ZeroFacts DEF ValueOf
    <2>4. \A m \in 0 + 1 .. Bytes : Zero[m] = 0
      BY DEF Zero
    <2>5. Leading(num)[0] = 0 * ValueOf(den) + 0
      <3>1. ValueOf(den) \in Int
        BY ValueRange, ByteFacts
      <3> QED BY <3>1, LeadingFacts
    <2>6. AtByte(num, den, s[0], 0)
      BY <2>2, <2>3, <2>4, <2>5 DEF AtByte
    <2> QED BY <2>1, <2>6
  <1>3. ASSUME NEW i \in T PROVE i + 1 \in T
    <2> SUFFICES ASSUME i + 1 <= Bytes PROVE AtByte(num, den, s[(i + 1) * ByteBits], i + 1)
      OBVIOUS
    <2> DEFINE k == i * ByteBits
               R == {j \in Nat : j <= ByteBits => \E y : AtBit(num, den, s[k + j], i, j, y)}
    <2>1. i \in 0 .. Bytes - 1 /\ AtByte(num, den, s[k], i)
      BY <1>a
    <2>2. k \in Nat /\ (i + 1) * ByteBits = k + ByteBits /\ k + ByteBits <= Bytes * ByteBits
      <3>1. k \in Nat /\ (i + 1) * ByteBits = k + ByteBits
        BY <1>a
      <3>2. (Bytes - 1 - i) * ByteBits >= 0
        BY <1>a
      <3>3. (Bytes - 1 - i) * ByteBits = Bytes * ByteBits - ByteBits - k
        BY <1>a
      <3>4. Bytes * ByteBits \in Int
        BY <1>a
      <3> QED BY <1>a, <3>1, <3>2, <3>3, <3>4
    <2> HIDE DEF k
    <2>3. 0 \in R
      <3>1. k + 0 = k
        BY <2>2
      <3>2. AtBit(num, den, s[k], i, 0, 0)
        BY <2>1, ByteStarts
      <3> QED BY <3>1, <3>2
    <2>4. ASSUME NEW j \in R PROVE j + 1 \in R
      <3> SUFFICES ASSUME j + 1 <= ByteBits
                   PROVE  \E y : AtBit(num, den, s[k + (j + 1)], i, j + 1, y)
        OBVIOUS
      <3>1. PICK y : AtBit(num, den, s[k + j], i, j, y)
        BY <1>a
      <3>2. j \in 0 .. ByteBits - 1 /\ k + (j + 1) = (k + j) + 1
        BY <1>a, <2>2
      <3>3. k + j \in 0 .. Bytes * ByteBits - 1
        <4>1. Bytes * ByteBits \in Int
          BY <1>a
        <4> QED BY <1>a, <2>2, <3>2, <4>1
      <3>4. s[k + (j + 1)] = BringDown(num, den, s[k + j], k + j)
        BY <1>1, <3>2, <3>3
      <3>5. \E w : AtBit(num, den, BringDown(num, den, s[k + j], i * ByteBits + j), i, j + 1, w)
        BY <2>1, <3>1, <3>2, BitStep
      <3> QED BY <3>4, <3>5 DEF k
    <2>5. R = Nat
      <3> HIDE DEF R
      <3>1. R \in SUBSET Nat
        BY DEF R
      <3> QED BY <2>3, <2>4, <3>1, AllNumbers
    <2>6. PICK y : AtBit(num, den, s[k + ByteBits], i, ByteBits, y)
      BY <1>a, <2>5
    <2> QED BY <2>1, <2>2, <2>6, ByteEnds
  <1>4. T = Nat
    <2> HIDE DEF T
    <2>1. T \in SUBSET Nat
      BY DEF T
    <2> QED BY <1>2, <1>3, <2>1, AllNumbers
  <1>5. AtByte(num, den, s[Bytes * ByteBits], Bytes)
    <2>1. Bytes \in T
      <3> HIDE DEF T
      <3> QED BY <1>4, <1>a
    <2>2. Bytes <= Bytes
      BY <1>a
    <2> QED BY <2>1, <2>2
  <1> DEFINE f == DivMod(num, den)
             x == ValueOf(num)
             d == ValueOf(den)
             q == ValueOf(f.q)
             r == ValueOf(f.r)
  <1>6. f.q \in Number /\ f.r \in Number /\ x = q * d + r /\ r < d
    BY <1>5 DEF AtByte, DivMod, ValueOf, s
  <1>7. x \in Int /\ q \in Int /\ d \in Nat /\ r \in Nat
    BY <1>6, ValueRange, ByteFacts
  <1> HIDE DEF x, d, q, r
  <1>8. d \in Nat \ {0} /\ r \in 0 .. d - 1
    BY <1>6, <1>7
  <1>9. x \div d = q /\ x % d = r
    BY <1>6, <1>7, <1>8, Quotient
  <1> QED BY <1>6, <1>9 DEF x, d, q, r

-----------------------------------------------------------------------------
(* block_work. *)

\* The number of a unit array.
LEMMA OneValue ==
  LET one == [Zero EXCEPT ![Bytes] = 1] IN one \in Number /\ ValueOf(one) = 1
  <1> DEFINE one == [Zero EXCEPT ![Bytes] = 1]
  <1>1. Bytes \in 1 .. Bytes /\ Bytes - 1 \in 0 .. Bytes /\ Bytes - 1 \in 0 .. Bytes - 1
    BY ByteFacts
  <1>2. one[Bytes] = 1 /\ \A i \in 1 .. Bytes - 1 : one[i] = Zero[i]
    BY <1>1, ByteFacts DEF Zero
  <1>3. one \in Number
    BY ByteFacts DEF Zero, Number
  <1> HIDE DEF one
  <1>4. Leading(one)[Bytes - 1] = Leading(Zero)[Bytes - 1]
    BY <1>1, <1>2, LeadingSame
  <1>5. Leading(Zero)[Bytes - 1] = 0
    BY <1>1, ZeroFacts
  <1>6. Leading(one)[Bytes] = 0 * Byte + 1
    BY <1>1, <1>2, <1>4, <1>5, LeadingFacts
  <1>7. ValueOf(one) = 1
    BY <1>6, ByteFacts DEF ValueOf
  <1> QED BY <1>3, <1>7 DEF one

\* (~t) / (t + 1) + 1 is 2^256 / (t + 1), for a dividend that does not fit.
LEMMA WorkExactLemma ==
  ASSUME NEW t \in Number
  PROVE  WorkExactFor(t)
  <1> DEFINE M == ByteTo[Bytes]
             v == ValueOf(t)
             d == v + 1
  <1>1. M \in Nat /\ v \in 0 .. M - 1
    BY ValueRange, ByteFacts
  <1>2. M >= 2
    <2>1. 1 \in 0 .. Bytes /\ Bytes \in 0 .. Bytes /\ 1 <= Bytes
      BY ByteFacts
    <2>2. ByteTo[1] <= M
      BY <2>1, ByteToGrows
    <2> QED BY <1>1, <2>2, ByteToSmall, ByteFacts
  <1>3. CASE AddOne(t).overflow
    <2>1. ValueOf(BlockWork(t)) = 1
      BY <1>3, OneValue DEF BlockWork
    <2>2. d = M
      BY <1>3, AddOneValue
    <2> HIDE DEF M, d
    <2>3. M \in Nat \ {0} /\ M \in Int /\ 0 \in 0 .. M - 1 /\ M = 1 * M + 0 /\ 1 \in Int
      BY <1>1, <1>2
    <2>4. M \div M = 1
      BY <2>3, Quotient
    <2>5. 1 \in 0 .. M - 1 /\ 1 = 0 * M + 1 /\ 0 \in Int
      BY <1>1, <1>2
    <2>6. 1 % M = 1
      BY <2>3, <2>5, Quotient
    <2>7. (M \div d) % M = 1
      BY <2>2, <2>4, <2>6
    <2> QED BY <2>1, <2>7 DEF WorkExactFor, M, d
  <1>4. CASE ~AddOne(t).overflow
    <2> DEFINE den == AddOne(t).sum
               num == [i \in 1 .. Bytes |-> Byte - 1 - t[i]]
               n == DivMod(num, den).q
               work == AddOne(n).sum
    <2>1. den \in Number /\ ValueOf(den) = d
      BY <1>4, AddOneValue
    <2>2. num \in Number /\ ValueOf(num) = M - 1 - v
      BY ComplementValue
    <2>3. BlockWork(t) = work
      BY <1>4 DEF BlockWork
    <2> HIDE DEF den, num
    <2>4. n \in Number /\ ValueOf(n) = (M - 1 - v) \div d
      <3>1. ValueOf(den) > 0
        BY <1>1, <2>1
      <3> HIDE DEF M, v, d
      <3> QED BY <2>1, <2>2, <3>1, DivisionExact
    <2> HIDE DEF n
    <2> DEFINE Q == ValueOf(n)
               W == ValueOf(work)
               N == M - 1 - v
    <2>5. /\ work \in Number
          /\ AddOne(n).overflow => Q + 1 = M /\ W = 0
          /\ ~AddOne(n).overflow => W = Q + 1
      BY <2>4, AddOneValue
    <2>6. W \in 0 .. M - 1 /\ Q \in 0 .. M - 1
      BY <2>4, <2>5, ValueRange
    <2>7. Q = N \div d
      BY <2>4
    <2> HIDE DEF Q, W, work
    <2>8. d \in Nat \ {0} /\ N \in Int /\ M = N + d
      BY <1>1
    <2> HIDE DEF M, v, N, d
    <2> DEFINE r == N % d
    <2>9. r \in 0 .. d - 1 /\ N = Q * d + r
      BY <2>7, <2>8
    <2> HIDE DEF r
    <2>10. M = (Q + 1) * d + r
      <3>1. (Q + 1) * d = Q * d + d /\ Q * d \in Int
        BY <2>6, <2>8
      <3> QED BY <2>8, <2>9, <3>1
    <2>11. M \div d = Q + 1
      <3>1. Q + 1 \in Int /\ M \in Int
        BY <1>1, <2>6
      <3> QED BY <2>8, <2>9, <2>10, <3>1, Quotient
    <2>12. (Q + 1) % M = W
      <3>1. M \in Nat \ {0} /\ Q + 1 \in Int
        BY <1>1, <1>2, <2>6
      <3>2. CASE AddOne(n).overflow
        <4>1. Q + 1 = 1 * M + 0 /\ 1 \in Int /\ 0 \in 0 .. M - 1
          BY <2>5, <3>1, <3>2
        <4>2. (Q + 1) % M = 0
          BY <3>1, <4>1, Quotient
        <4> QED BY <2>5, <3>2, <4>2
      <3>3. CASE ~AddOne(n).overflow
        <4>1. Q + 1 = 0 * M + W /\ 0 \in Int
          BY <2>5, <2>6, <3>1, <3>3
        <4>2. (Q + 1) % M = W
          BY <2>6, <3>1, <4>1, Quotient
        <4> QED BY <4>2
      <3> QED BY <3>2, <3>3
    <2>13. W = (M \div d) % M
      BY <2>11, <2>12
    <2> QED BY <2>3, <2>13 DEF WorkExactFor, W, M, d, v
  <1> QED BY <1>3, <1>4

\* The cases about work are arrays of bytes.
WorkCases ==
    /\ probe.kind = "target" => probe.t \in Number
    /\ probe.kind = "sum" => probe.a \in Number /\ probe.b \in Number

LEMMA WorkCasesAlways == Spec => []WorkCases
  <1>1. Init => WorkCases
    BY DEF Init, Idle, WorkCases
  <1>2. WorkCases /\ [Next]_vars => WorkCases'
    <2> SUFFICES ASSUME WorkCases, [Next]_vars PROVE WorkCases'
      OBVIOUS
    <2>1. CASE probe' = probe
      BY <2>1 DEF WorkCases
    <2>2. CASE LookAtTarget
      BY <2>2 DEF LookAtTarget, Look, WorkCases
    <2>3. CASE LookAtSum
      BY <2>3 DEF LookAtSum, Look, WorkCases
    <2>4. ASSUME LookAtBits \/ LookAtWitness \/ LookAtCoinbase \/ LookAtSlots
                   \/ LookAtAuxpow \/ LookAtPayment \/ LookAtStore \/ LookAtConfig
                   \/ LookAtJournals
          PROVE  WorkCases'
      <3>1. probe'.kind \notin {"target", "sum"}
        BY <2>4 DEF LookAtBits, LookAtWitness, LookAtCoinbase, LookAtSlots, LookAtAuxpow,
                    LookAtPayment, LookAtStore, LookAtConfig, LookAtJournals, Look
      <3> QED BY <3>1 DEF WorkCases
    <2> QED BY <2>1, <2>2, <2>3, <2>4 DEF Next, vars
  <1> QED BY <1>1, <1>2, PTL DEF Spec

\* block_work is 2^256 / (target + 1) for every target, modulo the width, and
\* u256_add_be, u256_ge and target_leq are the sum and the comparisons of the
\* numbers, for bytes of every width and arrays of every length.
THEOREM WorkTheorem ==
  /\ \A t \in Number : WorkExactFor(t)
  /\ \A a, b \in Number : SumExactFor(a, b)
  /\ Spec => []WorkExact
  <1>1. \A t \in Number : WorkExactFor(t)
    BY WorkExactLemma
  <1>2. \A a, b \in Number : SumExactFor(a, b)
    BY SumExact
  <1>3. WorkCases => WorkExact
    BY <1>1, <1>2 DEF WorkCases, WorkExact
  <1>4. Spec => []WorkExact
    BY <1>3, WorkCasesAlways, PTL
  <1> QED BY <1>1, <1>2, <1>4
=============================================================================
