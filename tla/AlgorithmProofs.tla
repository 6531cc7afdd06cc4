--------------------------- MODULE AlgorithmProofs ---------------------------
(***************************************************************************)
(* Proofs about the pure algorithms: merged-mining verification and the    *)
(* generator of slots for trees of any depth, compact targets of any       *)
(* width, and the configuration.                                           *)
(***************************************************************************)
EXTENDS MCCases, SequenceTheorems, WellFoundedInduction, TLAPS

(* Prefixes. *)

\* A prefix of a sequence: its length, its items, and that a shorter prefix
\* can be taken from it or from the sequence.
LEMMA PrefixOf ==
  ASSUME NEW S, NEW s \in Seq(S), NEW n \in 0 .. Len(s)
  PROVE  /\ SubSeq(s, 1, n) \in Seq(S)
         /\ Len(SubSeq(s, 1, n)) = n
         /\ \A i \in 1 .. n : SubSeq(s, 1, n)[i] = s[i]
  <1>1. Len(s) \in Nat /\ \A i \in 1 .. Len(s) : s[i] \in S
    BY LenProperties, ElementOfSeq
  <1>2. \A i \in 1 .. n : s[i] \in S
    BY <1>1
  <1>3. /\ SubSeq(s, 1, n) \in Seq(S)
        /\ Len(SubSeq(s, 1, n)) = IF 1 <= n THEN n - 1 + 1 ELSE 0
        /\ \A i \in 1 .. n - 1 + 1 : SubSeq(s, 1, n)[i] = s[1 + i - 1]
    BY <1>2, SubSeqProperties
  <1> QED BY <1>3

LEMMA PrefixOfPrefix ==
  ASSUME NEW S, NEW s \in Seq(S), NEW n \in 0 .. Len(s), NEW m \in 0 .. n
  PROVE  SubSeq(SubSeq(s, 1, n), 1, m) = SubSeq(s, 1, m)
  <1>1. Len(s) \in Nat
    BY LenProperties
  <1> DEFINE t == SubSeq(s, 1, n)
             u == SubSeq(t, 1, m)
             v == SubSeq(s, 1, m)
  <1>2. t \in Seq(S) /\ Len(t) = n /\ \A i \in 1 .. n : t[i] = s[i]
    BY PrefixOf
  <1>3. m \in 0 .. Len(s)
    BY <1>1
  <1>4. v \in Seq(S) /\ Len(v) = m /\ \A i \in 1 .. m : v[i] = s[i]
    BY <1>3, PrefixOf
  <1> HIDE DEF t, v
  <1>5. u \in Seq(S) /\ Len(u) = m /\ \A i \in 1 .. m : u[i] = t[i]
    BY <1>2, PrefixOf
  <1> HIDE DEF u
  <1>6. \A i \in 1 .. Len(u) : u[i] = v[i]
    BY <1>2, <1>4, <1>5
  <1>7. u = v
    BY <1>4, <1>5, <1>6, SeqEqual
  <1> QED BY <1>7 DEF t, u, v

-----------------------------------------------------------------------------

(* Induction over numbers, in the form of a least counterexample. *)

LEMMA LeastNumber ==
  ASSUME NEW T \in SUBSET Nat, T # {}
  PROVE  \E m \in T : \A k \in T : m <= k
  <1>1. PICK m \in T : \A k \in T : ~(<<k, m>> \in OpToRel(<, Nat))
    BY WFMin, NatLessThanWellFounded
  <1>2. ASSUME NEW k \in T PROVE m <= k
    <2>1. ~(k < m)
      BY <1>1 DEF OpToRel
    <2> QED BY <2>1
  <1> QED BY <1>2

\* A set of numbers that has 0, and the successor of each of its members.
LEMMA AllNumbers ==
  ASSUME NEW T \in SUBSET Nat, 0 \in T, \A n \in T : n + 1 \in T
  PROVE  T = Nat
  <1> SUFFICES ASSUME Nat \ T # {} PROVE FALSE
    OBVIOUS
  <1>1. PICK m \in Nat \ T : \A k \in Nat \ T : m <= k
    BY LeastNumber
  <1>2. m - 1 \in Nat /\ m - 1 \in T
    BY <1>1
  <1> QED BY <1>1, <1>2

\* FlattenSeq glues one item after the other.
LEMMA FlattenFacts ==
  ASSUME NEW X, NEW parts \in Seq(X), Len(parts) # 0
  PROVE  \E f : /\ f[1] = parts[1]
                /\ \A i \in 2 .. Len(parts) : f[i] = f[i - 1] \o parts[i]
                /\ FlattenSeq(parts) = f[Len(parts)]
  <1> DEFINE n == Len(parts)
  <1>a. n \in Nat \ {0}
    OBVIOUS
  <1> HIDE DEF n
  <1> DEFINE Level(prev, i) == prev \o parts[i]
             Solves(g, m) == \A i \in 1 .. m : g[i] = IF i = 1 THEN parts[i] ELSE Level(g[i - 1], i)
             T == {m \in Nat : \E g : Solves(g, m)}
  <1> HIDE DEF Level
  <1>1. 0 \in T
    OBVIOUS
  <1>2. ASSUME NEW m \in T PROVE m + 1 \in T
    <2>1. PICK g : Solves(g, m)
      OBVIOUS
    <2> DEFINE h == [i \in 1 .. m + 1 |-> IF i = m + 1
                       THEN IF i = 1 THEN parts[i] ELSE Level(g[m], i) ELSE g[i]]
    <2>2. Solves(h, m + 1)
      <3> SUFFICES ASSUME NEW i \in 1 .. m + 1
                   PROVE  h[i] = IF i = 1 THEN parts[i] ELSE Level(h[i - 1], i)
        OBVIOUS
      <3>1. CASE i = m + 1
        <4>1. i # 1 => i - 1 = m /\ h[m] = g[m]
          BY <3>1
        <4> QED BY <3>1, <4>1
      <3>2. CASE i # m + 1
        <4>1. i \in 1 .. m /\ h[i] = g[i] /\ (i # 1 => h[i - 1] = g[i - 1])
          BY <3>2
        <4> QED BY <2>1, <4>1
      <3> QED BY <3>1, <3>2
    <2>3. m + 1 \in Nat
      OBVIOUS
    <2> QED BY <2>2, <2>3
  <1>3. n \in T
    <2> HIDE DEF T
    <2>1. T \in SUBSET Nat
      BY DEF T
    <2> QED BY <1>1, <1>2, <1>a, <2>1, AllNumbers
  <1>4. PICK g : Solves(g, n)
    BY <1>3
  <1> DEFINE h == [i \in 1 .. n |-> g[i]]
  <1>5. h = [i \in 1 .. n |-> IF i = 1 THEN parts[i] ELSE Level(h[i - 1], i)]
    BY <1>4, <1>a
  <1> HIDE DEF h
  <1>6. \E f : f = [i \in 1 .. n |-> IF i = 1 THEN parts[i] ELSE Level(f[i - 1], i)]
    BY <1>5
  <1> DEFINE f == CHOOSE f : f = [i \in 1 .. n |-> IF i = 1 THEN parts[i] ELSE Level(f[i - 1], i)]
  <1>7. f = [i \in 1 .. n |-> IF i = 1 THEN parts[i] ELSE Level(f[i - 1], i)]
    BY <1>6
  <1>9. FlattenSeq(parts) = f[n]
    BY DEF FlattenSeq, Level, n
  <1> HIDE DEF f
  <1>10. f[1] = parts[1] /\ \A i \in 2 .. n : f[i] = Level(f[i - 1], i)
    BY <1>7, <1>a
  <1> QED BY <1>9, <1>10 DEF Level, n

-----------------------------------------------------------------------------
(* Powers of two. *)

\* The recursion of Powers has a solution: on every segment from 0, one longer
\* than the last.
LEMMA PowersDefined ==
  ASSUME NEW b, NEW N \in Nat
  PROVE  LET p == Powers(b, N)
         IN  p = [k \in 0 .. N |-> IF k = 0 THEN 1 ELSE b * p[k - 1]]
  <1> DEFINE Solves(g, n) == \A k \in 0 .. n : g[k] = IF k = 0 THEN 1 ELSE b * g[k - 1]
             T == {n \in Nat : \E g : Solves(g, n)}
  <1>1. 0 \in T
    <2> DEFINE g == [k \in 0 .. 0 |-> 1]
    <2>1. Solves(g, 0)
      OBVIOUS
    <2> QED BY <2>1
  <1>2. ASSUME NEW n \in T PROVE n + 1 \in T
    <2>1. PICK g : Solves(g, n)
      OBVIOUS
    <2> DEFINE h == [k \in 0 .. n + 1 |-> IF k = n + 1 THEN b * g[n] ELSE g[k]]
    <2>2. Solves(h, n + 1)
      BY <2>1
    <2>3. n + 1 \in Nat
      OBVIOUS
    <2> QED BY <2>2, <2>3
  <1>3. N \in T
    <2> HIDE DEF T
    <2>1. T \in SUBSET Nat
      BY DEF T
    <2> QED BY <1>1, <1>2, <2>1, AllNumbers
  <1>4. PICK g : Solves(g, N)
    BY <1>3
  <1> DEFINE h == [k \in 0 .. N |-> g[k]]
  <1>5. h = [k \in 0 .. N |-> IF k = 0 THEN 1 ELSE b * h[k - 1]]
    BY <1>4
  <1> HIDE DEF h
  <1>6. \E f : f = [k \in 0 .. N |-> IF k = 0 THEN 1 ELSE b * f[k - 1]]
    BY <1>5
  <1> QED BY <1>6 DEF Powers

\* Powers of a positive number are positive.
LEMMA PowersFacts ==
  ASSUME NEW b \in Nat \ {0}, NEW N \in Nat
  PROVE  LET p == Powers(b, N)
         IN  /\ p[0] = 1
             /\ \A k \in 1 .. N : p[k] = b * p[k - 1]
             /\ \A k \in 0 .. N : p[k] \in Nat \ {0}
  <1> DEFINE p == Powers(b, N)
             T == {k \in Nat : k <= N => p[k] \in Nat \ {0}}
  <1>1. p = [k \in 0 .. N |-> IF k = 0 THEN 1 ELSE b * p[k - 1]]
    BY PowersDefined
  <1> HIDE DEF p
  <1>2. p[0] = 1 /\ \A k \in 1 .. N : p[k] = b * p[k - 1]
    BY <1>1
  <1>3. 0 \in T
    BY <1>2
  <1>4. ASSUME NEW k \in T PROVE k + 1 \in T
    <2> SUFFICES ASSUME k + 1 <= N PROVE p[k + 1] \in Nat \ {0}
      OBVIOUS
    <2>1. p[k] \in Nat \ {0} /\ p[k + 1] = b * p[k]
      BY <1>2
    <2> DEFINE x == p[k]
    <2> HIDE DEF x
    <2>2. x \in Nat \ {0}
      BY <2>1 DEF x
    <2>3. b * x \in Nat \ {0}
      BY <2>2
    <2> QED BY <2>1, <2>3 DEF x
  <1>5. T = Nat
    <2> HIDE DEF T
    <2>1. T \in SUBSET Nat
      BY DEF T
    <2> QED BY <1>3, <1>4, <2>1, AllNumbers
  <1>6. \A k \in 0 .. N : p[k] \in Nat \ {0}
    BY <1>5
  <1> QED BY <1>2, <1>6 DEF p

\* Every size is positive and twice the last.
LEMMA Pow2Facts ==
  /\ WordBits \in Nat /\ MaxDepth \in 0 .. WordBits
  /\ Pow2[0] = 1
  /\ \A k \in 1 .. WordBits : Pow2[k] = 2 * Pow2[k - 1]
  /\ \A k \in 0 .. WordBits : Pow2[k] \in Nat \ {0}
  <1>1. WordBits \in Nat /\ MaxDepth \in 0 .. WordBits
    BY AuxAssumption
  <1>2. 2 \in Nat \ {0}
    OBVIOUS
  <1> QED BY <1>1, <1>2, PowersFacts DEF Pow2

\* Different depths have different sizes.
LEMMA Pow2Apart ==
  ASSUME NEW m \in 0 .. WordBits, NEW n \in 0 .. WordBits, Pow2[m] = Pow2[n]
  PROVE  m = n
  <1>1. WordBits \in Nat
    BY AuxAssumption
  <1>2. /\ Pow2[0] = 1
        /\ \A k \in 1 .. WordBits : Pow2[k] = 2 * Pow2[k - 1]
    BY Pow2Facts
  <1> DEFINE Grows(k) == k <= WordBits =>
                 /\ Pow2[k] \in Nat \ {0}
                 /\ \A j \in 0 .. k - 1 : Pow2[j] \in Nat /\ Pow2[j] < Pow2[k]
             T == {k \in Nat : Grows(k)}
  <1>3. 0 \in T
    BY <1>2
  <1>4. ASSUME NEW k \in T PROVE k + 1 \in T
    <2> SUFFICES ASSUME k + 1 <= WordBits PROVE Grows(k + 1)
      OBVIOUS
    <2>1. /\ Pow2[k] \in Nat \ {0}
          /\ \A j \in 0 .. k - 1 : Pow2[j] \in Nat /\ Pow2[j] < Pow2[k]
      BY <1>1
    <2>2. Pow2[k + 1] = 2 * Pow2[k]
      BY <1>1, <1>2
    <2>3. Pow2[k + 1] \in Nat \ {0} /\ Pow2[k] < Pow2[k + 1]
      BY <2>1, <2>2
    <2>4. ASSUME NEW j \in 0 .. k
          PROVE  Pow2[j] \in Nat /\ Pow2[j] < Pow2[k + 1]
      <3>1. CASE j = k
        BY <2>1, <2>3, <3>1
      <3>2. CASE j # k
        <4>1. j \in 0 .. k - 1
          BY <3>2
        <4>2. Pow2[j] \in Nat /\ Pow2[j] < Pow2[k]
          BY <2>1, <4>1
        <4> QED BY <2>1, <2>3, <4>2
      <3> QED BY <3>1, <3>2
    <2>5. (k + 1) - 1 = k
      OBVIOUS
    <2> QED BY <2>3, <2>4, <2>5
  <1>5. T = Nat
    <2> HIDE DEF T
    <2>1. T \in SUBSET Nat
      BY DEF T
    <2> QED BY <1>3, <1>4, <2>1, AllNumbers
  <1>6. Grows(m) /\ Grows(n)
    BY <1>1, <1>5
  <1> QED BY <1>1, <1>6

\* A word is a whole number of times as wide as a smaller size.
LEMMA Pow2Divides ==
  ASSUME NEW m \in 0 .. WordBits
  PROVE  \E q \in Nat : Pow2[WordBits] = q * Pow2[m]
  <1>1. WordBits \in Nat /\ Pow2[m] \in Nat
    BY Pow2Facts
  <1> DEFINE T == {k \in Nat : m + k <= WordBits => \E q \in Nat : Pow2[m + k] = q * Pow2[m]}
  <1>2. 0 \in T
    <2>1. Pow2[m + 0] = 1 * Pow2[m]
      BY <1>1
    <2> QED BY <2>1
  <1>3. ASSUME NEW k \in T PROVE k + 1 \in T
    <2> SUFFICES ASSUME m + (k + 1) <= WordBits
                 PROVE  \E q \in Nat : Pow2[m + (k + 1)] = q * Pow2[m]
      OBVIOUS
    <2>1. m + k <= WordBits
      BY <1>1
    <2>2. PICK q \in Nat : Pow2[m + k] = q * Pow2[m]
      BY <2>1
    <2>3. m + (k + 1) \in 1 .. WordBits /\ (m + (k + 1)) - 1 = m + k
      BY <1>1
    <2>4. Pow2[m + (k + 1)] = 2 * Pow2[m + k]
      BY <2>3, Pow2Facts
    <2>5. Pow2[m + (k + 1)] = (2 * q) * Pow2[m]
      BY <1>1, <2>2, <2>4
    <2>6. 2 * q \in Nat
      OBVIOUS
    <2> QED BY <2>5, <2>6
  <1>4. T = Nat
    <2> HIDE DEF T
    <2>1. T \in SUBSET Nat
      BY DEF T
    <2> QED BY <1>2, <1>3, <2>1, AllNumbers
  <1>5. WordBits - m \in Nat /\ m + (WordBits - m) = WordBits
    BY <1>1
  <1>6. WordBits - m \in T
    BY <1>4, <1>5
  <1> QED BY <1>1, <1>5, <1>6

-----------------------------------------------------------------------------
(* Remainders. *)

Divides(m, x) == \E k \in Int : x = k * m

LEMMA Remainder ==
  ASSUME NEW x \in Int, NEW m \in Nat \ {0}
  PROVE  x % m \in 0 .. m - 1 /\ Divides(m, x - (x % m))
  <1>1. x \div m \in Int /\ x = (x \div m) * m + (x % m) /\ x % m \in 0 .. m - 1
    OBVIOUS
  <1>2. x - (x % m) = (x \div m) * m
    BY <1>1
  <1> QED BY <1>1, <1>2 DEF Divides

LEMMA DividesSums ==
  ASSUME NEW m \in Int, NEW x \in Int, NEW y \in Int, NEW z \in Int,
         Divides(m, x), Divides(m, y)
  PROVE  Divides(m, x + y) /\ Divides(m, x - y) /\ Divides(m, z * x)
  <1>1. PICK j \in Int : x = j * m
    BY DEF Divides
  <1>2. PICK k \in Int : y = k * m
    BY DEF Divides
  <1>3. x + y = (j + k) * m /\ x - y = (j - k) * m
    BY <1>1, <1>2
  <1>4. z * x = (z * j) * m
    BY <1>1
  <1>5. j + k \in Int /\ j - k \in Int /\ z * j \in Int
    OBVIOUS
  <1> QED BY <1>3, <1>4, <1>5 DEF Divides

\* A multiple of m below m is zero.
LEMMA SmallMultiple ==
  ASSUME NEW m \in Nat \ {0}, NEW k \in Int, k * m < m, -m < k * m
  PROVE  k = 0
  <1>1. CASE k >= 1
    <2>1. (k - 1) * m >= 0
      BY <1>1
    <2>2. (k - 1) * m = k * m - m
      OBVIOUS
    <2> QED BY <2>1, <2>2
  <1>2. CASE k <= -1
    <2>1. (-1 - k) * m >= 0
      BY <1>2
    <2>2. (-1 - k) * m = -m - k * m
      OBVIOUS
    <2> QED BY <2>1, <2>2
  <1> QED BY <1>1, <1>2

LEMMA SameRemainder ==
  ASSUME NEW m \in Nat \ {0}, NEW x \in Int, NEW y \in Int
  PROVE  x % m = y % m <=> Divides(m, x - y)
  <1> DEFINE r == x % m
             s == y % m
  <1>1. r \in 0 .. m - 1 /\ s \in 0 .. m - 1 /\ Divides(m, x - r) /\ Divides(m, y - s)
    BY Remainder
  <1> HIDE DEF r, s
  <1>2. r \in Int /\ s \in Int /\ m \in Int
    BY <1>1
  <1>3. Divides(m, (x - r) - (y - s)) /\ Divides(m, (y - s) - (x - r))
    <2>1. x - r \in Int /\ y - s \in Int
      BY <1>2
    <2> QED BY <1>1, <1>2, <2>1, DividesSums
  <1>4. ASSUME r = s PROVE Divides(m, x - y)
    <2>1. (x - r) - (y - s) = x - y
      BY <1>2, <1>4
    <2> QED BY <1>3, <2>1
  <1>5. ASSUME Divides(m, x - y) PROVE r = s
    <2>1. Divides(m, (x - y) - ((x - r) - (y - s)))
      <3>1. x - y \in Int /\ (x - r) - (y - s) \in Int
        BY <1>2
      <3> QED BY <1>2, <1>3, <1>5, <3>1, DividesSums
    <2>2. (x - y) - ((x - r) - (y - s)) = r - s
      BY <1>2
    <2>3. PICK k \in Int : r - s = k * m
      BY <2>1, <2>2 DEF Divides
    <2>4. r - s < m /\ -m < r - s
      BY <1>1, <1>2
    <2>5. k * m < m /\ -m < k * m
      BY <2>3, <2>4
    <2>6. k = 0
      BY <2>5, SmallMultiple
    <2>7. k * m = 0
      BY <2>6
    <2> QED BY <1>2, <2>3, <2>7
  <1> QED BY <1>4, <1>5 DEF r, s

\* A remainder modulo the word's width keeps the remainder at a smaller size.
LEMMA WrapKeeps ==
  ASSUME NEW h \in 0 .. WordBits, NEW x \in Int
  PROVE  Wrap(x) \in Nat /\ Divides(Pow2[h], Wrap(x) - x)
  <1> DEFINE w == Pow2[WordBits]
             p == Pow2[h]
  <1>1. w \in Nat \ {0} /\ p \in Nat \ {0}
    BY Pow2Facts
  <1>2. PICK q \in Nat : w = q * p
    BY Pow2Divides
  <1>3. x % w \in 0 .. w - 1 /\ Divides(w, x - (x % w))
    BY <1>1, Remainder
  <1>4. PICK k \in Int : x - (x % w) = k * w
    BY <1>3 DEF Divides
  <1> DEFINE r == x % w
  <1>5. r \in Nat
    BY <1>1, <1>3
  <1> HIDE DEF w, p, r
  <1>6. x - r = k * w
    BY <1>4 DEF r
  <1>7. r - x = (-k) * w
    BY <1>1, <1>5, <1>6
  <1>8. r - x = ((-k) * q) * p
    BY <1>1, <1>2, <1>7
  <1>9. (-k) * q \in Int
    OBVIOUS
  <1> QED BY <1>5, <1>8, <1>9 DEF Wrap, Divides, w, p, r

-----------------------------------------------------------------------------
(* The generator of slots: multiplication by an odd number. *)

LEMMA OddCancels ==
  ASSUME NEW e \in Int, NEW h \in 0 .. WordBits, NEW x \in Int,
         Divides(Pow2[h], (2 * e + 1) * x)
  PROVE  Divides(Pow2[h], x)
  <1> DEFINE Cancels(k) == \A y \in Int : Divides(Pow2[k], (2 * e + 1) * y) => Divides(Pow2[k], y)
             T == {k \in Nat : k <= WordBits => Cancels(k)}
  <1>1. 0 \in T
    <2>1. ASSUME NEW y \in Int PROVE Divides(Pow2[0], y)
      <3>1. y = y * Pow2[0]
        BY Pow2Facts
      <3> QED BY <3>1 DEF Divides
    <2> QED BY <2>1
  <1>2. ASSUME NEW k \in T PROVE k + 1 \in T
    <2> SUFFICES ASSUME k + 1 <= WordBits, NEW y \in Int,
                        Divides(Pow2[k + 1], (2 * e + 1) * y)
                 PROVE  Divides(Pow2[k + 1], y)
      OBVIOUS
    <2> DEFINE p == Pow2[k]
    <2>1. p \in Nat /\ Pow2[k + 1] = 2 * p
      BY Pow2Facts
    <2> HIDE DEF p
    <2>2. PICK j \in Int : (2 * e + 1) * y = j * (2 * p)
      BY <2>1 DEF Divides
    <2> DEFINE half == j * p - e * y
    <2>3. half \in Int /\ y = 2 * half
      BY <2>1, <2>2
    <2>4. (2 * e + 1) * half = j * p
      BY <2>1, <2>2, <2>3
    <2> HIDE DEF half
    <2>5. Divides(p, (2 * e + 1) * half)
      BY <2>4 DEF Divides
    <2>6. Divides(p, half)
      BY <2>3, <2>5, Pow2Facts DEF p
    <2>7. PICK i \in Int : half = i * p
      BY <2>6 DEF Divides
    <2>8. y = i * (2 * p)
      BY <2>1, <2>3, <2>7
    <2> QED BY <2>1, <2>8 DEF Divides
  <1>3. T = Nat
    <2> HIDE DEF T
    <2>1. T \in SUBSET Nat
      BY DEF T
    <2> QED BY <1>1, <1>2, <2>1, AllNumbers
  <1>4. Cancels(h)
    BY <1>3, Pow2Facts
  <1> QED BY <1>4

LEMMA OddReaches ==
  ASSUME NEW e \in Int, NEW h \in 0 .. WordBits, NEW t \in Int
  PROVE  \E x \in Int : Divides(Pow2[h], (2 * e + 1) * x - t)
  <1> DEFINE T == {k \in Nat : k <= WordBits =>
                     \E x \in Int : Divides(Pow2[k], (2 * e + 1) * x - t)}
  <1>1. 0 \in T
    <2>1. (2 * e + 1) * 0 - t = (-t) * Pow2[0] /\ -t \in Int
      BY Pow2Facts
    <2>2. Divides(Pow2[0], (2 * e + 1) * 0 - t)
      BY <2>1 DEF Divides
    <2> QED BY <2>2
  <1>2. ASSUME NEW k \in T PROVE k + 1 \in T
    <2> SUFFICES ASSUME k + 1 <= WordBits
                 PROVE  \E x \in Int : Divides(Pow2[k + 1], (2 * e + 1) * x - t)
      OBVIOUS
    <2> DEFINE p == Pow2[k]
    <2>1. p \in Nat /\ Pow2[k + 1] = 2 * p
      BY Pow2Facts
    <2>2. PICK x \in Int : Divides(p, (2 * e + 1) * x - t)
      BY Pow2Facts
    <2> HIDE DEF p
    <2>3. PICK j \in Int : (2 * e + 1) * x - t = j * p
      BY <2>2 DEF Divides
    <2>4. PICK i \in Int : j = 2 * i \/ j = 2 * i + 1
      <3>1. j \div 2 \in Int /\ (j = 2 * (j \div 2) \/ j = 2 * (j \div 2) + 1)
        OBVIOUS
      <3> QED BY <3>1
    <2>5. CASE j = 2 * i
      <3>1. (2 * e + 1) * x - t = i * (2 * p)
        BY <2>1, <2>3, <2>5
      <3> QED BY <2>1, <3>1 DEF Divides
    <2>6. CASE j = 2 * i + 1
      <3>1. (2 * e + 1) * (x + p) = (2 * e + 1) * x + (2 * e + 1) * p
        BY <2>1
      <3>2. (2 * e + 1) * (x + p) - t = j * p + (2 * e + 1) * p
        BY <2>1, <2>3, <3>1
      <3>3. j * p + (2 * e + 1) * p = (i + e + 1) * (2 * p)
        BY <2>1, <2>6
      <3>4. i + e + 1 \in Int /\ x + p \in Int
        BY <2>1
      <3> QED BY <2>1, <3>2, <3>3, <3>4 DEF Divides
    <2> QED BY <2>4, <2>5, <2>6
  <1>3. T = Nat
    <2> HIDE DEF T
    <2>1. T \in SUBSET Nat
      BY DEF T
    <2> QED BY <1>1, <1>2, <2>1, AllNumbers
  <1>4. h \in Nat /\ h <= WordBits
    BY Pow2Facts
  <1>5. h \in T
    <2> HIDE DEF T
    <2> QED BY <1>3, <1>4
  <1> QED BY <1>4, <1>5

LEMMA OddMultiplier ==
  /\ Multiplier \in Int /\ Increment \in Int
  /\ \E e \in Int : Multiplier = 2 * e + 1
  <1>1. 1103515245 = 2 * 551757622 + 1
    BY SMT
  <1>2. 551757622 \in Int /\ 1103515245 \in Int /\ 12345 \in Int
    BY SMT
  <1> QED BY <1>1, <1>2, SMT DEF Multiplier, Increment

\* One round of the generator, whose constants are themselves reduced to a word.
LEMMA LcgForm ==
  ASSUME NEW h \in 0 .. WordBits, NEW x \in Int
  PROVE  Lcg(x) \in Nat /\ Divides(Pow2[h], Lcg(x) - (x * Multiplier + Increment))
  <1> DEFINE p == Pow2[h]
             b == Wrap(Multiplier)
             c == Wrap(Increment)
  <1>1. p \in Int
    BY Pow2Facts
  <1>0. Multiplier \in Int /\ Increment \in Int
    BY OddMultiplier
  <1>2. /\ b \in Int /\ c \in Int
        /\ Divides(p, b - Multiplier) /\ Divides(p, c - Increment)
    BY <1>0, WrapKeeps
  <1> HIDE DEF b, c, p
  <1>3. x * b + c \in Int
    BY <1>0, <1>2
  <1> DEFINE y == Wrap(x * b + c)
  <1>4. y \in Nat /\ Divides(p, y - (x * b + c))
    BY <1>3, WrapKeeps DEF p
  <1> HIDE DEF y
  <1>5. b - Multiplier \in Int /\ c - Increment \in Int
    BY <1>0, <1>2
  <1>6. Divides(p, x * (b - Multiplier))
    BY <1>0, <1>1, <1>2, <1>5, DividesSums
  <1>7. x * (b - Multiplier) = x * b - x * Multiplier
    BY <1>0, <1>2
  <1>8. Divides(p, (x * b - x * Multiplier) + (c - Increment))
    <2>1. x * b - x * Multiplier \in Int
      BY <1>0, <1>2
    <2> QED BY <1>1, <1>2, <1>5, <1>6, <1>7, <2>1, DividesSums
  <1>9. Divides(p, (y - (x * b + c)) + ((x * b - x * Multiplier) + (c - Increment)))
    <2>1. y - (x * b + c) \in Int /\ (x * b - x * Multiplier) + (c - Increment) \in Int
      BY <1>0, <1>2, <1>4
    <2> QED BY <1>0, <1>1, <1>4, <1>8, <2>1, DividesSums
  <1>10. (y - (x * b + c)) + ((x * b - x * Multiplier) + (c - Increment))
           = y - (x * Multiplier + Increment)
    BY <1>0, <1>2, <1>4
  <1> QED BY <1>4, <1>9, <1>10 DEF y, b, c, p, Lcg

\* The slot of a chain, without the wrapping in between.
Slot(n, c) == (n * Multiplier + Increment + c) * Multiplier + Increment

LEMMA SlotForm ==
  ASSUME NEW h \in 0 .. WordBits, NEW n \in Int, NEW c \in Int
  PROVE  GetExpectedIndex(n, c, h) = Slot(n, c) % Pow2[h]
  <1> DEFINE p == Pow2[h]
             l == Lcg(n)
             s == Wrap(l + c)
             u == Lcg(s)
             v == n * Multiplier + Increment
  <1>0. Multiplier \in Int /\ Increment \in Int
    BY OddMultiplier
  <1>1. p \in Nat \ {0} /\ v \in Int
    BY <1>0, Pow2Facts
  <1>2. l \in Nat /\ Divides(p, l - v)
    BY <1>0, LcgForm
  <1>3. s \in Nat /\ Divides(p, s - (l + c))
    BY <1>0, <1>2, WrapKeeps
  <1>4. u \in Nat /\ Divides(p, u - (s * Multiplier + Increment))
    BY <1>0, <1>3, LcgForm
  <1>5. GetExpectedIndex(n, c, h) = u % p
    BY DEF GetExpectedIndex
  <1>6. Slot(n, c) = (v + c) * Multiplier + Increment
    BY <1>0 DEF Slot
  <1> HIDE DEF p, l, s, u, v
  <1>7. Divides(p, s - (v + c))
    <2>1. l - v \in Int /\ s - (l + c) \in Int /\ p \in Int
      BY <1>0, <1>1, <1>2, <1>3
    <2>2. Divides(p, (s - (l + c)) + (l - v))
      BY <1>0, <1>2, <1>3, <2>1, DividesSums
    <2>3. (s - (l + c)) + (l - v) = s - (v + c)
      BY <1>0, <1>1, <1>2, <1>3
    <2> QED BY <2>2, <2>3
  <1>8. Divides(p, u - ((v + c) * Multiplier + Increment))
    <2>1. s - (v + c) \in Int /\ u - (s * Multiplier + Increment) \in Int /\ p \in Int
      BY <1>0, <1>1, <1>3, <1>4
    <2>2. Divides(p, Multiplier * (s - (v + c)))
      BY <1>0, <1>7, <2>1, DividesSums
    <2>3. Divides(p, (u - (s * Multiplier + Increment)) + Multiplier * (s - (v + c)))
      <3>1. Multiplier * (s - (v + c)) \in Int
        BY <1>0, <2>1
      <3> QED BY <1>4, <2>1, <2>2, <3>1, DividesSums
    <2>4. (u - (s * Multiplier + Increment)) + Multiplier * (s - (v + c))
            = u - ((v + c) * Multiplier + Increment)
      BY <1>0, <1>1, <1>3, <1>4
    <2> QED BY <2>3, <2>4
  <1>9. (v + c) * Multiplier + Increment \in Int
    BY <1>0, <1>1
  <1>10. u % p = ((v + c) * Multiplier + Increment) % p
    <2> DEFINE w == (v + c) * Multiplier + Increment
    <2>1. w \in Int /\ u \in Int /\ Divides(p, u - w)
      BY <1>4, <1>8, <1>9
    <2> HIDE DEF w
    <2>2. u % p = w % p
      BY <1>1, <2>1, SameRemainder
    <2> QED BY <2>2 DEF w
  <1> QED BY <1>5, <1>6, <1>10 DEF p

LEMMA SlotsAtEveryDepth ==
  ASSUME NEW h \in 0 .. WordBits, NEW c \in Int, NEW d \in Int
  PROVE  SlotsTellApart(h, c, d)
  <1> DEFINE p == Pow2[h]
  <1>1. p \in Nat \ {0} /\ p \in Int
    BY Pow2Facts
  <1>2. PICK e \in Int : Multiplier = 2 * e + 1
    BY OddMultiplier
  <1>3. Multiplier \in Int /\ Increment \in Int
    BY OddMultiplier
  <1>4. ASSUME NEW n \in Int
        PROVE  GetExpectedIndex(n, c, h) = GetExpectedIndex(n, d, h) <=> c % p = d % p
    <2>1. Slot(n, c) \in Int /\ Slot(n, d) \in Int /\ c - d \in Int
      BY <1>3 DEF Slot
    <2>2. Slot(n, c) - Slot(n, d) = Multiplier * (c - d)
      BY <1>3 DEF Slot
    <2>3. (Slot(n, c) % p = Slot(n, d) % p) <=> Divides(p, Multiplier * (c - d))
      <3>1. Slot(n, c) % p = Slot(n, d) % p <=> Divides(p, Slot(n, c) - Slot(n, d))
        BY <1>1, <2>1, SameRemainder
      <3> QED BY <2>2, <3>1
    <2>4. Divides(p, Multiplier * (c - d)) <=> Divides(p, c - d)
      <3>1. ASSUME Divides(p, Multiplier * (c - d)) PROVE Divides(p, c - d)
        BY <1>2, <2>1, <3>1, OddCancels
      <3>2. ASSUME Divides(p, c - d) PROVE Divides(p, Multiplier * (c - d))
        BY <1>1, <1>3, <2>1, <3>2, DividesSums
      <3> QED BY <3>1, <3>2
    <2>5. c % p = d % p <=> Divides(p, c - d)
      BY <1>1, SameRemainder
    <2>6. /\ GetExpectedIndex(n, c, h) = Slot(n, c) % p
          /\ GetExpectedIndex(n, d, h) = Slot(n, d) % p
      BY SlotForm
    <2> QED BY <2>3, <2>4, <2>5, <2>6
  <1>5. ASSUME NEW n \in 0 .. p - 1 PROVE GetExpectedIndex(n, c, h) \in 0 .. p - 1
    <2>1. n \in Int /\ Slot(n, c) \in Int
      BY <1>1, <1>3 DEF Slot
    <2>2. GetExpectedIndex(n, c, h) = Slot(n, c) % p
      BY <2>1, SlotForm
    <2> QED BY <1>1, <2>1, <2>2, Remainder
  <1>6. ASSUME NEW t \in 0 .. p - 1 PROVE \E n \in 0 .. p - 1 : GetExpectedIndex(n, c, h) = t
    <2>0. t \in Int /\ t - Increment \in Int
      BY <1>1, <1>3
    <2>1. PICK y \in Int : Divides(p, Multiplier * y - (t - Increment))
      BY <1>2, <2>0, OddReaches
    <2>2. y - c - Increment \in Int
      BY <1>3
    <2>3. PICK z \in Int : Divides(p, Multiplier * z - (y - c - Increment))
      BY <1>2, <2>2, OddReaches
    <2> DEFINE n == z % p
    <2>4. n \in 0 .. p - 1 /\ n \in Int /\ Divides(p, z - n)
      <3>1. n \in 0 .. p - 1 /\ Divides(p, z - n)
        BY <1>1, Remainder
      <3> HIDE DEF n
      <3> QED BY <1>1, <3>1
    <2> HIDE DEF n
    <2>5. Divides(p, Multiplier * n - (y - c - Increment))
      <3>1. z - n \in Int /\ Multiplier * z - (y - c - Increment) \in Int
        BY <1>3, <2>4
      <3>2. Divides(p, Multiplier * (z - n)) /\ Multiplier * (z - n) \in Int
        <4> DEFINE x == z - n
        <4>1. x \in Int /\ Divides(p, x)
          BY <2>4, <3>1
        <4> HIDE DEF x
        <4>2. Divides(p, Multiplier * x)
          BY <1>1, <1>3, <4>1, DividesSums
        <4>3. Multiplier * x \in Int
          BY <1>3, <4>1
        <4> QED BY <4>2, <4>3 DEF x
      <3>3. Divides(p, (Multiplier * z - (y - c - Increment)) - Multiplier * (z - n))
        BY <1>1, <2>3, <3>1, <3>2, DividesSums
      <3>4. (Multiplier * z - (y - c - Increment)) - Multiplier * (z - n)
              = Multiplier * n - (y - c - Increment)
        BY <1>3, <2>4
      <3> QED BY <3>3, <3>4
    <2>6. Divides(p, Slot(n, c) - t)
      <3> DEFINE r == Multiplier * n - (y - c - Increment)
      <3>1. r \in Int /\ Multiplier * y - (t - Increment) \in Int
        BY <1>3, <2>0, <2>4
      <3>2. Divides(p, Multiplier * r) /\ Multiplier * r \in Int
        <4>1. Divides(p, r)
          BY <2>5
        <4> HIDE DEF r
        <4>2. Divides(p, Multiplier * r)
          BY <1>1, <1>3, <3>1, <4>1, DividesSums
        <4>3. Multiplier * r \in Int
          BY <1>3, <3>1
        <4> QED BY <4>2, <4>3
      <3>3. Divides(p, Multiplier * r + (Multiplier * y - (t - Increment)))
        BY <1>1, <2>1, <3>1, <3>2, DividesSums
      <3>4. Multiplier * r + (Multiplier * y - (t - Increment)) = Slot(n, c) - t
        BY <1>3, <2>0, <2>4 DEF Slot
      <3> QED BY <3>3, <3>4
    <2>7. Slot(n, c) \in Int
      BY <1>3, <2>4 DEF Slot
    <2>8. Slot(n, c) % p = t % p
      BY <1>1, <2>0, <2>6, <2>7, SameRemainder
    <2>9. t % p = t
      BY <1>1
    <2>10. GetExpectedIndex(n, c, h) = t
      BY <2>4, <2>8, <2>9, SlotForm
    <2> QED BY <2>4, <2>10
  <1>7. \A n \in 0 .. Pow2[WordBits] - 1 : n \in Int
    BY Pow2Facts
  <1> HIDE DEF p
  <1>8. {GetExpectedIndex(n, c, h) : n \in 0 .. p - 1} = 0 .. p - 1
    BY <1>5, <1>6
  <1> QED BY <1>4, <1>7, <1>8 DEF SlotsTellApart, p

-----------------------------------------------------------------------------
(* Numbers as arrays of bytes. *)

LEMMA ByteFacts ==
  /\ Bytes \in Nat /\ Bytes >= 3
  /\ Byte \in Nat /\ Byte >= 2
  /\ ByteTo[0] = 1
  /\ \A k \in 1 .. Bytes : ByteTo[k] = Byte * ByteTo[k - 1]
  /\ \A k \in 0 .. Bytes : ByteTo[k] \in Nat \ {0}
  <1>1. Bytes \in Nat /\ Bytes >= 3 /\ ByteBits \in Nat \ {0}
    BY WidthAssumption
  <1> DEFINE p == Powers(2, ByteBits)
  <1>2. 2 \in Nat \ {0}
    OBVIOUS
  <1>3. /\ \A k \in 1 .. ByteBits : p[k] = 2 * p[k - 1]
        /\ \A k \in 0 .. ByteBits : p[k] \in Nat \ {0}
    BY <1>1, <1>2, PowersFacts
  <1>4. Byte \in Nat /\ Byte >= 2
    <2> HIDE DEF p
    <2>1. p[ByteBits] = 2 * p[ByteBits - 1] /\ p[ByteBits - 1] \in Nat \ {0}
      BY <1>1, <1>3
    <2>2. p[ByteBits] \in Nat /\ p[ByteBits] >= 2
      BY <2>1
    <2> QED BY <2>2 DEF Byte, TwoTo, p
  <1>5. Byte \in Nat \ {0}
    BY <1>4
  <1>6. /\ ByteTo[0] = 1
        /\ \A k \in 1 .. Bytes : ByteTo[k] = Byte * ByteTo[k - 1]
        /\ \A k \in 0 .. Bytes : ByteTo[k] \in Nat \ {0}
    BY <1>1, <1>5, PowersFacts DEF ByteTo
  <1> QED BY <1>1, <1>4, <1>6

LEMMA ByteToSmall ==
  ByteTo[1] = Byte /\ ByteTo[2] = Byte * Byte /\ ByteTo[3] = Byte * (Byte * Byte)
  <1>1. ByteTo[1] = Byte * ByteTo[0]
    BY ByteFacts
  <1>2. ByteTo[2] = Byte * ByteTo[1]
    BY ByteFacts
  <1>3. ByteTo[3] = Byte * ByteTo[2]
    BY ByteFacts
  <1>4. ByteTo[1] = Byte
    BY <1>1, ByteFacts
  <1> QED BY <1>2, <1>3, <1>4

\* Larger exponents give larger powers.
LEMMA ByteToGrows ==
  ASSUME NEW m \in 0 .. Bytes, NEW n \in 0 .. Bytes, m <= n
  PROVE  ByteTo[m] <= ByteTo[n]
  <1> DEFINE T == {k \in Nat : m + k <= Bytes => ByteTo[m] <= ByteTo[m + k]}
  <1>1. 0 \in T
    BY ByteFacts
  <1>2. ASSUME NEW k \in T PROVE k + 1 \in T
    <2> SUFFICES ASSUME m + (k + 1) <= Bytes PROVE ByteTo[m] <= ByteTo[m + (k + 1)]
      OBVIOUS
    <2> DEFINE x == ByteTo[m + k]
    <2>1. m + k \in 0 .. Bytes /\ m + (k + 1) \in 1 .. Bytes /\ (m + (k + 1)) - 1 = m + k
      BY ByteFacts
    <2>2. ByteTo[m + (k + 1)] = Byte * x /\ x \in Nat /\ ByteTo[m] \in Nat
      BY <2>1, ByteFacts
    <2>3. ByteTo[m] <= x
      BY <2>1
    <2> HIDE DEF x
    <2>4. x <= Byte * x
      <3>1. (Byte - 1) * x >= 0
        BY <2>2, ByteFacts
      <3>2. (Byte - 1) * x = Byte * x - x
        BY <2>2, ByteFacts
      <3> QED BY <2>2, <3>1, <3>2, ByteFacts
    <2>5. Byte * x \in Nat
      BY <2>2, ByteFacts
    <2> QED BY <2>2, <2>3, <2>4, <2>5
  <1>3. T = Nat
    <2> HIDE DEF T
    <2>1. T \in SUBSET Nat
      BY DEF T
    <2> QED BY <1>1, <1>2, <2>1, AllNumbers
  <1>4. n - m \in Nat /\ m + (n - m) = n /\ n <= Bytes
    BY ByteFacts
  <1>5. n - m \in T
    BY <1>3, <1>4
  <1> QED BY <1>4, <1>5

\* The recursion of Leading has a solution.
LEMMA LeadingFacts ==
  ASSUME NEW n
  PROVE  /\ Leading(n)[0] = 0
         /\ \A i \in 1 .. Bytes : Leading(n)[i] = Leading(n)[i - 1] * Byte + n[i]
  <1> DEFINE Level(prev, i) == prev * Byte + n[i]
             Solves(g, m) == \A i \in 0 .. m : g[i] = IF i = 0 THEN 0 ELSE Level(g[i - 1], i)
             T == {m \in Nat : \E g : Solves(g, m)}
  <1> HIDE DEF Level
  <1>1. 0 \in T
    <2> DEFINE g == [i \in 0 .. 0 |-> 0]
    <2>1. Solves(g, 0)
      OBVIOUS
    <2> QED BY <2>1
  <1>2. ASSUME NEW m \in T PROVE m + 1 \in T
    <2>1. PICK g : Solves(g, m)
      OBVIOUS
    <2> DEFINE h == [i \in 0 .. m + 1 |-> IF i = m + 1 THEN Level(g[m], m + 1) ELSE g[i]]
    <2>2. Solves(h, m + 1)
      <3> SUFFICES ASSUME NEW i \in 0 .. m + 1
                   PROVE  h[i] = IF i = 0 THEN 0 ELSE Level(h[i - 1], i)
        OBVIOUS
      <3>1. CASE i = m + 1
        <4>1. i # 0 /\ i - 1 = m /\ h[m] = g[m] /\ h[m + 1] = Level(g[m], m + 1)
          BY <3>1
        <4> QED BY <3>1, <4>1
      <3>2. CASE i # m + 1
        <4>1. i \in 0 .. m /\ h[i] = g[i] /\ (i # 0 => h[i - 1] = g[i - 1])
          BY <3>2
        <4> QED BY <2>1, <4>1
      <3> QED BY <3>1, <3>2
    <2>3. m + 1 \in Nat
      OBVIOUS
    <2> QED BY <2>2, <2>3
  <1>3. Bytes \in T
    <2> HIDE DEF T
    <2>1. T \in SUBSET Nat
      BY DEF T
    <2> QED BY <1>1, <1>2, <2>1, AllNumbers, ByteFacts
  <1>4. PICK g : Solves(g, Bytes)
    BY <1>3
  <1> DEFINE h == [i \in 0 .. Bytes |-> g[i]]
  <1>5. h = [i \in 0 .. Bytes |-> IF i = 0 THEN 0 ELSE Level(h[i - 1], i)]
    BY <1>4, ByteFacts
  <1> HIDE DEF h
  <1>6. \E f : f = [i \in 0 .. Bytes |-> IF i = 0 THEN 0 ELSE Level(f[i - 1], i)]
    BY <1>5
  <1>7. Leading(n) = [i \in 0 .. Bytes |->
                        IF i = 0 THEN 0 ELSE Level(Leading(n)[i - 1], i)]
    BY <1>6 DEF Leading, Level
  <1>8. Leading(n)[0] = 0 /\ \A i \in 1 .. Bytes : Leading(n)[i] = Level(Leading(n)[i - 1], i)
    BY <1>7, ByteFacts
  <1> QED BY <1>8 DEF Level

\* Quotient and remainder are the only numbers of their kind.
LEMMA Quotient ==
  ASSUME NEW x \in Int, NEW m \in Nat \ {0}, NEW q \in Int, NEW r \in 0 .. m - 1,
         x = q * m + r
  PROVE  x \div m = q /\ x % m = r
  <1> DEFINE k == x \div m
             s == x % m
  <1>1. k \in Int /\ s \in 0 .. m - 1 /\ x = k * m + s
    OBVIOUS
  <1> HIDE DEF k, s
  <1>2. (k - q) * m = r - s
    BY <1>1
  <1>3. k - q \in Int /\ (k - q) * m < m /\ -m < (k - q) * m
    BY <1>1, <1>2
  <1>4. k - q = 0
    BY <1>3, SmallMultiple
  <1>5. k = q
    BY <1>1, <1>4
  <1>6. s = r
    BY <1>1, <1>5
  <1> QED BY <1>5, <1>6 DEF k, s

\* A quotient is not larger than what is divided.
LEMMA QuotientSmall ==
  ASSUME NEW w \in Nat, NEW z \in Nat \ {0}
  PROVE  w \div z \in Nat /\ w \div z <= w
  <1> DEFINE q == w \div z
             t == w % z
  <1>1. q \in Int /\ t \in 0 .. z - 1 /\ w = q * z + t
    OBVIOUS
  <1> HIDE DEF q, t
  <1>2. q >= 0
    <2> SUFFICES ASSUME q <= -1 PROVE FALSE
      BY <1>1
    <2>1. (-1 - q) * z >= 0
      BY <1>1
    <2>2. (-1 - q) * z = -z - q * z
      BY <1>1
    <2> QED BY <1>1, <2>1, <2>2
  <1>3. q <= w
    <2>1. q * (z - 1) >= 0
      BY <1>1, <1>2
    <2>2. q * (z - 1) = q * z - q
      BY <1>1
    <2> QED BY <1>1, <2>1, <2>2
  <1> QED BY <1>1, <1>2, <1>3 DEF q

\* A mantissa is its three bytes, and has as many as its size asks for.
LEMMA MantissaBytes ==
  ASSUME NEW w \in Nat, w < ByteTo[3]
  PROVE  LET m0 == MantissaByte(w, 0)
             m1 == MantissaByte(w, 1)
             m2 == MantissaByte(w, 2)
         IN  /\ m0 \in Nat /\ m1 \in Nat /\ m2 \in Nat
             /\ w = (m2 * Byte + m1) * Byte + m0
             /\ w < ByteTo[2] => m2 = 0
             /\ w < Byte => m1 = 0
  <1> DEFINE x == w \div Byte
             r == w % Byte
             y == x \div Byte
             s == x % Byte
  <1>1. Byte \in Nat \ {0} /\ Byte >= 2
    BY ByteFacts
  <1>2. x \in Int /\ r \in 0 .. Byte - 1 /\ w = x * Byte + r
    BY <1>1
  <1> HIDE DEF x
  <1>3. y \in Int /\ s \in 0 .. Byte - 1 /\ x = y * Byte + s
    BY <1>1, <1>2
  <1> HIDE DEF r, y, s
  <1>4. w = y * (Byte * Byte) + (s * Byte + r)
    BY <1>1, <1>2, <1>3
  <1>5. s * Byte + r \in 0 .. (Byte * Byte) - 1 /\ Byte * Byte \in Nat \ {0}
    <2>1. (Byte - 1 - s) * Byte >= 0 /\ s * Byte >= 0
      BY <1>1, <1>3
    <2>2. (Byte - 1 - s) * Byte = Byte * Byte - Byte - s * Byte
      BY <1>1, <1>3
    <2>3. s * Byte \in Nat /\ Byte * Byte \in Nat \ {0}
      BY <1>1, <1>3
    <2> QED BY <1>1, <1>2, <1>3, <2>1, <2>2, <2>3
  <1>6. w \div (Byte * Byte) = y
    <2> DEFINE b == Byte * Byte
               t == s * Byte + r
    <2>1. b \in Nat \ {0} /\ t \in 0 .. b - 1 /\ w = y * b + t
      BY <1>4, <1>5
    <2> HIDE DEF b, t
    <2>2. y \in Int /\ w \in Int
      BY <1>3
    <2>3. w \div b = y
      BY <2>1, <2>2, Quotient
    <2> QED BY <2>3 DEF b
  <1>7. y >= 0
    <2> SUFFICES ASSUME y <= -1 PROVE FALSE
      BY <1>3
    <2> DEFINE b == Byte * Byte
               t == s * Byte + r
    <2>1. b \in Nat \ {0} /\ t \in 0 .. b - 1 /\ w = y * b + t
      BY <1>4, <1>5
    <2> HIDE DEF b, t
    <2>2. (-1 - y) * b >= 0
      BY <1>3, <2>1
    <2>3. (-1 - y) * b = -b - y * b
      BY <1>3, <2>1
    <2> QED BY <1>3, <2>1, <2>2, <2>3
  <1>8. y < Byte
    <2> SUFFICES ASSUME y >= Byte PROVE FALSE
      BY <1>1, <1>3
    <2> DEFINE b == Byte * Byte
               t == s * Byte + r
    <2>1. b \in Nat \ {0} /\ t \in 0 .. b - 1 /\ w = y * b + t /\ w < Byte * b
      BY <1>4, <1>5, ByteToSmall
    <2> HIDE DEF b, t
    <2>2. (y - Byte) * b >= 0
      BY <1>1, <1>3, <2>1
    <2>3. (y - Byte) * b = y * b - Byte * b
      BY <1>1, <1>3, <2>1
    <2>4. y * b \in Int /\ Byte * b \in Int
      BY <1>1, <1>3, <2>1
    <2> QED BY <2>1, <2>2, <2>3, <2>4
  <1>9. y % Byte = y
    BY <1>1, <1>3, <1>7, <1>8
  <1>10. w \div 1 = w
    OBVIOUS
  <1>11. MantissaByte(w, 0) = r
    BY <1>10, ByteFacts DEF MantissaByte, r
  <1>12. MantissaByte(w, 1) = s
    BY ByteToSmall DEF MantissaByte, s, x
  <1>13. MantissaByte(w, 2) = y
    BY <1>6, <1>9, ByteToSmall DEF MantissaByte
  <1>14. w = (y * Byte + s) * Byte + r
    BY <1>2, <1>3
  <1>15. ASSUME w < ByteTo[2] PROVE y = 0
    <2> SUFFICES ASSUME y >= 1 PROVE FALSE
      BY <1>3, <1>7
    <2> DEFINE b == Byte * Byte
               t == s * Byte + r
    <2>1. b \in Nat \ {0} /\ t \in 0 .. b - 1 /\ w = y * b + t /\ w < b
      BY <1>4, <1>5, <1>15, ByteToSmall
    <2> HIDE DEF b, t
    <2>2. (y - 1) * b >= 0
      BY <1>3, <2>1
    <2>3. (y - 1) * b = y * b - b
      BY <1>3, <2>1
    <2> QED BY <1>3, <2>1, <2>2, <2>3
  <1>16. ASSUME w < Byte PROVE s = 0
    <2>1. w = 0 * Byte + w /\ w \in 0 .. Byte - 1
      BY <1>1, <1>16
    <2>2. x = 0
      BY <1>1, <2>1, Quotient DEF x
    <2>3. 0 = 0 * Byte + 0 /\ 0 \in 0 .. Byte - 1
      BY <1>1
    <2> QED BY <1>1, <2>2, <2>3, Quotient DEF s
  <1>17. r \in Nat /\ s \in Nat /\ y \in Nat
    BY <1>1, <1>2, <1>3, <1>7
  <1> QED BY <1>11, <1>12, <1>13, <1>14, <1>15, <1>16, <1>17

\* Three bytes above low zero bytes, with nothing lost over the top.
LEMMA ThreeBytes ==
  ASSUME NEW low \in 0 .. Bytes - 1, NEW m0 \in Nat, NEW m1 \in Nat, NEW m2 \in Nat,
         low > Bytes - 3 => m2 = 0, low > Bytes - 2 => m1 = 0,
         NEW n, \A i \in 1 .. Bytes : n[i] = CASE i = Bytes - low -> m0
                                               [] i = Bytes - low - 1 -> m1
                                               [] i = Bytes - low - 2 -> m2
                                               [] OTHER -> 0
  PROVE  ValueOf(n) = ((m2 * Byte + m1) * Byte + m0) * ByteTo[low]
  <1> DEFINE v == Leading(n)
             top == Bytes - low
             value == (m2 * Byte + m1) * Byte + m0
  <1>1. v[0] = 0 /\ \A i \in 1 .. Bytes : v[i] = v[i - 1] * Byte + n[i]
    BY LeadingFacts
  <1> HIDE DEF v
  <1>2. Bytes \in Nat /\ Bytes >= 3 /\ Byte \in Nat /\ top \in 1 .. Bytes
    BY ByteFacts
  <1>3. \A i \in 0 .. Bytes : i <= top - 3 => v[i] = 0
    <2> DEFINE T == {i \in Nat : i <= top - 3 => v[i] = 0}
    <2>1. 0 \in T
      BY <1>1
    <2>2. ASSUME NEW i \in T PROVE i + 1 \in T
      <3> SUFFICES ASSUME i + 1 <= top - 3 PROVE v[i + 1] = 0
        OBVIOUS
      <3>1. i + 1 \in 1 .. Bytes /\ (i + 1) - 1 = i /\ v[i] = 0
        BY <1>2
      <3>2. n[i + 1] = 0
        BY <1>2, <3>1
      <3>3. v[i + 1] = v[i] * Byte + n[i + 1]
        BY <1>1, <3>1
      <3> QED BY <1>2, <3>1, <3>2, <3>3
    <2>3. T = Nat
      <3> HIDE DEF T
      <3>1. T \in SUBSET Nat
        BY DEF T
      <3> QED BY <2>1, <2>2, <3>1, AllNumbers
    <2> QED BY <2>3
  <1>4. v[top] = value
    <2>1. CASE top >= 3
      <3>1. v[top - 3] = 0 /\ n[top] = m0 /\ n[top - 1] = m1 /\ n[top - 2] = m2
        BY <1>2, <1>3, <2>1
      <3>2. /\ v[top - 2] = v[(top - 2) - 1] * Byte + n[top - 2]
            /\ v[top - 1] = v[(top - 1) - 1] * Byte + n[top - 1]
            /\ v[top] = v[top - 1] * Byte + n[top]
        BY <1>1, <1>2, <2>1
      <3>3. (top - 2) - 1 = top - 3 /\ (top - 1) - 1 = top - 2
        BY <1>2
      <3>4. v[top - 2] = m2
        BY <1>2, <3>1, <3>2, <3>3
      <3>5. v[top - 1] = m2 * Byte + m1
        BY <3>1, <3>2, <3>3, <3>4
      <3> QED BY <3>1, <3>2, <3>5
    <2>2. CASE top = 2
      <3>1. n[2] = m0 /\ n[1] = m1 /\ m2 = 0
        BY <1>2, <2>2
      <3>2. v[1] = v[0] * Byte + n[1] /\ v[2] = v[1] * Byte + n[2]
        <4>1. 1 \in 1 .. Bytes /\ 2 \in 1 .. Bytes /\ 1 - 1 = 0 /\ 2 - 1 = 1
          BY <1>2
        <4> QED BY <1>1, <4>1
      <3>3. v[1] = m1
        BY <1>1, <1>2, <3>1, <3>2
      <3>4. v[2] = m1 * Byte + m0
        BY <3>1, <3>2, <3>3
      <3>5. m2 * Byte + m1 = m1
        BY <1>2, <3>1
      <3> QED BY <2>2, <3>4, <3>5
    <2>3. CASE top = 1
      <3>1. n[1] = m0 /\ m1 = 0 /\ m2 = 0
        BY <1>2, <2>3
      <3>2. v[1] = v[0] * Byte + n[1]
        <4>1. 1 \in 1 .. Bytes /\ 1 - 1 = 0
          BY <1>2
        <4> QED BY <1>1, <4>1
      <3>3. v[1] = m0
        BY <1>1, <1>2, <3>1, <3>2
      <3>4. value = m0
        BY <1>2, <3>1
      <3> QED BY <2>3, <3>3, <3>4
    <2> QED BY <1>2, <2>1, <2>2, <2>3
  <1>5. value \in Nat
    BY <1>2
  <1> HIDE DEF value
  <1>6. v[Bytes] = value * ByteTo[low]
    <2> DEFINE T == {j \in Nat : j <= low => v[top + j] = value * ByteTo[j]}
    <2>1. 0 \in T
      BY <1>2, <1>4, <1>5, ByteFacts
    <2>2. ASSUME NEW j \in T PROVE j + 1 \in T
      <3> SUFFICES ASSUME j + 1 <= low PROVE v[top + (j + 1)] = value * ByteTo[j + 1]
        OBVIOUS
      <3> DEFINE x == ByteTo[j]
      <3>1. top + (j + 1) \in 1 .. Bytes /\ (top + (j + 1)) - 1 = top + j
        BY <1>2
      <3>2. n[top + (j + 1)] = 0
        BY <1>2, <3>1
      <3>3. v[top + (j + 1)] = v[top + j] * Byte + 0
        BY <1>1, <3>1, <3>2
      <3>4. v[top + j] = value * x
        BY <1>2
      <3>5. x \in Nat /\ ByteTo[j + 1] = Byte * x
        <4>1. j \in 0 .. Bytes /\ j + 1 \in 1 .. Bytes /\ (j + 1) - 1 = j
          BY <1>2
        <4> QED BY <4>1, ByteFacts
      <3> HIDE DEF x
      <3>6. (value * x) * Byte + 0 = value * (Byte * x)
        BY <1>2, <1>5, <3>5
      <3> QED BY <3>3, <3>4, <3>5, <3>6
    <2>3. T = Nat
      <3> HIDE DEF T
      <3>1. T \in SUBSET Nat
        BY DEF T
      <3> QED BY <2>1, <2>2, <3>1, AllNumbers
    <2>4. low \in T /\ top + low = Bytes
      BY <1>2, <2>3
    <2> QED BY <1>2, <2>4
  <1> QED BY <1>6 DEF ValueOf, v, value

LEMMA CompactFacts ==
  ASSUME NEW c \in Compact
  PROVE  c.word \in Nat /\ c.word < ByteTo[3] /\ c.size \in 0 .. Bytes + 3
  <1>1. ByteTo[3] \in Nat \ {0}
    BY ByteFacts
  <1>2. c.word \in 0 .. (ByteTo[3] \div 2) - 1 /\ c.size \in 0 .. Bytes + 3
    BY DEF Compact
  <1> DEFINE x == ByteTo[3]
  <1> HIDE DEF x
  <1>3. x \in Nat \ {0} /\ c.word \in 0 .. (x \div 2) - 1
    BY <1>1, <1>2 DEF x
  <1>4. x \div 2 \in Nat /\ x \div 2 <= x
    BY <1>3
  <1>5. c.word \in Nat /\ c.word < x
    BY <1>3, <1>4
  <1> QED BY <1>2, <1>5 DEF x

\* A product with a positive factor keeps the order.
LEMMA Scaled ==
  ASSUME NEW x \in Nat, NEW y \in Nat, NEW z \in Nat \ {0}
  PROVE  x * z \in Nat /\ (x < y <=> x * z < y * z)
  <1>1. x * z \in Nat /\ y * z \in Nat
    OBVIOUS
  <1>2. ASSUME x < y PROVE x * z < y * z
    <2>1. (y - x - 1) * z >= 0
      BY <1>2
    <2>2. (y - x - 1) * z = y * z - x * z - z
      OBVIOUS
    <2> QED BY <1>1, <2>1, <2>2
  <1>3. ASSUME y <= x PROVE y * z <= x * z
    <2>1. (x - y) * z >= 0
      BY <1>3
    <2>2. (x - y) * z = x * z - y * z
      OBVIOUS
    <2> QED BY <1>1, <2>1, <2>2
  <1> QED BY <1>1, <1>2, <1>3

\* The three guards reject exactly what does not fit.
LEMMA OverflowExact ==
  ASSUME NEW c \in Compact, c.word # 0
  PROVE  Overflows(c) <=> ~(Denoted(c) < ByteTo[Bytes])
  <1> DEFINE w == c.word
             s == c.size
             full == ByteTo[Bytes]
  <1>1. w \in Nat \ {0} /\ w < ByteTo[3] /\ s \in 0 .. Bytes + 3
    BY CompactFacts
  <1>2. Bytes \in Nat /\ Bytes >= 3 /\ Byte \in Nat \ {0} /\ full \in Nat \ {0}
    BY ByteFacts
  <1>3. ByteTo[2] = Byte * Byte /\ ByteTo[3] = Byte * (Byte * Byte)
    BY ByteToSmall
  <1>4. ByteTo[2] \in Nat /\ ByteTo[3] \in Nat /\ Byte <= ByteTo[2] /\ ByteTo[2] <= ByteTo[3]
    BY <1>2, ByteFacts, ByteToSmall, ByteToGrows
  <1>5. CASE s <= 3
    <2>1. ~ Overflows(c)
      BY <1>1, <1>2, <1>5 DEF Overflows
    <2>2. Denoted(c) <= w /\ Denoted(c) \in Nat
      <3> DEFINE z == ByteTo[3 - s]
      <3>1. z \in Nat \ {0}
        BY <1>1, <1>2, <1>5, ByteFacts
      <3>2. Denoted(c) = w \div z
        BY <1>5 DEF Denoted
      <3> HIDE DEF z, w
      <3>3. w \div z \in Nat /\ w \div z <= w
        BY <1>1, <3>1, QuotientSmall
      <3> QED BY <3>2, <3>3
    <2>3. ByteTo[3] <= full
      BY <1>2, ByteToGrows
    <2> QED BY <1>1, <1>2, <1>4, <2>1, <2>2, <2>3
  <1>6. CASE s > 3
    <2> DEFINE z == ByteTo[s - 3]
    <2>1. s - 3 \in 0 .. Bytes
      BY <1>1, <1>2, <1>6
    <2>2. z \in Nat \ {0} /\ Denoted(c) = w * z
      <3>1. z \in Nat \ {0}
        BY <2>1, ByteFacts
      <3>2. ~(s <= 3)
        BY <1>1, <1>6
      <3> QED BY <3>1, <3>2 DEF Denoted
    <2>3. CASE s = Bytes + 3
      <3>1. Overflows(c) /\ z = full
        BY <1>2, <2>3 DEF Overflows
      <3>2. ~(w < 1)
        BY <1>1
      <3>3. ~(w * z < 1 * z)
        BY <1>1, <2>2, <3>2, Scaled
      <3> QED BY <1>2, <2>2, <3>1, <3>3
    <2>4. CASE s = Bytes + 2
      <3>1. Overflows(c) <=> ~(w < Byte)
        BY <1>1, <1>2, <1>4, <2>4 DEF Overflows
      <3>2. full = Byte * z
        <4>1. s - 3 = Bytes - 1 /\ Bytes \in 1 .. Bytes
          BY <1>2, <2>4
        <4> QED BY <4>1, ByteFacts
      <3>3. w < Byte <=> w * z < Byte * z
        BY <1>1, <1>2, <2>2, Scaled
      <3> QED BY <2>2, <3>1, <3>2, <3>3
    <2>5. CASE s = Bytes + 1
      <3>1. Overflows(c) <=> ~(w < ByteTo[2])
        BY <1>1, <1>2, <1>4, <2>5 DEF Overflows
      <3>2. full = ByteTo[2] * z
        <4>1. s - 3 = Bytes - 2 /\ Bytes \in 1 .. Bytes /\ Bytes - 1 \in 1 .. Bytes
              /\ (Bytes - 1) - 1 = Bytes - 2
          BY <1>2, <2>5
        <4>2. full = Byte * ByteTo[Bytes - 1] /\ ByteTo[Bytes - 1] = Byte * z
          BY <4>1, ByteFacts
        <4>3. Byte * (Byte * z) = (Byte * Byte) * z
          BY <1>2, <2>2
        <4> QED BY <1>3, <4>2, <4>3
      <3>3. w < ByteTo[2] <=> w * z < ByteTo[2] * z
        BY <1>1, <1>4, <2>2, Scaled
      <3> QED BY <2>2, <3>1, <3>2, <3>3
    <2>6. CASE s <= Bytes
      <3>1. ~ Overflows(c)
        BY <1>1, <1>2, <2>6 DEF Overflows
      <3>2. ByteTo[s] = ByteTo[3] * z
        <4>1. /\ s \in 1 .. Bytes /\ s - 1 \in 1 .. Bytes /\ s - 2 \in 1 .. Bytes
              /\ (s - 1) - 1 = s - 2 /\ (s - 2) - 1 = s - 3
          BY <1>1, <1>2, <1>6, <2>6
        <4>2. /\ ByteTo[s] = Byte * ByteTo[s - 1]
              /\ ByteTo[s - 1] = Byte * ByteTo[s - 2]
              /\ ByteTo[s - 2] = Byte * z
          BY <4>1, ByteFacts
        <4>3. Byte * (Byte * (Byte * z)) = (Byte * (Byte * Byte)) * z
          BY <1>2, <2>2
        <4> QED BY <1>3, <4>2, <4>3
      <3>3. w * z < ByteTo[3] * z /\ w * z \in Nat
        BY <1>1, <1>4, <2>2, Scaled
      <3>4. s \in 0 .. Bytes /\ Bytes \in 0 .. Bytes
        BY <1>1, <1>2, <2>6
      <3>5. ByteTo[s] <= full /\ ByteTo[s] \in Nat
        BY <2>6, <3>4, ByteToGrows, ByteFacts
      <3> QED BY <1>2, <2>2, <3>1, <3>2, <3>3, <3>5
    <2> QED BY <1>1, <1>2, <2>3, <2>4, <2>5, <2>6
  <1> QED BY <1>1, <1>5, <1>6

\* A nonzero mantissa denotes zero exactly where a small size shifts it out.
LEMMA ZeroExact ==
  ASSUME NEW c \in Compact, c.word # 0
  PROVE  Denoted(c) = 0 <=> ShiftedOut(c)
  <1> DEFINE w == c.word
             s == c.size
  <1>1. w \in Nat \ {0} /\ s \in 0 .. Bytes + 3
    BY CompactFacts
  <1>2. CASE s <= 3
    <2> DEFINE z == ByteTo[3 - s]
    <2>1. z \in Nat \ {0}
      BY <1>1, <1>2, ByteFacts
    <2>2. Denoted(c) = w \div z /\ (ShiftedOut(c) <=> w < z)
      BY <1>2 DEF Denoted, ShiftedOut
    <2> HIDE DEF w, z
    <2>3. w \div z = 0 <=> w < z
      BY <1>1, <2>1
    <2> QED BY <2>2, <2>3
  <1>3. CASE ~(s <= 3)
    <2> DEFINE z == ByteTo[s - 3]
    <2>1. s - 3 \in 0 .. Bytes
      BY <1>1, <1>3, ByteFacts
    <2>2. z \in Nat \ {0}
      BY <2>1, ByteFacts
    <2>3. Denoted(c) = w * z /\ ~ShiftedOut(c)
      BY <1>3 DEF Denoted, ShiftedOut
    <2> HIDE DEF w, z
    <2>4. w * z # 0
      BY <1>1, <2>2
    <2> QED BY <2>3, <2>4
  <1> QED BY <1>2, <1>3

LEMMA TargetLemma ==
  ASSUME NEW c \in Compact
  PROVE  TargetExactFor(c)
  <1> DEFINE w == c.word
             s == c.size
             fits == Denoted(c) < ByteTo[Bytes]
  <1>1. w \in Nat /\ w < ByteTo[3] /\ s \in 0 .. Bytes + 3
    BY CompactFacts
  <1>2. Bytes \in Nat /\ Bytes >= 3 /\ Byte \in Nat \ {0}
    BY ByteFacts
  <1>3. ASSUME w = 0 \/ c.sign \/ Overflows(c) PROVE ExpandTarget(c) = Invalid
    BY <1>3 DEF ExpandTarget
  <1>4. ASSUME w # 0, ~c.sign, ~Overflows(c)
        PROVE  ExpandTarget(c) # Invalid /\ ValueOf(ExpandTarget(c)) = Denoted(c)
    <2> DEFINE word == IF s <= 3 THEN w \div ByteTo[3 - s] ELSE w
               low == IF s <= 3 THEN 0 ELSE s - 3
               n == ExpandTarget(c)
               m0 == MantissaByte(word, 0)
               m1 == MantissaByte(word, 1)
               m2 == MantissaByte(word, 2)
    <2>1. n = [i \in 1 .. Bytes |->
                 IF Bytes - i - low \in 0 .. 2 THEN MantissaByte(word, Bytes - i - low) ELSE 0]
      BY <1>4 DEF ExpandTarget
    <2>2. word \in Nat /\ word <= w
      <3>1. CASE s <= 3
        <4>1. ByteTo[3 - s] \in Nat \ {0}
          BY <1>1, <1>2, <3>1, ByteFacts
        <4>2. w \div ByteTo[3 - s] \in Nat /\ w \div ByteTo[3 - s] <= w
          BY <1>1, <4>1, QuotientSmall
        <4> QED BY <3>1, <4>2
      <3>2. CASE ~(s <= 3)
        BY <1>1, <3>2
      <3> QED BY <3>1, <3>2
    <2>3. word < ByteTo[3]
      BY <1>1, <2>2, ByteFacts
    <2>4. low \in 0 .. Bytes - 1
      BY <1>1, <1>2, <1>4 DEF Overflows
    <2>5. low > Bytes - 3 => word < ByteTo[2]
      BY <1>1, <1>2, <1>4, ByteFacts DEF Overflows
    <2>6. low > Bytes - 2 => word < Byte
      BY <1>1, <1>2, <1>4 DEF Overflows
    <2>7. Denoted(c) = word * ByteTo[low]
      <3>1. CASE s <= 3
        <4>1. Denoted(c) = word /\ ByteTo[low] = 1
          BY <3>1, ByteFacts DEF Denoted
        <4> QED BY <2>2, <4>1
      <3>2. CASE ~(s <= 3)
        BY <3>2 DEF Denoted
      <3> QED BY <3>1, <3>2
    <2> HIDE DEF word, low, n
    <2>8. /\ m0 \in Nat /\ m1 \in Nat /\ m2 \in Nat
          /\ word = (m2 * Byte + m1) * Byte + m0
          /\ word < ByteTo[2] => m2 = 0
          /\ word < Byte => m1 = 0
      BY <2>2, <2>3, MantissaBytes
    <2> HIDE DEF m0, m1, m2
    <2>9. ASSUME NEW i \in 1 .. Bytes
          PROVE  n[i] = CASE i = Bytes - low -> m0
                          [] i = Bytes - low - 1 -> m1
                          [] i = Bytes - low - 2 -> m2
                          [] OTHER -> 0
      <3>1. n[i] = IF Bytes - i - low \in 0 .. 2 THEN MantissaByte(word, Bytes - i - low) ELSE 0
        BY <2>1
      <3>2. CASE i = Bytes - low
        <4>1. Bytes - i - low = 0
          BY <1>2, <2>4, <3>2
        <4> QED BY <1>2, <2>4, <3>1, <3>2, <4>1 DEF m0
      <3>3. CASE i = Bytes - low - 1
        <4>1. Bytes - i - low = 1 /\ i # Bytes - low
          BY <1>2, <2>4, <3>3
        <4> QED BY <1>2, <2>4, <3>1, <3>3, <4>1 DEF m1
      <3>4. CASE i = Bytes - low - 2
        <4>1. Bytes - i - low = 2 /\ i # Bytes - low /\ i # Bytes - low - 1
          BY <1>2, <2>4, <3>4
        <4> QED BY <1>2, <2>4, <3>1, <3>4, <4>1 DEF m2
      <3>5. CASE i # Bytes - low /\ i # Bytes - low - 1 /\ i # Bytes - low - 2
        <4>1. ~(Bytes - i - low \in 0 .. 2)
          BY <1>2, <2>4, <3>5
        <4> QED BY <3>1, <3>5, <4>1
      <3> QED BY <3>2, <3>3, <3>4, <3>5
    <2>10. (low > Bytes - 3 => m2 = 0) /\ (low > Bytes - 2 => m1 = 0)
      BY <2>5, <2>6, <2>8
    <2>11. ValueOf(n) = ((m2 * Byte + m1) * Byte + m0) * ByteTo[low]
      BY <2>4, <2>8, <2>9, <2>10, ThreeBytes
    <2>12. ValueOf(n) = Denoted(c)
      BY <2>7, <2>8, <2>11
    <2>13. n # Invalid
      <3>1. DOMAIN n = 1 .. Bytes /\ 1 \in 1 .. Bytes
        BY <1>2, <2>1
      <3>2. DOMAIN Invalid = {}
        BY DEF Invalid
      <3> QED BY <3>1, <3>2
    <2> QED BY <2>12, <2>13 DEF n
  <1>5. w # 0 => (Overflows(c) <=> ~fits)
    BY OverflowExact
  <1> HIDE DEF w, fits
  <1>6. ExpandTarget(c) = Invalid <=> ~(w # 0 /\ ~c.sign /\ fits)
    BY <1>3, <1>4, <1>5
  <1>7. w # 0 /\ ~c.sign /\ fits => ValueOf(ExpandTarget(c)) = Denoted(c)
    BY <1>4, <1>5
  <1>8. w # 0 => (Denoted(c) = 0 <=> ShiftedOut(c))
    BY ZeroExact DEF w
  <1>9. w # 0 /\ ~c.sign /\ fits => (ValueOf(ExpandTarget(c)) = 0 <=> ShiftedOut(c))
    BY <1>7, <1>8
  <1> QED BY <1>6, <1>7, <1>9 DEF TargetExactFor, w, fits

-----------------------------------------------------------------------------
(* The fold of a branch. *)

LEMMA FoldDefined ==
  ASSUME NEW leaf, NEW branch, NEW index, Len(branch) \in Nat
  PROVE  LET f == Folded(leaf, branch, index)
         IN  f = [k \in 0 .. Len(branch) |->
                    IF k = 0 THEN leaf
                    ELSE IF OnTheLeft(index, k) THEN Node(f[k - 1], branch[k])
                    ELSE Node(branch[k], f[k - 1])]
  <1> DEFINE N == Len(branch)
             Level(prev, k) == IF OnTheLeft(index, k) THEN Node(prev, branch[k])
                               ELSE Node(branch[k], prev)
             Solves(g, n) == \A k \in 0 .. n :
                                g[k] = IF k = 0 THEN leaf ELSE Level(g[k - 1], k)
             T == {n \in Nat : \E g : Solves(g, n)}
  <1> HIDE DEF Level
  <1>1. 0 \in T
    <2> DEFINE g == [k \in 0 .. 0 |-> leaf]
    <2>1. Solves(g, 0)
      OBVIOUS
    <2> QED BY <2>1
  <1>2. ASSUME NEW n \in T PROVE n + 1 \in T
    <2>1. PICK g : Solves(g, n)
      OBVIOUS
    <2> DEFINE h == [k \in 0 .. n + 1 |-> IF k = n + 1 THEN Level(g[n], n + 1) ELSE g[k]]
    <2>2. Solves(h, n + 1)
      <3> SUFFICES ASSUME NEW k \in 0 .. n + 1
                   PROVE  h[k] = IF k = 0 THEN leaf ELSE Level(h[k - 1], k)
        OBVIOUS
      <3>1. CASE k = n + 1
        <4>1. k # 0 /\ k - 1 = n /\ h[n] = g[n] /\ h[n + 1] = Level(g[n], n + 1)
          BY <3>1
        <4> QED BY <3>1, <4>1
      <3>2. CASE k # n + 1
        <4>1. k \in 0 .. n /\ h[k] = g[k] /\ (k # 0 => h[k - 1] = g[k - 1])
          BY <3>2
        <4> QED BY <2>1, <4>1
      <3> QED BY <3>1, <3>2
    <2>3. n + 1 \in Nat
      OBVIOUS
    <2> QED BY <2>2, <2>3
  <1>3. N \in T
    <2> HIDE DEF T
    <2>1. T \in SUBSET Nat
      BY DEF T
    <2> QED BY <1>1, <1>2, <2>1, AllNumbers
  <1>4. PICK g : Solves(g, N)
    BY <1>3
  <1> DEFINE h == [k \in 0 .. N |-> g[k]]
  <1>5. h = [k \in 0 .. N |-> IF k = 0 THEN leaf ELSE Level(h[k - 1], k)]
    BY <1>4
  <1> HIDE DEF h
  <1>6. \E f : f = [k \in 0 .. N |-> IF k = 0 THEN leaf ELSE Level(f[k - 1], k)]
    BY <1>5
  <1> QED BY <1>6 DEF Folded, Level

\* At one index, branches of one depth that fold to one root start from one
\* leaf: hashes of pairs determine the pairs.
LEMMA FoldInjective ==
  ASSUME NEW x, NEW y, NEW b, NEW d, NEW index,
         Len(b) \in Nat, Len(b) = Len(d),
         MerkleFoldBranch(x, b, index) = MerkleFoldBranch(y, d, index)
  PROVE  x = y
  <1> DEFINE N == Len(b)
             f == Folded(x, b, index)
             g == Folded(y, d, index)
  <1>1. /\ \A k \in 1 .. N : f[k] = IF OnTheLeft(index, k) THEN Node(f[k - 1], b[k])
                                    ELSE Node(b[k], f[k - 1])
        /\ f[0] = x
    <2>1. f = [k \in 0 .. N |->
                 IF k = 0 THEN x
                 ELSE IF OnTheLeft(index, k) THEN Node(f[k - 1], b[k])
                 ELSE Node(b[k], f[k - 1])]
      BY FoldDefined
    <2> HIDE DEF f
    <2> QED BY <2>1
  <1>2. /\ \A k \in 1 .. N : g[k] = IF OnTheLeft(index, k) THEN Node(g[k - 1], d[k])
                                    ELSE Node(d[k], g[k - 1])
        /\ g[0] = y
    <2>1. g = [k \in 0 .. N |->
                 IF k = 0 THEN y
                 ELSE IF OnTheLeft(index, k) THEN Node(g[k - 1], d[k])
                 ELSE Node(d[k], g[k - 1])]
      BY FoldDefined
    <2> HIDE DEF g
    <2> QED BY <2>1
  <1>3. f[N] = g[N]
    BY DEF MerkleFoldBranch
  <1> HIDE DEF f, g
  <1> DEFINE T == {k \in 0 .. N : f[k] = g[k]}
  <1>4. N \in T /\ T \in SUBSET Nat
    BY <1>3
  <1>5. PICK m \in T : \A k \in T : m <= k
    BY <1>4, LeastNumber
  <1>6. CASE m # 0
    <2>1. m \in 1 .. N /\ m - 1 \in 0 .. N /\ f[m] = g[m]
      BY <1>6
    <2>2. f[m - 1] = g[m - 1]
      <3>1. \A p, q, u, v : Node(p, q) = Node(u, v) => p = u /\ q = v
        BY DEF Node
      <3>2. CASE OnTheLeft(index, m)
        <4>1. f[m] = Node(f[m - 1], b[m]) /\ g[m] = Node(g[m - 1], d[m])
          BY <1>1, <1>2, <2>1, <3>2
        <4> QED BY <2>1, <3>1, <4>1
      <3>3. CASE ~OnTheLeft(index, m)
        <4>1. f[m] = Node(b[m], f[m - 1]) /\ g[m] = Node(d[m], g[m - 1])
          BY <1>1, <1>2, <2>1, <3>3
        <4> QED BY <2>1, <3>1, <4>1
      <3> QED BY <3>2, <3>3
    <2>3. m - 1 \in T
      BY <2>1, <2>2
    <2> QED BY <1>5, <2>1, <2>3
  <1> QED BY <1>1, <1>2, <1>5, <1>6

-----------------------------------------------------------------------------
(* The cases a behaviour of MCCases looks at. *)

CaseInv ==
    /\ probe.kind = "bits" => probe.c \in Compact
    /\ probe.kind = "witness" => probe.c \in AgreeCases
    /\ probe.kind = "config" => probe.env \in Environments /\ probe.file \in Files
    /\ probe.kind = "slots" => /\ probe.h \in 0 .. MaxDepth
                               /\ probe.c \in 0 .. Pow2[WordBits] - 1
                               /\ probe.d \in 0 .. Pow2[WordBits] - 1

LEMMA CasesAlways == Spec => []CaseInv
  <1>1. Init => CaseInv
    BY DEF Init, CaseInv, Idle
  <1>2. CaseInv /\ [Next]_vars => CaseInv'
    <2> SUFFICES ASSUME CaseInv, [Next]_vars PROVE CaseInv'
      OBVIOUS
    <2>1. CASE UNCHANGED probe
      BY <2>1 DEF CaseInv
    <2>2. CASE \/ LookAtTarget \/ LookAtSum \/ LookAtCoinbase
               \/ LookAtAuxpow \/ LookAtPayment \/ LookAtStore
               \/ LookAtJournals
      BY <2>2 DEF CaseInv, Look, LookAtTarget, LookAtSum, LookAtCoinbase,
                  LookAtAuxpow, LookAtPayment, LookAtStore, LookAtJournals
    <2>3. CASE LookAtWitness
      <3>1. PICK c \in AgreeCases : probe' = [kind |-> "witness", c |-> c]
        BY <2>3 DEF LookAtWitness, Look
      <3> QED BY <3>1 DEF CaseInv
    <2>4. CASE LookAtConfig
      <3>1. PICK env \in Environments, file \in Files :
               probe' = [kind |-> "config", env |-> env, file |-> file]
        BY <2>4 DEF LookAtConfig, Look
      <3> QED BY <3>1 DEF CaseInv
    <2>5. CASE LookAtSlots
      <3>1. PICK h \in 0 .. MaxDepth, c \in 0 .. Pow2[WordBits] - 1,
                 d \in 0 .. Pow2[WordBits] - 1 :
               probe' = [kind |-> "slots", h |-> h, c |-> c, d |-> d]
        BY <2>5 DEF LookAtSlots, Look
      <3> QED BY <3>1 DEF CaseInv
    <2>6. CASE LookAtBits
      <3>1. PICK c \in Compact : probe' = [kind |-> "bits", c |-> c]
        BY <2>6 DEF LookAtBits, Look
      <3> QED BY <3>1 DEF CaseInv
    <2> QED BY <2>1, <2>2, <2>3, <2>4, <2>5, <2>6 DEF Next, vars
  <1> QED BY <1>1, <1>2, PTL DEF Spec

-----------------------------------------------------------------------------
(* Merged-mining verification. *)

\* Two claims on one coinbase agree on the depth by the size that follows the
\* root, hence on the slot, hence on the leaf.
LEMMA OneBlockLemma ==
  ASSUME NEW claims, NEW chain,
         \A c \in claims : Len(c.aux.chainBranch) \in Nat
  PROVE  OneBlockPerParentIn(claims, chain)
  <1> SUFFICES ASSUME NEW c \in claims, NEW d \in claims,
                      c.aux.coinbase = d.aux.coinbase,
                      VerifyAuxpowCommitment(c.hash, c.aux, chain),
                      VerifyAuxpowCommitment(d.hash, d.aux, chain)
               PROVE  c.hash = d.hash
    BY DEF OneBlockPerParentIn
  <1> DEFINE cb == c.aux.coinbase
             m == Len(c.aux.chainBranch)
             n == Len(d.aux.chainBranch)
  <1>1. m \in 0 .. MaxDepth /\ n \in 0 .. MaxDepth
    BY AuxAssumption DEF VerifyAuxpowCommitment
  <1>2. After(cb, 2) = Word(Pow2[m]) /\ After(cb, 2) = Word(Pow2[n])
    BY DEF VerifyAuxpowCommitment, SizeHolds
  <1>3. m = n
    <2>1. m \in 0 .. WordBits /\ n \in 0 .. WordBits
      BY <1>1, Pow2Facts
    <2> QED BY <1>2, <2>1, Pow2Apart DEF Word
  <1>4. c.aux.chainIndex = d.aux.chainIndex
    BY <1>3 DEF VerifyAuxpowCommitment, SlotHolds
  <1>5. /\ After(cb, 1)
             = Reversed(MerkleFoldBranch(c.hash, c.aux.chainBranch, c.aux.chainIndex))
        /\ After(cb, 1)
             = Reversed(MerkleFoldBranch(d.hash, d.aux.chainBranch, d.aux.chainIndex))
    BY DEF VerifyAuxpowCommitment, Commits
  <1>6. MerkleFoldBranch(c.hash, c.aux.chainBranch, c.aux.chainIndex)
          = MerkleFoldBranch(d.hash, d.aux.chainBranch, c.aux.chainIndex)
    BY <1>4, <1>5 DEF Reversed
  <1> QED BY <1>1, <1>3, <1>6, FoldInjective

(***************************************************************************)
(* verify_auxpow_commitment lets one coinbase commit at most one block of  *)
(* a chain, whatever the depth of the branches, the indexes and the blocks *)
(* that are claimed; so it does in the cases the runs look at.             *)
(***************************************************************************)
THEOREM OneBlockTheorem ==
  /\ \A claims, chain : (\A c \in claims : Len(c.aux.chainBranch) \in Nat)
         => OneBlockPerParentIn(claims, chain)
  /\ Spec => []OneBlockPerParent
  <1>1. \A claims, chain : (\A c \in claims : Len(c.aux.chainBranch) \in Nat)
            => OneBlockPerParentIn(claims, chain)
    BY OneBlockLemma
  <1>2. CaseInv => OneBlockPerParent
    <2>1. \A br \in TreeBranches : Len(br) \in Nat
      BY DEF TreeBranches
    <2>2. ASSUME NEW c \in Claims(probe.cb)
          PROVE  Len(c.aux.chainBranch) \in Nat
      <3> DEFINE Claim(n, br, i) == [hash |-> BlockHash(Good(n)),
                                     aux |-> Aux(probe.cb, br, i, 80, Ltc, TRUE, 0)]
      <3>1. \A n, br, i : Claim(n, br, i).aux.chainBranch = br
        BY DEF Aux
      <3>2. Claims(probe.cb)
              = {Claim(n, br, i) : n \in 1 .. 2, br \in TreeBranches, i \in Slots}
        BY DEF Claims
      <3> HIDE DEF Claim
      <3>3. \E n \in 1 .. 2, br \in TreeBranches, i \in Slots : c = Claim(n, br, i)
        BY <3>2
      <3> QED BY <2>1, <3>1, <3>3
    <2> QED BY <1>1, <2>2 DEF OneBlockPerParent
  <1>3. Spec => []OneBlockPerParent
    BY <1>2, CasesAlways, PTL
  <1> QED BY <1>1, <1>3

\* The checks are the same, in whatever order and form they are made.
LEMMA VerifiersLemma ==
  ASSUME NEW base, NEW aux, NEW chain, aux.parent.bytes \in 0 .. 80
  PROVE  VerifiersAgreeOn(base, aux, chain)
  <1> DEFINE format == CheckHeaderFormat(base, chain)
             first == VerifyProof1(aux, chain)
             out == VerifyProof2(BlockHash(base), aux, chain)
             light == LightVerify(base, aux, chain)
  <1>1. out.proof2 \in BOOLEAN /\ out.antiGrind \in BOOLEAN
    BY DEF VerifyProof2
  <1>2. light[1] = "block" <=> format /\ first /\ out.proof2 /\ out.antiGrind
    BY <1>1 DEF LightVerify, BlockHash
  <1>3. VerifyAuxHeader(base, aux, chain).valid
           <=> format /\ first /\ out.proof2 /\ out.antiGrind
    BY <1>1 DEF VerifyAuxHeader
  <1>4. first => aux.parent.bytes = 80
    <2> SUFFICES ASSUME first PROVE aux.parent.bytes = 80
      OBVIOUS
    <2>1. ParentMerkleRoot(aux) # NoRoot
      BY DEF VerifyProof1, CoinbaseIncluded
    <2>2. ~(aux.parent.bytes < 80)
      BY <2>1 DEF ParentMerkleRoot
    <2> QED BY <2>2
  <1>5. first /\ out.proof2 /\ out.antiGrind
           <=> VerifyAuxpowCommitment(BlockHash(base), aux, chain)
    BY DEF VerifyProof1, VerifyProof2, VerifyAuxpowCommitment
  <1>6. PsobHeaderHolds(base, aux, chain)
           <=> format /\ first /\ out.proof2 /\ out.antiGrind
    BY <1>4, <1>5 DEF PsobHeaderHolds
  <1> QED BY <1>2, <1>3, <1>6 DEF VerifiersAgreeOn

(***************************************************************************)
(* light_verify, verify_aux_header and the header checks of                *)
(* verify_psob_chain accept the same headers, whatever the header and the  *)
(* witness, provided the parent header is not longer than the 80 bytes     *)
(* that the CAuxPow parser takes for it; so they do in the runs' cases.    *)
(***************************************************************************)
THEOREM VerifiersTheorem ==
  /\ \A base, aux, chain : aux.parent.bytes \in 0 .. 80 => VerifiersAgreeOn(base, aux, chain)
  /\ Spec => []VerifiersAgree
  <1>1. \A base, aux, chain : aux.parent.bytes \in 0 .. 80
            => VerifiersAgreeOn(base, aux, chain)
    BY VerifiersLemma
  <1>2. CaseInv => VerifiersAgree
    <2> SUFFICES ASSUME CaseInv, probe.kind = "witness" PROVE VerifiersAgree
      BY DEF VerifiersAgree
    <2> DEFINE c == probe.c
               aux == Aux(c.coinbase, c.branch, c.slot, c.bytes, c.chain, c.rooted, c.pos)
    <2>1. c.bytes \in {3, 79, 80}
      BY DEF CaseInv, AgreeCases
    <2>2. aux.parent.bytes = c.bytes
      BY DEF Aux
    <2>3. aux.parent.bytes \in 0 .. 80
      BY <2>1, <2>2
    <2> HIDE DEF aux
    <2>4. VerifiersAgreeOn(c.base, aux, 1)
      BY <1>1, <2>3
    <2> QED BY <2>4 DEF VerifiersAgree, aux
  <1>3. Spec => []VerifiersAgree
    BY <1>2, CasesAlways, PTL
  <1> QED BY <1>1, <1>3

(***************************************************************************)
(* get_expected_index, for every depth of the tree and width of a word:    *)
(* two chains share a slot under some nonce, and then under every nonce,   *)
(* exactly when their ids agree modulo the size of the tree; and the       *)
(* nonces put a chain in every slot.  So it is in the runs' cases.         *)
(***************************************************************************)
THEOREM SlotsTheorem ==
  /\ \A h \in 0 .. MaxDepth, c, d \in Nat : SlotsTellApart(h, c, d)
  /\ Spec => []SlotsApart
  <1>1. ASSUME NEW h \in 0 .. MaxDepth, NEW c \in Nat, NEW d \in Nat
        PROVE  SlotsTellApart(h, c, d)
    <2>1. h \in 0 .. WordBits
      BY Pow2Facts
    <2> QED BY <2>1, SlotsAtEveryDepth
  <1>2. CaseInv => SlotsApart
    <2> SUFFICES ASSUME CaseInv, probe.kind = "slots" PROVE SlotsApart
      BY DEF SlotsApart
    <2>1. probe.h \in 0 .. MaxDepth /\ probe.c \in Nat /\ probe.d \in Nat
      BY Pow2Facts DEF CaseInv
    <2> QED BY <1>1, <2>1 DEF SlotsApart
  <1>3. Spec => []SlotsApart
    BY <1>2, CasesAlways, PTL
  <1> QED BY <1>1, <1>3

(***************************************************************************)
(* expand_target is exact for arrays of any width and bytes of any size:   *)
(* compact bits expand to the number they denote, and are rejected exactly *)
(* when negative, of zero mantissa or too large for the array; the zero    *)
(* target comes out, unrejected, exactly where a small size shifts a       *)
(* nonzero mantissa out.  So it is in the runs' cases.                     *)
(***************************************************************************)
THEOREM TargetTheorem ==
  /\ \A c \in Compact : TargetExactFor(c)
  /\ Spec => []TargetExact
  <1>1. \A c \in Compact : TargetExactFor(c)
    BY TargetLemma
  <1>2. CaseInv => TargetExact
    BY <1>1 DEF CaseInv, TargetExact
  <1>3. Spec => []TargetExact
    BY <1>2, CasesAlways, PTL
  <1> QED BY <1>1, <1>3

-----------------------------------------------------------------------------
(* Configuration. *)

\* What a variable or a key of the file can hold.
Read == Nat \cup {Unset, Bad}
Entries == Seq(Nat \cup {Bad})
Numeric == {"maxBatch", "poll", "baseBackoff", "maxBackoff", "concurrency", "keep"}

EnvironmentOK(env) ==
    /\ env.chains \in Entries \cup {NoList} /\ env.known \in Entries \cup {NoList}
    /\ \A f \in Numeric : env[f] \in Read

FileOK(file) == file # NoFile =>
    /\ file.chains \in Entries /\ file.known \in Entries
    /\ \A f \in Numeric : file[f] \in Nat \cup {Unset}

LEMMA SettingType ==
  ASSUME NEW v \in Read, NEW w \in Nat \cup {Unset}, NEW default \in Nat \cup {Unset}
  PROVE  /\ Setting(v, w, default) \in Nat \cup {Unset}
         /\ default \in Nat => Setting(v, w, default) \in Nat
  BY DEF Read, Setting, EnvNum, Unset, Bad

LEMMA ConfigLemma ==
  ASSUME NEW env, NEW file, EnvironmentOK(env), FileOK(file)
  PROVE  ConfigMeetsAssumptionsFor(env, file)
  <1> DEFINE lists == ChainLists(env, file)
             n == Numbers(env, file)
             config == Load(env, file)
             ids == config.chains \o config.known
  <1> SUFFICES ASSUME config # Rejected
               PROVE  /\ config.chains # <<>>
                      /\ \A i, j \in DOMAIN ids : i # j => ids[i] # ids[j]
                      /\ \A i \in DOMAIN ids : ids[i] \notin {Bad, Unset}
                      /\ config.maxBatch >= 1 /\ config.poll >= 1 /\ config.concurrency >= 1
                      /\ config.maxBackoff >= config.baseBackoff
                      /\ config.keep # 0
    BY DEF ConfigMeetsAssumptionsFor
  <1>1. /\ lists.chains \notin {NoList, <<>>} /\ Readable(lists.known)
        /\ CheckKnown(lists.chains, lists.known)
        /\ config = [chains |-> lists.chains, known |-> lists.known,
                     maxBatch |-> AtLeast(n.maxBatch, 1), poll |-> AtLeast(n.poll, 1),
                     baseBackoff |-> n.baseBackoff,
                     maxBackoff |-> AtLeast(n.maxBackoff, n.baseBackoff),
                     concurrency |-> AtLeast(n.concurrency, 1), keep |-> n.keep]
    BY DEF Load
  <1>2. /\ n.maxBatch \in Nat /\ n.poll \in Nat /\ n.baseBackoff \in Nat
        /\ n.maxBackoff \in Nat /\ n.concurrency \in Nat /\ n.keep # 0
    <2> DEFINE other(f) == IF file = NoFile THEN Unset ELSE file[f]
    <2>1. \A f \in Numeric : env[f] \in Read /\ other(f) \in Nat \cup {Unset}
      BY DEF EnvironmentOK, FileOK
    <2>2. /\ n.maxBatch = Setting(env["maxBatch"], other("maxBatch"), 64)
          /\ n.poll = Setting(env["poll"], other("poll"), 30)
          /\ n.baseBackoff = Setting(env["baseBackoff"], other("baseBackoff"), 500)
          /\ n.maxBackoff = Setting(env["maxBackoff"], other("maxBackoff"), 30000)
          /\ n.concurrency = Setting(env["concurrency"], other("concurrency"), 8)
          /\ n.keep = LET keep == Setting(env["keep"], other("keep"), Unset)
                      IN  IF keep > 0 THEN keep ELSE Unset
      BY DEF Numbers
    <2> HIDE DEF other, n
    <2>3. \A f \in Numeric : \A default \in Nat :
              Setting(env[f], other(f), default) \in Nat
      BY <2>1, SettingType
    <2>4. Setting(env["keep"], other("keep"), Unset) \in Nat \cup {Unset}
      BY <2>1, SettingType DEF Numeric
    <2>5. n.keep # 0
      BY <2>2, <2>4 DEF Unset
    <2> QED BY <2>2, <2>3, <2>5 DEF Numeric
  <1> HIDE DEF n, lists
  <1>3. /\ config.maxBatch >= 1 /\ config.poll >= 1 /\ config.concurrency >= 1
        /\ config.maxBackoff >= config.baseBackoff /\ config.keep # 0
    BY <1>1, <1>2 DEF AtLeast
  <1>4. config.chains = lists.chains /\ config.known = lists.known
    BY <1>1
  <1>5. /\ lists.chains \in Entries /\ Readable(lists.chains)
        /\ lists.known \in Entries
    <2> DEFINE list(f, none) == IF env[f] # NoList THEN env[f]
                                ELSE IF file # NoFile THEN file[f] ELSE none
    <2>1. /\ lists.chains = IF list("chains", NoList) = NoList THEN NoList
                            ELSE ParseChains(list("chains", NoList))
          /\ lists.known = list("known", <<>>)
      BY DEF lists, ChainLists
    <2>2. <<>> \in Entries
      BY DEF Entries
    <2>3. list("known", <<>>) \in Entries
      BY <2>2 DEF EnvironmentOK, FileOK
    <2>4. list("chains", NoList) \in Entries \cup {NoList}
      BY DEF EnvironmentOK, FileOK
    <2> HIDE DEF list
    <2>5. /\ lists.chains = list("chains", NoList) /\ lists.chains # NoList
          /\ Readable(lists.chains)
      BY <1>1, <2>1 DEF ParseChains
    <2> QED BY <2>1, <2>3, <2>4, <2>5
  <1>6. ids = lists.chains \o lists.known
    BY <1>4
  <1> HIDE DEF config, ids
  <1>7. \A i, j \in DOMAIN ids : i # j => ids[i] # ids[j]
    BY <1>1, <1>6 DEF CheckKnown, Distinct
  <1>8. \A i \in DOMAIN ids : ids[i] \in Nat
    <2>1. /\ ids \in Entries /\ Len(lists.chains) \in Nat /\ Len(lists.known) \in Nat
          /\ Len(ids) = Len(lists.chains) + Len(lists.known)
          /\ \A i \in 1 .. Len(lists.chains) + Len(lists.known) :
               ids[i] = IF i <= Len(lists.chains) THEN lists.chains[i]
                        ELSE lists.known[i - Len(lists.chains)]
      BY <1>5, <1>6, ConcatProperties, LenProperties DEF Entries
    <2>2. DOMAIN ids = 1 .. Len(ids) /\ DOMAIN lists.chains = 1 .. Len(lists.chains)
          /\ DOMAIN lists.known = 1 .. Len(lists.known)
      BY <1>5, <2>1, LenProperties DEF Entries
    <2>3. /\ \A i \in 1 .. Len(lists.chains) : lists.chains[i] \in Nat
          /\ \A i \in 1 .. Len(lists.known) : lists.known[i] \in Nat
      <3>1. ASSUME NEW list \in Entries, Readable(list), DOMAIN list = 1 .. Len(list),
                   NEW i \in 1 .. Len(list)
            PROVE  list[i] \in Nat
        <4>1. list[i] \in Nat \cup {Bad}
          BY <3>1, ElementOfSeq DEF Entries
        <4>2. list[i] # Bad
          BY <3>1 DEF Readable
        <4> QED BY <4>1, <4>2
      <3> QED BY <1>1, <1>5, <2>2, <3>1
    <2> TAKE i \in DOMAIN ids
    <2> DEFINE p == Len(lists.chains)
               q == Len(lists.known)
    <2>4. /\ i \in 1 .. p + q /\ p \in Nat /\ q \in Nat
          /\ ids[i] = IF i <= p THEN lists.chains[i] ELSE lists.known[i - p]
      BY <2>1, <2>2
    <2> HIDE DEF p, q
    <2>5. CASE i <= p
      <3>1. i \in 1 .. p /\ ids[i] = lists.chains[i]
        BY <2>4, <2>5
      <3> QED BY <2>3, <3>1 DEF p
    <2>6. CASE ~(i <= p)
      <3>1. i - p \in 1 .. q /\ ids[i] = lists.known[i - p]
        BY <2>4, <2>6
      <3> QED BY <2>3, <3>1 DEF q
    <2> QED BY <2>5, <2>6
  <1> QED BY <1>1, <1>3, <1>4, <1>7, <1>8 DEF Bad, Unset

(***************************************************************************)
(* Whatever Config::load accepts from any environment and any file meets   *)
(* what the tasks assume: distinct ids over both lists of chains, none     *)
(* unreadable, positive window, poll and concurrency, an ordered back-off  *)
(* and no retention of zero blocks; so it does in the runs' cases.         *)
(***************************************************************************)
THEOREM ConfigTheorem ==
  /\ \A env, file : EnvironmentOK(env) /\ FileOK(file)
         => ConfigMeetsAssumptionsFor(env, file)
  /\ Spec => []ConfigMeetsAssumptions
  <1>1. \A env, file : EnvironmentOK(env) /\ FileOK(file)
            => ConfigMeetsAssumptionsFor(env, file)
    BY ConfigLemma
  <1>2. CaseInv => ConfigMeetsAssumptions
    <2> SUFFICES ASSUME probe.env \in Environments, probe.file \in Files
                 PROVE  ConfigMeetsAssumptionsFor(probe.env, probe.file)
      BY DEF ConfigMeetsAssumptions, CaseInv
    <2> DEFINE E == Nat \cup {Bad}
    <2>0. \A v \in E, w \in E : {<<>>, <<v>>, <<v, w>>} \subseteq Entries
      <3> TAKE v \in E, w \in E
      <3>1. <<v>> \in Seq(E) /\ <<v, w>> \in Seq(E) /\ <<>> \in Seq(E)
        <4> HIDE DEF E
        <4> QED OBVIOUS
      <3> QED BY <3>1 DEF Entries
    <2>1. \A v \in EnvChains \cup {NoList, <<2>>, <<3, 3>>, <<Bad>>} :
             v \in Entries \cup {NoList}
      <3>1. {1, 2, 3, Bad} \subseteq E
        OBVIOUS
      <3> HIDE DEF E
      <3>2. /\ {<<>>, <<1>>, <<1, 2>>} \subseteq Entries
            /\ {<<>>, <<1>>, <<1, 1>>} \subseteq Entries
            /\ {<<>>, <<1>>, <<1, Bad>>} \subseteq Entries
            /\ {<<>>, <<3>>, <<3, 3>>} \subseteq Entries
            /\ {<<>>, <<2>>, <<2, 2>>} \subseteq Entries
            /\ {<<>>, <<Bad>>, <<Bad, Bad>>} \subseteq Entries
        BY <2>0, <3>1
      <3> HIDE DEF Entries
      <3> QED BY <3>2 DEF EnvChains
    <2>2. EnvironmentOK(probe.env)
      BY <2>1 DEF Environments, EnvironmentOK, Numeric, Read, Unset, Bad
    <2>3. FileOK(probe.file)
      <3>1. \A v \in {<<>>, <<2>>, <<1, 1>>, <<3, 3>>} : v \in Entries
        <4>1. {1, 2, 3} \subseteq E
          OBVIOUS
        <4> HIDE DEF E
        <4>2. /\ {<<>>, <<2>>, <<2, 2>>} \subseteq Entries
              /\ {<<>>, <<1>>, <<1, 1>>} \subseteq Entries
              /\ {<<>>, <<3>>, <<3, 3>>} \subseteq Entries
          BY <2>0, <4>1
        <4> QED BY <4>2
      <3> QED BY <3>1 DEF Files, FileOK, Numeric
    <2> QED BY <1>1, <2>2, <2>3
  <1>3. Spec => []ConfigMeetsAssumptions
    BY <1>2, CasesAlways, PTL
  <1> QED BY <1>1, <1>3
==============================================================================
