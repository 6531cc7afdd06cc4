---------------------------- MODULE WireProofs -----------------------------
(***************************************************************************)
(* Proofs about the parsers of TxParse, for wires of any length.           *)
(*                                                                         *)
(* At(w, p, v): v stands on the wire w from p on.  Each parser has a lemma *)
(* of what it reads where the bytes it looks for stand, and one that it    *)
(* reads the same from every longer wire that begins alike (Begins); the   *)
(* repetitions of items (Runs) and the glued parts of a transaction        *)
(* (Glues) carry both over to any number of inputs, outputs and witness    *)
(* items.  A proper prefix is refused because a parser that read it would  *)
(* have ended at the same place of the whole wire.                         *)
(***************************************************************************)
EXTENDS AlgorithmProofs, FiniteSetTheorems

-----------------------------------------------------------------------------
(* TxParse: what stands where on a wire. *)

\* What the parsers read.
Wire == Seq(Nat)

\* v stands on w from position p on.
At(w, p, v) ==
    /\ p \in Nat \ {0} /\ p + Len(v) <= Len(w) + 1
    /\ \A i \in 1 .. Len(v) : w[p + i - 1] = v[i]

LEMMA WireFacts == Wide \in Nat /\ MaxValue \in Nat /\ MaxBranch \in Nat /\ Wide > 4
  BY WireAssumption

\* take(n) moves by n, within the wire.
LEMMA TakeFacts ==
  ASSUME NEW w \in Wire, NEW p \in Nat, NEW n \in Nat
  PROVE  /\ Take(w, p, n) \in Nat
         /\ Take(w, p, n) # Failed <=> p # Failed /\ p + n <= Len(w) + 1
         /\ Take(w, p, n) # Failed => Take(w, p, n) = p + n
  <1>1. Len(w) \in Nat
    BY DEF Wire
  <1> QED BY <1>1 DEF Take, Failed

\* A varint is two numbers long at most, and read without a failure only
\* where it stands within the wire.
LEMMA VarintFacts ==
  ASSUME NEW w \in Wire, NEW p \in Nat
  PROVE  /\ ReadVarint(w, p) = [n |-> ReadVarint(w, p).n, p |-> ReadVarint(w, p).p]
         /\ ReadVarint(w, p).n \in Nat /\ ReadVarint(w, p).p \in Nat
         /\ ReadVarint(w, p).p # Failed =>
              p # Failed /\ p < ReadVarint(w, p).p /\ ReadVarint(w, p).p <= Len(w) + 1
  <1>1. Len(w) \in Nat /\ \A i \in 1 .. Len(w) : w[i] \in Nat
    BY DEF Wire
  <1>2. Take(w, p, 1) # Failed => p \in 1 .. Len(w)
    BY <1>1 DEF Take, Failed
  <1>3. Take(w, p, 2) # Failed => p \in 1 .. Len(w) /\ p + 1 \in 1 .. Len(w)
    BY <1>1 DEF Take, Failed
  <1>4. CASE Take(w, p, 1) = Failed
    BY <1>4 DEF ReadVarint, Failed
  <1>5. CASE Take(w, p, 1) # Failed /\ w[p] < Wide
    BY <1>1, <1>2, <1>5 DEF ReadVarint, Failed
  <1>6. CASE Take(w, p, 1) # Failed /\ ~(w[p] < Wide) /\ Take(w, p, 2) = Failed
    BY <1>6 DEF ReadVarint, Failed
  <1>7. CASE Take(w, p, 1) # Failed /\ ~(w[p] < Wide) /\ Take(w, p, 2) # Failed
    BY <1>1, <1>3, <1>7 DEF ReadVarint, Failed
  <1> QED BY <1>4, <1>5, <1>6, <1>7

\* What SubSeq cuts out of a wire.
Cut(w, p, n) == SubSeq(w, p, p + n - 1)

\* A stretch of the wire: its length and its numbers.
LEMMA CutFacts ==
  ASSUME NEW w \in Wire, NEW p \in Nat \ {0}, NEW n \in Nat, p + n <= Len(w) + 1
  PROVE  /\ Cut(w, p, n) \in Wire
         /\ Len(Cut(w, p, n)) = n
         /\ \A i \in 1 .. n : Cut(w, p, n)[i] = w[p + i - 1]
  <1>1. w \in Seq(Nat) /\ Len(w) \in Nat /\ \A i \in 1 .. Len(w) : w[i] \in Nat
    BY DEF Wire
  <1>2. p \in Int /\ p + n - 1 \in Int /\ \A i \in p .. p + n - 1 : w[i] \in Nat
    BY <1>1
  <1> DEFINE q == p + n - 1
             v == SubSeq(w, p, q)
  <1>3. q \in Int /\ \A i \in p .. q : w[i] \in Nat
    BY <1>2
  <1>0. q = p + n - 1
    OBVIOUS
  <1> HIDE DEF q
  <1>4. v \in Seq(Nat)
    BY <1>2, <1>3, SubSeqProperties
  <1>5. Len(v) = IF p <= q THEN q - p + 1 ELSE 0
    BY <1>2, <1>3, SubSeqProperties
  <1>6. \A i \in 1 .. q - p + 1 : v[i] = w[p + i - 1]
    BY <1>2, <1>3, SubSeqProperties
  <1> HIDE DEF v
  <1>7. Len(v) = n /\ \A i \in 1 .. n : v[i] = w[p + i - 1]
    BY <1>0, <1>3, <1>5, <1>6
  <1> QED BY <1>4, <1>7, <1>0 DEF v, Wire, Cut

\* A script is read where its length and its numbers stand within the wire.
LEMMA ScriptForm ==
  ASSUME NEW w \in Wire, NEW p \in Nat, NEW n \in Nat, NEW q \in Nat,
         ReadVarint(w, p) = [n |-> n, p |-> q]
  PROVE  Script(w, p) = IF q # Failed /\ q + n <= Len(w) + 1
                          THEN [script |-> Cut(w, q, n), p |-> q + n]
                          ELSE [script |-> <<>>, p |-> Failed]
  <1>1. ReadVarint(w, p).n = n /\ ReadVarint(w, p).p = q
    OBVIOUS
  <1> DEFINE end == Take(w, q, n)
  <1>2. Script(w, p) = [script |-> IF end = Failed THEN <<>> ELSE SubSeq(w, q, end - 1),
                        p |-> end]
    BY <1>1 DEF Script
  <1>3. end = IF q # Failed /\ q + n <= Len(w) + 1 THEN q + n ELSE Failed
    BY DEF Take
  <1>4. Len(w) \in Nat
    BY DEF Wire
  <1> HIDE DEF end
  <1>5. CASE q # Failed /\ q + n <= Len(w) + 1
    <2>1. end = q + n /\ end # Failed
      BY <1>3, <1>5 DEF Failed
    <2>2. Script(w, p) = [script |-> SubSeq(w, q, q + n - 1), p |-> q + n]
      <3>1. Script(w, p) = [script |-> SubSeq(w, q, end - 1), p |-> end]
        BY <1>2, <2>1
      <3> DEFINE a == SubSeq(w, q, end - 1)
                 b == SubSeq(w, q, q + n - 1)
      <3>2. a = b
        BY <2>1
      <3>3. Script(w, p) = [script |-> a, p |-> end]
        BY <3>1
      <3> HIDE DEF a, b
      <3>4. Script(w, p) = [script |-> b, p |-> q + n]
        BY <2>1, <3>2, <3>3
      <3> QED BY <3>4 DEF b
    <2> QED BY <1>5, <2>2 DEF Cut
  <1>6. CASE ~(q # Failed /\ q + n <= Len(w) + 1)
    <2>1. end = Failed
      BY <1>3, <1>6
    <2>2. Script(w, p) = [script |-> <<>>, p |-> Failed]
      BY <1>2, <2>1
    <2> QED BY <1>6, <2>2
  <1> QED BY <1>5, <1>6

\* A script that is read ends within the wire.
LEMMA ScriptFacts ==
  ASSUME NEW w \in Wire, NEW p \in Nat
  PROVE  /\ Script(w, p) = [script |-> Script(w, p).script, p |-> Script(w, p).p]
         /\ Script(w, p).script \in Wire /\ Script(w, p).p \in Nat
         /\ Script(w, p).p # Failed =>
              p # Failed /\ p < Script(w, p).p /\ Script(w, p).p <= Len(w) + 1
  <1> DEFINE n == ReadVarint(w, p).n
             q == ReadVarint(w, p).p
  <1>1. ReadVarint(w, p) = [n |-> n, p |-> q] /\ n \in Nat /\ q \in Nat
        /\ (q # Failed => p # Failed /\ p < q)
    BY VarintFacts
  <1>2. Len(w) \in Nat
    BY DEF Wire
  <1> HIDE DEF n, q
  <1>3. Script(w, p) = IF q # Failed /\ q + n <= Len(w) + 1
                         THEN [script |-> Cut(w, q, n), p |-> q + n]
                         ELSE [script |-> <<>>, p |-> Failed]
    BY <1>1, ScriptForm
  <1>4. CASE q # Failed /\ q + n <= Len(w) + 1
    <2>1. q \in Nat \ {0} /\ p # Failed /\ p < q + n
      BY <1>1, <1>4 DEF Failed
    <2>2. Cut(w, q, n) \in Wire
      BY <1>1, <1>4, <2>1, CutFacts
    <2> QED BY <1>1, <1>3, <1>4, <2>1, <2>2
  <1>5. CASE ~(q # Failed /\ q + n <= Len(w) + 1)
    <2>1. Script(w, p) = [script |-> <<>>, p |-> Failed]
      BY <1>3, <1>5
    <2>2. <<>> \in Wire
      BY DEF Wire
    <2> QED BY <2>1, <2>2 DEF Failed
  <1> QED BY <1>4, <1>5

-----------------------------------------------------------------------------

\* A wire stands on itself.
LEMMA AtSelf ==
  ASSUME NEW w \in Wire
  PROVE  At(w, 1, w)
  <1>1. Len(w) \in Nat
    BY DEF Wire
  <1> QED BY <1>1 DEF At

\* Two wires in one: the numbers of the first, then of the second.
LEMMA Concat ==
  ASSUME NEW a \in Wire, NEW b \in Wire
  PROVE  /\ a \o b \in Wire /\ Len(a \o b) = Len(a) + Len(b)
         /\ Len(a) \in Nat /\ Len(b) \in Nat
         /\ \A i \in 1 .. Len(a) : (a \o b)[i] = a[i]
         /\ \A i \in 1 .. Len(b) : (a \o b)[Len(a) + i] = b[i]
  <1>1. a \in Seq(Nat) /\ b \in Seq(Nat) /\ Len(a) \in Nat /\ Len(b) \in Nat
    BY DEF Wire
  <1>2. a \o b \in Seq(Nat) /\ Len(a \o b) = Len(a) + Len(b)
    BY <1>1
  <1>3. \A i \in 1 .. Len(a) + Len(b) :
            (a \o b)[i] = IF i <= Len(a) THEN a[i] ELSE b[i - Len(a)]
    BY <1>1
  <1>4. ASSUME NEW i \in 1 .. Len(a) PROVE (a \o b)[i] = a[i]
    BY <1>1, <1>3
  <1>5. ASSUME NEW i \in 1 .. Len(b) PROVE (a \o b)[Len(a) + i] = b[i]
    <2>1. Len(a) + i \in 1 .. Len(a) + Len(b) /\ ~(Len(a) + i <= Len(a)) /\ Len(a) + i - Len(a) = i
      BY <1>1
    <2> QED BY <1>3, <2>1
  <1> QED BY <1>1, <1>2, <1>4, <1>5 DEF Wire

LEMMA ConcatLen ==
  ASSUME NEW a \in Wire, NEW b \in Wire
  PROVE  a \o b \in Wire /\ Len(a \o b) = Len(a) + Len(b)
  BY Concat

\* The parts of what stands on a wire stand one after the other.
LEMMA AtParts ==
  ASSUME NEW w \in Wire, NEW p, NEW a \in Wire, NEW b \in Wire, At(w, p, a \o b)
  PROVE  At(w, p, a) /\ At(w, p + Len(a), b)
  <1> DEFINE c == a \o b
  <1>1. Len(c) = Len(a) + Len(b) /\ Len(a) \in Nat /\ Len(b) \in Nat
        /\ (\A i \in 1 .. Len(a) : c[i] = a[i])
        /\ (\A i \in 1 .. Len(b) : c[Len(a) + i] = b[i])
    BY Concat
  <1>2. Len(w) \in Nat /\ p \in Nat \ {0} /\ p + Len(c) <= Len(w) + 1
        /\ (\A i \in 1 .. Len(c) : w[p + i - 1] = c[i])
    BY DEF At, Wire
  <1> HIDE DEF c
  <1>3. ASSUME NEW i \in 1 .. Len(a) PROVE w[p + i - 1] = a[i]
    <2>1. i \in 1 .. Len(c)
      BY <1>1
    <2> QED BY <1>1, <1>2, <2>1
  <1>4. ASSUME NEW i \in 1 .. Len(b) PROVE w[p + Len(a) + i - 1] = b[i]
    <2>1. Len(a) + i \in 1 .. Len(c) /\ p + (Len(a) + i) - 1 = p + Len(a) + i - 1
      BY <1>1, <1>2
    <2>2. w[p + (Len(a) + i) - 1] = c[Len(a) + i]
      BY <1>2, <2>1
    <2> QED BY <1>1, <2>1, <2>2
  <1>5. p + Len(a) \in Nat \ {0} /\ p + Len(a) <= Len(w) + 1 /\ p + Len(a) + Len(b) <= Len(w) + 1
    BY <1>1, <1>2
  <1>6. At(w, p, a)
    BY <1>2, <1>3, <1>5 DEF At
  <1>7. At(w, p + Len(a), b)
    BY <1>4, <1>5 DEF At
  <1> QED BY <1>6, <1>7

LEMMA OneNumber ==
  ASSUME NEW x \in Nat
  PROVE  <<x>> \in Wire /\ Len(<<x>>) = 1 /\ <<x>>[1] = x
  BY DEF Wire

\* A field of one number is read back.
LEMMA FieldAt ==
  ASSUME NEW w \in Wire, NEW p, NEW x \in Nat, At(w, p, <<x>>)
  PROVE  /\ p \in Nat \ {0} /\ p \in 1 .. Len(w)
         /\ Take(w, p, 1) = p + 1 /\ w[p] = x /\ Field(w, p, 1) = <<x>>
  <1>1. Len(w) \in Nat /\ p \in Nat \ {0} /\ p + 1 <= Len(w) + 1 /\ w[p] = x
    <2>1. Len(<<x>>) = 1 /\ <<x>>[1] = x
      BY OneNumber
    <2>2. p \in Nat \ {0} /\ p + 1 <= Len(w) + 1 /\ w[p + 1 - 1] = x
      BY <2>1 DEF At
    <2>3. p + 1 - 1 = p
      BY <2>2
    <2> QED BY <2>2, <2>3 DEF Wire
  <1>2. Take(w, p, 1) = p + 1
    BY <1>1 DEF Take, Failed
  <1> DEFINE v == Cut(w, p, 1)
  <1>3. v \in Seq(Nat) /\ Len(v) = 1 /\ \A i \in 1 .. 1 : v[i] = w[p + i - 1]
    <2>1. 1 \in Nat
      OBVIOUS
    <2> QED BY <1>1, <2>1, CutFacts DEF Wire
  <1> HIDE DEF v
  <1>4. v[1] = x
    <2>1. v[1] = w[p + 1 - 1] /\ p + 1 - 1 = p
      BY <1>1, <1>3
    <2> QED BY <1>1, <2>1
  <1>5. v = <<x>>
    BY <1>3, <1>4
  <1>6. Field(w, p, 1) = SubSeq(w, p, p + 1 - 1)
    BY <1>1, <1>2 DEF Field, Failed
  <1> QED BY <1>1, <1>2, <1>5, <1>6 DEF v, Cut

\* A varint is written in one number or in two.
LEMMA EncFacts ==
  ASSUME NEW n \in Nat, NEW wide \in BOOLEAN
  PROVE  /\ Enc(n, wide) \in Wire
         /\ \/ Enc(n, wide) = <<n>> /\ n < Wide
            \/ Enc(n, wide) = <<Wide, n>>
         /\ Len(Enc(n, wide)) \in 1 .. 2
  <1>1. Wide \in Nat
    BY WireFacts
  <1>2. \/ Enc(n, wide) = <<n>> /\ n < Wide
        \/ Enc(n, wide) = <<Wide, n>>
    BY DEF Enc, WriteVarint
  <1>3. <<n>> \in Wire /\ Len(<<n>>) = 1
    BY DEF Wire
  <1>4. <<Wide, n>> \in Wire /\ Len(<<Wide, n>>) = 2
    BY <1>1 DEF Wire
  <1> QED BY <1>2, <1>3, <1>4

\* A varint is read back, short or long.
LEMMA VarintAt ==
  ASSUME NEW w \in Wire, NEW p, NEW n \in Nat, NEW wide \in BOOLEAN, At(w, p, Enc(n, wide))
  PROVE  /\ ReadVarint(w, p) = [n |-> n, p |-> p + Len(Enc(n, wide))]
         /\ p + Len(Enc(n, wide)) \in Nat \ {0}
  <1>1. Wide \in Nat /\ Len(w) \in Nat
    BY WireFacts DEF Wire
  <1>2. CASE Enc(n, wide) = <<n>> /\ n < Wide
    <2>1. At(w, p, <<n>>)
      BY <1>2
    <2>2. p \in Nat \ {0} /\ Take(w, p, 1) = p + 1 /\ w[p] = n
      BY <2>1, FieldAt
    <2>3. Len(Enc(n, wide)) = 1
      BY <1>2, OneNumber
    <2> QED BY <1>1, <1>2, <2>2, <2>3 DEF ReadVarint, Failed
  <1>3. CASE Enc(n, wide) = <<Wide, n>>
    <2>1. Len(<<Wide, n>>) = 2 /\ <<Wide, n>>[1] = Wide /\ <<Wide, n>>[2] = n
      OBVIOUS
    <2>2. p \in Nat \ {0} /\ p + 2 <= Len(w) + 1
          /\ \A i \in 1 .. 2 : w[p + i - 1] = <<Wide, n>>[i]
      BY <1>3, <2>1 DEF At
    <2>3. w[p + 1 - 1] = Wide /\ w[p + 2 - 1] = n
      BY <2>1, <2>2
    <2>4. p + 1 - 1 = p /\ p + 2 - 1 = p + 1
      BY <2>2
    <2>5. w[p] = Wide /\ w[p + 1] = n
      BY <2>3, <2>4
    <2>6. Take(w, p, 1) # Failed /\ Take(w, p, 2) # Failed
      BY <1>1, <2>2 DEF Take, Failed
    <2>7. ReadVarint(w, p) = [n |-> n, p |-> p + 2]
      BY <1>1, <2>5, <2>6 DEF ReadVarint
    <2> QED BY <1>3, <2>1, <2>2, <2>7
  <1> QED BY <1>2, <1>3, EncFacts

LEMMA EncScriptFacts ==
  ASSUME NEW s \in Wire, NEW wide \in BOOLEAN
  PROVE  /\ EncScript(s, wide) \in Wire
         /\ Enc(Len(s), wide) \in Wire /\ Len(s) \in Nat
         /\ Len(EncScript(s, wide)) = Len(Enc(Len(s), wide)) + Len(s)
  <1>1. Len(s) \in Nat
    BY DEF Wire
  <1>2. Enc(Len(s), wide) \in Wire
    BY <1>1, EncFacts
  <1>3. /\ Enc(Len(s), wide) \o s \in Wire
        /\ Len(Enc(Len(s), wide) \o s) = Len(Enc(Len(s), wide)) + Len(s)
    BY <1>2, Concat
  <1> QED BY <1>1, <1>2, <1>3 DEF EncScript

\* A script is read back.
LEMMA ScriptAt ==
  ASSUME NEW w \in Wire, NEW p, NEW s \in Wire, NEW wide \in BOOLEAN,
         At(w, p, EncScript(s, wide))
  PROVE  /\ Script(w, p) = [script |-> s, p |-> p + Len(EncScript(s, wide))]
         /\ p + Len(EncScript(s, wide)) \in Nat \ {0}
  <1> DEFINE e == Enc(Len(s), wide)
             q == p + Len(e)
             n == Len(s)
  <1>1. e \in Wire /\ Len(e) \in Nat /\ n \in Nat /\ Len(EncScript(s, wide)) = Len(e) + n
        /\ EncScript(s, wide) = e \o s /\ Len(w) \in Nat
    BY EncScriptFacts DEF EncScript, Wire
  <1>2. At(w, p, e) /\ At(w, q, s) /\ p \in Nat \ {0}
    <2> HIDE DEF e
    <2>1. At(w, p, e \o s)
      BY <1>1
    <2>2. At(w, p, e) /\ At(w, p + Len(e), s)
      BY <1>1, <2>1, AtParts
    <2> QED BY <2>2 DEF At
  <1>3. ReadVarint(w, p) = [n |-> n, p |-> q] /\ q \in Nat \ {0}
    BY <1>1, <1>2, VarintAt
  <1>4. q + n <= Len(w) + 1 /\ \A i \in 1 .. n : w[q + i - 1] = s[i]
    BY <1>2 DEF At
  <1> HIDE DEF e, q, n
  <1>5. Script(w, p) = [script |-> Cut(w, q, n), p |-> q + n]
    <2>1. q # Failed /\ q \in Nat /\ p \in Nat
      BY <1>2, <1>3 DEF Failed
    <2>2. Script(w, p) = IF q # Failed /\ q + n <= Len(w) + 1
                           THEN [script |-> Cut(w, q, n), p |-> q + n]
                           ELSE [script |-> <<>>, p |-> Failed]
      BY <1>1, <1>3, <2>1, ScriptForm
    <2> QED BY <1>4, <2>1, <2>2
  <1> DEFINE v == Cut(w, q, n)
  <1>6. v \in Seq(Nat) /\ Len(v) = n /\ \A i \in 1 .. n : v[i] = w[q + i - 1]
    BY <1>1, <1>3, <1>4, CutFacts DEF Wire
  <1> HIDE DEF v
  <1>7. v = s
    <2>1. s \in Seq(Nat) /\ Len(s) = n
      BY DEF Wire, n
    <2>2. \A i \in 1 .. Len(v) : v[i] = s[i]
      BY <1>4, <1>6
    <2> QED BY <1>6, <2>1, <2>2, SeqEqual
  <1>8. q + n = p + Len(EncScript(s, wide))
    BY <1>1, <1>2 DEF q
  <1> QED BY <1>1, <1>3, <1>5, <1>7, <1>8 DEF v

-----------------------------------------------------------------------------
(* Longer wires.  What a parser reads from a wire, it reads from every     *)
(* longer one that begins alike.                                           *)

\* w begins with u.
Begins(w, u) ==
    /\ u \in Wire /\ w \in Wire /\ Len(u) <= Len(w)
    /\ \A i \in 1 .. Len(u) : u[i] = w[i]

\* Each reader finds on the longer wire what it found on the shorter.
LEMMA TakeGrows ==
  ASSUME NEW w, NEW u, Begins(w, u), NEW p \in Nat, NEW n \in Nat, Take(u, p, n) # Failed
  PROVE  Take(w, p, n) = Take(u, p, n)
  <1>1. Len(u) \in Nat /\ Len(w) \in Nat /\ Len(u) <= Len(w)
    BY DEF Begins, Wire
  <1> QED BY <1>1 DEF Take, Failed

LEMMA VarintGrows ==
  ASSUME NEW w, NEW u, Begins(w, u), NEW p \in Nat, ReadVarint(u, p).p # Failed
  PROVE  ReadVarint(w, p) = ReadVarint(u, p)
  <1>1. Len(u) \in Nat /\ Len(w) \in Nat /\ Len(u) <= Len(w)
        /\ \A i \in 1 .. Len(u) : u[i] = w[i]
    <2>1. u \in Seq(Nat) /\ w \in Seq(Nat) /\ Len(u) <= Len(w)
          /\ \A i \in 1 .. Len(u) : u[i] = w[i]
      BY Zenon DEF Begins, Wire
    <2>2. Len(u) \in Nat /\ Len(w) \in Nat
      BY <2>1, LenProperties
    <2> QED BY <2>1, <2>2
  <1>2. Take(u, p, 1) # Failed
    BY DEF ReadVarint
  <1>3. p \in 1 .. Len(u) /\ w[p] = u[p] /\ Take(w, p, 1) # Failed
    BY <1>1, <1>2 DEF Take, Failed
  <1>4. CASE u[p] < Wide
    BY <1>2, <1>3, <1>4 DEF ReadVarint
  <1>5. CASE ~(u[p] < Wide)
    <2>1. Take(u, p, 2) # Failed
      BY <1>2, <1>5 DEF ReadVarint
    <2>2. p + 1 \in 1 .. Len(u) /\ w[p + 1] = u[p + 1] /\ Take(w, p, 2) # Failed
      BY <1>1, <2>1 DEF Take, Failed
    <2> QED BY <1>2, <1>3, <1>5, <2>1, <2>2 DEF ReadVarint
  <1> QED BY <1>4, <1>5

LEMMA CutGrows ==
  ASSUME NEW w, NEW u, Begins(w, u), NEW p \in Nat \ {0}, NEW n \in Nat, p + n <= Len(u) + 1
  PROVE  Cut(w, p, n) = Cut(u, p, n)
  <1>1. u \in Wire /\ w \in Wire /\ Len(u) \in Nat /\ Len(w) \in Nat /\ Len(u) <= Len(w)
        /\ \A i \in 1 .. Len(u) : u[i] = w[i]
    BY DEF Begins, Wire
  <1>2. p + n <= Len(w) + 1
    BY <1>1
  <1> DEFINE a == Cut(u, p, n)
             b == Cut(w, p, n)
  <1>3. a \in Seq(Nat) /\ Len(a) = n /\ \A i \in 1 .. n : a[i] = u[p + i - 1]
    BY <1>1, CutFacts DEF Wire
  <1>4. b \in Seq(Nat) /\ Len(b) = n /\ \A i \in 1 .. n : b[i] = w[p + i - 1]
    BY <1>1, <1>2, CutFacts DEF Wire
  <1> HIDE DEF a, b
  <1>5. ASSUME NEW i \in 1 .. n PROVE a[i] = b[i]
    <2>1. p + i - 1 \in 1 .. Len(u)
      BY <1>1
    <2> QED BY <1>1, <1>3, <1>4, <2>1
  <1>6. a = b
    BY <1>3, <1>4, <1>5, SeqEqual
  <1> QED BY <1>6 DEF a, b

LEMMA FieldGrows ==
  ASSUME NEW w, NEW u, Begins(w, u), NEW p \in Nat, Take(u, p, 1) # Failed
  PROVE  Field(w, p, 1) = Field(u, p, 1) /\ w[p] = u[p]
  <1>1. Len(u) \in Nat /\ Len(w) \in Nat /\ Len(u) <= Len(w)
        /\ \A i \in 1 .. Len(u) : u[i] = w[i]
    BY DEF Begins, Wire
  <1>2. p \in Nat \ {0} /\ p + 1 <= Len(u) + 1 /\ p \in 1 .. Len(u)
    BY <1>1 DEF Take, Failed
  <1>3. Take(w, p, 1) # Failed
    BY <1>1, <1>2 DEF Take, Failed
  <1>4. Cut(w, p, 1) = Cut(u, p, 1)
    <2>1. 1 \in Nat
      OBVIOUS
    <2> QED BY <1>2, <2>1, CutGrows
  <1>5. Field(w, p, 1) = Cut(w, p, 1)
    BY <1>3 DEF Field, Cut
  <1>6. Field(u, p, 1) = Cut(u, p, 1)
    BY DEF Field, Cut
  <1> QED BY <1>1, <1>2, <1>4, <1>5, <1>6

LEMMA ScriptGrows ==
  ASSUME NEW w, NEW u, Begins(w, u), NEW p \in Nat, Script(u, p).p # Failed
  PROVE  Script(w, p) = Script(u, p)
  <1> DEFINE n == ReadVarint(u, p).n
             q == ReadVarint(u, p).p
  <1>1. u \in Wire /\ w \in Wire /\ Len(u) \in Nat /\ Len(w) \in Nat /\ Len(u) <= Len(w)
    BY DEF Begins, Wire
  <1>2. ReadVarint(u, p) = [n |-> n, p |-> q] /\ n \in Nat /\ q \in Nat
    BY <1>1, VarintFacts
  <1>a. q # Failed => ReadVarint(w, p) = ReadVarint(u, p)
    BY VarintGrows
  <1> HIDE DEF n, q
  <1>3. Script(u, p) = IF q # Failed /\ q + n <= Len(u) + 1
                         THEN [script |-> Cut(u, q, n), p |-> q + n]
                         ELSE [script |-> <<>>, p |-> Failed]
    BY <1>1, <1>2, ScriptForm
  <1>4. q # Failed /\ q + n <= Len(u) + 1
    BY <1>3
  <1>5. ReadVarint(w, p) = [n |-> n, p |-> q]
    BY <1>2, <1>4, <1>a
  <1>6. Script(w, p) = IF q # Failed /\ q + n <= Len(w) + 1
                         THEN [script |-> Cut(w, q, n), p |-> q + n]
                         ELSE [script |-> <<>>, p |-> Failed]
    BY <1>1, <1>2, <1>5, ScriptForm
  <1>7. Cut(w, q, n) = Cut(u, q, n)
    <2>1. q \in Nat \ {0}
      BY <1>2, <1>4 DEF Failed
    <2> QED BY <1>2, <1>4, <2>1, CutGrows
  <1>8. q + n <= Len(w) + 1
    BY <1>1, <1>2, <1>4
  <1> QED BY <1>3, <1>4, <1>6, <1>7, <1>8

-----------------------------------------------------------------------------
(* Repeat.  The items the parsers repeat, each under a name, so that what  *)
(* holds of every repetition is proved once.                               *)

\* The items the parsers repeat, by name.
Item(kind, w, acc) ==
    CASE kind = "skip"    -> SkipInput(w, acc)
      [] kind = "output"  -> OutputItem(w, acc)
      [] kind = "in"      -> TakeInput(w, acc)
      [] kind = "out"     -> TakeOutput(w, acc)
      [] kind = "item"    -> TakeItem(w, acc)
      [] kind = "witness" -> TakeWitness(w, acc)

\* f holds what was read after each item.
Runs(f, kind, w, acc, n) ==
    f = [i \in 0 .. n |-> IF i = 0 THEN acc
                          ELSE IF f[i - 1].p = Failed THEN f[i - 1]
                          ELSE Item(kind, w, f[i - 1])]

\* A repetition has its states, one per item read.
LEMMA RunExists ==
  ASSUME NEW kind, NEW w, NEW acc, NEW n \in Nat
  PROVE  \E f : Runs(f, kind, w, acc, n)
  <1> DEFINE Level(a) == IF a.p = Failed THEN a ELSE Item(kind, w, a)
             Solves(g, m) == \A i \in 0 .. m : g[i] = IF i = 0 THEN acc ELSE Level(g[i - 1])
             T == {m \in Nat : \E g : Solves(g, m)}
  <1>0. ASSUME NEW f
        PROVE  Runs(f, kind, w, acc, n)
               <=> f = [i \in 0 .. n |-> IF i = 0 THEN acc ELSE Level(f[i - 1])]
    BY DEF Runs
  <1> HIDE DEF Level
  <1>1. 0 \in T
    <2>1. Solves([i \in 0 .. 0 |-> acc], 0)
      OBVIOUS
    <2> QED BY <2>1
  <1>2. ASSUME NEW m \in T PROVE m + 1 \in T
    <2>1. PICK g : Solves(g, m)
      OBVIOUS
    <2> DEFINE h == [i \in 0 .. m + 1 |-> IF i = m + 1 THEN Level(g[m]) ELSE g[i]]
    <2>2. Solves(h, m + 1)
      <3> SUFFICES ASSUME NEW i \in 0 .. m + 1
                   PROVE  h[i] = IF i = 0 THEN acc ELSE Level(h[i - 1])
        OBVIOUS
      <3>1. CASE i = m + 1
        <4>1. i # 0 /\ i - 1 = m /\ h[m] = g[m]
          BY <3>1
        <4> QED BY <3>1, <4>1
      <3>2. CASE i # m + 1
        <4>1. i \in 0 .. m /\ h[i] = g[i] /\ (i # 0 => h[i - 1] = g[i - 1])
          BY <3>2
        <4> QED BY <2>1, <4>1
      <3> QED BY <3>1, <3>2
    <2>3. m + 1 \in Nat
      OBVIOUS
    <2> QED BY <2>2, <2>3
  <1>3. n \in T
    <2> HIDE DEF T
    <2>1. T \in SUBSET Nat
      BY DEF T
    <2> QED BY <1>1, <1>2, <2>1, AllNumbers
  <1>4. PICK g : Solves(g, n)
    BY <1>3
  <1> DEFINE h == [i \in 0 .. n |-> g[i]]
  <1>5. h = [i \in 0 .. n |-> IF i = 0 THEN acc ELSE Level(h[i - 1])]
    BY <1>4
  <1> HIDE DEF h
  <1> QED BY <1>0, <1>5

\* What is read stays in a set that items do not leave, and nothing is read
\* past a failure.
LEMMA RunFacts ==
  ASSUME NEW f, NEW kind, NEW w, NEW acc, NEW n \in Nat, Runs(f, kind, w, acc, n),
         NEW D, acc \in D, \A a \in D : a.p # Failed => Item(kind, w, a) \in D
  PROVE  /\ \A i \in 0 .. n : f[i] \in D
         /\ f[n].p # Failed => \A i \in 0 .. n : f[i].p # Failed
  <1>1. f[0] = acc
    BY DEF Runs
  <1>2. ASSUME NEW i \in 1 .. n
        PROVE  f[i] = IF f[i - 1].p = Failed THEN f[i - 1] ELSE Item(kind, w, f[i - 1])
    <2>1. i \in 0 .. n /\ i # 0
      OBVIOUS
    <2> QED BY <2>1 DEF Runs
  <1> DEFINE T == {i \in Nat : i <= n => f[i] \in D}
             U == {i \in Nat : i <= n => (f[n].p # Failed => f[n - i].p # Failed)}
  <1>3. 0 \in T
    BY <1>1
  <1>4. ASSUME NEW i \in T PROVE i + 1 \in T
    <2>1. CASE i + 1 <= n
      <3>1. i + 1 \in 1 .. n /\ i + 1 - 1 = i /\ f[i] \in D
        BY <2>1
      <3>2. f[i + 1] = IF f[i].p = Failed THEN f[i] ELSE Item(kind, w, f[i])
        BY <1>2, <3>1
      <3>3. f[i + 1] \in D
        BY <3>1, <3>2
      <3> QED BY <3>3
    <2> QED BY <2>1
  <1>5. 0 \in U
    OBVIOUS
  <1>6. ASSUME NEW i \in U PROVE i + 1 \in U
    <2>1. CASE i + 1 <= n /\ f[n].p # Failed
      <3>1. n - i \in 1 .. n /\ n - i - 1 = n - (i + 1) /\ f[n - i].p # Failed
        BY <2>1
      <3>2. f[n - i] = IF f[n - i - 1].p = Failed THEN f[n - i - 1]
                       ELSE Item(kind, w, f[n - i - 1])
        BY <1>2, <3>1
      <3>3. f[n - (i + 1)].p # Failed
        BY <3>1, <3>2
      <3> QED BY <3>3
    <2> QED BY <2>1
  <1>7. T \in SUBSET Nat /\ U \in SUBSET Nat
    OBVIOUS
  <1> HIDE DEF T, U
  <1>8. T = Nat
    BY <1>3, <1>4, <1>7, AllNumbers
  <1>9. U = Nat
    BY <1>5, <1>6, <1>7, AllNumbers
  <1>10. \A i \in 0 .. n : f[i] \in D
    BY <1>8 DEF T
  <1>11. ASSUME f[n].p # Failed, NEW i \in 0 .. n PROVE f[i].p # Failed
    <2>1. n - i \in Nat /\ n - i <= n /\ n - (n - i) = i
      OBVIOUS
    <2>2. n - i \in U
      BY <1>9, <2>1
    <2> QED BY <1>11, <2>1, <2>2 DEF U
  <1> QED BY <1>10, <1>11

\* A repetition that does not fail on u reads the same from a longer wire.
LEMMA RunGrows ==
  ASSUME NEW f, NEW g, NEW kind, NEW u, NEW w, NEW acc, NEW n \in Nat,
         Runs(f, kind, u, acc, n), Runs(g, kind, w, acc, n),
         NEW D, acc \in D, \A a \in D : a.p # Failed => Item(kind, u, a) \in D,
         \A a \in D : a.p # Failed /\ Item(kind, u, a).p # Failed
                        => Item(kind, w, a) = Item(kind, u, a),
         f[n].p # Failed
  PROVE  g[n] = f[n]
  <1>1. f[0] = acc /\ g[0] = acc
    BY DEF Runs
  <1>2. \A i \in 0 .. n : f[i] \in D /\ f[i].p # Failed
    BY RunFacts
  <1>3. ASSUME NEW i \in 1 .. n, g[i - 1] = f[i - 1]
        PROVE  g[i] = f[i]
    <2>1. i \in 0 .. n /\ i # 0 /\ i - 1 \in 0 .. n
      OBVIOUS
    <2>2. f[i] = IF f[i - 1].p = Failed THEN f[i - 1] ELSE Item(kind, u, f[i - 1])
      BY <2>1 DEF Runs
    <2>3. g[i] = IF g[i - 1].p = Failed THEN g[i - 1] ELSE Item(kind, w, g[i - 1])
      BY <2>1 DEF Runs
    <2>4. f[i - 1] \in D /\ f[i - 1].p # Failed /\ f[i].p # Failed
      BY <1>2, <2>1
    <2> QED BY <1>3, <2>2, <2>3, <2>4
  <1> DEFINE T == {i \in Nat : i <= n => g[i] = f[i]}
  <1>4. 0 \in T
    BY <1>1
  <1>5. ASSUME NEW i \in T PROVE i + 1 \in T
    <2>1. CASE i + 1 <= n
      <3>1. i + 1 \in 1 .. n /\ i + 1 - 1 = i /\ g[i] = f[i]
        BY <2>1
      <3>2. g[i + 1] = f[i + 1]
        BY <1>3, <3>1
      <3> QED BY <3>2
    <2> QED BY <2>1
  <1>6. T \in SUBSET Nat
    OBVIOUS
  <1> HIDE DEF T
  <1>7. n \in T
    BY <1>4, <1>5, <1>6, AllNumbers
  <1> QED BY <1>7 DEF T

\* A repetition reads what its items read one after the other.
LEMMA RunReaches ==
  ASSUME NEW f, NEW kind, NEW w, NEW acc, NEW n \in Nat, Runs(f, kind, w, acc, n),
         NEW e, e[0] = acc,
         \A i \in 1 .. n : e[i - 1].p # Failed /\ Item(kind, w, e[i - 1]) = e[i]
  PROVE  f[n] = e[n]
  <1>1. f[0] = acc
    BY DEF Runs
  <1> DEFINE T == {i \in Nat : i <= n => f[i] = e[i]}
  <1>2. 0 \in T
    BY <1>1
  <1>3. ASSUME NEW i \in T PROVE i + 1 \in T
    <2>1. CASE i + 1 <= n
      <3>1. i + 1 \in 1 .. n /\ i + 1 \in 0 .. n /\ i + 1 # 0 /\ i + 1 - 1 = i /\ f[i] = e[i]
        BY <2>1
      <3>2. f[i + 1] = IF f[i].p = Failed THEN f[i] ELSE Item(kind, w, f[i])
        BY <3>1 DEF Runs
      <3>3. e[i].p # Failed /\ Item(kind, w, e[i]) = e[i + 1]
        BY <3>1
      <3>4. f[i + 1] = e[i + 1]
        BY <3>1, <3>2, <3>3
      <3> QED BY <3>4
    <2> QED BY <2>1
  <1>4. T \in SUBSET Nat
    OBVIOUS
  <1> HIDE DEF T
  <1>5. n \in T
    BY <1>2, <1>3, <1>4, AllNumbers
  <1> QED BY <1>5 DEF T

-----------------------------------------------------------------------------
(* FlattenSeq, part by part: g[i] is the first i parts in one.              *)

\* g[i] is the first i parts glued.
Glues(g, parts) ==
    /\ g \in [0 .. Len(parts) -> Wire] /\ g[0] = <<>>
    /\ \A i \in 1 .. Len(parts) : g[i] = g[i - 1] \o parts[i]

\* FlattenSeq glues its parts from the first on.
LEMMA GluedParts ==
  ASSUME NEW parts \in Seq(Wire)
  PROVE  \E g : Glues(g, parts) /\ FlattenSeq(parts) = g[Len(parts)]
  <1> DEFINE n == Len(parts)
  <1>0. n \in Nat /\ \A i \in 1 .. n : parts[i] \in Wire
    OBVIOUS
  <1>e. <<>> \in Wire
    BY DEF Wire
  <1>1. CASE n = 0
    <2> DEFINE g == [i \in 0 .. n |-> <<>>]
    <2>1. g \in [0 .. n -> Wire] /\ g[0] = <<>> /\ g[n] = <<>>
      BY <1>1, <1>e
    <2>2. \A i \in 1 .. n : g[i] = g[i - 1] \o parts[i]
      BY <1>1
    <2>3. FlattenSeq(parts) = parts /\ parts = <<>>
      BY <1>1 DEF FlattenSeq
    <2> HIDE DEF g
    <2>4. FlattenSeq(parts) = g[n]
      BY <2>1, <2>3
    <2> QED BY <2>1, <2>2, <2>4 DEF Glues
  <1>2. CASE n # 0
    <2>1. PICK f : /\ f[1] = parts[1]
                   /\ \A i \in 2 .. n : f[i] = f[i - 1] \o parts[i]
                   /\ FlattenSeq(parts) = f[n]
      BY <1>2, FlattenFacts
    <2> DEFINE T == {i \in Nat : i + 1 <= n => f[i + 1] \in Wire}
    <2> HIDE DEF n
    <2>2. 0 \in T
      BY <1>0, <1>2, <2>1
    <2>3. ASSUME NEW i \in T PROVE i + 1 \in T
      <3>1. CASE i + 1 + 1 <= n
        <4> DEFINE j == i + 2
        <4>1. j \in 2 .. n /\ j \in 1 .. n /\ j - 1 = i + 1 /\ i + 1 + 1 = j
              /\ f[i + 1] \in Wire
          BY <1>0, <3>1
        <4> HIDE DEF j
        <4>2. f[j] = f[j - 1] \o parts[j]
          BY <2>1, <4>1
        <4>3. f[j - 1] \in Wire /\ parts[j] \in Wire
          BY <1>0, <4>1
        <4>a. f[j - 1] \o parts[j] \in Wire
          BY <4>3, Concat
        <4>4. f[i + 1 + 1] \in Wire
          BY <4>1, <4>2, <4>a
        <4> QED BY <4>4
      <3> QED BY <3>1
    <2>4. T \in SUBSET Nat
      OBVIOUS
    <2>5. T = Nat
      <3> HIDE DEF T
      <3> QED BY <2>2, <2>3, <2>4, AllNumbers
    <2>6. ASSUME NEW i \in 1 .. n PROVE f[i] \in Wire
      <3>1. i - 1 \in Nat /\ i - 1 + 1 = i /\ i <= n
        BY <1>0
      <3>2. i - 1 \in T
        <4> HIDE DEF T
        <4> QED BY <2>5, <3>1
      <3> QED BY <3>1, <3>2
    <2> DEFINE g == [i \in 0 .. n |-> IF i = 0 THEN <<>> ELSE f[i]]
    <2>7. g \in [0 .. n -> Wire] /\ g[0] = <<>>
      BY <1>0, <1>e, <2>6
    <2>8. ASSUME NEW i \in 1 .. n PROVE g[i] = g[i - 1] \o parts[i]
      <3>1. i \in 0 .. n /\ i # 0 /\ g[i] = f[i]
        OBVIOUS
      <3>2. CASE i = 1
        <4>1. parts[1] \in Seq(Nat) /\ g[i - 1] = <<>> /\ f[1] = parts[1]
          BY <1>0, <2>1, <3>2 DEF Wire
        <4>2. <<>> \o parts[1] = parts[1]
          BY <4>1
        <4> HIDE DEF g
        <4> QED BY <3>1, <3>2, <4>1, <4>2
      <3>3. CASE i # 1
        <4>0. i \in 2 .. n /\ i - 1 \in 0 .. n /\ i - 1 # 0
          BY <1>0, <3>3
        <4>1. i \in 2 .. n /\ g[i - 1] = f[i - 1]
          BY <4>0
        <4>2. f[i] = f[i - 1] \o parts[i]
          BY <2>1, <4>1
        <4> HIDE DEF g
        <4> QED BY <3>1, <4>1, <4>2
      <3> QED BY <3>2, <3>3
    <2>9. FlattenSeq(parts) = g[n]
      BY <1>0, <1>2, <2>1
    <2> HIDE DEF g
    <2> QED BY <2>7, <2>8, <2>9 DEF Glues, n
  <1> QED BY <1>1, <1>2

\* The parts of what stands on a wire stand where the ones before them end.
LEMMA PartsAt ==
  ASSUME NEW parts \in Seq(Wire), NEW g, Glues(g, parts), NEW w \in Wire, NEW p,
         At(w, p, g[Len(parts)])
  PROVE  \A i \in 1 .. Len(parts) : At(w, p + Len(g[i - 1]), parts[i])
  <1> DEFINE n == Len(parts)
  <1>0. n \in Nat /\ \A i \in 1 .. n : parts[i] \in Wire
    OBVIOUS
  <1>1. (\A i \in 0 .. n : g[i] \in Wire) /\ \A i \in 1 .. n : g[i] = g[i - 1] \o parts[i]
    BY DEF Glues
  <1> HIDE DEF n
  <1>2. ASSUME NEW i \in 1 .. n, At(w, p, g[i])
        PROVE  At(w, p, g[i - 1]) /\ At(w, p + Len(g[i - 1]), parts[i])
    <2>1. i - 1 \in 0 .. n
      BY <1>0
    <2>2. g[i - 1] \in Wire /\ parts[i] \in Wire
      BY <1>0, <1>1, <2>1
    <2>3. g[i] = g[i - 1] \o parts[i]
      BY <1>1, Zenon
    <2>4. At(w, p, g[i - 1] \o parts[i])
      BY <1>2, <2>3, Zenon
    <2> QED BY <2>2, <2>4, AtParts
  <1> DEFINE T == {i \in Nat : i <= n => At(w, p, g[n - i])}
  <1>3. 0 \in T
    BY <1>0 DEF n
  <1>4. ASSUME NEW i \in T PROVE i + 1 \in T
    <2>1. CASE i + 1 <= n
      <3>1. n - i \in 1 .. n /\ n - i - 1 = n - (i + 1) /\ At(w, p, g[n - i])
        BY <1>0, <2>1
      <3>2. At(w, p, g[n - i - 1])
        BY <1>2, <3>1
      <3>3. At(w, p, g[n - (i + 1)])
        BY <3>1, <3>2
      <3> QED BY <3>3
    <2> QED BY <2>1
  <1>5. T \in SUBSET Nat
    OBVIOUS
  <1>6. T = Nat
    <2> HIDE DEF T
    <2> QED BY <1>3, <1>4, <1>5, AllNumbers
  <1>7. ASSUME NEW i \in 1 .. n PROVE At(w, p + Len(g[i - 1]), parts[i])
    <2>0. n - i \in Nat /\ n - i <= n /\ n - (n - i) = i
      BY <1>0
    <2>1. n - i \in T
      <3> HIDE DEF T
      <3> QED BY <1>6, <2>0
    <2>2. At(w, p, g[i])
      BY <2>0, <2>1
    <2> QED BY <1>2, <2>2
  <1> QED BY <1>7 DEF n

-----------------------------------------------------------------------------
(* Inputs and outputs on a wire. *)

Input == [prev : Nat, script : Wire]
Output == [value : Nat, script : Wire]
\* A transaction with inputs and outputs of numbers.
TxOK(tx) == tx.ins \in Seq(Input) /\ tx.ins # <<>> /\ tx.outs \in Seq(Output) /\ tx.outs # <<>>

\* The bytes of an input, and where its fields stand.
LEMMA InputParts ==
  ASSUME NEW in \in Input, NEW wide \in BOOLEAN
  PROVE  /\ InputBytes(in, wide) \in Wire
         /\ Len(InputBytes(in, wide)) = Len(EncScript(in.script, wide)) + 2
         /\ Len(EncScript(in.script, wide)) \in Nat
         /\ \A w \in Wire : \A p : At(w, p, InputBytes(in, wide)) =>
              /\ p \in Nat \ {0} /\ At(w, p, <<in.prev>>)
              /\ At(w, p + 1, EncScript(in.script, wide))
              /\ At(w, p + 1 + Len(EncScript(in.script, wide)), << 4 >>)
  <1> DEFINE a == <<in.prev>>
             b == EncScript(in.script, wide)
             c == << 4 >>
  <1>1. in.prev \in Nat /\ in.script \in Wire
    BY DEF Input
  <1>2. b \in Wire /\ Len(b) \in Nat
    BY <1>1, EncScriptFacts DEF Wire
  <1>3. a \in Wire /\ Len(a) = 1 /\ c \in Wire /\ Len(c) = 1
    BY <1>1, OneNumber
  <1> HIDE DEF a, b, c
  <1>4. a \o b \in Wire /\ Len(a \o b) = 1 + Len(b)
    <2>1. a \o b \in Wire /\ Len(a \o b) = Len(a) + Len(b)
      BY <1>2, <1>3, ConcatLen, Zenon
    <2> QED BY <1>3, <2>1
  <1> DEFINE ab == a \o b
  <1>5. ab \in Wire /\ Len(ab) = 1 + Len(b)
    BY <1>4
  <1> HIDE DEF ab
  <1>6. ab \o c \in Wire /\ Len(ab \o c) = Len(ab) + 1
    <2>1. ab \o c \in Wire /\ Len(ab \o c) = Len(ab) + Len(c)
      BY <1>3, <1>5, ConcatLen, Zenon
    <2> QED BY <1>3, <2>1
  <1>7. InputBytes(in, wide) = ab \o c
    BY DEF InputBytes, ab, a, b, c
  <1>8. ASSUME NEW w \in Wire, NEW p, At(w, p, ab \o c)
        PROVE  p \in Nat \ {0} /\ At(w, p, a) /\ At(w, p + 1, b) /\ At(w, p + 1 + Len(b), c)
    <2>1. At(w, p, ab) /\ At(w, p + Len(ab), c)
      BY <1>3, <1>5, <1>8, AtParts
    <2>2. p \in Nat \ {0}
      BY <2>1 DEF At
    <2>3. At(w, p, a) /\ At(w, p + Len(a), b)
      <3>1. At(w, p, a \o b)
        BY <2>1 DEF ab
      <3> QED BY <1>2, <1>3, <3>1, AtParts
    <2>4. p + Len(ab) = p + 1 + Len(b) /\ p + Len(a) = p + 1
      BY <1>2, <1>3, <1>5, <2>2
    <2> QED BY <2>1, <2>2, <2>3, <2>4
  <1>9. Len(ab \o c) = Len(b) + 2
    BY <1>2, <1>5, <1>6
  <1>10. /\ InputBytes(in, wide) \in Wire /\ Len(InputBytes(in, wide)) = Len(b) + 2
         /\ \A w \in Wire : \A p : At(w, p, InputBytes(in, wide)) =>
              /\ p \in Nat \ {0} /\ At(w, p, a) /\ At(w, p + 1, b)
              /\ At(w, p + 1 + Len(b), c)
    BY <1>6, <1>7, <1>8, <1>9
  <1> QED BY <1>2, <1>10 DEF a, b, c

\* The bytes of an output, and where its fields stand.
LEMMA OutputParts ==
  ASSUME NEW o \in Output, NEW wide \in BOOLEAN
  PROVE  /\ OutputBytes(o, wide) \in Wire
         /\ Len(OutputBytes(o, wide)) = Len(EncScript(o.script, wide)) + 1
         /\ Len(EncScript(o.script, wide)) \in Nat
         /\ \A w \in Wire : \A p : At(w, p, OutputBytes(o, wide)) =>
              /\ p \in Nat \ {0} /\ At(w, p, <<o.value>>)
              /\ At(w, p + 1, EncScript(o.script, wide))
  <1> DEFINE a == <<o.value>>
             b == EncScript(o.script, wide)
  <1>1. o.value \in Nat /\ o.script \in Wire
    BY DEF Output
  <1>2. b \in Wire /\ Len(b) \in Nat
    BY <1>1, EncScriptFacts DEF Wire
  <1>3. a \in Wire /\ Len(a) = 1
    BY <1>1, OneNumber
  <1> HIDE DEF a, b
  <1>4. a \o b \in Wire /\ Len(a \o b) = 1 + Len(b)
    <2>1. a \o b \in Wire /\ Len(a \o b) = Len(a) + Len(b)
      BY <1>2, <1>3, ConcatLen, Zenon
    <2> QED BY <1>3, <2>1
  <1>5. OutputBytes(o, wide) = a \o b
    BY DEF OutputBytes, a, b
  <1>6. ASSUME NEW w \in Wire, NEW p, At(w, p, a \o b)
        PROVE  p \in Nat \ {0} /\ At(w, p, a) /\ At(w, p + 1, b)
    <2>1. At(w, p, a) /\ At(w, p + Len(a), b)
      BY <1>2, <1>3, <1>6, AtParts
    <2>2. p \in Nat \ {0}
      BY <2>1 DEF At
    <2> QED BY <1>3, <2>1, <2>2
  <1>7. Len(OutputBytes(o, wide)) = Len(b) + 1 /\ OutputBytes(o, wide) \in Wire
    BY <1>2, <1>4, <1>5
  <1>8. \A w \in Wire : \A p : At(w, p, OutputBytes(o, wide)) =>
              p \in Nat \ {0} /\ At(w, p, a) /\ At(w, p + 1, b)
    BY <1>5, <1>6
  <1> QED BY <1>2, <1>7, <1>8 DEF a, b

-----------------------------------------------------------------------------
(* The items of the payment parsers. *)

InputsRead == [p : Nat]
OutputsRead == [p : Nat, outs : Seq(Output)]

\* SkipInput moves over one input.
LEMMA SkipItem ==
  ASSUME NEW w \in Wire, NEW a \in InputsRead
  PROVE  /\ Item("skip", w, a) = [p |-> Take(w, Script(w, Take(w, a.p, 1)).p, 1)]
         /\ Item("skip", w, a) \in InputsRead
         /\ Take(w, a.p, 1) \in Nat /\ Script(w, Take(w, a.p, 1)).p \in Nat
  <1>1. Item("skip", w, a) = [p |-> Take(w, Script(w, Take(w, a.p, 1)).p, 1)]
    BY DEF Item, SkipInput
  <1>2. a.p \in Nat /\ 1 \in Nat
    BY DEF InputsRead
  <1> DEFINE q == Take(w, a.p, 1)
  <1>3. q \in Nat
    BY <1>2, TakeFacts
  <1> HIDE DEF q
  <1> DEFINE r == Script(w, q).p
  <1>4. r \in Nat
    BY <1>3, ScriptFacts
  <1> HIDE DEF r
  <1>5. Take(w, r, 1) \in Nat
    BY <1>2, <1>4, TakeFacts
  <1> QED BY <1>1, <1>3, <1>4, <1>5 DEF q, r, InputsRead

LEMMA SkipGrows ==
  ASSUME NEW w, NEW u, Begins(w, u), NEW a \in InputsRead, Item("skip", u, a).p # Failed
  PROVE  Item("skip", w, a) = Item("skip", u, a)
  <1>1. u \in Wire /\ w \in Wire /\ 1 \in Nat /\ a.p \in Nat
    BY DEF Begins, InputsRead
  <1> DEFINE q == Take(u, a.p, 1)
             r == Script(u, q).p
  <1>2. Item("skip", u, a) = [p |-> Take(u, r, 1)] /\ q \in Nat /\ r \in Nat
    BY <1>1, SkipItem
  <1>3. Item("skip", w, a) = [p |-> Take(w, Script(w, Take(w, a.p, 1)).p, 1)]
    BY <1>1, SkipItem
  <1>4. Take(u, r, 1) # Failed
    BY <1>2
  <1>5. r # Failed
    BY <1>4 DEF Take
  <1>6. q # Failed
    BY <1>1, <1>2, <1>5, ScriptFacts
  <1>7. Take(w, a.p, 1) = q
    BY <1>1, <1>6, TakeGrows
  <1> HIDE DEF q
  <1>8. Script(w, q) = Script(u, q)
    BY <1>2, <1>5, ScriptGrows
  <1>9. Take(w, r, 1) = Take(u, r, 1)
    BY <1>1, <1>2, <1>4, TakeGrows
  <1> QED BY <1>2, <1>3, <1>7, <1>8, <1>9

\* An input is skipped as a whole, whatever its script holds.
LEMMA SkipAt ==
  ASSUME NEW w \in Wire, NEW p, NEW in \in Input, NEW wide \in BOOLEAN,
         At(w, p, InputBytes(in, wide))
  PROVE  Item("skip", w, [p |-> p]) = [p |-> p + Len(InputBytes(in, wide))]
  <1> DEFINE m == Len(EncScript(in.script, wide))
  <1>1. /\ m \in Nat /\ Len(InputBytes(in, wide)) = m + 2
        /\ p \in Nat \ {0} /\ At(w, p, <<in.prev>>)
        /\ At(w, p + 1, EncScript(in.script, wide)) /\ At(w, p + 1 + m, << 4 >>)
    BY InputParts
  <1>2. in.prev \in Nat /\ in.script \in Wire /\ 4 \in Nat
    BY DEF Input
  <1>3. Take(w, p, 1) = p + 1
    BY <1>1, <1>2, FieldAt
  <1>4. Script(w, p + 1) = [script |-> in.script, p |-> p + 1 + m]
    BY <1>1, <1>2, ScriptAt
  <1>5. Take(w, p + 1 + m, 1) = p + 1 + m + 1
    BY <1>1, <1>2, FieldAt
  <1> DEFINE a == [p |-> p]
  <1>6. a \in InputsRead /\ a.p = p
    BY <1>1 DEF InputsRead
  <1> HIDE DEF a, m
  <1>7. Item("skip", w, a) = [p |-> Take(w, Script(w, Take(w, a.p, 1)).p, 1)]
    BY <1>6, SkipItem
  <1>8. Item("skip", w, a) = [p |-> p + 1 + m + 1]
    BY <1>3, <1>4, <1>5, <1>6, <1>7
  <1>9. p + 1 + m + 1 = p + Len(InputBytes(in, wide))
    BY <1>1
  <1> QED BY <1>8, <1>9 DEF a

\* OutputItem appends one output.
LEMMA OutputForm ==
  ASSUME NEW w \in Wire, NEW a \in OutputsRead, NEW s, s = Script(w, Take(w, a.p, 1))
  PROVE  /\ Item("output", w, a) =
              IF s.p = Failed THEN [p |-> Failed, outs |-> a.outs]
              ELSE [p |-> s.p, outs |-> Append(a.outs, [value |-> w[a.p], script |-> s.script])]
         /\ Item("output", w, a) \in OutputsRead
         /\ s.p # Failed => Take(w, a.p, 1) # Failed
         /\ Take(w, a.p, 1) \in Nat
  <1>1. a.p \in Nat /\ a.outs \in Seq(Output) /\ 1 \in Nat /\ Len(w) \in Nat
        /\ \A i \in 1 .. Len(w) : w[i] \in Nat
    BY DEF OutputsRead, Wire
  <1>2. Item("output", w, a) =
          [p |-> s.p, outs |-> IF s.p = Failed THEN a.outs
             ELSE Append(a.outs, [value |-> w[a.p], script |-> s.script])]
    BY DEF Item, OutputItem
  <1> DEFINE q == Take(w, a.p, 1)
  <1>3. q \in Nat /\ (q # Failed => a.p # Failed /\ a.p + 1 <= Len(w) + 1)
    BY <1>1, TakeFacts
  <1>0. s = Script(w, q)
    OBVIOUS
  <1> HIDE DEF q
  <1>4. s.script \in Wire /\ s.p \in Nat /\ (s.p # Failed => q # Failed)
    BY <1>0, <1>3, ScriptFacts
  <1>5. CASE s.p = Failed
    <2>1. Item("output", w, a) = [p |-> Failed, outs |-> a.outs]
      BY <1>2, <1>5
    <2> QED BY <1>1, <1>3, <1>5, <2>1 DEF OutputsRead, q, Failed
  <1>6. CASE s.p # Failed
    <2> DEFINE o == [value |-> w[a.p], script |-> s.script]
    <2>1. a.p \in 1 .. Len(w)
      BY <1>1, <1>3, <1>4, <1>6 DEF Failed
    <2>2. o \in Output
      BY <1>1, <1>4, <2>1 DEF Output
    <2>3. Item("output", w, a) = [p |-> s.p, outs |-> Append(a.outs, o)]
      BY <1>2, <1>6
    <2> HIDE DEF o
    <2>4. Append(a.outs, o) \in Seq(Output)
      BY <1>1, <2>2
    <2>5. Item("output", w, a) \in OutputsRead
      <3> DEFINE t == Append(a.outs, o)
      <3>1. Item("output", w, a) = [p |-> s.p, outs |-> t] /\ t \in Seq(Output)
        BY <2>3, <2>4
      <3> HIDE DEF t
      <3> QED BY <1>4, <3>1 DEF OutputsRead
    <2> QED BY <1>3, <1>4, <1>6, <2>3, <2>5 DEF o, q
  <1> QED BY <1>5, <1>6

LEMMA OutputGrows ==
  ASSUME NEW w, NEW u, Begins(w, u), NEW a \in OutputsRead, Item("output", u, a).p # Failed
  PROVE  Item("output", w, a) = Item("output", u, a)
  <1>1. u \in Wire /\ w \in Wire /\ 1 \in Nat /\ a.p \in Nat
    BY DEF Begins, OutputsRead
  <1> DEFINE q == Take(u, a.p, 1)
             s == Script(u, q)
  <1>2. /\ Item("output", u, a) =
              IF s.p = Failed THEN [p |-> Failed, outs |-> a.outs]
              ELSE [p |-> s.p, outs |-> Append(a.outs, [value |-> u[a.p], script |-> s.script])]
        /\ s.p # Failed => q # Failed
        /\ q \in Nat
    BY <1>1, OutputForm
  <1> HIDE DEF s
  <1>3. s.p # Failed /\ q # Failed
    <2>1. CASE s.p = Failed
      <3>1. Item("output", u, a) = [p |-> Failed, outs |-> a.outs]
        BY <1>2, <2>1
      <3> QED BY <3>1
    <2> QED BY <1>2, <2>1
  <1>4. Take(w, a.p, 1) = q /\ w[a.p] = u[a.p]
    BY <1>1, <1>3, TakeGrows, FieldGrows
  <1> HIDE DEF q
  <1>5. Script(w, q) = s
    BY <1>2, <1>3, ScriptGrows DEF s
  <1>6. s = Script(w, Take(w, a.p, 1))
    BY <1>4, <1>5
  <1>7. Item("output", w, a) =
              IF s.p = Failed THEN [p |-> Failed, outs |-> a.outs]
              ELSE [p |-> s.p, outs |-> Append(a.outs, [value |-> w[a.p], script |-> s.script])]
    BY <1>1, <1>6, OutputForm
  <1> DEFINE Longer(v) == Append(a.outs, [value |-> v, script |-> s.script])
  <1>8. /\ Item("output", u, a) = [p |-> s.p, outs |-> Longer(u[a.p])]
        /\ Item("output", w, a) = [p |-> s.p, outs |-> Longer(w[a.p])]
    BY <1>2, <1>3, <1>7
  <1> HIDE DEF Longer
  <1> QED BY <1>4, <1>8

\* An output is read with its value and its script.
LEMMA OutputAt ==
  ASSUME NEW w \in Wire, NEW p, NEW o \in Output, NEW wide \in BOOLEAN, NEW t \in Seq(Output),
         At(w, p, OutputBytes(o, wide))
  PROVE  Item("output", w, [p |-> p, outs |-> t])
           = [p |-> p + Len(OutputBytes(o, wide)), outs |-> Append(t, o)]
  <1> DEFINE m == Len(EncScript(o.script, wide))
  <1>1. /\ m \in Nat /\ Len(OutputBytes(o, wide)) = m + 1
        /\ p \in Nat \ {0} /\ At(w, p, <<o.value>>)
        /\ At(w, p + 1, EncScript(o.script, wide))
    BY OutputParts
  <1>2. o.value \in Nat /\ o.script \in Wire
    BY DEF Output
  <1>3. Take(w, p, 1) = p + 1 /\ w[p] = o.value
    BY <1>1, <1>2, FieldAt
  <1>4. Script(w, p + 1) = [script |-> o.script, p |-> p + 1 + m]
    BY <1>1, <1>2, ScriptAt
  <1> DEFINE a == [p |-> p, outs |-> t]
             s == [script |-> o.script, p |-> p + 1 + m]
  <1>5. a \in OutputsRead /\ a.p = p /\ a.outs = t
    BY <1>1 DEF OutputsRead
  <1>6. s.p = p + 1 + m /\ s.script = o.script /\ s.p # Failed
    BY <1>1 DEF Failed
  <1>7. o = [value |-> o.value, script |-> o.script]
    BY DEF Output
  <1> HIDE DEF a, s, m
  <1>8. s = Script(w, Take(w, a.p, 1))
    BY <1>3, <1>4, <1>5 DEF s
  <1>9. Item("output", w, a) =
              IF s.p = Failed THEN [p |-> Failed, outs |-> a.outs]
              ELSE [p |-> s.p, outs |-> Append(a.outs, [value |-> w[a.p], script |-> s.script])]
    BY <1>5, <1>8, OutputForm
  <1>10. [value |-> w[a.p], script |-> s.script] = o
    BY <1>3, <1>5, <1>6, <1>7
  <1>11. Item("output", w, a) = [p |-> s.p, outs |-> Append(t, o)]
    BY <1>5, <1>6, <1>9, <1>10
  <1>12. s.p = p + Len(OutputBytes(o, wide))
    BY <1>1, <1>6
  <1> QED BY <1>11, <1>12 DEF a

-----------------------------------------------------------------------------
(* Inputs and Outputs as repetitions. *)

\* Inputs and Outputs are repetitions of items.
LEMMA InputsRun ==
  ASSUME NEW w \in Wire, NEW n \in Nat, NEW q \in Nat,
         ReadVarint(w, Take(w, 1, 1)) = [n |-> n, p |-> q]
  PROVE  \E f : /\ Runs(f, "skip", w, [p |-> q], n)
                /\ Inputs(w) = [n |-> n, first |-> q,
                                p |-> IF n = 0 THEN Failed ELSE f[n].p]
  <1> DEFINE len == ReadVarint(w, Take(w, 1, 1))
             acc == [p |-> len.p]
             Solves(f) == f = [i \in 0 .. len.n |-> IF i = 0 THEN acc
                                ELSE IF f[i - 1].p = Failed THEN f[i - 1]
                                ELSE SkipInput(w, f[i - 1])]
             f == CHOOSE f : Solves(f)
  <1>1. ASSUME NEW g PROVE Runs(g, "skip", w, acc, len.n) <=> Solves(g)
    BY DEF Runs, Item
  <1>2. \E g : Solves(g)
    <2>1. len.n \in Nat
      OBVIOUS
    <2> QED BY <1>1, <2>1, RunExists
  <1>3. Solves(f)
    BY <1>2
  <1>4. len.n = n /\ len.p = q
    OBVIOUS
  <1>5. Inputs(w) = [n |-> len.n, first |-> len.p,
                     p |-> IF len.n = 0 THEN Failed ELSE f[len.n].p]
    BY DEF Inputs, Repeat
  <1>6. Runs(f, "skip", w, acc, len.n)
    BY <1>1, <1>3
  <1> HIDE DEF len, f
  <1> QED BY <1>4, <1>5, <1>6

LEMMA OutputsRun ==
  ASSUME NEW w \in Wire, NEW p \in Nat, NEW n \in Nat, NEW q \in Nat,
         ReadVarint(w, p) = [n |-> n, p |-> q]
  PROVE  \E f : /\ Runs(f, "output", w, [p |-> q, outs |-> <<>>], n)
                /\ Outputs(w, p) = IF n = 0 \/ f[n].p = Failed \/ ~Clean(w, f[n].p)
                                     THEN NoTx ELSE f[n].outs
  <1> DEFINE acc == [p |-> q, outs |-> <<>>]
             Solves(f) == f = [i \in 0 .. n |-> IF i = 0 THEN acc
                                ELSE IF f[i - 1].p = Failed THEN f[i - 1]
                                ELSE OutputItem(w, f[i - 1])]
             f == CHOOSE f : Solves(f)
  <1>1. ASSUME NEW g PROVE Runs(g, "output", w, acc, n) <=> Solves(g)
    BY DEF Runs, Item
  <1>2. \E g : Solves(g)
    BY <1>1, RunExists
  <1>3. Solves(f)
    BY <1>2
  <1>4. ReadVarint(w, p).n = n /\ ReadVarint(w, p).p = q
    OBVIOUS
  <1>5. Outputs(w, p) = IF n = 0 \/ f[n].p = Failed \/ ~Clean(w, f[n].p)
                          THEN NoTx ELSE f[n].outs
    BY <1>4 DEF Outputs, Repeat
  <1> QED BY <1>1, <1>3, <1>5

-----------------------------------------------------------------------------
(* The body of a transaction: its four parts. *)

InsOf(tx, wide) == [i \in DOMAIN tx.ins |-> InputBytes(tx.ins[i], wide)]
OutsOf(tx, wide) == [i \in DOMAIN tx.outs |-> OutputBytes(tx.outs[i], wide)]
InCount(tx, wide) == Enc(Len(tx.ins), wide)
InBytes(tx, wide) == FlattenSeq(InsOf(tx, wide))
OutCount(tx, wide) == Enc(Len(tx.outs), wide)
OutBytes(tx, wide) == FlattenSeq(OutsOf(tx, wide))

\* The four parts of a body: two counts and the glued items.
LEMMA TxFacts ==
  ASSUME NEW tx, TxOK(tx), NEW wide \in BOOLEAN
  PROVE  /\ Len(tx.ins) \in Nat \ {0} /\ Len(tx.outs) \in Nat \ {0}
         /\ DOMAIN tx.ins = 1 .. Len(tx.ins) /\ DOMAIN tx.outs = 1 .. Len(tx.outs)
         /\ \A i \in 1 .. Len(tx.ins) : tx.ins[i] \in Input
         /\ \A i \in 1 .. Len(tx.outs) : tx.outs[i] \in Output
         /\ InsOf(tx, wide) \in Seq(Wire) /\ Len(InsOf(tx, wide)) = Len(tx.ins)
         /\ \A i \in 1 .. Len(tx.ins) : InsOf(tx, wide)[i] = InputBytes(tx.ins[i], wide)
         /\ OutsOf(tx, wide) \in Seq(Wire) /\ Len(OutsOf(tx, wide)) = Len(tx.outs)
         /\ \A i \in 1 .. Len(tx.outs) : OutsOf(tx, wide)[i] = OutputBytes(tx.outs[i], wide)
         /\ InCount(tx, wide) \in Wire /\ InBytes(tx, wide) \in Wire
         /\ OutCount(tx, wide) \in Wire /\ OutBytes(tx, wide) \in Wire
  <1>1. /\ Len(tx.ins) \in Nat \ {0} /\ Len(tx.outs) \in Nat \ {0}
        /\ DOMAIN tx.ins = 1 .. Len(tx.ins) /\ DOMAIN tx.outs = 1 .. Len(tx.outs)
        /\ \A i \in 1 .. Len(tx.ins) : tx.ins[i] \in Input
        /\ \A i \in 1 .. Len(tx.outs) : tx.outs[i] \in Output
    BY DEF TxOK
  <1>2. InsOf(tx, wide) \in Seq(Wire) /\ Len(InsOf(tx, wide)) = Len(tx.ins)
        /\ \A i \in 1 .. Len(tx.ins) : InsOf(tx, wide)[i] = InputBytes(tx.ins[i], wide)
    <2> DEFINE n == Len(tx.ins)
               B(i) == InputBytes(tx.ins[i], wide)
    <2>1. \A i \in 1 .. n : B(i) \in Wire
      BY <1>1, InputParts
    <2>2. InsOf(tx, wide) = [i \in 1 .. n |-> B(i)]
      BY <1>1 DEF InsOf
    <2>3. n \in Nat
      BY <1>1
    <2> HIDE DEF n, B
    <2>4. [i \in 1 .. n |-> B(i)] \in Seq(Wire) /\ Len([i \in 1 .. n |-> B(i)]) = n
      BY <2>1, <2>3
    <2>5. \A i \in 1 .. n : InsOf(tx, wide)[i] = B(i)
      BY <2>2
    <2> QED BY <2>2, <2>4, <2>5 DEF n, B
  <1>3. OutsOf(tx, wide) \in Seq(Wire) /\ Len(OutsOf(tx, wide)) = Len(tx.outs)
        /\ \A i \in 1 .. Len(tx.outs) : OutsOf(tx, wide)[i] = OutputBytes(tx.outs[i], wide)
    <2> DEFINE n == Len(tx.outs)
               B(i) == OutputBytes(tx.outs[i], wide)
    <2>1. \A i \in 1 .. n : B(i) \in Wire
      BY <1>1, OutputParts
    <2>2. OutsOf(tx, wide) = [i \in 1 .. n |-> B(i)]
      BY <1>1 DEF OutsOf
    <2>3. n \in Nat
      BY <1>1
    <2> HIDE DEF n, B
    <2>4. [i \in 1 .. n |-> B(i)] \in Seq(Wire) /\ Len([i \in 1 .. n |-> B(i)]) = n
      BY <2>1, <2>3
    <2>5. \A i \in 1 .. n : OutsOf(tx, wide)[i] = B(i)
      BY <2>2
    <2> QED BY <2>2, <2>4, <2>5 DEF n, B
  <1>4. InCount(tx, wide) \in Wire /\ OutCount(tx, wide) \in Wire
    BY <1>1, EncFacts DEF InCount, OutCount
  <1>5. InBytes(tx, wide) \in Wire
    <2> DEFINE parts == InsOf(tx, wide)
    <2>1. parts \in Seq(Wire) /\ Len(parts) \in Nat
      BY <1>1, <1>2
    <2> HIDE DEF parts
    <2>2. PICK g : Glues(g, parts) /\ FlattenSeq(parts) = g[Len(parts)]
      BY <2>1, GluedParts
    <2>3. g[Len(parts)] \in Wire
      BY <2>1, <2>2 DEF Glues
    <2> QED BY <2>2, <2>3 DEF InBytes, parts
  <1>6. OutBytes(tx, wide) \in Wire
    <2> DEFINE parts == OutsOf(tx, wide)
    <2>1. parts \in Seq(Wire) /\ Len(parts) \in Nat
      BY <1>1, <1>3
    <2> HIDE DEF parts
    <2>2. PICK g : Glues(g, parts) /\ FlattenSeq(parts) = g[Len(parts)]
      BY <2>1, GluedParts
    <2>3. g[Len(parts)] \in Wire
      BY <2>1, <2>2 DEF Glues
    <2> QED BY <2>2, <2>3 DEF OutBytes, parts
  <1> QED BY <1>1, <1>2, <1>3, <1>4, <1>5, <1>6

\* Four wires in one, and where each stands.
LEMMA FourParts ==
  ASSUME NEW a \in Wire, NEW b \in Wire, NEW c \in Wire, NEW d \in Wire
  PROVE  /\ a \o b \o c \o d \in Wire
         /\ Len(a \o b \o c \o d) = Len(a) + Len(b) + Len(c) + Len(d)
         /\ \A w \in Wire : \A p : At(w, p, a \o b \o c \o d) =>
              /\ p \in Nat \ {0} /\ At(w, p, a) /\ At(w, p + Len(a), b)
              /\ At(w, p + Len(a) + Len(b), c)
              /\ At(w, p + Len(a) + Len(b) + Len(c), d)
  <1> DEFINE ab == a \o b
             abc == ab \o c
             abcd == abc \o d
  <1>0. Len(a) \in Nat /\ Len(b) \in Nat /\ Len(c) \in Nat /\ Len(d) \in Nat
    BY DEF Wire
  <1>1. ab \in Wire /\ Len(ab) = Len(a) + Len(b)
    BY ConcatLen
  <1>a. \A w \in Wire : \A p : At(w, p, ab) => At(w, p, a) /\ At(w, p + Len(a), b)
    BY AtParts
  <1> HIDE DEF ab
  <1>2. abc \in Wire /\ Len(abc) = Len(ab) + Len(c)
    BY <1>1, ConcatLen
  <1>b. \A w \in Wire : \A p : At(w, p, abc) => At(w, p, ab) /\ At(w, p + Len(ab), c)
    BY <1>1, AtParts
  <1> HIDE DEF abc
  <1>3. abcd \in Wire /\ Len(abcd) = Len(abc) + Len(d)
    BY <1>2, ConcatLen
  <1>c. \A w \in Wire : \A p : At(w, p, abcd) => At(w, p, abc) /\ At(w, p + Len(abc), d)
    BY <1>2, AtParts
  <1>d. a \o b \o c \o d = abcd
    BY DEF ab, abc
  <1> HIDE DEF abcd
  <1>4. Len(abcd) = Len(a) + Len(b) + Len(c) + Len(d)
    BY <1>0, <1>1, <1>2, <1>3
  <1>5. ASSUME NEW w \in Wire, NEW p, At(w, p, abcd)
        PROVE  /\ p \in Nat \ {0} /\ At(w, p, a) /\ At(w, p + Len(a), b)
               /\ At(w, p + Len(a) + Len(b), c)
               /\ At(w, p + Len(a) + Len(b) + Len(c), d)
    <2>1. At(w, p, abc) /\ At(w, p + Len(abc), d)
      BY <1>5, <1>c
    <2>2. At(w, p, ab) /\ At(w, p + Len(ab), c)
      BY <2>1, <1>b
    <2>3. At(w, p, a) /\ At(w, p + Len(a), b)
      BY <2>2, <1>a
    <2>4. p \in Nat \ {0}
      BY <1>5 DEF At
    <2>5. p + Len(abc) = p + Len(a) + Len(b) + Len(c) /\ p + Len(ab) = p + Len(a) + Len(b)
      BY <1>0, <1>1, <1>2, <2>4
    <2> QED BY <2>1, <2>2, <2>3, <2>4, <2>5
  <1> QED BY <1>3, <1>4, <1>5, <1>d

\* The same for the body of a transaction.
LEMMA BodyAt ==
  ASSUME NEW tx, TxOK(tx), NEW wide \in BOOLEAN
  PROVE  /\ Body(tx, wide) \in Wire
         /\ Len(Body(tx, wide)) = Len(InCount(tx, wide)) + Len(InBytes(tx, wide))
                                   + Len(OutCount(tx, wide)) + Len(OutBytes(tx, wide))
         /\ \A w \in Wire : \A p : At(w, p, Body(tx, wide)) =>
              /\ p \in Nat \ {0} /\ At(w, p, InCount(tx, wide))
              /\ At(w, p + Len(InCount(tx, wide)), InBytes(tx, wide))
              /\ At(w, p + Len(InCount(tx, wide)) + Len(InBytes(tx, wide)), OutCount(tx, wide))
              /\ At(w, p + Len(InCount(tx, wide)) + Len(InBytes(tx, wide))
                         + Len(OutCount(tx, wide)), OutBytes(tx, wide))
  <1>1. Body(tx, wide) = InCount(tx, wide) \o InBytes(tx, wide) \o OutCount(tx, wide)
                            \o OutBytes(tx, wide)
    BY DEF Body, InCount, InBytes, OutCount, OutBytes, InsOf, OutsOf
  <1>2. /\ InCount(tx, wide) \in Wire /\ InBytes(tx, wide) \in Wire
        /\ OutCount(tx, wide) \in Wire /\ OutBytes(tx, wide) \in Wire
    BY TxFacts
  <1> DEFINE a == InCount(tx, wide)
             b == InBytes(tx, wide)
             c == OutCount(tx, wide)
             d == OutBytes(tx, wide)
             B == Body(tx, wide)
  <1>3. a \in Wire /\ b \in Wire /\ c \in Wire /\ d \in Wire /\ B = a \o b \o c \o d
    BY <1>1, <1>2
  <1> HIDE DEF a, b, c, d, B
  <1>4. /\ B \in Wire
        /\ Len(B) = Len(a) + Len(b) + Len(c) + Len(d)
        /\ \A w \in Wire : \A p : At(w, p, B) =>
              /\ p \in Nat \ {0} /\ At(w, p, a) /\ At(w, p + Len(a), b)
              /\ At(w, p + Len(a) + Len(b), c)
              /\ At(w, p + Len(a) + Len(b) + Len(c), d)
    BY <1>3, FourParts
  <1> QED BY <1>4 DEF a, b, c, d, B

-----------------------------------------------------------------------------
(* What the repetitions read from a well-formed transaction. *)

\* The lengths of the glued parts add up.
LEMMA GlueLen ==
  ASSUME NEW parts \in Seq(Wire), NEW g, Glues(g, parts)
  PROVE  /\ Len(g[0]) = 0
         /\ \A i \in 0 .. Len(parts) : g[i] \in Wire /\ Len(g[i]) \in Nat
         /\ \A i \in 1 .. Len(parts) : Len(g[i]) = Len(g[i - 1]) + Len(parts[i])
  <1>1. Len(parts) \in Nat /\ \A i \in 1 .. Len(parts) : parts[i] \in Wire
    OBVIOUS
  <1>2. Len(g[0]) = 0
    BY DEF Glues
  <1>3. \A i \in 0 .. Len(parts) : g[i] \in Wire
    BY DEF Glues
  <1>4. \A i \in 0 .. Len(parts) : Len(g[i]) \in Nat
    BY <1>3 DEF Wire
  <1>5. ASSUME NEW i \in 1 .. Len(parts) PROVE Len(g[i]) = Len(g[i - 1]) + Len(parts[i])
    <2>1. i - 1 \in 0 .. Len(parts)
      BY <1>1
    <2> DEFINE a == g[i - 1]
               b == parts[i]
    <2>2. a \in Wire /\ b \in Wire
      BY <1>1, <1>3, <2>1
    <2>3. g[i] = a \o b
      BY DEF Glues
    <2> HIDE DEF a, b
    <2>4. Len(a \o b) = Len(a) + Len(b)
      BY <2>2, ConcatLen
    <2> QED BY <2>3, <2>4 DEF a, b
  <1> QED BY <1>2, <1>3, <1>4, <1>5

\* The inputs of a transaction are skipped to their end.
LEMMA SkipsInputs ==
  ASSUME NEW tx, TxOK(tx), NEW wide \in BOOLEAN, NEW w \in Wire, NEW q,
         At(w, q, InBytes(tx, wide)),
         NEW f, Runs(f, "skip", w, [p |-> q], Len(tx.ins))
  PROVE  f[Len(tx.ins)] = [p |-> q + Len(InBytes(tx, wide))]
  <1> DEFINE n == Len(tx.ins)
             parts == InsOf(tx, wide)
             In(i) == tx.ins[i]
  <1>1. n \in Nat /\ parts \in Seq(Wire) /\ Len(parts) = n
        /\ \A i \in 1 .. n : In(i) \in Input /\ parts[i] = InputBytes(In(i), wide)
    BY TxFacts
  <1>2. q \in Nat \ {0}
    BY DEF At
  <1> HIDE DEF n, parts, In
  <1>3. PICK g : Glues(g, parts) /\ FlattenSeq(parts) = g[Len(parts)]
    BY <1>1, GluedParts
  <1>4. InBytes(tx, wide) = g[n]
    BY <1>1, <1>3 DEF InBytes, parts
  <1>5. \A i \in 1 .. n : At(w, q + Len(g[i - 1]), parts[i])
    <2>1. At(w, q, g[Len(parts)])
      BY <1>1, <1>4
    <2>2. \A i \in 1 .. Len(parts) : At(w, q + Len(g[i - 1]), parts[i])
      BY <1>1, <1>3, <2>1, PartsAt
    <2> QED BY <1>1, <2>2
  <1> DEFINE L(i) == Len(g[i])
             e == [i \in 0 .. n |-> [p |-> q + L(i)]]
  <1>6. L(0) = 0 /\ (\A i \in 0 .. n : L(i) \in Nat)
        /\ \A i \in 1 .. n : L(i) = L(i - 1) + Len(parts[i])
    BY <1>1, <1>3, GlueLen
  <1>7. \A i \in 1 .. n : At(w, q + L(i - 1), InputBytes(In(i), wide))
    BY <1>1, <1>5
  <1> HIDE DEF L
  <1>8. e[0] = [p |-> q]
    BY <1>1, <1>2, <1>6
  <1>9. ASSUME NEW i \in 1 .. n
        PROVE  e[i - 1].p # Failed /\ Item("skip", w, e[i - 1]) = e[i]
    <2>1. i - 1 \in 0 .. n /\ i \in 0 .. n
      BY <1>1
    <2> DEFINE x == q + L(i - 1)
    <2>2. e[i - 1] = [p |-> x] /\ e[i] = [p |-> q + L(i)] /\ L(i - 1) \in Nat
      BY <1>6, <2>1
    <2>3. x # Failed
      BY <1>2, <2>2 DEF Failed
    <2>4. q + L(i) = x + Len(InputBytes(In(i), wide))
      <3>1. L(i) = L(i - 1) + Len(InputBytes(In(i), wide)) /\ L(i) \in Nat
        BY <1>1, <1>6, <2>1
      <3>2. Len(InputBytes(In(i), wide)) \in Nat
        BY <1>1, InputParts DEF Wire
      <3> QED BY <1>2, <2>2, <3>1, <3>2
    <2>5. At(w, x, InputBytes(In(i), wide)) /\ In(i) \in Input
      BY <1>1, <1>7
    <2> HIDE DEF x, e
    <2>6. Item("skip", w, [p |-> x]) = [p |-> x + Len(InputBytes(In(i), wide))]
      BY <2>5, SkipAt
    <2> QED BY <2>2, <2>3, <2>4, <2>6
  <1>10. e[n] = [p |-> q + L(n)]
    BY <1>1
  <1> HIDE DEF e
  <1>11. Runs(f, "skip", w, [p |-> q], n)
    BY DEF n
  <1>12. f[n] = e[n]
    BY <1>1, <1>8, <1>9, <1>11, RunReaches
  <1> QED BY <1>4, <1>10, <1>12 DEF n, L

\* One more item of a sequence.
LEMMA PrefixExtends ==
  ASSUME NEW S, NEW s \in Seq(S), NEW i \in 1 .. Len(s)
  PROVE  Append(SubSeq(s, 1, i - 1), s[i]) = SubSeq(s, 1, i)
  <1>0. Len(s) \in Nat /\ i - 1 \in 0 .. Len(s) /\ i \in 0 .. Len(s) /\ s[i] \in S
    OBVIOUS
  <1> DEFINE a == SubSeq(s, 1, i - 1)
             b == SubSeq(s, 1, i)
             k == i - 1
  <1>1. a \in Seq(S) /\ Len(a) = k /\ \A j \in 1 .. k : a[j] = s[j]
    BY <1>0, PrefixOf
  <1>2. b \in Seq(S) /\ Len(b) = i /\ \A j \in 1 .. i : b[j] = s[j]
    BY <1>0, PrefixOf
  <1> HIDE DEF a, b
  <1> DEFINE c == Append(a, s[i])
  <1>3. c \in Seq(S) /\ Len(c) = Len(a) + 1 /\ c[Len(a) + 1] = s[i]
        /\ \A j \in 1 .. Len(a) : c[j] = a[j]
    BY <1>0, <1>1
  <1> HIDE DEF c
  <1>4. ASSUME NEW j \in 1 .. i PROVE c[j] = b[j]
    <2>1. CASE j = i
      BY <1>0, <1>1, <1>2, <1>3, <2>1
    <2>2. CASE j # i
      <3>1. j \in 1 .. k
        BY <2>2
      <3> QED BY <1>1, <1>2, <1>3, <3>1
    <2> QED BY <2>1, <2>2
  <1>5. Len(c) = i
    BY <1>0, <1>1, <1>3
  <1>6. c = b
    BY <1>2, <1>3, <1>4, <1>5, SeqEqual
  <1> QED BY <1>6 DEF a, b, c

\* The outputs of a transaction are read as they are.
LEMMA ReadsOutputs ==
  ASSUME NEW tx, TxOK(tx), NEW wide \in BOOLEAN, NEW w \in Wire, NEW q,
         At(w, q, OutBytes(tx, wide)),
         NEW f, Runs(f, "output", w, [p |-> q, outs |-> <<>>], Len(tx.outs))
  PROVE  f[Len(tx.outs)] = [p |-> q + Len(OutBytes(tx, wide)), outs |-> tx.outs]
  <1> DEFINE n == Len(tx.outs)
             s == tx.outs
             parts == OutsOf(tx, wide)
  <1>1. n \in Nat /\ parts \in Seq(Wire) /\ Len(parts) = n /\ s \in Seq(Output) /\ Len(s) = n
        /\ \A i \in 1 .. n : s[i] \in Output /\ parts[i] = OutputBytes(s[i], wide)
    BY TxFacts DEF TxOK
  <1>2. q \in Nat \ {0}
    BY DEF At
  <1> HIDE DEF n, parts, s
  <1>3. PICK g : Glues(g, parts) /\ FlattenSeq(parts) = g[Len(parts)]
    BY <1>1, GluedParts
  <1>4. OutBytes(tx, wide) = g[n]
    BY <1>1, <1>3 DEF OutBytes, parts
  <1>5. \A i \in 1 .. n : At(w, q + Len(g[i - 1]), parts[i])
    <2>1. At(w, q, g[Len(parts)])
      BY <1>1, <1>4
    <2>2. \A i \in 1 .. Len(parts) : At(w, q + Len(g[i - 1]), parts[i])
      BY <1>1, <1>3, <2>1, PartsAt
    <2> QED BY <1>1, <2>2
  <1> DEFINE L(i) == Len(g[i])
             P(i) == SubSeq(s, 1, i)
             e == [i \in 0 .. n |-> [p |-> q + L(i), outs |-> P(i)]]
  <1>6. L(0) = 0 /\ (\A i \in 0 .. n : L(i) \in Nat)
        /\ \A i \in 1 .. n : L(i) = L(i - 1) + Len(parts[i])
    BY <1>1, <1>3, GlueLen
  <1>7. \A i \in 1 .. n : At(w, q + L(i - 1), OutputBytes(s[i], wide))
    BY <1>1, <1>5
  <1>a. P(0) = <<>>
    <2>1. P(0) \in Seq(Output) /\ Len(P(0)) = 0
      BY <1>1, PrefixOf
    <2> HIDE DEF P
    <2> QED BY <2>1
  <1>b. P(n) = s
    <2>1. P(n) \in Seq(Output) /\ Len(P(n)) = n /\ \A i \in 1 .. n : P(n)[i] = s[i]
      BY <1>1, PrefixOf
    <2> HIDE DEF P
    <2> QED BY <1>1, <2>1, SeqEqual
  <1>c. \A i \in 0 .. n : P(i) \in Seq(Output)
    BY <1>1, PrefixOf
  <1>d. \A i \in 1 .. n : Append(P(i - 1), s[i]) = P(i)
    BY <1>1, PrefixExtends
  <1> HIDE DEF L, P
  <1>8. e[0] = [p |-> q, outs |-> <<>>]
    BY <1>1, <1>2, <1>6, <1>a
  <1>9. ASSUME NEW i \in 1 .. n
        PROVE  e[i - 1].p # Failed /\ Item("output", w, e[i - 1]) = e[i]
    <2>1. i - 1 \in 0 .. n /\ i \in 0 .. n
      BY <1>1
    <2> DEFINE x == q + L(i - 1)
    <2>2. e[i - 1] = [p |-> x, outs |-> P(i - 1)] /\ e[i] = [p |-> q + L(i), outs |-> P(i)]
          /\ L(i - 1) \in Nat
      BY <1>6, <2>1
    <2>3. x # Failed
      BY <1>2, <2>2 DEF Failed
    <2>4. q + L(i) = x + Len(OutputBytes(s[i], wide))
      <3>1. L(i) = L(i - 1) + Len(OutputBytes(s[i], wide)) /\ L(i) \in Nat
        BY <1>1, <1>6, <2>1
      <3>2. Len(OutputBytes(s[i], wide)) \in Nat
        BY <1>1, OutputParts DEF Wire
      <3> QED BY <1>2, <2>2, <3>1, <3>2
    <2>5. At(w, x, OutputBytes(s[i], wide)) /\ s[i] \in Output /\ P(i - 1) \in Seq(Output)
      BY <1>1, <1>7, <1>c, <2>1
    <2> HIDE DEF x, e
    <2>6. Item("output", w, [p |-> x, outs |-> P(i - 1)])
            = [p |-> x + Len(OutputBytes(s[i], wide)), outs |-> Append(P(i - 1), s[i])]
      BY <2>5, OutputAt
    <2>7. Append(P(i - 1), s[i]) = P(i)
      BY <1>d
    <2>8. Item("output", w, [p |-> x, outs |-> P(i - 1)]) = [p |-> q + L(i), outs |-> P(i)]
      BY <2>4, <2>6, <2>7
    <2> QED BY <2>2, <2>3, <2>8
  <1>10. e[n] = [p |-> q + L(n), outs |-> s]
    BY <1>1, <1>b
  <1> HIDE DEF e
  <1>11. Runs(f, "output", w, [p |-> q, outs |-> <<>>], n)
    BY DEF n
  <1>12. f[n] = e[n]
    <2> DEFINE acc == [p |-> q, outs |-> <<>>]
    <2>1. n \in Nat /\ e[0] = acc /\ Runs(f, "output", w, acc, n)
      BY <1>1, <1>8, <1>11
    <2> HIDE DEF acc, n
    <2>2. \A i \in 1 .. n : e[i - 1].p # Failed /\ Item("output", w, e[i - 1]) = e[i]
      BY <1>9
    <2> QED BY <2>1, <2>2, RunReaches
  <1> QED BY <1>4, <1>10, <1>12 DEF n, L, s

-----------------------------------------------------------------------------
(* Whole transactions. *)

LEMMA SkipCloses ==
  ASSUME NEW w \in Wire
  PROVE  \A a \in InputsRead : a.p # Failed => Item("skip", w, a) \in InputsRead
  BY SkipItem

LEMMA OutputCloses ==
  ASSUME NEW w \in Wire
  PROVE  \A a \in OutputsRead : a.p # Failed => Item("output", w, a) \in OutputsRead
  BY OutputForm

\* Where the inputs of u end, those of a longer wire end too.
LEMMA InputsGrow ==
  ASSUME NEW w, NEW u, Begins(w, u), Inputs(u).p # Failed
  PROVE  Inputs(w) = Inputs(u) /\ Inputs(u).p \in Nat
  <1>1. u \in Wire /\ w \in Wire /\ 1 \in Nat
    BY DEF Begins
  <1> DEFINE t == Take(u, 1, 1)
             n == ReadVarint(u, t).n
             q == ReadVarint(u, t).p
  <1>2. t \in Nat
    BY <1>1, TakeFacts
  <1>3. ReadVarint(u, t) = [n |-> n, p |-> q] /\ n \in Nat /\ q \in Nat
        /\ (q # Failed => t # Failed)
    BY <1>1, <1>2, VarintFacts
  <1>4. PICK f : /\ Runs(f, "skip", u, [p |-> q], n)
                 /\ Inputs(u) = [n |-> n, first |-> q, p |-> IF n = 0 THEN Failed ELSE f[n].p]
    BY <1>1, <1>3, InputsRun
  <1> HIDE DEF n, q
  <1>5. n # 0 /\ f[n].p # Failed
    BY <1>4
  <1> DEFINE acc == [p |-> q]
  <1>6. acc \in InputsRead /\ acc.p = q
    BY <1>3 DEF InputsRead
  <1>a. Runs(f, "skip", u, acc, n)
    BY <1>4
  <1> HIDE DEF acc
  <1>7. \A a \in InputsRead : a.p # Failed => Item("skip", u, a) \in InputsRead
    BY <1>1, SkipCloses
  <1>8. (\A i \in 0 .. n : f[i] \in InputsRead) /\ \A i \in 0 .. n : f[i].p # Failed
    BY <1>3, <1>5, <1>6, <1>7, <1>a, RunFacts
  <1>9. q # Failed
    <2>1. f[0] = acc /\ 0 \in 0 .. n
      BY <1>3, <1>a DEF Runs
    <2> QED BY <1>6, <1>8, <2>1
  <1>10. Take(w, 1, 1) = t
    BY <1>1, <1>3, <1>9, TakeGrows
  <1> HIDE DEF t
  <1>11. ReadVarint(w, Take(w, 1, 1)) = [n |-> n, p |-> q]
    <2>1. ReadVarint(u, t).p # Failed
      BY <1>3, <1>9
    <2>2. ReadVarint(w, t) = ReadVarint(u, t)
      BY <1>2, <2>1, VarintGrows
    <2> QED BY <1>3, <1>10, <2>2
  <1>12. PICK g : /\ Runs(g, "skip", w, [p |-> q], n)
                  /\ Inputs(w) = [n |-> n, first |-> q, p |-> IF n = 0 THEN Failed ELSE g[n].p]
    BY <1>1, <1>3, <1>11, InputsRun
  <1>b. Runs(g, "skip", w, acc, n)
    BY <1>12 DEF acc
  <1>13. \A a \in InputsRead : a.p # Failed /\ Item("skip", u, a).p # Failed
                            => Item("skip", w, a) = Item("skip", u, a)
    BY SkipGrows
  <1>14. g[n] = f[n]
    BY <1>3, <1>5, <1>6, <1>7, <1>13, <1>a, <1>b, RunGrows
  <1>15. f[n].p \in Nat
    BY <1>3, <1>8 DEF InputsRead
  <1> QED BY <1>4, <1>5, <1>12, <1>14, <1>15

\* The outputs and the locktime end one wire, and none that goes on.
LEMMA OutputsEnd ==
  ASSUME NEW w, NEW u, Begins(w, u), Len(u) # Len(w), NEW p \in Nat, Outputs(u, p) # NoTx
  PROVE  Outputs(w, p) = NoTx
  <1>1. u \in Wire /\ w \in Wire /\ 1 \in Nat /\ Len(u) \in Nat /\ Len(w) \in Nat
    BY DEF Begins, Wire
  <1> DEFINE n == ReadVarint(u, p).n
             q == ReadVarint(u, p).p
  <1>3. ReadVarint(u, p) = [n |-> n, p |-> q] /\ n \in Nat /\ q \in Nat
    BY <1>1, VarintFacts
  <1>4. PICK f : /\ Runs(f, "output", u, [p |-> q, outs |-> <<>>], n)
                 /\ Outputs(u, p) = IF n = 0 \/ f[n].p = Failed \/ ~Clean(u, f[n].p)
                                      THEN NoTx ELSE f[n].outs
    BY <1>1, <1>3, OutputsRun
  <1> HIDE DEF n, q
  <1>5. n # 0 /\ f[n].p # Failed /\ Clean(u, f[n].p)
    BY <1>4
  <1> DEFINE acc == [p |-> q, outs |-> <<>>]
  <1>6. acc \in OutputsRead /\ acc.p = q
    BY <1>3 DEF OutputsRead
  <1>a. Runs(f, "output", u, acc, n)
    BY <1>4
  <1> HIDE DEF acc
  <1>7. \A a \in OutputsRead : a.p # Failed => Item("output", u, a) \in OutputsRead
    BY <1>1, OutputCloses
  <1>8. (\A i \in 0 .. n : f[i] \in OutputsRead) /\ \A i \in 0 .. n : f[i].p # Failed
    BY <1>3, <1>5, <1>6, <1>7, <1>a, RunFacts
  <1>9. q # Failed
    <2>1. f[0] = acc /\ 0 \in 0 .. n
      BY <1>3, <1>a DEF Runs
    <2> QED BY <1>6, <1>8, <2>1
  <1>11. ReadVarint(w, p) = [n |-> n, p |-> q]
    <2>1. ReadVarint(u, p).p # Failed
      BY <1>3, <1>9
    <2>2. ReadVarint(w, p) = ReadVarint(u, p)
      BY <2>1, VarintGrows
    <2> QED BY <1>3, <2>2
  <1>12. PICK g : /\ Runs(g, "output", w, [p |-> q, outs |-> <<>>], n)
                  /\ Outputs(w, p) = IF n = 0 \/ g[n].p = Failed \/ ~Clean(w, g[n].p)
                                       THEN NoTx ELSE g[n].outs
    BY <1>1, <1>3, <1>11, OutputsRun
  <1>b. Runs(g, "output", w, acc, n)
    BY <1>12 DEF acc
  <1>13. \A a \in OutputsRead : a.p # Failed /\ Item("output", u, a).p # Failed
                             => Item("output", w, a) = Item("output", u, a)
    BY OutputGrows
  <1>14. g[n] = f[n]
    BY <1>3, <1>5, <1>6, <1>7, <1>13, <1>a, <1>b, RunGrows
  <1>15. f[n].p \in Nat
    BY <1>3, <1>8 DEF OutputsRead
  <1>16. ~Clean(w, f[n].p)
    <2> DEFINE r == f[n].p
    <2>1. r \in Nat /\ Take(u, r, 1) = Len(u) + 1
      BY <1>5, <1>15 DEF Clean
    <2> HIDE DEF r
    <2>2. Take(u, r, 1) # Failed
      BY <1>1, <2>1 DEF Failed
    <2>3. Take(w, r, 1) = Take(u, r, 1)
      BY <1>1, <2>1, <2>2, TakeGrows
    <2>4. Take(w, r, 1) # Len(w) + 1
      BY <1>1, <2>1, <2>3
    <2> QED BY <2>4 DEF Clean, r
  <1> QED BY <1>12, <1>14, <1>16

\* The parts of a transaction without a witness.
LEMMA LegacyParts ==
  ASSUME NEW tx, TxOK(tx), NEW wide \in BOOLEAN
  PROVE  /\ Legacy(tx, wide) \in Wire
         /\ Len(Legacy(tx, wide)) = Len(Body(tx, wide)) + 2
         /\ \A w \in Wire : \A p : At(w, p, Legacy(tx, wide)) =>
              /\ p \in Nat \ {0} /\ At(w, p, << 4 >>) /\ At(w, p + 1, Body(tx, wide))
              /\ At(w, p + 1 + Len(Body(tx, wide)), << 4 >>)
  <1> DEFINE a == << 4 >>
             b == Body(tx, wide)
             ab == a \o b
             abc == ab \o a
  <1>1. b \in Wire /\ Len(b) \in Nat
    BY BodyAt DEF Wire
  <1>2. a \in Wire /\ Len(a) = 1
    BY OneNumber
  <1> HIDE DEF a, b
  <1>3. ab \in Wire /\ Len(ab) = Len(a) + Len(b)
    BY <1>1, <1>2, ConcatLen
  <1>a. \A w \in Wire : \A p : At(w, p, ab) => At(w, p, a) /\ At(w, p + Len(a), b)
    BY <1>1, <1>2, AtParts
  <1> HIDE DEF ab
  <1>4. abc \in Wire /\ Len(abc) = Len(ab) + Len(a)
    BY <1>2, <1>3, ConcatLen
  <1>b. \A w \in Wire : \A p : At(w, p, abc) => At(w, p, ab) /\ At(w, p + Len(ab), a)
    BY <1>2, <1>3, AtParts
  <1>c. Legacy(tx, wide) = abc
    BY DEF Legacy, a, b, ab
  <1> HIDE DEF abc
  <1>5. Len(abc) = Len(b) + 2
    BY <1>1, <1>2, <1>3, <1>4
  <1>6. ASSUME NEW w \in Wire, NEW p, At(w, p, abc)
        PROVE  p \in Nat \ {0} /\ At(w, p, a) /\ At(w, p + 1, b) /\ At(w, p + 1 + Len(b), a)
    <2>1. At(w, p, ab) /\ At(w, p + Len(ab), a)
      BY <1>6, <1>b
    <2>2. At(w, p, a) /\ At(w, p + Len(a), b)
      BY <2>1, <1>a
    <2>3. p \in Nat \ {0}
      BY <2>1 DEF At
    <2>4. p + Len(ab) = p + 1 + Len(b) /\ p + Len(a) = p + 1
      BY <1>1, <1>2, <1>3, <2>3
    <2> QED BY <2>1, <2>2, <2>3, <2>4
  <1>7. /\ abc \in Wire /\ Len(abc) = Len(b) + 2
        /\ \A w \in Wire : \A p : At(w, p, abc) =>
              p \in Nat \ {0} /\ At(w, p, a) /\ At(w, p + 1, b) /\ At(w, p + 1 + Len(b), a)
    BY <1>4, <1>5, <1>6
  <1> QED BY <1>7, <1>c DEF a, b

\* The first input stands where the inputs do.
LEMMA FirstInput ==
  ASSUME NEW tx, TxOK(tx), NEW wide \in BOOLEAN, NEW w \in Wire, NEW q,
         At(w, q, InBytes(tx, wide))
  PROVE  w[q] = tx.ins[1].prev
  <1> DEFINE parts == InsOf(tx, wide)
             in == tx.ins[1]
  <1>1. parts \in Seq(Wire) /\ Len(parts) \in Nat \ {0} /\ in \in Input
        /\ parts[1] = InputBytes(in, wide) /\ q \in Nat
    <2>1. 1 \in 1 .. Len(tx.ins)
      BY TxFacts
    <2> QED BY <2>1, TxFacts DEF At
  <1> HIDE DEF parts, in
  <1>2. PICK g : Glues(g, parts) /\ FlattenSeq(parts) = g[Len(parts)]
    BY <1>1, GluedParts
  <1>3. At(w, q, g[Len(parts)])
    BY <1>2 DEF InBytes, parts
  <1>4. \A i \in 1 .. Len(parts) : At(w, q + Len(g[i - 1]), parts[i])
    BY <1>1, <1>2, <1>3, PartsAt
  <1>5. Len(g[1 - 1]) = 0 /\ 1 \in 1 .. Len(parts)
    <2>1. g[0] = <<>> /\ 1 - 1 = 0
      BY <1>2 DEF Glues
    <2> QED BY <1>1, <2>1
  <1>6. At(w, q + Len(g[1 - 1]), parts[1])
    BY <1>4, <1>5
  <1>7. q + Len(g[1 - 1]) = q
    BY <1>1, <1>5
  <1>8. At(w, q, InputBytes(in, wide))
    BY <1>1, <1>6, <1>7
  <1>9. At(w, q, <<in.prev>>) /\ in.prev \in Nat
    BY <1>1, <1>8, InputParts DEF Input
  <1>10. w[q] = in.prev
    BY <1>9, FieldAt
  <1> QED BY <1>10 DEF in

\* A legacy transaction is read as it was written.
LEMMA LegacyRead ==
  ASSUME NEW tx, TxOK(tx), NEW wide \in BOOLEAN, NEW w, w = Legacy(tx, wide)
  PROVE  /\ w \in Wire
         /\ Inputs(w).n = Len(tx.ins) /\ w[Inputs(w).first] = tx.ins[1].prev
         /\ Inputs(w).p # Failed /\ Inputs(w).p \in Nat
         /\ Outputs(w, Inputs(w).p) = tx.outs
  <1> DEFINE a == InCount(tx, wide)
             b == InBytes(tx, wide)
             c == OutCount(tx, wide)
             d == OutBytes(tx, wide)
             B == Body(tx, wide)
             ni == Len(tx.ins)
             no == Len(tx.outs)
  <1>1. /\ ni \in Nat \ {0} /\ no \in Nat \ {0}
        /\ a \in Wire /\ b \in Wire /\ c \in Wire /\ d \in Wire
    BY TxFacts
  <1>2. w \in Wire /\ Len(w) = Len(B) + 2
    BY LegacyParts
  <1>3. At(w, 1, << 4 >>) /\ At(w, 1 + 1, B) /\ At(w, 1 + 1 + Len(B), << 4 >>)
    <2>1. At(w, 1, w)
      BY <1>2, AtSelf
    <2>2. At(w, 1, Legacy(tx, wide))
      BY <2>1
    <2> QED BY <1>2, <2>2, LegacyParts
  <1>4. 1 + 1 = 2 /\ 4 \in Nat
    OBVIOUS
  <1>5. Take(w, 1, 1) = 2
    BY <1>2, <1>3, <1>4, FieldAt
  <1>6. At(w, 2, B) /\ At(w, 2 + Len(B), << 4 >>)
    BY <1>3, <1>4
  <1>7. /\ At(w, 2, a) /\ At(w, 2 + Len(a), b) /\ At(w, 2 + Len(a) + Len(b), c)
        /\ At(w, 2 + Len(a) + Len(b) + Len(c), d)
        /\ Len(B) = Len(a) + Len(b) + Len(c) + Len(d)
    BY <1>2, <1>6, BodyAt
  <1>8. a = Enc(ni, wide) /\ c = Enc(no, wide)
    BY DEF InCount, OutCount
  <1>9. Len(a) \in Nat /\ Len(b) \in Nat /\ Len(c) \in Nat /\ Len(d) \in Nat
    BY <1>1 DEF Wire
  <1> DEFINE q == 2 + Len(a)
             r == q + Len(b)
             s == r + Len(c)
  <1>10. q \in Nat /\ r \in Nat \ {0} /\ s \in Nat /\ s + Len(d) = 2 + Len(B)
    BY <1>7, <1>9
  <1>11. ReadVarint(w, 2) = [n |-> ni, p |-> q]
    BY <1>1, <1>2, <1>7, <1>8, VarintAt
  <1>12. ReadVarint(w, r) = [n |-> no, p |-> s]
    BY <1>1, <1>2, <1>7, <1>8, VarintAt
  <1>13. At(w, q, b) /\ At(w, s, d)
    BY <1>7
  <1> HIDE DEF q, r, s
  <1>14. PICK f : /\ Runs(f, "skip", w, [p |-> q], ni)
                  /\ Inputs(w) = [n |-> ni, first |-> q, p |-> IF ni = 0 THEN Failed ELSE f[ni].p]
    <2>1. ni \in Nat /\ ReadVarint(w, Take(w, 1, 1)) = [n |-> ni, p |-> q]
      BY <1>1, <1>5, <1>11
    <2> HIDE DEF ni
    <2> QED BY <1>2, <1>10, <2>1, InputsRun
  <1>15. f[ni] = [p |-> r]
    BY <1>2, <1>13, <1>14, SkipsInputs DEF r
  <1>16. w[q] = tx.ins[1].prev
    BY <1>2, <1>13, FirstInput
  <1>17. PICK h : /\ Runs(h, "output", w, [p |-> s, outs |-> <<>>], no)
                  /\ Outputs(w, r) = IF no = 0 \/ h[no].p = Failed \/ ~Clean(w, h[no].p)
                                       THEN NoTx ELSE h[no].outs
    <2>1. no \in Nat /\ r \in Nat
      BY <1>1, <1>10
    <2> HIDE DEF no
    <2> QED BY <1>2, <1>10, <1>12, <2>1, OutputsRun
  <1>18. h[no] = [p |-> s + Len(d), outs |-> tx.outs]
    BY <1>2, <1>13, <1>17, ReadsOutputs
  <1> DEFINE t == 2 + Len(B)
  <1>19. Take(w, t, 1) = t + 1 /\ t \in Nat \ {0}
    BY <1>2, <1>4, <1>6, FieldAt
  <1>20. t + 1 = Len(w) + 1
    <2>1. Len(B) \in Nat
      BY BodyAt DEF Wire
    <2> HIDE DEF B
    <2> QED BY <1>2, <2>1
  <1>21. h[no] = [p |-> t, outs |-> tx.outs]
    BY <1>10, <1>18
  <1> HIDE DEF t, a, b, c, d, B, ni, no
  <1>22. Clean(w, t) /\ t # Failed
    BY <1>19, <1>20 DEF Clean, Failed
  <1>23. Outputs(w, r) = tx.outs
    BY <1>1, <1>17, <1>21, <1>22
  <1>24. Inputs(w) = [n |-> ni, first |-> q, p |-> r]
    BY <1>1, <1>14, <1>15
  <1>25. r # Failed /\ r \in Nat
    BY <1>10 DEF Failed
  <1> QED BY <1>2, <1>16, <1>23, <1>24, <1>25 DEF ni

\* No prefix of a transaction, and no wire that goes on behind one, is read.
LEMMA LegacyAlone ==
  ASSUME NEW tx, TxOK(tx), NEW wide \in BOOLEAN, NEW w, w = Legacy(tx, wide)
  PROVE  /\ \A n \in 0 .. Len(w) - 1 :
              \/ Inputs(SubSeq(w, 1, n)).p = Failed
              \/ Outputs(SubSeq(w, 1, n), Inputs(SubSeq(w, 1, n)).p) = NoTx
         /\ \/ Inputs(Append(w, 4)).p = Failed
            \/ Outputs(Append(w, 4), Inputs(Append(w, 4)).p) = NoTx
  <1>1. /\ w \in Wire /\ Inputs(w).p # Failed /\ Inputs(w).p \in Nat
        /\ Outputs(w, Inputs(w).p) = tx.outs
    BY LegacyRead
  <1>2. tx.outs # NoTx /\ Len(w) \in Nat /\ w \in Seq(Nat)
    BY <1>1 DEF TxOK, NoTx, Wire
  <1>3. ASSUME NEW n \in 0 .. Len(w) - 1,
               Inputs(SubSeq(w, 1, n)).p # Failed,
               Outputs(SubSeq(w, 1, n), Inputs(SubSeq(w, 1, n)).p) # NoTx
        PROVE  FALSE
    <2> DEFINE u == SubSeq(w, 1, n)
    <2>0. n \in 0 .. Len(w) /\ n # Len(w)
      BY <1>2
    <2>1. u \in Seq(Nat) /\ Len(u) = n /\ \A i \in 1 .. n : u[i] = w[i]
      BY <1>2, <2>0, PrefixOf
    <2>a. Inputs(u).p # Failed /\ Outputs(u, Inputs(u).p) # NoTx
      BY <1>3
    <2> HIDE DEF u
    <2>2. Begins(w, u) /\ Len(u) # Len(w)
      BY <1>1, <1>2, <2>0, <2>1 DEF Begins, Wire
    <2>3. Inputs(w) = Inputs(u) /\ Inputs(u).p \in Nat
      BY <2>2, <2>a, InputsGrow
    <2>4. Outputs(w, Inputs(u).p) = NoTx
      BY <2>2, <2>3, <2>a, OutputsEnd
    <2> QED BY <1>1, <1>2, <2>3, <2>4
  <1>4. \/ Inputs(Append(w, 4)).p = Failed
        \/ Outputs(Append(w, 4), Inputs(Append(w, 4)).p) = NoTx
    <2> DEFINE x == Append(w, 4)
    <2>1. x \in Seq(Nat) /\ Len(x) = Len(w) + 1 /\ \A i \in 1 .. Len(w) : x[i] = w[i]
      BY <1>2
    <2> HIDE DEF x
    <2>2. Begins(x, w) /\ Len(w) # Len(x)
      BY <1>1, <1>2, <2>1 DEF Begins, Wire
    <2>3. Inputs(x) = Inputs(w)
      BY <1>1, <2>2, InputsGrow
    <2>4. Outputs(x, Inputs(w).p) = NoTx
      BY <1>1, <1>2, <2>2, OutputsEnd
    <2>5. Outputs(x, Inputs(x).p) = NoTx
      BY <2>3, <2>4
    <2> QED BY <2>5 DEF x
  <1> QED BY <1>3, <1>4

\* A witness marker where the inputs are counted is a count of none.
LEMMA SegwitNotRead ==
  ASSUME NEW w \in Wire, At(w, 1, <<4, 0, 1>>)
  PROVE  Inputs(w).p = Failed
  <1>1. Len(w) \in Nat /\ Wide \in Nat /\ Wide > 4
    BY WireFacts DEF Wire
  <1>2. Len(<<4, 0, 1>>) = 3 /\ <<4, 0, 1>>[2] = 0
    OBVIOUS
  <1>3. 1 + 3 <= Len(w) + 1 /\ w[1 + 2 - 1] = 0
    BY <1>2 DEF At
  <1>4. w[2] = 0 /\ Len(w) >= 3
    BY <1>1, <1>3
  <1>5. Take(w, 1, 1) = 2 /\ Take(w, 2, 1) # Failed
    BY <1>1, <1>4 DEF Take, Failed
  <1>6. ReadVarint(w, Take(w, 1, 1)) = [n |-> 0, p |-> 3]
    BY <1>1, <1>4, <1>5 DEF ReadVarint
  <1>7. \E f : Inputs(w) = [n |-> 0, first |-> 3, p |-> IF 0 = 0 THEN Failed ELSE f[0].p]
    <2>1. 0 \in Nat /\ 3 \in Nat
      OBVIOUS
    <2> QED BY <1>6, <2>1, InputsRun
  <1> QED BY <1>7

-----------------------------------------------------------------------------
(* Sums.  v[i] adds up the values at the first i places, those not in S    *)
(* left out.                                                               *)

\* v adds the values of the members of S, from the first on.
Adds(v, val, S, n) ==
    v = [i \in 0 .. n |-> IF i = 0 THEN 0
                          ELSE IF i \in S THEN v[i - 1] + val[i] ELSE v[i - 1]]

SumOver(val, S, n) == (CHOOSE v : Adds(v, val, S, n))[n]

\* Such a sum exists, and is the only one.
LEMMA AddsExists ==
  ASSUME NEW n \in Nat, NEW val, NEW S
  PROVE  \E v : Adds(v, val, S, n)
  <1> DEFINE Level(a, i) == IF i \in S THEN a + val[i] ELSE a
             Solves(g, m) == \A i \in 0 .. m : g[i] = IF i = 0 THEN 0 ELSE Level(g[i - 1], i)
             T == {m \in Nat : \E g : Solves(g, m)}
  <1>0. ASSUME NEW f
        PROVE  Adds(f, val, S, n)
               <=> f = [i \in 0 .. n |-> IF i = 0 THEN 0 ELSE Level(f[i - 1], i)]
    BY DEF Adds
  <1> HIDE DEF Level
  <1>1. 0 \in T
    <2>1. Solves([i \in 0 .. 0 |-> 0], 0)
      OBVIOUS
    <2> QED BY <2>1
  <1>2. ASSUME NEW m \in T PROVE m + 1 \in T
    <2>1. PICK g : Solves(g, m)
      OBVIOUS
    <2> DEFINE h == [i \in 0 .. m + 1 |-> IF i = m + 1 THEN Level(g[m], i) ELSE g[i]]
    <2>2. Solves(h, m + 1)
      <3> SUFFICES ASSUME NEW i \in 0 .. m + 1
                   PROVE  h[i] = IF i = 0 THEN 0 ELSE Level(h[i - 1], i)
        OBVIOUS
      <3>1. CASE i = m + 1
        <4>1. i # 0 /\ i - 1 = m /\ h[m] = g[m]
          BY <3>1
        <4> QED BY <3>1, <4>1
      <3>2. CASE i # m + 1
        <4>1. i \in 0 .. m /\ h[i] = g[i] /\ (i # 0 => h[i - 1] = g[i - 1])
          BY <3>2
        <4> QED BY <2>1, <4>1
      <3> QED BY <3>1, <3>2
    <2>3. m + 1 \in Nat
      OBVIOUS
    <2> QED BY <2>2, <2>3
  <1>3. n \in T
    <2> HIDE DEF T
    <2>1. T \in SUBSET Nat
      BY DEF T
    <2> QED BY <1>1, <1>2, <2>1, AllNumbers
  <1>4. PICK g : Solves(g, n)
    BY <1>3
  <1> DEFINE h == [i \in 0 .. n |-> g[i]]
  <1>5. h = [i \in 0 .. n |-> IF i = 0 THEN 0 ELSE Level(h[i - 1], i)]
    BY <1>4
  <1> HIDE DEF h
  <1> QED BY <1>0, <1>5

LEMMA AddsFacts ==
  ASSUME NEW n \in Nat, NEW val \in [1 .. n -> Nat], NEW S, NEW v, Adds(v, val, S, n)
  PROVE  /\ v[0] = 0 /\ \A i \in 0 .. n : v[i] \in Nat
         /\ \A i \in 1 .. n : v[i] = IF i \in S THEN v[i - 1] + val[i] ELSE v[i - 1]
  <1>1. v[0] = 0
    BY DEF Adds
  <1>2. ASSUME NEW i \in 1 .. n
        PROVE  v[i] = IF i \in S THEN v[i - 1] + val[i] ELSE v[i - 1]
    <2>1. i \in 0 .. n /\ i # 0
      OBVIOUS
    <2> QED BY <2>1 DEF Adds
  <1> DEFINE T == {i \in Nat : i <= n => v[i] \in Nat}
  <1>3. 0 \in T
    BY <1>1
  <1>4. ASSUME NEW i \in T PROVE i + 1 \in T
    <2>1. CASE i + 1 <= n
      <3>1. i + 1 \in 1 .. n /\ i + 1 - 1 = i /\ v[i] \in Nat /\ val[i + 1] \in Nat
        BY <2>1
      <3>2. v[i + 1] = IF i + 1 \in S THEN v[i] + val[i + 1] ELSE v[i]
        BY <1>2, <3>1
      <3>3. v[i + 1] \in Nat
        BY <3>1, <3>2
      <3> QED BY <3>3
    <2> QED BY <2>1
  <1>5. T \in SUBSET Nat
    OBVIOUS
  <1> HIDE DEF T
  <1>6. T = Nat
    BY <1>3, <1>4, <1>5, AllNumbers
  <1>7. \A i \in 0 .. n : v[i] \in Nat
    BY <1>6 DEF T
  <1> QED BY <1>1, <1>2, <1>7

\* A value can be added last.
LEMMA SumWithout ==
  ASSUME NEW n \in Nat, NEW val \in [1 .. n -> Nat], NEW S \in SUBSET (1 .. n), NEW x \in S
  PROVE  SumOver(val, S, n) = val[x] + SumOver(val, S \ {x}, n)
  <1> DEFINE R == S \ {x}
             v == CHOOSE t : Adds(t, val, S, n)
             u == CHOOSE t : Adds(t, val, R, n)
  <1>1. Adds(v, val, S, n)
    BY AddsExists
  <1>2. Adds(u, val, R, n)
    BY AddsExists
  <1>0. SumOver(val, S, n) = v[n] /\ SumOver(val, R, n) = u[n]
    BY DEF SumOver
  <1> HIDE DEF u, v
  <1>3. /\ v[0] = 0 /\ \A i \in 0 .. n : v[i] \in Nat
        /\ \A i \in 1 .. n : v[i] = IF i \in S THEN v[i - 1] + val[i] ELSE v[i - 1]
    <2> HIDE DEF R
    <2>1. v[0] = 0
      BY <1>1, AddsFacts
    <2>2. \A i \in 0 .. n : v[i] \in Nat
      BY <1>1, AddsFacts
    <2>3. ASSUME NEW i \in 1 .. n
          PROVE  v[i] = IF i \in S THEN v[i - 1] + val[i] ELSE v[i - 1]
      <3>1. i \in 0 .. n /\ i # 0
        OBVIOUS
      <3> QED BY <1>1, <3>1 DEF Adds
    <2> QED BY <2>1, <2>2, <2>3
  <1>4. /\ u[0] = 0 /\ \A i \in 0 .. n : u[i] \in Nat
        /\ \A i \in 1 .. n : u[i] = IF i \in R THEN u[i - 1] + val[i] ELSE u[i - 1]
    <2> HIDE DEF R
    <2> QED BY <1>2, AddsFacts
  <1>5. x \in 1 .. n /\ val[x] \in Nat
    OBVIOUS
  <1> DEFINE T == {i \in Nat : i <= n => v[i] = IF i >= x THEN val[x] + u[i] ELSE u[i]}
  <1>6. 0 \in T
    BY <1>3, <1>4, <1>5
  <1>7. ASSUME NEW i \in T PROVE i + 1 \in T
    <2>1. CASE i + 1 <= n
      <3> DEFINE j == i + 1
      <3>1. j \in 1 .. n /\ j - 1 = i /\ v[i] \in Nat /\ u[i] \in Nat /\ val[j] \in Nat
            /\ v[i] = IF i >= x THEN val[x] + u[i] ELSE u[i]
        BY <1>3, <1>4, <2>1
      <3>2. v[j] = IF j \in S THEN v[i] + val[j] ELSE v[i]
        BY <1>3, <3>1
      <3>3. u[j] = IF j \in R THEN u[i] + val[j] ELSE u[i]
        BY <1>4, <3>1
      <3>a. j \in Int /\ i \in Int /\ x \in Int /\ j = i + 1
        BY <1>5
      <3> HIDE DEF j
      <3>4. CASE j = x
        <4>1. j \in S /\ j \notin R /\ ~(i >= x) /\ j >= x
          BY <3>4, <3>a
        <4>2. v[j] = u[i] + val[j] /\ u[j] = u[i] /\ val[j] = val[x]
          BY <3>1, <3>2, <3>3, <3>4, <4>1
        <4>3. v[j] = val[x] + u[j]
          BY <1>5, <3>1, <4>2
        <4> QED BY <4>1, <4>3 DEF j
      <3>5. CASE j # x
        <4>1. (j \in S <=> j \in R) /\ (i >= x <=> j >= x)
          BY <3>5, <3>a
        <4>2. v[j] = IF j >= x THEN val[x] + u[j] ELSE u[j]
          BY <1>5, <3>1, <3>2, <3>3, <4>1
        <4> QED BY <4>2 DEF j
      <3> QED BY <3>4, <3>5
    <2> QED BY <2>1
  <1>8. T \in SUBSET Nat
    OBVIOUS
  <1>9. n \in T
    <2> HIDE DEF T
    <2> QED BY <1>6, <1>7, <1>8, AllNumbers
  <1>10. v[n] = val[x] + u[n]
    BY <1>5, <1>9
  <1> QED BY <1>0, <1>10

LEMMA SumOfNone ==
  ASSUME NEW n \in Nat, NEW val \in [1 .. n -> Nat]
  PROVE  SumOver(val, {}, n) = 0
  <1> DEFINE v == CHOOSE t : Adds(t, val, {}, n)
  <1>1. Adds(v, val, {}, n)
    BY AddsExists
  <1>0. SumOver(val, {}, n) = v[n]
    BY DEF SumOver
  <1> HIDE DEF v
  <1>2. v[0] = 0 /\ \A i \in 1 .. n : v[i] = IF i \in {} THEN v[i - 1] + val[i] ELSE v[i - 1]
    BY <1>1, AddsFacts
  <1> DEFINE T == {i \in Nat : i <= n => v[i] = 0}
  <1>3. 0 \in T
    BY <1>2
  <1>4. ASSUME NEW i \in T PROVE i + 1 \in T
    <2>1. CASE i + 1 <= n
      <3>1. i + 1 \in 1 .. n /\ i + 1 - 1 = i /\ v[i] = 0
        BY <2>1
      <3>2. v[i + 1] = 0
        BY <1>2, <3>1
      <3> QED BY <3>2
    <2> QED BY <2>1
  <1>5. T \in SUBSET Nat
    OBVIOUS
  <1>6. n \in T
    <2> HIDE DEF T
    <2> QED BY <1>3, <1>4, <1>5, AllNumbers
  <1> QED BY <1>0, <1>6

LEMMA AddsUnique ==
  ASSUME NEW n \in Nat, NEW val \in [1 .. n -> Nat], NEW S, NEW v, Adds(v, val, S, n)
  PROVE  SumOver(val, S, n) = v[n] /\ v[n] \in Nat
  <1> DEFINE u == CHOOSE u : Adds(u, val, S, n)
  <1>1. Adds(u, val, S, n)
    BY AddsExists
  <1>0. SumOver(val, S, n) = u[n]
    BY DEF SumOver
  <1> HIDE DEF u
  <1>2. u[0] = 0 /\ \A i \in 1 .. n : u[i] = IF i \in S THEN u[i - 1] + val[i] ELSE u[i - 1]
    BY <1>1, AddsFacts
  <1>3. v[0] = 0 /\ (\A i \in 1 .. n : v[i] = IF i \in S THEN v[i - 1] + val[i] ELSE v[i - 1])
        /\ v[n] \in Nat
    <2>1. v[0] = 0
      BY AddsFacts
    <2>2. \A i \in 0 .. n : v[i] \in Nat
      BY AddsFacts
    <2>3. \A i \in 1 .. n : v[i] = IF i \in S THEN v[i - 1] + val[i] ELSE v[i - 1]
      BY AddsFacts
    <2> QED BY <2>1, <2>2, <2>3
  <1> DEFINE T == {i \in Nat : i <= n => u[i] = v[i]}
  <1>4. 0 \in T
    BY <1>2, <1>3
  <1>5. ASSUME NEW i \in T PROVE i + 1 \in T
    <2>1. CASE i + 1 <= n
      <3>1. i + 1 \in 1 .. n /\ i + 1 - 1 = i /\ u[i] = v[i]
        BY <2>1
      <3>2. u[i + 1] = v[i + 1]
        BY <1>2, <1>3, <3>1
      <3> QED BY <3>2
    <2> QED BY <2>1
  <1>6. T \in SUBSET Nat
    OBVIOUS
  <1>7. n \in T
    <2> HIDE DEF T
    <2> QED BY <1>4, <1>5, <1>6, AllNumbers
  <1> QED BY <1>0, <1>3, <1>7

ValuesOf(outs) == [i \in 1 .. Len(outs) |-> outs[i].value]

\* The loop adds up what is paid.
LEMMA PaidAddsUp ==
  ASSUME NEW outs \in Seq(Output), NEW h
  PROVE  /\ Paid(outs, h) = SumOver(ValuesOf(outs), {i \in DOMAIN outs : outs[i].script = PayTo(h)},
                                    Len(outs))
         /\ Paid(outs, h) \in Nat
  <1> DEFINE n == Len(outs)
             S == {i \in DOMAIN outs : outs[i].script = PayTo(h)}
             val == ValuesOf(outs)
             Solves(v) == v = [i \in 0 .. n |-> IF i = 0 THEN 0
                                 ELSE IF IsPay(outs[i], h) THEN v[i - 1] + outs[i].value
                                 ELSE v[i - 1]]
             v == CHOOSE v : Solves(v)
  <1>1. n \in Nat /\ DOMAIN outs = 1 .. n /\ (\A i \in 1 .. n : outs[i] \in Output)
    OBVIOUS
  <1>2. val \in [1 .. n -> Nat] /\ \A i \in 1 .. n : val[i] = outs[i].value
    BY <1>1 DEF ValuesOf, Output
  <1>3. \A i \in 1 .. n : i \in S <=> IsPay(outs[i], h)
    BY <1>1 DEF IsPay
  <1>0. Paid(outs, h) = v[n]
    BY DEF Paid
  <1>4. ASSUME NEW u PROVE Solves(u) <=> Adds(u, val, S, n)
    <2> HIDE DEF S, val, n
    <2>1. ASSUME NEW i \in 0 .. n
          PROVE  (IF i = 0 THEN 0 ELSE IF IsPay(outs[i], h) THEN u[i - 1] + outs[i].value
                                                            ELSE u[i - 1])
                 = IF i = 0 THEN 0 ELSE IF i \in S THEN u[i - 1] + val[i] ELSE u[i - 1]
      <3>1. CASE i = 0
        BY <3>1
      <3>2. CASE i # 0
        <4>1. i \in 1 .. n
          BY <1>1, <3>2
        <4> QED BY <1>2, <1>3, <4>1
      <3> QED BY <3>1, <3>2
    <2> QED BY <2>1 DEF Adds
  <1> HIDE DEF S, val, n
  <1>5. \E u : Solves(u)
    <2>1. \E u : Adds(u, val, S, n)
      BY <1>1, AddsExists
    <2> QED BY <1>4, <2>1
  <1>6. Adds(v, val, S, n)
    BY <1>4, <1>5
  <1> HIDE DEF v
  <1>7. SumOver(val, S, n) = v[n] /\ v[n] \in Nat
    BY <1>1, <1>2, <1>6, AddsUnique
  <1> QED BY <1>0, <1>7 DEF S, val, n

\* iter is how MapThenSumSet adds the values of a set.
SumsTo(outs, S, iter) ==
    iter = [s \in SUBSET S |->
              IF s = {} THEN 0
              ELSE outs[CHOOSE x \in s : TRUE].value + iter[s \ {CHOOSE x \in s : TRUE}]]

\* The sum does not depend on the order.
LEMMA SetAddsUp ==
  ASSUME NEW outs \in Seq(Output), NEW S \in SUBSET (1 .. Len(outs))
  PROVE  MapThenSumSet(LAMBDA i : outs[i].value, S) = SumOver(ValuesOf(outs), S, Len(outs))
  <1> DEFINE n == Len(outs)
             val == ValuesOf(outs)
             Sum(s) == SumOver(val, s, n)
             next(s) == CHOOSE x \in s : TRUE
             it == [s \in SUBSET S |-> Sum(s)]
  <1>0. n \in Nat /\ S \in SUBSET (1 .. n) /\ \A i \in 1 .. n : outs[i] \in Output
    OBVIOUS
  <1>1. val \in [1 .. n -> Nat] /\ \A i \in 1 .. n : val[i] = outs[i].value
    BY <1>0 DEF ValuesOf, Output
  <1>2. Sum({}) = 0
    <2> HIDE DEF n, val
    <2> QED BY <1>0, <1>1, SumOfNone
  <1>3. ASSUME NEW s \in SUBSET S, s # {}
        PROVE  /\ next(s) \in s /\ s \ {next(s)} \in SUBSET S
               /\ Sum(s) = outs[next(s)].value + Sum(s \ {next(s)})
    <2> DEFINE x == next(s)
    <2>1. x \in s
      BY <1>3
    <2> HIDE DEF x, n, val
    <2>2. s \in SUBSET (1 .. n) /\ x \in 1 .. n
      BY <1>0, <2>1
    <2>3. Sum(s) = val[x] + Sum(s \ {x})
      BY <1>0, <1>1, <2>1, <2>2, SumWithout
    <2> HIDE DEF Sum
    <2>4. x \in s /\ s \ {x} \in SUBSET S /\ Sum(s) = outs[x].value + Sum(s \ {x})
      BY <1>1, <2>1, <2>2, <2>3
    <2> QED BY <2>4 DEF x
  <1> HIDE DEF n, val, Sum, next
  <1>4. SumsTo(outs, S, it)
    <2>1. ASSUME NEW s \in SUBSET S
          PROVE  Sum(s) = IF s = {} THEN 0 ELSE outs[next(s)].value + it[s \ {next(s)}]
      <3>1. CASE s = {}
        BY <1>2, <3>1
      <3>2. CASE s # {}
        <4>1. s \ {next(s)} \in SUBSET S /\ Sum(s) = outs[next(s)].value + Sum(s \ {next(s)})
          BY <1>3, <3>2
        <4>2. it[s \ {next(s)}] = Sum(s \ {next(s)})
          BY <4>1
        <4> QED BY <3>2, <4>1, <4>2
      <3> QED BY <3>1, <3>2
    <2>2. it = [s \in SUBSET S |-> IF s = {} THEN 0 ELSE outs[next(s)].value + it[s \ {next(s)}]]
      BY <2>1
    <2> HIDE DEF it
    <2> QED BY <2>2 DEF SumsTo, next
  <1>5. IsFiniteSet(S)
    <2>1. IsFiniteSet(1 .. n)
      BY <1>0, FS_Interval
    <2> QED BY <1>0, <2>1, FS_Subset
  <1> HIDE DEF it
  <1>6. ASSUME NEW iter, SumsTo(outs, S, iter)
        PROVE  iter[S] = Sum(S)
    <2> DEFINE T == {k \in Nat : \A s \in SUBSET S : Cardinality(s) = k => iter[s] = Sum(s)}
    <2>0. \A s \in SUBSET S : iter[s] = IF s = {} THEN 0
              ELSE outs[next(s)].value + iter[s \ {next(s)}]
      BY <1>6 DEF SumsTo, next
    <2>1. 0 \in T
      <3>1. \A s \in SUBSET S : IsFiniteSet(s)
        BY <1>5, FS_Subset
      <3>2. \A s \in SUBSET S : Cardinality(s) = 0 => s = {}
        BY <3>1, FS_EmptySet
      <3> QED BY <1>2, <2>0, <3>2
    <2>2. ASSUME NEW k \in T PROVE k + 1 \in T
      <3> SUFFICES ASSUME NEW s \in SUBSET S, Cardinality(s) = k + 1
                   PROVE  iter[s] = Sum(s)
        OBVIOUS
      <3>1. IsFiniteSet(s)
        BY <1>5, FS_Subset
      <3>2. s # {}
        <4>1. Cardinality({}) = 0
          BY FS_EmptySet
        <4>2. k \in Nat
          OBVIOUS
        <4>3. CASE s = {}
          <5>1. k + 1 = 0
            BY <4>1, <4>3
          <5> QED BY <4>2, <5>1
        <4> QED BY <4>3
      <3>3. /\ next(s) \in s /\ s \ {next(s)} \in SUBSET S
            /\ Sum(s) = outs[next(s)].value + Sum(s \ {next(s)})
        BY <1>3, <3>2
      <3>4. Cardinality(s \ {next(s)}) = k
        <4>1. Cardinality(s \ {next(s)}) = Cardinality(s) - 1
          BY <3>1, <3>3, FS_RemoveElement
        <4> QED BY <4>1
      <3>5. iter[s \ {next(s)}] = Sum(s \ {next(s)})
        BY <3>3, <3>4
      <3> QED BY <2>0, <3>2, <3>3, <3>5
    <2>3. T = Nat
      <3> HIDE DEF T
      <3>1. T \in SUBSET Nat
        BY DEF T
      <3> QED BY <2>1, <2>2, <3>1, AllNumbers
    <2>4. Cardinality(S) \in T
      <3> HIDE DEF T
      <3> QED BY <1>5, <2>3, FS_CardinalityType
    <2> QED BY <2>4
  <1>7. MapThenSumSet(LAMBDA i : outs[i].value, S) = (CHOOSE iter : SumsTo(outs, S, iter))[S]
    BY DEF MapThenSumSet, MapThenFoldSet, SumsTo
  <1>8. SumsTo(outs, S, CHOOSE iter : SumsTo(outs, S, iter))
    BY <1>4
  <1> QED BY <1>6, <1>7, <1>8 DEF Sum, val, n

-----------------------------------------------------------------------------
(* Witnesses. *)

ItemsOf(items, wide) == [j \in DOMAIN items |-> EncScript(items[j], wide)]
WitnessesOf(tx, items, wide) == [i \in DOMAIN tx.ins |-> WitnessBytes(items, wide)]

LEMMA FlattenType ==
  ASSUME NEW parts \in Seq(Wire)
  PROVE  FlattenSeq(parts) \in Wire
  <1>1. PICK g : Glues(g, parts) /\ FlattenSeq(parts) = g[Len(parts)]
    BY GluedParts
  <1>2. Len(parts) \in Nat
    OBVIOUS
  <1>3. g[Len(parts)] \in Wire
    BY <1>1, <1>2 DEF Glues
  <1> QED BY <1>1, <1>3

\* The bytes of a witness, and of one for each input.
LEMMA WitnessFacts ==
  ASSUME NEW items \in Seq(Wire), NEW wide \in BOOLEAN
  PROVE  /\ ItemsOf(items, wide) \in Seq(Wire) /\ Len(ItemsOf(items, wide)) = Len(items)
         /\ \A j \in 1 .. Len(items) : items[j] \in Wire
                                       /\ ItemsOf(items, wide)[j] = EncScript(items[j], wide)
         /\ Enc(Len(items), wide) \in Wire
         /\ WitnessBytes(items, wide) = Enc(Len(items), wide) \o FlattenSeq(ItemsOf(items, wide))
         /\ WitnessBytes(items, wide) \in Wire
  <1> DEFINE n == Len(items)
             B(j) == EncScript(items[j], wide)
  <1>1. n \in Nat /\ DOMAIN items = 1 .. n /\ \A j \in 1 .. n : items[j] \in Wire
    OBVIOUS
  <1>2. \A j \in 1 .. n : B(j) \in Wire
    BY <1>1, EncScriptFacts
  <1>3. ItemsOf(items, wide) = [j \in 1 .. n |-> B(j)]
    BY <1>1 DEF ItemsOf
  <1>4. [j \in 1 .. n |-> B(j)] \in Seq(Wire) /\ Len([j \in 1 .. n |-> B(j)]) = n
    <2> HIDE DEF n, B
    <2> QED BY <1>1, <1>2
  <1>5. ItemsOf(items, wide) \in Seq(Wire) /\ Len(ItemsOf(items, wide)) = n
    <2> HIDE DEF n, B
    <2> QED BY <1>3, <1>4
  <1>6. \A j \in 1 .. n : ItemsOf(items, wide)[j] = B(j)
    BY <1>3
  <1>7. Enc(n, wide) \in Wire
    BY <1>1, EncFacts
  <1>8. FlattenSeq(ItemsOf(items, wide)) \in Wire
    BY <1>5, FlattenType
  <1>9. WitnessBytes(items, wide) = Enc(n, wide) \o FlattenSeq(ItemsOf(items, wide))
    BY DEF WitnessBytes, ItemsOf
  <1> DEFINE a == Enc(n, wide)
             b == FlattenSeq(ItemsOf(items, wide))
  <1>10. a \o b \in Wire
    <2> HIDE DEF a, b
    <2>1. a \in Wire /\ b \in Wire
      BY <1>7, <1>8 DEF a, b
    <2> QED BY <2>1, ConcatLen
  <1>11. WitnessBytes(items, wide) \in Wire
    BY <1>9, <1>10
  <1> QED BY <1>1, <1>5, <1>6, <1>7, <1>9, <1>11

LEMMA WitnessesFacts ==
  ASSUME NEW tx, TxOK(tx), NEW items \in Seq(Wire), NEW wide \in BOOLEAN
  PROVE  /\ WitnessesOf(tx, items, wide) \in Seq(Wire)
         /\ Len(WitnessesOf(tx, items, wide)) = Len(tx.ins)
         /\ \A i \in 1 .. Len(tx.ins) : WitnessesOf(tx, items, wide)[i] = WitnessBytes(items, wide)
         /\ FlattenSeq(WitnessesOf(tx, items, wide)) \in Wire
  <1> DEFINE n == Len(tx.ins)
             b == WitnessBytes(items, wide)
             s == WitnessesOf(tx, items, wide)
  <1>1. n \in Nat /\ DOMAIN tx.ins = 1 .. n
    BY TxFacts
  <1>2. b \in Wire
    BY WitnessFacts
  <1>3. s = [i \in 1 .. n |-> b]
    BY <1>1 DEF WitnessesOf
  <1> HIDE DEF n, b, s
  <1>4. s \in Seq(Wire) /\ Len(s) = n /\ \A i \in 1 .. n : s[i] = b
    BY <1>1, <1>2, <1>3
  <1>5. FlattenSeq(s) \in Wire
    BY <1>4, FlattenType
  <1> QED BY <1>4, <1>5 DEF n, b, s

\* The parts of a transaction with a witness.
LEMMA SegwitParts ==
  ASSUME NEW tx, TxOK(tx), NEW items \in Seq(Wire), NEW wide \in BOOLEAN,
         NEW F, F = FlattenSeq(WitnessesOf(tx, items, wide)),
         NEW B, B = Body(tx, wide)
  PROVE  /\ Segwit(tx, wide, items) \in Wire
         /\ Len(Segwit(tx, wide, items)) = 3 + Len(B) + Len(F) + 1
         /\ B \in Wire /\ F \in Wire
         /\ \A w \in Wire : \A p : At(w, p, Segwit(tx, wide, items)) =>
              /\ p \in Nat \ {0} /\ At(w, p, <<4, 0, 1>>) /\ At(w, p + 3, B)
              /\ At(w, p + 3 + Len(B), F) /\ At(w, p + 3 + Len(B) + Len(F), << 4 >>)
  <1> DEFINE a == <<4, 0, 1>>
             c == << 4 >>
  <1>1. a \in Wire /\ Len(a) = 3 /\ c \in Wire /\ Len(c) = 1
    BY DEF Wire
  <1>2. B \in Wire
    BY BodyAt
  <1>3. F \in Wire
    BY WitnessesFacts
  <1>4. Segwit(tx, wide, items) = a \o B \o F \o c
    BY DEF Segwit, WitnessesOf
  <1> DEFINE s == Segwit(tx, wide, items)
  <1> HIDE DEF a, c, s
  <1>5. s = a \o B \o F \o c
    BY <1>4 DEF s
  <1>6. /\ s \in Wire /\ Len(s) = Len(a) + Len(B) + Len(F) + Len(c)
        /\ \A w \in Wire : \A p : At(w, p, s) =>
              /\ p \in Nat \ {0} /\ At(w, p, a) /\ At(w, p + Len(a), B)
              /\ At(w, p + Len(a) + Len(B), F)
              /\ At(w, p + Len(a) + Len(B) + Len(F), c)
    <2>1. a \in Wire /\ c \in Wire
      BY <1>1
    <2>2. /\ s \in Wire /\ Len(s) = Len(a) + Len(B) + Len(F) + Len(c)
      BY <1>2, <1>3, <1>5, <2>1, FourParts
    <2>3. ASSUME NEW w \in Wire, NEW p, At(w, p, s)
          PROVE  /\ p \in Nat \ {0} /\ At(w, p, a) /\ At(w, p + Len(a), B)
                 /\ At(w, p + Len(a) + Len(B), F)
                 /\ At(w, p + Len(a) + Len(B) + Len(F), c)
      <3>1. At(w, p, a \o B \o F \o c)
        BY <1>5, <2>3
      <3> QED BY <1>2, <1>3, <2>1, <3>1, FourParts
    <2> QED BY <2>2, <2>3
  <1>7. /\ s \in Wire /\ Len(s) = 3 + Len(B) + Len(F) + 1
        /\ \A w \in Wire : \A p : At(w, p, s) =>
              /\ p \in Nat \ {0} /\ At(w, p, a) /\ At(w, p + 3, B)
              /\ At(w, p + 3 + Len(B), F) /\ At(w, p + 3 + Len(B) + Len(F), c)
    BY <1>1, <1>6
  <1> QED BY <1>2, <1>3, <1>7 DEF a, c, s

-----------------------------------------------------------------------------
(* The payment parsers. *)

\* The scripts by their length and first numbers.
LEMMA ScriptForms ==
  ASSUME NEW o \in Output, NEW h
  PROVE  /\ (~IsPay(o, h) /\ IsReturnTo(o)) <=>
              \E r \in ToSet(o.script) : o.script \in {ReturnTo(r), ReturnToWrapped(r)}
         /\ IsReturnId(o) <=> \E r \in ToSet(o.script) : o.script = ReturnId(r)
  <1> DEFINE s == o.script
  <1>1. s \in Seq(Nat)
    BY DEF Output, Wire
  <1>2. ToSet(s) = {s[i] : i \in DOMAIN s} /\ DOMAIN s = 1 .. Len(s)
    BY <1>1 DEF ToSet
  <1> HIDE DEF s
  <1>3. Len(s) = 2 => s = <<s[1], s[2]>> /\ s[2] \in ToSet(s)
    BY <1>1, <1>2
  <1>4. Len(s) = 3 => s = <<s[1], s[2], s[3]>> /\ s[3] \in ToSet(s)
    BY <1>1, <1>2
  <1>5. IsReturnTo(o) <=> (Len(s) = 2 /\ s[1] = 2) \/ (Len(s) = 3 /\ s[1] = 2 /\ s[2] = 2)
    BY DEF IsReturnTo, s
  <1>6. IsPay(o, h) => s[1] = 1
    BY DEF IsPay, PayTo, s
  <1>7. IsReturnId(o) <=> Len(s) = 2 /\ s[1] = 3
    BY DEF IsReturnId, s
  <1>8. ASSUME NEW r, s = <<2, r>> \/ s = <<2, 2, r>>
        PROVE  (Len(s) = 2 /\ s[1] = 2) \/ (Len(s) = 3 /\ s[1] = 2 /\ s[2] = 2)
    BY <1>8
  <1>9. ASSUME NEW r, s = <<3, r>> PROVE Len(s) = 2 /\ s[1] = 3
    BY <1>9
  <1>10. IsReturnTo(o) => \E r \in ToSet(s) : s \in {<<2, r>>, <<2, 2, r>>}
    <2>1. CASE Len(s) = 2 /\ s[1] = 2
      <3>1. s = <<2, s[2]>> /\ s[2] \in ToSet(s)
        BY <1>3, <2>1
      <3> QED BY <3>1
    <2>2. CASE Len(s) = 3 /\ s[1] = 2 /\ s[2] = 2
      <3>1. s = <<2, 2, s[3]>> /\ s[3] \in ToSet(s)
        BY <1>4, <2>2
      <3> QED BY <3>1
    <2> QED BY <1>5, <2>1, <2>2
  <1>11. IsReturnId(o) => \E r \in ToSet(s) : s = <<3, r>>
    BY <1>3, <1>7
  <1>12. IsReturnTo(o) => ~IsPay(o, h)
    BY <1>5, <1>6
  <1>13. (~IsPay(o, h) /\ IsReturnTo(o)) <=> \E r \in ToSet(s) : s \in {<<2, r>>, <<2, 2, r>>}
    BY <1>5, <1>8, <1>10, <1>12
  <1>14. IsReturnId(o) <=> \E r \in ToSet(s) : s = <<3, r>>
    BY <1>7, <1>9, <1>11
  <1> QED BY <1>13, <1>14 DEF s, ReturnTo, ReturnToWrapped, ReturnId

\* Nothing is read from a wire whose inputs or outputs fail.
LEMMA NotRead ==
  ASSUME NEW w, NEW h, Inputs(w).p = Failed \/ Outputs(w, Inputs(w).p) = NoTx
  PROVE  ParseDepositOutputs(w, h) = NoTx /\ ParseWithdrawalOutputs(w, h) = NoTx
  BY DEF ParseDepositOutputs, ParseWithdrawalOutputs

\* The outputs that pay a key hash, name a recipient, name a withdrawal.
PaysOf(tx, h) == {i \in DOMAIN tx.outs : tx.outs[i].script = PayTo(h)}
TosOf(tx) == {i \in DOMAIN tx.outs : \E r \in ToSet(tx.outs[i].script) :
                  tx.outs[i].script \in {ReturnTo(r), ReturnToWrapped(r)}}
IdsOf(tx) == {i \in DOMAIN tx.outs : \E r \in ToSet(tx.outs[i].script) :
                  tx.outs[i].script = ReturnId(r)}

\* What the parsers read from a legacy transaction is what it pays.
LEMMA PaymentsRead ==
  ASSUME NEW tx, TxOK(tx), NEW wide \in BOOLEAN, NEW h, NEW w, w = Legacy(tx, wide),
         NEW pays, pays = PaysOf(tx, h), NEW tos, tos = TosOf(tx), NEW ids, ids = IdsOf(tx)
  PROVE  /\ ParseDepositOutputs(w, h) =
              IF \/ Len(tx.ins) = 1 /\ tx.ins[1].prev = NullPrevout
                 \/ Paid(tx.outs, h) = 0 \/ Paid(tx.outs, h) > MaxValue \/ tos = {} THEN NoTx
              ELSE <<Paid(tx.outs, h), Last(tx.outs[Min(tos)].script)>>
         /\ ParseWithdrawalOutputs(w, h) =
              IF pays = {} \/ ids = {} THEN NoTx
              ELSE <<tx.outs[Min(pays)].value, Last(tx.outs[Min(ids)].script)>>
  <1> DEFINE outs == tx.outs
  <1>1. /\ Inputs(w).n = Len(tx.ins) /\ w[Inputs(w).first] = tx.ins[1].prev
        /\ Inputs(w).p # Failed
        /\ Outputs(w, Inputs(w).p) = outs
    BY LegacyRead
  <1>2. outs # NoTx /\ \A i \in DOMAIN outs : outs[i] \in Output
    BY TxFacts DEF TxOK, NoTx
  <1>3. pays = {i \in DOMAIN outs : IsPay(outs[i], h)}
    BY DEF IsPay, PaysOf
  <1>4. tos = {i \in DOMAIN outs : ~IsPay(outs[i], h) /\ IsReturnTo(outs[i])}
    BY <1>2, ScriptForms DEF TosOf
  <1>5. ids = {i \in DOMAIN outs : IsReturnId(outs[i])}
    BY <1>2, ScriptForms DEF IdsOf
  <1> DEFINE to == {i \in DOMAIN outs : ~IsPay(outs[i], h) /\ IsReturnTo(outs[i])}
             paying == {i \in DOMAIN outs : IsPay(outs[i], h)}
             naming == {i \in DOMAIN outs : IsReturnId(outs[i])}
             generated == Len(tx.ins) = 1 /\ tx.ins[1].prev = NullPrevout
  <1>6. ParseWithdrawalOutputs(w, h) =
          IF outs = NoTx \/ paying = {} \/ naming = {} THEN NoTx
          ELSE <<outs[Min(paying)].value, Last(outs[Min(naming)].script)>>
    BY <1>1 DEF ParseWithdrawalOutputs
  <1>7. CASE generated
    <2>1. ParseDepositOutputs(w, h) = NoTx
      BY <1>1, <1>7 DEF ParseDepositOutputs
    <2> QED BY <1>2, <1>3, <1>5, <1>6, <1>7, <2>1
  <1>8. CASE ~generated
    <2>1. ~(Inputs(w).p = Failed \/ (Inputs(w).n = 1 /\ w[Inputs(w).first] = NullPrevout))
      BY <1>1, <1>8
    <2>2. ParseDepositOutputs(w, h) =
            IF outs = NoTx \/ Paid(outs, h) = 0 \/ Paid(outs, h) > MaxValue \/ to = {} THEN NoTx
            ELSE <<Paid(outs, h), Last(outs[Min(to)].script)>>
      BY <1>1, <2>1 DEF ParseDepositOutputs
    <2> QED BY <1>2, <1>3, <1>4, <1>5, <1>6, <1>8, <2>2
  <1> QED BY <1>7, <1>8

\* The payments of one transaction, in its five forms.
LEMMA PaymentsLemma ==
  ASSUME NEW tx, TxOK(tx), NEW wide \in BOOLEAN, NEW h
  PROVE  PaymentsExactFor(tx, wide, h)
  <1> DEFINE w == Legacy(tx, wide)
             pays == {i \in DOMAIN tx.outs : tx.outs[i].script = PayTo(h)}
             tos == {i \in DOMAIN tx.outs : \E r \in ToSet(tx.outs[i].script) :
                             tx.outs[i].script \in {ReturnTo(r), ReturnToWrapped(r)}}
             ids == {i \in DOMAIN tx.outs : \E r \in ToSet(tx.outs[i].script) :
                             tx.outs[i].script = ReturnId(r)}
             paid == MapThenSumSet(LAMBDA i : tx.outs[i].value, pays)
             generated == Len(tx.ins) = 1 /\ tx.ins[1].prev = NullPrevout
  <1>1. paid = Paid(tx.outs, h)
    <2>1. tx.outs \in Seq(Output) /\ DOMAIN tx.outs = 1 .. Len(tx.outs)
      BY DEF TxOK
    <2> DEFINE outs == tx.outs
    <2>2. pays \in SUBSET (1 .. Len(outs))
      BY <2>1
    <2>3. paid = SumOver(ValuesOf(outs), pays, Len(outs))
      BY <2>1, <2>2, SetAddsUp
    <2>4. Paid(outs, h) = SumOver(ValuesOf(outs), pays, Len(outs))
      BY <2>1, PaidAddsUp
    <2> QED BY <2>3, <2>4, Zenon
  <1>2. /\ ParseDepositOutputs(w, h) =
             IF generated \/ Paid(tx.outs, h) = 0 \/ Paid(tx.outs, h) > MaxValue \/ tos = {}
             THEN NoTx ELSE <<Paid(tx.outs, h), Last(tx.outs[Min(tos)].script)>>
        /\ ParseWithdrawalOutputs(w, h) =
             IF pays = {} \/ ids = {} THEN NoTx
             ELSE <<tx.outs[Min(pays)].value, Last(tx.outs[Min(ids)].script)>>
    <2> HIDE DEF w
    <2>1. w = Legacy(tx, wide)
      BY DEF w
    <2>2. /\ ParseDepositOutputs(w, h) =
               IF \/ Len(tx.ins) = 1 /\ tx.ins[1].prev = NullPrevout
                  \/ Paid(tx.outs, h) = 0 \/ Paid(tx.outs, h) > MaxValue \/ TosOf(tx) = {}
               THEN NoTx ELSE <<Paid(tx.outs, h), Last(tx.outs[Min(TosOf(tx))].script)>>
          /\ ParseWithdrawalOutputs(w, h) =
               IF PaysOf(tx, h) = {} \/ IdsOf(tx) = {} THEN NoTx
               ELSE <<tx.outs[Min(PaysOf(tx, h))].value, Last(tx.outs[Min(IdsOf(tx))].script)>>
      BY <2>1, PaymentsRead
    <2> QED BY <2>2, Zenon DEF PaysOf, TosOf, IdsOf
  <1>3. ASSUME NEW n \in 0 .. Len(w) - 1
        PROVE  /\ ParseDepositOutputs(SubSeq(w, 1, n), h) = NoTx
               /\ ParseWithdrawalOutputs(SubSeq(w, 1, n), h) = NoTx
    BY LegacyAlone, NotRead
  <1>4. /\ ParseDepositOutputs(Append(w, 4), h) = NoTx
        /\ ParseWithdrawalOutputs(Append(w, 4), h) = NoTx
    BY LegacyAlone, NotRead
  <1>5. /\ ParseDepositOutputs(Segwit(tx, wide, <<>>), h) = NoTx
        /\ ParseWithdrawalOutputs(Segwit(tx, wide, <<>>), h) = NoTx
    <2> DEFINE s == Segwit(tx, wide, <<>>)
               none == <<>>
    <2>1. none \in Seq(Wire)
      OBVIOUS
    <2>2. s \in Wire /\ (At(s, 1, s) => At(s, 1, <<4, 0, 1>>))
      <3> DEFINE F == FlattenSeq(WitnessesOf(tx, none, wide))
                 B == Body(tx, wide)
                 z == Segwit(tx, wide, none)
      <3> HIDE DEF none
      <3>1. z \in Wire
        BY <2>1, SegwitParts
      <3>2. \A v \in Wire : \A p : At(v, p, z) => At(v, p, <<4, 0, 1>>)
        BY <2>1, SegwitParts
      <3> HIDE DEF z
      <3>3. z \in Wire /\ (At(z, 1, z) => At(z, 1, <<4, 0, 1>>))
        BY <3>1, <3>2
      <3> QED BY <3>3 DEF z, none
    <2> HIDE DEF s
    <2>3. Inputs(s).p = Failed
      BY <2>2, AtSelf, SegwitNotRead
    <2>4. ParseDepositOutputs(s, h) = NoTx /\ ParseWithdrawalOutputs(s, h) = NoTx
      BY <2>3, NotRead
    <2> QED BY <2>4 DEF s
  <1>6. \A bad \in {SubSeq(w, 1, n) : n \in 0 .. Len(w) - 1}
                     \cup {Append(w, 4), Segwit(tx, wide, <<>>)} :
             /\ ParseDepositOutputs(bad, h) = NoTx
             /\ ParseWithdrawalOutputs(bad, h) = NoTx
    BY <1>3, <1>4, <1>5
  <1>7. ParseDepositOutputs(w, h) =
             IF generated \/ paid = 0 \/ paid > MaxValue \/ tos = {} THEN NoTx
             ELSE <<paid, Last(tx.outs[Min(tos)].script)>>
    <2> HIDE DEF paid, tos, w
    <2> QED BY <1>1, <1>2
  <1> QED BY <1>2, <1>6, <1>7, Zenon DEF PaymentsExactFor

-----------------------------------------------------------------------------
(* The transactions of the runs. *)

\* The runs look at transactions with inputs and outputs.
LEMMA TxsAreSound ==
  ASSUME NEW tx \in Txs
  PROVE  TxOK(tx)
  <1>1. \A h \in Nat : /\ PayTo(h) \in Wire /\ ReturnTo(h) \in Wire
                       /\ ReturnToWrapped(h) \in Wire /\ ReturnId(h) \in Wire
    BY DEF PayTo, ReturnTo, ReturnToWrapped, ReturnId, Wire
  <1>2. <<>> \in Wire
    BY DEF Wire
  <1>3. Ins \subseteq Input
    BY <1>1, <1>2 DEF Ins, Input
  <1>4. Outs \subseteq Output
    <2> SUFFICES ASSUME NEW o \in Outs PROVE o \in Output
      OBVIOUS
    <2>1. /\ o \in [value : {1, 3}, script : {PayTo(7), PayTo(8), ReturnTo(5),
                                   ReturnToWrapped(5), ReturnId(6), <<>>}]
      BY DEF Outs
    <2>2. o.value \in Nat /\ o.script \in Wire
      BY <1>1, <1>2, <2>1
    <2> QED BY <2>1, <2>2 DEF Output
  <1>5. ASSUME NEW S, NEW T, S \subseteq T, NEW s \in Upto(S, 2)
        PROVE  s \in Seq(T) /\ s # <<>>
    <2>1. PICK k \in 1 .. 2 : s \in [1 .. k -> S]
      BY DEF Upto
    <2>2. s \in Seq(T) /\ Len(s) = k
      BY <1>5, <2>1
    <2> QED BY <2>2
  <1>6. tx.ins \in Upto(Ins, 2) /\ tx.outs \in Upto(Outs, 2)
    BY DEF Txs
  <1> QED BY <1>3, <1>4, <1>5, <1>6 DEF TxOK

\* The transactions that are looked at are those of the runs.
TxCases == probe.kind = "tx" => probe.tx \in Txs /\ probe.wide \in BOOLEAN

LEMMA TxCasesAlways == Spec => []TxCases
  <1>1. Init => TxCases
    BY DEF Init, Idle, TxCases
  <1>2. TxCases /\ [Next]_vars => TxCases'
    <2> SUFFICES ASSUME TxCases, [Next]_vars PROVE TxCases'
      OBVIOUS
    <2>1. CASE UNCHANGED probe
      BY <2>1 DEF TxCases
    <2>2. CASE LookAtPayment
      BY <2>2 DEF LookAtPayment, Look, TxCases
    <2>3. ASSUME \/ LookAtBits \/ LookAtTarget \/ LookAtSum \/ LookAtWitness
                 \/ LookAtCoinbase \/ LookAtSlots \/ LookAtAuxpow \/ LookAtStore
                 \/ LookAtConfig \/ LookAtJournals
          PROVE  TxCases'
      <3>1. probe'.kind # "tx"
        BY <2>3 DEF LookAtBits, LookAtTarget, LookAtSum, LookAtWitness, LookAtCoinbase,
                    LookAtSlots, LookAtAuxpow, LookAtStore, LookAtConfig, LookAtJournals, Look
      <3> QED BY <3>1 DEF TxCases
    <2> QED BY <2>1, <2>2, <2>3 DEF Next, vars
  <1> QED BY <1>1, <1>2, PTL DEF Spec

(***************************************************************************)
(* For every transaction with inputs and outputs, of any number, with      *)
(* scripts of any length and any values, written with short or with long   *)
(* varints: parse_deposit_outputs and parse_withdrawal_outputs read        *)
(* exactly what its outputs pay to a key hash and name in their OP_RETURN, *)
(* and nothing from a coinbase, from any proper prefix of its bytes, from  *)
(* its bytes and one more, or from its form with a witness.                *)
(***************************************************************************)
THEOREM PaymentsTheorem ==
  /\ \A tx, h : \A wide \in BOOLEAN : TxOK(tx) => PaymentsExactFor(tx, wide, h)
  /\ Spec => []PaymentsExact
  <1>1. \A tx, h : \A wide \in BOOLEAN : TxOK(tx) => PaymentsExactFor(tx, wide, h)
    BY PaymentsLemma
  <1>2. TxCases => PaymentsExact
    BY <1>1, TxsAreSound DEF TxCases, PaymentsExact
  <1>3. Spec => []PaymentsExact
    BY <1>2, TxCasesAlways, PTL
  <1> QED BY <1>1, <1>3

-----------------------------------------------------------------------------
(* Cursor::take_tx: what each stage reads. *)

\* What was read so far: the transaction without its witness, the number of
\* its inputs, the position, and whether it has a witness.
Acc(out, nin, p, segwit) == [out |-> out, nin |-> nin, p |-> p, segwit |-> segwit]
TxRead == [out : Wire, nin : Nat, p : Nat, segwit : BOOLEAN]

\* What take_tx has read so far, by its fields.
LEMMA AccFacts ==
  ASSUME NEW o, NEW n, NEW p, NEW s
  PROVE  /\ Acc(o, n, p, s).out = o /\ Acc(o, n, p, s).nin = n
         /\ Acc(o, n, p, s).p = p /\ Acc(o, n, p, s).segwit = s
         /\ o \in Wire /\ n \in Nat /\ p \in Nat /\ s \in BOOLEAN => Acc(o, n, p, s) \in TxRead
  BY DEF Acc, TxRead

\* The next position, and more of the transaction.
Moved(a, q) == [a EXCEPT !.p = q]
Grown(a, t, q) == [a EXCEPT !.out = t, !.p = q]

LEMMA AccMoves ==
  ASSUME NEW o, NEW n, NEW p, NEW s, NEW q
  PROVE  Moved(Acc(o, n, p, s), q) = Acc(o, n, q, s)
  BY DEF Acc, Moved

LEMMA AccGrows ==
  ASSUME NEW o, NEW n, NEW p, NEW s, NEW q, NEW t
  PROVE  Grown(Acc(o, n, p, s), t, q) = Acc(t, n, q, s)
  <1> DEFINE a == Acc(o, n, p, s)
             b == [a EXCEPT !.out = t]
  <1>1. b = Acc(t, n, p, s)
    BY DEF Acc
  <1>2. Grown(a, t, q) = Moved(b, q)
    <2> HIDE DEF a
    <2> QED BY DEF Grown, Moved
  <1> HIDE DEF b
  <1> QED BY <1>1, <1>2, AccMoves

LEMMA AccForm ==
  ASSUME NEW a \in TxRead
  PROVE  /\ a = Acc(a.out, a.nin, a.p, a.segwit)
         /\ a.out \in Wire /\ a.nin \in Nat /\ a.p \in Nat /\ a.segwit \in BOOLEAN
  BY DEF Acc, TxRead

\* A fixed field or nothing, and a varint as it is written back.
LEMMA FieldType ==
  ASSUME NEW w \in Wire, NEW p \in Nat
  PROVE  Field(w, p, 1) \in Wire
  <1>1. CASE Take(w, p, 1) = Failed
    BY <1>1 DEF Field, Wire
  <1>2. CASE Take(w, p, 1) # Failed
    <2>1. p \in Nat \ {0} /\ p + 1 <= Len(w) + 1 /\ 1 \in Nat
      BY <1>2, TakeFacts DEF Failed
    <2>2. Field(w, p, 1) = Cut(w, p, 1)
      BY <1>2 DEF Field, Cut
    <2> QED BY <2>1, <2>2, CutFacts
  <1> QED BY <1>1, <1>2

\* Varints are written back in their short form.
Short == FALSE

\* A varint is written in its shortest form.
LEMMA WriteFacts ==
  ASSUME NEW n \in Nat
  PROVE  WriteVarint(n) = Enc(n, Short) /\ WriteVarint(n) \in Wire /\ Short \in BOOLEAN
  <1>1. WriteVarint(n) = Enc(n, Short) /\ Short \in BOOLEAN
    BY DEF Enc, Short
  <1> QED BY <1>1, EncFacts

\* Concatenation under a name of its own.
Cat(a, b) == a \o b

\* The laws of gluing.
LEMMA CatType ==
  ASSUME NEW a \in Wire, NEW b \in Wire
  PROVE  Cat(a, b) \in Wire
  BY ConcatLen DEF Cat

LEMMA CatEmpty ==
  ASSUME NEW a \in Wire
  PROVE  Cat(a, <<>>) = a
  BY DEF Cat, Wire

LEMMA CatAssociative ==
  ASSUME NEW a \in Wire, NEW b \in Wire, NEW c \in Wire
  PROVE  Cat(Cat(a, b), c) = Cat(a, Cat(b, c))
  <1>1. a \in Seq(Nat) /\ b \in Seq(Nat) /\ c \in Seq(Nat)
    BY DEF Wire
  <1>2. (a \o b) \o c = a \o (b \o c)
    <2> DEFINE N == Nat
    <2>1. a \in Seq(N) /\ b \in Seq(N) /\ c \in Seq(N)
      BY <1>1
    <2> HIDE DEF N
    <2> QED BY <2>1, ConcatAssociative
  <1> QED BY <1>2, Zenon DEF Cat

\* An output, and an input, put together from their parts.
LEMMA GlueThree ==
  ASSUME NEW o \in Wire, NEW a \in Wire, NEW b \in Wire, NEW c \in Wire
  PROVE  Cat(Cat(Cat(o, a), b), c) = Cat(o, Cat(a, Cat(b, c)))
  <1>1. Cat(o, a) \in Wire /\ Cat(b, c) \in Wire
    BY CatType
  <1>2. Cat(Cat(Cat(o, a), b), c) = Cat(Cat(o, a), Cat(b, c))
    BY <1>1, CatAssociative
  <1>3. Cat(Cat(o, a), Cat(b, c)) = Cat(o, Cat(a, Cat(b, c)))
    BY <1>1, CatAssociative
  <1> QED BY <1>2, <1>3

LEMMA GlueFour ==
  ASSUME NEW o \in Wire, NEW a \in Wire, NEW b \in Wire, NEW c \in Wire, NEW d \in Wire
  PROVE  Cat(Cat(Cat(Cat(o, a), b), c), d) = Cat(o, Cat(Cat(a, Cat(b, c)), d))
  <1>1. Cat(b, c) \in Wire /\ Cat(a, Cat(b, c)) \in Wire
    BY CatType
  <1>2. Cat(Cat(o, Cat(a, Cat(b, c))), d) = Cat(o, Cat(Cat(a, Cat(b, c)), d))
    BY <1>1, CatAssociative
  <1> QED BY <1>2, GlueThree

-----------------------------------------------------------------------------
(* The items of take_tx. *)

\* The bytes an input, and an output, adds to the transaction.
InAdded(w, p, s) == Cat(Cat(Field(w, p, 1), Cat(WriteVarint(Len(s.script)), s.script)),
                        Field(w, s.p, 1))
OutAdded(w, p, s) == Cat(Field(w, p, 1), Cat(WriteVarint(Len(s.script)), s.script))

\* What an item adds to the bytes that are hashed.
LEMMA AddedTypes ==
  ASSUME NEW w \in Wire, NEW p \in Nat, NEW s, s.script \in Wire, s.p \in Nat
  PROVE  /\ InAdded(w, p, s) \in Wire /\ OutAdded(w, p, s) \in Wire
         /\ Len(s.script) \in Nat /\ WriteVarint(Len(s.script)) \in Wire
         /\ Field(w, p, 1) \in Wire /\ Field(w, s.p, 1) \in Wire
  <1>1. Len(s.script) \in Nat
    BY DEF Wire
  <1>2. WriteVarint(Len(s.script)) \in Wire
    BY <1>1, WriteFacts
  <1>3. Field(w, p, 1) \in Wire /\ Field(w, s.p, 1) \in Wire
    BY FieldType
  <1> QED BY <1>1, <1>2, <1>3, CatType DEF InAdded, OutAdded

\* take_tx over one input, and over one output.
LEMMA InForm ==
  ASSUME NEW w \in Wire, NEW o \in Wire, NEW n \in Nat, NEW p \in Nat, NEW b \in BOOLEAN,
         NEW s, s = Script(w, Take(w, p, 1))
  PROVE  /\ Item("in", w, Acc(o, n, p, b)) = Acc(Cat(o, InAdded(w, p, s)), n, Take(w, s.p, 1), b)
         /\ Item("in", w, Acc(o, n, p, b)) \in TxRead
         /\ Take(w, p, 1) \in Nat /\ s.p \in Nat /\ s.script \in Wire
         /\ Take(w, s.p, 1) # Failed => s.p # Failed /\ Take(w, p, 1) # Failed
  <1>0. 1 \in Nat
    OBVIOUS
  <1>1. Take(w, p, 1) \in Nat
    BY <1>0, TakeFacts
  <1>2. s.p \in Nat /\ s.script \in Wire /\ (s.p # Failed => Take(w, p, 1) # Failed)
    BY <1>1, ScriptFacts
  <1>3. Take(w, s.p, 1) \in Nat /\ (Take(w, s.p, 1) # Failed => s.p # Failed)
    BY <1>0, <1>2, TakeFacts
  <1>4. InAdded(w, p, s) \in Wire
    BY <1>2, AddedTypes
  <1> DEFINE a == Acc(o, n, p, b)
             t == Cat(Cat(Cat(Cat(o, Field(w, p, 1)), WriteVarint(Len(s.script))), s.script),
                      Field(w, s.p, 1))
             q == Take(w, s.p, 1)
  <1>5. a.out = o /\ a.p = p
    BY AccFacts
  <1>6. Item("in", w, a) = Grown(a, t, q)
    <2> HIDE DEF a
    <2>1. Item("in", w, a) = TakeInput(w, a)
      BY DEF Item
    <2>2. TakeInput(w, a) = [a EXCEPT !.out = a.out \o Field(w, p, 1) \o WriteVarint(Len(s.script))
                              \o s.script \o Field(w, s.p, 1), !.p = q]
      BY <1>5, Zenon DEF TakeInput
    <2> QED BY <1>5, <2>1, <2>2, Zenon DEF Cat, Grown
  <1>7. Grown(a, t, q) = Acc(t, n, q, b)
    <2> HIDE DEF t, q
    <2> QED BY AccGrows
  <1>8. t = Cat(o, InAdded(w, p, s))
    <2>1. /\ WriteVarint(Len(s.script)) \in Wire
          /\ Field(w, p, 1) \in Wire /\ Field(w, s.p, 1) \in Wire
      BY <1>2, AddedTypes
    <2> DEFINE c == s.script
               d == WriteVarint(Len(c))
               e == Field(w, p, 1)
               g == Field(w, s.p, 1)
    <2>2. c \in Wire /\ d \in Wire /\ e \in Wire /\ g \in Wire
      BY <1>2, <2>1
    <2>3. t = Cat(Cat(Cat(Cat(o, e), d), c), g)
      OBVIOUS
    <2>4. InAdded(w, p, s) = Cat(Cat(e, Cat(d, c)), g)
      BY DEF InAdded
    <2> HIDE DEF c, d, e, g, t
    <2>5. Cat(Cat(Cat(Cat(o, e), d), c), g) = Cat(o, Cat(Cat(e, Cat(d, c)), g))
      BY <2>2, GlueFour
    <2> QED BY <2>3, <2>4, <2>5
  <1>9. Item("in", w, a) = Acc(Cat(o, InAdded(w, p, s)), n, q, b)
    BY <1>6, <1>7, <1>8, Zenon
  <1>10. Cat(o, InAdded(w, p, s)) \in Wire
    BY <1>4, CatType
  <1>11. Acc(Cat(o, InAdded(w, p, s)), n, q, b) \in TxRead
    BY <1>3, <1>10, AccFacts
  <1> QED BY <1>1, <1>2, <1>3, <1>9, <1>11

LEMMA InGrows ==
  ASSUME NEW w, NEW u, Begins(w, u), NEW a \in TxRead, Item("in", u, a).p # Failed
  PROVE  Item("in", w, a) = Item("in", u, a)
  <1> DEFINE o == a.out
             n == a.nin
             p == a.p
             b == a.segwit
             s == Script(u, Take(u, p, 1))
             z == Script(w, Take(w, p, 1))
  <1>1. u \in Wire /\ w \in Wire /\ 1 \in Nat
    BY DEF Begins
  <1>2. a = Acc(o, n, p, b) /\ o \in Wire /\ n \in Nat /\ p \in Nat /\ b \in BOOLEAN
    BY AccForm
  <1> HIDE DEF o, n, p, b
  <1>3. /\ Item("in", u, a) = Acc(Cat(o, InAdded(u, p, s)), n, Take(u, s.p, 1), b)
        /\ Take(u, p, 1) \in Nat /\ s.p \in Nat /\ s.script \in Wire
        /\ Take(u, s.p, 1) # Failed => s.p # Failed /\ Take(u, p, 1) # Failed
    BY <1>1, <1>2, InForm
  <1>4. Item("in", w, a) = Acc(Cat(o, InAdded(w, p, z)), n, Take(w, z.p, 1), b)
    BY <1>1, <1>2, InForm
  <1>5. Take(u, s.p, 1) # Failed /\ s.p # Failed /\ Take(u, p, 1) # Failed
    <2>1. Item("in", u, a).p = Take(u, s.p, 1)
      <3> HIDE DEF s
      <3> QED BY <1>3, AccFacts
    <2> QED BY <1>3, <2>1
  <1>6. Take(w, p, 1) = Take(u, p, 1)
    BY <1>1, <1>2, <1>5, TakeGrows
  <1>7. z = s
    <2> DEFINE q == Take(u, p, 1)
    <2>1. q \in Nat /\ Script(u, q).p # Failed
      BY <1>3, <1>5
    <2>2. Script(w, q) = Script(u, q)
      <3> HIDE DEF q
      <3> QED BY <2>1, ScriptGrows
    <2> QED BY <1>6, <2>2
  <1> HIDE DEF s, z
  <1>8. Take(w, s.p, 1) = Take(u, s.p, 1)
    BY <1>1, <1>3, <1>5, TakeGrows
  <1>9. Field(w, p, 1) = Field(u, p, 1) /\ Field(w, s.p, 1) = Field(u, s.p, 1)
    BY <1>2, <1>3, <1>5, FieldGrows
  <1>10. InAdded(w, p, s) = InAdded(u, p, s)
    BY <1>9 DEF InAdded
  <1> QED BY <1>3, <1>4, <1>7, <1>8, <1>10

\* An input is taken as a whole and written back with a short varint.
LEMMA InAt ==
  ASSUME NEW w \in Wire, NEW p, NEW in \in Input, NEW wide \in BOOLEAN,
         At(w, p, InputBytes(in, wide)), NEW o \in Wire, NEW n \in Nat, NEW b \in BOOLEAN
  PROVE  Item("in", w, Acc(o, n, p, b))
           = Acc(Cat(o, InputBytes(in, Short)), n, p + Len(InputBytes(in, wide)), b)
  <1> DEFINE m == Len(EncScript(in.script, wide))
             s == Script(w, Take(w, p, 1))
  <1>1. /\ m \in Nat /\ Len(InputBytes(in, wide)) = m + 2
        /\ p \in Nat \ {0} /\ At(w, p, <<in.prev>>)
        /\ At(w, p + 1, EncScript(in.script, wide)) /\ At(w, p + 1 + m, << 4 >>)
    BY InputParts
  <1>2. in.prev \in Nat /\ in.script \in Wire /\ 4 \in Nat
    BY DEF Input
  <1>3. Take(w, p, 1) = p + 1 /\ Field(w, p, 1) = <<in.prev>>
    BY <1>1, <1>2, FieldAt
  <1>4. s = [script |-> in.script, p |-> p + 1 + m]
    BY <1>1, <1>2, <1>3, ScriptAt
  <1>5. Take(w, p + 1 + m, 1) = p + 1 + m + 1 /\ Field(w, p + 1 + m, 1) = << 4 >>
    BY <1>1, <1>2, FieldAt
  <1>6. p + 1 + m + 1 = p + Len(InputBytes(in, wide))
    BY <1>1
  <1>7. Item("in", w, Acc(o, n, p, b)) = Acc(Cat(o, InAdded(w, p, s)), n, Take(w, s.p, 1), b)
    BY <1>1, InForm
  <1> HIDE DEF s, m
  <1>8. s.p = p + 1 + m /\ s.script = in.script
    BY <1>4
  <1>9. InAdded(w, p, s)
          = Cat(Cat(<<in.prev>>, Cat(WriteVarint(Len(in.script)), in.script)), << 4 >>)
    BY <1>3, <1>5, <1>8 DEF InAdded
  <1>10. InputBytes(in, Short)
          = Cat(Cat(<<in.prev>>, Cat(WriteVarint(Len(in.script)), in.script)), << 4 >>)
    <2>1. Enc(Len(in.script), Short) = WriteVarint(Len(in.script))
      BY DEF Enc, Short
    <2> QED BY <2>1, Zenon DEF InputBytes, EncScript, Cat
  <1> QED BY <1>5, <1>6, <1>7, <1>8, <1>9, <1>10

LEMMA OutForm ==
  ASSUME NEW w \in Wire, NEW o \in Wire, NEW n \in Nat, NEW p \in Nat, NEW b \in BOOLEAN,
         NEW s, s = Script(w, Take(w, p, 1))
  PROVE  /\ Item("out", w, Acc(o, n, p, b)) = Acc(Cat(o, OutAdded(w, p, s)), n, s.p, b)
         /\ Item("out", w, Acc(o, n, p, b)) \in TxRead
         /\ Take(w, p, 1) \in Nat /\ s.p \in Nat /\ s.script \in Wire
         /\ s.p # Failed => Take(w, p, 1) # Failed
  <1>0. 1 \in Nat
    OBVIOUS
  <1>1. Take(w, p, 1) \in Nat
    BY <1>0, TakeFacts
  <1>2. s.p \in Nat /\ s.script \in Wire /\ (s.p # Failed => Take(w, p, 1) # Failed)
    BY <1>1, ScriptFacts
  <1>4. OutAdded(w, p, s) \in Wire
    BY <1>2, AddedTypes
  <1> DEFINE a == Acc(o, n, p, b)
             t == Cat(Cat(Cat(o, Field(w, p, 1)), WriteVarint(Len(s.script))), s.script)
             q == s.p
  <1>5. a.out = o /\ a.p = p
    BY AccFacts
  <1>6. Item("out", w, a) = Grown(a, t, q)
    <2> HIDE DEF a
    <2>1. Item("out", w, a) = TakeOutput(w, a)
      BY DEF Item
    <2>2. TakeOutput(w, a) = [a EXCEPT !.out = a.out \o Field(w, p, 1) \o WriteVarint(Len(s.script))
                              \o s.script, !.p = q]
      BY <1>5, Zenon DEF TakeOutput
    <2> QED BY <1>5, <2>1, <2>2, Zenon DEF Cat, Grown
  <1>7. Grown(a, t, q) = Acc(t, n, q, b)
    <2> HIDE DEF t, q
    <2> QED BY AccGrows
  <1>8. t = Cat(o, OutAdded(w, p, s))
    <2>1. /\ WriteVarint(Len(s.script)) \in Wire /\ Field(w, p, 1) \in Wire
      BY <1>2, AddedTypes
    <2> QED BY <1>2, <2>1, GlueThree DEF OutAdded
  <1>9. Item("out", w, a) = Acc(Cat(o, OutAdded(w, p, s)), n, q, b)
    BY <1>6, <1>7, <1>8, Zenon
  <1>10. Cat(o, OutAdded(w, p, s)) \in Wire
    BY <1>4, CatType
  <1>11. Acc(Cat(o, OutAdded(w, p, s)), n, q, b) \in TxRead
    BY <1>2, <1>10, AccFacts
  <1> QED BY <1>1, <1>2, <1>9, <1>11

LEMMA OutGrows ==
  ASSUME NEW w, NEW u, Begins(w, u), NEW a \in TxRead, Item("out", u, a).p # Failed
  PROVE  Item("out", w, a) = Item("out", u, a)
  <1> DEFINE o == a.out
             n == a.nin
             p == a.p
             b == a.segwit
             s == Script(u, Take(u, p, 1))
             z == Script(w, Take(w, p, 1))
  <1>1. u \in Wire /\ w \in Wire /\ 1 \in Nat
    BY DEF Begins
  <1>2. a = Acc(o, n, p, b) /\ o \in Wire /\ n \in Nat /\ p \in Nat /\ b \in BOOLEAN
    BY AccForm
  <1> HIDE DEF o, n, p, b
  <1>3. /\ Item("out", u, a) = Acc(Cat(o, OutAdded(u, p, s)), n, s.p, b)
        /\ Take(u, p, 1) \in Nat /\ s.p \in Nat /\ s.script \in Wire
        /\ s.p # Failed => Take(u, p, 1) # Failed
    BY <1>1, <1>2, OutForm
  <1>4. Item("out", w, a) = Acc(Cat(o, OutAdded(w, p, z)), n, z.p, b)
    BY <1>1, <1>2, OutForm
  <1>5. s.p # Failed /\ Take(u, p, 1) # Failed
    <2>1. Item("out", u, a).p = s.p
      <3> HIDE DEF s
      <3> QED BY <1>3, AccFacts
    <2> QED BY <1>3, <2>1
  <1>6. Take(w, p, 1) = Take(u, p, 1)
    BY <1>1, <1>2, <1>5, TakeGrows
  <1>7. z = s
    <2> DEFINE q == Take(u, p, 1)
    <2>1. q \in Nat /\ Script(u, q).p # Failed
      BY <1>3, <1>5
    <2>2. Script(w, q) = Script(u, q)
      <3> HIDE DEF q
      <3> QED BY <2>1, ScriptGrows
    <2> QED BY <1>6, <2>2
  <1> HIDE DEF s, z
  <1>9. Field(w, p, 1) = Field(u, p, 1)
    BY <1>2, <1>5, FieldGrows
  <1>10. OutAdded(w, p, s) = OutAdded(u, p, s)
    BY <1>9 DEF OutAdded
  <1> QED BY <1>3, <1>4, <1>7, <1>10

\* An output is taken as a whole and written back with a short varint.
LEMMA OutAt ==
  ASSUME NEW w \in Wire, NEW p, NEW x \in Output, NEW wide \in BOOLEAN,
         At(w, p, OutputBytes(x, wide)), NEW o \in Wire, NEW n \in Nat, NEW b \in BOOLEAN
  PROVE  Item("out", w, Acc(o, n, p, b))
           = Acc(Cat(o, OutputBytes(x, Short)), n, p + Len(OutputBytes(x, wide)), b)
  <1> DEFINE m == Len(EncScript(x.script, wide))
             s == Script(w, Take(w, p, 1))
  <1>1. /\ m \in Nat /\ Len(OutputBytes(x, wide)) = m + 1
        /\ p \in Nat \ {0} /\ At(w, p, <<x.value>>)
        /\ At(w, p + 1, EncScript(x.script, wide))
    BY OutputParts
  <1>2. x.value \in Nat /\ x.script \in Wire
    BY DEF Output
  <1>3. Take(w, p, 1) = p + 1 /\ Field(w, p, 1) = <<x.value>>
    BY <1>1, <1>2, FieldAt
  <1>4. s = [script |-> x.script, p |-> p + 1 + m]
    BY <1>1, <1>2, <1>3, ScriptAt
  <1>6. p + 1 + m = p + Len(OutputBytes(x, wide))
    BY <1>1
  <1>7. Item("out", w, Acc(o, n, p, b)) = Acc(Cat(o, OutAdded(w, p, s)), n, s.p, b)
    BY <1>1, OutForm
  <1> HIDE DEF s, m
  <1>8. s.p = p + 1 + m /\ s.script = x.script
    BY <1>4
  <1>9. OutAdded(w, p, s) = Cat(<<x.value>>, Cat(WriteVarint(Len(x.script)), x.script))
    BY <1>3, <1>8 DEF OutAdded
  <1>10. OutputBytes(x, Short) = Cat(<<x.value>>, Cat(WriteVarint(Len(x.script)), x.script))
    <2>1. Enc(Len(x.script), Short) = WriteVarint(Len(x.script))
      BY DEF Enc, Short
    <2> QED BY <2>1, Zenon DEF OutputBytes, EncScript, Cat
  <1> QED BY <1>6, <1>7, <1>8, <1>9, <1>10

-----------------------------------------------------------------------------
(* The repetitions of take_tx. *)

\* Each part is read as one item, t[i] being what is written back after i.
ReadsParts(kind, w, parts, t, n, b) ==
    \A i \in 1 .. Len(parts) : \A p : At(w, p, parts[i]) =>
        Item(kind, w, Acc(t[i - 1], n, p, b)) = Acc(t[i], n, p + Len(parts[i]), b)

\* Items that stand one after the other are read one after the other.
LEMMA AccRuns ==
  ASSUME NEW parts \in Seq(Wire), NEW w \in Wire, NEW q, At(w, q, FlattenSeq(parts)),
         NEW kind, NEW n, NEW b, NEW t, NEW f, ReadsParts(kind, w, parts, t, n, b),
         Runs(f, kind, w, Acc(t[0], n, q, b), Len(parts))
  PROVE  f[Len(parts)] = Acc(t[Len(parts)], n, q + Len(FlattenSeq(parts)), b)
  <1> DEFINE m == Len(parts)
  <1>1. m \in Nat /\ \A i \in 1 .. m : parts[i] \in Wire
    OBVIOUS
  <1>2. q \in Nat \ {0}
    BY DEF At
  <1>3. PICK g : Glues(g, parts) /\ FlattenSeq(parts) = g[Len(parts)]
    BY GluedParts
  <1>5. \A i \in 1 .. m : At(w, q + Len(g[i - 1]), parts[i])
    <2>1. At(w, q, g[Len(parts)])
      BY <1>3
    <2> QED BY <1>3, <2>1, PartsAt
  <1> DEFINE L(i) == Len(g[i])
             e == [i \in 0 .. m |-> Acc(t[i], n, q + L(i), b)]
  <1>6. L(0) = 0 /\ (\A i \in 0 .. m : L(i) \in Nat)
        /\ \A i \in 1 .. m : L(i) = L(i - 1) + Len(parts[i])
    BY <1>3, GlueLen
  <1>7. \A i \in 1 .. m : At(w, q + L(i - 1), parts[i])
    BY <1>5
  <1>a. \A i \in 1 .. m : Len(parts[i]) \in Nat
    BY <1>1 DEF Wire
  <1>b. \A i \in 1 .. m : \A p : At(w, p, parts[i]) =>
            Item(kind, w, Acc(t[i - 1], n, p, b)) = Acc(t[i], n, p + Len(parts[i]), b)
    BY DEF ReadsParts
  <1> HIDE DEF L, m
  <1>8. e[0] = Acc(t[0], n, q, b)
    BY <1>1, <1>2, <1>6
  <1>9. ASSUME NEW i \in 1 .. m
        PROVE  e[i - 1].p # Failed /\ Item(kind, w, e[i - 1]) = e[i]
    <2>1. i - 1 \in 0 .. m /\ i \in 0 .. m
      BY <1>1
    <2> DEFINE x == q + L(i - 1)
    <2>2. e[i - 1] = Acc(t[i - 1], n, x, b) /\ e[i] = Acc(t[i], n, q + L(i), b)
          /\ L(i - 1) \in Nat
      BY <1>6, <2>1
    <2>3. x # Failed
      BY <1>2, <2>2 DEF Failed
    <2>4. q + L(i) = x + Len(parts[i])
      <3>1. L(i) = L(i - 1) + Len(parts[i]) /\ L(i) \in Nat /\ Len(parts[i]) \in Nat
        BY <1>6, <1>a, <2>1
      <3> QED BY <1>2, <2>2, <3>1
    <2>5. At(w, x, parts[i])
      BY <1>7
    <2> HIDE DEF x, e
    <2>6. Item(kind, w, Acc(t[i - 1], n, x, b)) = Acc(t[i], n, x + Len(parts[i]), b)
      BY <1>b, <2>5
    <2>7. e[i - 1].p = x
      BY <2>2, AccFacts
    <2> QED BY <2>2, <2>3, <2>4, <2>6, <2>7
  <1>10. e[m] = Acc(t[m], n, q + L(m), b)
    BY <1>1
  <1> HIDE DEF e
  <1>11. Runs(f, kind, w, Acc(t[0], n, q, b), m)
    BY DEF m
  <1>12. f[m] = e[m]
    BY <1>1, <1>8, <1>9, <1>11, RunReaches
  <1> QED BY <1>3, <1>10, <1>12 DEF m, L

\* take_tx over the inputs of a transaction: all are kept.
LEMMA TakesInputs ==
  ASSUME NEW tx, TxOK(tx), NEW wide \in BOOLEAN, NEW w \in Wire, NEW q,
         At(w, q, InBytes(tx, wide)), NEW o \in Wire, NEW n \in Nat, NEW b \in BOOLEAN,
         NEW f, Runs(f, "in", w, Acc(o, n, q, b), Len(tx.ins))
  PROVE  f[Len(tx.ins)] = Acc(Cat(o, InBytes(tx, Short)), n, q + Len(InBytes(tx, wide)), b)
  <1> DEFINE m == Len(tx.ins)
             parts == InsOf(tx, wide)
             short == InsOf(tx, Short)
             In(i) == tx.ins[i]
  <1>1. m \in Nat /\ parts \in Seq(Wire) /\ Len(parts) = m
        /\ \A i \in 1 .. m : In(i) \in Input /\ parts[i] = InputBytes(In(i), wide)
    BY TxFacts
  <1>2. short \in Seq(Wire) /\ Len(short) = m
        /\ \A i \in 1 .. m : short[i] = InputBytes(In(i), Short)
    <2>1. Short \in BOOLEAN
      BY DEF Short
    <2> QED BY <2>1, TxFacts
  <1>3. InBytes(tx, wide) = FlattenSeq(parts) /\ InBytes(tx, Short) = FlattenSeq(short)
    BY DEF InBytes
  <1>a. Runs(f, "in", w, Acc(o, n, q, b), m)
    OBVIOUS
  <1> HIDE DEF m, parts, short, In
  <1>4. PICK g : Glues(g, short) /\ FlattenSeq(short) = g[Len(short)]
    BY <1>2, GluedParts
  <1>5. g[0] = <<>> /\ (\A i \in 0 .. m : g[i] \in Wire)
        /\ \A i \in 1 .. m : g[i] = Cat(g[i - 1], short[i])
    BY <1>2, <1>4 DEF Glues, Cat
  <1> DEFINE t == [i \in 0 .. m |-> Cat(o, g[i])]
  <1>6. t[0] = o
    <2>1. Cat(o, <<>>) = o
      BY CatEmpty
    <2> QED BY <1>1, <1>5, <2>1
  <1>7. ASSUME NEW i \in 1 .. m, NEW p, At(w, p, parts[i])
        PROVE  Item("in", w, Acc(t[i - 1], n, p, b)) = Acc(t[i], n, p + Len(parts[i]), b)
    <2>1. i - 1 \in 0 .. m /\ i \in 0 .. m
      BY <1>1
    <2>2. t[i - 1] = Cat(o, g[i - 1]) /\ t[i] = Cat(o, g[i]) /\ g[i - 1] \in Wire
      BY <1>5, <2>1
    <2>3. In(i) \in Input /\ parts[i] = InputBytes(In(i), wide)
          /\ short[i] = InputBytes(In(i), Short)
      BY <1>1, <1>2
    <2>4. short[i] \in Wire
      BY <1>2
    <2>5. t[i - 1] \in Wire
      BY <2>2, CatType
    <2>6. t[i] = Cat(t[i - 1], short[i])
      BY <1>5, <2>2, <2>4, CatAssociative
    <2> DEFINE y == t[i - 1]
               x == In(i)
    <2> HIDE DEF t
    <2>7. Item("in", w, Acc(y, n, p, b))
            = Acc(Cat(y, InputBytes(x, Short)), n, p + Len(InputBytes(x, wide)), b)
      <3>1. At(w, p, InputBytes(x, wide)) /\ x \in Input /\ y \in Wire
        BY <1>7, <2>3, <2>5
      <3> HIDE DEF x, y
      <3> QED BY <3>1, InAt
    <2> QED BY <2>3, <2>6, <2>7
  <1>8. t[m] = Cat(o, g[m])
    BY <1>1
  <1> HIDE DEF t
  <1>9. f[Len(parts)] = Acc(t[Len(parts)], n, q + Len(FlattenSeq(parts)), b)
    <2>1. At(w, q, FlattenSeq(parts))
      BY <1>3
    <2>2. Runs(f, "in", w, Acc(t[0], n, q, b), Len(parts))
      BY <1>1, <1>6, <1>a
    <2>3. ReadsParts("in", w, parts, t, n, b)
      BY <1>1, <1>7 DEF ReadsParts
    <2> QED BY <1>1, <2>1, <2>2, <2>3, AccRuns
  <1>10. f[m] = Acc(Cat(o, InBytes(tx, Short)), n, q + Len(InBytes(tx, wide)), b)
    BY <1>1, <1>2, <1>3, <1>4, <1>8, <1>9
  <1> QED BY <1>10 DEF m

\* take_tx over its outputs: all are kept.
LEMMA TakesOutputs ==
  ASSUME NEW tx, TxOK(tx), NEW wide \in BOOLEAN, NEW w \in Wire, NEW q,
         At(w, q, OutBytes(tx, wide)), NEW o \in Wire, NEW n \in Nat, NEW b \in BOOLEAN,
         NEW f, Runs(f, "out", w, Acc(o, n, q, b), Len(tx.outs))
  PROVE  f[Len(tx.outs)] = Acc(Cat(o, OutBytes(tx, Short)), n, q + Len(OutBytes(tx, wide)), b)
  <1> DEFINE m == Len(tx.outs)
             parts == OutsOf(tx, wide)
             short == OutsOf(tx, Short)
             Out(i) == tx.outs[i]
  <1>1. m \in Nat /\ parts \in Seq(Wire) /\ Len(parts) = m
        /\ \A i \in 1 .. m : Out(i) \in Output /\ parts[i] = OutputBytes(Out(i), wide)
    BY TxFacts
  <1>2. short \in Seq(Wire) /\ Len(short) = m
        /\ \A i \in 1 .. m : short[i] = OutputBytes(Out(i), Short)
    <2>1. Short \in BOOLEAN
      BY DEF Short
    <2> QED BY <2>1, TxFacts
  <1>3. OutBytes(tx, wide) = FlattenSeq(parts) /\ OutBytes(tx, Short) = FlattenSeq(short)
    BY DEF OutBytes
  <1>a. Runs(f, "out", w, Acc(o, n, q, b), m)
    OBVIOUS
  <1> HIDE DEF m, parts, short, Out
  <1>4. PICK g : Glues(g, short) /\ FlattenSeq(short) = g[Len(short)]
    BY <1>2, GluedParts
  <1>5. g[0] = <<>> /\ (\A i \in 0 .. m : g[i] \in Wire)
        /\ \A i \in 1 .. m : g[i] = Cat(g[i - 1], short[i])
    BY <1>2, <1>4 DEF Glues, Cat
  <1> DEFINE t == [i \in 0 .. m |-> Cat(o, g[i])]
  <1>6. t[0] = o
    <2>1. Cat(o, <<>>) = o
      BY CatEmpty
    <2> QED BY <1>1, <1>5, <2>1
  <1>7. ASSUME NEW i \in 1 .. m, NEW p, At(w, p, parts[i])
        PROVE  Item("out", w, Acc(t[i - 1], n, p, b)) = Acc(t[i], n, p + Len(parts[i]), b)
    <2>1. i - 1 \in 0 .. m /\ i \in 0 .. m
      BY <1>1
    <2>2. t[i - 1] = Cat(o, g[i - 1]) /\ t[i] = Cat(o, g[i]) /\ g[i - 1] \in Wire
      BY <1>5, <2>1
    <2>3. Out(i) \in Output /\ parts[i] = OutputBytes(Out(i), wide)
          /\ short[i] = OutputBytes(Out(i), Short)
      BY <1>1, <1>2
    <2>4. short[i] \in Wire
      BY <1>2
    <2>5. t[i - 1] \in Wire
      BY <2>2, CatType
    <2>6. t[i] = Cat(t[i - 1], short[i])
      BY <1>5, <2>2, <2>4, CatAssociative
    <2> DEFINE y == t[i - 1]
               x == Out(i)
    <2> HIDE DEF t
    <2>7. Item("out", w, Acc(y, n, p, b))
            = Acc(Cat(y, OutputBytes(x, Short)), n, p + Len(OutputBytes(x, wide)), b)
      <3>1. At(w, p, OutputBytes(x, wide)) /\ x \in Output /\ y \in Wire
        BY <1>7, <2>3, <2>5
      <3> HIDE DEF x, y
      <3> QED BY <3>1, OutAt
    <2> QED BY <2>3, <2>6, <2>7
  <1>8. t[m] = Cat(o, g[m])
    BY <1>1
  <1> HIDE DEF t
  <1>9. f[Len(parts)] = Acc(t[Len(parts)], n, q + Len(FlattenSeq(parts)), b)
    <2>1. At(w, q, FlattenSeq(parts))
      BY <1>3
    <2>2. Runs(f, "out", w, Acc(t[0], n, q, b), Len(parts))
      BY <1>1, <1>6, <1>a
    <2>3. ReadsParts("out", w, parts, t, n, b)
      BY <1>1, <1>7 DEF ReadsParts
    <2> QED BY <1>1, <2>1, <2>2, <2>3, AccRuns
  <1>10. f[m] = Acc(Cat(o, OutBytes(tx, Short)), n, q + Len(OutBytes(tx, wide)), b)
    BY <1>1, <1>2, <1>3, <1>4, <1>8, <1>9
  <1> QED BY <1>10 DEF m

-----------------------------------------------------------------------------
(* Witnesses, which are read and dropped. *)

\* take_tx over one item of a witness: nothing is kept.
LEMMA ItemForm ==
  ASSUME NEW w \in Wire, NEW o \in Wire, NEW n \in Nat, NEW p \in Nat, NEW b \in BOOLEAN
  PROVE  /\ Item("item", w, Acc(o, n, p, b)) = Acc(o, n, Script(w, p).p, b)
         /\ Item("item", w, Acc(o, n, p, b)) \in TxRead
         /\ Script(w, p).p \in Nat
  <1> DEFINE a == Acc(o, n, p, b)
             q == Script(w, p).p
  <1>1. q \in Nat
    BY ScriptFacts
  <1>2. a.p = p
    BY AccFacts
  <1>3. Item("item", w, a) = Moved(a, q)
    <2> HIDE DEF a
    <2>1. Item("item", w, a) = TakeItem(w, a)
      BY DEF Item
    <2> QED BY <1>2, <2>1, Zenon DEF TakeItem, Moved
  <1> HIDE DEF q
  <1>4. Moved(a, q) = Acc(o, n, q, b)
    BY AccMoves
  <1>5. Acc(o, n, q, b) \in TxRead
    BY <1>1, AccFacts
  <1> QED BY <1>1, <1>3, <1>4, <1>5 DEF q

LEMMA ItemGrows ==
  ASSUME NEW w, NEW u, Begins(w, u), NEW a \in TxRead, Item("item", u, a).p # Failed
  PROVE  Item("item", w, a) = Item("item", u, a)
  <1> DEFINE o == a.out
             n == a.nin
             p == a.p
             b == a.segwit
  <1>1. u \in Wire /\ w \in Wire
    BY DEF Begins
  <1>2. a = Acc(o, n, p, b) /\ o \in Wire /\ n \in Nat /\ p \in Nat /\ b \in BOOLEAN
    BY AccForm
  <1> HIDE DEF o, n, p, b
  <1>3. Item("item", u, a) = Acc(o, n, Script(u, p).p, b)
    BY <1>1, <1>2, ItemForm
  <1>4. Item("item", w, a) = Acc(o, n, Script(w, p).p, b)
    BY <1>1, <1>2, ItemForm
  <1>5. Script(u, p).p # Failed
    BY <1>3, AccFacts
  <1>6. Script(w, p) = Script(u, p)
    BY <1>2, <1>5, ScriptGrows
  <1> QED BY <1>3, <1>4, <1>6

LEMMA ItemAt ==
  ASSUME NEW w \in Wire, NEW p, NEW s \in Wire, NEW wide \in BOOLEAN,
         At(w, p, EncScript(s, wide)), NEW o \in Wire, NEW n \in Nat, NEW b \in BOOLEAN
  PROVE  Item("item", w, Acc(o, n, p, b)) = Acc(o, n, p + Len(EncScript(s, wide)), b)
  <1>1. p \in Nat
    BY DEF At
  <1>2. Script(w, p) = [script |-> s, p |-> p + Len(EncScript(s, wide))]
    BY ScriptAt
  <1>3. Script(w, p).p = p + Len(EncScript(s, wide))
    BY <1>2
  <1> QED BY <1>1, <1>3, ItemForm

\* Repetitions of the items of take_tx.
LEMMA InRun ==
  ASSUME NEW w, NEW acc, acc.nin \in Nat
  PROVE  \E f : Runs(f, "in", w, acc, acc.nin) /\ TakeInputs(w, acc) = f[acc.nin]
  <1> DEFINE m == acc.nin
             Solves(f) == f = [i \in 0 .. m |-> IF i = 0 THEN acc
                                ELSE IF f[i - 1].p = Failed THEN f[i - 1]
                                ELSE TakeInput(w, f[i - 1])]
             f == CHOOSE f : Solves(f)
  <1>1. ASSUME NEW g PROVE Runs(g, "in", w, acc, m) <=> Solves(g)
    BY DEF Runs, Item
  <1>2. \E g : Solves(g)
    BY <1>1, RunExists
  <1>3. Solves(f)
    BY <1>2
  <1>4. TakeInputs(w, acc) = f[m]
    BY DEF TakeInputs, Repeat
  <1>5. Runs(f, "in", w, acc, m)
    BY <1>1, <1>3
  <1> HIDE DEF f, m
  <1>6. \E g : Runs(g, "in", w, acc, m) /\ TakeInputs(w, acc) = g[m]
    BY <1>4, <1>5
  <1> QED BY <1>6 DEF m

\* A varint m that ends before q.
Reads(w, p, m, q) == m \in Nat /\ q \in Nat /\ ReadVarint(w, p) = [n |-> m, p |-> q]

\* The outputs that follow their number.
LEMMA OutRun ==
  ASSUME NEW w \in Wire, NEW o \in Wire, NEW n \in Nat, NEW p \in Nat, NEW b \in BOOLEAN,
         NEW m, NEW q, Reads(w, p, m, q)
  PROVE  \E f : /\ Runs(f, "out", w, Acc(Cat(o, WriteVarint(m)), n, q, b), m)
                /\ TakeOutputs(w, Acc(o, n, p, b)) = f[m]
  <1> DEFINE a == Acc(o, n, p, b)
             len == ReadVarint(w, p)
             acc == [a EXCEPT !.out = a.out \o WriteVarint(len.n), !.p = len.p]
             Solves(f) == f = [i \in 0 .. len.n |-> IF i = 0 THEN acc
                                ELSE IF f[i - 1].p = Failed THEN f[i - 1]
                                ELSE TakeOutput(w, f[i - 1])]
             f == CHOOSE f : Solves(f)
  <1>0. a.out = o /\ a.p = p
    BY AccFacts
  <1> HIDE DEF a
  <1>1. ASSUME NEW g PROVE Runs(g, "out", w, acc, len.n) <=> Solves(g)
    <2> HIDE DEF acc
    <2> QED BY DEF Runs, Item
  <1>2. \E g : Solves(g)
    <2>1. len.n \in Nat
      BY DEF Reads
    <2> QED BY <1>1, <2>1, RunExists
  <1>3. Solves(f)
    BY <1>2
  <1>4. TakeOutputs(w, a) = f[len.n]
    BY <1>0, Zenon DEF TakeOutputs, Repeat
  <1>5. Runs(f, "out", w, acc, len.n)
    BY <1>1, <1>3
  <1>6. len.n = m /\ len.p = q /\ m \in Nat /\ q \in Nat
    BY DEF Reads
  <1> HIDE DEF f, len
  <1>7. acc = Acc(Cat(o, WriteVarint(m)), n, q, b)
    <2>1. acc = Grown(a, Cat(o, WriteVarint(m)), q)
      BY <1>0, <1>6, Zenon DEF Grown, Cat
    <2> QED BY <2>1, AccGrows DEF a
  <1> HIDE DEF acc
  <1> QED BY <1>4, <1>5, <1>6, <1>7 DEF a

\* The items of one witness.
LEMMA WitnessRun ==
  ASSUME NEW w \in Wire, NEW o \in Wire, NEW n \in Nat, NEW p \in Nat, NEW b \in BOOLEAN,
         NEW m \in Nat, NEW q \in Nat, ReadVarint(w, p) = [n |-> m, p |-> q]
  PROVE  /\ q = Failed => Item("witness", w, Acc(o, n, p, b)) = Acc(o, n, Failed, b)
         /\ q # Failed => \E f : /\ Runs(f, "item", w, Acc(o, n, q, b), m)
                                 /\ Item("witness", w, Acc(o, n, p, b)) = f[m]
  <1> DEFINE a == Acc(o, n, p, b)
             len == ReadVarint(w, a.p)
             acc == [a EXCEPT !.p = len.p]
             Solves(f) == f = [i \in 0 .. len.n |-> IF i = 0 THEN acc
                                ELSE IF f[i - 1].p = Failed THEN f[i - 1]
                                ELSE TakeItem(w, f[i - 1])]
             f == CHOOSE f : Solves(f)
  <1>0. a.p = p
    BY AccFacts
  <1> HIDE DEF a
  <1>1. ASSUME NEW g PROVE Runs(g, "item", w, acc, len.n) <=> Solves(g)
    <2> HIDE DEF acc
    <2> QED BY DEF Runs, Item
  <1>2. \E g : Solves(g)
    <2>1. len.n \in Nat
      BY <1>0
    <2> QED BY <1>1, <2>1, RunExists
  <1>3. Solves(f)
    BY <1>2
  <1>a. Item("witness", w, a) = TakeWitness(w, a)
    BY DEF Item
  <1>4. TakeWitness(w, a) = IF len.p = Failed THEN [a EXCEPT !.p = Failed] ELSE f[len.n]
    BY DEF TakeWitness, Repeat
  <1>5. Runs(f, "item", w, acc, len.n)
    BY <1>1, <1>3
  <1>6. len.n = m /\ len.p = q
    BY <1>0
  <1> HIDE DEF f, len
  <1>7. acc = Acc(o, n, q, b)
    <2>1. acc = Moved(a, q)
      BY <1>6, Zenon DEF Moved
    <2> QED BY <2>1, AccMoves DEF a
  <1>8. [a EXCEPT !.p = Failed] = Acc(o, n, Failed, b)
    <2>1. [a EXCEPT !.p = Failed] = Moved(a, Failed)
      BY Zenon DEF Moved
    <2> QED BY <2>1, AccMoves DEF a
  <1> HIDE DEF acc
  <1>9. q = Failed => Item("witness", w, a) = Acc(o, n, Failed, b)
    BY <1>4, <1>6, <1>8, <1>a
  <1>10. q # Failed => Runs(f, "item", w, Acc(o, n, q, b), m) /\ Item("witness", w, a) = f[m]
    BY <1>4, <1>5, <1>6, <1>7, <1>a
  <1> QED BY <1>9, <1>10 DEF a

\* A repetition of witness items keeps all but the position.
LEMMA ItemsClose ==
  ASSUME NEW w \in Wire, NEW kind \in {"in", "out", "item"}
  PROVE  \A a \in TxRead : a.p # Failed => Item(kind, w, a) \in TxRead
  <1> SUFFICES ASSUME NEW a \in TxRead PROVE Item(kind, w, a) \in TxRead
    OBVIOUS
  <1> DEFINE o == a.out
             n == a.nin
             p == a.p
             b == a.segwit
  <1>1. a = Acc(o, n, p, b) /\ o \in Wire /\ n \in Nat /\ p \in Nat /\ b \in BOOLEAN
    BY AccForm
  <1> HIDE DEF o, n, p, b
  <1>2. Item("in", w, a) \in TxRead
    BY <1>1, InForm
  <1>3. Item("out", w, a) \in TxRead
    BY <1>1, OutForm
  <1>4. Item("item", w, a) \in TxRead
    BY <1>1, ItemForm
  <1> QED BY <1>2, <1>3, <1>4

\* A run of items that stays in TxRead.
LEMMA AccRunFacts ==
  ASSUME NEW f, NEW kind \in {"in", "out", "item"}, NEW w \in Wire, NEW a \in TxRead,
         NEW m \in Nat, Runs(f, kind, w, a, m)
  PROVE  f[m] \in TxRead /\ (f[m].p # Failed => a.p # Failed)
  <1>1. \A x \in TxRead : x.p # Failed => Item(kind, w, x) \in TxRead
    BY ItemsClose
  <1>2. \A i \in 0 .. m : f[i] \in TxRead
    BY <1>1, RunFacts
  <1>3. f[m].p # Failed => \A i \in 0 .. m : f[i].p # Failed
    BY <1>1, RunFacts
  <1>4. f[0] = a /\ 0 \in 0 .. m /\ m \in 0 .. m
    BY DEF Runs
  <1> QED BY <1>2, <1>3, <1>4

LEMMA AccRunGrows ==
  ASSUME NEW f, NEW g, NEW kind \in {"in", "out", "item"}, NEW w, NEW u, Begins(w, u),
         NEW a \in TxRead, NEW m \in Nat, Runs(f, kind, u, a, m), Runs(g, kind, w, a, m),
         f[m].p # Failed
  PROVE  g[m] = f[m]
  <1>0. u \in Wire
    BY DEF Begins
  <1>1. \A x \in TxRead : x.p # Failed => Item(kind, u, x) \in TxRead
    BY <1>0, ItemsClose
  <1>2. \A x \in TxRead : x.p # Failed /\ Item(kind, u, x).p # Failed
                            => Item(kind, w, x) = Item(kind, u, x)
    BY InGrows, OutGrows, ItemGrows
  <1> QED BY <1>1, <1>2, RunGrows

\* A witness is consumed, and nothing of it is kept.
LEMMA WitnessCloses ==
  ASSUME NEW w \in Wire
  PROVE  \A a \in TxRead : a.p # Failed => Item("witness", w, a) \in TxRead
  <1> SUFFICES ASSUME NEW a \in TxRead PROVE Item("witness", w, a) \in TxRead
    OBVIOUS
  <1> DEFINE o == a.out
             n == a.nin
             p == a.p
             b == a.segwit
             m == ReadVarint(w, p).n
             q == ReadVarint(w, p).p
  <1>1. a = Acc(o, n, p, b) /\ o \in Wire /\ n \in Nat /\ p \in Nat /\ b \in BOOLEAN
    BY AccForm
  <1> HIDE DEF o, n, p, b
  <1>2. ReadVarint(w, p) = [n |-> m, p |-> q] /\ m \in Nat /\ q \in Nat
    BY <1>1, VarintFacts
  <1> HIDE DEF m, q
  <1>3. Failed \in Nat /\ Acc(o, n, q, b) \in TxRead
    BY <1>1, <1>2, AccFacts DEF Failed
  <1>4. CASE q = Failed
    <2>1. Item("witness", w, a) = Acc(o, n, Failed, b)
      BY <1>1, <1>2, <1>4, WitnessRun
    <2>2. Acc(o, n, Failed, b) \in TxRead
      BY <1>1, <1>3, AccFacts
    <2> QED BY <2>1, <2>2
  <1>5. CASE q # Failed
    <2>1. PICK f : Runs(f, "item", w, Acc(o, n, q, b), m) /\ Item("witness", w, a) = f[m]
      BY <1>1, <1>2, <1>5, WitnessRun
    <2>2. f[m] \in TxRead
      BY <1>2, <1>3, <2>1, AccRunFacts
    <2> QED BY <2>1, <2>2
  <1> QED BY <1>4, <1>5

LEMMA WitnessGrows ==
  ASSUME NEW w, NEW u, Begins(w, u), NEW a \in TxRead, Item("witness", u, a).p # Failed
  PROVE  Item("witness", w, a) = Item("witness", u, a)
  <1> DEFINE o == a.out
             n == a.nin
             p == a.p
             b == a.segwit
             m == ReadVarint(u, p).n
             q == ReadVarint(u, p).p
  <1>0. u \in Wire /\ w \in Wire
    BY DEF Begins
  <1>1. a = Acc(o, n, p, b) /\ o \in Wire /\ n \in Nat /\ p \in Nat /\ b \in BOOLEAN
    BY AccForm
  <1> HIDE DEF o, n, p, b
  <1>2. ReadVarint(u, p) = [n |-> m, p |-> q] /\ m \in Nat /\ q \in Nat
    BY <1>0, <1>1, VarintFacts
  <1>3. q # Failed
    <2> SUFFICES ASSUME q = Failed PROVE FALSE
      OBVIOUS
    <2> HIDE DEF m, q
    <2>1. Item("witness", u, a) = Acc(o, n, Failed, b)
      BY <1>0, <1>1, <1>2, WitnessRun
    <2> QED BY <2>1, AccFacts
  <1>4. ReadVarint(w, p) = [n |-> m, p |-> q]
    BY <1>1, <1>2, <1>3, VarintGrows
  <1> HIDE DEF m, q
  <1>5. PICK f : Runs(f, "item", u, Acc(o, n, q, b), m) /\ Item("witness", u, a) = f[m]
    BY <1>0, <1>1, <1>2, <1>3, WitnessRun
  <1>6. PICK g : Runs(g, "item", w, Acc(o, n, q, b), m) /\ Item("witness", w, a) = g[m]
    BY <1>0, <1>1, <1>2, <1>3, <1>4, WitnessRun
  <1>7. Acc(o, n, q, b) \in TxRead
    BY <1>1, <1>2, AccFacts
  <1>8. f[m].p # Failed
    BY <1>5
  <1>9. g[m] = f[m]
    BY <1>2, <1>5, <1>6, <1>7, <1>8, AccRunGrows
  <1> QED BY <1>5, <1>6, <1>9

LEMMA WitnessStart ==
  ASSUME NEW w \in Wire, NEW o \in Wire, NEW n \in Nat, NEW p \in Nat, NEW b \in BOOLEAN,
         NEW m \in Nat, NEW q \in Nat \ {0}, ReadVarint(w, p) = [n |-> m, p |-> q]
  PROVE  \E f : /\ Runs(f, "item", w, Acc(o, n, q, b), m)
                /\ Item("witness", w, Acc(o, n, p, b)) = f[m]
  <1>1. q \in Nat /\ q # Failed
    BY DEF Failed
  <1> QED BY <1>1, WitnessRun

\* The items of a witness.
Stack == Seq(Wire)

\* A witness is read as a whole.
LEMMA WitnessAt ==
  ASSUME NEW w \in Wire, NEW p \in Nat, NEW items \in Stack, NEW wide \in BOOLEAN,
         At(w, p, WitnessBytes(items, wide)), NEW o \in Wire, NEW n \in Nat, NEW b \in BOOLEAN
  PROVE  Item("witness", w, Acc(o, n, p, b)) = Acc(o, n, p + Len(WitnessBytes(items, wide)), b)
  <1> DEFINE m == Len(items)
             parts == ItemsOf(items, wide)
             c == Enc(m, wide)
             F == FlattenSeq(parts)
             q == p + Len(c)
             t == [i \in 0 .. m |-> o]
  <1>1. parts \in Seq(Wire) /\ Len(parts) = m
        /\ (\A j \in 1 .. m : items[j] \in Wire /\ parts[j] = EncScript(items[j], wide))
        /\ c \in Wire /\ WitnessBytes(items, wide) = c \o F
    BY WitnessFacts DEF Stack
  <1>2. m \in Nat
    BY DEF Stack
  <1>3. F \in Wire
    BY <1>1, FlattenType
  <1>4. p \in Nat \ {0}
    BY DEF At
  <1> HIDE DEF m, parts, F
  <1>5. At(w, p, c) /\ At(w, p + Len(c), F)
    <2> HIDE DEF c
    <2>1. At(w, p, c \o F)
      BY <1>1
    <2> QED BY <1>1, <1>3, <2>1, AtParts
  <1>6. ReadVarint(w, p) = [n |-> m, p |-> q] /\ q \in Nat \ {0}
    BY <1>2, <1>5, VarintAt
  <1>7. Len(WitnessBytes(items, wide)) = Len(c) + Len(F) /\ Len(c) \in Nat /\ Len(F) \in Nat
    <2> HIDE DEF c
    <2>1. Len(c \o F) = Len(c) + Len(F)
      BY <1>1, <1>3, ConcatLen
    <2> QED BY <1>1, <1>3, <2>1 DEF Wire
  <1> HIDE DEF c
  <1>8. p + Len(WitnessBytes(items, wide)) = q + Len(F)
    BY <1>4, <1>7
  <1> HIDE DEF q
  <1>a. At(w, q, F) /\ q # Failed /\ p \in Nat /\ q \in Nat
    BY <1>4, <1>5, <1>6 DEF q, Failed
  <1>9. PICK f : Runs(f, "item", w, Acc(o, n, q, b), m) /\ Item("witness", w, Acc(o, n, p, b)) = f[m]
    <2>1. ReadVarint(w, p) = [n |-> m, p |-> q] /\ q # Failed /\ p \in Nat /\ q \in Nat
      BY <1>6, <1>a
    <2>2. q \in Nat \ {0}
      BY <1>6
    <2>3. \E f : Runs(f, "item", w, Acc(o, n, q, b), m) /\ Item("witness", w, Acc(o, n, p, b)) = f[m]
      BY <1>2, <2>1, <2>2, WitnessStart
    <2> QED BY <2>3, Zenon
  <1>10. ReadsParts("item", w, parts, t, n, b)
    <2>1. ASSUME NEW i \in 1 .. m, NEW x, At(w, x, parts[i])
          PROVE  Item("item", w, Acc(t[i - 1], n, x, b)) = Acc(t[i], n, x + Len(parts[i]), b)
      <3>1. t[i - 1] = o /\ t[i] = o
        BY <1>2
      <3> DEFINE s == items[i]
      <3>2. s \in Wire /\ parts[i] = EncScript(s, wide)
        BY <1>1
      <3> HIDE DEF s, t
      <3>3. Item("item", w, Acc(o, n, x, b)) = Acc(o, n, x + Len(EncScript(s, wide)), b)
        <4>1. At(w, x, EncScript(s, wide))
          BY <2>1, <3>2
        <4> QED BY <3>2, <4>1, ItemAt
      <3> QED BY <3>1, <3>2, <3>3
    <2> HIDE DEF t
    <2> QED BY <1>1, <2>1 DEF ReadsParts
  <1>11. t[0] = o /\ t[m] = o
    BY <1>2
  <1> HIDE DEF t
  <1>12. f[m] = Acc(o, n, q + Len(F), b)
    <2>1. At(w, q, FlattenSeq(parts)) /\ Runs(f, "item", w, Acc(t[0], n, q, b), Len(parts))
      BY <1>1, <1>9, <1>11, <1>a DEF F
    <2>2. f[Len(parts)] = Acc(t[Len(parts)], n, q + Len(FlattenSeq(parts)), b)
      BY <1>1, <1>10, <2>1, AccRuns
    <2> QED BY <1>1, <1>11, <2>2 DEF F
  <1> QED BY <1>8, <1>9, <1>12

\* The witnesses of all inputs are dropped.
LEMMA DropsWitnesses ==
  ASSUME NEW tx, TxOK(tx), NEW items \in Seq(Wire), NEW wide \in BOOLEAN, NEW w \in Wire, NEW q,
         NEW F, F = FlattenSeq(WitnessesOf(tx, items, wide)), At(w, q, F),
         NEW o \in Wire, NEW n \in Nat, NEW b \in BOOLEAN,
         NEW f, Runs(f, "witness", w, Acc(o, n, q, b), Len(tx.ins))
  PROVE  f[Len(tx.ins)] = Acc(o, n, q + Len(F), b)
  <1> DEFINE m == Len(tx.ins)
             parts == WitnessesOf(tx, items, wide)
             t == [i \in 0 .. m |-> o]
  <1>1. parts \in Seq(Wire) /\ Len(parts) = m
        /\ \A i \in 1 .. m : parts[i] = WitnessBytes(items, wide)
    BY WitnessesFacts
  <1>2. m \in Nat
    BY TxFacts
  <1>3. F = FlattenSeq(parts) /\ Runs(f, "witness", w, Acc(o, n, q, b), m)
    OBVIOUS
  <1> HIDE DEF m, parts
  <1>4. ReadsParts("witness", w, parts, t, n, b)
    <2>1. ASSUME NEW i \in 1 .. m, NEW x, At(w, x, parts[i])
          PROVE  Item("witness", w, Acc(t[i - 1], n, x, b)) = Acc(t[i], n, x + Len(parts[i]), b)
      <3>1. t[i - 1] = o /\ t[i] = o
        BY <1>2
      <3>2. parts[i] = WitnessBytes(items, wide)
        BY <1>1
      <3> HIDE DEF t
      <3>3. Item("witness", w, Acc(o, n, x, b)) = Acc(o, n, x + Len(WitnessBytes(items, wide)), b)
        <4>1. At(w, x, WitnessBytes(items, wide)) /\ x \in Nat
          BY <2>1, <3>2 DEF At
        <4>2. items \in Stack
          BY DEF Stack
        <4> QED BY <4>1, <4>2, WitnessAt
      <3> QED BY <3>1, <3>2, <3>3
    <2> HIDE DEF t
    <2> QED BY <1>1, <2>1 DEF ReadsParts
  <1>5. t[0] = o /\ t[m] = o
    BY <1>2
  <1> HIDE DEF t
  <1>6. f[Len(parts)] = Acc(t[Len(parts)], n, q + Len(FlattenSeq(parts)), b)
    <2>1. At(w, q, FlattenSeq(parts)) /\ Runs(f, "witness", w, Acc(t[0], n, q, b), Len(parts))
      BY <1>1, <1>3, <1>5
    <2> QED BY <1>1, <1>4, <2>1, AccRuns
  <1>7. f[m] = Acc(o, n, q + Len(F), b)
    BY <1>1, <1>3, <1>5, <1>6
  <1> QED BY <1>7 DEF m

-----------------------------------------------------------------------------
(* The stages of take_tx: what each yields, and that on a longer wire it   *)
(* yields the same unless it failed.                                       *)

\* The number of inputs, behind the marker of a witness if there is one.
Marked(first) == first.p # Failed /\ first.n = 0
\* The number of inputs: the first varint, or the one after the flag.
Count(w, first) ==
    IF ~Marked(first) THEN first
    ELSE IF Take(w, first.p, 1) # Failed /\ w[first.p] = 1
           THEN ReadVarint(w, Take(w, first.p, 1))
    ELSE [n |-> 0, p |-> Failed]
\* What take_tx has read when the number of inputs is known.
Begun(w, start, nin, segwit) ==
    Acc(Cat(Field(w, start, 1), WriteVarint(nin.n)), nin.n,
        IF nin.n = 0 THEN Failed ELSE nin.p, segwit)

\* The first stage of take_tx, by its parts.
LEMMA VersionForm ==
  ASSUME NEW w, NEW start, NEW first, first = ReadVarint(w, Take(w, start, 1))
  PROVE  TakeVersion(w, start) = Begun(w, start, Count(w, first), Marked(first))
  <1> DEFINE f == ReadVarint(w, Take(w, start, 1))
  <1>1. TakeVersion(w, start) = Begun(w, start, Count(w, f), Marked(f))
    BY Zenon DEF TakeVersion, Begun, Count, Marked, Acc, Cat
  <1> QED BY <1>1

LEMMA CountFacts ==
  ASSUME NEW w \in Wire, NEW t \in Nat, NEW first, first = ReadVarint(w, t)
  PROVE  /\ first.n \in Nat /\ first.p \in Nat /\ Marked(first) \in BOOLEAN
         /\ Count(w, first).n \in Nat /\ Count(w, first).p \in Nat
         /\ Count(w, first).p # Failed => first.p # Failed
         /\ first.p # Failed => t # Failed
  <1>0. 1 \in Nat
    OBVIOUS
  <1>1. first.n \in Nat /\ first.p \in Nat /\ (first.p # Failed => t # Failed)
    BY VarintFacts
  <1> DEFINE flag == Take(w, first.p, 1)
             c == ReadVarint(w, flag)
  <1>2. flag \in Nat /\ (flag # Failed => first.p # Failed)
    BY <1>0, <1>1, TakeFacts
  <1> HIDE DEF flag
  <1>3. c.n \in Nat /\ c.p \in Nat
    BY <1>2, VarintFacts
  <1>4. Count(w, first) = IF ~Marked(first) THEN first
                          ELSE IF flag # Failed /\ w[first.p] = 1 THEN c
                          ELSE [n |-> 0, p |-> Failed]
    BY DEF Count, flag
  <1>5. Marked(first) \in BOOLEAN
    BY DEF Marked
  <1>6. CASE ~Marked(first)
    BY <1>1, <1>4, <1>5, <1>6
  <1>7. CASE Marked(first) /\ flag # Failed /\ w[first.p] = 1
    <2>1. Count(w, first) = c
      BY <1>4, <1>7
    <2> HIDE DEF c
    <2> QED BY <1>1, <1>2, <1>3, <1>5, <1>7, <2>1
  <1>8. CASE Marked(first) /\ ~(flag # Failed /\ w[first.p] = 1)
    <2>1. Count(w, first) = [n |-> 0, p |-> Failed]
      BY <1>4, <1>8
    <2> QED BY <1>1, <1>5, <2>1 DEF Failed
  <1> QED BY <1>6, <1>7, <1>8

LEMMA BegunFacts ==
  ASSUME NEW w \in Wire, NEW start \in Nat, NEW nin, nin.n \in Nat, nin.p \in Nat,
         NEW b \in BOOLEAN
  PROVE  /\ Begun(w, start, nin, b) \in TxRead
         /\ Begun(w, start, nin, b).p = IF nin.n = 0 THEN Failed ELSE nin.p
  <1> DEFINE o == Cat(Field(w, start, 1), WriteVarint(nin.n))
             q == IF nin.n = 0 THEN Failed ELSE nin.p
  <1>1. o \in Wire
    <2>1. Field(w, start, 1) \in Wire /\ WriteVarint(nin.n) \in Wire
      BY FieldType, WriteFacts
    <2> QED BY <2>1, CatType
  <1>2. q \in Nat
    BY DEF Failed
  <1>3. Begun(w, start, nin, b) = Acc(o, nin.n, q, b)
    BY DEF Begun
  <1> HIDE DEF o, q
  <1>4. Acc(o, nin.n, q, b) \in TxRead /\ Acc(o, nin.n, q, b).p = q
    BY <1>1, <1>2, AccFacts
  <1>5. Begun(w, start, nin, b) \in TxRead /\ Begun(w, start, nin, b).p = q
    BY <1>3, <1>4
  <1> QED BY <1>5 DEF q

LEMMA VersionFacts ==
  ASSUME NEW w \in Wire, NEW start \in Nat
  PROVE  TakeVersion(w, start) \in TxRead
  <1> DEFINE t == Take(w, start, 1)
             first == ReadVarint(w, t)
  <1>1. t \in Nat
    <2>1. 1 \in Nat
      OBVIOUS
    <2> QED BY <2>1, TakeFacts
  <1>2. TakeVersion(w, start) = Begun(w, start, Count(w, first), Marked(first))
    BY VersionForm
  <1> HIDE DEF t
  <1>3. /\ Marked(first) \in BOOLEAN
        /\ Count(w, first).n \in Nat /\ Count(w, first).p \in Nat
    BY <1>1, CountFacts
  <1> HIDE DEF first
  <1> QED BY <1>2, <1>3, BegunFacts

LEMMA VersionGrows ==
  ASSUME NEW w, NEW u, Begins(w, u), NEW start \in Nat, TakeVersion(u, start).p # Failed
  PROVE  TakeVersion(w, start) = TakeVersion(u, start)
  <1> DEFINE t == Take(u, start, 1)
             first == ReadVarint(u, t)
             nin == Count(u, first)
  <1>0. u \in Wire /\ w \in Wire /\ 1 \in Nat
    BY DEF Begins
  <1>1. t \in Nat /\ (t # Failed => start # Failed)
    BY <1>0, TakeFacts
  <1>2. TakeVersion(u, start) = Begun(u, start, nin, Marked(first))
    BY VersionForm
  <1>3. /\ first.n \in Nat /\ first.p \in Nat /\ Marked(first) \in BOOLEAN
        /\ nin.n \in Nat /\ nin.p \in Nat
        /\ nin.p # Failed => first.p # Failed
        /\ first.p # Failed => t # Failed
    BY <1>0, <1>1, CountFacts
  <1>4. nin.p # Failed /\ first.p # Failed /\ t # Failed
    <2> HIDE DEF nin, first, t
    <2>1. Begun(u, start, nin, Marked(first)).p = IF nin.n = 0 THEN Failed ELSE nin.p
      BY <1>0, <1>3, BegunFacts
    <2> QED BY <1>2, <1>3, <2>1
  <1>5. Take(w, start, 1) = t
    BY <1>0, <1>4, TakeGrows
  <1>6. Field(w, start, 1) = Field(u, start, 1)
    BY <1>4, FieldGrows
  <1>7. ReadVarint(w, t) = first
    <2> HIDE DEF t
    <2> QED BY <1>1, <1>4, VarintGrows
  <1>8. Count(w, first) = nin
    <2> HIDE DEF first
    <2>1. CASE ~Marked(first)
      BY <2>1 DEF Count
    <2>2. CASE Marked(first)
      <3> DEFINE flag == Take(u, first.p, 1)
      <3>1. flag \in Nat
        BY <1>0, <1>3, TakeFacts
      <3>2. flag # Failed /\ u[first.p] = 1 /\ nin = ReadVarint(u, flag)
        BY <1>4, <2>2 DEF Count
      <3>3. Take(w, first.p, 1) = flag
        BY <1>0, <1>3, <3>2, TakeGrows
      <3>4. w[first.p] = u[first.p]
        BY <1>3, <3>2, FieldGrows
      <3> HIDE DEF flag
      <3>5. ReadVarint(w, flag) = ReadVarint(u, flag)
        BY <1>4, <3>1, <3>2, VarintGrows
      <3> QED BY <2>2, <3>2, <3>3, <3>4, <3>5 DEF Count
    <2> QED BY <2>1, <2>2
  <1>9. TakeVersion(w, start) = Begun(w, start, Count(w, first), Marked(first))
    BY <1>5, <1>7, VersionForm
  <1>10. Begun(w, start, nin, Marked(first)) = Begun(u, start, nin, Marked(first))
    BY <1>6 DEF Begun
  <1> QED BY <1>2, <1>8, <1>9, <1>10

\* The stages of take_tx: each ends within the wire, and finds the same
\* on a longer one.
LEMMA InputsStage ==
  ASSUME NEW w \in Wire, NEW a \in TxRead
  PROVE  /\ TakeInputs(w, a) \in TxRead
         /\ TakeInputs(w, a).p # Failed => a.p # Failed
  <1>1. a.nin \in Nat
    BY AccForm
  <1>2. PICK f : Runs(f, "in", w, a, a.nin) /\ TakeInputs(w, a) = f[a.nin]
    BY <1>1, InRun
  <1> DEFINE m == a.nin
  <1>3. m \in Nat /\ Runs(f, "in", w, a, m) /\ TakeInputs(w, a) = f[m]
    BY <1>1, <1>2
  <1> HIDE DEF m
  <1>4. f[m] \in TxRead /\ (f[m].p # Failed => a.p # Failed)
    BY <1>3, AccRunFacts
  <1> QED BY <1>3, <1>4

LEMMA InputsStageGrows ==
  ASSUME NEW w, NEW u, Begins(w, u), NEW a \in TxRead, TakeInputs(u, a).p # Failed
  PROVE  TakeInputs(w, a) = TakeInputs(u, a)
  <1> DEFINE m == a.nin
  <1>1. m \in Nat
    BY AccForm
  <1>2. PICK f : Runs(f, "in", u, a, m) /\ TakeInputs(u, a) = f[m]
    BY <1>1, InRun
  <1>3. PICK g : Runs(g, "in", w, a, m) /\ TakeInputs(w, a) = g[m]
    BY <1>1, InRun
  <1> HIDE DEF m
  <1>4. f[m].p # Failed
    BY <1>2
  <1>5. g[m] = f[m]
    BY <1>1, <1>2, <1>3, <1>4, AccRunGrows
  <1> QED BY <1>2, <1>3, <1>5

LEMMA OutputsStage ==
  ASSUME NEW w \in Wire, NEW a \in TxRead
  PROVE  /\ TakeOutputs(w, a) \in TxRead
         /\ TakeOutputs(w, a).p # Failed => a.p # Failed /\ ReadVarint(w, a.p).p # Failed
  <1> DEFINE o == a.out
             n == a.nin
             p == a.p
             b == a.segwit
             m == ReadVarint(w, p).n
             q == ReadVarint(w, p).p
             c == Acc(Cat(o, WriteVarint(m)), n, q, b)
  <1>1. a = Acc(o, n, p, b) /\ o \in Wire /\ n \in Nat /\ p \in Nat /\ b \in BOOLEAN
    BY AccForm
  <1> HIDE DEF o, n, b
  <1>2. ReadVarint(w, p) = [n |-> m, p |-> q] /\ m \in Nat /\ q \in Nat
        /\ (q # Failed => p # Failed)
    BY <1>1, VarintFacts
  <1>3. PICK f : Runs(f, "out", w, c, m) /\ TakeOutputs(w, Acc(o, n, p, b)) = f[m]
    <2> HIDE DEF p, m, q
    <2>1. Reads(w, p, m, q)
      BY <1>2 DEF Reads
    <2>2. \E f : /\ Runs(f, "out", w, Acc(Cat(o, WriteVarint(m)), n, q, b), m)
                 /\ TakeOutputs(w, Acc(o, n, p, b)) = f[m]
      BY <1>1, <2>1, OutRun
    <2> QED BY <2>2
  <1>4. c \in TxRead /\ c.p = q
    <2>1. WriteVarint(m) \in Wire
      BY <1>2, WriteFacts
    <2> DEFINE d == Cat(o, WriteVarint(m))
    <2>2. d \in Wire
      BY <1>1, <2>1, CatType
    <2> HIDE DEF d, p, m, q
    <2>3. Acc(d, n, q, b) \in TxRead /\ Acc(d, n, q, b).p = q
      BY <1>1, <1>2, <2>2, AccFacts
    <2> QED BY <2>3 DEF d
  <1> HIDE DEF c
  <1>5. f[m] \in TxRead /\ (f[m].p # Failed => c.p # Failed)
    <2> HIDE DEF m
    <2> QED BY <1>2, <1>3, <1>4, AccRunFacts
  <1>6. TakeOutputs(w, a) = f[m]
    BY <1>1, <1>3
  <1> HIDE DEF m
  <1> QED BY <1>2, <1>4, <1>5, <1>6

LEMMA OutputsStageGrows ==
  ASSUME NEW w, NEW u, Begins(w, u), NEW a \in TxRead, TakeOutputs(u, a).p # Failed
  PROVE  TakeOutputs(w, a) = TakeOutputs(u, a)
  <1> DEFINE o == a.out
             n == a.nin
             p == a.p
             b == a.segwit
             m == ReadVarint(u, p).n
             q == ReadVarint(u, p).p
             c == Acc(Cat(o, WriteVarint(m)), n, q, b)
  <1>0. u \in Wire /\ w \in Wire
    BY DEF Begins
  <1>1. a = Acc(o, n, p, b) /\ o \in Wire /\ n \in Nat /\ p \in Nat /\ b \in BOOLEAN
    BY AccForm
  <1>2. ReadVarint(u, p) = [n |-> m, p |-> q] /\ m \in Nat /\ q \in Nat
    BY <1>0, <1>1, VarintFacts
  <1>3. q # Failed
    BY <1>0, OutputsStage
  <1> HIDE DEF o, n, p, b
  <1>4. ReadVarint(w, p) = [n |-> m, p |-> q]
    BY <1>1, <1>2, <1>3, VarintGrows
  <1>5. PICK f : Runs(f, "out", u, c, m) /\ TakeOutputs(u, Acc(o, n, p, b)) = f[m]
    <2> HIDE DEF m, q
    <2>1. Reads(u, p, m, q) /\ u \in Wire
      BY <1>0, <1>2 DEF Reads
    <2>2. \E f : /\ Runs(f, "out", u, Acc(Cat(o, WriteVarint(m)), n, q, b), m)
                 /\ TakeOutputs(u, Acc(o, n, p, b)) = f[m]
      BY <1>1, <2>1, OutRun
    <2> QED BY <2>2
  <1>6. PICK g : Runs(g, "out", w, c, m) /\ TakeOutputs(w, Acc(o, n, p, b)) = g[m]
    <2> HIDE DEF m, q
    <2>1. Reads(w, p, m, q) /\ w \in Wire
      BY <1>0, <1>2, <1>4 DEF Reads
    <2>2. \E g : /\ Runs(g, "out", w, Acc(Cat(o, WriteVarint(m)), n, q, b), m)
                 /\ TakeOutputs(w, Acc(o, n, p, b)) = g[m]
      BY <1>1, <2>1, OutRun
    <2> QED BY <2>2
  <1>7. c \in TxRead
    <2>1. WriteVarint(m) \in Wire
      BY <1>2, WriteFacts
    <2> DEFINE d == Cat(o, WriteVarint(m))
    <2>2. d \in Wire
      BY <1>1, <2>1, CatType
    <2> HIDE DEF d, m, q
    <2>3. Acc(d, n, q, b) \in TxRead
      BY <1>1, <1>2, <2>2, AccFacts
    <2> QED BY <2>3 DEF d
  <1> HIDE DEF c, m, q
  <1>8. TakeOutputs(u, a) = f[m] /\ TakeOutputs(w, a) = g[m]
    BY <1>1, <1>5, <1>6
  <1>9. g[m] = f[m]
    <2>1. f[m].p # Failed
      BY <1>8
    <2> QED BY <1>2, <1>5, <1>6, <1>7, <2>1, AccRunGrows
  <1> QED BY <1>8, <1>9

\* The witnesses of all inputs.
LEMMA WitnessesRun ==
  ASSUME NEW w, NEW a, a.nin \in Nat, a.segwit, a.p # Failed
  PROVE  \E f : Runs(f, "witness", w, a, a.nin) /\ TakeWitnesses(w, a) = f[a.nin]
  <1> DEFINE m == a.nin
             Solves(f) == f = [i \in 0 .. m |-> IF i = 0 THEN a
                                ELSE IF f[i - 1].p = Failed THEN f[i - 1]
                                ELSE TakeWitness(w, f[i - 1])]
             f == CHOOSE f : Solves(f)
  <1>1. ASSUME NEW g PROVE Runs(g, "witness", w, a, m) <=> Solves(g)
    BY DEF Runs, Item
  <1>2. \E g : Solves(g)
    BY <1>1, RunExists
  <1>3. Solves(f)
    BY <1>2
  <1>4. TakeWitnesses(w, a) = f[m]
    BY DEF TakeWitnesses, Repeat, Stripped
  <1>5. Runs(f, "witness", w, a, m)
    BY <1>1, <1>3
  <1> HIDE DEF f, m
  <1>6. \E g : Runs(g, "witness", w, a, m) /\ TakeWitnesses(w, a) = g[m]
    BY <1>4, <1>5
  <1> QED BY <1>6 DEF m

LEMMA WitnessesStage ==
  ASSUME NEW w \in Wire, NEW a \in TxRead
  PROVE  /\ TakeWitnesses(w, a) \in TxRead
         /\ TakeWitnesses(w, a).p # Failed => a.p # Failed
  <1>1. CASE ~a.segwit \/ a.p = Failed
    BY <1>1 DEF TakeWitnesses
  <1>2. CASE a.segwit /\ a.p # Failed
    <2> DEFINE m == a.nin
    <2>1. m \in Nat
      BY AccForm
    <2>2. PICK f : Runs(f, "witness", w, a, m) /\ TakeWitnesses(w, a) = f[m]
      BY <1>2, <2>1, WitnessesRun
    <2> HIDE DEF m
    <2>3. \A x \in TxRead : x.p # Failed => Item("witness", w, x) \in TxRead
      BY WitnessCloses
    <2>4. \A i \in 0 .. m : f[i] \in TxRead
      BY <2>1, <2>2, <2>3, RunFacts
    <2> QED BY <1>2, <2>1, <2>2, <2>4
  <1>3. a.segwit \in BOOLEAN
    BY AccForm
  <1> QED BY <1>1, <1>2, <1>3

LEMMA WitnessesStageGrows ==
  ASSUME NEW w, NEW u, Begins(w, u), NEW a \in TxRead, TakeWitnesses(u, a).p # Failed
  PROVE  TakeWitnesses(w, a) = TakeWitnesses(u, a)
  <1>0. u \in Wire
    BY DEF Begins
  <1>1. CASE ~a.segwit \/ a.p = Failed
    BY <1>1 DEF TakeWitnesses
  <1>2. CASE a.segwit /\ a.p # Failed
    <2> DEFINE m == a.nin
    <2>1. m \in Nat
      BY AccForm
    <2>2. PICK f : Runs(f, "witness", u, a, m) /\ TakeWitnesses(u, a) = f[m]
      BY <1>2, <2>1, WitnessesRun
    <2>3. PICK g : Runs(g, "witness", w, a, m) /\ TakeWitnesses(w, a) = g[m]
      BY <1>2, <2>1, WitnessesRun
    <2> HIDE DEF m
    <2>4. \A x \in TxRead : x.p # Failed => Item("witness", u, x) \in TxRead
      BY <1>0, WitnessCloses
    <2>5. \A x \in TxRead : x.p # Failed /\ Item("witness", u, x).p # Failed
                             => Item("witness", w, x) = Item("witness", u, x)
      BY WitnessGrows
    <2>6. f[m].p # Failed
      BY <2>2
    <2>7. g[m] = f[m]
      BY <2>1, <2>2, <2>3, <2>4, <2>5, <2>6, RunGrows
    <2> QED BY <2>2, <2>3, <2>7
  <1>3. a.segwit \in BOOLEAN
    BY AccForm
  <1> QED BY <1>1, <1>2, <1>3

LEMMA LocktimeStage ==
  ASSUME NEW w \in Wire, NEW a \in TxRead
  PROVE  /\ TakeLocktime(w, a) = [tx |-> Cat(a.out, Field(w, a.p, 1)), p |-> Take(w, a.p, 1)]
         /\ TakeLocktime(w, a).p \in Nat
         /\ TakeLocktime(w, a).p # Failed => a.p # Failed
  <1>1. TakeLocktime(w, a) = [tx |-> Cat(a.out, Field(w, a.p, 1)), p |-> Take(w, a.p, 1)]
    BY Zenon DEF TakeLocktime, Cat
  <1>2. a.p \in Nat /\ 1 \in Nat
    BY AccForm
  <1>3. Take(w, a.p, 1) \in Nat /\ (Take(w, a.p, 1) # Failed => a.p # Failed)
    BY <1>2, TakeFacts
  <1>4. TakeLocktime(w, a).p = Take(w, a.p, 1)
    BY <1>1
  <1> QED BY <1>1, <1>3, <1>4

LEMMA LocktimeGrows ==
  ASSUME NEW w, NEW u, Begins(w, u), NEW a \in TxRead, TakeLocktime(u, a).p # Failed
  PROVE  TakeLocktime(w, a) = TakeLocktime(u, a)
  <1>1. u \in Wire /\ w \in Wire /\ 1 \in Nat /\ a.p \in Nat
    BY AccForm DEF Begins
  <1>2. TakeLocktime(u, a) = [tx |-> Cat(a.out, Field(u, a.p, 1)), p |-> Take(u, a.p, 1)]
    BY <1>1, LocktimeStage
  <1>3. TakeLocktime(w, a) = [tx |-> Cat(a.out, Field(w, a.p, 1)), p |-> Take(w, a.p, 1)]
    BY <1>1, LocktimeStage
  <1>4. Take(u, a.p, 1) # Failed
    BY <1>2
  <1>5. Take(w, a.p, 1) = Take(u, a.p, 1) /\ Field(w, a.p, 1) = Field(u, a.p, 1)
    BY <1>1, <1>4, TakeGrows, FieldGrows
  <1> QED BY <1>2, <1>3, <1>5

\* A transaction that is read from u is read from every longer wire.
LEMMA TxGrows ==
  ASSUME NEW w, NEW u, Begins(w, u), NEW start \in Nat
  PROVE  /\ TakeTx(u, start).p \in Nat
         /\ TakeTx(u, start).p # Failed => TakeTx(w, start) = TakeTx(u, start)
  <1>0. u \in Wire
    BY DEF Begins
  <1> DEFINE a == TakeVersion(u, start)
             b == TakeInputs(u, a)
             c == TakeOutputs(u, b)
             d == TakeWitnesses(u, c)
             e == TakeLocktime(u, d)
  <1>1. a \in TxRead
    BY <1>0, VersionFacts
  <1>a. TakeTx(u, start) = e
    BY DEF TakeTx
  <1>b. a.p # Failed => TakeVersion(w, start) = a
    BY VersionGrows
  <1>c. TakeTx(w, start) = TakeLocktime(w, TakeWitnesses(w, TakeOutputs(w,
                             TakeInputs(w, TakeVersion(w, start)))))
    BY DEF TakeTx
  <1> HIDE DEF a
  <1>2. b \in TxRead /\ (b.p # Failed => a.p # Failed /\ TakeInputs(w, a) = b)
    BY <1>0, <1>1, InputsStage, InputsStageGrows
  <1> HIDE DEF b
  <1>3. c \in TxRead /\ (c.p # Failed => b.p # Failed /\ TakeOutputs(w, b) = c)
    BY <1>0, <1>2, OutputsStage, OutputsStageGrows
  <1> HIDE DEF c
  <1>4. d \in TxRead /\ (d.p # Failed => c.p # Failed /\ TakeWitnesses(w, c) = d)
    BY <1>0, <1>3, WitnessesStage, WitnessesStageGrows
  <1> HIDE DEF d
  <1>5. e.p \in Nat /\ (e.p # Failed => d.p # Failed /\ TakeLocktime(w, d) = e)
    BY <1>0, <1>4, LocktimeStage, LocktimeGrows
  <1> HIDE DEF e
  <1>6. e.p # Failed => TakeTx(w, start) = e
    <2> SUFFICES ASSUME e.p # Failed PROVE TakeTx(w, start) = e
      OBVIOUS
    <2>1. /\ TakeLocktime(w, d) = e /\ TakeWitnesses(w, c) = d /\ TakeOutputs(w, b) = c
          /\ TakeInputs(w, a) = b /\ TakeVersion(w, start) = a
      BY <1>2, <1>3, <1>4, <1>5, <1>b
    <2> QED BY <1>c, <2>1
  <1> QED BY <1>5, <1>6, <1>a

-----------------------------------------------------------------------------
(* What take_tx reads from a well-formed transaction. *)

\* The flag of a transaction without a witness, and of one with it.
Plain == FALSE
Flagged == TRUE

\* A count is yielded in its shortest form.
LEMMA CountsShort ==
  ASSUME NEW tx, TxOK(tx)
  PROVE  /\ InCount(tx, Short) = WriteVarint(Len(tx.ins))
         /\ OutCount(tx, Short) = WriteVarint(Len(tx.outs))
         /\ InCount(tx, Short) \in Wire /\ OutCount(tx, Short) \in Wire
         /\ InBytes(tx, Short) \in Wire /\ OutBytes(tx, Short) \in Wire
         /\ Short \in BOOLEAN
  <1>1. Short \in BOOLEAN
    BY DEF Short
  <1>2. InCount(tx, Short) = WriteVarint(Len(tx.ins))
    BY DEF InCount, Enc, Short
  <1>3. OutCount(tx, Short) = WriteVarint(Len(tx.outs))
    BY DEF OutCount, Enc, Short
  <1> QED BY <1>1, <1>2, <1>3, TxFacts

\* The first stage on a transaction without a witness, and with one.
LEMMA VersionLegacy ==
  ASSUME NEW tx, TxOK(tx), NEW wide \in BOOLEAN, NEW w \in Wire, NEW q,
         At(w, q, << 4 >>), At(w, q + 1, InCount(tx, wide))
  PROVE  TakeVersion(w, q) = Acc(Cat(<< 4 >>, InCount(tx, Short)), Len(tx.ins),
                                 q + 1 + Len(InCount(tx, wide)), Plain)
  <1> DEFINE n == Len(tx.ins)
             x == q + 1 + Len(Enc(n, wide))
             t == Take(w, q, 1)
             first == ReadVarint(w, t)
  <1>1. n \in Nat \ {0} /\ 4 \in Nat
    BY TxFacts
  <1>2. InCount(tx, wide) = Enc(n, wide)
    BY DEF InCount
  <1>3. t = q + 1 /\ Field(w, q, 1) = << 4 >>
    BY <1>1, FieldAt
  <1>4. TakeVersion(w, q) = Begun(w, q, Count(w, first), Marked(first))
    BY VersionForm
  <1> HIDE DEF n
  <1>5. first = [n |-> n, p |-> x] /\ x \in Nat \ {0}
    BY <1>1, <1>2, <1>3, VarintAt
  <1> HIDE DEF first, x
  <1>6. ~Marked(first) /\ first.n = n /\ first.p = x
    BY <1>1, <1>5 DEF Marked
  <1>7. Count(w, first) = first /\ Marked(first) = Plain
    <2>1. Count(w, first) = first
      BY <1>6 DEF Count
    <2>2. Marked(first) = Plain
      BY <1>6 DEF Plain, Marked
    <2> QED BY <2>1, <2>2
  <1>8. TakeVersion(w, q) = Begun(w, q, first, Plain)
    BY <1>4, <1>7
  <1>9. Begun(w, q, first, Plain) = Acc(Cat(<< 4 >>, WriteVarint(n)), n, x, Plain)
    BY <1>1, <1>3, <1>6 DEF Begun
  <1>10. WriteVarint(n) = InCount(tx, Short)
    BY CountsShort DEF n
  <1> QED BY <1>2, <1>8, <1>9, <1>10 DEF n, x

LEMMA VersionSegwit ==
  ASSUME NEW tx, TxOK(tx), NEW wide \in BOOLEAN, NEW w \in Wire, NEW q,
         At(w, q, <<4, 0, 1>>), At(w, q + 3, InCount(tx, wide))
  PROVE  TakeVersion(w, q) = Acc(Cat(<< 4 >>, InCount(tx, Short)), Len(tx.ins),
                                 q + 3 + Len(InCount(tx, wide)), Flagged)
  <1> DEFINE n == Len(tx.ins)
             x == q + 3 + Len(Enc(n, wide))
             t == Take(w, q, 1)
             first == ReadVarint(w, t)
             nin == ReadVarint(w, q + 3)
  <1>1. n \in Nat \ {0} /\ 4 \in Nat
    BY TxFacts
  <1>2. InCount(tx, wide) = Enc(n, wide)
    BY DEF InCount
  <1>3. q \in Nat \ {0} /\ q + 3 <= Len(w) + 1 /\ w[q] = 4 /\ w[q + 1] = 0 /\ w[q + 2] = 1
        /\ Len(w) \in Nat
    <2> DEFINE v == <<4, 0, 1>>
    <2>1. Len(v) = 3 /\ v[1] = 4 /\ v[2] = 0 /\ v[3] = 1
      OBVIOUS
    <2> HIDE DEF v
    <2>2. q \in Nat \ {0} /\ q + Len(v) <= Len(w) + 1
          /\ \A i \in 1 .. Len(v) : w[q + i - 1] = v[i]
      BY DEF At, v
    <2>3. w[q + 1 - 1] = 4 /\ w[q + 2 - 1] = 0 /\ w[q + 3 - 1] = 1
      BY <2>1, <2>2
    <2>4. q + 1 - 1 = q /\ q + 2 - 1 = q + 1 /\ q + 3 - 1 = q + 2
      BY <2>2
    <2> QED BY <2>1, <2>2, <2>3, <2>4 DEF Wire
  <1>4. At(w, q, << 4 >>)
    BY <1>3 DEF At
  <1>5. t = q + 1 /\ Field(w, q, 1) = << 4 >>
    BY <1>1, <1>4, FieldAt
  <1>6. TakeVersion(w, q) = Begun(w, q, Count(w, first), Marked(first))
    BY VersionForm
  <1>7. first = [n |-> 0, p |-> q + 2]
    BY <1>3, <1>5, WireFacts DEF ReadVarint, Take, Failed
  <1>8. Take(w, q + 2, 1) = q + 3
    BY <1>3 DEF Take, Failed
  <1> HIDE DEF n
  <1>9. nin = [n |-> n, p |-> x] /\ x \in Nat \ {0}
    BY <1>1, <1>2, VarintAt
  <1>a. q + 3 # Failed
    BY <1>3 DEF Failed
  <1> HIDE DEF first, x, nin
  <1>10. Marked(first) /\ first.n = 0 /\ first.p = q + 2
    BY <1>3, <1>7 DEF Marked, Failed
  <1>11. Count(w, first) = nin
    BY <1>3, <1>8, <1>10, <1>a DEF Count, nin
  <1>12. Marked(first) = Flagged
    BY <1>10 DEF Marked, Flagged
  <1>13. TakeVersion(w, q) = Begun(w, q, nin, Flagged)
    BY <1>6, <1>11, <1>12
  <1>14. Begun(w, q, nin, Flagged) = Acc(Cat(<< 4 >>, WriteVarint(n)), n, x, Flagged)
    <2>1. nin.n = n /\ nin.p = x /\ n # 0
      BY <1>1, <1>9
    <2> QED BY <1>5, <2>1 DEF Begun
  <1>15. WriteVarint(n) = InCount(tx, Short)
    BY CountsShort DEF n
  <1> QED BY <1>2, <1>13, <1>14, <1>15 DEF n, x

\* A body put together from its parts.
LEMMA GlueBody ==
  ASSUME NEW v \in Wire, NEW a \in Wire, NEW b \in Wire, NEW c \in Wire, NEW d \in Wire
  PROVE  Cat(Cat(Cat(Cat(v, a), b), c), d) = Cat(v, Cat(Cat(Cat(a, b), c), d))
  <1>1. Cat(a, b) \in Wire /\ Cat(Cat(a, b), c) \in Wire
    BY CatType
  <1>2. Cat(Cat(v, a), b) = Cat(v, Cat(a, b))
    BY CatAssociative
  <1>3. Cat(Cat(v, Cat(a, b)), c) = Cat(v, Cat(Cat(a, b), c))
    BY <1>1, CatAssociative
  <1>4. Cat(Cat(v, Cat(Cat(a, b), c)), d) = Cat(v, Cat(Cat(Cat(a, b), c), d))
    BY <1>1, CatAssociative
  <1> QED BY <1>2, <1>3, <1>4

\* Behind the number of inputs, the body is read and written back.
LEMMA BodyTaken ==
  ASSUME NEW tx, TxOK(tx), NEW wide \in BOOLEAN, NEW w \in Wire, NEW q, NEW b \in BOOLEAN,
         NEW x, x = q + Len(InCount(tx, wide)), At(w, q, Body(tx, wide)),
         NEW a, a = Acc(Cat(<< 4 >>, InCount(tx, Short)), Len(tx.ins), x, b)
  PROVE  TakeOutputs(w, TakeInputs(w, a))
           = Acc(Cat(<< 4 >>, Body(tx, Short)), Len(tx.ins), q + Len(Body(tx, wide)), b)
  <1> DEFINE n == Len(tx.ins)
             m == Len(tx.outs)
             v == << 4 >>
             A == InCount(tx, wide)
             B == InBytes(tx, wide)
             C == OutCount(tx, wide)
             D == OutBytes(tx, wide)
             As == InCount(tx, Short)
             Bs == InBytes(tx, Short)
             Cs == OutCount(tx, Short)
             Ds == OutBytes(tx, Short)
             y == x + Len(B)
             z == y + Len(C)
  <1>1. n \in Nat /\ m \in Nat /\ A \in Wire /\ B \in Wire /\ C \in Wire /\ D \in Wire
    BY TxFacts
  <1>2. As \in Wire /\ Bs \in Wire /\ Cs \in Wire /\ Ds \in Wire /\ Cs = WriteVarint(m)
    BY CountsShort
  <1>3. v \in Wire
    BY DEF Wire
  <1>4. /\ q \in Nat \ {0} /\ At(w, q + Len(A), B) /\ At(w, q + Len(A) + Len(B), C)
        /\ At(w, q + Len(A) + Len(B) + Len(C), D)
        /\ Len(Body(tx, wide)) = Len(A) + Len(B) + Len(C) + Len(D)
    BY BodyAt
  <1>5. Len(A) \in Nat /\ Len(B) \in Nat /\ Len(C) \in Nat /\ Len(D) \in Nat
    BY <1>1 DEF Wire
  <1>6. x \in Nat /\ y \in Nat /\ z \in Nat /\ y = q + Len(A) + Len(B)
        /\ z = q + Len(A) + Len(B) + Len(C) /\ z + Len(D) = q + Len(Body(tx, wide))
    BY <1>4, <1>5
  <1>7. At(w, x, B) /\ At(w, y, C) /\ At(w, z, D)
    BY <1>4, <1>6
  <1>8. Body(tx, Short) = Cat(Cat(Cat(As, Bs), Cs), Ds)
    BY Zenon DEF Body, Cat, InCount, InBytes, OutCount, OutBytes, InsOf, OutsOf
  <1>9. a = Acc(Cat(v, As), n, x, b)
    OBVIOUS
  <1>10. C = Enc(m, wide)
    BY DEF OutCount
  <1> HIDE DEF n, m, v, A, C, As, Cs
  <1>11. Cat(v, As) \in Wire
    BY <1>2, <1>3, CatType
  <1> DEFINE va == Cat(v, As)
  <1>12. TakeInputs(w, a) = Acc(Cat(va, Bs), n, y, b)
    <2>1. a.nin = n
      BY <1>9, AccFacts
    <2>2. PICK f : Runs(f, "in", w, a, n) /\ TakeInputs(w, a) = f[n]
      <3>1. a.nin \in Nat
        BY <1>1, <2>1
      <3>2. \E f : Runs(f, "in", w, a, a.nin) /\ TakeInputs(w, a) = f[a.nin]
        BY <3>1, InRun
      <3> QED BY <2>1, <3>2
    <2>3. Runs(f, "in", w, Acc(va, n, x, b), Len(tx.ins))
      BY <1>9, <2>2 DEF n
    <2> HIDE DEF va
    <2>4. va \in Wire
      BY <1>11 DEF va
    <2>5. f[Len(tx.ins)] = Acc(Cat(va, InBytes(tx, Short)), n, x + Len(InBytes(tx, wide)), b)
      BY <1>1, <1>7, <2>3, <2>4, TakesInputs
    <2> QED BY <2>2, <2>5 DEF n
  <1> DEFINE vab == Cat(va, Bs)
  <1>13. vab \in Wire
    BY <1>2, <1>11, CatType
  <1> HIDE DEF va
  <1>14. TakeOutputs(w, Acc(vab, n, y, b)) = Acc(Cat(Cat(vab, Cs), Ds), n, z + Len(D), b)
    <2> HIDE DEF vab
    <2>1. ReadVarint(w, y) = [n |-> m, p |-> z] /\ z \in Nat
      <3>1. At(w, y, Enc(m, wide))
        BY <1>7, <1>10
      <3>2. ReadVarint(w, y) = [n |-> m, p |-> y + Len(Enc(m, wide))]
        BY <1>1, <3>1, VarintAt
      <3> QED BY <1>6, <1>10, <3>2
    <2> HIDE DEF y, z
    <2>2. PICK f : /\ Runs(f, "out", w, Acc(Cat(vab, WriteVarint(m)), n, z, b), m)
                   /\ TakeOutputs(w, Acc(vab, n, y, b)) = f[m]
      <3>1. y \in Nat
        BY <1>6 DEF y
      <3>2. n \in Nat /\ m \in Nat /\ vab \in Wire
        BY <1>1, <1>13
      <3>3. \E f : /\ Runs(f, "out", w, Acc(Cat(vab, WriteVarint(m)), n, z, b), m)
                   /\ TakeOutputs(w, Acc(vab, n, y, b)) = f[m]
        <4>1. Reads(w, y, m, z)
          BY <2>1, <3>2 DEF Reads
        <4> HIDE DEF m, n
        <4> QED BY <3>1, <3>2, <4>1, OutRun
      <3> QED BY <3>3
    <2> DEFINE o == Cat(vab, Cs)
    <2>3. o \in Wire
      BY <1>2, <1>13, CatType
    <2>4. Runs(f, "out", w, Acc(o, n, z, b), Len(tx.outs))
      BY <1>2, <2>2 DEF m
    <2> HIDE DEF o
    <2>5. f[Len(tx.outs)] = Acc(Cat(o, OutBytes(tx, Short)), n, z + Len(OutBytes(tx, wide)), b)
      BY <1>1, <1>7, <2>3, <2>4, TakesOutputs
    <2> QED BY <2>2, <2>5 DEF m, o
  <1>15. Cat(Cat(vab, Cs), Ds) = Cat(v, Body(tx, Short))
    BY <1>2, <1>3, <1>8, GlueBody DEF va
  <1>16. TakeOutputs(w, TakeInputs(w, a)) = Acc(Cat(v, Body(tx, Short)), n, z + Len(D), b)
    BY <1>12, <1>14, <1>15
  <1> QED BY <1>6, <1>16 DEF v, n

\* The legacy form, as take_tx glues it.
LEMMA LegacyForm ==
  ASSUME NEW tx, TxOK(tx)
  PROVE  /\ Legacy(tx, Short) = Cat(Cat(<< 4 >>, Body(tx, Short)), << 4 >>)
         /\ Cat(<< 4 >>, Body(tx, Short)) \in Wire
  <1>1. Short \in BOOLEAN
    BY DEF Short
  <1>2. Body(tx, Short) \in Wire
    BY <1>1, BodyAt
  <1>3. << 4 >> \in Wire
    BY DEF Wire
  <1>4. Cat(<< 4 >>, Body(tx, Short)) \in Wire
    BY <1>2, <1>3, CatType
  <1>5. Legacy(tx, Short) = Cat(Cat(<< 4 >>, Body(tx, Short)), << 4 >>)
    BY Zenon DEF Legacy, Cat
  <1> QED BY <1>4, <1>5

\* The locktime closes what was read.
LEMMA LocktimeAt ==
  ASSUME NEW w \in Wire, NEW o \in Wire, NEW n \in Nat, NEW p \in Nat, NEW b \in BOOLEAN,
         At(w, p, << 4 >>)
  PROVE  TakeLocktime(w, Acc(o, n, p, b)) = [tx |-> Cat(o, << 4 >>), p |-> p + 1]
  <1> DEFINE a == Acc(o, n, p, b)
  <1>1. a \in TxRead /\ a.out = o /\ a.p = p
    BY AccFacts
  <1> HIDE DEF a
  <1>2. 4 \in Nat
    OBVIOUS
  <1>3. Take(w, p, 1) = p + 1 /\ Field(w, p, 1) = << 4 >>
    BY <1>2, FieldAt
  <1>4. TakeLocktime(w, a) = [tx |-> Cat(a.out, Field(w, a.p, 1)), p |-> Take(w, a.p, 1)]
    BY <1>1, LocktimeStage
  <1>5. TakeLocktime(w, a) = [tx |-> Cat(o, << 4 >>), p |-> p + 1]
    BY <1>1, <1>3, <1>4
  <1> QED BY <1>5 DEF a

\* A transaction without a witness is yielded in its short form.
LEMMA TxLegacy ==
  ASSUME NEW tx, TxOK(tx), NEW wide \in BOOLEAN, NEW w \in Wire, NEW q,
         At(w, q, Legacy(tx, wide))
  PROVE  TakeTx(w, q) = [tx |-> Legacy(tx, Short), p |-> q + Len(Legacy(tx, wide))]
  <1> DEFINE n == Len(tx.ins)
             x == q + 1 + Len(InCount(tx, wide))
             z == q + 1 + Len(Body(tx, wide))
             o == Cat(<< 4 >>, Body(tx, Short))
             a == Acc(Cat(<< 4 >>, InCount(tx, Short)), n, x, Plain)
             c == Acc(o, n, z, Plain)
  <1>1. /\ q \in Nat \ {0} /\ At(w, q, << 4 >>) /\ At(w, q + 1, Body(tx, wide))
        /\ At(w, q + 1 + Len(Body(tx, wide)), << 4 >>)
        /\ Len(Legacy(tx, wide)) = Len(Body(tx, wide)) + 2
    BY LegacyParts
  <1>2. n \in Nat /\ Plain \in BOOLEAN
    BY TxFacts DEF Plain
  <1>3. At(w, q + 1, InCount(tx, wide))
    BY <1>1, BodyAt
  <1>4. TakeVersion(w, q) = a
    BY <1>1, <1>3, VersionLegacy
  <1>5. TakeOutputs(w, TakeInputs(w, a)) = c
    BY <1>1, <1>2, BodyTaken
  <1>6. z \in Nat /\ z + 1 = q + Len(Legacy(tx, wide))
    <2>1. Len(Body(tx, wide)) \in Nat
      BY BodyAt DEF Wire
    <2> QED BY <1>1, <2>1
  <1>7. o \in Wire
    BY LegacyForm
  <1>8. At(w, z, << 4 >>)
    BY <1>1
  <1> HIDE DEF a, o, z, n
  <1>9. TakeWitnesses(w, c) = c
    <2>1. c.segwit = Plain
      BY AccFacts
    <2> QED BY <2>1 DEF TakeWitnesses, Plain
  <1>10. TakeLocktime(w, c) = [tx |-> Cat(o, << 4 >>), p |-> z + 1]
    BY <1>2, <1>6, <1>7, <1>8, LocktimeAt
  <1> HIDE DEF c
  <1>11. TakeTx(w, q) = [tx |-> Cat(o, << 4 >>), p |-> z + 1]
    BY <1>4, <1>5, <1>9, <1>10 DEF TakeTx
  <1> QED BY <1>6, <1>11, LegacyForm DEF o

\* With a witness, it is yielded without.
LEMMA TxSegwit ==
  ASSUME NEW tx, TxOK(tx), NEW wide \in BOOLEAN, NEW items \in Seq(Wire), NEW w \in Wire, NEW q,
         At(w, q, Segwit(tx, wide, items))
  PROVE  TakeTx(w, q) = [tx |-> Legacy(tx, Short), p |-> q + Len(Segwit(tx, wide, items))]
  <1> DEFINE n == Len(tx.ins)
             B == Body(tx, wide)
             F == FlattenSeq(WitnessesOf(tx, items, wide))
             x == q + 3 + Len(InCount(tx, wide))
             z == q + 3 + Len(B)
             y == z + Len(F)
             o == Cat(<< 4 >>, Body(tx, Short))
             a == Acc(Cat(<< 4 >>, InCount(tx, Short)), n, x, Flagged)
             c == Acc(o, n, z, Flagged)
             d == Acc(o, n, y, Flagged)
  <1>1. /\ q \in Nat \ {0} /\ At(w, q, <<4, 0, 1>>) /\ At(w, q + 3, B)
        /\ At(w, q + 3 + Len(B), F) /\ At(w, q + 3 + Len(B) + Len(F), << 4 >>)
        /\ Len(Segwit(tx, wide, items)) = 3 + Len(B) + Len(F) + 1
        /\ B \in Wire /\ F \in Wire
    BY SegwitParts
  <1>2. n \in Nat /\ Flagged \in BOOLEAN
    BY TxFacts DEF Flagged
  <1>3. At(w, q + 3, InCount(tx, wide))
    BY <1>1, BodyAt
  <1>4. TakeVersion(w, q) = a
    BY <1>1, <1>3, VersionSegwit
  <1>5. TakeOutputs(w, TakeInputs(w, a)) = c
    BY <1>1, <1>2, BodyTaken
  <1> HIDE DEF B, F
  <1>6. z \in Nat \ {0} /\ y \in Nat /\ y + 1 = q + Len(Segwit(tx, wide, items))
    <2>1. Len(B) \in Nat /\ Len(F) \in Nat
      BY <1>1 DEF Wire
    <2> QED BY <1>1, <2>1
  <1>7. o \in Wire
    BY LegacyForm
  <1>8. At(w, z, F) /\ At(w, y, << 4 >>)
    BY <1>1
  <1>a. F = FlattenSeq(WitnessesOf(tx, items, wide))
    BY DEF F
  <1> HIDE DEF a, o, z, y
  <1>9. TakeWitnesses(w, c) = d
    <2>1. c.segwit = Flagged /\ c.nin = n /\ c.p = z
      BY AccFacts
    <2>2. c.segwit /\ c.p # Failed /\ c.nin \in Nat
      BY <1>2, <1>6, <2>1 DEF Flagged, Failed
    <2> HIDE DEF c, n
    <2>3. PICK f : Runs(f, "witness", w, c, c.nin) /\ TakeWitnesses(w, c) = f[c.nin]
      BY <2>2, WitnessesRun
    <2>4. Runs(f, "witness", w, c, n) /\ TakeWitnesses(w, c) = f[n]
      BY <2>1, <2>3
    <2>5. Runs(f, "witness", w, Acc(o, n, z, Flagged), Len(tx.ins))
      BY <2>4 DEF c, n
    <2>6. f[Len(tx.ins)] = Acc(o, n, z + Len(F), Flagged)
      BY <1>2, <1>7, <1>8, <1>a, <2>5, DropsWitnesses
    <2> QED BY <2>4, <2>6 DEF n, y
  <1> HIDE DEF n
  <1>10. TakeLocktime(w, d) = [tx |-> Cat(o, << 4 >>), p |-> y + 1]
    BY <1>2, <1>6, <1>7, <1>8, LocktimeAt
  <1> HIDE DEF c, d
  <1>11. TakeTx(w, q) = [tx |-> Cat(o, << 4 >>), p |-> y + 1]
    BY <1>4, <1>5, <1>9, <1>10 DEF TakeTx
  <1> QED BY <1>6, <1>11, LegacyForm DEF o

-----------------------------------------------------------------------------
(* Cursor::branch and parse_auxpow. *)

\* Cursor::branch is a script of a bounded length.
LEMMA BranchForm ==
  ASSUME NEW w \in Wire, NEW p \in Nat
  PROVE  /\ Branch(w, p) = IF ReadVarint(w, p).n > MaxBranch THEN [hashes |-> <<>>, p |-> Failed]
                           ELSE [hashes |-> Script(w, p).script, p |-> Script(w, p).p]
         /\ Branch(w, p).p \in Nat
         /\ Branch(w, p).p # Failed =>
              /\ p # Failed /\ Branch(w, p).p <= Len(w) + 1
              /\ ReadVarint(w, p).p # Failed /\ Script(w, p).p # Failed
  <1> DEFINE s == Script(w, p)
             len == ReadVarint(w, p)
  <1>1. len.n \in Nat /\ len.p \in Nat
    BY VarintFacts
  <1>2. /\ s.p \in Nat
        /\ s.p # Failed => p # Failed /\ s.p <= Len(w) + 1
    BY ScriptFacts
  <1>3. s.p # Failed => len.p # Failed
    BY DEF Script, Take
  <1>4. CASE len.n > MaxBranch
    <2>1. Branch(w, p) = [hashes |-> <<>>, p |-> Failed]
      BY <1>4 DEF Branch
    <2> QED BY <1>4, <2>1 DEF Failed
  <1>5. CASE ~(len.n > MaxBranch)
    <2>1. Branch(w, p) = [hashes |-> s.script, p |-> s.p]
      BY <1>5 DEF Branch, Script
    <2> HIDE DEF s, len
    <2>2. Branch(w, p).p = s.p
      BY <2>1
    <2> QED BY <1>2, <1>3, <1>5, <2>1, <2>2 DEF s, len
  <1> QED BY <1>4, <1>5

LEMMA BranchGrows ==
  ASSUME NEW w, NEW u, Begins(w, u), NEW p \in Nat, Branch(u, p).p # Failed
  PROVE  Branch(w, p) = Branch(u, p)
  <1>1. u \in Wire /\ w \in Wire
    BY DEF Begins
  <1>2. Branch(u, p) = IF ReadVarint(u, p).n > MaxBranch THEN [hashes |-> <<>>, p |-> Failed]
                       ELSE [hashes |-> Script(u, p).script, p |-> Script(u, p).p]
    BY <1>1, BranchForm
  <1>3. Branch(w, p) = IF ReadVarint(w, p).n > MaxBranch THEN [hashes |-> <<>>, p |-> Failed]
                       ELSE [hashes |-> Script(w, p).script, p |-> Script(w, p).p]
    BY <1>1, BranchForm
  <1>4. ReadVarint(u, p).p # Failed /\ Script(u, p).p # Failed
    BY <1>1, BranchForm
  <1>5. ReadVarint(w, p) = ReadVarint(u, p)
    BY <1>4, VarintGrows
  <1>6. Script(w, p) = Script(u, p)
    BY <1>4, ScriptGrows
  <1> QED BY <1>2, <1>3, <1>5, <1>6

\* A branch is read back, unless it is too long.
LEMMA BranchAt ==
  ASSUME NEW w \in Wire, NEW p \in Nat, NEW s \in Wire, NEW wide \in BOOLEAN,
         At(w, p, EncScript(s, wide))
  PROVE  /\ Len(s) <= MaxBranch =>
              Branch(w, p) = [hashes |-> s, p |-> p + Len(EncScript(s, wide))]
         /\ Len(s) > MaxBranch => Branch(w, p).p = Failed
  <1> DEFINE m == Len(s)
             c == Enc(m, wide)
             e == EncScript(s, wide)
  <1>1. c \in Wire /\ m \in Nat /\ e = c \o s
    BY EncScriptFacts DEF EncScript
  <1>2. At(w, p, c)
    <2> HIDE DEF c
    <2>1. At(w, p, c \o s)
      BY <1>1
    <2> QED BY <1>1, <2>1, AtParts
  <1>3. ReadVarint(w, p).n = m
    <2>1. ReadVarint(w, p) = [n |-> m, p |-> p + Len(c)]
      BY <1>1, <1>2, VarintAt
    <2> QED BY <2>1
  <1>4. Script(w, p) = [script |-> s, p |-> p + Len(e)]
    BY ScriptAt
  <1> HIDE DEF e
  <1>5. Script(w, p).script = s /\ Script(w, p).p = p + Len(e)
    BY <1>4
  <1>6. Branch(w, p) = IF ReadVarint(w, p).n > MaxBranch THEN [hashes |-> <<>>, p |-> Failed]
                       ELSE [hashes |-> Script(w, p).script, p |-> Script(w, p).p]
    BY BranchForm
  <1>7. MaxBranch \in Nat
    BY WireFacts
  <1> HIDE DEF m
  <1>8. CASE m > MaxBranch
    <2>1. Branch(w, p) = [hashes |-> <<>>, p |-> Failed]
      BY <1>3, <1>6, <1>8
    <2> QED BY <1>1, <1>7, <1>8, <2>1 DEF m
  <1>9. CASE ~(m > MaxBranch)
    <2>1. Branch(w, p) = [hashes |-> s, p |-> p + Len(e)]
      BY <1>3, <1>5, <1>6, <1>9
    <2> QED BY <1>1, <1>7, <1>9, <2>1 DEF m, e
  <1> QED BY <1>8, <1>9

-----------------------------------------------------------------------------
\* The parts of a payload, by the names parse_auxpow gives them.
CoinbaseOf(w) == TakeTx(w, 2)
ParentOf(w) == Branch(w, Take(w, CoinbaseOf(w).p, 1))
ChainOf(w) == Branch(w, Take(w, ParentOf(w).p, 1))
EndOf(w) == Take(w, Take(w, ChainOf(w).p, 1), 1)

\* parse_auxpow, by these parts.
LEMMA AuxForm ==
  ASSUME NEW w
  PROVE  ParseAuxpow(w) =
           IF Len(w) <= 1 \/ EndOf(w) = Failed THEN NoTx
           ELSE [base |-> w[1], coinbase |-> CoinbaseOf(w).tx,
                 parentBranch |-> ParentOf(w).hashes, parentIndex |-> w[ParentOf(w).p],
                 chainBranch |-> ChainOf(w).hashes, chainIndex |-> w[ChainOf(w).p],
                 parentHeader |-> w[EndOf(w) - 1]]
  BY Zenon DEF ParseAuxpow, CoinbaseOf, ParentOf, ChainOf, EndOf

LEMMA BeginsSelf ==
  ASSUME NEW w \in Wire
  PROVE  Begins(w, w)
  <1>1. Len(w) \in Nat
    BY DEF Wire
  <1> QED BY <1>1 DEF Begins

\* Where the header is found, every part before it was found.
LEMMA EndFacts ==
  ASSUME NEW w \in Wire
  PROVE  /\ CoinbaseOf(w).p \in Nat /\ ParentOf(w).p \in Nat /\ ChainOf(w).p \in Nat
         /\ EndOf(w) \in Nat
         /\ EndOf(w) # Failed =>
              /\ EndOf(w) <= Len(w) + 1 /\ ChainOf(w).p # Failed
              /\ ParentOf(w).p # Failed /\ CoinbaseOf(w).p # Failed
  <1> DEFINE c == CoinbaseOf(w).p
             p == Take(w, c, 1)
             d == ParentOf(w).p
             q == Take(w, d, 1)
             e == ChainOf(w).p
             r == Take(w, e, 1)
             z == Take(w, r, 1)
  <1>0. 1 \in Nat /\ 2 \in Nat
    OBVIOUS
  <1>1. c \in Nat
    BY <1>0, BeginsSelf, TxGrows DEF CoinbaseOf
  <1>2. ParentOf(w) = Branch(w, p)
    BY DEF ParentOf
  <1>3. ChainOf(w) = Branch(w, q)
    BY DEF ChainOf
  <1>4. EndOf(w) = z
    BY DEF EndOf
  <1> HIDE DEF c
  <1>5. p \in Nat /\ (p # Failed => c # Failed)
    BY <1>0, <1>1, TakeFacts
  <1> HIDE DEF p
  <1>6. d \in Nat /\ (d # Failed => p # Failed)
    BY <1>2, <1>5, BranchForm
  <1> HIDE DEF d
  <1>7. q \in Nat /\ (q # Failed => d # Failed)
    BY <1>0, <1>6, TakeFacts
  <1> HIDE DEF q
  <1>8. e \in Nat /\ (e # Failed => q # Failed)
    BY <1>3, <1>7, BranchForm
  <1> HIDE DEF e
  <1>9. r \in Nat /\ (r # Failed => e # Failed)
    BY <1>0, <1>8, TakeFacts
  <1> HIDE DEF r
  <1>10. z \in Nat /\ (z # Failed => r # Failed /\ z = r + 1 /\ r + 1 <= Len(w) + 1)
    BY <1>0, <1>9, TakeFacts
  <1> HIDE DEF z
  <1>11. z # Failed => z <= Len(w) + 1
    BY <1>10
  <1> QED BY <1>1, <1>4, <1>5, <1>6, <1>7, <1>8, <1>9, <1>10, <1>11 DEF c, d, e

\* A payload that is read from u ends at the same place of every longer wire.
LEMMA AuxGrows ==
  ASSUME NEW w, NEW u, Begins(w, u), EndOf(u) # Failed
  PROVE  EndOf(w) = EndOf(u)
  <1>0. u \in Wire /\ 1 \in Nat /\ 2 \in Nat
    BY DEF Begins
  <1> DEFINE c == CoinbaseOf(u).p
             d == ParentOf(u).p
             e == ChainOf(u).p
             p == Take(u, c, 1)
             q == Take(u, d, 1)
             r == Take(u, e, 1)
  <1>1. c \in Nat /\ d \in Nat /\ e \in Nat /\ c # Failed /\ d # Failed /\ e # Failed
    BY <1>0, EndFacts
  <1>2. CoinbaseOf(w) = CoinbaseOf(u)
    BY <1>0, <1>1, TxGrows DEF CoinbaseOf
  <1>3. ParentOf(u) = Branch(u, p) /\ ParentOf(w) = Branch(w, Take(w, c, 1))
    BY <1>2 DEF ParentOf
  <1>4. ChainOf(u) = Branch(u, q) /\ ChainOf(w) = Branch(w, Take(w, ParentOf(w).p, 1))
    BY DEF ChainOf
  <1>5. EndOf(u) = Take(u, r, 1) /\ EndOf(w) = Take(w, Take(w, ChainOf(w).p, 1), 1)
    BY DEF EndOf
  <1> HIDE DEF c
  <1>6. p \in Nat /\ q \in Nat /\ r \in Nat
    <2> HIDE DEF d, e
    <2> QED BY <1>0, <1>1, TakeFacts
  <1>7. Branch(u, p).p # Failed /\ Branch(u, q).p # Failed /\ Take(u, r, 1) # Failed
    BY <1>1, <1>3, <1>4, <1>5
  <1>8. p # Failed /\ q # Failed /\ r # Failed
    <2>1. p # Failed
      <3> HIDE DEF p
      <3> QED BY <1>0, <1>6, <1>7, BranchForm
    <2>2. q # Failed
      <3> HIDE DEF q
      <3> QED BY <1>0, <1>6, <1>7, BranchForm
    <2>3. r # Failed
      <3> HIDE DEF r
      <3> QED BY <1>0, <1>6, <1>7, TakeFacts
    <2> QED BY <2>1, <2>2, <2>3
  <1>9. Take(w, c, 1) = p
    BY <1>0, <1>1, <1>8, TakeGrows
  <1>10. ParentOf(w) = ParentOf(u)
    <2> HIDE DEF p
    <2>1. Branch(w, p) = Branch(u, p)
      BY <1>6, <1>7, BranchGrows
    <2> QED BY <1>3, <1>9, <2>1
  <1>11. Take(w, d, 1) = q
    <2> HIDE DEF d
    <2> QED BY <1>0, <1>1, <1>8, TakeGrows DEF q
  <1>12. ChainOf(w) = ChainOf(u)
    <2>1. ChainOf(w) = Branch(w, q)
      BY <1>4, <1>10, <1>11
    <2> HIDE DEF q
    <2>2. Branch(w, q) = Branch(u, q)
      BY <1>6, <1>7, BranchGrows
    <2> QED BY <1>4, <2>1, <2>2
  <1>13. Take(w, e, 1) = r
    <2> HIDE DEF e
    <2> QED BY <1>0, <1>1, <1>8, TakeGrows DEF r
  <1>14. EndOf(w) = Take(w, r, 1)
    BY <1>5, <1>12, <1>13
  <1> HIDE DEF r
  <1>15. Take(w, r, 1) = Take(u, r, 1)
    BY <1>0, <1>6, <1>7, TakeGrows
  <1> QED BY <1>5, <1>14, <1>15

\* A CAuxPow payload of a coinbase and two branches.
Payload(cb, E, F) == << 4 >> \o cb \o << 4 >> \o E \o << 0 >> \o F \o <<3, 4>>

Four(a, b, c, d) == a \o b \o c \o d

LEMMA FourSize ==
  ASSUME NEW a \in Wire, NEW b \in Wire, NEW c \in Wire, NEW d \in Wire
  PROVE  /\ Four(a, b, c, d) \in Wire
         /\ Len(Four(a, b, c, d)) = Len(a) + Len(b) + Len(c) + Len(d)
  BY FourParts DEF Four

LEMMA FourOn ==
  ASSUME NEW a \in Wire, NEW b \in Wire, NEW c \in Wire, NEW d \in Wire,
         NEW w \in Wire, At(w, 1, Four(a, b, c, d))
  PROVE  /\ At(w, 1, a) /\ At(w, 1 + Len(a), b) /\ At(w, 1 + Len(a) + Len(b), c)
         /\ At(w, 1 + Len(a) + Len(b) + Len(c), d)
  <1>1. At(w, 1, a \o b \o c \o d)
    BY DEF Four
  <1> QED BY <1>1, FourParts

\* The parts of a payload stand one behind the other.
LEMMA PayloadParts ==
  ASSUME NEW cb \in Wire, NEW E \in Wire, NEW F \in Wire
  PROVE  LET w == Payload(cb, E, F)
             l == Len(cb)
             m == Len(E)
             k == Len(F)
         IN  /\ w \in Wire /\ l \in Nat /\ m \in Nat /\ k \in Nat
             /\ Len(w) = 5 + l + m + k
             /\ At(w, 1, << 4 >>) /\ At(w, 2, cb) /\ At(w, 2 + l, << 4 >>) /\ At(w, 3 + l, E)
             /\ At(w, 3 + l + m, << 0 >>) /\ At(w, 4 + l + m, F)
             /\ At(w, 4 + l + m + k, << 3 >>) /\ At(w, 5 + l + m + k, << 4 >>)
  <1> DEFINE w == Payload(cb, E, F)
             l == Len(cb)
             m == Len(E)
             k == Len(F)
             a == << 4 >>
             b == << 0 >>
             c == <<3, 4>>
             t == << 3 >>
             X == Four(a, cb, a, E)
             Y == Four(X, b, F, c)
             n == Len(X)
  <1>1. a \in Wire /\ Len(a) = 1 /\ b \in Wire /\ Len(b) = 1 /\ t \in Wire /\ Len(t) = 1
    BY OneNumber
  <1>2. c \in Wire /\ Len(c) = 2 /\ c = t \o a
    BY DEF Wire
  <1>3. l \in Nat /\ m \in Nat /\ k \in Nat
    BY DEF Wire
  <1>4. w = Y
    BY DEF Payload, Four
  <1> HIDE DEF a, b, c, t, w
  <1>b. a \in Wire /\ b \in Wire /\ c \in Wire
    BY <1>1, <1>2
  <1>c. X \in Wire
    BY <1>b, FourSize
  <1>5. n = Len(a) + Len(cb) + Len(a) + Len(E)
    <2> HIDE DEF l, m, k
    <2>1. Len(Four(a, cb, a, E)) = Len(a) + Len(cb) + Len(a) + Len(E)
      BY <1>b, FourSize
    <2> QED BY <2>1
  <1> HIDE DEF X
  <1>d. Y \in Wire
    BY <1>b, <1>c, FourSize
  <1>7. Len(Y) = n + Len(b) + Len(F) + Len(c)
    <2> HIDE DEF l, m, k
    <2>1. Len(Four(X, b, F, c)) = Len(X) + Len(b) + Len(F) + Len(c)
      BY <1>b, <1>c, FourSize
    <2> QED BY <2>1
  <1>9. At(w, 1, Y) /\ w \in Wire
    BY <1>4, <1>d, AtSelf
  <1>10. /\ At(w, 1, X) /\ At(w, 1 + Len(X), b) /\ At(w, 1 + Len(X) + Len(b), F)
         /\ At(w, 1 + Len(X) + Len(b) + Len(F), c)
    BY <1>b, <1>c, <1>9, FourOn
  <1>11. /\ At(w, 1, a) /\ At(w, 1 + Len(a), cb) /\ At(w, 1 + Len(a) + Len(cb), a)
         /\ At(w, 1 + Len(a) + Len(cb) + Len(a), E)
    <2>1. At(w, 1, Four(a, cb, a, E))
      BY <1>10 DEF X
    <2> QED BY <1>b, <1>9, <2>1, FourOn
  <1> HIDE DEF Y
  <1>12. /\ 1 + Len(a) = 2 /\ 1 + Len(a) + Len(cb) = 2 + l
         /\ 1 + Len(a) + Len(cb) + Len(a) = 3 + l
         /\ 1 + n = 3 + l + m
         /\ 1 + n + Len(b) = 4 + l + m
         /\ 1 + n + Len(b) + Len(F) = 4 + l + m + k
         /\ 4 + l + m + k + 1 = 5 + l + m + k
         /\ Len(w) = 5 + l + m + k
    <2>1. Len(cb) = l /\ Len(E) = m /\ Len(F) = k
      OBVIOUS
    <2> HIDE DEF l, m, k, n
    <2>2. n = 2 + l + m
      BY <1>1, <1>3, <1>5, <2>1
    <2>3. Len(w) = 5 + l + m + k
      BY <1>1, <1>2, <1>3, <1>4, <1>7, <2>1, <2>2
    <2> QED BY <1>1, <1>3, <2>1, <2>2, <2>3
  <1> DEFINE x == 4 + l + m + k
  <1>13. At(w, x, c)
    BY <1>10, <1>12
  <1>14. At(w, x, t) /\ At(w, x + 1, a)
    <2> HIDE DEF x
    <2>1. At(w, x, t \o a)
      BY <1>2, <1>13
    <2>2. At(w, x, t) /\ At(w, x + Len(t), a)
      BY <1>1, <1>9, <2>1, AtParts
    <2> QED BY <1>1, <2>2
  <1>15. /\ At(w, 1, a) /\ At(w, 2, cb) /\ At(w, 2 + l, a) /\ At(w, 3 + l, E)
         /\ At(w, 3 + l + m, b) /\ At(w, 4 + l + m, F)
         /\ At(w, 4 + l + m + k, t) /\ At(w, 5 + l + m + k, a)
    BY <1>10, <1>11, <1>12, <1>14
  <1> QED BY <1>3, <1>9, <1>12, <1>15 DEF a, b, t, w

\* Every proper prefix of a payload that is read to its end is refused.
LEMMA CutPayload ==
  ASSUME NEW w \in Wire, EndOf(w) = Len(w) + 1, NEW n \in 0 .. Len(w) - 1
  PROVE  ParseAuxpow(SubSeq(w, 1, n)) = NoTx
  <1> DEFINE u == SubSeq(w, 1, n)
  <1>1. Len(w) \in Nat /\ n \in 0 .. Len(w) /\ n \in Nat /\ n < Len(w)
    BY DEF Wire
  <1>2. u \in Wire /\ Len(u) = n /\ \A i \in 1 .. n : u[i] = w[i]
    BY <1>1, PrefixOf DEF Wire
  <1> HIDE DEF u
  <1>3. Begins(w, u)
    BY <1>1, <1>2 DEF Begins
  <1>4. EndOf(u) = Failed
    <2> SUFFICES ASSUME EndOf(u) # Failed PROVE FALSE
      OBVIOUS
    <2>1. EndOf(w) = EndOf(u)
      BY <1>3, AuxGrows
    <2>2. EndOf(u) <= Len(u) + 1
      BY <1>2, EndFacts
    <2> QED BY <1>1, <1>2, <2>1, <2>2
  <1>5. ParseAuxpow(u) = NoTx
    BY <1>4, AuxForm
  <1> QED BY <1>5 DEF u

\* take_tx reads the bytes cb as tx, wherever they stand.
ReadsAs(cb, tx) ==
    \A w \in Wire : \A q : At(w, q, cb) => TakeTx(w, q) = [tx |-> tx, p |-> q + Len(cb)]

\* What AuxpowExactFor asks of one payload.
PayloadExact(w, tx, parent, chain) ==
    IF Len(parent) > MaxBranch \/ Len(chain) > MaxBranch
      THEN ParseAuxpow(w) = NoTx
      ELSE /\ ParseAuxpow(w) =
                [base |-> 4, coinbase |-> tx, parentBranch |-> parent, parentIndex |-> 0,
                 chainBranch |-> chain, chainIndex |-> 3, parentHeader |-> 4]
           /\ \A n \in 0 .. Len(w) - 1 : ParseAuxpow(SubSeq(w, 1, n)) = NoTx

\* A payload is read part by part, and only with branches that are not too
\* long.
LEMMA PayloadRead ==
  ASSUME NEW cb \in Wire, NEW tx, ReadsAs(cb, tx),
         NEW wide \in BOOLEAN, NEW parent \in Wire, NEW chain \in Wire
  PROVE  PayloadExact(Payload(cb, EncScript(parent, wide), EncScript(chain, wide)),
                      tx, parent, chain)
  <1> DEFINE w == Payload(cb, EncScript(parent, wide), EncScript(chain, wide))
  <1> DEFINE E == EncScript(parent, wide)
             F == EncScript(chain, wide)
             l == Len(cb)
             m == Len(E)
             k == Len(F)
             r == 3 + l + m
             s == 4 + l + m + k
  <1>1. E \in Wire /\ F \in Wire
    BY EncScriptFacts
  <1>2. /\ w \in Wire /\ l \in Nat /\ m \in Nat /\ k \in Nat
        /\ Len(w) = 5 + l + m + k
        /\ At(w, 1, << 4 >>) /\ At(w, 2, cb) /\ At(w, 2 + l, << 4 >>) /\ At(w, 3 + l, E)
        /\ At(w, r, << 0 >>) /\ At(w, 4 + l + m, F)
        /\ At(w, s, << 3 >>) /\ At(w, 5 + l + m + k, << 4 >>)
    <2> HIDE DEF E, F
    <2>1. w = Payload(cb, E, F)
      BY DEF E, F
    <2>2. l = Len(cb) /\ m = Len(E) /\ k = Len(F)
      OBVIOUS
    <2>3. r = 3 + l + m /\ s = 4 + l + m + k
      OBVIOUS
    <2> HIDE DEF l, m, k, r, s, w
    <2> QED BY <1>1, <2>1, <2>2, <2>3, PayloadParts
  <1> HIDE DEF w
  <1>3. CoinbaseOf(w).tx = tx /\ CoinbaseOf(w).p = 2 + l
    BY <1>2 DEF CoinbaseOf, ReadsAs
  <1>4. /\ w[1] = 4 /\ Take(w, 2 + l, 1) = 2 + l + 1 /\ w[r] = 0 /\ Take(w, r, 1) = r + 1
        /\ w[s] = 3 /\ Take(w, s, 1) = s + 1
        /\ w[5 + l + m + k] = 4 /\ Take(w, 5 + l + m + k, 1) = 5 + l + m + k + 1
    <2> DEFINE g == 2 + l
               h == 5 + l + m + k
    <2>1. 0 \in Nat /\ 3 \in Nat /\ 4 \in Nat
      OBVIOUS
    <2>2. /\ w \in Wire /\ At(w, 1, << 4 >>) /\ At(w, g, << 4 >>) /\ At(w, r, << 0 >>)
          /\ At(w, s, << 3 >>) /\ At(w, h, << 4 >>)
      BY <1>2
    <2> HIDE DEF E, F, l, m, k, r, s, g, h
    <2>3. w[1] = 4
      BY <2>1, <2>2, FieldAt
    <2>4. Take(w, g, 1) = g + 1
      BY <2>1, <2>2, FieldAt
    <2>5. w[r] = 0 /\ Take(w, r, 1) = r + 1
      BY <2>1, <2>2, FieldAt
    <2>6. w[s] = 3 /\ Take(w, s, 1) = s + 1
      BY <2>1, <2>2, FieldAt
    <2>7. w[h] = 4 /\ Take(w, h, 1) = h + 1
      BY <2>1, <2>2, FieldAt
    <2> QED BY <2>3, <2>4, <2>5, <2>6, <2>7 DEF g, h
  <1>5. /\ 2 + l + 1 = 3 + l /\ r + 1 = 4 + l + m /\ s + 1 = 5 + l + m + k
        /\ 3 + l + m = r /\ 4 + l + m + k = s /\ 5 + l + m + k + 1 = Len(w) + 1
        /\ 3 + l \in Nat /\ 4 + l + m \in Nat /\ Len(w) + 1 - 1 = 5 + l + m + k
        /\ Len(w) + 1 # 0 /\ ~(Len(w) <= 1)
    BY <1>2
  <1>6. ParentOf(w) = Branch(w, 3 + l)
    BY <1>3, <1>4, <1>5 DEF ParentOf
  <1>7. /\ Len(parent) <= MaxBranch => Branch(w, 3 + l) = [hashes |-> parent, p |-> 3 + l + m]
        /\ Len(parent) > MaxBranch => Branch(w, 3 + l).p = Failed
    BY <1>2, <1>5, BranchAt
  <1>8. /\ Len(chain) <= MaxBranch => Branch(w, 4 + l + m) = [hashes |-> chain, p |-> 4 + l + m + k]
        /\ Len(chain) > MaxBranch => Branch(w, 4 + l + m).p = Failed
    BY <1>2, <1>5, BranchAt
  <1>9. MaxBranch \in Nat /\ Len(parent) \in Nat /\ Len(chain) \in Nat
    BY WireFacts DEF Wire
  <1> HIDE DEF E, F, l, m, k, r, s
  <1> SUFFICES PayloadExact(w, tx, parent, chain)
    BY DEF w
  <1>10. CASE Len(parent) > MaxBranch
    <2>1. ParentOf(w).p = Failed
      BY <1>6, <1>7, <1>10
    <2>2. EndOf(w) = Failed
      BY <1>2, <2>1, EndFacts
    <2> QED BY <1>10, <2>2, AuxForm DEF PayloadExact
  <1>11. CASE Len(parent) <= MaxBranch
    <2>1. ParentOf(w).hashes = parent /\ ParentOf(w).p = r
      BY <1>5, <1>6, <1>7, <1>11
    <2>2. ChainOf(w) = Branch(w, 4 + l + m)
      BY <1>4, <1>5, <2>1 DEF ChainOf
    <2>3. CASE Len(chain) > MaxBranch
      <3>1. ChainOf(w).p = Failed
        BY <1>8, <2>2, <2>3
      <3>2. EndOf(w) = Failed
        BY <1>2, <3>1, EndFacts
      <3> QED BY <2>3, <3>2, AuxForm DEF PayloadExact
    <2>4. CASE Len(chain) <= MaxBranch
      <3>1. ChainOf(w).hashes = chain /\ ChainOf(w).p = s
        BY <1>5, <1>8, <2>2, <2>4
      <3>2. EndOf(w) = Len(w) + 1
        BY <1>4, <1>5, <3>1 DEF EndOf
      <3>3. \A n \in 0 .. Len(w) - 1 : ParseAuxpow(SubSeq(w, 1, n)) = NoTx
        BY <1>2, <3>2, CutPayload
      <3>4. w[EndOf(w) - 1] = 4 /\ w[ParentOf(w).p] = 0 /\ w[ChainOf(w).p] = 3
        BY <1>4, <1>5, <2>1, <3>1, <3>2
      <3>5. ~(Len(w) <= 1 \/ EndOf(w) = Failed)
        BY <1>5, <3>2 DEF Failed
      <3>6. ParseAuxpow(w) =
              [base |-> 4, coinbase |-> tx, parentBranch |-> parent, parentIndex |-> 0,
               chainBranch |-> chain, chainIndex |-> 3, parentHeader |-> 4]
        BY <1>3, <1>4, <2>1, <3>1, <3>4, <3>5, AuxForm
      <3>7. ~(Len(parent) > MaxBranch \/ Len(chain) > MaxBranch)
        BY <1>9, <1>11, <2>4
      <3> QED BY <3>3, <3>6, <3>7 DEF PayloadExact
    <2> QED BY <1>9, <2>3, <2>4
  <1> QED BY <1>9, <1>10, <1>11

\* Both forms of the coinbase are read as the legacy one.
LEMMA AuxpowLemma ==
  ASSUME NEW tx, TxOK(tx), NEW items \in Seq(Wire), NEW wide \in BOOLEAN,
         NEW parent \in Wire, NEW chain \in Wire
  PROVE  AuxpowExactFor(tx, items, wide, parent, chain)
  <1> DEFINE t == Legacy(tx, Short)
             P(cb) == Payload(cb, EncScript(parent, wide), EncScript(chain, wide))
  <1>1. t = Legacy(tx, FALSE)
    BY DEF Short
  <1>2. PayloadExact(P(Legacy(tx, wide)), t, parent, chain)
    <2> DEFINE cb == Legacy(tx, wide)
    <2>1. cb \in Wire
      BY LegacyParts
    <2>2. ReadsAs(cb, t)
      BY TxLegacy DEF ReadsAs
    <2> HIDE DEF cb, t
    <2>3. PayloadExact(P(cb), t, parent, chain)
      BY <2>1, <2>2, PayloadRead
    <2> QED BY <2>3 DEF cb
  <1>3. PayloadExact(P(Segwit(tx, wide, items)), t, parent, chain)
    <2> DEFINE cb == Segwit(tx, wide, items)
    <2>1. cb \in Wire
      BY SegwitParts
    <2>2. ReadsAs(cb, t)
      BY TxSegwit DEF ReadsAs
    <2> HIDE DEF cb, t
    <2>3. PayloadExact(P(cb), t, parent, chain)
      BY <2>1, <2>2, PayloadRead
    <2> QED BY <2>3 DEF cb
  <1>4. \A cb \in {Legacy(tx, wide), Segwit(tx, wide, items)} :
          PayloadExact(P(cb), t, parent, chain)
    BY <1>2, <1>3
  <1> HIDE DEF t
  <1> QED BY Zenon, <1>1, <1>4 DEF AuxpowExactFor, PayloadExact, Payload

\* The runs look at coinbases with inputs and outputs.
LEMMA CoinbasesAreSound ==
  ASSUME NEW tx \in CoinbaseTxs
  PROVE  TxOK(tx)
  <1>1. PayTo(7) \in Wire /\ <<>> \in Wire
    BY DEF PayTo, Wire
  <1>2. \A h \in Nat : PayTo(h) \in Wire /\ ReturnTo(h) \in Wire
    BY DEF PayTo, ReturnTo, Wire
  <1>3. Ins \subseteq Input
    BY <1>1, <1>2 DEF Ins, Input
  <1>4. [value : {1}, script : {PayTo(7), <<>>}] \subseteq Output
    <2> SUFFICES ASSUME NEW o \in [value : {1}, script : {PayTo(7), <<>>}] PROVE o \in Output
      OBVIOUS
    <2>1. o.value \in Nat /\ o.script \in Wire
      BY <1>1
    <2> QED BY <2>1 DEF Output
  <1>5. ASSUME NEW S, NEW T, S \subseteq T, NEW m \in Nat, NEW s \in Upto(S, m)
        PROVE  s \in Seq(T) /\ s # <<>>
    <2>1. PICK k \in 1 .. m : s \in [1 .. k -> S]
      BY DEF Upto
    <2>2. s \in Seq(T) /\ Len(s) = k
      BY <1>5, <2>1
    <2> QED BY <2>2
  <1>6. /\ tx.ins \in Upto(Ins, 2)
        /\ tx.outs \in Upto([value : {1}, script : {PayTo(7), <<>>}], 1)
    BY DEF CoinbaseTxs
  <1> QED BY <1>3, <1>4, <1>5, <1>6 DEF TxOK

\* The payloads that are looked at are those of the runs.
AuxCases == probe.kind = "auxpow" =>
    /\ probe.tx \in CoinbaseTxs /\ probe.items \in Witnesses /\ probe.wide \in BOOLEAN
    /\ probe.parent \in WireBranches /\ probe.chain \in WireBranches

LEMMA AuxCasesAlways == Spec => []AuxCases
  <1>1. Init => AuxCases
    BY DEF Init, Idle, AuxCases
  <1>2. AuxCases /\ [Next]_vars => AuxCases'
    <2> SUFFICES ASSUME AuxCases, [Next]_vars PROVE AuxCases'
      OBVIOUS
    <2>1. CASE UNCHANGED probe
      BY <2>1 DEF AuxCases
    <2>2. CASE LookAtAuxpow
      BY <2>2 DEF LookAtAuxpow, Look, AuxCases
    <2>3. ASSUME \/ LookAtBits \/ LookAtTarget \/ LookAtSum \/ LookAtWitness
                 \/ LookAtCoinbase \/ LookAtSlots \/ LookAtPayment \/ LookAtStore
                 \/ LookAtConfig \/ LookAtJournals
          PROVE  AuxCases'
      <3>1. probe'.kind # "auxpow"
        BY <2>3 DEF LookAtBits, LookAtTarget, LookAtSum, LookAtWitness, LookAtCoinbase,
                    LookAtSlots, LookAtPayment, LookAtStore, LookAtConfig, LookAtJournals, Look
      <3> QED BY <3>1 DEF AuxCases
    <2> QED BY <2>1, <2>2, <2>3 DEF Next, vars
  <1> QED BY <1>1, <1>2, PTL DEF Spec

(***************************************************************************)
(* For every coinbase with inputs and outputs, of any number, with scripts *)
(* of any length, with or without a witness of any items, written with     *)
(* short or with long varints, and branches of any length: parse_auxpow    *)
(* finds every field at its place and yields the one legacy form of the    *)
(* coinbase (take_tx of cauxpow.rs), refuses a branch over the limit, and  *)
(* reads nothing from any proper prefix of the payload.                    *)
(***************************************************************************)
THEOREM AuxpowTheorem ==
  /\ \A tx, items, parent, chain : \A wide \in BOOLEAN :
        TxOK(tx) /\ items \in Seq(Wire) /\ parent \in Wire /\ chain \in Wire
          => AuxpowExactFor(tx, items, wide, parent, chain)
  /\ Spec => []AuxpowExact
  <1>1. \A tx, items, parent, chain : \A wide \in BOOLEAN :
          TxOK(tx) /\ items \in Seq(Wire) /\ parent \in Wire /\ chain \in Wire
            => AuxpowExactFor(tx, items, wide, parent, chain)
    BY AuxpowLemma
  <1>2. Witnesses \subseteq Seq(Wire)
    <2> DEFINE x == << 1 >>
               y == <<1, 1>>
               z == <<>>
    <2>1. x \in Wire /\ y \in Wire /\ z \in Wire
      BY DEF Wire
    <2>2. Witnesses = {<<>>, <<x>>, <<z, y>>}
      BY DEF Witnesses
    <2> HIDE DEF x, y, z
    <2>3. <<>> \in Seq(Wire) /\ <<x>> \in Seq(Wire) /\ <<z, y>> \in Seq(Wire)
      BY <2>1
    <2> QED BY <2>2, <2>3
  <1>3. WireBranches \subseteq Wire
    BY DEF WireBranches, Wire
  <1>4. AuxCases => AuxpowExact
    BY <1>1, <1>2, <1>3, CoinbasesAreSound DEF AuxCases, AuxpowExact
  <1>5. Spec => []AuxpowExact
    BY <1>4, AuxCasesAlways, PTL
  <1> QED BY <1>1, <1>5
=============================================================================
