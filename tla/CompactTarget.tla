--------------------------- MODULE CompactTarget ---------------------------
(***************************************************************************)
(* The target arithmetic of crates/common: big-endian numbers of Bytes     *)
(* bytes (32 in the code) of ByteBits bits (8 in the code), the expansion  *)
(* of compact nBits and the work of a target.  The widths are parameters   *)
(* so that every target of a small width can be checked; the boundaries    *)
(* the code writes as 29, 31, 32, 33 and 34 are Bytes - 3 to Bytes + 2.    *)
(***************************************************************************)
EXTENDS Integers, Sequences, SequencesExt

CONSTANTS ByteBits, Bytes

ASSUME WidthAssumption == ByteBits \in Nat \ {0} /\ Bytes \in Nat /\ Bytes >= 3

(* The powers of b up to the n-th.                                         *)
Powers(b, n) ==
    LET p[k \in 0 .. n] == IF k = 0 THEN 1 ELSE b * p[k - 1]
    IN  p

TwoTo == Powers(2, ByteBits)
Byte == TwoTo[ByteBits]
ByteTo == Powers(Byte, Bytes)
Number == [1 .. Bytes -> 0 .. Byte - 1]
Zero == [i \in 1 .. Bytes |-> 0]
Invalid == <<>>

(* The number a big-endian array stands for.                               *)
Leading(n) ==
    LET v[i \in 0 .. Bytes] == IF i = 0 THEN 0 ELSE v[i - 1] * Byte + n[i]
    IN  v
ValueOf(n) == Leading(n)[Bytes]

-----------------------------------------------------------------------------
(* u256_add_be, and u256_add_one with its carry out of the top byte.       *)
Carry(a, b, low) ==
    LET c[i \in 1 .. Bytes + 1] ==
          IF i = Bytes + 1 THEN low ELSE (a[i] + b[i] + c[i + 1]) \div Byte
    IN  c

AddBe(a, b) == LET c == Carry(a, b, 0)
               IN  [i \in 1 .. Bytes |-> (a[i] + b[i] + c[i + 1]) % Byte]

AddOne(a) == LET c == Carry(a, Zero, 1)
             IN  [sum |-> [i \in 1 .. Bytes |-> (a[i] + c[i + 1]) % Byte],
                  overflow |-> c[1] = 1]

(* u256_shl1 drops the top bit.                                            *)
Shl1(a) == [i \in 1 .. Bytes |->
              ((2 * a[i]) % Byte)
                + (IF i < Bytes THEN (2 * a[i + 1]) \div Byte ELSE 0)]

(* Bytes are compared from the most significant one: u256_ge, target_leq.  *)
Differs(a, b, i) == a[i] # b[i] /\ \A j \in 1 .. i - 1 : a[j] = b[j]
Ge(a, b) == \A i \in 1 .. Bytes : Differs(a, b, i) => a[i] > b[i]
TargetLeq(a, b) == \A i \in 1 .. Bytes : Differs(a, b, i) => a[i] < b[i]

Borrow(a, b) ==
    LET c[i \in 1 .. Bytes + 1] ==
          IF i = Bytes + 1 \/ a[i] - b[i] - c[i + 1] >= 0 THEN 0 ELSE 1
    IN  c

Sub(a, b) == LET c == Borrow(a, b)
             IN  [i \in 1 .. Bytes |-> (a[i] - b[i] - c[i + 1]) % Byte]

(* u256_divmod: one bit of the numerator after the other.                  *)
BitOf(n, k) ==
    (n[(k \div ByteBits) + 1] \div TwoTo[ByteBits - 1 - (k % ByteBits)]) % 2

BringDown(num, den, acc, k) ==
    LET r == [Shl1(acc.r) EXCEPT ![Bytes] = @ + BitOf(num, k)]
    IN  IF Ge(r, den)
          THEN [q |-> [acc.q EXCEPT ![(k \div ByteBits) + 1] =
                         @ + TwoTo[ByteBits - 1 - (k % ByteBits)]],
                r |-> Sub(r, den)]
          ELSE [q |-> acc.q, r |-> r]

LongDivision(num, den) ==
    LET s[k \in 0 .. Bytes * ByteBits] ==
          IF k = 0 THEN [q |-> Zero, r |-> Zero]
                   ELSE BringDown(num, den, s[k - 1], k - 1)
    IN  s
DivMod(num, den) == LongDivision(num, den)[Bytes * ByteBits]

(* Mutant: the +1 of the identity is forgotten.                            *)
MutBlockWork(t) ==
    IF AddOne(t).overflow
      THEN [Zero EXCEPT ![Bytes] = 1]
      ELSE DivMod([i \in 1 .. Bytes |-> Byte - 1 - t[i]], AddOne(t).sum).q

(* work = (~target) / (target + 1) + 1                                     *)
BlockWork(t) ==
    IF AddOne(t).overflow
      THEN [Zero EXCEPT ![Bytes] = 1]
      ELSE AddOne(DivMod([i \in 1 .. Bytes |-> Byte - 1 - t[i]],
                         AddOne(t).sum).q).sum

(* Compact bits: the size byte, the sign bit and a mantissa of three bytes *)
(* without its top bit.                                                    *)
Compact == [size : 0 .. Bytes + 3, sign : BOOLEAN,
            word : 0 .. (ByteTo[3] \div 2) - 1]

MantissaByte(w, k) == (w \div ByteTo[k]) % Byte

(* Mutant: the guard against an overflowing mantissa is one byte too wide. *)
MutOverflows(c) == \/ c.size > Bytes + 2
                   \/ c.word >= ByteTo[2] /\ c.size > Bytes + 1

Overflows(c) == \/ c.size > Bytes + 2
                \/ c.word >= Byte /\ c.size > Bytes + 1
                \/ c.word >= ByteTo[2] /\ c.size > Bytes

(* expand_target; position k counts bytes from the least significant one.  *)
ExpandTarget(c) ==
    IF c.word = 0 \/ c.sign \/ Overflows(c) THEN Invalid
    ELSE LET word == IF c.size <= 3 THEN c.word \div ByteTo[3 - c.size]
                                    ELSE c.word
             low  == IF c.size <= 3 THEN 0 ELSE c.size - 3
         IN  [i \in 1 .. Bytes |->
                LET k == Bytes - i - low
                IN  IF k \in 0 .. 2 THEN MantissaByte(word, k) ELSE 0]

-----------------------------------------------------------------------------
(* The value compact bits denote: word * Byte^(size - 3), rounded down.    *)
Denoted(c) == IF c.size <= 3 THEN c.word \div ByteTo[3 - c.size]
                             ELSE c.word * ByteTo[c.size - 3]

(* A small size shifts the whole mantissa out: the bits denote zero.       *)
ShiftedOut(c) == c.size <= 3 /\ c.word < ByteTo[3 - c.size]

(* What expand_target does: compact bits expand to exactly the number they *)
(* denote, and are refused exactly when negative, of zero mantissa or too  *)
(* large for the width: the three overflow guards neither refuse a target  *)
(* that fits nor lose a mantissa byte at the edge of the array.  Bits      *)
(* whose nonzero mantissa is shifted out are not refused; they expand to   *)
(* the zero target, and no others do.  The comments above expand_target    *)
(* and on its first guard say of zero targets in general that they are     *)
(* refused; the code refuses only zero mantissas.                          *)
TargetExactFor(c) ==
    LET taken == c.word # 0 /\ ~c.sign /\ Denoted(c) < ByteTo[Bytes]
    IN  /\ (ExpandTarget(c) = Invalid) <=> ~taken
        /\ taken => ValueOf(ExpandTarget(c)) = Denoted(c)
        /\ taken => (ValueOf(ExpandTarget(c)) = 0 <=> ShiftedOut(c))

(* The work of a target t is floor(2^256 / (t + 1)), although 2^256 does   *)
(* not fit: the identity of block_work, its carries and its long division  *)
(* agree with exact arithmetic for every target but zero, where the work   *)
(* wraps to zero.  No nonzero target is worth nothing.                     *)
WorkExactFor(t) ==
    ValueOf(BlockWork(t)) = (ByteTo[Bytes] \div (ValueOf(t) + 1)) % ByteTo[Bytes]

(* Accumulated work is the sum, wrapping at the width, and the two         *)
(* comparisons of byte arrays are the comparisons of their numbers.        *)
SumExactFor(a, b) ==
    /\ ValueOf(AddBe(a, b)) = (ValueOf(a) + ValueOf(b)) % ByteTo[Bytes]
    /\ TargetLeq(a, b) <=> ValueOf(a) <= ValueOf(b)
    /\ Ge(a, b) <=> ValueOf(a) >= ValueOf(b)
=============================================================================
