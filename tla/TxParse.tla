------------------------------ MODULE TxParse ------------------------------
(***************************************************************************)
(* The wire parsers of crates/common: the CAuxPow payload (cauxpow.rs) and *)
(* the deposit and payout transactions (parse_deposit_outputs,             *)
(* parse_withdrawal_outputs).                                              *)
(*                                                                         *)
(* A wire is a sequence of numbers.  A field of fixed size (version,       *)
(* prevout, sequence, value, locktime, hash, header) is one of them; a     *)
(* varint is one, or the marker Wide and one more; a script is as many as  *)
(* its length says.  Every parser is a function of the wire and a position *)
(* (of the next number, from 1); position 0 is failure.                    *)
(***************************************************************************)
EXTENDS Integers, Sequences, SequencesExt

CONSTANTS
    Wide,           \* the first byte that announces a longer varint (0xfd)
    MaxValue,       \* u64::MAX, for sums of values
    MaxBranch       \* 2^20, the longest branch accepted

ASSUME WireAssumption == {Wide, MaxValue, MaxBranch} \subseteq Nat /\ Wide > 4

Failed == 0
NoTx == <<>>

(* take(n): the position after n more numbers, if there are as many.       *)
Take(w, p, n) == IF p # Failed /\ p + n <= Len(w) + 1 THEN p + n ELSE Failed

(* read_varint and Cursor::varint.                                         *)
ReadVarint(w, p) ==
    IF Take(w, p, 1) = Failed THEN [n |-> 0, p |-> Failed]
    ELSE IF w[p] < Wide THEN [n |-> w[p], p |-> p + 1]
    ELSE IF Take(w, p, 2) = Failed THEN [n |-> 0, p |-> Failed]
    ELSE [n |-> w[p + 1], p |-> p + 2]

(* write_varint: always the shortest form.                                 *)
WriteVarint(n) == IF n < Wide THEN <<n>> ELSE <<Wide, n>>

(* Read n items in turn; item maps what was read so far to what is read    *)
(* after one more.  Nothing is read past a failure.                        *)
Repeat(n, acc, item(_)) ==
    LET step[i \in 0 .. n] ==
          IF i = 0 THEN acc
          ELSE IF step[i - 1].p = Failed THEN step[i - 1] ELSE item(step[i - 1])
    IN  step[n]

(* A length and as many numbers.                                           *)
Script(w, p) == LET len == ReadVarint(w, p)
                    end == Take(w, len.p, len.n)
                IN  [script |-> IF end = Failed THEN <<>> ELSE SubSeq(w, len.p, end - 1),
                     p |-> end]

Field(w, p, n) == IF Take(w, p, n) = Failed THEN <<>> ELSE SubSeq(w, p, p + n - 1)

-----------------------------------------------------------------------------
(* Cursor::take_tx, a stage at a time: `p' is the cursor, `out' the        *)
(* transaction without its witness as far as it is built.                  *)
TakeVersion(w, start) ==
    LET first  == ReadVarint(w, Take(w, start, 1))
        segwit == first.p # Failed /\ first.n = 0
        flag   == Take(w, first.p, 1)
        nin    == IF ~segwit THEN first
                  ELSE IF flag # Failed /\ w[first.p] = 1 THEN ReadVarint(w, flag)
                  ELSE [n |-> 0, p |-> Failed]
    IN  [out |-> Field(w, start, 1) \o WriteVarint(nin.n), nin |-> nin.n,
         p |-> IF nin.n = 0 THEN Failed ELSE nin.p, segwit |-> segwit]

TakeInput(w, acc) ==
    LET s == Script(w, Take(w, acc.p, 1))
    IN  [acc EXCEPT !.out = @ \o Field(w, acc.p, 1) \o WriteVarint(Len(s.script))
                              \o s.script \o Field(w, s.p, 1),
                    !.p = Take(w, s.p, 1)]

TakeInputs(w, acc) == Repeat(acc.nin, acc, LAMBDA a : TakeInput(w, a))

TakeOutput(w, acc) ==
    LET s == Script(w, Take(w, acc.p, 1))
    IN  [acc EXCEPT !.out = @ \o Field(w, acc.p, 1) \o WriteVarint(Len(s.script))
                              \o s.script,
                    !.p = s.p]

TakeOutputs(w, acc) ==
    LET nout == ReadVarint(w, acc.p)
    IN  Repeat(nout.n, [acc EXCEPT !.out = @ \o WriteVarint(nout.n), !.p = nout.p],
               LAMBDA a : TakeOutput(w, a))

TakeItem(w, acc) == [acc EXCEPT !.p = Script(w, acc.p).p]

TakeWitness(w, acc) ==
    LET items == ReadVarint(w, acc.p)
    IN  IF items.p = Failed THEN [acc EXCEPT !.p = Failed]
        ELSE Repeat(items.n, [acc EXCEPT !.p = items.p], LAMBDA a : TakeItem(w, a))

(* Mutant: the witness stays in the bytes that are hashed.                 *)
MutStripped(w, from, acc) == [acc EXCEPT !.out = @ \o SubSeq(w, from, acc.p - 1)]

(* The witness is consumed and dropped.                                    *)
Stripped(w, from, acc) == acc

TakeWitnesses(w, acc) ==
    IF ~acc.segwit \/ acc.p = Failed THEN acc
    ELSE Stripped(w, acc.p, Repeat(acc.nin, acc, LAMBDA a : TakeWitness(w, a)))

TakeLocktime(w, acc) ==
    [tx |-> acc.out \o Field(w, acc.p, 1), p |-> Take(w, acc.p, 1)]

TakeTx(w, start) ==
    TakeLocktime(w, TakeWitnesses(w, TakeOutputs(w,
        TakeInputs(w, TakeVersion(w, start)))))

(* Cursor::branch.                                                         *)
Branch(w, p) ==
    LET len == ReadVarint(w, p)
        end == IF len.n > MaxBranch THEN Failed ELSE Take(w, len.p, len.n)
    IN  [hashes |-> IF end = Failed THEN <<>> ELSE SubSeq(w, len.p, end - 1),
         p |-> end]

(* parse_auxpow: header, coinbase, hashBlock, branch, index, branch,       *)
(* index, parent header.  What follows the parent header is not looked at. *)
ParseAuxpow(w) ==
    LET cb     == TakeTx(w, 2)
        parent == Branch(w, Take(w, cb.p, 1))
        chain  == Branch(w, Take(w, parent.p, 1))
        end    == Take(w, Take(w, chain.p, 1), 1)
    IN  IF Len(w) <= 1 \/ end = Failed THEN NoTx
        ELSE [base |-> w[1], coinbase |-> cb.tx,
              parentBranch |-> parent.hashes, parentIndex |-> w[parent.p],
              chainBranch |-> chain.hashes, chainIndex |-> w[chain.p],
              parentHeader |-> w[end - 1]]

-----------------------------------------------------------------------------
(* The scripts the bridge looks for: a P2PKH output of a key hash, and     *)
(* OP_RETURN with a recipient (bare or wrapped) or with a withdrawal id.   *)
PayTo(h) == <<1, h>>
ReturnTo(r) == <<2, r>>
ReturnToWrapped(r) == <<2, 2, r>>
ReturnId(i) == <<3, i>>
NullPrevout == 0

(* Both parsers walk the inputs alike; scripts of inputs are skipped.      *)
SkipInput(w, acc) == [p |-> Take(w, Script(w, Take(w, acc.p, 1)).p, 1)]

Inputs(w) ==
    LET nin == ReadVarint(w, Take(w, 1, 1))
    IN  [n |-> nin.n, first |-> nin.p,
         p |-> IF nin.n = 0 THEN Failed
               ELSE Repeat(nin.n, [p |-> nin.p], LAMBDA a : SkipInput(w, a)).p]

OutputItem(w, acc) ==
    LET s == Script(w, Take(w, acc.p, 1))
    IN  [p |-> s.p, outs |-> IF s.p = Failed THEN acc.outs
           ELSE Append(acc.outs, [value |-> w[acc.p], script |-> s.script])]

(* The outputs as a sequence, if they and the locktime end the wire.       *)
(* Mutant: bytes after the locktime are ignored.                           *)
MutClean(w, p) == Take(w, p, 1) # Failed

Clean(w, p) == Take(w, p, 1) = Len(w) + 1

Outputs(w, p) ==
    LET nout == ReadVarint(w, p)
        all  == Repeat(nout.n, [p |-> nout.p, outs |-> <<>>],
                       LAMBDA a : OutputItem(w, a))
    IN  IF nout.n = 0 \/ all.p = Failed \/ ~Clean(w, all.p) THEN NoTx ELSE all.outs

IsPay(o, h) == o.script = PayTo(h)
IsReturnTo(o) == \/ Len(o.script) = 2 /\ o.script[1] = 2
                 \/ Len(o.script) = 3 /\ o.script[1] = 2 /\ o.script[2] = 2
IsReturnId(o) == Len(o.script) = 2 /\ o.script[1] = 3

(* The values paid to a key hash, added up as the outputs are walked.      *)
Paid(outs, h) ==
    LET sum[i \in 0 .. Len(outs)] ==
          IF i = 0 THEN 0
          ELSE IF IsPay(outs[i], h) THEN sum[i - 1] + outs[i].value ELSE sum[i - 1]
    IN  sum[Len(outs)]

ParseDepositOutputs(w, custody) ==
    LET ins  == Inputs(w)
        outs == IF ins.p = Failed \/ (ins.n = 1 /\ w[ins.first] = NullPrevout)
                  THEN NoTx ELSE Outputs(w, ins.p)
        paid == Paid(outs, custody)
        to   == {i \in DOMAIN outs : ~IsPay(outs[i], custody) /\ IsReturnTo(outs[i])}
    IN  IF outs = NoTx \/ paid = 0 \/ paid > MaxValue \/ to = {} THEN NoTx
        ELSE <<paid, Last(outs[Min(to)].script)>>

ParseWithdrawalOutputs(w, recipient) ==
    LET ins  == Inputs(w)
        outs == IF ins.p = Failed THEN NoTx ELSE Outputs(w, ins.p)
        pays == {i \in DOMAIN outs : IsPay(outs[i], recipient)}
        ids  == {i \in DOMAIN outs : IsReturnId(outs[i])}
    IN  IF outs = NoTx \/ pays = {} \/ ids = {} THEN NoTx
        ELSE <<outs[Min(pays)].value, Last(outs[Min(ids)].script)>>

-----------------------------------------------------------------------------
(* What the parsers are checked against: transactions as records, written  *)
(* out with short or long varints, with or without a witness.              *)
Enc(n, wide) == IF wide THEN <<Wide, n>> ELSE WriteVarint(n)
EncScript(s, wide) == Enc(Len(s), wide) \o s

InputBytes(in, wide) == <<in.prev>> \o EncScript(in.script, wide) \o <<4>>
OutputBytes(o, wide) == <<o.value>> \o EncScript(o.script, wide)
WitnessBytes(items, wide) ==
    Enc(Len(items), wide)
      \o FlattenSeq([j \in DOMAIN items |-> EncScript(items[j], wide)])

Body(tx, wide) ==
    Enc(Len(tx.ins), wide)
      \o FlattenSeq([i \in DOMAIN tx.ins |-> InputBytes(tx.ins[i], wide)])
      \o Enc(Len(tx.outs), wide)
      \o FlattenSeq([i \in DOMAIN tx.outs |-> OutputBytes(tx.outs[i], wide)])

Legacy(tx, wide) == <<4>> \o Body(tx, wide) \o <<4>>

Segwit(tx, wide, items) ==
    <<4, 0, 1>> \o Body(tx, wide)
      \o FlattenSeq([i \in DOMAIN tx.ins |-> WitnessBytes(items, wide)])
      \o <<4>>

(* The coinbase of a CAuxPow hashes to the id its parent block commits to: *)
(* with a witness or without, with short varints or long ones, the parser  *)
(* yields the one legacy form, and finds the fields behind it at their     *)
(* places; with any part of the payload missing it fails.                  *)
AuxpowExactFor(tx, items, wide, parent, chain) ==
    \A cb \in {Legacy(tx, wide), Segwit(tx, wide, items)} :
        LET w == <<4>> \o cb \o <<4>> \o EncScript(parent, wide) \o <<0>>
                   \o EncScript(chain, wide) \o <<3, 4>>
        IN  IF Len(parent) > MaxBranch \/ Len(chain) > MaxBranch
              THEN ParseAuxpow(w) = NoTx
              ELSE /\ ParseAuxpow(w) =
                        [base |-> 4, coinbase |-> Legacy(tx, FALSE),
                         parentBranch |-> parent, parentIndex |-> 0,
                         chainBranch |-> chain, chainIndex |-> 3,
                         parentHeader |-> 4]
                   /\ \A n \in 0 .. Len(w) - 1 :
                        ParseAuxpow(SubSeq(w, 1, n)) = NoTx

(* A deposit is worth exactly the sum of what its outputs pay to custody,  *)
(* and goes to its first OP_RETURN; a payout likewise.  Scripts of inputs, *)
(* however much they look like outputs, change nothing; a coinbase, a      *)
(* truncated transaction, one with more bytes or with a witness is no      *)
(* deposit.                                                                *)
PaymentsExactFor(tx, wide, h) ==
    LET w     == Legacy(tx, wide)
        pays  == {i \in DOMAIN tx.outs : tx.outs[i].script = PayTo(h)}
        paid  == MapThenSumSet(LAMBDA i : tx.outs[i].value, pays)
        tos   == {i \in DOMAIN tx.outs : \E r \in ToSet(tx.outs[i].script) :
                      tx.outs[i].script \in {ReturnTo(r), ReturnToWrapped(r)}}
        ids   == {i \in DOMAIN tx.outs : \E r \in ToSet(tx.outs[i].script) :
                      tx.outs[i].script = ReturnId(r)}
        generated == Len(tx.ins) = 1 /\ tx.ins[1].prev = NullPrevout
    IN  /\ ParseDepositOutputs(w, h) =
             IF generated \/ paid = 0 \/ paid > MaxValue \/ tos = {} THEN NoTx
             ELSE <<paid, Last(tx.outs[Min(tos)].script)>>
        /\ ParseWithdrawalOutputs(w, h) =
             IF pays = {} \/ ids = {} THEN NoTx
             ELSE <<tx.outs[Min(pays)].value, Last(tx.outs[Min(ids)].script)>>
        /\ \A bad \in {SubSeq(w, 1, n) : n \in 0 .. Len(w) - 1}
                     \cup {Append(w, 4), Segwit(tx, wide, <<>>)} :
             /\ ParseDepositOutputs(bad, h) = NoTx
             /\ ParseWithdrawalOutputs(bad, h) = NoTx
=============================================================================
