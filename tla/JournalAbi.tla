----------------------------- MODULE JournalAbi -----------------------------
(***************************************************************************)
(* The journals a guest commits (crates/common): Journal writes its fields *)
(* at literal offsets, WithdrawalJournal appends words, and both are read  *)
(* back at literal offsets.  The sizes are those of abi_encode and         *)
(* abi_decode, 11 and 8 words.  The docs of the structs speak of 13 and 10 *)
(* words, and the layout comment of Journal lists ltcCheckpointHash and    *)
(* ltcTipHash behind chainId; neither struct has such fields.  The         *)
(* contract that decodes the journals is not in the repository.            *)
(* A byte is <<f, i>>, byte i of field f, or Pad.                          *)
(***************************************************************************)
EXTENDS Integers, Sequences, SequencesExt

Pad == <<>>
WordLen == 32

(* Fields and their widths in bytes.                                       *)
JournalWidth ==
    [deposit_block_hash |-> 32, deposit_txid |-> 32, amount_sats |-> 8,
     recipient |-> 20, confirmations |-> 4, checkpoint_hash |-> 32,
     pow_limit_bits |-> 4, proven_work |-> 32, custody_hash160 |-> 20,
     custody_epoch |-> 8, chain_id |-> 4]
WithdrawalWidth ==
    [withdrawal_id |-> 32, recipient_hash160 |-> 20, payout_sats |-> 8,
     checkpoint_hash |-> 32, confirmations |-> 4, pow_limit_bits |-> 4,
     proven_work |-> 32, chain_id |-> 4]

BytesOf(width, f) == [i \in 1 .. width[f] |-> <<f, i>>]
Pads(n) == [i \in 1 .. n |-> Pad]

(* Journal::abi_encode: a zeroed array, and where each field is copied to. *)
JournalSize == 352

(* Mutant: the custody hash is aligned like an address.                    *)
MutJournalAt ==
    [deposit_block_hash |-> 0, deposit_txid |-> 32, amount_sats |-> 88,
     recipient |-> 108, confirmations |-> 156, checkpoint_hash |-> 160,
     pow_limit_bits |-> 220, proven_work |-> 224, custody_hash160 |-> 268,
     custody_epoch |-> 312, chain_id |-> 348]

JournalAt ==
    [deposit_block_hash |-> 0, deposit_txid |-> 32, amount_sats |-> 88,
     recipient |-> 108, confirmations |-> 156, checkpoint_hash |-> 160,
     pow_limit_bits |-> 220, proven_work |-> 224, custody_hash160 |-> 256,
     custody_epoch |-> 312, chain_id |-> 348]

JournalEncode ==
    [b \in 1 .. JournalSize |->
       LET here == {f \in DOMAIN JournalAt :
                      b - JournalAt[f] \in 1 .. JournalWidth[f]}
       IN  IF here = {} THEN Pad
           ELSE LET f == CHOOSE x \in here : TRUE IN <<f, b - JournalAt[f]>>]

(* Journal::abi_decode reads each field at an offset of its own.           *)
JournalFrom ==
    [deposit_block_hash |-> 0, deposit_txid |-> 32, amount_sats |-> 88,
     recipient |-> 108, confirmations |-> 156, checkpoint_hash |-> 160,
     pow_limit_bits |-> 220, proven_work |-> 224, custody_hash160 |-> 256,
     custody_epoch |-> 312, chain_id |-> 348]

(* word_from_be                                                            *)
WordFromBe(bytes) == Pads(WordLen - Len(bytes)) \o bytes

(* WithdrawalJournal::abi_encode                                           *)
WithdrawalEncode ==
    LET bytes(f) == BytesOf(WithdrawalWidth, f)
    IN  bytes("withdrawal_id") \o bytes("recipient_hash160") \o Pads(12)
          \o WordFromBe(bytes("payout_sats")) \o bytes("checkpoint_hash")
          \o WordFromBe(bytes("confirmations")) \o WordFromBe(bytes("pow_limit_bits"))
          \o bytes("proven_work") \o WordFromBe(bytes("chain_id"))

(* WithdrawalJournal::abi_decode                                           *)
WithdrawalFrom ==
    [withdrawal_id |-> 0, recipient_hash160 |-> 32, payout_sats |-> 88,
     checkpoint_hash |-> 96, confirmations |-> 156, pow_limit_bits |-> 188,
     proven_work |-> 192, chain_id |-> 252]
WithdrawalSize == 256

-----------------------------------------------------------------------------
(* A byte array is a journal whose fields are read back as written: every  *)
(* field is found at its decoder's offset, lies within one 32-byte word,   *)
(* shares it with no other field, and is right-aligned unless it is a      *)
(* hash160, which the encoders put on the left.                            *)
ReadsBack(data, size, from, width, left) ==
    /\ Len(data) = size
    /\ \A f \in DOMAIN width :
         LET start == from[f]
             word  == start \div WordLen
         IN  /\ SubSeq(data, start + 1, start + width[f]) = BytesOf(width, f)
             /\ \A b \in word * WordLen + 1 .. (word + 1) * WordLen :
                  data[b] = Pad <=> b \notin start + 1 .. start + width[f]
             /\ start = IF f \in left THEN word * WordLen
                        ELSE (word + 1) * WordLen - width[f]

(* Encoder and decoder of both journals agree.                             *)
JournalsReadBack ==
    /\ ReadsBack(JournalEncode, JournalSize, JournalFrom, JournalWidth,
                 {"custody_hash160"})
    /\ ReadsBack(WithdrawalEncode, WithdrawalSize, WithdrawalFrom,
                 WithdrawalWidth, {"recipient_hash160"})
=============================================================================
