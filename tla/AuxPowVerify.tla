---------------------------- MODULE AuxPowVerify ----------------------------
(***************************************************************************)
(* The merged-mining checks: verify_auxpow_commitment of crates/common,    *)
(* which the guest runs, and the step-by-step report and fast path of      *)
(* src/verify.rs, which the indexer runs.  Hashes are terms, so that two   *)
(* hashes are equal exactly when what they hash is equal.                  *)
(***************************************************************************)
EXTENDS CompactTarget, FiniteSets

CONSTANTS
    LtcChainId,     \* LTC_CHAIN_ID
    WordBits,       \* 32 in the code
    MaxDepth,       \* 30 in the code
    PowLimit        \* pow_limit_bits

ASSUME AuxAssumption ==
    /\ LtcChainId \in Nat /\ WordBits \in Nat /\ MaxDepth \in 0 .. WordBits
    /\ PowLimit \in Compact

(* sha256d of a header, of a coinbase and of a pair of hashes.             *)
BlockHash(base) == <<"block", base>>
TxId(tx) == <<"tx", tx>>
Node(l, r) == <<"node", l, r>>

(* The pieces of a coinbase the verifiers look at: the magic, the 32 bytes *)
(* of a reversed hash, and 4-byte words.                                   *)
Magic == <<"magic">>
Reversed(h) == <<"root", h>>
Word(n) == <<"word", n>>

-----------------------------------------------------------------------------
(* merkle_fold_branch: a bit of the index picks the side at each level.    *)
OnTheLeft(index, k) == (index \div 2 ^ (k - 1)) % 2 = 0

Folded(leaf, branch, index) ==
    LET fold[k \in 0 .. Len(branch)] ==
          IF k = 0 THEN leaf
          ELSE IF OnTheLeft(index, k) THEN Node(fold[k - 1], branch[k])
          ELSE Node(branch[k], fold[k - 1])
    IN  fold

MerkleFoldBranch(leaf, branch, index) == Folded(leaf, branch, index)[Len(branch)]

(* 1 << n, up to the width of a word.                                      *)
Pow2 == Powers(2, WordBits)

(* get_expected_index: two rounds of the LCG modulo 2^WordBits, then the   *)
(* remainder at the width of the tree.                                     *)
Wrap(n) == n % Pow2[WordBits]
Multiplier == 1103515245
Increment == 12345
Lcg(n) == Wrap(n * Wrap(Multiplier) + Wrap(Increment))

(* Mutant: the chain id does not enter the slot.                           *)
MutGetExpectedIndex(nonce, chain, height) == Lcg(Lcg(nonce)) % Pow2[height]

GetExpectedIndex(nonce, chain, height) ==
    Lcg(Wrap(Lcg(nonce) + chain)) % Pow2[height]

(* parent_chain_id needs four bytes of the header, parent_merkle_root all. *)
NoChain == -1
NoRoot == <<>>
ParentChainId(aux) ==
    IF aux.parent.bytes < 4 THEN NoChain ELSE aux.parent.chain
ParentMerkleRoot(aux) ==
    IF aux.parent.bytes < 80 THEN NoRoot ELSE aux.parent.root

CoinbaseIncluded(aux) ==
    /\ ParentMerkleRoot(aux) # NoRoot
    /\ ParentMerkleRoot(aux) =
         MerkleFoldBranch(TxId(aux.coinbase), aux.parentBranch, aux.parentIndex)

(* The commitment in the coinbase: what follows its only magic.            *)
Magics(coinbase) == {i \in DOMAIN coinbase : coinbase[i] = Magic}
OneMagic(coinbase) == Cardinality(Magics(coinbase)) = 1
MagicAt(coinbase) == CHOOSE i \in Magics(coinbase) : TRUE
Whole(coinbase) == MagicAt(coinbase) + 3 <= Len(coinbase)
After(coinbase, k) == coinbase[MagicAt(coinbase) + k]

Commits(aux, hash) ==
    After(aux.coinbase, 1)
      = Reversed(MerkleFoldBranch(hash, aux.chainBranch, aux.chainIndex))

(* Mutant: the size after the root is not compared.                        *)
MutSizeHolds(aux) == TRUE

SizeHolds(aux) == After(aux.coinbase, 2) = Word(Pow2[Len(aux.chainBranch)])

SlotHolds(aux, chain) ==
    aux.chainIndex =
        GetExpectedIndex(After(aux.coinbase, 3)[2], chain, Len(aux.chainBranch))

(* verify_auxpow_commitment.                                               *)
VerifyAuxpowCommitment(hash, aux, chain) ==
    /\ aux.parentIndex = 0
    /\ ParentChainId(aux) \notin {NoChain, chain}
    /\ ParentChainId(aux) = LtcChainId
    /\ CoinbaseIncluded(aux)
    /\ Len(aux.chainBranch) <= MaxDepth
    /\ OneMagic(aux.coinbase) /\ Whole(aux.coinbase)
    /\ Commits(aux, hash) /\ SizeHolds(aux) /\ SlotHolds(aux, chain)

-----------------------------------------------------------------------------
(* src/verify.rs.  A base header is a record of its length and fields.     *)
CheckHeaderFormat(base, chain) ==
    /\ base.bytes = 80
    /\ base.chain = chain
    /\ ExpandTarget(base.bits) # Invalid /\ ExpandTarget(PowLimit) # Invalid
    /\ TargetLeq(ExpandTarget(base.bits), ExpandTarget(PowLimit))

(* Mutant: the pin to Litecoin is missing, as before it was introduced.    *)
MutVerifyProof1(aux, chain) ==
    /\ aux.parentIndex = 0
    /\ ParentChainId(aux) \notin {NoChain, chain}
    /\ CoinbaseIncluded(aux)

VerifyProof1(aux, chain) ==
    /\ aux.parentIndex = 0
    /\ ParentChainId(aux) \notin {NoChain, chain}
    /\ ParentChainId(aux) = LtcChainId
    /\ CoinbaseIncluded(aux)

(* verify_proof2: an early return fails both of its steps.                 *)
VerifyProof2(hash, aux, chain) ==
    LET committed == /\ Len(aux.chainBranch) <= MaxDepth
                     /\ OneMagic(aux.coinbase) /\ Whole(aux.coinbase)
                     /\ Commits(aux, hash)
    IN  [proof2 |-> committed,
         antiGrind |-> committed /\ SizeHolds(aux) /\ SlotHolds(aux, chain)]

(* verify_aux_header: a bad format leaves the other steps marked ok.       *)
VerifyAuxHeader(base, aux, chain) ==
    IF ~CheckHeaderFormat(base, chain)
      THEN [valid |-> FALSE, format |-> FALSE, proof1 |-> TRUE,
            proof2 |-> TRUE, antiGrind |-> TRUE]
      ELSE LET p1  == VerifyProof1(aux, chain)
               out == VerifyProof2(BlockHash(base), aux, chain)
           IN  [valid |-> p1 /\ out.proof2 /\ out.antiGrind, format |-> TRUE,
                proof1 |-> p1, proof2 |-> out.proof2,
                antiGrind |-> out.antiGrind]

(* light_verify: the first failed step, or the block hash.                 *)
LightVerify(base, aux, chain) ==
    LET out == VerifyProof2(BlockHash(base), aux, chain)
    IN  CASE ~CheckHeaderFormat(base, chain) -> <<"err", "format">>
          [] ~VerifyProof1(aux, chain) -> <<"err", "proof1">>
          [] ~out.proof2 -> <<"err", "proof2">>
          [] ~out.antiGrind -> <<"err", "anti_grind">>
          [] OTHER -> BlockHash(base)

(* The header checks of verify_psob_chain, link excepted.                  *)
PsobHeaderHolds(base, aux, chain) ==
    /\ CheckHeaderFormat(base, chain)
    /\ VerifyAuxpowCommitment(BlockHash(base), aux, chain)
    /\ aux.parent.bytes = 80

-----------------------------------------------------------------------------
(* The three verifiers accept the same headers: the indexer never stores   *)
(* (light_verify) or reports as valid (verify_aux_header) a header that    *)
(* the guest (verify_psob_chain) rejects, nor the other way round, though  *)
(* the checks were written three times, in different orders.               *)
VerifiersAgreeOn(base, aux, chain) ==
    LET light == LightVerify(base, aux, chain)[1] = "block"
    IN  /\ light <=> PsobHeaderHolds(base, aux, chain)
        /\ light <=> VerifyAuxHeader(base, aux, chain).valid

(* Anti-grind: one parent block commits at most one block of a chain.  Two *)
(* witnesses of one coinbase that both verify for a chain name the same    *)
(* block hash, whatever branches and indexes they claim.                   *)
OneBlockPerParentIn(claims, chain) ==
    \A c, d \in claims :
        /\ c.aux.coinbase = d.aux.coinbase
        /\ VerifyAuxpowCommitment(c.hash, c.aux, chain)
        /\ VerifyAuxpowCommitment(d.hash, d.aux, chain)
        => c.hash = d.hash

(* Two chains get the same slot of a tree of height h, whatever the nonce, *)
(* exactly when their ids agree modulo 2^h; and for one chain the nonces   *)
(* reach every slot.  So a tree wide enough to tell the ids apart holds    *)
(* all chains, and a miner can place a chain anywhere but only once.       *)
SlotsTellApart(h, c, d) ==
    /\ \A n \in 0 .. Pow2[WordBits] - 1 :
         (GetExpectedIndex(n, c, h) = GetExpectedIndex(n, d, h))
            <=> (c % Pow2[h] = d % Pow2[h])
    /\ {GetExpectedIndex(n, c, h) : n \in 0 .. Pow2[h] - 1} = 0 .. Pow2[h] - 1
=============================================================================
