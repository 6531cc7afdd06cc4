---------------------------- MODULE ProofWindow ----------------------------
(***************************************************************************)
(* build_proof_input of crates/chain-rpc: the witness of a deposit (or of  *)
(* a payout, build_withdrawal_proof_input) is put together from a dozen    *)
(* requests to an explorer whose node may switch branches between any two  *)
(* of them.  verify_psob_chain and fold_merkle of the verifying side       *)
(* decide whether the witness is accepted.                                 *)
(*                                                                         *)
(* A block is the sequence of choices that leads to it from genesis: its   *)
(* hash stands for its whole past.  Its last choice says what it contains: *)
(* "deposit" (the transaction), "bare" (no AuxPoW witness), or one of two  *)
(* other contents.                                                         *)
(***************************************************************************)
EXTENDS Integers, Sequences, SequencesExt

CONSTANTS
    MaxHeight,      \* bound: the longest branch
    MaxReorgs,      \* bound: how often the node changes its chain
    Checkpoint,     \* cp.checkpoint_hash
    MaxConf         \* bound: cp.min_confirmations

Choice == {"plain", "other", "deposit", "bare"}

(* A transaction is mined at most once on a branch.                        *)
Branches == {b \in UNION {[1 .. n -> Choice] : n \in 1 .. MaxHeight} :
               \A i, j \in DOMAIN b : b[i] = "deposit" /\ b[j] = "deposit" => i = j}

ASSUME WindowAssumption ==
    /\ MaxHeight \in Nat /\ MaxReorgs \in Nat /\ MaxConf \in Nat
    /\ Checkpoint \in Branches

VARIABLES
    main,       \* the node's best chain, named by its tip
    reorgs,     \* how often it changed since the start
    step,       \* where build_proof_input is
    conf,       \* cp.min_confirmations
    dep,        \* mp.block_height
    home,       \* the block whose merkle root mp.merkle folds to
    fetched,    \* the hash block_hash_at returned
    headers     \* the headers so far

windowVars == <<main, reorgs, step, conf, dep, home, fetched, headers>>

CheckpointHeight == Len(Checkpoint)
BlockAtHeight(h) == SubSeq(main, 1, h)
DepositHeights(b) == {h \in DOMAIN b : b[h] = "deposit"}

WindowInit ==
    /\ main \in Branches /\ reorgs = 0
    /\ step = "merkle" /\ conf \in 0 .. MaxConf
    /\ dep = 0 /\ home = <<>> /\ fetched = <<>> /\ headers = <<>>

-----------------------------------------------------------------------------
Fail == /\ step' = "failed"
        /\ UNCHANGED <<main, reorgs, conf, dep, home, fetched, headers>>

(* Any request may fail, and so does one about a block or transaction the  *)
(* node's chain does not hold.                                             *)
RequestFails == step \notin {"built", "failed"} /\ Fail

(* /tx/:txid/merkle-proof, and the guard on the height.                    *)
MerkleProof ==
    /\ step = "merkle"
    /\ \E h \in DepositHeights(main) :
         IF h <= CheckpointHeight THEN Fail
         ELSE /\ dep' = h /\ home' = BlockAtHeight(h) /\ step' = "tip"
              /\ UNCHANGED <<main, reorgs, conf, fetched, headers>>

Confirmations == IF conf = 0 THEN 1 ELSE conf

(* Mutant: one header too few is asked for.                                *)
MutEndHeight == dep + conf - 1

EndHeight == dep + Confirmations - 1

(* /blocks/tip/height: every block of the window must exist by now.        *)
TipHeight ==
    /\ step = "tip"
    /\ IF Len(main) < EndHeight THEN Fail
       ELSE /\ step' = "hash"
            /\ UNCHANGED <<main, reorgs, conf, dep, home, fetched, headers>>

(* block_hash_at for the next height of the window.                        *)
NextHeader == CheckpointHeight + 1 + Len(headers)

BlockHashAt ==
    /\ step = "hash" /\ NextHeader <= EndHeight /\ NextHeader <= Len(main)
    /\ fetched' = BlockAtHeight(NextHeader) /\ step' = "header"
    /\ UNCHANGED <<main, reorgs, conf, dep, home, headers>>

(* jkc_header_with_auxpow: no fallback to the bare header.                 *)
JkcHeaderWithAuxpow ==
    /\ step = "header"
    /\ IF Last(fetched) = "bare" THEN Fail
       ELSE /\ headers' = Append(headers, fetched) /\ step' = "hash"
            /\ UNCHANGED <<main, reorgs, conf, dep, home, fetched>>

HeadersDone ==
    /\ step = "hash" /\ NextHeader > EndHeight
    /\ step' = "tx"
    /\ UNCHANGED <<main, reorgs, conf, dep, home, fetched, headers>>

(* /tx/:txid/hex, then the ProofInput is complete.                         *)
TxBytes ==
    /\ step = "tx" /\ DepositHeights(main) # {}
    /\ step' = "built"
    /\ UNCHANGED <<main, reorgs, conf, dep, home, fetched, headers>>

(* The node's chain grows or is replaced by one at least as long.          *)
NodeMoves ==
    /\ reorgs < MaxReorgs /\ step # "failed"
    /\ \E b \in Branches \ {main} : Len(b) >= Len(main) /\ main' = b
    /\ reorgs' = reorgs + 1
    /\ UNCHANGED <<step, conf, dep, home, fetched, headers>>

WindowNext ==
    \/ RequestFails \/ MerkleProof \/ TipHeight \/ BlockHashAt
    \/ JkcHeaderWithAuxpow \/ HeadersDone \/ TxBytes \/ NodeMoves

-----------------------------------------------------------------------------
DepositHeaderIndex == dep - CheckpointHeight

(* Mutant: only the first header is linked, to the checkpoint.             *)
MutLinked(hs) == Front(hs[1]) = Checkpoint

Linked(hs) == \A i \in DOMAIN hs :
    Front(hs[i]) = IF i = 1 THEN Checkpoint ELSE hs[i - 1]

(* verify_psob_chain; the other checks on a header are PsobHeaderHolds of  *)
(* AuxPowVerify and hold for every block a node serves with a witness.     *)
VerifyPsobChain(hs) == hs # <<>> /\ Linked(hs)

(* fold_merkle: the path leads to the root of the block it was made for.   *)
FoldMerkle(root) == root = home

Accepted == /\ step = "built"
            /\ VerifyPsobChain(headers)
            /\ DepositHeaderIndex \in DOMAIN headers
            /\ FoldMerkle(headers[DepositHeaderIndex])

(* A witness pieced together across a reorg of the node never passes: an   *)
(* accepted one lies on one branch from the checkpoint, holds the deposit  *)
(* in the block its index names, and buries it under as many headers as    *)
(* asked for, the deposit's own block included, and at least one.          *)
AcceptedIsOneBranch ==
    Accepted =>
        LET tip == Last(headers)
        IN  /\ \A i \in DOMAIN headers :
                 headers[i] = SubSeq(tip, 1, CheckpointHeight + i)
            /\ IsPrefix(Checkpoint, tip)
            /\ DepositHeights(tip) = {dep} /\ home = SubSeq(tip, 1, dep)
            /\ Len(tip) - dep + 1 >= conf
            /\ dep \in CheckpointHeight + 1 .. Len(tip)

(* While the node stays on a chain through the checkpoint, what is built   *)
(* is accepted: the guards on height and tip, the window's ends and the    *)
(* index agree, for zero confirmations as well.                            *)
QuietBuildAccepted ==
    step = "built" /\ reorgs = 0 /\ IsPrefix(Checkpoint, main) => Accepted
=============================================================================
