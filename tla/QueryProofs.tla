---------------------------- MODULE QueryProofs ----------------------------
(***************************************************************************)
(* Proofs about what is put together from several requests: the two        *)
(* sequences of requests of the bridge client (what build_proof_input      *)
(* gathers while the node may switch branches, what find_payouts reports   *)
(* while transactions arrive), and the read side of the server (the pages  *)
(* of a list partition it, and the endpoints tell one story of a store),   *)
(* for chains, histories, pages and stores of any size.                    *)
(***************************************************************************)
EXTENDS AlgorithmProofs, FiniteSetTheorems

(* ProofWindow *)

\* A branch is a sequence of choices with at most one deposit.
LEMMA BranchShape ==
  ASSUME NEW b \in Branches
  PROVE  /\ b \in Seq(Choice) /\ Len(b) \in 1 .. MaxHeight /\ DOMAIN b = 1 .. Len(b)
         /\ \A i, j \in 1 .. Len(b) : b[i] = "deposit" /\ b[j] = "deposit" => i = j
  <1>1. PICK n \in 1 .. MaxHeight : b \in [1 .. n -> Choice]
    BY DEF Branches
  <1>2. n \in Nat /\ b \in Seq(Choice)
    BY <1>1, WindowAssumption, SeqDef
  <1>3. Len(b) = n /\ DOMAIN b = 1 .. n
    BY <1>1, <1>2, LenProperties
  <1> QED BY <1>2, <1>3 DEF Branches

\* What a prefix of a branch is: the block the branch has at a height.
LEMMA BlockOfBranch ==
  ASSUME NEW b \in Branches, NEW h \in 1 .. Len(b)
  PROVE  SubSeq(b, 1, h) \in Branches
  <1> DEFINE p == SubSeq(b, 1, h)
  <1>1. /\ b \in Seq(Choice) /\ Len(b) \in 1 .. MaxHeight
        /\ \A i, j \in 1 .. Len(b) : b[i] = "deposit" /\ b[j] = "deposit" => i = j
    BY BranchShape
  <1>2. h \in 0 .. Len(b) /\ h \in 1 .. MaxHeight
    BY <1>1, WindowAssumption
  <1>3. p \in Seq(Choice) /\ Len(p) = h /\ \A i \in 1 .. h : p[i] = b[i]
    BY <1>1, <1>2, PrefixOf
  <1> HIDE DEF p
  <1>4. p \in [1 .. h -> Choice] /\ DOMAIN p = 1 .. h
    BY <1>3, LenProperties
  <1>5. \A i, j \in DOMAIN p : p[i] = "deposit" /\ p[j] = "deposit" => i = j
    BY <1>1, <1>3, <1>4
  <1>6. p \in UNION {[1 .. n -> Choice] : n \in 1 .. MaxHeight}
    BY <1>2, <1>4
  <1> QED BY <1>5, <1>6 DEF Branches, p

WindowTypes ==
    /\ main \in Branches /\ reorgs \in Nat /\ conf \in Nat /\ dep \in Nat
    /\ step \in {"merkle", "tip", "hash", "header", "tx", "built", "failed"}
    /\ headers \in Seq(Branches)
    /\ \A i \in 1 .. Len(headers) : Len(headers[i]) = CheckpointHeight + i

\* Past the first request the path is that of a block with the deposit.
Placed == step \notin {"merkle", "failed"} =>
    /\ home \in Branches /\ Len(home) = dep /\ home[dep] = "deposit"
    /\ dep > CheckpointHeight

Fetching == step = "header" => fetched \in Branches /\ Len(fetched) = NextHeader

AllFetched == step \in {"tx", "built"} => NextHeader > EndHeight

\* Headers that are linked lie on the branch of the last one.
Chained == headers # <<>> /\ Linked(headers) =>
    /\ \A i \in 1 .. Len(headers) :
         headers[i] = SubSeq(headers[Len(headers)], 1, CheckpointHeight + i)
    /\ SubSeq(headers[Len(headers)], 1, CheckpointHeight) = Checkpoint

\* Before the node moves, everything fetched is of its chain.
Quiet == reorgs = 0 =>
    /\ \A i \in 1 .. Len(headers) : /\ headers[i] = BlockAtHeight(CheckpointHeight + i)
                                    /\ CheckpointHeight + i <= Len(main)
    /\ step \notin {"merkle", "failed"} => home = BlockAtHeight(dep) /\ dep <= Len(main)
    /\ step = "header" => /\ fetched = BlockAtHeight(NextHeader)
                          /\ NextHeader <= Len(main)

WindowInv == WindowTypes /\ Placed /\ Fetching /\ AllFetched /\ Chained /\ Quiet

LEMMA CheckpointShape ==
  Checkpoint \in Seq(Choice) /\ CheckpointHeight \in Nat /\ CheckpointHeight > 0
  BY WindowAssumption, BranchShape DEF CheckpointHeight

LEMMA WindowStart == WindowInit => WindowInv
  <1> SUFFICES ASSUME WindowInit PROVE WindowInv
    OBVIOUS
  <1>1. headers \in Seq(Branches) /\ Len(headers) = 0 /\ headers = <<>>
    BY DEF WindowInit
  <1>2. WindowTypes
    BY <1>1, WindowAssumption DEF WindowInit, WindowTypes
  <1>3. Placed /\ Fetching /\ AllFetched /\ Chained
    BY <1>1 DEF WindowInit, Placed, Fetching, AllFetched, Chained
  <1>4. Quiet
    BY <1>1 DEF WindowInit, Quiet
  <1> QED BY <1>2, <1>3, <1>4 DEF WindowInv

\* A request that fails, and the node that moves, leave the witness alone.
LEMMA WindowRests ==
  ASSUME WindowInv, UNCHANGED <<conf, dep, home, fetched, headers>>,
         main' \in Branches,
         step' = "failed" \/ step' = step,
         \/ reorgs' = reorgs /\ main' = main
         \/ reorgs' \in Nat /\ reorgs' # 0
  PROVE  WindowInv'
  <1>1. WindowTypes'
    BY DEF WindowInv, WindowTypes
  <1>2. Placed'
    BY DEF WindowInv, Placed
  <1>3. Fetching'
    BY DEF WindowInv, Fetching, NextHeader
  <1>4. AllFetched'
    BY DEF WindowInv, AllFetched, NextHeader, EndHeight, Confirmations
  <1>5. Chained'
    BY DEF WindowInv, Chained, Linked
  <1>6. Quiet'
    BY DEF WindowInv, Quiet, NextHeader, BlockAtHeight
  <1> QED BY <1>1, <1>2, <1>3, <1>4, <1>5, <1>6 DEF WindowInv

LEMMA WindowMerkle ==
  ASSUME WindowInv, MerkleProof
  PROVE  WindowInv'
  <1>1. PICK h \in DepositHeights(main) :
           IF h <= CheckpointHeight THEN Fail
           ELSE /\ dep' = h /\ home' = BlockAtHeight(h) /\ step' = "tip"
                /\ UNCHANGED <<main, reorgs, conf, fetched, headers>>
    BY DEF MerkleProof
  <1>2. CASE h <= CheckpointHeight
    BY <1>1, <1>2, WindowRests DEF Fail, WindowInv, WindowTypes
  <1>3. CASE ~(h <= CheckpointHeight)
    <2>1. /\ main \in Branches /\ step = "merkle" /\ step' = "tip"
          /\ UNCHANGED <<main, reorgs, conf, fetched, headers>>
      BY <1>1, <1>3 DEF WindowInv, WindowTypes, MerkleProof
    <2>2. main \in Seq(Choice) /\ h \in 1 .. Len(main) /\ main[h] = "deposit"
          /\ Len(main) \in Nat
      BY <2>1, BranchShape DEF DepositHeights
    <2>3. home' = SubSeq(main, 1, h) /\ dep' = h
      BY <1>1, <1>3 DEF BlockAtHeight
    <2>4. /\ home' \in Branches /\ Len(home') = h
          /\ \A i \in 1 .. h : home'[i] = main[i]
      <3>1. h \in 0 .. Len(main)
        BY <2>2
      <3> QED BY <2>1, <2>2, <2>3, <3>1, BlockOfBranch, PrefixOf
    <2>5. WindowTypes'
      BY <2>1, <2>2, <2>3 DEF WindowInv, WindowTypes
    <2>6. Placed'
      BY <1>3, <2>2, <2>3, <2>4, CheckpointShape DEF Placed
    <2>7. Fetching' /\ AllFetched'
      BY <2>1 DEF Fetching, AllFetched
    <2>8. Chained'
      BY <2>1 DEF WindowInv, Chained, Linked
    <2>9. Quiet'
      BY <2>1, <2>2, <2>3 DEF WindowInv, Quiet, BlockAtHeight
    <2> QED BY <2>5, <2>6, <2>7, <2>8, <2>9 DEF WindowInv
  <1> QED BY <1>2, <1>3

LEMMA WindowTip ==
  ASSUME WindowInv, TipHeight \/ HeadersDone \/ TxBytes
  PROVE  WindowInv'
  <1>1. CASE step' = "failed"
    BY <1>1, WindowRests DEF TipHeight, HeadersDone, TxBytes, Fail, WindowInv, WindowTypes
  <1>2. CASE step' # "failed"
    <2>1. /\ UNCHANGED <<main, reorgs, conf, dep, home, fetched, headers>>
          /\ \/ step = "tip" /\ step' = "hash"
             \/ step = "hash" /\ step' = "tx" /\ NextHeader > EndHeight
             \/ step = "tx" /\ step' = "built"
      BY <1>2 DEF TipHeight, HeadersDone, TxBytes, Fail
    <2>2. WindowTypes'
      BY <2>1 DEF WindowInv, WindowTypes
    <2>3. Placed'
      BY <2>1 DEF WindowInv, Placed
    <2>4. Fetching'
      BY <2>1 DEF Fetching
    <2>5. AllFetched'
      BY <2>1 DEF WindowInv, AllFetched, NextHeader, EndHeight, Confirmations
    <2>6. Chained'
      BY <2>1 DEF WindowInv, Chained, Linked
    <2>7. Quiet'
      BY <2>1 DEF WindowInv, Quiet, BlockAtHeight
    <2> QED BY <2>2, <2>3, <2>4, <2>5, <2>6, <2>7 DEF WindowInv
  <1> QED BY <1>1, <1>2

LEMMA WindowHash ==
  ASSUME WindowInv, BlockHashAt
  PROVE  WindowInv'
  <1>1. /\ UNCHANGED <<main, reorgs, conf, dep, home, headers>>
        /\ step = "hash" /\ step' = "header" /\ fetched' = SubSeq(main, 1, NextHeader)
        /\ NextHeader <= Len(main)
    BY DEF BlockHashAt, BlockAtHeight
  <1>2. main \in Branches /\ main \in Seq(Choice) /\ Len(main) \in Nat
    BY BranchShape DEF WindowInv, WindowTypes
  <1>3. NextHeader \in 1 .. Len(main) /\ NextHeader \in 0 .. Len(main)
    <2>1. Len(headers) \in Nat
      BY LenProperties DEF WindowInv, WindowTypes
    <2> QED BY <1>1, <1>2, <2>1, CheckpointShape DEF NextHeader
  <1>4. NextHeader' = NextHeader
    BY <1>1 DEF NextHeader
  <1>5. fetched' \in Branches /\ Len(fetched') = NextHeader
    BY <1>1, <1>2, <1>3, BlockOfBranch, PrefixOf
  <1>6. WindowTypes'
    BY <1>1 DEF WindowInv, WindowTypes
  <1>7. Placed' /\ AllFetched'
    BY <1>1 DEF WindowInv, Placed, AllFetched
  <1>8. Fetching'
    BY <1>4, <1>5 DEF Fetching
  <1>9. Chained'
    BY <1>1 DEF WindowInv, Chained, Linked
  <1>10. Quiet'
    BY <1>1, <1>3, <1>4 DEF WindowInv, Quiet, BlockAtHeight
  <1> QED BY <1>6, <1>7, <1>8, <1>9, <1>10 DEF WindowInv

\* The header of the block the hash named is appended.
LEMMA WindowHeader ==
  ASSUME WindowInv, JkcHeaderWithAuxpow
  PROVE  WindowInv'
  <1>1. CASE Last(fetched) = "bare"
    BY <1>1, WindowRests DEF JkcHeaderWithAuxpow, Fail, WindowInv, WindowTypes
  <1>2. CASE Last(fetched) # "bare"
    <2> DEFINE n == Len(headers)
    <2>1. /\ UNCHANGED <<main, reorgs, conf, dep, home, fetched>>
          /\ step = "header" /\ step' = "hash" /\ headers' = Append(headers, fetched)
      BY <1>2 DEF JkcHeaderWithAuxpow
    <2>2. /\ headers \in Seq(Branches) /\ n \in Nat /\ fetched \in Branches
          /\ Len(fetched) = CheckpointHeight + n + 1
      <3>1. headers \in Seq(Branches) /\ n \in Nat
        BY LenProperties DEF WindowInv, WindowTypes
      <3> QED BY <2>1, <3>1, CheckpointShape DEF WindowInv, Fetching, NextHeader
    <2>3. /\ headers' \in Seq(Branches) /\ Len(headers') = n + 1
          /\ \A i \in 1 .. n : headers'[i] = headers[i]
          /\ headers'[n + 1] = fetched
      BY <2>1, <2>2, AppendProperties
    <2>4. WindowTypes'
      <3>1. \A i \in 1 .. n + 1 : Len(headers'[i]) = CheckpointHeight + i
        BY <2>2, <2>3, CheckpointShape DEF WindowInv, WindowTypes
      <3> QED BY <2>1, <2>3, <3>1 DEF WindowInv, WindowTypes
    <2>5. Placed' /\ Fetching' /\ AllFetched'
      BY <2>1 DEF WindowInv, Placed, Fetching, AllFetched
    <2>6. Chained'
      <3> SUFFICES ASSUME Linked(headers')
                   PROVE  /\ \A i \in 1 .. n + 1 :
                               headers'[i] = SubSeq(fetched, 1, CheckpointHeight + i)
                          /\ SubSeq(fetched, 1, CheckpointHeight) = Checkpoint
        BY <2>3 DEF Chained
      <3>1. DOMAIN headers' = 1 .. n + 1 /\ DOMAIN headers = 1 .. n
        BY <2>2, <2>3, LenProperties
      <3>2. Front(fetched) = IF n = 0 THEN Checkpoint ELSE headers[n]
        <4>1. n + 1 \in DOMAIN headers' /\ (n + 1 = 1 <=> n = 0) /\ n + 1 - 1 = n
          BY <2>2, <3>1
        <4>2. Front(headers'[n + 1])
                = IF n + 1 = 1 THEN Checkpoint ELSE headers'[n + 1 - 1]
          BY <4>1 DEF Linked
        <4> QED BY <2>2, <2>3, <4>1, <4>2
      <3>3. fetched \in Seq(Choice) /\ Len(fetched) \in Nat
        BY <2>2, BranchShape
      <3>4. Front(fetched) = SubSeq(fetched, 1, CheckpointHeight + n)
        BY <2>2, CheckpointShape DEF Front
      <3>5. SubSeq(fetched, 1, CheckpointHeight + n + 1) = fetched
        BY <2>2, <3>3, SubSeqFull
      <3>6. \A m \in 0 .. CheckpointHeight + n :
              SubSeq(Front(fetched), 1, m) = SubSeq(fetched, 1, m)
        BY <2>2, <3>3, <3>4, CheckpointShape, PrefixOfPrefix
      <3>7. CASE n = 0
        <4>1. SubSeq(fetched, 1, CheckpointHeight) = Checkpoint
          BY <3>2, <3>4, <3>7, CheckpointShape
        <4> QED BY <2>3, <3>5, <3>7, <4>1, CheckpointShape
      <3>8. CASE n # 0
        <4>1. Linked(headers)
          BY <2>2, <2>3, <3>1 DEF Linked
        <4>2. headers # <<>>
          BY <3>8
        <4>3. /\ \A i \in 1 .. n : headers[i] = SubSeq(headers[n], 1, CheckpointHeight + i)
              /\ SubSeq(headers[n], 1, CheckpointHeight) = Checkpoint
          BY <4>1, <4>2 DEF WindowInv, Chained
        <4>4. headers[n] = Front(fetched)
          BY <3>2, <3>8
        <4>5. SubSeq(fetched, 1, CheckpointHeight) = Checkpoint
          BY <2>2, <3>6, <4>3, <4>4, CheckpointShape
        <4>6. \A i \in 1 .. n : headers'[i] = SubSeq(fetched, 1, CheckpointHeight + i)
          <5> TAKE i \in 1 .. n
          <5>1. CheckpointHeight + i \in 0 .. CheckpointHeight + n
            BY <2>2, CheckpointShape
          <5>2. headers'[i] = SubSeq(Front(fetched), 1, CheckpointHeight + i)
            BY <2>3, <4>3, <4>4
          <5> QED BY <3>6, <5>1, <5>2
        <4>7. headers'[n + 1] = SubSeq(fetched, 1, CheckpointHeight + (n + 1))
          BY <2>2, <2>3, <3>5, CheckpointShape
        <4> QED BY <2>2, <4>5, <4>6, <4>7
      <3> QED BY <3>7, <3>8
    <2>7. Quiet'
      <3> SUFFICES ASSUME reorgs = 0
                   PROVE  /\ \A i \in 1 .. n + 1 :
                               /\ headers'[i] = SubSeq(main, 1, CheckpointHeight + i)
                               /\ CheckpointHeight + i <= Len(main)
                          /\ home = SubSeq(main, 1, dep) /\ dep <= Len(main)
        BY <2>1, <2>3 DEF Quiet, BlockAtHeight
      <3>1. /\ \A i \in 1 .. n : /\ headers[i] = SubSeq(main, 1, CheckpointHeight + i)
                                 /\ CheckpointHeight + i <= Len(main)
            /\ home = SubSeq(main, 1, dep) /\ dep <= Len(main)
            /\ fetched = SubSeq(main, 1, NextHeader) /\ NextHeader <= Len(main)
        BY <2>1 DEF WindowInv, Quiet, BlockAtHeight
      <3>2. NextHeader = CheckpointHeight + (n + 1)
        BY <2>2, CheckpointShape DEF NextHeader
      <3> HIDE DEF n
      <3>3. ASSUME NEW i \in 1 .. n + 1
            PROVE  /\ headers'[i] = SubSeq(main, 1, CheckpointHeight + i)
                   /\ CheckpointHeight + i <= Len(main)
        <4>1. CASE i = n + 1
          BY <2>3, <3>1, <3>2, <4>1
        <4>2. CASE i # n + 1
          <5>1. i \in 1 .. n
            BY <2>2, <4>2
          <5> QED BY <2>3, <3>1, <5>1
        <4> QED BY <4>1, <4>2
      <3> QED BY <3>1, <3>3
    <2> QED BY <2>4, <2>5, <2>6, <2>7 DEF WindowInv
  <1> QED BY <1>1, <1>2

LEMMA WindowStep == WindowInv /\ [Next]_vars => WindowInv'
  <1> SUFFICES ASSUME WindowInv, [Next]_vars PROVE WindowInv'
    OBVIOUS
  <1>1. CASE UNCHANGED windowVars
    BY <1>1, WindowRests DEF windowVars, WindowInv, WindowTypes
  <1>2. CASE WindowNext
    <2>1. CASE RequestFails
      BY <2>1, WindowRests DEF RequestFails, Fail, WindowInv, WindowTypes
    <2>2. CASE NodeMoves
      BY <2>2, WindowRests DEF NodeMoves, WindowInv, WindowTypes
    <2> QED BY <1>2, <2>1, <2>2, WindowMerkle, WindowTip, WindowHash, WindowHeader
            DEF WindowNext
  <1> QED BY <1>1, <1>2
          DEF Next, vars, clients, Look, LookAtBits, LookAtTarget, LookAtSum,
              LookAtWitness, LookAtCoinbase, LookAtSlots, LookAtAuxpow,
              LookAtPayment, LookAtStore, LookAtConfig, LookAtJournals

LEMMA WindowAlways == Spec => []WindowInv
  <1>1. Init => WindowInv
    BY WindowStart DEF Init
  <1> QED BY <1>1, WindowStep, PTL DEF Spec

(***************************************************************************)
(* However often the node of build_proof_input changes branches, and       *)
(* however long the branches, the window and the checkpoint are, a witness *)
(* that verify_psob_chain and fold_merkle accept lies on one branch from   *)
(* the checkpoint, has the deposit where its index says and buries it as   *)
(* deep as asked.                                                          *)
(***************************************************************************)
THEOREM OneBranchTheorem == Spec => []AcceptedIsOneBranch
  <1>1. WindowInv => AcceptedIsOneBranch
    <2> SUFFICES ASSUME WindowInv, Accepted PROVE AcceptedIsOneBranch
      BY DEF AcceptedIsOneBranch
    <2> DEFINE n == Len(headers)
               tip == headers[n]
    <2>1. /\ headers \in Seq(Branches) /\ n \in Nat /\ DOMAIN headers = 1 .. n
          /\ \A i \in 1 .. n : Len(headers[i]) = CheckpointHeight + i
          /\ conf \in Nat /\ dep \in Nat
      BY LenProperties DEF WindowInv, WindowTypes
    <2>2. /\ headers # <<>> /\ Linked(headers)
          /\ dep - CheckpointHeight \in 1 .. n
          /\ headers[dep - CheckpointHeight] = home
      BY <2>1 DEF Accepted, VerifyPsobChain, DepositHeaderIndex, FoldMerkle
    <2>3. /\ \A i \in 1 .. n : headers[i] = SubSeq(tip, 1, CheckpointHeight + i)
          /\ SubSeq(tip, 1, CheckpointHeight) = Checkpoint
      BY <2>2 DEF WindowInv, Chained
    <2>4. n > 0 /\ tip \in Branches /\ Len(tip) = CheckpointHeight + n
      BY <2>1, <2>2, ElementOfSeq
    <2>5. /\ tip \in Seq(Choice) /\ DOMAIN tip = 1 .. Len(tip)
          /\ \A i, j \in 1 .. Len(tip) : tip[i] = "deposit" /\ tip[j] = "deposit" => i = j
      BY <2>4, BranchShape
    <2>6. dep \in CheckpointHeight + 1 .. Len(tip)
      BY <2>1, <2>2, <2>4, CheckpointShape
    <2>7. /\ home \in Branches /\ Len(home) = dep /\ home[dep] = "deposit"
          /\ CheckpointHeight + 1 + n > dep + (IF conf = 0 THEN 1 ELSE conf) - 1
      BY DEF Accepted, WindowInv, Placed, AllFetched, NextHeader, EndHeight, Confirmations
    <2>8. home = SubSeq(tip, 1, dep)
      <3>1. CheckpointHeight + (dep - CheckpointHeight) = dep
        BY <2>1, CheckpointShape
      <3> QED BY <2>2, <2>3, <3>1
    <2>9. tip[dep] = "deposit"
      <3>1. dep \in 0 .. Len(tip) /\ dep \in 1 .. dep
        BY <2>1, <2>4, <2>6, CheckpointShape
      <3> QED BY <2>5, <2>7, <2>8, <3>1, PrefixOf
    <2>10. DepositHeights(tip) = {dep}
      <3>1. dep \in 1 .. Len(tip)
        BY <2>4, <2>6, CheckpointShape
      <3> QED BY <2>5, <2>9, <3>1 DEF DepositHeights
    <2>11. IsPrefix(Checkpoint, tip)
      <3>1. SubSeq(Checkpoint, 1, CheckpointHeight) = Checkpoint
        BY CheckpointShape, SubSeqFull DEF CheckpointHeight
      <3>2. CheckpointHeight <= Len(tip)
        BY <2>1, <2>4, CheckpointShape
      <3> QED BY <2>3, <3>1, <3>2 DEF IsPrefix, CheckpointHeight
    <2>12. Len(tip) - dep + 1 >= conf
      BY <2>1, <2>4, <2>7, CheckpointShape
    <2>13. Last(headers) = tip
      BY DEF Last
    <2> QED BY <2>1, <2>3, <2>6, <2>8, <2>10, <2>11, <2>12, <2>13 DEF AcceptedIsOneBranch
  <1> QED BY <1>1, WindowAlways, PTL

(***************************************************************************)
(* While the node keeps its chain and the chain runs through the           *)
(* checkpoint, whatever build_proof_input completes is accepted, for every *)
(* window: its guards, the window's ends and the index agree.              *)
(***************************************************************************)
THEOREM QuietBuildTheorem == Spec => []QuietBuildAccepted
  <1>1. WindowInv => QuietBuildAccepted
    <2> SUFFICES ASSUME WindowInv, step = "built", reorgs = 0, IsPrefix(Checkpoint, main)
                 PROVE  Accepted
      BY DEF QuietBuildAccepted
    <2> DEFINE n == Len(headers)
    <2>1. /\ headers \in Seq(Branches) /\ n \in Nat /\ DOMAIN headers = 1 .. n
          /\ conf \in Nat /\ dep \in Nat /\ main \in Branches
      BY LenProperties DEF WindowInv, WindowTypes
    <2>2. main \in Seq(Choice) /\ Len(main) \in Nat
      BY <2>1, BranchShape
    <2>3. /\ \A i \in 1 .. n : /\ headers[i] = SubSeq(main, 1, CheckpointHeight + i)
                               /\ CheckpointHeight + i <= Len(main)
          /\ home = SubSeq(main, 1, dep)
      BY DEF WindowInv, Quiet, BlockAtHeight
    <2>4. /\ dep > CheckpointHeight
          /\ CheckpointHeight + 1 + n > dep + (IF conf = 0 THEN 1 ELSE conf) - 1
      BY DEF WindowInv, Placed, AllFetched, NextHeader, EndHeight, Confirmations
    <2>5. dep - CheckpointHeight \in 1 .. n /\ headers # <<>>
      BY <2>1, <2>4, CheckpointShape
    <2>6. headers[dep - CheckpointHeight] = home
      <3>1. CheckpointHeight + (dep - CheckpointHeight) = dep
        BY <2>1, CheckpointShape
      <3> QED BY <2>3, <2>5, <3>1
    <2>7. Linked(headers)
      <3> SUFFICES ASSUME NEW i \in 1 .. n
                   PROVE  Front(headers[i]) = IF i = 1 THEN Checkpoint ELSE headers[i - 1]
        BY <2>1 DEF Linked
      <3>1. /\ CheckpointHeight + i \in 0 .. Len(main)
            /\ CheckpointHeight + i - 1 \in 0 .. CheckpointHeight + i
        BY <2>1, <2>2, <2>3, CheckpointShape
      <3>2. Len(headers[i]) = CheckpointHeight + i
        BY <2>2, <2>3, <3>1, PrefixOf
      <3>3. Front(headers[i]) = SubSeq(main, 1, CheckpointHeight + i - 1)
        <4>1. Front(headers[i]) = SubSeq(headers[i], 1, CheckpointHeight + i - 1)
          <5>1. Front(headers[i]) = SubSeq(headers[i], 1, Len(headers[i]) - 1)
            BY Zenon DEF Front
          <5>2. Len(headers[i]) - 1 = CheckpointHeight + i - 1
            BY <2>1, <3>2, CheckpointShape
          <5> QED BY <5>1, <5>2
        <4>2. headers[i] = SubSeq(main, 1, CheckpointHeight + i)
          BY <2>3
        <4>3. SubSeq(SubSeq(main, 1, CheckpointHeight + i), 1, CheckpointHeight + i - 1)
                = SubSeq(main, 1, CheckpointHeight + i - 1)
          BY <2>2, <3>1, PrefixOfPrefix
        <4> QED BY <4>1, <4>2, <4>3
      <3>4. CASE i = 1
        <4>1. /\ SubSeq(Checkpoint, 1, CheckpointHeight) = Checkpoint
              /\ SubSeq(Checkpoint, 1, CheckpointHeight) = SubSeq(main, 1, CheckpointHeight)
          BY CheckpointShape, SubSeqFull DEF CheckpointHeight, IsPrefix
        <4>2. CheckpointHeight + i - 1 = CheckpointHeight
          BY <3>4, CheckpointShape
        <4> QED BY <3>3, <3>4, <4>1, <4>2
      <3>5. CASE i # 1
        <4>1. i - 1 \in 1 .. n /\ CheckpointHeight + (i - 1) = CheckpointHeight + i - 1
          BY <2>1, <3>5, CheckpointShape
        <4> QED BY <2>3, <3>3, <3>5, <4>1
      <3> QED BY <3>4, <3>5
    <2> QED BY <2>1, <2>5, <2>6, <2>7
            DEF Accepted, VerifyPsobChain, DepositHeaderIndex, FoldMerkle
  <1> QED BY <1>1, WindowAlways, PTL

-----------------------------------------------------------------------------
(* PayoutScan *)

ScanTypes ==
    /\ history \in Seq(TxKind) /\ payouts \in Seq(Nat) /\ queue \in Seq(Nat)
    /\ pages \in 0 .. PageBound /\ newest \in 0 .. Len(history)
    /\ scan \in {"page", "tx", "done", "failed"}

\* The lowest transaction looked at so far.
Reached == IF scan = "tx" THEN bottom + Len(queue) ELSE bottom

Places ==
    /\ pages = 0 => bottom = 0 /\ newest = 0 /\ scan # "tx"
    /\ pages > 0 => bottom \in 1 .. newest
    /\ scan = "tx" => /\ bottom + Len(queue) <= newest + 1
                      /\ \A i \in 1 .. Len(queue) : queue[i] = bottom + Len(queue) - i
    /\ scan = "page" => lastSeen = bottom
    /\ scan = "done" /\ PagesLeft => bottom <= 1

PayoutsFrom(low) == {t \in low .. newest : t # 0 /\ history[t] = "payout"}

Reported == {payouts[i] : i \in 1 .. Len(payouts)} = PayoutsFrom(Reached)

Descending == \A i, j \in 1 .. Len(payouts) : i < j => payouts[i] > payouts[j]

ScanInv == ScanTypes /\ (scan # "failed" => Places /\ Reported /\ Descending)

LEMMA PageBounds == PageBound \in Nat \ {0} /\ PageSize \in Nat \ {0}
  BY ScanAssumption DEF PageBound

LEMMA ScanStart == ScanInit => ScanInv
  <1> SUFFICES ASSUME ScanInit PROVE ScanInv
    OBVIOUS
  <1>1. history \in Seq(TxKind) /\ Len(history) \in Nat
    <2>1. PICK n \in 0 .. MaxHistory - 1 : history \in [1 .. n -> TxKind]
      BY DEF ScanInit
    <2>2. n \in Nat
      BY ScanAssumption
    <2>3. history \in Seq(TxKind)
      BY <2>1, <2>2, SeqDef
    <2> QED BY <2>3, LenProperties
  <1>2. /\ payouts \in Seq(Nat) /\ queue \in Seq(Nat) /\ Len(payouts) = 0
        /\ lastSeen = 0 /\ pages = 0 /\ bottom = 0 /\ newest = 0 /\ scan = "page"
    BY DEF ScanInit
  <1>3. ScanTypes
    BY <1>1, <1>2, PageBounds DEF ScanTypes
  <1>4. Places /\ Descending
    BY <1>2 DEF Places, Descending
  <1>5. Reported
    BY <1>2 DEF Reported, PayoutsFrom, Reached
  <1> QED BY <1>3, <1>4, <1>5 DEF ScanInv

\* A page is asked for: the next transactions below the last one seen.
LEMMA ScanFetches ==
  ASSUME ScanInv, FetchPage
  PROVE  ScanInv'
  <1> DEFINE m == IF Newer < PageSize THEN Newer ELSE PageSize
  <1>1. /\ scan = "page" /\ UNCHANGED <<history, lastSeen, payouts>>
        /\ newest' = IF pages = 0 THEN Len(history) ELSE newest
        /\ ScanTypes /\ Places /\ Reported /\ Descending
    BY DEF FetchPage, ScanInv
  <1>2. Len(history) \in Nat /\ newest \in 0 .. Len(history) /\ pages \in Nat
    BY <1>1, PageBounds, LenProperties DEF ScanTypes
  <1>3. /\ pages = 0 => Newer = Len(history) /\ newest' = Newer /\ bottom = 0 /\ newest = 0
        /\ pages > 0 => /\ bottom \in 1 .. newest /\ newest' = newest
                        /\ Newer = bottom - 1
    BY <1>1, <1>2 DEF Places, Newer
  <1>4. Newer \in Nat /\ Newer <= newest' /\ newest' \in 0 .. Len(history) /\ m \in 0 .. Newer
        /\ m <= PageSize /\ (m = 0 <=> Newer = 0)
    BY <1>2, <1>3, PageBounds
  <1>5. AddressTxsChain = [i \in 1 .. m |-> Newer + 1 - i]
    BY DEF AddressTxsChain
  <1> HIDE DEF m
  <1>6. /\ AddressTxsChain \in Seq(Nat) /\ Len(AddressTxsChain) = m
        /\ \A i \in 1 .. m : AddressTxsChain[i] = Newer + 1 - i
    <2>1. m \in Nat /\ \A i \in 1 .. m : Newer + 1 - i \in Nat
      BY <1>4
    <2> QED BY <1>5, <2>1
  <1>7. PayoutsFrom(Reached) = {t \in Newer + 1 .. newest' : t # 0 /\ history[t] = "payout"}
    BY <1>1, <1>2, <1>3, <1>4 DEF PayoutsFrom, Reached
  <1>8. CASE ~PagesLeft \/ AddressTxsChain = <<>>
    <2>1. scan' = "done" /\ UNCHANGED <<queue, bottom, pages>>
      BY <1>8 DEF FetchPage
    <2>2. ScanTypes'
      BY <1>1, <1>4, <2>1 DEF ScanTypes
    <2>3. PagesLeft => Newer = 0
      BY <1>4, <1>6, <1>8
    <2>4. pages = 0 => PagesLeft
      BY PageBounds DEF PagesLeft
    <2>5. Places'
      BY <1>2, <1>3, <2>1, <2>3, <2>4 DEF Places, PagesLeft
    <2>6. Reported'
      <3>1. Reached = bottom /\ Reached' = bottom /\ newest' = newest
        BY <1>1, <1>2, <1>3, <2>1, <2>3, <2>4 DEF Reached
      <3> QED BY <1>1, <3>1 DEF Reported, PayoutsFrom
    <2>7. Descending'
      BY <1>1 DEF Descending
    <2> QED BY <2>2, <2>5, <2>6, <2>7 DEF ScanInv
  <1>9. CASE PagesLeft /\ AddressTxsChain # <<>>
    <2>1. /\ scan' = "tx" /\ queue' = AddressTxsChain /\ pages' = pages + 1
          /\ bottom' = AddressTxsChain[Len(AddressTxsChain)]
      BY <1>9 DEF FetchPage, Last
    <2>2. m > 0
      BY <1>4, <1>6, <1>9
    <2>3. bottom' = Newer + 1 - m /\ Len(queue') = m /\ bottom' \in 1 .. newest'
          /\ bottom' + m = Newer + 1
      BY <1>4, <1>6, <2>1, <2>2
    <2>4. ScanTypes'
      <3>1. pages' \in 0 .. PageBound
        BY <1>2, <1>9, <2>1, PageBounds DEF PagesLeft
      <3> QED BY <1>1, <1>4, <1>6, <2>1, <3>1 DEF ScanTypes
    <2>5. Places'
      <3>1. pages' > 0 /\ pages' # 0
        BY <1>2, <2>1
      <3>2. \A i \in 1 .. m : queue'[i] = bottom' + m - i
        BY <1>4, <1>6, <2>1, <2>3
      <3>3. bottom' + m <= newest' + 1
        <4>1. newest' \in Nat
          BY <1>2, <1>4
        <4>2. Newer \in Nat /\ Newer <= newest'
          BY <1>4
        <4> QED BY <2>3, <4>1, <4>2
      <3> QED BY <2>1, <2>3, <3>1, <3>2, <3>3 DEF Places
    <2>6. Reported'
      <3>1. Reached' = Newer + 1
        BY <2>1, <2>3 DEF Reached
      <3> QED BY <1>1, <1>7, <3>1 DEF Reported, PayoutsFrom
    <2>7. Descending'
      BY <1>1 DEF Descending
    <2> QED BY <2>4, <2>5, <2>6, <2>7 DEF ScanInv
  <1> QED BY <1>8, <1>9

\* The next transaction of the page is looked at.
LEMMA ScanLooks ==
  ASSUME ScanInv, LookAtTx
  PROVE  ScanInv'
  <1> DEFINE t == Head(queue)
             q == Len(queue)
             n == Len(payouts)
  <1>1. /\ scan = "tx" /\ queue # <<>> /\ queue' = Tail(queue)
        /\ UNCHANGED <<history, lastSeen, pages, bottom, newest, scan>>
        /\ payouts' = IF history[t] = "payout" THEN Append(payouts, t) ELSE payouts
        /\ ScanTypes /\ Places /\ Reported /\ Descending
    BY DEF LookAtTx, IsPayout, ScanInv
  <1>2. /\ queue \in Seq(Nat) /\ payouts \in Seq(Nat) /\ n \in Nat /\ q \in Nat
        /\ Len(history) \in Nat /\ newest \in 0 .. Len(history) /\ pages \in Nat
    BY <1>1, PageBounds, LenProperties DEF ScanTypes
  <1>3. /\ q > 0 /\ bottom \in 1 .. newest /\ bottom + q <= newest + 1
        /\ \A i \in 1 .. q : queue[i] = bottom + q - i
    BY <1>1, <1>2 DEF Places
  <1>4. t = bottom + q - 1 /\ t \in Nat /\ t \in 1 .. newest
    <2>1. t = queue[1]
      BY <1>2, <1>3
    <2> QED BY <1>2, <1>3, <2>1
  <1>5. /\ queue' \in Seq(Nat) /\ Len(queue') = q - 1
        /\ \A i \in 1 .. q - 1 : queue'[i] = queue[i + 1]
    BY <1>1, <1>2, HeadTailProperties
  <1> HIDE DEF t, q
  <1>6. Reached = t + 1 /\ Reached' = t
    BY <1>1, <1>2, <1>3, <1>4, <1>5 DEF Reached, q
  <1>7. payouts' \in Seq(Nat)
    BY <1>1, <1>2, <1>4, AppendProperties
  <1>8. ScanTypes'
    BY <1>1, <1>5, <1>7 DEF ScanTypes
  <1>9. Places'
    <2>1. \A i \in 1 .. q - 1 : queue'[i] = bottom + (q - 1) - i
      BY <1>2, <1>3, <1>5
    <2>2. bottom + (q - 1) <= newest + 1
      BY <1>2, <1>3
    <2>3. pages > 0
      BY <1>1, <1>2 DEF Places
    <2> QED BY <1>1, <1>2, <1>3, <1>5, <2>1, <2>2, <2>3 DEF Places
  <1>10. \A i \in 1 .. n : payouts[i] > t
    <2> TAKE i \in 1 .. n
    <2>1. payouts[i] \in PayoutsFrom(t + 1)
      BY <1>1, <1>6 DEF Reported
    <2> QED BY <1>4, <2>1 DEF PayoutsFrom
  <1>11. PayoutsFrom(Reached)' = {u \in t .. newest : u # 0 /\ history[u] = "payout"}
    BY <1>1, <1>6 DEF PayoutsFrom
  <1>12. {payouts[i] : i \in 1 .. n} = {u \in t + 1 .. newest : u # 0 /\ history[u] = "payout"}
    BY <1>1, <1>6 DEF Reported, PayoutsFrom
  <1>13. CASE history[t] = "payout"
    <2>1. /\ Len(payouts') = n + 1 /\ payouts'[n + 1] = t
          /\ \A i \in 1 .. n : payouts'[i] = payouts[i]
      BY <1>1, <1>2, <1>4, <1>13, AppendProperties
    <2>2. Descending'
      BY <1>1, <1>2, <1>10, <2>1 DEF Descending
    <2>3. {payouts'[i] : i \in 1 .. n + 1} = {payouts[i] : i \in 1 .. n} \cup {t}
      <3> HIDE DEF n
      <3>1. ASSUME NEW u \in {payouts'[i] : i \in 1 .. n + 1}
            PROVE  u \in {payouts[i] : i \in 1 .. n} \cup {t}
        <4>1. PICK i \in 1 .. n + 1 : u = payouts'[i]
          OBVIOUS
        <4>2. i = n + 1 \/ i \in 1 .. n
          BY <1>2
        <4> QED BY <2>1, <4>1, <4>2
      <3>2. ASSUME NEW u \in {payouts[i] : i \in 1 .. n} \cup {t}
            PROVE  u \in {payouts'[i] : i \in 1 .. n + 1}
        <4>1. CASE u = t
          <5>1. n + 1 \in 1 .. n + 1
            BY <1>2
          <5> QED BY <2>1, <4>1, <5>1
        <4>2. CASE u # t
          <5>1. PICK i \in 1 .. n : u = payouts[i]
            BY <4>2
          <5>2. i \in 1 .. n + 1
            BY <1>2
          <5> QED BY <2>1, <5>1, <5>2
        <4> QED BY <4>1, <4>2
      <3> QED BY <3>1, <3>2
    <2>4. {u \in t .. newest : u # 0 /\ history[u] = "payout"}
            = {u \in t + 1 .. newest : u # 0 /\ history[u] = "payout"} \cup {t}
      BY <1>2, <1>4, <1>13
    <2>5. Reported'
      BY <1>11, <1>12, <2>1, <2>3, <2>4 DEF Reported
    <2> QED BY <1>8, <1>9, <2>2, <2>5 DEF ScanInv
  <1>14. CASE history[t] # "payout"
    <2>1. payouts' = payouts
      BY <1>1, <1>14
    <2>2. {u \in t .. newest : u # 0 /\ history[u] = "payout"}
            = {u \in t + 1 .. newest : u # 0 /\ history[u] = "payout"}
      BY <1>2, <1>4, <1>14
    <2>3. Reported' /\ Descending'
      BY <1>1, <1>11, <1>12, <2>1, <2>2 DEF Reported, Descending
    <2> QED BY <1>8, <1>9, <2>3 DEF ScanInv
  <1> QED BY <1>13, <1>14

\* The end of a page, a failure, and the arrival of a transaction.
LEMMA ScanPasses ==
  ASSUME ScanInv, EndPage \/ ScanFails \/ Arrive \/ UNCHANGED scanVars
  PROVE  ScanInv'
  <1>1. CASE EndPage
    <2>1. /\ scan = "tx" /\ scan' = "page" /\ lastSeen' = bottom /\ Len(queue) = 0
          /\ UNCHANGED <<history, pages, queue, bottom, payouts, newest>>
          /\ ScanTypes /\ Places /\ Reported /\ Descending
      BY <1>1 DEF EndPage, ContinueAt, ScanInv
    <2>2. pages \in Nat /\ newest \in Nat /\ pages > 0 /\ bottom \in Nat
      <3>1. pages \in Nat /\ newest \in Nat
        BY <2>1, PageBounds, LenProperties DEF ScanTypes
      <3> QED BY <2>1, <3>1 DEF Places
    <2>3. ScanTypes'
      BY <2>1 DEF ScanTypes
    <2>4. Places'
      BY <2>1, <2>2 DEF Places
    <2>5. Reached' = Reached
      BY <2>1, <2>2 DEF Reached
    <2>6. Reported' /\ Descending'
      BY <2>1, <2>5 DEF Reported, PayoutsFrom, Descending
    <2> QED BY <2>3, <2>4, <2>6 DEF ScanInv
  <1>2. CASE ScanFails
    BY <1>2 DEF ScanFails, ScanInv, ScanTypes
  <1>3. CASE Arrive
    <2>1. PICK kind \in TxKind : history' = Append(history, kind)
      BY <1>3 DEF Arrive
    <2>2. /\ UNCHANGED <<lastSeen, pages, queue, bottom, payouts, newest, scan>>
          /\ ScanTypes /\ Places /\ Reported /\ Descending
      BY <1>3 DEF Arrive, ScanInv
    <2>3. /\ history' \in Seq(TxKind) /\ Len(history') = Len(history) + 1
          /\ Len(history) \in Nat /\ newest \in 0 .. Len(history)
          /\ \A t \in 1 .. Len(history) : history'[t] = history[t]
      BY <2>1, <2>2, AppendProperties, LenProperties DEF ScanTypes
    <2>4. ScanTypes'
      BY <2>2, <2>3 DEF ScanTypes
    <2>5. Places' /\ Descending' /\ Reached' = Reached
      BY <2>2 DEF Places, Descending, Reached, PagesLeft
    <2>6. Reported'
      <3>1. Reached \in Nat
        <4>1. pages \in Nat /\ Len(queue) \in Nat
          BY <2>2, PageBounds, LenProperties DEF ScanTypes
        <4> QED BY <2>2, <2>3, <4>1 DEF Places, Reached
      <3>2. PayoutsFrom(Reached)' = PayoutsFrom(Reached)
        BY <2>2, <2>3, <2>5, <3>1 DEF PayoutsFrom
      <3> QED BY <2>2, <3>2 DEF Reported
    <2> QED BY <2>4, <2>5, <2>6 DEF ScanInv
  <1>4. CASE UNCHANGED scanVars
    BY <1>4 DEF scanVars, ScanInv, ScanTypes, Places, PagesLeft, Reported, PayoutsFrom,
                Reached, Descending
  <1> QED BY <1>1, <1>2, <1>3, <1>4

LEMMA ScanStep == ScanInv /\ [Next]_vars => ScanInv'
  <1> SUFFICES ASSUME ScanInv, [Next]_vars PROVE ScanInv'
    OBVIOUS
  <1>1. CASE UNCHANGED scanVars
    BY <1>1, ScanPasses
  <1>2. CASE ScanNext
    BY <1>2, ScanFetches, ScanLooks, ScanPasses DEF ScanNext
  <1> QED BY <1>1, <1>2
          DEF Next, vars, clients, Look, LookAtBits, LookAtTarget, LookAtSum,
              LookAtWitness, LookAtCoinbase, LookAtSlots, LookAtAuxpow,
              LookAtPayment, LookAtStore, LookAtConfig, LookAtJournals

(***************************************************************************)
(* For every page size, bound on the pages and history, however many       *)
(* transactions arrive while it runs, find_payouts reports exactly the     *)
(* payouts that were confirmed when it began, down to the bottom of its    *)
(* last page, each once and newest first.                                  *)
(***************************************************************************)
THEOREM PayoutsTheorem == Spec => []PayoutsExact
  <1>1. Init => ScanInv
    BY ScanStart DEF Init
  <1>2. ScanInv => PayoutsExact
    <2> SUFFICES ASSUME ScanInv PROVE PayoutsExact
      OBVIOUS
    <2>1. DOMAIN payouts = 1 .. Len(payouts) /\ pages <= PageBound
      BY PageBounds, LenProperties DEF ScanInv, ScanTypes
    <2>2. CASE scan # "done"
      BY <2>1, <2>2 DEF PayoutsExact
    <2>3. CASE scan = "done"
      <3>1. Places /\ Reported /\ Descending /\ Reached = bottom
        BY <2>3 DEF ScanInv, Reached
      <3> QED BY <2>1, <2>3, <3>1 DEF PayoutsExact, Places, Reported, Descending, PayoutsFrom
    <2> QED BY <2>2, <2>3
  <1> QED BY <1>1, <1>2, ScanStep, PTL DEF Spec

-----------------------------------------------------------------------------
(* Pages. *)

LEMMA MinPair ==
  ASSUME NEW a \in Int, NEW b \in Int
  PROVE  Min({a, b}) = IF a <= b THEN a ELSE b
  <1>1. \E x \in {a, b} : \A y \in {a, b} : x <= y
    OBVIOUS
  <1>2. Min({a, b}) \in {a, b} /\ \A y \in {a, b} : Min({a, b}) <= y
    BY <1>1 DEF Min
  <1> QED BY <1>2

LEMMA MaxPair ==
  ASSUME NEW a \in Int, NEW b \in Int
  PROVE  Max({a, b}) = IF a >= b THEN a ELSE b
  <1>1. \E x \in {a, b} : \A y \in {a, b} : x >= y
    OBVIOUS
  <1>2. Max({a, b}) \in {a, b} /\ \A y \in {a, b} : Max({a, b}) >= y
    BY <1>1 DEF Max
  <1> QED BY <1>2

\* Page::new clamps the limit to what a page may hold.
LEMMA PageFacts ==
  ASSUME NEW limit \in Int, NEW offset \in Nat
  PROVE  /\ PageNew(limit, offset).limit \in 1 .. MaxLimit
         /\ PageNew(limit, offset).offset = offset
         /\ limit \in 1 .. MaxLimit => PageNew(limit, offset).limit = limit
  <1>1. DefaultLimit \in 1 .. MaxLimit /\ MaxLimit \in Nat
    BY PageAssumption
  <1> DEFINE x == OrElse(limit, DefaultLimit)
             y == Min({x, MaxLimit})
  <1>2. x \in Int /\ (limit \in 1 .. MaxLimit => x = limit)
    BY <1>1 DEF OrElse, None
  <1> HIDE DEF x
  <1>3. y = IF x <= MaxLimit THEN x ELSE MaxLimit
    BY <1>1, <1>2, MinPair
  <1>4. y \in Int /\ y <= MaxLimit /\ (limit \in 1 .. MaxLimit => y = limit)
    BY <1>1, <1>2, <1>3
  <1> HIDE DEF y
  <1>5. Max({1, y}) = IF 1 >= y THEN 1 ELSE y
    <2>1. 1 \in Int
      OBVIOUS
    <2> QED BY <1>4, <2>1, MaxPair
  <1>6. Max({1, y}) \in 1 .. MaxLimit /\ (limit \in 1 .. MaxLimit => Max({1, y}) = limit)
    BY <1>1, <1>4, <1>5
  <1>7. OrElse(offset, 0) = offset
    BY DEF OrElse, None
  <1> QED BY <1>6, <1>7 DEF PageNew, x, y

\* A page that asks for the largest limit gets it.
LEMMA LargestPage ==
  PageNew(MaxLimit, 0) = [limit |-> MaxLimit, offset |-> 0]
  <1>1. MaxLimit \in Nat /\ MaxLimit >= 1
    BY PageAssumption
  <1>2. MaxLimit \in Int /\ 0 \in Nat /\ MaxLimit \in 1 .. MaxLimit
    BY <1>1
  <1>3. PageNew(MaxLimit, 0).limit = MaxLimit
    BY <1>2, PageFacts
  <1>4. PageNew(MaxLimit, 0).offset = 0
    BY <1>2, PageFacts
  <1> QED BY <1>3, <1>4 DEF PageNew

\* The pages of a list, one after the other, are the list.
LEMMA PagesOfList ==
  ASSUME NEW S, NEW s \in Seq(S), NEW size \in Nat \ {0}, NEW parts,
         parts = [n \in 1 .. Len(s) + 1 |->
                    PageOf(s, [limit |-> size, offset |-> (n - 1) * size])]
  PROVE  FlattenSeq(parts) = s
  <1> DEFINE N == Len(s)
             end(n) == IF n * size <= N THEN n * size ELSE N
  <1>1. N \in Nat /\ N + 1 \in Nat \ {0}
    OBVIOUS
  <1>2. parts = [n \in 1 .. N + 1 |-> parts[n]]
    OBVIOUS
  <1>3. PICK f : /\ f[1] = parts[1]
                 /\ \A i \in 2 .. N + 1 : f[i] = f[i - 1] \o parts[i]
                 /\ FlattenSeq(parts) = f[N + 1]
    <2>1. \A n \in 1 .. N + 1 : parts[n] \in Seq(S)
      <3> SUFFICES ASSUME NEW n \in 1 .. N + 1 PROVE parts[n] \in Seq(S)
        OBVIOUS
      <3> DEFINE o == (n - 1) * size
      <3>1. parts[n] = SubSeq(s, o + 1, Min({o + size, N}))
        BY DEF PageOf
      <3>2. o \in Nat
        BY <1>1
      <3> HIDE DEF o
      <3>3. Min({o + size, N}) \in 0 .. N
        BY <1>1, <3>2, MinPair
      <3> DEFINE e == Min({o + size, N})
      <3>4. e \in 0 .. N /\ parts[n] = SubSeq(s, o + 1, e)
        BY <3>1, <3>3
      <3> HIDE DEF e
      <3>5. \A i \in o + 1 .. e : s[i] \in S
        BY <3>2, <3>4
      <3>6. o + 1 \in Int /\ e \in Int
        BY <3>2, <3>4
      <3> DEFINE b == o + 1
      <3>7. b \in Int /\ \A i \in b .. e : s[i] \in S
        BY <3>5, <3>6
      <3> HIDE DEF b
      <3>8. SubSeq(s, b, e) \in Seq(S)
        BY <3>6, <3>7, SubSeqProperties
      <3> QED BY <3>4, <3>8 DEF b
    <2>2. parts \in Seq(Seq(S)) /\ Len(parts) = N + 1
      BY <1>1, <1>2, <2>1
    <2>3. Len(parts) # 0
      BY <1>1, <2>2
    <2> QED BY <2>2, <2>3, FlattenFacts
  <1>4. ASSUME NEW n \in 1 .. N + 1
        PROVE  parts[n] = SubSeq(s, (n - 1) * size + 1, end(n))
    <2> DEFINE o == (n - 1) * size
    <2>1. o \in Int /\ o + size = n * size
      BY <1>1
    <2>2. parts[n] = SubSeq(s, o + 1, Min({o + size, N}))
      BY DEF PageOf
    <2> HIDE DEF o
    <2>3. Min({o + size, N}) = end(n)
      <3> DEFINE c == o + size
      <3>1. c \in Int /\ N \in Int /\ c = n * size
        BY <1>1, <2>1
      <3> HIDE DEF c
      <3>2. Min({c, N}) = IF c <= N THEN c ELSE N
        BY <3>1, MinPair
      <3> QED BY <3>1, <3>2 DEF c
    <2> QED BY <2>2, <2>3 DEF o
  <1> DEFINE T == {n \in Nat : n + 1 <= N + 1 => f[n + 1] = SubSeq(s, 1, end(n + 1))}
  <1>5. 0 \in T
    <2>1. 1 \in 1 .. N + 1 /\ (1 - 1) * size + 1 = 1 /\ 0 + 1 = 1
      BY <1>1
    <2>2. parts[1] = SubSeq(s, 1, end(1))
      BY <1>4, <2>1
    <2> QED BY <1>3, <2>1, <2>2
  <1>6. ASSUME NEW n \in T PROVE n + 1 \in T
    <2> SUFFICES ASSUME (n + 1) + 1 <= N + 1
                 PROVE  f[(n + 1) + 1] = SubSeq(s, 1, end((n + 1) + 1))
      OBVIOUS
    <2> DEFINE k == (n + 1) + 1
               o == (n + 1) * size
               e == end(k)
    <2>1. k \in 2 .. N + 1 /\ k \in 1 .. N + 1 /\ k - 1 = n + 1
      BY <1>1
    <2>2. f[k] = f[n + 1] \o parts[k] /\ f[n + 1] = SubSeq(s, 1, end(n + 1))
      <3>1. n + 1 <= N + 1
        BY <1>1
      <3>2. f[n + 1] = SubSeq(s, 1, end(n + 1))
        BY <3>1
      <3>3. f[k] = f[k - 1] \o parts[k]
        BY <1>3, <2>1
      <3> QED BY <2>1, <3>2, <3>3
    <2>3. parts[k] = SubSeq(s, o + 1, e)
      BY <1>4, <2>1
    <2>4. o \in Nat /\ k * size = o + size
      BY <2>1
    <2>5. e = IF o + size <= N THEN o + size ELSE N
      BY <2>4
    <2>6. end(n + 1) = IF o <= N THEN o ELSE N
      OBVIOUS
    <2> HIDE DEF o, e, k, N
    <2>7. CASE o <= N
      <3>1. end(n + 1) = o /\ o <= e /\ e <= N /\ e \in Nat
        BY <1>1, <2>4, <2>5, <2>6, <2>7
      <3>2. SubSeq(s, 1, o) \o SubSeq(s, o + 1, e) = SubSeq(s, 1, e)
        BY <2>4, <3>1 DEF N
      <3>3. f[k] = SubSeq(s, 1, e)
        BY <2>2, <2>3, <3>1, <3>2
      <3> QED BY <3>3 DEF k, e
    <2>8. CASE o > N
      <3>1. end(n + 1) = N /\ e = N
        BY <1>1, <2>4, <2>5, <2>6, <2>8
      <3>2. SubSeq(s, o + 1, N) = <<>>
        BY <1>1, <2>4, <2>8 DEF N
      <3>3. SubSeq(s, 1, N) \o <<>> = SubSeq(s, 1, N)
        BY <1>1 DEF N
      <3>4. f[k] = SubSeq(s, 1, e)
        BY <2>2, <2>3, <3>1, <3>2, <3>3
      <3> QED BY <3>4 DEF k, e
    <2> QED BY <1>1, <2>4, <2>7, <2>8
  <1>7. T = Nat
    <2> HIDE DEF T
    <2>1. T \in SUBSET Nat
      BY DEF T
    <2> QED BY <1>5, <1>6, <2>1, AllNumbers
  <1>8. f[N + 1] = SubSeq(s, 1, end(N + 1))
    <2>1. N \in T
      <3> HIDE DEF T, N
      <3> QED BY <1>1, <1>7
    <2> QED BY <1>1, <2>1
  <1>9. end(N + 1) = N
    <2>1. (N + 1) * size >= N + 1
      <3>1. (N + 1) * (size - 1) >= 0 /\ (N + 1) * (size - 1) = (N + 1) * size - (N + 1)
        BY <1>1
      <3>2. (N + 1) * size \in Int
        BY <1>1
      <3> QED BY <1>1, <3>1, <3>2
    <2>2. (N + 1) * size \in Int
      BY <1>1
    <2> HIDE DEF N
    <2> QED BY <1>1, <2>1, <2>2
  <1>10. SubSeq(s, 1, N) = s
    OBVIOUS
  <1> QED BY <1>3, <1>8, <1>9, <1>10

\* A first page that is large enough is the list.
LEMMA OnePage ==
  ASSUME NEW S, NEW s \in Seq(S), NEW size \in Nat, Len(s) <= size
  PROVE  PageOf(s, [limit |-> size, offset |-> 0]) = s
  <1>1. Min({0 + size, Len(s)}) = Len(s)
    BY MinPair
  <1>2. PageOf(s, [limit |-> size, offset |-> 0]) = SubSeq(s, 0 + 1, Len(s))
    BY <1>1 DEF PageOf
  <1> QED BY <1>2, SubSeqFull

-----------------------------------------------------------------------------
(* Lists in order. *)

\* What comes before what is a strict total order.
Ordered(S, before) ==
    /\ before \in [S -> SUBSET S]
    /\ \A x \in S : x \notin before[x]
    /\ \A x, y \in S : y \in before[x] => before[y] \subseteq before[x]
    /\ \A x, y \in S : x = y \/ x \in before[y] \/ y \in before[x]

\* Every member of an ordered set is in its list once, behind those before it.
LEMMA InOrderFacts ==
  ASSUME NEW S, IsFiniteSet(S), NEW before, Ordered(S, before)
  PROVE  LET l == InOrder(S, before)
         IN  /\ l \in Seq(S) /\ Len(l) = Cardinality(S)
             /\ \A x \in S : \E i \in 1 .. Cardinality(S) : l[i] = x
             /\ \A i, j \in 1 .. Cardinality(S) : i < j => l[i] \in before[l[j]]
  <1> DEFINE N == Cardinality(S)
             rank == [x \in S |-> Cardinality(before[x]) + 1]
             l == InOrder(S, before)
  <1>1. N \in Nat
    BY FS_CardinalityType
  <1>2. ASSUME NEW x \in S
        PROVE  IsFiniteSet(before[x]) /\ Cardinality(before[x]) \in 0 .. N - 1
    <2>1. before[x] \in SUBSET (S \ {x})
      BY DEF Ordered
    <2>2. IsFiniteSet(S \ {x}) /\ Cardinality(S \ {x}) = N - 1
      BY FS_RemoveElement
    <2>3. IsFiniteSet(before[x]) /\ Cardinality(before[x]) <= N - 1
      BY <2>1, <2>2, FS_Subset
    <2>4. Cardinality(before[x]) \in Nat
      BY <2>3, FS_CardinalityType
    <2> QED BY <1>1, <2>3, <2>4
  <1>3. ASSUME NEW x \in S, NEW y \in S, x \in before[y]
        PROVE  Cardinality(before[x]) < Cardinality(before[y])
    <2>1. before[x] \in SUBSET before[y] /\ before[x] # before[y]
      BY <1>3 DEF Ordered
    <2>2. Cardinality(before[x]) <= Cardinality(before[y])
          /\ (Cardinality(before[y]) = Cardinality(before[x]) => before[y] = before[x])
      BY <1>2, <2>1, FS_Subset
    <2>3. Cardinality(before[x]) \in Nat /\ Cardinality(before[y]) \in Nat
      BY <1>2, <1>1
    <2> QED BY <2>1, <2>2, <2>3
  <1>4. rank \in [S -> 1 .. N]
    <2>1. \A x \in S : Cardinality(before[x]) + 1 \in 1 .. N
      BY <1>1, <1>2
    <2> QED BY <2>1
  <1>5. \A x, y \in S : rank[x] = rank[y] => x = y
    <2> SUFFICES ASSUME NEW x \in S, NEW y \in S, rank[x] = rank[y], x # y PROVE FALSE
      OBVIOUS
    <2>1. Cardinality(before[x]) = Cardinality(before[y])
      <3>1. Cardinality(before[x]) \in Int /\ Cardinality(before[y]) \in Int
        BY <1>1, <1>2
      <3> QED BY <3>1
    <2>2. Cardinality(before[x]) \in Int
      BY <1>1, <1>2
    <2>3. x \in before[y] \/ y \in before[x]
      BY DEF Ordered
    <2> QED BY <1>3, <2>1, <2>2, <2>3
  <1>6. \A i \in 1 .. N : \E x \in S : rank[x] = i
    <2>1. rank \in Injection(S, 1 .. N)
      <3> HIDE DEF rank
      <3> QED BY <1>4, <1>5 DEF Injection, IsInjective
    <2>2. IsFiniteSet(1 .. N) /\ Cardinality(1 .. N) = N
      <3>1. 1 \in Int /\ N \in Int
        BY <1>1
      <3>2. IsFiniteSet(1 .. N) /\ Cardinality(1 .. N) = IF 1 > N THEN 0 ELSE N - 1 + 1
        BY <3>1, FS_Interval
      <3> QED BY <1>1, <3>2
    <2>3. rank \in Surjection(S, 1 .. N)
      BY <2>1, <2>2, FS_Injection
    <2> HIDE DEF rank
    <2> QED BY <2>3 DEF Surjection
  <1>7. l = [i \in 1 .. N |-> CHOOSE x \in S : Cardinality(before[x]) = i - 1]
    BY DEF InOrder
  <1> HIDE DEF l
  <1>8. ASSUME NEW i \in 1 .. N PROVE l[i] \in S /\ Cardinality(before[l[i]]) = i - 1
    <2>1. PICK x \in S : rank[x] = i
      BY <1>6
    <2>2. Cardinality(before[x]) = i - 1
      <3>1. Cardinality(before[x]) \in Int /\ Cardinality(before[x]) + 1 = i
        BY <1>1, <1>2, <2>1
      <3> QED BY <3>1
    <2>3. \E y \in S : Cardinality(before[y]) = i - 1
      BY <2>2
    <2> QED BY <1>7, <2>3
  <1>9. l \in Seq(S) /\ Len(l) = N
    BY <1>1, <1>7, <1>8
  <1>10. ASSUME NEW x \in S PROVE \E i \in 1 .. N : l[i] = x
    <2> DEFINE i == rank[x]
    <2>1. i \in 1 .. N
      BY <1>4
    <2>2. Cardinality(before[l[i]]) = i - 1 /\ l[i] \in S
      BY <1>8, <2>1
    <2>3. rank[l[i]] = (i - 1) + 1
      BY <2>2
    <2>4. rank[l[i]] = rank[x]
      BY <1>1, <2>1, <2>3
    <2>5. l[i] = x
      BY <1>5, <2>2, <2>4
    <2> QED BY <2>1, <2>5
  <1>11. ASSUME NEW i \in 1 .. N, NEW j \in 1 .. N, i < j PROVE l[i] \in before[l[j]]
    <2>1. /\ l[i] \in S /\ Cardinality(before[l[i]]) = i - 1
          /\ l[j] \in S /\ Cardinality(before[l[j]]) = j - 1
      BY <1>8
    <2>2. l[i] # l[j]
      BY <1>1, <1>11, <2>1
    <2>3. l[j] \notin before[l[i]]
      <3> SUFFICES ASSUME l[j] \in before[l[i]] PROVE FALSE
        OBVIOUS
      <3>1. j - 1 < i - 1
        BY <1>3, <2>1
      <3> QED BY <1>1, <1>11, <3>1
    <2> QED BY <2>1, <2>2, <2>3 DEF Ordered
  <1> QED BY <1>9, <1>10, <1>11 DEF l

LEMMA KeysOrdered ==
  ASSUME NEW S \in SUBSET (Nat \X Nat)
  PROVE  Ordered(S, [k \in S |-> {j \in S : KeyLess(j, k)}])
  <1> DEFINE before == [k \in S |-> {j \in S : KeyLess(j, k)}]
  <1>1. \A k \in S : k[1] \in Nat /\ k[2] \in Nat /\ k = <<k[1], k[2]>>
    OBVIOUS
  <1>2. before \in [S -> SUBSET S]
    OBVIOUS
  <1>3. \A x \in S : ~KeyLess(x, x)
    BY <1>1 DEF KeyLess
  <1>4. \A x, y, z \in S : KeyLess(x, y) /\ KeyLess(y, z) => KeyLess(x, z)
    BY <1>1 DEF KeyLess
  <1>5. \A x, y \in S : x = y \/ KeyLess(x, y) \/ KeyLess(y, x)
    <2> SUFFICES ASSUME NEW x \in S, NEW y \in S, ~KeyLess(x, y), ~KeyLess(y, x)
                 PROVE  x = y
      OBVIOUS
    <2>1. x[1] = y[1] /\ x[2] = y[2]
      BY <1>1 DEF KeyLess
    <2> QED BY <1>1, <2>1
  <1>6. \A x \in S : x \notin before[x]
    BY <1>3
  <1>7. \A x, y \in S : y \in before[x] => before[y] \subseteq before[x]
    BY <1>4
  <1>8. \A x, y \in S : x = y \/ x \in before[y] \/ y \in before[x]
    BY <1>5
  <1> HIDE DEF before
  <1>9. Ordered(S, before)
    BY <1>2, <1>6, <1>7, <1>8 DEF Ordered
  <1> QED BY <1>9 DEF before

LEMMA RowsOrdered ==
  ASSUME NEW S \in SUBSET (Int \X Nat \X Nat)
  PROVE  Ordered(S, [b \in S |-> {a \in S : RowLess(a, b)}])
  <1> DEFINE before == [b \in S |-> {a \in S : RowLess(a, b)}]
  <1>1. \A k \in S : k[1] \in Int /\ k[2] \in Nat /\ k[3] \in Nat /\ k = <<k[1], k[2], k[3]>>
    OBVIOUS
  <1>0. \A a, b \in S : RowLess(a, b) <=>
            \/ a[1] < b[1]
            \/ a[1] = b[1] /\ a[2] < b[2]
            \/ a[1] = b[1] /\ a[2] = b[2] /\ a[3] < b[3]
    BY DEF RowLess, KeyLess
  <1>2. before \in [S -> SUBSET S]
    OBVIOUS
  <1>3. \A x \in S : ~RowLess(x, x)
    BY <1>0, <1>1
  <1>4. \A x, y, z \in S : RowLess(x, y) /\ RowLess(y, z) => RowLess(x, z)
    BY <1>0, <1>1
  <1>5. \A x, y \in S : x = y \/ RowLess(x, y) \/ RowLess(y, x)
    <2> SUFFICES ASSUME NEW x \in S, NEW y \in S, ~RowLess(x, y), ~RowLess(y, x)
                 PROVE  x = y
      OBVIOUS
    <2>1. x[1] = y[1] /\ x[2] = y[2] /\ x[3] = y[3]
      BY <1>0, <1>1
    <2> QED BY <1>1, <2>1
  <1>6. \A x \in S : x \notin before[x]
    BY <1>3
  <1>7. \A x, y \in S : y \in before[x] => before[y] \subseteq before[x]
    BY <1>4
  <1>8. \A x, y \in S : x = y \/ x \in before[y] \/ y \in before[x]
    BY <1>5
  <1> HIDE DEF before
  <1>9. Ordered(S, before)
    BY <1>2, <1>6, <1>7, <1>8 DEF Ordered
  <1> QED BY <1>9 DEF before

\* A client that follows the pages, by the size the server reports, reads the list.
LEMMA FollowedList ==
  ASSUME NEW S, NEW s \in Seq(S), NEW limit \in Int, NEW parts,
         parts = [n \in 1 .. Len(s) + 1 |->
                    PageOf(s, PageNew(limit, (n - 1) * PageNew(limit, 0).limit))]
  PROVE  FlattenSeq(parts) = s
  <1> DEFINE size == PageNew(limit, 0).limit
  <1>1. size \in Nat \ {0}
    BY PageFacts, PageAssumption
  <1>2. \A o \in Nat : PageNew(limit, o) = [limit |-> size, offset |-> o]
    BY DEF PageNew, OrElse, None
  <1> HIDE DEF size
  <1>3. \A n \in 1 .. Len(s) + 1 : (n - 1) * size \in Nat
    BY <1>1
  <1>4. parts = [n \in 1 .. Len(s) + 1 |-> PageOf(s, [limit |-> size, offset |-> (n - 1) * size])]
    BY <1>2, <1>3 DEF size
  <1> QED BY <1>1, <1>4, PagesOfList

-----------------------------------------------------------------------------
(* Stores. *)

\* What the store guarantees its readers: every block's parent is on record,
\* the cache holds every parent once, and a parent has an LTC height exactly
\* when it is on Litecoin's main chain (state 1).
StoreOK(st) ==
    /\ DOMAIN st.blocks \in SUBSET (Nat \X (0 .. MaxU64)) /\ IsFiniteSet(DOMAIN st.blocks)
    /\ IsFiniteSet(DOMAIN st.parents)
    /\ \A k \in DOMAIN st.blocks : st.blocks[k] \in DOMAIN st.parents
    /\ st.order \in Seq(DOMAIN st.parents)
    /\ \A i, j \in DOMAIN st.order : st.order[i] = st.order[j] => i = j
    /\ \A p \in DOMAIN st.parents : \E i \in DOMAIN st.order : st.order[i] = p
    /\ \A p \in DOMAIN st.parents :
         /\ st.parents[p].ltc \in Nat \cup {None}
         /\ st.parents[p].state = 1 <=> st.parents[p].ltc # None

LEMMA KeyFacts ==
  ASSUME NEW st, StoreOK(st), NEW S \in SUBSET (DOMAIN st.blocks)
  PROVE  /\ IsFiniteSet(S) /\ S \in SUBSET (Nat \X Nat)
         /\ Keys(S) \in Seq(S) /\ Len(Keys(S)) = Cardinality(S)
         /\ \A x \in S : \E i \in 1 .. Cardinality(S) : Keys(S)[i] = x
  <1>1. IsFiniteSet(S)
    BY FS_Subset DEF StoreOK
  <1>2. S \in SUBSET (Nat \X Nat)
    BY PageAssumption DEF StoreOK
  <1> DEFINE before == [k \in S |-> {j \in S : KeyLess(j, k)}]
  <1>3. Ordered(S, before)
    BY <1>2, KeysOrdered
  <1> HIDE DEF before
  <1>4. /\ InOrder(S, before) \in Seq(S) /\ Len(InOrder(S, before)) = Cardinality(S)
        /\ \A x \in S : \E i \in 1 .. Cardinality(S) : InOrder(S, before)[i] = x
    BY <1>1, <1>3, InOrderFacts
  <1> QED BY <1>1, <1>2, <1>4 DEF Keys, before

LEMMA LegFacts ==
  ASSUME NEW st, StoreOK(st), NEW p, NEW filter
  PROVE  /\ SiblingsOf(st, p) \in SUBSET (DOMAIN st.blocks)
         /\ Legs(st, p, filter) \in SUBSET SiblingsOf(st, p)
         /\ IsFiniteSet(SiblingsOf(st, p)) /\ IsFiniteSet(Legs(st, p, filter))
         /\ Cardinality(Legs(st, p, filter)) \in Nat
  <1>1. SiblingsOf(st, p) \in SUBSET (DOMAIN st.blocks)
    BY DEF SiblingsOf
  <1>2. Legs(st, p, filter) \in SUBSET SiblingsOf(st, p)
    BY DEF Legs
  <1>3. IsFiniteSet(SiblingsOf(st, p))
    BY <1>1, FS_Subset DEF StoreOK
  <1>4. IsFiniteSet(Legs(st, p, filter))
    BY <1>2, <1>3, FS_Subset
  <1>5. Cardinality(Legs(st, p, filter)) \in Nat
    BY <1>4, FS_CardinalityType
  <1> QED BY <1>1, <1>2, <1>3, <1>4, <1>5

\* The groups are those found, each once, whatever the filter.
LEMMA GroupFacts ==
  ASSUME NEW st, StoreOK(st), NEW minLegs, NEW filter
  PROVE  LET found  == Found(st, minLegs, filter)
             groups == Groups(st, minLegs, filter)
         IN  /\ IsFiniteSet(found) /\ found \in SUBSET (1 .. Len(st.order))
             /\ Cardinality(found) \in 0 .. Len(st.order)
             /\ groups \in Seq({GroupAt(st, i, filter) : i \in found})
             /\ Len(groups) = Cardinality(found)
             /\ \A i \in found : \E n \in 1 .. Len(groups) : groups[n] = GroupAt(st, i, filter)
  <1> DEFINE found  == Found(st, minLegs, filter)
             before == [j \in found |-> {i \in found : GroupLess(st, filter, i, j)}]
             size(i) == Cardinality(Legs(st, st.order[i], filter))
             ltc(i) == st.parents[st.order[i]].ltc
             groups == Groups(st, minLegs, filter)
             list == InOrder(found, before)
             N == Cardinality(found)
  <1>1. found \in SUBSET (1 .. Len(st.order)) /\ Len(st.order) \in Nat
    BY DEF Found, StoreOK
  <1>2. IsFiniteSet(1 .. Len(st.order)) /\ Cardinality(1 .. Len(st.order)) = Len(st.order)
    <2>1. 1 \in Int /\ Len(st.order) \in Int
      BY <1>1
    <2>2. /\ IsFiniteSet(1 .. Len(st.order))
          /\ Cardinality(1 .. Len(st.order)) = IF 1 > Len(st.order) THEN 0 ELSE Len(st.order) - 1 + 1
      BY <2>1, FS_Interval
    <2> QED BY <1>1, <2>2
  <1>3. IsFiniteSet(found) /\ Cardinality(found) <= Len(st.order)
    BY <1>1, <1>2, FS_Subset
  <1>4. N \in Nat /\ N \in 0 .. Len(st.order)
    BY <1>1, <1>3, FS_CardinalityType
  <1>5. \A i \in found : i \in Nat /\ size(i) \in Nat /\ ltc(i) \in Int
    <2> SUFFICES ASSUME NEW i \in found PROVE i \in Nat /\ size(i) \in Nat /\ ltc(i) \in Int
      OBVIOUS
    <2>1. i \in Nat /\ st.order[i] \in DOMAIN st.parents
      BY <1>1 DEF StoreOK
    <2>2. ltc(i) \in Int
      BY <2>1 DEF StoreOK, None
    <2> QED BY <2>1, <2>2, LegFacts
  <1>6. \A i, j \in found : GroupLess(st, filter, i, j) <=>
            \/ size(i) > size(j)
            \/ size(i) = size(j) /\ ltc(i) > ltc(j)
            \/ size(i) = size(j) /\ ltc(i) = ltc(j) /\ i < j
    BY DEF GroupLess
  <1>7. Ordered(found, before)
    <2> HIDE DEF size, ltc, found
    <2>1. before \in [found -> SUBSET found]
      OBVIOUS
    <2>2. \A x \in found : ~GroupLess(st, filter, x, x)
      BY <1>5, <1>6
    <2>3. \A x, y, z \in found : GroupLess(st, filter, x, y) /\ GroupLess(st, filter, y, z)
                                   => GroupLess(st, filter, x, z)
      BY <1>5, <1>6
    <2>4. \A x, y \in found : x = y \/ GroupLess(st, filter, x, y) \/ GroupLess(st, filter, y, x)
      BY <1>5, <1>6
    <2>5. \A x \in found : x \notin before[x]
      BY <2>2
    <2>6. \A x, y \in found : y \in before[x] => before[y] \subseteq before[x]
      BY <2>3
    <2>7. \A x, y \in found : x = y \/ x \in before[y] \/ y \in before[x]
      BY <2>4
    <2> HIDE DEF before
    <2> QED BY <2>1, <2>5, <2>6, <2>7 DEF Ordered
  <1>8. groups = [i \in 1 .. N |-> GroupAt(st, list[i], filter)]
    BY DEF Groups
  <1> HIDE DEF found, before, groups
  <1>9. /\ list \in Seq(found) /\ Len(list) = N
        /\ \A x \in found : \E i \in 1 .. N : list[i] = x
    BY <1>3, <1>7, InOrderFacts
  <1> HIDE DEF list, N
  <1>10. \A i \in 1 .. N : list[i] \in found
    BY <1>9
  <1>11. groups \in Seq({GroupAt(st, i, filter) : i \in found}) /\ Len(groups) = N
    BY <1>4, <1>8, <1>10
  <1>12. \A i \in found : \E n \in 1 .. N : groups[n] = GroupAt(st, i, filter)
    <2> SUFFICES ASSUME NEW i \in found PROVE \E n \in 1 .. N : groups[n] = GroupAt(st, i, filter)
      OBVIOUS
    <2>1. PICK n \in 1 .. N : list[n] = i
      BY <1>9
    <2> QED BY <1>8, <2>1
  <1> QED BY <1>1, <1>3, <1>4, <1>11, <1>12 DEF found, groups, N

LEMMA ImageSize ==
  ASSUME NEW S, IsFiniteSet(S), NEW f, NEW T, T = {f[x] : x \in S}
  PROVE  /\ IsFiniteSet(T) /\ Cardinality(T) <= Cardinality(S)
         /\ (\A x, y \in S : f[x] = f[y] => x = y) => Cardinality(T) = Cardinality(S)
  <1> DEFINE g == [x \in S |-> f[x]]
  <1>1. g \in [S -> T] /\ (\A t \in T : \E x \in S : g[x] = t)
    OBVIOUS
  <1>2. (\A x, y \in S : f[x] = f[y] => x = y) => \A x, y \in S : g[x] = g[y] => x = y
    OBVIOUS
  <1> HIDE DEF g
  <1>3. g \in Surjection(S, T)
    BY <1>1 DEF Surjection
  <1>4. (\A x, y \in S : f[x] = f[y] => x = y) => g \in Injection(S, T)
    BY <1>1, <1>2 DEF Injection, IsInjective
  <1> QED BY <1>3, <1>4, FS_Surjection

EpochList(st, start, end, filter) ==
    LET rows == EpochRows(st, start, end, filter)
    IN  InOrder(rows, [b \in rows |-> {a \in rows : RowLess(a, b)}])

\* The rows of an epoch, in their order, are each a stored block of the window.
LEMMA EpochFacts ==
  ASSUME NEW st, StoreOK(st), NEW start, NEW end, NEW filter
  PROVE  LET rows == EpochRows(st, start, end, filter)
             list == EpochList(st, start, end, filter)
         IN  /\ IsFiniteSet(rows) /\ Cardinality(rows) \in Nat
             /\ Cardinality(rows) <= Cardinality(DOMAIN st.blocks)
             /\ list \in Seq(rows) /\ Len(list) = Cardinality(rows)
             /\ \A x \in rows : \E i \in 1 .. Cardinality(rows) : list[i] = x
  <1> DEFINE ltc(k) == st.parents[st.blocks[k]].ltc
             K == {x \in DOMAIN st.blocks :
                     /\ ltc(x) # None /\ InEpoch(ltc(x), start, end)
                     /\ filter \in {None, x[1]}}
             f == [k \in DOMAIN st.blocks |-> <<ltc(k), k[1], k[2]>>]
             rows == EpochRows(st, start, end, filter)
             before == [b \in rows |-> {a \in rows : RowLess(a, b)}]
  <1>1. K \in SUBSET (DOMAIN st.blocks) /\ IsFiniteSet(K)
        /\ Cardinality(K) <= Cardinality(DOMAIN st.blocks)
    <2>1. K \in SUBSET (DOMAIN st.blocks)
      OBVIOUS
    <2> HIDE DEF K
    <2> QED BY <2>1, FS_Subset DEF StoreOK
  <1>2. rows = {f[k] : k \in K}
    <2>1. rows = {<<ltc(k), k[1], k[2]>> : k \in K}
      BY DEF EpochRows
    <2>2. \A k \in K : f[k] = <<ltc(k), k[1], k[2]>>
      OBVIOUS
    <2> HIDE DEF f, rows, K
    <2> QED BY <2>1, <2>2
  <1>3. \A k \in DOMAIN st.blocks : f[k] \in Int \X Nat \X Nat
    <2> SUFFICES ASSUME NEW k \in DOMAIN st.blocks PROVE <<ltc(k), k[1], k[2]>> \in Int \X Nat \X Nat
      OBVIOUS
    <2>1. ltc(k) \in Int
      BY DEF StoreOK, None
    <2>2. k \in Nat \X (0 .. MaxU64)
      BY DEF StoreOK
    <2>3. k[1] \in Nat /\ k[2] \in Nat
      BY <2>2, PageAssumption
    <2> QED BY <2>1, <2>3
  <1> HIDE DEF f, K, rows
  <1>4. rows \in SUBSET (Int \X Nat \X Nat)
    BY <1>1, <1>2, <1>3
  <1>5. IsFiniteSet(rows) /\ Cardinality(rows) <= Cardinality(K)
    BY <1>1, <1>2, ImageSize
  <1>6. Cardinality(rows) \in Nat /\ Cardinality(K) \in Nat /\ Cardinality(DOMAIN st.blocks) \in Nat
    BY <1>1, <1>5, FS_CardinalityType DEF StoreOK
  <1>7. Ordered(rows, before)
    BY <1>4, RowsOrdered
  <1> HIDE DEF before
  <1>8. /\ InOrder(rows, before) \in Seq(rows) /\ Len(InOrder(rows, before)) = Cardinality(rows)
        /\ \A x \in rows : \E i \in 1 .. Cardinality(rows) : InOrder(rows, before)[i] = x
    BY <1>5, <1>7, InOrderFacts
  <1>9. Cardinality(rows) <= Cardinality(DOMAIN st.blocks)
    BY <1>1, <1>5, <1>6
  <1> QED BY <1>5, <1>6, <1>8, <1>9 DEF rows, before, EpochList

\* The chains that have a stored block.
ChainsOf(st) == {k[1] : k \in DOMAIN st.blocks}

\* A chain has as many blocks as heights.
LEMMA ChainFacts ==
  ASSUME NEW st, StoreOK(st), NEW chain \in ChainsOf(st)
  PROVE  /\ chain \in Nat /\ chain # None
         /\ ChainsHandler(st, chain).blocks = Cardinality({k \in DOMAIN st.blocks : k[1] = chain})
         /\ {k \in DOMAIN st.blocks : k[1] = chain /\ k[2] \in 0 .. MaxU64}
              = {k \in DOMAIN st.blocks : k[1] = chain}
  <1> DEFINE K == {k \in DOMAIN st.blocks : k[1] = chain}
             heights == {k[2] : k \in K}
             f == [k \in DOMAIN st.blocks |-> k[2]]
  <1>1. \A k \in DOMAIN st.blocks : /\ k[1] \in Nat /\ k[2] \in 0 .. MaxU64
                                    /\ k = <<k[1], k[2]>>
    BY DEF StoreOK
  <1>2. chain \in Nat /\ chain # None
    BY <1>1 DEF None, ChainsOf
  <1>3. {k \in DOMAIN st.blocks : k[1] = chain /\ k[2] \in 0 .. MaxU64} = K
    BY <1>1
  <1>4. ChainsHandler(st, chain).blocks = Cardinality(heights)
    BY DEF ChainsHandler, Stats, ChainsOf
  <1>5. heights = {f[k] : k \in K} /\ \A x, y \in K : f[x] = f[y] => x = y
    <2>1. \A k \in K : f[k] = k[2]
      OBVIOUS
    <2>2. \A x, y \in K : x[2] = y[2] => x = y
      BY <1>1
    <2> HIDE DEF f, K
    <2> QED BY <2>1, <2>2
  <1>6. IsFiniteSet(K)
    <2>1. K \in SUBSET (DOMAIN st.blocks)
      OBVIOUS
    <2> HIDE DEF K
    <2> QED BY <2>1, FS_Subset DEF StoreOK
  <1>7. Cardinality(heights) = Cardinality(K)
    <2> HIDE DEF heights, f, K
    <2> QED BY <1>5, <1>6, ImageSize
  <1> QED BY <1>2, <1>3, <1>4, <1>7

LEMMA SiblingPages ==
  ASSUME NEW st, StoreOK(st), NEW limit \in Int, NEW chain
  PROVE  Followed(LAMBDA l, o : SiblingsHandler(st, 1, chain, l, o), limit) = Groups(st, 1, chain)
  <1> DEFINE s == Groups(st, 1, chain)
             X == {GroupAt(st, i, chain) : i \in Found(st, 1, chain)}
             size == PageNew(limit, 0).limit
             parts == [n \in 1 .. Len(s) + 1 |-> PageOf(s, PageNew(limit, (n - 1) * size))]
  <1>1. s \in Seq(X)
    BY GroupFacts
  <1>2. OrElse(1, 2) = 1
    BY DEF OrElse, None
  <1>3. \A o : SiblingsHandler(st, 1, chain, limit, o) = [items |-> PageOf(s, PageNew(limit, o)), total |-> Len(s)]
    BY <1>2 DEF SiblingsHandler, SharedMainnetParents
  <1>4. Followed(LAMBDA l, o : SiblingsHandler(st, 1, chain, l, o), limit) = FlattenSeq(parts)
    <2>1. Followed(LAMBDA l, o : SiblingsHandler(st, 1, chain, l, o), limit)
            = FlattenSeq([n \in 1 .. SiblingsHandler(st, 1, chain, limit, 0).total + 1 |->
                            SiblingsHandler(st, 1, chain, limit, (n - 1) * size).items])
      BY DEF Followed
    <2> HIDE DEF s, size
    <2>2. [n \in 1 .. SiblingsHandler(st, 1, chain, limit, 0).total + 1 |->
                            SiblingsHandler(st, 1, chain, limit, (n - 1) * size).items] = parts
      BY <1>3
    <2> QED BY <2>1, <2>2
  <1> HIDE DEF s, X
  <1>5. FlattenSeq(parts) = s
    BY <1>1, FollowedList
  <1> QED BY <1>4, <1>5 DEF s

LEMMA EpochPages ==
  ASSUME NEW st, StoreOK(st), Cardinality(DOMAIN st.blocks) <= MaxU64,
         NEW limit \in Int, NEW chain
  PROVE  LET all == EpochBlocks(st, 0, MaxRange, chain, [limit |-> MaxU64, offset |-> 0])
         IN  /\ Len(all.items) = all.total
             /\ Followed(LAMBDA l, o : EpochHandler(st, 0, MaxRange, chain, l, o), limit) = all.items
  <1> DEFINE rows == EpochRows(st, 0, MaxRange, chain)
             s == EpochList(st, 0, MaxRange, chain)
             size == PageNew(limit, 0).limit
             parts == [n \in 1 .. Len(s) + 1 |-> PageOf(s, PageNew(limit, (n - 1) * size))]
             all == EpochBlocks(st, 0, MaxRange, chain, [limit |-> MaxU64, offset |-> 0])
  <1>1. s \in Seq(rows) /\ Len(s) = Cardinality(rows) /\ Cardinality(rows) \in Nat
        /\ Cardinality(rows) <= Cardinality(DOMAIN st.blocks)
    BY EpochFacts
  <1>2. Cardinality(DOMAIN st.blocks) \in Nat /\ MaxU64 \in Nat /\ MaxRange \in Nat
    BY FS_CardinalityType, PageAssumption DEF StoreOK
  <1>3. \A o : EpochHandler(st, 0, MaxRange, chain, limit, o)
                 = [items |-> PageOf(s, PageNew(limit, o)), total |-> Cardinality(rows)]
    BY <1>2 DEF EpochHandler, EpochBlocks, EpochList
  <1>4. all = [items |-> PageOf(s, [limit |-> MaxU64, offset |-> 0]), total |-> Cardinality(rows)]
    BY DEF EpochBlocks, EpochList
  <1>5. Followed(LAMBDA l, o : EpochHandler(st, 0, MaxRange, chain, l, o), limit)
            = FlattenSeq([n \in 1 .. EpochHandler(st, 0, MaxRange, chain, limit, 0).total + 1 |->
                            EpochHandler(st, 0, MaxRange, chain, limit, (n - 1) * size).items])
    BY DEF Followed
  <1> HIDE DEF s, rows, size, all
  <1>6. [n \in 1 .. EpochHandler(st, 0, MaxRange, chain, limit, 0).total + 1 |->
           EpochHandler(st, 0, MaxRange, chain, limit, (n - 1) * size).items] = parts
    BY <1>1, <1>3
  <1>7. FlattenSeq(parts) = s
    BY <1>1, FollowedList DEF size
  <1>8. Len(s) <= MaxU64
    BY <1>1, <1>2
  <1>9. PageOf(s, [limit |-> MaxU64, offset |-> 0]) = s
    BY <1>1, <1>2, <1>8, OnePage
  <1>10. Len(all.items) = all.total /\ all.items = s
    BY <1>1, <1>4, <1>9
  <1> QED BY <1>5, <1>6, <1>7, <1>10 DEF all

\* The blocks of a chain: read page by page, and as they are stored.
BlocksFollowed(st, chain, limit) ==
    Followed(LAMBDA l, o : [items |-> BlocksHandler(st, chain, None, None, l, o),
                            total |-> ChainsHandler(st, chain).blocks], limit)
BlocksStored(st, chain) ==
    LET keys == Keys({k \in DOMAIN st.blocks : k[1] = chain})
    IN  [i \in DOMAIN keys |-> BlockFromStored(st, keys[i])]

LEMMA BlockPages ==
  ASSUME NEW st, StoreOK(st), NEW limit \in Int,
         NEW chain \in ChainsOf(st)
  PROVE  BlocksFollowed(st, chain, limit) = BlocksStored(st, chain)
  <1> DEFINE K == {k \in DOMAIN st.blocks : k[1] = chain}
             s == Keys(K)
             f == [k \in K |-> BlockFromStored(st, k)]
             T == {f[k] : k \in K}
             answers == [i \in DOMAIN s |-> f[s[i]]]
             size == PageNew(limit, 0).limit
             parts == [n \in 1 .. Len(answers) + 1 |-> PageOf(answers, PageNew(limit, (n - 1) * size))]
             total == ChainsHandler(st, chain).blocks
  <1>1. K \in SUBSET (DOMAIN st.blocks)
    OBVIOUS
  <1>2. s \in Seq(K) /\ Len(s) = Cardinality(K)
    <2> HIDE DEF K
    <2> QED BY <1>1, KeyFacts
  <1>3. total = Cardinality(K) /\ chain # None
        /\ {k \in DOMAIN st.blocks : k[1] = chain /\ k[2] \in 0 .. MaxU64} = K
    BY ChainFacts
  <1>4. f \in [K -> T]
    OBVIOUS
  <1>5. \A o : BlocksHandler(st, chain, None, None, limit, o)
               = LET keys == PageOf(s, PageNew(limit, o))
                 IN  [i \in DOMAIN keys |-> BlockFromStored(st, keys[i])]
    BY <1>3 DEF BlocksHandler, BlocksRange, OrElse, None
  <1>6. size \in Nat \ {0} /\ \A o \in Nat : PageNew(limit, o) = [limit |-> size, offset |-> o]
    <2>1. size \in Nat \ {0}
      BY PageFacts, PageAssumption
    <2>2. \A o \in Nat : PageNew(limit, o) = [limit |-> size, offset |-> o]
      BY DEF PageNew, OrElse, None
    <2> QED BY <2>1, <2>2
  <1>7. BlocksFollowed(st, chain, limit)
          = FlattenSeq([n \in 1 .. total + 1 |->
                           BlocksHandler(st, chain, None, None, limit, (n - 1) * size)])
    BY DEF Followed, BlocksFollowed
  <1>8. \A k \in K : f[k] = BlockFromStored(st, k)
    OBVIOUS
  <1> HIDE DEF K, s, f, size, T, total
  <1>9. answers \in Seq(T) /\ Len(answers) = Len(s) /\ Len(s) \in Nat
    BY <1>2, <1>4
  <1>10. ASSUME NEW o \in Nat
         PROVE  BlocksHandler(st, chain, None, None, limit, o) = PageOf(answers, PageNew(limit, o))
    <2> DEFINE page == PageOf(s, [limit |-> size, offset |-> o])
    <2>1. BlocksHandler(st, chain, None, None, limit, o)
            = [i \in DOMAIN page |-> BlockFromStored(st, page[i])]
      BY <1>5, <1>6
    <2>2. \A i \in DOMAIN page : page[i] \in K
      <3> DEFINE m == o + 1
                 e == Min({o + size, Len(s)})
      <3>1. m \in Int /\ m >= 1 /\ e \in Int /\ e <= Len(s)
        BY <1>6, <1>9, MinPair
      <3>2. page = SubSeq(s, m, e)
        BY DEF PageOf
      <3> HIDE DEF m, e, page
      <3>3. \A i \in m .. e : s[i] \in K
        BY <1>2, <3>1
      <3>4. page \in Seq(K)
        BY <3>1, <3>2, <3>3, SubSeqProperties
      <3> QED BY <3>4
    <2> HIDE DEF page
    <2>3. [i \in DOMAIN page |-> BlockFromStored(st, page[i])] = [i \in DOMAIN page |-> f[page[i]]]
      BY <1>8, <2>2
    <2>4. size \in Nat /\ page = PageOf(s, [limit |-> size, offset |-> o])
      BY <1>6 DEF page
    <2>5. [i \in DOMAIN page |-> f[page[i]]] = PageOf(answers, [limit |-> size, offset |-> o])
      <3> DEFINE N == Len(s)
                 m == o + 1
                 e == Min({o + size, N})
      <3>1. N \in Nat /\ m \in Int /\ m >= 1 /\ e \in Int /\ e <= N
        BY <1>2, <1>6, MinPair
      <3>2. answers \in Seq(T) /\ Len(answers) = N
        BY <1>9
      <3>3. page = SubSeq(s, m, e) /\ PageOf(answers, [limit |-> size, offset |-> o]) = SubSeq(answers, m, e)
        BY <2>4, <3>2 DEF PageOf
      <3> HIDE DEF N, m, e
      <3>4. \A i \in m .. e : s[i] \in K /\ answers[i] \in T /\ answers[i] = f[s[i]]
        BY <1>2, <1>4, <3>1 DEF N
      <3>5. /\ SubSeq(s, m, e) \in Seq(K)
            /\ Len(SubSeq(s, m, e)) = IF m <= e THEN e - m + 1 ELSE 0
            /\ \A i \in 1 .. e - m + 1 : SubSeq(s, m, e)[i] = s[m + i - 1]
        <4>1. m \in Int /\ e \in Int /\ \A i \in m .. e : s[i] \in K
          BY <3>1, <3>4
        <4>2. SubSeq(s, m, e) \in Seq(K)
          BY <4>1, SubSeqProperties
        <4>3. Len(SubSeq(s, m, e)) = IF m <= e THEN e - m + 1 ELSE 0
          BY <4>1, SubSeqProperties
        <4>4. \A i \in 1 .. e - m + 1 : SubSeq(s, m, e)[i] = s[m + i - 1]
          BY <4>1, SubSeqProperties
        <4> QED BY <4>2, <4>3, <4>4
      <3>6. /\ SubSeq(answers, m, e) \in Seq(T)
            /\ Len(SubSeq(answers, m, e)) = IF m <= e THEN e - m + 1 ELSE 0
            /\ \A i \in 1 .. e - m + 1 : SubSeq(answers, m, e)[i] = answers[m + i - 1]
        BY <3>1, <3>4, SubSeqProperties
      <3> DEFINE p == SubSeq(s, m, e)
                 q == SubSeq(answers, m, e)
      <3> HIDE DEF p, q
      <3>7. DOMAIN p = 1 .. Len(p) /\ DOMAIN q = 1 .. Len(q) /\ Len(p) = Len(q)
        BY <3>5, <3>6 DEF p, q
      <3>8. \A i \in 1 .. Len(p) : f[p[i]] = q[i]
        <4> SUFFICES ASSUME NEW i \in 1 .. Len(p) PROVE f[p[i]] = q[i]
          OBVIOUS
        <4>1. i \in 1 .. e - m + 1 /\ m + i - 1 \in m .. e
          BY <3>1, <3>5 DEF p
        <4>2. p[i] = s[m + i - 1] /\ q[i] = answers[m + i - 1]
          BY <3>5, <3>6, <4>1 DEF p, q
        <4> QED BY <3>4, <4>1, <4>2
      <3>9. q = [i \in 1 .. Len(q) |-> q[i]]
        BY <3>6 DEF q
      <3>10. [i \in DOMAIN p |-> f[p[i]]] = q
        BY <3>7, <3>8, <3>9
      <3> QED BY <3>3, <3>10 DEF p, q
    <2> QED BY <1>6, <2>1, <2>3, <2>5
  <1>11. [n \in 1 .. total + 1 |-> BlocksHandler(st, chain, None, None, limit, (n - 1) * size)] = parts
    <2>1. total = Len(answers)
      BY <1>2, <1>3, <1>9
    <2>2. \A n \in 1 .. total + 1 : (n - 1) * size \in Nat
      BY <1>6, <1>9, <2>1
    <2> HIDE DEF answers
    <2> QED BY <1>10, <2>1, <2>2
  <1>12. FlattenSeq(parts) = answers
    <2> HIDE DEF answers
    <2> QED BY <1>9, FollowedList DEF size
  <1>13. answers = [i \in DOMAIN s |-> BlockFromStored(st, s[i])]
    BY <1>2, <1>8
  <1> QED BY <1>7, <1>11, <1>12, <1>13 DEF s, K, BlocksStored

LEMMA PagesPartitionLemma ==
  ASSUME NEW st, StoreOK(st), Cardinality(DOMAIN st.blocks) <= MaxU64,
         NEW limits \in SUBSET Int
  PROVE  PagesPartitionFor(st, limits)
  <1> SUFFICES ASSUME NEW limit \in limits,
                      NEW chain \in {None} \cup ChainsOf(st)
      PROVE
        /\ Followed(LAMBDA l, o : SiblingsHandler(st, 1, chain, l, o), limit)
             = Groups(st, 1, chain)
        /\ LET all == EpochBlocks(st, 0, MaxRange, chain,
                                  [limit |-> MaxU64, offset |-> 0])
           IN  /\ Len(all.items) = all.total
               /\ Followed(LAMBDA l, o : EpochHandler(st, 0, MaxRange, chain, l, o), limit)
                    = all.items
        /\ chain # None => BlocksFollowed(st, chain, limit) = BlocksStored(st, chain)
    BY DEF PagesPartitionFor, ChainsOf, BlocksFollowed, BlocksStored
  <1>1. limit \in Int /\ (chain # None => chain \in ChainsOf(st))
    BY DEF ChainsOf
  <1>2. Followed(LAMBDA l, o : SiblingsHandler(st, 1, chain, l, o), limit) = Groups(st, 1, chain)
    BY <1>1, SiblingPages
  <1>3. LET all == EpochBlocks(st, 0, MaxRange, chain, [limit |-> MaxU64, offset |-> 0])
        IN  /\ Len(all.items) = all.total
            /\ Followed(LAMBDA l, o : EpochHandler(st, 0, MaxRange, chain, l, o), limit) = all.items
    BY <1>1, EpochPages
  <1>4. chain # None => BlocksFollowed(st, chain, limit) = BlocksStored(st, chain)
    BY <1>1, BlockPages
  <1> QED BY <1>2, <1>3, <1>4

-----------------------------------------------------------------------------
(* Legs and groups. *)

\* The siblings of a chain have a lowest one, which is the chain's leg.
LEMMA LegOfChain ==
  ASSUME NEW st, StoreOK(st), NEW p, NEW k \in SiblingsOf(st, p)
  PROVE  \E leg \in Legs(st, p, None) : leg[1] = k[1]
  <1> DEFINE H == {n \in Nat : \E j \in SiblingsOf(st, p) : j[1] = k[1] /\ j[2] = n}
  <1>1. \A j \in SiblingsOf(st, p) : j[1] \in Nat /\ j[2] \in Nat
    BY PageAssumption DEF StoreOK, SiblingsOf
  <1>2. H \in SUBSET Nat /\ H # {}
    BY <1>1
  <1>3. PICK n \in H : \A m \in H : n <= m
    <2> HIDE DEF H
    <2> QED BY <1>2, LeastNumber
  <1>4. PICK j \in SiblingsOf(st, p) : j[1] = k[1] /\ j[2] = n
    OBVIOUS
  <1>5. \A i \in SiblingsOf(st, p) : i[1] = j[1] => i[2] >= j[2]
    <2> SUFFICES ASSUME NEW i \in SiblingsOf(st, p), i[1] = j[1] PROVE i[2] >= j[2]
      OBVIOUS
    <2>1. i[2] \in H
      BY <1>1, <1>4
    <2> QED BY <1>1, <1>3, <1>4, <2>1
  <1>6. j \in Legs(st, p, None)
    BY <1>5 DEF Legs
  <1> QED BY <1>4, <1>6

\* A parent has one leg for each chain with a sibling.
LEMMA LegsCountChains ==
  ASSUME NEW st, StoreOK(st), NEW p
  PROVE  Cardinality({k[1] : k \in SiblingsOf(st, p)}) = Cardinality(Legs(st, p, None))
  <1> DEFINE L == Legs(st, p, None)
             f == [k \in L |-> k[1]]
             T == {k[1] : k \in SiblingsOf(st, p)}
  <1>1. IsFiniteSet(L) /\ L \in SUBSET SiblingsOf(st, p)
    BY LegFacts
  <1>2. \A k \in SiblingsOf(st, p) : k[1] \in Nat /\ k[2] \in Nat /\ k = <<k[1], k[2]>>
    BY PageAssumption DEF StoreOK, SiblingsOf
  <1>3. \A x, y \in L : x[1] = y[1] => x = y
    <2> SUFFICES ASSUME NEW x \in L, NEW y \in L, x[1] = y[1] PROVE x = y
      OBVIOUS
    <2>1. x[2] >= y[2] /\ y[2] >= x[2]
      BY <1>1 DEF Legs
    <2> QED BY <1>1, <1>2, <2>1
  <1>4. \A k \in SiblingsOf(st, p) : \E leg \in L : leg[1] = k[1]
    BY LegOfChain
  <1> HIDE DEF L
  <1>5. \A k \in L : f[k] = k[1]
    OBVIOUS
  <1>6. T = {f[k] : k \in L}
    <2> HIDE DEF f
    <2> QED BY <1>1, <1>4, <1>5
  <1>7. \A x, y \in L : f[x] = f[y] => x = y
    BY <1>3
  <1> HIDE DEF T, f
  <1>8. Cardinality(T) = Cardinality(L)
    BY <1>1, <1>6, <1>7, ImageSize
  <1> QED BY <1>8 DEF T, L

\* Two siblings of different chains make a group.
LEMMA TwoLegs ==
  ASSUME NEW st, StoreOK(st), NEW p,
         NEW a \in SiblingsOf(st, p), NEW b \in SiblingsOf(st, p), a[1] # b[1]
  PROVE  /\ Cardinality(Legs(st, p, None)) >= 2
         /\ {a[1], b[1]} \subseteq {leg[1] : leg \in Legs(st, p, None)}
  <1>1. PICK x \in Legs(st, p, None) : x[1] = a[1]
    BY LegOfChain
  <1>2. PICK y \in Legs(st, p, None) : y[1] = b[1]
    BY LegOfChain
  <1>3. x # y
    BY <1>1, <1>2
  <1> DEFINE L == Legs(st, p, None)
  <1>4. IsFiniteSet(L) /\ Cardinality(L) \in Nat
    BY LegFacts
  <1>5. IsFiniteSet({x}) /\ Cardinality({x}) = 1
    BY FS_Singleton
  <1>6. Cardinality({x} \cup {y}) = 1 + 1
    <2> DEFINE X == {x}
    <2>1. IsFiniteSet(X) /\ Cardinality(X) = 1 /\ y \notin X
      BY <1>3, <1>5
    <2> HIDE DEF X
    <2>2. Cardinality(X \cup {y}) = Cardinality(X) + 1
      BY <2>1, FS_AddElement
    <2> QED BY <2>1, <2>2 DEF X
  <1>7. {x} \cup {y} \in SUBSET L
    OBVIOUS
  <1>8. Cardinality({x} \cup {y}) <= Cardinality(L)
    BY <1>4, <1>7, FS_Subset
  <1>9. Cardinality(L) >= 2
    BY <1>4, <1>6, <1>8
  <1>10. {a[1], b[1]} \subseteq {leg[1] : leg \in L}
    BY <1>1, <1>2
  <1> QED BY <1>9, <1>10

\* The groups stats counts are the groups the list holds.
LEMMA GroupsCounted ==
  ASSUME NEW st, StoreOK(st)
  PROVE  Stats(st).siblingGroups = Len(Groups(st, 2, None))
  <1> DEFINE F == Found(st, 2, None)
             f == [i \in F |-> st.order[i]]
             P == {p \in DOMAIN st.parents :
                     /\ st.parents[p].state = 1
                     /\ Cardinality({k[1] : k \in SiblingsOf(st, p)}) >= 2}
  <1>1. IsFiniteSet(F) /\ Len(Groups(st, 2, None)) = Cardinality(F)
    BY GroupFacts
  <1>2. P = {p \in DOMAIN st.parents :
               st.parents[p].ltc # None /\ Cardinality(Legs(st, p, None)) >= 2}
    <2>1. \A p \in DOMAIN st.parents : st.parents[p].state = 1 <=> st.parents[p].ltc # None
      BY DEF StoreOK
    <2>2. \A p : Cardinality({k[1] : k \in SiblingsOf(st, p)}) = Cardinality(Legs(st, p, None))
      BY LegsCountChains
    <2> QED BY <2>1, <2>2
  <1>3. F = {i \in DOMAIN st.order : st.order[i] \in P}
    <2>1. \A i \in DOMAIN st.order : st.order[i] \in DOMAIN st.parents
      BY DEF StoreOK
    <2> QED BY <1>2, <2>1 DEF Found, Enough
  <1>4. Stats(st).siblingGroups = Cardinality(P)
    BY DEF Stats
  <1>5. \A p \in P : p \in DOMAIN st.parents
    OBVIOUS
  <1> HIDE DEF P, F
  <1>6. P = {f[i] : i \in F}
    <2>1. \A p \in P : \E i \in F : f[i] = p
      <3> SUFFICES ASSUME NEW p \in P PROVE \E i \in F : f[i] = p
        OBVIOUS
      <3>1. PICK i \in DOMAIN st.order : st.order[i] = p
        BY <1>5 DEF StoreOK
      <3>2. i \in F
        BY <1>3, <3>1
      <3> QED BY <3>1, <3>2
    <2>2. \A i \in F : f[i] \in P
      BY <1>3
    <2> HIDE DEF f
    <2> QED BY <2>1, <2>2
  <1>7. \A i, j \in F : f[i] = f[j] => i = j
    BY <1>3 DEF StoreOK
  <1> HIDE DEF f
  <1>8. Cardinality(P) = Cardinality(F)
    BY <1>1, <1>6, <1>7, ImageSize
  <1> QED BY <1>1, <1>4, <1>8

-----------------------------------------------------------------------------
(* One story. *)

LEMMA ParentTells ==
  ASSUME NEW st, StoreOK(st), NEW k \in DOMAIN st.blocks
  PROVE  ParentTellsOf(st, k)
  <1> DEFINE p == st.blocks[k]
             S == SiblingsOf(st, p)
             s == Keys(S)
             N == Cardinality(S)
             block == BlockDetailHandler(st, k)
             parent == SiblingDetailHandler(st, p)
  <1>1. p \in DOMAIN st.parents /\ k \in S
    BY DEF StoreOK, SiblingsOf
  <1>2. block = [key |-> k, parent |-> p, ltc |-> st.parents[p].ltc, state |-> st.parents[p].state]
    BY DEF BlockDetailHandler, BlockFromStored
  <1>3. parent = [ltc |-> st.parents[p].ltc, state |-> st.parents[p].state,
                  count |-> N, siblings |-> PageOf(s, PageDefault)]
    BY <1>1 DEF SiblingDetailHandler, SiblingBlocksRange
  <1>4. /\ IsFiniteSet(S) /\ s \in Seq(S) /\ Len(s) = N
        /\ \A x \in S : \E i \in 1 .. N : s[i] = x
    <2>1. S \in SUBSET (DOMAIN st.blocks)
      BY LegFacts
    <2> HIDE DEF S
    <2> QED BY <2>1, KeyFacts
  <1>5. N \in Nat /\ DefaultLimit \in Nat /\ DefaultLimit >= 1
    BY <1>4, FS_CardinalityType, PageAssumption
  <1> DEFINE e == Min({0 + DefaultLimit, N})
  <1>6. PageOf(s, PageDefault) = SubSeq(s, 0 + 1, e)
    BY <1>4 DEF PageOf, PageDefault
  <1>7. e = (IF DefaultLimit <= N THEN DefaultLimit ELSE N) /\ e = Min({N, DefaultLimit})
    <2> HIDE DEF N
    <2> QED BY <1>5, MinPair
  <1> HIDE DEF p, S, s, N, block, parent, e
  <1>8. e \in Int /\ e <= N /\ e >= 0
    BY <1>5, <1>7
  <1>9. Len(PageOf(s, PageDefault)) = e
    <2>1. 0 + 1 \in Int /\ \A i \in 0 + 1 .. e : s[i] \in S
      BY <1>4, <1>5, <1>8
    <2>2. Len(SubSeq(s, 0 + 1, e)) = IF 0 + 1 <= e THEN e - (0 + 1) + 1 ELSE 0
      BY <1>8, <2>1, SubSeqProperties
    <2> QED BY <1>6, <1>8, <2>2
  <1>10. N <= DefaultLimit => k \in ToSet(PageOf(s, PageDefault))
    <2> SUFFICES ASSUME N <= DefaultLimit PROVE k \in ToSet(PageOf(s, PageDefault))
      OBVIOUS
    <2>1. PageOf(s, PageDefault) = s
      BY <1>4, <1>5, OnePage DEF PageDefault
    <2>2. PICK i \in 1 .. N : s[i] = k
      BY <1>1, <1>4
    <2>3. k \in {s[j] : j \in DOMAIN s}
      BY <1>4, <2>2
    <2> QED BY <2>1, <2>3 DEF ToSet
  <1>11. block.parent = p
    BY <1>2
  <1>12. /\ block.ltc = parent.ltc /\ block.state = parent.state
         /\ Len(parent.siblings) = Min({parent.count, DefaultLimit})
         /\ parent.count <= DefaultLimit => k \in ToSet(parent.siblings)
    BY <1>2, <1>3, <1>7, <1>9, <1>10
  <1> QED BY <1>11, <1>12 DEF ParentTellsOf, block, parent

\* The store fits in the pages the questions are asked with.
FitsPage(st) == Cardinality(DOMAIN st.blocks) <= MaxLimit /\ Len(st.order) <= MaxLimit

\* /siblings with the largest page lists every group.
LEMMA AllGroups ==
  ASSUME NEW st, StoreOK(st), FitsPage(st)
  PROVE  SiblingsHandler(st, None, None, MaxLimit, 0).items = Groups(st, 2, None)
  <1> DEFINE s == Groups(st, 2, None)
             X == {GroupAt(st, i, None) : i \in Found(st, 2, None)}
  <1>1. s \in Seq(X) /\ Len(s) = Cardinality(Found(st, 2, None))
        /\ Cardinality(Found(st, 2, None)) \in 0 .. Len(st.order)
    BY GroupFacts
  <1>2. MaxLimit \in Nat /\ MaxLimit >= 1
    BY PageAssumption
  <1>3. PageNew(MaxLimit, 0) = [limit |-> MaxLimit, offset |-> 0]
    BY LargestPage
  <1>4. SiblingsHandler(st, None, None, MaxLimit, 0).items = PageOf(s, [limit |-> MaxLimit, offset |-> 0])
    BY <1>3 DEF SiblingsHandler, SharedMainnetParents, OrElse
  <1>5. Len(st.order) \in Nat
    BY DEF StoreOK
  <1>6. Len(s) <= MaxLimit
    BY <1>1, <1>2, <1>5 DEF FitsPage
  <1> HIDE DEF s, X
  <1>7. PageOf(s, [limit |-> MaxLimit, offset |-> 0]) = s
    BY <1>1, <1>2, <1>6, OnePage
  <1> QED BY <1>4, <1>7 DEF s

LEMMA Prepended ==
  ASSUME NEW h \in Nat, NEW a \in Nat, NEW b \in Nat
  PROVE  <<h>> \o <<a, b>> = <<h, a, b>>
  <1> DEFINE x == <<h>>
             y == <<a, b>>
             z == <<h, a, b>>
  <1>1. x \in Seq(Nat) /\ Len(x) = 1 /\ x[1] = h
    OBVIOUS
  <1>2. y \in Seq(Nat) /\ Len(y) = 2 /\ y[1] = a /\ y[2] = b
    OBVIOUS
  <1>3. z \in Seq(Nat) /\ Len(z) = 3 /\ z[1] = h /\ z[2] = a /\ z[3] = b
    OBVIOUS
  <1> HIDE DEF x, y, z
  <1>4. /\ x \o y \in Seq(Nat) /\ Len(x \o y) = 3
        /\ (x \o y)[1] = h /\ (x \o y)[2] = a /\ (x \o y)[3] = b
    <2>1. /\ x \o y \in Seq(Nat) /\ Len(x \o y) = Len(x) + Len(y)
          /\ \A i \in 1 .. Len(x) + Len(y) :
               (x \o y)[i] = IF i <= Len(x) THEN x[i] ELSE y[i - Len(x)]
      BY <1>1, <1>2, ConcatProperties, Zenon
    <2>2. \A i \in 1 .. 3 : (x \o y)[i] = IF i <= 1 THEN x[i] ELSE y[i - 1]
      BY <1>1, <1>2, <2>1
    <2> QED BY <1>1, <1>2, <2>1, <2>2
  <1>5. \A i \in 1 .. 3 : i = 1 \/ i = 2 \/ i = 3
    OBVIOUS
  <1>6. x \o y = z
    <2> DEFINE w == x \o y
    <2>1. w \in Seq(Nat) /\ Len(w) = 3 /\ \A i \in 1 .. 3 : w[i] = z[i]
      BY <1>3, <1>4, <1>5
    <2> HIDE DEF w
    <2>2. w = z
      BY <1>3, <2>1, SeqEqual
    <2> QED BY <2>2 DEF w
  <1> QED BY <1>6 DEF x, y, z

\* The epoch of one LTC height holds every block of its parents.
LEMMA EpochOfParent ==
  ASSUME NEW st, StoreOK(st), FitsPage(st), NEW h \in Nat,
         NEW k \in DOMAIN st.blocks, st.parents[st.blocks[k]].ltc = h
  PROVE  <<h>> \o k \in ToSet(EpochHandler(st, h, h, None, MaxLimit, 0).items)
  <1> DEFINE rows == EpochRows(st, h, h, None)
             s == EpochList(st, h, h, None)
  <1>1. s \in Seq(rows) /\ Len(s) = Cardinality(rows) /\ Cardinality(rows) \in Nat
        /\ Cardinality(rows) <= Cardinality(DOMAIN st.blocks)
        /\ \A x \in rows : \E i \in 1 .. Cardinality(rows) : s[i] = x
    BY EpochFacts
  <1>2. MaxLimit \in Nat /\ MaxLimit >= 1 /\ MaxRange \in Nat
        /\ Cardinality(DOMAIN st.blocks) \in Nat
    BY PageAssumption, FS_CardinalityType DEF StoreOK
  <1>3. PageNew(MaxLimit, 0) = [limit |-> MaxLimit, offset |-> 0]
    BY LargestPage
  <1>4. EpochHandler(st, h, h, None, MaxLimit, 0).items = PageOf(s, [limit |-> MaxLimit, offset |-> 0])
    <2>1. ~(h > h \/ h - h > MaxRange)
      BY <1>2
    <2> QED BY <1>3, <2>1 DEF EpochHandler, EpochBlocks, EpochList
  <1>5. Len(s) <= MaxLimit
    BY <1>1, <1>2 DEF FitsPage
  <1>6. <<h, k[1], k[2]>> \in rows
    BY DEF EpochRows, InEpoch, None
  <1>7. <<h>> \o k = <<h, k[1], k[2]>>
    <2>1. k \in Nat \X (0 .. MaxU64)
      BY DEF StoreOK
    <2>2. k = <<k[1], k[2]>>
      BY <2>1
    <2>3. <<h>> \o <<k[1], k[2]>> = <<h, k[1], k[2]>>
      BY <2>1, PageAssumption, Prepended
    <2> QED BY <2>2, <2>3
  <1> HIDE DEF rows, s
  <1>8. PageOf(s, [limit |-> MaxLimit, offset |-> 0]) = s
    BY <1>1, <1>2, <1>5, OnePage
  <1> DEFINE x == <<h, k[1], k[2]>>
  <1>9. x \in rows /\ <<h>> \o k = x
    BY <1>6, <1>7
  <1> HIDE DEF x
  <1>10. PICK i \in 1 .. Cardinality(rows) : s[i] = x
    BY <1>1, <1>9
  <1>11. x \in {s[j] : j \in DOMAIN s}
    BY <1>1, <1>10
  <1> QED BY <1>4, <1>8, <1>9, <1>11 DEF ToSet

\* What /cosettle, /siblings and /epoch say of two blocks.
PairAgrees(st, a, b) ==
    LET answer == CosettleHandler(st, a[1], a[2], b[1], b[2])
        groups == SiblingsHandler(st, None, None, MaxLimit, 0).items
        both(g) == /\ g.parent = st.blocks[a] /\ g.parent = st.blocks[b]
                   /\ {a[1], b[1]} \subseteq {leg[1] : leg \in g.legs}
        rows(h) == ToSet(EpochHandler(st, h, h, None, MaxLimit, 0).items)
    IN  /\ (answer.coSettled /\ answer.ltc # None)
              <=> \E i \in DOMAIN groups : both(groups[i])
        /\ answer.coSettled /\ answer.ltc # None =>
              {<<answer.ltc>> \o a, <<answer.ltc>> \o b} \subseteq rows(answer.ltc)

\* /cosettle, /siblings and /epoch agree about two blocks of different chains.
LEMMA PairStory ==
  ASSUME NEW st, StoreOK(st), FitsPage(st),
         NEW a \in DOMAIN st.blocks, NEW b \in DOMAIN st.blocks, a[1] # b[1]
  PROVE  PairAgrees(st, a, b)
  <1> DEFINE p == st.blocks[a]
             ltc == st.parents[p].ltc
             answer == CosettleHandler(st, a[1], a[2], b[1], b[2])
             groups == Groups(st, 2, None)
             both(g) == /\ g.parent = st.blocks[a] /\ g.parent = st.blocks[b]
                        /\ {a[1], b[1]} \subseteq {leg[1] : leg \in g.legs}
             rows(h) == ToSet(EpochHandler(st, h, h, None, MaxLimit, 0).items)
             shared == p = st.blocks[b]
             F == Found(st, 2, None)
  <1>1. a = <<a[1], a[2]>> /\ b = <<b[1], b[2]>> /\ a[2] \in Nat /\ b[2] \in Nat
    BY PageAssumption DEF StoreOK
  <1>2. p \in DOMAIN st.parents /\ ltc \in Nat \cup {None}
    BY DEF StoreOK
  <1>3. OrElse(a[2], LatestHeight(st, a[1])) = a[2] /\ OrElse(b[2], LatestHeight(st, b[1])) = b[2]
    BY <1>1 DEF OrElse, None
  <1>4. answer.coSettled = shared /\ answer.ltc = IF shared THEN ltc ELSE None
    BY <1>1, <1>3 DEF CosettleHandler
  <1>5. SiblingsHandler(st, None, None, MaxLimit, 0).items = groups
    BY AllGroups
  <1>6. /\ groups \in Seq({GroupAt(st, i, None) : i \in F})
        /\ \A i \in F : \E n \in 1 .. Len(groups) : groups[n] = GroupAt(st, i, None)
    BY GroupFacts
  <1> HIDE DEF answer, groups
  <1>7. ASSUME answer.coSettled, answer.ltc # None
        PROVE  /\ \E i \in DOMAIN groups : both(groups[i])
               /\ {<<answer.ltc>> \o a, <<answer.ltc>> \o b} \subseteq rows(answer.ltc)
    <2>1. p = st.blocks[b] /\ answer.ltc = ltc /\ ltc # None /\ ltc \in Nat
      BY <1>2, <1>4, <1>7
    <2>2. a \in SiblingsOf(st, p) /\ b \in SiblingsOf(st, p)
      BY <2>1 DEF SiblingsOf
    <2>3. /\ Cardinality(Legs(st, p, None)) >= 2
          /\ {a[1], b[1]} \subseteq {leg[1] : leg \in Legs(st, p, None)}
      BY <2>2, TwoLegs
    <2>4. PICK i \in DOMAIN st.order : st.order[i] = p
      BY <1>2 DEF StoreOK
    <2>5. i \in F
      BY <2>1, <2>3, <2>4 DEF Found, Enough
    <2>6. PICK n \in 1 .. Len(groups) : groups[n] = GroupAt(st, i, None)
      BY <1>6, <2>5
    <2>7. GroupAt(st, i, None).parent = p /\ GroupAt(st, i, None).legs = Legs(st, p, None)
      BY <2>4 DEF GroupAt
    <2>8. both(groups[n])
      BY <2>1, <2>3, <2>6, <2>7
    <2>9. n \in DOMAIN groups
      BY <1>6, <2>6
    <2>10. <<ltc>> \o a \in rows(ltc) /\ <<ltc>> \o b \in rows(ltc)
      <3>1. st.parents[st.blocks[a]].ltc = ltc /\ st.parents[st.blocks[b]].ltc = ltc
        BY <2>1
      <3> HIDE DEF ltc
      <3> QED BY <2>1, <3>1, EpochOfParent
    <2> HIDE DEF both, rows
    <2>11. \E j \in DOMAIN groups : both(groups[j])
      BY <2>8, <2>9
    <2>12. {<<answer.ltc>> \o a, <<answer.ltc>> \o b} \subseteq rows(answer.ltc)
      BY <2>1, <2>10
    <2> QED BY <2>11, <2>12
  <1>8. ASSUME NEW n \in DOMAIN groups, both(groups[n])
        PROVE  answer.coSettled /\ answer.ltc # None
    <2>1. groups[n] \in {GroupAt(st, i, None) : i \in F}
      BY <1>6
    <2>2. PICK i \in F : groups[n] = GroupAt(st, i, None)
      BY <2>1
    <2>3. groups[n].parent = st.order[i]
      BY <2>2 DEF GroupAt
    <2>4. st.parents[st.order[i]].ltc # None
      BY DEF Found
    <2>5. st.order[i] = p /\ shared
      BY <1>8, <2>3
    <2> QED BY <1>4, <2>4, <2>5
  <1> HIDE DEF both, rows
  <1>9. (answer.coSettled /\ answer.ltc # None) <=> \E i \in DOMAIN groups : both(groups[i])
    BY <1>7, <1>8
  <1>10. answer.coSettled /\ answer.ltc # None =>
           {<<answer.ltc>> \o a, <<answer.ltc>> \o b} \subseteq rows(answer.ltc)
    BY <1>7
  <1> QED BY <1>5, <1>9, <1>10 DEF answer, both, rows, PairAgrees

LEMMA OneStoryLemma ==
  ASSUME NEW st, StoreOK(st), FitsPage(st)
  PROVE  OneStoryFor(st)
  <1>1. \A k \in DOMAIN st.blocks : ParentTellsOf(st, k)
    BY ParentTells
  <1>2. \A a, b \in DOMAIN st.blocks : a[1] # b[1] => PairAgrees(st, a, b)
    BY PairStory
  <1> QED BY <1>1, <1>2, Zenon DEF OneStoryFor, PairAgrees

-----------------------------------------------------------------------------
(* Statistics. *)

\* The blocks of a chain, counted one chain after the other.
SumOf(st, C, iter) ==
    iter = [s \in SUBSET C |->
              IF s = {} THEN 0
              ELSE ChainsHandler(st, CHOOSE x \in s : TRUE).blocks
                     + iter[s \ {CHOOSE x \in s : TRUE}]]

\* The chains' blocks add up to the blocks, in whatever order they are added.
LEMMA BlocksAddUp ==
  ASSUME NEW st, StoreOK(st)
  PROVE  MapThenSumSet(LAMBDA c : ChainsHandler(st, c).blocks, ChainsOf(st))
           = Cardinality(DOMAIN st.blocks)
  <1> DEFINE C == ChainsOf(st)
             B == DOMAIN st.blocks
             In(s) == {k \in B : k[1] \in s}
             next(s) == CHOOSE x \in s : TRUE
             it == [s \in SUBSET C |-> Cardinality(In(s))]
  <1>1. IsFiniteSet(B)
    BY DEF StoreOK
  <1>2. ASSUME NEW s PROVE IsFiniteSet(In(s)) /\ Cardinality(In(s)) \in Nat
    <2>1. In(s) \in SUBSET B
      OBVIOUS
    <2> HIDE DEF In, B
    <2>2. IsFiniteSet(In(s))
      BY <1>1, <2>1, FS_Subset
    <2> QED BY <2>2, FS_CardinalityType
  <1>3. ASSUME NEW s \in SUBSET C, s # {}
        PROVE  /\ next(s) \in s /\ s \ {next(s)} \in SUBSET C
               /\ Cardinality(In(s))
                    = ChainsHandler(st, next(s)).blocks + Cardinality(In(s \ {next(s)}))
    <2> DEFINE x == next(s)
    <2>1. x \in s
      BY <1>3
    <2> HIDE DEF x
    <2>2. ChainsHandler(st, x).blocks = Cardinality({k \in B : k[1] = x})
      BY <2>1, ChainFacts
    <2>3. {k \in B : k[1] = x} = In({x})
      OBVIOUS
    <2>4. In({x}) \cap In(s \ {x}) = {} /\ In({x}) \cup In(s \ {x}) = In(s)
      BY <2>1
    <2> HIDE DEF In
    <2>5. Cardinality(In({x}) \cup In(s \ {x}))
            = Cardinality(In({x})) + Cardinality(In(s \ {x})) - Cardinality(In({x}) \cap In(s \ {x}))
      BY <1>2, FS_Union
    <2>6. Cardinality(In({x})) \in Nat /\ Cardinality(In(s \ {x})) \in Nat
      BY <1>2
    <2>7. Cardinality(In(s)) = Cardinality(In({x})) + Cardinality(In(s \ {x}))
      <3>1. Cardinality(In({x}) \cap In(s \ {x})) = 0
        BY <2>4, FS_EmptySet
      <3> DEFINE m == Cardinality(In({x}))
                 n == Cardinality(In(s \ {x}))
      <3>2. Cardinality(In(s)) = m + n - 0
        BY <2>4, <2>5, <3>1, Zenon
      <3>3. m \in Nat /\ n \in Nat
        BY <2>6
      <3> HIDE DEF m, n
      <3>4. Cardinality(In(s)) = m + n
        BY <3>2, <3>3
      <3> QED BY <3>4 DEF m, n
    <2>8. ChainsHandler(st, x).blocks = Cardinality(In({x}))
      BY <2>2, <2>3
    <2>9. x \in s /\ s \ {x} \in SUBSET C
          /\ Cardinality(In(s)) = ChainsHandler(st, x).blocks + Cardinality(In(s \ {x}))
      BY <2>1, <2>7, <2>8
    <2> QED BY <2>9 DEF x
  <1>4. Cardinality(In({})) = 0
    <2>1. In({}) = {}
      OBVIOUS
    <2> QED BY <2>1, FS_EmptySet
  <1>5. SumOf(st, C, it)
    <2>1. ASSUME NEW s \in SUBSET C
          PROVE  Cardinality(In(s)) = IF s = {} THEN 0
                   ELSE ChainsHandler(st, next(s)).blocks + it[s \ {next(s)}]
      <3>1. CASE s = {}
        BY <1>4, <3>1
      <3>2. CASE s # {}
        <4>1. /\ s \ {next(s)} \in SUBSET C
              /\ Cardinality(In(s))
                   = ChainsHandler(st, next(s)).blocks + Cardinality(In(s \ {next(s)}))
          BY <1>3, <3>2
        <4>2. it[s \ {next(s)}] = Cardinality(In(s \ {next(s)}))
          BY <4>1
        <4> QED BY <3>2, <4>1, <4>2
      <3> QED BY <3>1, <3>2
    <2>2. it = [s \in SUBSET C |-> IF s = {} THEN 0
                   ELSE ChainsHandler(st, next(s)).blocks + it[s \ {next(s)}]]
      <3> HIDE DEF In, C, next
      <3> QED BY <2>1
    <2> HIDE DEF it
    <2> QED BY <2>2 DEF SumOf
  <1>6. IsFiniteSet(C)
    <2> DEFINE f == [k \in B |-> k[1]]
    <2>1. C = {f[k] : k \in B}
      BY DEF ChainsOf
    <2> HIDE DEF f, C, B
    <2> QED BY <1>1, <2>1, ImageSize
  <1> HIDE DEF C, B, In, next, it
  <1>7. ASSUME NEW iter, SumOf(st, C, iter)
        PROVE  iter[C] = Cardinality(In(C))
    <2> DEFINE T == {n \in Nat : \A s \in SUBSET C : Cardinality(s) = n => iter[s] = Cardinality(In(s))}
    <2>0. \A s \in SUBSET C : iter[s] = IF s = {} THEN 0
              ELSE ChainsHandler(st, next(s)).blocks + iter[s \ {next(s)}]
      BY <1>7 DEF SumOf, next
    <2>1. 0 \in T
      <3>1. \A s \in SUBSET C : IsFiniteSet(s)
        BY <1>6, FS_Subset
      <3>2. \A s \in SUBSET C : Cardinality(s) = 0 => s = {}
        BY <3>1, FS_EmptySet
      <3> QED BY <1>4, <2>0, <3>2
    <2>2. ASSUME NEW n \in T PROVE n + 1 \in T
      <3> SUFFICES ASSUME NEW s \in SUBSET C, Cardinality(s) = n + 1
                   PROVE  iter[s] = Cardinality(In(s))
        OBVIOUS
      <3>1. IsFiniteSet(s)
        BY <1>6, FS_Subset
      <3>2. s # {}
        BY FS_EmptySet
      <3>3. /\ next(s) \in s /\ s \ {next(s)} \in SUBSET C
            /\ Cardinality(In(s))
                 = ChainsHandler(st, next(s)).blocks + Cardinality(In(s \ {next(s)}))
        BY <1>3, <3>2
      <3>4. Cardinality(s \ {next(s)}) = n
        <4>1. Cardinality(s \ {next(s)}) = Cardinality(s) - 1
          BY <3>1, <3>3, FS_RemoveElement
        <4> QED BY <4>1
      <3>5. iter[s \ {next(s)}] = Cardinality(In(s \ {next(s)}))
        BY <3>3, <3>4
      <3> QED BY <2>0, <3>2, <3>3, <3>5
    <2>3. T = Nat
      <3> HIDE DEF T
      <3>1. T \in SUBSET Nat
        BY DEF T
      <3> QED BY <2>1, <2>2, <3>1, AllNumbers
    <2>4. Cardinality(C) \in T
      <3> HIDE DEF T
      <3> QED BY <1>6, <2>3, FS_CardinalityType
    <2> QED BY <2>4
  <1>8. In(C) = B
    BY DEF In, C, B, ChainsOf
  <1>9. MapThenSumSet(LAMBDA c : ChainsHandler(st, c).blocks, C) = (CHOOSE iter : SumOf(st, C, iter))[C]
    BY DEF MapThenSumSet, MapThenFoldSet, SumOf
  <1>10. SumOf(st, C, CHOOSE iter : SumOf(st, C, iter))
    BY <1>5
  <1> QED BY <1>7, <1>8, <1>9, <1>10 DEF C, B

LEMMA StatsAgreeLemma ==
  ASSUME NEW st, StoreOK(st)
  PROVE  StatsAgreeFor(st)
  <1> DEFINE s == Groups(st, 2, None)
             X == {GroupAt(st, i, None) : i \in Found(st, 2, None)}
             count == Stats(st).siblingGroups
  <1>1. s \in Seq(X)
    BY GroupFacts
  <1>2. count = Len(s)
    BY GroupsCounted
  <1>3. SiblingsHandler(st, None, None, None, None).total = Len(s)
    BY DEF SiblingsHandler, SharedMainnetParents, OrElse
  <1>4. Stats(st).totalBlocks = Cardinality(DOMAIN st.blocks) /\ DOMAIN Stats(st).chains = ChainsOf(st)
    BY DEF Stats, ChainsOf
  <1>5. Stats(st).totalBlocks =
          MapThenSumSet(LAMBDA c : ChainsHandler(st, c).blocks, DOMAIN Stats(st).chains)
    <2>1. MapThenSumSet(LAMBDA c : ChainsHandler(st, c).blocks, ChainsOf(st))
            = Cardinality(DOMAIN st.blocks)
      BY BlocksAddUp
    <2> QED BY <1>4, <2>1, Zenon
  <1>6. EpochLatestHandler(st, None) = PageOf(s, PageNew(1, 0))
    BY DEF EpochLatestHandler, LatestSiblingGroup, SharedMainnetParents, OrElse
  <1>7. PageNew(1, 0) = [limit |-> 1, offset |-> 0]
    <2>1. PageNew(1, 0).limit = 1 /\ PageNew(1, 0).offset = 0
      <3>1. 1 \in Int /\ 1 \in 1 .. MaxLimit /\ 0 \in Nat
        BY PageAssumption
      <3> QED BY <3>1, PageFacts
    <2> QED BY <2>1 DEF PageNew
  <1> DEFINE e == Min({0 + 1, Len(s)})
  <1> HIDE DEF s, X, count
  <1>8. PageOf(s, PageNew(1, 0)) = SubSeq(s, 0 + 1, e)
    <2>1. PageOf(s, [limit |-> 1, offset |-> 0]) = SubSeq(s, 0 + 1, Min({0 + 1, Len(s)}))
      BY DEF PageOf
    <2> QED BY <1>7, <2>1
  <1>9. Len(s) \in Nat /\ e = IF Len(s) = 0 THEN 0 ELSE 1
    <2>1. Len(s) \in Nat
      BY <1>1
    <2>2. e = IF 0 + 1 <= Len(s) THEN 0 + 1 ELSE Len(s)
      <3>1. 0 + 1 \in Int /\ Len(s) \in Int
        BY <2>1
      <3> QED BY <3>1, MinPair
    <2> QED BY <2>1, <2>2
  <1> HIDE DEF e
  <1>10. \A i \in 0 + 1 .. e : s[i] \in X
    BY <1>1, <1>9
  <1>11. Len(SubSeq(s, 0 + 1, e)) = e
    <2>1. 0 + 1 \in Int /\ e \in Int
      BY <1>9
    <2>2. Len(SubSeq(s, 0 + 1, e)) = IF 0 + 1 <= e THEN e - (0 + 1) + 1 ELSE 0
      BY <1>10, <2>1, SubSeqProperties
    <2> QED BY <1>9, <2>2
  <1>12. SubSeq(s, 0 + 1, e) = <<>> <=> Len(s) = 0
    <2>1. ASSUME Len(s) = 0 PROVE SubSeq(s, 0 + 1, e) = <<>>
      <3>1. e < 0 + 1 /\ e \in Int /\ 0 + 1 \in Int
        BY <1>9, <2>1
      <3> QED BY <3>1, SubSeqEmpty
    <2>2. ASSUME SubSeq(s, 0 + 1, e) = <<>> PROVE Len(s) = 0
      <3>1. e = 0
        BY <1>11, <2>2
      <3> QED BY <1>9, <3>1
    <2> QED BY <2>1, <2>2
  <1>13. EpochLatestHandler(st, None) = NotFound <=> count = 0
    BY <1>2, <1>6, <1>8, <1>12 DEF NotFound
  <1>14. count = SiblingsHandler(st, None, None, None, None).total
    BY <1>2, <1>3 DEF s
  <1> QED BY <1>5, <1>13, <1>14, Zenon DEF StatsAgreeFor, count

-----------------------------------------------------------------------------
(* The stores of the runs. *)

LEMMA StoresAreSound ==
  ASSUME NEW st \in Stores, MaxU64 >= 4
  PROVE  /\ StoreOK(st)
         /\ Cardinality(DOMAIN st.blocks) <= 4 /\ Len(st.order) = 2
  <1>0. PICK b \in UNION {[K -> {1, 2}] : K \in SUBSET Key}, rows \in [{1, 2} -> ParentRow],
             o \in {<<1, 2>>, <<2, 1>>} :
               st = [blocks |-> b, parents |-> rows, order |-> o]
    BY DEF Stores
  <1>1. PICK K \in SUBSET Key : b \in [K -> {1, 2}]
    OBVIOUS
  <1>2. st.blocks = b /\ st.parents = rows /\ st.order = o
        /\ DOMAIN st.blocks = K /\ DOMAIN st.parents = {1, 2}
    BY <1>0, <1>1
  <1>3. K \in SUBSET (Nat \X (0 .. MaxU64))
    <2>1. MaxU64 \in Nat
      BY PageAssumption
    <2>2. Key \in SUBSET (Nat \X (0 .. MaxU64))
      BY <2>1 DEF Key
    <2> QED BY <2>2
  <1>4. IsFiniteSet(Key) /\ Cardinality(Key) <= 4
    <2> DEFINE f == [i \in 1 .. 4 |-> CASE i = 1 -> <<1, 1>> [] i = 2 -> <<1, 2>>
                                        [] i = 3 -> <<2, 1>> [] i = 4 -> <<3, 1>>]
    <2>1. f[1] = <<1, 1>> /\ f[2] = <<1, 2>> /\ f[3] = <<2, 1>> /\ f[4] = <<3, 1>>
      OBVIOUS
    <2> HIDE DEF f
    <2>2. \A i \in 1 .. 4 : i = 1 \/ i = 2 \/ i = 3 \/ i = 4
      OBVIOUS
    <2>3. Key = {f[i] : i \in 1 .. 4}
      BY <2>1, <2>2 DEF Key
    <2>4. IsFiniteSet(1 .. 4) /\ Cardinality(1 .. 4) = 4
      <3>1. 1 \in Int /\ 4 \in Int
        OBVIOUS
      <3>2. IsFiniteSet(1 .. 4) /\ Cardinality(1 .. 4) = IF 1 > 4 THEN 0 ELSE 4 - 1 + 1
        BY <3>1, FS_Interval
      <3> QED BY <3>2
    <2> QED BY <2>3, <2>4, ImageSize
  <1>5. IsFiniteSet(K) /\ Cardinality(K) <= 4
    <2>1. IsFiniteSet(K) /\ Cardinality(K) <= Cardinality(Key)
      BY <1>4, FS_Subset
    <2>2. Cardinality(K) \in Nat /\ Cardinality(Key) \in Nat
      BY <1>4, <2>1, FS_CardinalityType
    <2> QED BY <1>4, <2>1, <2>2
  <1>6. IsFiniteSet({1, 2})
    <2>1. IsFiniteSet({1} \cup {2})
      BY FS_Singleton, FS_AddElement
    <2>2. {1, 2} = {1} \cup {2}
      OBVIOUS
    <2> QED BY <2>1, <2>2
  <1>7. o \in Seq({1, 2}) /\ Len(o) = 2 /\ DOMAIN o = 1 .. 2
    <2>1. CASE o = <<1, 2>>
      BY <2>1
    <2>2. CASE o = <<2, 1>>
      BY <2>2
    <2> QED BY <2>1, <2>2
  <1>8. \A i \in 1 .. 2 : i = 1 \/ i = 2
    OBVIOUS
  <1>9. (o[1] = 1 /\ o[2] = 2) \/ (o[1] = 2 /\ o[2] = 1)
    OBVIOUS
  <1>10. \A i, j \in DOMAIN o : o[i] = o[j] => i = j
    <2> HIDE DEF Key
    <2> QED BY <1>7, <1>8, <1>9
  <1>11. \A p \in {1, 2} : \E i \in DOMAIN o : o[i] = p
    BY <1>7, <1>9
  <1>12. \A p \in {1, 2} : /\ rows[p].ltc \in Nat \cup {None}
                           /\ rows[p].state = 1 <=> rows[p].ltc # None
    BY DEF ParentRow, None
  <1>13. \A k \in K : b[k] \in {1, 2}
    BY <1>1
  <1>14. StoreOK(st)
    BY <1>2, <1>3, <1>5, <1>6, <1>7, <1>10, <1>11, <1>12, <1>13 DEF StoreOK
  <1> QED BY <1>2, <1>5, <1>7, <1>14

\* The cases of the specification that look at a store look at one of these.
StoreCases == probe.kind = "store" => probe.st \in Stores

LEMMA StoreCasesAlways == Spec => []StoreCases
  <1>1. Init => StoreCases
    BY DEF Init, Idle, StoreCases
  <1>2. StoreCases /\ [Next]_vars => StoreCases'
    <2> SUFFICES ASSUME StoreCases, [Next]_vars PROVE StoreCases'
      OBVIOUS
    <2>1. CASE probe' = probe
      BY <2>1 DEF StoreCases
    <2>2. CASE LookAtStore
      BY <2>2 DEF LookAtStore, Look, StoreCases
    <2>3. ASSUME LookAtBits \/ LookAtTarget \/ LookAtSum \/ LookAtWitness \/ LookAtCoinbase
                   \/ LookAtSlots \/ LookAtAuxpow \/ LookAtPayment \/ LookAtConfig
                   \/ LookAtJournals
          PROVE  StoreCases'
      <3>1. probe'.kind # "store"
        BY <2>3 DEF LookAtBits, LookAtTarget, LookAtSum, LookAtWitness, LookAtCoinbase,
                    LookAtSlots, LookAtAuxpow, LookAtPayment, LookAtConfig, LookAtJournals, Look
      <3> QED BY <3>1 DEF StoreCases
    <2> QED BY <2>1, <2>2, <2>3 DEF Next, vars
  <1> QED BY <1>1, <1>2, PTL DEF Spec

\* Following the pages of /siblings, /epoch and /blocks reads every item once
\* and in order, for every sound store, every limit asked for, and all values of
\* the default and largest page sizes.
THEOREM PagesTheorem ==
  /\ \A st : StoreOK(st) /\ Cardinality(DOMAIN st.blocks) <= MaxU64
               => \A limits \in SUBSET Int : PagesPartitionFor(st, limits)
  /\ MaxU64 >= 4 => (Spec => []PagesPartition)
  <1>1. \A st : StoreOK(st) /\ Cardinality(DOMAIN st.blocks) <= MaxU64
               => \A limits \in SUBSET Int : PagesPartitionFor(st, limits)
    BY PagesPartitionLemma
  <1>2. ASSUME MaxU64 >= 4 PROVE StoreCases => PagesPartition
    <2> SUFFICES ASSUME probe.st \in Stores PROVE PagesPartitionFor(probe.st, Limits)
      BY DEF StoreCases, PagesPartition
    <2>1. StoreOK(probe.st) /\ Cardinality(DOMAIN probe.st.blocks) <= 4
      BY <1>2, StoresAreSound
    <2>2. Cardinality(DOMAIN probe.st.blocks) \in Nat /\ MaxU64 \in Nat
      BY <2>1, FS_CardinalityType, PageAssumption DEF StoreOK
    <2>3. Cardinality(DOMAIN probe.st.blocks) <= MaxU64
      BY <1>2, <2>1, <2>2
    <2>4. Limits \in SUBSET Int
      BY PageAssumption DEF Limits, None
    <2> QED BY <1>1, <2>1, <2>3, <2>4
  <1>3. ASSUME MaxU64 >= 4 PROVE Spec => []PagesPartition
    <2>1. StoreCases => PagesPartition
      BY <1>2, <1>3
    <2> QED BY <2>1, StoreCasesAlways, PTL
  <1> QED BY <1>1, <1>3

\* The details of a block and of its parent, /cosettle, /siblings, /epoch and
\* the statistics tell one story, for every sound store that fits in the pages
\* it is asked for and all values of the page sizes.
THEOREM StoryTheorem ==
  /\ \A st : StoreOK(st) => StatsAgreeFor(st)
  /\ \A st : StoreOK(st) /\ FitsPage(st) => OneStoryFor(st)
  /\ MaxU64 >= 4 /\ MaxLimit >= 4 => (Spec => []OneStory)
  <1>1. \A st : StoreOK(st) => StatsAgreeFor(st)
    BY StatsAgreeLemma
  <1>2. \A st : StoreOK(st) /\ FitsPage(st) => OneStoryFor(st)
    BY OneStoryLemma
  <1>3. ASSUME MaxU64 >= 4, MaxLimit >= 4 PROVE StoreCases => OneStory
    <2> SUFFICES ASSUME probe.st \in Stores
                 PROVE  OneStoryFor(probe.st) /\ StatsAgreeFor(probe.st)
      BY DEF StoreCases, OneStory
    <2>1. /\ StoreOK(probe.st)
          /\ Cardinality(DOMAIN probe.st.blocks) <= 4 /\ Len(probe.st.order) = 2
      BY <1>3, StoresAreSound
    <2>2. Cardinality(DOMAIN probe.st.blocks) \in Nat /\ MaxLimit \in Nat
      BY <2>1, FS_CardinalityType, PageAssumption DEF StoreOK
    <2>3. FitsPage(probe.st)
      BY <1>3, <2>1, <2>2 DEF FitsPage
    <2> QED BY <1>1, <1>2, <2>1, <2>3
  <1>4. ASSUME MaxU64 >= 4, MaxLimit >= 4 PROVE Spec => []OneStory
    <2>1. StoreCases => OneStory
      BY <1>3, <1>4
    <2> QED BY <2>1, StoreCasesAlways, PTL
  <1> QED BY <1>1, <1>2, <1>4
=============================================================================
