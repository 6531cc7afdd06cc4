------------------------------ MODULE MCCases ------------------------------
(* The pure algorithms of the indexer, each against its reference          *)
(* definition on every case of a bounded set, and the two sequences of     *)
(* requests of the bridge client.  A behaviour is about one of them: probe *)
(* holds the case that is looked at, or names the sequence that runs.      *)
EXTENDS AuxPowVerify, TxParse, ProofWindow, PayoutScan, Queries, JournalAbi,
        ConfigLoad

VARIABLE probe

vars == <<windowVars, scanVars, probe>>
clients == <<windowVars, scanVars>>

-----------------------------------------------------------------------------
(* Blocks and witnesses.  Two blocks of chain 1 share a tree of up to      *)
(* three levels with a foreign leaf, side by side or at different depths.  *)
Ltc == LtcChainId
Base(n, bytes, chain, bits) ==
    [bytes |-> bytes, chain |-> chain, bits |-> bits, nonce |-> n]
Easy == [PowLimit EXCEPT !.word = @ + 1]
Broken == [PowLimit EXCEPT !.sign = TRUE]
Good(n) == Base(n, 80, 1, PowLimit)
Foreign == <<"foreign">>
TreeBranches == {<<>>, <<Foreign>>, <<BlockHash(Good(1))>>, <<BlockHash(Good(2))>>,
                 <<BlockHash(Good(1)), Foreign>>, <<BlockHash(Good(2)), Foreign>>,
                 <<Foreign, BlockHash(Good(1))>>, <<Node(Foreign, BlockHash(Good(2)))>>}
Slots == 0 .. 3
Roots == {MerkleFoldBranch(BlockHash(Good(n)), br, i) :
            n \in 1 .. 2, br \in TreeBranches, i \in Slots}

Aux(coinbase, br, i, bytes, chain, rooted, pos) ==
    [coinbase |-> coinbase, parentBranch |-> <<Foreign>>, parentIndex |-> pos,
     chainBranch |-> br, chainIndex |-> i,
     parent |-> [bytes |-> bytes, chain |-> chain,
                 root |-> IF rooted
                            THEN MerkleFoldBranch(TxId(coinbase), <<Foreign>>, pos)
                            ELSE Foreign]]

(* One commitment, possibly the second of two, or cut short.               *)
Commitment(root, size, nonce) == <<Magic, Reversed(root), Word(size), Word(nonce)>>
Coinbases(root) ==
    {Commitment(root, size, nonce) : size \in {1, 2, 4}, nonce \in 0 .. 3}
Misshapen(root) ==
    LET c == Commitment(root, 2, 0)
    IN  {Tail(c), c \o c, SubSeq(c, 1, 3), <<Word(0)>> \o c, Append(c, Word(0))}

AgreeCases ==
    [coinbase : UNION {Coinbases(r) \cup Misshapen(r) :
                         r \in {MerkleFoldBranch(BlockHash(Good(1)), br, i) :
                                  br \in {<<>>, <<Foreign>>}, i \in {0, 1}}},
     branch : {<<>>, <<Foreign>>, [k \in 1 .. MaxDepth + 1 |-> Foreign]},
     slot : {0, 1}, bytes : {3, 79, 80}, chain : {1, Ltc, Ltc + 1},
     rooted : BOOLEAN, pos : {0, 1},
     base : {Good(1), Base(1, 79, 1, PowLimit), Base(1, 80, 2, PowLimit),
             Base(1, 80, 1, Easy), Base(1, 80, 1, Broken)}]

(* All but one thing right, or all but two.                                *)
NearlyRight(c) ==
    Cardinality({x \in {<<1, c.bytes = 80>>, <<2, c.chain = Ltc>>, <<3, c.rooted>>,
                        <<4, c.pos = 0>>, <<5, c.base = Good(1)>>} : ~x[2]}) <= 1

Claims(coinbase) ==
    {[hash |-> BlockHash(Good(n)), aux |-> Aux(coinbase, br, i, 80, Ltc, TRUE, 0)] :
        n \in 1 .. 2, br \in TreeBranches, i \in Slots}

-----------------------------------------------------------------------------
(* Transactions of one or two inputs and up to two outputs.                *)
Ins == {[prev |-> 0, script |-> <<>>], [prev |-> 9, script |-> PayTo(7)]}
Outs == [value : {1, 3}, script : {PayTo(7), PayTo(8), ReturnTo(5),
                                   ReturnToWrapped(5), ReturnId(6), <<>>}]
Upto(S, n) == UNION {[1 .. k -> S] : k \in 1 .. n}
Txs == [ins : Upto(Ins, 2), outs : Upto(Outs, 2)]
CoinbaseTxs == [ins : Upto(Ins, 2), outs : Upto([value : {1}, script : {PayTo(7), <<>>}], 1)]
Witnesses == {<<>>, << <<1>> >>, << <<>>, <<1, 1>> >>}
WireBranches == {<<>>, <<4>>, <<4, 4, 4>>}

-----------------------------------------------------------------------------
Key == {<<1, 1>>, <<1, 2>>, <<2, 1>>, <<3, 1>>}
ParentRow == {[state |-> 0, ltc |-> None], [state |-> 2, ltc |-> None],
              [state |-> 1, ltc |-> 5], [state |-> 1, ltc |-> 6]}
Stores == {[blocks |-> b, parents |-> rows, order |-> o] :
             b \in UNION {[K -> {1, 2}] : K \in SUBSET Key},
             rows \in [{1, 2} -> ParentRow], o \in {<<1, 2>>, <<2, 1>>}}
Limits == {None, 0, 1, 2, MaxLimit + 5}

EnvChains == {NoList, <<>>, <<1>>, <<1, 2>>, <<1, 1>>, <<1, Bad>>}
Environments ==
    [chains : EnvChains, known : {NoList, <<2>>, <<3, 3>>, <<Bad>>},
     maxBatch : {Bad, 0}, baseBackoff : {Unset, 40000},
     maxBackoff : {Unset, Bad, 7}, keep : {Bad, 0}, poll : {Unset},
     concurrency : {Bad, 0}]
Files == {NoFile} \cup
    [chains : {<<>>, <<2>>, <<1, 1>>}, known : {<<>>, <<2>>, <<3, 3>>},
     maxBatch : {0}, baseBackoff : {50}, maxBackoff : {9}, keep : {0, 4},
     poll : {0}, concurrency : {0}]

-----------------------------------------------------------------------------
(* The clients' first states vary only when they run.                      *)
Idle == [kind |-> "idle"]
FirstWindow == CHOOSE b \in Branches : TRUE

Init ==
    \/ probe = [kind |-> "window"] /\ WindowInit /\ ScanInit /\ history = <<>>
    \/ probe = [kind |-> "scan"] /\ ScanInit
         /\ WindowInit /\ main = FirstWindow /\ conf = 0
    \/ probe = Idle /\ WindowInit /\ main = FirstWindow /\ conf = 0
                    /\ ScanInit /\ history = <<>>

Look(case) == probe' = case /\ UNCHANGED clients

LookAtBits == \E c \in Compact : Look([kind |-> "bits", c |-> c])
LookAtTarget == \E t \in Number : Look([kind |-> "target", t |-> t])
LookAtSum == \E a \in Number, b \in {x \in Number : x[1] = 0 \/ x[Bytes] = Byte - 1} :
    a[2] = a[3] /\ Look([kind |-> "sum", a |-> a, b |-> b])
LookAtWitness == \E c \in AgreeCases :
    NearlyRight(c) /\ Look([kind |-> "witness", c |-> c])
LookAtCoinbase == \E r \in Roots : \E cb \in Coinbases(r) \cup Misshapen(r)
                                    \cup {Commitment(r, 2, 0) \o <<Reversed(Foreign)>>} :
    Look([kind |-> "coinbase", cb |-> cb])
LookAtSlots == \E h \in 0 .. MaxDepth, c, d \in 0 .. Pow2[WordBits] - 1 :
    Look([kind |-> "slots", h |-> h, c |-> c, d |-> d])
LookAtAuxpow == \E tx \in CoinbaseTxs, items \in Witnesses, wide \in BOOLEAN,
                   parent, chain \in WireBranches :
    Look([kind |-> "auxpow", tx |-> tx, items |-> items, wide |-> wide,
          parent |-> parent, chain |-> chain])
LookAtPayment == \E tx \in Txs, wide \in BOOLEAN : Look([kind |-> "tx", tx |-> tx, wide |-> wide])
LookAtStore == \E st \in Stores : Look([kind |-> "store", st |-> st])
LookAtConfig == \E env \in Environments, file \in Files :
    Look([kind |-> "config", env |-> env, file |-> file])
LookAtJournals == Look([kind |-> "journals"])

Next ==
    \/ probe.kind = "window" /\ WindowNext /\ UNCHANGED <<scanVars, probe>>
    \/ probe.kind = "scan" /\ ScanNext /\ UNCHANGED <<windowVars, probe>>
    \/ /\ probe = Idle
       /\ \/ LookAtBits \/ LookAtTarget \/ LookAtSum \/ LookAtWitness
          \/ LookAtCoinbase \/ LookAtSlots \/ LookAtAuxpow \/ LookAtPayment
          \/ LookAtStore \/ LookAtConfig \/ LookAtJournals

Spec == Init /\ [][Next]_vars

-----------------------------------------------------------------------------
(* expand_target is exact: on every compact value of the width it yields   *)
(* the number the bits denote, and rejects exactly the negative ones, the  *)
(* ones with a zero mantissa and the ones too large for the array.  It     *)
(* does yield the zero target, for small sizes that shift a nonzero        *)
(* mantissa out, where its comments say that a zero target is rejected.    *)
TargetExact == probe.kind = "bits" => TargetExactFor(probe.c)

(* block_work of every target of the width is floor(2^256 / (t + 1)),      *)
(* modulo the width, though the dividend does not fit in the array; and    *)
(* u256_add_be accumulates it modulo the width and u256_ge and target_leq  *)
(* compare like numbers, on pairs with every pattern of carries.           *)
WorkExact ==
    /\ probe.kind = "target" => WorkExactFor(probe.t)
    /\ probe.kind = "sum" => SumExactFor(probe.a, probe.b)

(* light_verify, verify_aux_header and the header checks of                *)
(* verify_psob_chain accept the same headers, here headers and witnesses   *)
(* wrong in at most one place outside the coinbase and in any number of    *)
(* places within it.                                                       *)
VerifiersAgree == probe.kind = "witness" =>
    LET c == probe.c
    IN  VerifiersAgreeOn(c.base, Aux(c.coinbase, c.branch, c.slot, c.bytes,
                                     c.chain, c.rooted, c.pos), 1)

(* verify_auxpow_commitment lets one coinbase commit at most one block of  *)
(* a chain, among all claims on it that two blocks, eight branches and     *)
(* four slots give.                                                        *)
OneBlockPerParent == probe.kind = "coinbase" =>
    OneBlockPerParentIn(Claims(probe.cb), 1)

(* get_expected_index puts two chains in one slot for some nonce, and then *)
(* for every nonce, only if their ids agree modulo the width of the tree,  *)
(* although its arithmetic wraps at 32 bits before it is reduced.          *)
SlotsApart == probe.kind = "slots" => SlotsTellApart(probe.h, probe.c, probe.d)

(* parse_auxpow finds every field of a payload, and the txid form of its   *)
(* coinbase, with witness or without and with short varints or long ones,  *)
(* and fails on every proper prefix of it.                                 *)
AuxpowExact == probe.kind = "auxpow" =>
    AuxpowExactFor(probe.tx, probe.items, probe.wide, probe.parent, probe.chain)

(* parse_deposit_outputs and parse_withdrawal_outputs read exactly what a  *)
(* transaction pays to a key hash, and nothing from a coinbase, a prefix,  *)
(* a transaction with bytes behind it, or one with a witness.              *)
PaymentsExact == probe.kind = "tx" => PaymentsExactFor(probe.tx, probe.wide, 7)

(* Following the pages of /siblings, /epoch and /blocks reads every item   *)
(* once and in order, whatever limit is asked for.                         *)
PagesPartition == probe.kind = "store" => PagesPartitionFor(probe.st, Limits)

(* /cosettle, /siblings, /epoch and the details of a block and of a parent *)
(* do not contradict each other about any pair of stored blocks, and the   *)
(* statistics count the groups that shared_mainnet_parents lists and the   *)
(* blocks that blocks_range returns.                                       *)
OneStory == probe.kind = "store" =>
    OneStoryFor(probe.st) /\ StatsAgreeFor(probe.st)

(* "Include only groups with a leg on this chain" (siblings_handler): the  *)
(* filtered list has the groups of the full list with a leg on the chain.  *)
FilterKeepsGroups == probe.kind = "store" => FilterKeepsGroupsFor(probe.st)

(* Whatever Config::load accepts, from environment, file or both, is what  *)
(* the ingest tasks assume: distinct chain ids over both lists, a positive *)
(* window, an ordered back-off and no retention of zero blocks.            *)
ConfigMeetsAssumptions == probe.kind = "config" =>
    ConfigMeetsAssumptionsFor(probe.env, probe.file)

(* abi_encode and abi_decode of Journal and of WithdrawalJournal agree on  *)
(* the size and on the place of every field, and no two fields share a     *)
(* word.  This is about the two functions of each journal, not about the   *)
(* sizes in their structs' docs, which are larger.                         *)
JournalsExact == probe.kind = "journals" => JournalsReadBack

-----------------------------------------------------------------------------
MCCheckpoint == <<"plain">>
MCPowLimit == [size |-> Bytes, sign |-> FALSE, word |-> 5]
=============================================================================
