----------------------------- MODULE PayoutScan -----------------------------
(***************************************************************************)
(* find_payouts of crates/chain-rpc: the payout of a withdrawal is looked  *)
(* for, by content, in the confirmed history of the recipient, page by     *)
(* page from the most recent transaction, while new ones arrive.           *)
(***************************************************************************)
EXTENDS Integers, Sequences, SequencesExt

CONSTANTS
    PageSize,       \* 25 in esplora
    MaxPages,       \* max_pages
    MaxHistory      \* bound: transactions of the recipient

ASSUME ScanAssumption ==
    PageSize \in Nat \ {0} /\ MaxPages \in Nat /\ MaxHistory \in Nat

(* max_pages.max(1)                                                        *)
PageBound == IF MaxPages = 0 THEN 1 ELSE MaxPages

(* What a transaction turns out to be: the payout (pays the recipient,     *)
(* names the withdrawal, spends from custody), one that looks like it but  *)
(* spends from elsewhere, one of another withdrawal, or not yet confirmed. *)
TxKind == {"payout", "foreign", "unrelated", "unconfirmed"}

VARIABLES
    history,    \* kinds, oldest first: the number of a transaction is its txid
    lastSeen,   \* the txid to continue after, 0 for none
    pages,      \* pages fetched
    queue,      \* the rest of the page being looked through
    bottom,     \* last txid of that page
    payouts,    \* the txids found
    newest,     \* history: the newest transaction when the scan began
    scan        \* "page", "tx", "done" or "failed"

scanVars == <<history, lastSeen, pages, queue, bottom, payouts, newest, scan>>

ScanInit ==
    /\ history \in UNION {[1 .. n -> TxKind] : n \in 0 .. MaxHistory - 1}
    /\ lastSeen = 0 /\ pages = 0 /\ queue = <<>> /\ bottom = 0
    /\ payouts = <<>> /\ newest = 0 /\ scan = "page"

-----------------------------------------------------------------------------
(* address_txs_chain: most recent first, after the last one seen.          *)
Newer == IF lastSeen = 0 THEN Len(history) ELSE lastSeen - 1
AddressTxsChain ==
    [i \in 1 .. (IF Newer < PageSize THEN Newer ELSE PageSize) |-> Newer + 1 - i]

PagesLeft == pages < PageBound

FetchPage ==
    /\ scan = "page"
    /\ IF ~PagesLeft \/ AddressTxsChain = <<>>
         THEN scan' = "done" /\ UNCHANGED <<queue, bottom, pages>>
         ELSE /\ queue' = AddressTxsChain /\ bottom' = Last(AddressTxsChain)
              /\ pages' = pages + 1 /\ scan' = "tx"
    /\ newest' = IF pages = 0 THEN Len(history) ELSE newest
    /\ UNCHANGED <<history, lastSeen, payouts>>

(* confirmed, parse_withdrawal_outputs with the right id, tx_spends_from.  *)
IsPayout(kind) == kind = "payout"

LookAtTx ==
    /\ scan = "tx" /\ queue # <<>>
    /\ payouts' = IF IsPayout(history[Head(queue)])
                    THEN Append(payouts, Head(queue)) ELSE payouts
    /\ queue' = Tail(queue)
    /\ UNCHANGED <<history, lastSeen, pages, bottom, newest, scan>>

(* Mutant: the scan continues from the newest transaction.                 *)
MutContinueAt == 0

ContinueAt == bottom

EndPage ==
    /\ scan = "tx" /\ queue = <<>>
    /\ lastSeen' = ContinueAt /\ scan' = "page"
    /\ UNCHANGED <<history, pages, queue, bottom, payouts, newest>>

(* An error of any request ends the scan without a result.                 *)
ScanFails ==
    /\ scan \in {"page", "tx"} /\ scan' = "failed"
    /\ UNCHANGED <<history, lastSeen, pages, queue, bottom, payouts, newest>>

(* A transaction of the recipient is confirmed.                            *)
Arrive ==
    /\ Len(history) < MaxHistory /\ scan \in {"page", "tx"}
    /\ \E kind \in TxKind : history' = Append(history, kind)
    /\ UNCHANGED <<lastSeen, pages, queue, bottom, payouts, newest, scan>>

ScanNext == FetchPage \/ LookAtTx \/ EndPage \/ ScanFails \/ Arrive

-----------------------------------------------------------------------------
(* The scan reports, newest first and each once, exactly the payouts that  *)
(* were confirmed when it began, down to the last transaction of the last  *)
(* page it fetched, and stops above the oldest only for want of pages:     *)
(* transactions that arrive meanwhile and move the pages neither hide nor  *)
(* repeat one, nor make it fetch more pages than it may.                   *)
PayoutsExact ==
    /\ pages <= PageBound
    /\ scan = "done" =>
        /\ {payouts[i] : i \in DOMAIN payouts}
             = {t \in bottom .. newest : t # 0 /\ history[t] = "payout"}
        /\ \A i, j \in DOMAIN payouts : i < j => payouts[i] > payouts[j]
        /\ PagesLeft => bottom <= 1
=============================================================================
