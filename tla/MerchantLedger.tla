--------------------------- MODULE MerchantLedger ---------------------------
(***************************************************************************)
(* The books of a merchant (app/merchant/accounting_schema.py): the        *)
(* trigger merchant_record_money turns every write of a payment, a refund  *)
(* or an order into entries of the append-only table merchant_ledger,      *)
(* inside the transaction that writes.  Composed with Payments: each of    *)
(* its steps books what it writes.                                         *)
(*                                                                         *)
(* An entry is written once per source_key, "on conflict do nothing", so   *)
(* the ledger is a set of entries.  Its amounts are those of the rows.     *)
(***************************************************************************)
EXTENDS Payments

VARIABLE books   \* entries of the order in merchant_ledger

Entry(kind, source) == [kind |-> kind, source |-> source]
Revenue == Entry("REVENUE", "order")

(* A payment row is written with its paid_at.                              *)
PaymentEntries ==
    {Entry(kind, p) : kind \in {"COLLECTION", "FEE"},
                      p \in {q \in Intents : payment'[q] # payment[q] /\ Recorded(q)'}}

(* Refunds that are SUCCEEDED after the step, of payment p.                *)
SucceededOf(p, rows) == {k \in RefundKeys : rows[p][k].status = "SUCCEEDED"}

(* Mutant: a refund is taken off the revenue, booked or not.               *)
ReversedByRefundAlways(p) == p = primary'

(* Whether a refund of p also takes back revenue.                          *)
ReversedByRefund(p) == p = primary' /\ Revenue \in books

(* A refund row is written as SUCCEEDED.                                   *)
RefundEntries ==
    UNION {LET written == SucceededOf(p, refund') \ SucceededOf(p, refund)
           IN {Entry("REFUND", <<p, k>>) : k \in written}
                \cup {Entry("REVENUE_REVERSAL", <<p, k>>) :
                        k \in {j \in written : ReversedByRefund(p)}}
           : p \in Intents}

(* Mutant: refunds that succeeded before the drink was ready are forgotten.*)
EarlierRefundsForgotten(p) == {}

(* Refunds to be taken off the revenue when it is booked.                  *)
EarlierRefunds(p) == SucceededOf(p, refund')

(* The order row is written while READY and paid for.                      *)
OrderEntries ==
    IF /\ <<order, projection, primary>>' # <<order, projection, primary>>
       /\ order' = "READY" /\ primary' # None /\ Recorded(primary)'
      THEN {Revenue} \cup {Entry("REVENUE_REVERSAL", <<primary', k>>) :
                             k \in EarlierRefunds(primary')}
      ELSE {}

(* merchant_record_money                                                   *)
Booked == books' = books \cup PaymentEntries \cup RefundEntries \cup OrderEntries

LedgerInit == Init /\ books = {}

LedgerNext == Next /\ Booked

ledgerVars == <<moneyVars, books>>

LedgerSpec == LedgerInit /\ [][LedgerNext]_ledgerVars /\ Fairness

-----------------------------------------------------------------------------
(* The merchant's books say what happened to the money: what was collected *)
(* and what was given back, on every payment; the price as revenue exactly *)
(* when the drink was made; and against that revenue exactly the refunds   *)
(* of the payment it was sold for, whether they succeeded before the drink *)
(* was ready or after.                                                     *)
BooksMatchMoney ==
    books =
        {Entry(kind, p) : kind \in {"COLLECTION", "FEE"}, p \in {q \in Intents : Recorded(q)}}
          \cup (UNION {{Entry("REFUND", <<p, k>>) : k \in SucceededOf(p, refund)} : p \in Intents})
          \cup (IF order # "READY" THEN {}
                ELSE {Revenue} \cup {Entry("REVENUE_REVERSAL", <<primary, k>>) :
                                       k \in SucceededOf(primary, refund)})
=============================================================================
