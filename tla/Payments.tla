------------------------------ MODULE Payments ------------------------------
(***************************************************************************)
(* The money of one paid order: its payment intents, the refunds of each,  *)
(* the payment status shown on the order, the payment.paid event that      *)
(* starts production, and the payment channel.  Orders share none of it.   *)
(*                                                                         *)
(* Server actions are one transaction each, under the locks order, then    *)
(* payment, then refund.  Calls to the channel happen between two          *)
(* transactions: the answer is kept in `answer', `closing', `reconcile' or *)
(* `work' and used later, when the rows may have changed; a process that   *)
(* dies in between loses it.  One domain worker runs, as deployed.         *)
(*                                                                         *)
(* The production side appears as it acts on money: a paid order is        *)
(* queued, may be cancelled until it is dispatched, and ends with a drink  *)
(* or with a refund.  "MAKING" stands for DISPATCHED, ACCEPTED, MAKING and *)
(* HOLD.                                                                   *)
(***************************************************************************)
EXTENDS PaymentState, Integers, FiniteSets

CONSTANTS
    Intents,       \* payment ids of the order
    Historical,    \* intents open from the start, as in data of older releases
    Amount,        \* total_amount_minor
    ManualKeys,    \* Idempotency-Keys an operator uses for manual refunds
    UnknownRefund  \* what the channel answers when asked for a refund it never saw

ASSUME PaymentsAssumption ==
    /\ None \notin Intents
    /\ Historical \subseteq Intents
    /\ IsFiniteSet(ManualKeys)
    /\ Amount \in Nat \ {0}
    /\ UnknownRefund \subseteq {"PENDING", "NOT_FOUND"}

(* The business keys that make a refund unique: money for a dead order,    *)
(* money on a second intent, cancellation, failed production, and manual.  *)
RefundKeys == {"late", "extra", "cancel", "production"} \cup ManualKeys

VARIABLES
    order,       \* sales_order.status
    projection,  \* sales_order.payment_status
    primary,     \* sales_order.paid_payment_id
    payment,     \* status of each payment row
    refund,      \* refund row of each payment and business key
    paidEvent,   \* the payment.paid row of business_outbox
    job,         \* a production_job exists
    trade,       \* external: the channel's view of each payment
    returned,    \* external: the channel gave the refund's money back
    answer,      \* what the channel told an open POST /payments request
    closing,     \* what an open cancel request knows of each intent
    reconcile,   \* what the reconciliation pass was told
    work         \* what the refund pass is doing

ledger == <<order, projection, primary, payment, refund, paidEvent, job>>
channel == <<trade, returned>>
calls == <<answer, closing, reconcile, work>>
moneyVars == <<ledger, channel, calls>>

-----------------------------------------------------------------------------
(* Rows                                                                    *)

NoRefund == [status |-> None, amount |-> 0, tried |-> FALSE]

NoReconcile == [intent |-> None, result |-> None]

NoWork == [phase |-> "idle", intent |-> None, key |-> None, ask |-> FALSE,
           result |-> None]

(* One thread reconciles and refunds in turn (_payment_run).               *)
ThreadIdle == reconcile = NoReconcile /\ work = NoWork

OpenIntents == {p \in Intents : payment[p] \in OpenPayments}

(* The amounts of some refunds added up, as the number of minor units in   *)
(* them.                                                                   *)
Sum(rows, keys) == Cardinality(UNION {{k} \X (1..rows[k].amount) : k \in keys})

(* refunded_total                                                          *)
RefundTotal(rows, statuses) == Sum(rows, {k \in RefundKeys : rows[k].status \in statuses})

Remaining(p) == Amount - RefundTotal(refund[p], BudgetRefunds)

(* Mutant: the refund is not shown on the order.                           *)
RefundOpenedQuietly(p, key, amount, main) ==
    /\ refund' = [refund EXCEPT ![p][key] =
                    [status |-> "REQUESTED", amount |-> amount, tried |-> FALSE]]
    /\ payment' = [payment EXCEPT ![p] = "REFUNDING"]
    /\ UNCHANGED projection

(* create_refund_intent, once its checks have passed: the refund row, the  *)
(* payment and, if it is the order's main (primary) one, the projection.   *)
RefundOpened(p, key, amount, main) ==
    /\ refund' = [refund EXCEPT ![p][key] =
                    [status |-> "REQUESTED", amount |-> amount, tried |-> FALSE]]
    /\ payment' = [payment EXCEPT ![p] = "REFUNDING"]
    /\ projection' = IF main = p THEN "REFUNDING" ELSE projection

(* ensure_automatic_refund_intent on payment p.                            *)
RefundEnsured(p, key) ==
    IF /\ payment[p] \in RefundablePayments
       /\ refund[p][key] = NoRefund
       /\ Remaining(p) > 0
      THEN RefundOpened(p, key, Remaining(p), primary)
      ELSE UNCHANGED <<refund, payment, projection>>

(* The money of p is a fact the server already knows.                      *)
Recorded(p) == payment[p] \in PaidCallbackStatuses

(* The order is over: money can only go back.                              *)
TooLate == order \in DeadOrders

(* paid_payment_id once p is recorded: the first money stays the primary.  *)
PrimaryWith(p) == IF primary = None THEN p ELSE primary

(* apply_paid_callback: the channel is known to have collected p.          *)
PaidFact(p) ==
    LET main == PrimaryWith(p)
    IN
    IF Recorded(p) THEN UNCHANGED ledger
    ELSE /\ primary' = main
         /\ IF TooLate
              THEN /\ RefundOpened(p, "late", Amount, main)
                   /\ UNCHANGED <<order, paidEvent>>
            ELSE IF main # p
              THEN /\ RefundOpened(p, "extra", Amount, main)
                   /\ UNCHANGED <<order, paidEvent>>
            ELSE /\ payment' = [payment EXCEPT ![p] = "PAID"]
                 /\ IF projection = "PAID" THEN UNCHANGED <<order, projection, paidEvent>>
                    ELSE /\ projection' = "PAID"
                         /\ order' = IF order \in {"CREATED", "AWAITING_PAYMENT"}
                                       THEN "PAID" ELSE order
                         /\ paidEvent' = IF paidEvent = None THEN "PENDING" ELSE paidEvent
                 /\ UNCHANGED refund
         /\ UNCHANGED job

-----------------------------------------------------------------------------
Init ==
    /\ order = IF Historical = {} THEN "CREATED" ELSE "AWAITING_PAYMENT"
    /\ projection = IF Historical = {} THEN "NOT_STARTED" ELSE "PENDING"
    /\ primary = None
    /\ payment = [p \in Intents |-> IF p \in Historical THEN "PENDING" ELSE None]
    /\ refund = [p \in Intents |-> [k \in RefundKeys |-> NoRefund]]
    /\ paidEvent = None
    /\ job = FALSE
    /\ trade = [p \in Intents |-> IF p \in Historical THEN "qr" ELSE None]
    /\ returned = [p \in Intents |-> [k \in RefundKeys |-> FALSE]]
    /\ answer = [p \in Intents |-> None]
    /\ closing = [p \in Intents |-> "no"]
    /\ reconcile = NoReconcile
    /\ work = NoWork

-----------------------------------------------------------------------------
(* POST /payments                                                          *)

AcceptsPayment ==
    /\ order \in {"CREATED", "AWAITING_PAYMENT"}
    /\ projection \notin PaidCallbackStatuses

(* The first transaction: a new intent, when no other is open.             *)
CreateIntent(p) ==
    /\ AcceptsPayment
    /\ payment[p] = None
    /\ OpenIntents = {}
    /\ payment' = [payment EXCEPT ![p] = "CREATED"]
    /\ order' = "AWAITING_PAYMENT"
    /\ projection' = "PENDING"
    /\ UNCHANGED <<primary, refund, paidEvent, job, channel, calls>>

(* Ask the channel: for an intent still CREATED (also by a repeated        *)
(* request, whatever became of the order) make it issue a QR code; for an  *)
(* open one that another request reuses only query it.                     *)
AskChannel(p) ==
    /\ answer[p] = None
    /\ \/ payment[p] = "CREATED"
       \/ payment[p] = "PENDING" /\ AcceptsPayment
    /\ trade' = IF payment[p] = "CREATED" /\ trade[p] = None
                  THEN [trade EXCEPT ![p] = "qr"] ELSE trade
    /\ answer' = [answer EXCEPT ![p] = IF trade[p] = "paid" THEN "PAID" ELSE "PENDING"]
    /\ UNCHANGED <<ledger, returned, closing, reconcile, work>>

(* The second transaction.                                                 *)
RecordAnswer(p) ==
    /\ answer[p] # None
    /\ answer' = [answer EXCEPT ![p] = None]
    /\ IF answer[p] = "PAID" THEN PaidFact(p)
       ELSE /\ payment' = IF payment[p] = "CREATED"
                            THEN [payment EXCEPT ![p] = "PENDING"] ELSE payment
            /\ UNCHANGED <<order, projection, primary, refund, paidEvent, job>>
    /\ UNCHANGED <<channel, closing, reconcile, work>>

(* The channel failed or the API process died.                             *)
AnswerLost(p) ==
    /\ answer[p] # None
    /\ answer' = [answer EXCEPT ![p] = None]
    /\ UNCHANGED <<ledger, channel, closing, reconcile, work>>

-----------------------------------------------------------------------------
(* External: the customer scans and pays; a code stays payable after the   *)
(* server has given the intent up, because Alipay knows no trade to close  *)
(* until it is scanned.                                                    *)

Scan(p) ==
    /\ trade[p] = "qr"
    /\ trade' = [trade EXCEPT ![p] = "open"]
    /\ UNCHANGED <<ledger, returned, calls>>

Pay(p) ==
    /\ trade[p] = "open"
    /\ trade' = [trade EXCEPT ![p] = "paid"]
    /\ UNCHANGED <<ledger, returned, calls>>

(* The channel's notification, delivered any number of times, ever so late.*)
Callback(p) ==
    /\ trade[p] = "paid"
    /\ PaidFact(p)
    /\ UNCHANGED <<channel, calls>>

(* External: alipay.trade.close.                                           *)
TradeClosed(p) == IF trade[p] = "open" THEN [trade EXCEPT ![p] = "closed"] ELSE trade

-----------------------------------------------------------------------------
(* POST /cancel                                                            *)

CancelOrder ==
    /\ order \in {"CREATED", "AWAITING_PAYMENT", "QUEUED"}
    /\ closing' = [p \in Intents |-> IF p \in OpenIntents THEN "todo" ELSE "no"]
    /\ order' = "CANCELLED"
    /\ IF order = "QUEUED" /\ projection \in RefundablePayments
         THEN RefundEnsured(primary, "cancel")
         ELSE UNCHANGED <<refund, payment, projection>>
    /\ UNCHANGED <<primary, paidEvent, job, channel, answer, reconcile, work>>

(* Between the two transactions the intents are closed at the channel; a   *)
(* call that fails, as for a trade already paid, leaves its intent out.    *)
CloseIntent(p) ==
    /\ closing[p] = "todo"
    /\ \/ /\ trade[p] # "paid"
          /\ trade' = TradeClosed(p)
          /\ closing' = [closing EXCEPT ![p] = "closed"]
       \/ /\ closing' = [closing EXCEPT ![p] = "no"]
          /\ UNCHANGED trade
    /\ UNCHANGED <<ledger, returned, answer, reconcile, work>>

CancelCommit ==
    LET closed == {p \in OpenIntents : closing[p] = "closed"}
    IN /\ \A p \in Intents : closing[p] # "todo"
       /\ \E p \in Intents : closing[p] = "closed"
       /\ closing' = [p \in Intents |-> "no"]
       /\ payment' = [p \in Intents |-> IF p \in closed THEN "CLOSED" ELSE payment[p]]
       /\ projection' = IF OpenIntents = closed /\ projection \in {"NOT_STARTED", "PENDING"}
                          THEN "CLOSED" ELSE projection
       /\ UNCHANGED <<order, primary, refund, paidEvent, job, channel, answer,
                      reconcile, work>>

CancelCrash ==
    /\ \E p \in Intents : closing[p] # "no"
    /\ closing' = [p \in Intents |-> "no"]
    /\ UNCHANGED <<ledger, channel, answer, reconcile, work>>

-----------------------------------------------------------------------------
(* Domain worker: reconciliation, expiry of unpaid orders, payment.paid    *)

(* External: what a query may say.  A trade status that the provider       *)
(* adapter does not recognise reads FAILED.                                *)
QueryResults(p) ==
    CASE trade[p] = "paid"   -> {"PAID"}
      [] trade[p] = "closed" -> {"CLOSED"}
      [] trade[p] = "open"   -> {"PENDING", "FAILED"}
      [] OTHER               -> {"NOT_FOUND"}

(* Query an open intent and, past its lifetime, close what is undecided.   *)
ReconcileAsk(p) ==
    /\ ThreadIdle
    /\ p \in OpenIntents
    /\ \E result \in QueryResults(p) :
          IF result \in {"PAID", "CLOSED", "FAILED"}
            THEN /\ reconcile' = [intent |-> p, result |-> result]
                 /\ UNCHANGED trade
            ELSE /\ reconcile' = [intent |-> p, result |-> "CLOSED"]
                 /\ trade' = TradeClosed(p)
    /\ UNCHANGED <<ledger, returned, answer, closing, work>>

ReconcileCommit ==
    LET p == reconcile.intent
        result == reconcile.result
    IN /\ reconcile # NoReconcile
       /\ reconcile' = NoReconcile
       /\ IF result = "PAID" THEN PaidFact(p)
          ELSE IF p \notin OpenIntents THEN UNCHANGED ledger
          ELSE /\ payment' = [payment EXCEPT ![p] = result]
               /\ projection' = result
               /\ order' = IF order \in {"CREATED", "AWAITING_PAYMENT"}
                             THEN "CANCELLED" ELSE order
               /\ UNCHANGED <<primary, refund, paidEvent, job>>
       /\ UNCHANGED <<channel, answer, closing, work>>

ExpireUnpaid ==
    /\ order = "CREATED"
    /\ projection = "NOT_STARTED"
    /\ order' = "EXPIRED"
    /\ UNCHANGED <<projection, primary, payment, refund, paidEvent, job, channel, calls>>

(* Mutant: the job is created and the order left where it was.             *)
ProcessPaidEventJobOnly ==
    /\ paidEvent = "PENDING"
    /\ paidEvent' = "PROCESSED"
    /\ job' = (job \/ (projection = "PAID" /\ order \notin TerminalOrders))
    /\ UNCHANGED <<order, projection, primary, payment, refund, channel, calls>>

(* _process_paid_event.  The event always names the primary payment.       *)
ProcessPaidEvent ==
    /\ paidEvent = "PENDING"
    /\ paidEvent' = "PROCESSED"
    /\ IF projection = "PAID" /\ order \notin TerminalOrders
         THEN /\ job' = TRUE
              /\ order' = IF order = "PAID" THEN "QUEUED" ELSE order
         ELSE UNCHANGED <<job, order>>
    /\ UNCHANGED <<projection, primary, payment, refund, channel, calls>>

-----------------------------------------------------------------------------
(* Production                                                              *)

Dispatch ==
    /\ order = "QUEUED"
    /\ order' = "MAKING"
    /\ UNCHANGED <<projection, primary, payment, refund, paidEvent, job, channel, calls>>

(* The machine or the operator ends the order and, without a drink,        *)
(* create_automatic_refund_record follows; a command that expired unsent   *)
(* ends it too, with a refund if the order still shows a collected payment.*)
ProductionEnds(outcome) ==
    /\ order = "MAKING"
    /\ order' = outcome
    /\ IF \/ outcome = "READY"
          \/ outcome = "EXPIRED" /\ projection \notin RefundablePayments
         THEN UNCHANGED <<refund, payment, projection>>
         ELSE RefundEnsured(primary, "production")
    /\ UNCHANGED <<primary, paidEvent, job, channel, calls>>

-----------------------------------------------------------------------------
(* Refunds                                                                 *)

(* POST /refunds with a key of the operator's choice.                      *)
ManualRefund(p, key, amount) ==
    /\ payment[p] \in RefundablePayments
    /\ refund[p][key] = NoRefund
    /\ amount <= Remaining(p)
    /\ RefundOpened(p, key, amount, primary)
    /\ UNCHANGED <<order, primary, paidEvent, job, channel, calls>>

(* Mutant: what was claimed once is never claimed again.                   *)
RefundClaimOnce(p, key) ==
    /\ ThreadIdle
    /\ refund[p][key].status = "REQUESTED"
    /\ refund' = [refund EXCEPT ![p][key].status = "PROCESSING", ![p][key].tried = TRUE]
    /\ work' = [phase |-> "claimed", intent |-> p, key |-> key,
                ask |-> refund[p][key].tried, result |-> None]
    /\ UNCHANGED <<order, projection, primary, payment, paidEvent, job, channel,
                   answer, closing, reconcile>>

(* process_refund_batch: claim a refund; a first attempt will submit it, a *)
(* later one will ask about it first.                                      *)
RefundClaim(p, key) ==
    /\ ThreadIdle
    /\ refund[p][key].status \in InFlightRefunds
    /\ refund' = [refund EXCEPT ![p][key].status = "PROCESSING", ![p][key].tried = TRUE]
    /\ work' = [phase |-> "claimed", intent |-> p, key |-> key,
                ask |-> refund[p][key].tried, result |-> None]
    /\ UNCHANGED <<order, projection, primary, payment, paidEvent, job, channel,
                   answer, closing, reconcile>>

(* External: the channel carries a refund out once per refund number, or   *)
(* refuses it; it may answer late or not at all (UNKNOWN).                 *)
Submitted(p, key) ==
    \/ /\ returned' = [returned EXCEPT ![p][key] = TRUE]
       /\ work' \in {[work EXCEPT !.phase = "answered", !.result = result] :
                        result \in {"SUCCEEDED", "PROCESSING", "UNKNOWN"}}
    \/ /\ ~returned[p][key]
       /\ work' \in {[work EXCEPT !.phase = "answered", !.result = result] :
                        result \in {"FAILED", "PROCESSING", "UNKNOWN"}}
       /\ UNCHANGED returned

RefundCall ==
    LET p == work.intent
        key == work.key
        told(result) ==
            /\ work' = [work EXCEPT !.phase = "answered", !.result = result]
            /\ UNCHANGED returned
    IN /\ work.phase = "claimed"
       /\ \/ ~work.ask /\ Submitted(p, key)
          \/ work.ask /\ returned[p][key] /\ told("SUCCEEDED")
          \/ work.ask /\ ~returned[p][key] /\ "PENDING" \in UnknownRefund /\ told("PROCESSING")
          \/ work.ask /\ ~returned[p][key] /\ "NOT_FOUND" \in UnknownRefund /\ Submitted(p, key)
          \/ work.ask /\ told("UNKNOWN")
       /\ UNCHANGED <<ledger, trade, answer, closing, reconcile>>

(* Mutant: refunds still in flight are not looked at.                      *)
SettledByTotal(rows) ==
    LET succeeded == RefundTotal(rows, {"SUCCEEDED"})
    IN IF succeeded >= Amount THEN "REFUNDED"
       ELSE IF succeeded > 0 THEN "PARTIALLY_REFUNDED"
       ELSE "PAID"

(* _settle_payment_after_refund: a payment's status from its refund rows.  *)
SettledStatus(rows) ==
    LET succeeded == RefundTotal(rows, {"SUCCEEDED"})
    IN IF succeeded >= Amount THEN "REFUNDED"
       ELSE IF \E k \in RefundKeys : rows[k].status \in InFlightRefunds THEN "REFUNDING"
       ELSE IF succeeded > 0 THEN "PARTIALLY_REFUNDED"
       ELSE "PAID"

(* apply_refund_outcome: a settled refund never moves again, and a final   *)
(* outcome settles its payment and, for the primary, the order.            *)
RefundCommit ==
    LET p == work.intent
        key == work.key
        target == work.result
        rows == [refund[p] EXCEPT ![key].status = target]
        settled == SettledStatus(rows)
    IN /\ work.phase = "answered"
       /\ work' = NoWork
       /\ IF \/ refund[p][key].status \in TerminalRefunds
             \/ ~RefundTransitionAllowed(refund[p][key].status, target)
             \/ target \in TerminalRefunds /\ ~PaymentTransitionAllowed(payment[p], settled)
          THEN UNCHANGED ledger
          ELSE /\ refund' = [refund EXCEPT ![p] = rows]
               /\ IF target \in TerminalRefunds
                    THEN /\ payment' = [payment EXCEPT ![p] = settled]
                         /\ projection' = IF primary = p THEN settled ELSE projection
                         /\ order' = IF primary = p /\ settled = "REFUNDED" /\ order = "FAILED"
                                       THEN "REFUNDED" ELSE order
                    ELSE UNCHANGED <<payment, projection, order>>
               /\ UNCHANGED <<primary, paidEvent, job>>
       /\ UNCHANGED <<channel, answer, closing, reconcile>>

(* The worker dies: what the channel told it is lost.                      *)
WorkerCrash ==
    /\ work # NoWork \/ reconcile # NoReconcile
    /\ work' = NoWork
    /\ reconcile' = NoReconcile
    /\ UNCHANGED <<ledger, channel, answer, closing>>

-----------------------------------------------------------------------------
CustomerNext ==
    \/ CancelOrder \/ CancelCommit \/ CancelCrash
    \/ \E p \in Intents :
          \/ CreateIntent(p) \/ AskChannel(p) \/ RecordAnswer(p) \/ AnswerLost(p)
          \/ Scan(p) \/ Pay(p) \/ Callback(p)
          \/ CloseIntent(p)

WorkerNext ==
    \/ \E p \in Intents : ReconcileAsk(p)
    \/ ReconcileCommit
    \/ ExpireUnpaid
    \/ ProcessPaidEvent
    \/ \E p \in Intents, key \in RefundKeys : RefundClaim(p, key)
    \/ RefundCall
    \/ RefundCommit
    \/ WorkerCrash

ProductionNext ==
    \/ Dispatch
    \/ \E outcome \in {"READY", "FAILED", "CANCELLED", "EXPIRED"} : ProductionEnds(outcome)

OperatorNext ==
    \E p \in Intents, key \in ManualKeys, amount \in 1..Amount : ManualRefund(p, key, amount)

Next == CustomerNext \/ WorkerNext \/ ProductionNext \/ OperatorNext

Spec == Init /\ [][Next]_moneyVars

-----------------------------------------------------------------------------
(* Properties                                                              *)

(* The channel never gives back more than it collected, whichever manual   *)
(* and automatic refunds overlap, are retried, time out or fail: the       *)
(* budget of refund_intents.py.                                            *)
NeverOverRefunded ==
    \A p \in Intents :
        Sum(refund[p], {k \in RefundKeys : returned[p][k]}) <= Amount

(* The status of a collected payment is at all times the one its refunds   *)
(* call for, and the order shows that of its primary payment: a replayed   *)
(* callback never writes PAID over a refund, settling one of several       *)
(* refunds never hides another in flight, and the order's own payment      *)
(* status never lags behind.                                               *)
StatusMatchesRefunds ==
    /\ primary # None => projection = payment[primary]
    /\ \A p \in Intents :
         payment[p] \in PaidCallbackStatuses =>
             LET settled == RefundTotal(refund[p], {"SUCCEEDED"})
                 moving == \E k \in RefundKeys : refund[p][k].status \in InFlightRefunds
             IN /\ payment[p] = "REFUNDED"  <=> settled = Amount
                /\ payment[p] = "REFUNDING" <=> moving
                /\ payment[p] = "PAID"      <=> settled = 0 /\ ~moving

(* A dead order keeps no money: "when paid and with budget left, a refund  *)
(* intent is created" (docs/production-consistency.md), also for money     *)
(* that arrives after the end.  Only a refund the channel refused leaves   *)
(* some behind.                                                            *)
DeadOrderKeepsNoMoney ==
    order \in DeadOrders =>
        \A p \in Intents :
            payment[p] \in {"PAID", "PARTIALLY_REFUNDED"} =>
                \E k \in RefundKeys : refund[p][k].status = "FAILED"

-----------------------------------------------------------------------------
(* Liveness.  The worker's loops run for ever and the channel repeats its  *)
(* notification until it is accepted.  Calls and processes that fail do    *)
(* not fail every time: a refund asked about again and again at last gets  *)
(* a definite answer, and the worker does not die after every such answer. *)
RefundCallAnswered == RefundCall /\ work'.result \in TerminalRefunds

RefundAnswerKept == work.result \in TerminalRefunds /\ RefundCommit

Fairness ==
    /\ \A p \in Intents : WF_moneyVars(Callback(p))
    /\ WF_moneyVars(ProcessPaidEvent)
    /\ \A p \in Intents, key \in RefundKeys : SF_moneyVars(RefundClaim(p, key))
    /\ WF_moneyVars(ReconcileCommit)
    /\ WF_moneyVars(RefundCall) /\ WF_moneyVars(RefundCommit)
    /\ SF_moneyVars(RefundCallAnswered)
    /\ SF_moneyVars(RefundAnswerKept)

FairSpec == Spec /\ Fairness

(* Money on a dead order finds its way back, or the channel has refused    *)
(* it: also when the customer pays after cancelling, when the worker dies  *)
(* between asking and recording, and when answers are lost.                *)
LateMoneyReturns ==
    \A p \in Intents :
        (trade[p] = "paid" /\ order \in DeadOrders) ~>
            \/ payment[p] = "REFUNDED"
            \/ \E k \in RefundKeys : refund[p][k].status = "FAILED"

(* A collected order does not stay PAID: its payment.paid event is not     *)
(* used up before it can start production.  The exception is the code's:   *)
(* an operator's refund before the event is handled uses the event up for  *)
(* nothing, and no other path leads the order out of PAID.                 *)
PaidOrderProceeds ==
    order = "PAID" ~>
        \/ order # "PAID"
        \/ \E p \in Intents, key \in ManualKeys : refund[p][key] # NoRefund
=============================================================================
