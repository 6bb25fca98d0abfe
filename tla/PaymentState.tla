---------------------------- MODULE PaymentState ----------------------------
(***************************************************************************)
(* The pure status tables of app/payment_state.py, and the sets of         *)
(* statuses that payment_service.py and refund_intents.py test.            *)
(***************************************************************************)

None == "NONE"

OpenPayments == {"CREATED", "PENDING"}

(* A recorded fact that the channel collected the money.                   *)
PaidCallbackStatuses == {"PAID", "REFUNDING", "PARTIALLY_REFUNDED", "REFUNDED"}

RefundablePayments == {"PAID", "REFUNDING", "PARTIALLY_REFUNDED"}

PaymentStatus == OpenPayments \cup PaidCallbackStatuses \cup {"CLOSED", "FAILED"}

(* PAYMENT_TRANSITIONS                                                     *)
PaymentTransitions(current) ==
    CASE current = "CREATED"   -> {"PENDING", "PAID", "CLOSED", "FAILED"}
      [] current = "PENDING"   -> {"PAID", "CLOSED", "FAILED"}
      [] current = "PAID"      -> {"REFUNDING", "PARTIALLY_REFUNDED", "REFUNDED"}
      [] current = "REFUNDING" -> {"PAID", "PARTIALLY_REFUNDED", "REFUNDED", "FAILED"}
      [] current = "PARTIALLY_REFUNDED" -> {"REFUNDING", "REFUNDED"}
      [] OTHER -> {}

(* decide_payment_transition(...).allowed; no move at all is a duplicate.  *)
PaymentTransitionAllowed(current, target) ==
    current = target \/ target \in PaymentTransitions(current)

InFlightRefunds == {"REQUESTED", "PROCESSING", "UNKNOWN"}

(* Mutant: money whose fate is unknown is free to be refunded again.       *)
BudgetRefundsOptimist == {"REQUESTED", "PROCESSING", "SUCCEEDED"}

(* What counts against the amount that may still be refunded.              *)
BudgetRefunds == InFlightRefunds \cup {"SUCCEEDED"}

TerminalRefunds == {"SUCCEEDED", "FAILED"}

RefundStatus == InFlightRefunds \cup TerminalRefunds

(* REFUND_TRANSITIONS                                                      *)
RefundTransitions(current) ==
    CASE current = "REQUESTED"  -> {"PROCESSING", "SUCCEEDED", "FAILED", "UNKNOWN"}
      [] current = "PROCESSING" -> {"SUCCEEDED", "FAILED", "UNKNOWN"}
      [] current = "UNKNOWN"    -> {"PROCESSING", "SUCCEEDED", "FAILED"}
      [] OTHER -> {}

RefundTransitionAllowed(current, target) ==
    current = target \/ target \in RefundTransitions(current)

(* Orders that late money can never revive.                                *)
DeadOrders == {"CANCELLED", "EXPIRED", "FAILED"}

TerminalOrders == {"READY", "FAILED", "CANCELLED", "EXPIRED", "REFUNDED"}
=============================================================================
