------------------------ MODULE ProductionRefinement ------------------------
(***************************************************************************)
(* Production implements OrderLifecycle: the customer's phase is read off  *)
(* the order row, and the charge off the payment and refund rows.          *)
(***************************************************************************)
EXTENDS Production

PhaseOf(status) ==
    CASE status = None -> "none"
      [] status = "QUEUED" -> "waiting"
      [] status \in {"DISPATCHED", "ACCEPTED", "MAKING"} -> "inhand"
      [] status = "HOLD" -> "review"
      [] status = "READY" -> "served"
      [] OTHER -> "void"

ChargeOf(o) ==
    IF ~paid[o] THEN "none" ELSE IF refund[o] THEN "returned" ELSE "kept"

Lifecycle == INSTANCE OrderLifecycle WITH
    Orders <- Orders,
    phase <- [o \in Orders |-> PhaseOf(orderStatus[o])],
    charge <- [o \in Orders |-> ChargeOf(o)]

(* Every transaction of the server moves an order as the lifecycle allows, *)
(* or is invisible to it: one order in hand or in review at a time, and    *)
(* the money returned in the very step that makes the order void.          *)
ImplementsLifecycle == Lifecycle!Spec
=============================================================================
