--------------------------- MODULE OrderLifecycle ---------------------------
(***************************************************************************)
(* What the production side promises a customer and a merchant, without    *)
(* rows, commands or messages: an order waits, is in the machine's hands,  *)
(* perhaps goes to an operator, and ends served or void.  The machine has  *)
(* one order at a time, and a void order keeps no money.                   *)
(***************************************************************************)
CONSTANT Orders

VARIABLES
    phase,   \* "none", "waiting", "inhand", "review", "served" or "void"
    charge   \* "none" (free), "kept" or "returned"

lifecycleVars == <<phase, charge>>

Init ==
    /\ phase = [o \in Orders |-> "none"]
    /\ charge = [o \in Orders |-> "none"]

Submit(o) ==
    /\ phase[o] = "none"
    /\ phase' = [phase EXCEPT ![o] = "waiting"]
    /\ \E c \in {"none", "kept"} : charge' = [charge EXCEPT ![o] = c]

Begin(o) ==
    /\ phase[o] = "waiting"
    /\ \A p \in Orders : phase[p] \notin {"inhand", "review"}
    /\ phase' = [phase EXCEPT ![o] = "inhand"]
    /\ UNCHANGED charge

Doubt(o) ==
    /\ phase[o] = "inhand"
    /\ phase' = [phase EXCEPT ![o] = "review"]
    /\ UNCHANGED charge

Serve(o) ==
    /\ phase[o] \in {"inhand", "review"}
    /\ phase' = [phase EXCEPT ![o] = "served"]
    /\ UNCHANGED charge

Void(o) ==
    /\ phase[o] \in {"waiting", "inhand", "review"}
    /\ phase' = [phase EXCEPT ![o] = "void"]
    /\ charge' = [charge EXCEPT ![o] = IF @ = "kept" THEN "returned" ELSE @]

Next ==
    \E o \in Orders : Submit(o) \/ Begin(o) \/ Doubt(o) \/ Serve(o) \/ Void(o)

Spec == Init /\ [][Next]_lifecycleVars
=============================================================================
