--------------------------- MODULE PaymentsProofs ---------------------------
(***************************************************************************)
(* What is proved about Payments and MerchantLedger: money is never given  *)
(* back twice, a payment's status is the one its refunds call for, and the *)
(* merchant's books say what happened to the money.                        *)
(***************************************************************************)
EXTENDS MerchantLedger, FiniteSetTheorems, TLAPS

-----------------------------------------------------------------------------
(* Refund rows and their totals                                            *)

Row == [status : RefundStatus \cup {None}, amount : 0..Amount, tried : BOOLEAN]

Rows == [RefundKeys -> Row]

(* Sum counts these minor units.                                           *)
Units(rows, keys) == UNION {{k} \X (1..rows[k].amount) : k \in keys}

LEMMA KeysFinite == IsFiniteSet(RefundKeys)
<1>1. IsFiniteSet(ManualKeys)
  BY PaymentsAssumption
<1>2. IsFiniteSet({"late", "extra", "cancel", "production"})
  <2>1. /\ IsFiniteSet({"late"}) /\ IsFiniteSet({"extra"})
        /\ IsFiniteSet({"cancel"}) /\ IsFiniteSet({"production"})
    BY FS_Singleton
  <2>2. IsFiniteSet(({"late"} \cup {"extra"}) \cup ({"cancel"} \cup {"production"}))
    <3>1. IsFiniteSet({"late"} \cup {"extra"})
      BY <2>1, FS_Union
    <3>2. IsFiniteSet({"cancel"} \cup {"production"})
      BY <2>1, FS_Union
    <3>3. QED  BY <3>1, <3>2, FS_Union
  <2>3. {"late", "extra", "cancel", "production"}
          = ({"late"} \cup {"extra"}) \cup ({"cancel"} \cup {"production"})
    OBVIOUS
  <2>4. QED  BY <2>2, <2>3
<1>3. IsFiniteSet({"late", "extra", "cancel", "production"} \cup ManualKeys)
  BY <1>1, <1>2, FS_Union
<1>4. QED  BY <1>3 DEF RefundKeys

LEMMA UnitsMember ==
  ASSUME NEW rows, NEW keys, NEW u
  PROVE  u \in Units(rows, keys) <=>
           \E k \in keys : \E i \in 1..rows[k].amount : u = <<k, i>>
BY DEF Units

LEMMA UnitsFinite ==
  ASSUME NEW rows \in Rows, NEW keys \in SUBSET RefundKeys
  PROVE  /\ IsFiniteSet(Units(rows, keys))
         /\ Sum(rows, keys) = Cardinality(Units(rows, keys))
         /\ Sum(rows, keys) \in Nat
<1>1. IsFiniteSet(RefundKeys \X (1..Amount))
  <2>1. 1 \in Int /\ Amount \in Int
    BY PaymentsAssumption
  <2>2. IsFiniteSet(1..Amount)
    BY <2>1, FS_Interval
  <2>3. QED  BY <2>2, KeysFinite, FS_Product
<1>2. ASSUME NEW u \in Units(rows, keys)
      PROVE  u \in RefundKeys \X (1..Amount)
  <2>0. PICK k \in keys : \E i \in 1..rows[k].amount : u = <<k, i>>
    BY <1>2, UnitsMember
  <2>1. PICK i \in 1..rows[k].amount : u = <<k, i>>
    BY <2>0
  <2>2. rows[k].amount \in 0..Amount
    BY DEF Rows, Row
  <2>3. i \in 1..Amount
    BY <2>1, <2>2, PaymentsAssumption
  <2>4. QED  BY <2>1, <2>3
<1>3. IsFiniteSet(Units(rows, keys))
  BY <1>1, <1>2, FS_Subset
<1>4. Sum(rows, keys) = Cardinality(Units(rows, keys))
  BY DEF Sum, Units
<1>5. QED  BY <1>3, <1>4, FS_CardinalityType

LEMMA SumEmpty ==
  ASSUME NEW rows
  PROVE  Sum(rows, {}) = 0
<1>1. UNION {{k} \X (1..rows[k].amount) : k \in {}} = {}
  OBVIOUS
<1>2. QED  BY <1>1, FS_EmptySet DEF Sum

LEMMA SumMonotone ==
  ASSUME NEW rows \in Rows, NEW more \in SUBSET RefundKeys, NEW keys \in SUBSET more
  PROVE  Sum(rows, keys) <= Sum(rows, more)
<1>1. Units(rows, keys) \subseteq Units(rows, more)
  BY UnitsMember
<1>2. IsFiniteSet(Units(rows, more)) /\ Sum(rows, more) = Cardinality(Units(rows, more))
  BY UnitsFinite
<1>3. Sum(rows, keys) = Cardinality(Units(rows, keys))
  BY UnitsFinite
<1>4. Cardinality(Units(rows, keys)) <= Cardinality(Units(rows, more))
  BY <1>1, <1>2, FS_Subset
<1>5. QED  BY <1>2, <1>3, <1>4

(* A sum depends on the amounts of the rows that it adds up.               *)
LEMMA SumSameAmounts ==
  ASSUME NEW rows, NEW other, NEW keys,
         \A k \in keys : rows[k].amount = other[k].amount
  PROVE  Sum(rows, keys) = Sum(other, keys)
<1>1. {{k} \X (1..rows[k].amount) : k \in keys} = {{k} \X (1..other[k].amount) : k \in keys}
  OBVIOUS
<1>2. QED  BY <1>1 DEF Sum

LEMMA SumAdd ==
  ASSUME NEW rows \in Rows, NEW keys \in SUBSET RefundKeys,
         NEW key \in RefundKeys, key \notin keys
  PROVE  Sum(rows, keys \cup {key}) = Sum(rows, keys) + rows[key].amount
<1> DEFINE old == Units(rows, keys)
           new == {key} \X (1..rows[key].amount)
<1>1. Units(rows, keys \cup {key}) = old \cup new
  <2>1. ASSUME NEW u
        PROVE  u \in Units(rows, keys \cup {key}) <=> u \in old \cup new
    <3>1. u \in new <=> \E i \in 1..rows[key].amount : u = <<key, i>>
      OBVIOUS
    <3>2. QED  BY <3>1, UnitsMember
  <2>2. QED  BY <2>1
<1>2. old \cap new = {}
  <2>1. ASSUME NEW u, u \in old, u \in new
        PROVE  FALSE
    <3>1. \E k \in keys : \E i \in 1..rows[k].amount : u = <<k, i>>
      BY <2>1, UnitsMember
    <3>2. \E i \in 1..rows[key].amount : u = <<key, i>>
      BY <2>1
    <3>3. QED  BY <3>1, <3>2
  <2>2. QED  BY <2>1
<1>3. IsFiniteSet(old) /\ Sum(rows, keys) = Cardinality(old) /\ Sum(rows, keys) \in Nat
  BY UnitsFinite
<1>4. rows[key].amount \in Nat
  BY PaymentsAssumption DEF Rows, Row
<1>5. IsFiniteSet(new) /\ Cardinality(new) = rows[key].amount
  <2>1. IsFiniteSet(1..rows[key].amount) /\ Cardinality(1..rows[key].amount) = rows[key].amount
    <3>1. 1 \in Int /\ rows[key].amount \in Int
      BY <1>4
    <3>2. IsFiniteSet(1..rows[key].amount)
      BY <3>1, FS_Interval
    <3>3. Cardinality(1..rows[key].amount)
            = IF 1 > rows[key].amount THEN 0 ELSE rows[key].amount - 1 + 1
      BY <3>1, FS_Interval
    <3>4. QED  BY <3>2, <3>3, <1>4
  <2>2. IsFiniteSet({key}) /\ Cardinality({key}) = 1
    BY FS_Singleton
  <2>3. IsFiniteSet(new) /\ Cardinality(new) = 1 * rows[key].amount
    <3>1. Cardinality({key} \X (1..rows[key].amount))
            = Cardinality({key}) * Cardinality(1..rows[key].amount)
      BY <2>1, <2>2, FS_Product, Zenon
    <3>2. IsFiniteSet({key} \X (1..rows[key].amount))
      BY <2>1, <2>2, FS_Product, Zenon
    <3>3. QED  BY <2>1, <2>2, <3>1, <3>2
  <2>4. QED  BY <2>3, <1>4
<1> HIDE DEF old, new
<1>6. Cardinality(old \cup new) = Cardinality(old) + Cardinality(new) - Cardinality(old \cap new)
  BY <1>3, <1>5, FS_Union
<1>7. Cardinality(old \cap new) = 0
  BY <1>2, FS_EmptySet
<1>8. keys \cup {key} \in SUBSET RefundKeys
  OBVIOUS
<1>9. Sum(rows, keys \cup {key}) = Cardinality(old \cup new)
  BY <1>1, <1>8, UnitsFinite
<1>10. QED  BY <1>3, <1>4, <1>5, <1>6, <1>7, <1>9

-----------------------------------------------------------------------------
(* Totals when one row changes                                             *)

LEMMA TotalType ==
  ASSUME NEW rows \in Rows, NEW statuses
  PROVE  RefundTotal(rows, statuses) \in Nat
<1>1. {k \in RefundKeys : rows[k].status \in statuses} \in SUBSET RefundKeys
  OBVIOUS
<1>2. QED  BY <1>1, UnitsFinite DEF RefundTotal

LEMMA TotalGrows ==
  ASSUME NEW rows \in Rows, NEW more, NEW statuses \in SUBSET more
  PROVE  RefundTotal(rows, statuses) <= RefundTotal(rows, more)
<1> DEFINE counted(set) == {k \in RefundKeys : rows[k].status \in set}
<1>1. counted(statuses) \in SUBSET counted(more) /\ counted(more) \in SUBSET RefundKeys
  OBVIOUS
<1>2. Sum(rows, counted(statuses)) <= Sum(rows, counted(more))
  BY <1>1, SumMonotone
<1>3. QED  BY <1>2 DEF RefundTotal

(* What row key adds to the total.                                         *)
Share(rows, key, statuses) == IF rows[key].status \in statuses THEN rows[key].amount ELSE 0

LEMMA TotalWithout ==
  ASSUME NEW rows \in Rows, NEW key \in RefundKeys, NEW statuses
  PROVE  RefundTotal(rows, statuses)
           = Sum(rows, {k \in RefundKeys \ {key} : rows[k].status \in statuses})
               + Share(rows, key, statuses)
<1> DEFINE others == {k \in RefundKeys \ {key} : rows[k].status \in statuses}
           all == {k \in RefundKeys : rows[k].status \in statuses}
<1>1. others \in SUBSET RefundKeys /\ key \notin others
  OBVIOUS
<1>2. Sum(rows, others) \in Nat
  BY <1>1, UnitsFinite
<1>3. RefundTotal(rows, statuses) = Sum(rows, all)
  BY DEF RefundTotal
<1>4. CASE rows[key].status \in statuses
  <2>1. all = others \cup {key}
    BY <1>4
  <2>2. Sum(rows, others \cup {key}) = Sum(rows, others) + rows[key].amount
    BY <1>1, SumAdd
  <2>3. QED  BY <1>3, <1>4, <2>1, <2>2 DEF Share
<1>5. CASE rows[key].status \notin statuses
  <2>1. all = others
    BY <1>5
  <2>2. Share(rows, key, statuses) = 0
    BY <1>5 DEF Share
  <2>3. Sum(rows, all) = Sum(rows, others)
    BY <2>1
  <2>4. Sum(rows, others) + 0 = Sum(rows, others)
    BY <1>2
  <2>5. QED  BY <1>3, <2>2, <2>3, <2>4, Zenon
<1>6. QED  BY <1>4, <1>5

LEMMA TotalChange ==
  ASSUME NEW rows \in Rows, NEW new \in Rows, NEW key \in RefundKeys, NEW statuses,
         \A k \in RefundKeys \ {key} : new[k] = rows[k]
  PROVE  \E rest \in Nat :
            /\ RefundTotal(rows, statuses) = rest + Share(rows, key, statuses)
            /\ RefundTotal(new, statuses) = rest + Share(new, key, statuses)
<1> DEFINE others == {k \in RefundKeys \ {key} : rows[k].status \in statuses}
           newOthers == {k \in RefundKeys \ {key} : new[k].status \in statuses}
<1>1. others = newOthers /\ others \in SUBSET RefundKeys
  OBVIOUS
<1>2. \A k \in others : rows[k].amount = new[k].amount
  OBVIOUS
<1>3. Sum(rows, others) = Sum(new, others)
  BY <1>2, SumSameAmounts
<1>4. Sum(rows, others) \in Nat
  BY <1>1, UnitsFinite
<1>5. RefundTotal(rows, statuses) = Sum(rows, others) + Share(rows, key, statuses)
  BY TotalWithout
<1>6. RefundTotal(new, statuses) = Sum(new, newOthers) + Share(new, key, statuses)
  BY TotalWithout
<1> HIDE DEF others, newOthers
<1>7. QED  BY <1>1, <1>3, <1>4, <1>5, <1>6

(* What is in flight has not been refunded yet.                            *)
LEMMA MovingIsExtra ==
  ASSUME NEW rows \in Rows, NEW key \in RefundKeys, rows[key].status \in InFlightRefunds
  PROVE  RefundTotal(rows, {"SUCCEEDED"}) + rows[key].amount <= RefundTotal(rows, BudgetRefunds)
<1> DEFINE settled == {k \in RefundKeys : rows[k].status \in {"SUCCEEDED"}}
           counted == {k \in RefundKeys : rows[k].status \in BudgetRefunds}
<1>1. key \notin settled /\ settled \in SUBSET RefundKeys
  BY DEF InFlightRefunds
<1>2. Sum(rows, settled \cup {key}) = Sum(rows, settled) + rows[key].amount
  BY <1>1, SumAdd
<1>3. settled \cup {key} \in SUBSET counted /\ counted \in SUBSET RefundKeys
  BY DEF BudgetRefunds
<1>4. Sum(rows, settled \cup {key}) <= Sum(rows, counted)
  BY <1>3, SumMonotone
<1>5. QED  BY <1>2, <1>4 DEF RefundTotal

-----------------------------------------------------------------------------
(* One payment with its refunds                                            *)

(* StatusMatchesRefunds, of one payment.                                   *)
StatusFits(status, rows) ==
    LET settled == RefundTotal(rows, {"SUCCEEDED"})
        moving == \E k \in RefundKeys : rows[k].status \in InFlightRefunds
    IN /\ status = "REFUNDED"  <=> settled = Amount
       /\ status = "REFUNDING" <=> moving
       /\ status = "PAID"      <=> settled = 0 /\ ~moving

(* What holds between a payment's status, its refund rows and what the     *)
(* channel gave back: the budget is kept by the rows, and the channel gave *)
(* nothing back that the budget does not count.                            *)
Account(status, rows, back) ==
    /\ rows \in Rows
    /\ \A k \in RefundKeys :
         rows[k] # NoRefund => /\ status \in PaidCallbackStatuses
                               /\ rows[k].status # None
                               /\ rows[k].amount # 0
    /\ \A k \in RefundKeys : back[k] => rows[k].status \in BudgetRefunds
    /\ RefundTotal(rows, BudgetRefunds) <= Amount
    /\ status \in PaidCallbackStatuses => StatusFits(status, rows)

LEMMA NoRefundsNoTotal ==
  ASSUME NEW rows, \A k \in RefundKeys : rows[k] = NoRefund,
         NEW statuses, None \notin statuses
  PROVE  RefundTotal(rows, statuses) = 0
<1>1. {k \in RefundKeys : rows[k].status \in statuses} = {}
  BY DEF NoRefund
<1>2. QED  BY <1>1, SumEmpty DEF RefundTotal

(* A payment moves between statuses that have nothing to do with refunds.  *)
LEMMA AccountUnpaid ==
  ASSUME NEW rows, NEW back, NEW status, NEW next,
         Account(status, rows, back),
         status \notin PaidCallbackStatuses,
         next = "PAID" \/ next \notin PaidCallbackStatuses
  PROVE  Account(next, rows, back)
<1>1. \A k \in RefundKeys : rows[k] = NoRefund
  BY DEF Account
<1>2. RefundTotal(rows, {"SUCCEEDED"}) = 0
  BY <1>1, NoRefundsNoTotal DEF None
<1>3. \A k \in RefundKeys : rows[k].status \notin InFlightRefunds
  BY <1>1 DEF NoRefund, None, InFlightRefunds
<1>4. StatusFits("PAID", rows)
  BY <1>2, <1>3, PaymentsAssumption DEF StatusFits
<1>5. QED  BY <1>1, <1>4 DEF Account

(* RefundOpened: the budget is used up by the amount of the new refund.    *)
LEMMA AccountOpened ==
  ASSUME NEW rows, NEW back, NEW status, NEW key \in RefundKeys, NEW amount \in 1..Amount,
         Account(status, rows, back),
         rows[key] = NoRefund,
         amount <= Amount - RefundTotal(rows, BudgetRefunds)
  PROVE  Account("REFUNDING",
                 [rows EXCEPT ![key] = [status |-> "REQUESTED", amount |-> amount, tried |-> FALSE]],
                 back)
<1> DEFINE row == [status |-> "REQUESTED", amount |-> amount, tried |-> FALSE]
           new == [rows EXCEPT ![key] = row]
<1>1. rows \in Rows
  BY DEF Account
<1>2. row \in Row /\ row.status = "REQUESTED" /\ row.amount = amount
  BY PaymentsAssumption DEF Row, RefundStatus, InFlightRefunds
<1>3. new \in Rows /\ new[key] = row /\ \A k \in RefundKeys \ {key} : new[k] = rows[k]
  BY <1>1, <1>2 DEF Rows
<1> HIDE DEF row, new
<1>4. /\ RefundTotal(rows, BudgetRefunds) \in Nat
      /\ RefundTotal(new, BudgetRefunds) = RefundTotal(rows, BudgetRefunds) + amount
  <2>1. PICK rest \in Nat :
           /\ RefundTotal(rows, BudgetRefunds) = rest + Share(rows, key, BudgetRefunds)
           /\ RefundTotal(new, BudgetRefunds) = rest + Share(new, key, BudgetRefunds)
    BY <1>1, <1>3, TotalChange
  <2>2. Share(rows, key, BudgetRefunds) = 0
    BY DEF Share, NoRefund, BudgetRefunds, InFlightRefunds, None
  <2>3. Share(new, key, BudgetRefunds) = amount
    BY <1>2, <1>3 DEF Share, BudgetRefunds, InFlightRefunds
  <2>4. QED  BY <2>1, <2>2, <2>3
<1>5. RefundTotal(new, BudgetRefunds) <= Amount
  BY <1>4, PaymentsAssumption
<1>6. StatusFits("REFUNDING", new)
  <2>1. new[key].status \in InFlightRefunds /\ new[key].amount = amount
    BY <1>2, <1>3 DEF InFlightRefunds
  <2>2. RefundTotal(new, {"SUCCEEDED"}) + amount <= RefundTotal(new, BudgetRefunds)
    BY <1>3, <2>1, MovingIsExtra
  <2>3. RefundTotal(new, {"SUCCEEDED"}) \in Nat /\ RefundTotal(new, BudgetRefunds) \in Nat
    BY <1>3, TotalType
  <2>4. RefundTotal(new, {"SUCCEEDED"}) # Amount
    BY <1>5, <2>2, <2>3, PaymentsAssumption
  <2>5. QED  BY <2>1, <2>4 DEF StatusFits
<1>7. \A k \in RefundKeys :
        new[k] # NoRefund => new[k].status # None /\ new[k].amount # 0
  BY <1>2, <1>3 DEF Account, None
<1>8. \A k \in RefundKeys : back[k] => new[k].status \in BudgetRefunds
  BY <1>2, <1>3 DEF Account, BudgetRefunds, InFlightRefunds
<1>9. Account("REFUNDING", new, back)
  BY <1>3, <1>5, <1>6, <1>7, <1>8 DEF Account, PaidCallbackStatuses
<1>10. QED  BY <1>9 DEF new, row

(* A row that only changes its status leaves a total alone when the total  *)
(* counts it before and after, or neither time; it lowers it when it is no *)
(* longer counted.                                                         *)
LEMMA TotalMove ==
  ASSUME NEW rows \in Rows, NEW new \in Rows, NEW key \in RefundKeys, NEW statuses,
         \A k \in RefundKeys \ {key} : new[k] = rows[k],
         new[key].amount = rows[key].amount
  PROVE  /\ (rows[key].status \in statuses <=> new[key].status \in statuses)
              => RefundTotal(new, statuses) = RefundTotal(rows, statuses)
         /\ rows[key].status \in statuses
              => RefundTotal(new, statuses) <= RefundTotal(rows, statuses)
<1>1. PICK rest \in Nat :
         /\ RefundTotal(rows, statuses) = rest + Share(rows, key, statuses)
         /\ RefundTotal(new, statuses) = rest + Share(new, key, statuses)
  BY TotalChange
<1>2. rows[key].amount \in Nat
  BY PaymentsAssumption DEF Rows, Row
<1>3. /\ (rows[key].status \in statuses <=> new[key].status \in statuses)
           => Share(new, key, statuses) = Share(rows, key, statuses)
      /\ rows[key].status \in statuses
           => Share(new, key, statuses) <= Share(rows, key, statuses)
      /\ Share(new, key, statuses) \in Nat /\ Share(rows, key, statuses) \in Nat
  BY <1>2 DEF Share
<1>4. QED  BY <1>1, <1>3

(* RefundClaim.                                                            *)
LEMMA AccountClaimed ==
  ASSUME NEW rows, NEW back, NEW status, NEW new \in Rows, NEW key \in RefundKeys,
         Account(status, rows, back),
         \A k \in RefundKeys \ {key} : new[k] = rows[k],
         rows[key].status \in InFlightRefunds,
         new[key].amount = rows[key].amount,
         new[key].status \in InFlightRefunds
  PROVE  Account(status, new, back)
<1>1. rows \in Rows
  BY DEF Account
<1>2. InFlightRefunds \subseteq BudgetRefunds /\ "SUCCEEDED" \notin InFlightRefunds
      /\ None \notin InFlightRefunds
  BY DEF BudgetRefunds, InFlightRefunds, None
<1>3. RefundTotal(new, BudgetRefunds) = RefundTotal(rows, BudgetRefunds)
  BY <1>1, <1>2, TotalMove
<1>4. RefundTotal(new, {"SUCCEEDED"}) = RefundTotal(rows, {"SUCCEEDED"})
  BY <1>1, <1>2, TotalMove
<1>5. /\ \E k \in RefundKeys : new[k].status \in InFlightRefunds
      /\ \E k \in RefundKeys : rows[k].status \in InFlightRefunds
  OBVIOUS
<1>6. StatusFits(status, rows) => StatusFits(status, new)
  BY <1>4, <1>5 DEF StatusFits
<1>7. rows[key] # NoRefund
  BY <1>2 DEF NoRefund
<1>8. ASSUME NEW k \in RefundKeys, new[k] # NoRefund
      PROVE  /\ status \in PaidCallbackStatuses
             /\ new[k].status # None
             /\ new[k].amount # 0
  BY <1>2, <1>7, <1>8 DEF Account
<1>9. \A k \in RefundKeys : back[k] => new[k].status \in BudgetRefunds
  BY <1>2 DEF Account
<1>10. QED  BY <1>3, <1>6, <1>8, <1>9 DEF Account

(* Submitted: the channel gives the money of a counted refund back.        *)
LEMMA AccountReturned ==
  ASSUME NEW rows, NEW back \in [RefundKeys -> BOOLEAN], NEW status, NEW key \in RefundKeys,
         Account(status, rows, back),
         rows[key].status = "PROCESSING"
  PROVE  Account(status, rows, [back EXCEPT ![key] = TRUE])
<1>1. rows[key].status \in BudgetRefunds
  BY DEF BudgetRefunds, InFlightRefunds
<1>2. \A k \in RefundKeys :
        [back EXCEPT ![key] = TRUE][k] => rows[k].status \in BudgetRefunds
  BY <1>1 DEF Account
<1>3. QED  BY <1>2 DEF Account

(* RefundCommit: the outcome is recorded and, if final, settles the        *)
(* payment.                                                                *)
LEMMA AccountSettled ==
  ASSUME NEW rows, NEW back, NEW status, NEW new \in Rows, NEW key \in RefundKeys,
         Account(status, rows, back),
         \A k \in RefundKeys \ {key} : new[k] = rows[k],
         rows[key].status = "PROCESSING",
         new[key].amount = rows[key].amount,
         new[key].status \in TerminalRefunds,
         new[key].status = "FAILED" => ~back[key]
  PROVE  Account(SettledStatus(new), new, back)
<1>1. rows \in Rows
  BY DEF Account
<1>2. rows[key].status \in BudgetRefunds
  BY DEF BudgetRefunds, InFlightRefunds
<1>3. RefundTotal(rows, BudgetRefunds) <= Amount
  BY DEF Account
<1>4. RefundTotal(new, BudgetRefunds) <= RefundTotal(rows, BudgetRefunds)
  BY <1>1, <1>2, TotalMove
<1>5. RefundTotal(new, BudgetRefunds) <= Amount
  BY <1>1, <1>3, <1>4, TotalType, PaymentsAssumption
<1>6. SettledStatus(new) \in PaidCallbackStatuses
  BY DEF SettledStatus, PaidCallbackStatuses
<1>7. \A k \in RefundKeys :
        new[k] # NoRefund => new[k].status # None /\ new[k].amount # 0
  <2>1. rows[key] # NoRefund
    BY DEF NoRefund, None
  <2>2. QED  BY <2>1 DEF Account, TerminalRefunds, None
<1>8. \A k \in RefundKeys : back[k] => new[k].status \in BudgetRefunds
  BY DEF Account, BudgetRefunds, TerminalRefunds
<1>9. StatusFits(SettledStatus(new), new)
  <2> DEFINE settled == RefundTotal(new, {"SUCCEEDED"})
             moving == \E k \in RefundKeys : new[k].status \in InFlightRefunds
  <2>1. settled \in Nat /\ RefundTotal(new, BudgetRefunds) \in Nat
    BY TotalType
  <2>2. settled <= RefundTotal(new, BudgetRefunds)
    <3>1. {"SUCCEEDED"} \in SUBSET BudgetRefunds
      BY DEF BudgetRefunds
    <3>2. QED  BY <3>1, TotalGrows
  <2>3. settled <= Amount
    BY <1>5, <2>1, <2>2, PaymentsAssumption
  <2>4. ASSUME moving
        PROVE  settled < Amount
    <3>1. PICK k \in RefundKeys : new[k].status \in InFlightRefunds
      BY <2>4
    <3>2. settled + new[k].amount <= RefundTotal(new, BudgetRefunds)
      BY <3>1, MovingIsExtra
    <3>3. new[k].amount \in Nat /\ new[k].amount # 0
      <4>1. new[k] # NoRefund
        BY <3>1 DEF NoRefund, InFlightRefunds, None
      <4>2. QED  BY <1>7, <4>1, PaymentsAssumption DEF Rows, Row
    <3>4. QED  BY <1>5, <2>1, <3>2, <3>3, PaymentsAssumption
  <2>5. SettledStatus(new)
          = IF settled >= Amount THEN "REFUNDED"
            ELSE IF moving THEN "REFUNDING"
            ELSE IF settled > 0 THEN "PARTIALLY_REFUNDED"
            ELSE "PAID"
    BY DEF SettledStatus
  <2>6. StatusFits(SettledStatus(new), new)
          <=> /\ SettledStatus(new) = "REFUNDED"  <=> settled = Amount
              /\ SettledStatus(new) = "REFUNDING" <=> moving
              /\ SettledStatus(new) = "PAID"      <=> settled = 0 /\ ~moving
    BY DEF StatusFits
  <2> HIDE DEF settled, moving
  <2>7. QED  BY <2>1, <2>3, <2>4, <2>5, <2>6, PaymentsAssumption
<1>10. QED  BY <1>5, <1>6, <1>7, <1>8, <1>9 DEF Account

-----------------------------------------------------------------------------
(* The invariant                                                           *)

(* Orders that were paid for.                                              *)
StartedOrders == {"PAID", "QUEUED", "MAKING", "READY"}

UnpaidOrders == {"CREATED", "AWAITING_PAYMENT"}

Told == [intent : Intents, result : {"PAID", "CLOSED", "FAILED"}]

InProgress == [phase : {"claimed", "answered"}, intent : Intents, key : RefundKeys,
               ask : BOOLEAN, result : RefundStatus \cup {None}]

RowsTyped ==
    /\ payment \in [Intents -> PaymentStatus \cup {None}]
    /\ refund \in [Intents -> Rows]
    /\ returned \in [Intents -> [RefundKeys -> BOOLEAN]]

CallsTyped ==
    /\ order \in UnpaidOrders \cup StartedOrders \cup {"FAILED", "CANCELLED", "EXPIRED", "REFUNDED"}
    /\ primary \in Intents \cup {None}
    /\ closing \in [Intents -> {"no", "todo", "closed"}]
    /\ reconcile \in {NoReconcile} \cup Told
    /\ work \in {NoWork} \cup InProgress

Accounts == \A p \in Intents : Account(payment[p], refund[p], returned[p])

(* The refund being worked on is the worker's: nothing else settles it,    *)
(* and a refusal by the channel is final.                                  *)
InHand ==
    work # NoWork =>
        /\ refund[work.intent][work.key].status = "PROCESSING"
        /\ work.phase = "answered" => work.result # None
        /\ work.result = "FAILED" => ~returned[work.intent][work.key]

(* An order that was paid for knows by which payment.                      *)
PrimaryPaid ==
    /\ order \in StartedOrders => primary # None
    /\ primary # None => Recorded(primary)

MoneyInv == RowsTyped /\ CallsTyped /\ Accounts /\ InHand /\ PrimaryPaid

(* What most steps do to the rows: they settle nothing that exists and     *)
(* forget no money.                                                        *)
RowsKept ==
    \A p \in Intents, k \in RefundKeys :
        refund[p][k] # NoRefund => refund'[p][k] = refund[p][k]

MoneyKept == \A p \in Intents : Recorded(p) => Recorded(p)'

Kept == RowsTyped' /\ Accounts' /\ RowsKept /\ MoneyKept

(* What no step undoes: money that is known, a refund that succeeded, the  *)
(* order's own payment, and a drink that is ready.                         *)
NothingUndone ==
    /\ MoneyKept
    /\ \A p \in Intents, k \in RefundKeys :
         refund[p][k].status = "SUCCEEDED" => refund'[p][k].status = "SUCCEEDED"
    /\ primary # None => primary' = primary
    /\ order = "READY" => order' = "READY"
    /\ order' = "READY" =>
         order = "READY" \/ (order = "MAKING" /\ UNCHANGED <<refund, primary>>)

LEMMA MoneyInit == Init => MoneyInv
<1> SUFFICES ASSUME Init
             PROVE  MoneyInv
  OBVIOUS
<1> USE DEF Init
<1>1. NoRefund \in Row
  BY PaymentsAssumption DEF NoRefund, Row
<1>2. RowsTyped
  BY <1>1 DEF RowsTyped, Rows, PaymentStatus, OpenPayments
<1>3. CallsTyped
  BY DEF CallsTyped, UnpaidOrders
<1>4. ASSUME NEW p \in Intents
      PROVE  Account(payment[p], refund[p], returned[p])
  <2>1. /\ refund[p] \in Rows
        /\ \A k \in RefundKeys : refund[p][k] = NoRefund
        /\ \A k \in RefundKeys : ~returned[p][k]
    BY <1>2 DEF RowsTyped
  <2>2. RefundTotal(refund[p], BudgetRefunds) = 0
    <3>1. None \notin BudgetRefunds
      BY DEF None, BudgetRefunds, InFlightRefunds
    <3>2. QED  BY <2>1, <3>1, NoRefundsNoTotal
  <2>3. payment[p] \notin PaidCallbackStatuses
    BY DEF PaidCallbackStatuses, None
  <2>4. QED  BY <2>1, <2>2, <2>3, PaymentsAssumption DEF Account
<1>5. InHand /\ PrimaryPaid
  BY DEF InHand, PrimaryPaid, StartedOrders
<1>6. QED  BY <1>2, <1>3, <1>4, <1>5 DEF MoneyInv, Accounts

LEMMA OpenedKeeps ==
  ASSUME RowsTyped, Accounts, UNCHANGED returned,
         NEW p \in Intents, NEW key \in RefundKeys, NEW amount \in 1..Amount, NEW main,
         refund[p][key] = NoRefund,
         amount <= Remaining(p),
         RefundOpened(p, key, amount, main)
  PROVE  Kept /\ Recorded(p)' /\ \A q \in Intents \ {p} : payment'[q] = payment[q]
<1> DEFINE row == [status |-> "REQUESTED", amount |-> amount, tried |-> FALSE]
           new == [refund[p] EXCEPT ![key] = row]
<1>1. /\ refund' = [refund EXCEPT ![p] = new]
      /\ payment' = [payment EXCEPT ![p] = "REFUNDING"]
  BY DEF RefundOpened, RowsTyped
<1>2. Account("REFUNDING", new, returned[p])
  <2>1. Account(payment[p], refund[p], returned[p])
    BY DEF Accounts
  <2>2. amount <= Amount - RefundTotal(refund[p], BudgetRefunds)
    BY DEF Remaining
  <2>3. QED  BY <2>1, <2>2, AccountOpened
<1>3. new \in Rows /\ \A k \in RefundKeys \ {key} : new[k] = refund[p][k]
  <2>1. new \in Rows
    BY <1>2 DEF Account
  <2>2. QED  BY <2>1 DEF RowsTyped, Rows
<1> HIDE DEF new
<1>4. RowsTyped'
  BY <1>1, <1>3 DEF RowsTyped, PaymentStatus, PaidCallbackStatuses
<1>5. ASSUME NEW q \in Intents
      PROVE  Account(payment[q], refund[q], returned[q])'
  <2>1. CASE q = p
    <3>1. payment'[q] = "REFUNDING" /\ refund'[q] = new /\ returned'[q] = returned[p]
      BY <1>1, <2>1 DEF RowsTyped
    <3>2. Account(payment'[q], refund'[q], returned'[q])
      BY <1>2, <3>1
    <3>3. QED  BY <3>2 DEF Account
  <2>2. CASE q # p
    <3>1. payment'[q] = payment[q] /\ refund'[q] = refund[q] /\ returned'[q] = returned[q]
      BY <1>1, <2>2 DEF RowsTyped
    <3>2. Account(payment'[q], refund'[q], returned'[q])
      BY <3>1 DEF Accounts
    <3>3. QED  BY <3>2 DEF Account
  <2>3. QED  BY <2>1, <2>2
<1>6. RowsKept
  BY <1>1, <1>3 DEF RowsKept, RowsTyped
<1>7. MoneyKept /\ Recorded(p)' /\ \A q \in Intents \ {p} : payment'[q] = payment[q]
  BY <1>1 DEF MoneyKept, Recorded, RowsTyped, PaidCallbackStatuses
<1>8. QED  BY <1>4, <1>5, <1>6, <1>7 DEF Kept, Accounts

(* A step writes payments only while nothing is known to be collected.     *)
LEMMA UnpaidKeeps ==
  ASSUME RowsTyped, Accounts, UNCHANGED <<refund, returned>>,
         payment' \in [Intents -> PaymentStatus \cup {None}],
         \A q \in Intents :
            \/ payment'[q] = payment[q]
            \/ ~Recorded(q) /\ (payment'[q] = "PAID" \/ payment'[q] \notin PaidCallbackStatuses)
  PROVE  Kept
<1>1. ASSUME NEW q \in Intents
      PROVE  Account(payment[q], refund[q], returned[q])'
  <2>1. Account(payment[q], refund[q], returned[q])
    BY DEF Accounts
  <2>2. Account(payment'[q], refund[q], returned[q])
    BY <2>1, AccountUnpaid DEF Recorded
  <2>3. refund'[q] = refund[q] /\ returned'[q] = returned[q]
    OBVIOUS
  <2>4. Account(payment'[q], refund'[q], returned'[q])
    BY <2>2, <2>3
  <2>5. QED  BY <2>4 DEF Account
<1>2. RowsTyped' /\ RowsKept /\ MoneyKept
  BY DEF RowsTyped, RowsKept, MoneyKept, Recorded
<1>3. QED  BY <1>1, <1>2 DEF Kept, Accounts

LEMMA NothingKeeps ==
  ASSUME RowsTyped, Accounts, UNCHANGED <<payment, refund, returned>>
  PROVE  Kept
BY UnpaidKeeps DEF RowsTyped

LEMMA InHandKeeps ==
  ASSUME RowsTyped, CallsTyped, InHand, RowsKept, UNCHANGED <<work, returned>>
  PROVE  InHand'
<1>1. SUFFICES ASSUME work # NoWork
               PROVE  InHand'
  BY DEF InHand
<1>2. work.intent \in Intents /\ work.key \in RefundKeys
  BY <1>1 DEF CallsTyped, InProgress
<1>3. refund[work.intent][work.key] # NoRefund
  BY <1>1 DEF InHand, NoRefund, None
<1>4. refund'[work.intent][work.key] = refund[work.intent][work.key]
  BY <1>2, <1>3 DEF RowsKept
<1>5. QED  BY <1>4 DEF InHand

LEMMA RemainingIsAmount ==
  ASSUME RowsTyped, NEW p \in Intents, Remaining(p) > 0
  PROVE  Remaining(p) \in 1..Amount
<1>1. RefundTotal(refund[p], BudgetRefunds) \in Nat
  BY TotalType DEF RowsTyped
<1>2. QED  BY <1>1, PaymentsAssumption DEF Remaining

LEMMA PaidFactKeeps ==
  ASSUME RowsTyped, Accounts, CallsTyped, PrimaryPaid, UNCHANGED returned,
         NEW p \in Intents, PaidFact(p)
  PROVE  /\ Kept
         /\ order' = order \/ (order \in UnpaidOrders /\ order' = "PAID")
         /\ primary' \in Intents \cup {None}
         /\ primary # None => primary' = primary
         /\ PrimaryPaid'
<1> DEFINE main == PrimaryWith(p)
<1>1. /\ main \in Intents /\ main # None
      /\ primary # None => main = primary
      /\ main = primary \/ main = p
  BY PaymentsAssumption DEF PrimaryWith, CallsTyped
<1>2. CASE Recorded(p)
  <2>1. UNCHANGED ledger
    BY <1>2 DEF PaidFact
  <2>2. Kept
    BY <2>1, NothingKeeps DEF ledger
  <2>3. QED  BY <2>1, <2>2 DEF ledger, CallsTyped, PrimaryPaid, Recorded
<1>3. CASE ~Recorded(p)
  <2>1. Account(payment[p], refund[p], returned[p])
    BY DEF Accounts
  <2>2. \A k \in RefundKeys : refund[p][k] = NoRefund
    BY <1>3, <2>1 DEF Account, Recorded
  <2>3. Remaining(p) = Amount
    <3>1. None \notin BudgetRefunds
      BY DEF None, BudgetRefunds, InFlightRefunds
    <3>2. RefundTotal(refund[p], BudgetRefunds) = 0
      BY <2>2, <3>1, NoRefundsNoTotal
    <3>3. QED  BY <3>2, PaymentsAssumption DEF Remaining
  <2>4. primary' = main
    BY <1>3 DEF PaidFact
  <2>5. Amount \in 1..Amount /\ Amount <= Remaining(p)
    BY <2>3, PaymentsAssumption
  <2>6. ASSUME NEW key \in RefundKeys, RefundOpened(p, key, Amount, main)
        PROVE  Kept /\ Recorded(p)'
    BY <2>2, <2>5, <2>6, OpenedKeeps
  <2>7. CASE TooLate
    <3>1. RefundOpened(p, "late", Amount, main) /\ UNCHANGED order
      BY <1>3, <2>7 DEF PaidFact
    <3>2. Kept /\ Recorded(p)'
      BY <2>6, <3>1 DEF RefundKeys
    <3>3. QED
      BY <1>1, <2>4, <3>1, <3>2 DEF Kept, MoneyKept, PrimaryPaid, CallsTyped
  <2>8. CASE ~TooLate /\ main # p
    <3>1. RefundOpened(p, "extra", Amount, main) /\ UNCHANGED order
      BY <1>3, <2>8 DEF PaidFact
    <3>2. Kept /\ Recorded(p)'
      BY <2>6, <3>1 DEF RefundKeys
    <3>3. QED
      BY <1>1, <2>4, <3>1, <3>2 DEF Kept, MoneyKept, PrimaryPaid, CallsTyped
  <2>9. CASE ~TooLate /\ main = p
    <3>1. payment' = [payment EXCEPT ![p] = "PAID"] /\ UNCHANGED refund
      BY <1>3, <2>9 DEF PaidFact
    <3>2. order' = order \/ (order \in UnpaidOrders /\ order' = "PAID")
      BY <1>3, <2>9 DEF PaidFact, UnpaidOrders
    <3>3. payment' \in [Intents -> PaymentStatus \cup {None}]
      BY <3>1 DEF RowsTyped, PaymentStatus, PaidCallbackStatuses
    <3>4. Kept
      BY <1>3, <3>1, <3>3, UnpaidKeeps DEF RowsTyped
    <3>5. Recorded(p)'
      BY <3>1 DEF Recorded, RowsTyped, PaidCallbackStatuses
    <3>6. QED
      BY <1>1, <2>4, <2>9, <3>2, <3>4, <3>5
      DEF PrimaryPaid, CallsTyped, StartedOrders
  <2>10. QED  BY <2>7, <2>8, <2>9
<1>4. QED  BY <1>2, <1>3

LEMMA EnsuredKeeps ==
  ASSUME RowsTyped, Accounts, UNCHANGED returned,
         NEW p \in Intents, NEW key \in RefundKeys, RefundEnsured(p, key)
  PROVE  Kept
<1>1. CASE /\ payment[p] \in RefundablePayments
           /\ refund[p][key] = NoRefund
           /\ Remaining(p) > 0
  <2>1. RefundOpened(p, key, Remaining(p), primary)
    BY <1>1 DEF RefundEnsured
  <2>2. Remaining(p) \in 1..Amount
    BY <1>1, RemainingIsAmount
  <2>3. Remaining(p) <= Remaining(p)
    BY <2>2, PaymentsAssumption
  <2>4. QED  BY <1>1, <2>1, <2>2, <2>3, OpenedKeeps
<1>2. CASE ~(/\ payment[p] \in RefundablePayments
             /\ refund[p][key] = NoRefund
             /\ Remaining(p) > 0)
  <2>1. UNCHANGED <<refund, payment>>
    BY <1>2 DEF RefundEnsured
  <2>2. QED  BY <2>1, NothingKeeps
<1>3. QED  BY <1>1, <1>2

-----------------------------------------------------------------------------
(* Every step keeps the invariant                                          *)

(* A step that settles no refund and leaves the worker alone.              *)
LEMMA KeptStep ==
  ASSUME MoneyInv, Kept, UNCHANGED <<work, returned>>, CallsTyped',
         order' \in StartedOrders => order \in StartedOrders \/ primary' # None,
         primary # None => primary' = primary,
         primary' # None => primary = primary' \/ Recorded(primary)',
         order = "READY" => order' = "READY",
         order' = "READY" => order = "READY" \/ (order = "MAKING" /\ UNCHANGED <<refund, primary>>)
  PROVE  MoneyInv' /\ NothingUndone
<1>1. RowsTyped' /\ Accounts' /\ RowsKept /\ MoneyKept
  BY DEF Kept
<1>2. InHand'
  BY <1>1, InHandKeeps DEF MoneyInv
<1>3. PrimaryPaid'
  <2>1. primary' \in Intents \cup {None}
    BY DEF CallsTyped
  <2>2. primary' # None => Recorded(primary)'
    BY <1>1, <2>1 DEF MoneyInv, PrimaryPaid, MoneyKept
  <2>3. order' \in StartedOrders => primary' # None
    BY DEF MoneyInv, PrimaryPaid
  <2>4. QED  BY <2>2, <2>3 DEF PrimaryPaid
<1>4. \A p \in Intents, k \in RefundKeys :
        refund[p][k].status = "SUCCEEDED" => refund'[p][k].status = "SUCCEEDED"
  BY <1>1 DEF RowsKept, NoRefund, None
<1>5. QED  BY <1>1, <1>2, <1>3, <1>4 DEF MoneyInv, NothingUndone

(* A step that leaves order and primary alone, too.                        *)
LEMMA QuietStep ==
  ASSUME MoneyInv, Kept, UNCHANGED <<order, primary, work, returned>>, CallsTyped'
  PROVE  MoneyInv' /\ NothingUndone
<1>1. primary # None => primary' = primary
  OBVIOUS
<1>2. QED  BY <1>1, KeptStep

(* The customer's requests.                                                *)
LEMMA CreateStep ==
  ASSUME MoneyInv, NEW p \in Intents, CreateIntent(p)
  PROVE  MoneyInv' /\ NothingUndone
<1> USE DEF CreateIntent, MoneyInv
<1>1. payment' = [payment EXCEPT ![p] = "CREATED"] /\ UNCHANGED <<refund, returned>>
  BY DEF channel
<1>2. payment' \in [Intents -> PaymentStatus \cup {None}]
  BY <1>1 DEF RowsTyped, PaymentStatus, OpenPayments
<1>3. \A q \in Intents :
         \/ payment'[q] = payment[q]
         \/ (~Recorded(q) /\ payment'[q] \notin PaidCallbackStatuses)
  BY <1>1 DEF RowsTyped, Recorded, PaidCallbackStatuses, None
<1>4. Kept
  BY <1>1, <1>2, <1>3, UnpaidKeeps
<1>5. CallsTyped'
  BY DEF CallsTyped, UnpaidOrders, calls
<1>6. QED  BY <1>4, <1>5, KeptStep DEF AcceptsPayment, StartedOrders, channel, calls

LEMMA OutsideStep ==
  ASSUME MoneyInv, UNCHANGED <<ledger, returned, work>>,
         closing' \in [Intents -> {"no", "todo", "closed"}],
         reconcile' \in {NoReconcile} \cup Told
  PROVE  MoneyInv' /\ NothingUndone
<1>1. Kept
  BY NothingKeeps DEF MoneyInv, ledger
<1>2. CallsTyped'
  BY DEF MoneyInv, CallsTyped, ledger
<1>3. QED  BY <1>1, <1>2, QuietStep DEF ledger

LEMMA PaidFactStep ==
  ASSUME MoneyInv, NEW p \in Intents, PaidFact(p), UNCHANGED <<returned, work, closing>>,
         reconcile' \in {NoReconcile, reconcile}
  PROVE  MoneyInv' /\ NothingUndone
<1>1. /\ Kept
      /\ order' = order \/ (order \in UnpaidOrders /\ order' = "PAID")
      /\ primary' \in Intents \cup {None}
      /\ primary # None => primary' = primary
      /\ PrimaryPaid'
  BY PaidFactKeeps DEF MoneyInv
<1>2. CallsTyped'
  BY <1>1 DEF MoneyInv, CallsTyped, StartedOrders
<1>3. /\ order' \in StartedOrders => primary' # None
      /\ primary' # None => Recorded(primary)'
  BY <1>1 DEF PrimaryPaid
<1>4. order = "READY" <=> order' = "READY"
  BY <1>1 DEF UnpaidOrders
<1>5. QED  BY <1>1, <1>2, <1>3, <1>4, KeptStep

LEMMA AnswerStep ==
  ASSUME MoneyInv, NEW p \in Intents, RecordAnswer(p)
  PROVE  MoneyInv' /\ NothingUndone
<1>1. UNCHANGED <<returned, closing, reconcile, work>>
  BY DEF RecordAnswer, channel
<1>2. CASE answer[p] = "PAID"
  BY <1>1, <1>2, PaidFactStep DEF RecordAnswer
<1>3. CASE answer[p] # "PAID"
  <2>1. /\ payment' = IF payment[p] = "CREATED"
                        THEN [payment EXCEPT ![p] = "PENDING"] ELSE payment
        /\ UNCHANGED <<order, primary, refund>>
    BY <1>3 DEF RecordAnswer
  <2>2. payment' \in [Intents -> PaymentStatus \cup {None}]
    BY <2>1 DEF MoneyInv, RowsTyped, PaymentStatus, OpenPayments
  <2>3. \A q \in Intents :
           \/ payment'[q] = payment[q]
           \/ (~Recorded(q) /\ payment'[q] \notin PaidCallbackStatuses)
    BY <2>1 DEF MoneyInv, RowsTyped, Recorded, PaidCallbackStatuses
  <2>4. Kept
    BY <1>1, <2>1, <2>2, <2>3, UnpaidKeeps DEF MoneyInv
  <2>5. CallsTyped'
    BY <1>1, <2>1 DEF MoneyInv, CallsTyped
  <2>6. QED  BY <1>1, <2>1, <2>4, <2>5, QuietStep
<1>4. QED  BY <1>2, <1>3

LEMMA CallbackStep ==
  ASSUME MoneyInv, NEW p \in Intents, Callback(p)
  PROVE  MoneyInv' /\ NothingUndone
<1>1. UNCHANGED <<returned, closing, reconcile, work>>
  BY DEF Callback, channel, calls
<1>2. QED  BY <1>1, PaidFactStep DEF Callback

LEMMA CancelStep ==
  ASSUME MoneyInv, CancelOrder
  PROVE  MoneyInv' /\ NothingUndone
<1> USE DEF MoneyInv, CancelOrder
<1>1. UNCHANGED <<returned, primary, reconcile, work>> /\ order' = "CANCELLED"
  BY DEF channel
<1>2. Kept
  <2>1. CASE order = "QUEUED" /\ projection \in RefundablePayments
    <3>1. primary \in Intents
      BY <2>1 DEF PrimaryPaid, StartedOrders, CallsTyped
    <3>2. RefundEnsured(primary, "cancel") /\ "cancel" \in RefundKeys
      BY <2>1 DEF RefundKeys
    <3>3. QED  BY <1>1, <3>1, <3>2, EnsuredKeeps
  <2>2. CASE ~(order = "QUEUED" /\ projection \in RefundablePayments)
    BY <1>1, <2>2, NothingKeeps
  <2>3. QED  BY <2>1, <2>2
<1>3. CallsTyped'
  <2>1. closing' = [p \in Intents |-> IF p \in OpenIntents THEN "todo" ELSE "no"]
    OBVIOUS
  <2>2. closing' \in [Intents -> {"no", "todo", "closed"}]
    BY <2>1
  <2>3. QED  BY <1>1, <2>2 DEF CallsTyped
<1>4. order # "READY" /\ order' \notin StartedOrders
  BY <1>1 DEF StartedOrders
<1>5. QED  BY <1>1, <1>2, <1>3, <1>4, KeptStep DEF StartedOrders

LEMMA CancelCommitStep ==
  ASSUME MoneyInv, CancelCommit
  PROVE  MoneyInv' /\ NothingUndone
<1> DEFINE closed == {p \in OpenIntents : closing[p] = "closed"}
<1>1. /\ UNCHANGED <<order, primary, refund, returned, reconcile, work>>
      /\ payment' = [p \in Intents |-> IF p \in closed THEN "CLOSED" ELSE payment[p]]
      /\ closing' = [p \in Intents |-> "no"]
  BY DEF CancelCommit, channel
<1>2. \A q \in closed : ~Recorded(q)
  BY DEF OpenIntents, OpenPayments, Recorded, PaidCallbackStatuses
<1> HIDE DEF closed
<1>3. payment' \in [Intents -> PaymentStatus \cup {None}]
  BY <1>1 DEF MoneyInv, RowsTyped, PaymentStatus
<1>4. \A q \in Intents :
         \/ payment'[q] = payment[q]
         \/ (~Recorded(q) /\ payment'[q] \notin PaidCallbackStatuses)
  BY <1>1, <1>2 DEF PaidCallbackStatuses
<1>5. Kept
  BY <1>1, <1>3, <1>4, UnpaidKeeps DEF MoneyInv
<1>6. CallsTyped'
  BY <1>1 DEF MoneyInv, CallsTyped
<1>7. QED  BY <1>1, <1>5, <1>6, QuietStep

(* The domain worker on payments and orders.                               *)
LEMMA ReconcileCommitStep ==
  ASSUME MoneyInv, ReconcileCommit
  PROVE  MoneyInv' /\ NothingUndone
<1> DEFINE p == reconcile.intent
           result == reconcile.result
<1>1. /\ UNCHANGED <<returned, closing, work>>
      /\ reconcile' = NoReconcile
      /\ reconcile # NoReconcile
  BY DEF ReconcileCommit, channel
<1>2. p \in Intents /\ result \in {"PAID", "CLOSED", "FAILED"}
  BY <1>1 DEF MoneyInv, CallsTyped, Told
<1>3. CASE result = "PAID"
  <2>1. PaidFact(p)
    BY <1>3 DEF ReconcileCommit
  <2>2. QED  BY <1>1, <1>2, <2>1, PaidFactStep
<1>4. CASE result # "PAID" /\ p \notin OpenIntents
  <2>1. UNCHANGED ledger
    BY <1>4 DEF ReconcileCommit
  <2>2. QED  BY <1>1, <2>1, OutsideStep DEF MoneyInv, CallsTyped
<1>5. CASE result # "PAID" /\ p \in OpenIntents
  <2>1. /\ payment' = [payment EXCEPT ![p] = result]
        /\ order' = IF order \in {"CREATED", "AWAITING_PAYMENT"} THEN "CANCELLED" ELSE order
        /\ UNCHANGED <<primary, refund>>
    BY <1>5 DEF ReconcileCommit
  <2>2. payment' \in [Intents -> PaymentStatus \cup {None}]
    BY <1>2, <2>1 DEF MoneyInv, RowsTyped, PaymentStatus, PaidCallbackStatuses
  <2>3. ~Recorded(p)
    BY <1>5 DEF OpenIntents, OpenPayments, Recorded, PaidCallbackStatuses
  <2>4. \A q \in Intents :
           \/ payment'[q] = payment[q]
           \/ (~Recorded(q) /\ payment'[q] \notin PaidCallbackStatuses)
    BY <1>2, <1>5, <2>1, <2>3 DEF MoneyInv, RowsTyped, PaidCallbackStatuses
  <2>5. Kept
    BY <1>1, <2>1, <2>2, <2>4, UnpaidKeeps DEF MoneyInv
  <2>6. CallsTyped'
    BY <1>1, <2>1 DEF MoneyInv, CallsTyped
  <2>7. QED  BY <1>1, <2>1, <2>5, <2>6, KeptStep DEF StartedOrders
<1>6. QED  BY <1>3, <1>4, <1>5

(* ExpireUnpaid, ProcessPaidEvent and Dispatch.                            *)
LEMMA OrderStep ==
  ASSUME MoneyInv,
         UNCHANGED <<primary, payment, refund, channel, calls>>,
         \/ order' = order
         \/ order = "CREATED" /\ order' = "EXPIRED"
         \/ order = "PAID" /\ order' = "QUEUED"
         \/ order = "QUEUED" /\ order' = "MAKING"
  PROVE  MoneyInv' /\ NothingUndone
<1>1. UNCHANGED <<payment, refund, returned, primary, closing, reconcile, work>>
  BY DEF channel, calls
<1>2. Kept
  BY <1>1, NothingKeeps DEF MoneyInv
<1>3. CallsTyped'
  BY <1>1 DEF MoneyInv, CallsTyped, StartedOrders
<1>4. QED  BY <1>1, <1>2, <1>3, KeptStep DEF StartedOrders

LEMMA ProductionEndsStep ==
  ASSUME MoneyInv, NEW outcome \in {"READY", "FAILED", "CANCELLED", "EXPIRED"},
         ProductionEnds(outcome)
  PROVE  MoneyInv' /\ NothingUndone
<1> USE DEF ProductionEnds
<1>1. /\ UNCHANGED <<returned, primary, closing, reconcile, work>>
      /\ order = "MAKING" /\ order' = outcome
  BY DEF channel, calls
<1>2. primary \in Intents
  BY <1>1 DEF MoneyInv, PrimaryPaid, StartedOrders, CallsTyped
<1>3. Kept
  <2>1. CASE UNCHANGED <<refund, payment, projection>>
    BY <1>1, <2>1, NothingKeeps DEF MoneyInv
  <2>2. CASE RefundEnsured(primary, "production")
    <3>1. "production" \in RefundKeys
      BY DEF RefundKeys
    <3>2. QED  BY <1>1, <1>2, <2>2, <3>1, EnsuredKeeps DEF MoneyInv
  <2>3. QED  BY <2>1, <2>2
<1>4. CallsTyped'
  BY <1>1 DEF MoneyInv, CallsTyped, StartedOrders
<1>5. order' = "READY" => UNCHANGED refund
  BY <1>1
<1>6. QED  BY <1>1, <1>3, <1>4, <1>5, KeptStep DEF StartedOrders

LEMMA ManualStep ==
  ASSUME MoneyInv, NEW p \in Intents, NEW key \in ManualKeys, NEW amount \in 1..Amount,
         ManualRefund(p, key, amount)
  PROVE  MoneyInv' /\ NothingUndone
<1> USE DEF ManualRefund
<1>1. UNCHANGED <<order, primary, returned, closing, reconcile, work>>
  BY DEF channel, calls
<1>2. key \in RefundKeys
  BY DEF RefundKeys
<1>3. Kept
  BY <1>1, <1>2, OpenedKeeps DEF MoneyInv
<1>4. CallsTyped'
  BY <1>1 DEF MoneyInv, CallsTyped
<1>5. QED  BY <1>1, <1>3, <1>4, QuietStep

(* The refund worker.                                                      *)
LEMMA RowWritten ==
  ASSUME RowsTyped, Accounts, UNCHANGED returned,
         NEW p \in Intents, NEW new, NEW status \in PaymentStatus \cup {None},
         refund' = [refund EXCEPT ![p] = new],
         payment' = [payment EXCEPT ![p] = status],
         Account(status, new, returned[p])
  PROVE  RowsTyped' /\ Accounts'
<1>1. new \in Rows
  BY DEF Account
<1>2. RowsTyped'
  BY <1>1 DEF RowsTyped
<1>3. ASSUME NEW q \in Intents
      PROVE  Account(payment[q], refund[q], returned[q])'
  <2>1. Account(payment'[q], refund'[q], returned'[q])
    <3>1. CASE q = p
      <4>1. payment'[q] = status /\ refund'[q] = new /\ returned'[q] = returned[p]
        BY <3>1 DEF RowsTyped
      <4>2. QED  BY <4>1
    <3>2. CASE q # p
      <4>1. payment'[q] = payment[q] /\ refund'[q] = refund[q] /\ returned'[q] = returned[q]
        BY <3>2 DEF RowsTyped
      <4>2. QED  BY <4>1 DEF Accounts
    <3>3. QED  BY <3>1, <3>2
  <2>2. QED  BY <2>1 DEF Account
<1>4. QED  BY <1>2, <1>3 DEF Accounts

LEMMA ClaimStep ==
  ASSUME MoneyInv, NEW p \in Intents, NEW key \in RefundKeys, RefundClaim(p, key)
  PROVE  MoneyInv' /\ NothingUndone
<1> DEFINE rows == refund[p]
           new == [rows EXCEPT ![key].status = "PROCESSING", ![key].tried = TRUE]
<1>1. /\ refund' = [refund EXCEPT ![p][key].status = "PROCESSING", ![p][key].tried = TRUE]
      /\ UNCHANGED <<order, primary, payment, returned, closing, reconcile>>
      /\ rows[key].status \in InFlightRefunds
      /\ work' = [phase |-> "claimed", intent |-> p, key |-> key,
                  ask |-> rows[key].tried, result |-> None]
  BY DEF RefundClaim, channel
<1>2. rows \in Rows /\ rows[key] \in Row
  BY DEF MoneyInv, RowsTyped, Rows
<1>3. /\ new \in Rows
      /\ \A k \in RefundKeys \ {key} : new[k] = rows[k]
      /\ new[key].status = "PROCESSING" /\ new[key].amount = rows[key].amount
  BY <1>2 DEF Rows, Row, RefundStatus, InFlightRefunds
<1>4. refund' = [refund EXCEPT ![p] = new]
  BY <1>1 DEF MoneyInv, RowsTyped, Rows
<1> HIDE DEF new
<1>5. Account(payment[p], new, returned[p])
  <2>1. Account(payment[p], rows, returned[p])
    BY DEF MoneyInv, Accounts
  <2>2. new[key].status \in InFlightRefunds
    BY <1>3 DEF InFlightRefunds
  <2>3. QED  BY <1>1, <1>3, <2>1, <2>2, AccountClaimed
<1>6. RowsTyped' /\ Accounts'
  <2>1. payment' = [payment EXCEPT ![p] = payment[p]] /\ payment[p] \in PaymentStatus \cup {None}
    BY <1>1 DEF MoneyInv, RowsTyped
  <2>2. QED  BY <1>1, <1>4, <1>5, <2>1, RowWritten DEF MoneyInv
<1>7. CallsTyped'
  <2>1. work' \in InProgress
    BY <1>1, <1>2 DEF InProgress, Row
  <2>2. QED  BY <1>1, <2>1 DEF MoneyInv, CallsTyped
<1>8. InHand'
  <2>1. refund'[p][key].status = "PROCESSING"
    BY <1>3, <1>4 DEF MoneyInv, RowsTyped
  <2>2. QED  BY <1>1, <2>1 DEF InHand, None
<1>9. PrimaryPaid'
  BY <1>1 DEF MoneyInv, PrimaryPaid, Recorded
<1>10. \A q \in Intents, k \in RefundKeys :
         refund[q][k].status = "SUCCEEDED" => refund'[q][k].status = "SUCCEEDED"
  BY <1>1, <1>3, <1>4 DEF MoneyInv, RowsTyped, InFlightRefunds
<1>11. NothingUndone
  BY <1>1, <1>10 DEF NothingUndone, MoneyKept, Recorded
<1>12. QED  BY <1>6, <1>7, <1>8, <1>9, <1>11 DEF MoneyInv

(* The channel answers, or gives money back and its answer is lost.        *)
LEMMA CallStep ==
  ASSUME MoneyInv, RefundCall
  PROVE  MoneyInv' /\ NothingUndone
<1> DEFINE p == work.intent
           key == work.key
           answered(result) == [work EXCEPT !.phase = "answered", !.result = result]
<1>1. UNCHANGED <<order, primary, payment, refund, closing, reconcile>> /\ work.phase = "claimed"
  BY DEF RefundCall, ledger
<1>2. work # NoWork /\ work \in InProgress
  BY <1>1 DEF NoWork, MoneyInv, CallsTyped
<1>3. p \in Intents /\ key \in RefundKeys
  BY <1>2 DEF InProgress
<1>4. refund[p][key].status = "PROCESSING"
  BY <1>2 DEF MoneyInv, InHand
<1>5. PICK result \in {"SUCCEEDED", "FAILED", "PROCESSING", "UNKNOWN"} :
         /\ work' = answered(result)
         /\ \/ UNCHANGED returned /\ (result = "FAILED" => ~returned[p][key])
            \/ returned' = [returned EXCEPT ![p][key] = TRUE] /\ result # "FAILED"
  BY DEF RefundCall, Submitted
<1>6. /\ work' \in InProgress /\ work'.phase = "answered" /\ work'.result = result
      /\ work'.intent = p /\ work'.key = key
  BY <1>2, <1>5 DEF InProgress, RefundStatus, InFlightRefunds, TerminalRefunds
<1>7. RowsTyped' /\ Accounts' /\ (result = "FAILED" => ~returned'[p][key])
  <2>1. CASE UNCHANGED returned /\ (result = "FAILED" => ~returned[p][key])
    <3>1. Kept
      BY <1>1, <2>1, NothingKeeps DEF MoneyInv
    <3>2. QED  BY <2>1, <3>1 DEF Kept
  <2>2. CASE returned' = [returned EXCEPT ![p][key] = TRUE] /\ result # "FAILED"
    <3>1. RowsTyped'
      BY <1>1, <1>3, <2>2 DEF MoneyInv, RowsTyped
    <3>2. ASSUME NEW q \in Intents
          PROVE  Account(payment[q], refund[q], returned[q])'
      <4>1. Account(payment[q], refund[q], returned[q])
        BY DEF MoneyInv, Accounts
      <4>2. returned[q] \in [RefundKeys -> BOOLEAN]
        BY DEF MoneyInv, RowsTyped
      <4>3. Account(payment'[q], refund'[q], returned'[q])
        <5>1. CASE q = p
          <6>1. returned'[q] = [returned[q] EXCEPT ![key] = TRUE]
            BY <1>3, <2>2, <5>1 DEF MoneyInv, RowsTyped
          <6>2. refund[q][key].status = "PROCESSING"
            BY <1>4, <5>1
          <6>3. Account(payment[q], refund[q], [returned[q] EXCEPT ![key] = TRUE])
            BY <1>3, <4>1, <4>2, <6>2, AccountReturned
          <6>4. QED  BY <1>1, <6>1, <6>3
        <5>2. CASE q # p
          <6>1. returned'[q] = returned[q]
            BY <1>3, <2>2, <5>2 DEF MoneyInv, RowsTyped
          <6>2. QED  BY <1>1, <4>1, <6>1
        <5>3. QED  BY <5>1, <5>2
      <4>4. QED  BY <4>3 DEF Account
    <3>3. QED  BY <2>2, <3>1, <3>2 DEF Accounts
  <2>3. QED  BY <1>5, <2>1, <2>2
<1>8. CallsTyped'
  BY <1>1, <1>6 DEF MoneyInv, CallsTyped
<1>9. InHand'
  BY <1>1, <1>4, <1>5, <1>6, <1>7 DEF InHand, None
<1>10. PrimaryPaid' /\ NothingUndone
  BY <1>1 DEF MoneyInv, PrimaryPaid, NothingUndone, MoneyKept, Recorded
<1>11. QED  BY <1>7, <1>8, <1>9, <1>10 DEF MoneyInv

LEMMA CommitStep ==
  ASSUME MoneyInv, RefundCommit
  PROVE  MoneyInv' /\ NothingUndone
<1> DEFINE p == work.intent
           key == work.key
           target == work.result
           new == [refund[p] EXCEPT ![key].status = target]
           settled == SettledStatus(new)
<1>1. /\ UNCHANGED <<primary, returned, closing, reconcile>>
      /\ work' = NoWork
      /\ work.phase = "answered"
  BY DEF RefundCommit, ledger, channel
<1>2. work # NoWork /\ work \in InProgress
  BY <1>1 DEF NoWork, MoneyInv, CallsTyped
<1>3. p \in Intents /\ key \in RefundKeys /\ target \in RefundStatus
  BY <1>1, <1>2 DEF InProgress, MoneyInv, InHand
<1>4. /\ refund[p][key].status = "PROCESSING"
      /\ target = "FAILED" => ~returned[p][key]
  BY <1>2 DEF MoneyInv, InHand
<1>5. \/ UNCHANGED ledger
      \/ /\ refund' = [refund EXCEPT ![p] = new]
         /\ IF target \in TerminalRefunds
              THEN /\ payment' = [payment EXCEPT ![p] = settled]
                   /\ order' = order \/ (order = "FAILED" /\ order' = "REFUNDED")
              ELSE UNCHANGED <<payment, order>>
  BY DEF RefundCommit
<1>6. CASE UNCHANGED ledger
  <2>1. Kept
    BY <1>1, <1>6, NothingKeeps DEF MoneyInv, ledger
  <2>2. CallsTyped'
    BY <1>1, <1>6 DEF MoneyInv, CallsTyped, ledger
  <2>3. InHand' /\ PrimaryPaid' /\ NothingUndone
    BY <1>1, <1>6 DEF InHand, MoneyInv, PrimaryPaid, NothingUndone, MoneyKept, Recorded, ledger
  <2>4. QED  BY <2>1, <2>2, <2>3 DEF MoneyInv, Kept
<1>7. CASE /\ refund' = [refund EXCEPT ![p] = new]
           /\ IF target \in TerminalRefunds
                THEN /\ payment' = [payment EXCEPT ![p] = settled]
                     /\ order' = order \/ (order = "FAILED" /\ order' = "REFUNDED")
                ELSE UNCHANGED <<payment, order>>
  <2>1. refund[p] \in Rows /\ refund[p][key] \in Row
    BY <1>3 DEF MoneyInv, RowsTyped, Rows
  <2>2. /\ new \in Rows
        /\ \A k \in RefundKeys \ {key} : new[k] = refund[p][k]
        /\ new[key].status = target /\ new[key].amount = refund[p][key].amount
    BY <1>3, <2>1 DEF Rows, Row
  <2>3. Account(payment[p], refund[p], returned[p])
    BY <1>3 DEF MoneyInv, Accounts
  <2>4. refund[p][key] # NoRefund
    BY <1>4 DEF NoRefund, None
  <2>5. Recorded(p)
    BY <1>3, <2>3, <2>4 DEF Account, Recorded
  <2>6. settled \in PaidCallbackStatuses
    BY DEF SettledStatus, PaidCallbackStatuses
  <2> HIDE DEF new, settled
  <2>7. PICK status \in PaidCallbackStatuses :
           /\ payment' = [payment EXCEPT ![p] = status]
           /\ Account(status, new, returned[p])
    <3>1. CASE target \in TerminalRefunds
      <4>1. Account(SettledStatus(new), new, returned[p])
        BY <1>3, <1>4, <2>2, <2>3, <3>1, AccountSettled
      <4>2. QED  BY <1>7, <2>6, <3>1, <4>1 DEF settled
    <3>2. CASE target \notin TerminalRefunds
      <4>1. target \in InFlightRefunds /\ refund[p][key].status \in InFlightRefunds
        BY <1>3, <1>4, <3>2 DEF RefundStatus, InFlightRefunds
      <4>2. Account(payment[p], new, returned[p])
        BY <1>3, <2>2, <2>3, <4>1, AccountClaimed
      <4>3. payment' = [payment EXCEPT ![p] = payment[p]] /\ payment[p] \in PaidCallbackStatuses
        BY <1>3, <1>7, <2>5, <3>2 DEF MoneyInv, RowsTyped, Recorded
      <4>4. QED  BY <4>2, <4>3
    <3>3. QED  BY <3>1, <3>2
  <2>8. RowsTyped' /\ Accounts'
    <3>1. status \in PaymentStatus \cup {None}
      BY DEF PaymentStatus
    <3>2. QED  BY <1>1, <1>3, <1>7, <2>7, <3>1, RowWritten DEF MoneyInv
  <2>9. order' = order \/ (order = "FAILED" /\ order' = "REFUNDED")
    BY <1>7
  <2>10. CallsTyped' /\ InHand'
    BY <1>1, <2>9 DEF MoneyInv, CallsTyped, InHand
  <2>11. MoneyKept
    BY <1>3, <2>7 DEF MoneyInv, RowsTyped, MoneyKept, Recorded
  <2>12. PrimaryPaid'
    <3>1. primary # None => primary \in Intents /\ Recorded(primary)
      BY DEF MoneyInv, CallsTyped, PrimaryPaid
    <3>2. primary # None => Recorded(primary)'
      BY <1>1, <2>11, <3>1 DEF MoneyKept, Recorded
    <3>3. order' \in StartedOrders => order \in StartedOrders
      BY <2>9 DEF StartedOrders
    <3>4. QED  BY <1>1, <3>2, <3>3 DEF MoneyInv, PrimaryPaid
  <2>13. \A q \in Intents, k \in RefundKeys :
           refund[q][k].status = "SUCCEEDED" => refund'[q][k].status = "SUCCEEDED"
    BY <1>3, <1>4, <1>7, <2>2 DEF MoneyInv, RowsTyped
  <2>14. NothingUndone
    BY <1>1, <2>9, <2>11, <2>13 DEF NothingUndone
  <2>15. QED  BY <2>8, <2>10, <2>12, <2>14 DEF MoneyInv
<1>8. QED  BY <1>5, <1>6, <1>7

LEMMA CrashStep ==
  ASSUME MoneyInv, UNCHANGED <<ledger, channel, closing>>,
         work' \in {work, NoWork}, reconcile' \in {reconcile, NoReconcile}
  PROVE  MoneyInv' /\ NothingUndone
<1>1. UNCHANGED <<order, primary, payment, refund, returned, closing>>
  BY DEF ledger, channel
<1>2. Kept
  BY <1>1, NothingKeeps DEF MoneyInv
<1>3. CallsTyped'
  BY <1>1 DEF MoneyInv, CallsTyped
<1>4. InHand'
  BY <1>1 DEF MoneyInv, InHand
<1>5. PrimaryPaid' /\ NothingUndone
  BY <1>1 DEF MoneyInv, PrimaryPaid, NothingUndone, MoneyKept, Recorded
<1>6. QED  BY <1>2, <1>3, <1>4, <1>5 DEF MoneyInv, Kept

LEMMA MoneyStep ==
  ASSUME MoneyInv, [Next]_moneyVars
  PROVE  MoneyInv' /\ NothingUndone
<1> USE DEF Next, CustomerNext, WorkerNext, ProductionNext, OperatorNext
<1>1. CASE CancelOrder
  BY <1>1, CancelStep
<1>2. CASE CancelCommit
  BY <1>2, CancelCommitStep
<1>3. CASE CancelCrash
  <2>1. closing' \in [Intents -> {"no", "todo", "closed"}]
    BY <1>3 DEF CancelCrash
  <2>2. QED  BY <1>3, <2>1, OutsideStep DEF CancelCrash, channel, MoneyInv, CallsTyped
<1>4. ASSUME NEW p \in Intents, CreateIntent(p)
      PROVE  MoneyInv' /\ NothingUndone
  BY <1>4, CreateStep
<1>5. ASSUME NEW p \in Intents,
             AskChannel(p) \/ AnswerLost(p) \/ Scan(p) \/ Pay(p)
      PROVE  MoneyInv' /\ NothingUndone
  <2>1. UNCHANGED <<ledger, returned, work, closing, reconcile>>
    BY <1>5 DEF AskChannel, AnswerLost, Scan, Pay, calls, channel
  <2>2. QED  BY <2>1, OutsideStep DEF MoneyInv, CallsTyped
<1>6. ASSUME NEW p \in Intents, RecordAnswer(p)
      PROVE  MoneyInv' /\ NothingUndone
  BY <1>6, AnswerStep
<1>7. ASSUME NEW p \in Intents, Callback(p)
      PROVE  MoneyInv' /\ NothingUndone
  BY <1>7, CallbackStep
<1>8. ASSUME NEW p \in Intents, CloseIntent(p)
      PROVE  MoneyInv' /\ NothingUndone
  <2>1. UNCHANGED <<ledger, returned, work, reconcile>>
    BY <1>8 DEF CloseIntent
  <2>2. closing' \in [Intents -> {"no", "todo", "closed"}]
    BY <1>8 DEF CloseIntent, MoneyInv, CallsTyped
  <2>3. QED  BY <2>1, <2>2, OutsideStep DEF MoneyInv, CallsTyped
<1>9. ASSUME NEW p \in Intents, ReconcileAsk(p)
      PROVE  MoneyInv' /\ NothingUndone
  <2>1. UNCHANGED <<ledger, returned, work, closing>>
    BY <1>9 DEF ReconcileAsk
  <2>2. reconcile' \in Told
    BY <1>9 DEF ReconcileAsk, Told
  <2>3. QED  BY <2>1, <2>2, OutsideStep DEF MoneyInv, CallsTyped
<1>10. CASE ReconcileCommit
  BY <1>10, ReconcileCommitStep
<1>11. CASE ExpireUnpaid
  BY <1>11, OrderStep DEF ExpireUnpaid
<1>12. CASE ProcessPaidEvent
  BY <1>12, OrderStep DEF ProcessPaidEvent
<1>13. ASSUME NEW p \in Intents, NEW key \in RefundKeys, RefundClaim(p, key)
       PROVE  MoneyInv' /\ NothingUndone
  BY <1>13, ClaimStep
<1>14. CASE RefundCall
  BY <1>14, CallStep
<1>15. CASE RefundCommit
  BY <1>15, CommitStep
<1>16. CASE WorkerCrash
  BY <1>16, CrashStep DEF WorkerCrash
<1>17. CASE Dispatch
  BY <1>17, OrderStep DEF Dispatch
<1>18. ASSUME NEW outcome \in {"READY", "FAILED", "CANCELLED", "EXPIRED"},
              ProductionEnds(outcome)
       PROVE  MoneyInv' /\ NothingUndone
  BY <1>18, ProductionEndsStep
<1>19. ASSUME NEW p \in Intents, NEW key \in ManualKeys, NEW amount \in 1..Amount,
              ManualRefund(p, key, amount)
       PROVE  MoneyInv' /\ NothingUndone
  BY <1>19, ManualStep
<1>20. CASE UNCHANGED moneyVars
  BY <1>20, CrashStep DEF moneyVars, calls
<1>21. QED
  BY <1>1, <1>2, <1>3, <1>4, <1>5, <1>6, <1>7, <1>8, <1>9, <1>10, <1>11, <1>12, <1>13,
     <1>14, <1>15, <1>16, <1>17, <1>18, <1>19, <1>20

(* Refunds open, time out, are retried, fail and are asked about again:    *)
(* whatever their order, the rows stay within the amount of their payment  *)
(* and the worker alone holds the refund it is working on.                 *)
THEOREM MoneyStaysAccounted == Spec => []MoneyInv
<1>1. Init => MoneyInv
  BY MoneyInit
<1>2. MoneyInv /\ [Next]_moneyVars => MoneyInv'
  BY MoneyStep
<1>3. QED  BY <1>1, <1>2, PTL DEF Spec

(* The channel never gives back more than it collected: what it gave back  *)
(* is counted by the budget that every new refund is checked against.      *)
THEOREM NeverGivesBackTooMuch == Spec => []NeverOverRefunded
<1>1. MoneyInv => NeverOverRefunded
  <2>1. SUFFICES ASSUME MoneyInv, NEW p \in Intents
                 PROVE  Sum(refund[p], {k \in RefundKeys : returned[p][k]}) <= Amount
    BY DEF NeverOverRefunded
  <2> DEFINE back == {k \in RefundKeys : returned[p][k]}
             counted == {k \in RefundKeys : refund[p][k].status \in BudgetRefunds}
  <2>2. Account(payment[p], refund[p], returned[p])
    BY <2>1 DEF MoneyInv, Accounts
  <2>3. refund[p] \in Rows /\ back \in SUBSET counted /\ counted \in SUBSET RefundKeys
    BY <2>2 DEF Account
  <2>4. Sum(refund[p], back) <= Sum(refund[p], counted)
    BY <2>3, SumMonotone
  <2>5. Sum(refund[p], counted) <= Amount
    BY <2>2 DEF Account, RefundTotal
  <2>6. Sum(refund[p], back) \in Nat /\ Sum(refund[p], counted) \in Nat
    BY <2>3, UnitsFinite
  <2>7. QED  BY <2>4, <2>5, <2>6, PaymentsAssumption
<1>2. QED  BY <1>1, MoneyStaysAccounted, PTL

-----------------------------------------------------------------------------
(* One intent, one projection                                              *)
(*                                                                         *)
(* That the order shows the status of its own payment rests on there being *)
(* at most one intent: a new one is opened only on an unpaid order without *)
(* an open intent, and an intent is given up only together with its order. *)
(* Data of older releases, where an order may have had several open        *)
(* intents, is excluded: there the projection may be the one of another.   *)

IntentRows ==
    /\ \A p, q \in Intents : payment[p] # None /\ payment[q] # None => p = q
    /\ order \in UnpaidOrders => \A p \in Intents : payment[p] \in OpenPayments \cup {None}
    /\ projection \in PaidCallbackStatuses => primary # None
    /\ primary # None => projection = payment[primary]

(* Intents are closed at the channel once the order is over.               *)
ClosedWithOrder == order \in UnpaidOrders => \A p \in Intents : closing[p] = "no"

(* The channel is asked about intents that exist, and knows no other.      *)
AskedOfIntents ==
    /\ trade \in [Intents -> {None, "qr", "open", "paid", "closed"}]
    /\ answer \in [Intents -> {None, "PENDING", "PAID"}]
    /\ \A p \in Intents : trade[p] # None \/ answer[p] # None => payment[p] # None
    /\ reconcile # NoReconcile => payment[reconcile.intent] # None

OneIntentInv == IntentRows /\ ClosedWithOrder /\ AskedOfIntents

IntentsStay == \A p \in Intents : payment[p] # None => payment'[p] # None

NotUnpaidAgain == order' \in UnpaidOrders => order \in UnpaidOrders

LEMMA OneIntentInit ==
  ASSUME \A p, q \in Historical : p = q, Init
  PROVE  OneIntentInv
<1> USE DEF Init
<1>1. \A p \in Intents : payment[p] # None => p \in Historical
  OBVIOUS
<1>2. \A p \in Intents : payment[p] \in OpenPayments \cup {None}
  BY DEF OpenPayments
<1>3. projection \notin PaidCallbackStatuses
  BY DEF PaidCallbackStatuses
<1>4. IntentRows
  BY <1>1, <1>2, <1>3 DEF IntentRows
<1>5. ClosedWithOrder
  BY DEF ClosedWithOrder
<1>6. AskedOfIntents
  BY DEF AskedOfIntents, None
<1>7. QED  BY <1>4, <1>5, <1>6 DEF OneIntentInv

LEMMA PrimaryIsTheIntent ==
  ASSUME MoneyInv, IntentRows, primary # None, NEW p \in Intents, payment[p] # None
  PROVE  p = primary
<1>1. primary \in Intents /\ Recorded(primary)
  BY DEF MoneyInv, CallsTyped, PrimaryPaid
<1>2. payment[primary] # None
  BY <1>1 DEF Recorded, PaidCallbackStatuses, None
<1>3. QED  BY <1>1, <1>2 DEF IntentRows

LEMMA RowsQuiet ==
  ASSUME IntentRows, UNCHANGED <<projection, primary, payment>>, NotUnpaidAgain
  PROVE  IntentRows' /\ IntentsStay
BY DEF IntentRows, IntentsStay, NotUnpaidAgain

(* A refund is opened or settled.                                          *)
LEMMA RowsRefunded ==
  ASSUME MoneyInv, IntentRows, NEW p \in Intents, Recorded(p),
         NEW status \in PaidCallbackStatuses,
         payment' = [payment EXCEPT ![p] = status],
         projection' = IF primary = p THEN status ELSE projection,
         UNCHANGED primary, NotUnpaidAgain
  PROVE  IntentRows' /\ IntentsStay
<1>1. payment[p] # None /\ payment[p] \notin OpenPayments
  BY DEF Recorded, PaidCallbackStatuses, OpenPayments, None
<1>2. status # None
  BY DEF PaidCallbackStatuses, None
<1>3. order \notin UnpaidOrders
  BY <1>1 DEF IntentRows
<1>4. payment' \in [Intents -> PaymentStatus \cup {None}] /\ payment'[p] = status
      /\ \A q \in Intents \ {p} : payment'[q] = payment[q]
  BY DEF MoneyInv, RowsTyped, PaymentStatus
<1>5. primary # None => primary = p
  BY <1>1, PrimaryIsTheIntent
<1>6. primary # None => projection' = payment'[primary]
  BY <1>4, <1>5
<1>7. \A r, q \in Intents : payment'[r] # None /\ payment'[q] # None => r = q
  BY <1>1, <1>4 DEF IntentRows
<1>8. projection' \in PaidCallbackStatuses => primary # None
  BY PaymentsAssumption DEF IntentRows
<1>9. IntentsStay
  BY <1>2, <1>4 DEF IntentsStay
<1>10. QED  BY <1>3, <1>6, <1>7, <1>8, <1>9 DEF IntentRows, NotUnpaidAgain

LEMMA RowsEnsured ==
  ASSUME MoneyInv, IntentRows, NEW p \in Intents, NEW key,
         RefundEnsured(p, key), UNCHANGED primary, NotUnpaidAgain
  PROVE  IntentRows' /\ IntentsStay
<1>1. CASE /\ payment[p] \in RefundablePayments
           /\ refund[p][key] = NoRefund
           /\ Remaining(p) > 0
  <2>1. /\ payment' = [payment EXCEPT ![p] = "REFUNDING"]
        /\ projection' = IF primary = p THEN "REFUNDING" ELSE projection
    BY <1>1 DEF RefundEnsured, RefundOpened
  <2>2. Recorded(p)
    BY <1>1 DEF Recorded, RefundablePayments, PaidCallbackStatuses
  <2>3. "REFUNDING" \in PaidCallbackStatuses
    BY DEF PaidCallbackStatuses
  <2>4. QED  BY <2>1, <2>2, <2>3, RowsRefunded
<1>2. CASE ~(/\ payment[p] \in RefundablePayments
             /\ refund[p][key] = NoRefund
             /\ Remaining(p) > 0)
  <2>1. UNCHANGED <<refund, payment, projection>>
    BY <1>2 DEF RefundEnsured
  <2>2. QED  BY <2>1, RowsQuiet
<1>3. QED  BY <1>1, <1>2

LEMMA RowsPaid ==
  ASSUME MoneyInv, IntentRows, NEW p \in Intents, payment[p] # None, PaidFact(p)
  PROVE  IntentRows' /\ IntentsStay /\ NotUnpaidAgain
<1>1. CASE Recorded(p)
  BY <1>1, RowsQuiet DEF PaidFact, ledger, NotUnpaidAgain
<1>2. CASE ~Recorded(p)
  <2>1. primary = None
    <3>1. primary = p => Recorded(p)
      BY PaymentsAssumption DEF MoneyInv, PrimaryPaid
    <3>2. QED  BY <1>2, <3>1, PrimaryIsTheIntent
  <2>2. PrimaryWith(p) = p
    BY <2>1 DEF PrimaryWith
  <2>3. primary' = p /\ p # None
    BY <1>2, <2>2, PaymentsAssumption DEF PaidFact
  <2>4. projection \notin PaidCallbackStatuses
    BY <2>1 DEF IntentRows
  <2>5. PICK status \in {"PAID", "REFUNDING"} :
           /\ payment' = [payment EXCEPT ![p] = status]
           /\ projection' = status
           /\ order' \notin UnpaidOrders
    <3>1. CASE TooLate
      <4>1. RefundOpened(p, "late", Amount, p) /\ UNCHANGED order
        BY <1>2, <2>2, <3>1 DEF PaidFact
      <4>2. QED
        BY <3>1, <4>1 DEF RefundOpened, TooLate, DeadOrders, UnpaidOrders
    <3>2. CASE ~TooLate
      <4>1. /\ payment' = [payment EXCEPT ![p] = "PAID"]
            /\ IF projection = "PAID" THEN UNCHANGED <<order, projection, paidEvent>>
               ELSE /\ projection' = "PAID"
                    /\ order' = IF order \in {"CREATED", "AWAITING_PAYMENT"}
                                  THEN "PAID" ELSE order
        BY <1>2, <2>2, <3>2 DEF PaidFact
      <4>2. projection # "PAID"
        BY <2>4 DEF PaidCallbackStatuses
      <4>3. QED  BY <4>1, <4>2 DEF UnpaidOrders
    <3>3. QED  BY <3>1, <3>2
  <2>6. payment'[p] = status /\ \A q \in Intents \ {p} : payment'[q] = payment[q]
    BY <2>5 DEF MoneyInv, RowsTyped
  <2>7. \A q, r \in Intents : payment'[q] # None /\ payment'[r] # None => q = r
    BY <2>6 DEF IntentRows
  <2>8. status # None
    BY DEF None
  <2>9. QED
    BY <2>3, <2>5, <2>6, <2>7, <2>8 DEF IntentRows, IntentsStay, NotUnpaidAgain
<1>3. QED  BY <1>1, <1>2

(* A step that asks the channel nothing new.                               *)
LEMMA CallsQuiet ==
  ASSUME OneIntentInv, IntentRows', IntentsStay, NotUnpaidAgain, UNCHANGED trade,
         \/ answer' = answer
         \/ \E p \in Intents : answer' = [answer EXCEPT ![p] = None],
         reconcile' \in {reconcile, NoReconcile},
         CallsTyped,
         \/ closing' = closing
         \/ order' \notin UnpaidOrders
         \/ \A p \in Intents : closing'[p] = "no"
  PROVE  OneIntentInv'
<1>1. ClosedWithOrder'
  BY DEF OneIntentInv, ClosedWithOrder, NotUnpaidAgain
<1>2. /\ answer' \in [Intents -> {None, "PENDING", "PAID"}]
      /\ \A p \in Intents : answer'[p] # None => answer[p] # None
  BY DEF OneIntentInv, AskedOfIntents
<1>3. reconcile' # NoReconcile => payment'[reconcile'.intent] # None
  <2>1. reconcile # NoReconcile => reconcile.intent \in Intents
    BY DEF CallsTyped, Told
  <2>2. QED  BY <2>1 DEF OneIntentInv, AskedOfIntents, IntentsStay
<1>4. AskedOfIntents'
  BY <1>2, <1>3 DEF OneIntentInv, AskedOfIntents, IntentsStay
<1>5. QED  BY <1>1, <1>4 DEF OneIntentInv

(* A step that writes neither intents nor the order's payment.             *)
LEMMA NoIntentWritten ==
  ASSUME MoneyInv, OneIntentInv, UNCHANGED <<projection, primary, payment, trade, answer>>,
         NotUnpaidAgain, reconcile' \in {reconcile, NoReconcile},
         closing' = closing \/ \A p \in Intents : closing'[p] = "no"
  PROVE  OneIntentInv'
<1>1. IntentRows' /\ IntentsStay
  BY RowsQuiet DEF OneIntentInv
<1>2. QED  BY <1>1, CallsQuiet DEF MoneyInv

LEMMA OneCreated ==
  ASSUME MoneyInv, OneIntentInv, NEW p \in Intents, CreateIntent(p)
  PROVE  OneIntentInv'
<1>1. /\ order \in UnpaidOrders /\ order' = "AWAITING_PAYMENT"
      /\ payment' = [payment EXCEPT ![p] = "CREATED"]
      /\ projection' = "PENDING"
      /\ UNCHANGED <<primary, trade, answer, closing, reconcile>>
  BY DEF CreateIntent, AcceptsPayment, UnpaidOrders, channel, calls
<1>2. \A q \in Intents : payment[q] = None
  <2>1. \A q \in Intents : payment[q] \notin OpenPayments
    BY DEF CreateIntent, OpenIntents
  <2>2. QED  BY <1>1, <2>1 DEF OneIntentInv, IntentRows
<1>3. primary = None
  BY <1>2 DEF MoneyInv, PrimaryPaid, CallsTyped, Recorded, PaidCallbackStatuses, None
<1>4. payment'[p] = "CREATED" /\ \A q \in Intents \ {p} : payment'[q] = None
  BY <1>1, <1>2 DEF MoneyInv, RowsTyped
<1>5. IntentRows'
  BY <1>1, <1>3, <1>4 DEF IntentRows, OpenPayments, PaidCallbackStatuses
<1>6. IntentsStay /\ NotUnpaidAgain
  BY <1>1, <1>2 DEF IntentsStay, NotUnpaidAgain
<1>7. QED  BY <1>1, <1>5, <1>6, CallsQuiet DEF MoneyInv

LEMMA OneAsked ==
  ASSUME MoneyInv, OneIntentInv, NEW p \in Intents, AskChannel(p)
  PROVE  OneIntentInv'
<1>1. /\ payment[p] # None
      /\ trade' = trade \/ trade' = [trade EXCEPT ![p] = "qr"]
      /\ answer' = [answer EXCEPT ![p] = IF trade[p] = "paid" THEN "PAID" ELSE "PENDING"]
      /\ UNCHANGED <<order, projection, primary, payment, closing, reconcile>>
  BY DEF AskChannel, ledger, None
<1>2. IntentRows' /\ ClosedWithOrder'
  BY <1>1 DEF OneIntentInv, IntentRows, ClosedWithOrder
<1>3. AskedOfIntents'
  BY <1>1 DEF OneIntentInv, AskedOfIntents
<1>4. QED  BY <1>2, <1>3 DEF OneIntentInv

LEMMA OneTraded ==
  ASSUME MoneyInv, OneIntentInv, NEW p \in Intents, NEW status \in {"open", "paid", "closed"},
         trade[p] # None, trade' = [trade EXCEPT ![p] = status],
         UNCHANGED <<order, projection, primary, payment, answer>>,
         \/ reconcile' = reconcile
         \/ payment[p] # None /\ reconcile'.intent = p,
         ClosedWithOrder'
  PROVE  OneIntentInv'
<1>1. IntentRows'
  BY DEF OneIntentInv, IntentRows
<1>2. payment[p] # None
  BY DEF OneIntentInv, AskedOfIntents
<1>3. AskedOfIntents'
  BY <1>2 DEF OneIntentInv, AskedOfIntents
<1>4. QED  BY <1>1, <1>3 DEF OneIntentInv

LEMMA OnePaid ==
  ASSUME MoneyInv, OneIntentInv, NEW p \in Intents, payment[p] # None, PaidFact(p),
         UNCHANGED <<trade, closing>>,
         \/ answer' = answer
         \/ answer' = [answer EXCEPT ![p] = None],
         reconcile' \in {reconcile, NoReconcile}
  PROVE  OneIntentInv'
<1>1. IntentRows' /\ IntentsStay /\ NotUnpaidAgain
  BY RowsPaid DEF OneIntentInv
<1>2. QED  BY <1>1, CallsQuiet DEF MoneyInv

LEMMA OneAnswered ==
  ASSUME MoneyInv, OneIntentInv, NEW p \in Intents, RecordAnswer(p)
  PROVE  OneIntentInv'
<1>1. /\ UNCHANGED <<trade, closing, reconcile>>
      /\ answer[p] # None /\ answer' = [answer EXCEPT ![p] = None]
  BY DEF RecordAnswer, channel
<1>2. payment[p] # None
  BY <1>1 DEF OneIntentInv, AskedOfIntents
<1>3. CASE answer[p] = "PAID"
  <2>1. PaidFact(p)
    BY <1>3 DEF RecordAnswer
  <2>2. QED  BY <1>1, <1>2, <2>1, OnePaid
<1>4. CASE answer[p] # "PAID"
  <2>1. /\ payment' = IF payment[p] = "CREATED"
                        THEN [payment EXCEPT ![p] = "PENDING"] ELSE payment
        /\ UNCHANGED <<order, projection, primary>>
    BY <1>4 DEF RecordAnswer
  <2>2. IntentRows' /\ IntentsStay
    <3>1. CASE payment[p] = "CREATED"
      <4>1. primary = None
        <5>1. primary = p => Recorded(p)
          BY PaymentsAssumption DEF MoneyInv, PrimaryPaid
        <5>2. ~Recorded(p)
          BY <3>1 DEF Recorded, PaidCallbackStatuses
        <5>3. QED  BY <1>2, <5>1, <5>2, PrimaryIsTheIntent DEF OneIntentInv
      <4>2. payment'[p] = "PENDING" /\ \A q \in Intents \ {p} : payment'[q] = payment[q]
        BY <2>1, <3>1 DEF MoneyInv, RowsTyped
      <4>3. QED
        BY <1>2, <2>1, <4>1, <4>2
        DEF OneIntentInv, IntentRows, IntentsStay, OpenPayments, None
    <3>2. CASE payment[p] # "CREATED"
      BY <2>1, <3>2, RowsQuiet DEF OneIntentInv, NotUnpaidAgain
    <3>3. QED  BY <3>1, <3>2
  <2>3. NotUnpaidAgain
    BY <2>1 DEF NotUnpaidAgain
  <2>4. QED  BY <1>1, <2>2, <2>3, CallsQuiet DEF MoneyInv
<1>5. QED  BY <1>3, <1>4

LEMMA OneCancelled ==
  ASSUME MoneyInv, OneIntentInv, CancelOrder
  PROVE  OneIntentInv'
<1>1. /\ order' = "CANCELLED"
      /\ UNCHANGED <<primary, trade, answer, reconcile>>
  BY DEF CancelOrder, channel
<1>2. NotUnpaidAgain /\ order' \notin UnpaidOrders
  BY <1>1 DEF NotUnpaidAgain, UnpaidOrders
<1>3. IntentRows' /\ IntentsStay
  <2>1. CASE order = "QUEUED" /\ projection \in RefundablePayments
    <3>1. primary \in Intents
      BY <2>1 DEF MoneyInv, PrimaryPaid, StartedOrders, CallsTyped
    <3>2. RefundEnsured(primary, "cancel")
      BY <2>1 DEF CancelOrder
    <3>3. QED  BY <1>1, <1>2, <3>1, <3>2, RowsEnsured DEF OneIntentInv
  <2>2. CASE ~(order = "QUEUED" /\ projection \in RefundablePayments)
    BY <1>1, <1>2, <2>2, RowsQuiet DEF CancelOrder, OneIntentInv
  <2>3. QED  BY <2>1, <2>2
<1>4. QED  BY <1>1, <1>2, <1>3, CallsQuiet DEF MoneyInv

LEMMA OneClosed ==
  ASSUME MoneyInv, OneIntentInv, NEW p \in Intents, CloseIntent(p)
  PROVE  OneIntentInv'
<1>1. order \notin UnpaidOrders /\ UNCHANGED <<order, projection, primary, payment, answer, reconcile>>
  BY DEF CloseIntent, OneIntentInv, ClosedWithOrder, ledger
<1>2. ClosedWithOrder'
  BY <1>1 DEF ClosedWithOrder
<1>3. trade' = trade \/ (trade[p] = "open" /\ trade' = [trade EXCEPT ![p] = "closed"])
  BY DEF CloseIntent, TradeClosed
<1>4. CASE trade' = trade
  BY <1>1, <1>2, <1>4 DEF OneIntentInv, IntentRows, AskedOfIntents
<1>5. CASE trade[p] = "open" /\ trade' = [trade EXCEPT ![p] = "closed"]
  BY <1>1, <1>2, <1>5, OneTraded DEF None
<1>6. QED  BY <1>3, <1>4, <1>5

LEMMA OneCancelCommitted ==
  ASSUME MoneyInv, OneIntentInv, CancelCommit
  PROVE  OneIntentInv'
<1> DEFINE closed == {p \in OpenIntents : closing[p] = "closed"}
<1>1. /\ UNCHANGED <<order, primary, trade, answer, reconcile>>
      /\ payment' = [p \in Intents |-> IF p \in closed THEN "CLOSED" ELSE payment[p]]
      /\ projection' = IF OpenIntents = closed /\ projection \in {"NOT_STARTED", "PENDING"}
                         THEN "CLOSED" ELSE projection
      /\ closing' = [p \in Intents |-> "no"]
      /\ \E p \in Intents : closing[p] = "closed"
  BY DEF CancelCommit, channel
<1>2. order \notin UnpaidOrders
  BY <1>1 DEF OneIntentInv, ClosedWithOrder
<1>3. \A p \in closed : payment[p] \in OpenPayments
  BY DEF OpenIntents
<1>4. \A p \in closed : payment[p] # None
  BY <1>3 DEF OpenPayments, None
<1> HIDE DEF closed
<1>5. IntentsStay /\ NotUnpaidAgain
  BY <1>1 DEF IntentsStay, NotUnpaidAgain, None
<1>6. \A p, q \in Intents : payment'[p] # None /\ payment'[q] # None => p = q
  BY <1>1, <1>4 DEF OneIntentInv, IntentRows
<1>7. ASSUME primary # None
      PROVE  projection' = payment'[primary]
  <2>1. primary \in Intents /\ Recorded(primary) /\ projection = payment[primary]
    BY <1>7 DEF MoneyInv, CallsTyped, PrimaryPaid, OneIntentInv, IntentRows
  <2>2. primary \notin closed
    BY <1>3, <2>1 DEF Recorded, PaidCallbackStatuses, OpenPayments
  <2>3. projection \notin {"NOT_STARTED", "PENDING"}
    BY <2>1 DEF Recorded, PaidCallbackStatuses
  <2>4. QED  BY <1>1, <2>1, <2>2, <2>3
<1>8. projection' \in PaidCallbackStatuses => primary' # None
  BY <1>1 DEF OneIntentInv, IntentRows, PaidCallbackStatuses
<1>9. IntentRows'
  BY <1>1, <1>2, <1>6, <1>7, <1>8 DEF IntentRows
<1>10. QED  BY <1>1, <1>5, <1>9, CallsQuiet DEF MoneyInv

LEMMA OneReconcileAsked ==
  ASSUME MoneyInv, OneIntentInv, NEW p \in Intents, ReconcileAsk(p)
  PROVE  OneIntentInv'
<1>1. /\ UNCHANGED <<order, projection, primary, payment, answer, closing>>
      /\ payment[p] # None /\ reconcile'.intent = p
      /\ trade' = trade \/ (trade[p] = "open" /\ trade' = [trade EXCEPT ![p] = "closed"])
  BY DEF ReconcileAsk, ledger, OpenIntents, OpenPayments, None, TradeClosed
<1>2. ClosedWithOrder' /\ IntentRows'
  BY <1>1 DEF OneIntentInv, ClosedWithOrder, IntentRows
<1>3. CASE trade' = trade
  BY <1>1, <1>2, <1>3 DEF OneIntentInv, AskedOfIntents
<1>4. CASE trade[p] = "open" /\ trade' = [trade EXCEPT ![p] = "closed"]
  BY <1>1, <1>2, <1>4, OneTraded DEF None
<1>5. QED  BY <1>1, <1>3, <1>4

LEMMA OneReconciled ==
  ASSUME MoneyInv, OneIntentInv, ReconcileCommit
  PROVE  OneIntentInv'
<1> DEFINE p == reconcile.intent
           result == reconcile.result
<1>1. /\ UNCHANGED <<trade, answer, closing>>
      /\ reconcile' = NoReconcile
      /\ reconcile # NoReconcile
  BY DEF ReconcileCommit, channel
<1>2. p \in Intents /\ result \in {"PAID", "CLOSED", "FAILED"} /\ payment[p] # None
  BY <1>1 DEF MoneyInv, CallsTyped, Told, OneIntentInv, AskedOfIntents
<1>3. CASE result = "PAID"
  <2>1. PaidFact(p)
    BY <1>3 DEF ReconcileCommit
  <2>2. QED  BY <1>1, <1>2, <2>1, OnePaid
<1>4. CASE result # "PAID" /\ p \notin OpenIntents
  <2>1. UNCHANGED ledger
    BY <1>4 DEF ReconcileCommit
  <2>2. QED  BY <1>1, <2>1, NoIntentWritten DEF ledger, NotUnpaidAgain
<1>5. CASE result # "PAID" /\ p \in OpenIntents
  <2>1. /\ payment' = [payment EXCEPT ![p] = result]
        /\ projection' = result
        /\ order' = IF order \in {"CREATED", "AWAITING_PAYMENT"} THEN "CANCELLED" ELSE order
        /\ UNCHANGED primary
    BY <1>5 DEF ReconcileCommit
  <2>2. primary = None
    <3>1. primary = p => Recorded(p)
      BY <1>2, PaymentsAssumption DEF MoneyInv, PrimaryPaid
    <3>2. ~Recorded(p)
      BY <1>5 DEF OpenIntents, OpenPayments, Recorded, PaidCallbackStatuses
    <3>3. QED  BY <1>2, <3>1, <3>2, PrimaryIsTheIntent DEF OneIntentInv
  <2>3. payment'[p] = result /\ \A q \in Intents \ {p} : payment'[q] = payment[q]
    BY <1>2, <2>1 DEF MoneyInv, RowsTyped
  <2>4. order' \notin UnpaidOrders /\ NotUnpaidAgain
    BY <2>1 DEF UnpaidOrders, NotUnpaidAgain
  <2>5. result # None /\ result \notin PaidCallbackStatuses
    BY <1>2, <1>5 DEF None, PaidCallbackStatuses
  <2>6. IntentsStay
    BY <2>3, <2>5 DEF IntentsStay
  <2>7. IntentRows'
    BY <1>2, <2>1, <2>2, <2>3, <2>4, <2>5 DEF OneIntentInv, IntentRows
  <2>8. QED  BY <1>1, <2>4, <2>6, <2>7, CallsQuiet DEF MoneyInv
<1>6. QED  BY <1>2, <1>3, <1>4, <1>5

LEMMA OneEnded ==
  ASSUME MoneyInv, OneIntentInv, NEW outcome \in {"READY", "FAILED", "CANCELLED", "EXPIRED"},
         ProductionEnds(outcome)
  PROVE  OneIntentInv'
<1>1. /\ UNCHANGED <<primary, trade, answer, closing, reconcile>>
      /\ order = "MAKING" /\ order' = outcome
  BY DEF ProductionEnds, channel, calls
<1>2. NotUnpaidAgain /\ primary \in Intents
  BY <1>1 DEF NotUnpaidAgain, UnpaidOrders, MoneyInv, PrimaryPaid, StartedOrders, CallsTyped
<1>3. IntentRows' /\ IntentsStay
  <2>1. CASE UNCHANGED <<refund, payment, projection>>
    BY <1>1, <1>2, <2>1, RowsQuiet DEF OneIntentInv
  <2>2. CASE RefundEnsured(primary, "production")
    BY <1>1, <1>2, <2>2, RowsEnsured DEF OneIntentInv
  <2>3. QED  BY <2>1, <2>2 DEF ProductionEnds
<1>4. QED  BY <1>1, <1>2, <1>3, CallsQuiet DEF MoneyInv

LEMMA OneRefunded ==
  ASSUME MoneyInv, OneIntentInv, NEW p \in Intents, NEW key, NEW amount,
         ManualRefund(p, key, amount)
  PROVE  OneIntentInv'
<1>1. /\ UNCHANGED <<order, primary, trade, answer, closing, reconcile>>
      /\ payment' = [payment EXCEPT ![p] = "REFUNDING"]
      /\ projection' = IF primary = p THEN "REFUNDING" ELSE projection
  BY DEF ManualRefund, RefundOpened, channel, calls
<1>2. Recorded(p) /\ "REFUNDING" \in PaidCallbackStatuses
  BY DEF ManualRefund, Recorded, RefundablePayments, PaidCallbackStatuses
<1>3. NotUnpaidAgain
  BY <1>1 DEF NotUnpaidAgain
<1>4. IntentRows' /\ IntentsStay
  BY <1>1, <1>2, <1>3, RowsRefunded DEF OneIntentInv
<1>5. QED  BY <1>1, <1>3, <1>4, CallsQuiet DEF MoneyInv

LEMMA OneSettled ==
  ASSUME MoneyInv, OneIntentInv, RefundCommit
  PROVE  OneIntentInv'
<1> DEFINE p == work.intent
           key == work.key
           settled == SettledStatus([refund[p] EXCEPT ![key].status = work.result])
<1>1. UNCHANGED <<primary, trade, answer, closing, reconcile>> /\ work.phase = "answered"
  BY DEF RefundCommit, ledger, channel
<1>2. work # NoWork /\ work \in InProgress
  BY <1>1 DEF NoWork, MoneyInv, CallsTyped
<1>3. p \in Intents /\ key \in RefundKeys /\ refund[p][key] # NoRefund
  BY <1>2 DEF InProgress, MoneyInv, InHand, NoRefund, None
<1>4. Recorded(p)
  BY <1>3 DEF MoneyInv, Accounts, Account, Recorded
<1>5. settled \in PaidCallbackStatuses
  BY DEF SettledStatus, PaidCallbackStatuses
<1>6. \/ /\ payment' = [payment EXCEPT ![p] = settled]
         /\ projection' = IF primary = p THEN settled ELSE projection
         /\ order' = IF primary = p /\ settled = "REFUNDED" /\ order = "FAILED"
                       THEN "REFUNDED" ELSE order
      \/ UNCHANGED <<payment, projection, order>>
  BY DEF RefundCommit, ledger
<1> HIDE DEF settled
<1>7. NotUnpaidAgain
  BY <1>6 DEF NotUnpaidAgain, UnpaidOrders
<1>8. IntentRows' /\ IntentsStay
  <2>1. CASE UNCHANGED <<payment, projection, order>>
    BY <1>1, <1>7, <2>1, RowsQuiet DEF OneIntentInv
  <2>2. CASE /\ payment' = [payment EXCEPT ![p] = settled]
             /\ projection' = IF primary = p THEN settled ELSE projection
    BY <1>1, <1>3, <1>4, <1>5, <1>7, <2>2, RowsRefunded DEF OneIntentInv
  <2>3. QED  BY <1>6, <2>1, <2>2
<1>9. QED  BY <1>1, <1>7, <1>8, CallsQuiet DEF MoneyInv

LEMMA OneIntentStep ==
  ASSUME MoneyInv, OneIntentInv, [Next]_moneyVars
  PROVE  OneIntentInv'
<1> USE DEF Next, CustomerNext, WorkerNext, ProductionNext, OperatorNext
<1>1. CASE CancelOrder
  BY <1>1, OneCancelled
<1>2. CASE CancelCommit
  BY <1>2, OneCancelCommitted
<1>3. CASE CancelCrash
  BY <1>3, NoIntentWritten DEF CancelCrash, ledger, channel, NotUnpaidAgain
<1>4. ASSUME NEW p \in Intents, CreateIntent(p)
      PROVE  OneIntentInv'
  BY <1>4, OneCreated
<1>5. ASSUME NEW p \in Intents, AskChannel(p)
      PROVE  OneIntentInv'
  BY <1>5, OneAsked
<1>6. ASSUME NEW p \in Intents, RecordAnswer(p)
      PROVE  OneIntentInv'
  BY <1>6, OneAnswered
<1>7. ASSUME NEW p \in Intents, AnswerLost(p)
      PROVE  OneIntentInv'
  <2>1. /\ UNCHANGED <<order, projection, primary, payment, trade, closing, reconcile>>
        /\ answer' = [answer EXCEPT ![p] = None]
    BY <1>7 DEF AnswerLost, ledger, channel
  <2>2. IntentRows' /\ IntentsStay /\ NotUnpaidAgain
    BY <2>1, RowsQuiet DEF OneIntentInv, NotUnpaidAgain
  <2>3. QED  BY <2>1, <2>2, CallsQuiet DEF MoneyInv
<1>8. ASSUME NEW p \in Intents, Scan(p) \/ Pay(p)
      PROVE  OneIntentInv'
  <2>1. UNCHANGED <<order, projection, primary, payment, answer, closing, reconcile>>
    BY <1>8 DEF Scan, Pay, ledger, calls
  <2>2. ClosedWithOrder'
    BY <2>1 DEF OneIntentInv, ClosedWithOrder
  <2>3. PICK status \in {"open", "paid", "closed"} :
           trade[p] # None /\ trade' = [trade EXCEPT ![p] = status]
    BY <1>8 DEF Scan, Pay, None
  <2>4. QED  BY <2>1, <2>2, <2>3, OneTraded
<1>9. ASSUME NEW p \in Intents, Callback(p)
      PROVE  OneIntentInv'
  <2>1. UNCHANGED <<trade, answer, closing, reconcile>> /\ trade[p] # None
    BY <1>9 DEF Callback, channel, calls, None
  <2>2. payment[p] # None
    BY <2>1 DEF OneIntentInv, AskedOfIntents
  <2>3. QED  BY <1>9, <2>1, <2>2, OnePaid DEF Callback
<1>10. ASSUME NEW p \in Intents, CloseIntent(p)
       PROVE  OneIntentInv'
  BY <1>10, OneClosed
<1>11. ASSUME NEW p \in Intents, ReconcileAsk(p)
       PROVE  OneIntentInv'
  BY <1>11, OneReconcileAsked
<1>12. CASE ReconcileCommit
  BY <1>12, OneReconciled
<1>13. CASE ExpireUnpaid
  BY <1>13, NoIntentWritten
  DEF ExpireUnpaid, channel, calls, NotUnpaidAgain, UnpaidOrders
<1>14. CASE ProcessPaidEvent
  <2>1. /\ UNCHANGED <<projection, primary, payment, trade, answer, closing, reconcile>>
        /\ order' = order \/ order' = "QUEUED"
    BY <1>14 DEF ProcessPaidEvent, channel, calls
  <2>2. QED  BY <2>1, NoIntentWritten DEF NotUnpaidAgain, UnpaidOrders
<1>15. ASSUME NEW p \in Intents, NEW key \in RefundKeys, RefundClaim(p, key)
       PROVE  OneIntentInv'
  BY <1>15, NoIntentWritten DEF RefundClaim, channel, NotUnpaidAgain
<1>16. CASE RefundCall
  BY <1>16, NoIntentWritten DEF RefundCall, ledger, NotUnpaidAgain
<1>17. CASE RefundCommit
  BY <1>17, OneSettled
<1>18. CASE WorkerCrash
  BY <1>18, NoIntentWritten DEF WorkerCrash, ledger, channel, NotUnpaidAgain
<1>19. CASE Dispatch
  BY <1>19, NoIntentWritten DEF Dispatch, channel, calls, NotUnpaidAgain, UnpaidOrders
<1>20. ASSUME NEW outcome \in {"READY", "FAILED", "CANCELLED", "EXPIRED"},
              ProductionEnds(outcome)
       PROVE  OneIntentInv'
  BY <1>20, OneEnded
<1>21. ASSUME NEW p \in Intents, NEW key \in ManualKeys, NEW amount \in 1..Amount,
              ManualRefund(p, key, amount)
       PROVE  OneIntentInv'
  BY <1>21, OneRefunded
<1>22. CASE UNCHANGED moneyVars
  BY <1>22, NoIntentWritten DEF moneyVars, ledger, channel, calls, NotUnpaidAgain
<1>23. QED
  BY <1>1, <1>2, <1>3, <1>4, <1>5, <1>6, <1>7, <1>8, <1>9, <1>10, <1>11, <1>12, <1>13,
     <1>14, <1>15, <1>16, <1>17, <1>18, <1>19, <1>20, <1>21, <1>22

(* A payment's status is always the one its refunds call for, and the      *)
(* order shows that of its payment, unless an order came over from an      *)
(* older release with several open intents.                                *)
THEOREM StatusAlwaysMatches ==
  ASSUME \A p, q \in Historical : p = q
  PROVE  Spec => []StatusMatchesRefunds
<1>1. Init => MoneyInv /\ OneIntentInv
  BY MoneyInit, OneIntentInit
<1>2. MoneyInv /\ OneIntentInv /\ [Next]_moneyVars => (MoneyInv /\ OneIntentInv)'
  BY MoneyStep, OneIntentStep
<1>3. MoneyInv /\ OneIntentInv => StatusMatchesRefunds
  <2>1. SUFFICES ASSUME MoneyInv, OneIntentInv
                 PROVE  StatusMatchesRefunds
    OBVIOUS
  <2>2. primary # None => projection = payment[primary]
    BY <2>1 DEF OneIntentInv, IntentRows
  <2>3. \A p \in Intents : payment[p] \in PaidCallbackStatuses => StatusFits(payment[p], refund[p])
    BY <2>1 DEF MoneyInv, Accounts, Account
  <2>4. QED  BY <2>2, <2>3 DEF StatusMatchesRefunds, StatusFits
<1>4. QED  BY <1>1, <1>2, <1>3, PTL DEF Spec

-----------------------------------------------------------------------------
(* The merchant's books                                                    *)

(* The three parts of BooksMatchMoney.                                     *)
Collected ==
    {Entry(kind, p) : kind \in {"COLLECTION", "FEE"}, p \in {q \in Intents : Recorded(q)}}

GivenBack ==
    UNION {{Entry("REFUND", <<p, k>>) : k \in SucceededOf(p, refund)} : p \in Intents}

Sold ==
    IF order # "READY" THEN {}
    ELSE {Revenue} \cup {Entry("REVENUE_REVERSAL", <<primary, k>>) :
                           k \in SucceededOf(primary, refund)}

(* The two parts of RefundEntries.                                         *)
Written(p) == SucceededOf(p, refund') \ SucceededOf(p, refund)

NewRefunds ==
    UNION {{Entry("REFUND", <<p, k>>) : k \in Written(p)} : p \in Intents}

NewReversals ==
    UNION {{Entry("REVENUE_REVERSAL", <<p, k>>) :
              k \in {j \in Written(p) : ReversedByRefund(p)}} : p \in Intents}

LEMMA BooksParts == BooksMatchMoney <=> books = Collected \cup GivenBack \cup Sold
BY DEF BooksMatchMoney, Collected, GivenBack, Sold

LEMMA RefundEntriesParts == RefundEntries = NewRefunds \cup NewReversals
<1>1. ASSUME NEW e
      PROVE  e \in RefundEntries <=> e \in NewRefunds \cup NewReversals
  <2>1. e \in RefundEntries <=>
          \E p \in Intents :
             e \in {Entry("REFUND", <<p, k>>) : k \in Written(p)}
                     \cup {Entry("REVENUE_REVERSAL", <<p, k>>) :
                             k \in {j \in Written(p) : ReversedByRefund(p)}}
    BY DEF RefundEntries, Written
  <2>2. QED  BY <2>1 DEF NewRefunds, NewReversals
<1>2. QED  BY <1>1

LEMMA RevenueWhenReady ==
  ASSUME BooksMatchMoney
  PROVE  Revenue \in books <=> order = "READY"
<1>1. Revenue.kind = "REVENUE"
  BY DEF Revenue, Entry
<1>2. \A e \in Collected \cup GivenBack : e.kind \in {"COLLECTION", "FEE", "REFUND"}
  BY DEF Collected, GivenBack, Entry
<1>3. Revenue \notin Collected \cup GivenBack
  BY <1>1, <1>2
<1>4. Revenue \in Sold <=> order = "READY"
  BY DEF Sold
<1>5. QED  BY <1>3, <1>4, BooksParts

LEMMA CollectedBooked ==
  ASSUME NothingUndone
  PROVE  Collected' = Collected \cup PaymentEntries
<1>1. ASSUME NEW q \in Intents
      PROVE  Recorded(q)' <=> Recorded(q) \/ (payment'[q] # payment[q] /\ Recorded(q)')
  BY DEF NothingUndone, MoneyKept, Recorded
<1>2. ASSUME NEW e
      PROVE  e \in Collected' <=> e \in Collected \cup PaymentEntries
  <2>1. e \in Collected' <=>
          \E kind \in {"COLLECTION", "FEE"}, p \in Intents : Recorded(p)' /\ e = Entry(kind, p)
    BY DEF Collected, Entry
  <2>2. e \in Collected <=>
          \E kind \in {"COLLECTION", "FEE"}, p \in Intents : Recorded(p) /\ e = Entry(kind, p)
    BY DEF Collected
  <2>3. e \in PaymentEntries <=>
          \E kind \in {"COLLECTION", "FEE"}, p \in Intents :
             payment'[p] # payment[p] /\ Recorded(p)' /\ e = Entry(kind, p)
    BY DEF PaymentEntries
  <2>4. QED  BY <1>1, <2>1, <2>2, <2>3
<1>3. QED  BY <1>2

LEMMA SucceededGrows ==
  ASSUME NothingUndone, NEW p \in Intents
  PROVE  SucceededOf(p, refund') = SucceededOf(p, refund) \cup Written(p)
BY DEF NothingUndone, SucceededOf, Written

LEMMA RefundsBooked ==
  ASSUME NothingUndone
  PROVE  GivenBack' = GivenBack \cup NewRefunds
<1>1. ASSUME NEW e
      PROVE  e \in GivenBack' <=> e \in GivenBack \cup NewRefunds
  <2>1. e \in GivenBack' <=>
          \E p \in Intents : \E k \in SucceededOf(p, refund') : e = Entry("REFUND", <<p, k>>)
    BY DEF GivenBack, Entry, SucceededOf
  <2>2. e \in GivenBack <=>
          \E p \in Intents : \E k \in SucceededOf(p, refund) : e = Entry("REFUND", <<p, k>>)
    BY DEF GivenBack
  <2>3. e \in NewRefunds <=>
          \E p \in Intents : \E k \in Written(p) : e = Entry("REFUND", <<p, k>>)
    <3>1. e \in NewRefunds <=>
            \E p \in Intents : e \in {Entry("REFUND", <<p, k>>) : k \in Written(p)}
      BY Zenon DEF NewRefunds
    <3>2. QED  BY <3>1
  <2>4. QED  BY <2>1, <2>2, <2>3, SucceededGrows
<1>2. QED  BY <1>1

LEMMA SaleBooked ==
  ASSUME MoneyInv, MoneyInv', NothingUndone, BooksMatchMoney
  PROVE  Sold' = Sold \cup NewReversals \cup OrderEntries
<1> DEFINE reversals(p, keys) == {Entry("REVENUE_REVERSAL", <<p, k>>) : k \in keys}
<1>1. Sold' = IF order' # "READY" THEN {}
              ELSE {Revenue} \cup reversals(primary', SucceededOf(primary', refund'))
  BY DEF Sold, Revenue, Entry, SucceededOf
<1>2. Revenue \in books <=> order = "READY"
  BY RevenueWhenReady
<1>3. order' # "READY" => OrderEntries = {}
  BY DEF OrderEntries
<1>4. OrderEntries = {} \/ (order' = "READY" /\ OrderEntries = Sold')
  BY <1>1 DEF OrderEntries, EarlierRefunds
<1>5. order # "READY" => NewReversals = {}
  BY <1>2 DEF NewReversals, ReversedByRefund
<1>6. CASE order' # "READY"
  <2>1. order # "READY"
    BY <1>6 DEF NothingUndone
  <2>2. Sold = {}
    BY <2>1 DEF Sold
  <2>3. QED  BY <1>1, <1>3, <1>5, <1>6, <2>1, <2>2
<1>7. CASE order' = "READY" /\ order # "READY"
  <2>1. Sold = {} /\ NewReversals = {}
    BY <1>5, <1>7 DEF Sold
  <2>2. primary' # None /\ Recorded(primary)'
    BY <1>7 DEF MoneyInv, PrimaryPaid, StartedOrders
  <2>3. OrderEntries = Sold'
    <3>1. <<order, projection, primary>>' # <<order, projection, primary>>
      BY <1>7
    <3>2. OrderEntries = {Revenue} \cup reversals(primary', EarlierRefunds(primary'))
      BY <1>7, <2>2, <3>1 DEF OrderEntries
    <3>3. QED  BY <1>1, <1>7, <3>2 DEF EarlierRefunds
  <2>4. QED  BY <2>1, <2>3
<1>8. CASE order' = "READY" /\ order = "READY"
  <2>1. primary' = primary /\ primary \in Intents
    BY <1>8 DEF NothingUndone, MoneyInv, PrimaryPaid, StartedOrders, CallsTyped
  <2>2. Sold = {Revenue} \cup reversals(primary, SucceededOf(primary, refund))
    BY <1>8 DEF Sold
  <2>3. NewReversals = reversals(primary, Written(primary))
    <3>1. \A p \in Intents : ReversedByRefund(p) <=> p = primary
      BY <1>2, <1>8, <2>1 DEF ReversedByRefund
    <3>2. ASSUME NEW e
          PROVE  e \in NewReversals <=> e \in reversals(primary, Written(primary))
      <4>1. e \in NewReversals <=>
              \E p \in Intents : \E k \in Written(p) :
                 ReversedByRefund(p) /\ e = Entry("REVENUE_REVERSAL", <<p, k>>)
        BY DEF NewReversals, Written
      <4>2. QED  BY <2>1, <3>1, <4>1
    <3>3. QED  BY <3>2
  <2>4. SucceededOf(primary, refund') = SucceededOf(primary, refund) \cup Written(primary)
    BY <2>1, SucceededGrows
  <2>5. Sold' = {Revenue} \cup reversals(primary, SucceededOf(primary, refund'))
    BY <1>1, <1>8, <2>1
  <2>6. Sold' = Sold \cup NewReversals
    BY <2>2, <2>3, <2>4, <2>5
  <2>7. QED  BY <1>4, <2>6
<1>9. QED  BY <1>6, <1>7, <1>8

LEMMA BookedStep ==
  ASSUME MoneyInv, BooksMatchMoney, Next, Booked
  PROVE  BooksMatchMoney'
<1>1. MoneyInv' /\ NothingUndone
  BY MoneyStep
<1>2. books = Collected \cup GivenBack \cup Sold
  BY BooksParts
<1>3. books' = books \cup PaymentEntries \cup (NewRefunds \cup NewReversals) \cup OrderEntries
  BY RefundEntriesParts DEF Booked
<1>4. /\ Collected' = Collected \cup PaymentEntries
      /\ GivenBack' = GivenBack \cup NewRefunds
      /\ Sold' = Sold \cup NewReversals \cup OrderEntries
  BY <1>1, CollectedBooked, RefundsBooked, SaleBooked
<1>5. (books = Collected \cup GivenBack \cup Sold)'
  BY <1>2, <1>3, <1>4
<1>6. QED  BY <1>5, BooksParts, PTL

(* The books always say what happened to the money: what was collected and *)
(* given back on every payment, the revenue of a drink that was made, and  *)
(* against it the refunds of its payment, before and after.                *)
THEOREM BooksAlwaysMatch == LedgerSpec => []BooksMatchMoney
<1>1. LedgerInit => MoneyInv /\ BooksMatchMoney
  <2> SUFFICES ASSUME LedgerInit
               PROVE  MoneyInv /\ BooksMatchMoney
    OBVIOUS
  <2>1. MoneyInv /\ Init /\ books = {}
    BY MoneyInit DEF LedgerInit
  <2>2. \A p \in Intents : ~Recorded(p)
    BY <2>1 DEF Init, Recorded, PaidCallbackStatuses, None
  <2>3. \A p \in Intents : SucceededOf(p, refund) = {}
    BY <2>1 DEF Init, SucceededOf, NoRefund, None
  <2>4. order # "READY"
    BY <2>1 DEF Init
  <2>5. Collected = {} /\ Sold = {}
    BY <2>2, <2>4 DEF Collected, Sold
  <2>6. GivenBack = {}
    BY <2>3 DEF GivenBack
  <2>7. QED  BY <2>1, <2>5, <2>6, BooksParts
<1>2. ASSUME MoneyInv, BooksMatchMoney, [LedgerNext]_ledgerVars
      PROVE  MoneyInv' /\ BooksMatchMoney'
  <2>1. CASE LedgerNext
    BY <1>2, <2>1, MoneyStep, BookedStep DEF LedgerNext
  <2>2. CASE UNCHANGED ledgerVars
    <3>1. MoneyInv'
      BY <1>2, <2>2, MoneyStep DEF ledgerVars
    <3>2. BooksMatchMoney'
      BY <1>2, <2>2
      DEF ledgerVars, moneyVars, ledger, BooksMatchMoney, Recorded, SucceededOf, Revenue, Entry
    <3>3. QED  BY <3>1, <3>2
  <2>3. QED  BY <1>2, <2>1, <2>2
<1>3. QED  BY <1>1, <1>2, PTL DEF LedgerSpec
=============================================================================
