-------------------------- MODULE ProductionProofs --------------------------
(***************************************************************************)
(* Proofs about Production, for any number of orders and any bounds.       *)
(*                                                                         *)
(* The rows are moved by a few helpers; the first lemmas give their types. *)
(* Every later lemma is about one conjunct of the inductive invariant and  *)
(* has one step per action of Next.                                        *)
(***************************************************************************)
EXTENDS ProductionRefinement, TLAPS

(* The status tables only name statuses.                                   *)
LEMMA TargetTypes ==
    ASSUME NEW event \in TaskEvents
    PROVE  /\ OrderTarget(event) \in OrderStatus
           /\ JobTarget(event) \in ActiveJobs \cup FinalJobs
           /\ CommandTarget(event) \in CommandStatus \ {"CREATED"}
  BY DEF TaskEvents, OrderTarget, JobTarget, CommandTarget, EventTargets,
         OrderStatus, FinalOrders, ActiveJobs, FinalJobs, CommandStatus,
         TerminalCommands

(* The helpers that hold, clear or mark a job row give a job row.          *)
LEMMA RowTypes ==
    ASSUME NEW row \in JobRows, NEW status \in JobStatus
    PROVE  /\ JobHeld(row) \in JobRows
           /\ JobCleared(row) \in JobRows
           /\ JobMarked(row, status) \in JobRows
<1>1. row.revision + 1 \in Nat
  BY DEF JobRows
<1>2. "HOLD" \in JobStatus
  BY DEF JobStatus, ActiveJobs
<1>3. JobHeld(row) \in JobRows
  BY <1>1, <1>2 DEF JobRows, JobHeld
<1>4. JobCleared(row) \in JobRows
  BY DEF JobRows, JobCleared
<1>5. JobMarked(row, status) \in JobRows
  BY <1>1 DEF JobRows, JobMarked
<1> QED
  BY <1>3, <1>4, <1>5

(* So does the one that applies an event's revision and attempt.           *)
LEMMA MovedType ==
    ASSUME NEW row \in JobRows, NEW status \in JobStatus,
           NEW revision \in Revisions, NEW attempt \in Attempts
    PROVE  JobMoved(row, status, revision, attempt) \in JobRows
<1>1. revision \in Int /\ (revision >= 0 => revision \in Nat)
  BY BoundsAssumption DEF Revisions, NoRevision
<1>2. attempt \in Nat
  BY BoundsAssumption DEF Attempts, NoAttempt
<1>3. /\ row.revision + 1 \in Nat
      /\ Greatest(row.deviceRevision, revision) \in Nat
      /\ Greatest(row.attempt, attempt) \in Nat
  BY <1>1, <1>2 DEF Greatest, JobRows
<1> QED
  BY <1>3 DEF JobRows, JobMoved

(* The row after an event that applies is a job row.                       *)
LEMMA JobAfterType ==
    ASSUME NEW row \in JobRows, NEW event \in TaskEvents,
           NEW revision \in Revisions, NEW attempt \in Attempts
    PROVE  JobAfter(row, event, revision, attempt) \in JobRows
<1>1. JobTarget(event) \in JobStatus
  BY TargetTypes DEF JobStatus
<1> DEFINE moved == JobMoved(row, JobTarget(event), revision, attempt)
<1>2. moved \in JobRows
  BY <1>1, MovedType
<1>3. JobHeld(moved) \in JobRows /\ JobCleared(moved) \in JobRows
  BY <1>1, <1>2, RowTypes
<1> QED
  BY <1>2, <1>3 DEF JobAfter

(* transition_order and the refund helper keep the shape of their columns. *)
LEMMA ColumnTypes ==
    ASSUME TypeOK, NEW o \in Orders, NEW target \in OrderStatus
    PROVE  /\ OrderMoved(o, target) \in [Orders -> OrderStatus \cup {None}]
           /\ RefundEnsured(o) \in [Orders -> BOOLEAN]
  BY DEF TypeOK, OrderMoved, RefundEnsured

(* The statuses that actions write as literals.                            *)
LEMMA LiteralTypes ==
    /\ {"CANCELLED", "DISPATCHED", "HOLD", "EXPIRED", "READY", "FAILED"} \subseteq OrderStatus
    /\ {"CANCELLED", "DISPATCHED", "EXPIRED", "EXECUTING", "SUCCEEDED", "FAILED"}
          \subseteq JobStatus
    /\ {"CREATED", "UNKNOWN", "EXPIRED", "SUCCEEDED", "FAILED", "CANCELLED"}
          \subseteq CommandStatus
    /\ NoRevision \in Revisions
    /\ NoAttempt \in Attempts
  BY DEF OrderStatus, FinalOrders, JobStatus, ActiveJobs, FinalJobs,
         CommandStatus, TerminalCommands, Revisions, Attempts

-----------------------------------------------------------------------------
(* The empty tables are well formed.                                       *)
LEMMA TypeInit == Init => TypeOK
<1>1. NoJob \in JobRows
  BY DEF NoJob, JobRows
<1>2. NoView \in [order: Orders \cup {NoOrder}, row: JobRows]
  BY <1>1 DEF NoView
<1> SUFFICES ASSUME Init PROVE TypeOK
  OBVIOUS
<1>3. /\ job \in [Orders -> JobRows]
      /\ seen \in [order: Orders \cup {NoOrder}, row: JobRows]
  BY <1>1, <1>2 DEF Init
<1>4. /\ paid \in [Orders -> BOOLEAN]
      /\ refund \in [Orders -> BOOLEAN]
      /\ handed \in [Orders -> BOOLEAN]
      /\ due \in [Orders -> BOOLEAN]
      /\ tried \in [Orders -> BOOLEAN]
      /\ broker \in [Orders -> BOOLEAN]
      /\ wake \in BOOLEAN
      /\ gate \in BOOLEAN
  BY DEF Init
<1> QED
  BY <1>3, <1>4 DEF Init, TypeOK

(* Every transaction writes only values of its columns.                    *)
LEMMA TypeStep == TypeOK /\ [Next]_vars => TypeOK'
<1> SUFFICES ASSUME TypeOK, [Next]_vars PROVE TypeOK'
  OBVIOUS
<1> USE DEF moneyVars, commandVars, dispatchVars
<1>1. ASSUME NEW o \in Orders, Enqueue(o) PROVE TypeOK'
  BY <1>1, SMTT(40) DEF Enqueue, TypeOK, JobRows, JobStatus, OrderStatus
<1>2. ASSUME NEW o \in Orders, Cancel(o) PROVE TypeOK'
  <2>1. job' \in [Orders -> JobRows]
    BY <1>2, RowTypes, LiteralTypes DEF Cancel, TypeOK
  <2> QED
    BY <1>2, <2>1, ColumnTypes, LiteralTypes DEF Cancel, TypeOK
<1>3. ASSUME NEW o \in Orders, DispatchSelect(o) PROVE TypeOK'
  BY <1>3 DEF DispatchSelect, TypeOK
<1>4. ASSUME NEW o \in Orders, DispatchCommit(o) PROVE TypeOK'
  <2>1. job' \in [Orders -> JobRows]
    BY <1>4, RowTypes, LiteralTypes DEF DispatchCommit, TypeOK
  <2>2. wake' \in BOOLEAN
    BY <1>4 DEF DispatchCommit, TypeOK
  <2> QED
    BY <1>4, <2>1, <2>2, ColumnTypes, LiteralTypes DEF DispatchCommit, TypeOK, OutboxStatus
<1>5. CASE DispatchAbandon
  BY <1>5 DEF DispatchAbandon, TypeOK
<1>6. CASE DispatchNothing
  BY <1>6 DEF DispatchNothing, TypeOK
<1>7. CASE RepairMissing
  BY <1>7 DEF RepairMissing, TypeOK
<1>8. CASE GateChange
  BY <1>8 DEF GateChange, TypeOK
<1>9. ASSUME NEW o \in Orders, GatewayClaim(o) PROVE TypeOK'
  BY <1>9 DEF GatewayClaim, TypeOK, OutboxStatus
<1>10. ASSUME NEW o \in Orders, GatewayPublish(o) PROVE TypeOK'
  BY <1>10 DEF GatewayPublish, TypeOK
<1>11. ASSUME NEW o \in Orders, GatewayPublished(o) PROVE TypeOK'
  BY <1>11 DEF GatewayPublished, TypeOK, OutboxStatus, CommandStatus
<1>12. ASSUME NEW o \in Orders, GatewayRetry(o) PROVE TypeOK'
  BY <1>12 DEF GatewayRetry, TypeOK, OutboxStatus
<1>13. ASSUME NEW o \in Orders, GatewayCrash(o) PROVE TypeOK'
  BY <1>13 DEF GatewayCrash, TypeOK
<1>14. ASSUME NEW o \in Orders, PollCommands(o) PROVE TypeOK'
  <2>1. /\ commandStatus' \in [Orders -> CommandStatus \cup {None}]
        /\ handed' \in [Orders -> BOOLEAN]
    <3>1. CASE commandStatus[o] = "CREATED"
      BY <1>14, <3>1 DEF PollCommands, TypeOK, CommandStatus
    <3>2. CASE commandStatus[o] # "CREATED"
      BY <1>14, <3>2 DEF PollCommands, TypeOK
    <3> QED BY <3>1, <3>2
  <2>2. broker' \in [Orders -> BOOLEAN]
    BY <1>14 DEF PollCommands, TypeOK
  <2> QED
    BY <1>14, <2>1, <2>2 DEF PollCommands, TypeOK
<1>15. ASSUME NEW o \in Orders, DeadlinePasses(o) PROVE TypeOK'
  BY <1>15 DEF DeadlinePasses, TypeOK
<1>16. ASSUME NEW o \in Orders, Expire(o) PROVE TypeOK'
  <2>1. job' \in [Orders -> JobRows]
    BY <1>16, RowTypes, LiteralTypes, SMTT(40) DEF Expire, TypeOK
  <2>2. /\ orderStatus' \in [Orders -> OrderStatus \cup {None}]
        /\ refund' \in [Orders -> BOOLEAN]
    BY <1>16, ColumnTypes, LiteralTypes DEF Expire, TypeOK
  <2>3. /\ commandStatus' \in [Orders -> CommandStatus \cup {None}]
        /\ outbox' \in [Orders -> OutboxStatus \cup {None}]
    BY <1>16, LiteralTypes DEF Expire, TypeOK, OutboxStatus
  <2> QED
    BY <1>16, <2>1, <2>2, <2>3 DEF Expire, TypeOK
<1>17. ASSUME NEW o \in Orders, NEW event \in TaskEvents, NEW revision \in Revisions,
              NEW attempt \in Attempts, DeviceEvent(o, event, revision, attempt)
       PROVE  TypeOK'
  <2>1. job' \in [Orders -> JobRows]
    BY <1>17, JobAfterType DEF DeviceEvent, TypeOK
  <2>2. /\ orderStatus' \in [Orders -> OrderStatus \cup {None}]
        /\ refund' \in [Orders -> BOOLEAN]
        /\ commandStatus' \in [Orders -> CommandStatus \cup {None}]
    BY <1>17, ColumnTypes, TargetTypes DEF DeviceEvent, TypeOK
  <2>3. wake' \in BOOLEAN /\ gate' \in BOOLEAN
    BY <1>17 DEF DeviceEvent, TypeOK
  <2> QED
    BY <1>17, <2>1, <2>2, <2>3 DEF DeviceEvent, TypeOK
<1>18. ASSUME NEW o \in Orders, NEW revision \in Revisions, NEW attempt \in Attempts,
              StepEvent(o, revision, attempt)
       PROVE  TypeOK'
  <2>1. job' \in [Orders -> JobRows]
    BY <1>18, MovedType, LiteralTypes DEF StepEvent, TypeOK
  <2> QED
    BY <1>18, <2>1 DEF StepEvent, TypeOK
<1>19. ASSUME NEW o \in Orders, HoldOverdue(o) PROVE TypeOK'
  <2>1. job' \in [Orders -> JobRows]
    BY <1>19, RowTypes, LiteralTypes DEF HoldOverdue, TypeOK
  <2> QED
    BY <1>19, <2>1, ColumnTypes, LiteralTypes DEF HoldOverdue, TypeOK
<1>20. ASSUME NEW o \in Orders, OperatorLooks(o) PROVE TypeOK'
  BY <1>20 DEF OperatorLooks, TypeOK
<1>21. ASSUME NEW o \in Orders, NEW outcome \in Outcomes, Adjudicate(o, outcome)
       PROVE  TypeOK'
  <2>1. JobMoved(job[o], outcome, NoRevision, NoAttempt) \in JobRows
    BY MovedType, LiteralTypes DEF TypeOK, Outcomes
  <2>2. job' \in [Orders -> JobRows]
    BY <1>21, <2>1, RowTypes, LiteralTypes DEF Adjudicate, TypeOK
  <2>3. seen' \in [order: Orders \cup {NoOrder}, row: JobRows]
    <3>1. NoJob \in JobRows
      BY DEF NoJob, JobRows
    <3> QED
      BY <1>21, <3>1 DEF Adjudicate, NoView
  <2>4. /\ orderStatus' \in [Orders -> OrderStatus \cup {None}]
        /\ refund' \in [Orders -> BOOLEAN]
        /\ commandStatus' \in [Orders -> CommandStatus \cup {None}]
    BY <1>21, ColumnTypes, LiteralTypes DEF Adjudicate, TypeOK, Outcomes
  <2> QED
    BY <1>21, <2>2, <2>3, <2>4 DEF Adjudicate, TypeOK
<1>22. CASE UNCHANGED vars
  BY <1>22 DEF vars, TypeOK
<1> QED
  BY <1>1, <1>2, <1>3, <1>4, <1>5, <1>6, <1>7, <1>8, <1>9, <1>10, <1>11, <1>12,
     <1>13, <1>14, <1>15, <1>16, <1>17, <1>18, <1>19, <1>20, <1>21, <1>22,
     BoundsAssumption
     DEF Next, DispatcherNext, DeliveryNext, MachineNext, ReviewNext

(* Every reachable state has well-formed rows, for any number of orders.   *)
THEOREM TypeCorrect == Spec => []TypeOK
  BY TypeInit, TypeStep, PTL DEF Spec

-----------------------------------------------------------------------------
(* What the helpers write into the fields of a job row.                    *)
LEMMA RowFields ==
    ASSUME NEW row \in JobRows, NEW status, NEW revision, NEW attempt
    PROVE  /\ JobMoved(row, status, revision, attempt).status = status
           /\ JobMoved(row, status, revision, attempt).revision = row.revision + 1
           /\ JobMoved(row, status, revision, attempt).review = row.review
           /\ JobHeld(row).status = "HOLD"
           /\ JobHeld(row).revision = row.revision + 1
           /\ JobHeld(row).review
           /\ JobCleared(row).status = row.status
           /\ JobCleared(row).revision = row.revision
           /\ JobMarked(row, status).status = status
           /\ JobMarked(row, status).revision = row.revision + 1
  BY DEF JobRows, JobMoved, JobHeld, JobCleared, JobMarked

(* An event gives the job the status it asks for, and a held job a review  *)
(* flag; the revision always grows.                                        *)
LEMMA JobAfterFields ==
    ASSUME NEW row \in JobRows, NEW event \in TaskEvents,
           NEW revision \in Revisions, NEW attempt \in Attempts
    PROVE  LET after == JobAfter(row, event, revision, attempt)
           IN /\ after.status = JobTarget(event)
              /\ after.status = "HOLD" => after.review
              /\ after.revision > row.revision
<1> DEFINE moved == JobMoved(row, JobTarget(event), revision, attempt)
<1>1. moved \in JobRows
  BY TargetTypes, MovedType DEF JobStatus
<1>2. moved.status = JobTarget(event) /\ moved.revision = row.revision + 1
  BY RowFields
<1>3. /\ JobHeld(moved).status = "HOLD"
      /\ JobHeld(moved).revision = row.revision + 2
      /\ JobHeld(moved).review
      /\ JobCleared(moved).status = JobTarget(event)
      /\ JobCleared(moved).revision = row.revision + 1
  BY <1>1, <1>2, RowFields DEF JobRows
<1>4. row.revision \in Nat
  BY DEF JobRows
<1> HIDE DEF moved
<1>5. JobAfter(row, event, revision, attempt) =
          IF moved.status = "HOLD" THEN JobHeld(moved)
          ELSE IF moved.status \in FinalJobs THEN JobCleared(moved)
          ELSE moved
  BY DEF JobAfter, moved
<1> QED
  BY <1>2, <1>3, <1>4, <1>5

(* The steps that write an order, job or command status; every other step  *)
(* of the specification leaves the three alone.                            *)
LEMMA RowWriters ==
    ASSUME [Next]_vars
    PROVE  \/ UNCHANGED <<orderStatus, moneyVars, job, commandStatus>>
           \/ \E o \in Orders :
                 \/ Enqueue(o)
                 \/ Cancel(o)
                 \/ DispatchCommit(o)
                 \/ GatewayPublished(o)
                 \/ PollCommands(o)
                 \/ Expire(o)
                 \/ \E event \in TaskEvents, revision \in Revisions, attempt \in Attempts :
                       DeviceEvent(o, event, revision, attempt)
                 \/ \E revision \in Revisions, attempt \in Attempts :
                       StepEvent(o, revision, attempt)
                 \/ HoldOverdue(o)
                 \/ \E outcome \in Outcomes : Adjudicate(o, outcome)
<1> USE DEF moneyVars, commandVars, dispatchVars
<1>1. CASE UNCHANGED vars
  BY <1>1 DEF vars
<1>2. CASE DispatcherNext
  BY <1>2 DEF DispatcherNext, DispatchSelect, DispatchAbandon, DispatchNothing,
              RepairMissing, GateChange
<1>3. CASE DeliveryNext
  BY <1>3 DEF DeliveryNext, GatewayClaim, GatewayPublish, GatewayRetry,
              GatewayCrash, DeadlinePasses
<1>4. CASE MachineNext
  BY <1>4, BoundsAssumption DEF MachineNext
<1>5. CASE ReviewNext
  BY <1>5 DEF ReviewNext, OperatorLooks
<1> QED
  BY <1>1, <1>2, <1>3, <1>4, <1>5 DEF Next

-----------------------------------------------------------------------------
(* The three rows of an order agree.                                       *)

(* Before any order the rows agree.                                        *)
LEMMA RowsInit == Init => RowsAgree
  BY DEF Init, RowsAgree, RowAgrees, NoJob, None

(* Every transaction that moves one of the three rows of an order moves    *)
(* the others with it.                                                     *)
LEMMA RowsStep == TypeOK /\ RowsAgree /\ [Next]_vars => RowsAgree'
<1> SUFFICES ASSUME TypeOK, RowsAgree, [Next]_vars,
                    NEW p \in Orders
             PROVE  RowAgrees(p)'
  BY DEF RowsAgree
<1> USE DEF moneyVars, commandVars, dispatchVars
<1>0. RowAgrees(p) /\ job[p] \in JobRows
  BY DEF RowsAgree, TypeOK
<1>1. ASSUME UNCHANGED <<orderStatus[p], job[p], commandStatus[p]>> PROVE RowAgrees(p)'
  BY <1>0, <1>1 DEF RowAgrees
<1>2. ASSUME NEW o \in Orders, Enqueue(o) PROVE RowAgrees(p)'
  BY <1>0, <1>1, <1>2 DEF Enqueue, RowAgrees, TypeOK, JobRows, JobStatus, ActiveJobs,
     FinalJobs, None
<1>3. ASSUME NEW o \in Orders, Cancel(o) PROVE RowAgrees(p)'
  <2>1. CASE p # o
    BY <1>1, <1>3, <2>1 DEF Cancel, OrderMoved, TypeOK
  <2>2. CASE p = o
    <3>1. orderStatus'[p] = "CANCELLED"
      BY <1>3, <2>2 DEF Cancel, OrderMoved, OrderTransitionAllowed, OrderTransitions, TypeOK
    <3>2. job'[p].status = "CANCELLED" /\ commandStatus'[p] = commandStatus[p]
      BY <1>0, <1>3, <2>2, RowFields DEF Cancel, TypeOK
    <3>3. commandStatus[p] = None
      BY <1>0, <1>3, <2>2 DEF Cancel, RowAgrees, JobRows, JobStatus, ActiveJobs, FinalJobs
    <3> QED
      BY <3>1, <3>2, <3>3 DEF RowAgrees
  <2> QED
    BY <2>1, <2>2
<1>4. ASSUME NEW o \in Orders, DispatchCommit(o) PROVE RowAgrees(p)'
  <2>1. CASE p # o
    BY <1>1, <1>4, <2>1 DEF DispatchCommit, OrderMoved, TypeOK
  <2>2. CASE p = o
    <3>1. /\ orderStatus'[p] = "DISPATCHED"
          /\ commandStatus'[p] = "CREATED"
      BY <1>4, <2>2 DEF DispatchCommit, OrderMoved, OrderTransitionAllowed, OrderTransitions, TypeOK
    <3>2. job'[p].status = "DISPATCHED"
      BY <1>0, <1>4, <2>2, RowFields DEF DispatchCommit, TypeOK
    <3> QED
      BY <3>1, <3>2 DEF RowAgrees, None
  <2> QED
    BY <2>1, <2>2
<1>5. ASSUME NEW o \in Orders, GatewayPublished(o) PROVE RowAgrees(p)'
  <2>1. \/ commandStatus'[p] = commandStatus[p]
        \/ commandStatus[p] \in DeliverableCommandStates /\ commandStatus'[p] = "PUBLISHED"
    BY <1>5 DEF GatewayPublished, TypeOK
  <2>2. orderStatus'[p] = orderStatus[p] /\ job'[p] = job[p]
    BY <1>5 DEF GatewayPublished
  <2> QED
    BY <1>0, <2>1, <2>2 DEF RowAgrees, DeliverableCommandStates, None
<1>6. ASSUME NEW o \in Orders, PollCommands(o) PROVE RowAgrees(p)'
  <2>1. \/ commandStatus'[p] = commandStatus[p]
        \/ commandStatus[p] = "CREATED" /\ commandStatus'[p] = "DELIVERING"
    BY <1>6 DEF PollCommands, TypeOK
  <2>2. orderStatus'[p] = orderStatus[p] /\ job'[p] = job[p]
    BY <1>6 DEF PollCommands
  <2> QED
    BY <1>0, <2>1, <2>2 DEF RowAgrees, None
<1>7. ASSUME NEW o \in Orders, Expire(o) PROVE RowAgrees(p)'
  <2>1. CASE p # o
    BY <1>1, <1>7, <2>1 DEF Expire, OrderMoved, TypeOK
  <2>2. CASE p = o
    <3>1. job[p].status = "DISPATCHED" /\ orderStatus[p] = "DISPATCHED"
      BY <1>0, <1>7, <2>2 DEF Expire, RowAgrees, JobRows, JobStatus, ActiveJobs,
         FinalJobs, None
    <3>2. CASE DeliveryEvidence(p)
      <4>1. orderStatus'[p] = "HOLD" /\ commandStatus'[p] = "UNKNOWN"
        BY <1>7, <2>2, <3>1, <3>2 DEF Expire, OrderMoved, OrderTransitionAllowed,
           OrderTransitions, TypeOK
      <4>2. job'[p] = JobHeld(job[p])
        BY <1>7, <2>2, <3>1, <3>2 DEF Expire, TypeOK
      <4> QED
        BY <1>0, <4>1, <4>2, RowFields DEF RowAgrees, None
    <3>3. CASE ~DeliveryEvidence(p)
      <4>1. orderStatus'[p] = "EXPIRED" /\ commandStatus'[p] = "EXPIRED"
        BY <1>7, <2>2, <3>1, <3>3 DEF Expire, OrderMoved, OrderTransitionAllowed,
           OrderTransitions, TypeOK
      <4>2. job'[p].status = "EXPIRED"
        BY <1>0, <1>7, <2>2, <3>1, <3>3, RowFields, SMTT(40) DEF Expire, TypeOK
      <4> QED
        BY <4>1, <4>2 DEF RowAgrees, None
    <3> QED
      BY <3>2, <3>3
  <2> QED
    BY <2>1, <2>2
<1>8. ASSUME NEW o \in Orders, NEW event \in TaskEvents, NEW revision \in Revisions,
             NEW attempt \in Attempts, DeviceEvent(o, event, revision, attempt)
      PROVE  RowAgrees(p)'
  <2>1. CASE p # o
    BY <1>1, <1>8, <2>1 DEF DeviceEvent, OrderMoved, TypeOK
  <2>2. CASE p = o
    <3>1. /\ orderStatus'[p] = OrderTarget(event)
          /\ commandStatus'[p] = CommandTarget(event)
          /\ job'[p] = JobAfter(job[p], event, revision, attempt)
      BY <1>8, <2>2 DEF DeviceEvent, OrderMoved, TypeOK
    <3>2. /\ job'[p].status = JobTarget(event)
          /\ job'[p].status = "HOLD" => job'[p].review
      BY <1>0, <3>1, JobAfterFields
    <3> QED
      BY <3>1, <3>2 DEF RowAgrees, TaskEvents, OrderTarget, CommandTarget, JobTarget,
         EventTargets, None
  <2> QED
    BY <2>1, <2>2
<1>9. ASSUME NEW o \in Orders, NEW revision \in Revisions, NEW attempt \in Attempts,
             StepEvent(o, revision, attempt)
      PROVE  RowAgrees(p)'
  <2>1. job'[p].status = job[p].status
    BY <1>9, <1>0, RowFields DEF StepEvent, TypeOK
  <2>2. job'[p].status # "EXECUTING" => job'[p].review = job[p].review
    BY <1>9, <1>0, <2>1 DEF StepEvent, TypeOK
  <2>3. orderStatus'[p] = orderStatus[p] /\ commandStatus'[p] = commandStatus[p]
    BY <1>9 DEF StepEvent
  <2> QED
    BY <1>0, <2>1, <2>2, <2>3 DEF RowAgrees
<1>10. ASSUME NEW o \in Orders, HoldOverdue(o) PROVE RowAgrees(p)'
  <2>1. CASE p # o
    BY <1>1, <1>10, <2>1 DEF HoldOverdue, OrderMoved, TypeOK
  <2>2. CASE p = o
    <3>1. orderStatus[p] \in {"DISPATCHED", "ACCEPTED", "MAKING"}
      BY <1>0, <1>10, <2>2 DEF HoldOverdue, WatchdogDue, RowAgrees
    <3>2. orderStatus'[p] = "HOLD" /\ commandStatus'[p] = "UNKNOWN"
      BY <1>10, <2>2, <3>1 DEF HoldOverdue, OrderMoved, OrderTransitionAllowed,
         OrderTransitions, TypeOK
    <3>3. job'[p] = JobHeld(job[p])
      BY <1>10, <2>2 DEF HoldOverdue, TypeOK
    <3> QED
      BY <1>0, <3>2, <3>3, RowFields DEF RowAgrees, None
  <2> QED
    BY <2>1, <2>2
<1>11. ASSUME NEW o \in Orders, NEW outcome \in Outcomes, Adjudicate(o, outcome)
       PROVE  RowAgrees(p)'
  <2>1. CASE p # o
    BY <1>1, <1>11, <2>1 DEF Adjudicate, OrderMoved, TypeOK
  <2>2. CASE p = o
    <3>1. /\ orderStatus'[p] = IF outcome = "SUCCEEDED" THEN "READY" ELSE outcome
          /\ commandStatus'[p] = outcome
      BY <1>11, <2>2 DEF Adjudicate, OrderMoved, OrderTransitionAllowed,
         OrderTransitions, TypeOK, Outcomes
    <3>2. job'[p].status = outcome
      <4>1. JobMoved(job[p], outcome, NoRevision, NoAttempt) \in JobRows
        BY <1>0, MovedType, LiteralTypes DEF Outcomes
      <4>2. job'[p] = JobCleared(JobMoved(job[p], outcome, NoRevision, NoAttempt))
        BY <1>11, <2>2 DEF Adjudicate, TypeOK
      <4> QED
        BY <1>0, <4>1, <4>2, RowFields
    <3> QED
      BY <3>1, <3>2 DEF RowAgrees, Outcomes, None
  <2> QED
    BY <2>1, <2>2
<1>12. CASE UNCHANGED <<orderStatus, moneyVars, job, commandStatus>>
  BY <1>1, <1>12
<1> QED
  BY <1>2, <1>3, <1>4, <1>5, <1>6, <1>7, <1>8, <1>9, <1>10, <1>11, <1>12, RowWriters

(* The order, job and command rows never contradict each other, for any    *)
(* number of orders, revisions and attempts.                               *)
THEOREM RowsAlwaysAgree == Spec => []RowsAgree
<1>1. Init => TypeOK /\ RowsAgree
  BY TypeInit, RowsInit
<1>2. TypeOK /\ RowsAgree /\ [Next]_vars => TypeOK' /\ RowsAgree'
  BY TypeStep, RowsStep
<1> QED
  BY <1>1, <1>2, PTL DEF Spec

-----------------------------------------------------------------------------
(* The machine has one job at a time.                                      *)

(* Only a dispatch makes a job active: no event, timeout or verdict takes  *)
(* a queued or finished job back into the machine.                         *)
LEMMA OnlyDispatchActivates ==
    ASSUME TypeOK, RowsAgree, [Next]_vars,
           NEW p \in Orders, job'[p].status \in ActiveJobs
    PROVE  job[p].status \in ActiveJobs \/ DispatchCommit(p)
<1> USE DEF moneyVars, commandVars, dispatchVars
<1>0. RowAgrees(p) /\ job[p] \in JobRows
  BY DEF RowsAgree, TypeOK
<1>1. CASE job'[p] = job[p]
  BY <1>1
<1>2. ASSUME NEW o \in Orders, Enqueue(o) PROVE job[p].status \in ActiveJobs
  <2>1. CASE p # o
    BY <1>1, <1>2, <2>1 DEF Enqueue, TypeOK
  <2>2. CASE p = o
    BY <1>2, <2>2 DEF Enqueue, TypeOK, JobRows, ActiveJobs
  <2> QED
    BY <2>1, <2>2
<1>3. ASSUME NEW o \in Orders, Cancel(o) PROVE job[p].status \in ActiveJobs
  <2>1. CASE p # o
    BY <1>1, <1>3, <2>1 DEF Cancel, TypeOK
  <2>2. CASE p = o
    <3>1. job'[p].status = "CANCELLED"
      BY <1>0, <1>3, <2>2, RowFields DEF Cancel, TypeOK
    <3> QED
      BY <3>1 DEF ActiveJobs
  <2> QED
    BY <2>1, <2>2
<1>4. ASSUME NEW o \in Orders, DispatchCommit(o)
      PROVE  job[p].status \in ActiveJobs \/ DispatchCommit(p)
  <2>1. CASE p # o
    BY <1>1, <1>4, <2>1 DEF DispatchCommit, TypeOK
  <2> QED
    BY <1>4, <2>1
<1>5. ASSUME NEW o \in Orders, GatewayPublished(o) \/ PollCommands(o)
      PROVE  job[p].status \in ActiveJobs
  BY <1>5 DEF GatewayPublished, PollCommands
<1>6. ASSUME NEW o \in Orders, Expire(o) PROVE job[p].status \in ActiveJobs
  <2>1. CASE p # o
    BY <1>1, <1>6, <2>1 DEF Expire, TypeOK
  <2>2. CASE p = o
    <3>1. job[p].status = "DISPATCHED"
      BY <1>0, <1>6, <2>2 DEF Expire, RowAgrees, JobRows, JobStatus, ActiveJobs,
         FinalJobs, None
    <3> QED
      BY <3>1 DEF ActiveJobs
  <2> QED
    BY <2>1, <2>2
<1>7. ASSUME NEW o \in Orders, NEW event \in TaskEvents, NEW revision \in Revisions,
             NEW attempt \in Attempts, DeviceEvent(o, event, revision, attempt)
      PROVE  job[p].status \in ActiveJobs
  <2>1. CASE p # o
    BY <1>1, <1>7, <2>1 DEF DeviceEvent, TypeOK
  <2>2. CASE p = o
    BY <1>0, <1>7, <2>2 DEF DeviceEvent, EventAdmitted, JobEventApplies, LegalSources,
       JobTarget, EventTargets, TaskEvents, JobRows, JobStatus, ActiveJobs, None
  <2> QED
    BY <2>1, <2>2
<1>8. ASSUME NEW o \in Orders, NEW revision \in Revisions, NEW attempt \in Attempts,
             StepEvent(o, revision, attempt)
      PROVE  job[p].status \in ActiveJobs
  BY <1>1, <1>8 DEF StepEvent, TypeOK, ActiveJobs
<1>9. ASSUME NEW o \in Orders, HoldOverdue(o) PROVE job[p].status \in ActiveJobs
  BY <1>1, <1>9 DEF HoldOverdue, WatchdogDue, TypeOK, ActiveJobs
<1>10. ASSUME NEW o \in Orders, NEW outcome \in Outcomes, Adjudicate(o, outcome)
       PROVE  job[p].status \in ActiveJobs
  BY <1>1, <1>10 DEF Adjudicate, TypeOK, ActiveJobs
<1> QED
  BY <1>1, <1>2, <1>3, <1>4, <1>5, <1>6, <1>7, <1>8, <1>9, <1>10, RowWriters

(* A dispatch transaction opens on a machine without an active job, and    *)
(* the terminal lock keeps a second one from opening.                      *)
LEMMA PickWriters ==
    ASSUME [Next]_vars
    PROVE  \/ pick' = pick /\ \A o \in Orders : ~DispatchCommit(o)
           \/ pick' = NoOrder
           \/ ~ActiveJobExists /\ job' = job
<1> SUFFICES ASSUME pick' # NoOrder
             PROVE  \/ pick' = pick /\ \A o \in Orders : ~DispatchCommit(o)
                    \/ ~ActiveJobExists /\ job' = job
  OBVIOUS
<1> USE DEF moneyVars, commandVars, dispatchVars
<1>1. \A o \in Orders : ~DispatchCommit(o)
  BY DEF DispatchCommit
<1>2. CASE UNCHANGED vars
  BY <1>1, <1>2 DEF vars
<1>3. CASE \E o \in Orders : Enqueue(o) \/ Cancel(o)
  BY <1>1, <1>3 DEF Enqueue, Cancel
<1>4. CASE DispatcherNext
  BY <1>1, <1>4 DEF DispatcherNext, DispatchSelect, DispatchAbandon, DispatchNothing,
                    RepairMissing, GateChange
<1>5. CASE DeliveryNext
  BY <1>1, <1>5 DEF DeliveryNext, GatewayClaim, GatewayPublish, GatewayPublished,
                    GatewayRetry, GatewayCrash, PollCommands, DeadlinePasses, Expire
<1>6. CASE MachineNext
  BY <1>1, <1>6 DEF MachineNext, DeviceEvent, StepEvent
<1>7. CASE ReviewNext
  BY <1>1, <1>7 DEF ReviewNext, HoldOverdue, OperatorLooks, Adjudicate
<1> QED
  BY <1>2, <1>3, <1>4, <1>5, <1>6, <1>7 DEF Next

(* While a dispatch pass has a job picked nothing else becomes active, so  *)
(* the job it activates is the only one.                                   *)
LEMMA OneActiveStep ==
    TypeOK /\ RowsAgree /\ PickIsFree /\ OneActiveJob /\ [Next]_vars
        => PickIsFree' /\ OneActiveJob'
<1> SUFFICES ASSUME TypeOK, RowsAgree, PickIsFree, OneActiveJob, [Next]_vars
             PROVE  PickIsFree' /\ OneActiveJob'
  OBVIOUS
<1>1. \A p \in Orders : job'[p].status \in ActiveJobs =>
          job[p].status \in ActiveJobs \/ DispatchCommit(p)
  BY OnlyDispatchActivates
<1>2. \A o, p \in Orders :
          DispatchCommit(o) => job[p].status \notin ActiveJobs /\ (DispatchCommit(p) => o = p)
  <2>1. NoOrder \notin Orders
    BY BoundsAssumption DEF Orders, NoOrder
  <2> QED
    BY <2>1 DEF DispatchCommit, PickIsFree, ActiveJobExists
<1>3. OneActiveJob'
  BY <1>1, <1>2 DEF OneActiveJob
<1>4. PickIsFree'
  BY <1>1, PickWriters DEF PickIsFree, ActiveJobExists
<1> QED
  BY <1>3, <1>4

(* At most one job is in the machine's hands or in doubt, for any number   *)
(* of orders and however dispatches, cancellations, events and verdicts    *)
(* interleave.                                                             *)
THEOREM OneJobAtATime == Spec => []OneActiveJob
<1> DEFINE Inv == TypeOK /\ RowsAgree /\ PickIsFree /\ OneActiveJob
<1>1. Init => Inv
  <2>1. Init => PickIsFree /\ OneActiveJob
    BY DEF Init, PickIsFree, OneActiveJob, NoJob, ActiveJobs, None
  <2> QED
    BY <2>1, TypeInit, RowsInit
<1>2. Inv /\ [Next]_vars => Inv'
  BY TypeStep, RowsStep, OneActiveStep
<1> QED
  BY <1>1, <1>2, PTL DEF Spec

-----------------------------------------------------------------------------
(* What expired was never sent.                                            *)

(* An expired order has an expired command.                                *)
LEMMA ExpiredCommand ==
    ASSUME TypeOK, RowsAgree, NEW o \in Orders, orderStatus[o] = "EXPIRED"
    PROVE  commandStatus[o] = "EXPIRED"
<1>1. RowAgrees(o) /\ job[o] \in JobRows
  BY DEF RowsAgree, TypeOK
<1> QED
  BY <1>1 DEF RowAgrees, JobRows, JobStatus, ActiveJobs, FinalJobs, None

(* Whatever reaches the broker leaves a mark that the expiry reads, and    *)
(* an expired command was never handed out.                                *)
LEMMA TraceStep ==
    TypeOK /\ RowsAgree /\ DeliveryLeavesTrace /\ [Next]_vars => DeliveryLeavesTrace'
<1> SUFFICES ASSUME TypeOK, RowsAgree, DeliveryLeavesTrace, [Next]_vars,
                    NEW p \in Orders
             PROVE  LeavesTrace(p)'
  BY DEF DeliveryLeavesTrace
<1> USE DEF moneyVars, commandVars, dispatchVars
<1>0. LeavesTrace(p)
  BY DEF DeliveryLeavesTrace
<1>1. ASSUME UNCHANGED <<commandStatus[p], handed[p], outbox[p], tried[p], gateway[p],
                         broker[p]>>,
             orderStatus'[p] # "EXPIRED" \/ orderStatus'[p] = orderStatus[p]
      PROVE  LeavesTrace(p)'
  BY <1>0, <1>1 DEF LeavesTrace
<1>2. ASSUME UNCHANGED <<handed[p], outbox[p], tried[p], gateway[p], broker[p]>>,
             commandStatus[p] # None,
             commandStatus'[p] \notin {"DELIVERING", "PUBLISHED"},
             orderStatus'[p] # "EXPIRED" \/ orderStatus'[p] = orderStatus[p]
      PROVE  LeavesTrace(p)'
  BY <1>0, <1>2 DEF LeavesTrace
<1>3. ASSUME NEW o \in Orders, NEW target \in OrderStatus, target # "EXPIRED",
             orderStatus' = OrderMoved(o, target)
      PROVE  orderStatus'[p] # "EXPIRED" \/ orderStatus'[p] = orderStatus[p]
  BY <1>3 DEF OrderMoved, TypeOK
<1>4. ASSUME NEW o \in Orders, Enqueue(o) PROVE LeavesTrace(p)'
  BY <1>1, <1>4 DEF Enqueue, TypeOK
<1>5. ASSUME NEW o \in Orders, Cancel(o) PROVE LeavesTrace(p)'
  BY <1>1, <1>3, <1>5, LiteralTypes DEF Cancel
<1>6. ASSUME NEW o \in Orders, DispatchCommit(o) PROVE LeavesTrace(p)'
  <2>1. orderStatus'[p] # "EXPIRED" \/ orderStatus'[p] = orderStatus[p]
    BY <1>3, <1>6, LiteralTypes DEF DispatchCommit
  <2>2. UNCHANGED <<handed, tried, gateway, broker>>
    BY <1>6 DEF DispatchCommit
  <2>3. CASE p = o
    <3>1. outbox'[p] = "PENDING" /\ commandStatus'[p] = "CREATED"
      BY <1>6, <2>3 DEF DispatchCommit, TypeOK
    <3> QED
      BY <1>0, <2>1, <2>2, <3>1 DEF LeavesTrace, None
  <2>4. CASE p # o
    BY <1>1, <1>6, <2>1, <2>4 DEF DispatchCommit, TypeOK
  <2> QED
    BY <2>3, <2>4
<1>7. CASE DispatchAbandon \/ DispatchNothing \/ RepairMissing \/ GateChange
           \/ \E o \in Orders : DispatchSelect(o) \/ DeadlinePasses(o) \/ OperatorLooks(o)
  BY <1>1, <1>7 DEF DispatchAbandon, DispatchNothing, RepairMissing, GateChange,
     DispatchSelect, DeadlinePasses, OperatorLooks
<1>8. ASSUME NEW o \in Orders, GatewayClaim(o) PROVE LeavesTrace(p)'
  <2>1. CASE p # o
    BY <1>1, <1>8, <2>1 DEF GatewayClaim, TypeOK
  <2>2. CASE p = o
    <3>1. orderStatus[p] # "EXPIRED"
      BY <1>8, <2>2, ExpiredCommand DEF GatewayClaim, DeliverableCommandStates
    <3>2. /\ outbox'[p] = "PUBLISHING"
          /\ tried'[p]
          /\ UNCHANGED <<orderStatus, commandStatus, handed, broker>>
      BY <1>8, <2>2 DEF GatewayClaim, TypeOK
    <3> QED
      BY <1>0, <3>1, <3>2 DEF LeavesTrace, None
  <2> QED
    BY <2>1, <2>2
<1>9. ASSUME NEW o \in Orders, GatewayPublish(o) PROVE LeavesTrace(p)'
  <2>1. CASE p # o
    BY <1>1, <1>9, <2>1 DEF GatewayPublish, TypeOK
  <2>2. CASE p = o
    <3>1. tried[p]
      BY <1>0, <1>9, <2>2 DEF GatewayPublish, LeavesTrace
    <3>2. UNCHANGED <<orderStatus, commandStatus, outbox, tried, handed>>
      BY <1>9 DEF GatewayPublish
    <3> QED
      BY <1>0, <3>1, <3>2 DEF LeavesTrace
  <2> QED
    BY <2>1, <2>2
<1>10. ASSUME NEW o \in Orders, GatewayPublished(o) PROVE LeavesTrace(p)'
  <2>1. CASE p # o
    BY <1>1, <1>10, <2>1 DEF GatewayPublished, TypeOK
  <2>2. CASE p = o
    <3>1. tried[p] /\ UNCHANGED <<orderStatus, tried, broker>>
      BY <1>0, <1>10, <2>2 DEF GatewayPublished, LeavesTrace
    <3>2. gateway'[p] = "idle" /\ orderStatus[p] # "EXPIRED"
      BY <1>0, <1>10, <2>2, <3>1 DEF GatewayPublished, LeavesTrace, TypeOK
    <3>3. CASE outbox[p] = "PUBLISHING"
      <4>1. outbox'[p] = "PUBLISHED" /\ handed'[p]
        BY <1>10, <2>2, <3>3 DEF GatewayPublished, TypeOK
      <4> QED
        BY <3>1, <3>2, <4>1 DEF LeavesTrace, None
    <3>4. CASE outbox[p] # "PUBLISHING"
      <4>1. handed[p] => handed'[p]
        BY <1>10, <2>2, <3>4 DEF GatewayPublished, TypeOK
      <4>2. UNCHANGED <<outbox, commandStatus>>
        BY <1>10, <2>2, <3>4 DEF GatewayPublished
      <4> QED
        BY <1>0, <3>1, <3>2, <4>1, <4>2 DEF LeavesTrace
    <3> QED
      BY <3>3, <3>4
  <2> QED
    BY <2>1, <2>2
<1>11. ASSUME NEW o \in Orders, GatewayRetry(o) \/ GatewayCrash(o) PROVE LeavesTrace(p)'
  <2>1. UNCHANGED <<orderStatus, commandStatus, handed, tried, broker>>
    BY <1>11 DEF GatewayRetry, GatewayCrash
  <2>2. gateway'[p] # "idle" => gateway[p] # "idle"
    BY <1>11 DEF GatewayRetry, GatewayCrash, TypeOK
  <2>3. outbox[p] # None => outbox'[p] # None
    BY <1>11 DEF GatewayRetry, GatewayCrash, TypeOK, None
  <2> QED
    BY <1>0, <2>1, <2>2, <2>3 DEF LeavesTrace
<1>12. ASSUME NEW o \in Orders, PollCommands(o) PROVE LeavesTrace(p)'
  <2>1. CASE p # o
    BY <1>1, <1>12, <2>1 DEF PollCommands, TypeOK
  <2>2. CASE p = o
    <3>1. handed'[p]
      <4>1. CASE commandStatus[p] = "CREATED"
        BY <1>12, <2>2, <4>1 DEF PollCommands, TypeOK
      <4>2. CASE commandStatus[p] # "CREATED"
        BY <1>0, <1>12, <2>2, <4>2 DEF PollCommands, LeavesTrace
      <4> QED
        BY <4>1, <4>2
    <3>2. orderStatus[p] # "EXPIRED" /\ commandStatus[p] # None
      BY <1>12, <2>2, ExpiredCommand DEF PollCommands, None
    <3>3. UNCHANGED <<orderStatus, outbox, tried, gateway>>
      BY <1>12 DEF PollCommands
    <3> QED
      BY <1>0, <3>1, <3>2, <3>3 DEF LeavesTrace
  <2> QED
    BY <2>1, <2>2
<1>13. ASSUME NEW o \in Orders, Expire(o) PROVE LeavesTrace(p)'
  <2>1. CASE p # o
    BY <1>1, <1>13, <2>1 DEF Expire, OrderMoved, TypeOK
  <2>2. CASE p = o
    <3>1. UNCHANGED <<handed, tried, gateway, broker>>
      BY <1>13 DEF Expire
    <3>2. commandStatus[p] = "CREATED" /\ commandStatus'[p] \in {"UNKNOWN", "EXPIRED"}
      BY <1>13, <2>2 DEF Expire, TypeOK
    <3>3. outbox[p] # None /\ outbox'[p] # None
      BY <1>0, <1>13, <2>2, <3>2 DEF Expire, LeavesTrace, TypeOK, None
    <3>4. orderStatus[p] # "EXPIRED"
      BY <3>2, ExpiredCommand
    <3>5. CASE DeliveryEvidence(p)
      <4>1. orderStatus'[p] # "EXPIRED"
        BY <1>13, <2>2, <3>4, <3>5 DEF Expire, OrderMoved, TypeOK
      <4> QED
        BY <1>0, <3>1, <3>2, <3>3, <4>1 DEF LeavesTrace
    <3>6. CASE ~DeliveryEvidence(p)
      <4>1. ~tried[p] /\ ~handed[p]
        BY <3>3, <3>6 DEF DeliveryEvidence, OutboxClaimed
      <4> QED
        BY <1>0, <3>1, <3>2, <3>3, <4>1 DEF LeavesTrace
    <3> QED
      BY <3>5, <3>6
  <2> QED
    BY <2>1, <2>2
<1>14. ASSUME NEW o \in Orders, NEW event \in TaskEvents, NEW revision \in Revisions,
              NEW attempt \in Attempts, DeviceEvent(o, event, revision, attempt)
       PROVE  LeavesTrace(p)'
  <2>1. OrderTarget(event) \in OrderStatus \ {"EXPIRED"}
    BY DEF OrderTarget, EventTargets, TaskEvents, OrderStatus, FinalOrders
  <2>2. orderStatus'[p] # "EXPIRED" \/ orderStatus'[p] = orderStatus[p]
    BY <1>3, <1>14, <2>1 DEF DeviceEvent
  <2>3. UNCHANGED <<handed, outbox, tried, gateway, broker>>
    BY <1>14 DEF DeviceEvent
  <2>4. CASE p # o
    BY <1>1, <1>14, <2>2, <2>3, <2>4 DEF DeviceEvent, TypeOK
  <2>5. CASE p = o
    <3>1. commandStatus[p] # None /\ commandStatus'[p] = CommandTarget(event)
      BY <1>14, <2>5 DEF DeviceEvent, EventAdmitted, TypeOK
    <3>2. CommandTarget(event) \notin {"DELIVERING", "PUBLISHED"}
      BY DEF CommandTarget, EventTargets, TaskEvents
    <3> QED
      BY <1>2, <2>2, <2>3, <3>1, <3>2
  <2> QED
    BY <2>4, <2>5
<1>15. ASSUME NEW o \in Orders, NEW revision \in Revisions, NEW attempt \in Attempts,
              StepEvent(o, revision, attempt)
       PROVE  LeavesTrace(p)'
  BY <1>1, <1>15 DEF StepEvent
<1>16. ASSUME NEW o \in Orders, HoldOverdue(o) PROVE LeavesTrace(p)'
  <2>1. orderStatus'[p] # "EXPIRED" \/ orderStatus'[p] = orderStatus[p]
    BY <1>3, <1>16, LiteralTypes DEF HoldOverdue
  <2>2. UNCHANGED <<handed, outbox, tried, gateway, broker>>
    BY <1>16 DEF HoldOverdue
  <2>3. CASE p # o
    BY <1>1, <1>16, <2>1, <2>2, <2>3 DEF HoldOverdue, TypeOK
  <2>4. CASE p = o
    BY <1>2, <1>16, <2>1, <2>2, <2>4 DEF HoldOverdue, TypeOK
  <2> QED
    BY <2>3, <2>4
<1>17. ASSUME NEW o \in Orders, NEW outcome \in Outcomes, Adjudicate(o, outcome)
       PROVE  LeavesTrace(p)'
  <2>1. orderStatus'[p] # "EXPIRED" \/ orderStatus'[p] = orderStatus[p]
    BY <1>3, <1>17, LiteralTypes DEF Adjudicate, Outcomes
  <2>2. UNCHANGED <<handed, outbox, tried, gateway, broker>>
    BY <1>17 DEF Adjudicate
  <2>3. CASE p # o
    BY <1>1, <1>17, <2>1, <2>2, <2>3 DEF Adjudicate, TypeOK
  <2>4. CASE p = o
    BY <1>2, <1>17, <2>1, <2>2, <2>4 DEF Adjudicate, TypeOK, Outcomes
  <2> QED
    BY <2>3, <2>4
<1>18. CASE UNCHANGED vars
  BY <1>1, <1>18 DEF vars
<1> QED
  BY <1>4, <1>5, <1>6, <1>7, <1>8, <1>9, <1>10, <1>11, <1>12, <1>13, <1>14, <1>15,
     <1>16, <1>17, <1>18, BoundsAssumption
     DEF Next, DispatcherNext, DeliveryNext, MachineNext, ReviewNext

(* An order that expired with its money going back was never at the broker *)
(* or the machine and no gateway holds it, however the gateway's claims,   *)
(* crashes and reports interleave with the expiry scan.                    *)
THEOREM ExpiredWasNeverSent == Spec => []ExpiredNeverSent
<1> DEFINE Inv == TypeOK /\ RowsAgree /\ DeliveryLeavesTrace
<1>1. Init => Inv
  <2>1. Init => DeliveryLeavesTrace
    BY DEF Init, DeliveryLeavesTrace, LeavesTrace, None
  <2> QED
    BY <2>1, TypeInit, RowsInit
<1>2. Inv /\ [Next]_vars => Inv'
  BY TypeStep, RowsStep, TraceStep
<1>3. Inv => ExpiredNeverSent
  BY DEF DeliveryLeavesTrace, LeavesTrace, ExpiredNeverSent
<1> QED
  BY <1>1, <1>2, <1>3, PTL DEF Spec

-----------------------------------------------------------------------------
(* What no sequence of transactions can do to an order: take it backwards, *)
(* refund it wrongly, or change its job behind a revision an operator has  *)
(* seen.  The rows' agreement tells which moves the tables allow where a   *)
(* transaction writes.                                                     *)

(* The statuses an order has once it is queued; REFUNDED is not written on *)
(* the production side.                                                    *)
Lost == {"FAILED", "CANCELLED", "EXPIRED"}
Open == {"QUEUED", "DISPATCHED", "ACCEPTED", "MAKING", "HOLD"}

(* The order has the status that goes with its job.                        *)
LEMMA StatusReached ==
    ASSUME TypeOK, RowsAgree, NEW o \in Orders
    PROVE  orderStatus[o] \in {None, "READY"} \cup Open \cup Lost
<1>1. RowAgrees(o) /\ job[o] \in JobRows
  BY DEF RowsAgree, TypeOK
<1> QED
  BY <1>1 DEF RowAgrees, JobRows, JobStatus, ActiveJobs, FinalJobs, Open, Lost

(* The targets production asks for.                                        *)
LEMMA TargetsForward ==
    /\ \A event \in TaskEvents :
          OrderTarget(event) \in {"ACCEPTED", "MAKING", "HOLD", "READY", "FAILED", "CANCELLED"}
    /\ \A event \in TaskEvents :
          OrderTarget(event) \in Lost <=> event \in {"failed", "rejected", "cancelled"}
  BY DEF TaskEvents, OrderTarget, EventTargets, Lost

(* The table allows an open order forward moves only, and an ended one     *)
(* nothing but its refund.                                                 *)
LEMMA TableGoesForward ==
    ASSUME NEW current \in {None, "READY"} \cup Open \cup Lost,
           NEW target \in OrderTransitions(current), target # "REFUNDED"
    PROVE  current \in Open /\ Progress(target) > Progress(current)
<1>1. CASE current = "QUEUED"
  BY <1>1 DEF OrderTransitions, Progress, Open, None
<1>2. CASE current = "DISPATCHED"
  BY <1>2 DEF OrderTransitions, Progress, Open, None
<1>3. CASE current = "ACCEPTED"
  BY <1>3 DEF OrderTransitions, Progress, Open, None
<1>4. CASE current = "MAKING"
  BY <1>4 DEF OrderTransitions, Progress, Open, None
<1>5. CASE current = "HOLD"
  BY <1>5 DEF OrderTransitions, Progress, Open, None
<1>6. CASE current \in {None, "READY"} \cup Lost
  BY <1>6 DEF OrderTransitions, Lost, None
<1> QED
  BY <1>1, <1>2, <1>3, <1>4, <1>5, <1>6 DEF Open

(* transition_order leaves an order where it is or takes it forward.       *)
LEMMA MoveGoesForward ==
    ASSUME TypeOK, RowsAgree, NEW o \in Orders, NEW target, target # "REFUNDED",
           orderStatus' = OrderMoved(o, target), NEW p \in Orders
    PROVE  \/ orderStatus'[p] = orderStatus[p]
           \/ /\ orderStatus[p] \in Open
              /\ Progress(orderStatus'[p]) > Progress(orderStatus[p])
<1>1. CASE p # o \/ ~OrderTransitionAllowed(orderStatus[o], target)
  BY <1>1 DEF OrderMoved, TypeOK
<1>2. CASE p = o /\ OrderTransitionAllowed(orderStatus[o], target)
  <2>1. orderStatus'[p] = target
    BY <1>2 DEF OrderMoved, TypeOK
  <2>2. target = orderStatus[p] \/ target \in OrderTransitions(orderStatus[p])
    BY <1>2 DEF OrderTransitionAllowed
  <2> QED
    BY <2>1, <2>2, StatusReached, TableGoesForward
<1> QED
  BY <1>1, <1>2

(* Each transaction that writes an order's status takes it forward.        *)
LEMMA ForwardStep ==
    ASSUME TypeOK, RowsAgree, [Next]_vars, NEW p \in Orders,
           orderStatus'[p] # orderStatus[p]
    PROVE  Progress(orderStatus'[p]) > Progress(orderStatus[p])
<1> USE DEF moneyVars, commandVars, dispatchVars
<1>1. ASSUME NEW o \in Orders, Enqueue(o)
      PROVE  Progress(orderStatus'[p]) > Progress(orderStatus[p])
  <2>1. orderStatus[p] = None /\ orderStatus'[p] = "QUEUED"
    BY <1>1 DEF Enqueue, TypeOK
  <2> QED
    BY <2>1 DEF Progress, None
<1>2. ASSUME NEW o \in Orders, NEW target, target # "REFUNDED",
             orderStatus' = OrderMoved(o, target)
      PROVE  Progress(orderStatus'[p]) > Progress(orderStatus[p])
  BY <1>2, MoveGoesForward
<1>3. ASSUME NEW o \in Orders, Cancel(o) \/ DispatchCommit(o) \/ HoldOverdue(o)
      PROVE  Progress(orderStatus'[p]) > Progress(orderStatus[p])
  BY <1>2, <1>3 DEF Cancel, DispatchCommit, HoldOverdue
<1>4. ASSUME NEW o \in Orders, Expire(o)
      PROVE  Progress(orderStatus'[p]) > Progress(orderStatus[p])
  BY <1>2, <1>4 DEF Expire
<1>5. ASSUME NEW o \in Orders, NEW event \in TaskEvents, NEW revision \in Revisions,
             NEW attempt \in Attempts, DeviceEvent(o, event, revision, attempt)
      PROVE  Progress(orderStatus'[p]) > Progress(orderStatus[p])
  <2>1. OrderTarget(event) # "REFUNDED"
    BY TargetsForward
  <2> QED
    BY <1>2, <1>5, <2>1 DEF DeviceEvent
<1>6. ASSUME NEW o \in Orders, NEW outcome \in Outcomes, Adjudicate(o, outcome)
      PROVE  Progress(orderStatus'[p]) > Progress(orderStatus[p])
  <2>1. (IF outcome = "SUCCEEDED" THEN "READY" ELSE outcome) # "REFUNDED"
    BY DEF Outcomes
  <2> QED
    BY <1>2, <1>6, <2>1 DEF Adjudicate
<1>7. ASSUME NEW o \in Orders,
             \/ GatewayPublished(o) \/ PollCommands(o)
             \/ \E revision \in Revisions, attempt \in Attempts :
                   StepEvent(o, revision, attempt)
      PROVE  orderStatus' = orderStatus
  BY <1>7 DEF GatewayPublished, PollCommands, StepEvent
<1> QED
  BY <1>1, <1>3, <1>4, <1>5, <1>6, <1>7, RowWriters

(* An order only moves forward and an ended one never again, for any       *)
(* number of orders and any sequence of late, repeated or reordered device *)
(* events, timeouts and verdicts.                                          *)
THEOREM OrdersOnlyAdvance == Spec => NeverRollsBack
<1>1. TypeOK /\ RowsAgree /\ [Next]_vars =>
         [\A o \in Orders : orderStatus'[o] # orderStatus[o] =>
              Progress(orderStatus'[o]) > Progress(orderStatus[o])]_vars
  BY ForwardStep
<1> QED
  BY <1>1, TypeCorrect, RowsAlwaysAgree, PTL DEF Spec, NeverRollsBack

-----------------------------------------------------------------------------
(* The refund of an order.                                                 *)

(* An order that fails, is cancelled or expires opens its refund in that   *)
(* very transaction, no other transaction opens one, and a lost order      *)
(* stays lost.                                                             *)
LEMMA RefundStep ==
    TypeOK /\ RowsAgree /\ RefundMatchesOutcome /\ [Next]_vars => RefundMatchesOutcome'
<1> SUFFICES ASSUME TypeOK, RowsAgree, RefundMatchesOutcome, [Next]_vars,
                    NEW p \in Orders
             PROVE  refund'[p] <=> paid'[p] /\ orderStatus'[p] \in Lost
  BY DEF RefundMatchesOutcome, Lost
<1> USE DEF moneyVars, commandVars, dispatchVars
<1>0. /\ refund[p] <=> paid[p] /\ orderStatus[p] \in Lost
      /\ RowAgrees(p) /\ job[p] \in JobRows
  BY DEF RefundMatchesOutcome, Lost, RowsAgree, TypeOK
<1>1. ASSUME UNCHANGED <<orderStatus[p], paid[p], refund[p]>>
      PROVE  refund'[p] <=> paid'[p] /\ orderStatus'[p] \in Lost
  BY <1>0, <1>1
<1>2. ASSUME orderStatus[p] \notin Lost, orderStatus'[p] \notin Lost, refund'[p] = refund[p]
      PROVE  refund'[p] <=> paid'[p] /\ orderStatus'[p] \in Lost
  BY <1>0, <1>2
<1>3. ASSUME orderStatus'[p] \in Lost, orderStatus[p] \notin Lost,
             refund' = RefundEnsured(p), paid' = paid
      PROVE  refund'[p] <=> paid'[p] /\ orderStatus'[p] \in Lost
  BY <1>0, <1>3 DEF RefundEnsured, TypeOK
<1>4. ASSUME NEW o \in Orders, Enqueue(o)
      PROVE  refund'[p] <=> paid'[p] /\ orderStatus'[p] \in Lost
  <2>1. CASE p # o
    BY <1>1, <1>4, <2>1 DEF Enqueue, TypeOK
  <2>2. CASE p = o
    BY <1>2, <1>4, <2>2 DEF Enqueue, TypeOK, Lost, None
  <2> QED
    BY <2>1, <2>2
<1>5. ASSUME NEW o \in Orders, Cancel(o)
      PROVE  refund'[p] <=> paid'[p] /\ orderStatus'[p] \in Lost
  <2>1. CASE p # o
    BY <1>1, <1>5, <2>1 DEF Cancel, OrderMoved, RefundEnsured, TypeOK
  <2>2. CASE p = o
    <3>1. orderStatus[p] = "QUEUED" /\ orderStatus'[p] = "CANCELLED"
      BY <1>5, <2>2 DEF Cancel, OrderMoved, OrderTransitionAllowed, OrderTransitions, TypeOK
    <3> QED
      BY <1>3, <1>5, <2>2, <3>1 DEF Cancel, Lost
  <2> QED
    BY <2>1, <2>2
<1>6. ASSUME NEW o \in Orders, DispatchCommit(o)
      PROVE  refund'[p] <=> paid'[p] /\ orderStatus'[p] \in Lost
  <2>1. CASE p # o
    BY <1>1, <1>6, <2>1 DEF DispatchCommit, OrderMoved, TypeOK
  <2>2. CASE p = o
    <3>1. orderStatus[p] = "QUEUED" /\ orderStatus'[p] = "DISPATCHED"
      BY <1>6, <2>2 DEF DispatchCommit, OrderMoved, OrderTransitionAllowed,
         OrderTransitions, TypeOK
    <3> QED
      BY <1>2, <1>6, <3>1 DEF DispatchCommit, Lost
  <2> QED
    BY <2>1, <2>2
<1>7. ASSUME NEW o \in Orders,
             \/ GatewayPublished(o) \/ PollCommands(o)
             \/ \E revision \in Revisions, attempt \in Attempts :
                   StepEvent(o, revision, attempt)
      PROVE  refund'[p] <=> paid'[p] /\ orderStatus'[p] \in Lost
  BY <1>1, <1>7 DEF GatewayPublished, PollCommands, StepEvent
<1>8. ASSUME NEW o \in Orders, Expire(o)
      PROVE  refund'[p] <=> paid'[p] /\ orderStatus'[p] \in Lost
  <2>1. CASE p # o
    BY <1>1, <1>8, <2>1 DEF Expire, OrderMoved, RefundEnsured, TypeOK
  <2>2. CASE p = o
    <3>1. job[p].status = "DISPATCHED" /\ orderStatus[p] = "DISPATCHED"
      BY <1>0, <1>8, <2>2 DEF Expire, RowAgrees, JobRows, JobStatus, ActiveJobs,
         FinalJobs, None
    <3>2. CASE DeliveryEvidence(p)
      <4>1. orderStatus'[p] = "HOLD" /\ refund' = refund
        BY <1>8, <2>2, <3>1, <3>2 DEF Expire, OrderMoved, OrderTransitionAllowed,
           OrderTransitions, TypeOK
      <4> QED
        BY <1>2, <3>1, <4>1 DEF Lost
    <3>3. CASE ~DeliveryEvidence(p)
      <4>1. orderStatus'[p] = "EXPIRED" /\ refund' = RefundEnsured(p) /\ paid' = paid
        BY <1>8, <2>2, <3>1, <3>3 DEF Expire, OrderMoved, OrderTransitionAllowed,
           OrderTransitions, TypeOK
      <4> QED
        BY <1>3, <3>1, <4>1 DEF Lost
    <3> QED
      BY <3>2, <3>3
  <2> QED
    BY <2>1, <2>2
<1>9. ASSUME NEW o \in Orders, NEW event \in TaskEvents, NEW revision \in Revisions,
             NEW attempt \in Attempts, DeviceEvent(o, event, revision, attempt)
      PROVE  refund'[p] <=> paid'[p] /\ orderStatus'[p] \in Lost
  <2>1. CASE p # o
    BY <1>1, <1>9, <2>1 DEF DeviceEvent, OrderMoved, RefundEnsured, TypeOK
  <2>2. CASE p = o
    <3>1. orderStatus'[p] = OrderTarget(event) /\ orderStatus[p] \notin Lost
      BY <1>9, <2>2 DEF DeviceEvent, EventAdmitted, OrderMoved, TypeOK, FinalOrders, Lost
    <3>2. CASE event \in {"failed", "rejected", "cancelled"}
      <4>1. refund' = RefundEnsured(p) /\ paid' = paid
        BY <1>9, <2>2, <3>2 DEF DeviceEvent
      <4> QED
        BY <1>3, <3>1, <3>2, <4>1, TargetsForward
    <3>3. CASE event \notin {"failed", "rejected", "cancelled"}
      <4>1. refund' = refund
        BY <1>9, <3>3 DEF DeviceEvent
      <4> QED
        BY <1>2, <3>1, <3>3, <4>1, TargetsForward
    <3> QED
      BY <3>2, <3>3
  <2> QED
    BY <2>1, <2>2
<1>10. ASSUME NEW o \in Orders, HoldOverdue(o)
       PROVE  refund'[p] <=> paid'[p] /\ orderStatus'[p] \in Lost
  <2>1. CASE p # o
    BY <1>1, <1>10, <2>1 DEF HoldOverdue, OrderMoved, TypeOK
  <2>2. CASE p = o
    <3>1. orderStatus[p] \notin Lost /\ orderStatus'[p] \notin Lost
      BY <1>10, <2>2 DEF HoldOverdue, OrderMoved, TypeOK, FinalOrders, Lost
    <3> QED
      BY <1>2, <1>10, <3>1 DEF HoldOverdue
  <2> QED
    BY <2>1, <2>2
<1>11. ASSUME NEW o \in Orders, NEW outcome \in Outcomes, Adjudicate(o, outcome)
       PROVE  refund'[p] <=> paid'[p] /\ orderStatus'[p] \in Lost
  <2>1. CASE p # o
    BY <1>1, <1>11, <2>1 DEF Adjudicate, OrderMoved, RefundEnsured, TypeOK
  <2>2. CASE p = o
    <3>1. /\ orderStatus[p] = "HOLD"
          /\ orderStatus'[p] = IF outcome = "SUCCEEDED" THEN "READY" ELSE outcome
      BY <1>11, <2>2 DEF Adjudicate, OrderMoved, OrderTransitionAllowed,
         OrderTransitions, TypeOK, Outcomes
    <3>2. CASE outcome = "SUCCEEDED"
      BY <1>2, <1>11, <3>1, <3>2 DEF Adjudicate, Lost
    <3>3. CASE outcome # "SUCCEEDED"
      <4>1. refund' = RefundEnsured(p) /\ paid' = paid
        BY <1>11, <2>2, <3>3 DEF Adjudicate
      <4> QED
        BY <1>3, <3>1, <3>3, <4>1 DEF Outcomes, Lost
    <3> QED
      BY <3>2, <3>3
  <2> QED
    BY <2>1, <2>2
<1>12. CASE UNCHANGED <<orderStatus, moneyVars, job, commandStatus>>
  BY <1>1, <1>12
<1> QED
  BY <1>4, <1>5, <1>6, <1>7, <1>8, <1>9, <1>10, <1>11, <1>12, RowWriters

(* Money goes back for exactly the paid orders that ended without a drink: *)
(* every path that ends an order opens the refund in its own transaction.  *)
THEOREM RefundsMatchOutcomes == Spec => []RefundMatchesOutcome
<1>1. Init => RefundMatchesOutcome
  BY DEF Init, RefundMatchesOutcome, None
<1> QED
  BY <1>1, RefundStep, TypeCorrect, RowsAlwaysAgree, PTL DEF Spec

-----------------------------------------------------------------------------
(* What an operator sees.                                                  *)

(* Every write of a job that exists moves its revision on, and no job is   *)
(* unmade.                                                                 *)
LEMMA JobMovesOn ==
    ASSUME TypeOK, RowsAgree, [Next]_vars, NEW p \in Orders,
           job'[p] # job[p], job[p].status # None
    PROVE  job'[p].status # None /\ job'[p].revision > job[p].revision
<1> USE DEF moneyVars, commandVars, dispatchVars
<1>0. RowAgrees(p) /\ job[p] \in JobRows /\ job[p].revision \in Nat
  BY DEF RowsAgree, TypeOK, JobRows
<1>1. ASSUME NEW o \in Orders, Enqueue(o) PROVE FALSE
  <2>1. p = o /\ orderStatus[p] = None
    BY <1>1 DEF Enqueue, TypeOK
  <2> QED
    BY <1>0, <2>1 DEF RowAgrees, JobRows, JobStatus, ActiveJobs, FinalJobs, None
<1>2. ASSUME NEW o \in Orders, NEW status \in JobStatus,
             job' = [job EXCEPT ![o] = JobMarked(@, status)]
      PROVE  job'[p].status # None /\ job'[p].revision > job[p].revision
  <2>1. job'[p] = JobMarked(job[p], status)
    BY <1>2 DEF TypeOK
  <2> QED
    BY <1>0, <2>1, RowFields DEF JobStatus, ActiveJobs, FinalJobs, None
<1>3. ASSUME NEW o \in Orders, job' = [job EXCEPT ![o] = JobHeld(@)]
      PROVE  job'[p].status # None /\ job'[p].revision > job[p].revision
  <2>1. job'[p] = JobHeld(job[p])
    BY <1>3 DEF TypeOK
  <2> QED
    BY <1>0, <2>1, RowFields DEF None
<1>4. ASSUME NEW o \in Orders, Cancel(o) \/ DispatchCommit(o)
      PROVE  job'[p].status # None /\ job'[p].revision > job[p].revision
  BY <1>2, <1>4, LiteralTypes DEF Cancel, DispatchCommit
<1>5. ASSUME NEW o \in Orders, Expire(o)
      PROVE  job'[p].status # None /\ job'[p].revision > job[p].revision
  BY <1>2, <1>3, <1>5, LiteralTypes DEF Expire
<1>6. ASSUME NEW o \in Orders, NEW event \in TaskEvents, NEW revision \in Revisions,
             NEW attempt \in Attempts, DeviceEvent(o, event, revision, attempt)
      PROVE  job'[p].status # None /\ job'[p].revision > job[p].revision
  <2>1. job'[p] = JobAfter(job[p], event, revision, attempt)
    BY <1>6 DEF DeviceEvent, TypeOK
  <2>2. JobTarget(event) # None
    BY TargetTypes DEF ActiveJobs, FinalJobs, None
  <2> QED
    BY <1>0, <2>1, <2>2, JobAfterFields
<1>7. ASSUME NEW o \in Orders, NEW revision \in Revisions, NEW attempt \in Attempts,
             StepEvent(o, revision, attempt)
      PROVE  job'[p].status # None /\ job'[p].revision > job[p].revision
  <2>1. job'[p] = JobMoved(job[p], "EXECUTING", revision, attempt)
    BY <1>7 DEF StepEvent, TypeOK
  <2> QED
    BY <1>0, <2>1, RowFields DEF None
<1>8. ASSUME NEW o \in Orders, HoldOverdue(o)
      PROVE  job'[p].status # None /\ job'[p].revision > job[p].revision
  BY <1>3, <1>8 DEF HoldOverdue
<1>9. ASSUME NEW o \in Orders, NEW outcome \in Outcomes, Adjudicate(o, outcome)
      PROVE  job'[p].status # None /\ job'[p].revision > job[p].revision
  <2>1. JobMoved(job[p], outcome, NoRevision, NoAttempt) \in JobRows
    BY <1>0, MovedType, LiteralTypes DEF Outcomes
  <2>2. job'[p] = JobCleared(JobMoved(job[p], outcome, NoRevision, NoAttempt))
    BY <1>9 DEF Adjudicate, TypeOK
  <2> QED
    BY <1>0, <2>1, <2>2, RowFields DEF Outcomes, None
<1>10. ASSUME NEW o \in Orders, GatewayPublished(o) \/ PollCommands(o) PROVE FALSE
  BY <1>10 DEF GatewayPublished, PollCommands
<1> QED
  BY <1>1, <1>4, <1>5, <1>6, <1>7, <1>8, <1>9, <1>10, RowWriters

(* A view is taken of the row as it is, given up with the verdict, and     *)
(* otherwise kept.                                                         *)
LEMMA ViewWriters ==
    ASSUME [Next]_vars
    PROVE  \/ seen' = seen
           \/ seen' = NoView
           \/ \E o \in Orders : /\ job[o].status \in ActiveJobs
                               /\ seen' = [order |-> o, row |-> job[o]]
                               /\ job' = job
<1> USE DEF moneyVars, commandVars, dispatchVars
<1>1. CASE UNCHANGED vars
  BY <1>1 DEF vars
<1>2. CASE \E o \in Orders : Enqueue(o) \/ Cancel(o)
  BY <1>2 DEF Enqueue, Cancel
<1>3. CASE DispatcherNext
  BY <1>3 DEF DispatcherNext, DispatchSelect, DispatchCommit, DispatchAbandon,
              DispatchNothing, RepairMissing, GateChange
<1>4. CASE DeliveryNext
  BY <1>4 DEF DeliveryNext, GatewayClaim, GatewayPublish, GatewayPublished,
              GatewayRetry, GatewayCrash, PollCommands, DeadlinePasses, Expire
<1>5. CASE MachineNext
  BY <1>5 DEF MachineNext, DeviceEvent, StepEvent
<1>6. CASE ReviewNext
  BY <1>6 DEF ReviewNext, HoldOverdue, OperatorLooks, Adjudicate
<1> QED
  BY <1>1, <1>2, <1>3, <1>4, <1>5, <1>6 DEF Next

(* A job that has moved under the view is ahead of it for good.            *)
LEMMA ViewStep ==
    TypeOK /\ RowsAgree /\ ViewNotAhead /\ ViewIsCurrent /\ [Next]_vars
        => ViewNotAhead' /\ ViewIsCurrent'
<1> SUFFICES ASSUME TypeOK, RowsAgree, ViewNotAhead, ViewIsCurrent, [Next]_vars,
                    NEW p \in Orders, seen'.order = p
             PROVE  /\ job'[p].status # None
                    /\ seen'.row.revision <= job'[p].revision
                    /\ seen'.row.revision = job'[p].revision => seen'.row = job'[p]
  BY DEF ViewNotAhead, ViewIsCurrent
<1>1. job[p].revision \in Nat
  BY DEF TypeOK, JobRows
<1>2. CASE seen' = seen
  <2>1. /\ job[p].status # None
        /\ seen.row.revision \in Nat
        /\ seen.row.revision <= job[p].revision
        /\ seen.row.revision = job[p].revision => seen.row = job[p]
    BY <1>2 DEF ViewNotAhead, ViewIsCurrent, TypeOK, JobRows
  <2>2. CASE job'[p] = job[p]
    BY <1>2, <2>1, <2>2
  <2>3. CASE job'[p] # job[p]
    <3>1. job'[p].status # None /\ job'[p].revision > job[p].revision
      BY <2>1, <2>3, JobMovesOn
    <3>2. job'[p].revision \in Nat
      BY TypeStep DEF TypeOK, JobRows
    <3> QED
      BY <1>1, <1>2, <2>1, <3>1, <3>2
  <2> QED
    BY <2>2, <2>3
<1>3. CASE seen' = NoView
  BY <1>3, BoundsAssumption DEF NoView, NoOrder, Orders
<1>4. ASSUME NEW o \in Orders, job[o].status \in ActiveJobs,
             seen' = [order |-> o, row |-> job[o]], job' = job
      PROVE  /\ job'[p].status # None
             /\ seen'.row.revision <= job'[p].revision
             /\ seen'.row.revision = job'[p].revision => seen'.row = job'[p]
  BY <1>1, <1>4 DEF ActiveJobs, None
<1> QED
  BY <1>2, <1>3, <1>4, ViewWriters

(* The revision an operator sends identifies the row that was shown: a     *)
(* verdict that passes the revision test decides on what is still there.   *)
THEOREM ViewAlwaysCurrent == Spec => []ViewIsCurrent
<1>1. Init => ViewNotAhead /\ ViewIsCurrent
  BY BoundsAssumption DEF Init, ViewNotAhead, ViewIsCurrent, NoView, NoOrder, Orders
<1> QED
  BY <1>1, ViewStep, TypeCorrect, RowsAlwaysAgree, PTL DEF Spec

-----------------------------------------------------------------------------
(* The refinement of OrderLifecycle.                                       *)

InHand == {"DISPATCHED", "ACCEPTED", "MAKING"}

NothingInHand ==
    \A p \in Orders : PhaseOf(orderStatus[p]) \notin {"inhand", "review"}

(* The phase of every status an order can have.                            *)
LEMMA Phases ==
    /\ PhaseOf(None) = "none" /\ PhaseOf("QUEUED") = "waiting"
    /\ \A status \in InHand : PhaseOf(status) = "inhand"
    /\ PhaseOf("HOLD") = "review" /\ PhaseOf("READY") = "served"
    /\ \A status \in Lost : PhaseOf(status) = "void"
  BY DEF PhaseOf, None, InHand, Lost

(* An order is in hand or in review exactly while its job is active.       *)
LEMMA InHandIsActive ==
    ASSUME TypeOK, RowsAgree, NEW o \in Orders
    PROVE  /\ job[o].status \in ActiveJobs <=> orderStatus[o] \in InHand \cup {"HOLD"}
           /\ PhaseOf(orderStatus[o]) \in {"inhand", "review"} => job[o].status \in ActiveJobs
<1>1. RowAgrees(o) /\ job[o] \in JobRows
  BY DEF RowsAgree, TypeOK
<1>2. job[o].status \in ActiveJobs <=> orderStatus[o] \in InHand \cup {"HOLD"}
  BY <1>1 DEF RowAgrees, JobRows, JobStatus, ActiveJobs, FinalJobs, InHand, None
<1>3. orderStatus[o] \in {None, "READY", "QUEUED", "HOLD"} \cup InHand \cup Lost
  BY StatusReached DEF Open, InHand
<1> QED
  BY <1>2, <1>3, Phases

(* What a step does to one order decides what the lifecycle sees of it:    *)
(* the other orders keep their phase and their charge.                     *)
LEMMA OneOrderSeen ==
    ASSUME TypeOK, TypeOK', RefundMatchesOutcome, RefundMatchesOutcome', NEW o \in Orders,
           \A p \in Orders \ {o} : orderStatus'[p] = orderStatus[p] /\ paid'[p] = paid[p]
    PROVE  /\ Lifecycle!lifecycleVars' =
                <<[[p \in Orders |-> PhaseOf(orderStatus[p])] EXCEPT
                        ![o] = PhaseOf(orderStatus'[o])],
                  [[p \in Orders |-> ChargeOf(p)] EXCEPT ![o] = ChargeOf(o)']>>
<1>1. \A p \in Orders \ {o} : refund'[p] = refund[p]
  BY DEF RefundMatchesOutcome, TypeOK
<1>2. \A p \in Orders \ {o} : PhaseOf(orderStatus'[p]) = PhaseOf(orderStatus[p])
                              /\ ChargeOf(p)' = ChargeOf(p)
  BY <1>1 DEF ChargeOf
<1>3. [p \in Orders |-> PhaseOf(orderStatus[p])]' =
         [[p \in Orders |-> PhaseOf(orderStatus[p])] EXCEPT ![o] = PhaseOf(orderStatus'[o])]
  BY <1>2
<1>4. [p \in Orders |-> ChargeOf(p)]' =
         [[p \in Orders |-> ChargeOf(p)] EXCEPT ![o] = ChargeOf(o)']
  BY <1>2
<1> QED
  BY <1>3, <1>4 DEF Lifecycle!lifecycleVars

(* The charge of an order, told by its outcome.                            *)
LEMMA ChargeTold ==
    ASSUME RefundMatchesOutcome, NEW o \in Orders
    PROVE  ChargeOf(o) = IF ~paid[o] THEN "none"
                         ELSE IF orderStatus[o] \in Lost THEN "returned" ELSE "kept"
  BY DEF ChargeOf, RefundMatchesOutcome, Lost

(* A step that moves one order, and collects nothing, is a step of the     *)
(* lifecycle if the move is one.                                           *)
LEMMA MoveImplements ==
    ASSUME TypeOK, TypeOK', RefundMatchesOutcome, RefundMatchesOutcome', NEW o \in Orders,
           \A p \in Orders \ {o} : orderStatus'[p] = orderStatus[p], paid' = paid,
           \/ orderStatus'[o] = orderStatus[o]
           \/ orderStatus[o] \in InHand /\ orderStatus'[o] \in InHand
           \/ orderStatus[o] = "QUEUED" /\ orderStatus'[o] \in InHand /\ NothingInHand
           \/ orderStatus[o] \in InHand /\ orderStatus'[o] = "HOLD"
           \/ orderStatus[o] \in InHand \cup {"HOLD"} /\ orderStatus'[o] = "READY"
           \/ orderStatus[o] \in InHand \cup {"HOLD", "QUEUED"} /\ orderStatus'[o] \in Lost
    PROVE  [Lifecycle!Next]_(Lifecycle!lifecycleVars)
<1> DEFINE phase == [p \in Orders |-> PhaseOf(orderStatus[p])]
           charge == [p \in Orders |-> ChargeOf(p)]
           now == PhaseOf(orderStatus'[o])
<1>1. Lifecycle!lifecycleVars' =
         <<[phase EXCEPT ![o] = now], [charge EXCEPT ![o] = ChargeOf(o)']>>
  BY OneOrderSeen
<1>2. phase' = [phase EXCEPT ![o] = now] /\ charge' = [charge EXCEPT ![o] = ChargeOf(o)']
  BY <1>1 DEF Lifecycle!lifecycleVars
<1>3. phase[o] = PhaseOf(orderStatus[o]) /\ charge[o] = ChargeOf(o)
  OBVIOUS
<1>4. /\ ChargeOf(o) = IF ~paid[o] THEN "none"
                       ELSE IF orderStatus[o] \in Lost THEN "returned" ELSE "kept"
      /\ ChargeOf(o)' = IF ~paid[o] THEN "none"
                        ELSE IF orderStatus'[o] \in Lost THEN "returned" ELSE "kept"
  <2>1. ChargeOf(o)' = IF ~paid'[o] THEN "none"
                       ELSE IF orderStatus'[o] \in Lost THEN "returned" ELSE "kept"
    BY DEF ChargeOf, RefundMatchesOutcome, Lost
  <2> QED
    BY <2>1, ChargeTold
<1>5. /\ phase = [phase EXCEPT ![o] = phase[o]]
      /\ charge = [charge EXCEPT ![o] = charge[o]]
  OBVIOUS
<1>0. ASSUME orderStatus[o] \notin Lost, orderStatus'[o] \notin Lost
      PROVE  charge' = charge
  BY <1>0, <1>2, <1>3, <1>4, <1>5
<1> HIDE DEF phase, charge, now
<1>6. CASE PhaseOf(orderStatus'[o]) = PhaseOf(orderStatus[o]) /\ ChargeOf(o)' = ChargeOf(o)
  BY <1>2, <1>3, <1>5, <1>6 DEF Lifecycle!lifecycleVars, phase, charge, now
<1>7. CASE orderStatus'[o] = orderStatus[o]
  BY <1>4, <1>6, <1>7
<1>12. CASE orderStatus[o] \in InHand /\ orderStatus'[o] \in InHand
  BY <1>4, <1>6, <1>12, Phases DEF InHand, Lost
<1>8. CASE orderStatus[o] = "QUEUED" /\ orderStatus'[o] \in InHand /\ NothingInHand
  <2>1. phase[o] = "waiting" /\ phase' = [phase EXCEPT ![o] = "inhand"] /\ charge' = charge
    <3>1. orderStatus[o] \notin Lost /\ orderStatus'[o] \notin Lost
      BY <1>8 DEF InHand, Lost
    <3> QED
      BY <1>0, <1>2, <1>3, <1>8, <3>1, Phases DEF now
  <2>2. \A p \in Orders : phase[p] \notin {"inhand", "review"}
    BY <1>8 DEF NothingInHand, phase
  <2>3. Lifecycle!Begin(o)
    BY <2>1, <2>2 DEF Lifecycle!Begin, phase, charge
  <2> QED
    BY <2>3 DEF Lifecycle!Next
<1>9. CASE orderStatus[o] \in InHand /\ orderStatus'[o] = "HOLD"
  <2>1. phase[o] = "inhand" /\ phase' = [phase EXCEPT ![o] = "review"] /\ charge' = charge
    <3>1. orderStatus[o] \notin Lost /\ orderStatus'[o] \notin Lost
      BY <1>9 DEF InHand, Lost
    <3> QED
      BY <1>0, <1>2, <1>3, <1>9, <3>1, Phases DEF now
  <2>2. Lifecycle!Doubt(o)
    BY <2>1 DEF Lifecycle!Doubt, phase, charge
  <2> QED
    BY <2>2 DEF Lifecycle!Next
<1>10. CASE orderStatus[o] \in InHand \cup {"HOLD"} /\ orderStatus'[o] = "READY"
  <2>1. /\ phase[o] \in {"inhand", "review"}
        /\ phase' = [phase EXCEPT ![o] = "served"] /\ charge' = charge
    <3>1. orderStatus[o] \notin Lost /\ orderStatus'[o] \notin Lost
      BY <1>10 DEF InHand, Lost
    <3> QED
      BY <1>0, <1>2, <1>3, <1>10, <3>1, Phases DEF now
  <2>2. Lifecycle!Serve(o)
    BY <2>1 DEF Lifecycle!Serve, phase, charge
  <2> QED
    BY <2>2 DEF Lifecycle!Next
<1>11. CASE orderStatus[o] \in InHand \cup {"HOLD", "QUEUED"} /\ orderStatus'[o] \in Lost
  <2>1. phase[o] \in {"waiting", "inhand", "review"} /\ phase' = [phase EXCEPT ![o] = "void"]
    BY <1>2, <1>3, <1>11, Phases DEF now
  <2>2. ChargeOf(o)' = IF charge[o] = "kept" THEN "returned" ELSE charge[o]
    BY <1>3, <1>4, <1>11 DEF InHand, Lost
  <2>3. charge' = [charge EXCEPT ![o] = IF charge[o] = "kept" THEN "returned" ELSE charge[o]]
    BY <1>2, <2>2
  <2>4. Lifecycle!Void(o)
    BY <2>1, <2>3 DEF Lifecycle!Void, phase, charge
  <2> QED
    BY <2>4 DEF Lifecycle!Next
<1> QED
  BY <1>7, <1>8, <1>9, <1>10, <1>11, <1>12

(* What the lifecycle needs of the rows at every step.                     *)
RowInv ==
    /\ TypeOK
    /\ RowsAgree
    /\ PickIsFree
    /\ OneActiveJob
    /\ RefundMatchesOutcome

(* An order whose job is active goes on in the machine's hands, into       *)
(* review, or to its end.                                                  *)
LEMMA ActiveMove ==
    ASSUME TypeOK, RowsAgree, TypeOK', RowsAgree', [Next]_vars, NEW o \in Orders,
           orderStatus[o] \in InHand \cup {"HOLD"}
    PROVE  \/ orderStatus'[o] = orderStatus[o]
           \/ orderStatus[o] \in InHand /\ orderStatus'[o] \in InHand \cup {"HOLD"}
           \/ orderStatus'[o] \in {"READY"} \cup Lost
<1> SUFFICES ASSUME orderStatus'[o] # orderStatus[o]
             PROVE  \/ /\ orderStatus[o] \in InHand
                       /\ orderStatus'[o] \in InHand \cup {"HOLD"}
                    \/ orderStatus'[o] \in {"READY"} \cup Lost
  OBVIOUS
<1>1. Progress(orderStatus'[o]) > Progress(orderStatus[o])
  BY ForwardStep
<1>2. Progress(orderStatus[o]) >= 2 /\ \A status : Progress(status) \in 0..6
  BY DEF Progress, InHand, None
<1>3. orderStatus[o] = "HOLD" => Progress(orderStatus[o]) = 5
  BY DEF Progress, None
<1>4. (RowAgrees(o) /\ job[o] \in JobRows)'
  BY DEF RowsAgree, TypeOK
<1>5. orderStatus'[o] \in {None, "READY"} \cup Open \cup Lost
  BY <1>4 DEF RowAgrees, JobRows, JobStatus, ActiveJobs, FinalJobs, Open, Lost
<1>6. /\ orderStatus'[o] = None => Progress(orderStatus'[o]) = 0
      /\ orderStatus'[o] = "QUEUED" => Progress(orderStatus'[o]) = 1
      /\ orderStatus'[o] \in InHand \cup {"HOLD"} => Progress(orderStatus'[o]) <= 5
  BY DEF Progress, InHand, None
<1>7. orderStatus'[o] \notin {None, "QUEUED"}
  BY <1>1, <1>2, <1>6
<1>8. orderStatus[o] = "HOLD" => orderStatus'[o] \notin InHand \cup {"HOLD"}
  BY <1>1, <1>2, <1>3, <1>6
<1> QED
  BY <1>5, <1>7, <1>8 DEF Open, InHand

(* Expiry, the machine, the watchdog and the operator write only an order  *)
(* whose job is active.                                                    *)
LEMMA ActiveWriters ==
    ASSUME TypeOK, RowsAgree, NEW o \in Orders,
           \/ Expire(o)
           \/ \E event \in TaskEvents, revision \in Revisions, attempt \in Attempts :
                 DeviceEvent(o, event, revision, attempt)
           \/ HoldOverdue(o)
           \/ \E outcome \in Outcomes : Adjudicate(o, outcome)
    PROVE  /\ paid' = paid
           /\ \A p \in Orders \ {o} : orderStatus'[p] = orderStatus[p]
           /\ orderStatus[o] \in InHand \cup {"HOLD"}
<1> USE DEF moneyVars, commandVars, dispatchVars
<1>0. RowAgrees(o) /\ job[o] \in JobRows
  BY DEF RowsAgree, TypeOK
<1>1. ASSUME NEW target, orderStatus' = OrderMoved(o, target)
      PROVE  \A p \in Orders \ {o} : orderStatus'[p] = orderStatus[p]
  BY <1>1 DEF OrderMoved, TypeOK
<1>2. ASSUME job[o].status \in ActiveJobs
      PROVE  orderStatus[o] \in InHand \cup {"HOLD"}
  BY <1>2, InHandIsActive
<1>3. CASE Expire(o)
  <2>1. job[o].status \in ActiveJobs
    BY <1>0, <1>3 DEF Expire, RowAgrees, JobRows, JobStatus, ActiveJobs, FinalJobs, None
  <2> QED
    BY <1>1, <1>2, <1>3, <2>1 DEF Expire
<1>4. ASSUME NEW event \in TaskEvents, NEW revision \in Revisions, NEW attempt \in Attempts,
             DeviceEvent(o, event, revision, attempt)
      PROVE  /\ paid' = paid
             /\ \A p \in Orders \ {o} : orderStatus'[p] = orderStatus[p]
             /\ orderStatus[o] \in InHand \cup {"HOLD"}
  <2>1. job[o].status \in ActiveJobs
    BY <1>0, <1>4 DEF DeviceEvent, EventAdmitted, JobEventApplies, LegalSources,
       JobTarget, EventTargets, TaskEvents, JobRows, JobStatus, ActiveJobs, None
  <2> QED
    BY <1>1, <1>2, <1>4, <2>1 DEF DeviceEvent
<1>5. CASE HoldOverdue(o)
  <2>1. job[o].status \in ActiveJobs
    BY <1>5 DEF HoldOverdue, WatchdogDue, ActiveJobs
  <2> QED
    BY <1>1, <1>2, <1>5, <2>1 DEF HoldOverdue
<1>6. ASSUME NEW outcome \in Outcomes, Adjudicate(o, outcome)
      PROVE  /\ paid' = paid
             /\ \A p \in Orders \ {o} : orderStatus'[p] = orderStatus[p]
             /\ orderStatus[o] \in InHand \cup {"HOLD"}
  BY <1>1, <1>6 DEF Adjudicate
<1> QED
  BY <1>3, <1>4, <1>5, <1>6

(* Each transaction is a step of the lifecycle or invisible to it.         *)
LEMMA LifecycleStep ==
    RowInv /\ RowInv' /\ [Next]_vars => [Lifecycle!Next]_(Lifecycle!lifecycleVars)
<1> SUFFICES ASSUME RowInv, RowInv', [Next]_vars
             PROVE  [Lifecycle!Next]_(Lifecycle!lifecycleVars)
  OBVIOUS
<1> USE DEF RowInv
<1>1. ASSUME UNCHANGED <<orderStatus, moneyVars>>
      PROVE  UNCHANGED Lifecycle!lifecycleVars
  BY <1>1 DEF Lifecycle!lifecycleVars, ChargeOf, moneyVars
<1>2. ASSUME NEW o \in Orders, Enqueue(o) PROVE Lifecycle!Next
  <2>1. /\ \A p \in Orders \ {o} : orderStatus'[p] = orderStatus[p] /\ paid'[p] = paid[p]
        /\ orderStatus[o] = None /\ orderStatus'[o] = "QUEUED"
    BY <1>2 DEF Enqueue, TypeOK
  <2>2. ChargeOf(o)' \in {"none", "kept"}
    BY <2>1 DEF ChargeOf, RefundMatchesOutcome
  <2> DEFINE phase == [p \in Orders |-> PhaseOf(orderStatus[p])]
             charge == [p \in Orders |-> ChargeOf(p)]
  <2>3. /\ phase' = [phase EXCEPT ![o] = "waiting"]
        /\ charge' = [charge EXCEPT ![o] = ChargeOf(o)']
    <3>1. Lifecycle!lifecycleVars' = <<[phase EXCEPT ![o] = PhaseOf(orderStatus'[o])],
                                       [charge EXCEPT ![o] = ChargeOf(o)']>>
      BY <2>1, OneOrderSeen
    <3> QED
      BY <2>1, <3>1, Phases DEF Lifecycle!lifecycleVars
  <2>4. phase[o] = "none"
    BY <2>1, Phases
  <2>5. Lifecycle!Submit(o)
    BY <2>2, <2>3, <2>4 DEF Lifecycle!Submit
  <2> QED
    BY <2>5 DEF Lifecycle!Next
<1>3. ASSUME NEW o \in Orders, Cancel(o)
      PROVE  [Lifecycle!Next]_(Lifecycle!lifecycleVars)
  <2>1. /\ \A p \in Orders \ {o} : orderStatus'[p] = orderStatus[p]
        /\ paid' = paid
        /\ orderStatus[o] = "QUEUED" /\ orderStatus'[o] \in {"QUEUED", "CANCELLED"}
    BY <1>3 DEF Cancel, OrderMoved, TypeOK, dispatchVars
  <2> QED
    BY <2>1, MoveImplements DEF Lost
<1>4. ASSUME NEW o \in Orders, DispatchCommit(o)
      PROVE  [Lifecycle!Next]_(Lifecycle!lifecycleVars)
  <2>1. /\ \A p \in Orders \ {o} : orderStatus'[p] = orderStatus[p]
        /\ paid' = paid
        /\ orderStatus[o] = "QUEUED" /\ orderStatus'[o] \in {"QUEUED", "DISPATCHED"}
    BY <1>4 DEF DispatchCommit, OrderMoved, TypeOK, moneyVars
  <2>2. NothingInHand
    <3>1. pick # NoOrder
      BY <1>4, BoundsAssumption DEF DispatchCommit, Orders, NoOrder
    <3> QED
      BY <3>1, InHandIsActive DEF NothingInHand, PickIsFree, ActiveJobExists
  <2> QED
    BY <2>1, <2>2, MoveImplements DEF InHand
<1>5. ASSUME NEW o \in Orders,
             \/ Expire(o)
             \/ \E event \in TaskEvents, revision \in Revisions, attempt \in Attempts :
                   DeviceEvent(o, event, revision, attempt)
             \/ HoldOverdue(o)
             \/ \E outcome \in Outcomes : Adjudicate(o, outcome)
      PROVE  [Lifecycle!Next]_(Lifecycle!lifecycleVars)
  <2>1. /\ \A p \in Orders \ {o} : orderStatus'[p] = orderStatus[p]
        /\ paid' = paid
        /\ orderStatus[o] \in InHand \cup {"HOLD"}
    BY <1>5, ActiveWriters
  <2>2. \/ orderStatus'[o] = orderStatus[o]
        \/ orderStatus[o] \in InHand /\ orderStatus'[o] \in InHand \cup {"HOLD"}
        \/ orderStatus'[o] \in {"READY"} \cup Lost
    BY <2>1, ActiveMove
  <2> QED
    BY <2>1, <2>2, MoveImplements
<1>6. ASSUME NEW o \in Orders,
             \/ GatewayPublished(o) \/ PollCommands(o)
             \/ \E revision \in Revisions, attempt \in Attempts :
                   StepEvent(o, revision, attempt)
      PROVE  UNCHANGED <<orderStatus, moneyVars>>
  BY <1>6 DEF GatewayPublished, PollCommands, StepEvent, moneyVars
<1> QED
  BY <1>1, <1>2, <1>3, <1>4, <1>5, <1>6, RowWriters

(* For any number of orders, every transaction of the server - dispatch,   *)
(* delivery report, device event, timeout, cancellation or verdict - is a  *)
(* step of the order lifecycle or invisible to it: one order in hand or in *)
(* review at a time, and the money returned in the step that voids it.     *)
THEOREM ProductionImplementsLifecycle == Spec => ImplementsLifecycle
<1>1. Init => RowInv /\ Lifecycle!Init
  <2>1. Init => PickIsFree /\ OneActiveJob /\ RefundMatchesOutcome
    BY DEF Init, PickIsFree, OneActiveJob, RefundMatchesOutcome, NoJob, ActiveJobs, None
  <2>2. Init => Lifecycle!Init
    BY Phases DEF Init, Lifecycle!Init, ChargeOf
  <2> QED
    BY <2>1, <2>2, TypeInit, RowsInit DEF RowInv
<1>2. RowInv /\ [Next]_vars => RowInv'
  BY TypeStep, RowsStep, OneActiveStep, RefundStep DEF RowInv
<1> QED
  BY <1>1, <1>2, LifecycleStep, PTL DEF Spec, ImplementsLifecycle, Lifecycle!Spec
=============================================================================
