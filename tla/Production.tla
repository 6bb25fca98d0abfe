---------------------------- MODULE Production ----------------------------
(***************************************************************************)
(* One coffee machine (terminal) and the rows PostgreSQL keeps for it: the  *)
(* sales orders, one production job per order, the MAKE_DRINK command of a  *)
(* dispatched job, the command's publish outbox, and the terminal's         *)
(* durable dispatch request.  Terminals share no row, so one is enough.     *)
(*                                                                         *)
(* Every action is one database transaction of the server, taken under the *)
(* row locks of the code (order, then job, then command, then outbox), or   *)
(* one step of the world outside: the MQTT gateway, the broker, the         *)
(* machine, the clock, the operator.  Device events arrive in any order,    *)
(* any number of times, with any revision: the network is not modelled, it  *)
(* is quantified over.                                                     *)
(*                                                                         *)
(* Left to other modules: how money moves (here an order is paid or free,   *)
(* and a refund intent exists or not), the rows behind `gate' (heartbeats,  *)
(* lifecycle, pickup slot, reported state) and the lease of the dispatch    *)
(* request.                                                                *)
(***************************************************************************)
EXTENDS ProductionState

CONSTANTS
    NumOrders,        \* orders placed at this terminal, numbered as created
    MaxDeviceRevision,\* bound on the taskRevision a device event carries
    MaxAttempt,       \* bound on the execution attempt an event carries
    MaxJobRevision,   \* bound: no device event is taken at this job revision
    MachineEvents,    \* the task events machines send in this instance
    ReviewedOrders    \* the orders an operator opens in this instance

ASSUME BoundsAssumption ==
    /\ NumOrders \in Nat
    /\ MaxDeviceRevision \in Nat
    /\ MaxAttempt \in Nat
    /\ MaxJobRevision \in Nat
    /\ MachineEvents \subseteq TaskEvents
    /\ ReviewedOrders \subseteq 1..NumOrders

Orders == 1..NumOrders
NoOrder == 0
NoAttempt == 0
Revisions == {NoRevision} \cup 0..MaxDeviceRevision
Attempts == {NoAttempt} \cup 1..MaxAttempt

VARIABLES
    orderStatus,   \* sales_order.status, None before the order is queued
    paid,          \* the order has a collected, refundable payment
    refund,        \* an automatic refund intent exists for the order
    job,           \* the production_job row
    commandStatus, \* terminal_command.status, None before dispatch
    handed,        \* terminal_command.delivered_at or published_at is set
    due,           \* the command's expires_at has passed
    outbox,        \* command_outbox.status
    tried,         \* command_outbox.attempt_count > 0
    gateway,       \* what the gateway process is doing with the outbox item
    broker,        \* the command is at the broker or the machine
    wake,          \* a terminal_dispatch_request row exists
    gate,          \* active, online, pickup slot empty and machine not busy
    pick,          \* the job an open dispatch transaction has selected
    seen           \* the job row an operator is looking at

moneyVars == <<paid, refund>>
commandVars == <<commandStatus, handed, outbox, tried>>
dispatchVars == <<wake, gate, pick>>
vars == <<orderStatus, moneyVars, job, commandVars, due, gateway, broker,
          dispatchVars, seen>>

-----------------------------------------------------------------------------
(* Rows                                                                    *)

NoJob == [status |-> None, revision |-> 0, deviceRevision |-> 0,
          attempt |-> 1, review |-> FALSE]

JobRows == [status: JobStatus \cup {None}, revision: Nat,
            deviceRevision: Nat, attempt: Nat, review: BOOLEAN]

NoView == [order |-> NoOrder, row |-> NoJob]

OutboxStatus == {"PENDING", "PUBLISHING", "RETRY", "PUBLISHED", "EXPIRED"}

Greatest(a, b) == IF a > b THEN a ELSE b

(* Mutant: the event's revision is written as it comes, also when null.    *)
JobMovedRaw(row, status, revision, attempt) ==
    [row EXCEPT !.status = status, !.revision = @ + 1, !.deviceRevision = revision,
                !.attempt = Greatest(@, attempt)]

(* update_job_terminal: write a status with the event's revision/attempt.  *)
JobMoved(row, status, revision, attempt) ==
    [row EXCEPT !.status = status,
                !.revision = @ + 1,
                !.deviceRevision = Greatest(@, revision),
                !.attempt = Greatest(@, attempt)]

(* update_job_hold                                                         *)
JobHeld(row) ==
    [row EXCEPT !.status = "HOLD", !.revision = @ + 1, !.review = TRUE]

(* clear_job_hold; the revision moved with update_job_terminal.            *)
JobCleared(row) == [row EXCEPT !.review = FALSE]

(* update_job_expired, cancel_job and link_command                         *)
JobMarked(row, status) == [row EXCEPT !.status = status, !.revision = @ + 1]

(* transition_order: silently keeps an order that may not move.            *)
OrderMoved(o, target) ==
    IF OrderTransitionAllowed(orderStatus[o], target)
      THEN [orderStatus EXCEPT ![o] = target]
      ELSE orderStatus

(* ensure_automatic_refund_intent for the collected payment, if there is   *)
(* one.                                                                    *)
RefundEnsured(o) == [refund EXCEPT ![o] = @ \/ paid[o]]

QueuedOrders == {o \in Orders : orderStatus[o] = "QUEUED" /\ job[o].status = "QUEUED"}

(* Mutant: a job under review no longer counts as active.                  *)
ActiveJobRunning ==
    \E o \in Orders : job[o].status \in ActiveJobs \ {"HOLD"}

ActiveJobExists == \E o \in Orders : job[o].status \in ActiveJobs

-----------------------------------------------------------------------------
Init ==
    /\ orderStatus = [o \in Orders |-> None]
    /\ paid = [o \in Orders |-> FALSE]
    /\ refund = [o \in Orders |-> FALSE]
    /\ job = [o \in Orders |-> NoJob]
    /\ commandStatus = [o \in Orders |-> None]
    /\ handed = [o \in Orders |-> FALSE]
    /\ due = [o \in Orders |-> FALSE]
    /\ outbox = [o \in Orders |-> None]
    /\ tried = [o \in Orders |-> FALSE]
    /\ gateway = [o \in Orders |-> "idle"]
    /\ broker = [o \in Orders |-> FALSE]
    /\ wake = FALSE
    /\ gate \in BOOLEAN
    /\ pick = NoOrder
    /\ seen = NoView

-----------------------------------------------------------------------------
(* Customers                                                               *)

(* A free order is queued when it is created; a paid one when the worker   *)
(* handles its payment.paid event.  Both insert the job and ask for a      *)
(* dispatch in the same transaction.                                       *)
Enqueue(o) ==
    /\ orderStatus[o] = None
    /\ \A p \in Orders : p < o => orderStatus[p] # None
    /\ orderStatus' = [orderStatus EXCEPT ![o] = "QUEUED"]
    /\ \E collected \in BOOLEAN : paid' = [paid EXCEPT ![o] = collected]
    /\ job' = [job EXCEPT ![o].status = "QUEUED"]
    /\ wake' = TRUE
    /\ UNCHANGED <<refund, commandVars, due, gateway, broker, gate, pick, seen>>

(* Mutant: a cancelled order keeps its payment.                            *)
CancelUnpaid(o) ==
    /\ orderStatus[o] = "QUEUED"
    /\ orderStatus' = OrderMoved(o, "CANCELLED")
    /\ job' = [job EXCEPT ![o] = JobMarked(@, "CANCELLED")]
    /\ UNCHANGED <<moneyVars, commandVars, due, gateway, broker, dispatchVars, seen>>

(* The customer may cancel only what is not dispatched yet.                *)
Cancel(o) ==
    /\ orderStatus[o] = "QUEUED"
    /\ refund' = RefundEnsured(o)
    /\ orderStatus' = OrderMoved(o, "CANCELLED")
    /\ job' = [job EXCEPT ![o] = JobMarked(@, "CANCELLED")]
    /\ UNCHANGED <<paid, commandVars, due, gateway, broker, dispatchVars, seen>>

-----------------------------------------------------------------------------
(* The dispatcher.  Its transaction locks the terminal row and selects the *)
(* oldest queued job, then locks that order and looks again before it      *)
(* writes: a cancellation may come in between.                             *)

DispatchSelect(o) ==
    /\ wake
    /\ pick = NoOrder
    /\ gate
    /\ ~ActiveJobExists
    /\ o \in QueuedOrders
    /\ \A p \in QueuedOrders : o <= p
    /\ pick' = o
    /\ UNCHANGED <<orderStatus, moneyVars, job, commandVars, due, gateway,
                   broker, wake, gate, seen>>

(* The request is deleted with the pass that served it, unless another was *)
(* raised meanwhile.                                                       *)
DispatchCommit(o) ==
    /\ pick = o
    /\ orderStatus[o] = "QUEUED"
    /\ job[o].status = "QUEUED"
    /\ commandStatus' = [commandStatus EXCEPT ![o] = "CREATED"]
    /\ outbox' = [outbox EXCEPT ![o] = "PENDING"]
    /\ job' = [job EXCEPT ![o] = JobMarked(@, "DISPATCHED")]
    /\ orderStatus' = OrderMoved(o, "DISPATCHED")
    /\ pick' = NoOrder
    /\ wake' \in {FALSE, wake}
    /\ UNCHANGED <<moneyVars, handed, due, tried, gateway, broker, gate, seen>>

(* QUEUE_CHANGED, a failed transaction, or a crashed worker: the request   *)
(* stays while anything is queued.                                         *)
DispatchAbandon ==
    /\ pick # NoOrder
    /\ pick' = NoOrder
    /\ wake' \in {wake, wake /\ QueuedOrders # {}}
    /\ UNCHANGED <<orderStatus, moneyVars, job, commandVars, due, gateway,
                   broker, gate, seen>>

(* NO_ORDERS, or a blocked pass with nothing queued: the request is done.  *)
DispatchNothing ==
    /\ wake
    /\ pick = NoOrder
    /\ QueuedOrders = {}
    /\ wake' = FALSE
    /\ UNCHANGED <<orderStatus, moneyVars, job, commandVars, due, gateway,
                   broker, gate, pick, seen>>

(* Mutant: the repair scan looks for the wrong order status.               *)
RepairPaid ==
    /\ ~wake
    /\ \E o \in Orders : orderStatus[o] = "PAID"
    /\ wake' = TRUE
    /\ UNCHANGED <<orderStatus, moneyVars, job, commandVars, due, gateway,
                   broker, gate, pick, seen>>

(* Every 30 seconds the worker rebuilds a missing request.                 *)
RepairMissing ==
    /\ ~wake
    /\ QueuedOrders # {}
    /\ wake' = TRUE
    /\ UNCHANGED <<orderStatus, moneyVars, job, commandVars, due, gateway,
                   broker, gate, pick, seen>>

(* Heartbeats, lifecycle changes and pickup events; those that bring the   *)
(* machine back online or empty its slot also ask for a dispatch.          *)
GateChange ==
    /\ gate' = ~gate
    /\ wake' \in IF gate THEN {wake} ELSE {wake, TRUE}
    /\ UNCHANGED <<orderStatus, moneyVars, job, commandVars, due, gateway,
                   broker, pick, seen>>

-----------------------------------------------------------------------------
(* Delivery: the MQTT gateway publishes the outbox, and a machine without  *)
(* MQTT polls over HTTP.                                                   *)

(* The lease of a PUBLISHING item may have run out; the answer to the      *)
(* claim may be lost.                                                      *)
GatewayClaim(o) ==
    /\ gateway[o] = "idle"
    /\ outbox[o] \in {"PENDING", "RETRY", "PUBLISHING"}
    /\ commandStatus[o] \in DeliverableCommandStates
    /\ ~due[o]
    /\ outbox' = [outbox EXCEPT ![o] = "PUBLISHING"]
    /\ tried' = [tried EXCEPT ![o] = TRUE]
    /\ \E answer \in {"idle", "claimed"} : gateway' = [gateway EXCEPT ![o] = answer]
    /\ UNCHANGED <<orderStatus, moneyVars, job, commandStatus, handed, due,
                   broker, dispatchVars, seen>>

(* The gateway tests the deadline on its own clock before it publishes.    *)
GatewayPublish(o) ==
    /\ gateway[o] = "claimed"
    /\ ~due[o]
    /\ gateway' = [gateway EXCEPT ![o] = "sent"]
    /\ broker' = [broker EXCEPT ![o] = TRUE]
    /\ UNCHANGED <<orderStatus, moneyVars, job, commandVars, due,
                   dispatchVars, seen>>

(* Mutant: the report sets PUBLISHED over whatever the command is by now.  *)
GatewayPublishedBlindly(o) ==
    /\ gateway[o] = "sent"
    /\ gateway' = [gateway EXCEPT ![o] = "idle"]
    /\ outbox' = [outbox EXCEPT ![o] = "PUBLISHED"]
    /\ commandStatus' = [commandStatus EXCEPT ![o] = "PUBLISHED"]
    /\ handed' = [handed EXCEPT ![o] = TRUE]
    /\ UNCHANGED <<orderStatus, moneyVars, job, tried, due, broker,
                   dispatchVars, seen>>

(* PUBACK in hand, the gateway reports the publication.                    *)
GatewayPublished(o) ==
    /\ gateway[o] = "sent"
    /\ gateway' = [gateway EXCEPT ![o] = "idle"]
    /\ IF outbox[o] = "PUBLISHING"
         THEN /\ outbox' = [outbox EXCEPT ![o] = "PUBLISHED"]
              /\ commandStatus' =
                    IF commandStatus[o] \in DeliverableCommandStates
                      THEN [commandStatus EXCEPT ![o] = "PUBLISHED"]
                      ELSE commandStatus
              /\ handed' = [handed EXCEPT ![o] = TRUE]
         ELSE /\ handed' = [handed EXCEPT ![o] = @ \/ outbox[o] = "EXPIRED"]
              /\ UNCHANGED <<outbox, commandStatus>>
    /\ UNCHANGED <<orderStatus, moneyVars, job, tried, due, broker,
                   dispatchVars, seen>>

(* No PUBACK, a passed deadline or a refused report: release the lease.    *)
(* locked_by names this gateway exactly while the item is PUBLISHING.      *)
GatewayRetry(o) ==
    /\ gateway[o] # "idle"
    /\ gateway' = [gateway EXCEPT ![o] = "idle"]
    /\ outbox' = IF outbox[o] = "PUBLISHING"
                   THEN [outbox EXCEPT ![o] = "RETRY"]
                   ELSE outbox
    /\ UNCHANGED <<orderStatus, moneyVars, job, commandStatus, handed, tried,
                   due, broker, dispatchVars, seen>>

(* The gateway dies, or its report never reaches the server.               *)
GatewayCrash(o) ==
    /\ gateway[o] # "idle"
    /\ gateway' = [gateway EXCEPT ![o] = "idle"]
    /\ UNCHANGED <<orderStatus, moneyVars, job, commandVars, due, broker,
                   dispatchVars, seen>>

(* GET commands before the deadline; the response may be lost.             *)
PollCommands(o) ==
    /\ commandStatus[o] \in {"CREATED", "DELIVERING", "PUBLISHED"}
    /\ ~due[o]
    /\ IF commandStatus[o] = "CREATED"
         THEN /\ commandStatus' = [commandStatus EXCEPT ![o] = "DELIVERING"]
              /\ handed' = [handed EXCEPT ![o] = TRUE]
         ELSE UNCHANGED <<commandStatus, handed>>
    /\ \E arrives \in BOOLEAN : broker' = [broker EXCEPT ![o] = @ \/ arrives]
    /\ UNCHANGED <<orderStatus, moneyVars, job, outbox, tried, due, gateway,
                   dispatchVars, seen>>

(* Ten minutes after dispatch; nothing reads the deadline once the command *)
(* is past delivery and no gateway is about to publish it.                 *)
DeadlinePasses(o) ==
    /\ commandStatus[o] \in DeliverableCommandStates \/ gateway[o] = "claimed"
    /\ ~due[o]
    /\ due' = [due EXCEPT ![o] = TRUE]
    /\ UNCHANGED <<orderStatus, moneyVars, job, commandVars, gateway, broker,
                   dispatchVars, seen>>

-----------------------------------------------------------------------------
(* Expiry: the offline scan, or a poll after the deadline, finds a command *)
(* still CREATED.                                                          *)

(* Mutant: an item that went back to RETRY counts as never claimed.        *)
OutboxInFlight(o) == outbox[o] \in {"PUBLISHING", "PUBLISHED"}

(* Whether the outbox item was ever claimed.                               *)
OutboxClaimed(o) ==
    outbox[o] # None /\ (outbox[o] # "PENDING" \/ tried[o])

(* Whether the command may have left the server.                           *)
DeliveryEvidence(o) == OutboxClaimed(o) \/ handed[o]

Expire(o) ==
    /\ commandStatus[o] = "CREATED"
    /\ due[o]
    /\ outbox' = IF outbox[o] # None /\ ~OutboxClaimed(o)
                   THEN [outbox EXCEPT ![o] = "EXPIRED"]
                   ELSE outbox
    /\ commandStatus' = [commandStatus EXCEPT ![o] =
                            IF DeliveryEvidence(o) THEN "UNKNOWN" ELSE "EXPIRED"]
    /\ IF job[o].status \notin {"DISPATCHED", "QUEUED"}
         THEN UNCHANGED <<job, orderStatus, refund>>
         ELSE IF DeliveryEvidence(o)
         THEN /\ job' = [job EXCEPT ![o] = JobHeld(@)]
              /\ orderStatus' = OrderMoved(o, "HOLD")
              /\ UNCHANGED refund
         ELSE /\ job' = [job EXCEPT ![o] = JobMarked(@, "EXPIRED")]
              /\ orderStatus' = OrderMoved(o, "EXPIRED")
              /\ refund' = RefundEnsured(o)
    /\ UNCHANGED <<paid, handed, tried, due, gateway, broker, dispatchVars, seen>>

-----------------------------------------------------------------------------
(* The machine reports                                                     *)

(* The checks reconcile_device_event makes before any event of order o may *)
(* change a row.                                                           *)
EventAdmitted(o, attempt) ==
    /\ broker[o]
    /\ job[o].revision < MaxJobRevision
    /\ commandStatus[o] # None
    /\ attempt = NoAttempt \/ attempt >= job[o].attempt
    /\ orderStatus[o] \notin FinalOrders
    /\ job[o].status \notin FinalJobs
    /\ commandStatus[o] \notin TerminalCommands

(* The job row after an event that applies.                                *)
JobAfter(row, event, revision, attempt) ==
    LET moved == JobMoved(row, JobTarget(event), revision, attempt)
    IN IF moved.status = "HOLD" THEN JobHeld(moved)
       ELSE IF moved.status \in FinalJobs THEN JobCleared(moved)
       ELSE moved

(* Mutant: a newer revision is believed whatever the order has reached.    *)
DeviceEventNewest(o, event, revision, attempt) ==
    /\ EventAdmitted(o, attempt)
    /\ revision > job[o].deviceRevision
    /\ commandStatus' = [commandStatus EXCEPT ![o] = CommandTarget(event)]
    /\ job' = [job EXCEPT ![o] = JobAfter(@, event, revision, attempt)]
    /\ orderStatus' = [orderStatus EXCEPT ![o] = OrderTarget(event)]
    /\ refund' = IF event \in {"failed", "rejected", "cancelled"}
                   THEN RefundEnsured(o) ELSE refund
    /\ UNCHANGED <<paid, handed, outbox, tried, due, gateway, broker,
                   dispatchVars, seen>>

DeviceEvent(o, event, revision, attempt) ==
    /\ EventAdmitted(o, attempt)
    /\ JobEventApplies(job[o].status, event, revision, job[o].deviceRevision)
    /\ OrderTransitionAllowed(orderStatus[o], OrderTarget(event))
    /\ CommandTransitionAllowed(commandStatus[o], CommandTarget(event))
    /\ commandStatus' = [commandStatus EXCEPT ![o] = CommandTarget(event)]
    /\ job' = [job EXCEPT ![o] = JobAfter(@, event, revision, attempt)]
    /\ orderStatus' = OrderMoved(o, OrderTarget(event))
    /\ refund' = IF event \in {"failed", "rejected", "cancelled"}
                   THEN RefundEnsured(o) ELSE refund
    /\ wake' = (wake \/ OrderTarget(event) \in FinalOrders)
    \* a succeeded or recovered event may carry the pickup slot
    /\ gate' \in IF event \in {"succeeded", "recovered"} THEN BOOLEAN ELSE {gate}
    /\ UNCHANGED <<paid, handed, outbox, tried, due, gateway, broker, pick, seen>>

(* step.started and step.completed                                         *)
StepEvent(o, revision, attempt) ==
    /\ EventAdmitted(o, attempt)
    /\ job[o].status = "EXECUTING"
    /\ orderStatus[o] = "MAKING"
    /\ revision = NoRevision \/ revision > job[o].deviceRevision
    /\ job' = [job EXCEPT ![o] = JobMoved(@, "EXECUTING", revision, attempt)]
    /\ UNCHANGED <<orderStatus, moneyVars, commandVars, due, gateway, broker,
                   dispatchVars, seen>>

-----------------------------------------------------------------------------
(* Manual review                                                           *)

(* Mutant: a paused task has no deadline.                                  *)
WatchdogDuePatient(o) ==
    /\ job[o].status \in {"DISPATCHED", "ACCEPTED", "EXECUTING"}
    /\ \/ commandStatus[o] \in {"DELIVERING", "PUBLISHED"} /\ handed[o]
       \/ commandStatus[o] \in {"ACKED", "EXECUTING"}

(* The statuses hold_overdue_job waits on, and when their timer may be up. *)
WatchdogDue(o) ==
    \/ job[o].status \in {"PAUSED", "RETRY_WAIT"}
    \/ /\ job[o].status \in {"DISPATCHED", "ACCEPTED", "EXECUTING"}
       /\ \/ commandStatus[o] \in {"DELIVERING", "PUBLISHED"} /\ handed[o]
          \/ commandStatus[o] \in {"ACKED", "EXECUTING"}

HoldOverdue(o) ==
    /\ WatchdogDue(o)
    /\ orderStatus[o] \notin FinalOrders
    /\ commandStatus[o] \notin TerminalCommands \cup {None}
    /\ CommandTransitionAllowed(commandStatus[o], "UNKNOWN")
    /\ commandStatus' = [commandStatus EXCEPT ![o] = "UNKNOWN"]
    /\ job' = [job EXCEPT ![o] = JobHeld(@)]
    /\ orderStatus' = OrderMoved(o, "HOLD")
    /\ UNCHANGED <<moneyVars, handed, outbox, tried, due, gateway, broker,
                   dispatchVars, seen>>

(* An operator opens an order in production, which shows the job row.      *)
OperatorLooks(o) ==
    /\ job[o].status \in ActiveJobs
    /\ seen' = [order |-> o, row |-> job[o]]
    /\ UNCHANGED <<orderStatus, moneyVars, job, commandVars, due, gateway,
                   broker, dispatchVars>>

(* The verdict is accepted for the revision that was seen; a repeated      *)
(* request returns the stored answer and changes nothing.                  *)
Adjudicate(o, outcome) ==
    /\ seen.order = o
    /\ job[o].revision = seen.row.revision
    /\ orderStatus[o] = "HOLD"
    /\ job[o].status = "HOLD"
    /\ job[o].review
    /\ commandStatus[o] # None
    /\ CommandTransitionAllowed(commandStatus[o], outcome)
    /\ commandStatus' = [commandStatus EXCEPT ![o] = outcome]
    /\ job' = [job EXCEPT ![o] =
                  JobCleared(JobMoved(@, outcome, NoRevision, NoAttempt))]
    /\ orderStatus' = OrderMoved(o, IF outcome = "SUCCEEDED" THEN "READY" ELSE outcome)
    /\ refund' = IF outcome = "SUCCEEDED" THEN refund ELSE RefundEnsured(o)
    /\ wake' = TRUE
    /\ seen' = NoView
    /\ UNCHANGED <<paid, handed, outbox, tried, due, gateway, broker, gate, pick>>

-----------------------------------------------------------------------------
Outcomes == {"SUCCEEDED", "FAILED", "CANCELLED"}

DispatcherNext ==
    \/ \E o \in Orders : DispatchSelect(o) \/ DispatchCommit(o)
    \/ DispatchAbandon
    \/ DispatchNothing
    \/ RepairMissing
    \/ GateChange

DeliveryNext ==
    \E o \in Orders :
        \/ GatewayClaim(o)
        \/ GatewayPublish(o)
        \/ GatewayPublished(o)
        \/ GatewayRetry(o)
        \/ GatewayCrash(o)
        \/ PollCommands(o)
        \/ DeadlinePasses(o)
        \/ Expire(o)

MachineNext ==
    \E o \in Orders, revision \in Revisions, attempt \in Attempts :
        \/ \E event \in MachineEvents : DeviceEvent(o, event, revision, attempt)
        \/ StepEvent(o, revision, attempt)

ReviewNext ==
    \E o \in Orders :
        \/ HoldOverdue(o)
        \/ o \in ReviewedOrders /\ OperatorLooks(o)
        \/ \E outcome \in Outcomes : Adjudicate(o, outcome)

Next ==
    \/ \E o \in Orders : Enqueue(o) \/ Cancel(o)
    \/ DispatcherNext
    \/ DeliveryNext
    \/ MachineNext
    \/ ReviewNext

Spec == Init /\ [][Next]_vars

-----------------------------------------------------------------------------
(* Properties                                                              *)

(* Every variable keeps the shape of its column.                           *)
TypeOK ==
    /\ orderStatus \in [Orders -> OrderStatus \cup {None}]
    /\ paid \in [Orders -> BOOLEAN]
    /\ refund \in [Orders -> BOOLEAN]
    /\ job \in [Orders -> JobRows]
    /\ commandStatus \in [Orders -> CommandStatus \cup {None}]
    /\ handed \in [Orders -> BOOLEAN]
    /\ due \in [Orders -> BOOLEAN]
    /\ outbox \in [Orders -> OutboxStatus \cup {None}]
    /\ tried \in [Orders -> BOOLEAN]
    /\ gateway \in [Orders -> {"idle", "claimed", "sent"}]
    /\ broker \in [Orders -> BOOLEAN]
    /\ wake \in BOOLEAN
    /\ gate \in BOOLEAN
    /\ pick \in Orders \cup {NoOrder}
    /\ seen \in [order: Orders \cup {NoOrder}, row: JobRows]

(* The order and command statuses that go with each status of the job.     *)
RowAgrees(o) ==
    LET is(order, commands) ==
            orderStatus[o] = order /\ commandStatus[o] \in commands
    IN /\ job[o].status = None => is(None, {None})
       /\ job[o].status = "QUEUED" => is("QUEUED", {None})
       /\ job[o].status = "DISPATCHED" =>
             is("DISPATCHED", {"CREATED", "DELIVERING", "PUBLISHED"})
       /\ job[o].status = "ACCEPTED" => is("ACCEPTED", {"ACKED"})
       /\ job[o].status \in {"EXECUTING", "PAUSED", "RETRY_WAIT"} =>
             is("MAKING", {"EXECUTING"})
       /\ job[o].status = "HOLD" => is("HOLD", {"UNKNOWN"}) /\ job[o].review
       /\ job[o].status # "UNKNOWN"
       /\ job[o].status = "SUCCEEDED" => is("READY", {"SUCCEEDED"})
       /\ job[o].status = "FAILED" => is("FAILED", {"FAILED"})
       /\ job[o].status = "REJECTED" => is("FAILED", {"REJECTED"})
       /\ job[o].status = "CANCELLED" => is("CANCELLED", {None, "CANCELLED"})
       /\ job[o].status = "EXPIRED" => is("EXPIRED", {"EXPIRED"})

(* The three rows of an order never contradict each other, whatever order  *)
(* device events, delivery receipts, timeouts, cancellation and manual     *)
(* verdicts arrive in.  transition_order drops a move that is not allowed  *)
(* without an error, so a gap in the tables would let the order lag behind *)
(* its job and its command.                                                *)
RowsAgree == \A o \in Orders : RowAgrees(o)

(* A machine never has two jobs in progress or in doubt at a time: the     *)
(* dispatcher tests the job table, and every path that ends a job (also    *)
(* the ones under review) keeps the test truthful.                         *)
OneActiveJob ==
    \A o, p \in Orders :
        job[o].status \in ActiveJobs /\ job[p].status \in ActiveJobs => o = p

(* An order that expired and gives its money back was never handed to the  *)
(* broker or the machine, and no gateway holds it: expire_order_for_command *)
(* calls such a command "provably never sent".                             *)
ExpiredNeverSent ==
    \A o \in Orders :
        orderStatus[o] = "EXPIRED" => ~broker[o] /\ gateway[o] = "idle"

(* Money goes back automatically for exactly the paid orders that ended    *)
(* without a drink: none is missed, no served order is refunded, and none  *)
(* is refunded while its outcome is still open or under review.            *)
RefundMatchesOutcome ==
    \A o \in Orders :
        refund[o] <=> paid[o] /\ orderStatus[o] \in {"FAILED", "CANCELLED", "EXPIRED"}

(* A verdict carries the revision the operator saw.  The revision test     *)
(* protects it only if no write changes the job row and leaves the         *)
(* revision as it was.                                                     *)
ViewIsCurrent ==
    \A o \in Orders :
        seen.order = o /\ seen.row.revision = job[o].revision => seen.row = job[o]

(* How far production of an order has come.                                *)
Progress(status) ==
    CASE status = None -> 0
      [] status = "QUEUED" -> 1
      [] status = "DISPATCHED" -> 2
      [] status = "ACCEPTED" -> 3
      [] status = "MAKING" -> 4
      [] status = "HOLD" -> 5
      [] OTHER -> 6

(* "Revisions never authorize a state rollback" (production_state.py):     *)
(* an order only moves forward, a held one only to its end, and a finished *)
(* one never again, however late or often the machine repeats itself.      *)
NeverRollsBack ==
    [][\A o \in Orders : orderStatus'[o] # orderStatus[o] =>
            Progress(orderStatus'[o]) > Progress(orderStatus[o])]_vars

-----------------------------------------------------------------------------
(* What the proofs add to make these inductive.                            *)

(* While a dispatch transaction is open, nothing else can start a job.     *)
PickIsFree == pick # NoOrder => ~ActiveJobExists

(* Whatever reached the gateway, the broker or the machine left a mark in  *)
(* the rows that expiry reads, and an expired order has none.              *)
LeavesTrace(o) ==
    /\ commandStatus[o] # None => outbox[o] # None
    /\ commandStatus[o] \in {"DELIVERING", "PUBLISHED"} => handed[o]
    /\ gateway[o] # "idle" => tried[o]
    /\ broker[o] => tried[o] \/ handed[o]
    /\ orderStatus[o] = "EXPIRED" => ~tried[o] /\ ~handed[o]

DeliveryLeavesTrace == \A o \in Orders : LeavesTrace(o)

(* An operator sees a job that exists, and never a revision it has not     *)
(* reached.                                                                *)
ViewNotAhead ==
    \A o \in Orders : seen.order = o =>
        job[o].status # None /\ seen.row.revision <= job[o].revision

-----------------------------------------------------------------------------
(* Liveness.  The worker process runs the dispatcher, the repair scan, the *)
(* expiry scan and the watchdog for ever, so each is weakly fair, and the  *)
(* clock moves on.  A dispatch transaction that fails is retried, and we   *)
(* assume the database does not refuse it for ever: strong fairness.       *)
(* Nothing is assumed of the gateway, the machine, customers or operators. *)
Fairness ==
    /\ \A o \in Orders : WF_vars(DispatchSelect(o))
    /\ \A o \in Orders : SF_vars(DispatchCommit(o))
    /\ WF_vars(DispatchAbandon)
    /\ WF_vars(RepairMissing)
    /\ \A o \in Orders : WF_vars(DeadlinePasses(o))
    /\ \A o \in Orders : WF_vars(Expire(o))
    /\ \A o \in Orders : WF_vars(HoldOverdue(o))

FairSpec == Spec /\ Fairness

(* A dispatched job does not stay open: even if the gateway, the broker    *)
(* and the machine fall silent at any point, a deadline or the watchdog    *)
(* ends it or hands it to an operator.                                     *)
DispatchedSettles ==
    \A o \in Orders :
        job[o].status \in ActiveJobs ~> job[o].status \in FinalJobs \cup {"HOLD"}

(* A queued order is not forgotten: once the machine stays available, it   *)
(* is dispatched (or cancelled) or some order is waiting for an operator,  *)
(* although wakeups are deleted by passes that serve another order and     *)
(* expiry raises none.                                                     *)
QueuedIsServed ==
    \A o \in Orders :
        <>[]gate => (orderStatus[o] = "QUEUED" ~>
                        \/ orderStatus[o] # "QUEUED"
                        \/ \E p \in Orders : job[p].status = "HOLD")
=============================================================================
