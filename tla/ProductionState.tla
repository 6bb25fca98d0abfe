-------------------------- MODULE ProductionState --------------------------
(***************************************************************************)
(* The pure status tables and decisions of the production side of Coffee   *)
(* Cloud: app/production_state.py and app/command_state.py.                *)
(*                                                                         *)
(* A sales order, its production job and the MAKE_DRINK command that       *)
(* carries it to the machine each have a status of their own.  The tables  *)
(* below say which moves are legal; the modules that EXTEND this one apply *)
(* them to rows.                                                           *)
(***************************************************************************)
EXTENDS Integers

(* Stands for a row that does not exist, and for a null status.            *)
None == "NONE"

(* taskRevision is optional in a device event; null is written NoRevision. *)
NoRevision == -1

FinalJobs == {"SUCCEEDED", "FAILED", "REJECTED", "CANCELLED", "EXPIRED"}

ActiveJobs == {"DISPATCHED", "ACCEPTED", "EXECUTING", "PAUSED", "RETRY_WAIT",
               "HOLD", "UNKNOWN"}

JobStatus == {"QUEUED"} \cup ActiveJobs \cup FinalJobs

FinalOrders == {"READY", "FAILED", "CANCELLED", "EXPIRED", "REFUNDED"}

OrderStatus == {"CREATED", "AWAITING_PAYMENT", "PAID", "QUEUED", "DISPATCHED",
                "ACCEPTED", "MAKING", "HOLD"} \cup FinalOrders

(* ORDER_TRANSITIONS: the statuses an order may move to from `current'.    *)
OrderTransitions(current) ==
    CASE current = "CREATED" ->
            {"AWAITING_PAYMENT", "PAID", "QUEUED", "CANCELLED", "EXPIRED"}
      [] current = "AWAITING_PAYMENT" -> {"PAID", "CANCELLED", "EXPIRED"}
      [] current = "PAID"       -> {"QUEUED", "CANCELLED", "HOLD"}
      [] current = "QUEUED"     -> {"DISPATCHED", "CANCELLED", "EXPIRED", "HOLD"}
      [] current = "DISPATCHED" -> {"ACCEPTED", "MAKING", "READY", "FAILED",
                                    "CANCELLED", "EXPIRED", "HOLD"}
      [] current = "ACCEPTED"   -> {"MAKING", "READY", "FAILED", "CANCELLED", "HOLD"}
      [] current = "MAKING"     -> {"READY", "FAILED", "CANCELLED", "HOLD"}
      [] current = "HOLD"       -> {"READY", "FAILED", "CANCELLED"}
      [] current = "FAILED"     -> {"REFUNDED"}
      [] OTHER -> {}

OrderTransitionAllowed(current, target) ==
    current = target \/ target \in OrderTransitions(current)

-----------------------------------------------------------------------------
(* Device events that move a task, and the order, job and command status   *)
(* each of them asks for (EVENT_TARGETS).                                  *)
TaskEvents == {"acknowledged", "started", "paused", "resumed", "retry_wait",
               "retry", "recovered", "succeeded", "failed", "rejected",
               "cancelled"}

EventTargets(event) ==
    CASE event = "acknowledged" -> <<"ACCEPTED", "ACCEPTED", "ACKED">>
      [] event \in {"started", "resumed", "retry"} ->
                                   <<"MAKING", "EXECUTING", "EXECUTING">>
      [] event = "paused"       -> <<"MAKING", "PAUSED", "EXECUTING">>
      [] event = "retry_wait"   -> <<"MAKING", "RETRY_WAIT", "EXECUTING">>
      [] event = "recovered"    -> <<"HOLD", "HOLD", "UNKNOWN">>
      [] event = "succeeded"    -> <<"READY", "SUCCEEDED", "SUCCEEDED">>
      [] event = "failed"       -> <<"FAILED", "FAILED", "FAILED">>
      [] event = "rejected"     -> <<"FAILED", "REJECTED", "REJECTED">>
      [] event = "cancelled"    -> <<"CANCELLED", "CANCELLED", "CANCELLED">>

OrderTarget(event) == EventTargets(event)[1]
JobTarget(event) == EventTargets(event)[2]
CommandTarget(event) == EventTargets(event)[3]

(* The job statuses from which an event is legal, once the job is neither  *)
(* final, nor under manual review, nor still queued.                       *)
LegalSources(event) ==
    CASE event \in {"acknowledged", "rejected"} -> {"DISPATCHED", "ACCEPTED"}
      [] event = "started" -> {"DISPATCHED", "ACCEPTED", "EXECUTING"}
      [] event = "resumed" -> {"PAUSED", "EXECUTING"}
      [] event = "retry"   -> {"RETRY_WAIT", "EXECUTING"}
      [] event \in {"paused", "retry_wait"} ->
            {"DISPATCHED", "ACCEPTED", "EXECUTING", JobTarget(event)}
      [] OTHER -> ActiveJobs

(* decide_job_event: TRUE iff the decision is `allowed' and not            *)
(* `duplicate', which is what its caller tests before it applies an event. *)
JobEventApplies(current, event, revision, lastRevision) ==
    /\ revision = NoRevision \/ revision > lastRevision
    /\ current \notin FinalJobs
    /\ IF current \in {"HOLD", "UNKNOWN"}
         THEN JobTarget(event) \in FinalJobs
         ELSE /\ current # "QUEUED"
              /\ current \in LegalSources(event)
              /\ ~(current = JobTarget(event) /\ revision = NoRevision)

-----------------------------------------------------------------------------
(* app/command_state.py                                                    *)
TerminalCommands == {"SUCCEEDED", "REJECTED", "FAILED", "EXPIRED", "CANCELLED"}

CommandStatus == {"CREATED", "DELIVERING", "PUBLISHED", "ACKED", "EXECUTING",
                  "UNKNOWN"} \cup TerminalCommands

(* LEGAL_TRANSITIONS                                                       *)
CommandTransitions(current) ==
    LET verdicts == {"SUCCEEDED", "FAILED", "CANCELLED"}
    IN CASE current = "CREATED" -> CommandStatus \ {"CREATED"}
         [] current = "DELIVERING" -> CommandStatus \ {"CREATED", "DELIVERING"}
         [] current = "PUBLISHED" ->
               CommandStatus \ {"CREATED", "DELIVERING", "PUBLISHED"}
         [] current = "ACKED" -> verdicts \cup {"EXECUTING", "REJECTED", "UNKNOWN"}
         [] current = "EXECUTING" -> verdicts \cup {"UNKNOWN"}
         [] current = "UNKNOWN" ->
               verdicts \cup {"ACKED", "EXECUTING", "REJECTED", "EXPIRED"}
         [] OTHER -> {}

(* decide_transition(...).allowed; a move to the same status is a no-op.   *)
CommandTransitionAllowed(current, target) ==
    current = target \/ target \in CommandTransitions(current)

(* The states whose outbox row may be claimed for publication.             *)
DeliverableCommandStates == {"CREATED", "DELIVERING"}
=============================================================================
