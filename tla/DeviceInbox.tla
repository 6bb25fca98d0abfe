----------------------------- MODULE DeviceInbox -----------------------------
(***************************************************************************)
(* Durable device events: MqttGatewayService.ingest and recover_pending    *)
(* over mqtt_inbox, DeviceMessageService.event over terminal_event, and    *)
(* the pickup slot and material watermark that an event moves.             *)
(*                                                                         *)
(* One ingest is three transactions (store, handle, settle); handlers are  *)
(* the API threads and the recovery worker that run them concurrently, and *)
(* each may die between two of them. The gateway delivers an uplink any    *)
(* number of times, with a fresh outer sentAt if the device resends it;    *)
(* devices that fall back to HTTP post the same event straight to          *)
(* DeviceMessageService.event. What an event does to its order is module   *)
(* Production; here it is an effect that must happen once.                 *)
(*                                                                         *)
(* One terminal. Recovery leases are left to the scheduler: a stored row   *)
(* may be claimed at any time, also while a slow attempt is under way,     *)
(* which is what an expired lease allows.                                  *)
(***************************************************************************)
EXTENDS Naturals, FiniteSets

CONSTANTS
    Uplinks,     \* the envelopes: [id, seq, sentAt, event]
    Handlers,    \* API threads and the recovery worker
    OrderTasks,  \* the tasks that belong to an order of the terminal
    MaxCrashes   \* bound: handlers that die, or database failures, in an ingest

EventTypes == {"task.succeeded", "task.recovered", "task.other",
               "pickup.collected", "pickup.overdue"}
SlotTypes == EventTypes \ {"task.other"}
InventoryTypes == {"task.succeeded", "task.recovered", "task.other"}
SlotStates == {"EMPTY", "OCCUPIED", "NEEDS_CHECK"}

\* slot.revision 0 stands for an event without a versioned slot, inventory 0
\* for one without an inventoryVersion.
IsEvent(e) ==
    /\ DOMAIN e = {"id", "type", "task", "slot", "inventory"}
    /\ e.type \in EventTypes
    /\ DOMAIN e.slot = {"revision", "state", "task"}
    /\ e.slot.revision \in Nat /\ e.slot.state \in SlotStates
    /\ e.inventory \in Nat

ASSUME InboxConstants ==
    /\ \A u \in Uplinks : DOMAIN u = {"id", "seq", "sentAt", "event"} /\ IsEvent(u.event)
    /\ MaxCrashes \in Nat

VARIABLES
    rows,       \* mqtt_inbox by message id
    events,     \* terminal_event: the events applied so far
    slot,       \* terminal_pickup_slot
    orders,     \* the sales_order flags pickup_required and collected_at
    watermark,  \* terminal_material_watermark
    requested,  \* a dispatch request was raised by a collection
    handler,    \* what each handler is doing
    effects,    \* history: how often each event id reached the domain
    crashes

domain == <<events, slot, orders, watermark, requested, effects>>
vars == <<rows, domain, handler, crashes>>

Ids == {u.id : u \in Uplinks}
AllEvents == {u.event : u \in Uplinks}
EventIds == {e.id : e \in AllEvents}

NoRow == [status |-> "none"]
Idle == [pc |-> "idle"]
NoSlot == [revision |-> 0, state |-> "EMPTY", task |-> "none"]

TypeOK ==
    /\ rows \in [Ids -> {NoRow} \cup [status : {"RECEIVED", "RETRY", "PROCESSED"}, up : Uplinks]]
    /\ events \subseteq AllEvents
    /\ slot \in {NoSlot} \cup {e.slot : e \in AllEvents}
    /\ orders \in [required : SUBSET OrderTasks, collected : SUBSET OrderTasks]
    /\ watermark \in Nat /\ requested \in BOOLEAN
    /\ handler \in [Handlers -> {Idle} \cup
          [pc : {"arrived", "absent", "stored", "applied", "failed"}, up : Uplinks]]
    /\ effects \in [EventIds -> Nat]
    /\ crashes \in 0 .. MaxCrashes

Init ==
    /\ rows = [i \in Ids |-> NoRow]
    /\ events = {} /\ slot = NoSlot /\ watermark = 0 /\ requested = FALSE
    /\ orders = [required |-> {}, collected |-> {}]
    /\ handler = [h \in Handlers |-> Idle]
    /\ effects = [e \in EventIds |-> 0]
    /\ crashes = 0

-----------------------------------------------------------------------------
(* The event handler: one transaction *)

HasSlot(e) == e.type \in SlotTypes /\ e.slot.revision # 0

\* The checks of DeviceMessageService.event that roll the transaction back.
Valid(e) ==
    /\ e.type \in {"pickup.collected", "pickup.overdue"} => e.slot.revision # 0
    /\ HasSlot(e) /\ e.type = "pickup.collected" =>
          e.slot.state = "EMPTY" /\ e.slot.task = e.task

\* PickupConflict: another slot at the same revision.
SlotConflict(e) == HasSlot(e) /\ e.slot.revision = slot.revision /\ e.slot # slot

NewerSlotAlways(e) == e.slot

\* The upsert of PickupRepository.apply: only a newer revision replaces a row.
NewerSlot(e) == IF slot.revision < e.slot.revision THEN e.slot ELSE slot

\* The order of the slot's task, whatever the slot's revision.
MarkedOrders(e) ==
    LET own == {e.slot.task} \cap OrderTasks
    IN  [required |-> orders.required \cup own,
         collected |-> orders.collected \cup IF e.type = "pickup.collected" THEN own ELSE {}]

\* insert_event found no event of this id: this transaction owns the event.
Fresh(e) == \A x \in events : x.id # e.id

ApplyFresh(e) ==
    /\ Fresh(e) /\ Valid(e) /\ ~SlotConflict(e)
    /\ events' = events \cup {e}
    /\ effects' = [effects EXCEPT ![e.id] = @ + 1]
    /\ watermark' = IF e.type \in InventoryTypes /\ e.inventory > watermark
                    THEN e.inventory ELSE watermark
    /\ slot' = IF HasSlot(e) THEN NewerSlot(e) ELSE slot
    /\ orders' = IF HasSlot(e) THEN MarkedOrders(e) ELSE orders
    /\ requested' = (requested \/ (HasSlot(e) /\ e.type = "pickup.collected"))

\* The committed event has the same digest: a duplicate, answered with success.
Duplicate(e) == e \in events

\* 409 or 422: nothing of the transaction remains.
Refused(e) == ~Duplicate(e) /\ (~Fresh(e) \/ ~Valid(e) \/ SlotConflict(e))

-----------------------------------------------------------------------------
(* ingest *)

Step(h, pc) == handler' = [handler EXCEPT ![h] = [@ EXCEPT !.pc = pc]]
Finish(h) == handler' = [handler EXCEPT ![h] = Idle]

\* The gateway posts an uplink, for the first or any later time.
Arrive(h, u) ==
    /\ handler[h] = Idle
    /\ handler' = [handler EXCEPT ![h] = [pc |-> "arrived", up |-> u]]
    /\ UNCHANGED <<rows, domain, crashes>>

RecoverableRetryOnly(row) == row.status = "RETRY"

\* The rows claim_recovery selects: stored, not settled.
Recoverable(row) == row.status \in {"RECEIVED", "RETRY"}

\* recover_pending claims an unsettled row and ingests its stored envelope.
Recover(h, i) ==
    /\ handler[h] = Idle /\ Recoverable(rows[i])
    /\ handler' = [handler EXCEPT ![h] = [pc |-> "arrived", up |-> rows[i].up]]
    /\ UNCHANGED <<rows, domain, crashes>>

SameBusinessById(u, v) == u.id = v.id

\* business_digest: only the outer sentAt may differ between two deliveries.
SameBusiness(u, v) == [u EXCEPT !.sentAt = 0] = [v EXCEPT !.sentAt = 0]

\* The first transaction when the row exists, under its lock: 409 for another
\* content, a duplicate when settled, else on to the handler.
Lookup(h) ==
    /\ handler[h].pc = "arrived"
    /\ LET u == handler[h].up
           row == rows[u.id]
       IN  \/ row = NoRow /\ Step(h, "absent")
           \/ row # NoRow /\ ~SameBusiness(row.up, u) /\ Finish(h)
           \/ row # NoRow /\ SameBusiness(row.up, u) /\ row.status = "PROCESSED" /\ Finish(h)
           \/ row # NoRow /\ SameBusiness(row.up, u) /\ row.status # "PROCESSED" /\ Step(h, "stored")
    /\ UNCHANGED <<rows, domain, crashes>>

\* unique(device_id, message_id) and uq_mqtt_inbox_boot_sequence
Clashes(u) == \E i \in Ids : rows[i] # NoRow /\ (i = u.id \/ rows[i].up.seq = u.seq)

\* insert ... on conflict do nothing, after a lookup that saw no row. The loser
\* of a race answers DUPLICATE_SEQUENCE and leaves the event to the winner.
Insert(h) ==
    /\ handler[h].pc = "absent"
    /\ LET u == handler[h].up
       IN  \/ /\ Clashes(u)
              /\ Finish(h)
              /\ UNCHANGED rows
           \/ /\ ~Clashes(u)
              /\ rows' = [rows EXCEPT ![u.id] = [status |-> "RECEIVED", up |-> u]]
              /\ Step(h, "stored")
    /\ UNCHANGED <<domain, crashes>>

\* The second transaction: the event handler commits, finds a duplicate, or is
\* refused.
Handle(h) ==
    /\ handler[h].pc = "stored"
    /\ LET e == handler[h].up.event
       IN  \/ ApplyFresh(e) /\ Step(h, "applied")
           \/ Duplicate(e) /\ Step(h, "applied") /\ UNCHANGED domain
           \/ Refused(e) /\ Step(h, "failed") /\ UNCHANGED domain
    /\ UNCHANGED <<rows, crashes>>

\* The database fails during the second transaction, which is rolled back.
HandleFails(h) ==
    /\ crashes < MaxCrashes /\ crashes' = crashes + 1
    /\ handler[h].pc = "stored"
    /\ Step(h, "failed")
    /\ UNCHANGED <<rows, domain>>

\* The third transaction after a success.
Processed(h) ==
    /\ handler[h].pc = "applied"
    /\ LET i == handler[h].up.id
       IN  rows' = [rows EXCEPT ![i] = IF @ = NoRow THEN NoRow
                                       ELSE [@ EXCEPT !.status = "PROCESSED"]]
    /\ Finish(h)
    /\ UNCHANGED <<domain, crashes>>

\* retry: never takes a settled row back.
Retried(row) == IF row.status \in {"none", "PROCESSED"} THEN row
                ELSE [row EXCEPT !.status = "RETRY"]

\* The third transaction after a failure; the error goes to the caller.
MarkRetry(h) ==
    /\ handler[h].pc = "failed"
    /\ rows' = [rows EXCEPT ![handler[h].up.id] = Retried(@)]
    /\ Finish(h)
    /\ UNCHANGED <<domain, crashes>>

\* The process dies between two transactions.
Crash(h) ==
    /\ crashes < MaxCrashes /\ crashes' = crashes + 1
    /\ handler[h] # Idle
    /\ Finish(h)
    /\ UNCHANGED <<rows, domain>>

\* The device posts the event over HTTP: the handler alone, one transaction.
HttpEvent(e) ==
    /\ ApplyFresh(e)
    /\ UNCHANGED <<rows, handler, crashes>>

\* cleanup_history forgets settled rows after their retention; terminal_event
\* is kept longer, so a late redelivery is still recognised there. Retention is
\* counted in days: no ingest of the message is still under way.
CleanInbox(i) ==
    /\ rows[i].status = "PROCESSED"
    /\ \A h \in Handlers : handler[h] # Idle => handler[h].up.id # i
    /\ rows' = [rows EXCEPT ![i] = NoRow]
    /\ UNCHANGED <<domain, handler, crashes>>

\* The dispatcher (module DispatchQueue) takes the request up.
TakeRequest ==
    /\ requested
    /\ requested' = FALSE
    /\ UNCHANGED <<rows, events, slot, orders, watermark, effects, handler, crashes>>

HandlerStep(h) ==
    Lookup(h) \/ Insert(h) \/ Handle(h) \/ Processed(h) \/ MarkRetry(h)

Next ==
    \/ \E h \in Handlers :
          \/ HandlerStep(h) \/ HandleFails(h) \/ Crash(h)
          \/ \E u \in Uplinks : Arrive(h, u)
          \/ \E i \in Ids : Recover(h, i)
    \/ \E e \in AllEvents : HttpEvent(e)
    \/ \E i \in Ids : CleanInbox(i)
    \/ TakeRequest

Spec == Init /\ [][Next]_vars

\* Handlers run, and the recovery worker comes round to every unsettled row.
FairSpec ==
    /\ Spec
    /\ \A h \in Handlers : WF_vars(HandlerStep(h))
    /\ \A i \in Ids : SF_vars(\E h \in Handlers : Recover(h, i))

-----------------------------------------------------------------------------
(* Properties *)

\* A row is PROCESSED only when its own event is committed in terminal_event:
\* handle and settle are two transactions, and other deliveries, recovery and
\* the HTTP path run between them.
ProcessedWasApplied ==
    \A i \in Ids : rows[i].status = "PROCESSED" => rows[i].up.event \in events

\* The domain's state is what the set of committed events says, whatever the
\* order they came in and however often each was delivered, recovered, posted
\* over HTTP or forgotten by the inbox cleanup: each event id took effect once,
\* with one content; the slot the dispatcher reads is the newest any of them
\* carried; and an order is collected exactly if a pickup.collected event of its
\* task is among them. A refused event leaves nothing behind.
EventsDecideState ==
    /\ \A i \in EventIds : Cardinality({e \in events : e.id = i}) = effects[i]
    /\ \A e \in events : HasSlot(e) =>
          e.slot.revision < slot.revision \/ e.slot = slot
    /\ \A t \in OrderTasks : t \in orders.collected <=>
          \E e \in events : e.type = "pickup.collected" /\ HasSlot(e) /\ e.slot.task = t

\* The events a correct device sends: valid, one content per event id and one
\* slot per slot revision.
Sound(e) ==
    /\ Valid(e)
    /\ \A x \in AllEvents : x.id = e.id => x = e
    /\ \A x \in AllEvents : HasSlot(e) /\ HasSlot(x) /\ x.slot.revision = e.slot.revision
                               => x.slot = e.slot

\* Every stored sound event is settled in the end without a new delivery:
\* recovery replays what a crash or a failure left behind.
StoredIsSettled ==
    \A i \in Ids : (rows[i] # NoRow /\ Sound(rows[i].up.event)) ~>
                       rows[i].status \in {"PROCESSED", "none"}
=============================================================================
