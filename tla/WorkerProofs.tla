----------------------------- MODULE WorkerProofs -----------------------------
(***************************************************************************)
(* Proofs about what the background worker shares with the API threads:    *)
(* the inbox that its recovery replays, the dispatch request it leases and *)
(* the telemetry it flushes.  The three do not touch each other's state,   *)
(* so each has a section of its own.                                       *)
(*                                                                         *)
(* The inbox: a handler past its first transaction has its row, with its   *)
(* own content, until it settles it.  An event is committed by one         *)
(* transaction, which moves slot, order and watermark with it, so what     *)
(* holds of the committed events holds after each further one.             *)
(*                                                                         *)
(* The queue: the worker holds the revision it leased.  Nobody else        *)
(* deletes the row, so while it holds a lease the row is there and its     *)
(* revision only grows; a request raised meanwhile takes it past the       *)
(* leased one, and the delete of complete(), which names that revision,    *)
(* misses the row.  With a second worker the row may be deleted and begun  *)
(* again from revision 1: hence the assumption.                            *)
(*                                                                         *)
(* The flush: the row never runs ahead of Redis, says what the hash says   *)
(* once it is as new, and while it is older somebody still has to flush:   *)
(* the device is dirty or leased, or its writer will mark it.              *)
(***************************************************************************)
EXTENDS DeviceInbox, DispatchQueue, TelemetryFlush, FiniteSetTheorems, TLAPS

-----------------------------------------------------------------------------
(* The inbox                                                               *)

Slots == {NoSlot} \cup {e.slot : e \in AllEvents}

(* What the proofs need of the types.                                      *)
InboxType ==
    /\ rows \in [Ids -> {NoRow} \cup [status : {"RECEIVED", "RETRY", "PROCESSED"}, up : Uplinks]]
    /\ events \subseteq AllEvents
    /\ slot \in Slots
    /\ orders \in [required : SUBSET OrderTasks, collected : SUBSET OrderTasks]
    /\ handler \in [Handlers -> {Idle} \cup
          [pc : {"arrived", "absent", "stored", "applied", "failed"}, up : Uplinks]]
    /\ effects \in [EventIds -> Nat]

(* A handler past its first transaction has its row, which stays as long   *)
(* as it holds it and has the business content of its uplink; one that     *)
(* goes on to settle has the event committed.                              *)
HandlersHaveRows ==
    /\ \A i \in Ids : rows[i] # NoRow => rows[i].up.id = i
    /\ \A h \in Handlers :
          LET u == handler[h].up
          IN  /\ handler[h].pc \in {"stored", "applied", "failed"} =>
                    rows[u.id] # NoRow /\ SameBusiness(rows[u.id].up, u)
              /\ handler[h].pc = "applied" => u.event \in events

InboxInv == InboxType /\ HandlersHaveRows /\ ProcessedWasApplied

(* An event id is committed with one content, and took effect then.        *)
CountedOnce ==
    /\ \A x, y \in events : x.id = y.id => x = y
    /\ \A i \in EventIds : effects[i] = IF \E e \in events : e.id = i THEN 1 ELSE 0

SlotIsNewest ==
    \A e \in events : HasSlot(e) => e.slot.revision < slot.revision \/ e.slot = slot

CollectedByEvent ==
    \A t \in OrderTasks : t \in orders.collected <=>
        \E e \in events : e.type = "pickup.collected" /\ HasSlot(e) /\ e.slot.task = t

EventsInv == InboxType /\ CountedOnce /\ SlotIsNewest /\ CollectedByEvent

-----------------------------------------------------------------------------
(* The digest leaves out the outer time alone.                             *)
LEMMA SameEvent ==
    ASSUME NEW u \in Uplinks, NEW v \in Uplinks, SameBusiness(u, v)
    PROVE  u.id = v.id /\ u.event = v.event
<1>1. DOMAIN u = {"id", "seq", "sentAt", "event"} /\ DOMAIN v = {"id", "seq", "sentAt", "event"}
  BY InboxConstants
<1>2. [u EXCEPT !.sentAt = 0] = [v EXCEPT !.sentAt = 0]
  BY DEF SameBusiness
<1>3. /\ [u EXCEPT !.sentAt = 0].id = u.id /\ [v EXCEPT !.sentAt = 0].id = v.id
      /\ [u EXCEPT !.sentAt = 0].event = u.event /\ [v EXCEPT !.sentAt = 0].event = v.event
  BY <1>1
<1> QED BY <1>2, <1>3

(* What an uplink names is among what the uplinks name.                    *)
LEMMA UplinkFields ==
    ASSUME NEW u \in Uplinks
    PROVE  u.id \in Ids /\ u.event \in AllEvents /\ u.event.id \in EventIds
  BY DEF Ids, AllEvents, EventIds

(* Revisions of slots can be compared.                                     *)
LEMMA SlotRevision ==
    ASSUME NEW s \in Slots
    PROVE  s.revision \in Nat
<1>1. CASE s = NoSlot
  BY <1>1 DEF NoSlot
<1>2. ASSUME NEW e \in AllEvents, s = e.slot PROVE s.revision \in Nat
  BY <1>2, InboxConstants DEF AllEvents, IsEvent
<1> QED BY <1>1, <1>2 DEF Slots

-----------------------------------------------------------------------------
(* The event transaction *)

(* It keeps every type ...                                                 *)
LEMMA ApplyKeepsType ==
    ASSUME InboxType, NEW e \in AllEvents, ApplyFresh(e)
    PROVE  /\ events' = events \cup {e} /\ events' \subseteq AllEvents
           /\ slot' \in Slots
           /\ orders' \in [required : SUBSET OrderTasks, collected : SUBSET OrderTasks]
           /\ effects' \in [EventIds -> Nat]
           /\ effects' = [effects EXCEPT ![e.id] = @ + 1]
<1>1. events' = events \cup {e} /\ effects' = [effects EXCEPT ![e.id] = @ + 1]
  BY DEF ApplyFresh
<1>2. slot' \in Slots
  BY DEF ApplyFresh, NewerSlot, InboxType, Slots
<1>3. MarkedOrders(e) \in [required : SUBSET OrderTasks, collected : SUBSET OrderTasks]
  BY DEF MarkedOrders, InboxType
<1>4. orders' \in [required : SUBSET OrderTasks, collected : SUBSET OrderTasks]
  BY <1>3 DEF ApplyFresh, InboxType
<1>5. e.id \in EventIds /\ effects' \in [EventIds -> Nat]
  BY <1>1 DEF InboxType, EventIds
<1>6. events' \subseteq AllEvents
  BY <1>1 DEF InboxType
<1> QED BY <1>1, <1>2, <1>4, <1>5, <1>6

(* ... and the three statements about what the committed events decide.    *)
LEMMA ApplyKeepsEvents ==
    ASSUME EventsInv, NEW e \in AllEvents, ApplyFresh(e)
    PROVE  CountedOnce' /\ SlotIsNewest' /\ CollectedByEvent'
<1> USE DEF EventsInv
<1>1. events' = events \cup {e} /\ effects' = [effects EXCEPT ![e.id] = @ + 1]
  BY ApplyKeepsType
<1>2. \A x \in events : x.id # e.id
  BY DEF ApplyFresh, Fresh
<1>3. CountedOnce'
  <2>1. \A x, y \in events' : x.id = y.id => x = y
    BY <1>1, <1>2 DEF CountedOnce
  <2>2. ASSUME NEW i \in EventIds
        PROVE  effects'[i] = IF \E x \in events' : x.id = i THEN 1 ELSE 0
    <3>1. CASE i = e.id
      BY <1>1, <1>2, <3>1 DEF CountedOnce, InboxType
    <3>2. CASE i # e.id
      BY <1>1, <3>2 DEF CountedOnce, InboxType
    <3> QED BY <3>1, <3>2
  <2> QED BY <2>1, <2>2 DEF CountedOnce
<1>4. SlotIsNewest'
  <2> SUFFICES ASSUME NEW x \in events', HasSlot(x)
               PROVE  x.slot.revision < slot'.revision \/ x.slot = slot'
    BY DEF SlotIsNewest, HasSlot
  <2>1. slot.revision \in Nat /\ e.slot.revision \in Nat
    BY SlotRevision DEF InboxType, Slots
  <2>2. x \in events \/ x = e
    BY <1>1
  <2>3. x.slot.revision \in Nat
    BY <2>2, SlotRevision DEF InboxType, Slots
  <2>4. slot' = IF HasSlot(e) THEN NewerSlot(e) ELSE slot
    BY DEF ApplyFresh
  <2>5. CASE x \in events
    BY <2>1, <2>3, <2>4, <2>5 DEF SlotIsNewest, NewerSlot
  <2>6. CASE x = e
    <3>1. ~(e.slot.revision = slot.revision /\ e.slot # slot)
      BY <2>6 DEF ApplyFresh, SlotConflict
    <3> QED BY <2>1, <2>4, <2>6, <3>1 DEF NewerSlot
  <2> QED BY <2>2, <2>5, <2>6
<1>5. CollectedByEvent'
  <2> DEFINE Collects(x, t) == x.type = "pickup.collected" /\ HasSlot(x) /\ x.slot.task = t
  <2> SUFFICES ASSUME NEW t \in OrderTasks
               PROVE  t \in orders'.collected <=> \E x \in events' : Collects(x, t)
    BY DEF CollectedByEvent, HasSlot
  <2>1. t \in orders.collected <=> \E x \in events : Collects(x, t)
    BY DEF CollectedByEvent
  <2>2. t \in orders'.collected <=> t \in orders.collected \/ Collects(e, t)
    <3>1. orders' = IF HasSlot(e) THEN MarkedOrders(e) ELSE orders
      BY DEF ApplyFresh
    <3> QED BY <3>1 DEF MarkedOrders
  <2> HIDE DEF Collects
  <2> QED BY <1>1, <2>1, <2>2
<1> QED BY <1>3, <1>4, <1>5

-----------------------------------------------------------------------------
(* An empty inbox, and no event yet.                                       *)
LEMMA InboxInitially == Init => InboxInv /\ EventsInv
  BY DEF Init, InboxInv, EventsInv, InboxType, Slots, NoSlot, HandlersHaveRows,
         ProcessedWasApplied, CountedOnce, SlotIsNewest, CollectedByEvent, NoRow, Idle

(* A handler that only moves on, or stops.                                 *)
LEMMA MovesOn ==
    ASSUME InboxType, NEW h \in Handlers, handler[h] # Idle,
           NEW pc \in {"arrived", "absent", "stored", "applied", "failed"}, Step(h, pc)
    PROVE  /\ handler' \in [Handlers -> {Idle} \cup
                 [pc : {"arrived", "absent", "stored", "applied", "failed"}, up : Uplinks]]
           /\ handler'[h] = [pc |-> pc, up |-> handler[h].up]
           /\ handler'[h].pc = pc /\ handler'[h].up = handler[h].up
           /\ \A g \in Handlers \ {h} : handler'[g] = handler[g]
<1>1. handler[h] \in [pc : {"arrived", "absent", "stored", "applied", "failed"}, up : Uplinks]
  BY DEF InboxType
<1> QED BY <1>1 DEF InboxType, Step

(* ... or forgets its uplink.                                              *)
LEMMA Finishes ==
    ASSUME InboxType, NEW h \in Handlers, Finish(h)
    PROVE  /\ handler' \in [Handlers -> {Idle} \cup
                 [pc : {"arrived", "absent", "stored", "applied", "failed"}, up : Uplinks]]
           /\ handler'[h] = Idle
           /\ \A g \in Handlers \ {h} : handler'[g] = handler[g]
  BY DEF InboxType, Finish

(* A handler with a pc of its own holds an uplink.                         *)
LEMMA Busy ==
    ASSUME InboxType, NEW h \in Handlers, handler[h] # Idle
    PROVE  /\ handler[h].up \in Uplinks /\ handler[h].up.id \in Ids
           /\ handler[h].up.event \in AllEvents
  BY UplinkFields DEF InboxType

(* A handler may move on to what it has.                                   *)
LEMMA MovesOnWithRow ==
    ASSUME InboxInv, NEW h \in Handlers, handler[h] # Idle,
           NEW pc \in {"arrived", "absent", "stored", "applied", "failed"}, Step(h, pc),
           UNCHANGED rows, events \subseteq events',
           pc \in {"stored", "applied", "failed"} =>
              /\ rows[handler[h].up.id] # NoRow
              /\ SameBusiness(rows[handler[h].up.id].up, handler[h].up),
           pc = "applied" => handler[h].up.event \in events'
    PROVE  HandlersHaveRows'
<1> USE DEF InboxInv
<1>1. ASSUME NEW g \in Handlers
      PROVE  /\ handler'[g].pc \in {"stored", "applied", "failed"} =>
                   /\ rows'[handler'[g].up.id] # NoRow
                   /\ SameBusiness(rows'[handler'[g].up.id].up, handler'[g].up)
             /\ handler'[g].pc = "applied" => handler'[g].up.event \in events'
  <2>1. CASE g = h
    <3>1. handler'[h].pc = pc /\ handler'[h].up = handler[h].up
      BY MovesOn
    <3> QED BY <2>1, <3>1
  <2>2. CASE g # h
    <3>1. handler'[g] = handler[g]
      BY <2>2, MovesOn
    <3> QED BY <3>1 DEF HandlersHaveRows
  <2> QED BY <2>1, <2>2
<1> QED BY <1>1 DEF HandlersHaveRows


(* A handler may finish after it marked a row: content stays with its row. *)
LEMMA FinishesMarking ==
    ASSUME InboxInv, NEW h \in Handlers, Finish(h), UNCHANGED domain,
           NEW j \in Ids, rows[j] # NoRow, rows'[j] # NoRow, rows'[j].up = rows[j].up,
           \A i \in Ids : i # j => rows'[i] = rows[i]
    PROVE  HandlersHaveRows'
<1> USE DEF InboxInv
<1>1. \A i \in Ids : /\ rows'[i] # NoRow <=> rows[i] # NoRow
                     /\ rows'[i].up = rows[i].up
  OBVIOUS
<1>2. \A i \in Ids : rows'[i] # NoRow => rows'[i].up.id = i
  BY <1>1 DEF HandlersHaveRows
<1>3. ASSUME NEW g \in Handlers
      PROVE  /\ handler'[g].pc \in {"stored", "applied", "failed"} =>
                   /\ rows'[handler'[g].up.id] # NoRow
                   /\ SameBusiness(rows'[handler'[g].up.id].up, handler'[g].up)
             /\ handler'[g].pc = "applied" => handler'[g].up.event \in events'
  <2>1. CASE g = h
    <3>1. handler'[g].pc = "idle"
      BY <2>1, Finishes DEF Idle
    <3> QED BY <3>1
  <2>2. CASE g # h
    <3>1. handler'[g] = handler[g] /\ events' = events
      BY <2>2, Finishes DEF domain
    <3>2. handler[g].pc \in {"stored", "applied", "failed"} => handler[g].up.id \in Ids
      BY Busy DEF Idle
    <3> QED BY <1>1, <3>1, <3>2 DEF HandlersHaveRows
  <2> QED BY <2>1, <2>2
<1> QED BY <1>2, <1>3 DEF HandlersHaveRows

(* The steps of a handler, and of everybody else                           *)
LEMMA HandlersStep ==
    ASSUME InboxInv, NEW h \in Handlers, HandlerStep(h) \/ HandleFails(h) \/ Crash(h)
    PROVE  InboxInv'
<1> USE DEF InboxInv
<1> DEFINE u == handler[h].up
<1>1. CASE Lookup(h)
  <2>1. handler[h] # Idle /\ UNCHANGED <<rows, domain>>
    BY <1>1 DEF Lookup, Idle
  <2>2. u \in Uplinks /\ u.id \in Ids
    BY <2>1, Busy
  <2>3. CASE Finish(h)
    <3>1. HandlersHaveRows'
      BY <2>1, <2>3, Finishes DEF HandlersHaveRows, domain, Idle
    <3> QED BY <2>1, <2>3, <3>1, Finishes DEF InboxType, ProcessedWasApplied, domain
  <2>4. CASE Step(h, "absent")
    <3>1. HandlersHaveRows'
      BY <2>1, <2>4, MovesOnWithRow DEF domain
    <3> QED BY <2>1, <2>4, <3>1, MovesOn DEF InboxType, ProcessedWasApplied, domain
  <2>5. CASE rows[u.id] # NoRow /\ SameBusiness(rows[u.id].up, u) /\ Step(h, "stored")
    <3>1. HandlersHaveRows'
      BY <2>1, <2>5, MovesOnWithRow DEF domain
    <3> QED BY <2>1, <2>5, <3>1, MovesOn DEF InboxType, ProcessedWasApplied, domain
  <2> QED BY <1>1, <2>3, <2>4, <2>5 DEF Lookup
<1>2. CASE Insert(h)
  <2>1. handler[h] # Idle /\ UNCHANGED domain
    BY <1>2 DEF Insert, Idle
  <2>2. u \in Uplinks /\ u.id \in Ids
    BY <2>1, Busy
  <2>3. CASE Finish(h) /\ UNCHANGED rows
    <3>1. HandlersHaveRows'
      BY <2>1, <2>3, Finishes DEF HandlersHaveRows, domain, Idle
    <3> QED BY <2>1, <2>3, <3>1, Finishes DEF InboxType, ProcessedWasApplied, domain
  <2>4. CASE /\ ~Clashes(u)
             /\ rows' = [rows EXCEPT ![u.id] = [status |-> "RECEIVED", up |-> u]]
             /\ Step(h, "stored")
    <3>1. rows[u.id] = NoRow
      BY <2>2, <2>4 DEF Clashes
    <3>2. rows' \in [Ids -> {NoRow} \cup
                       [status : {"RECEIVED", "RETRY", "PROCESSED"}, up : Uplinks]]
      BY <2>2, <2>4 DEF InboxType
    <3>3. /\ rows'[u.id] = [status |-> "RECEIVED", up |-> u] /\ rows'[u.id] # NoRow
          /\ \A i \in Ids : i # u.id => rows'[i] = rows[i]
      BY <2>2, <2>4 DEF InboxType, NoRow
    <3>4. SameBusiness(u, u)
      BY DEF SameBusiness
    <3>5. \A i \in Ids : rows'[i] # NoRow => rows'[i].up.id = i
      BY <3>3 DEF HandlersHaveRows
    <3>6. ASSUME NEW g \in Handlers, handler'[g].pc \in {"stored", "applied", "failed"}
          PROVE  /\ rows'[handler'[g].up.id] # NoRow
                 /\ SameBusiness(rows'[handler'[g].up.id].up, handler'[g].up)
                 /\ handler'[g].pc = "applied" => handler'[g].up.event \in events'
      <4>1. CASE g = h
        <5>1. handler'[g].pc = "stored" /\ handler'[g].up = u
          BY <2>1, <2>4, <4>1, MovesOn
        <5>2. rows'[u.id].up = u
          BY <3>3
        <5> QED BY <3>3, <3>4, <5>1, <5>2
      <4>2. CASE g # h
        <5>1. handler'[g] = handler[g]
          BY <2>1, <2>4, <4>2, MovesOn
        <5>2. handler[g] # Idle
          BY <3>6, <5>1 DEF Idle
        <5>3. handler[g].up.id # u.id /\ handler[g].up.id \in Ids
          BY <3>1, <3>6, <5>1, <5>2, Busy DEF HandlersHaveRows
        <5> QED BY <2>1, <3>3, <3>6, <5>1, <5>3 DEF HandlersHaveRows, domain
      <4> QED BY <4>1, <4>2
    <3>7. ProcessedWasApplied'
      BY <2>1, <3>3 DEF ProcessedWasApplied, domain
    <3>8. HandlersHaveRows'
      BY <3>5, <3>6 DEF HandlersHaveRows
    <3> QED BY <2>1, <2>4, <3>2, <3>7, <3>8, MovesOn DEF InboxType, domain
  <2> QED BY <1>2, <2>3, <2>4 DEF Insert
<1>3. CASE Handle(h)
  <2>1. handler[h] # Idle /\ handler[h].pc = "stored" /\ UNCHANGED rows
    BY <1>3 DEF Handle, Idle
  <2>2. u \in Uplinks /\ u.event \in AllEvents
    BY <2>1, Busy
  <2>3. events \subseteq events'
    BY <1>3 DEF Handle, ApplyFresh, domain
  <2>4. PICK pc \in {"applied", "failed"} :
           Step(h, pc) /\ (pc = "applied" => u.event \in events')
    BY <1>3 DEF Handle, ApplyFresh, Duplicate, domain
  <2>5. InboxType'
    <3>0. handler' \in [Handlers -> {Idle} \cup
             [pc : {"arrived", "absent", "stored", "applied", "failed"}, up : Uplinks]]
      BY <2>1, <2>4, MovesOn
    <3>1. CASE ApplyFresh(u.event)
      <4>1. /\ events' \subseteq AllEvents /\ slot' \in Slots
            /\ orders' \in [required : SUBSET OrderTasks, collected : SUBSET OrderTasks]
            /\ effects' \in [EventIds -> Nat]
        BY <2>2, <3>1, ApplyKeepsType
      <4> QED BY <2>1, <3>0, <4>1 DEF InboxType
    <3>2. CASE UNCHANGED domain
      BY <2>1, <3>0, <3>2 DEF InboxType, domain
    <3> QED BY <1>3, <3>1, <3>2 DEF Handle
  <2>6. HandlersHaveRows'
    <3>1. rows[u.id] # NoRow /\ SameBusiness(rows[u.id].up, u)
      BY <2>1 DEF HandlersHaveRows
    <3> QED BY <2>1, <2>3, <2>4, <3>1, MovesOnWithRow
  <2> QED BY <2>1, <2>3, <2>5, <2>6 DEF ProcessedWasApplied
<1>4. CASE HandleFails(h)
  <2>1. handler[h] # Idle /\ handler[h].pc = "stored" /\ UNCHANGED <<rows, domain>>
    BY <1>4 DEF HandleFails, Idle
  <2>2. Step(h, "failed")
    BY <1>4 DEF HandleFails
  <2>3. HandlersHaveRows'
    <3>1. rows[u.id] # NoRow /\ SameBusiness(rows[u.id].up, u)
      BY <2>1 DEF HandlersHaveRows
    <3> QED BY <2>1, <2>2, <3>1, MovesOnWithRow DEF domain
  <2> QED BY <2>1, <2>2, <2>3, MovesOn DEF InboxType, ProcessedWasApplied, domain
<1>5. CASE Processed(h)
  <2>1. handler[h] # Idle /\ handler[h].pc = "applied" /\ UNCHANGED domain /\ Finish(h)
    BY <1>5 DEF Processed, Idle
  <2>2. u \in Uplinks /\ u.id \in Ids
    BY <2>1, Busy
  <2>3. rows[u.id] # NoRow /\ SameBusiness(rows[u.id].up, u) /\ u.event \in events
    BY <2>1 DEF HandlersHaveRows
  <2>4. rows' = [rows EXCEPT ![u.id] = [rows[u.id] EXCEPT !.status = "PROCESSED"]]
    BY <1>5, <2>3 DEF Processed
  <2>5. rows[u.id] \in [status : {"RECEIVED", "RETRY", "PROCESSED"}, up : Uplinks]
    BY <2>2, <2>3 DEF InboxType
  <2>6. /\ rows'[u.id] = [status |-> "PROCESSED", up |-> rows[u.id].up]
        /\ \A i \in Ids : i # u.id => rows'[i] = rows[i]
    BY <2>2, <2>4, <2>5 DEF InboxType
  <2>7. rows' \in [Ids -> {NoRow} \cup
                     [status : {"RECEIVED", "RETRY", "PROCESSED"}, up : Uplinks]]
    BY <2>2, <2>4, <2>5 DEF InboxType
  <2>8. rows[u.id].up.event = u.event
    BY <2>2, <2>3, <2>5, SameEvent
  <2>9. ProcessedWasApplied'
    BY <2>1, <2>3, <2>6, <2>8 DEF ProcessedWasApplied, domain
  <2>10. rows'[u.id] # NoRow
    BY <2>6 DEF NoRow
  <2>11. HandlersHaveRows'
    <3>1. rows'[u.id].up = rows[u.id].up
      BY <2>6
    <3> QED BY <2>1, <2>2, <2>3, <2>6, <2>10, <3>1, FinishesMarking
  <2> QED BY <2>1, <2>7, <2>9, <2>11, Finishes DEF InboxType, domain
<1>6. CASE MarkRetry(h)
  <2>1. handler[h] # Idle /\ UNCHANGED domain /\ Finish(h)
    BY <1>6 DEF MarkRetry, Idle
  <2>2. u \in Uplinks /\ u.id \in Ids
    BY <2>1, Busy
  <2>3. rows' = [rows EXCEPT ![u.id] = Retried(rows[u.id])]
    BY <1>6 DEF MarkRetry
  <2>4. CASE rows' = rows
    BY <2>1, <2>4, Finishes DEF HandlersHaveRows, domain, Idle, InboxType,
         ProcessedWasApplied
  <2>5. CASE rows' # rows
    <3>1. rows[u.id] # NoRow /\ rows' = [rows EXCEPT ![u.id] = [rows[u.id] EXCEPT !.status = "RETRY"]]
      <4>1. Retried(rows[u.id]) # rows[u.id]
        BY <2>2, <2>3, <2>5 DEF InboxType
      <4>2. rows[u.id] # NoRow
        BY <4>1 DEF Retried, NoRow
      <4> QED BY <2>3, <4>1, <4>2 DEF Retried
    <3>2. rows[u.id] \in [status : {"RECEIVED", "RETRY", "PROCESSED"}, up : Uplinks]
      BY <2>2, <3>1 DEF InboxType
    <3>3. /\ rows'[u.id] = [status |-> "RETRY", up |-> rows[u.id].up]
          /\ \A i \in Ids : i # u.id => rows'[i] = rows[i]
      BY <2>2, <3>1, <3>2 DEF InboxType
    <3>4. rows' \in [Ids -> {NoRow} \cup
                       [status : {"RECEIVED", "RETRY", "PROCESSED"}, up : Uplinks]]
      BY <2>2, <3>1, <3>2 DEF InboxType
    <3>5. ProcessedWasApplied'
      BY <2>1, <3>3 DEF ProcessedWasApplied, domain
    <3>6. rows'[u.id] # NoRow
      BY <3>3 DEF NoRow
    <3>7. HandlersHaveRows'
      <4>1. rows'[u.id].up = rows[u.id].up
        BY <3>3
      <4> QED BY <2>1, <2>2, <3>1, <3>3, <3>6, <4>1, FinishesMarking
    <3> QED BY <2>1, <3>4, <3>5, <3>7, Finishes DEF InboxType, domain
  <2> QED BY <2>4, <2>5
<1>7. CASE Crash(h)
  <2>1. Finish(h) /\ UNCHANGED <<rows, domain>>
    BY <1>7 DEF Crash
  <2> QED BY <2>1, Finishes DEF HandlersHaveRows, domain, Idle, InboxType, ProcessedWasApplied
<1> QED BY <1>1, <1>2, <1>3, <1>4, <1>5, <1>6, <1>7 DEF HandlerStep

(* A handler takes a message up from the gateway or from its row.          *)
LEMMA TakesUp ==
    ASSUME InboxInv, NEW h \in Handlers, handler[h] = Idle, NEW v \in Uplinks,
           handler' = [handler EXCEPT ![h] = [pc |-> "arrived", up |-> v]],
           UNCHANGED <<rows, domain>>
    PROVE  InboxInv'
<1>1. InboxType'
  BY DEF InboxInv, InboxType, domain
<1>2. HandlersHaveRows'
  BY DEF InboxInv, InboxType, HandlersHaveRows, domain
<1> QED BY <1>1, <1>2 DEF InboxInv, ProcessedWasApplied, domain

(* Every step keeps the handlers and their rows together.                  *)
LEMMA InboxKept == InboxInv /\ [Next]_vars => InboxInv'
<1> SUFFICES ASSUME InboxInv, [Next]_vars PROVE InboxInv'
  OBVIOUS
<1> USE DEF InboxInv
<1>1. ASSUME NEW h \in Handlers, HandlerStep(h) \/ HandleFails(h) \/ Crash(h)
      PROVE  InboxInv'
  BY <1>1, HandlersStep
<1>2. ASSUME NEW h \in Handlers, NEW v \in Uplinks, Arrive(h, v)
      PROVE  InboxInv'
  BY <1>2, TakesUp DEF Arrive
<1>3. ASSUME NEW h \in Handlers, NEW i \in Ids, Recover(h, i)
      PROVE  InboxInv'
  <2>1. rows[i].up \in Uplinks
    BY <1>3 DEF Recover, Recoverable, InboxType, NoRow
  <2> QED BY <1>3, <2>1, TakesUp DEF Recover
<1>4. ASSUME NEW e \in AllEvents, HttpEvent(e)
      PROVE  InboxInv'
  <2>1. ApplyFresh(e) /\ UNCHANGED <<rows, handler>> /\ events \subseteq events'
    BY <1>4 DEF HttpEvent, ApplyFresh
  <2>2. InboxType'
    BY <2>1, ApplyKeepsType DEF InboxType
  <2> QED BY <2>1, <2>2 DEF HandlersHaveRows, ProcessedWasApplied
<1>5. ASSUME NEW i \in Ids, CleanInbox(i)
      PROVE  InboxInv'
  <2>1. /\ rows' = [rows EXCEPT ![i] = NoRow] /\ UNCHANGED <<domain, handler>>
        /\ \A h \in Handlers : handler[h] # Idle => handler[h].up.id # i
    BY <1>5 DEF CleanInbox
  <2>2. InboxType'
    BY <2>1 DEF InboxType, domain
  <2>3. rows'[i] = NoRow /\ \A j \in Ids : j # i => rows'[j] = rows[j]
    BY <2>1 DEF InboxType
  <2>4. ProcessedWasApplied'
    BY <2>1, <2>3 DEF ProcessedWasApplied, NoRow, domain
  <2>5. ASSUME NEW h \in Handlers, handler[h].pc \in {"stored", "applied", "failed"}
        PROVE  rows'[handler[h].up.id] = rows[handler[h].up.id]
    <3>1. handler[h] # Idle
      BY <2>5 DEF Idle
    <3> QED BY <2>1, <2>3, <3>1, Busy
  <2>6. HandlersHaveRows'
    BY <2>1, <2>3, <2>5 DEF HandlersHaveRows, domain
  <2> QED BY <2>2, <2>4, <2>6
<1>6. CASE TakeRequest
  BY <1>6 DEF TakeRequest, InboxType, HandlersHaveRows, ProcessedWasApplied
<1>7. CASE UNCHANGED vars
  BY <1>7 DEF vars, domain, InboxType, HandlersHaveRows, ProcessedWasApplied
<1> QED BY <1>1, <1>2, <1>3, <1>4, <1>5, <1>6, <1>7 DEF Next

(* A row is settled only when its event is committed: ingest and recovery, *)
(* whatever runs between their transactions.                               *)
THEOREM SettledWasApplied == Spec => []ProcessedWasApplied
<1>1. InboxInv => ProcessedWasApplied
  BY DEF InboxInv
<1> QED BY <1>1, InboxInitially, InboxKept, PTL DEF Spec

-----------------------------------------------------------------------------
(* Only the event transaction touches what events decide.                  *)
LEMMA EventsKept == InboxInv /\ InboxInv' /\ EventsInv /\ [Next]_vars => EventsInv'
<1> SUFFICES ASSUME InboxInv, InboxInv', EventsInv, [Next]_vars PROVE EventsInv'
  OBVIOUS
<1>1. InboxType'
  BY DEF InboxInv
<1>2. CASE \E e \in AllEvents : ApplyFresh(e)
  BY <1>1, <1>2, ApplyKeepsEvents DEF EventsInv
<1>3. CASE UNCHANGED <<events, slot, orders, effects>>
  BY <1>1, <1>3 DEF EventsInv, CountedOnce, SlotIsNewest, HasSlot, CollectedByEvent
<1>4. ASSUME NEW h \in Handlers, Handle(h)
      PROVE  (\E e \in AllEvents : ApplyFresh(e)) \/ UNCHANGED <<events, slot, orders, effects>>
  <2>1. handler[h].up.event \in AllEvents
    BY <1>4, Busy DEF Handle, Idle, InboxInv
  <2> QED BY <1>4, <2>1 DEF Handle, domain
<1> QED BY <1>2, <1>3, <1>4 DEF Next, HandlerStep, Lookup, Insert, Processed, MarkRetry,
       HandleFails, Crash, Arrive, Recover, HttpEvent, CleanInbox, TakeRequest, domain, vars

(* The invariant says how often an event is committed.                     *)
LEMMA EventsCounted == EventsInv => EventsDecideState
<1> SUFFICES ASSUME EventsInv PROVE EventsDecideState
  OBVIOUS
<1>1. ASSUME NEW i \in EventIds
      PROVE  Cardinality({e \in events : e.id = i}) = effects[i]
  <2>1. CASE \E e \in events : e.id = i
    <3>1. PICK e \in events : e.id = i
      BY <2>1
    <3>2. {x \in events : x.id = i} = {e}
      BY <3>1 DEF EventsInv, CountedOnce
    <3> QED BY <2>1, <3>2, FS_Singleton DEF EventsInv, CountedOnce
  <2>2. CASE ~\E e \in events : e.id = i
    <3>1. {x \in events : x.id = i} = {}
      BY <2>2
    <3> QED BY <2>2, <3>1, FS_EmptySet DEF EventsInv, CountedOnce
  <2> QED BY <2>1, <2>2
<1> QED BY <1>1 DEF EventsDecideState, EventsInv, SlotIsNewest, CollectedByEvent

(* The domain's state is a function of the set of committed events, each   *)
(* of which took effect once: DeviceMessageService.event.                  *)
THEOREM EventsAlwaysDecide == Spec => []EventsDecideState
<1>1. Spec => []InboxInv
  BY InboxInitially, InboxKept, PTL DEF Spec
<1> QED BY <1>1, InboxInitially, EventsKept, EventsCounted, PTL DEF Spec

-----------------------------------------------------------------------------
(* The dispatch queue                                                      *)

(* What the theorem needs of the row and of the workers' fields.           *)
RequestType ==
    /\ request \in [status: {"NONE", "PENDING", "PROCESSING", "RETRY"}, revision: Nat]
    /\ worker \in [Workers -> [phase: {"idle", "leased", "decided"},
                               revision: Nat,
                               verdict: {"none", "dispatch", "changed", "retry",
                                         "complete"},
                               missed: BOOLEAN]]

(* A worker that holds a lease finds the row, at its revision or past it,  *)
(* and past it when a request came after it read the queue.                *)
LeaseKeepsRow ==
    \A w \in Workers : worker[w].phase # "idle" =>
        /\ request.status # "NONE"
        /\ request.revision >= worker[w].revision
        /\ worker[w].missed => request.revision > worker[w].revision

LeaseInv == RequestType /\ LeaseKeepsRow

(* Raising a request keeps the row and moves its revision on.              *)
LEMMA EnqueueAdvances ==
    ASSUME RequestType
    PROVE  /\ Enqueued \in [status: {"PENDING", "PROCESSING"}, revision: Nat]
           /\ request.status # "NONE" => Enqueued.revision = request.revision + 1
<1>1. CASE request = NoRequest
  BY <1>1 DEF RequestType, Enqueued, NoRequest
<1>2. CASE request # NoRequest
  BY <1>2 DEF RequestType, Enqueued
<1> QED BY <1>1, <1>2

(* A request raised beside a lease takes the row past it.                  *)
LEMMA RequestDispatchKeepsLease ==
    ASSUME LeaseInv, RequestDispatch
    PROVE  LeaseInv'
<1> USE DEF LeaseInv
<1>1. /\ request' \in [status: {"PENDING", "PROCESSING"}, revision: Nat]
      /\ request.status # "NONE" => request'.revision = request.revision + 1
  BY EnqueueAdvances DEF RequestDispatch
<1>2. RequestType'
  <2>1. worker' = [w \in Workers |->
                     [phase |-> worker[w].phase, revision |-> worker[w].revision,
                      verdict |-> worker[w].verdict,
                      missed |-> worker[w].missed \/ worker[w].phase = "decided"]]
    BY DEF RequestType, RequestDispatch
  <2>2. \A w \in Workers : (worker[w].missed \/ worker[w].phase = "decided") \in BOOLEAN
    OBVIOUS
  <2> QED BY <1>1, <2>1, <2>2 DEF RequestType
<1>3. LeaseKeepsRow'
  <2> SUFFICES ASSUME NEW w \in Workers, worker'[w].phase # "idle"
               PROVE  /\ request'.status # "NONE"
                      /\ request'.revision >= worker'[w].revision
                      /\ worker'[w].missed => request'.revision > worker'[w].revision
    BY DEF LeaseKeepsRow
  <2>1. /\ worker'[w].phase = worker[w].phase
        /\ worker'[w].revision = worker[w].revision
    BY DEF RequestDispatch, RequestType
  <2>2. /\ request.status # "NONE" /\ request.revision >= worker[w].revision
        /\ request.revision \in Nat /\ worker[w].revision \in Nat
    BY <2>1 DEF LeaseKeepsRow, RequestType
  <2>3. request'.status # "NONE"
    BY <1>1
  <2> QED BY <1>1, <2>1, <2>2, <2>3
<1> QED BY <1>2, <1>3

(* A lease given back keeps the row; only complete() at the row's own      *)
(* revision deletes it.                                                    *)
LEMMA GivingBack ==
    ASSUME RequestType, NEW r \in Nat
    PROVE  /\ Completed(r) \in [status: {"NONE", "PENDING", "PROCESSING", "RETRY"},
                                revision: Nat]
           /\ RequestRetried(r) \in [status: {"NONE", "PENDING", "PROCESSING", "RETRY"},
                              revision: Nat]
           /\ request.status # "NONE" => RequestRetried(r).status # "NONE"
           /\ request.status # "NONE" /\ request.revision # r
                 => Completed(r).status # "NONE"
  BY DEF RequestType, Completed, RequestRetried, Released, NoRequest

(* The lease keeps its row in every reachable state.                       *)
LEMMA LeaseHolds ==
    ASSUME NEW theWorker, Workers = {theWorker}
    PROVE  QueueSpec => []LeaseInv
<1> USE DEF LeaseInv
<1>1. QueueInit => LeaseInv
  BY DEF QueueInit, RequestType, LeaseKeepsRow, NoRequest, IdleWorker
<1>2. LeaseInv /\ [QueueNext]_queueVars => LeaseInv'
  <2> SUFFICES ASSUME LeaseInv, [QueueNext]_queueVars PROVE LeaseInv'
    OBVIOUS
  <2>1. CASE QueueJob
    BY <2>1, RequestDispatchKeepsLease DEF QueueJob
  <2>2. CASE MachineFree
    <3>1. CASE RequestDispatch
      BY <3>1, RequestDispatchKeepsLease
    <3>2. CASE UNCHANGED <<request, worker>>
      BY <3>2 DEF RequestType, LeaseKeepsRow
    <3> QED BY <2>2, <3>1, <3>2 DEF MachineFree
  <2>3. CASE CancelJob
    <3>1. UNCHANGED request
      BY <2>3 DEF CancelJob
    <3>2. PICK chosen \in BOOLEAN :
            worker' = [w \in Workers |->
                         IF chosen /\ worker[w].verdict = "dispatch"
                           THEN [worker[w] EXCEPT !.verdict = "changed"]
                           ELSE worker[w]]
      BY <2>3 DEF CancelJob
    <3> QED BY <3>1, <3>2 DEF RequestType, LeaseKeepsRow
  <2>4. CASE RepairMissing
    <3>1. \A w \in Workers : worker[w].phase = "idle"
      BY <2>4 DEF RepairMissing, LeaseKeepsRow, NoRequest
    <3> QED BY <2>4, <3>1 DEF RepairMissing, RequestType, LeaseKeepsRow
  <2>5. CASE LeaseExpires
    BY <2>5 DEF LeaseExpires, RequestType, LeaseKeepsRow
  <2>6. ASSUME NEW w \in Workers, ClaimRequest(w)
        PROVE  LeaseInv'
    <3>1. request.status # "NONE"
      BY <2>6 DEF ClaimRequest
    <3>2. request' = [status |-> "PROCESSING", revision |-> request.revision]
      BY <2>6 DEF ClaimRequest, Released, RequestType
    <3>3. worker' = [worker EXCEPT ![w] = [phase |-> "leased", revision |-> request.revision,
                                           verdict |-> "none", missed |-> FALSE]]
      BY <2>6 DEF ClaimRequest, Leased
    <3>4. request.revision \in Nat
      BY DEF RequestType
    <3>5. RequestType'
      BY <3>2, <3>3, <3>4 DEF RequestType
    <3> QED BY <3>1, <3>2, <3>3, <3>4, <3>5 DEF RequestType, LeaseKeepsRow
  <2>7. ASSUME NEW w \in Workers, Decide(w)
        PROVE  LeaseInv'
    <3>1. worker' = [worker EXCEPT ![w] = [phase |-> "decided",
                                           revision |-> worker[w].revision,
                                           verdict |-> Verdict,
                                           missed |-> FALSE]]
      BY <2>7 DEF Decide, Decided
    <3>2. Verdict \in {"dispatch", "retry", "complete"}
      BY DEF Verdict
    <3>3. worker[w].phase # "idle" /\ UNCHANGED request
      BY <2>7 DEF Decide
    <3>4. RequestType'
      BY <3>1, <3>2, <3>3 DEF RequestType
    <3> QED BY <3>1, <3>3, <3>4 DEF RequestType, LeaseKeepsRow
  <2>8. ASSUME NEW w \in Workers, Commit(w)
        PROVE  LeaseInv'
    <3>1. worker[w].revision \in Nat
      BY DEF RequestType
    <3>2. request' \in {RequestRetried(worker[w].revision), Completed(worker[w].revision)}
      BY <2>8 DEF Commit
    <3>3. worker' = [worker EXCEPT ![w] = IdleWorker]
      BY <2>8 DEF Commit
    <3> QED BY <3>1, <3>2, <3>3, GivingBack DEF RequestType, LeaseKeepsRow, IdleWorker
  <2>9. ASSUME NEW w \in Workers, Fail(w)
        PROVE  LeaseInv'
    <3>1. worker[w].revision \in Nat
      BY DEF RequestType
    <3> QED BY <2>9, <3>1, GivingBack DEF Fail, RequestType, LeaseKeepsRow, IdleWorker
  <2>10. ASSUME NEW w \in Workers, WorkerCrash(w)
         PROVE  LeaseInv'
    BY <2>10 DEF WorkerCrash, RequestType, LeaseKeepsRow, IdleWorker
  <2>11. CASE UNCHANGED queueVars
    BY <2>11 DEF queueVars, RequestType, LeaseKeepsRow
  <2> QED
    BY <2>1, <2>2, <2>3, <2>4, <2>5, <2>6, <2>7, <2>8, <2>9, <2>10, <2>11 DEF QueueNext
<1> QED BY <1>1, <1>2, PTL DEF QueueSpec

(* With one domain worker, a request raised while a dispatch pass was      *)
(* being processed is still there after the pass, whether it commits,      *)
(* fails or dies: DispatchRepository.complete and retry.                   *)
THEOREM RequestSurvivesOneWorker ==
    ASSUME NEW theWorker, Workers = {theWorker}
    PROVE  QueueSpec => RaisedRequestSurvives
<1>1. LeaseInv /\ [QueueNext]_queueVars =>
        [\A w \in Workers :
           worker[w].phase = "decided" /\ worker[w].missed /\ worker'[w] = IdleWorker
              => request' # NoRequest]_queueVars
  <2> SUFFICES ASSUME LeaseInv, [QueueNext]_queueVars, NEW w \in Workers,
                      worker[w].phase = "decided", worker[w].missed,
                      worker'[w] = IdleWorker
               PROVE  request' # NoRequest
    OBVIOUS
  <2>1. /\ request.status # "NONE"
        /\ request.revision > worker[w].revision
        /\ worker[w].revision \in Nat /\ request.revision \in Nat
    BY DEF LeaseInv, LeaseKeepsRow, RequestType
  <2>2. CASE \E v \in Workers : Commit(v)
    BY <2>1, <2>2, GivingBack, SMTT(20) DEF Commit, LeaseInv, NoRequest
  <2>3. CASE \E v \in Workers : Fail(v)
    BY <2>1, <2>3, GivingBack DEF Fail, LeaseInv, NoRequest
  <2>4. CASE \E v \in Workers : WorkerCrash(v)
    BY <2>1, <2>4 DEF WorkerCrash, NoRequest
  <2>5. CASE ~\E v \in Workers : Commit(v) \/ Fail(v) \/ WorkerCrash(v)
    <3>1. worker'[w].phase # "idle"
      BY <2>5 DEF QueueNext, QueueJob, MachineFree, CancelJob,
           RepairMissing, LeaseExpires,
                  RequestDispatch, ClaimRequest, Decide, LeaseInv, RequestType,
                  queueVars
    <3> QED BY <3>1 DEF IdleWorker
  <2> QED BY <2>2, <2>3, <2>4, <2>5
<1>2. QueueSpec => []LeaseInv
  BY LeaseHolds
<1> QED BY <1>1, <1>2, PTL DEF QueueSpec, RaisedRequestSurvives

-----------------------------------------------------------------------------
(* The telemetry flush                                                     *)

Stamped == [val : [Columns -> Nat], seen : Nat]
Rows == [val : [Columns -> Nat \cup {Offline}], seen : Nat]

WriterRows ==
    [pc : {"idle", "stamped", "hashed", "marked", "fallback", "writing", "resend"},
     fields : SUBSET Columns, mode : {"single", "batch"}, stamp : Nat]
FlusherRows == [pc : {"idle", "claimed", "read", "applied", "failed"}, snap : Stamped]

(* What the proof needs of the types.                                      *)
FlushType ==
    /\ hash \in Stamped
    /\ sql \in Rows
    /\ dirty \in BOOLEAN
    /\ lease \in Flushers \cup {None}
    /\ writer \in [Writers -> WriterRows]
    /\ flusher \in [Flushers -> FlusherRows]
    /\ clock \in Nat /\ fallbacks \in Nat

(* Redis runs ahead of the row, and the report under way ahead of Redis.   *)
RedisAhead ==
    /\ sql.seen <= hash.seen /\ hash.seen <= clock
    /\ \A w \in Writers :
          /\ writer[w].pc \notin {"fallback", "writing"}
          /\ writer[w].pc = "stamped" => hash.seen < writer[w].stamp /\ writer[w].stamp <= clock

(* A row or a snapshot as new as the hash says what the hash says; a column *)
(* that Redis never had is in neither.                                     *)
EqualWhenCurrent ==
    /\ sql.seen = hash.seen => \A c \in Columns : sql.val[c] \in {hash.val[c], Offline}
    /\ \A c \in Columns : hash.val[c] = 0 => sql.val[c] \in {0, Offline}
    /\ \A f \in Flushers : flusher[f].pc = "read" =>
          /\ flusher[f].snap.seen <= hash.seen
          /\ flusher[f].snap.seen = hash.seen => flusher[f].snap = hash
          /\ \A c \in Columns : hash.val[c] = 0 => flusher[f].snap.val[c] = 0

(* The device is in the dirty set, or a writer will put it there.          *)
WillBeDirty ==
    dirty \/ \E w \in Writers : writer[w].pc \in {"stamped", "hashed", "resend"}

(* What Redis has and the row has not is dirty, leased or being written;   *)
(* what the lease's own snapshot misses is dirty or being written.         *)
BehindIsTracked ==
    /\ sql.seen < hash.seen => WillBeDirty \/ lease # None
    /\ \A f \in Flushers : lease = f =>
          /\ flusher[f].pc = "read" /\ flusher[f].snap.seen < hash.seen => WillBeDirty
          /\ flusher[f].pc = "applied" /\ sql.seen < hash.seen => WillBeDirty

FlushInv ==
    /\ FlushType
    /\ fallbacks = 0 => RedisAhead /\ EqualWhenCurrent /\ BehindIsTracked

-----------------------------------------------------------------------------
(* At first neither Redis nor the row has anything.                        *)
LEMMA FlushInitially == FlushInit => FlushInv
<1> SUFFICES ASSUME FlushInit PROVE FlushInv
  OBVIOUS
<1>1. Blank \in Stamped /\ Blank \in Rows
  BY DEF Blank, Stamped, Rows
<1>2. FlushType
  BY <1>1 DEF FlushInit, FlushType, IdleWriter, IdleFlusher, WriterRows,
       FlusherRows
<1>3. /\ hash = Blank /\ sql = Blank /\ clock = 0
      /\ Blank.seen = 0 /\ \A c \in Columns : Blank.val[c] = 0
      /\ \A w \in Writers : writer[w].pc = "idle"
      /\ \A f \in Flushers : flusher[f].pc = "idle"
  BY DEF FlushInit, Blank, IdleWriter, IdleFlusher
<1>4. RedisAhead /\ EqualWhenCurrent /\ BehindIsTracked
  BY <1>3 DEF RedisAhead, EqualWhenCurrent, BehindIsTracked
<1> QED BY <1>2, <1>4 DEF FlushInv

(* At most one report of the device is being written at a time.            *)
OneWriter == \A v, w \in Writers : v = w

(* Writing some columns of a row.                                          *)
LEMMA WrittenRow ==
    ASSUME NEW row, NEW fields, NEW t \in Nat
    PROVE  /\ row \in Stamped => Written(row, fields, t) \in Stamped
           /\ row \in Rows => Written(row, fields, t) \in Rows
           /\ Written(row, fields, t).seen = t
           /\ \A c \in Columns :
                 Written(row, fields, t).val[c] = IF c \in fields THEN t ELSE row.val[c]
  BY DEF Written, Stamped, Rows

(* What a flush makes of a row: never an older one, and what the snapshot  *)
(* has, except in columns that it lacks.                                   *)
LEMMA AppliedRow ==
    ASSUME FlushType, NEW snap \in Stamped
    PROVE  /\ Applied(sql, snap) \in Rows
           /\ Applied(sql, snap).seen >= sql.seen /\ Applied(sql, snap).seen >= snap.seen
           /\ Applied(sql, snap).seen \in {sql.seen, snap.seen}
           /\ \A c \in Columns : Applied(sql, snap).val[c] \in {sql.val[c], snap.val[c]}
           /\ \/ Applied(sql, snap) = sql
              \/ /\ Applied(sql, snap).seen = snap.seen
                 /\ \A c \in Columns : Applied(sql, snap).val[c] =
                       IF snap.val[c] # 0 THEN snap.val[c] ELSE sql.val[c]
<1>1. sql \in Rows /\ sql.seen \in Nat /\ sql.val \in [Columns -> Nat \cup {Offline}]
  BY DEF FlushType, Rows
<1>2. snap.seen \in Nat /\ snap.val \in [Columns -> Nat]
  BY DEF Stamped
<1>3. CASE snap.seen < sql.seen \/ snap = Blank
  <2>1. Applied(sql, snap) = sql /\ snap.seen <= sql.seen
    BY <1>1, <1>2, <1>3 DEF Applied, Blank
  <2> QED BY <1>1, <1>2, <1>3, <2>1
<1>4. CASE ~(snap.seen < sql.seen \/ snap = Blank)
  <2>1. Applied(sql, snap) =
          [val |-> [c \in Columns |-> IF snap.val[c] # 0 THEN snap.val[c] ELSE sql.val[c]],
           seen |-> snap.seen]
    BY <1>4 DEF Applied
  <2>2. Applied(sql, snap) \in Rows
    BY <1>1, <1>2, <2>1 DEF Rows
  <2> QED BY <1>1, <1>2, <1>4, <2>1, <2>2
<1> QED BY <1>3, <1>4

-----------------------------------------------------------------------------
(* The types *)

(* A writer's record stays one when its place, stamp or report changes.    *)
LEMMA WriterRow ==
    ASSUME FlushType, NEW w \in Writers
    PROVE  /\ IdleWriter \in WriterRows
           /\ \A pc \in {"stamped", "hashed", "marked", "fallback", "writing", "resend"} :
                 /\ [writer[w] EXCEPT !.pc = pc] \in WriterRows
                 /\ \A t \in Nat : [writer[w] EXCEPT !.pc = pc, !.stamp = t] \in WriterRows
  BY DEF FlushType, WriterRows, IdleWriter

(* A flusher's record stays one, too.                                      *)
LEMMA FlusherRow ==
    ASSUME FlushType, NEW f \in Flushers
    PROVE  /\ IdleFlusher \in FlusherRows
           /\ \A pc \in {"claimed", "read", "applied", "failed"} :
                 /\ [flusher[f] EXCEPT !.pc = pc] \in FlusherRows
                 /\ \A snap \in Stamped : [pc |-> pc, snap |-> snap] \in FlusherRows
  BY DEF FlushType, FlusherRows, IdleFlusher, Blank, Stamped

(* The steps of a writer keep every type.                                  *)
LEMMA WritersKeepType ==
    ASSUME FlushType, NEW w \in Writers,
           Report(w) \/ WriterNext(w) \/ LoseRedis(w) \/ WriterCrash(w)
    PROVE  FlushType'
<1> USE DEF FlushType
<1>1. ASSUME NEW r \in WriterRows PROVE [writer EXCEPT ![w] = r] \in [Writers -> WriterRows]
  OBVIOUS
<1>2. CASE Report(w)
  <2>1. \A fields \in Reports :
          fields \subseteq Columns /\ Mode(fields) \subseteq {"single", "batch"}
    BY DEF Reports, Mode, Heartbeat, State, Presence,
         Columns
  <2>2. PICK fields \in Reports : \E mode \in Mode(fields) :
          writer' = [writer EXCEPT ![w] = [pc |-> "stamped", fields |-> fields,
                                           mode |-> mode, stamp |-> clock + 1]]
    BY <1>2 DEF Report
  <2>3. writer' \in [Writers -> WriterRows]
    BY <1>1, <2>1, <2>2 DEF WriterRows
  <2> QED BY <1>2, <2>3 DEF Report, Now, redis
<1>3. CASE Hset(w)
  <2>1. writer[w].stamp \in Nat
    BY DEF WriterRows
  <2>3. hash' \in Stamped
    BY <1>3, <2>1, WrittenRow DEF Hset
  <2>4. writer' = [writer EXCEPT ![w] = [writer[w] EXCEPT !.pc = "hashed"]]
    BY <1>3 DEF Hset
  <2>5. writer' \in [Writers -> WriterRows]
    BY <1>1, <2>4, WriterRow
  <2> QED BY <1>3, <2>3, <2>5 DEF Hset
<1>4. CASE Zadd(w)
  <2>1. writer' = [writer EXCEPT ![w] = [writer[w] EXCEPT !.pc = "marked", !.stamp = 0]]
    BY <1>4 DEF Zadd
  <2>2. writer' \in [Writers -> WriterRows]
    BY <1>1, <2>1, WriterRow
  <2> QED BY <1>4, <2>2 DEF Zadd
<1>5. CASE Answer(w)
  BY <1>1, <1>5, WriterRow DEF Answer, redis
<1>6. CASE LoseRedis(w) \/ WriterCrash(w)
  <2>1. PICK pc \in {"fallback", "resend"} :
          writer' = [writer EXCEPT ![w] = [writer[w] EXCEPT !.pc = pc, !.stamp = 0]]
    BY <1>6 DEF LoseRedis, WriterCrash
  <2>2. writer' \in [Writers -> WriterRows]
    BY <1>1, <2>1, WriterRow
  <2> QED BY <1>6, <2>2 DEF LoseRedis, WriterCrash, redis
<1>7. CASE FallbackStart(w) \/ Resend(w)
  <2>1. PICK pc \in {"writing", "stamped"} :
          writer' = [writer EXCEPT ![w] = [writer[w] EXCEPT !.pc = pc, !.stamp = clock + 1]]
    BY <1>7 DEF FallbackStart, Resend
  <2>2. writer' \in [Writers -> WriterRows]
    <3>1. clock + 1 \in Nat
      OBVIOUS
    <3> HIDE DEF FlushType
    <3>2. [writer[w] EXCEPT !.pc = pc, !.stamp = clock + 1] \in WriterRows
      BY <3>1, WriterRow
    <3> QED BY <1>1, <2>1, <3>2
  <2> QED BY <1>7, <2>2 DEF FallbackStart, Resend, redis, Now
<1>8. CASE FallbackWrite(w)
  <2>1. writer[w].stamp \in Nat
    BY DEF WriterRows
  <2>2. sql' \in Rows
    BY <1>8, <2>1, WrittenRow DEF FallbackWrite
  <2> QED BY <1>1, <1>8, <2>2, WriterRow DEF FallbackWrite, redis
<1> QED BY <1>2, <1>3, <1>4, <1>5, <1>6, <1>7, <1>8 DEF WriterNext

(* The steps of a flusher keep every type.                                 *)
LEMMA FlushersKeepType ==
    ASSUME FlushType, NEW f \in Flushers,
           FlusherNext(f) \/ ClaimNothing(f) \/ ApplyFails(f) \/ FlusherCrash(f)
    PROVE  FlushType'
<1> USE DEF FlushType
<1>1. ASSUME NEW r \in FlusherRows PROVE [flusher EXCEPT ![f] = r] \in [Flushers -> FlusherRows]
  OBVIOUS
<1>2. Blank \in Stamped
  BY DEF Blank, Stamped
<1>3. CASE Claim(f)
  <2>1. flusher' = [flusher EXCEPT ![f] = [flusher[f] EXCEPT !.pc = "claimed"]]
    BY <1>3 DEF Claim
  <2> QED BY <1>1, <1>3, <2>1, FlusherRow DEF Claim
<1>4. CASE Read(f)
  BY <1>1, <1>4, FlusherRow DEF Read, redis
<1>5. CASE Apply(f)
  <2>1. flusher[f].snap \in Stamped
    BY DEF FlusherRows
  <2>2. sql' \in Rows
    BY <1>5, <2>1, AppliedRow DEF Apply
  <2>3. flusher' \in [Flushers -> FlusherRows]
    BY <1>1, <1>2, <1>5, FlusherRow DEF Apply
  <2> QED BY <1>5, <2>2, <2>3 DEF Apply, redis
<1>6. CASE Settle(f)
  <2>1. flusher' \in [Flushers -> FlusherRows]
    BY <1>1, <1>6, FlusherRow DEF Settle
  <2> QED BY <1>6, <2>1 DEF Settle
<1>7. CASE ApplyFails(f)
  BY <1>1, <1>2, <1>7, FlusherRow DEF ApplyFails, redis
<1>8. CASE FlusherCrash(f)
  BY <1>1, <1>8, FlusherRow DEF FlusherCrash, redis
<1>9. CASE ClaimNothing(f)
  BY <1>9 DEF ClaimNothing, flushVars, redis
<1> QED BY <1>3, <1>4, <1>5, <1>6, <1>7, <1>8, <1>9 DEF FlusherNext

(* Every step keeps every type.                                            *)
LEMMA TypeKept == FlushType /\ [FlushNext]_flushVars => FlushType'
<1> SUFFICES ASSUME FlushType, [FlushNext]_flushVars PROVE FlushType'
  OBVIOUS
<1>1. CASE OfflineScan
  <2>1. sql' \in Rows
    BY <1>1 DEF OfflineScan, FlushType, Rows
  <2> QED BY <1>1, <2>1 DEF OfflineScan, FlushType, redis
<1>2. CASE UNCHANGED flushVars
  BY <1>2 DEF flushVars, redis, FlushType
<1> QED BY <1>1, <1>2, WritersKeepType, FlushersKeepType DEF FlushNext

-----------------------------------------------------------------------------
(* The invariant *)

Agrees == RedisAhead /\ EqualWhenCurrent /\ BehindIsTracked

(* The stamps can be compared.                                             *)
LEMMA Numbers ==
    ASSUME FlushType
    PROVE  /\ hash.seen \in Nat /\ sql.seen \in Nat /\ clock \in Nat
           /\ \A w \in Writers : writer[w].stamp \in Nat
           /\ \A f \in Flushers : flusher[f].snap \in Stamped /\ flusher[f].snap.seen \in Nat
  BY DEF FlushType, Stamped, Rows, WriterRows, FlusherRows

(* A step of the only writer that leaves Redis and the row alone.          *)
LEMMA WriterMoves ==
    ASSUME FlushType, Agrees, OneWriter, NEW w \in Writers,
           UNCHANGED <<hash, lease, sql, flusher>>, clock' \in Nat, clock <= clock',
           writer'[w].pc \notin {"fallback", "writing"},
           writer'[w].pc = "stamped" => clock < writer'[w].stamp /\ writer'[w].stamp <= clock',
           writer'[w].stamp \in Nat,
           WillBeDirty => WillBeDirty'
    PROVE  Agrees'
<1>1. \A v \in Writers : v = w
  BY DEF OneWriter
<1>2. RedisAhead'
  <2>1. sql'.seen <= hash'.seen /\ hash'.seen <= clock' /\ hash'.seen <= clock
    BY Numbers DEF Agrees, RedisAhead
  <2>2. writer'[w].pc = "stamped" => hash'.seen < writer'[w].stamp
    BY <2>1, Numbers
  <2> QED BY <1>1, <2>1, <2>2 DEF RedisAhead
<1>3. EqualWhenCurrent'
  BY DEF Agrees, EqualWhenCurrent
<1>4. BehindIsTracked'
  BY DEF Agrees, BehindIsTracked
<1> QED BY <1>2, <1>3, <1>4 DEF Agrees

(* Reports, crashes and resends of the only writer.                        *)
LEMMA WritersKeepAgrees ==
    ASSUME FlushType, Agrees, OneWriter, NEW w \in Writers,
           Report(w) \/ WriterNext(w) \/ WriterCrash(w)
    PROVE  Agrees'
<1>1. \A v \in Writers : v = w
  BY DEF OneWriter
<1>2. WillBeDirty <=> dirty \/ writer[w].pc \in {"stamped", "hashed", "resend"}
  BY <1>1 DEF WillBeDirty
<1>3. WillBeDirty' <=> dirty' \/ writer'[w].pc \in {"stamped", "hashed", "resend"}
  BY <1>1 DEF WillBeDirty
<1>5. CASE Report(w) \/ Resend(w)
  <2>1. writer'[w].pc = "stamped" /\ writer'[w].stamp = clock + 1
    BY <1>5 DEF Report, Resend, FlushType, WriterRows
  <2>2. clock' = clock + 1 /\ UNCHANGED <<hash, lease, sql, flusher>>
    BY <1>5 DEF Report, Resend, Now, redis
  <2> QED BY <1>3, <2>1, <2>2, Numbers, WriterMoves
<1>7. CASE WriterCrash(w)
  <2>1. writer'[w].pc = "resend" /\ writer'[w].stamp = 0
    BY <1>7 DEF WriterCrash, FlushType, WriterRows
  <2>2. UNCHANGED <<hash, lease, sql, flusher, clock>>
    BY <1>7 DEF WriterCrash, redis
  <2> QED BY <1>3, <2>1, <2>2, Numbers, WriterMoves
<1>8. CASE Zadd(w)
  <2>1. writer'[w].pc = "marked" /\ writer'[w].stamp = 0
    BY <1>8 DEF Zadd, FlushType, WriterRows
  <2>2. dirty' /\ UNCHANGED <<hash, lease, sql, flusher, clock>>
    BY <1>8 DEF Zadd
  <2> QED BY <1>3, <2>1, <2>2, Numbers, WriterMoves
<1>9. CASE Answer(w)
  <2>1. writer'[w].pc = "idle" /\ writer'[w].stamp = 0 /\ writer[w].pc = "marked"
    BY <1>9 DEF Answer, IdleWriter, FlushType
  <2>2. UNCHANGED <<hash, dirty, lease, sql, flusher, clock>>
    BY <1>9 DEF Answer, redis
  <2> QED BY <1>2, <1>3, <2>1, <2>2, Numbers, WriterMoves
<1>10. CASE Hset(w)
  <2> DEFINE fields == writer[w].fields
             stamp == writer[w].stamp
  <2>1. /\ hash.seen < stamp /\ stamp <= clock /\ stamp \in Nat /\ hash.seen \in Nat
        /\ sql.seen <= hash.seen /\ sql.seen \in Nat
    BY <1>10, Numbers DEF Hset, Agrees, RedisAhead
  <2>2. /\ hash'.seen = stamp
        /\ \A c \in Columns : hash'.val[c] = IF c \in fields THEN stamp ELSE hash.val[c]
    BY <1>10, <2>1, WrittenRow DEF Hset
  <2>3. UNCHANGED <<dirty, lease, sql, flusher, clock>>
    BY <1>10 DEF Hset
  <2>4. writer'[w].pc = "hashed"
    BY <1>10 DEF Hset, FlushType, WriterRows
  <2>5. RedisAhead'
    BY <1>1, <2>1, <2>2, <2>3, <2>4, Numbers DEF RedisAhead
  <2>6. \A c \in Columns : hash'.val[c] = 0 => hash.val[c] = 0
    BY <2>1, <2>2
  <2>7. \A f \in Flushers : flusher[f].pc = "read" => flusher[f].snap.seen < hash'.seen
    BY <2>1, <2>2, Numbers DEF Agrees, EqualWhenCurrent
  <2>8. EqualWhenCurrent'
    <3>1. sql'.seen # hash'.seen
      BY <2>1, <2>2, <2>3
    <3>2. \A c \in Columns : hash'.val[c] = 0 => sql'.val[c] \in {0, Offline}
      BY <2>3, <2>6 DEF Agrees, EqualWhenCurrent
    <3>3. ASSUME NEW f \in Flushers, flusher'[f].pc = "read"
          PROVE  /\ flusher'[f].snap.seen <= hash'.seen /\ flusher'[f].snap.seen # hash'.seen
                 /\ \A c \in Columns : hash'.val[c] = 0 => flusher'[f].snap.val[c] = 0
      BY <2>1, <2>2, <2>3, <2>6, <2>7, <3>3, Numbers DEF Agrees, EqualWhenCurrent
    <3> QED BY <3>1, <3>2, <3>3 DEF EqualWhenCurrent
  <2>9. BehindIsTracked'
    BY <1>3, <2>4 DEF BehindIsTracked
  <2> QED BY <2>5, <2>8, <2>9 DEF Agrees
<1>11. ~FallbackStart(w) /\ ~FallbackWrite(w)
  BY DEF FallbackStart, FallbackWrite, Agrees, RedisAhead
<1> QED BY <1>5, <1>7, <1>8, <1>9, <1>10, <1>11 DEF WriterNext

(* A flusher that only changes its own place.                              *)
LEMMA FlusherField ==
    ASSUME FlushType, NEW f \in Flushers,
           \/ flusher' = [flusher EXCEPT ![f].pc = "claimed"]
           \/ flusher' = [flusher EXCEPT ![f] = [pc |-> "read", snap |-> hash]]
           \/ flusher' = [flusher EXCEPT ![f] = [pc |-> "applied", snap |-> Blank]]
           \/ flusher' = [flusher EXCEPT ![f] = [pc |-> "failed", snap |-> Blank]]
           \/ flusher' = [flusher EXCEPT ![f] = IdleFlusher]
    PROVE  /\ \A g \in Flushers : g # f => flusher'[g] = flusher[g]
           /\ flusher'[f].pc = "read" => flusher'[f].snap = hash
           /\ flusher' = [flusher EXCEPT ![f].pc = "claimed"] => flusher'[f].pc = "claimed"
           /\ flusher' = [flusher EXCEPT ![f] = IdleFlusher] => flusher'[f].pc = "idle"
  BY DEF FlushType, FlusherRows, IdleFlusher

(* Claims, reads, flushes and settlements of any number of flushers.       *)
LEMMA FlushersKeepAgrees ==
    ASSUME FlushType, Agrees, NEW f \in Flushers,
           FlusherNext(f) \/ ApplyFails(f) \/ FlusherCrash(f)
    PROVE  Agrees'
<1> USE DEF Agrees
<1>1. CASE Claim(f)
  <2>1. lease' = f /\ UNCHANGED <<hash, sql, writer, clock>>
    BY <1>1 DEF Claim
  <2>2. flusher' = [flusher EXCEPT ![f].pc = "claimed"]
    BY <1>1 DEF Claim
  <2>3. flusher'[f].pc = "claimed" /\ \A g \in Flushers : g # f => flusher'[g] = flusher[g]
    BY <2>2, FlusherField
  <2>4. RedisAhead'
    BY <2>1 DEF RedisAhead
  <2>5. EqualWhenCurrent'
    BY <2>1, <2>3 DEF EqualWhenCurrent
  <2>6. BehindIsTracked'
    BY <2>1, <2>3, NoneIsNoFlusher DEF BehindIsTracked
  <2> QED BY <2>4, <2>5, <2>6
<1>2. CASE Read(f)
  <2>1. UNCHANGED <<hash, dirty, lease, sql, writer, clock>>
    BY <1>2 DEF Read, redis
  <2>2. /\ flusher'[f] = [pc |-> "read", snap |-> hash]
        /\ \A g \in Flushers : g # f => flusher'[g] = flusher[g]
    BY <1>2, FlusherField DEF Read, FlushType
  <2>3. flusher'[f].pc = "read" /\ flusher'[f].snap = hash
    BY <2>2
  <2>4. RedisAhead'
    BY <2>1 DEF RedisAhead
  <2>5. EqualWhenCurrent'
    BY <2>1, <2>2, <2>3, Numbers DEF EqualWhenCurrent
  <2>6. WillBeDirty' = WillBeDirty
    BY <2>1 DEF WillBeDirty
  <2>7. BehindIsTracked'
    BY <2>1, <2>2, <2>3, <2>6, Numbers DEF BehindIsTracked
  <2> QED BY <2>4, <2>5, <2>7
<1>3. CASE Apply(f)
  <2> DEFINE snap == flusher[f].snap
  <2>1. /\ flusher[f].pc = "read" /\ sql' = Applied(sql, snap)
        /\ UNCHANGED <<hash, dirty, lease, writer, clock>>
    BY <1>3 DEF Apply, redis
  <2>2. flusher'[f].pc = "applied" /\ \A g \in Flushers : g # f => flusher'[g] = flusher[g]
    BY <1>3, FlusherField DEF Apply, FlushType
  <2>3. snap \in Stamped /\ snap.seen \in Nat /\ hash.seen \in Nat /\ sql.seen \in Nat
    BY Numbers
  <2>4. /\ snap.seen <= hash.seen /\ sql.seen <= hash.seen
        /\ snap.seen = hash.seen => snap = hash
        /\ \A c \in Columns : hash.val[c] = 0 => snap.val[c] = 0 /\ sql.val[c] \in {0, Offline}
        /\ sql.seen = hash.seen => \A c \in Columns : sql.val[c] \in {hash.val[c], Offline}
    BY <2>1 DEF RedisAhead, EqualWhenCurrent
  <2>5. /\ sql'.seen \in {sql.seen, snap.seen}
        /\ sql'.seen >= sql.seen /\ sql'.seen >= snap.seen
        /\ \A c \in Columns : sql'.val[c] \in {sql.val[c], snap.val[c]}
        /\ \/ sql' = sql
           \/ /\ sql'.seen = snap.seen
              /\ \A c \in Columns :
                    sql'.val[c] = IF snap.val[c] # 0 THEN snap.val[c] ELSE sql.val[c]
    <3>1. CASE Applied(sql, snap) = sql
      BY <2>1, <2>3, <3>1, AppliedRow
    <3>2. CASE Applied(sql, snap) # sql
      <4>1. /\ Applied(sql, snap).seen = snap.seen
            /\ \A c \in Columns : Applied(sql, snap).val[c] =
                  IF snap.val[c] # 0 THEN snap.val[c] ELSE sql.val[c]
        BY <2>3, <3>2, AppliedRow
      <4>2. /\ Applied(sql, snap).seen >= sql.seen /\ Applied(sql, snap).seen >= snap.seen
            /\ \A c \in Columns : Applied(sql, snap).val[c] \in {sql.val[c], snap.val[c]}
        BY <2>3, AppliedRow
      <4> QED BY <2>1, <4>1, <4>2
    <3> QED BY <3>1, <3>2
  <2>6. RedisAhead'
    BY <2>1, <2>3, <2>4, <2>5 DEF RedisAhead
  <2>7. EqualWhenCurrent'
    <3>1. sql'.seen = hash'.seen => \A c \in Columns : sql'.val[c] \in {hash'.val[c], Offline}
      <4>1. CASE sql' = sql
        BY <2>1, <2>4, <4>1
      <4>2. CASE /\ sql'.seen = snap.seen
                 /\ \A c \in Columns :
                       sql'.val[c] = IF snap.val[c] # 0 THEN snap.val[c] ELSE sql.val[c]
        BY <2>1, <2>4, <4>2
      <4> QED BY <2>5, <4>1, <4>2
    <3>2. \A c \in Columns : hash'.val[c] = 0 => sql'.val[c] \in {0, Offline}
      BY <2>1, <2>4, <2>5
    <3> QED BY <2>1, <2>2, <3>1, <3>2 DEF EqualWhenCurrent
  <2>8. WillBeDirty' = WillBeDirty
    BY <2>1 DEF WillBeDirty
  <2>9. sql'.seen < hash'.seen => sql.seen < hash.seen /\ snap.seen < hash.seen
    BY <2>1, <2>3, <2>5
  <2>10. BehindIsTracked'
    <3>1. sql'.seen < hash'.seen => WillBeDirty' \/ lease' # None
      BY <2>1, <2>8, <2>9 DEF BehindIsTracked
    <3>2. ASSUME NEW g \in Flushers, lease' = g
          PROVE  /\ flusher'[g].pc = "read" /\ flusher'[g].snap.seen < hash'.seen => WillBeDirty'
                 /\ flusher'[g].pc = "applied" /\ sql'.seen < hash'.seen => WillBeDirty'
      <4>1. CASE g = f
        BY <2>1, <2>2, <2>8, <2>9, <3>2, <4>1 DEF BehindIsTracked
      <4>2. CASE g # f
        BY <2>1, <2>2, <2>8, <2>9, <3>2, <4>2 DEF BehindIsTracked
      <4> QED BY <4>1, <4>2
    <3> QED BY <3>1, <3>2 DEF BehindIsTracked
  <2> QED BY <2>6, <2>7, <2>10
<1>4. CASE Settle(f)
  <2>1. UNCHANGED <<hash, sql, writer, clock>> /\ flusher[f].pc \in {"applied", "failed"}
    BY <1>4 DEF Settle
  <2>2. flusher'[f].pc = "idle" /\ \A g \in Flushers : g # f => flusher'[g] = flusher[g]
    BY <1>4, FlusherField DEF Settle
  <2>3. RedisAhead' /\ EqualWhenCurrent'
    BY <2>1, <2>2 DEF RedisAhead, EqualWhenCurrent
  <2>4. CASE lease = f
    <3>1. lease' = None /\ dirty' = (dirty \/ flusher[f].pc = "failed")
      BY <1>4, <2>4 DEF Settle, OwnsLease
    <3>2. WillBeDirty => WillBeDirty'
      BY <2>1, <3>1 DEF WillBeDirty
    <3>3. sql.seen < hash.seen => WillBeDirty'
      <4>1. CASE flusher[f].pc = "applied"
        BY <2>4, <3>2, <4>1 DEF BehindIsTracked
      <4>2. CASE flusher[f].pc = "failed"
        BY <3>1, <4>2 DEF WillBeDirty
      <4> QED BY <2>1, <4>1, <4>2
    <3>4. BehindIsTracked'
      BY <2>1, <3>1, <3>3, NoneIsNoFlusher DEF BehindIsTracked
    <3> QED BY <2>3, <3>4
  <2>5. CASE lease # f
    <3>1. UNCHANGED <<lease, dirty>>
      BY <1>4, <2>5 DEF Settle, OwnsLease
    <3>2. WillBeDirty' = WillBeDirty
      BY <2>1, <3>1 DEF WillBeDirty
    <3>3. BehindIsTracked'
      BY <2>1, <2>2, <3>1, <3>2 DEF BehindIsTracked
    <3> QED BY <2>3, <3>3
  <2> QED BY <2>4, <2>5
<1>5. CASE ApplyFails(f) \/ FlusherCrash(f)
  <2>1. UNCHANGED <<hash, dirty, lease, sql, writer, clock>>
    BY <1>5 DEF ApplyFails, FlusherCrash, redis
  <2>2. /\ flusher'[f].pc \in {"failed", "idle"}
        /\ \A g \in Flushers : g # f => flusher'[g] = flusher[g]
    BY <1>5, FlusherField DEF ApplyFails, FlusherCrash, FlushType
  <2>3. WillBeDirty' = WillBeDirty
    BY <2>1 DEF WillBeDirty
  <2> QED BY <2>1, <2>2, <2>3 DEF RedisAhead, EqualWhenCurrent, BehindIsTracked
<1> QED BY <1>1, <1>2, <1>3, <1>4, <1>5 DEF FlusherNext

(* The offline scan overrules one column and leaves the stamp of the row.  *)
LEMMA ScanKeepsAgrees ==
    ASSUME FlushType, Agrees, OfflineScan
    PROVE  Agrees'
<1>1. UNCHANGED <<hash, dirty, lease, writer, flusher, clock>>
  BY DEF OfflineScan, redis
<1>2. sql'.seen = sql.seen /\ \A c \in Columns : sql'.val[c] \in {sql.val[c], Offline}
  BY DEF OfflineScan, FlushType, Rows
<1>3. WillBeDirty' = WillBeDirty
  BY <1>1 DEF WillBeDirty
<1> QED BY <1>1, <1>2, <1>3 DEF Agrees, RedisAhead, EqualWhenCurrent, BehindIsTracked

(* Every step keeps the invariant; a fallback leaves its scope.            *)
LEMMA FlushKept ==
    ASSUME OneWriter
    PROVE  FlushInv /\ [FlushNext]_flushVars => FlushInv'
<1> SUFFICES ASSUME FlushInv, [FlushNext]_flushVars PROVE FlushInv'
  OBVIOUS
<1> USE DEF FlushInv
<1>1. FlushType'
  BY TypeKept
<1>2. SUFFICES ASSUME fallbacks' = 0 PROVE Agrees'
  BY <1>1 DEF Agrees
<1>3. fallbacks = 0 /\ ~\E w \in Writers : LoseRedis(w)
  <2>1. fallbacks \in Nat /\ fallbacks + 1 # 0
    BY DEF FlushType
  <2>2. ASSUME NEW w \in Writers PROVE ~LoseRedis(w)
    BY <1>2, <2>1 DEF LoseRedis
  <2>3. UNCHANGED fallbacks
    BY <2>2 DEF FlushNext, WriterNext, FlusherNext, Report, Hset,
         Zadd, Answer, LoseRedis,
       FallbackStart, FallbackWrite, WriterCrash, Resend,
       Claim, ClaimNothing, Read, Apply,
       ApplyFails, Settle, FlusherCrash, OfflineScan, flushVars
  <2> QED BY <1>2, <2>2, <2>3
<1>4. Agrees
  BY <1>3 DEF Agrees
<1>5. CASE UNCHANGED flushVars
  <2>1. UNCHANGED <<hash, dirty, lease, sql, writer, flusher, clock>>
    BY <1>5 DEF flushVars, redis
  <2> QED BY <1>4, <2>1 DEF Agrees, RedisAhead, EqualWhenCurrent, BehindIsTracked, WillBeDirty
<1>6. CASE \E f \in Flushers : ClaimNothing(f)
  BY <1>5, <1>6 DEF ClaimNothing
<1> QED BY <1>3, <1>4, <1>5, <1>6, WritersKeepAgrees, FlushersKeepAgrees, ScanKeepsAgrees DEF FlushNext

(* One report of the device at a time, and none written past Redis: with   *)
(* nothing left to do the row says what Redis says, whatever worker died   *)
(* or lost its lease on the way: TelemetryCache and its flush.             *)
THEOREM QuietRowIsEqual ==
    ASSUME OneWriter
    PROVE  FlushSpec => []QuietMeansEqual
<1>1. FlushInv => QuietMeansEqual
  <2> SUFFICES ASSUME FlushInv, fallbacks = 0, ~Tracked,
                      \A w \in Writers : writer[w].pc = "idle"
               PROVE  /\ sql.seen = hash.seen
                      /\ \A c \in Columns : sql.val[c] \in {hash.val[c], Offline}
    BY DEF QuietMeansEqual
  <2>1. ~WillBeDirty /\ lease = None
    BY DEF Tracked, WillBeDirty
  <2>2. sql.seen = hash.seen
    BY <2>1, Numbers DEF FlushInv, RedisAhead, BehindIsTracked
  <2> QED BY <2>2 DEF FlushInv, EqualWhenCurrent
<1>2. FlushInv /\ [FlushNext]_flushVars => FlushInv'
  BY FlushKept
<1> QED BY <1>1, <1>2, FlushInitially, PTL DEF FlushSpec
=============================================================================
