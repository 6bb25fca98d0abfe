---------------------------- MODULE OrderStream -----------------------------
(***************************************************************************)
(* What one customer's page shows of one order: the event stream the page  *)
(* reads (order_stream.py), the broker of the serving process that wakes   *)
(* it (order_events.py), and the progress a device reports past the        *)
(* database (live_progress.py).                                            *)
(*                                                                         *)
(* Durable changes are announced by PostgreSQL NOTIFY, progress by Redis   *)
(* Pub/Sub.  Neither replays what a listener missed while it was away; the *)
(* broker wakes every stream after it has listened again.  Its threads     *)
(* hand their flags to the event loop (call_soon_threadsafe), which offers *)
(* them to the stream's queue later.                                       *)
(***************************************************************************)
EXTENDS Integers

CONSTANTS
    MaxVersion,   \* bound: durable changes of the order
    MaxRevision,  \* bound: progress revisions of the task
    Recorded,     \* those that durable events bring to the order
    MaxAhead,     \* orders queued before this one at first
    MaxFaults,    \* bound: failures of a listener, of Redis, of the connection
    None

ASSUME StreamAssumption ==
    /\ MaxVersion \in Nat /\ MaxRevision \in Nat /\ Recorded \subseteq Nat
    /\ MaxAhead \in Nat /\ MaxFaults \in Nat

VARIABLES
    row,       \* the order as committed: stage, version, device_revision, aheadCount
    progress,  \* external: revision of the task's progress in Redis; Missing: none
    redis,     \* external: "up" or "down"
    intact,    \* history: Redis has kept every progress stored so far
    missed,    \* history: progress a read failed to bring while Redis was up;
               \* Missing once a read answers or finds Redis away
    peak,      \* history: the highest progress the page has shown
    listener,  \* per channel: "away", "listening" (not yet resynced) or "synced"
    notice,    \* per channel: a notification of this order is on its way
    offers,    \* flags handed to the event loop, not yet offered
    queue,     \* the stream's queue: None (no subscription) or its flags
    watching,  \* the stream's queue is registered for the task's progress
    stream,    \* what the stream does next
    snapshot,  \* the snapshot it holds
    shown,     \* the last snapshot the page received
    faults

vars == <<row, progress, redis, intact, missed, peak, listener, notice, offers, queue,
          watching, stream, snapshot, shown, faults>>

durable == <<row>>
live == <<progress, redis, intact>>
broker == <<listener, notice, offers>>
page == <<queue, watching, stream, snapshot, shown, missed, peak>>

Channels == {"ORDER", "PROGRESS"}
Missing == -1

ASSUME NoneIsNoQueue == \A q \in SUBSET Channels : q # None

(* MAKING is an order whose task is EXECUTING; TASK one with a task that   *)
(* is sent, accepted, paused or held; PICKUP is READY with the drink still *)
(* to be collected; DONE stands for the statuses after which nothing is    *)
(* shown any more.                                                         *)
Stages == {"QUEUED", "TASK", "MAKING", "PICKUP", "DONE"}
After == [QUEUED |-> {"QUEUED", "TASK", "DONE"},
          TASK   |-> {"TASK", "MAKING", "PICKUP", "DONE"},
          MAKING |-> {"TASK", "MAKING", "PICKUP", "DONE"},
          PICKUP |-> {"PICKUP", "DONE"},
          DONE   |-> {}]

(* A stream that waits, or whose next step reads no durable row, has       *)
(* nothing but its flags to learn of a change.                             *)
Unread == stream \in {"redis", "wait"}

-----------------------------------------------------------------------------
Init ==
    /\ row \in {[stage |-> "QUEUED", version |-> 0, revision |-> 0, ahead |-> MaxAhead],
               [stage |-> "TASK", version |-> 0, revision |-> 0, ahead |-> 0]}
    /\ progress = Missing /\ redis = "up" /\ intact = TRUE
    /\ listener = [c \in Channels |-> "away"]
    /\ notice = [c \in Channels |-> FALSE]
    /\ offers = {}
    /\ queue = None /\ watching = FALSE
    /\ stream = "closed"
    /\ snapshot = row
    /\ shown = None
    /\ missed = Missing /\ peak = Missing
    /\ faults = 0

Fault == faults < MaxFaults /\ faults' = faults + 1

-----------------------------------------------------------------------------
(* The order and its progress                                              *)

(* A durable write: a trigger notifies whoever listens at the commit.      *)
Commit(stage, revision) ==
    /\ row.version < MaxVersion
    /\ stage \in After[row.stage]
    /\ revision > row.revision => row.stage \in {"TASK", "MAKING"}
    /\ revision >= row.revision
    /\ row' = [stage |-> stage, version |-> row.version + 1, revision |-> revision,
               ahead |-> IF stage = "QUEUED" THEN row.ahead ELSE 0]
    /\ notice' = [notice EXCEPT !["ORDER"] = listener["ORDER"] # "away"]
    /\ UNCHANGED <<live, listener, offers, page, faults>>

(* An order before this one is served: no row of this order is written.    *)
QueueMoves ==
    /\ row.stage = "QUEUED" /\ row.ahead > 0
    /\ row' = [row EXCEPT !.ahead = @ - 1]
    /\ UNCHANGED <<live, broker, page, faults>>

(* Mutant: a report replaces whatever is there.                            *)
NewerAlways(revision) == TRUE

(* The guard of STORE_PROGRESS_LUA.                                        *)
Newer(revision) == progress < revision

(* A progress report reaches Redis, in any order and whatever the order's  *)
(* stage: it is stored and announced in one script.                        *)
Report(revision) ==
    /\ redis = "up"
    /\ Newer(revision)
    /\ progress' = revision
    /\ notice' = [notice EXCEPT !["PROGRESS"] = listener["PROGRESS"] # "away"]
    /\ UNCHANGED <<durable, redis, intact, listener, offers, page, faults>>

(* Redis goes away, with or without its keys.                              *)
RedisFails ==
    /\ Fault
    /\ redis' = "down"
    /\ progress' \in {progress, Missing}
    /\ intact' = (intact /\ progress' = progress)
    /\ listener' = [listener EXCEPT !["PROGRESS"] = "away"]
    /\ notice' = [notice EXCEPT !["PROGRESS"] = FALSE]
    /\ UNCHANGED <<durable, offers, page>>

(* EXPIRE: no report has come for an hour; the listener stays.             *)
KeyExpires ==
    /\ Fault
    /\ progress # Missing /\ progress' = Missing
    /\ intact' = FALSE
    /\ UNCHANGED <<durable, redis, broker, page>>

RedisReturns ==
    /\ redis = "down"
    /\ redis' = "up"
    /\ UNCHANGED <<durable, progress, intact, broker, page, faults>>

-----------------------------------------------------------------------------
(* The broker                                                              *)

(* _publish: the streams of this order, or of this task's progress.        *)
Subscribed(c) == queue # None /\ (c = "PROGRESS" => watching)

(* _run and _redis_run connect and listen.                                 *)
Listen(c) ==
    /\ listener[c] = "away"
    /\ c = "PROGRESS" => redis = "up"
    /\ listener' = [listener EXCEPT ![c] = "listening"]
    /\ UNCHANGED <<durable, live, notice, offers, page, faults>>

(* Mutant: a new listener waits for the next notification.                 *)
WokenByNone(c) == {}

(* Flags a listener that has just listened hands to every subscribed       *)
(* stream.                                                                 *)
WokenBy(c) == IF queue = None THEN {} ELSE {c}

(* _resync                                                                 *)
Resync(c) ==
    /\ listener[c] = "listening"
    /\ listener' = [listener EXCEPT ![c] = "synced"]
    /\ offers' = offers \cup WokenBy(c)
    /\ UNCHANGED <<durable, live, notice, page, faults>>

(* The listening connection breaks; what was on its way is lost.           *)
ListenerFails(c) ==
    /\ Fault
    /\ listener[c] # "away"
    /\ listener' = [listener EXCEPT ![c] = "away"]
    /\ notice' = [notice EXCEPT ![c] = FALSE]
    /\ UNCHANGED <<durable, live, offers, page>>

(* A notification arrives: _publish, _publish_progress.                    *)
Notified(c) ==
    /\ listener[c] = "synced" /\ notice[c]
    /\ notice' = [notice EXCEPT ![c] = FALSE]
    /\ offers' = IF Subscribed(c) THEN offers \cup {c} ELSE offers
    /\ UNCHANGED <<durable, live, listener, page, faults>>

(* Mutant: the flag replaces what the queue held.                          *)
MergedOver(held, flag) == {flag}

(* The queue holds one entry, the union of the flags offered.              *)
Merged(held, flag) == held \cup {flag}

(* _offer, in the event loop; for a stream that has gone it has no effect. *)
Offer(flag) ==
    /\ flag \in offers
    /\ offers' = offers \ {flag}
    /\ queue' = IF queue = None THEN None ELSE Merged(queue, flag)
    /\ UNCHANGED <<durable, live, listener, notice, watching, stream, snapshot, shown, missed, peak,
                   faults>>

-----------------------------------------------------------------------------
(* The stream                                                              *)

Goes(to) ==
    /\ stream' = to
    /\ UNCHANGED <<durable, live, listener, notice>>

(* The page opens the stream: it subscribes before it reads.               *)
Open ==
    /\ stream = "closed"
    /\ queue' = {} /\ watching' = FALSE
    /\ Goes("sql")
    /\ UNCHANGED <<offers, snapshot, shown, missed, peak, faults>>

(* refresh_order: the durable row, then the progress subscription, which   *)
(* is there before Redis is read.                                          *)
ReadOrder ==
    /\ stream = "sql"
    /\ snapshot' = row
    /\ watching' = (watching \/ row.stage # "QUEUED")
    /\ Goes("redis")
    /\ UNCHANGED <<offers, queue, shown, missed, peak, faults>>

(* merge_progress: only over a task that is being made, and only newer.    *)
Overlaid(held, revision) ==
    IF held.stage = "MAKING" /\ revision > held.revision
      THEN [held EXCEPT !.revision = revision] ELSE held

(* The snapshot goes to the page; the stream ends after the last one.      *)
Shows(revision) ==
    /\ snapshot' = Overlaid(snapshot, revision)
    /\ shown' = snapshot'
    /\ peak' = IF snapshot'.revision > peak THEN snapshot'.revision ELSE peak
    /\ IF snapshot.stage = "DONE"
         THEN Goes("ended") /\ queue' = None /\ watching' = FALSE
         ELSE Goes("wait") /\ UNCHANGED <<queue, watching>>
    /\ UNCHANGED offers

(* with_live_progress asks Redis only about a task that is being executed. *)
Asks == snapshot.stage = "MAKING"

(* Redis answers, or is not asked.                                         *)
Yield ==
    /\ stream = "redis" /\ (Asks => redis = "up")
    /\ Shows(progress)
    /\ missed' = Missing
    /\ UNCHANGED faults

(* latest_progress swallows any error of its read: nothing is laid over.   *)
(* Redis may be away, or the one read may fail (its socket waits for half  *)
(* a second) while the listener, on a connection of its own, goes on.      *)
YieldUnread ==
    /\ stream = "redis" /\ Asks
    /\ Shows(Missing)
    /\ IF redis = "down" THEN missed' = Missing /\ UNCHANGED faults
                         ELSE missed' = progress /\ Fault

(* Mutant: a quiet queue is only kept alive.                               *)
PollsNever == FALSE

(* Five quiet seconds while QUEUED count as ORDER_CHANGED; other timeouts  *)
(* send a keepalive.                                                       *)
Polls == snapshot.stage = "QUEUED"

Timeout ==
    /\ stream = "wait" /\ queue = {} /\ Polls
    /\ Goes("sql")
    /\ UNCHANGED <<offers, queue, watching, snapshot, shown, missed, peak, faults>>

(* Flags wake the stream, which takes those of the next 0.05 s with them.  *)
(* A durable change is read again; progress alone costs no SQL.            *)
Wake ==
    /\ stream = "wait" /\ queue # {}
    /\ queue' = {}
    /\ Goes(IF "ORDER" \in queue THEN "sql" ELSE "redis")
    /\ UNCHANGED <<offers, watching, snapshot, shown, missed, peak, faults>>

(* The connection breaks, or a read fails: the stream unsubscribes.        *)
Disconnect ==
    /\ Fault
    /\ stream \notin {"closed", "ended"}
    /\ stream' = "closed" /\ queue' = None /\ watching' = FALSE
    /\ offers' = {}
    /\ UNCHANGED <<durable, live, listener, notice, snapshot, shown, missed, peak>>

-----------------------------------------------------------------------------
StreamSteps ==
    Open \/ ReadOrder \/ Yield \/ YieldUnread \/ Timeout \/ Wake

Next ==
    \/ \E stage \in Stages, revision \in Recorded : Commit(stage, revision)
    \/ QueueMoves
    \/ \E revision \in 1 .. MaxRevision : Report(revision)
    \/ RedisFails \/ KeyExpires \/ RedisReturns
    \/ \E c \in Channels :
          Listen(c) \/ Resync(c) \/ ListenerFails(c) \/ Notified(c) \/ Offer(c)
    \/ StreamSteps
    \/ Disconnect

(* The broker's threads retry every second, PostgreSQL, Redis and the      *)
(* event loop deliver, Redis returns, the stream's coroutine runs and the  *)
(* page reopens a broken stream.                                           *)
Fairness ==
    /\ \A c \in Channels :
          WF_vars(Listen(c)) /\ WF_vars(Resync(c)) /\ WF_vars(Notified(c)) /\ WF_vars(Offer(c))
    /\ WF_vars(RedisReturns)
    /\ WF_vars(StreamSteps)

FairSpec == Init /\ [][Next]_vars /\ Fairness

-----------------------------------------------------------------------------
(* Properties                                                              *)

(* A stream whose snapshot is out of date will read the order again: a     *)
(* notification, an offer or a queued flag is pending, or the listener has *)
(* yet to come back and wake it.  No burst of progress, no reconnection    *)
(* and no change between the query and the wait loses a durable change.    *)
StaleIsNoticed ==
    Unread /\ snapshot.version # row.version =>
        \/ notice["ORDER"] \/ listener["ORDER"] # "synced"
        \/ "ORDER" \in offers \cup queue

(* While Redis keeps its keys, a read that answers shows a drink at least  *)
(* as far as the page ever showed it: whatever outages and failed reads    *)
(* came before, no refresh that begins with the durable row again and no   *)
(* late report of an older revision takes it back.  A read that fails may: *)
(* the page then has what the durable row says (with_live_progress).       *)
AnswerKeepsProgress ==
    [][Yield /\ Asks /\ intact => shown'.revision >= peak]_vars

(* The page shows the order as it is: its durable state, the place in the  *)
(* queue (which moves without a notification) and the latest progress.     *)
(* Only progress whose read failed on its own may be absent, until a newer *)
(* report or any other wakeup has it read.                                 *)
Current ==
    /\ shown # None
    /\ shown.stage = row.stage /\ shown.version = row.version
    /\ shown.ahead = row.ahead
    /\ progress # missed => shown.revision >= Overlaid(row, progress).revision

(* Once nothing changes any more, the page comes to show it, whatever was  *)
(* lost before: notifications, connections, Redis or its keys.             *)
PageCatchesUp == <>[]Current

=============================================================================
