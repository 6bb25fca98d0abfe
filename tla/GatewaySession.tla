---------------------------- MODULE GatewaySession ----------------------------
(***************************************************************************)
(* The MQTT gateway process (src/app/mqtt_gateway.py): one persistent      *)
(* broker session, the Paho network loop and its callbacks, the supervisor *)
(* that restores a dead loop, the sharded uplink workers with their        *)
(* telemetry micro-batches and retries, and shutdown.                      *)
(*                                                                         *)
(* Threads and what their steps are:                                       *)
(*   the Paho loop   one callback, or one statement of on_connect, a step; *)
(*   the supervisor  one locked section or one client call a step;         *)
(*   each worker     one queue operation, HTTP request or ack a step;      *)
(*   the main thread the three stages of shutdown().                       *)
(* The broker, Paho itself and the cloud API are external: the broker      *)
(* keeps unacknowledged QoS 1 messages and their packet ids for the        *)
(* session and redelivers them on a new connection; the cloud may apply a  *)
(* request whose answer is lost.                                           *)
(*                                                                         *)
(* Retry delays, batch deadlines and reconnect backoff are left to the     *)
(* scheduler: a step that waits for time may happen at any later moment.   *)
(***************************************************************************)
EXTENDS Naturals, Sequences, FiniteSets, SequencesExt

CONSTANTS
    Msgs,        \* the QoS 1 uplinks that devices publish
    Telemetry,   \* the ones that may share a micro-batch
    Malformed,   \* the ones whose payload is no JSON object
    Mismatched,  \* the ones whose device identity the cloud refuses with 403
    Mids,        \* packet ids the broker may use (its receive window)
    Topics,      \* the three wildcard subscriptions
    Workers,     \* worker threads, one inbox (shard) each
    Shard,       \* the worker a message's device hashes to
    Capacity,    \* per-worker queue capacity
    BatchSize,   \* TELEMETRY_BATCH_SIZE
    MaxFaults    \* bound: failures of any kind in one behaviour

ASSUME GatewayConstants ==
    /\ Telemetry \subseteq Msgs /\ Malformed \subseteq Msgs /\ Mismatched \subseteq Msgs
    /\ Malformed \cap (Telemetry \cup Mismatched) = {}
    /\ Topics # {} /\ IsFiniteSet(Topics)
    /\ Shard \in [Msgs -> Workers]
    /\ Capacity \in Nat \ {0} /\ BatchSize \in Nat \ {0} /\ MaxFaults \in Nat

VARIABLES
    broker,    \* the session: waiting messages, inflight by packet id, its topics
    sock,      \* the current connection as Paho and the broker see it
    gw,        \* the fields under _generation_lock
    loop,      \* the Paho loop thread: dead, idle, or inside on_connect
    sup,       \* the supervisor thread; from fenced on it holds _reconnect_lock
    inbox,     \* inboxes: one bounded queue per worker
    worker,    \* what each worker thread is doing
    stop,      \* stop_event
    shut,      \* progress of shutdown()
    world,     \* history: published, settled, acked and lost messages
    faults     \* failures so far

gatewayVars == <<gw, loop, sup, inbox, worker, stop, shut>>
vars == <<broker, sock, gw, loop, sup, inbox, worker, stop, shut, world, faults>>

NoMsg == "none"
Item == [msg : Msgs, mid : Mids, gen : Nat]

\* Paho after its socket is closed: nothing sent, nothing asked for.
NoSock == [net |-> "down", closing |-> FALSE, sent |-> {}, pubacks |-> {},
           asked |-> {}, granted |-> {}]
Connecting == [NoSock EXCEPT !.net = "connecting"]

TypeOK ==
    /\ broker \in [waiting : SUBSET Msgs, inflight : [Mids -> Msgs \cup {NoMsg}],
                   topics : SUBSET Topics]
    /\ sock \in [net : {"down", "connecting", "up", "dead"}, closing : BOOLEAN,
                 sent : SUBSET Mids, pubacks : SUBSET Mids,
                 asked : SUBSET Topics, granted : SUBSET Topics]
    /\ gw \in [gen : Nat, valid : BOOLEAN, connected : BOOLEAN,
               pending : SUBSET Topics, armed : BOOLEAN]
    /\ loop \in {"dead", "idle", "accepted", "subscribing"}
    /\ sup \in {"watch", "expired", "fenced", "opened", "failed", "starting"}
    /\ inbox \in [Workers -> Seq(Item)]
    /\ \A w \in Workers : Len(inbox[w]) <= Capacity
    /\ worker \in [Workers -> [pc : {"get", "collect", "post", "ack", "retry"},
                               batch : Seq(Item), deferred : Seq(Item)]]
    /\ stop \in BOOLEAN
    /\ shut \in {"no", "stopping", "closing", "closed"}
    /\ world \in [published : SUBSET Msgs, settled : SUBSET Msgs,
                  acked : SUBSET Msgs, lost : SUBSET Msgs]
    /\ faults \in 0 .. MaxFaults

Fresh == [pc |-> "get", batch |-> <<>>, deferred |-> <<>>]

\* __init__ followed by start(): connect_async, loop_start, the threads.
FreshGateway ==
    [gen |-> 0, valid |-> FALSE, connected |-> FALSE, pending |-> {}, armed |-> FALSE]

Init ==
    /\ broker = [waiting |-> {}, inflight |-> [i \in Mids |-> NoMsg], topics |-> Topics]
    /\ sock = NoSock
    /\ gw = FreshGateway
    /\ loop = "idle" /\ sup = "watch"
    /\ inbox = [w \in Workers |-> <<>>]
    /\ worker = [w \in Workers |-> Fresh]
    /\ stop = FALSE /\ shut = "no"
    /\ world = [published |-> {}, settled |-> {}, acked |-> {}, lost |-> {}]
    /\ faults = 0

Fault == faults < MaxFaults /\ faults' = faults + 1

-----------------------------------------------------------------------------
(* The fence *)

\* _invalidate_connection
Invalidated(g) ==
    [g EXCEPT !.valid = FALSE, !.connected = FALSE, !.pending = {}, !.armed = FALSE]

\* client.disconnect(): a live loop closes the socket and ends; with no loop
\* the packet is written, and the socket closed, by the caller.
Closed(s) == IF loop = "dead" THEN NoSock ELSE [s EXCEPT !.closing = TRUE]

\* _disconnect
Disconnect ==
    /\ gw' = Invalidated(gw)
    /\ sock' = Closed(sock)

MayAckAnyGeneration(item) == gw.valid

\* ack: the validity check and the send are one step under _generation_lock.
\* With no loop a failed write calls on_disconnect before ack returns.
MayAck(item) == gw.valid /\ item.gen = gw.gen

Ack(item) ==
    IF ~MayAck(item) THEN UNCHANGED <<gw, sock>>
    ELSE IF loop = "dead" /\ sock.net = "dead"
         THEN gw' = Invalidated(gw) /\ sock' = NoSock
         ELSE sock' = [sock EXCEPT !.pubacks = @ \cup {item.mid}] /\ UNCHANGED gw

-----------------------------------------------------------------------------
(* Devices, broker and network *)

\* A device publishes; without the session's subscriptions nothing queues it.
Publish(m) ==
    /\ m \notin world.published
    /\ IF broker.topics = Topics
       THEN /\ broker' = [broker EXCEPT !.waiting = @ \cup {m}]
            /\ world' = [world EXCEPT !.published = @ \cup {m}]
       ELSE /\ world' = [world EXCEPT !.published = @ \cup {m}, !.lost = @ \cup {m}]
            /\ UNCHANGED broker
    /\ UNCHANGED <<sock, gatewayVars, faults>>

\* The broker reads a PUBACK: the packet id is free for another message.
BrokerAck(i) ==
    /\ sock.net = "up" /\ i \in sock.pubacks
    /\ sock' = [sock EXCEPT !.pubacks = @ \ {i}, !.sent = @ \ {i}]
    /\ broker' = [broker EXCEPT !.inflight[i] = NoMsg]
    /\ world' = [world EXCEPT !.acked = @ \cup ({broker.inflight[i]} \ {NoMsg})]
    /\ UNCHANGED <<gatewayVars, faults>>

\* The socket dies; the gateway has not noticed yet.
Drop ==
    /\ Fault
    /\ sock.net \in {"connecting", "up"}
    /\ sock' = [sock EXCEPT !.net = "dead"]
    /\ UNCHANGED <<broker, gatewayVars, world>>

\* The session expires or the broker loses it while the gateway is away.
SessionLost ==
    /\ Fault
    /\ sock.net \in {"down", "dead", "connecting"}
    /\ world' = [world EXCEPT !.lost = @ \cup broker.waiting
                       \cup {m \in Msgs : \E i \in Mids : broker.inflight[i] = m}]
    /\ broker' = [waiting |-> {}, inflight |-> [i \in Mids |-> NoMsg], topics |-> {}]
    /\ UNCHANGED <<sock, gatewayVars>>

-----------------------------------------------------------------------------
(* The Paho loop thread and its callbacks *)

\* The loop sees the dead socket: on_disconnect, and it will retry by itself.
OnDisconnect ==
    /\ loop = "idle" /\ sock.net = "dead" /\ ~sock.closing
    /\ gw' = Invalidated(gw)
    /\ sock' = NoSock
    /\ UNCHANGED <<broker, loop, sup, inbox, worker, stop, shut, world, faults>>

\* After client.disconnect(): on_disconnect, and the loop thread returns.
LoopExit ==
    /\ loop = "idle" /\ sock.closing
    /\ gw' = Invalidated(gw)
    /\ sock' = NoSock
    /\ loop' = "dead"
    /\ UNCHANGED <<broker, sup, inbox, worker, stop, shut, world, faults>>

\* The loop thread dies in a callback; every flag keeps its last value. A loop
\* already told to disconnect is taken to get as far as closing its socket.
LoopCrash ==
    /\ Fault
    /\ loop # "dead" /\ ~sock.closing
    /\ loop' = "dead"
    /\ UNCHANGED <<broker, sock, gw, sup, inbox, worker, stop, shut, world>>

\* SessionMqttClient.reconnect: the fence, then a new socket with empty queues.
LoopReconnect ==
    /\ loop = "idle" /\ sock.net = "down" /\ ~sock.closing
    /\ gw' = Invalidated(gw)
    /\ sock' = Connecting
    /\ UNCHANGED <<broker, loop, sup, inbox, worker, stop, shut, world, faults>>

\* on_connect up to its stop check; a refused CONNECT leaves Paho retrying.
OnConnect ==
    /\ loop = "idle" /\ sock.net = "connecting"
    /\ \/ /\ stop
          /\ Disconnect
          /\ UNCHANGED <<loop, faults>>
       \/ /\ ~stop /\ Fault
          /\ gw' = Invalidated(gw)
          /\ sock' = [sock EXCEPT !.net = "dead"]
          /\ UNCHANGED loop
       \/ /\ ~stop
          /\ gw' = Invalidated(gw)
          /\ sock' = [sock EXCEPT !.net = "up"]
          /\ loop' = "accepted"
          /\ UNCHANGED faults
    /\ UNCHANGED <<broker, sup, inbox, worker, stop, shut, world>>

\* The locked section of on_connect: a new generation may acknowledge.
NewGeneration ==
    /\ loop = "accepted"
    /\ gw' = [gw EXCEPT !.gen = @ + 1, !.valid = TRUE, !.armed = TRUE]
    /\ loop' = "subscribing"
    /\ UNCHANGED <<broker, sock, sup, inbox, worker, stop, shut, world, faults>>

\* One turn of the subscribe loop of on_connect; a failure drops the connection.
Subscribe(t) ==
    /\ loop = "subscribing" /\ t \notin sock.asked
    /\ \/ /\ sock' = [sock EXCEPT !.asked = @ \cup {t}]
          /\ gw' = [gw EXCEPT !.pending = @ \cup {t}]
          /\ loop' = IF sock.asked \cup {t} = Topics THEN "idle" ELSE "subscribing"
          /\ UNCHANGED faults
       \/ /\ Fault
          /\ Disconnect
          /\ loop' = "idle"
    /\ UNCHANGED <<broker, sup, inbox, worker, stop, shut, world>>

\* What _on_subscribe makes of a grant: ready once nothing is pending.
Granted(g, t) ==
    IF ~g.valid \/ t \notin g.pending \/ stop THEN g
    ELSE LET left == g.pending \ {t}
         IN  [g EXCEPT !.pending = left, !.armed = @ /\ left # {},
                       !.connected = @ \/ left = {}]

\* The broker answers a SUBSCRIBE: granted at QoS 1, or refused or downgraded.
OnSubscribe(t) ==
    /\ loop = "idle" /\ sock.net = "up" /\ t \in sock.asked \ sock.granted
    /\ \/ /\ sock' = [sock EXCEPT !.granted = @ \cup {t}]
          /\ broker' = [broker EXCEPT !.topics = @ \cup {t}]
          /\ gw' = Granted(gw, t)
          /\ UNCHANGED faults
       \/ /\ Fault
          /\ gw.valid /\ t \in gw.pending /\ ~stop
          /\ Disconnect
          /\ UNCHANGED broker
    /\ UNCHANGED <<loop, sup, inbox, worker, stop, shut, world>>

\* queue.Queue(maxsize=per_worker_capacity)
HasRoom(w) == Len(inbox[w]) < Capacity

\* on_message: queue for the device's shard, or disconnect so that the broker
\* redelivers. The queued copy remembers the generation it arrived in.
OnMessage(m, i) ==
    /\ loop = "idle" /\ sock.net = "up" /\ i \notin sock.sent
    /\ \/ broker.inflight[i] = m /\ UNCHANGED broker
       \/ /\ broker.inflight[i] = NoMsg /\ m \in broker.waiting
          /\ broker' = [broker EXCEPT !.inflight[i] = m, !.waiting = @ \ {m}]
    /\ LET w == Shard[m]
       IN  \/ /\ HasRoom(w)
              /\ inbox' = [inbox EXCEPT ![w] = Append(@, [msg |-> m, mid |-> i, gen |-> gw.gen])]
              /\ sock' = [sock EXCEPT !.sent = @ \cup {i}]
              /\ UNCHANGED <<gw, faults>>
           \/ /\ ~HasRoom(w)
              /\ Fault
              /\ gw' = Invalidated(gw)
              /\ sock' = [Closed(sock) EXCEPT !.sent = @ \cup {i}]
              /\ UNCHANGED inbox
    /\ UNCHANGED <<loop, sup, worker, stop, shut, world>>

-----------------------------------------------------------------------------
(* The supervisor thread *)

\* _check_subscription_timeout reads the deadline, releases the lock ...
SubscriptionExpires ==
    /\ Fault
    /\ sup = "watch" /\ ~stop /\ gw.armed
    /\ sup' = "expired"
    /\ UNCHANGED <<broker, sock, gw, loop, inbox, worker, stop, shut, world>>

\* ... and disconnects, whatever the connection has become meanwhile.
SubscriptionTimeout ==
    /\ sup = "expired"
    /\ Disconnect
    /\ sup' = "watch"
    /\ UNCHANGED <<broker, loop, inbox, worker, stop, shut, world, faults>>

\* _recover_once, _reconnect_lock taken: the stop check, the fence, loop_stop.
RecoverFence ==
    /\ sup = "watch" /\ loop = "dead" /\ ~stop
    /\ gw' = Invalidated(gw)
    /\ sup' = "fenced"
    /\ UNCHANGED <<broker, sock, loop, inbox, worker, stop, shut, world, faults>>

\* client.reconnect() from the supervisor, fenced once more on entry.
RecoverReconnect ==
    /\ sup = "fenced"
    /\ gw' = Invalidated(gw)
    /\ \/ sup' = "opened" /\ sock' = Connecting /\ UNCHANGED faults
       \/ sup' = "failed" /\ sock' = NoSock /\ Fault
    /\ UNCHANGED <<broker, loop, inbox, worker, stop, shut, world>>

\* The stop check after reconnect(): a restored connection is discarded.
RecoverCheck ==
    /\ sup \in {"opened", "failed"}
    /\ \/ /\ stop
          /\ Disconnect
          /\ sup' = "watch"
       \/ /\ ~stop
          /\ sup' = IF sup = "opened" THEN "starting" ELSE "watch"
          /\ UNCHANGED <<gw, sock>>
    /\ UNCHANGED <<broker, loop, inbox, worker, stop, shut, world, faults>>

LoopNotStarted == "dead"

\* What loop_start leaves behind.
LoopStarted == "idle"

\* loop_start, still under _reconnect_lock; stop may have been set meanwhile.
RecoverStart ==
    /\ sup = "starting"
    /\ loop' = LoopStarted
    /\ sup' = "watch"
    /\ UNCHANGED <<broker, sock, gw, inbox, worker, stop, shut, world, faults>>

-----------------------------------------------------------------------------
(* The uplink workers *)

NextItem(w) == Head(inbox[w])

\* A malformed payload is acknowledged unprocessed: the cloud can do nothing
\* with it, so it counts as settled.
DropMalformed(w) ==
    /\ NextItem(w).msg \in Malformed
    /\ Ack(NextItem(w))
    /\ world' = [world EXCEPT !.settled = @ \cup {NextItem(w).msg}]
    /\ UNCHANGED worker

\* The get of _worker_loop.
WorkerGet(w) ==
    /\ worker[w].pc = "get" /\ ~stop /\ inbox[w] # <<>>
    /\ inbox' = [inbox EXCEPT ![w] = Tail(@)]
    /\ \/ DropMalformed(w)
       \/ /\ NextItem(w).msg \notin Malformed
          /\ worker' = [worker EXCEPT ![w] = [pc |-> IF NextItem(w).msg \in Telemetry
                                                     THEN "collect" ELSE "post",
                                              batch |-> <<NextItem(w)>>, deferred |-> <<>>]]
          /\ UNCHANGED <<gw, sock, world>>
    /\ UNCHANGED <<broker, loop, sup, stop, shut, faults>>

\* One get of the micro-batch loop; an item that is no telemetry ends the
\* batch and is processed after it.
Collect(w) ==
    /\ worker[w].pc = "collect"
    /\ Len(worker[w].batch) < BatchSize /\ inbox[w] # <<>>
    /\ inbox' = [inbox EXCEPT ![w] = Tail(@)]
    /\ \/ DropMalformed(w)
       \/ /\ NextItem(w).msg \in Telemetry
          /\ worker' = [worker EXCEPT ![w].batch = Append(@, NextItem(w))]
          /\ UNCHANGED <<gw, sock, world>>
       \/ /\ NextItem(w).msg \notin Telemetry \cup Malformed
          /\ worker' = [worker EXCEPT ![w].pc = "post", ![w].deferred = <<NextItem(w)>>]
          /\ UNCHANGED <<gw, sock, world>>
    /\ UNCHANGED <<broker, loop, sup, stop, shut, faults>>

\* The batch is full or its deadline has passed.
CloseBatch(w) ==
    /\ worker[w].pc = "collect"
    /\ worker' = [worker EXCEPT ![w].pc = "post"]
    /\ UNCHANGED <<broker, sock, gw, loop, sup, inbox, stop, shut, world, faults>>

Posted(w) == {it.msg : it \in Range(worker[w].batch)}

\* The cloud answers for good: 2xx, a non-retryable 4xx, or a batch response
\* that lists every index as accepted or rejected. A mismatched identity is
\* rejected inside a batch; alone it is HTTP 403, which the client retries.
PostSettled(w) ==
    /\ worker[w].pc = "post"
    /\ Posted(w) \cap Mismatched \subseteq Telemetry
    /\ world' = [world EXCEPT !.settled = @ \cup Posted(w)]
    /\ worker' = [worker EXCEPT ![w].pc = "ack"]
    /\ UNCHANGED <<broker, sock, gw, loop, sup, inbox, stop, shut, faults>>

\* ConnectionError or OSError: the cloud may have applied part of the request.
PostFailed(w) ==
    /\ worker[w].pc = "post"
    /\ \E done \in SUBSET (Posted(w) \ Mismatched) :
          world' = [world EXCEPT !.settled = @ \cup done]
    /\ worker' = [worker EXCEPT ![w].pc = "retry"]
    /\ UNCHANGED <<broker, sock, gw, loop, sup, inbox, stop, shut, faults>>

AfterBatchForgetful(k) == Fresh

\* After a batch: the deferred item on its own, else back to the queue.
AfterBatch(k) ==
    IF k.deferred # <<>> THEN [pc |-> "post", batch |-> k.deferred, deferred |-> <<>>]
    ELSE Fresh

\* The first item in hand is dealt with.
Advance(k) == IF Len(k.batch) > 1 THEN [k EXCEPT !.batch = Tail(@)] ELSE AfterBatch(k)

\* The acks after a settled request, one message at a time.
AckNext(w) ==
    /\ worker[w].pc = "ack"
    /\ Ack(Head(worker[w].batch))
    /\ worker' = [worker EXCEPT ![w] = Advance(@)]
    /\ UNCHANGED <<broker, loop, sup, inbox, stop, shut, world, faults>>

RequeuedFirst(q, item) == <<item>> \o q

\* A failed uplink goes behind everything that arrived since.
Requeued(q, item) == Append(q, item)

\* _retry and _requeue_after_retry: each item goes to the tail of the queue
\* with its old generation. Stop, or a full queue, abandons what is left; a
\* full queue also disconnects so that the broker redelivers it.
Requeue(w) ==
    /\ worker[w].pc = "retry"
    /\ \/ /\ stop
          /\ worker' = [worker EXCEPT ![w] = AfterBatch(@)]
          /\ UNCHANGED <<inbox, gw, sock, faults>>
       \/ /\ HasRoom(w)
          /\ inbox' = [inbox EXCEPT ![w] = Requeued(@, Head(worker[w].batch))]
          /\ worker' = [worker EXCEPT ![w] = Advance(@)]
          /\ UNCHANGED <<gw, sock, faults>>
       \/ /\ ~HasRoom(w)
          /\ Fault
          /\ Disconnect
          /\ worker' = [worker EXCEPT ![w] = AfterBatch(@)]
          /\ UNCHANGED inbox
    /\ UNCHANGED <<broker, loop, sup, stop, shut, world>>

-----------------------------------------------------------------------------
(* Process lifecycle *)

\* shutdown: stop_event and the first fence.
ShutdownStop ==
    /\ shut = "no"
    /\ stop' = TRUE /\ shut' = "stopping"
    /\ gw' = Invalidated(gw)
    /\ UNCHANGED <<broker, sock, loop, sup, inbox, worker, world, faults>>

ReconnectLockIgnored == TRUE

\* No recovery is under way: shutdown can take _reconnect_lock.
ReconnectLockFree == sup \in {"watch", "expired"}

\* shutdown, under _reconnect_lock.
ShutdownDisconnect ==
    /\ shut = "stopping" /\ ReconnectLockFree
    /\ shut' = "closing"
    /\ Disconnect
    /\ UNCHANGED <<broker, loop, sup, inbox, worker, stop, world, faults>>

\* loop_stop has joined the loop thread; the last fence. Workers are joined
\* with a timeout and may still be inside a request.
ShutdownDone ==
    /\ shut = "closing" /\ loop = "dead"
    /\ shut' = "closed"
    /\ gw' = [gw EXCEPT !.valid = FALSE, !.connected = FALSE]
    /\ UNCHANGED <<broker, sock, loop, sup, inbox, worker, stop, world, faults>>

\* The process dies, or monitor_once ends it after a critical thread died, and
\* the container restarts it: memory is lost, the broker session is not.
Restart ==
    /\ Fault
    /\ sock' = NoSock
    /\ gw' = FreshGateway
    /\ loop' = "idle" /\ sup' = "watch"
    /\ inbox' = [w \in Workers |-> <<>>]
    /\ worker' = [w \in Workers |-> Fresh]
    /\ stop' = FALSE /\ shut' = "no"
    /\ UNCHANGED <<broker, world>>

LoopStep ==
    \/ OnDisconnect \/ LoopExit \/ LoopReconnect \/ OnConnect \/ NewGeneration
    \/ \E t \in Topics : Subscribe(t) \/ OnSubscribe(t)
    \/ \E m \in Msgs, i \in Mids : OnMessage(m, i)

SupervisorStep ==
    SubscriptionTimeout \/ RecoverFence \/ RecoverReconnect
    \/ RecoverCheck \/ RecoverStart

WorkerStep(w) ==
    \/ WorkerGet(w) \/ Collect(w) \/ CloseBatch(w)
    \/ PostSettled(w) \/ PostFailed(w) \/ AckNext(w) \/ Requeue(w)

Next ==
    \/ \E m \in Msgs : Publish(m)
    \/ \E i \in Mids : BrokerAck(i)
    \/ Drop \/ SessionLost \/ LoopCrash \/ Restart \/ SubscriptionExpires
    \/ LoopStep \/ SupervisorStep
    \/ \E w \in Workers : WorkerStep(w)
    \/ ShutdownStop \/ ShutdownDisconnect \/ ShutdownDone

Spec == Init /\ [][Next]_vars

\* Every thread of the gateway runs, the broker reads what it is sent and
\* redelivers on every connection, and a cloud that is asked again and again
\* answers at last. Failures are not fair, and MaxFaults makes them finite.
FairSpec ==
    /\ Spec
    /\ WF_vars(LoopStep) /\ WF_vars(SupervisorStep)
    /\ WF_vars(\E i \in Mids : BrokerAck(i))
    /\ \A m \in Msgs : SF_vars(\E i \in Mids : OnMessage(m, i))
    /\ \A w \in Workers :
          /\ WF_vars(WorkerStep(w))
          /\ SF_vars(PostSettled(w))

-----------------------------------------------------------------------------
(* Properties *)

\* A message leaves the broker's session by acknowledgement only after the
\* cloud has settled it: accepted or finally refused. ack() relies on the
\* generation and on the fence for that, because packet ids are reused.
AckedWasSettled == world.acked \subseteq world.settled

Holding(w) == Range(inbox[w]) \cup Range(worker[w].batch) \cup Range(worker[w].deferred)

\* A message handed over on a connection that may still acknowledge is held by
\* a worker or has its PUBACK on the way: nothing of the receive window leaks,
\* whatever was retried, batched, deferred or dropped from a full queue.
WindowNeverLeaks ==
    gw.valid /\ ~stop /\ sock.net = "up" =>
        \A i \in sock.sent \ sock.pubacks :
            \E w \in Workers : \E it \in Holding(w) :
                it.mid = i /\ it.gen = gw.gen /\ it.msg = broker.inflight[i]

\* Once shutdown has returned there is no connection, no loop and no right to
\* acknowledge, however the supervisor's reconnect raced with it.
ShutdownLeavesNothing ==
    shut = "closed" => loop = "dead" /\ sock.net = "down" /\ ~gw.valid /\ ~gw.connected

\* The gateway comes back: after the last failure it is ready, for good,
\* unless it is stopped.
ComesBack == <>[](gw.connected \/ stop)

\* Bound: a queue that is full after the last failure has none left to
\* disconnect with, and waits for ever.
OutOfFaults == faults = MaxFaults /\ \E w \in Workers : ~HasRoom(w)

\* Every message the broker holds for the gateway is settled by the cloud in
\* the end, unless the session is lost or the gateway stopped. A lone message
\* with a foreign identity is retried for ever and must not hold up the rest.
EveryUplinkSettles ==
    \A m \in Msgs \ (Mismatched \ Telemetry) :
        m \in world.published ~>
            (m \in world.settled \cup world.lost \/ stop \/ OutOfFaults)
=============================================================================
