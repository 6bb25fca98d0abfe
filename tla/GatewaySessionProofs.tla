------------------------ MODULE GatewaySessionProofs ------------------------
(***************************************************************************)
(* No message is acknowledged to the broker before the cloud has settled   *)
(* it, and no packet id of a connection is left without somebody who will  *)
(* acknowledge it; and shutdown leaves nothing behind: for any number of   *)
(* messages, workers, packet ids and failures.                             *)
(*                                                                         *)
(* The difficulty is that packet ids are reused: a PUBACK names an id, and *)
(* only the generation and the fence tie it to the message it was meant    *)
(* for. The invariant says what the code relies on. While the gateway may  *)
(* acknowledge on a connection that is up, every item of the current       *)
(* generation that a worker holds still owns its packet id: the broker has *)
(* that message in flight under it, no PUBACK for it is on the way, and no *)
(* other item holds the same id. A new generation begins with no item, and *)
(* every way to lose a connection withdraws the right first.               *)
(***************************************************************************)
EXTENDS GatewaySession, TLAPS

BrokerSet == [waiting : SUBSET Msgs, inflight : [Mids -> Msgs \cup {NoMsg}],
              topics : SUBSET Topics]
SockSet == [net : {"down", "connecting", "up", "dead"}, closing : BOOLEAN,
            sent : SUBSET Mids, pubacks : SUBSET Mids,
            asked : SUBSET Topics, granted : SUBSET Topics]
GwSet == [gen : Nat, valid : BOOLEAN, connected : BOOLEAN,
          pending : SUBSET Topics, armed : BOOLEAN]
WorkerSet == [pc : {"get", "collect", "post", "ack", "retry"},
              batch : Seq(Item), deferred : Seq(Item)]
WorldSet == [published : SUBSET Msgs, settled : SUBSET Msgs,
             acked : SUBSET Msgs, lost : SUBSET Msgs]

(* What a step must keep of the types; a worker past its get holds a batch.*)
Types ==
    /\ broker \in BrokerSet /\ sock \in SockSet /\ gw \in GwSet /\ world \in WorldSet
    /\ loop \in {"dead", "idle", "accepted", "subscribing"}
    /\ sup \in {"watch", "expired", "fenced", "opened", "failed", "starting"}
    /\ inbox \in [Workers -> Seq(Item)]
    /\ worker \in [Workers -> WorkerSet]
    /\ \A w \in Workers : worker[w].pc # "get" => worker[w].batch # <<>>

(* A socket that is not connected sends nothing and nothing is asked of it;*)
(* the loop is inside on_connect only on a connection that came up; and    *)
(* the supervisor recovers only a dead loop.                               *)
Connection ==
    /\ sock.net \in {"down", "connecting"} =>
          ~gw.valid /\ sock.sent = {} /\ sock.pubacks = {}
    /\ loop \in {"accepted", "subscribing"} => sock.net \in {"up", "dead"}
    /\ sup \in {"fenced", "opened", "failed", "starting"} => loop = "dead"
    /\ sock.net = "up" => sock.pubacks \subseteq sock.sent

(* A PUBACK on the way is for a message that is settled.                   *)
PubacksSettled ==
    sock.net = "up" =>
        \A i \in sock.pubacks : broker.inflight[i] \in world.settled \cup {NoMsg}

(* Everything in a worker's hands came from its shard, in this generation  *)
(* or an earlier one.                                                      *)
Belongs(w, s) ==
    \A j \in 1 .. Len(s) : s[j].gen <= gw.gen /\ Shard[s[j].msg] = w
HandsBelong ==
    \A w \in Workers :
        Belongs(w, inbox[w]) /\ Belongs(w, worker[w].batch) /\ Belongs(w, worker[w].deferred)

(* Batches being acknowledged were settled.                                *)
AckingSettled ==
    \A w \in Workers : worker[w].pc = "ack" =>
        \A j \in 1 .. Len(worker[w].batch) : worker[w].batch[j].msg \in world.settled

(* An item of this generation owns its packet id.                          *)
Owns(item) ==
    item.gen = gw.gen =>
        /\ item.mid \in sock.sent \ sock.pubacks
        /\ broker.inflight[item.mid] = item.msg
AllOwn(s) == \A j \in 1 .. Len(s) : Owns(s[j])

(* Two items of this generation do not share a packet id.                  *)
Differ(a, b) == a.gen = gw.gen /\ b.gen = gw.gen => a.mid # b.mid
Distinct(s) == \A j, k \in 1 .. Len(s) : j # k => Differ(s[j], s[k])
Apart(s, t) == \A j \in 1 .. Len(s), k \in 1 .. Len(t) : Differ(s[j], t[k])

(* A queue, a batch and what is deferred behind it, each item in one place.*)
Sound(q, b, d) ==
    /\ AllOwn(q) /\ AllOwn(b) /\ AllOwn(d)
    /\ Distinct(q) /\ Distinct(b) /\ Distinct(d)
    /\ Apart(q, b) /\ Apart(q, d) /\ Apart(b, d)
Owned(w) == Sound(inbox[w], worker[w].batch, worker[w].deferred)

MayStillAck == gw.valid /\ sock.net = "up"

HandsOwn == MayStillAck => \A w \in Workers : Owned(w)

AckInv ==
    /\ Types /\ Connection /\ PubacksSettled
    /\ HandsBelong /\ AckingSettled /\ HandsOwn /\ AckedWasSettled

-----------------------------------------------------------------------------
(* Types *)

LEMMA InvalidatedFacts ==
    ASSUME gw \in GwSet
    PROVE  /\ Invalidated(gw) \in GwSet
           /\ Invalidated(gw).gen = gw.gen
           /\ Invalidated(gw).valid = FALSE
  BY DEF Invalidated, GwSet

LEMMA SocketTypes ==
    /\ NoSock \in SockSet /\ NoSock.net = "down"
    /\ NoSock.sent = {} /\ NoSock.pubacks = {}
    /\ Connecting \in SockSet /\ Connecting.net = "connecting"
    /\ Connecting.sent = {} /\ Connecting.pubacks = {}
  BY DEF NoSock, Connecting, SockSet

(* client.disconnect() leaves the connection as it is or closes it.        *)
LEMMA ClosedFacts ==
    ASSUME sock \in SockSet
    PROVE  /\ Closed(sock) \in SockSet
           /\ loop = "dead" => Closed(sock) = NoSock
           /\ loop # "dead" => /\ Closed(sock).net = sock.net
                               /\ Closed(sock).sent = sock.sent
                               /\ Closed(sock).pubacks = sock.pubacks
<1>1. CASE loop = "dead"
  BY <1>1, SocketTypes DEF Closed
<1>2. CASE loop # "dead"
  BY <1>2 DEF Closed, SockSet
<1> QED BY <1>1, <1>2

LEMMA DisconnectFacts ==
    ASSUME Types, Disconnect
    PROVE  /\ gw' \in GwSet /\ gw'.gen = gw.gen /\ gw'.valid = FALSE
           /\ sock' \in SockSet
           /\ loop = "dead" => sock' = NoSock
           /\ loop # "dead" => /\ sock'.net = sock.net /\ sock'.sent = sock.sent
                               /\ sock'.pubacks = sock.pubacks
  BY InvalidatedFacts, ClosedFacts DEF Types, Disconnect

LEMMA AckTypes ==
    ASSUME Types, NEW item \in Item, Ack(item)
    PROVE  /\ gw' \in GwSet /\ gw'.gen = gw.gen
           /\ sock' \in SockSet
<1>1. CASE UNCHANGED <<gw, sock>>
  BY <1>1 DEF Types
<1>2. CASE gw' = Invalidated(gw) /\ sock' = NoSock
  BY <1>2, InvalidatedFacts, SocketTypes DEF Types
<1>3. CASE sock' = [sock EXCEPT !.pubacks = @ \cup {item.mid}] /\ UNCHANGED gw
  BY <1>3 DEF Types, SockSet, Item
<1> QED BY <1>1, <1>2, <1>3 DEF Ack

(* The queue of a worker as a sequence of items.                           *)
LEMMA HeadAndTail ==
    ASSUME NEW s \in Seq(Item), s # <<>>
    PROVE  /\ Head(s) \in Item /\ Head(s) = s[1]
           /\ Tail(s) \in Seq(Item)
           /\ Len(s) \in Nat \ {0} /\ Len(Tail(s)) = Len(s) - 1
           /\ \A j \in 1 .. Len(s) - 1 : Tail(s)[j] = s[j + 1]
           /\ 1 \in 1 .. Len(s)
           /\ \A j \in 1 .. Len(s) : s[j] \in Item
  OBVIOUS

LEMMA Appended ==
    ASSUME NEW s \in Seq(Item), NEW x \in Item
    PROVE  /\ Append(s, x) \in Seq(Item) /\ Append(s, x) # <<>>
           /\ Len(Append(s, x)) = Len(s) + 1 /\ Len(s) \in Nat
           /\ Append(s, x)[Len(s) + 1] = x
           /\ \A j \in 1 .. Len(s) : Append(s, x)[j] = s[j]
  OBVIOUS

LEMMA LongTail ==
    ASSUME NEW s \in Seq(Item), Len(s) > 1
    PROVE  Tail(s) \in Seq(Item) /\ Tail(s) # <<>>
<1>1. Len(s) \in Nat /\ s # <<>>
  OBVIOUS
<1>2. Tail(s) \in Seq(Item) /\ Len(Tail(s)) = Len(s) - 1
  BY <1>1
<1>3. \A n \in Nat : n > 1 => n - 1 # 0
  OBVIOUS
<1>4. Len(Tail(s)) # 0
  BY <1>1, <1>2, <1>3
<1>5. \A t : t = <<>> => Len(t) = 0
  OBVIOUS
<1>6. Tail(s) # <<>>
  BY <1>4, <1>5, Zenon
<1> QED BY <1>2, <1>6

LEMMA Singleton ==
    ASSUME NEW x \in Item
    PROVE  /\ <<x>> \in Seq(Item) /\ <<x>> # <<>>
           /\ Len(<<x>>) = 1 /\ <<x>>[1] = x
  OBVIOUS

LEMMA Empty == <<>> \in Seq(Item) /\ Len(<<>>) = 0
  OBVIOUS

LEMMA FreshFacts == Fresh \in WorkerSet /\ Fresh.pc = "get"
                    /\ Fresh.batch = <<>> /\ Fresh.deferred = <<>>
  BY DEF Fresh, WorkerSet

(* What a worker is left with after its batch, and after the first item.   *)
LEMMA AfterBatchFacts ==
    ASSUME NEW k \in WorkerSet
    PROVE  LET n == AfterBatch(k)
           IN  /\ n \in WorkerSet
               /\ n.pc \in {"get", "post"}
               /\ n.pc # "get" => n.batch # <<>>
               /\ n.batch = k.deferred /\ n.deferred = <<>>
<1>1. CASE k.deferred # <<>>
  BY <1>1, Empty DEF AfterBatch, WorkerSet
<1>2. CASE k.deferred = <<>>
  BY <1>2, FreshFacts DEF AfterBatch
<1> QED BY <1>1, <1>2

LEMMA AdvanceFacts ==
    ASSUME NEW k \in WorkerSet, k.batch # <<>>
    PROVE  LET n == Advance(k)
           IN  /\ n \in WorkerSet
               /\ n.pc # "get" => n.batch # <<>>
               /\ \/ /\ n.batch = Tail(k.batch) /\ n.deferred = k.deferred
                     /\ n.pc = k.pc
                  \/ /\ n.batch = k.deferred /\ n.deferred = <<>>
                     /\ n.pc \in {"get", "post"}
<1> k.batch \in Seq(Item) /\ k.deferred \in Seq(Item)
  BY DEF WorkerSet
<1>1. CASE Len(k.batch) > 1
  <2>1. Advance(k) = [k EXCEPT !.batch = Tail(k.batch)]
    BY <1>1 DEF Advance
  <2>2. Tail(k.batch) \in Seq(Item) /\ Tail(k.batch) # <<>>
    BY <1>1, LongTail
  <2> QED BY <2>1, <2>2 DEF WorkerSet
<1>2. CASE ~(Len(k.batch) > 1)
  BY <1>2, AfterBatchFacts DEF Advance
<1> QED BY <1>1, <1>2

LEMMA PostedTypes ==
    ASSUME Types, NEW w \in Workers
    PROVE  Posted(w) \subseteq Msgs
<1>1. worker[w].batch \in Seq(Item)
  BY DEF Types, WorkerSet
<1>2. SUFFICES ASSUME NEW it \in Range(worker[w].batch)
               PROVE  it.msg \in Msgs
  BY DEF Posted
<1>3. it \in Item
  BY <1>1 DEF Range
<1> QED BY <1>3 DEF Item

(* Steps of the devices, the broker, the network and the Paho loop.        *)
LEMMA LoopTypes ==
    ASSUME Types,
           \/ \E m \in Msgs : Publish(m)
           \/ \E i \in Mids : BrokerAck(i)
           \/ Drop \/ SessionLost \/ LoopCrash \/ Restart \/ SubscriptionExpires
           \/ LoopStep
    PROVE  Types'
<1>1. ASSUME NEW m \in Msgs, Publish(m)
      PROVE  Types'
  <2>1. broker' \in BrokerSet
    <3>1. UNCHANGED broker \/ broker' = [broker EXCEPT !.waiting = @ \cup {m}]
      BY <1>1 DEF Publish
    <3>2. [broker EXCEPT !.waiting = @ \cup {m}] \in BrokerSet
      BY DEF Types, BrokerSet
    <3> QED BY <3>1, <3>2 DEF Types
  <2>2. world' \in WorldSet
    <3>1. \/ world' = [world EXCEPT !.published = @ \cup {m}]
          \/ world' = [world EXCEPT !.published = @ \cup {m}, !.lost = @ \cup {m}]
      BY <1>1 DEF Publish
    <3>2. /\ world.published \cup {m} \in SUBSET Msgs
          /\ world.lost \cup {m} \in SUBSET Msgs
          /\ world \in WorldSet
      BY DEF Types, WorldSet
    <3> QED BY <3>1, <3>2 DEF WorldSet
  <2> QED BY <1>1, <2>1, <2>2 DEF Types, Publish, gatewayVars
<1>2. ASSUME NEW i \in Mids, BrokerAck(i)
      PROVE  Types'
  <2>1. world'.acked \subseteq Msgs /\ world' \in WorldSet
    BY <1>2 DEF BrokerAck, Types, WorldSet, BrokerSet
  <2>2. broker' \in BrokerSet
    BY <1>2 DEF BrokerAck, Types, BrokerSet
  <2>3. sock' \in SockSet
    BY <1>2 DEF BrokerAck, Types, SockSet
  <2> QED BY <1>2, <2>1, <2>2, <2>3 DEF BrokerAck, Types, gatewayVars
<1>3. CASE Drop
  BY <1>3 DEF Types, Drop, gatewayVars, SockSet
<1>4. CASE SessionLost
  <2>1. world' \in WorldSet
    BY <1>4 DEF Types, SessionLost, BrokerSet, WorldSet
  <2>2. broker' \in BrokerSet
    BY <1>4 DEF SessionLost, BrokerSet
  <2> QED BY <1>4, <2>1, <2>2 DEF Types, SessionLost, gatewayVars
<1>5. CASE LoopCrash
  BY <1>5 DEF Types, LoopCrash
<1>6. CASE Restart
  <2>1. FreshGateway \in GwSet
    BY DEF FreshGateway, GwSet
  <2>2. inbox' \in [Workers -> Seq(Item)]
    BY <1>6, Empty DEF Restart
  <2>3. worker' \in [Workers -> WorkerSet]
    BY <1>6, FreshFacts DEF Restart
  <2> QED BY <1>6, <2>1, <2>2, <2>3, FreshFacts, SocketTypes DEF Types, Restart
<1>7. CASE SubscriptionExpires
  BY <1>7 DEF Types, SubscriptionExpires
<1>8. CASE OnDisconnect
  BY <1>8, InvalidatedFacts, SocketTypes DEF Types, OnDisconnect
<1>9. CASE LoopExit
  BY <1>9, InvalidatedFacts, SocketTypes DEF Types, LoopExit
<1>10. CASE LoopReconnect
  BY <1>10, InvalidatedFacts, SocketTypes DEF Types, LoopReconnect
<1>11. CASE OnConnect
  <2>1. gw' \in GwSet
    BY <1>11, DisconnectFacts, InvalidatedFacts DEF OnConnect, Types
  <2>2. sock' \in SockSet
    <3>1. CASE Disconnect
      BY <3>1, DisconnectFacts
    <3>2. CASE sock' = [sock EXCEPT !.net = "dead"] \/ sock' = [sock EXCEPT !.net = "up"]
      BY <3>2 DEF Types, SockSet
    <3> QED BY <1>11, <3>1, <3>2 DEF OnConnect
  <2> QED BY <1>11, <2>1, <2>2 DEF OnConnect, Types
<1>12. CASE NewGeneration
  <2>1. gw' = [gw EXCEPT !.gen = @ + 1, !.valid = TRUE, !.armed = TRUE]
    BY <1>12 DEF NewGeneration
  <2>2. gw' \in GwSet
    <3>1. gw.gen + 1 \in Nat /\ gw \in GwSet
      BY DEF Types, GwSet
    <3> QED BY <2>1, <3>1 DEF GwSet
  <2> QED BY <1>12, <2>2 DEF Types, NewGeneration
<1>13. ASSUME NEW t \in Topics, Subscribe(t)
       PROVE  Types'
  <2>1. CASE Disconnect
    BY <1>13, <2>1, DisconnectFacts DEF Subscribe, Types
  <2>2. CASE ~Disconnect
    <3>1. /\ sock' = [sock EXCEPT !.asked = @ \cup {t}]
          /\ gw' = [gw EXCEPT !.pending = @ \cup {t}]
      BY <1>13, <2>2 DEF Subscribe
    <3>2. sock' \in SockSet /\ gw' \in GwSet
      BY <3>1 DEF Types, SockSet, GwSet
    <3> QED BY <1>13, <3>2 DEF Subscribe, Types
  <2> QED BY <2>1, <2>2
<1>14. ASSUME NEW t \in Topics, OnSubscribe(t)
       PROVE  Types'
  <2>1. CASE Disconnect /\ UNCHANGED broker
    BY <1>14, <2>1, DisconnectFacts DEF OnSubscribe, Types
  <2>2. CASE ~(Disconnect /\ UNCHANGED broker)
    <3>1. /\ sock' = [sock EXCEPT !.granted = @ \cup {t}]
          /\ broker' = [broker EXCEPT !.topics = @ \cup {t}]
          /\ gw' = Granted(gw, t)
      BY <1>14, <2>2 DEF OnSubscribe
    <3>2. sock' \in SockSet /\ broker' \in BrokerSet
      BY <3>1 DEF Types, SockSet, BrokerSet
    <3>3. gw' \in GwSet
      BY <3>1 DEF Types, Granted, GwSet
    <3> QED BY <1>14, <3>2, <3>3 DEF OnSubscribe, Types
  <2> QED BY <2>1, <2>2
<1>15. ASSUME NEW m \in Msgs, NEW i \in Mids, OnMessage(m, i)
       PROVE  Types'
  <2>1. broker' \in BrokerSet
    <3>1. CASE UNCHANGED broker
      BY <3>1 DEF Types
    <3>2. CASE broker' = [broker EXCEPT !.inflight[i] = m, !.waiting = @ \ {m}]
      BY <3>2 DEF Types, BrokerSet
    <3> QED BY <1>15, <3>1, <3>2 DEF OnMessage
  <2>2. Shard[m] \in Workers
    BY GatewayConstants
  <2>3. [msg |-> m, mid |-> i, gen |-> gw.gen] \in Item
    BY DEF Item, Types, GwSet
  <2>4. inbox' \in [Workers -> Seq(Item)]
    <3>1. inbox[Shard[m]] \in Seq(Item)
      BY <2>2 DEF Types
    <3>2. Append(inbox[Shard[m]], [msg |-> m, mid |-> i, gen |-> gw.gen]) \in Seq(Item)
      BY <2>3, <3>1, Appended
    <3> QED BY <1>15, <3>2 DEF OnMessage, Types
  <2>5. sock' \in SockSet /\ gw' \in GwSet
    <3>1. \A s \in SockSet : [s EXCEPT !.sent = @ \cup {i}] \in SockSet
      BY DEF SockSet
    <3> QED BY <1>15, <3>1, ClosedFacts, InvalidatedFacts DEF OnMessage, Types
  <2> QED BY <1>15, <2>1, <2>4, <2>5 DEF OnMessage, Types
<1> QED
  BY <1>1, <1>2, <1>3, <1>4, <1>5, <1>6, <1>7, <1>8, <1>9, <1>10, <1>11, <1>12,
     <1>13, <1>14, <1>15 DEF LoopStep

(* Steps of the supervisor, the workers and the main thread.               *)
LEMMA WorkerTypes ==
    ASSUME Types, NEW w \in Workers, WorkerStep(w)
    PROVE  Types'
<1>w. worker[w] \in WorkerSet /\ worker[w].batch \in Seq(Item)
  BY DEF Types, WorkerSet
<1>i. inbox[w] \in Seq(Item)
  BY DEF Types
<1>s. \A done \in SUBSET Msgs :
        [world EXCEPT !.settled = @ \cup done] \in WorldSet
  BY DEF Types, WorldSet
<1>1. ASSUME inbox[w] # <<>>, DropMalformed(w),
             inbox' = [inbox EXCEPT ![w] = Tail(@)],
             UNCHANGED <<broker, loop, sup>>
      PROVE  Types'
  <2>1. NextItem(w) \in Item /\ NextItem(w).msg \in Msgs
    BY <1>1, <1>i, HeadAndTail DEF NextItem, Item
  <2>2. gw' \in GwSet /\ sock' \in SockSet
    BY <1>1, <2>1, AckTypes DEF DropMalformed
  <2>3. world' \in WorldSet /\ UNCHANGED worker
    BY <1>1, <1>s, <2>1 DEF DropMalformed
  <2>4. inbox' \in [Workers -> Seq(Item)]
    BY <1>1, <1>i, HeadAndTail DEF Types
  <2> QED BY <1>1, <2>2, <2>3, <2>4 DEF Types
<1>2. ASSUME inbox[w] # <<>>, UNCHANGED <<gw, sock, world, broker, loop, sup>>,
             inbox' = [inbox EXCEPT ![w] = Tail(@)],
             NEW k \in WorkerSet, k.batch # <<>>, worker' = [worker EXCEPT ![w] = k]
      PROVE  Types'
  <2>1. inbox' \in [Workers -> Seq(Item)]
    BY <1>2, <1>i, HeadAndTail DEF Types
  <2> QED BY <1>2, <2>1 DEF Types
<1>3. CASE WorkerGet(w)
  <2>1. inbox[w] # <<>> /\ UNCHANGED <<broker, loop, sup>>
        /\ inbox' = [inbox EXCEPT ![w] = Tail(@)]
    BY <1>3 DEF WorkerGet
  <2>2. CASE DropMalformed(w)
    BY <1>1, <2>1, <2>2
  <2>3. CASE ~DropMalformed(w)
    <3> DEFINE k == [pc |-> IF NextItem(w).msg \in Telemetry THEN "collect" ELSE "post",
                     batch |-> <<NextItem(w)>>, deferred |-> <<>>]
    <3>1. worker' = [worker EXCEPT ![w] = k] /\ UNCHANGED <<gw, sock, world>>
      BY <1>3, <2>3 DEF WorkerGet
    <3>2. NextItem(w) \in Item
      BY <2>1, <1>i, HeadAndTail DEF NextItem
    <3>3. k \in WorkerSet /\ k.batch # <<>>
      BY <3>2, Singleton, Empty DEF WorkerSet
    <3> HIDE DEF k
    <3> QED BY <1>2, <2>1, <3>1, <3>3
  <2> QED BY <2>2, <2>3
<1>4. CASE Collect(w)
  <2>1. inbox[w] # <<>> /\ UNCHANGED <<broker, loop, sup>>
        /\ inbox' = [inbox EXCEPT ![w] = Tail(@)] /\ worker[w].pc = "collect"
    BY <1>4 DEF Collect
  <2>2. NextItem(w) \in Item
    BY <2>1, <1>i, HeadAndTail DEF NextItem
  <2>3. CASE DropMalformed(w)
    BY <1>1, <2>1, <2>3
  <2>4. CASE worker' = [worker EXCEPT ![w].batch = Append(@, NextItem(w))]
             /\ UNCHANGED <<gw, sock, world>>
    <3> DEFINE k == [worker[w] EXCEPT !.batch = Append(@, NextItem(w))]
    <3>1. worker' = [worker EXCEPT ![w] = k]
      BY <2>4, <1>w DEF Types
    <3>2. Append(worker[w].batch, NextItem(w)) \in Seq(Item)
          /\ Append(worker[w].batch, NextItem(w)) # <<>>
      BY <1>w, <2>2, Appended
    <3>3. k \in WorkerSet /\ k.batch # <<>>
      BY <1>w, <3>2 DEF WorkerSet
    <3> HIDE DEF k
    <3> QED BY <1>2, <2>1, <2>4, <3>1, <3>3
  <2>5. CASE worker' = [worker EXCEPT ![w].pc = "post", ![w].deferred = <<NextItem(w)>>]
             /\ UNCHANGED <<gw, sock, world>>
    <3> DEFINE k == [worker[w] EXCEPT !.pc = "post", !.deferred = <<NextItem(w)>>]
    <3>1. worker' = [worker EXCEPT ![w] = k]
      BY <2>5, <1>w, Zenon DEF Types
    <3>2. <<NextItem(w)>> \in Seq(Item)
      BY <2>2, Singleton
    <3>3. k \in WorkerSet /\ k.batch = worker[w].batch
      BY <1>w, <3>2 DEF WorkerSet
    <3>4. k.batch # <<>>
      BY <2>1, <3>3 DEF Types
    <3> HIDE DEF k
    <3> QED BY <1>2, <2>1, <2>5, <3>1, <3>3, <3>4
  <2> QED BY <1>4, <2>3, <2>4, <2>5 DEF Collect

<1>5. ASSUME UNCHANGED <<broker, loop, sup, inbox>>,
             gw' \in GwSet, sock' \in SockSet, world' \in WorldSet,
             NEW k \in WorkerSet, k.pc # "get" => k.batch # <<>>,
             worker' = [worker EXCEPT ![w] = k]
      PROVE  Types'
  BY <1>5 DEF Types
<1>6. ASSUME NEW pc \in {"post", "ack", "retry"}, worker[w].pc # "get",
             worker' = [worker EXCEPT ![w].pc = pc],
             UNCHANGED <<broker, loop, sup, inbox, gw, sock>>, world' \in WorldSet
      PROVE  Types'
  <2> DEFINE k == [worker[w] EXCEPT !.pc = pc]
  <2>1. worker' = [worker EXCEPT ![w] = k]
    BY <1>6, <1>w DEF Types
  <2>2. k \in WorkerSet /\ k.batch = worker[w].batch
    BY <1>w DEF WorkerSet
  <2>3. worker[w].batch # <<>> /\ gw' \in GwSet /\ sock' \in SockSet
    BY <1>6 DEF Types
  <2> HIDE DEF k
  <2> QED BY <1>5, <1>6, <2>1, <2>2, <2>3
<1>7. CASE CloseBatch(w)
  BY <1>6, <1>7 DEF CloseBatch, Types
<1>8. CASE PostSettled(w)
  <2>1. world' \in WorldSet
    BY <1>8, <1>s, PostedTypes DEF PostSettled
  <2> QED BY <1>6, <1>8, <2>1 DEF PostSettled
<1>9. CASE PostFailed(w)
  <2>1. world' \in WorldSet
    BY <1>9, <1>s, PostedTypes DEF PostFailed
  <2> QED BY <1>6, <1>9, <2>1 DEF PostFailed
<1>10. ASSUME worker[w].pc # "get"
       PROVE  LET k == Advance(worker[w])
              IN  k \in WorkerSet /\ (k.pc # "get" => k.batch # <<>>)
  <2>1. worker[w].batch # <<>>
    BY <1>10 DEF Types
  <2> QED BY <1>w, <2>1, AdvanceFacts
<1>11. CASE AckNext(w)
  <2> DEFINE k == Advance(worker[w])
  <2>1. worker' = [worker EXCEPT ![w] = k] /\ worker[w].pc # "get"
        /\ UNCHANGED <<broker, loop, sup, inbox, world>>
    BY <1>11 DEF AckNext
  <2>2. Head(worker[w].batch) \in Item
    BY <1>w, <2>1, HeadAndTail DEF Types
  <2>3. gw' \in GwSet /\ sock' \in SockSet
    BY <1>11, <2>2, AckTypes DEF AckNext
  <2>4. k \in WorkerSet /\ (k.pc # "get" => k.batch # <<>>)
    BY <1>10, <2>1
  <2>5. world' \in WorldSet
    BY <2>1 DEF Types
  <2> HIDE DEF k
  <2> QED BY <1>5, <2>1, <2>3, <2>4, <2>5
<1>12. CASE Requeue(w)
  <2>1. worker[w].pc # "get" /\ UNCHANGED <<broker, loop, sup, world>>
    BY <1>12 DEF Requeue
  <2>2. gw' \in GwSet /\ sock' \in SockSet /\ world' \in WorldSet
    BY <1>12, DisconnectFacts DEF Requeue, Types
  <2>3. CASE UNCHANGED inbox
    <3> DEFINE k == AfterBatch(worker[w])
    <3>1. CASE worker' = [worker EXCEPT ![w] = k]
      <4>1. k \in WorkerSet /\ (k.pc # "get" => k.batch # <<>>)
        BY <1>w, AfterBatchFacts
      <4> HIDE DEF k
      <4> QED BY <1>5, <2>1, <2>2, <2>3, <3>1, <4>1
    <3>2. CASE worker' # [worker EXCEPT ![w] = k]
      <4>1. inbox' = [inbox EXCEPT ![w] = Append(@, Head(worker[w].batch))]
        BY <1>12, <3>2 DEF Requeue, Requeued
      <4>2. inbox'[w] = Append(inbox[w], Head(worker[w].batch))
        BY <4>1 DEF Types
      <4>3. Head(worker[w].batch) \in Item
        BY <1>w, <2>1, HeadAndTail DEF Types
      <4>4. Len(inbox'[w]) = Len(inbox[w]) + 1 /\ Len(inbox[w]) \in Nat
        BY <1>i, <4>2, <4>3, Appended
      <4> QED BY <2>3, <4>4
    <3> QED BY <3>1, <3>2
  <2>4. CASE ~UNCHANGED inbox
    <3> DEFINE k == Advance(worker[w])
    <3>1. /\ inbox' = [inbox EXCEPT ![w] = Append(@, Head(worker[w].batch))]
          /\ worker' = [worker EXCEPT ![w] = k]
      BY <1>12, <2>4 DEF Requeue, Requeued
    <3>2. Head(worker[w].batch) \in Item
      BY <1>w, <2>1, HeadAndTail DEF Types
    <3>3. Append(inbox[w], Head(worker[w].batch)) \in Seq(Item)
      BY <1>i, <3>2, Appended
    <3>4. inbox' \in [Workers -> Seq(Item)]
      BY <3>1, <3>3 DEF Types
    <3>5. k \in WorkerSet /\ (k.pc # "get" => k.batch # <<>>)
      BY <1>10, <2>1
    <3> HIDE DEF k
    <3> QED BY <2>1, <2>2, <3>1, <3>4, <3>5 DEF Types
  <2> QED BY <2>3, <2>4
<1> QED BY <1>3, <1>4, <1>7, <1>8, <1>9, <1>11, <1>12 DEF WorkerStep

LEMMA TypesKept ==
    ASSUME Types, [Next]_vars
    PROVE  Types'
<1>1. CASE SubscriptionTimeout
  BY <1>1, DisconnectFacts DEF SubscriptionTimeout, Types
<1>2. CASE RecoverFence
  BY <1>2, InvalidatedFacts DEF RecoverFence, Types
<1>3. CASE RecoverReconnect
  BY <1>3, InvalidatedFacts, SocketTypes DEF RecoverReconnect, Types
<1>4. CASE RecoverCheck
  BY <1>4, DisconnectFacts DEF RecoverCheck, Types
<1>5. CASE RecoverStart
  BY <1>5 DEF RecoverStart, LoopStarted, Types
<1>6. CASE ShutdownStop
  BY <1>6, InvalidatedFacts DEF ShutdownStop, Types
<1>7. CASE ShutdownDisconnect
  BY <1>7, DisconnectFacts DEF ShutdownDisconnect, Types
<1>8. CASE ShutdownDone
  <2>1. gw' \in GwSet
    BY <1>8 DEF ShutdownDone, Types, GwSet
  <2> QED BY <1>8, <2>1 DEF ShutdownDone, Types
<1>9. CASE UNCHANGED vars
  BY <1>9 DEF vars, Types
<1> QED
  BY <1>1, <1>2, <1>3, <1>4, <1>5, <1>6, <1>7, <1>8, <1>9, LoopTypes, WorkerTypes
  DEF Next, SupervisorStep

-----------------------------------------------------------------------------
(* The connection *)

(* What is apart in the generation of the step's start is apart after it,  *)
(* unless a new generation began.                                          *)
LEMMA ApartStays ==
    ASSUME NEW w, gw'.gen = gw.gen,
           Distinct(inbox'[w]), Distinct(worker'[w].batch), Distinct(worker'[w].deferred),
           Apart(inbox'[w], worker'[w].batch), Apart(inbox'[w], worker'[w].deferred),
           Apart(worker'[w].batch, worker'[w].deferred)
    PROVE  /\ Distinct(inbox[w])' /\ Distinct(worker[w].batch)'
           /\ Distinct(worker[w].deferred)'
           /\ Apart(inbox[w], worker[w].batch)' /\ Apart(inbox[w], worker[w].deferred)'
           /\ Apart(worker[w].batch, worker[w].deferred)'
<1>1. ASSUME NEW a, NEW b
      PROVE  Differ(a, b)' <=> Differ(a, b)
  BY DEF Differ
<1>2. Distinct(inbox[w])'
  BY <1>1 DEF Distinct
<1>3. Distinct(worker[w].batch)'
  BY <1>1 DEF Distinct
<1>4. Distinct(worker[w].deferred)'
  BY <1>1 DEF Distinct
<1>5. Apart(inbox[w], worker[w].batch)'
  BY <1>1 DEF Apart
<1>6. Apart(inbox[w], worker[w].deferred)'
  BY <1>1 DEF Apart
<1>7. Apart(worker[w].batch, worker[w].deferred)'
  BY <1>1 DEF Apart
<1> QED BY <1>2, <1>3, <1>4, <1>5, <1>6, <1>7

(* A step that leaves the workers' hands alone, and either keeps the       *)
(* generation's connection as it is or withdraws the right to acknowledge. *)
LEMMA QuietKeeps ==
    ASSUME AckInv, Types', Connection',
           UNCHANGED <<inbox, worker>>, gw'.gen = gw.gen,
           world.settled \subseteq world'.settled, world'.acked = world.acked,
           sock'.net = "up" =>
              \/ sock'.pubacks = {} /\ gw'.valid = FALSE
              \/ /\ sock.net = "up" /\ sock'.sent = sock.sent
                 /\ sock'.pubacks = sock.pubacks
                 /\ broker'.inflight = broker.inflight
                 /\ gw'.valid => gw.valid
    PROVE  AckInv'
<1>1. PubacksSettled'
  BY DEF AckInv, PubacksSettled
<1>2. HandsBelong' /\ AckingSettled'
  <2>1. HandsBelong'
    BY DEF AckInv, HandsBelong, Belongs
  <2>2. AckingSettled'
    BY DEF AckInv, AckingSettled
  <2> QED BY <2>1, <2>2
<1>3. HandsOwn'
  <2> SUFFICES ASSUME MayStillAck', NEW w \in Workers
               PROVE  Owned(w)'
    BY DEF HandsOwn
  <2>1. /\ MayStillAck /\ sock'.sent = sock.sent /\ sock'.pubacks = sock.pubacks
        /\ broker'.inflight = broker.inflight
    BY DEF MayStillAck
  <2>2. Owned(w)
    BY <2>1 DEF AckInv, HandsOwn
  <2>3. inbox'[w] = inbox[w] /\ worker'[w] = worker[w]
    OBVIOUS
  <2>4. ASSUME NEW item, Owns(item)
        PROVE  Owns(item)'
    BY <2>1, <2>4 DEF Owns
  <2>5. AllOwn(inbox[w])' /\ AllOwn(worker[w].batch)' /\ AllOwn(worker[w].deferred)'
    BY <2>2, <2>3, <2>4 DEF Owned, Sound, AllOwn
  <2>6. /\ Distinct(inbox[w])' /\ Distinct(worker[w].batch)' /\ Distinct(worker[w].deferred)'
        /\ Apart(inbox[w], worker[w].batch)' /\ Apart(inbox[w], worker[w].deferred)'
        /\ Apart(worker[w].batch, worker[w].deferred)'
    BY <2>2, <2>3, ApartStays DEF Owned, Sound
  <2> QED BY <2>5, <2>6 DEF Owned, Sound
<1>4. AckedWasSettled'
  BY DEF AckInv, AckedWasSettled
<1> QED BY <1>1, <1>2, <1>3, <1>4 DEF AckInv

LEMMA DisconnectKeeps ==
    ASSUME AckInv, Types', Disconnect, UNCHANGED <<broker, loop, inbox, worker, world>>,
           sup' = sup \/ sup' \in {"watch", "expired"}
    PROVE  AckInv'
<1>1. /\ gw'.gen = gw.gen /\ gw'.valid = FALSE
      /\ loop = "dead" => sock' = NoSock
      /\ loop # "dead" => /\ sock'.net = sock.net /\ sock'.sent = sock.sent
                          /\ sock'.pubacks = sock.pubacks
  BY DisconnectFacts DEF AckInv
<1>2. Connection'
  BY <1>1, SocketTypes DEF AckInv, Connection
<1> QED BY <1>1, <1>2, SocketTypes, QuietKeeps

(* A packet id is freed: no item in hand has it, for its PUBACK was on the *)
(* way, and the message it stood for was settled.                          *)
LEMMA BrokerAckKeeps ==
    ASSUME AckInv, Types', NEW i \in Mids, BrokerAck(i)
    PROVE  AckInv'
<1>1. /\ UNCHANGED <<gw, loop, sup, inbox, worker>>
      /\ sock.net = "up" /\ i \in sock.pubacks
      /\ world'.settled = world.settled
      /\ world'.acked = world.acked \cup ({broker.inflight[i]} \ {NoMsg})
      /\ sock'.net = sock.net /\ sock'.sent = sock.sent \ {i}
      /\ sock'.pubacks = sock.pubacks \ {i}
      /\ \A j \in Mids \ {i} : broker'.inflight[j] = broker.inflight[j]
  <2>1. /\ UNCHANGED <<gw, loop, sup, inbox, worker>>
        /\ sock.net = "up" /\ i \in sock.pubacks
    BY DEF BrokerAck, gatewayVars
  <2>2. /\ world'.settled = world.settled
        /\ world'.acked = world.acked \cup ({broker.inflight[i]} \ {NoMsg})
    BY DEF BrokerAck, AckInv, Types, WorldSet
  <2>3. /\ sock'.net = sock.net /\ sock'.sent = sock.sent \ {i}
        /\ sock'.pubacks = sock.pubacks \ {i}
    BY DEF BrokerAck, AckInv, Types, SockSet
  <2>4. \A j \in Mids \ {i} : broker'.inflight[j] = broker.inflight[j]
    BY DEF BrokerAck, AckInv, Types, BrokerSet
  <2> QED BY <2>1, <2>2, <2>3, <2>4
<1>2. Connection'
  BY <1>1 DEF AckInv, Connection
<1>3. PubacksSettled'
  BY <1>1 DEF AckInv, PubacksSettled, Types, SockSet
<1>4. HandsBelong' /\ AckingSettled'
  BY <1>1 DEF AckInv, HandsBelong, Belongs, AckingSettled
<1>5. HandsOwn'
  <2> SUFFICES ASSUME MayStillAck', NEW w \in Workers
               PROVE  Owned(w)'
    BY DEF HandsOwn
  <2>1. Owned(w)
    BY <1>1 DEF MayStillAck, AckInv, HandsOwn
  <2>2. ASSUME NEW item, Owns(item)
        PROVE  Owns(item)'
    BY <1>1, <2>2 DEF Owns, AckInv, Types, SockSet
  <2>3. AllOwn(inbox[w])' /\ AllOwn(worker[w].batch)' /\ AllOwn(worker[w].deferred)'
    BY <1>1, <2>1, <2>2 DEF Owned, Sound, AllOwn
  <2>4. /\ Distinct(inbox[w])' /\ Distinct(worker[w].batch)' /\ Distinct(worker[w].deferred)'
        /\ Apart(inbox[w], worker[w].batch)' /\ Apart(inbox[w], worker[w].deferred)'
        /\ Apart(worker[w].batch, worker[w].deferred)'
    <3>1. inbox'[w] = inbox[w] /\ worker'[w] = worker[w] /\ gw' = gw
      BY <1>1
    <3>2. /\ Distinct(inbox[w]) /\ Distinct(worker[w].batch) /\ Distinct(worker[w].deferred)
          /\ Apart(inbox[w], worker[w].batch) /\ Apart(inbox[w], worker[w].deferred)
          /\ Apart(worker[w].batch, worker[w].deferred)
      BY <2>1 DEF Owned, Sound
    <3> QED BY <3>1, <3>2, ApartStays
  <2> QED BY <2>3, <2>4 DEF Owned, Sound
<1>6. AckedWasSettled'
  BY <1>1 DEF AckInv, AckedWasSettled, PubacksSettled
<1> QED BY <1>2, <1>3, <1>4, <1>5, <1>6 DEF AckInv

(* Nothing in hand is of a generation that has not begun.                  *)
LEMMA NewGenerationKeeps ==
    ASSUME AckInv, Types', NewGeneration
    PROVE  AckInv'
<1>1. gw.gen \in Nat /\ gw'.gen = gw.gen + 1
  BY DEF NewGeneration, AckInv, Types, GwSet
<1>2. UNCHANGED <<broker, sock, sup, inbox, worker, world>>
      /\ loop = "accepted" /\ loop' = "subscribing"
  BY DEF NewGeneration
<1>3. Connection' /\ PubacksSettled' /\ AckingSettled' /\ AckedWasSettled'
  BY <1>2 DEF AckInv, Connection, PubacksSettled, AckingSettled, AckedWasSettled
<1>4. ASSUME NEW w \in Workers, NEW s \in Seq(Item), Belongs(w, s)
      PROVE  /\ \A j \in 1 .. Len(s) : s[j].gen <= gw'.gen /\ s[j].gen # gw'.gen
             /\ \A j \in 1 .. Len(s) : Shard[s[j].msg] = w
  <2> SUFFICES ASSUME NEW j \in 1 .. Len(s)
               PROVE  s[j].gen <= gw'.gen /\ s[j].gen # gw'.gen /\ Shard[s[j].msg] = w
    OBVIOUS
  <2>1. s[j].gen <= gw.gen /\ Shard[s[j].msg] = w
    BY <1>4 DEF Belongs
  <2>2. s[j] \in Item
    OBVIOUS
  <2>3. s[j].gen \in Nat
    BY <2>2 DEF Item
  <2> QED BY <1>1, <2>1, <2>3
<1>5. ASSUME NEW w \in Workers
      PROVE  /\ Belongs(w, inbox[w])' /\ Belongs(w, worker[w].batch)'
             /\ Belongs(w, worker[w].deferred)' /\ Owned(w)'
  <2>1. /\ inbox[w] \in Seq(Item) /\ worker[w].batch \in Seq(Item)
        /\ worker[w].deferred \in Seq(Item)
    BY DEF AckInv, Types, WorkerSet
  <2>2. /\ Belongs(w, inbox[w]) /\ Belongs(w, worker[w].batch)
        /\ Belongs(w, worker[w].deferred)
    BY DEF AckInv, HandsBelong
  <2>3. \A s \in {inbox[w], worker[w].batch, worker[w].deferred} :
           \A j \in 1 .. Len(s) : /\ s[j].gen <= gw'.gen /\ s[j].gen # gw'.gen
                                  /\ Shard[s[j].msg] = w
    BY <1>4, <2>1, <2>2
  <2>4. inbox'[w] = inbox[w] /\ worker'[w] = worker[w]
    BY <1>2
  <2> QED BY <2>3, <2>4 DEF Belongs, Owned, Sound, AllOwn, Owns, Distinct, Apart, Differ
<1>6. HandsBelong' /\ HandsOwn'
  BY <1>5 DEF HandsBelong, HandsOwn
<1> QED BY <1>3, <1>6 DEF AckInv

-----------------------------------------------------------------------------
(* The workers' hands *)

(* No item of the hands shares the packet id of x.                         *)
Clear(x, s) == \A j \in 1 .. Len(s) : Differ(s[j], x)

LEMMA TailSound ==
    ASSUME Types, NEW s \in Seq(Item), s # <<>>, AllOwn(s), Distinct(s)
    PROVE  /\ AllOwn(Tail(s)) /\ Distinct(Tail(s))
           /\ Owns(Head(s)) /\ Clear(Head(s), Tail(s))
           /\ \A t : Apart(s, t) => Apart(Tail(s), t) /\ \A j \in 1 .. Len(t) : Differ(Head(s), t[j])
           /\ \A t : Apart(t, s) => Apart(t, Tail(s)) /\ Clear(Head(s), t)
<1>1. /\ Head(s) = s[1] /\ 1 \in 1 .. Len(s) /\ Len(s) \in Nat \ {0}
      /\ Len(Tail(s)) = Len(s) - 1
      /\ \A j \in 1 .. Len(s) - 1 : Tail(s)[j] = s[j + 1]
  BY HeadAndTail
<1>2. \A j \in 1 .. Len(Tail(s)) : Tail(s)[j] = s[j + 1] /\ j + 1 \in 1 .. Len(s) /\ j + 1 # 1
  BY <1>1
<1>3. AllOwn(Tail(s)) /\ Owns(Head(s))
  BY <1>1, <1>2 DEF AllOwn
<1>4. Distinct(Tail(s))
  <2> SUFFICES ASSUME NEW j \in 1 .. Len(Tail(s)), NEW k \in 1 .. Len(Tail(s)), j # k
               PROVE  Differ(Tail(s)[j], Tail(s)[k])
    BY DEF Distinct
  <2>1. j + 1 # k + 1
    OBVIOUS
  <2> QED BY <1>2, <2>1 DEF Distinct
<1>5. Clear(Head(s), Tail(s))
  BY <1>1, <1>2 DEF Clear, Distinct
<1>6. ASSUME NEW t, Apart(s, t)
      PROVE  Apart(Tail(s), t) /\ \A j \in 1 .. Len(t) : Differ(Head(s), t[j])
  BY <1>1, <1>2, <1>6 DEF Apart
<1>7. ASSUME NEW t, Apart(t, s)
      PROVE  Apart(t, Tail(s)) /\ Clear(Head(s), t)
  BY <1>1, <1>2, <1>7 DEF Apart, Clear
<1> QED BY <1>3, <1>4, <1>5, <1>6, <1>7

LEMMA AppendSound ==
    ASSUME NEW s \in Seq(Item), NEW x \in Item, AllOwn(s), Distinct(s),
           Owns(x), Clear(x, s)
    PROVE  /\ AllOwn(Append(s, x)) /\ Distinct(Append(s, x))
           /\ \A t : Apart(s, t) /\ (\A j \in 1 .. Len(t) : Differ(x, t[j])) => Apart(Append(s, x), t)
           /\ \A t : Apart(t, s) /\ Clear(x, t) => Apart(t, Append(s, x))
<1>1. /\ Len(Append(s, x)) = Len(s) + 1 /\ Len(s) \in Nat
      /\ Append(s, x)[Len(s) + 1] = x
      /\ \A j \in 1 .. Len(s) : Append(s, x)[j] = s[j]
  BY Appended
<1>2. \A j \in 1 .. Len(Append(s, x)) :
         \/ j \in 1 .. Len(s) /\ Append(s, x)[j] = s[j]
         \/ j = Len(s) + 1 /\ Append(s, x)[j] = x
  BY <1>1
<1>3. AllOwn(Append(s, x))
  BY <1>2 DEF AllOwn
<1>4. Distinct(Append(s, x))
  <2> SUFFICES ASSUME NEW j \in 1 .. Len(Append(s, x)), NEW k \in 1 .. Len(Append(s, x)),
                      j # k
               PROVE  Differ(Append(s, x)[j], Append(s, x)[k])
    BY DEF Distinct
  <2>1. CASE j \in 1 .. Len(s) /\ k \in 1 .. Len(s)
    BY <1>1, <2>1 DEF Distinct
  <2>2. CASE j = Len(s) + 1 /\ k \in 1 .. Len(s)
    BY <1>1, <2>2 DEF Clear, Differ
  <2>3. CASE k = Len(s) + 1 /\ j \in 1 .. Len(s)
    BY <1>1, <2>3 DEF Clear
  <2> QED BY <1>2, <2>1, <2>2, <2>3
<1>5. ASSUME NEW t, Apart(s, t), \A j \in 1 .. Len(t) : Differ(x, t[j])
      PROVE  Apart(Append(s, x), t)
  BY <1>2, <1>5 DEF Apart
<1>6. ASSUME NEW t, Apart(t, s), Clear(x, t)
      PROVE  Apart(t, Append(s, x))
  BY <1>2, <1>6 DEF Apart, Clear
<1> QED BY <1>3, <1>4, <1>5, <1>6

LEMMA SmallSound ==
    /\ AllOwn(<<>>) /\ Distinct(<<>>)
    /\ \A t : Apart(<<>>, t) /\ Apart(t, <<>>) /\ Clear(t, <<>>)
    /\ \A x \in Item : Owns(x) => AllOwn(<<x>>) /\ Distinct(<<x>>)
    /\ \A x \in Item : \A t : Clear(x, t) => Apart(t, <<x>>)
  BY Empty, Singleton DEF AllOwn, Distinct, Apart, Clear

(* What the workers do with their hands.                                   *)
LEMMA HandsMove ==
    ASSUME Types, NEW q \in Seq(Item), NEW b \in Seq(Item), NEW d \in Seq(Item),
           Sound(q, b, d)
    PROVE  /\ Sound(q, d, <<>>)
           /\ q # <<>> => /\ Sound(Tail(q), <<Head(q)>>, <<>>)
                          /\ Sound(Tail(q), Append(b, Head(q)), d)
                          /\ Sound(Tail(q), b, <<Head(q)>>)
                          /\ Sound(Tail(q), b, d) /\ Owns(Head(q))
                          /\ Clear(Head(q), Tail(q)) /\ Clear(Head(q), b) /\ Clear(Head(q), d)
           /\ b # <<>> => /\ Sound(Append(q, Head(b)), Tail(b), d)
                          /\ Sound(Append(q, Head(b)), d, <<>>)
                          /\ Sound(q, Tail(b), d) /\ Owns(Head(b))
                          /\ Clear(Head(b), q) /\ Clear(Head(b), Tail(b)) /\ Clear(Head(b), d)
<1> USE DEF Sound
<1>1. Sound(q, d, <<>>)
  BY SmallSound
<1>2. ASSUME NEW s \in Seq(Item), NEW t \in Seq(Item), Apart(s, t)
      PROVE  Apart(t, s)
  BY <1>2 DEF Apart, Differ
<1>3. ASSUME q # <<>>
      PROVE  /\ Sound(Tail(q), <<Head(q)>>, <<>>)
             /\ Sound(Tail(q), Append(b, Head(q)), d)
             /\ Sound(Tail(q), b, <<Head(q)>>)
             /\ Sound(Tail(q), b, d) /\ Owns(Head(q))
             /\ Clear(Head(q), Tail(q)) /\ Clear(Head(q), b) /\ Clear(Head(q), d)
  <2>1. Head(q) \in Item /\ Tail(q) \in Seq(Item)
    BY <1>3, HeadAndTail
  <2>2. /\ AllOwn(Tail(q)) /\ Distinct(Tail(q)) /\ Owns(Head(q))
        /\ Clear(Head(q), Tail(q)) /\ Apart(Tail(q), b) /\ Apart(Tail(q), d)
        /\ \A j \in 1 .. Len(d) : Differ(Head(q), d[j])
    BY <1>3, TailSound
  <2>3. Clear(Head(q), b) /\ Clear(Head(q), d)
    BY <1>2, <1>3, TailSound
  <2>4. /\ AllOwn(Append(b, Head(q))) /\ Distinct(Append(b, Head(q)))
        /\ Apart(Append(b, Head(q)), d) /\ Apart(Tail(q), Append(b, Head(q)))
    BY <2>1, <2>2, <2>3, AppendSound
  <2>5. /\ AllOwn(<<Head(q)>>) /\ Distinct(<<Head(q)>>)
        /\ Apart(Tail(q), <<Head(q)>>) /\ Apart(b, <<Head(q)>>)
    BY <2>1, <2>2, <2>3, SmallSound
  <2> QED BY <2>2, <2>3, <2>4, <2>5, SmallSound
<1>4. ASSUME b # <<>>
      PROVE  /\ Sound(Append(q, Head(b)), Tail(b), d)
             /\ Sound(Append(q, Head(b)), d, <<>>)
             /\ Sound(q, Tail(b), d) /\ Owns(Head(b))
             /\ Clear(Head(b), q) /\ Clear(Head(b), Tail(b)) /\ Clear(Head(b), d)
  <2>1. Head(b) \in Item /\ Tail(b) \in Seq(Item)
    BY <1>4, HeadAndTail
  <2>2. /\ AllOwn(Tail(b)) /\ Distinct(Tail(b)) /\ Owns(Head(b))
        /\ Clear(Head(b), Tail(b)) /\ Apart(Tail(b), d) /\ Apart(q, Tail(b))
        /\ \A j \in 1 .. Len(d) : Differ(Head(b), d[j])
        /\ Clear(Head(b), q)
    BY <1>4, TailSound
  <2>3. Clear(Head(b), d) /\ \A j \in 1 .. Len(Tail(b)) : Differ(Head(b), Tail(b)[j])
    BY <2>2 DEF Clear, Differ
  <2>4. /\ AllOwn(Append(q, Head(b))) /\ Distinct(Append(q, Head(b)))
        /\ Apart(Append(q, Head(b)), d) /\ Apart(Append(q, Head(b)), Tail(b))
    BY <2>1, <2>2, <2>3, AppendSound
  <2> QED BY <2>2, <2>3, <2>4, SmallSound
<1> QED BY <1>1, <1>3, <1>4

LEMMA BelongsMove ==
    ASSUME NEW w \in Workers, NEW q \in Seq(Item), NEW x \in Item, Belongs(w, q)
    PROVE  /\ Belongs(w, <<>>)
           /\ x.gen <= gw.gen /\ Shard[x.msg] = w =>
                 Belongs(w, <<x>>) /\ Belongs(w, Append(q, x))
           /\ q # <<>> => /\ Belongs(w, Tail(q))
                          /\ Head(q).gen <= gw.gen /\ Shard[Head(q).msg] = w
<1>1. Belongs(w, <<>>)
  BY Empty DEF Belongs
<1>2. ASSUME x.gen <= gw.gen, Shard[x.msg] = w
      PROVE  Belongs(w, <<x>>) /\ Belongs(w, Append(q, x))
  <2>1. Belongs(w, <<x>>)
    BY <1>2, Singleton DEF Belongs
  <2>2. \A j \in 1 .. Len(Append(q, x)) :
           \/ j \in 1 .. Len(q) /\ Append(q, x)[j] = q[j]
           \/ Append(q, x)[j] = x
    BY Appended
  <2> QED BY <1>2, <2>1, <2>2 DEF Belongs
<1>3. ASSUME q # <<>>
      PROVE  /\ Belongs(w, Tail(q))
             /\ Head(q).gen <= gw.gen /\ Shard[Head(q).msg] = w
  <2>1. /\ Head(q) = q[1] /\ 1 \in 1 .. Len(q) /\ Len(q) \in Nat \ {0}
        /\ Len(Tail(q)) = Len(q) - 1
        /\ \A j \in 1 .. Len(q) - 1 : Tail(q)[j] = q[j + 1]
    BY <1>3, HeadAndTail
  <2>2. \A j \in 1 .. Len(Tail(q)) : Tail(q)[j] = q[j + 1] /\ j + 1 \in 1 .. Len(q)
    BY <2>1
  <2> QED BY <2>1, <2>2 DEF Belongs
<1> QED BY <1>1, <1>2, <1>3

(* An acknowledgement that is sent takes the packet id of its item, and    *)
(* no other; one that is not sent, or fails, takes nothing.                *)
LEMMA AckEffect ==
    ASSUME AckInv, Types', NEW item \in Item, Ack(item),
           MayStillAck => Owns(item),
           item.msg \in world'.settled, world.settled \subseteq world'.settled,
           UNCHANGED <<broker, loop, sup>>
    PROVE  /\ gw'.gen = gw.gen /\ Connection' /\ PubacksSettled'
           /\ MayStillAck' => /\ MayStillAck
                              /\ \/ UNCHANGED <<gw, sock>>
                                 \/ /\ item.gen = gw.gen
                                    /\ sock'.sent = sock.sent
                                    /\ sock'.pubacks = sock.pubacks \cup {item.mid}
<1>0. gw'.gen = gw.gen
  BY AckTypes DEF AckInv
<1>1. CASE UNCHANGED <<gw, sock>>
  BY <1>0, <1>1 DEF AckInv, Connection, PubacksSettled, MayStillAck
<1>2. CASE gw' = Invalidated(gw) /\ sock' = NoSock /\ loop = "dead"
  <2>1. gw'.valid = FALSE
    BY <1>2, InvalidatedFacts DEF AckInv, Types
  <2> QED BY <1>0, <1>2, <2>1, SocketTypes DEF AckInv, Connection, PubacksSettled, MayStillAck
<1>3. CASE /\ MayAck(item) /\ UNCHANGED gw
           /\ sock' = [sock EXCEPT !.pubacks = @ \cup {item.mid}]
  <2>1. /\ sock'.pubacks = sock.pubacks \cup {item.mid} /\ sock'.net = sock.net
        /\ sock'.sent = sock.sent
    BY <1>3 DEF AckInv, Types, SockSet
  <2>2. gw.valid /\ item.gen = gw.gen
    BY <1>3 DEF MayAck
  <2>3. sock.net = "up" => /\ item.mid \in sock.sent
                           /\ broker.inflight[item.mid] = item.msg
    BY <2>2 DEF MayStillAck, Owns
  <2>4. Connection'
    BY <1>3, <2>1, <2>2, <2>3 DEF AckInv, Connection
  <2>5. PubacksSettled'
    BY <2>1, <2>3 DEF AckInv, PubacksSettled
  <2> QED BY <1>0, <1>3, <2>1, <2>2, <2>4, <2>5 DEF MayStillAck
<1> QED BY <1>1, <1>2, <1>3 DEF Ack

(* Hands that are clear of the acknowledged item stay sound.               *)
LEMMA SoundAfterAck ==
    ASSUME NEW item, NEW w \in Workers, gw'.gen = gw.gen, UNCHANGED broker,
           Sound(inbox'[w], worker'[w].batch, worker'[w].deferred),
           \/ UNCHANGED <<gw, sock>>
           \/ /\ item.gen = gw.gen /\ sock'.sent = sock.sent
              /\ sock'.pubacks = sock.pubacks \cup {item.mid}
              /\ Clear(item, inbox'[w]) /\ Clear(item, worker'[w].batch)
              /\ Clear(item, worker'[w].deferred)
    PROVE  Owned(w)'
<1> DEFINE q == inbox'[w]
           b == worker'[w].batch
           d == worker'[w].deferred
<1>1. ASSUME NEW s, AllOwn(s), UNCHANGED <<gw, sock>> \/ Clear(item, s)
      PROVE  \A j \in 1 .. Len(s) : s[j].gen = gw'.gen =>
                /\ s[j].mid \in sock'.sent \ sock'.pubacks
                /\ broker'.inflight[s[j].mid] = s[j].msg
  BY <1>1 DEF AllOwn, Owns, Clear, Differ
<1>2. /\ \A j \in 1 .. Len(q) : q[j].gen = gw'.gen =>
            q[j].mid \in sock'.sent \ sock'.pubacks /\ broker'.inflight[q[j].mid] = q[j].msg
      /\ \A j \in 1 .. Len(b) : b[j].gen = gw'.gen =>
            b[j].mid \in sock'.sent \ sock'.pubacks /\ broker'.inflight[b[j].mid] = b[j].msg
      /\ \A j \in 1 .. Len(d) : d[j].gen = gw'.gen =>
            d[j].mid \in sock'.sent \ sock'.pubacks /\ broker'.inflight[d[j].mid] = d[j].msg
  BY <1>1 DEF Sound
<1>3. AllOwn(inbox[w])' /\ AllOwn(worker[w].batch)' /\ AllOwn(worker[w].deferred)'
  BY <1>2 DEF AllOwn, Owns
<1>4. /\ Distinct(inbox[w])' /\ Distinct(worker[w].batch)' /\ Distinct(worker[w].deferred)'
      /\ Apart(inbox[w], worker[w].batch)' /\ Apart(inbox[w], worker[w].deferred)'
      /\ Apart(worker[w].batch, worker[w].deferred)'
  <2>1. /\ Distinct(q) /\ Distinct(b) /\ Distinct(d)
        /\ Apart(q, b) /\ Apart(q, d) /\ Apart(b, d)
    BY DEF Sound
  <2> QED BY <2>1, ApartStays
<1> QED BY <1>3, <1>4 DEF Owned, Sound

(* One worker changes its hands, and may acknowledge an item it gives up.  *)
(* The others keep theirs: an item with the same packet id would be the    *)
(* same message, and so of the same shard.                                 *)
LEMMA HandsKept ==
    ASSUME AckInv, Types', NEW w \in Workers, NEW item,
           UNCHANGED <<broker, loop, sup>>,
           world.settled \subseteq world'.settled, world'.acked = world.acked,
           \A v \in Workers \ {w} : inbox'[v] = inbox[v] /\ worker'[v] = worker[v],
           gw'.gen = gw.gen, Connection', PubacksSettled',
           Belongs(w, inbox'[w]), Belongs(w, worker'[w].batch), Belongs(w, worker'[w].deferred),
           worker'[w].pc = "ack" =>
              \A j \in 1 .. Len(worker'[w].batch) : worker'[w].batch[j].msg \in world'.settled,
           MayStillAck' =>
              /\ MayStillAck
              /\ Sound(inbox'[w], worker'[w].batch, worker'[w].deferred)
              /\ \/ UNCHANGED <<gw, sock>>
                 \/ /\ Owns(item) /\ Shard[item.msg] = w
                    /\ item.gen = gw.gen /\ sock'.sent = sock.sent
                    /\ sock'.pubacks = sock.pubacks \cup {item.mid}
                    /\ Clear(item, inbox'[w]) /\ Clear(item, worker'[w].batch)
                    /\ Clear(item, worker'[w].deferred)
    PROVE  AckInv'
<1>1. HandsBelong'
  <2>1. /\ Belongs(w, inbox[w])' /\ Belongs(w, worker[w].batch)'
        /\ Belongs(w, worker[w].deferred)'
    BY DEF Belongs
  <2>2. ASSUME NEW v \in Workers \ {w}
        PROVE  /\ Belongs(v, inbox[v])' /\ Belongs(v, worker[v].batch)'
               /\ Belongs(v, worker[v].deferred)'
    BY <2>2 DEF AckInv, HandsBelong, Belongs
  <2> QED BY <2>1, <2>2 DEF HandsBelong
<1>2. AckingSettled'
  BY DEF AckInv, AckingSettled
<1>3. HandsOwn'
  <2> SUFFICES ASSUME MayStillAck', NEW v \in Workers
               PROVE  Owned(v)'
    BY DEF HandsOwn
  <2>1. CASE v = w
    BY <2>1, SoundAfterAck
  <2>2. CASE v # w
    <3>1. Sound(inbox'[v], worker'[v].batch, worker'[v].deferred)
      BY <2>2 DEF AckInv, HandsOwn, Owned
    <3>2. ASSUME NEW s, AllOwn(s), Belongs(v, s), ~UNCHANGED <<gw, sock>>
          PROVE  Clear(item, s)
      <4> SUFFICES ASSUME NEW j \in 1 .. Len(s), s[j].gen = gw.gen, s[j].mid = item.mid
                   PROVE  FALSE
        BY DEF Clear, Differ
      <4>1. broker.inflight[item.mid] = item.msg /\ Shard[item.msg] = w
        BY <3>2 DEF Owns
      <4>2. broker.inflight[s[j].mid] = s[j].msg /\ Shard[s[j].msg] = v
        BY <3>2 DEF AllOwn, Owns, Belongs
      <4> QED BY <2>2, <4>1, <4>2
    <3>3. /\ Belongs(v, inbox'[v]) /\ Belongs(v, worker'[v].batch)
          /\ Belongs(v, worker'[v].deferred)
      BY <2>2 DEF AckInv, HandsBelong
    <3>4. AllOwn(inbox'[v]) /\ AllOwn(worker'[v].batch) /\ AllOwn(worker'[v].deferred)
      BY <3>1 DEF Sound
    <3>5. ~UNCHANGED <<gw, sock>> =>
             /\ Clear(item, inbox'[v]) /\ Clear(item, worker'[v].batch)
             /\ Clear(item, worker'[v].deferred)
      BY <3>2, <3>3, <3>4
    <3> QED BY <3>1, <3>5, SoundAfterAck
  <2> QED BY <2>1, <2>2
<1>4. AckedWasSettled'
  BY DEF AckInv, AckedWasSettled
<1> QED BY <1>1, <1>2, <1>3, <1>4 DEF AckInv

(* A step of worker w that sends nothing.                                  *)
LEMMA HandsKeptQuietly ==
    ASSUME AckInv, Types', NEW w \in Workers,
           UNCHANGED <<broker, loop, sup, gw, sock>>,
           world.settled \subseteq world'.settled, world'.acked = world.acked,
           \A v \in Workers \ {w} : inbox'[v] = inbox[v] /\ worker'[v] = worker[v],
           Belongs(w, inbox'[w]), Belongs(w, worker'[w].batch), Belongs(w, worker'[w].deferred),
           worker'[w].pc = "ack" =>
              \A j \in 1 .. Len(worker'[w].batch) : worker'[w].batch[j].msg \in world'.settled,
           MayStillAck => Sound(inbox'[w], worker'[w].batch, worker'[w].deferred)
    PROVE  AckInv'
<1>1. Connection' /\ PubacksSettled'
  BY DEF AckInv, Connection, PubacksSettled
<1>2. MayStillAck' => MayStillAck
  BY DEF MayStillAck
<1> QED BY <1>1, <1>2, HandsKept

(* The first item of a worker's queue is malformed: acknowledged, dropped. *)
LEMMA DropKeeps ==
    ASSUME AckInv, Types', NEW w \in Workers, inbox[w] # <<>>, DropMalformed(w),
           inbox' = [inbox EXCEPT ![w] = Tail(@)], UNCHANGED <<broker, loop, sup>>
    PROVE  AckInv'
<1> DEFINE item == NextItem(w)
<1>1. /\ inbox[w] \in Seq(Item) /\ worker[w].batch \in Seq(Item)
      /\ worker[w].deferred \in Seq(Item)
  BY DEF AckInv, Types, WorkerSet
<1>2. item \in Item /\ item = Head(inbox[w])
  BY <1>1, HeadAndTail DEF NextItem
<1>3. /\ inbox'[w] = Tail(inbox[w]) /\ UNCHANGED worker
      /\ \A v \in Workers \ {w} : inbox'[v] = inbox[v]
      /\ Ack(item)
  BY DEF DropMalformed, AckInv, Types
<1>4. /\ world'.settled = world.settled \cup {item.msg}
      /\ world'.acked = world.acked
  BY DEF DropMalformed, AckInv, Types, WorldSet
<1>5. /\ Belongs(w, inbox[w]) /\ Belongs(w, worker[w].batch) /\ Belongs(w, worker[w].deferred)
  BY DEF AckInv, HandsBelong
<1>6. Belongs(w, inbox'[w]) /\ Shard[item.msg] = w
  <2>1. Belongs(w, Tail(inbox[w])) /\ Shard[Head(inbox[w]).msg] = w
    BY <1>1, <1>2, <1>5, BelongsMove
  <2> QED BY <1>2, <1>3, <2>1
<1>7. MayStillAck =>
        /\ Sound(inbox'[w], worker'[w].batch, worker'[w].deferred) /\ Owns(item)
        /\ Clear(item, inbox'[w]) /\ Clear(item, worker'[w].batch)
        /\ Clear(item, worker'[w].deferred)
  <2> SUFFICES ASSUME MayStillAck
               PROVE  /\ Sound(inbox'[w], worker'[w].batch, worker'[w].deferred) /\ Owns(item)
                      /\ Clear(item, inbox'[w]) /\ Clear(item, worker'[w].batch)
                      /\ Clear(item, worker'[w].deferred)
    OBVIOUS
  <2>1. Sound(inbox[w], worker[w].batch, worker[w].deferred)
    BY DEF AckInv, HandsOwn, Owned
  <2>2. Types
    BY DEF AckInv
  <2> QED BY <1>1, <1>2, <1>3, <2>1, <2>2, HandsMove
<1> HIDE DEF item
<1>8. /\ gw'.gen = gw.gen /\ Connection' /\ PubacksSettled'
      /\ MayStillAck' => /\ MayStillAck
                         /\ \/ UNCHANGED <<gw, sock>>
                            \/ /\ item.gen = gw.gen
                               /\ sock'.sent = sock.sent
                               /\ sock'.pubacks = sock.pubacks \cup {item.mid}
  BY <1>2, <1>3, <1>4, <1>7, AckEffect
<1>9. worker'[w].pc = "ack" =>
        \A j \in 1 .. Len(worker'[w].batch) : worker'[w].batch[j].msg \in world'.settled
  BY <1>3, <1>4 DEF AckInv, AckingSettled
<1> QED BY <1>3, <1>4, <1>5, <1>6, <1>7, <1>8, <1>9, HandsKept

LEMMA WorkerKeeps ==
    ASSUME AckInv, Types', NEW w \in Workers, WorkerStep(w)
    PROVE  AckInv'
<1> DEFINE q == inbox[w]
           b == worker[w].batch
           d == worker[w].deferred
<1>0. Types /\ q \in Seq(Item) /\ b \in Seq(Item) /\ d \in Seq(Item) /\ worker[w] \in WorkerSet
  BY DEF AckInv, Types, WorkerSet
<1>b. Belongs(w, q) /\ Belongs(w, b) /\ Belongs(w, d)
  BY DEF AckInv, HandsBelong
<1>o. MayStillAck => Sound(q, b, d)
  BY DEF AckInv, HandsOwn, Owned
<1>n. worker[w].pc # "get" => b # <<>>
  BY DEF AckInv, Types
<1>1. ASSUME q # <<>>
      PROVE  /\ Head(q) \in Item /\ NextItem(w) = Head(q)
             /\ Belongs(w, Tail(q)) /\ Belongs(w, <<Head(q)>>) /\ Belongs(w, <<>>)
             /\ Belongs(w, Append(b, Head(q)))
             /\ MayStillAck => /\ Sound(Tail(q), <<Head(q)>>, <<>>)
                               /\ Sound(Tail(q), Append(b, Head(q)), d)
                               /\ Sound(Tail(q), b, <<Head(q)>>)
  <2>1. Head(q) \in Item /\ NextItem(w) = Head(q)
    BY <1>0, <1>1, HeadAndTail DEF NextItem
  <2>2. Belongs(w, Tail(q)) /\ Head(q).gen <= gw.gen /\ Shard[Head(q).msg] = w
    BY <1>0, <1>1, <1>b, <2>1, BelongsMove
  <2>3. Belongs(w, <<Head(q)>>) /\ Belongs(w, <<>>) /\ Belongs(w, Append(b, Head(q)))
    BY <1>0, <1>b, <2>1, <2>2, BelongsMove
  <2> QED BY <1>0, <1>1, <1>o, <2>1, <2>2, <2>3, HandsMove
<1>2. CASE WorkerGet(w)
  <2>1. q # <<>> /\ inbox' = [inbox EXCEPT ![w] = Tail(@)] /\ UNCHANGED <<broker, loop, sup>>
    BY <1>2 DEF WorkerGet
  <2>2. CASE DropMalformed(w)
    BY <2>1, <2>2, DropKeeps
  <2>3. CASE ~DropMalformed(w)
    <3>1. /\ UNCHANGED <<gw, sock, world>>
          /\ worker' = [worker EXCEPT ![w] = [pc |-> IF NextItem(w).msg \in Telemetry
                                                     THEN "collect" ELSE "post",
                                              batch |-> <<NextItem(w)>>, deferred |-> <<>>]]
      BY <1>2, <2>3 DEF WorkerGet
    <3>2. /\ inbox'[w] = Tail(q) /\ worker'[w].batch = <<Head(q)>>
          /\ worker'[w].deferred = <<>> /\ worker'[w].pc # "ack"
          /\ \A v \in Workers \ {w} : inbox'[v] = inbox[v] /\ worker'[v] = worker[v]
      BY <1>0, <1>1, <2>1, <3>1 DEF Types
    <3> HIDE DEF q, b, d
    <3> QED BY <1>1, <2>1, <3>1, <3>2, HandsKeptQuietly
  <2> QED BY <2>2, <2>3
<1>3. CASE Collect(w)
  <2>1. /\ q # <<>> /\ inbox' = [inbox EXCEPT ![w] = Tail(@)] /\ UNCHANGED <<broker, loop, sup>>
        /\ worker[w].pc = "collect"
    BY <1>3 DEF Collect
  <2>i. inbox'[w] = Tail(q) /\ \A v \in Workers \ {w} : inbox'[v] = inbox[v]
    BY <1>0, <2>1 DEF Types
  <2>2. CASE DropMalformed(w)
    BY <2>1, <2>2, DropKeeps
  <2>3. CASE worker' = [worker EXCEPT ![w].batch = Append(@, NextItem(w))]
             /\ UNCHANGED <<gw, sock, world>>
    <3>1. /\ worker'[w].batch = Append(b, Head(q)) /\ worker'[w].deferred = d
          /\ worker'[w].pc # "ack"
          /\ \A v \in Workers \ {w} : worker'[v] = worker[v]
      BY <1>0, <1>1, <2>1, <2>3 DEF Types, WorkerSet
    <3> HIDE DEF q, b, d
    <3> QED BY <1>1, <1>b, <2>1, <2>3, <2>i, <3>1, HandsKeptQuietly
  <2>4. CASE worker' = [worker EXCEPT ![w].pc = "post", ![w].deferred = <<NextItem(w)>>]
             /\ UNCHANGED <<gw, sock, world>>
    <3>1. /\ worker'[w].batch = b /\ worker'[w].deferred = <<Head(q)>>
          /\ worker'[w].pc # "ack"
          /\ \A v \in Workers \ {w} : worker'[v] = worker[v]
      BY <1>0, <1>1, <2>1, <2>4 DEF Types, WorkerSet
    <3> HIDE DEF q, b, d
    <3> QED BY <1>1, <1>b, <2>1, <2>4, <2>i, <3>1, HandsKeptQuietly
  <2> QED BY <1>3, <2>2, <2>3, <2>4 DEF Collect
<1>4. ASSUME NEW pc \in {"post", "ack", "retry"}, worker' = [worker EXCEPT ![w].pc = pc],
             UNCHANGED <<broker, loop, sup, inbox, gw, sock>>,
             world.settled \subseteq world'.settled, world'.acked = world.acked,
             pc = "ack" => Posted(w) \subseteq world'.settled
      PROVE  AckInv'
  <2>1. /\ worker'[w].batch = b /\ worker'[w].deferred = d /\ worker'[w].pc = pc
        /\ \A v \in Workers \ {w} : worker'[v] = worker[v]
    BY <1>0, <1>4 DEF Types, WorkerSet
  <2>2. \A j \in 1 .. Len(b) : b[j].msg \in Posted(w)
    BY <1>0 DEF Posted, Range
  <2>3. worker'[w].pc = "ack" =>
          \A j \in 1 .. Len(worker'[w].batch) : worker'[w].batch[j].msg \in world'.settled
    BY <1>4, <2>1, <2>2
  <2> HIDE DEF b, d
  <2> QED BY <1>4, <1>b, <1>o, <2>1, <2>3, HandsKeptQuietly
<1>5. CASE CloseBatch(w)
  BY <1>4, <1>5 DEF CloseBatch
<1>6. CASE PostSettled(w)
  <2>1. /\ world'.settled = world.settled \cup Posted(w) /\ world'.acked = world.acked
    BY <1>0, <1>6 DEF PostSettled, Types, WorldSet
  <2> QED BY <1>4, <1>6, <2>1 DEF PostSettled
<1>7. CASE PostFailed(w)
  <2>1. world.settled \subseteq world'.settled /\ world'.acked = world.acked
    BY <1>0, <1>7 DEF PostFailed, Types, WorldSet
  <2> QED BY <1>4, <1>7, <2>1 DEF PostFailed
<1>8. ASSUME worker[w].pc # "get", worker' = [worker EXCEPT ![w] = Advance(@)]
      PROVE  /\ \A v \in Workers \ {w} : worker'[v] = worker[v]
             /\ \/ /\ worker'[w].batch = Tail(b) /\ worker'[w].deferred = d
                   /\ worker'[w].pc = worker[w].pc
                \/ /\ worker'[w].batch = d /\ worker'[w].deferred = <<>>
                   /\ worker'[w].pc \in {"get", "post"}
  <2>1. worker'[w] = Advance(worker[w]) /\ \A v \in Workers \ {w} : worker'[v] = worker[v]
    BY <1>0, <1>8 DEF Types
  <2> QED BY <1>0, <1>8, <1>n, <2>1, AdvanceFacts
<1>9. ASSUME b # <<>>
      PROVE  /\ Head(b) \in Item /\ Shard[Head(b).msg] = w
             /\ Belongs(w, Tail(b)) /\ Belongs(w, <<>>) /\ Belongs(w, Append(q, Head(b)))
             /\ MayStillAck => /\ Sound(Append(q, Head(b)), Tail(b), d)
                               /\ Sound(Append(q, Head(b)), d, <<>>)
                               /\ Sound(q, Tail(b), d) /\ Sound(q, d, <<>>)
                               /\ Owns(Head(b)) /\ Clear(Head(b), q)
                               /\ Clear(Head(b), Tail(b)) /\ Clear(Head(b), d)
                               /\ Clear(Head(b), <<>>)
  <2>1. Head(b) \in Item
    BY <1>0, <1>9, HeadAndTail
  <2>2. Belongs(w, Tail(b)) /\ Head(b).gen <= gw.gen /\ Shard[Head(b).msg] = w
    <3> HIDE DEF b
    <3> QED BY <1>0, <1>9, <1>b, <2>1, BelongsMove
  <2>3. Belongs(w, <<>>) /\ Belongs(w, Append(q, Head(b)))
    BY <1>0, <1>b, <2>1, <2>2, BelongsMove
  <2> QED BY <1>0, <1>9, <1>o, <2>1, <2>2, <2>3, HandsMove, SmallSound
<1>10. CASE AckNext(w)
  <2>1. /\ worker[w].pc = "ack" /\ Ack(Head(b))
        /\ worker' = [worker EXCEPT ![w] = Advance(@)]
        /\ UNCHANGED <<broker, loop, sup, inbox, world>>
    BY <1>10 DEF AckNext
  <2>2. b # <<>>
    BY <1>n, <2>1
  <2>3. \A j \in 1 .. Len(b) : b[j].msg \in world.settled
    BY <2>1 DEF AckInv, AckingSettled
  <2>4. /\ Head(b) = b[1] /\ 1 \in 1 .. Len(b) /\ Len(b) \in Nat
        /\ Len(Tail(b)) = Len(b) - 1
        /\ \A j \in 1 .. Len(b) - 1 : Tail(b)[j] = b[j + 1]
    BY <1>0, <2>2, HeadAndTail
  <2>5. Head(b).msg \in world'.settled /\ \A j \in 1 .. Len(Tail(b)) : Tail(b)[j].msg \in world'.settled
    <3>1. \A j \in 1 .. Len(Tail(b)) : Tail(b)[j] = b[j + 1] /\ j + 1 \in 1 .. Len(b)
      <4> HIDE DEF b
      <4> QED BY <2>4
    <3> HIDE DEF b
    <3> QED BY <2>1, <2>3, <2>4, <3>1
  <2>6. /\ gw'.gen = gw.gen /\ Connection' /\ PubacksSettled'
        /\ MayStillAck' => /\ MayStillAck
                           /\ \/ UNCHANGED <<gw, sock>>
                              \/ /\ Head(b).gen = gw.gen
                                 /\ sock'.sent = sock.sent
                                 /\ sock'.pubacks = sock.pubacks \cup {Head(b).mid}
    BY <1>9, <2>1, <2>2, <2>5, AckEffect
  <2>7. /\ \A v \in Workers \ {w} : worker'[v] = worker[v]
        /\ \/ /\ worker'[w].batch = Tail(b) /\ worker'[w].deferred = d
           \/ /\ worker'[w].batch = d /\ worker'[w].deferred = <<>>
              /\ worker'[w].pc \in {"get", "post"}
    BY <1>8, <2>1
  <2>8. worker'[w].pc = "ack" =>
          \A j \in 1 .. Len(worker'[w].batch) : worker'[w].batch[j].msg \in world'.settled
    BY <2>5, <2>7
  <2>9. /\ Belongs(w, worker'[w].batch) /\ Belongs(w, worker'[w].deferred)
        /\ MayStillAck => /\ Sound(q, worker'[w].batch, worker'[w].deferred)
                          /\ Clear(Head(b), worker'[w].batch)
                          /\ Clear(Head(b), worker'[w].deferred)
    BY <1>9, <1>b, <2>2, <2>7
  <2> DEFINE item == Head(b)
  <2> HIDE DEF q, b, d
  <2>10. /\ inbox'[w] = q /\ \A v \in Workers \ {w} : inbox'[v] = inbox[v]
    BY <2>1 DEF q
  <2> QED BY <1>9, <1>b, <2>1, <2>2, <2>6, <2>7, <2>8, <2>9, <2>10, HandsKept
<1>11. CASE Requeue(w)
  <2>1. worker[w].pc # "get" /\ b # <<>> /\ UNCHANGED <<broker, loop, sup, world>>
    BY <1>11, <1>n DEF Requeue
  <2>2. CASE /\ inbox' = [inbox EXCEPT ![w] = Append(@, Head(b))]
             /\ worker' = [worker EXCEPT ![w] = Advance(@)]
             /\ UNCHANGED <<gw, sock>> /\ worker[w].pc = "retry"
    <3>1. /\ inbox'[w] = Append(q, Head(b)) /\ \A v \in Workers \ {w} : inbox'[v] = inbox[v]
      BY <1>0, <2>2 DEF Types
    <3>2. /\ \A v \in Workers \ {w} : worker'[v] = worker[v]
          /\ worker'[w].pc # "ack"
          /\ \/ /\ worker'[w].batch = Tail(b) /\ worker'[w].deferred = d
             \/ /\ worker'[w].batch = d /\ worker'[w].deferred = <<>>
      BY <1>8, <2>1, <2>2
    <3>3. /\ Belongs(w, inbox'[w]) /\ Belongs(w, worker'[w].batch) /\ Belongs(w, worker'[w].deferred)
          /\ MayStillAck => Sound(inbox'[w], worker'[w].batch, worker'[w].deferred)
      BY <1>9, <1>b, <2>1, <3>1, <3>2
    <3> HIDE DEF q, b, d
    <3> QED BY <2>1, <2>2, <3>1, <3>2, <3>3, HandsKeptQuietly
  <2>3. ASSUME worker' = [worker EXCEPT ![w] = AfterBatch(@)], UNCHANGED inbox
        PROVE  /\ \A v \in Workers \ {w} : inbox'[v] = inbox[v] /\ worker'[v] = worker[v]
               /\ worker'[w].pc # "ack"
               /\ Belongs(w, inbox'[w]) /\ Belongs(w, worker'[w].batch)
               /\ Belongs(w, worker'[w].deferred)
               /\ MayStillAck => Sound(inbox'[w], worker'[w].batch, worker'[w].deferred)
    <3>1. worker'[w] = AfterBatch(worker[w]) /\ \A v \in Workers \ {w} : worker'[v] = worker[v]
      BY <1>0, <2>3 DEF Types
    <3>2. worker'[w].batch = d /\ worker'[w].deferred = <<>> /\ worker'[w].pc \in {"get", "post"}
      BY <1>0, <3>1, AfterBatchFacts
    <3> QED BY <1>9, <1>b, <2>1, <2>3, <3>1, <3>2
  <2>4. CASE /\ worker' = [worker EXCEPT ![w] = AfterBatch(@)]
             /\ UNCHANGED <<inbox, gw, sock>>
    BY <2>1, <2>3, <2>4, HandsKeptQuietly
  <2>5. CASE /\ worker' = [worker EXCEPT ![w] = AfterBatch(@)]
             /\ UNCHANGED inbox /\ Disconnect
    <3>1. /\ gw'.gen = gw.gen /\ gw'.valid = FALSE
          /\ loop = "dead" => sock' = NoSock
          /\ loop # "dead" => /\ sock'.net = sock.net /\ sock'.sent = sock.sent
                              /\ sock'.pubacks = sock.pubacks
      BY <1>0, <2>5, DisconnectFacts
    <3>2. Connection' /\ PubacksSettled'
      BY <2>1, <3>1, SocketTypes DEF AckInv, Connection, PubacksSettled
    <3>3. ~MayStillAck'
      BY <3>1 DEF MayStillAck
    <3> QED BY <2>1, <2>3, <2>5, <3>1, <3>2, <3>3, HandsKept
  <2> QED BY <1>11, <2>2, <2>4, <2>5 DEF Requeue, Requeued
<1> QED BY <1>2, <1>3, <1>5, <1>6, <1>7, <1>10, <1>11 DEF WorkerStep

(* A message handed over gets a packet id that no item in hand has.        *)
LEMMA OnMessageKeeps ==
    ASSUME AckInv, Types', NEW m \in Msgs, NEW i \in Mids, OnMessage(m, i)
    PROVE  AckInv'
<1> DEFINE w == Shard[m]
           x == [msg |-> m, mid |-> i, gen |-> gw.gen]
<1>1. /\ loop = "idle" /\ sock.net = "up" /\ i \notin sock.sent
      /\ UNCHANGED <<loop, sup, worker, world>>
  BY DEF OnMessage
<1>2. /\ \A j \in Mids \ {i} : broker'.inflight[j] = broker.inflight[j]
      /\ broker'.inflight[i] = m
  <2>1. broker.inflight \in [Mids -> Msgs \cup {NoMsg}]
    BY DEF AckInv, Types, BrokerSet
  <2>2. CASE UNCHANGED broker /\ broker.inflight[i] = m
    BY <2>2
  <2>3. CASE broker' = [broker EXCEPT !.inflight[i] = m, !.waiting = @ \ {m}]
    BY <2>1, <2>3 DEF AckInv, Types, BrokerSet
  <2> QED BY <2>2, <2>3 DEF OnMessage
<1>3. /\ w \in Workers /\ gw.gen \in Nat /\ x \in Item
      /\ inbox[w] \in Seq(Item) /\ worker[w].batch \in Seq(Item)
      /\ worker[w].deferred \in Seq(Item)
  BY GatewayConstants DEF AckInv, Types, WorkerSet, GwSet, Item
<1>4. sock.pubacks \subseteq sock.sent /\ sock.sent \subseteq Mids
  BY <1>1 DEF AckInv, Connection, Types, SockSet
<1>5. ASSUME sock'.net = "up", sock'.sent = sock.sent \cup {i}, sock'.pubacks = sock.pubacks
      PROVE  Connection' /\ PubacksSettled'
  <2>1. Connection'
    BY <1>1, <1>4, <1>5 DEF AckInv, Connection
  <2>2. PubacksSettled'
    BY <1>1, <1>2, <1>4, <1>5 DEF AckInv, PubacksSettled
  <2> QED BY <2>1, <2>2
<1>6. AckingSettled' /\ AckedWasSettled'
  BY <1>1 DEF AckInv, AckingSettled, AckedWasSettled
<1>7. CASE HasRoom(w)
  <2>1. /\ inbox' = [inbox EXCEPT ![w] = Append(@, x)] /\ UNCHANGED gw
        /\ sock' = [sock EXCEPT !.sent = @ \cup {i}]
    BY <1>7 DEF OnMessage
  <2>2. sock'.net = "up" /\ sock'.sent = sock.sent \cup {i} /\ sock'.pubacks = sock.pubacks
    BY <1>1, <2>1 DEF AckInv, Types, SockSet
  <2>3. inbox'[w] = Append(inbox[w], x) /\ \A v \in Workers \ {w} : inbox'[v] = inbox[v]
    BY <1>3, <2>1 DEF AckInv, Types
  <2>4. x.gen <= gw.gen /\ Shard[x.msg] = w /\ x.mid = i /\ x.msg = m
    BY <1>3
  <2> HIDE DEF w, x
  <2>5. HandsBelong'
    <3>1. Belongs(w, inbox'[w])
      <4>1. Belongs(w, inbox[w])
        BY <1>3 DEF AckInv, HandsBelong
      <4>2. Belongs(w, Append(inbox[w], x))
        BY <1>3, <2>4, <4>1, BelongsMove
      <4> QED BY <2>3, <4>2
    <3>2. \A v \in Workers : Belongs(v, inbox'[v])
      BY <2>3, <3>1 DEF AckInv, HandsBelong
    <3> QED BY <1>1, <2>1, <3>2 DEF AckInv, HandsBelong, Belongs
  <2>6. HandsOwn'
    <3> SUFFICES ASSUME MayStillAck', NEW v \in Workers
                 PROVE  Owned(v)'
      BY DEF HandsOwn
    <3>1. MayStillAck
      BY <1>1, <2>1 DEF MayStillAck
    <3>2. \A u \in Workers : Sound(inbox[u], worker[u].batch, worker[u].deferred)
      BY <3>1 DEF AckInv, HandsOwn, Owned
    <3>3. ASSUME NEW y, Owns(y)
          PROVE  /\ y.gen = gw.gen => y.mid # i
                 /\ y.gen = gw'.gen => /\ y.mid \in sock'.sent \ sock'.pubacks
                                       /\ broker'.inflight[y.mid] = y.msg
      BY <1>1, <1>2, <1>4, <2>1, <2>2, <3>3 DEF Owns
    <3>4. ASSUME NEW s, AllOwn(s)
          PROVE  /\ Clear(x, s) /\ \A j \in 1 .. Len(s) : Differ(x, s[j])
                 /\ \A j \in 1 .. Len(s) : s[j].gen = gw'.gen =>
                       /\ s[j].mid \in sock'.sent \ sock'.pubacks
                       /\ broker'.inflight[s[j].mid] = s[j].msg
      BY <2>4, <3>3, <3>4 DEF AllOwn, Clear, Differ
    <3>5. AllOwn(inbox[v])' /\ AllOwn(worker[v].batch)' /\ AllOwn(worker[v].deferred)'
      <4>1. AllOwn(inbox[v]) /\ AllOwn(worker[v].batch) /\ AllOwn(worker[v].deferred)
        BY <3>2 DEF Sound
      <4>2. \A s \in {inbox[v], worker[v].batch, worker[v].deferred} :
               \A j \in 1 .. Len(s) : s[j].gen = gw'.gen =>
                  /\ s[j].mid \in sock'.sent \ sock'.pubacks
                  /\ broker'.inflight[s[j].mid] = s[j].msg
        BY <3>4, <4>1
      <4>4. AllOwn(worker[v].batch)' /\ AllOwn(worker[v].deferred)'
        BY <1>1, <4>2 DEF AllOwn, Owns
      <4>3. ASSUME NEW j \in 1 .. Len(inbox'[v])
            PROVE  Owns(inbox[v][j])'
        <5>1. CASE v # w
          BY <2>3, <4>2, <4>3, <5>1 DEF Owns
        <5>2. CASE v = w
          <6>1. \/ j \in 1 .. Len(inbox[w]) /\ inbox'[w][j] = inbox[w][j]
                \/ inbox'[w][j] = x
            BY <1>3, <2>3, <4>3, <5>2, Appended
          <6>2. x.mid \in sock'.sent \ sock'.pubacks /\ broker'.inflight[x.mid] = x.msg
            BY <1>1, <1>2, <1>4, <2>2, <2>4
          <6> QED BY <4>2, <5>2, <6>1, <6>2 DEF Owns
        <5> QED BY <5>1, <5>2
      <4> QED BY <4>3, <4>4 DEF AllOwn
    <3>6. /\ Distinct(inbox'[v]) /\ Distinct(worker'[v].batch) /\ Distinct(worker'[v].deferred)
          /\ Apart(inbox'[v], worker'[v].batch) /\ Apart(inbox'[v], worker'[v].deferred)
          /\ Apart(worker'[v].batch, worker'[v].deferred)
      <4>1. CASE v # w
        BY <1>1, <2>3, <3>2, <4>1 DEF Sound
      <4>2. CASE v = w
        <5>1. /\ AllOwn(inbox[w]) /\ AllOwn(worker[w].batch) /\ AllOwn(worker[w].deferred)
              /\ Distinct(inbox[w]) /\ Distinct(worker[w].batch) /\ Distinct(worker[w].deferred)
              /\ Apart(inbox[w], worker[w].batch) /\ Apart(inbox[w], worker[w].deferred)
              /\ Apart(worker[w].batch, worker[w].deferred)
          BY <1>3, <3>2 DEF Sound
        <5>2. Distinct(Append(inbox[w], x))
          <6> SUFFICES ASSUME NEW j \in 1 .. Len(Append(inbox[w], x)),
                              NEW k \in 1 .. Len(Append(inbox[w], x)), j # k
                       PROVE  Differ(Append(inbox[w], x)[j], Append(inbox[w], x)[k])
            BY DEF Distinct
          <6>1. /\ Len(Append(inbox[w], x)) = Len(inbox[w]) + 1 /\ Len(inbox[w]) \in Nat
                /\ Append(inbox[w], x)[Len(inbox[w]) + 1] = x
                /\ \A n \in 1 .. Len(inbox[w]) : Append(inbox[w], x)[n] = inbox[w][n]
            BY <1>3, Appended
          <6>2. CASE j \in 1 .. Len(inbox[w]) /\ k \in 1 .. Len(inbox[w])
            BY <5>1, <6>1, <6>2 DEF Distinct
          <6>3. CASE j = Len(inbox[w]) + 1 /\ k \in 1 .. Len(inbox[w])
            BY <3>4, <5>1, <6>1, <6>3
          <6>4. CASE j \in 1 .. Len(inbox[w]) /\ k = Len(inbox[w]) + 1
            BY <3>4, <5>1, <6>1, <6>4 DEF Clear
          <6> QED BY <6>1, <6>2, <6>3, <6>4
        <5>3. ASSUME NEW t, Apart(inbox[w], t), AllOwn(t)
              PROVE  Apart(Append(inbox[w], x), t)
          <6>1. \A j \in 1 .. Len(Append(inbox[w], x)) :
                   \/ j \in 1 .. Len(inbox[w]) /\ Append(inbox[w], x)[j] = inbox[w][j]
                   \/ Append(inbox[w], x)[j] = x
            BY <1>3, Appended
          <6> QED BY <3>4, <5>3, <6>1 DEF Apart
        <5> QED BY <1>1, <2>3, <4>2, <5>1, <5>2, <5>3
      <4> QED BY <4>1, <4>2
    <3>7. /\ Distinct(inbox[v])' /\ Distinct(worker[v].batch)' /\ Distinct(worker[v].deferred)'
          /\ Apart(inbox[v], worker[v].batch)' /\ Apart(inbox[v], worker[v].deferred)'
          /\ Apart(worker[v].batch, worker[v].deferred)'
      BY <2>1, <3>6, ApartStays
    <3> QED BY <3>5, <3>7 DEF Owned, Sound
  <2> QED BY <1>5, <1>6, <2>2, <2>5, <2>6 DEF AckInv
<1>8. CASE ~HasRoom(w)
  <2>1. /\ UNCHANGED inbox /\ gw' = Invalidated(gw)
        /\ sock' = [Closed(sock) EXCEPT !.sent = @ \cup {i}]
    BY <1>8 DEF OnMessage
  <2>2. /\ Closed(sock) \in SockSet /\ Closed(sock).net = "up"
        /\ Closed(sock).sent = sock.sent /\ Closed(sock).pubacks = sock.pubacks
    BY <1>1, ClosedFacts DEF AckInv, Types
  <2>3. sock'.net = "up" /\ sock'.sent = sock.sent \cup {i} /\ sock'.pubacks = sock.pubacks
    BY <2>1, <2>2 DEF SockSet
  <2>4. gw'.gen = gw.gen /\ gw'.valid = FALSE
    BY <2>1, InvalidatedFacts DEF AckInv, Types
  <2>5. HandsBelong' /\ HandsOwn'
    BY <1>1, <2>1, <2>4 DEF AckInv, HandsBelong, Belongs, HandsOwn, MayStillAck
  <2> QED BY <1>5, <1>6, <2>3, <2>5 DEF AckInv
<1> QED BY <1>7, <1>8

(* A new process holds nothing and may acknowledge nothing.                *)
LEMMA RestartKeeps ==
    ASSUME AckInv, Types', Restart
    PROVE  AckInv'
<1>1. /\ \A w \in Workers : inbox'[w] = <<>> /\ worker'[w] = Fresh
      /\ gw'.valid = FALSE /\ sock' = NoSock /\ sup' = "watch" /\ loop' = "idle"
      /\ UNCHANGED <<broker, world>>
  BY DEF Restart, FreshGateway
<1>2. Connection' /\ PubacksSettled' /\ AckedWasSettled'
  BY <1>1, SocketTypes DEF AckInv, Connection, PubacksSettled, AckedWasSettled
<1>3. HandsBelong' /\ AckingSettled' /\ HandsOwn'
  BY <1>1, FreshFacts, Empty DEF HandsBelong, Belongs, AckingSettled, HandsOwn, MayStillAck
<1> QED BY <1>2, <1>3 DEF AckInv

(* Steps that only the connection takes part in.                           *)
LEMMA ConnectionKeeps ==
    ASSUME AckInv, Types',
           \/ \E m \in Msgs : Publish(m)
           \/ Drop \/ SessionLost \/ LoopCrash \/ SubscriptionExpires
           \/ OnDisconnect \/ LoopExit \/ LoopReconnect \/ OnConnect
           \/ \E t \in Topics : Subscribe(t) \/ OnSubscribe(t)
           \/ SupervisorStep
           \/ ShutdownStop \/ ShutdownDisconnect \/ ShutdownDone
    PROVE  AckInv'
<1>0. gw \in GwSet /\ sock \in SockSet /\ world \in WorldSet /\ broker \in BrokerSet
  BY DEF AckInv, Types
<1>c. Connection
  BY DEF AckInv
<1>1. ASSUME gw' = Invalidated(gw), UNCHANGED <<broker, inbox, worker, world>>,
             \/ sock'.net # "up"
             \/ sock'.pubacks = {}
             \/ UNCHANGED sock,
             Connection'
      PROVE  AckInv'
  <2>1. gw'.gen = gw.gen /\ gw'.valid = FALSE
    BY <1>0, <1>1, InvalidatedFacts
  <2> QED BY <1>1, <2>1, QuietKeeps
<1>2. ASSUME NEW m \in Msgs, Publish(m)
      PROVE  AckInv'
  <2>1. /\ UNCHANGED <<sock, gw, loop, sup, inbox, worker>>
        /\ broker'.inflight = broker.inflight
    BY <1>0, <1>2 DEF Publish, gatewayVars, BrokerSet
  <2>2. world'.settled = world.settled /\ world'.acked = world.acked
    <3>1. \/ world' = [world EXCEPT !.published = @ \cup {m}]
          \/ world' = [world EXCEPT !.published = @ \cup {m}, !.lost = @ \cup {m}]
      BY <1>2 DEF Publish
    <3> QED BY <1>0, <3>1 DEF WorldSet
  <2>3. Connection'
    BY <1>c, <2>1 DEF Connection
  <2> QED BY <2>1, <2>2, <2>3, QuietKeeps
<1>3. CASE Drop
  <2>1. /\ UNCHANGED <<broker, gw, loop, sup, inbox, worker, world>>
        /\ sock'.net = "dead"
    BY <1>0, <1>3 DEF Drop, gatewayVars, SockSet
  <2>2. Connection'
    BY <1>c, <2>1 DEF Connection
  <2> QED BY <2>1, <2>2, QuietKeeps
<1>4. CASE SessionLost
  <2>1. /\ UNCHANGED <<sock, gw, loop, sup, inbox, worker>> /\ sock.net # "up"
        /\ world'.settled = world.settled /\ world'.acked = world.acked
    BY <1>0, <1>4 DEF SessionLost, gatewayVars, WorldSet
  <2>2. Connection'
    BY <1>c, <2>1 DEF Connection
  <2> QED BY <2>1, <2>2, QuietKeeps
<1>5. CASE LoopCrash \/ SubscriptionExpires
  <2>1. UNCHANGED <<broker, sock, gw, inbox, worker, world>>
    BY <1>5 DEF LoopCrash, SubscriptionExpires
  <2>2. Connection'
    BY <1>5, <1>c, <2>1 DEF Connection, LoopCrash, SubscriptionExpires
  <2> QED BY <2>1, <2>2, QuietKeeps
<1>6. CASE OnDisconnect \/ LoopExit \/ LoopReconnect
  <2>1. /\ gw' = Invalidated(gw) /\ sock' \in {NoSock, Connecting}
        /\ UNCHANGED <<broker, sup, inbox, worker, world>>
        /\ loop' \in {"idle", "dead"} /\ loop = "idle"
    BY <1>6 DEF OnDisconnect, LoopExit, LoopReconnect
  <2>2. gw'.valid = FALSE
    BY <1>0, <2>1, InvalidatedFacts
  <2>3. Connection'
    BY <1>c, <2>1, <2>2, SocketTypes DEF Connection
  <2> QED BY <1>1, <2>1, <2>3, SocketTypes
<1>7. CASE OnConnect
  <2>1. /\ UNCHANGED <<broker, sup, inbox, worker, world>>
        /\ loop = "idle" /\ sock.net = "connecting"
    BY <1>7 DEF OnConnect
  <2>2. CASE Disconnect /\ UNCHANGED loop
    BY <2>1, <2>2, DisconnectKeeps
  <2>3. CASE /\ gw' = Invalidated(gw) /\ loop' \in {"idle", "accepted"}
             /\ \/ sock' = [sock EXCEPT !.net = "dead"] \/ sock' = [sock EXCEPT !.net = "up"]
    <3>1. /\ sock'.net \in {"dead", "up"} /\ sock'.pubacks = sock.pubacks
          /\ sock'.sent = sock.sent
      BY <1>0, <2>3 DEF SockSet
    <3>2. sock'.pubacks = {}
      BY <1>c, <2>1, <3>1 DEF Connection
    <3>3. Connection'
      BY <1>c, <2>1, <2>3, <3>1, <3>2 DEF Connection
    <3> QED BY <1>1, <2>1, <2>3, <3>2, <3>3
  <2> QED BY <1>7, <2>1, <2>2, <2>3 DEF OnConnect
<1>8. ASSUME NEW t \in Topics, Subscribe(t)
      PROVE  AckInv'
  <2>1. loop = "subscribing" /\ UNCHANGED <<broker, sup, inbox, worker, world>>
        /\ loop' \in {"idle", "subscribing"}
    BY <1>8 DEF Subscribe
  <2>2. CASE Disconnect
    <3>1. /\ gw'.gen = gw.gen /\ gw'.valid = FALSE
          /\ sock'.net = sock.net /\ sock'.sent = sock.sent /\ sock'.pubacks = sock.pubacks
      BY <2>1, <2>2, DisconnectFacts DEF AckInv
    <3>2. Connection'
      BY <1>c, <2>1, <3>1 DEF Connection
    <3> QED BY <2>1, <3>1, <3>2, QuietKeeps
  <2>3. CASE ~Disconnect
    <3>1. /\ sock' = [sock EXCEPT !.asked = @ \cup {t}]
          /\ gw' = [gw EXCEPT !.pending = @ \cup {t}]
      BY <1>8, <2>3 DEF Subscribe
    <3>2. /\ sock'.net = sock.net /\ sock'.sent = sock.sent /\ sock'.pubacks = sock.pubacks
          /\ gw'.gen = gw.gen /\ gw'.valid = gw.valid
      BY <1>0, <3>1 DEF SockSet, GwSet
    <3>3. Connection'
      BY <1>c, <2>1, <3>2 DEF Connection
    <3> QED BY <2>1, <3>2, <3>3, QuietKeeps
  <2> QED BY <2>2, <2>3
<1>9. ASSUME NEW t \in Topics, OnSubscribe(t)
      PROVE  AckInv'
  <2>1. UNCHANGED <<loop, sup, inbox, worker, world>>
    BY <1>9 DEF OnSubscribe
  <2>2. CASE Disconnect /\ UNCHANGED broker
    BY <2>1, <2>2, DisconnectKeeps
  <2>3. CASE ~(Disconnect /\ UNCHANGED broker)
    <3>1. /\ sock' = [sock EXCEPT !.granted = @ \cup {t}]
          /\ broker' = [broker EXCEPT !.topics = @ \cup {t}]
          /\ gw' = Granted(gw, t)
      BY <1>9, <2>3 DEF OnSubscribe
    <3>2. /\ sock'.net = sock.net /\ sock'.sent = sock.sent /\ sock'.pubacks = sock.pubacks
          /\ broker'.inflight = broker.inflight
      BY <1>0, <3>1 DEF SockSet, BrokerSet
    <3>3. gw'.gen = gw.gen /\ gw'.valid = gw.valid
      BY <1>0, <3>1 DEF Granted, GwSet
    <3>4. Connection'
      BY <1>c, <2>1, <3>2, <3>3 DEF Connection
    <3> QED BY <2>1, <3>2, <3>3, <3>4, QuietKeeps
  <2> QED BY <2>2, <2>3
<1>10. CASE SubscriptionTimeout \/ ShutdownDisconnect
  BY <1>10, DisconnectKeeps DEF SubscriptionTimeout, ShutdownDisconnect
<1>11. CASE RecoverFence
  <2>1. /\ gw' = Invalidated(gw) /\ UNCHANGED <<broker, sock, loop, inbox, worker, world>>
        /\ loop = "dead"
    BY <1>11 DEF RecoverFence
  <2>2. gw'.valid = FALSE
    BY <1>0, <2>1, InvalidatedFacts
  <2>3. Connection'
    BY <1>c, <2>1, <2>2 DEF Connection
  <2> QED BY <1>1, <2>1, <2>3
<1>12. CASE RecoverReconnect
  <2>1. /\ gw' = Invalidated(gw) /\ sock' \in {NoSock, Connecting}
        /\ UNCHANGED <<broker, loop, inbox, worker, world>> /\ sup = "fenced"
    BY <1>12 DEF RecoverReconnect
  <2>2. gw'.valid = FALSE
    BY <1>0, <2>1, InvalidatedFacts
  <2>3. Connection'
    BY <1>c, <2>1, <2>2, SocketTypes DEF Connection
  <2> QED BY <1>1, <2>1, <2>3, SocketTypes
<1>13. CASE RecoverCheck
  <2>1. CASE Disconnect /\ sup' = "watch"
    BY <1>13, <2>1, DisconnectKeeps DEF RecoverCheck
  <2>2. CASE UNCHANGED <<gw, sock>>
    <3>1. UNCHANGED <<broker, loop, inbox, worker, world>> /\ sup \in {"opened", "failed"}
      BY <1>13 DEF RecoverCheck
    <3>2. Connection'
      BY <1>c, <2>2, <3>1 DEF Connection
    <3> QED BY <2>2, <3>1, <3>2, QuietKeeps
  <2> QED BY <1>13, <2>1, <2>2 DEF RecoverCheck
<1>14. CASE RecoverStart
  <2>1. UNCHANGED <<broker, sock, gw, inbox, worker, world>>
        /\ loop' = "idle" /\ sup' = "watch"
    BY <1>14 DEF RecoverStart, LoopStarted
  <2>2. Connection'
    BY <1>c, <2>1 DEF Connection
  <2> QED BY <2>1, <2>2, QuietKeeps
<1>15. CASE ShutdownStop
  <2>1. gw' = Invalidated(gw) /\ UNCHANGED <<broker, sock, loop, sup, inbox, worker, world>>
    BY <1>15 DEF ShutdownStop
  <2>2. gw'.valid = FALSE
    BY <1>0, <2>1, InvalidatedFacts
  <2>3. Connection'
    BY <1>c, <2>1, <2>2 DEF Connection
  <2> QED BY <1>1, <2>1, <2>3
<1>16. CASE ShutdownDone
  <2>1. /\ UNCHANGED <<broker, sock, loop, sup, inbox, worker, world>>
        /\ gw'.gen = gw.gen /\ gw'.valid = FALSE
    BY <1>0, <1>16 DEF ShutdownDone, GwSet
  <2>2. Connection'
    BY <1>c, <2>1 DEF Connection
  <2> QED BY <2>1, <2>2, QuietKeeps
<1> QED
  BY <1>2, <1>3, <1>4, <1>5, <1>6, <1>7, <1>8, <1>9, <1>10, <1>11, <1>12, <1>13,
     <1>14, <1>15, <1>16 DEF SupervisorStep

-----------------------------------------------------------------------------
LEMMA AckInvariant == Spec => []AckInv
<1>1. Init => AckInv
  <2> SUFFICES ASSUME Init PROVE AckInv
    OBVIOUS
  <2>1. /\ \A w \in Workers : inbox[w] = <<>> /\ worker[w] = Fresh
        /\ gw = FreshGateway /\ gw.valid = FALSE /\ sock = NoSock /\ sup = "watch"
        /\ loop = "idle" /\ world.acked = {}
    BY DEF Init, FreshGateway
  <2>2. /\ broker \in BrokerSet /\ world \in WorldSet /\ gw \in GwSet
        /\ inbox \in [Workers -> Seq(Item)] /\ worker \in [Workers -> WorkerSet]
    BY FreshFacts, Empty DEF Init, FreshGateway, BrokerSet, WorldSet, GwSet
  <2>3. Types
    BY <2>1, <2>2, SocketTypes, FreshFacts DEF Types
  <2>4. Connection /\ PubacksSettled /\ AckedWasSettled
    BY <2>1, SocketTypes DEF Connection, PubacksSettled, AckedWasSettled
  <2>5. HandsBelong /\ AckingSettled /\ HandsOwn
    BY <2>1, FreshFacts, Empty DEF HandsBelong, Belongs, AckingSettled, HandsOwn, MayStillAck
  <2> QED BY <2>3, <2>4, <2>5 DEF AckInv
<1>2. AckInv /\ [Next]_vars => AckInv'
  <2> SUFFICES ASSUME AckInv, [Next]_vars PROVE AckInv'
    OBVIOUS
  <2>1. Types'
    BY TypesKept DEF AckInv
  <2>2. CASE UNCHANGED vars
    <3>1. UNCHANGED <<broker, sock, gw, loop, sup, inbox, worker, world>>
      BY <2>2 DEF vars
    <3>2. Connection'
      BY <3>1 DEF AckInv, Connection
    <3> QED BY <2>1, <3>1, <3>2, QuietKeeps
  <2>3. CASE Next
    BY <2>1, <2>3, ConnectionKeeps, RestartKeeps, OnMessageKeeps, WorkerKeeps,
       NewGenerationKeeps, BrokerAckKeeps DEF Next, LoopStep
  <2> QED BY <2>2, <2>3
<1> QED BY <1>1, <1>2, PTL DEF Spec

(* The MQTT gateway acknowledges a message to the broker only once the     *)
(* cloud has settled it, however connections, retries, batches, restarts   *)
(* and reused packet ids interleave: ack() and the generation fence.       *)
THEOREM AcknowledgedOnlySettled == Spec => []AckedWasSettled
<1>1. AckInv => AckedWasSettled
  BY DEF AckInv
<1> QED BY <1>1, AckInvariant, PTL

-----------------------------------------------------------------------------
(* Shutdown *)

(* From the moment shutdown() holds _reconnect_lock no recovery is under   *)
(* way, and the connection is either closed or told to close by a loop     *)
(* that cannot do anything else; stop_event keeps it so.                   *)
ShutInv ==
    /\ shut \in {"no", "stopping", "closing", "closed"}
    /\ shut # "no" => stop
    /\ shut \in {"closing", "closed"} =>
          /\ sup \in {"watch", "expired"}
          /\ \/ loop # "dead" /\ sock.closing
             \/ loop = "dead" /\ sock.net = "down"
    /\ shut = "closed" => loop = "dead" /\ ~gw.valid /\ ~gw.connected

(* Whatever withdraws the right to acknowledge also ends readiness, and    *)
(* whatever changes the socket of a closing connection leaves it closing.  *)
LEMMA ClosingFacts ==
    ASSUME Types
    PROVE  /\ Invalidated(gw).connected = FALSE /\ Invalidated(gw).valid = FALSE
           /\ loop # "dead" => Closed(sock).closing = TRUE
           /\ loop = "dead" => Closed(sock).net = "down"
           /\ NoSock.net = "down"
           /\ \A p : [sock EXCEPT !.pubacks = p].closing = sock.closing
           /\ \A p : [sock EXCEPT !.pubacks = p].net = sock.net
  BY SocketTypes DEF Types, GwSet, SockSet, Invalidated, Closed

LEMMA AckClosing ==
    ASSUME Types, NEW item, Ack(item)
    PROVE  /\ loop # "dead" => sock'.closing = sock.closing
           /\ loop = "dead" /\ sock.net = "down" => sock'.net = "down"
           /\ ~gw.valid => UNCHANGED gw
  BY ClosingFacts DEF Ack, MayAck

LEMMA ShutKept ==
    ASSUME AckInv, ShutInv, [Next]_vars
    PROVE  ShutInv'
<1>0. Types /\ sock \in SockSet /\ gw \in GwSet
  BY DEF AckInv, Types
<1>1. ASSUME UNCHANGED <<shut, stop, sup, loop>>,
             loop # "dead" => sock'.closing = sock.closing \/ sock'.closing = TRUE,
             loop = "dead" /\ sock.net = "down" => sock'.net = "down",
             loop = "dead" /\ ~gw.valid /\ ~gw.connected => ~gw'.valid /\ ~gw'.connected
      PROVE  ShutInv'
  BY <1>1 DEF ShutInv
<1>2. ASSUME NEW w \in Workers, WorkerStep(w)
      PROVE  ShutInv'
  <2>1. UNCHANGED <<shut, stop, sup, loop>>
    BY <1>2 DEF WorkerStep, WorkerGet, Collect, CloseBatch, PostSettled, PostFailed,
                AckNext, Requeue
  <2>2. CASE \E item : Ack(item)
    BY <1>0, <1>1, <2>1, <2>2, AckClosing
  <2>3. CASE Disconnect
    BY <1>0, <1>1, <2>1, <2>3, ClosingFacts DEF Disconnect
  <2>4. CASE UNCHANGED <<gw, sock>>
    BY <1>1, <2>1, <2>4
  <2> QED BY <1>2, <2>2, <2>3, <2>4
          DEF WorkerStep, WorkerGet, Collect, DropMalformed, CloseBatch, PostSettled,
              PostFailed, AckNext, Requeue
<1>3. CASE \/ \E m \in Msgs : Publish(m)
           \/ SessionLost
  BY <1>1, <1>3 DEF Publish, SessionLost, gatewayVars
<1>4. CASE \/ \E i \in Mids : BrokerAck(i)
           \/ Drop
  <2>1. /\ UNCHANGED <<gw, shut, stop, sup, loop>> /\ sock.net # "down"
        /\ sock'.closing = sock.closing
    BY <1>0, <1>4 DEF BrokerAck, Drop, gatewayVars, SockSet
  <2> QED BY <1>1, <2>1
<1>5. CASE LoopCrash
  BY <1>5 DEF LoopCrash, ShutInv
<1>6. CASE Restart
  BY <1>6 DEF Restart, ShutInv
<1>7. CASE SubscriptionExpires
  BY <1>7 DEF SubscriptionExpires, ShutInv
<1>8. CASE OnDisconnect \/ LoopReconnect
  BY <1>8 DEF OnDisconnect, LoopReconnect, ShutInv
<1>9. CASE LoopExit
  BY <1>0, <1>9, ClosingFacts DEF LoopExit, ShutInv
<1>10. CASE OnConnect
  <2>1. CASE Disconnect /\ UNCHANGED loop
    BY <1>0, <1>1, <1>10, <2>1, ClosingFacts DEF OnConnect, Disconnect
  <2>2. CASE ~stop
    <3>1. shut = "no" /\ UNCHANGED <<shut, stop>>
      BY <1>10, <2>2 DEF OnConnect, ShutInv
    <3> QED BY <3>1 DEF ShutInv
  <2> QED BY <1>10, <2>1, <2>2 DEF OnConnect
<1>11. CASE NewGeneration
  BY <1>11 DEF NewGeneration, ShutInv
<1>12. ASSUME NEW t \in Topics, Subscribe(t)
       PROVE  ShutInv'
  <2>1. /\ loop = "subscribing" /\ loop' \in {"idle", "subscribing"}
        /\ UNCHANGED <<shut, stop, sup>>
    BY <1>12 DEF Subscribe
  <2>2. sock'.closing = sock.closing \/ sock'.closing = TRUE
    <3>1. CASE Disconnect
      BY <1>0, <2>1, <3>1, ClosingFacts DEF Disconnect
    <3>2. CASE sock' = [sock EXCEPT !.asked = @ \cup {t}]
      BY <1>0, <3>2 DEF SockSet
    <3> QED BY <1>12, <3>1, <3>2 DEF Subscribe
  <2> QED BY <2>1, <2>2 DEF ShutInv
<1>13. ASSUME NEW t \in Topics, OnSubscribe(t)
       PROVE  ShutInv'
  <2>1. loop = "idle" /\ UNCHANGED <<shut, stop, sup, loop>>
    BY <1>13 DEF OnSubscribe
  <2>2. sock'.closing = sock.closing \/ sock'.closing = TRUE
    <3>1. CASE Disconnect
      BY <1>0, <2>1, <3>1, ClosingFacts DEF Disconnect
    <3>2. CASE sock' = [sock EXCEPT !.granted = @ \cup {t}]
      BY <1>0, <3>2 DEF SockSet
    <3> QED BY <1>13, <3>1, <3>2 DEF OnSubscribe
  <2> QED BY <1>1, <2>1, <2>2
<1>14. ASSUME NEW m \in Msgs, NEW i \in Mids, OnMessage(m, i)
       PROVE  ShutInv'
  <2>1. loop = "idle" /\ UNCHANGED <<shut, stop, sup, loop>>
    BY <1>14 DEF OnMessage
  <2>2. sock'.closing = sock.closing \/ sock'.closing = TRUE
    <3>1. \/ sock' = [sock EXCEPT !.sent = @ \cup {i}]
          \/ sock' = [Closed(sock) EXCEPT !.sent = @ \cup {i}]
      BY <1>14 DEF OnMessage
    <3>2. Closed(sock) \in SockSet /\ Closed(sock).closing = TRUE
      BY <1>0, <2>1, ClosedFacts, ClosingFacts
    <3> QED BY <1>0, <3>1, <3>2 DEF SockSet
  <2> QED BY <1>1, <2>1, <2>2
<1>15. CASE SubscriptionTimeout
  BY <1>0, <1>15, ClosingFacts DEF SubscriptionTimeout, Disconnect, ShutInv
<1>16. CASE RecoverFence
  BY <1>16 DEF RecoverFence, ShutInv
<1>17. CASE RecoverReconnect \/ RecoverCheck \/ RecoverStart
  <2>1. sup \notin {"watch", "expired"} /\ UNCHANGED <<shut, stop>>
    BY <1>17 DEF RecoverReconnect, RecoverCheck, RecoverStart
  <2> QED BY <2>1 DEF ShutInv
<1>18. CASE ShutdownStop
  BY <1>18 DEF ShutdownStop, ShutInv
<1>19. CASE ShutdownDisconnect
  BY <1>0, <1>19, ClosingFacts DEF ShutdownDisconnect, ReconnectLockFree, Disconnect, ShutInv
<1>20. CASE ShutdownDone
  <2>1. ~gw'.valid /\ ~gw'.connected
    BY <1>0, <1>20 DEF ShutdownDone, GwSet
  <2> QED BY <1>20, <2>1 DEF ShutdownDone, ShutInv
<1>21. CASE UNCHANGED vars
  BY <1>21 DEF vars, ShutInv
<1> QED
  BY <1>2, <1>3, <1>4, <1>5, <1>6, <1>7, <1>8, <1>9, <1>10, <1>11, <1>12, <1>13,
     <1>14, <1>15, <1>16, <1>17, <1>18, <1>19, <1>20, <1>21
  DEF Next, LoopStep, SupervisorStep

(* Once shutdown() has returned there is no connection, no loop thread and *)
(* no right to acknowledge, whichever recovery of the supervisor or        *)
(* callback of the loop it raced with.                                     *)
THEOREM ShutdownIsClean == Spec => []ShutdownLeavesNothing
<1>1. Init => ShutInv
  BY DEF Init, ShutInv
<1>2. AckInv /\ ShutInv /\ [Next]_vars => ShutInv'
  BY ShutKept
<1>3. ShutInv => ShutdownLeavesNothing
  BY DEF ShutInv, ShutdownLeavesNothing
<1> QED BY <1>1, <1>2, <1>3, AckInvariant, PTL DEF Spec

-----------------------------------------------------------------------------
(* The receive window                                                      *)
(*                                                                         *)
(* Every packet id of the connection is with an item in somebody's hands,  *)
(* or its PUBACK is on the way. A worker that waits for work or fills a    *)
(* batch has nothing behind it that could be overwritten, and a connection *)
(* that is given a new generation has not delivered anything yet.          *)

Open == gw.valid /\ ~stop /\ sock.net = "up"

EmptyHands ==
    \A w \in Workers :
        /\ worker[w].pc = "get" => worker[w].batch = <<>>
        /\ worker[w].pc \in {"get", "collect"} => worker[w].deferred = <<>>

FreshConnection == loop = "accepted" => sock.sent = {}

LeakInv == EmptyHands /\ FreshConnection /\ WindowNeverLeaks

Covers(it, i) == it.mid = i /\ it.gen = gw.gen /\ it.msg = broker.inflight[i]

LEMMA RangeMoves ==
    ASSUME NEW s \in Seq(Item), NEW x \in Item
    PROVE  /\ Range(Append(s, x)) = Range(s) \cup {x}
           /\ s # <<>> => Range(s) = Range(Tail(s)) \cup {Head(s)}
           /\ Range(<<x>>) = {x} /\ Range(<<>>) = {}
           /\ Range(s) \subseteq Item
<1>1. Range(Append(s, x)) = Range(s) \cup {x}
  <2>1. /\ Len(s) \in Nat /\ DOMAIN s = 1 .. Len(s)
        /\ DOMAIN Append(s, x) = 1 .. Len(s) + 1
        /\ \A j \in 1 .. Len(s) : Append(s, x)[j] = s[j]
        /\ Append(s, x)[Len(s) + 1] = x
    OBVIOUS
  <2>2. 1 .. Len(s) + 1 = (1 .. Len(s)) \cup {Len(s) + 1}
    BY <2>1
  <2> QED BY <2>1, <2>2 DEF Range
<1>2. ASSUME s # <<>>
      PROVE  Range(s) = Range(Tail(s)) \cup {Head(s)}
  <2>1. /\ Head(s) = s[1] /\ Len(s) \in Nat \ {0}
        /\ DOMAIN s = 1 .. Len(s) /\ DOMAIN Tail(s) = 1 .. Len(s) - 1
        /\ \A j \in 1 .. Len(s) - 1 : Tail(s)[j] = s[j + 1]
    BY <1>2
  <2>2. ASSUME NEW j \in 1 .. Len(s), j # 1
        PROVE  j - 1 \in 1 .. Len(s) - 1 /\ Tail(s)[j - 1] = s[j]
    <3>1. j - 1 \in 1 .. Len(s) - 1 /\ (j - 1) + 1 = j
      BY <2>1, <2>2
    <3> QED BY <2>1, <3>1
  <2>3. \A j \in 1 .. Len(s) - 1 : j + 1 \in 1 .. Len(s)
    BY <2>1
  <2>4. 1 \in 1 .. Len(s)
    BY <2>1
  <2>5. Range(s) \subseteq Range(Tail(s)) \cup {Head(s)}
    <3> SUFFICES ASSUME NEW j \in 1 .. Len(s), j # 1
                 PROVE  s[j] \in Range(Tail(s))
      BY <2>1 DEF Range
    <3>1. j - 1 \in DOMAIN Tail(s) /\ Tail(s)[j - 1] = s[j]
      BY <2>1, <2>2
    <3> QED BY <3>1 DEF Range
  <2>6. Range(Tail(s)) \cup {Head(s)} \subseteq Range(s)
    BY <2>1, <2>3, <2>4 DEF Range
  <2> QED BY <2>5, <2>6
<1>3. Range(<<x>>) = {x} /\ Range(<<>>) = {} /\ Range(s) \subseteq Item
  BY DEF Range
<1> QED BY <1>1, <1>2, <1>3

(* Steps after which every id of the window is covered as before, or by    *)
(* an item that is new in somebody's hands.                                *)
LEMMA StillCovered ==
    ASSUME WindowNeverLeaks,
           Open' =>
             /\ Open /\ gw'.gen = gw.gen
             /\ \A i \in sock'.sent \ sock'.pubacks :
                   \/ i \in sock.sent \ sock.pubacks /\ broker'.inflight[i] = broker.inflight[i]
                   \/ \E w \in Workers : \E it \in Holding(w)' : Covers(it, i)'
             /\ \A w \in Workers : \A it \in Holding(w) :
                   it \in Holding(w)' \/ (it.gen = gw.gen => it.mid \in sock'.pubacks)
    PROVE  WindowNeverLeaks'
<1> SUFFICES ASSUME Open', NEW i \in sock'.sent \ sock'.pubacks
             PROVE  \E w \in Workers : \E it \in Holding(w)' : Covers(it, i)'
  BY DEF WindowNeverLeaks, Open, Covers
<1>1. CASE i \in sock.sent \ sock.pubacks /\ broker'.inflight[i] = broker.inflight[i]
  <2>1. PICK w \in Workers : \E it \in Holding(w) : Covers(it, i)
    BY <1>1 DEF WindowNeverLeaks, Open, Covers
  <2>2. PICK it \in Holding(w) : Covers(it, i)
    BY <2>1
  <2>3. it \in Holding(w)'
    BY <2>2 DEF Covers
  <2>4. Covers(it, i)'
    BY <1>1, <2>2 DEF Covers
  <2> QED BY <2>3, <2>4
<1> QED BY <1>1

(* A step that ends the right to acknowledge, or the connection.           *)
LEMMA ShutWindow ==
    ASSUME ~Open'
    PROVE  WindowNeverLeaks'
  BY DEF WindowNeverLeaks, Open

(* A step that moves no item and no packet id.                             *)
LEMMA QuietWindow ==
    ASSUME WindowNeverLeaks, UNCHANGED <<inbox, worker, stop>>,
           gw'.valid = gw.valid, gw'.gen = gw.gen, sock'.net = sock.net,
           sock'.sent \ sock'.pubacks \subseteq sock.sent \ sock.pubacks,
           \A i \in sock'.sent \ sock'.pubacks : broker'.inflight[i] = broker.inflight[i]
    PROVE  WindowNeverLeaks'
<1>1. \A w : Holding(w)' = Holding(w)
  BY DEF Holding
<1>2. Open' => Open
  BY DEF Open
<1> QED BY <1>1, <1>2, StillCovered

(* An item acknowledged on an open connection has its PUBACK on the way,   *)
(* unless it is of an older generation.                                    *)
LEMMA AckCovers ==
    ASSUME Types, NEW item \in Item, Ack(item), UNCHANGED stop, Open'
    PROVE  /\ Open /\ gw'.gen = gw.gen
           /\ sock'.sent \ sock'.pubacks \subseteq sock.sent \ sock.pubacks
           /\ item.gen = gw.gen => item.mid \in sock'.pubacks
<1>1. CASE ~MayAck(item) /\ UNCHANGED <<gw, sock>>
  BY <1>1 DEF MayAck, Open
<1>2. CASE gw' = Invalidated(gw) /\ sock' = NoSock
  BY <1>2, SocketTypes DEF Open
<1>3. CASE sock' = [sock EXCEPT !.pubacks = @ \cup {item.mid}] /\ UNCHANGED gw
  <2>1. /\ sock'.pubacks = sock.pubacks \cup {item.mid}
        /\ sock'.sent = sock.sent /\ sock'.net = sock.net
    BY <1>3 DEF Types, SockSet
  <2> QED BY <1>3, <2>1 DEF Open
<1> QED BY <1>1, <1>2, <1>3 DEF Ack

(* The first item of a batch leaves; what was deferred stays in hand.      *)
LEMMA AdvanceHands ==
    ASSUME NEW k \in WorkerSet, k.batch # <<>>, k.pc \in {"ack", "retry"}
    PROVE  LET n == Advance(k)
           IN  /\ n.pc = "get" => n.batch = <<>>
               /\ n.pc \in {"get", "collect"} => n.deferred = <<>>
               /\ Range(k.batch) \cup Range(k.deferred)
                    = Range(n.batch) \cup Range(n.deferred) \cup {Head(k.batch)}
<1> DEFINE n == Advance(k)
<1>1. k.batch \in Seq(Item) /\ k.deferred \in Seq(Item)
  BY DEF WorkerSet
<1>2. /\ Range(k.batch) = Range(Tail(k.batch)) \cup {Head(k.batch)}
      /\ Range(<<>>) = {}
  <2>1. Head(k.batch) \in Item
    BY <1>1, HeadAndTail
  <2> QED BY <1>1, <2>1, RangeMoves
<1>3. CASE Len(k.batch) > 1
  <2>1. n = [k EXCEPT !.batch = Tail(k.batch)]
    BY <1>3 DEF Advance
  <2>2. n.batch = Tail(k.batch) /\ n.deferred = k.deferred /\ n.pc = k.pc
    BY <2>1 DEF WorkerSet
  <2> HIDE DEF n
  <2>3. n.pc \notin {"get", "collect"}
    BY <2>2
  <2>4. Range(k.batch) \cup Range(k.deferred)
          = Range(n.batch) \cup Range(n.deferred) \cup {Head(k.batch)}
    BY <1>2, <2>2
  <2> QED BY <2>3, <2>4 DEF n
<1>4. CASE ~(Len(k.batch) > 1)
  <2>1. n = AfterBatch(k)
    BY <1>4 DEF Advance
  <2>2. /\ n.batch = k.deferred /\ n.deferred = <<>>
        /\ n.pc = "get" => n.batch = <<>>
    BY <2>1, AfterBatchFacts, FreshFacts DEF AfterBatch
  <2>3. Range(Tail(k.batch)) = {}
    <3>1. /\ Tail(k.batch) \in Seq(Item) /\ Len(k.batch) \in Nat \ {0}
          /\ Len(Tail(k.batch)) = Len(k.batch) - 1
      BY <1>1, HeadAndTail
    <3>2. Len(Tail(k.batch)) = 0
      <4>1. \A m \in Nat \ {0} : ~(m > 1) => m - 1 = 0
        OBVIOUS
      <4> QED BY <1>4, <3>1, <4>1, Zenon
    <3>3. \A t \in Seq(Item) : Len(t) = 0 => t = <<>>
      OBVIOUS
    <3>4. Tail(k.batch) = <<>>
      BY <3>1, <3>2, <3>3
    <3> QED BY <1>2, <3>4
  <2> HIDE DEF n
  <2>4. Range(k.batch) \cup Range(k.deferred)
          = Range(n.batch) \cup Range(n.deferred) \cup {Head(k.batch)}
    BY <1>2, <2>2, <2>3
  <2> QED BY <2>2, <2>4 DEF n
<1> QED BY <1>3, <1>4

(* One worker's step: all items but one that is acknowledged stay in hand. *)
LEMMA WorkerLeak ==
    ASSUME Types, LeakInv, NEW w \in Workers, UNCHANGED <<broker, loop, stop>>,
           Open' =>
             /\ Open /\ gw'.gen = gw.gen
             /\ sock'.sent \ sock'.pubacks \subseteq sock.sent \ sock.pubacks
             /\ \A it \in Holding(w) :
                   it \in Holding(w)' \/ (it.gen = gw.gen => it.mid \in sock'.pubacks),
           loop = "accepted" => sock'.sent = {},
           \A v \in Workers : v # w => inbox'[v] = inbox[v] /\ worker'[v] = worker[v],
           worker'[w].pc = "get" => worker'[w].batch = <<>>,
           worker'[w].pc \in {"get", "collect"} => worker'[w].deferred = <<>>
    PROVE  LeakInv'
<1>1. EmptyHands'
  BY DEF LeakInv, EmptyHands
<1>2. FreshConnection'
  BY DEF FreshConnection
<1>3. \A v \in Workers : v # w => Holding(v)' = Holding(v)
  BY DEF Holding
<1>4. WindowNeverLeaks'
  <2>1. Open' =>
          \A v \in Workers : \A it \in Holding(v) :
             it \in Holding(v)' \/ (it.gen = gw.gen => it.mid \in sock'.pubacks)
    BY <1>3
  <2> QED BY <2>1, StillCovered DEF LeakInv
<1> QED BY <1>1, <1>2, <1>4 DEF LeakInv

LEMMA WorkersLeak ==
    ASSUME Types, LeakInv, NEW w \in Workers, WorkerStep(w)
    PROVE  LeakInv'
<1>t. /\ worker[w] \in WorkerSet /\ worker[w].batch \in Seq(Item)
      /\ worker[w].deferred \in Seq(Item) /\ inbox[w] \in Seq(Item)
      /\ worker[w].pc # "get" => worker[w].batch # <<>>
      /\ worker \in [Workers -> WorkerSet] /\ inbox \in [Workers -> Seq(Item)]
  BY DEF Types, WorkerSet
<1>f. loop = "accepted" => sock.sent = {}
  BY DEF LeakInv, FreshConnection
<1>e. Range(<<>>) = {}
  BY DEF Range
(* The head of the queue is malformed and acknowledged.                    *)
<1>1. ASSUME inbox[w] # <<>>, DropMalformed(w), inbox' = [inbox EXCEPT ![w] = Tail(@)],
             UNCHANGED <<broker, loop, stop>>
      PROVE  LeakInv'
  <2> DEFINE item == NextItem(w)
  <2>1. item \in Item /\ Range(inbox[w]) = Range(Tail(inbox[w])) \cup {item}
    <3>1. Head(inbox[w]) \in Item
      BY <1>t, <1>1, HeadAndTail
    <3> QED BY <1>t, <1>1, <3>1, RangeMoves DEF NextItem
  <2>2. Ack(item) /\ worker' = worker /\ inbox'[w] = Tail(inbox[w])
    BY <1>t, <1>1 DEF DropMalformed
  <2> HIDE DEF item
  <2>3. \A it \in Holding(w) : it \in Holding(w)' \/ it = item
    BY <2>1, <2>2 DEF Holding
  <2>4. loop = "accepted" => sock'.sent = {}
    <3>1. sock'.sent = sock.sent \/ sock' = NoSock
      BY <2>2 DEF Ack, Types, SockSet
    <3> QED BY <1>f, <3>1, SocketTypes
  <2> QED BY <1>1, <2>1, <2>2, <2>3, <2>4, AckCovers, WorkerLeak DEF LeakInv, EmptyHands
(* An item moves from the queue into the worker's hands.                   *)
<1>2. ASSUME inbox[w] # <<>>, inbox' = [inbox EXCEPT ![w] = Tail(@)],
             UNCHANGED <<broker, loop, stop, gw, sock>>,
             NEW n, worker' = [worker EXCEPT ![w] = n],
             Range(n.batch) \cup Range(n.deferred)
               = Range(worker[w].batch) \cup Range(worker[w].deferred) \cup {NextItem(w)},
             n.pc # "get", n.pc = "collect" => n.deferred = <<>>
      PROVE  LeakInv'
  <2>1. Range(inbox[w]) = Range(Tail(inbox[w])) \cup {NextItem(w)}
    <3>1. Head(inbox[w]) \in Item
      BY <1>t, <1>2, HeadAndTail
    <3> QED BY <1>t, <1>2, <3>1, RangeMoves DEF NextItem
  <2>2. inbox'[w] = Tail(inbox[w]) /\ worker'[w] = n
    BY <1>t, <1>2
  <2>3. Holding(w) = Holding(w)'
    BY <1>2, <2>1, <2>2 DEF Holding
  <2>4. Open' => Open
    BY <1>2 DEF Open
  <2> QED BY <1>t, <1>f, <1>2, <2>2, <2>3, <2>4, WorkerLeak
<1>3. CASE WorkerGet(w)
  <2>1. /\ inbox[w] # <<>> /\ inbox' = [inbox EXCEPT ![w] = Tail(@)]
        /\ UNCHANGED <<broker, loop, stop>> /\ worker[w].pc = "get"
    BY <1>3 DEF WorkerGet
  <2>2. CASE DropMalformed(w)
    BY <1>1, <2>1, <2>2
  <2>3. CASE ~DropMalformed(w)
    <3> DEFINE n == [pc |-> IF NextItem(w).msg \in Telemetry THEN "collect" ELSE "post",
                     batch |-> <<NextItem(w)>>, deferred |-> <<>>]
    <3>1. worker' = [worker EXCEPT ![w] = n] /\ UNCHANGED <<gw, sock>>
      BY <1>3, <2>3 DEF WorkerGet
    <3>2. /\ n.pc \in {"collect", "post"} /\ n.deferred = <<>> /\ n.batch = <<NextItem(w)>>
      OBVIOUS
    <3>3. worker[w].batch = <<>> /\ worker[w].deferred = <<>>
      BY <2>1 DEF LeakInv, EmptyHands
    <3>4. Range(<<NextItem(w)>>) = {NextItem(w)}
      BY DEF Range
    <3> HIDE DEF n
    <3>5. Range(n.batch) \cup Range(n.deferred)
            = Range(worker[w].batch) \cup Range(worker[w].deferred) \cup {NextItem(w)}
      BY <1>e, <3>2, <3>3, <3>4
    <3> QED BY <1>2, <2>1, <3>1, <3>2, <3>5
  <2> QED BY <2>2, <2>3
<1>4. CASE Collect(w)
  <2>1. /\ inbox[w] # <<>> /\ inbox' = [inbox EXCEPT ![w] = Tail(@)]
        /\ UNCHANGED <<broker, loop, stop>> /\ worker[w].pc = "collect"
    BY <1>4 DEF Collect
  <2>2. NextItem(w) \in Item
    BY <1>t, <2>1, HeadAndTail DEF NextItem
  <2>3. worker[w].deferred = <<>>
    BY <2>1 DEF LeakInv, EmptyHands
  <2>4. CASE DropMalformed(w)
    BY <1>1, <2>1, <2>4
  <2>5. CASE /\ worker' = [worker EXCEPT ![w].batch = Append(@, NextItem(w))]
             /\ UNCHANGED <<gw, sock>>
    <3> DEFINE n == [worker[w] EXCEPT !.batch = Append(@, NextItem(w))]
    <3>1. worker' = [worker EXCEPT ![w] = n]
      BY <2>5
    <3>2. n.pc = "collect" /\ n.deferred = <<>> /\ n.batch = Append(worker[w].batch, NextItem(w))
      BY <1>t, <2>1, <2>3 DEF WorkerSet
    <3>3. Range(n.batch) = Range(worker[w].batch) \cup {NextItem(w)}
      <4>1. Range(Append(worker[w].batch, NextItem(w))) = Range(worker[w].batch) \cup {NextItem(w)}
        BY <1>t, <2>2, RangeMoves, Zenon
      <4> QED BY <3>2, <4>1, Zenon
    <3> HIDE DEF n
    <3>4. Range(n.batch) \cup Range(n.deferred)
            = Range(worker[w].batch) \cup Range(worker[w].deferred) \cup {NextItem(w)}
      BY <2>3, <3>2, <3>3
    <3> QED BY <1>2, <2>1, <2>5, <3>1, <3>2, <3>4
  <2>6. CASE /\ worker' = [worker EXCEPT ![w].pc = "post", ![w].deferred = <<NextItem(w)>>]
             /\ UNCHANGED <<gw, sock>>
    <3> DEFINE n == [worker[w] EXCEPT !.pc = "post", !.deferred = <<NextItem(w)>>]
    <3>1. worker' = [worker EXCEPT ![w] = n]
      BY <1>t, <2>6
    <3>2. n.pc = "post" /\ n.deferred = <<NextItem(w)>> /\ n.batch = worker[w].batch
      BY <1>t DEF WorkerSet
    <3>3. Range(<<NextItem(w)>>) = {NextItem(w)}
      BY DEF Range
    <3> HIDE DEF n
    <3>4. Range(n.batch) \cup Range(n.deferred)
            = Range(worker[w].batch) \cup Range(worker[w].deferred) \cup {NextItem(w)}
      BY <1>e, <2>3, <3>2, <3>3
    <3> QED BY <1>2, <2>1, <2>6, <3>1, <3>2, <3>4
  <2> QED BY <1>4, <2>4, <2>5, <2>6 DEF Collect
(* The worker only goes on to its next phase.                              *)
<1>5. ASSUME NEW pc \in {"post", "ack", "retry"}, worker' = [worker EXCEPT ![w].pc = pc],
             UNCHANGED <<broker, loop, stop, gw, sock, inbox>>
      PROVE  LeakInv'
  <2>1. /\ worker'[w].pc = pc /\ worker'[w].batch = worker[w].batch
        /\ worker'[w].deferred = worker[w].deferred
    BY <1>t, <1>5 DEF WorkerSet
  <2>2. Holding(w)' = Holding(w)
    BY <1>5, <2>1 DEF Holding
  <2>3. Open' => Open
    BY <1>5 DEF Open
  <2> QED BY <1>t, <1>f, <1>5, <2>1, <2>2, <2>3, WorkerLeak
<1>6. CASE CloseBatch(w) \/ PostSettled(w) \/ PostFailed(w)
  <2>1. \E pc \in {"post", "ack", "retry"} : worker' = [worker EXCEPT ![w].pc = pc]
    BY <1>6 DEF CloseBatch, PostSettled, PostFailed
  <2>2. UNCHANGED <<broker, loop, stop, gw, sock, inbox>>
    BY <1>6 DEF CloseBatch, PostSettled, PostFailed
  <2> QED BY <1>5, <2>1, <2>2
<1>7. CASE AckNext(w)
  <2> DEFINE item == Head(worker[w].batch)
             n == Advance(worker[w])
  <2>1. /\ worker[w].pc = "ack" /\ Ack(item) /\ worker' = [worker EXCEPT ![w] = n]
        /\ UNCHANGED <<broker, loop, stop, inbox>>
    BY <1>7 DEF AckNext
  <2>2. item \in Item
    BY <1>t, <2>1, HeadAndTail
  <2>3. /\ n.pc = "get" => n.batch = <<>>
        /\ n.pc \in {"get", "collect"} => n.deferred = <<>>
        /\ Range(worker[w].batch) \cup Range(worker[w].deferred)
             = Range(n.batch) \cup Range(n.deferred) \cup {item}
    BY <1>t, <2>1, AdvanceHands
  <2>4. loop = "accepted" => sock'.sent = {}
    <3>1. sock'.sent = sock.sent \/ sock' = NoSock
      BY <2>1 DEF Ack, Types, SockSet
    <3> QED BY <1>f, <3>1, SocketTypes
  <2> HIDE DEF item, n
  <2>5. worker'[w] = n
    BY <1>t, <2>1
  <2>6. \A it \in Holding(w) : it \in Holding(w)' \/ it = item
    BY <2>1, <2>3, <2>5 DEF Holding
  <2> QED BY <1>t, <2>1, <2>2, <2>3, <2>4, <2>5, <2>6, AckCovers, WorkerLeak
<1>8. CASE Requeue(w)
  <2>1. worker[w].pc = "retry" /\ UNCHANGED <<broker, loop, stop>>
    BY <1>8 DEF Requeue
  <2> DEFINE item == Head(worker[w].batch)
  <2>2. item \in Item
    BY <1>t, <2>1, HeadAndTail
  <2>3. ASSUME worker' = [worker EXCEPT ![w] = AfterBatch(@)], inbox' = inbox, ~Open',
               loop = "accepted" => sock'.sent = {}
        PROVE  LeakInv'
    <3>1. worker'[w] = AfterBatch(worker[w])
      BY <1>t, <2>3
    <3>2. worker'[w].deferred = <<>>
      BY <1>t, <3>1, AfterBatchFacts
    <3>3. worker'[w].pc = "get" => worker'[w].batch = <<>>
      <4>1. CASE worker[w].deferred = <<>>
        BY <3>1, <4>1, FreshFacts DEF AfterBatch
      <4>2. CASE worker[w].deferred # <<>>
        BY <3>1, <4>2 DEF AfterBatch
      <4> QED BY <4>1, <4>2
    <3> QED BY <1>t, <2>1, <2>3, <3>2, <3>3, WorkerLeak
  <2>4. CASE stop /\ UNCHANGED <<inbox, sock>> /\ worker' = [worker EXCEPT ![w] = AfterBatch(@)]
    BY <1>f, <2>1, <2>3, <2>4 DEF Open
  <2>5. CASE Disconnect /\ UNCHANGED inbox /\ worker' = [worker EXCEPT ![w] = AfterBatch(@)]
    <3>1. gw'.valid = FALSE /\ (sock'.sent = sock.sent \/ sock' = NoSock)
      BY <2>5, DisconnectFacts
    <3> QED BY <1>f, <2>3, <2>5, <3>1, SocketTypes DEF Open
  <2>6. CASE /\ inbox' = [inbox EXCEPT ![w] = Requeued(@, item)]
             /\ worker' = [worker EXCEPT ![w] = Advance(@)]
             /\ UNCHANGED <<gw, sock>>
    <3> DEFINE n == Advance(worker[w])
    <3>1. inbox'[w] = Append(inbox[w], item) /\ worker'[w] = n
      BY <1>t, <2>6 DEF Requeued
    <3>2. Range(Append(inbox[w], item)) = Range(inbox[w]) \cup {item}
      BY <1>t, <2>2, RangeMoves
    <3>3. /\ n.pc = "get" => n.batch = <<>>
          /\ n.pc \in {"get", "collect"} => n.deferred = <<>>
          /\ Range(worker[w].batch) \cup Range(worker[w].deferred)
               = Range(n.batch) \cup Range(n.deferred) \cup {item}
      BY <1>t, <2>1, AdvanceHands
    <3> HIDE DEF n, item
    <3>4. Holding(w) \subseteq Holding(w)'
      BY <3>1, <3>2, <3>3 DEF Holding
    <3>5. Open' => Open
      BY <2>1, <2>6 DEF Open
    <3>6. \A v \in Workers : v # w => inbox'[v] = inbox[v] /\ worker'[v] = worker[v]
      BY <1>t, <2>6
    <3> QED BY <1>f, <2>1, <2>6, <3>1, <3>3, <3>4, <3>5, <3>6, WorkerLeak
  <2> QED BY <1>8, <2>4, <2>5, <2>6 DEF Requeue
<1> QED BY <1>3, <1>4, <1>6, <1>7, <1>8 DEF WorkerStep

(* Steps of everybody else touch no worker, but for a restart.             *)
LEMMA LeakKept ==
    ASSUME Types, Connection, LeakInv, [Next]_vars
    PROVE  LeakInv'
<1>1. ASSUME UNCHANGED <<worker>>, ~Open', loop' = "accepted" => sock'.sent = {}
      PROVE  LeakInv'
  BY <1>1, ShutWindow DEF LeakInv, EmptyHands, FreshConnection
<1>2. ASSUME UNCHANGED <<inbox, worker, stop, loop>>,
             gw'.valid = gw.valid, gw'.gen = gw.gen, sock'.net = sock.net,
             sock'.sent \subseteq sock.sent,
             sock'.sent \ sock'.pubacks \subseteq sock.sent \ sock.pubacks,
             \A i \in sock'.sent \ sock'.pubacks : broker'.inflight[i] = broker.inflight[i]
      PROVE  LeakInv'
  <2>1. EmptyHands' /\ FreshConnection'
    BY <1>2 DEF LeakInv, EmptyHands, FreshConnection
  <2> QED BY <1>2, <2>1, QuietWindow DEF LeakInv
<1>f. loop = "accepted" => sock.sent = {}
  BY DEF LeakInv, FreshConnection
<1>3. ASSUME NEW m \in Msgs, Publish(m)
      PROVE  LeakInv'
  <2>1. UNCHANGED <<sock, gw, loop, inbox, worker, stop>>
    BY <1>3 DEF Publish, gatewayVars
  <2>2. broker'.inflight = broker.inflight
    BY <1>3 DEF Publish, Types, BrokerSet
  <2> QED BY <1>2, <2>1, <2>2
<1>4. ASSUME NEW i \in Mids, BrokerAck(i)
      PROVE  LeakInv'
  <2>1. /\ UNCHANGED <<gw, loop, inbox, worker, stop>> /\ i \in sock.pubacks
        /\ sock' = [sock EXCEPT !.pubacks = @ \ {i}, !.sent = @ \ {i}]
        /\ broker' = [broker EXCEPT !.inflight[i] = NoMsg]
    BY <1>4 DEF BrokerAck, gatewayVars
  <2>2. /\ sock'.sent = sock.sent \ {i} /\ sock'.pubacks = sock.pubacks \ {i}
        /\ sock'.net = sock.net
    BY <2>1 DEF Types, SockSet
  <2>3. \A j \in sock'.sent : broker'.inflight[j] = broker.inflight[j]
    BY <2>1, <2>2 DEF Types, BrokerSet
  <2> QED BY <1>2, <2>1, <2>2, <2>3
<1>5. CASE Drop
  <2>1. UNCHANGED <<worker, loop>> /\ sock'.net = "dead" /\ sock'.sent = sock.sent
    BY <1>5 DEF Drop, gatewayVars, Types, SockSet
  <2> QED BY <1>1, <1>f, <2>1 DEF Open
<1>6. CASE SessionLost
  BY <1>1, <1>f, <1>6 DEF SessionLost, gatewayVars, Open
<1>7. CASE LoopCrash
  <2>1. UNCHANGED <<sock, gw, broker, inbox, worker, stop>> /\ loop' = "dead"
    BY <1>7 DEF LoopCrash
  <2>2. WindowNeverLeaks'
    BY <2>1, QuietWindow DEF LeakInv
  <2> QED BY <2>1, <2>2 DEF LeakInv, EmptyHands, FreshConnection
<1>8. CASE Restart
  <2>1. /\ worker' = [w \in Workers |-> Fresh] /\ loop' = "idle" /\ gw'.valid = FALSE
    BY <1>8 DEF Restart, FreshGateway
  <2>2. EmptyHands' /\ FreshConnection' /\ ~Open'
    BY <2>1, FreshFacts DEF EmptyHands, FreshConnection, Open
  <2> QED BY <2>2, ShutWindow DEF LeakInv
<1>9. CASE SubscriptionExpires
  BY <1>2, <1>9 DEF SubscriptionExpires
<1>10. CASE OnDisconnect \/ LoopExit \/ LoopReconnect
  <2>1. /\ gw' = Invalidated(gw) /\ sock'.sent = {} /\ UNCHANGED worker
    BY <1>10, SocketTypes DEF OnDisconnect, LoopExit, LoopReconnect
  <2> QED BY <1>1, <2>1, InvalidatedFacts DEF Types, Open
<1>11. CASE OnConnect
  <2>1. UNCHANGED worker /\ sock.net = "connecting" /\ gw'.valid = FALSE
    BY <1>11, InvalidatedFacts DEF OnConnect, Disconnect, Types
  <2>2. loop' = "accepted" => sock'.sent = sock.sent
    BY <1>11 DEF OnConnect, Types, SockSet
  <2>3. CASE loop' = "accepted" /\ sock.sent # {}
    BY <2>1, <2>3 DEF Connection
  <2> QED BY <1>1, <2>1, <2>2, <2>3 DEF Open
<1>12. CASE NewGeneration
  <2>1. /\ sock.sent = {} /\ loop' = "subscribing" /\ UNCHANGED <<sock, worker>>
    BY <1>12, <1>f DEF NewGeneration
  <2> QED BY <2>1 DEF LeakInv, EmptyHands, FreshConnection, WindowNeverLeaks
<1>13. ASSUME Disconnect, UNCHANGED <<worker, loop>>
       PROVE  LeakInv'
  <2>1. gw'.valid = FALSE /\ (sock'.sent = sock.sent \/ sock'.sent = {})
    BY <1>13, DisconnectFacts, SocketTypes
  <2> QED BY <1>1, <1>13, <1>f, <2>1 DEF Open
<1>14. ASSUME NEW t \in Topics, Subscribe(t)
       PROVE  LeakInv'
  <2>1. UNCHANGED <<broker, inbox, worker, stop>> /\ loop' \in {"idle", "subscribing"}
    BY <1>14 DEF Subscribe
  <2>2. CASE Disconnect
    BY <1>1, <2>1, <2>2, DisconnectFacts DEF Open
  <2>3. CASE ~Disconnect
    <3>1. /\ sock' = [sock EXCEPT !.asked = @ \cup {t}]
          /\ gw' = [gw EXCEPT !.pending = @ \cup {t}]
      BY <1>14, <2>3 DEF Subscribe
    <3>2. /\ sock'.net = sock.net /\ sock'.sent = sock.sent /\ sock'.pubacks = sock.pubacks
          /\ gw'.gen = gw.gen /\ gw'.valid = gw.valid
      BY <3>1 DEF Types, SockSet, GwSet
    <3>3. WindowNeverLeaks'
      BY <2>1, <3>2, QuietWindow DEF LeakInv
    <3> QED BY <2>1, <3>3 DEF LeakInv, EmptyHands, FreshConnection
  <2> QED BY <2>2, <2>3
<1>15. ASSUME NEW t \in Topics, OnSubscribe(t)
       PROVE  LeakInv'
  <2>1. UNCHANGED <<loop, inbox, worker, stop>>
    BY <1>15 DEF OnSubscribe
  <2>2. CASE Disconnect
    BY <1>13, <2>1, <2>2
  <2>3. CASE ~Disconnect
    <3>1. /\ sock' = [sock EXCEPT !.granted = @ \cup {t}]
          /\ broker' = [broker EXCEPT !.topics = @ \cup {t}]
          /\ gw' = Granted(gw, t)
      BY <1>15, <2>3 DEF OnSubscribe
    <3>2. /\ sock'.net = sock.net /\ sock'.sent = sock.sent /\ sock'.pubacks = sock.pubacks
          /\ broker'.inflight = broker.inflight
      BY <3>1 DEF Types, SockSet, BrokerSet
    <3>3. gw'.gen = gw.gen /\ gw'.valid = gw.valid
      BY <3>1 DEF Types, Granted, GwSet
    <3> QED BY <1>2, <2>1, <3>2, <3>3
  <2> QED BY <2>2, <2>3
<1>16. ASSUME NEW m \in Msgs, NEW i \in Mids, OnMessage(m, i)
       PROVE  LeakInv'
  <2>1. /\ loop = "idle" /\ UNCHANGED <<loop, worker, stop>>
        /\ sock.net = "up" /\ i \notin sock.sent
    BY <1>16 DEF OnMessage
  <2>2. CASE gw' = Invalidated(gw)
    BY <1>1, <2>1, <2>2, InvalidatedFacts DEF Types, Open
  <2>3. CASE gw' # Invalidated(gw)
    <3> DEFINE w == Shard[m]
    <3>0. PICK item : item = [msg |-> m, mid |-> i, gen |-> gw.gen]
      OBVIOUS
    <3>1. /\ inbox' = [inbox EXCEPT ![w] = Append(@, item)]
          /\ sock' = [sock EXCEPT !.sent = @ \cup {i}] /\ gw' = gw
      BY <1>16, <2>3, <3>0 DEF OnMessage
    <3>2. /\ broker'.inflight[i] = m
          /\ \A j \in Mids : j # i => broker'.inflight[j] = broker.inflight[j]
      BY <1>16 DEF OnMessage, Types, BrokerSet
    <3>3. w \in Workers /\ inbox[w] \in Seq(Item) /\ item \in Item
          /\ inbox \in [Workers -> Seq(Item)]
      <4>1. w \in Workers
        BY GatewayConstants
      <4>2. inbox \in [Workers -> Seq(Item)] /\ inbox[w] \in Seq(Item)
        BY <4>1 DEF Types
      <4>3. gw.gen \in Nat
        BY DEF Types, GwSet
      <4>4. item \in Item
        BY <3>0, <4>3 DEF Item
      <4> QED BY <4>1, <4>2, <4>4
    <3>4. item.mid = i /\ item.gen = gw.gen /\ item.msg = m
      BY <3>0
    <3> HIDE DEF w
    <3>5. inbox'[w] = Append(inbox[w], item)
          /\ \A v \in Workers : v # w => inbox'[v] = inbox[v]
      BY <3>1, <3>3
    <3>6. Range(Append(inbox[w], item)) = Range(inbox[w]) \cup {item}
      BY <3>3, RangeMoves
    <3>7. /\ item \in Holding(w)'
          /\ \A v \in Workers : Holding(v) \subseteq Holding(v)'
      BY <2>1, <3>5, <3>6 DEF Holding
    <3>8. /\ sock'.sent = sock.sent \cup {i} /\ sock'.pubacks = sock.pubacks
          /\ sock'.net = sock.net /\ sock.sent \subseteq Mids
      BY <3>1 DEF Types, SockSet
    <3>9. Covers(item, i)'
      BY <3>1, <3>2, <3>4 DEF Covers
    <3>10. \A j \in sock'.sent \ sock'.pubacks :
             \/ j \in sock.sent \ sock.pubacks /\ broker'.inflight[j] = broker.inflight[j]
             \/ \E v \in Workers : \E it \in Holding(v)' : Covers(it, j)'
      <4> SUFFICES ASSUME NEW j \in sock'.sent \ sock'.pubacks
                   PROVE  \/ /\ j \in sock.sent \ sock.pubacks
                             /\ broker'.inflight[j] = broker.inflight[j]
                          \/ \E v \in Workers : \E it \in Holding(v)' : Covers(it, j)'
        OBVIOUS
      <4>1. CASE j = i
        BY <3>3, <3>7, <3>9, <4>1
      <4>2. CASE j # i
        BY <3>2, <3>8, <4>2
      <4> QED BY <4>1, <4>2
    <3>11. Open' => Open
      BY <2>1, <3>1, <3>8 DEF Open
    <3>12. WindowNeverLeaks'
      BY <3>1, <3>7, <3>10, <3>11, StillCovered DEF LeakInv
    <3> QED BY <2>1, <3>12 DEF LeakInv, EmptyHands, FreshConnection
  <2> QED BY <2>2, <2>3
<1>17. CASE SubscriptionTimeout \/ ShutdownDisconnect
  BY <1>13, <1>17 DEF SubscriptionTimeout, ShutdownDisconnect
<1>18. CASE RecoverFence \/ ShutdownStop
  <2>1. gw' = Invalidated(gw) /\ UNCHANGED <<sock, loop, worker>>
    BY <1>18 DEF RecoverFence, ShutdownStop
  <2> QED BY <1>1, <1>f, <2>1, InvalidatedFacts DEF Types, Open
<1>19. CASE RecoverReconnect
  <2>1. gw' = Invalidated(gw) /\ sock'.sent = {} /\ UNCHANGED worker
    BY <1>19, SocketTypes DEF RecoverReconnect
  <2> QED BY <1>1, <2>1, InvalidatedFacts DEF Types, Open
<1>20. CASE RecoverCheck
  <2>1. CASE Disconnect
    BY <1>13, <1>20, <2>1 DEF RecoverCheck
  <2>2. CASE UNCHANGED <<gw, sock>>
    BY <1>2, <1>20, <2>2 DEF RecoverCheck
  <2> QED BY <1>20, <2>1, <2>2 DEF RecoverCheck
<1>21. CASE RecoverStart
  <2>1. UNCHANGED <<broker, sock, gw, inbox, worker, stop>> /\ loop' = "idle"
    BY <1>21 DEF RecoverStart, LoopStarted
  <2>2. WindowNeverLeaks'
    BY <2>1, QuietWindow DEF LeakInv
  <2> QED BY <2>1, <2>2 DEF LeakInv, EmptyHands, FreshConnection
<1>22. CASE ShutdownDone
  <2>1. gw'.valid = FALSE /\ UNCHANGED <<sock, loop, worker>>
    BY <1>22 DEF ShutdownDone, Types, GwSet
  <2> QED BY <1>1, <1>f, <2>1 DEF Open
<1>23. CASE UNCHANGED vars
  BY <1>2, <1>23 DEF vars
<1>24. ASSUME NEW w \in Workers, WorkerStep(w)
       PROVE  LeakInv'
  BY <1>24, WorkersLeak
<1> QED
  BY <1>3, <1>4, <1>5, <1>6, <1>7, <1>8, <1>9, <1>10, <1>11, <1>12, <1>14, <1>15,
     <1>16, <1>17, <1>18, <1>19, <1>20, <1>21, <1>22, <1>23, <1>24
  DEF Next, LoopStep, SupervisorStep

(* A message handed over on a connection that may still acknowledge is     *)
(* with a worker or has its PUBACK on the way, for any number of messages, *)
(* packet ids, workers, batch sizes and queue lengths.                     *)
THEOREM WindowIsKept == Spec => []WindowNeverLeaks
<1>1. Init => LeakInv
  <2> SUFFICES ASSUME Init PROVE LeakInv
    OBVIOUS
  <2>1. EmptyHands
    BY FreshFacts DEF Init, EmptyHands
  <2> QED BY <2>1 DEF Init, LeakInv, FreshConnection, WindowNeverLeaks, FreshGateway
<1>2. AckInv /\ LeakInv /\ [Next]_vars => LeakInv'
  BY LeakKept DEF AckInv
<1>3. LeakInv => WindowNeverLeaks
  BY DEF LeakInv
<1> QED BY <1>1, <1>2, <1>3, AckInvariant, PTL DEF Spec
=============================================================================
