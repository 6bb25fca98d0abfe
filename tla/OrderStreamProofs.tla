-------------------------- MODULE OrderStreamProofs --------------------------
(***************************************************************************)
(* Proofs about OrderStream, for any number of durable changes, progress   *)
(* revisions and failures.                                                 *)
(*                                                                         *)
(* A stale page has a wakeup on its way because every step that takes one  *)
(* piece of the evidence away leaves the next: a lost notification leaves  *)
(* a listener that is away, a listener that has come back leaves an offer, *)
(* an offer leaves a flag, and a flag is taken only to read the order.     *)
(* And a read that answers never takes progress back: what the page showed *)
(* once is in the snapshot it holds, in the order or in Redis, and the     *)
(* read takes the larger of the first and the last.                        *)
(***************************************************************************)
EXTENDS OrderStream, TLAPS

Rows == [stage: Stages, version: Int, revision: Nat, ahead: Int]

(* The shape of what the argument reads.                                   *)
StreamType ==
    /\ row \in Rows
    /\ snapshot \in Rows
    /\ progress \in Int
    /\ listener \in [Channels -> {"away", "listening", "synced"}]
    /\ notice \in [Channels -> BOOLEAN]
    /\ queue # None => queue \subseteq Channels

(* A stream that reads or waits is subscribed.                             *)
ReaderSubscribed == stream \in {"sql", "redis", "wait"} => queue # None

StreamInv == StreamType /\ ReaderSubscribed /\ StaleIsNoticed

-----------------------------------------------------------------------------
(* Laying progress over a snapshot keeps its shape and its version.        *)
LEMMA OverlaidKeepsVersion ==
    ASSUME NEW held \in Rows, NEW revision \in Int
    PROVE  /\ Overlaid(held, revision) \in Rows
           /\ Overlaid(held, revision).version = held.version
  BY DEF Overlaid, Rows

(* Nobody reads before the page is opened.                                 *)
LEMMA StreamInit == Init => StreamInv
<1> SUFFICES ASSUME Init PROVE StreamInv
  OBVIOUS
<1>1. row \in Rows /\ snapshot = row
  BY StreamAssumption DEF Init, Rows, Stages
<1>2. progress \in Int
  BY DEF Init, Missing
<1> QED
  BY <1>1, <1>2 DEF Init, StreamInv, StreamType, ReaderSubscribed, StaleIsNoticed, Unread, Channels

(* The steps of the order, of Redis and of the listeners keep the shapes.  *)
LEMMA TypeStep == StreamType /\ [Next]_vars => StreamType'
<1> SUFFICES ASSUME StreamType, [Next]_vars PROVE StreamType'
  OBVIOUS
<1> USE DEF durable, live, broker, page
<1>1. ASSUME NEW stage \in Stages, NEW revision \in Recorded, Commit(stage, revision)
      PROVE  StreamType'
  <2>1. row' \in Rows
    BY <1>1, StreamAssumption DEF Commit, StreamType, Rows
  <2> QED
    BY <1>1, <2>1 DEF Commit, StreamType
<1>2. CASE QueueMoves
  <2>1. row' \in Rows
    BY <1>2 DEF QueueMoves, StreamType, Rows
  <2> QED
    BY <1>2, <2>1 DEF QueueMoves, StreamType
<1>3. ASSUME NEW revision \in 1 .. MaxRevision, Report(revision) PROVE StreamType'
  <2>1. revision \in Int
    BY StreamAssumption
  <2>2. notice' \in [Channels -> BOOLEAN]
    BY <1>3 DEF Report, StreamType
  <2> QED
    BY <1>3, <2>1, <2>2 DEF Report, StreamType
<1>4. CASE RedisFails
  <2>1. progress' \in Int
    BY <1>4 DEF RedisFails, StreamType, Missing
  <2>2. /\ notice' \in [Channels -> BOOLEAN]
        /\ listener' \in [Channels -> {"away", "listening", "synced"}]
    BY <1>4 DEF RedisFails, StreamType
  <2> QED
    BY <1>4, <2>1, <2>2 DEF RedisFails, StreamType
<1>5. CASE KeyExpires \/ RedisReturns
  BY <1>5 DEF KeyExpires, RedisReturns, StreamType, Missing
<1>6. ASSUME NEW c \in Channels, Listen(c) \/ Resync(c) \/ ListenerFails(c) \/ Notified(c)
      PROVE  StreamType'
  BY <1>6 DEF Listen, Resync, ListenerFails, Notified, StreamType
<1>7. ASSUME NEW c \in Channels, Offer(c) PROVE StreamType'
  BY <1>7 DEF Offer, Merged, StreamType
<1>8. CASE Open
  BY <1>8 DEF Open, Goes, StreamType
<1>9. CASE ReadOrder
  BY <1>9 DEF ReadOrder, Goes, StreamType
<1>10. CASE Yield \/ YieldUnread
  <2>1. PICK revision \in Int : Shows(revision)
    BY <1>10 DEF Yield, YieldUnread, StreamType, Missing
  <2>2. snapshot' \in Rows
    BY <2>1, OverlaidKeepsVersion DEF Shows, StreamType
  <2> QED
    BY <2>1, <2>2 DEF Shows, Goes, StreamType
<1>11. CASE Timeout \/ Wake
  BY <1>11 DEF Timeout, Wake, Goes, StreamType
<1>12. CASE Disconnect
  BY <1>12 DEF Disconnect, StreamType
<1>13. CASE UNCHANGED vars
  BY <1>13 DEF vars, StreamType
<1> QED
  BY <1>1, <1>2, <1>3, <1>4, <1>5, <1>6, <1>7, <1>8, <1>9, <1>10, <1>11, <1>12, <1>13
     DEF Next, StreamSteps

(* Only a stream that ends or breaks gives its queue up.                   *)
LEMMA SubscribedStep ==
    StreamType /\ ReaderSubscribed /\ [Next]_vars => ReaderSubscribed'
<1> SUFFICES ASSUME StreamType, ReaderSubscribed, [Next]_vars PROVE ReaderSubscribed'
  OBVIOUS
<1> USE DEF durable, live, broker, page
<1>1. CASE UNCHANGED <<queue, stream>>
  BY <1>1 DEF ReaderSubscribed
<1>2. ASSUME NEW c \in Channels, Offer(c) PROVE ReaderSubscribed'
  <2>1. queue # None => Merged(queue, c) \in SUBSET Channels
    BY DEF StreamType, Merged
  <2>2. queue # None => queue' # None
    BY <1>2, <2>1, NoneIsNoQueue DEF Offer
  <2> QED
    BY <1>2, <2>2 DEF Offer, ReaderSubscribed
<1>3. {} # None
  BY NoneIsNoQueue
<1>4. CASE Open \/ Wake
  BY <1>3, <1>4 DEF Open, Wake, Goes, ReaderSubscribed
<1>5. CASE ReadOrder \/ Timeout
  BY <1>5 DEF ReadOrder, Timeout, Goes, ReaderSubscribed
<1>6. CASE Yield \/ YieldUnread
  BY <1>6 DEF Yield, YieldUnread, Shows, Goes, ReaderSubscribed
<1>7. CASE Disconnect
  BY <1>7 DEF Disconnect, ReaderSubscribed
<1>8. CASE UNCHANGED vars
  BY <1>1, <1>8 DEF vars
<1>9. CASE \/ \E stage \in Stages, revision \in Recorded : Commit(stage, revision)
           \/ QueueMoves
           \/ \E revision \in 1 .. MaxRevision : Report(revision)
           \/ RedisFails \/ KeyExpires \/ RedisReturns
           \/ \E c \in Channels : Listen(c) \/ Resync(c) \/ ListenerFails(c) \/ Notified(c)
  BY <1>1, <1>9 DEF Commit, QueueMoves, Report, RedisFails, KeyExpires, RedisReturns, Listen, Resync,
     ListenerFails, Notified
<1> QED
  BY <1>2, <1>4, <1>5, <1>6, <1>7, <1>8, <1>9 DEF Next, StreamSteps

(* No step takes the last wakeup of a stale page away.                     *)
LEMMA NoticedStep == StreamInv /\ [Next]_vars => StaleIsNoticed'
<1> SUFFICES ASSUME StreamInv, [Next]_vars,
                    Unread', snapshot'.version # row'.version
             PROVE  \/ notice'["ORDER"] \/ listener'["ORDER"] # "synced"
                    \/ "ORDER" \in offers' \cup queue'
  BY DEF StaleIsNoticed
<1> USE DEF durable, live, broker, page
<1> DEFINE Noticed == \/ notice["ORDER"] \/ listener["ORDER"] # "synced"
                      \/ "ORDER" \in offers \cup queue
<1>1. "ORDER" \in Channels /\ StreamType
  BY DEF Channels, StreamInv
<1>2. Unread /\ snapshot.version # row.version => Noticed
  BY DEF StreamInv, StaleIsNoticed
<1>3. Unread => queue # None
  BY DEF StreamInv, ReaderSubscribed, Unread
<1>4. ASSUME NEW stage \in Stages, NEW revision \in Recorded, Commit(stage, revision)
      PROVE  notice'["ORDER"] \/ listener'["ORDER"] # "synced"
  BY <1>1, <1>4 DEF Commit, StreamType
<1>5. CASE QueueMoves
  <2>1. row'.version = row.version
    BY <1>1, <1>5 DEF QueueMoves, StreamType, Rows
  <2> QED
    BY <1>2, <1>5, <2>1 DEF QueueMoves, Unread
<1>6. ASSUME NEW revision \in 1 .. MaxRevision, Report(revision)
      PROVE  Noticed /\ UNCHANGED <<notice["ORDER"], listener, offers, queue>>
  BY <1>1, <1>2, <1>6 DEF Report, StreamType, Unread
<1>7. CASE RedisFails
  <2>1. UNCHANGED <<notice["ORDER"], listener["ORDER"], offers, queue, row, snapshot, stream>>
    BY <1>1, <1>7 DEF RedisFails, StreamType
  <2> QED
    BY <1>2, <2>1 DEF Unread
<1>8. CASE KeyExpires \/ RedisReturns
  BY <1>2, <1>8 DEF KeyExpires, RedisReturns, Unread
<1>9. ASSUME NEW c \in Channels, Listen(c)
      PROVE  \/ notice'["ORDER"] \/ listener'["ORDER"] # "synced"
             \/ "ORDER" \in offers' \cup queue'
  <2>1. Noticed /\ UNCHANGED <<notice, offers, queue>>
    BY <1>2, <1>9 DEF Listen, Unread
  <2>2. listener["ORDER"] # "synced" => listener'["ORDER"] # "synced"
    BY <1>1, <1>9 DEF Listen, StreamType
  <2> QED
    BY <2>1, <2>2
<1>10. ASSUME NEW c \in Channels, Resync(c)
       PROVE  \/ notice'["ORDER"] \/ listener'["ORDER"] # "synced"
              \/ "ORDER" \in offers' \cup queue'
  <2>1. Noticed /\ queue # None /\ UNCHANGED <<notice, queue>>
    BY <1>2, <1>3, <1>10 DEF Resync, Unread
  <2>2. c \in offers' /\ offers \subseteq offers'
    BY <1>10, <2>1 DEF Resync, WokenBy
  <2>3. c # "ORDER" => listener'["ORDER"] = listener["ORDER"]
    BY <1>1, <1>10 DEF Resync, StreamType
  <2> QED
    BY <2>1, <2>2, <2>3
<1>11. ASSUME NEW c \in Channels, ListenerFails(c)
       PROVE  \/ notice'["ORDER"] \/ listener'["ORDER"] # "synced"
              \/ "ORDER" \in offers' \cup queue'
  <2>1. Noticed /\ UNCHANGED <<offers, queue>>
    BY <1>2, <1>11 DEF ListenerFails, Unread
  <2>2. listener["ORDER"] # "synced" => listener'["ORDER"] # "synced"
    BY <1>1, <1>11 DEF ListenerFails, StreamType
  <2>3. c = "ORDER" => listener'["ORDER"] # "synced"
    BY <1>1, <1>11 DEF ListenerFails, StreamType
  <2>4. c # "ORDER" => notice'["ORDER"] = notice["ORDER"]
    BY <1>1, <1>11 DEF ListenerFails, StreamType
  <2> QED
    BY <2>1, <2>2, <2>3, <2>4
<1>12. ASSUME NEW c \in Channels, Notified(c)
       PROVE  \/ notice'["ORDER"] \/ listener'["ORDER"] # "synced"
              \/ "ORDER" \in offers' \cup queue'
  <2>1. Noticed /\ queue # None /\ UNCHANGED <<listener, queue>>
    BY <1>2, <1>3, <1>12 DEF Notified, Unread
  <2>2. c = "ORDER" => "ORDER" \in offers'
    BY <1>12, <2>1 DEF Notified, Subscribed
  <2>3. offers \subseteq offers' /\ (c # "ORDER" => notice'["ORDER"] = notice["ORDER"])
    BY <1>1, <1>12 DEF Notified, StreamType
  <2> QED
    BY <2>1, <2>2, <2>3
<1>13. ASSUME NEW c \in Channels, Offer(c)
       PROVE  \/ notice'["ORDER"] \/ listener'["ORDER"] # "synced"
              \/ "ORDER" \in offers' \cup queue'
  <2>1. Noticed /\ queue # None /\ UNCHANGED <<notice, listener>>
    BY <1>2, <1>3, <1>13 DEF Offer, Unread
  <2>2. offers \cup queue \subseteq offers' \cup queue'
    BY <1>13, <2>1 DEF Offer, Merged
  <2> QED
    BY <2>1, <2>2
<1>14. CASE Open \/ Timeout \/ Disconnect
  BY <1>14 DEF Open, Timeout, Disconnect, Goes, Unread
<1>15. CASE ReadOrder
  BY <1>15 DEF ReadOrder, Goes
<1>16. CASE Yield \/ YieldUnread
  <2>0. PICK revision \in Int : Shows(revision)
    BY <1>1, <1>16 DEF Yield, YieldUnread, StreamType, Missing
  <2>1. snapshot'.version = snapshot.version
    BY <1>1, <2>0, OverlaidKeepsVersion DEF Shows, StreamType
  <2>2. snapshot.stage # "DONE"
    BY <2>0 DEF Shows, Goes, Unread
  <2>3. UNCHANGED <<row, notice, listener, offers, queue>>
    BY <2>0, <2>2 DEF Shows, Goes
  <2>4. Unread
    BY <1>16 DEF Yield, YieldUnread, Unread
  <2> QED
    BY <1>2, <2>1, <2>3, <2>4
<1>17. CASE Wake
  <2>1. "ORDER" \notin queue
    BY <1>17 DEF Wake, Goes, Unread
  <2>2. Unread /\ UNCHANGED <<row, snapshot, notice, listener, offers>>
    BY <1>17 DEF Wake, Goes, Unread
  <2> QED
    BY <1>2, <2>1, <2>2
<1>18. CASE UNCHANGED vars
  BY <1>2, <1>18 DEF vars, Unread
<1> QED
  BY <1>4, <1>5, <1>6, <1>7, <1>8, <1>9, <1>10, <1>11, <1>12, <1>13, <1>14, <1>15,
     <1>16, <1>17, <1>18 DEF Next, StreamSteps

(* A page that shows an old order has a wakeup on its way or a listener    *)
(* that will wake it, whatever _offer merges, whatever the connections     *)
(* lose and however often the order changes.                               *)
THEOREM StaleAlwaysNoticed == FairSpec => []StaleIsNoticed
<1>1. Init => StreamInv
  BY StreamInit
<1>2. StreamInv /\ [Next]_vars => StreamInv'
  BY TypeStep, SubscribedStep, NoticedStep DEF StreamInv
<1>3. StreamInv => StaleIsNoticed
  BY DEF StreamInv
<1> QED
  BY <1>1, <1>2, <1>3, PTL DEF FairSpec

-----------------------------------------------------------------------------
(* Progress on the page                                                    *)
(*                                                                         *)
(* A read that failed leaves the page with the durable row's progress, so  *)
(* what is shown may go back.  What was shown once is not lost by it: it   *)
(* came from the order or from Redis, and neither goes back while Redis    *)
(* keeps its keys.  So either the snapshot the stream holds has it, or     *)
(* Redis still does.                                                       *)

Reached(revision) == revision <= row.revision \/ revision <= progress

PeakKept ==
    intact => /\ Reached(snapshot.revision)
              /\ peak <= snapshot.revision \/ peak <= progress

ProgressInv == StreamType /\ peak \in Int /\ PeakKept

(* What is laid over keeps the stage and is the larger of the two.         *)
LEMMA OverlaidRevision ==
    ASSUME NEW held \in Rows, NEW revision \in Int
    PROVE  /\ Overlaid(held, revision).revision \in {held.revision, revision}
           /\ Overlaid(held, revision).revision >= held.revision
           /\ held.stage = "MAKING" => Overlaid(held, revision).revision >= revision
  BY DEF Overlaid, Rows

(* A failed read lays nothing over.                                        *)
LEMMA MissingKeeps ==
    ASSUME NEW held \in Rows
    PROVE  Overlaid(held, Missing) = held
  BY DEF Overlaid, Rows, Missing

(* The order and Redis move forward under a page that stays as it is.      *)
LEMMA ForwardKeeps ==
    ASSUME ProgressInv, StreamType', UNCHANGED <<snapshot, peak>>,
           intact' => intact /\ row'.revision >= row.revision /\ progress' >= progress
    PROVE  ProgressInv'
<1>1. /\ row.revision \in Int /\ row'.revision \in Int /\ snapshot.revision \in Int
      /\ progress \in Int /\ progress' \in Int /\ peak \in Int
  BY DEF ProgressInv, StreamType, Rows
<1>2. PeakKept'
  BY <1>1 DEF ProgressInv, PeakKept, Reached
<1> QED
  BY <1>2 DEF ProgressInv

(* A snapshot goes to the page, with progress from Redis or without.       *)
LEMMA ShowsKeeps ==
    ASSUME ProgressInv, StreamType', NEW revision \in {progress, Missing}, Shows(revision),
           UNCHANGED <<row, progress, intact>>
    PROVE  ProgressInv'
<1>1. /\ row.revision \in Int /\ snapshot \in Rows /\ snapshot.revision \in Int
      /\ snapshot'.revision \in Int /\ progress \in Int /\ peak \in Int
  BY DEF ProgressInv, StreamType, Rows
<1>2. /\ snapshot'.revision \in {snapshot.revision, progress}
      /\ snapshot'.revision >= snapshot.revision
  BY <1>1, OverlaidRevision, MissingKeeps DEF Shows
<1>3. peak' = IF snapshot'.revision > peak THEN snapshot'.revision ELSE peak
  BY DEF Shows
<1>4. PeakKept'
  BY <1>1, <1>2, <1>3 DEF ProgressInv, PeakKept, Reached
<1> QED
  BY <1>1, <1>3, <1>4 DEF ProgressInv

LEMMA ProgressStep == ProgressInv /\ [Next]_vars => ProgressInv'
<1> SUFFICES ASSUME ProgressInv, [Next]_vars PROVE ProgressInv'
  OBVIOUS
<1>t. StreamType /\ StreamType'
  BY TypeStep DEF ProgressInv
<1>r. row.revision \in Int /\ progress \in Int
  BY <1>t DEF StreamType, Rows
<1>1. CASE UNCHANGED <<row, progress, intact, snapshot, peak>>
  BY <1>1, <1>t, <1>r, ForwardKeeps
<1>2. ASSUME NEW stage \in Stages, NEW revision \in Recorded, Commit(stage, revision)
      PROVE  ProgressInv'
  <2>1. row'.revision >= row.revision /\ UNCHANGED <<live, page>>
    BY <1>2 DEF Commit
  <2> QED
    BY <1>t, <1>r, <2>1, ForwardKeeps DEF live, page
<1>3. CASE QueueMoves
  <2>1. row'.revision = row.revision /\ UNCHANGED <<live, page>>
    BY <1>3, <1>t DEF QueueMoves, StreamType, Rows
  <2> QED
    BY <1>t, <1>r, <2>1, ForwardKeeps DEF live, page
<1>4. ASSUME NEW revision \in 1 .. MaxRevision, Report(revision)
      PROVE  ProgressInv'
  <2>1. progress' >= progress /\ UNCHANGED <<durable, intact, page>>
    BY <1>4, <1>r, StreamAssumption DEF Report, Newer
  <2> QED
    BY <1>t, <1>r, <2>1, ForwardKeeps DEF durable, page
<1>5. CASE RedisFails
  <2>1. /\ intact' => intact /\ progress' = progress
        /\ UNCHANGED <<row, snapshot, peak>>
    BY <1>5 DEF RedisFails, durable, page
  <2> QED
    BY <1>t, <1>r, <2>1, ForwardKeeps
<1>6. CASE KeyExpires
  <2>1. ~intact' /\ UNCHANGED <<snapshot, peak>>
    BY <1>6 DEF KeyExpires, page
  <2> QED
    BY <1>t, <2>1, ForwardKeeps
<1>7. ASSUME NEW c \in Channels,
             Listen(c) \/ Resync(c) \/ ListenerFails(c) \/ Notified(c) \/ Offer(c)
      PROVE  ProgressInv'
  BY <1>1, <1>7 DEF Listen, Resync, ListenerFails, Notified, Offer, durable, live, page
<1>8. CASE RedisReturns \/ Open \/ Timeout \/ Wake \/ Disconnect
  BY <1>1, <1>8 DEF RedisReturns, Open, Timeout, Wake, Disconnect, Goes, durable, live, page
<1>9. CASE ReadOrder
  <2>1. snapshot' = row /\ UNCHANGED <<row, progress, intact, peak>>
    BY <1>9 DEF ReadOrder, Goes, durable, live
  <2>2. snapshot.revision \in Int /\ peak \in Int
    BY <1>t DEF ProgressInv, StreamType, Rows
  <2>3. PeakKept'
    BY <1>r, <2>1, <2>2 DEF ProgressInv, PeakKept, Reached
  <2> QED
    BY <1>t, <2>1, <2>2, <2>3 DEF ProgressInv
<1>10. CASE Yield \/ YieldUnread
  <2>1. PICK revision \in {progress, Missing} : Shows(revision)
    BY <1>10 DEF Yield, YieldUnread
  <2>2. UNCHANGED <<row, progress, intact>>
    BY <2>1 DEF Shows, Goes, durable, live
  <2> QED
    BY <1>t, <2>1, <2>2, ShowsKeeps
<1>11. CASE UNCHANGED vars
  BY <1>1, <1>11 DEF vars
<1> QED
  BY <1>2, <1>3, <1>4, <1>5, <1>6, <1>7, <1>8, <1>9, <1>10, <1>11 DEF Next, StreamSteps

(* After any outages and failed reads that left Redis its keys, the first  *)
(* read that answers shows a drink at least as far as the page ever did:   *)
(* late reports of older revisions and refreshes that begin with the       *)
(* durable row take nothing back for good.                                 *)
THEOREM AnswersKeepProgress == FairSpec => AnswerKeepsProgress
<1>1. Init => ProgressInv
  <2>1. Init => StreamType
    BY StreamInit DEF StreamInv
  <2>2. ASSUME Init PROVE PeakKept /\ peak \in Int
    BY <2>2 DEF Init, PeakKept, Reached, Missing
  <2> QED
    BY <2>1, <2>2 DEF ProgressInv
<1>2. ProgressInv /\ [Next]_vars => ProgressInv'
  BY ProgressStep
<1>3. ProgressInv /\ [Next]_vars => [Yield /\ Asks /\ intact => shown'.revision >= peak]_vars
  <2> SUFFICES ASSUME ProgressInv, Yield, Asks, intact
               PROVE  shown'.revision >= peak
    OBVIOUS
  <2>1. /\ snapshot \in Rows /\ progress \in Int /\ peak \in Int
        /\ snapshot.revision \in Int /\ snapshot.stage = "MAKING"
    BY DEF ProgressInv, StreamType, Rows, Asks
  <2>2. shown' = Overlaid(snapshot, progress)
    BY DEF Yield, Shows
  <2>3. shown'.revision >= snapshot.revision /\ shown'.revision >= progress
    BY <2>1, <2>2, OverlaidRevision
  <2>4. shown'.revision \in {snapshot.revision, progress}
    BY <2>1, <2>2, OverlaidRevision
  <2> QED
    BY <2>1, <2>3, <2>4 DEF ProgressInv, PeakKept
<1> QED
  BY <1>1, <1>2, <1>3, PTL DEF FairSpec, AnswerKeepsProgress
=============================================================================
