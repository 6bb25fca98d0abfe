---------------------------- MODULE TelemetryFlush ----------------------------
(***************************************************************************)
(* The telemetry hot state: TelemetryCache (src/app/telemetry.py) with its *)
(* Redis leases (src/app/telemetry_leases.py), the telemetry half of       *)
(* MqttGatewayService.ingest with its PostgreSQL fallback, and the flush   *)
(* and the offline scan of the background worker.                          *)
(*                                                                         *)
(* One device: the Lua scripts treat devices independently. A value is the *)
(* stamp of the report that wrote it, 0 where nothing was written yet.     *)
(* Writers are API threads, flushers domain workers (one is deployed; two  *)
(* overlap while it is replaced). Redis keeps its data; a client may lose  *)
(* the connection before or after a command took effect.                   *)
(***************************************************************************)
EXTENDS Naturals, FiniteSets

CONSTANTS
    Writers, Flushers,
    MaxReports,    \* bound: reports of the device
    MaxFallbacks,  \* bound: single writes that lose Redis
    MaxFailures    \* bound: writers or flushers that die, or batches that lose Redis

ASSUME TelemetryConstants ==
    MaxReports \in Nat /\ MaxFallbacks \in Nat /\ MaxFailures \in Nat

VARIABLES
    hash,     \* coffee:telemetry:device:<id>
    dirty,    \* the device is in coffee:telemetry:dirty
    lease,    \* whose token coffee:telemetry:lease-tokens holds, or none
    sql,      \* the telemetry columns of the terminal row
    writer, flusher,
    clock, fallbacks, failures

redis == <<hash, dirty, lease>>
flushVars == <<redis, sql, writer, flusher, clock, fallbacks, failures>>

None == "none"
ASSUME NoneIsNoFlusher == None \notin Flushers

Columns == {"connectionStatus", "lastHeartbeatAt", "reportedStatus"}

\* A resend or a fallback, each after one failure, takes a stamp of its own.
MaxStamp == MaxReports + MaxFallbacks + MaxFailures
Stamp == 0 .. MaxStamp
Snapshot == [val : [Columns -> Stamp], seen : Stamp]
Blank == [val |-> [c \in Columns |-> 0], seen |-> 0]
Offline == MaxStamp + 1

\* What heartbeat(), state() and presence() of the cache write.
Heartbeat == Columns
State == {"reportedStatus"}
Presence == {"connectionStatus"}

\* A report of its own, or one gateway batch merged by _write's buffer.
Reports == {Heartbeat, State, Presence, State \cup Presence}
Mode(fields) == {"batch"} \cup IF fields = State \cup Presence THEN {} ELSE {"single"}

IdleWriter == [pc |-> "idle", fields |-> {}, mode |-> "single", stamp |-> 0]
IdleFlusher == [pc |-> "idle", snap |-> Blank]

FlushTypeOK ==
    /\ hash \in Snapshot
    /\ dirty \in BOOLEAN
    /\ lease \in Flushers \cup {None}
    /\ sql \in [val : [Columns -> Stamp \cup {Offline}], seen : Stamp]
    /\ \A c \in Columns : sql.val[c] = Offline => c = "connectionStatus"
    /\ writer \in [Writers -> [pc : {"idle", "stamped", "hashed", "marked", "fallback", "writing", "resend"},
                               fields : SUBSET Columns, mode : {"single", "batch"}, stamp : Stamp]]
    /\ \A w \in Writers : writer[w].pc \in {"fallback", "writing"} => writer[w].mode = "single"
    /\ flusher \in [Flushers -> [pc : {"idle", "claimed", "read", "applied", "failed"},
                                 snap : Snapshot]]
    /\ clock \in Stamp
    /\ fallbacks \in 0 .. MaxFallbacks /\ failures \in 0 .. MaxFailures

FlushInit ==
    /\ hash = Blank /\ sql = Blank
    /\ dirty = FALSE /\ lease = None
    /\ writer = [w \in Writers |-> IdleWriter]
    /\ flusher = [f \in Flushers |-> IdleFlusher]
    /\ clock = 0 /\ fallbacks = 0 /\ failures = 0

Written(row, fields, t) ==
    [val |-> [c \in Columns |-> IF c \in fields THEN t ELSE row.val[c]], seen |-> t]

-----------------------------------------------------------------------------
(* Writers *)

Now == clock' = clock + 1

\* The stamps that reports under way will still take (for the bound only).
Reserved == Cardinality({w \in Writers : writer[w].pc \in {"fallback", "resend"}})

\* ingest takes a report and stamps it.
Report(w) ==
    /\ writer[w].pc = "idle"
    /\ clock + Reserved < MaxReports + fallbacks + failures
    /\ Now
    /\ \E fields \in Reports : \E mode \in Mode(fields) :
          writer' = [writer EXCEPT ![w] = [pc |-> "stamped", fields |-> fields,
                                           mode |-> mode, stamp |-> clock + 1]]
    /\ UNCHANGED <<redis, sql, flusher, fallbacks, failures>>

\* hset of the values; hdel and hincrby do not concern the flush.
Hset(w) ==
    /\ writer[w].pc = "stamped"
    /\ hash' = Written(hash, writer[w].fields, writer[w].stamp)
    /\ writer' = [writer EXCEPT ![w].pc = "hashed"]
    /\ UNCHANGED <<dirty, lease, sql, flusher, clock, fallbacks, failures>>

\* zadd to the dirty set, after the write it announces, also beside a lease that
\* is under way.
Zadd(w) ==
    /\ writer[w].pc = "hashed"
    /\ dirty' = TRUE
    /\ writer' = [writer EXCEPT ![w].pc = "marked", ![w].stamp = 0]
    /\ UNCHANGED <<hash, lease, sql, flusher, clock, fallbacks, failures>>

\* The answer to the gateway.
Answer(w) ==
    /\ writer[w].pc = "marked"
    /\ writer' = [writer EXCEPT ![w] = IdleWriter]
    /\ UNCHANGED <<redis, sql, flusher, clock, fallbacks, failures>>

\* _write answers False for a single write; batch() raises instead. (An online
\* key that fails inside a batch whose pipeline then succeeds is left out.)
FallsBack(w) == writer[w].mode = "single"

\* A RedisError in a single write, or in the online key set after it: ingest
\* goes on to PostgreSQL.
LoseRedis(w) ==
    /\ fallbacks < MaxFallbacks /\ fallbacks' = fallbacks + 1
    /\ writer[w].pc \in {"stamped", "hashed", "marked"}
    /\ FallsBack(w)
    /\ writer' = [writer EXCEPT ![w].pc = "fallback", ![w].stamp = 0]
    /\ UNCHANGED <<redis, sql, flusher, clock, failures>>

\* now() of the fallback transaction, or received_at of a heartbeat ...
FallbackStart(w) ==
    /\ writer[w].pc = "fallback"
    /\ Now
    /\ writer' = [writer EXCEPT ![w].pc = "writing", ![w].stamp = clock + 1]
    /\ UNCHANGED <<redis, sql, flusher, fallbacks, failures>>

\* ... and its unconditional update.
FallbackWrite(w) ==
    /\ writer[w].pc = "writing"
    /\ sql' = Written(sql, writer[w].fields, writer[w].stamp)
    /\ writer' = [writer EXCEPT ![w] = IdleWriter]
    /\ UNCHANGED <<redis, flusher, clock, fallbacks, failures>>

\* The API process dies, or a batch gets a RedisError, which is answered 500:
\* the gateway keeps the message and posts it again.
WriterCrash(w) ==
    /\ failures < MaxFailures /\ failures' = failures + 1
    /\ writer[w].pc \notin {"idle", "resend"}
    /\ writer' = [writer EXCEPT ![w].pc = "resend", ![w].stamp = 0]
    /\ UNCHANGED <<redis, sql, flusher, clock, fallbacks>>

Resend(w) ==
    /\ writer[w].pc = "resend"
    /\ Now
    /\ writer' = [writer EXCEPT ![w].pc = "stamped", ![w].stamp = clock + 1]
    /\ UNCHANGED <<redis, sql, flusher, fallbacks, failures>>

-----------------------------------------------------------------------------
(* Flushers *)

RequeuedLost(expired) == dirty

\* CLAIM returns an expired lease to the dirty set.
RequeuedExpired(expired) == dirty \/ expired

\* CLAIM: expired leases back first, then a dirty device nobody holds. The
\* thirty seconds of a lease may run out at any time.
Claim(f) ==
    /\ flusher[f].pc = "idle"
    /\ \E expired \in {FALSE, lease # None} :
          /\ lease = None \/ expired
          /\ RequeuedExpired(expired)
    /\ dirty' = FALSE
    /\ lease' = f
    /\ flusher' = [flusher EXCEPT ![f].pc = "claimed"]
    /\ UNCHANGED <<hash, sql, writer, clock, fallbacks, failures>>

\* CLAIM returns nothing: no device is dirty and none leased for too long.
ClaimNothing(f) ==
    /\ flusher[f].pc = "idle"
    /\ lease # None \/ ~dirty
    /\ UNCHANGED flushVars

\* hgetall, outside the script.
Read(f) ==
    /\ flusher[f].pc = "claimed"
    /\ flusher' = [flusher EXCEPT ![f] = [pc |-> "read", snap |-> hash]]
    /\ UNCHANGED <<redis, sql, writer, clock, fallbacks, failures>>

AppliedAlways(row, snap) ==
    [val |-> [c \in Columns |-> IF snap.val[c] # 0 THEN snap.val[c] ELSE row.val[c]],
     seen |-> IF snap.seen < row.seen THEN row.seen ELSE snap.seen]

\* apply_snapshots: absent fields keep the column, an older snapshot nothing.
Applied(row, snap) ==
    IF snap.seen < row.seen \/ snap = Blank THEN row
    ELSE [val |-> [c \in Columns |-> IF snap.val[c] # 0 THEN snap.val[c] ELSE row.val[c]],
          seen |-> snap.seen]

Apply(f) ==
    /\ flusher[f].pc = "read"
    /\ sql' = Applied(sql, flusher[f].snap)
    /\ flusher' = [flusher EXCEPT ![f] = [pc |-> "applied", snap |-> Blank]]
    /\ UNCHANGED <<redis, writer, clock, fallbacks, failures>>

\* The database refuses the batch.
ApplyFails(f) ==
    /\ failures < MaxFailures /\ failures' = failures + 1
    /\ flusher[f].pc = "read"
    /\ flusher' = [flusher EXCEPT ![f] = [pc |-> "failed", snap |-> Blank]]
    /\ UNCHANGED <<redis, sql, writer, clock, fallbacks>>

\* SETTLE compares the token: a lease taken over is not touched.
OwnsLease(f) == lease = f

\* SETTLE with ack or retry.
Settle(f) ==
    /\ flusher[f].pc \in {"applied", "failed"}
    /\ IF OwnsLease(f)
       THEN /\ lease' = None
            /\ dirty' = (dirty \/ flusher[f].pc = "failed")
       ELSE UNCHANGED <<lease, dirty>>
    /\ flusher' = [flusher EXCEPT ![f] = IdleFlusher]
    /\ UNCHANGED <<hash, sql, writer, clock, fallbacks, failures>>

\* The worker dies, or Redis fails it between the claim and the settling.
FlusherCrash(f) ==
    /\ failures < MaxFailures /\ failures' = failures + 1
    /\ flusher[f].pc # "idle"
    /\ flusher' = [flusher EXCEPT ![f] = IdleFlusher]
    /\ UNCHANGED <<redis, sql, writer, clock, fallbacks>>

\* mark_offline: the row's heartbeat is older than the threshold.
OfflineScan ==
    /\ sql.val["connectionStatus"] # Offline
    /\ sql.val["lastHeartbeatAt"] < clock
    /\ sql' = [sql EXCEPT !.val["connectionStatus"] = Offline]
    /\ UNCHANGED <<redis, writer, flusher, clock, fallbacks, failures>>

WriterNext(w) ==
    Hset(w) \/ Zadd(w) \/ Answer(w) \/ FallbackStart(w) \/ FallbackWrite(w) \/ Resend(w)

FlusherNext(f) == Claim(f) \/ Read(f) \/ Apply(f) \/ Settle(f)

FlushNext ==
    \/ \E w \in Writers : Report(w) \/ WriterNext(w) \/ LoseRedis(w) \/ WriterCrash(w)
    \/ \E f \in Flushers : FlusherNext(f) \/ ClaimNothing(f) \/ ApplyFails(f) \/ FlusherCrash(f)
    \/ OfflineScan

FlushSpec == FlushInit /\ [][FlushNext]_flushVars

\* API threads run, and every worker keeps flushing.
FairFlushSpec ==
    /\ FlushSpec
    /\ \A w \in Writers : WF_flushVars(WriterNext(w))
    /\ \A f \in Flushers : WF_flushVars(FlusherNext(f))

-----------------------------------------------------------------------------
(* Properties *)

Tracked == dirty \/ lease # None

\* With nothing left to do the row says what Redis says, column by column, when
\* no write went past Redis; only the offline scan may have overruled the
\* connection status.
QuietMeansEqual ==
    fallbacks = 0 /\ ~Tracked
             /\ (\A w \in Writers : writer[w].pc = "idle")
             /\ (\A f \in Flushers : flusher[f].pc = "idle") =>
        /\ sql.seen = hash.seen
        /\ \A c \in Columns : sql.val[c] \in {hash.val[c], Offline}

\* Every report reaches PostgreSQL.
CatchesUp == \A n \in 1 .. MaxStamp : (hash.seen = n) ~> (sql.seen >= n)
=============================================================================
