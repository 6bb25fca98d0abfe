# coffee-cloud: a TLA+ model of ordering, production, money, devices and merchants

The repository is the cloud side of a chain of coffee machines: customers order and pay from a web page, the server
queues the order, a worker dispatches it to a machine over MQTT (or lets the machine poll), the machine reports what it
does, and an order that ends without a drink is refunded. The order page follows all this on an event stream. Machines
are paired, claimed and transferred by merchants, whose staff work in sessions and whose books the database keeps.
PostgreSQL holds every fact; Redis holds telemetry and live progress only.
This directory models the parts in which something can go wrong between two transactions, two processes or two
messages, checks them with TLC on small instances, and proves the central invariants with TLAPS for every instance.

## 1. Inventory

| Part (under `src/app/`) | State | Operations | Hard because |
|---|---|---|---|
| Production (`services/production.py`, `production_state.py`, `command_state.py`) | `sales_order`, `production_job`, `terminal_command` | dispatch, device event, expiry, hold | three rows must move together; events come late, twice, out of order |
| Command outbox (`repositories/commands.py`, `services/commands.py`, `mqtt_gateway.py:573-621`) | `command_outbox` | claim, publish, report, retry, poll | the gateway is another process and may die between any two |
| Manual review (`services/adjudications.py`) | job revision, stored answers | adjudicate | the operator decides on what was shown earlier |
| Dispatch requests (`repositories/dispatch.py`, `background_worker.py:129-164`) | `terminal_dispatch_request` | enqueue, claim, complete, retry, repair | a wakeup may be lost; leases run out |
| Payments (`payment_service.py`, `services/payments.py`) | `payment`, order projection, `business_outbox` | create, callback, query, close, reconcile | the channel is called between two transactions |
| Refunds (`services/refund_intents.py`, `background_worker.py:214-266`) | `refund` | manual, automatic, submit, query, settle | lost answers, overlapping refunds, one budget |
| Public orders (`services/public_orders.py`) | order, job | create, cancel | cancel races dispatch and payment |
| Admission (`services/public_orders.py:147-243`, `material_commitments.py`, `customization.py`) | commitments, inventory snapshot, version watermark, quotes | quote, create, snapshot | stock is known only by delayed snapshots; several reads, concurrent customers |
| Device messages (`services/device_messages.py`) | heartbeat, event inbox | heartbeat, event, poll, ack | duplicate and reordered delivery |
| Pickup slot (`repositories/pickup.py`) | versioned slot | apply, blocked | out-of-order reports |
| MQTT gateway session (`mqtt_gateway.py`) | connection generation, shards | connect, subscribe, ack, recover | callbacks of an old connection |
| MQTT inbox (`services/mqtt_gateway.py`) | `mqtt_inbox` | ingest, recover | redelivery during recovery |
| Telemetry (`telemetry.py`, `telemetry_leases.py`) | Redis hot state | write, lease, flush | loss between read and ack |
| Order event streams (`order_events.py`, `order_stream.py`, `live_progress.py`) | listeners, one queue of flags per page | listen, resynchronise, offer, read, poll | two channels without replay; offers overtake each other |
| Device identity (`services/device_identity.py`, `emqx_provisioner.py`) | activation codes, HTTP tokens, MQTT credentials, the broker's user | activate, rotate, revoke, issue | answers are lost; the broker is changed outside the transaction |
| Pairing and ownership (`services/simulator_pairing.py`, `merchant/assets.py`, `merchant/asset_schema.py`) | pairing session, terminal, ownership, claim code, transfer | pair, claim, transfer, cancel, retire | orders are placed while the machine changes hands |
| Merchant accounts (`merchant/service.py`) | user, member, session, invitation | login, reset, switch, change member, invite, accept | statements of READ COMMITTED transactions interleave under several locks |
| Merchant ledger (`merchant/accounting_schema.py`) | append-only entries | three triggers | a refund may precede or follow the revenue |
| HTTP, schema text, reports, catalogue, front ends | rows and forms | | no protocol of their own, or I/O |

What makes each correct, and what could break it, is the list `hazards` of `PROJECT.json`, each at its line.

How they meet: the *payment* side queues an order with one transaction (`payment.paid` event to job, `QUEUED` and a
dispatch request); the *dispatcher* turns the oldest queued job into a command and an outbox item; the *gateway*
publishes it; the *machine's* events end the order, which raises the next dispatch request and, without a drink, opens a
refund; the *refund worker* settles it and reports back to the order. All transactions lock order, then job or payment,
then command or refund, then outbox. Every write of an order notifies the *broker* of each API process, which wakes the
pages that show it; every write of a payment, a refund or an order may add entries to the merchant's *ledger*. The
*owner* of the machine is captured into an order when it is inserted.

## 2. Modules

| Module | Models |
|---|---|
| `ProductionState` | the status tables and `decide_job_event`, as operators |
| `Production` | one machine: orders, jobs, commands, outbox, gateway, dispatcher, expiry, watchdog, operator |
| `OrderLifecycle` | the abstract promise: waiting, in hand, in review, served or void; one at a time; a void order keeps no money |
| `ProductionRefinement` | the mapping under which `Production` implements `OrderLifecycle` |
| `ProductionProofs` | TLAPS theorems about `Production`: types, agreement of the rows, one job, expiry, orders advance, refunds match, views stay current, and the refinement |
| `DispatchQueue` | the wakeup row of one machine and the workers that lease it |
| `PaymentState` | payment and refund status tables |
| `Payments` | the money of one order: intents, refunds, projection, paid event, channel |
| `Admission` | admission of orders to one machine against its stock: idempotent create, quotes, commitments, snapshots, watermark |
| `AdmissionProofs` | TLAPS theorems about `Admission`: answers, stock |
| `GatewaySession` | the gateway process: connection generations, subscription, supervisor, sharded workers, retries, shutdown |
| `GatewaySessionProofs` | TLAPS theorems about `GatewaySession`: acknowledgements, receive window, shutdown |
| `DeviceInbox` | `mqtt_inbox` and the event transaction: duplicates, conflicts, recovery, cleanup, the pickup slot |
| `TelemetryFlush` | Redis hot state of one device, leases, flush, PostgreSQL fallback |
| `WorkerProofs` | TLAPS theorems about `DeviceInbox`, `DispatchQueue` and `TelemetryFlush`, which the domain worker serves: one section each |
| `OrderStream` | one order page: listeners, notifications, the merging queue, the two reads of a refresh, the poll |
| `OrderStreamProofs` | TLAPS theorems about `OrderStream` |
| `DeviceCredentials` | activation codes, HTTP tokens with rotation and grace, MQTT credentials and the broker's user |
| `DeviceOwnership` | one machine between merchants: pairing, claims, transfers, lifecycle, orders; extends `DeviceCredentials` |
| `DeviceOwnershipProofs` | TLAPS theorems about `DeviceOwnership` and its credentials: ownership, orders, tokens, the broker |
| `MerchantSessions` | accounts, memberships, sessions and invitations, as transactions of several statements under locks |
| `MerchantSessionsProofs` | TLAPS theorems about `MerchantSessions` |
| `MerchantLedger` | the triggers that write the merchant's books; composed with `Payments` |
| `PaymentsProofs` | TLAPS theorems about `Payments` and `MerchantLedger` |
| `MC...` | instances for TLC |

### Production

Every action is one server transaction, or one step of something outside the server. `orderStatus`, `job`,
`commandStatus`, `outbox` are the rows; `handed` is `delivered_at` or `published_at`; `tried` is `attempt_count > 0`;
`due` is a passed `expires_at`. `gateway` is the gateway process between claim, publication and report; `broker` says
that the command left the server. `gate` gathers what `dispatch_next_order_result` reads about the machine (lifecycle,
heartbeat, pickup slot, reported busy) and changes freely. `seen` is the job row on an operator's screen, from which
the verdict's `expectedRevision` comes.

Two transactions are split because others commit inside them: the dispatcher chooses a job and then locks its order
(`DispatchSelect`, `DispatchCommit`), and the gateway works between HTTP calls. Device events are not queued: any event
may arrive at any time with any revision and attempt, once the command has left the server, which covers loss,
duplication, delay and reordering. `task_ack` and `command_result` of the device API lead to the same
`reconcile_device_event`, so they are `DeviceEvent` too. A free order is queued at creation
(`public_orders.py:175-243`), a paid one by `_process_paid_event`; both write the same rows, so `Enqueue` is one action.

Abstracted: progress, failure texts, timestamps, snapshots, standalone debug commands, and the payment rows behind
`paid` and `refund` (see `Payments`).

### DispatchQueue

`request` is the row, `worker` what each worker process remembers between its transactions: the leased revision and,
inside the second transaction, its verdict. `free` and `queued` are what the verdict depends on. PostgreSQL runs at READ
COMMITTED, so `Decide` and `Commit` are two steps of one transaction, with the terminal row locked between them
(`TerminalLocked`). `missed` is a history variable.

### Payments

The rows are those of one order. Whatever the code learns from the channel outside a transaction is kept in `answer`
(POST payments), `closing` (cancel), `reconcile` and `work` (the two passes of the payment thread, one at a time) and used
by a later action, or lost by a crash. `trade` and `returned` are the channel's truth: a code (`qr`) is payable before the
channel knows a trade, which is why a close that answers `TRADE_NOT_EXIST` does not stop a later payment. Production
appears by its effect on money; `MAKING` stands for all statuses between dispatch and end.

`apply_paid_callback` is `PaidFact`, used by callbacks, queries and reconciliation alike; the callback inbox only
short-cuts repetitions, which `Recorded` already makes harmless. Requests that are refused before they write (digest or
amount mismatch, trade-number conflict, provider change) are not actions. The `PAID` answer to a close in `cancel` is not
produced by any adapter in the repository, and is left out; the answer FAILED to a refund is not produced by the Alipay
adapter either, but `process_refund_batch` handles it, and it is kept. `UnknownRefund` says what the channel answers about
a refund it never saw: the adapter maps an empty answer to `PENDING` and `TRADE_NOT_EXIST` to `NOT_FOUND`.

### Admission

`create` locks the terminal row and then reads in statements of its own, so it is four steps: `Begin` (lock, key and
price), `ReadInventory`, `ReadCommitments`, and `Admit`, which reads the watermark and the queue length last and
inserts. Any refusal is `Abort`. `answer` remembers the request that was last answered with an order. Statuses are
folded into waiting, sent and ended: a payment, or an unpaid order that is withdrawn, makes no difference to what admission
distinguishes. The machine is external: `stock` holds its contents at each inventory version, every change is reported
with the new version, and any version's snapshot may arrive at any time, also an old one again (`upsert_snapshot` compares
nothing). A snapshot is taken to report what is on hand; a machine that subtracts its own reservations only makes
admission stricter. That final events carry the version after the consumption is an assumption about the machine
(`tests/test_queue_materials.py:29`). `made` holds the orders the machine is
done with; `writtenOff` those an operator ended without asking it, which the cloud cannot account for. Material is added
by hand but not taken out: no admission could foresee that. `docs/current-state.md:13` calls the commitments a
conservative estimate and no guarantee; `NeverOversold` says how far they go.

### GatewaySession

One gateway process with its paho client: the callbacks, the supervisor, the worker threads with their bounded queues, and
shutdown are separate actors; `generation` is the fence by which a late worker recognises that its packet id belongs to
an earlier connection. The broker is external: it keeps unacknowledged messages of a session, redelivers them after a
reconnect, and reuses packet ids once acknowledged. The cloud's answers are settled, refused or failed. A lone uplink
with a foreign identity is answered 403 and retried for ever, as the client does. The network loop does not die in the
few milliseconds between `disconnect()` and its callback. Retries reorder messages, which
`docs/system-architecture/README.source.md:262` acknowledges; no property forbids it.

### DeviceInbox

`ingest` is three transactions (insert the row, handle the event, mark the row) with lookups between statements; recovery and the
HTTP route run the same event transaction beside it. A message has an id, a boot sequence and content; resending changes
the outer time only (`SameBusiness`). Events are kept 90 days and inbox rows 30, so the cleanup of events is not
modelled, and `CleanInbox` runs only on rows no handler holds. The insert of a message whose boot and sequence are taken
by another id is answered as a duplicate (`Clashes`).

### TelemetryFlush

A value is the stamp of the report that wrote it, so that "the row equals the hash" can be said column by column. The
writer's pipeline is `Hset` then `Zadd`; `Claim` and `Settle` are the two Lua scripts; the snapshot is read after the
claim, in a command of its own. A lease may run out at any time. Two flushers exist while a worker is replaced. Not in the
model: an online key that cannot be set inside a batch, the progress key, and the wake-up that follows a presence report.
A fallback write of one report carries a newer `last_seen_at` than a snapshot still waiting in Redis, which the flush then
drops although it has other columns; therefore `QuietMeansEqual` speaks of histories without a fallback, while `CatchesUp`
holds with one. `QuietMeansEqual` is about one writer at a time (section 4 says why two could break it).
`docs/system-architecture/README.source.md:491` still describes the flush by `ZPOPMIN`, which the leases replaced.

### OrderStream

`row` is what the page could read, `shown` the last snapshot it was sent. A durable write notifies the listener that is
connected (the trigger in `database.py:515-542`); progress goes to Redis and is announced by the script that stores it. The
listener threads hand flags to the event loop, so `offers` is a set of flags that arrive in any order, and `_offer` merges
them into the queue of one. A refresh reads the order, then registers for its progress, then reads Redis: two steps, with
changes in between. Only the second step of an order whose task is executing asks Redis (`Asks`), and it has two outcomes.
`Yield` lays what Redis answered over the snapshot. `YieldUnread` is a read that failed, which `latest_progress` swallows:
because Redis is away, or on its own, when the half second of its socket ran out while the Pub/Sub listener on another
connection goes on and nothing will repeat the read. Redis may go away with or without its keys, and a key expires an hour
after the last report (`KeyExpires`). Three variables are history: `intact` says that Redis has kept every progress stored,
`peak` is the highest progress shown, and `missed` is the progress a read failed to bring on its own. Hence
`AnswerKeepsProgress` is about reads that answer, whatever outages and failures came before, and `PageCatchesUp` excuses
exactly the progress in `missed`, which the next report or any other wakeup brings (`docs/dual-channel-sse.md:22`). The
queue position moves with other orders and without a notification; only the five-second poll shows it.

### DeviceCredentials and DeviceOwnership

A token is a number, its version; `origin` remembers the code, pairing session or rotation key it was issued for.
Activation and provisioning are one step each, under the lock of the terminal row; a rotation authenticates in one
transaction and rotates in another. An MQTT credential is a row, a call of the broker's management API and a second
transaction, each of which may be the last: `calls` says how far each issue or revocation has come. `settled` holds after
a call that ran alone and succeeded.

`DeviceOwnership` adds the rest of the terminal row and the tables about its owner, and repeats each operation whole: an
activation or a provision sets the lifecycle to ACTIVE whatever it was, a pairing session sets it back to
PENDING_ACTIVATION. `blocking` also looks at device commands and refunds; an operation may be refused at any time, so
only the orders are kept. An order holds the terminal row from `PlaceOrder`, where it captures the ownership version
unseen by others, to `CommitOrder`; whatever locks or changes that row waits meanwhile (`TerminalFree`). `session_status` reads a
pairing session without a lock (`SessionRunOut`) and later writes `EXPIRED` over whatever was committed in between
(`SessionExpires`): a session claimed in that moment can then not be provisioned, and the machine needs a new one. No code completes a transfer that waits for the
platform, so there is no action for it. The guard of `update_lifecycle` on a device that is `PENDING`
(`admin_operations.py:127`) never matches, since the states are `PENDING_ACTIVATION`, `ACTIVE` and so on; the action has
no such guard. A refused activation rolls back the count of its attempts with the exception it raises
(`device_identity.py:110-115`), so the count is not modelled.

### MerchantSessions

A request is a transaction at READ COMMITTED that runs one statement at a time. `Needs` says which row or advisory
locks the statement waits for, `Conflict` which modes exclude each other (row share, no-key update, update, key share;
the fence is an advisory lock, shared or exclusive), `Blockers` who holds them. A statement reads the rows as
committed when it runs; writes appear at the commit. `login` verifies a password outside of any transaction, then
locks the account and compares the hash again; `switch_tenant` reads a membership without a lock; membership changes
hold the tenant's fence exclusively, all other requests share it. A request may be refused, die, or be the victim of a
deadlock (`GiveUp`). `FenceKeepsOrder` says that the fence keeps a membership edit and the requests of its
organisation from waiting for each other's rows; what can still face one crosswise takes no fence (`reset_password`,
`accept_invitation`) or took another organisation's before its session moved. A refused request leaves nothing, so
cookies, CSRF tokens, rate limits and versions are left out.

### MerchantLedger

One action of `Payments` and the entries its writes add, in one step: the triggers run inside the transaction. An entry
is written once for its source key, so `books` is a set. `BooksMatchMoney` compares it with the payment, the refunds and
the order: what was collected, what went back, and revenue less reversals, whichever of the refund and the `READY` comes first.

## 3. Runs

| Run | Instance | Shows |
|---|---|---|
| `production_one` | 1 order, all events, revisions to 2, attempts to 2, 4 job revisions | `RowsAgree`, `ExpiredNeverSent`, `NeverRollsBack` |
| `production_live` | 2 orders, three events, fairness | `OneActiveJob`; `Production` implements `OrderLifecycle`; `DispatchedSettles`, `QueuedIsServed` |
| `dispatch_one` | 1 worker, 3 jobs, 3 wakeups | `RaisedRequestSurvives`, `FreeMachineIsUsed` |
| `payments_one` | 1 intent, amount 2, 2 manual keys, the ledger, fairness | `NeverOverRefunded`, `StatusMatchesRefunds`, `BooksMatchMoney`; `LateMoneyReturns`, `PaidOrderProceeds` |
| `payments_extra` | 2 open intents | *violated*: `DeadOrderKeepsNoMoney` |
| `admission_one` | 2 threads, 3 keys, stock 1, 2 changes of it, a product without requirements, 2 prices, 1 written-off order | `NeverOversold`, `AnsweredAsAsked` |
| `gateway_one` | 1 worker, queue of 2, batches of 2, 2 packet ids, 3 uplinks, 1 fault, fairness | `AckedWasSettled`, `WindowNeverLeaks`, `ShutdownLeavesNothing`; `ComesBack`, `EveryUplinkSettles` |
| `inbox_one` | 2 handlers, reordered and contradicting uplinks, 1 crash or failure, fairness | `ProcessedWasApplied`, `EventsDecideState`; `StoredIsSettled` |
| `telemetry_one` | 1 writer, 2 flushers, 1 fallback, 1 crash, fairness | `QuietMeansEqual`; `CatchesUp` |
| `stream_one` | 1 page, 2 durable changes, 2 progress revisions, 1 order ahead, 1 fault, fairness | `StaleIsNoticed`, `AnswerKeepsProgress`; `PageCatchesUp` |
| `device_one` | 3 tokens, 1 code, 2 pairing sessions, 1 rotation key used by 2 requests, 3 MQTT passwords, 2 merchants, 1 claim code, 2 transfers, 1 order | `RevokedOnlyGraces`, `OneTokenPerGrant`, `RetryRepairsBroker`, `OrdersFollowOwnership`, `OwnershipAgrees` |
| `sessions_one` | 2 people, 2 organisations, 3 memberships, 2 sessions, 2 invitations, 2 concurrent requests | `OldPasswordHasNoSession`, `SuspendedHasNoSession`, `AlwaysAnOwner`, `FenceKeepsOrder`, `InvitationOnce` |

### Bounds

`MaxDeviceRevision`, `MaxAttempt`: the tests compare with the last value only, so two values beyond the initial one give
older, equal and newer. `MaxJobRevision` stops device events, not the server: four writes are enough for dispatch,
progress, hold and end. Two orders are enough for a race at one machine, since the dispatcher treats all others alike.
Amount 2 gives partial refunds; two manual keys and one automatic refund overlap three ways. `dispatch_one` has three jobs
and three wakeups so that a request can be raised during each phase of a pass and again after it. In
`Admission` three orders let one be made and reported while two are admitted on a stale read; two changes of the stock
give a refill and a use whose events arrive in either order. In `GatewaySession` two packet ids and three uplinks (one
telemetry, one malformed, one with a foreign identity) let an id be reused; `MaxFaults` bounds failures and
the disconnects that follow them; one is enough for every race of the supervisor and of shutdown with an old generation. The uplinks of `DeviceInbox` are a cup made and taken, a slot that names an unknown
task, and a message that contradicts the first in its id, event and slot revision. In `TelemetryFlush` the one report is
followed by another for each fault, which gives older and newer snapshots, and one crash may hit any actor at any step.
`payments_one` has one intent, since a second one exists in old data only (`payments_extra`). In `OrderStream` one fault of
any kind (a listener, Redis with or without its keys, one read, an expired key, the connection) may hit at any moment between
two changes of the order; failed reads while Redis is away cost no further fault. `device_one` explores the three parts of a machine (the
broker, tokens after they are issued, transfers with orders) beside the grants they share, but no two of them beyond
their first step at once (`OneAtATime`), because they share no variable; and a second pairing session only before the first transfer or
rotation (`SecondSession`). One `session_status` at a time is between its read and its write, while pairing sessions are all that is in use
(`RunOutAlone`); what it overwrites is a session, which neither orders nor transfers read. The theorems of `DeviceOwnershipProofs` hold without these constraints. In `MerchantSessions`
the second person is invited to the organisation of the first while owning another, so that one account has two
memberships; two requests give every race of two transactions, and a circle of waiting needs no third.
The deadlock check is on for `Production`, `Admission`, `DeviceInbox` and `TelemetryFlush`; the finite stocks of the other
models run out, and a gateway that was shut down is over, so it is off there.

### Fairness

The domain worker and the payment thread are endless loops (`main.py:206-240`), so each of their passes is weakly fair,
and clocks and leases run. Strong fairness says that what is retried for ever does not fail for ever: the dispatch
transaction, the claim of a refund between reconciliations, a refund call with a definite answer, and the commit after it. The channel
repeats its notification until it is accepted. Nothing is assumed of the machine, customers or operators.
`gateway_one` assumes that the gateway's threads run, that after the bounded faults the broker accepts a connection and
delivers what it holds, and that the cloud at last answers a request (a foreign identity is still refused for ever).
`inbox_one` assumes that a handler which started goes on unless it crashes, and that recovery, which is an endless loop
too (`main.py`), comes to every stored row (strong fairness: a row is not claimable while it is in hand); no redelivery
by the gateway is assumed. `telemetry_one` assumes that API threads and the flush loops run. `stream_one` assumes that
the listener threads retry (they are loops with a pause of a second), that Redis returns, that what was sent on a live
connection arrives, that the stream's coroutine runs, and that the page opens a broken stream again, as a browser's
event source does; the order need not change.

### What the violation shows

* `payments_extra`. An order with two open intents is paid through one. When the other is closed by reconciliation,
  `update_payment_outcome` writes `CLOSED` over the order's `PAID` (`background_worker.py:211`, `repositories/orders.py:325-331`). If the
  customer then cancels, or the command expires unsent, the code finds no refundable status and opens no refund, against
  `docs/production-consistency.md:41`. The same overwrite before the `payment.paid` event is handled leaves the order
  `PAID` for ever. New requests never open a second intent, but `repositories/payments.py:56-62` and the tests
  treat orders with several as legitimate.

Another disagreement was met without a run of its own. `docs/dual-channel-sse.md:33` says that an open stream of a drink in
the making keeps the progress it showed while Redis fails briefly. `with_live_progress` starts from the snapshot it is
given: after a durable change that is the database row again, and if `latest_progress` then fails (`telemetry.py:213`) the
page goes from, say, revision 2 back to 0 until a read answers. In `OrderStream` that is `Yield`, `Commit`, `Wake`,
`ReadOrder`, `YieldUnread`.

## 4. Proofs

A theorem is about every value of the constants that the assumptions of its module allow; three have a hypothesis of their
own. Together they state all invariants and all safety action properties of the passing runs.

| Theorem | States | Module |
|---|---|---|
| `TypeCorrect` | `[]TypeOK` | `ProductionProofs` |
| `RowsAlwaysAgree` | `[]RowsAgree` | `ProductionProofs` |
| `OneJobAtATime` | `[]OneActiveJob` | `ProductionProofs` |
| `ExpiredWasNeverSent` | `[]ExpiredNeverSent` | `ProductionProofs` |
| `OrdersOnlyAdvance` | `NeverRollsBack` | `ProductionProofs` |
| `RefundsMatchOutcomes` | `[]RefundMatchesOutcome` | `ProductionProofs` |
| `ViewAlwaysCurrent` | `[]ViewIsCurrent` | `ProductionProofs` |
| `ProductionImplementsLifecycle` | `ImplementsLifecycle`: `Production` implements `OrderLifecycle` | `ProductionProofs` |
| `MoneyStaysAccounted` | `[]MoneyInv` | `PaymentsProofs` |
| `NeverGivesBackTooMuch` | `[]NeverOverRefunded` | `PaymentsProofs` |
| `StatusAlwaysMatches` | `[]StatusMatchesRefunds`, if at most one intent is `Historical` | `PaymentsProofs` |
| `BooksAlwaysMatch` | `[]BooksMatchMoney`, of `LedgerSpec` | `PaymentsProofs` |
| `NeverOversells` | `[]NeverOversold` | `AdmissionProofs` |
| `AlwaysAnsweredAsAsked` | `[]AnsweredAsAsked` | `AdmissionProofs` |
| `AcknowledgedOnlySettled` | `[]AckedWasSettled` | `GatewaySessionProofs` |
| `WindowIsKept` | `[]WindowNeverLeaks` | `GatewaySessionProofs` |
| `ShutdownIsClean` | `[]ShutdownLeavesNothing` | `GatewaySessionProofs` |
| `RequestsKnowWhatTheyHold` | `[]Inv` | `MerchantSessionsProofs` |
| `ResetClosesSessions` | `[]OldPasswordHasNoSession` | `MerchantSessionsProofs` |
| `SuspensionClosesSessions` | `[]SuspendedHasNoSession` | `MerchantSessionsProofs` |
| `OrganisationsKeepAnOwner` | `[]AlwaysAnOwner` | `MerchantSessionsProofs` |
| `FencePreventsDeadlock` | `[]FenceKeepsOrder` | `MerchantSessionsProofs` |
| `InvitationsUsedOnce` | `InvitationOnce` | `MerchantSessionsProofs` |
| `OwnershipAlwaysAgrees` | `[]OwnershipAgrees` | `DeviceOwnershipProofs` |
| `OrdersAlwaysFollow` | `[]OrdersFollowOwnership` | `DeviceOwnershipProofs` |
| `GrantsGiveOneToken` | `[]OneTokenPerGrant` | `DeviceOwnershipProofs` |
| `RetriesRepairBroker` | `[]RetryRepairsBroker` | `DeviceOwnershipProofs` |
| `RevokedNeverActive` | `RevokedOnlyGraces` | `DeviceOwnershipProofs` |
| `StaleAlwaysNoticed` | `[]StaleIsNoticed` | `OrderStreamProofs` |
| `AnswersKeepProgress` | `AnswerKeepsProgress` | `OrderStreamProofs` |
| `SettledWasApplied` | `[]ProcessedWasApplied` | `WorkerProofs` |
| `EventsAlwaysDecide` | `[]EventsDecideState` | `WorkerProofs` |
| `RequestSurvivesOneWorker` | `RaisedRequestSurvives`, if there is one worker | `WorkerProofs` |
| `QuietRowIsEqual` | `[]QuietMeansEqual`, if there is at most one writer | `WorkerProofs` |

### Assumptions

Each is an `ASSUME` of the module it is about, and TLC evaluates it in that module's run.

| Assumption | Says |
|---|---|
| `Production.BoundsAssumption`, `DispatchQueue.QueueAssumption`, `TelemetryFlush.TelemetryConstants` | the bounds are naturals |
| `Payments.PaymentsAssumption` | the amount is positive (a check of the table `payment`), idempotency keys are finitely many, historical intents are intents, the channel answers as its adapter does |
| `Admission.AdmissionConstants` | requirements and stock are naturals, each product that has requirements needs something, finitely many keys |
| `GatewaySession.GatewayConstants` | a shard for each message, the kinds of messages, queues and batches that hold something |
| `MerchantSessions.SessionsAssumption` | finitely many memberships, each of one account and one organisation |
| `DeviceInbox.InboxConstants` | uplinks and events have their columns, revisions and versions are naturals |
| `DeviceCredentials.CredentialConstants` | the rows of different tables are different |
| `MerchantSessions.NoneIsAbsent`, `DeviceOwnership.NoneIsNoStatus`, `OrderStream.NoneIsNoQueue`, `TelemetryFlush.NoneIsNoFlusher` and the conjuncts about `None` elsewhere | the value that stands for a missing row is none of the others |

`StatusAlwaysMatches` supposes that at most one intent is `Historical`: a second open intent is what `payments_extra`
refutes. `RequestSurvivesOneWorker` supposes one worker, as the deployment runs. `QuietRowIsEqual` supposes
that the reports of one device are written one after the other. The gateway keeps to
one at a time (a shard per device, one batch under way), except after a post that timed out and is still being handled; an HTTP
heartbeat may run beside it. With two writers a report may be stamped first and written last: Redis goes back to it, the row does not,
and they differ until the next report. Materials are counted in whole units
where the code has floats and a tolerance of 1e-9.

### Arguments

*Production.* `RowsAgree` is inductive with `TypeOK`: a row-writing action reads the job's status, so the other two rows
are known, and the tables allow the move it makes. This is where a silent refusal of `transition_order` would show.
`OneActiveJob` is not inductive: between the dispatcher's test and its commit the test could become stale. `PickIsFree`
adds that while a job is picked none is active, and `OnlyDispatchActivates` shows that no other action makes a job
active. `ExpiredNeverSent` needs `DeliveryLeavesTrace`: whatever reached the gateway, the broker or the machine left
`tried` or `handed` in the rows that `expire_order_for_command` reads, and an expired order has neither; that an expired
order has an expired command (from `RowsAgree`) keeps the gateway from claiming it later. `NeverRollsBack` needs the
agreement too: it excludes the statuses from which the table also leads elsewhere (`FAILED` to `REFUNDED`, `CREATED`).
`RefundMatchesOutcome` splits every writer into: the order ends without a drink here and the refund is opened here, or
neither. `ViewIsCurrent` needs `ViewNotAhead` and the lemma `JobMovesOn`: every write of a job row raises its revision,
except the insertion, which no view can precede.

*The refinement.* Initial states map to the initial state, and each step to one of `OrderLifecycle` or to a stutter, from
the invariants above. `Phases` reads an order's phase off its status; `OneActiveJob` and `RowsAgree` give that at most
one order is in hand or in review (`OneOrderSeen`), which the abstract `Begin` tests; `RefundMatchesOutcome` gives that the money goes
back in the very step that voids the order. `MoveImplements` is the rule that every action then instantiates.

*Payments.* `Sum` counts minor units, pairs of a refund key and a number up to its amount, so that totals are
cardinalities of finite sets: a total grows with the set of statuses counted (`TotalGrows`), and changing one row moves
it by that row (`TotalMove`). `Account` says of each intent that the refunds that succeeded or may still succeed stay within the
amount, that whatever the channel gave back is among them, and that the status fits. A new refund is checked against that budget; the hard part is
a refusal, which takes its refund out of the budget: `InHand` says that only the worker settles the refund it claimed,
and that money is not back when the channel refused. `StatusMatchesRefunds` needs for the order's side that one intent exists
(`OneIntentInv`): then no other payment can write over the projection. `BooksMatchMoney` is inductive beside `MoneyInv`: a
settled refund, a paid payment and a ready order stay so (`RowsKept`, `MoneyKept`), so each trigger adds
exactly what is missing.

*Admission.* `AnswerInv` adds to `AnsweredAsAsked` that every order carries the price of its quote, and that the order which
answered keeps the columns of its digest. The price is read at the start of the request and written at its end;
`check_quote` compares the quote with that same read, so a price change between them cannot show.
`NeverOversold` needs to relate a stock the thread read long ago to the one there is: `UsedSince` says that from
any version not below the watermark on the machine used no more than the needs of orders which are still committed or
written off, because a final report raises the watermark and ends the order in one transaction. The thread reads inventory,
then commitments, then the watermark; `CommitmentsRead` says that the second read stays an upper bound, since only the holder of
the terminal's lock adds a commitment, and the watermark that is read last tells whether the first is too old. `ReportsOpen` keeps a
final report that is under way about an order the cloud still counts; `UndeclaredAlone` covers products without declared
requirements, which share the queue with none.

*GatewaySession.* A PUBACK names a packet id, and packet ids are reused. `HandsOwn` is what ties the id to the message:
while the gateway may acknowledge on a connection that is up, each item of the current generation in a worker's hands
has its message in flight under its id, no PUBACK for it is on the way, and no other item has the same id. A new
generation starts with no item, and each way of losing a connection withdraws the right to acknowledge first.
`WindowNeverLeaks` is the converse: each delivered id without a PUBACK is in somebody's hands. It adds `EmptyHands` (a worker that
waits for work has no batch and no deferred item that the next one could overwrite) and `FreshConnection` (a connection that is given
its generation has delivered nothing). `ShutInv` says how far shutdown got: from the disconnect on, the supervisor no longer opens a
connection, and the socket is closing as long as the loop lives.

*MerchantSessions.* `Inv` follows each request through its statements: `Holds` says which locks it has, `LocksCompatible` that no two
exclude each other, and `Knows` what it has read and may still rely on because of those locks. So login, which compares
the hash again under the account's lock, knows the present password when it inserts the session; a request that re-reads
the membership under the fence knows that no edit is between its statements; an edit knows that another owner stays, because the
count was taken under the exclusive fence; and an acceptance holds the invitation's row, so the invitation is
still open when it joins. `FenceKeepsOrder` follows: two requests of an organisation that face each other crosswise
would both hold its fence, one of them exclusively.

*Devices.* For ownership the frozen flag is the hinge (`OneTransfer`): at most one transfer is active, exactly while the device
is frozen, and it names the present owner and version; a frozen device neither changes hands nor takes orders. An order
that is inserted and not committed is unseen by `blocking`; `PlacedFollow` says that it too has the present version of a
machine that is not frozen, because the row it locks does not move until it commits.
For tokens, `GrantsKept`: a token keeps the grant it was issued for, and the grant that was used names that token, so a
second one for it is never issued; a new token takes an unused number, so only a rotation's old token leaves `REVOKED`. For the broker, `AloneStands`: what a call that never had company did to the broker or to the
table still stands when it ends, so both agree then and until the next call begins.

*OrderStream.* `StaleIsNoticed` is inductive with the types and `ReaderSubscribed`: a step that takes one
piece of evidence away leaves the next one: a lost notification a listener that is away, a listener that comes back an
offer, an offer a flag; a flag for the order is taken only to read it. `AnswerKeepsProgress` needs `PeakKept`: while
Redis keeps its keys, the most the page ever showed is in the snapshot it holds or still in Redis, and what that snapshot has is in
the order's row or in Redis, of which neither goes back. An outage with the keys kept and a failed read take nothing from Redis, so the next read that
answers finds it, whatever the page showed meanwhile.

*DeviceInbox.* `HandlersHaveRows`: a handler past its first transaction has its row, which has its uplink's business content and
stays as long as it is held, since only `CleanInbox` removes rows; if it goes on to settle, the event is committed. Content decides the event
(`SameEvent`), so the row that is settled is about the event that was applied. `EventsDecideState` is inductive beside it as
`CountedOnce`, `SlotIsNewest` and `CollectedByEvent`: only `ApplyFresh` touches what they speak of (`EventsKept`), and it tests the
id and the slot's revision in the transaction that writes. This is where a refused event that left its slot behind would show.

*TelemetryFlush.* `RedisAhead`: the row's stamp never passes that of the hash, and the report under way is newer than both.
`EqualWhenCurrent`: a row or a snapshot as new as the hash says what the hash says. The snapshot lacks columns that Redis never had, so it adds that
the row has none of them either. `BehindIsTracked`: while the row is behind, the device is dirty or leased, or its writer will mark
it; and if the snapshot in the leaseholder's hands already misses something, then dirty or to be marked, since
settling takes the lease away. The order of the writer (hash first, then the dirty set) and of the flusher (claim, then read) is what keeps it. The
proof is for histories without a fallback, in which alone the property speaks.

*DispatchQueue.* `LeaseKeepsRow`: while the worker holds a lease
the row is there, its revision has not fallen below the leased one, and a request raised meanwhile took it past it, so the
delete that names the leased revision misses. With two workers this is false: one deletes the row, the next request
begins again at revision 1, and the other worker's old lease matches it.

### Only model-checked

* Everything that must happen in the end (`DispatchedSettles`, `QueuedIsServed`, `FreeMachineIsUsed`, `LateMoneyReturns`,
  `PaidOrderProceeds`, `ComesBack`, `EveryUplinkSettles`, `StoredIsSettled`, `CatchesUp`, `PageCatchesUp`): TLAPS does not
  prove liveness under fairness.
* `DeadOrderKeepsNoMoney`, which the code violates.

`TypeOK` is among the properties of a run for `Production`; in the other modules it documents the variables.

## 5. Not modelled, and the plan

Not modelled, because they read rows or write a single row in one statement: costs, expenses and inventory forms of merchants, reports,
catalogue, stores, preferences, registration, accounts that administrators make, admin permissions and listings, the HTTP
layer with its limits (`main.py`, `public_limits.py`), process supervision, schema text, migrations and front ends.
Token formats, signatures and password hashes are values that are equal or not.

Known limits of what is modelled:

* The gateway publishes what it claimed after testing the deadline only; the command's state was tested at the claim and
  may have moved (`mqtt_gateway.py:604`; `repositories/commands.py:9-12` lists the states that must not be published
  again). `Production` includes these steps, and the rows stay consistent through them; nothing checks that the second
  copy is never sent.
* With two domain workers a deleted and recreated request may be completed by a worker that holds an old lease with the
  same revision, because revisions restart at 1; the deployment runs one (`docs/application-architecture.md:57`), and the
  repair scan raises the request again.
* Money collected on a second intent is explored by `payments_extra` only, which stops at its violation.
* Alipay may answer PENDING about a refund it never saw; `LateMoneyReturns` is checked for NOT_FOUND (`UnknownRefund`).

Next, in this order:

1. The telemetry of a fallback and of two writers: what a dropped snapshot or a report written late leaves behind is made good by the
   next report (`TelemetryFlush` has both; no property states it yet).
2. `CommandLease`: several gateways on one outbox; standalone commands and their results.
3. The gate of `Production` from its parts (heartbeat, slot, busy), composed with `DeviceInbox` and `TelemetryFlush`.
4. Inventory movements and costs of a drink against revised recipes (`merchant/costs.py`).
