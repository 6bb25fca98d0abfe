------------------------------- MODULE Admission -------------------------------
(***************************************************************************)
(* Admission of orders to one machine: PublicOrderService.create and quote *)
(* (src/app/services/public_orders.py), the material commitments           *)
(* (src/app/material_commitments.py), the quote check                      *)
(* (src/app/customization.py), and the inventory snapshots and the version *)
(* watermark of DeviceMessageService (src/app/services/device_messages.py).*)
(*                                                                         *)
(* create holds the terminal row; its reads are statements of their own at *)
(* READ COMMITTED, so snapshots, device events, cancellations and price    *)
(* changes commit between them. What an order goes through afterwards is   *)
(* the subject of Production and Payments: here WAITING stands for an      *)
(* order that is not sent yet, paid or not, DISPATCHED for one whose       *)
(* command may have reached the machine (HOLD too), ENDED for the rest.    *)
(***************************************************************************)
EXTENDS Naturals, FiniteSets, FiniteSetsExt

CONSTANTS
    Clients,       \* API threads serving customers
    Keys,          \* idempotency keys, and with them orders
    Products, Materials,
    Recipe,        \* what the machine uses for a product
    Declared,      \* products whose capability lists materialRequirements
    Customizable,  \* products with an option schema: a quote is required
    Quoted,        \* bound: products that customers get a quote for
    QueueLimit,    \* public_order_queue_limit
    InitialStock,
    MaxPrice,      \* bound: prices each product goes through
    MaxVersion,    \* bound: changes of the stock
    MaxWrittenOff  \* bound: orders ended by an operator

None == "none"

ASSUME AdmissionConstants ==
    /\ None \notin Clients /\ None \notin Keys /\ IsFiniteSet(Keys)
    /\ Recipe \in [Products -> [Materials -> Nat]]
    /\ Declared \subseteq Products /\ Customizable \subseteq Declared /\ Quoted \subseteq Products
    /\ \A p \in Products : \E m \in Materials : Recipe[p][m] > 0
    /\ InitialStock \in [Materials -> Nat]
    /\ MaxPrice \in [Products -> Nat \ {0}]
    /\ {QueueLimit, MaxVersion, MaxWrittenOff} \subseteq Nat

VARIABLES
    stock,      \* on the machine: [Materials -> Nat] at each of its versions
    reports,    \* events on their way: a task, or None for inventory.*, and the version
    inventory,  \* terminal_snapshot: the version of the stored inventory
    watermark,  \* terminal_material_watermark
    price,
    order,      \* sales_order by idempotency key
    made,       \* orders the machine is done with
    lock,       \* who holds the terminal row
    client,
    answer,     \* the request last answered with an order, if any
    writtenOff  \* orders an operator ended while the machine might make them

machine == <<stock, reports, made>>
cloud == <<inventory, watermark, price, order, writtenOff>>
threads == <<lock, client, answer>>
vars == <<machine, cloud, threads>>

Active == {"WAITING", "DISPATCHED"}
Version == DOMAIN stock
Current == Cardinality(Version) - 1

Prices == 1 .. Max({MaxPrice[p] : p \in Products})
Request ==
    {r \in [key : Keys, product : Products, quote : {0} \cup Prices] :
        r.quote # 0 => r.product \in Quoted}
Idle == [pc |-> "idle"]
Committed == {k \in Keys : order[k].status \in Active}

\* What some of the orders use of a material, added up: the number of its units.
Portions(rows, orders, m) == UNION {{k} \X (1 .. Recipe[rows[k].product][m]) : k \in orders}
Needs(rows, orders, m) == Cardinality(Portions(rows, orders, m))

TypeOK ==
    /\ Version = 0 .. Current /\ Current <= MaxVersion
    /\ stock \in [Version -> [Materials -> Nat]]
    /\ reports \subseteq [task : Keys \cup {None}, version : Version]
    /\ inventory \in Version /\ watermark \in Version
    /\ price \in [Products -> Prices]
    /\ \A k \in Keys :
          \/ order[k] = [status |-> None]
          \/ order[k] \in [status : Active \cup {"ENDED"}, product : Products,
                           quote : {0} \cup Prices, price : Prices]
    /\ made \subseteq Keys /\ writtenOff \subseteq Keys
    /\ \A k \in made \cup writtenOff : order[k].status # None
    /\ lock \in Clients \cup {None}
    /\ \A c \in Clients :
          \/ client[c] = Idle
          \/ client[c].pc \in {"priced", "stocked", "committed"}
             /\ client[c].request \in Request
    /\ answer \subseteq Request

Init ==
    /\ stock = [v \in {0} |-> InitialStock]
    /\ reports = {} /\ made = {} /\ writtenOff = {}
    /\ inventory = 0 /\ watermark = 0
    /\ price = [p \in Products |-> 1]
    /\ order = [k \in Keys |-> [status |-> None]]
    /\ lock = None
    /\ client = [c \in Clients |-> Idle] /\ answer = {}

-----------------------------------------------------------------------------
(* create *)

\* find(..., for_update=True): select ... for no key update.
LockFree == lock = None

SameKey(k, request) == TRUE

\* request_digest: the recipe, its options and the quote.
SameRequest(k, request) ==
    order[k].product = request.product /\ order[k].quote = request.quote

\* A request takes the row, finds no order under its key and reads the price of
\* the capability, or the merchant's for it. (Nothing else that is read depends
\* on the price, so the two reads are one step.) A quote was issued for a price
\* the product had at some time.
Begin(c, request) ==
    /\ client[c] = Idle
    /\ request.quote <= price[request.product]
    /\ order[request.key].status = None
    /\ LockFree /\ lock' = c
    /\ client' = [client EXCEPT ![c] = [pc |-> "priced", request |-> request,
                                        price |-> price[request.product]]]
    /\ UNCHANGED <<machine, cloud, answer>>

\* The key has an order: answered from it, or refused with a conflict.
Repeat(c, request) ==
    /\ client[c] = Idle
    /\ LockFree
    /\ order[request.key].status # None
    /\ SameRequest(request.key, request)
    /\ answer' = {request}
    /\ UNCHANGED <<machine, cloud, lock, client>>

ReadInventory(c) ==
    /\ client[c].pc = "priced"
    /\ client' = [client EXCEPT ![c] = [pc |-> "stocked", request |-> client[c].request,
                                        price |-> client[c].price, version |-> inventory]]
    /\ UNCHANGED <<machine, cloud, lock, answer>>

ReadCommitments(c) ==
    /\ client[c].pc = "stocked"
    /\ client' = [client EXCEPT ![c] = [pc |-> "committed", request |-> client[c].request,
                                        price |-> client[c].price, version |-> client[c].version,
                                        orders |-> {order[k].product : k \in Committed},
                                        demand |-> [m \in Materials |->
                                            Needs(order, {k \in Committed : order[k].product \in Declared},
                                                  m)]]]
    /\ UNCHANGED <<machine, cloud, lock, answer>>

\* apply_commitments: at least one serving is left.
Serves(c, p) ==
    /\ client[c].orders \subseteq Declared
    /\ p \in Declared \/ client[c].orders = {}
    /\ p \in Declared =>
          \A m \in Materials :
             Recipe[p][m] > 0 =>
                client[c].demand[m] + Recipe[p][m] <= stock[client[c].version][m]

\* INVENTORY_SYNC_PENDING unless the snapshot is as new as the watermark, which
\* is read last.
Synced(version) == version >= watermark

\* check_quote: a quote is needed for options, and one given must still hold.
QuoteHolds(request, current) ==
    IF request.quote = 0 THEN request.product \notin Customizable ELSE request.quote = current

\* active_count
HasRoom == Cardinality(Committed) < QueueLimit

\* The watermark, the quote and the queue length, then the insert and the commit.
Admit(c) ==
    LET request == client[c].request IN
    /\ client[c].pc = "committed"
    /\ Synced(client[c].version)
    /\ Serves(c, request.product)
    /\ QuoteHolds(request, client[c].price)
    /\ HasRoom
    /\ order[request.key].status = None
    /\ order' = [order EXCEPT ![request.key] =
                    [status |-> "WAITING", product |-> request.product,
                     quote |-> request.quote, price |-> client[c].price]]
    /\ lock' = None
    /\ client' = [client EXCEPT ![c] = Idle]
    /\ answer' = {request}
    /\ UNCHANGED <<machine, inventory, watermark, price, writtenOff>>

\* Any refusal (the conditions above, the payment mode, an offline or inactive
\* machine, an occupied slot, an expired quote), or the process dies.
Abort(c) ==
    /\ client[c].pc \in {"priced", "stocked", "committed"}
    /\ lock' = None
    /\ client' = [client EXCEPT ![c] = Idle]
    /\ UNCHANGED <<machine, cloud, answer>>

-----------------------------------------------------------------------------
(* What happens to an admitted order *)

Moved(k, from, to) ==
    /\ order[k].status \in from
    /\ order' = [order EXCEPT ![k].status = to]

\* A paid or free order; the dispatcher's transaction holds the terminal row.
Dispatch(k) ==
    /\ lock = None
    /\ \A j \in Keys : order[j].status # "DISPATCHED"
    /\ Moved(k, {"WAITING"}, "DISPATCHED")
    /\ UNCHANGED <<machine, inventory, watermark, price, writtenOff, threads>>

\* Cancelled by the customer, expired unpaid, or expired before it was sent.
Withdraw(k) ==
    /\ Moved(k, {"WAITING"}, "ENDED")
    /\ UNCHANGED <<machine, inventory, watermark, price, writtenOff, threads>>

\* adjudicate: an operator ends an order on hold; the machine is not asked.
Adjudicate(k) ==
    /\ Cardinality(writtenOff) < MaxWrittenOff
    /\ Moved(k, {"DISPATCHED"}, "ENDED")
    /\ writtenOff' = writtenOff \cup {k}
    /\ UNCHANGED <<machine, inventory, watermark, price, threads>>

WatermarkLast(version) == version

\* greatest(inventory_version, excluded.inventory_version)
Watermark(version) == IF version > watermark THEN version ELSE watermark

\* One transaction: the final event's order and its version.
Event(r) ==
    /\ r \in reports /\ reports' = reports \ {r}
    /\ watermark' = Watermark(r.version)
    /\ order' = [k \in Keys |-> IF k = r.task /\ order[k].status = "DISPATCHED"
                                THEN [order[k] EXCEPT !.status = "ENDED"] ELSE order[k]]
    /\ UNCHANGED <<stock, made, inventory, price, writtenOff, threads>>

\* An inventory snapshot arrives, however late: upsert_snapshot compares nothing.
Snapshot(version) ==
    /\ inventory' = version
    /\ inventory # version
    /\ UNCHANGED <<machine, watermark, price, order, writtenOff, threads>>

\* A capability snapshot or a merchant's price.
Reprice(p) ==
    /\ price[p] < MaxPrice[p]
    /\ price' = [price EXCEPT ![p] = @ + 1]
    /\ UNCHANGED <<machine, inventory, watermark, order, writtenOff, threads>>

-----------------------------------------------------------------------------
(* The machine *)

\* Every change of the stock gets the next version and is reported with it.
Changed(amount, task) ==
    /\ Current < MaxVersion
    /\ stock' = [v \in 0 .. Current + 1 |-> IF v \in Version THEN stock[v] ELSE amount]
    /\ reports' = reports \cup {[task |-> task, version |-> Current + 1]}

HasCommand(k) == order[k].status = "DISPATCHED" \/ k \in writtenOff

\* The drink is made, or spoilt: its materials are used.
Make(k) ==
    /\ HasCommand(k) /\ k \notin made
    /\ \A m \in Materials : stock[Current][m] >= Recipe[order[k].product][m]
    /\ Changed([m \in Materials |-> stock[Current][m] - Recipe[order[k].product][m]], k)
    /\ made' = made \cup {k}
    /\ UNCHANGED <<cloud, threads>>

\* The machine gives up before it used anything.
Decline(k) ==
    /\ order[k].status = "DISPATCHED" /\ k \notin made
    /\ reports' = reports \cup {[task |-> k, version |-> Current]}
    /\ made' = made \cup {k}
    /\ UNCHANGED <<stock, cloud, threads>>

\* Material is only added by hand: what is taken out no cloud can promise.
Refill(m) ==
    /\ Changed([stock[Current] EXCEPT ![m] = @ + 1], None)
    /\ UNCHANGED <<made, cloud, threads>>

Next ==
    \/ \E c \in Clients :
          \/ \E request \in Request : Begin(c, request) \/ Repeat(c, request)
          \/ ReadInventory(c) \/ ReadCommitments(c)
          \/ Admit(c) \/ Abort(c)
    \/ \E k \in Keys : Dispatch(k) \/ Withdraw(k) \/ Adjudicate(k) \/ Make(k) \/ Decline(k)
    \/ \E r \in reports : Event(r)
    \/ \E v \in Version : Snapshot(v)
    \/ \E p \in Products : Reprice(p)
    \/ \E m \in Materials : Refill(m)

Spec == Init /\ [][Next]_vars

-----------------------------------------------------------------------------
(* Properties *)

\* Every admitted drink finds its materials on the machine, although admission
\* saw only a snapshot that may be late, out of order, or replaced between two
\* reads. The exception is what the cloud cannot know: orders an operator ended
\* while the machine still had them.
NeverOversold ==
    \A m \in Materials :
       Needs(order, {k \in Committed \ made : order[k].product \in Declared}, m)
          <= stock[Current][m] + Needs(order, writtenOff, m)

\* Under a key the customer gets the product asked for at the price confirmed,
\* over repeats, lost answers and price changes.
AnsweredAsAsked ==
    \A request \in answer :
       /\ order[request.key].product = request.product
       /\ request.quote # 0 => order[request.key].price = request.quote
       /\ request.product \in Customizable => request.quote # 0
=============================================================================
