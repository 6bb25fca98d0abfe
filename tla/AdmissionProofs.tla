--------------------------- MODULE AdmissionProofs ---------------------------
(***************************************************************************)
(* Two results about admission. The answer to a request names the product  *)
(* that was asked for, at the price the customer confirmed: for any number *)
(* of API threads, keys, products and price changes. And the machine never *)
(* runs out of the materials of an admitted order: for any recipes, stock, *)
(* number of orders, and lateness of snapshots and events.                 *)
(*                                                                         *)
(* An order is written once for its key, with the price the thread read at *)
(* the start, and check_quote compares the quote with that same price; of  *)
(* the columns used here nothing is written again. The second answer under *)
(* a key is given only where the digest agrees. That the two threads of a  *)
(* key cannot both write is the terminal row lock and the unique key: the  *)
(* guard of Admit.                                                         *)
(***************************************************************************)
EXTENDS Admission, FiniteSetTheorems, TLAPS

(* A row of sales_order with all of its columns.                           *)
IsOrder(row) ==
    row = [status |-> row.status, product |-> row.product,
           quote |-> row.quote, price |-> row.price]

(* Rows by key, and what a thread keeps of its request.                    *)
RowShape ==
    /\ order = [k \in Keys |-> order[k]]
    /\ \A k \in Keys : order[k].status # None => IsOrder(order[k])
    /\ client = [c \in Clients |-> client[c]]
    /\ \A c \in Clients : client[c] # Idle => client[c].request \in Request

(* Every order carries the price of its quote, and a quote if the product  *)
(* has options.                                                            *)
PricedAsQuoted ==
    \A k \in Keys : order[k].status # None =>
        /\ order[k].quote # 0 => order[k].price = order[k].quote
        /\ order[k].product \in Customizable => order[k].quote # 0

(* The order that answered a request keeps the columns of its digest.      *)
AnswerMatches ==
    \A request \in answer :
        /\ request \in Request
        /\ order[request.key].status # None
        /\ SameRequest(request.key, request)

AnswerInv == RowShape /\ PricedAsQuoted /\ AnswerMatches

(* What the digest and the quote are about stays when an order moves on.   *)
KeepsColumns(old, new) ==
    /\ new.status # None
    /\ IsOrder(new)
    /\ new.product = old.product /\ new.quote = old.quote /\ new.price = old.price

LEMMA MovedKeepsColumns ==
    ASSUME RowShape, NEW k \in Keys, NEW from, NEW to, to # None, None \notin from,
           Moved(k, from, to)
    PROVE  /\ order' = [j \in Keys |-> order'[j]]
           /\ \A j \in Keys : order'[j] = order[j] \/ KeepsColumns(order[j], order'[j])
           /\ order[k].status # None
           /\ \A j \in Keys : j # k => order'[j] = order[j]
<1>1. order[k].status # None /\ IsOrder(order[k])
  BY DEF Moved, RowShape
<1>2. order' = [order EXCEPT ![k] = [order[k] EXCEPT !.status = to]]
  BY DEF Moved
<1>3. order'[k] = [order[k] EXCEPT !.status = to]
  BY <1>2 DEF RowShape
<1>4. order'[k] = [status |-> to, product |-> order[k].product,
                   quote |-> order[k].quote, price |-> order[k].price]
  BY <1>1, <1>3 DEF IsOrder
<1>5. KeepsColumns(order[k], order'[k])
  BY <1>4 DEF KeepsColumns, IsOrder
<1> QED BY <1>1, <1>2, <1>5 DEF RowShape

(* A step that only moves orders on, and leaves threads and answers alone. *)
LEMMA MovingOnKeepsAnswers ==
    ASSUME AnswerInv, UNCHANGED <<client, answer>>,
           order' = [j \in Keys |-> order'[j]],
           \A j \in Keys : \/ order'[j] = order[j]
                           \/ order[j].status # None /\ KeepsColumns(order[j], order'[j])
    PROVE  AnswerInv'
<1>1. RowShape'
  BY DEF AnswerInv, RowShape, KeepsColumns
<1>2. PricedAsQuoted'
  BY DEF AnswerInv, PricedAsQuoted, KeepsColumns
<1>3. AnswerMatches'
  <2> SUFFICES ASSUME NEW request \in answer
               PROVE  /\ request \in Request
                      /\ order'[request.key].status # None
                      /\ order'[request.key].product = request.product
                      /\ order'[request.key].quote = request.quote
    BY DEF AnswerMatches, SameRequest
  <2>1. /\ request \in Request /\ order[request.key].status # None
        /\ order[request.key].product = request.product
        /\ order[request.key].quote = request.quote
    BY DEF AnswerInv, AnswerMatches, SameRequest
  <2>2. request.key \in Keys
    BY <2>1 DEF Request
  <2> QED BY <2>1, <2>2 DEF KeepsColumns
<1> QED BY <1>1, <1>2, <1>3 DEF AnswerInv

(* A thread that reads on, or gives up, writes no order.                   *)
LEMMA ReadingKeepsAnswers ==
    ASSUME AnswerInv, UNCHANGED <<order, answer>>,
           client' = [c \in Clients |-> client'[c]],
           \A c \in Clients : client'[c] # Idle => client'[c].request \in Request
    PROVE  AnswerInv'
  BY DEF AnswerInv, RowShape, PricedAsQuoted, AnswerMatches, SameRequest

LEMMA AnswersHold == Spec => []AnswerInv
<1>1. Init => AnswerInv
  BY DEF Init, AnswerInv, RowShape, PricedAsQuoted, AnswerMatches, Idle
<1>2. AnswerInv /\ [Next]_vars => AnswerInv'
  <2> SUFFICES ASSUME AnswerInv, [Next]_vars PROVE AnswerInv'
    OBVIOUS
  <2> USE DEF machine, cloud, threads
  <2>1. ASSUME NEW c \in Clients, NEW request \in Request, Begin(c, request)
        PROVE  AnswerInv'
    <3>1. client' = [client EXCEPT ![c] = [pc |-> "priced", request |-> request,
                                           price |-> price[request.product]]]
      BY <2>1 DEF Begin
    <3> QED BY <2>1, <3>1, ReadingKeepsAnswers DEF Begin, AnswerInv, RowShape
  <2>2. ASSUME NEW c \in Clients, NEW request \in Request, Repeat(c, request)
        PROVE  AnswerInv'
    BY <2>2 DEF Repeat, AnswerInv, RowShape, PricedAsQuoted, AnswerMatches, SameRequest
  <2>3. ASSUME NEW c \in Clients, ReadInventory(c)
        PROVE  AnswerInv'
    <3>1. client[c].request \in Request
      BY <2>3 DEF ReadInventory, Idle, AnswerInv, RowShape
    <3>2. \E entry : entry.request = client[c].request
                     /\ client' = [client EXCEPT ![c] = entry]
      BY <2>3 DEF ReadInventory
    <3> QED BY <2>3, <3>1, <3>2, ReadingKeepsAnswers DEF ReadInventory, AnswerInv, RowShape
  <2>4. ASSUME NEW c \in Clients, ReadCommitments(c)
        PROVE  AnswerInv'
    <3>1. client[c].request \in Request
      BY <2>4 DEF ReadCommitments, Idle, AnswerInv, RowShape
    <3>2. \E entry : entry.request = client[c].request
                     /\ client' = [client EXCEPT ![c] = entry]
      BY <2>4 DEF ReadCommitments
    <3> QED BY <2>4, <3>1, <3>2, ReadingKeepsAnswers DEF ReadCommitments, AnswerInv, RowShape
  <2>5. ASSUME NEW c \in Clients, Admit(c)
        PROVE  AnswerInv'
    <3> DEFINE request == client[c].request
               new == [status |-> "WAITING", product |-> request.product,
                       quote |-> request.quote, price |-> client[c].price]
    <3>1. request \in Request
      BY <2>5 DEF Admit, Idle, AnswerInv, RowShape
    <3>2. request.key \in Keys /\ order[request.key].status = None
      BY <2>5, <3>1 DEF Admit, Request
    <3>3. /\ order' = [order EXCEPT ![request.key] = new]
          /\ client' = [client EXCEPT ![c] = Idle]
          /\ answer' = {request}
          /\ QuoteHolds(request, client[c].price)
      BY <2>5 DEF Admit
    <3>4. IsOrder(new) /\ new.status # None
      BY DEF IsOrder, None
    <3>5. order' = [k \in Keys |-> IF k = request.key THEN new ELSE order[k]]
      BY <3>2, <3>3 DEF AnswerInv, RowShape
    <3>6. RowShape'
      BY <3>3, <3>4, <3>5 DEF AnswerInv, RowShape
    <3>7. PricedAsQuoted'
      BY <3>3, <3>5 DEF AnswerInv, PricedAsQuoted, QuoteHolds
    <3>8. AnswerMatches'
      BY <3>1, <3>2, <3>3, <3>5 DEF AnswerMatches, SameRequest, None
    <3> QED BY <3>6, <3>7, <3>8 DEF AnswerInv
  <2>6. ASSUME NEW c \in Clients, Abort(c)
        PROVE  AnswerInv'
    BY <2>6, ReadingKeepsAnswers DEF Abort, AnswerInv, RowShape
  <2>7. ASSUME NEW k \in Keys, Dispatch(k) \/ Withdraw(k) \/ Adjudicate(k)
        PROVE  AnswerInv'
    <3>1. \/ Moved(k, {"WAITING"}, "DISPATCHED")
          \/ Moved(k, {"WAITING"}, "ENDED")
          \/ Moved(k, {"DISPATCHED"}, "ENDED")
      BY <2>7 DEF Dispatch, Withdraw, Adjudicate
    <3>2. /\ order' = [j \in Keys |-> order'[j]]
          /\ \A j \in Keys : order'[j] = order[j] \/ KeepsColumns(order[j], order'[j])
          /\ order[k].status # None
          /\ \A j \in Keys : j # k => order'[j] = order[j]
      BY <3>1, MovedKeepsColumns DEF AnswerInv, None
    <3>3. UNCHANGED <<client, answer>>
      BY <2>7 DEF Dispatch, Withdraw, Adjudicate
    <3> QED BY <3>2, <3>3, MovingOnKeepsAnswers
  <2>8. ASSUME NEW r \in reports, Event(r)
        PROVE  AnswerInv'
    <3>1. order' = [k \in Keys |-> IF k = r.task /\ order[k].status = "DISPATCHED"
                                   THEN [order[k] EXCEPT !.status = "ENDED"] ELSE order[k]]
      BY <2>8 DEF Event
    <3>2. ASSUME NEW k \in Keys, order'[k] # order[k]
          PROVE  order[k].status # None /\ KeepsColumns(order[k], order'[k])
      <4>1. /\ order[k].status = "DISPATCHED"
            /\ order'[k] = [order[k] EXCEPT !.status = "ENDED"]
        BY <3>1, <3>2
      <4>2. IsOrder(order[k])
        BY <4>1 DEF AnswerInv, RowShape, None
      <4>3. order'[k] = [status |-> "ENDED", product |-> order[k].product,
                         quote |-> order[k].quote, price |-> order[k].price]
        BY <4>1, <4>2 DEF IsOrder
      <4> QED BY <4>1, <4>3 DEF KeepsColumns, IsOrder, None
    <3>3. UNCHANGED <<client, answer>>
      BY <2>8 DEF Event
    <3>4. order' = [j \in Keys |-> order'[j]]
      BY <3>1
    <3> QED BY <3>2, <3>3, <3>4, MovingOnKeepsAnswers
  <2>9. ASSUME UNCHANGED <<order, client, answer>>
        PROVE  AnswerInv'
    BY <2>9, ReadingKeepsAnswers DEF AnswerInv, RowShape
  <2>10. ASSUME NEW k \in Keys, Make(k) \/ Decline(k)
         PROVE  AnswerInv'
    BY <2>9, <2>10 DEF Make, Decline
  <2>11. ASSUME \/ \E v \in Version : Snapshot(v)
                \/ \E p \in Products : Reprice(p)
                \/ \E m \in Materials : Refill(m)
                \/ UNCHANGED vars
         PROVE  AnswerInv'
    BY <2>9, <2>11 DEF Snapshot, Reprice, Refill, vars
  <2> QED
    BY <2>1, <2>2, <2>3, <2>4, <2>5, <2>6, <2>7, <2>8, <2>10, <2>11 DEF Next
<1> QED BY <1>1, <1>2, PTL DEF Spec

(* Whatever the interleaving of threads, price changes, repeats and lost   *)
(* answers, PublicOrderService.create answers a request with an order for  *)
(* the product asked for, at the price of its quote.                       *)
THEOREM AlwaysAnsweredAsAsked == Spec => []AnsweredAsAsked
<1>1. AnswerInv => AnsweredAsAsked
  <2> SUFFICES ASSUME AnswerInv, NEW request \in answer
               PROVE  /\ order[request.key].product = request.product
                      /\ request.quote # 0 => order[request.key].price = request.quote
                      /\ request.product \in Customizable => request.quote # 0
    BY DEF AnsweredAsAsked
  <2>1. request.key \in Keys
    BY DEF AnswerInv, AnswerMatches, Request
  <2> QED BY <2>1 DEF AnswerInv, AnswerMatches, PricedAsQuoted, SameRequest
<1> QED BY <1>1, AnswersHold, PTL

-----------------------------------------------------------------------------
(* What orders use, added up                                               *)

LEMMA PortionsMember ==
    ASSUME NEW rows, NEW orders, NEW m, NEW u
    PROVE  u \in Portions(rows, orders, m) <=>
             \E k \in orders : \E i \in 1 .. Recipe[rows[k].product][m] : u = <<k, i>>
  BY DEF Portions

LEMMA NeedsFinite ==
    ASSUME NEW rows, NEW orders \in SUBSET Keys, NEW m \in Materials,
           \A k \in orders : rows[k].product \in Products
    PROVE  IsFiniteSet(Portions(rows, orders, m)) /\ Needs(rows, orders, m) \in Nat
<1> DEFINE part(k) == {k} \X (1 .. Recipe[rows[k].product][m])
           parts == {part(k) : k \in orders}
<1>1. IsFiniteSet(orders)
  BY AdmissionConstants, FS_Subset
<1>2. [k \in orders |-> part(k)] \in Surjection(orders, parts)
  BY DEF Surjection
<1>3. IsFiniteSet(parts)
  <2> HIDE DEF part, parts
  <2> QED BY <1>1, <1>2, FS_Surjection
<1>4. ASSUME NEW part1 \in parts
      PROVE  IsFiniteSet(part1)
  <2>1. PICK k \in orders : part1 = part(k)
    BY <1>4
  <2>2. Recipe[rows[k].product][m] \in Nat
    BY AdmissionConstants
  <2>3. 1 \in Int /\ Recipe[rows[k].product][m] \in Int
    BY <2>2
  <2>4. IsFiniteSet(1 .. Recipe[rows[k].product][m])
    BY <2>3, FS_Interval
  <2>5. IsFiniteSet({k})
    BY FS_Singleton
  <2> QED BY <2>1, <2>4, <2>5, FS_Product
<1>5. IsFiniteSet(UNION parts)
  <2> HIDE DEF parts
  <2> QED BY <1>3, <1>4, FS_UNION
<1>6. IsFiniteSet(Portions(rows, orders, m))
  BY <1>5 DEF Portions
<1> QED BY <1>6, FS_CardinalityType DEF Needs

LEMMA NeedsNothing ==
    ASSUME NEW rows, NEW m
    PROVE  Needs(rows, {}, m) = 0
<1>1. Portions(rows, {}, m) = {}
  BY DEF Portions
<1> QED BY <1>1, FS_EmptySet DEF Needs

LEMMA NeedsMonotone ==
    ASSUME NEW rows, NEW more \in SUBSET Keys, NEW orders \in SUBSET more, NEW m \in Materials,
           \A k \in more : rows[k].product \in Products
    PROVE  Needs(rows, orders, m) <= Needs(rows, more, m)
<1>1. Portions(rows, orders, m) \subseteq Portions(rows, more, m)
  BY PortionsMember
<1>2. IsFiniteSet(Portions(rows, more, m))
  BY NeedsFinite
<1> QED BY <1>1, <1>2, FS_Subset DEF Needs

LEMMA NeedsApart ==
    ASSUME NEW rows, NEW some \in SUBSET Keys, NEW others \in SUBSET Keys, NEW m \in Materials,
           some \cap others = {},
           \A k \in some \cup others : rows[k].product \in Products
    PROVE  Needs(rows, some \cup others, m) = Needs(rows, some, m) + Needs(rows, others, m)
<1>1. Portions(rows, some \cup others, m) = Portions(rows, some, m) \cup Portions(rows, others, m)
  <2>1. ASSUME NEW u
        PROVE  u \in Portions(rows, some \cup others, m)
                 <=> u \in Portions(rows, some, m) \cup Portions(rows, others, m)
    BY PortionsMember
  <2> QED BY <2>1
<1>2. Portions(rows, some, m) \cap Portions(rows, others, m) = {}
  <2>1. ASSUME NEW u, u \in Portions(rows, some, m), u \in Portions(rows, others, m)
        PROVE  FALSE
    <3>1. PICK k \in some : \E i \in 1 .. Recipe[rows[k].product][m] : u = <<k, i>>
      BY <2>1, PortionsMember
    <3>2. PICK j \in others : \E i \in 1 .. Recipe[rows[j].product][m] : u = <<j, i>>
      BY <2>1, PortionsMember
    <3>3. k = j
      BY <3>1, <3>2
    <3> QED BY <3>3
  <2> QED BY <2>1
<1>3. /\ IsFiniteSet(Portions(rows, some, m)) /\ Needs(rows, some, m) \in Nat
      /\ IsFiniteSet(Portions(rows, others, m)) /\ Needs(rows, others, m) \in Nat
  BY NeedsFinite
<1>4. Cardinality(Portions(rows, some, m) \cap Portions(rows, others, m)) = 0
  BY <1>2, FS_EmptySet
<1>5. Cardinality(Portions(rows, some, m) \cup Portions(rows, others, m))
        = Cardinality(Portions(rows, some, m)) + Cardinality(Portions(rows, others, m))
            - Cardinality(Portions(rows, some, m) \cap Portions(rows, others, m))
  BY <1>3, FS_Union
<1>6. /\ Needs(rows, some \cup others, m) = Cardinality(Portions(rows, some, m) \cup Portions(rows, others, m))
      /\ Needs(rows, some, m) = Cardinality(Portions(rows, some, m))
      /\ Needs(rows, others, m) = Cardinality(Portions(rows, others, m))
  BY <1>1, Zenon DEF Needs
<1> QED BY <1>3, <1>4, <1>5, <1>6

LEMMA NeedsOne ==
    ASSUME NEW rows, NEW k \in Keys, NEW m \in Materials, rows[k].product \in Products
    PROVE  Needs(rows, {k}, m) = Recipe[rows[k].product][m]
<1> DEFINE n == Recipe[rows[k].product][m]
<1>1. Portions(rows, {k}, m) = {k} \X (1 .. n)
  BY DEF Portions
<1>2. n \in Nat
  BY AdmissionConstants
<1>3. 1 \in Int /\ n \in Int
  BY <1>2
<1>4. IsFiniteSet(1 .. n) /\ Cardinality(1 .. n) = n
  <2> HIDE DEF n
  <2>1. IsFiniteSet(1 .. n)
    BY <1>3, FS_Interval
  <2>2. Cardinality(1 .. n) = IF 1 > n THEN 0 ELSE n - 1 + 1
    BY <1>3, FS_Interval
  <2> QED BY <1>2, <2>1, <2>2
<1>5. IsFiniteSet({k}) /\ Cardinality({k}) = 1
  BY FS_Singleton
<1>6. Cardinality({k} \X (1 .. n)) = Cardinality({k}) * Cardinality(1 .. n)
  <2> HIDE DEF n
  <2> QED BY <1>4, <1>5, FS_Product, Zenon
<1>7. Needs(rows, {k}, m) = 1 * n
  BY <1>1, <1>4, <1>5, <1>6, Zenon DEF Needs
<1> QED BY <1>2, <1>7

LEMMA NeedsSame ==
    ASSUME NEW rows, NEW other, NEW orders, NEW m,
           \A k \in orders : rows[k].product = other[k].product
    PROVE  Needs(rows, orders, m) = Needs(other, orders, m)
<1>1. {{k} \X (1 .. Recipe[rows[k].product][m]) : k \in orders}
        = {{k} \X (1 .. Recipe[other[k].product][m]) : k \in orders}
  OBVIOUS
<1> QED BY <1>1 DEF Needs, Portions

-----------------------------------------------------------------------------
(* The materials of admitted orders                                        *)
(*                                                                         *)
(* A snapshot may be old, but what the machine used since then is known:   *)
(* either the watermark has heard of it, and admission waits for a newer   *)
(* snapshot, or the event that reports it is still on its way, and then    *)
(* its order is still counted among the commitments, or an operator ended  *)
(* it.                                                                     *)

DeclaredOf(orders) == {k \in orders : order[k].product \in Declared}

(* Orders whose use of materials after a version is not reported yet.      *)
Unreported(version) ==
    {k \in Keys : \E r \in reports : r.task = k /\ r.version > version}

StockTyped ==
    /\ Current \in Nat /\ Version = 0 .. Current
    /\ stock \in [Version -> [Materials -> Nat]]
    /\ watermark \in Version /\ inventory \in Version
    /\ \A r \in reports : r.version \in Version
    /\ made \subseteq Keys /\ writtenOff \subseteq Keys
    /\ \A k \in made \cup writtenOff : order[k].status # None
    /\ \A k \in Keys : order[k].status # None => order[k].product \in Products

(* What a thread has read under the row lock is an upper bound: only it    *)
(* could add a commitment.                                                 *)
CommitmentsRead(c) ==
    /\ \A k \in Committed : order[k].product \in client[c].orders
    /\ \A m \in Materials :
          /\ client[c].demand[m] \in Nat
          /\ Needs(order, DeclaredOf(Committed), m) <= client[c].demand[m]

ThreadsTyped ==
    \A c \in Clients :
        /\ client[c] # Idle => lock = c
        /\ client[c].pc \in {"stocked", "committed"} => client[c].version \in Version
        /\ client[c].pc = "committed" => CommitmentsRead(c)

(* A report is the only one of its order, and until it is handled the      *)
(* order stays sent, unless an operator ends it.                           *)
ReportsOpen ==
    \A r \in reports :
        r.task # None =>
            /\ r.task \in made
            /\ order[r.task].status = "DISPATCHED" \/ r.task \in writtenOff
            /\ \A other \in reports : other.task = r.task => other = r

UsedSince ==
    \A v \in Version, m \in Materials :
        v >= watermark =>
            stock[v][m] <= stock[Current][m] + Needs(order, Unreported(v), m)

(* Without declared amounts a machine takes one order at a time.           *)
UndeclaredAlone ==
    \A k \in Committed : order[k].product \notin Declared => Committed = {k}

(* NeverOversold, with only what the machine has made of the orders that   *)
(* were written off.                                                       *)
Enough ==
    \A m \in Materials :
        Needs(order, DeclaredOf(Committed \ made), m)
            <= stock[Current][m] + Needs(order, writtenOff \cap made, m)

MaterialInv ==
    StockTyped /\ ThreadsTyped /\ ReportsOpen /\ UsedSince /\ UndeclaredAlone /\ Enough

LEMMA MaterialInit == Init => MaterialInv
<1> SUFFICES ASSUME Init PROVE MaterialInv
  OBVIOUS
<1> USE DEF Init
<1>1. Version = {0}
  BY DEF Version
<1>2. Current = 0
  <2>1. Cardinality(Version) = 1
    BY <1>1, FS_Singleton
  <2> QED BY <2>1 DEF Current
<1>3. Committed = {}
  BY DEF Committed, Active, None
<1>4. StockTyped
  BY <1>1, <1>2, AdmissionConstants DEF StockTyped
<1>5. ThreadsTyped
  BY DEF ThreadsTyped, Idle
<1>6. UsedSince
  <2> SUFFICES ASSUME NEW m \in Materials
               PROVE  stock[0][m] <= stock[0][m] + Needs(order, Unreported(0), m)
    BY <1>1, <1>2 DEF UsedSince
  <2>1. Unreported(0) = {}
    BY DEF Unreported
  <2>2. Needs(order, Unreported(0), m) = 0
    BY <2>1, NeedsNothing
  <2>3. stock[0][m] \in Nat
    BY AdmissionConstants
  <2> QED BY <2>2, <2>3
<1>7. Enough
  <2> SUFFICES ASSUME NEW m \in Materials
               PROVE  Needs(order, DeclaredOf(Committed \ made), m)
                        <= stock[Current][m] + Needs(order, writtenOff \cap made, m)
    BY DEF Enough
  <2>1. DeclaredOf(Committed \ made) = {} /\ writtenOff \cap made = {}
    BY <1>3 DEF DeclaredOf
  <2>2. /\ Needs(order, DeclaredOf(Committed \ made), m) = 0
        /\ Needs(order, writtenOff \cap made, m) = 0
    BY <2>1, NeedsNothing
  <2>3. stock[Current][m] \in Nat
    BY <1>2, AdmissionConstants
  <2> QED BY <2>2, <2>3
<1> QED BY <1>3, <1>4, <1>5, <1>6, <1>7 DEF MaterialInv, ReportsOpen, UndeclaredAlone

(* All orders that count have a product.                                   *)
LEMMA ProductsKnown ==
    ASSUME StockTyped, NEW orders \in SUBSET (Committed \cup made \cup writtenOff)
    PROVE  /\ orders \in SUBSET Keys
           /\ \A k \in orders : order[k].product \in Products
  BY DEF StockTyped, Committed, Active, None

(* Steps that read, or change a snapshot or a price.                       *)
LEMMA ReadingStep ==
    ASSUME MaterialInv, UNCHANGED <<machine, watermark, order, writtenOff>>,
           inventory' \in Version, ThreadsTyped'
    PROVE  MaterialInv'
<1>1. UNCHANGED <<stock, reports, made>>
  BY DEF machine
<1>2. Version' = Version /\ Current' = Current /\ Committed' = Committed
  BY <1>1 DEF Version, Current, Committed
<1>3. StockTyped' /\ ReportsOpen'
  BY <1>1, <1>2 DEF MaterialInv, StockTyped, ReportsOpen
<1>4. UsedSince'
  BY <1>1, <1>2 DEF MaterialInv, UsedSince, Unreported, Needs, Portions
<1>5. UndeclaredAlone' /\ Enough'
  BY <1>1, <1>2 DEF MaterialInv, UndeclaredAlone, Enough, DeclaredOf, Needs, Portions
<1> QED BY <1>3, <1>4, <1>5 DEF MaterialInv

(* A thread that holds the row, or takes it, is the only one at work.      *)
LEMMA OneThread ==
    ASSUME MaterialInv, RowShape, NEW c \in Clients, lock \in {c, None}, NEW entry,
           client' = [client EXCEPT ![c] = entry],
           UNCHANGED <<machine, inventory, watermark, order, writtenOff>>,
           entry # Idle => lock' = c,
           entry.pc \in {"stocked", "committed"} => entry.version \in Version,
           entry.pc = "committed" => CommitmentsRead(c)'
    PROVE  MaterialInv'
<1>1. inventory' \in Version
  BY DEF MaterialInv, StockTyped
<1>2. Version' = Version
  BY DEF Version, machine
<1>3. ASSUME NEW d \in Clients, d # c
      PROVE  client'[d] = Idle
  BY <1>3, AdmissionConstants DEF MaterialInv, ThreadsTyped, RowShape
<1>4. client'[c] = entry
  BY DEF RowShape
<1>5. ThreadsTyped'
  <2> SUFFICES ASSUME NEW d \in Clients
               PROVE  /\ client'[d] # Idle => lock' = d
                      /\ client'[d].pc \in {"stocked", "committed"} => client'[d].version \in Version
                      /\ client'[d].pc = "committed" => CommitmentsRead(d)'
    BY <1>2 DEF ThreadsTyped
  <2>1. CASE d = c
    BY <1>4, <2>1
  <2>2. CASE d # c
    BY <1>3, <2>2 DEF Idle
  <2> QED BY <2>1, <2>2
<1> QED BY <1>1, <1>5, ReadingStep

LEMMA ClientStep ==
    ASSUME MaterialInv, RowShape, NEW c \in Clients,
           \/ \E request \in Request : Begin(c, request) \/ Repeat(c, request)
           \/ ReadInventory(c) \/ ReadCommitments(c) \/ Abort(c)
    PROVE  MaterialInv'
<1> USE DEF machine, cloud
<1>1. ASSUME NEW request \in Request, Begin(c, request)
      PROVE  MaterialInv'
  <2> DEFINE entry == [pc |-> "priced", request |-> request, price |-> price[request.product]]
  <2>1. client' = [client EXCEPT ![c] = entry]
    BY <1>1 DEF Begin
  <2>2. entry.pc = "priced"
    OBVIOUS
  <2> HIDE DEF entry
  <2> QED BY <1>1, <2>1, <2>2, OneThread DEF Begin, LockFree
<1>2. ASSUME NEW request \in Request, Repeat(c, request)
      PROVE  MaterialInv'
  <2>1. UNCHANGED <<lock, client, order, made, stock, reports, inventory, watermark, writtenOff>>
    BY <1>2 DEF Repeat
  <2>2. ThreadsTyped'
    BY <2>1 DEF MaterialInv, ThreadsTyped, CommitmentsRead, Committed, DeclaredOf, Version,
                Needs, Portions
  <2>3. inventory' \in Version
    BY <2>1 DEF MaterialInv, StockTyped
  <2> QED BY <2>1, <2>2, <2>3, ReadingStep
<1>3. ASSUME ReadInventory(c)
      PROVE  MaterialInv'
  <2> DEFINE entry == [pc |-> "stocked", request |-> client[c].request,
                       price |-> client[c].price, version |-> inventory]
  <2>1. client' = [client EXCEPT ![c] = entry]
    BY <1>3 DEF ReadInventory
  <2>2. entry.pc = "stocked" /\ entry.version = inventory
    OBVIOUS
  <2>3. lock = c /\ lock' = c
    BY <1>3 DEF ReadInventory, MaterialInv, ThreadsTyped, Idle
  <2>4. inventory \in Version
    BY DEF MaterialInv, StockTyped
  <2> HIDE DEF entry
  <2> QED BY <1>3, <2>1, <2>2, <2>3, <2>4, OneThread DEF ReadInventory
<1>4. ASSUME ReadCommitments(c)
      PROVE  MaterialInv'
  <2> DEFINE entry == [pc |-> "committed", request |-> client[c].request,
                       price |-> client[c].price, version |-> client[c].version,
                       orders |-> {order[k].product : k \in Committed},
                       demand |-> [m \in Materials |-> Needs(order, DeclaredOf(Committed), m)]]
  <2>1. client' = [client EXCEPT ![c] = entry]
    BY <1>4 DEF ReadCommitments, DeclaredOf
  <2>2. /\ entry.pc = "committed" /\ entry.version = client[c].version
        /\ entry.orders = {order[k].product : k \in Committed}
        /\ entry.demand = [m \in Materials |-> Needs(order, DeclaredOf(Committed), m)]
    OBVIOUS
  <2> HIDE DEF entry
  <2>3. lock = c /\ lock' = c
    BY <1>4 DEF ReadCommitments, MaterialInv, ThreadsTyped, Idle
  <2>4. client[c].version \in Version
    BY <1>4 DEF ReadCommitments, MaterialInv, ThreadsTyped
  <2>5. client'[c] = entry
    BY <2>1 DEF RowShape
  <2>6. order' = order /\ Committed' = Committed
    BY <1>4 DEF ReadCommitments, Committed
  <2>7. ASSUME NEW m \in Materials
        PROVE  Needs(order, DeclaredOf(Committed), m) \in Nat
    <3>1. DeclaredOf(Committed) \in SUBSET Committed
      BY DEF DeclaredOf
    <3>2. DeclaredOf(Committed) \in SUBSET Keys
          /\ \A k \in DeclaredOf(Committed) : order[k].product \in Products
      BY <3>1, ProductsKnown DEF MaterialInv
    <3> QED BY <3>2, NeedsFinite
  <2>8. CommitmentsRead(c)'
    <3>1. \A k \in Committed : order[k].product \in entry.orders
      BY <2>2
    <3>2. \A m \in Materials :
             /\ entry.demand[m] \in Nat
             /\ Needs(order, DeclaredOf(Committed), m) <= entry.demand[m]
      BY <2>2, <2>7
    <3>3. \A m : Needs(order, DeclaredOf(Committed), m)'
                   = Needs(order, DeclaredOf(Committed), m')
      BY <2>6 DEF DeclaredOf, Needs, Portions
    <3> QED BY <2>5, <2>6, <3>1, <3>2, <3>3 DEF CommitmentsRead
  <2> QED BY <1>4, <2>1, <2>2, <2>3, <2>4, <2>8, OneThread DEF ReadCommitments
<1>5. ASSUME Abort(c)
      PROVE  MaterialInv'
  <2>1. lock = c
    BY <1>5 DEF Abort, MaterialInv, ThreadsTyped, Idle
  <2>2. Idle.pc = "idle"
    BY DEF Idle
  <2>3. client' = [client EXCEPT ![c] = Idle]
    BY <1>5 DEF Abort
  <2> QED BY <1>5, <2>1, <2>2, <2>3, OneThread DEF Abort
<1> QED BY <1>1, <1>2, <1>3, <1>4, <1>5

(* Steps in which orders move on and reports are handled.                  *)
LEMMA MovingStep ==
    ASSUME MaterialInv, RowShape, UNCHANGED <<stock, made, inventory, threads>>,
           \A j \in Keys : \/ order'[j] = order[j]
                           \/ order[j].status # None /\ KeepsColumns(order[j], order'[j]),
           Committed' \subseteq Committed,
           writtenOff \subseteq writtenOff', writtenOff' \subseteq Keys,
           \A k \in writtenOff' : order[k].status # None,
           reports' \subseteq reports,
           watermark' \in Version, watermark' >= watermark,
           ReportsOpen',
           \A v \in Version : v >= watermark' => Unreported(v) \subseteq Unreported(v)'
    PROVE  MaterialInv'
<1> DEFINE C == Committed
           C1 == Committed'
<1>1. Version' = Version /\ Current' = Current
  BY DEF Version, Current
<1>2. \A k \in Keys : order[k].status # None
         => order'[k].status # None /\ order'[k].product = order[k].product
  BY DEF KeepsColumns
<1>3. \A k \in Keys : order'[k].status # None => order[k].status # None
  OBVIOUS
<1>4. C \subseteq Keys /\ \A k \in C : order[k].status # None
  BY DEF Committed, Active, None
<1>5. ASSUME NEW orders \in SUBSET Keys, NEW m, \A k \in orders : order[k].status # None
      PROVE  Needs(order', orders, m) = Needs(order, orders, m)
  BY <1>2, <1>5, NeedsSame
<1>6. StockTyped'
  <2>1. /\ Current \in Nat /\ Version = 0 .. Current
        /\ stock \in [Version -> [Materials -> Nat]]
        /\ inventory \in Version
        /\ \A r \in reports : r.version \in Version
        /\ made \subseteq Keys
        /\ \A k \in made : order[k].status # None
        /\ \A k \in Keys : order[k].status # None => order[k].product \in Products
    BY DEF MaterialInv, StockTyped
  <2> QED BY <1>1, <1>2, <1>3, <2>1 DEF StockTyped
<1>7. DeclaredOf(Committed)' \in SUBSET DeclaredOf(Committed)
      /\ DeclaredOf(Committed \ made)' \in SUBSET DeclaredOf(Committed \ made)
  BY <1>2, <1>4 DEF DeclaredOf
<1>8. /\ DeclaredOf(C) \in SUBSET C /\ DeclaredOf(C \ made) \in SUBSET C
      /\ made \subseteq Keys /\ writtenOff \cap made \in SUBSET (writtenOff' \cap made)
      /\ writtenOff' \cap made \in SUBSET made
  BY DEF DeclaredOf, MaterialInv, StockTyped
<1>9. \A k \in C \cup made : order[k].product \in Products /\ order[k].status # None
  BY <1>4 DEF MaterialInv, StockTyped
<1>10. ThreadsTyped'
  <2>1. UNCHANGED <<lock, client>>
    BY DEF threads
  <2>2. ASSUME NEW c \in Clients, CommitmentsRead(c)
        PROVE  CommitmentsRead(c)'
    <3>1. \A k \in C1 : order'[k].product \in client[c].orders
      BY <1>2, <1>4, <2>2 DEF CommitmentsRead
    <3>2. ASSUME NEW m \in Materials
          PROVE  /\ client[c].demand[m] \in Nat
                 /\ Needs(order', DeclaredOf(Committed)', m) <= client[c].demand[m]
      <4>1. client[c].demand[m] \in Nat /\ Needs(order, DeclaredOf(C), m) <= client[c].demand[m]
        BY <2>2 DEF CommitmentsRead
      <4>2. DeclaredOf(C) \in SUBSET Keys
            /\ \A k \in DeclaredOf(C) : order[k].product \in Products
        BY <1>4, <1>8, <1>9
      <4>3. Needs(order, DeclaredOf(Committed)', m) <= Needs(order, DeclaredOf(C), m)
        BY <1>7, <4>2, NeedsMonotone
      <4>4. DeclaredOf(Committed)' \in SUBSET Keys
            /\ \A k \in DeclaredOf(Committed)' : order[k].status # None
        BY <1>4, <1>7, <1>8
      <4>5. Needs(order', DeclaredOf(Committed)', m) = Needs(order, DeclaredOf(Committed)', m)
        BY <1>5, <4>4
      <4>6. Needs(order, DeclaredOf(C), m) \in Nat /\ Needs(order, DeclaredOf(Committed)', m) \in Nat
        <5>1. \A k \in DeclaredOf(Committed)' : order[k].product \in Products
          BY <1>7, <4>2
        <5> QED BY <4>2, <4>4, <5>1, NeedsFinite
      <4> QED BY <4>1, <4>3, <4>5, <4>6
    <3> QED BY <2>1, <3>1, <3>2 DEF CommitmentsRead
  <2> QED BY <1>1, <2>1, <2>2 DEF MaterialInv, ThreadsTyped
<1>11. UsedSince'
  <2> SUFFICES ASSUME NEW v \in Version, NEW m \in Materials, v >= watermark'
               PROVE  stock[v][m] <= stock[Current][m] + Needs(order', Unreported(v)', m)
    BY <1>1 DEF UsedSince
  <2>1. v >= watermark
    BY <1>1 DEF MaterialInv, StockTyped
  <2>2. stock[v][m] <= stock[Current][m] + Needs(order, Unreported(v), m)
    BY <2>1 DEF MaterialInv, UsedSince
  <2>3. Unreported(v)' = Unreported(v)
    BY DEF Unreported
  <2>4. Unreported(v) \in SUBSET Keys /\ \A k \in Unreported(v) : order[k].status # None
    BY AdmissionConstants DEF Unreported, MaterialInv, ReportsOpen, StockTyped
  <2>5. Needs(order', Unreported(v), m) = Needs(order, Unreported(v), m)
    BY <1>5, <2>4
  <2> QED BY <2>2, <2>3, <2>5
<1>12. UndeclaredAlone'
  BY <1>2, <1>4 DEF MaterialInv, UndeclaredAlone
<1>13. Enough'
  <2> SUFFICES ASSUME NEW m \in Materials
               PROVE  Needs(order', DeclaredOf(Committed \ made)', m)
                        <= stock[Current][m] + Needs(order', writtenOff' \cap made, m)
    BY <1>1 DEF Enough
  <2>1. Needs(order, DeclaredOf(C \ made), m) <= stock[Current][m] + Needs(order, writtenOff \cap made, m)
    BY DEF MaterialInv, Enough
  <2>2. /\ DeclaredOf(C \ made) \in SUBSET Keys
        /\ \A k \in DeclaredOf(C \ made) : order[k].product \in Products
        /\ DeclaredOf(Committed \ made)' \in SUBSET Keys
        /\ \A k \in DeclaredOf(Committed \ made)' : order[k].product \in Products
                                                    /\ order[k].status # None
    BY <1>4, <1>7, <1>8, <1>9
  <2>3. Needs(order, DeclaredOf(Committed \ made)', m) <= Needs(order, DeclaredOf(C \ made), m)
    BY <1>7, <2>2, NeedsMonotone
  <2>4. Needs(order', DeclaredOf(Committed \ made)', m) = Needs(order, DeclaredOf(Committed \ made)', m)
    BY <1>5, <2>2
  <2>5. writtenOff' \cap made \in SUBSET Keys
        /\ \A k \in writtenOff' \cap made : order[k].product \in Products /\ order[k].status # None
    BY <1>8, <1>9
  <2>6. Needs(order, writtenOff \cap made, m) <= Needs(order, writtenOff' \cap made, m)
    BY <1>8, <2>5, NeedsMonotone
  <2>7. Needs(order', writtenOff' \cap made, m) = Needs(order, writtenOff' \cap made, m)
    BY <1>5, <2>5
  <2>8. /\ Needs(order, DeclaredOf(C \ made), m) \in Nat
        /\ Needs(order, DeclaredOf(Committed \ made)', m) \in Nat
        /\ Needs(order, writtenOff' \cap made, m) \in Nat
        /\ Needs(order, writtenOff \cap made, m) \in Nat
    <3>1. writtenOff \cap made \in SUBSET Keys
          /\ \A k \in writtenOff \cap made : order[k].product \in Products
      BY <1>8, <1>9
    <3> QED BY <2>2, <2>5, <3>1, NeedsFinite
  <2>9. stock[Current][m] \in Nat
    BY DEF MaterialInv, StockTyped
  <2> QED BY <2>1, <2>3, <2>4, <2>6, <2>7, <2>8, <2>9
<1> QED BY <1>6, <1>10, <1>11, <1>12, <1>13 DEF MaterialInv

(* Only orders that were admitted are among the commitments.               *)
LEMMA CommittedOnlyShrinks ==
    ASSUME NEW k \in Keys, \A j \in Keys : j # k => order'[j] = order[j],
           k \in Committed \/ order'[k].status \notin Active
    PROVE  Committed' \subseteq Committed
  BY DEF Committed, Active

LEMMA OrderStep ==
    ASSUME MaterialInv, RowShape, NEW k \in Keys,
           Dispatch(k) \/ Withdraw(k) \/ Adjudicate(k)
    PROVE  MaterialInv'
<1>1. \/ Moved(k, {"WAITING"}, "DISPATCHED")
      \/ Moved(k, {"WAITING"}, "ENDED")
      \/ Moved(k, {"DISPATCHED"}, "ENDED")
  BY DEF Dispatch, Withdraw, Adjudicate
<1>2. /\ \A j \in Keys : order'[j] = order[j] \/ KeepsColumns(order[j], order'[j])
      /\ order[k].status # None
      /\ \A j \in Keys : j # k => order'[j] = order[j]
  BY <1>1, MovedKeepsColumns DEF None
<1>3. k \in Committed
  BY <1>1 DEF Moved, Committed, Active
<1>4. Committed' \subseteq Committed
  BY <1>2, <1>3, CommittedOnlyShrinks
<1>5. UNCHANGED <<stock, made, reports, inventory, watermark, threads>>
  BY DEF Dispatch, Withdraw, Adjudicate, machine
<1>6. /\ writtenOff \subseteq writtenOff' /\ writtenOff' \subseteq writtenOff \cup {k}
      /\ Adjudicate(k) => k \in writtenOff'
  BY DEF Dispatch, Withdraw, Adjudicate
<1>7. \/ order'[k].status = "DISPATCHED"
      \/ order[k].status = "WAITING"
      \/ k \in writtenOff'
  <2>1. CASE Dispatch(k)
    BY <2>1 DEF Dispatch, Moved, RowShape
  <2>2. CASE Withdraw(k)
    BY <2>2 DEF Withdraw, Moved
  <2>3. CASE Adjudicate(k)
    BY <2>3, <1>6
  <2> QED BY <2>1, <2>2, <2>3
<1>8. ReportsOpen'
  <2> SUFFICES ASSUME NEW r \in reports, r.task # None
               PROVE  /\ r.task \in made
                      /\ order'[r.task].status = "DISPATCHED" \/ r.task \in writtenOff'
                      /\ \A other \in reports : other.task = r.task => other = r
    BY <1>5 DEF ReportsOpen
  <2>1. /\ r.task \in made /\ r.task \in Keys
        /\ order[r.task].status = "DISPATCHED" \/ r.task \in writtenOff
        /\ \A other \in reports : other.task = r.task => other = r
    BY DEF MaterialInv, ReportsOpen, StockTyped
  <2> QED BY <1>2, <1>6, <1>7, <2>1
<1>9. \A v \in Version : Unreported(v) \subseteq Unreported(v)'
  BY <1>5 DEF Unreported
<1>10. /\ writtenOff' \subseteq Keys /\ \A j \in writtenOff' : order[j].status # None
       /\ watermark' \in Version /\ watermark' >= watermark
  BY <1>2, <1>5, <1>6 DEF MaterialInv, StockTyped
<1> QED BY <1>2, <1>4, <1>5, <1>6, <1>8, <1>9, <1>10, MovingStep

LEMMA EventStep ==
    ASSUME MaterialInv, RowShape, NEW r \in reports, Event(r)
    PROVE  MaterialInv'
<1>1. /\ reports' = reports \ {r}
      /\ watermark' = IF r.version > watermark THEN r.version ELSE watermark
      /\ order' = [k \in Keys |-> IF k = r.task /\ order[k].status = "DISPATCHED"
                                  THEN [order[k] EXCEPT !.status = "ENDED"] ELSE order[k]]
      /\ UNCHANGED <<stock, made, inventory, writtenOff, threads>>
  BY DEF Event, Watermark
<1>2. ASSUME NEW k \in Keys, order'[k] # order[k]
      PROVE  /\ k = r.task /\ order[k].status = "DISPATCHED"
             /\ order'[k].status = "ENDED"
             /\ KeepsColumns(order[k], order'[k])
  <2>1. /\ k = r.task /\ order[k].status = "DISPATCHED"
        /\ order'[k] = [order[k] EXCEPT !.status = "ENDED"]
    BY <1>1, <1>2
  <2>2. IsOrder(order[k])
    BY <2>1 DEF RowShape, None
  <2>3. order'[k] = [status |-> "ENDED", product |-> order[k].product,
                     quote |-> order[k].quote, price |-> order[k].price]
    BY <2>1, <2>2 DEF IsOrder
  <2> QED BY <2>1, <2>3 DEF KeepsColumns, IsOrder, None
<1>3. Committed' \subseteq Committed
  BY <1>2 DEF Committed, Active
<1>4. \A j \in Keys : \/ order'[j] = order[j]
                      \/ order[j].status # None /\ KeepsColumns(order[j], order'[j])
  BY <1>2 DEF None
<1>5. /\ watermark \in Version /\ r.version \in Version /\ Version = 0 .. Current
      /\ Current \in Nat
  BY DEF MaterialInv, StockTyped
<1>6. /\ watermark' \in Version /\ watermark' >= watermark /\ watermark' >= r.version
      /\ watermark' \in Nat /\ r.version \in Nat
  BY <1>1, <1>5
<1>7. ReportsOpen'
  <2> SUFFICES ASSUME NEW other \in reports, other # r, other.task # None
               PROVE  /\ other.task \in made
                      /\ order'[other.task].status = "DISPATCHED" \/ other.task \in writtenOff
                      /\ \A third \in reports \ {r} : third.task = other.task => third = other
    BY <1>1 DEF ReportsOpen
  <2>1. /\ other.task \in made /\ other.task \in Keys
        /\ order[other.task].status = "DISPATCHED" \/ other.task \in writtenOff
        /\ \A third \in reports : third.task = other.task => third = other
    BY DEF MaterialInv, ReportsOpen, StockTyped
  <2> QED BY <1>2, <2>1
<1>8. ASSUME NEW v \in Version, v >= watermark'
      PROVE  Unreported(v) \subseteq Unreported(v)'
  <2>1. v \in Nat /\ ~(r.version > v)
    BY <1>5, <1>6, <1>8
  <2>2. \A q \in reports : q.version > v => q \in reports'
    BY <1>1, <2>1
  <2> QED BY <2>2 DEF Unreported
<1>9. /\ writtenOff \subseteq Keys /\ \A k \in writtenOff : order[k].status # None
      /\ reports' \subseteq reports /\ writtenOff' = writtenOff
  BY <1>1 DEF MaterialInv, StockTyped
<1> QED BY <1>1, <1>3, <1>4, <1>6, <1>7, <1>8, <1>9, MovingStep

LEMMA CloudStep ==
    ASSUME MaterialInv,
           (\E v \in Version : Snapshot(v)) \/ (\E p \in Products : Reprice(p))
    PROVE  MaterialInv'
<1>1. UNCHANGED <<machine, watermark, order, writtenOff, lock, client>>
  BY DEF Snapshot, Reprice, threads
<1>2. inventory' \in Version
  BY DEF Snapshot, Reprice, MaterialInv, StockTyped
<1>3. ThreadsTyped'
  BY <1>1 DEF MaterialInv, ThreadsTyped, CommitmentsRead, Committed, DeclaredOf, Version,
              Needs, Portions, machine
<1> QED BY <1>1, <1>2, <1>3, ReadingStep

(* Serves is enough for the new order. What the machine used after the     *)
(* snapshot is either a commitment that was counted, or written off.       *)
LEMMA RoomForOneMore ==
    ASSUME MaterialInv, NEW v \in Version, v >= watermark, NEW p \in Products,
           NEW m \in Materials, NEW demand \in Nat, Committed = DeclaredOf(Committed),
           Needs(order, Committed, m) <= demand,
           Recipe[p][m] > 0 => demand + Recipe[p][m] <= stock[v][m]
    PROVE  Needs(order, Committed \ made, m) + Recipe[p][m]
             <= stock[Current][m] + Needs(order, writtenOff \cap made, m)
<1> DEFINE C == Committed
           U == Unreported(v)
           W == writtenOff \cap made
<1>1. U \subseteq made /\ U \subseteq C \cup W
  BY AdmissionConstants DEF Unreported, MaterialInv, ReportsOpen, Committed, Active
<1>2. \A k \in C \cup made : k \in Keys /\ order[k].product \in Products
  BY ProductsKnown DEF MaterialInv
<1>3. Recipe[p][m] \in Nat
  BY AdmissionConstants
<1>4. stock[Current][m] \in Nat /\ stock[v][m] \in Nat
  BY DEF MaterialInv, StockTyped
<1> HIDE DEF C, U, W
<1>5. /\ W \subseteq made /\ C \ made \subseteq C /\ U \cap C \subseteq C /\ U \ C \subseteq W
      /\ (C \ made) \cap (U \cap C) = {} /\ (C \ made) \cup (U \cap C) \in SUBSET C
      /\ (U \cap C) \cap (U \ C) = {} /\ (U \cap C) \cup (U \ C) = U
  BY <1>1 DEF W
<1>6. /\ Needs(order, C \ made, m) \in Nat /\ Needs(order, U \cap C, m) \in Nat
      /\ Needs(order, U \ C, m) \in Nat /\ Needs(order, U, m) \in Nat
      /\ Needs(order, W, m) \in Nat /\ Needs(order, C, m) \in Nat
  <2>1. \A some \in SUBSET (C \cup made) : Needs(order, some, m) \in Nat
    <3> SUFFICES ASSUME NEW some \in SUBSET (C \cup made) PROVE Needs(order, some, m) \in Nat
      OBVIOUS
    <3>1. some \in SUBSET Keys /\ \A k \in some : order[k].product \in Products
      BY <1>2 DEF C
    <3> QED BY <3>1, NeedsFinite
  <2>2. /\ C \ made \in SUBSET (C \cup made) /\ U \cap C \in SUBSET (C \cup made)
        /\ U \ C \in SUBSET (C \cup made) /\ U \in SUBSET (C \cup made)
        /\ W \in SUBSET (C \cup made) /\ C \in SUBSET (C \cup made)
    BY <1>1, <1>5
  <2> QED BY <2>1, <2>2
<1>7. Needs(order, (C \ made) \cup (U \cap C), m)
        = Needs(order, C \ made, m) + Needs(order, U \cap C, m)
  <2>1. /\ C \ made \in SUBSET Keys /\ U \cap C \in SUBSET Keys
        /\ \A k \in (C \ made) \cup (U \cap C) : order[k].product \in Products
    BY <1>2 DEF C
  <2> QED BY <1>5, <2>1, NeedsApart
<1>8. Needs(order, (C \ made) \cup (U \cap C), m) <= Needs(order, C, m)
  <2>1. C \in SUBSET Keys /\ \A k \in C : order[k].product \in Products
    BY <1>2 DEF C
  <2> QED BY <1>5, <2>1, NeedsMonotone
<1>9. Needs(order, U, m) = Needs(order, U \cap C, m) + Needs(order, U \ C, m)
  <2>1. /\ U \cap C \in SUBSET Keys /\ U \ C \in SUBSET Keys
        /\ \A k \in (U \cap C) \cup (U \ C) : order[k].product \in Products
    BY <1>1, <1>2 DEF C
  <2>2. Needs(order, (U \cap C) \cup (U \ C), m)
          = Needs(order, U \cap C, m) + Needs(order, U \ C, m)
    BY <1>5, <2>1, NeedsApart
  <2> QED BY <1>5, <2>2
<1>10. Needs(order, U \ C, m) <= Needs(order, W, m)
  <2>1. W \in SUBSET Keys /\ \A k \in W : order[k].product \in Products
    BY <1>2, <1>5
  <2> QED BY <1>5, <2>1, NeedsMonotone
<1>11. stock[v][m] <= stock[Current][m] + Needs(order, U, m)
  BY DEF MaterialInv, UsedSince, U
<1>12. Needs(order, C \ made, m) <= stock[Current][m] + Needs(order, W, m)
  <2>1. DeclaredOf(Committed \ made) = C \ made
    BY DEF DeclaredOf, C
  <2> QED BY <2>1 DEF MaterialInv, Enough, W
<1>13. Needs(order, C, m) <= demand
  BY DEF C
<1>14. Needs(order, C \ made, m) + Recipe[p][m] <= stock[Current][m] + Needs(order, W, m)
  <2>1. CASE Recipe[p][m] > 0
    <3>1. demand + Recipe[p][m] <= stock[v][m]
      BY <2>1
    <3> QED BY <1>3, <1>4, <1>6, <1>7, <1>8, <1>9, <1>10, <1>11, <1>13, <3>1
  <2>2. CASE Recipe[p][m] = 0
    BY <1>4, <1>6, <1>12, <2>2
  <2> QED BY <1>3, <2>1, <2>2
<1> QED BY <1>14 DEF C, W

LEMMA AdmitStep ==
    ASSUME MaterialInv, RowShape, NEW c \in Clients, Admit(c)
    PROVE  MaterialInv'
<1> DEFINE request == client[c].request
           k == request.key
           p == request.product
           new == [status |-> "WAITING", product |-> p,
                   quote |-> request.quote, price |-> client[c].price]
<1>1. /\ client[c].pc = "committed" /\ client[c].version >= watermark
      /\ Serves(c, p) /\ order[k].status = None
      /\ order' = [order EXCEPT ![k] = new]
      /\ lock' = None /\ client' = [client EXCEPT ![c] = Idle]
      /\ UNCHANGED <<stock, reports, made, inventory, watermark, writtenOff>>
  BY DEF Admit, Synced, machine
<1>2. client[c] # Idle
  BY <1>1 DEF Idle
<1>3. k \in Keys /\ p \in Products
  BY <1>2 DEF RowShape, Request
<1>4. new.status = "WAITING" /\ new.product = p
  OBVIOUS
<1> HIDE DEF k, p, new
<1>5. order'[k] = new /\ \A j \in Keys : j # k => order'[j] = order[j]
  BY <1>1, <1>3 DEF RowShape
<1>6. lock = c /\ client[c].version \in Version /\ CommitmentsRead(c)
  BY <1>1, <1>2 DEF MaterialInv, ThreadsTyped
<1>7. Version' = Version /\ Current' = Current
  BY <1>1 DEF Version, Current
<1>8. k \notin Committed /\ Committed' = Committed \cup {k}
  BY <1>1, <1>3, <1>4, <1>5 DEF Committed, Active, None
<1>9. k \notin made /\ k \notin writtenOff
  BY <1>1 DEF MaterialInv, StockTyped
<1>10. StockTyped'
  <2>1. /\ Current \in Nat /\ Version = 0 .. Current
        /\ stock \in [Version -> [Materials -> Nat]]
        /\ watermark \in Version /\ inventory \in Version
        /\ \A r \in reports : r.version \in Version
        /\ made \subseteq Keys /\ writtenOff \subseteq Keys
        /\ \A j \in made \cup writtenOff : order[j].status # None
        /\ \A j \in Keys : order[j].status # None => order[j].product \in Products
    BY DEF MaterialInv, StockTyped
  <2>2. \A j \in made \cup writtenOff : order'[j].status # None
    BY <1>5, <1>9, <2>1
  <2>3. \A j \in Keys : order'[j].status # None => order'[j].product \in Products
    BY <1>3, <1>4, <1>5, <2>1
  <2> QED BY <1>1, <1>7, <2>1, <2>2, <2>3 DEF StockTyped
<1>11. ThreadsTyped'
  <2>1. \A d \in Clients : client'[d] = Idle
    BY <1>1, <1>6 DEF MaterialInv, ThreadsTyped, RowShape
  <2> QED BY <2>1 DEF ThreadsTyped, Idle
<1>12. ReportsOpen'
  <2> SUFFICES ASSUME NEW r \in reports, r.task # None
               PROVE  /\ r.task \in made
                      /\ order'[r.task].status = "DISPATCHED" \/ r.task \in writtenOff
                      /\ \A other \in reports : other.task = r.task => other = r
    BY <1>1 DEF ReportsOpen
  <2>1. /\ r.task \in made /\ r.task \in Keys
        /\ order[r.task].status = "DISPATCHED" \/ r.task \in writtenOff
        /\ \A other \in reports : other.task = r.task => other = r
    BY DEF MaterialInv, ReportsOpen, StockTyped
  <2> QED BY <1>5, <1>9, <2>1
<1>13. ASSUME NEW orders \in SUBSET Keys, NEW m, k \notin orders
       PROVE  Needs(order', orders, m) = Needs(order, orders, m)
  <2>1. \A j \in orders : order'[j].product = order[j].product
    BY <1>5, <1>13
  <2> QED BY <2>1, NeedsSame
<1>14. UsedSince'
  <2> SUFFICES ASSUME NEW v \in Version, NEW m \in Materials, v >= watermark
               PROVE  stock[v][m] <= stock[Current][m] + Needs(order', Unreported(v)', m)
    BY <1>1, <1>7 DEF UsedSince
  <2>1. stock[v][m] <= stock[Current][m] + Needs(order, Unreported(v), m)
    BY DEF MaterialInv, UsedSince
  <2>2. Unreported(v)' = Unreported(v)
    BY <1>1 DEF Unreported
  <2>3. Unreported(v) \in SUBSET Keys /\ k \notin Unreported(v)
    BY <1>9, AdmissionConstants DEF Unreported, MaterialInv, ReportsOpen
  <2>4. Needs(order', Unreported(v), m) = Needs(order, Unreported(v), m)
    BY <1>13, <2>3
  <2> QED BY <2>1, <2>2, <2>4
<1>15. /\ \A j \in Committed : order[j].product \in Declared
       /\ p \in Declared \/ Committed = {}
  <2>1. \A j \in Committed : order[j].product \in client[c].orders
    BY <1>6 DEF CommitmentsRead
  <2>2. client[c].orders \subseteq Declared /\ (p \in Declared \/ client[c].orders = {})
    BY <1>1 DEF Serves
  <2> QED BY <2>1, <2>2
<1>16. UndeclaredAlone'
  <2> SUFFICES ASSUME NEW j \in Committed', order'[j].product \notin Declared
               PROVE  Committed' = {j}
    BY DEF UndeclaredAlone
  <2>1. j = k
    BY <1>5, <1>8, <1>15 DEF Committed
  <2>2. p \notin Declared
    BY <1>4, <1>5, <2>1
  <2> QED BY <1>8, <1>15, <2>1, <2>2
<1>17. Enough'
  <2> SUFFICES ASSUME NEW m \in Materials
               PROVE  Needs(order', DeclaredOf(Committed \ made)', m)
                        <= stock[Current][m] + Needs(order', writtenOff \cap made, m)
    BY <1>1, <1>7 DEF Enough
  <2>1. Needs(order', writtenOff \cap made, m) = Needs(order, writtenOff \cap made, m)
    <3>1. writtenOff \cap made \in SUBSET Keys
      BY DEF MaterialInv, StockTyped
    <3> QED BY <1>9, <1>13, <3>1
  <2>2. stock[Current][m] \in Nat /\ Needs(order, writtenOff \cap made, m) \in Nat
    <3>1. writtenOff \cap made \in SUBSET Keys
          /\ \A j \in writtenOff \cap made : order[j].product \in Products
      BY DEF MaterialInv, StockTyped
    <3>2. stock[Current][m] \in Nat
      BY DEF MaterialInv, StockTyped
    <3> QED BY <3>1, <3>2, NeedsFinite
  <2>3. CASE p \in Declared
    <3>1. DeclaredOf(Committed) = Committed
      BY <1>15 DEF DeclaredOf
    <3>2. DeclaredOf(Committed \ made)' = (Committed \ made) \cup {k}
      BY <1>1, <1>4, <1>5, <1>8, <1>9, <1>15, <2>3 DEF DeclaredOf, Committed
    <3>3. /\ client[c].demand[m] \in Nat
          /\ Needs(order, Committed, m) <= client[c].demand[m]
      BY <1>6, <3>1 DEF CommitmentsRead
    <3>4. Recipe[p][m] > 0 => client[c].demand[m] + Recipe[p][m] <= stock[client[c].version][m]
      BY <1>1, <2>3 DEF Serves
    <3>5. Needs(order, Committed \ made, m) + Recipe[p][m]
            <= stock[Current][m] + Needs(order, writtenOff \cap made, m)
      BY <1>1, <1>3, <1>6, <3>1, <3>3, <3>4, RoomForOneMore
    <3>6. /\ Committed \ made \in SUBSET Keys /\ {k} \in SUBSET Keys
          /\ (Committed \ made) \cap {k} = {}
          /\ k \notin Committed \ made
          /\ \A j \in (Committed \ made) \cup {k} : order'[j].product \in Products
      <4>1. \A j \in Committed : order[j].product \in Products /\ j \in Keys
        BY ProductsKnown DEF MaterialInv
      <4> QED BY <1>3, <1>4, <1>5, <1>8, <4>1
    <3>7. Needs(order', (Committed \ made) \cup {k}, m)
            = Needs(order', Committed \ made, m) + Needs(order', {k}, m)
      BY <3>6, NeedsApart
    <3>8. Needs(order', {k}, m) = Recipe[p][m]
      BY <1>3, <1>4, <1>5, NeedsOne
    <3>9. Needs(order', Committed \ made, m) = Needs(order, Committed \ made, m)
      BY <1>13, <3>6
    <3> QED BY <2>1, <3>2, <3>5, <3>7, <3>8, <3>9
  <2>4. CASE p \notin Declared
    <3>1. DeclaredOf(Committed \ made)' = {}
      BY <1>1, <1>4, <1>5, <1>8, <1>15, <2>4 DEF DeclaredOf
    <3>2. Needs(order', DeclaredOf(Committed \ made)', m) = 0
      BY <3>1, NeedsNothing
    <3> QED BY <2>1, <2>2, <3>2
  <2> QED BY <2>3, <2>4
<1> QED BY <1>10, <1>11, <1>12, <1>14, <1>16, <1>17 DEF MaterialInv

(* A change of the stock makes the next version.                           *)
LEMMA NextVersion ==
    ASSUME StockTyped, NEW amount \in [Materials -> Nat], NEW task, Changed(amount, task)
    PROVE  /\ Current' = Current + 1 /\ Current' \in Nat /\ Version' = 0 .. Current'
           /\ Version' = Version \cup {Current'} /\ Current' \notin Version
           /\ stock' \in [Version' -> [Materials -> Nat]]
           /\ stock'[Current'] = amount
           /\ \A v \in Version : stock'[v] = stock[v]
           /\ reports' = reports \cup {[task |-> task, version |-> Current']}
<1>1. /\ Current \in Nat /\ Version = 0 .. Current
      /\ stock \in [Version -> [Materials -> Nat]]
  BY DEF StockTyped
<1>2. /\ stock' = [v \in 0 .. Current + 1 |-> IF v \in Version THEN stock[v] ELSE amount]
      /\ reports' = reports \cup {[task |-> task, version |-> Current + 1]}
  BY DEF Changed
<1>3. Version' = 0 .. Current + 1
  BY <1>2 DEF Version
<1>4. 0 \in Int /\ Current + 1 \in Int
  BY <1>1
<1>5. Cardinality(Version') = Current + 2
  <2>1. Cardinality(0 .. Current + 1) = IF 0 > Current + 1 THEN 0 ELSE Current + 1 - 0 + 1
    BY <1>4, FS_Interval
  <2> QED BY <1>1, <1>3, <2>1
<1>6. Current' = Current + 1
  BY <1>1, <1>5 DEF Current
<1>7. Version' = Version \cup {Current + 1} /\ Current + 1 \notin Version
  BY <1>1, <1>3
<1>8. stock' \in [Version' -> [Materials -> Nat]]
  BY <1>1, <1>2, <1>3
<1>9. stock'[Current + 1] = amount /\ \A v \in Version : stock'[v] = stock[v]
  BY <1>1, <1>2, <1>7
<1> QED BY <1>1, <1>2, <1>3, <1>6, <1>7, <1>8, <1>9

(* The machine changes nothing that a thread has read.                     *)
LEMMA ThreadsUntouched ==
    ASSUME ThreadsTyped, Version \subseteq Version', UNCHANGED <<cloud, threads>>
    PROVE  ThreadsTyped'
<1>1. UNCHANGED <<order, lock, client>>
  BY DEF cloud, threads
<1>2. \A c \in Clients : CommitmentsRead(c) => CommitmentsRead(c)'
  BY <1>1 DEF CommitmentsRead, Committed, DeclaredOf, Needs, Portions
<1> QED BY <1>1, <1>2 DEF ThreadsTyped

LEMMA RefillStep ==
    ASSUME MaterialInv, NEW m \in Materials, Refill(m)
    PROVE  MaterialInv'
<1> DEFINE amount == [stock[Current] EXCEPT ![m] = @ + 1]
<1>1. StockTyped /\ stock[Current] \in [Materials -> Nat] /\ Current \in Version
  BY DEF MaterialInv, StockTyped
<1>2. amount \in [Materials -> Nat] /\ \A n \in Materials : stock[Current][n] <= amount[n]
  BY <1>1
<1>3. Changed(amount, None) /\ UNCHANGED <<made, cloud, threads>>
  BY DEF Refill
<1> HIDE DEF amount
<1>4. /\ Current' = Current + 1 /\ Current' \in Nat /\ Version' = 0 .. Current'
      /\ Version' = Version \cup {Current'} /\ Current' \notin Version
      /\ stock' \in [Version' -> [Materials -> Nat]]
      /\ stock'[Current'] = amount
      /\ \A v \in Version : stock'[v] = stock[v]
      /\ reports' = reports \cup {[task |-> None, version |-> Current']}
  BY <1>1, <1>2, <1>3, NextVersion
<1>5. UNCHANGED <<inventory, watermark, order, writtenOff, made>>
  BY <1>3 DEF cloud
<1>6. StockTyped'
  BY <1>1, <1>4, <1>5 DEF StockTyped
<1>7. ThreadsTyped'
  BY <1>3, <1>4, ThreadsUntouched DEF MaterialInv
<1>8. ReportsOpen'
  <2> SUFFICES ASSUME NEW r \in reports', r.task # None
               PROVE  /\ r.task \in made
                      /\ order[r.task].status = "DISPATCHED" \/ r.task \in writtenOff
                      /\ \A other \in reports' : other.task = r.task => other = r
    BY <1>5 DEF ReportsOpen
  <2>1. \A other \in reports' : other \in reports \/ other.task = None
    BY <1>4
  <2>2. r \in reports
    BY <2>1
  <2> QED BY <2>1, <2>2 DEF MaterialInv, ReportsOpen
<1>9. ASSUME NEW v
      PROVE  Unreported(v)' = Unreported(v)
  <2>1. \A r : r \in reports' <=> r \in reports \/ r = [task |-> None, version |-> Current']
    BY <1>4
  <2>2. \A k \in Keys : k # None
    BY AdmissionConstants
  <2> QED BY <2>1, <2>2 DEF Unreported
<1>10. UsedSince'
  <2> SUFFICES ASSUME NEW v \in Version', NEW n \in Materials, v >= watermark
               PROVE  stock'[v][n] <= stock'[Current'][n] + Needs(order, Unreported(v), n)
    BY <1>5, <1>9 DEF UsedSince, Needs, Portions
  <2>1. Needs(order, Unreported(v), n) \in Nat
    <3>1. Unreported(v) \in SUBSET Keys /\ \A k \in Unreported(v) : order[k].product \in Products
      BY AdmissionConstants DEF Unreported, MaterialInv, ReportsOpen, StockTyped
    <3> QED BY <3>1, NeedsFinite
  <2>2. amount[n] \in Nat /\ stock[Current][n] \in Nat /\ stock[Current][n] <= amount[n]
    BY <1>1, <1>2
  <2>3. CASE v = Current'
    BY <1>4, <2>1, <2>2, <2>3
  <2>4. CASE v \in Version
    <3>1. stock[v][n] <= stock[Current][n] + Needs(order, Unreported(v), n)
      BY <2>4 DEF MaterialInv, UsedSince
    <3>2. stock[v][n] \in Nat
      BY <1>1, <2>4 DEF StockTyped
    <3>3. stock'[v][n] = stock[v][n] /\ stock'[Current'][n] = amount[n]
      BY <1>4, <2>4
    <3> QED BY <2>1, <2>2, <3>1, <3>2, <3>3
  <2> QED BY <1>4, <2>3, <2>4
<1>11. UndeclaredAlone'
  BY <1>5 DEF MaterialInv, UndeclaredAlone, Committed
<1>12. Enough'
  <2> SUFFICES ASSUME NEW n \in Materials
               PROVE  Needs(order, DeclaredOf(Committed \ made), n)
                        <= amount[n] + Needs(order, writtenOff \cap made, n)
    BY <1>4, <1>5 DEF Enough, DeclaredOf, Committed, Needs, Portions
  <2>1. Needs(order, DeclaredOf(Committed \ made), n)
          <= stock[Current][n] + Needs(order, writtenOff \cap made, n)
    BY DEF MaterialInv, Enough
  <2>2. amount[n] \in Nat /\ stock[Current][n] \in Nat /\ stock[Current][n] <= amount[n]
    BY <1>1, <1>2
  <2>3. /\ Needs(order, DeclaredOf(Committed \ made), n) \in Nat
        /\ Needs(order, writtenOff \cap made, n) \in Nat
    <3>1. /\ DeclaredOf(Committed \ made) \in SUBSET (Committed \cup made \cup writtenOff)
          /\ writtenOff \cap made \in SUBSET (Committed \cup made \cup writtenOff)
      BY DEF DeclaredOf
    <3> QED BY <1>1, <3>1, ProductsKnown, NeedsFinite
  <2> QED BY <2>1, <2>2, <2>3
<1> QED BY <1>6, <1>7, <1>8, <1>10, <1>11, <1>12 DEF MaterialInv

LEMMA DeclineStep ==
    ASSUME MaterialInv, NEW k \in Keys, Decline(k)
    PROVE  MaterialInv'
<1>1. /\ order[k].status = "DISPATCHED" /\ k \notin made
      /\ reports' = reports \cup {[task |-> k, version |-> Current]}
      /\ made' = made \cup {k}
      /\ UNCHANGED <<stock, inventory, watermark, order, writtenOff, lock, client>>
  BY DEF Decline, cloud, threads
<1>2. Version' = Version /\ Current' = Current /\ Committed' = Committed
  BY <1>1 DEF Version, Current, Committed
<1>3. StockTyped'
  BY <1>1, <1>2 DEF MaterialInv, StockTyped, None
<1>4. ThreadsTyped'
  BY <1>2, ThreadsUntouched DEF Decline, MaterialInv
<1>5. ReportsOpen'
  <2> SUFFICES ASSUME NEW r \in reports', r.task # None
               PROVE  /\ r.task \in made'
                      /\ order[r.task].status = "DISPATCHED" \/ r.task \in writtenOff
                      /\ \A other \in reports' : other.task = r.task => other = r
    BY <1>1 DEF ReportsOpen
  <2>1. \A other \in reports : other.task # k
    BY <1>1, AdmissionConstants DEF MaterialInv, ReportsOpen
  <2>2. CASE r \in reports
    BY <1>1, <2>1, <2>2 DEF MaterialInv, ReportsOpen
  <2>3. CASE r = [task |-> k, version |-> Current]
    BY <1>1, <2>1, <2>3
  <2> QED BY <1>1, <2>2, <2>3
<1>6. ASSUME NEW v
      PROVE  /\ Unreported(v) \in SUBSET Unreported(v)'
             /\ Unreported(v)' \in SUBSET (made \cup {k})
  <2>1. \A r : r \in reports' <=> r \in reports \/ r = [task |-> k, version |-> Current]
    BY <1>1
  <2>2. \A r \in reports : r.task \in Keys => r.task \in made
    BY AdmissionConstants DEF MaterialInv, ReportsOpen
  <2> QED BY <2>1, <2>2 DEF Unreported
<1>7. \A j \in made \cup {k} : j \in Keys /\ order[j].product \in Products
  BY <1>1 DEF MaterialInv, StockTyped, None
<1>8. UsedSince'
  <2> SUFFICES ASSUME NEW v \in Version, NEW m \in Materials, v >= watermark
               PROVE  stock[v][m] <= stock[Current][m] + Needs(order, Unreported(v)', m)
    BY <1>1, <1>2 DEF UsedSince, Needs, Portions
  <2>1. stock[v][m] <= stock[Current][m] + Needs(order, Unreported(v), m)
    BY DEF MaterialInv, UsedSince
  <2>2. /\ Unreported(v)' \in SUBSET Keys
        /\ \A j \in Unreported(v)' : order[j].product \in Products
    BY <1>6, <1>7
  <2>3. Needs(order, Unreported(v), m) <= Needs(order, Unreported(v)', m)
    BY <1>6, <2>2, NeedsMonotone
  <2>4. Needs(order, Unreported(v), m) \in Nat /\ Needs(order, Unreported(v)', m) \in Nat
    <3>1. /\ Unreported(v) \in SUBSET Keys
          /\ \A j \in Unreported(v) : order[j].product \in Products
      BY <1>6, <1>7
    <3> QED BY <2>2, <3>1, NeedsFinite
  <2>5. stock[v][m] \in Nat /\ stock[Current][m] \in Nat
    BY DEF MaterialInv, StockTyped
  <2> QED BY <2>1, <2>3, <2>4, <2>5
<1>9. UndeclaredAlone'
  BY <1>1, <1>2 DEF MaterialInv, UndeclaredAlone
<1>10. Enough'
  <2> SUFFICES ASSUME NEW m \in Materials
               PROVE  Needs(order, DeclaredOf(Committed \ made'), m)
                        <= stock[Current][m] + Needs(order, writtenOff \cap made', m)
    BY <1>1, <1>2 DEF Enough, DeclaredOf, Needs, Portions
  <2> DEFINE left == DeclaredOf(Committed \ made)
             left1 == DeclaredOf(Committed \ made')
             gone == writtenOff \cap made
             gone1 == writtenOff \cap made'
  <2>1. Needs(order, left, m) <= stock[Current][m] + Needs(order, gone, m)
    BY DEF MaterialInv, Enough
  <2>2. left1 \in SUBSET left /\ gone \in SUBSET gone1
    BY <1>1 DEF DeclaredOf
  <2>3. /\ left \in SUBSET (Committed \cup made \cup writtenOff)
        /\ left1 \in SUBSET (Committed \cup made \cup writtenOff)
        /\ gone \in SUBSET (Committed \cup made \cup writtenOff)
        /\ gone1 \in SUBSET (Committed \cup made \cup writtenOff)
    BY <1>1 DEF DeclaredOf
  <2> HIDE DEF left, left1, gone, gone1
  <2>4. /\ left \in SUBSET Keys /\ left1 \in SUBSET Keys
        /\ gone \in SUBSET Keys /\ gone1 \in SUBSET Keys
        /\ \A j \in left \cup gone1 \cup left1 \cup gone : order[j].product \in Products
    BY <2>3, ProductsKnown DEF MaterialInv
  <2>5. Needs(order, left1, m) <= Needs(order, left, m)
    BY <2>2, <2>4, NeedsMonotone
  <2>6. Needs(order, gone, m) <= Needs(order, gone1, m)
    BY <2>2, <2>4, NeedsMonotone
  <2>7. /\ Needs(order, left, m) \in Nat /\ Needs(order, left1, m) \in Nat
        /\ Needs(order, gone, m) \in Nat /\ Needs(order, gone1, m) \in Nat
    BY <2>4, NeedsFinite
  <2>8. stock[Current][m] \in Nat
    BY DEF MaterialInv, StockTyped
  <2>9. Needs(order, left1, m) <= stock[Current][m] + Needs(order, gone1, m)
    BY <2>1, <2>5, <2>6, <2>7, <2>8
  <2> QED BY <2>9 DEF left1, gone1
<1> QED BY <1>3, <1>4, <1>5, <1>8, <1>9, <1>10 DEF MaterialInv

(* The drink takes its materials from the stock and from what is still     *)
(* needed, or it was written off and counts on the other side.             *)
LEMMA MakeStep ==
    ASSUME MaterialInv, NEW k \in Keys, Make(k)
    PROVE  MaterialInv'
<1> DEFINE p == order[k].product
           amount == [m \in Materials |-> stock[Current][m] - Recipe[p][m]]
<1>1. /\ order[k].status = "DISPATCHED" \/ k \in writtenOff
      /\ k \notin made /\ made' = made \cup {k}
      /\ \A m \in Materials : stock[Current][m] >= Recipe[p][m]
      /\ Changed(amount, k)
      /\ UNCHANGED <<inventory, watermark, order, writtenOff, lock, client>>
  BY DEF Make, HasCommand, cloud, threads
<1>2. k \in Committed \cup writtenOff /\ order[k].status # None
  BY <1>1 DEF Committed, Active, None, MaterialInv, StockTyped
<1>3. StockTyped /\ stock[Current] \in [Materials -> Nat] /\ p \in Products
  BY <1>2 DEF MaterialInv, StockTyped
<1>4. \A m \in Materials : /\ stock[Current][m] \in Nat /\ Recipe[p][m] \in Nat
                           /\ stock[Current][m] - Recipe[p][m] \in Nat
  BY <1>1, <1>3, AdmissionConstants
<1>5. /\ amount \in [Materials -> Nat]
      /\ \A m \in Materials : amount[m] = stock[Current][m] - Recipe[p][m]
  BY <1>4
<1>6. k # None
  BY AdmissionConstants
<1> HIDE DEF p, amount
<1>7. /\ Current' = Current + 1 /\ Current' \in Nat /\ Version' = 0 .. Current'
      /\ Version' = Version \cup {Current'} /\ Current' \notin Version
      /\ stock' \in [Version' -> [Materials -> Nat]]
      /\ stock'[Current'] = amount
      /\ \A v \in Version : stock'[v] = stock[v]
      /\ reports' = reports \cup {[task |-> k, version |-> Current']}
  BY <1>1, <1>3, <1>5, NextVersion
<1>8. StockTyped'
  BY <1>1, <1>2, <1>3, <1>7 DEF StockTyped
<1>9. ThreadsTyped'
  BY <1>7, ThreadsUntouched DEF Make, MaterialInv
<1>10. \A j \in Committed \cup made \cup writtenOff : j \in Keys /\ order[j].product \in Products
  BY <1>3, ProductsKnown
<1>11. ReportsOpen'
  <2> SUFFICES ASSUME NEW r \in reports', r.task # None
               PROVE  /\ r.task \in made'
                      /\ order[r.task].status = "DISPATCHED" \/ r.task \in writtenOff
                      /\ \A other \in reports' : other.task = r.task => other = r
    BY <1>1 DEF ReportsOpen
  <2>1. \A other \in reports : other.task # k
    BY <1>1, <1>6 DEF MaterialInv, ReportsOpen
  <2>2. CASE r \in reports
    BY <1>1, <1>7, <2>1, <2>2 DEF MaterialInv, ReportsOpen
  <2>3. CASE r = [task |-> k, version |-> Current']
    BY <1>1, <1>7, <2>1, <2>3
  <2> QED BY <1>7, <2>2, <2>3
<1>12. ASSUME NEW v \in Version
       PROVE  /\ Unreported(v)' = Unreported(v) \cup {k}
              /\ Unreported(v) \subseteq made
  <2> DEFINE new == [task |-> k, version |-> Current']
  <2>1. new.task = k /\ new.version = Current' /\ reports' = reports \cup {new}
    BY <1>7
  <2>2. Unreported(v) \subseteq made
    BY AdmissionConstants DEF Unreported, MaterialInv, ReportsOpen
  <2>3. Current' > v
    <3>1. Current \in Nat /\ v \in 0 .. Current
      BY <1>3 DEF StockTyped
    <3> QED BY <1>7, <3>1
  <2> HIDE DEF new
  <2>4. Unreported(v)' = Unreported(v) \cup {k}
    BY <2>1, <2>3 DEF Unreported
  <2> QED BY <2>2, <2>4
<1>13. ASSUME NEW orders, orders \in SUBSET (Committed \cup made \cup writtenOff),
              k \notin orders, NEW m \in Materials
       PROVE  /\ Needs(order, orders \cup {k}, m) = Needs(order, orders, m) + Recipe[p][m]
              /\ Needs(order, orders, m) \in Nat
  <2>1. /\ orders \in SUBSET Keys /\ {k} \in SUBSET Keys /\ orders \cap {k} = {}
        /\ \A j \in orders \cup {k} : order[j].product \in Products
    BY <1>2, <1>10, <1>13
  <2>2. Needs(order, orders \cup {k}, m) = Needs(order, orders, m) + Needs(order, {k}, m)
    BY <2>1, NeedsApart
  <2>3. Needs(order, {k}, m) = Recipe[p][m]
    BY <2>1, NeedsOne DEF p
  <2>4. Needs(order, orders, m) \in Nat
    BY <2>1, NeedsFinite
  <2> QED BY <2>2, <2>3, <2>4
<1>14. UsedSince'
  <2> SUFFICES ASSUME NEW v \in Version', NEW m \in Materials, v >= watermark
               PROVE  stock'[v][m] <= stock'[Current'][m] + Needs(order, Unreported(v)', m)
    BY <1>1 DEF UsedSince, Needs, Portions
  <2>1. stock'[Current'][m] = amount[m] /\ amount[m] \in Nat
    BY <1>5, <1>7
  <2>2. CASE v = Current'
    <3>1. Unreported(v)' \in SUBSET made'
      BY AdmissionConstants, <1>11 DEF Unreported, ReportsOpen
    <3>2. Unreported(v)' \in SUBSET Keys /\ \A j \in Unreported(v)' : order[j].product \in Products
      BY <1>1, <1>2, <1>10, <3>1
    <3>3. Needs(order, Unreported(v)', m) \in Nat
      BY <3>2, NeedsFinite
    <3> QED BY <2>1, <2>2, <3>3
  <2>3. CASE v \in Version
    <3>1. stock[v][m] <= stock[Current][m] + Needs(order, Unreported(v), m)
      BY <2>3 DEF MaterialInv, UsedSince
    <3>2. stock[v][m] \in Nat /\ stock'[v][m] = stock[v][m]
      BY <1>3, <1>7, <2>3 DEF StockTyped
    <3>3. Unreported(v) \in SUBSET (Committed \cup made \cup writtenOff) /\ k \notin Unreported(v)
      BY <1>1, <1>12, <2>3
    <3>4. /\ Needs(order, Unreported(v) \cup {k}, m) = Needs(order, Unreported(v), m) + Recipe[p][m]
          /\ Needs(order, Unreported(v), m) \in Nat
      BY <1>13, <3>3
    <3>5. Needs(order, Unreported(v)', m) = Needs(order, Unreported(v), m) + Recipe[p][m]
      BY <1>12, <2>3, <3>4
    <3> QED BY <1>4, <1>5, <2>1, <3>1, <3>2, <3>4, <3>5
  <2> QED BY <1>7, <2>2, <2>3
<1>15. UndeclaredAlone'
  BY <1>1 DEF MaterialInv, UndeclaredAlone, Committed
<1>16. Enough'
  <2> SUFFICES ASSUME NEW m \in Materials
               PROVE  Needs(order, DeclaredOf(Committed \ made'), m)
                        <= amount[m] + Needs(order, writtenOff \cap made', m)
    BY <1>1, <1>7 DEF Enough, DeclaredOf, Committed, Needs, Portions
  <2> DEFINE left == DeclaredOf(Committed \ made)
             left1 == DeclaredOf(Committed \ made')
             gone == writtenOff \cap made
             gone1 == writtenOff \cap made'
  <2>1. Needs(order, left, m) <= stock[Current][m] + Needs(order, gone, m)
    BY DEF MaterialInv, Enough
  <2>2. /\ left1 \in SUBSET (Committed \cup made \cup writtenOff) /\ k \notin left1
        /\ left \in SUBSET (Committed \cup made \cup writtenOff)
        /\ gone \in SUBSET (Committed \cup made \cup writtenOff) /\ k \notin gone
        /\ gone1 \in SUBSET (Committed \cup made \cup writtenOff)
    BY <1>1 DEF DeclaredOf
  <2>3. /\ k \in Committed /\ p \in Declared => left = left1 \cup {k}
        /\ k \in Committed /\ p \notin Declared => left1 = {}
        /\ k \notin Committed => left1 = left
        /\ k \in writtenOff => gone1 = gone \cup {k}
        /\ k \notin writtenOff => gone1 = gone
    <3>1. k \in Committed /\ p \notin Declared => Committed = {k}
      BY DEF MaterialInv, UndeclaredAlone, p
    <3> QED BY <1>1, <3>1 DEF DeclaredOf, p
  <2> HIDE DEF left, left1, gone, gone1
  <2>4. /\ Needs(order, left1 \cup {k}, m) = Needs(order, left1, m) + Recipe[p][m]
        /\ Needs(order, left1, m) \in Nat
    BY <1>13, <2>2
  <2>5. /\ Needs(order, gone \cup {k}, m) = Needs(order, gone, m) + Recipe[p][m]
        /\ Needs(order, gone, m) \in Nat
    BY <1>13, <2>2
  <2>6. Recipe[p][m] \in Nat /\ stock[Current][m] \in Nat /\ amount[m] \in Nat
        /\ amount[m] = stock[Current][m] - Recipe[p][m]
    BY <1>4, <1>5
  <2>7. Needs(order, gone, m) <= Needs(order, gone1, m) /\ Needs(order, gone1, m) \in Nat
    BY <2>3, <2>5, <2>6
  <2>8. CASE k \in Committed /\ p \in Declared
    <3>1. Needs(order, left, m) = Needs(order, left1, m) + Recipe[p][m]
      BY <2>3, <2>4, <2>8
    <3>2. Needs(order, left1, m) <= amount[m] + Needs(order, gone1, m)
      BY <2>1, <2>4, <2>5, <2>6, <2>7, <3>1
    <3> QED BY <3>2 DEF left1, gone1
  <2>9. CASE k \in Committed /\ p \notin Declared
    <3>1. Needs(order, left1, m) = 0
      BY <2>3, <2>9, NeedsNothing
    <3>2. Needs(order, left1, m) <= amount[m] + Needs(order, gone1, m)
      BY <2>6, <2>7, <3>1
    <3> QED BY <3>2 DEF left1, gone1
  <2>10. CASE k \notin Committed
    <3>1. /\ left1 = left
          /\ Needs(order, gone1, m) = Needs(order, gone, m) + Recipe[p][m]
      BY <1>2, <2>3, <2>5, <2>10
    <3>2. Needs(order, left1, m) = Needs(order, left, m)
      BY <3>1
    <3>3. Needs(order, left1, m) <= amount[m] + Needs(order, gone1, m)
      BY <2>1, <2>4, <2>5, <2>6, <3>1, <3>2
    <3> QED BY <3>3 DEF left1, gone1
  <2> QED BY <2>8, <2>9, <2>10
<1> QED BY <1>8, <1>9, <1>11, <1>14, <1>15, <1>16 DEF MaterialInv

LEMMA MaterialsHold == Spec => []MaterialInv
<1>1. AnswerInv => RowShape
  BY DEF AnswerInv
<1>2. MaterialInv /\ RowShape /\ [Next]_vars => MaterialInv'
  <2> SUFFICES ASSUME MaterialInv, RowShape, [Next]_vars PROVE MaterialInv'
    OBVIOUS
  <2>1. CASE UNCHANGED vars
    <3>1. UNCHANGED <<machine, watermark, order, writtenOff, lock, client, inventory>>
      BY <2>1 DEF vars, machine, cloud, threads
    <3>2. inventory' \in Version
      BY <3>1 DEF MaterialInv, StockTyped
    <3>3. ThreadsTyped'
      BY <3>1 DEF MaterialInv, ThreadsTyped, CommitmentsRead, Committed, DeclaredOf, Version,
                  Needs, Portions, machine
    <3> QED BY <3>1, <3>2, <3>3, ReadingStep
  <2>2. CASE Next
    <3>1. ASSUME NEW c \in Clients,
                 \/ \E request \in Request : Begin(c, request) \/ Repeat(c, request)
                 \/ ReadInventory(c) \/ ReadCommitments(c) \/ Abort(c)
          PROVE  MaterialInv'
      BY <3>1, ClientStep
    <3>2. ASSUME NEW c \in Clients, Admit(c) PROVE MaterialInv'
      BY <3>2, AdmitStep
    <3>3. ASSUME NEW k \in Keys, Dispatch(k) \/ Withdraw(k) \/ Adjudicate(k) PROVE MaterialInv'
      BY <3>3, OrderStep
    <3>4. ASSUME NEW k \in Keys, Make(k) PROVE MaterialInv'
      BY <3>4, MakeStep
    <3>5. ASSUME NEW k \in Keys, Decline(k) PROVE MaterialInv'
      BY <3>5, DeclineStep
    <3>6. ASSUME NEW r \in reports, Event(r) PROVE MaterialInv'
      BY <3>6, EventStep
    <3>7. ASSUME (\E v \in Version : Snapshot(v)) \/ (\E p \in Products : Reprice(p))
          PROVE  MaterialInv'
      BY <3>7, CloudStep
    <3>8. ASSUME NEW m \in Materials, Refill(m) PROVE MaterialInv'
      BY <3>8, RefillStep
    <3> QED BY <2>2, <3>1, <3>2, <3>3, <3>4, <3>5, <3>6, <3>7, <3>8 DEF Next
  <2> QED BY <2>1, <2>2
<1> QED BY <1>1, <1>2, MaterialInit, AnswersHold, PTL DEF Spec

(* However late or out of order snapshots and events arrive, and whatever  *)
(* happens between two reads of PublicOrderService.create, every admitted  *)
(* order finds its materials on the machine, but for what orders written   *)
(* off by an operator took.                                                *)
THEOREM NeverOversells == Spec => []NeverOversold
<1>1. MaterialInv => NeverOversold
  <2> SUFFICES ASSUME MaterialInv, NEW m \in Materials
               PROVE  Needs(order, {k \in Committed \ made : order[k].product \in Declared}, m)
                        <= stock[Current][m] + Needs(order, writtenOff, m)
    BY DEF NeverOversold
  <2>1. Needs(order, DeclaredOf(Committed \ made), m)
          <= stock[Current][m] + Needs(order, writtenOff \cap made, m)
    BY DEF MaterialInv, Enough
  <2>2. /\ DeclaredOf(Committed \ made) \in SUBSET Keys
        /\ \A k \in DeclaredOf(Committed \ made) : order[k].product \in Products
        /\ writtenOff \in SUBSET Keys /\ writtenOff \cap made \in SUBSET writtenOff
        /\ \A k \in writtenOff : order[k].product \in Products
    <3>1. DeclaredOf(Committed \ made) \in SUBSET (Committed \cup made \cup writtenOff)
          /\ writtenOff \in SUBSET (Committed \cup made \cup writtenOff)
      BY DEF DeclaredOf
    <3> QED BY <3>1, ProductsKnown DEF MaterialInv
  <2>3. Needs(order, writtenOff \cap made, m) <= Needs(order, writtenOff, m)
    BY <2>2, NeedsMonotone
  <2>4. /\ Needs(order, DeclaredOf(Committed \ made), m) \in Nat
        /\ Needs(order, writtenOff, m) \in Nat
        /\ Needs(order, writtenOff \cap made, m) \in Nat
    <3>1. /\ writtenOff \cap made \in SUBSET Keys
          /\ \A k \in writtenOff \cap made : order[k].product \in Products
      BY <2>2
    <3> QED BY <2>2, <3>1, NeedsFinite
  <2>5. stock[Current][m] \in Nat
    BY DEF MaterialInv, StockTyped
  <2> QED BY <2>1, <2>3, <2>4, <2>5 DEF DeclaredOf
<1> QED BY <1>1, MaterialsHold, PTL
=============================================================================
