------------------------ MODULE DeviceOwnershipProofs ------------------------
(***************************************************************************)
(* Proofs about DeviceOwnership, for any number of merchants, sessions,    *)
(* claim codes, transfers and orders, interleaved with the credentials in  *)
(* every way.                                                              *)
(*                                                                         *)
(* The frozen flag is the hinge: while a transfer is active the device is  *)
(* frozen and cannot change hands, so the transfer goes on naming the      *)
(* owner and the version it saw; while no transfer is active the device is *)
(* free, and it changes hands only without open orders and while no order  *)
(* holds its row between insertion and commit.                             *)
(*                                                                         *)
(* Tokens: a token keeps the grant it was issued for, and the grant, once  *)
(* used, names that token, so a second one cannot be issued for it.        *)
(*                                                                         *)
(* The broker: a call that ran alone leaves the broker and the rows        *)
(* agreeing; until the next call starts, nothing else touches either.      *)
(***************************************************************************)
EXTENDS DeviceOwnership, FiniteSetTheorems, TLAPS

Owners == Merchants \cup {Legacy}
Lifecycles == {"PENDING_ACTIVATION", "ACTIVE", "SUSPENDED", "RETIRED", None} \cup AdminStates
Provisionings == {"LEGACY", "PAIRING_PENDING", "CLAIMED_PENDING_PROVISION", "PROVISIONED"}

Terminals == [tenant: Owners, version: Nat, frozen: BOOLEAN, lifecycle: Lifecycles,
              provisioning: Provisionings]
TransferRows == [status: {None, "PENDING_RECIPIENT", "PENDING_PLATFORM", "CANCELLED"},
                 source: Owners \cup {None}, target: Merchants \cup {None},
                 version: Nat, previous: Lifecycles]
OrderRows == [status: {None, "PLACING", "OPEN", "CLOSED"}, version: Nat]

(* Every row keeps the shape of its columns.                               *)
OwnershipType ==
    /\ terminal \in Terminals
    /\ transfer \in [Transfers -> TransferRows]
    /\ order \in [Orders -> OrderRows]

(* One transfer at a time is under way, and it is of the present owner.    *)
Current(x) == transfer[x].source = terminal.tenant /\ transfer[x].version = terminal.version

OneTransfer ==
    /\ \A x, y \in Transfers : Active(x) /\ Active(y) => x = y
    /\ \A x \in Transfers : Active(x) => terminal.frozen /\ Current(x)
    /\ terminal.frozen => \E x \in Transfers : Active(x)

(* An interval of ownership that is open is that of the present owner.     *)
IntervalAgrees ==
    \A i \in interval : i = [tenant |-> terminal.tenant, version |-> terminal.version]

(* An order is the present owner's from its insertion on: until it commits *)
(* nobody sees it, and it is the lock that keeps the owner.                *)
Placed == {o \in Orders : order[o].status \in {"PLACING", "OPEN"}}

PlacedFollow ==
    \A o \in Placed : ~terminal.frozen /\ order[o].version = terminal.version

OwnershipInv ==
    /\ OwnershipType
    /\ OneTransfer
    /\ IntervalAgrees
    /\ PlacedFollow

-----------------------------------------------------------------------------
(* The platform's device starts unsold, without a transfer or an order.    *)
LEMMA OwnershipInit == Init => OwnershipInv
<1> SUFFICES ASSUME Init PROVE OwnershipInv
  OBVIOUS
<1>1. terminal \in Terminals /\ ~terminal.frozen
  BY DEF Init, Terminals, Owners, Lifecycles, Provisionings
<1>2. NoTransfer \in TransferRows /\ NoTransfer.status = None
  BY DEF NoTransfer, TransferRows, Lifecycles
<1>3. \A x \in Transfers : ~Active(x)
  BY <1>2, NoneIsNoStatus DEF Init, Active
<1>4. OwnershipType
  BY <1>1, <1>2 DEF Init, OwnershipType, OrderRows
<1>5. Placed = {}
  BY NoneIsNoStatus DEF Init, Placed
<1>6. IntervalAgrees
  BY DEF Init, IntervalAgrees
<1> QED
  BY <1>1, <1>3, <1>4, <1>5, <1>6 DEF OwnershipInv, OneTransfer, PlacedFollow

(* A step that leaves the owner, the version and the flag alone, and adds  *)
(* at most the interval of the present owner.                              *)
LEMMA SameOwner ==
    ASSUME OwnershipInv, terminal' \in Terminals,
           terminal'.tenant = terminal.tenant, terminal'.version = terminal.version,
           terminal'.frozen = terminal.frozen,
           UNCHANGED <<transfer, order>>,
           interval' \subseteq
              interval \cup {[tenant |-> terminal.tenant, version |-> terminal.version]}
    PROVE  OwnershipInv'
<1>1. OwnershipType'
  BY DEF OwnershipInv, OwnershipType
<1>2. OneTransfer'
  BY DEF OwnershipInv, OneTransfer, Active, Current
<1>3. IntervalAgrees'
  BY DEF OwnershipInv, IntervalAgrees
<1>4. PlacedFollow'
  BY DEF OwnershipInv, PlacedFollow, Placed
<1> QED
  BY <1>1, <1>2, <1>3, <1>4 DEF OwnershipInv

(* A claim: a free device without open orders gets its next owner.         *)
LEMMA ClaimKeeps ==
    ASSUME OwnershipInv, NEW m \in Merchants, NEW provisioning \in Provisionings,
           ChangesHands(m, provisioning)
    PROVE  OwnershipInv'
<1>1. \A x \in Transfers : ~Active(x)
  BY DEF ChangesHands, OwnershipInv, OneTransfer
<1>2. Placed = {}
  BY DEF ChangesHands, TerminalFree, Blocking, OpenOrders, Placed
<1>3. /\ terminal' \in Terminals
      /\ terminal'.tenant = m
      /\ terminal'.version = terminal.version + 1
      /\ ~terminal'.frozen
  <2>1. /\ terminal' = [terminal EXCEPT !.tenant = m, !.version = @ + 1,
                                        !.provisioning = provisioning]
        /\ ~terminal.frozen
    BY DEF ChangesHands
  <2>2. terminal \in Terminals /\ terminal.version + 1 \in Nat /\ m \in Owners
    BY DEF OwnershipInv, OwnershipType, Terminals, Owners
  <2> QED
    BY <2>1, <2>2 DEF Terminals
<1>4. UNCHANGED <<transfer, order>>
  BY DEF ChangesHands
<1>5. OwnershipType'
  BY <1>3, <1>4 DEF OwnershipInv, OwnershipType
<1>6. OneTransfer'
  BY <1>1, <1>3, <1>4 DEF OneTransfer, Active
<1>7. IntervalAgrees'
  BY <1>3 DEF ChangesHands, IntervalAgrees
<1>8. PlacedFollow'
  BY <1>2, <1>4 DEF PlacedFollow, Placed
<1> QED
  BY <1>5, <1>6, <1>7, <1>8 DEF OwnershipInv

(* A transfer is asked for: the device freezes.                            *)
LEMMA TransferKeeps ==
    ASSUME OwnershipInv, NEW x \in Transfers, NEW target \in Merchants \cup {None},
           Transfer(x, target)
    PROVE  OwnershipInv'
<1> DEFINE row == [status |-> IF target = None THEN "PENDING_PLATFORM" ELSE "PENDING_RECIPIENT",
                   source |-> terminal.tenant, target |-> target,
                   version |-> terminal.version, previous |-> terminal.lifecycle]
<1>0. terminal \in Terminals /\ transfer \in [Transfers -> TransferRows]
  BY DEF OwnershipInv, OwnershipType
<1>1. row \in TransferRows
  BY <1>0 DEF TransferRows, Terminals
<1>2. /\ terminal' \in Terminals
      /\ terminal'.tenant = terminal.tenant
      /\ terminal'.version = terminal.version
      /\ terminal'.frozen
  BY <1>0 DEF Transfer, Terminals, Lifecycles
<1>3. transfer' = [transfer EXCEPT ![x] = row]
  BY DEF Transfer
<1>4. UNCHANGED <<interval, order>>
  BY DEF Transfer
<1>5. OwnershipType'
  BY <1>0, <1>1, <1>2, <1>3, <1>4 DEF OwnershipInv, OwnershipType
<1>6. /\ transfer'[x] = row
      /\ \A y \in Transfers \ {x} : transfer'[y] = transfer[y]
  BY <1>0, <1>3
<1>7. \A y \in Transfers : ~Active(y)
  BY DEF Transfer
<1>8. \A y \in Transfers : Active(y)' <=> y = x
  BY <1>6, <1>7 DEF Active
<1>9. Current(x)'
  BY <1>2, <1>6 DEF Current
<1>10. OneTransfer'
  BY <1>2, <1>8, <1>9 DEF OneTransfer
<1>11. IntervalAgrees'
  BY <1>2, <1>4 DEF OwnershipInv, IntervalAgrees
<1>12. PlacedFollow'
  BY <1>4 DEF Transfer, TerminalFree, Blocking, OpenOrders, PlacedFollow, Placed
<1> QED
  BY <1>5, <1>10, <1>11, <1>12 DEF OwnershipInv

(* It is accepted: it goes on waiting for the platform.                    *)
LEMMA AcceptKeeps ==
    ASSUME OwnershipInv, NEW x \in Transfers, AcceptTransfer(x)
    PROVE  OwnershipInv'
<1>0. transfer \in [Transfers -> TransferRows]
  BY DEF OwnershipInv, OwnershipType
<1>1. transfer' = [transfer EXCEPT ![x].status = "PENDING_PLATFORM"]
  BY DEF AcceptTransfer
<1>2. transfer' \in [Transfers -> TransferRows]
  BY <1>0, <1>1 DEF TransferRows
<1>3. \A y \in Transfers : /\ transfer'[y].source = transfer[y].source
                           /\ transfer'[y].version = transfer[y].version
  BY <1>0, <1>1 DEF TransferRows
<1>4. \A y \in Transfers : Active(y)' <=> Active(y)
  BY <1>0, <1>1 DEF AcceptTransfer, Active, TransferRows
<1>5. UNCHANGED <<terminal, interval, order>>
  BY DEF AcceptTransfer
<1>6. OneTransfer'
  BY <1>3, <1>4, <1>5 DEF OwnershipInv, OneTransfer, Current
<1> QED
  BY <1>2, <1>5, <1>6 DEF OwnershipInv, OwnershipType, IntervalAgrees,
     PlacedFollow, Placed

(* It is cancelled: it was the only one, so the device is free again.      *)
LEMMA CancelKeeps ==
    ASSUME OwnershipInv, NEW x \in Transfers, CancelTransfer(x)
    PROVE  OwnershipInv'
<1>0. terminal \in Terminals /\ transfer \in [Transfers -> TransferRows]
  BY DEF OwnershipInv, OwnershipType
<1>1. Active(x) /\ Current(x)
  BY DEF CancelTransfer, Cancellable, Active, OwnershipInv, OneTransfer
<1>2. \A y \in Transfers : Active(y) => y = x
  BY <1>1 DEF OwnershipInv, OneTransfer
<1>3. /\ terminal' = [terminal EXCEPT !.frozen = FALSE, !.lifecycle = transfer[x].previous]
      /\ transfer' = [transfer EXCEPT ![x].status = "CANCELLED"]
      /\ UNCHANGED <<interval, order>>
  BY <1>1 DEF CancelTransfer, Current
<1>4. /\ terminal' \in Terminals
      /\ terminal'.tenant = terminal.tenant
      /\ terminal'.version = terminal.version
      /\ ~terminal'.frozen
  BY <1>0, <1>3 DEF Terminals, TransferRows
<1>5. transfer' \in [Transfers -> TransferRows]
  BY <1>0, <1>3 DEF TransferRows
<1>6. \A y \in Transfers : ~Active(y)'
  BY <1>0, <1>2, <1>3 DEF Active, TransferRows
<1>7. OneTransfer'
  BY <1>4, <1>6 DEF OneTransfer
<1>8. OwnershipType' /\ IntervalAgrees'
  BY <1>3, <1>4, <1>5 DEF OwnershipInv, OwnershipType, IntervalAgrees
<1>9. PlacedFollow'
  BY <1>3, <1>4 DEF OwnershipInv, PlacedFollow, Placed
<1> QED
  BY <1>7, <1>8, <1>9 DEF OwnershipInv

(* Orders come and go; a frozen device takes none.                         *)
LEMMA OrderKeeps ==
    ASSUME OwnershipInv, NEW o \in Orders, PlaceOrder(o) \/ CommitOrder(o) \/ CloseOrder(o)
    PROVE  OwnershipInv'
<1>0. terminal \in Terminals /\ order \in [Orders -> OrderRows]
  BY DEF OwnershipInv, OwnershipType
<1>1. UNCHANGED <<terminal, interval, transfer>>
  BY DEF PlaceOrder, CommitOrder, CloseOrder
<1>2. order' \in [Orders -> OrderRows]
  BY <1>0 DEF PlaceOrder, CommitOrder, CloseOrder, OrderRows, Terminals
<1>3. ASSUME NEW p \in Placed'
      PROVE  \/ p \in Placed /\ order'[p].version = order[p].version
             \/ ~terminal.frozen /\ order'[p].version = terminal.version
  BY <1>0, <1>3 DEF PlaceOrder, CommitOrder, CloseOrder, Sells, OrderRows, Placed
<1>4. PlacedFollow'
  BY <1>1, <1>3 DEF OwnershipInv, PlacedFollow, Placed
<1>5. OneTransfer' /\ IntervalAgrees'
  BY <1>1 DEF OwnershipInv, OneTransfer, Active, Current, IntervalAgrees
<1>6. OwnershipType'
  BY <1>1, <1>2 DEF OwnershipInv, OwnershipType
<1> QED
  BY <1>4, <1>5, <1>6 DEF OwnershipInv

(* Every operation on the device keeps its records in agreement.           *)
LEMMA OwnershipStep == OwnershipInv /\ [Next]_vars => OwnershipInv'
<1> SUFFICES ASSUME OwnershipInv, [Next]_vars PROVE OwnershipInv'
  OBVIOUS
<1>0. terminal \in Terminals
  BY DEF OwnershipInv, OwnershipType
<1>1. CASE UNCHANGED owned
  BY <1>0, <1>1, SameOwner DEF owned
<1>2. ASSUME NEW c \in Codes, NEW t \in Tokens, Activate(c, t) PROVE OwnershipInv'
  BY <1>0, <1>2, SameOwner DEF Activate, Terminals, Lifecycles
<1>3. ASSUME NEW q \in Pairs, CreateSession(q) PROVE OwnershipInv'
  BY <1>0, <1>3, SameOwner DEF CreateSession, Terminals, Lifecycles, Provisionings
<1>4. ASSUME NEW q \in Pairs, SessionRunOut(q) \/ SessionExpires(q) PROVE OwnershipInv'
  BY <1>1, <1>4 DEF SessionRunOut, SessionExpires
<1>5. ASSUME NEW q \in Pairs, NEW t \in Tokens, Provision(q, t) PROVE OwnershipInv'
  BY <1>0, <1>5, SameOwner DEF Provision, Terminals, Lifecycles, Provisionings
<1>6. ASSUME NEW q \in Pairs, NEW m \in Merchants, ClaimPairing(q, m) PROVE OwnershipInv'
  BY <1>6, ClaimKeeps DEF ClaimPairing, Provisionings
<1>7. ASSUME NEW c \in ClaimCodes, IssueClaim(c) PROVE OwnershipInv'
  BY <1>0, <1>7, SameOwner DEF IssueClaim
<1>8. ASSUME NEW c \in ClaimCodes, NEW m \in Merchants, ClaimByCode(c, m) PROVE OwnershipInv'
  BY <1>0, <1>8, ClaimKeeps DEF ClaimByCode, Terminals
<1>9. ASSUME NEW status \in {"ACTIVE", "SUSPENDED", "RETIRED"} \cup AdminStates,
             SetsLifecycle(status)
      PROVE  OwnershipInv'
  BY <1>0, <1>9, SameOwner DEF SetsLifecycle, Terminals, Lifecycles
<1>10. CASE UpdateLifecycle
  BY <1>9, <1>10 DEF UpdateLifecycle
<1>11. ASSUME NEW status \in AdminStates, AdminLifecycle(status) PROVE OwnershipInv'
  BY <1>9, <1>11 DEF AdminLifecycle
<1>12. CASE UNCHANGED vars
  BY <1>1, <1>12 DEF vars
<1> QED
  BY <1>1, <1>2, <1>3, <1>4, <1>5, <1>6, <1>7, <1>8, <1>10, <1>11, <1>12, TransferKeeps,
     AcceptKeeps, CancelKeeps, OrderKeeps DEF Next

(* The frozen flag, the transfers and the ownership intervals always name  *)
(* one owner.                                                              *)
THEOREM OwnershipAlwaysAgrees == Spec => []OwnershipAgrees
<1>1. OwnershipInv => OwnershipAgrees
  BY DEF OwnershipInv, OneTransfer, IntervalAgrees, Current, OwnershipAgrees
<1> QED
  BY <1>1, OwnershipInit, OwnershipStep, PTL DEF Spec

(* An order in progress is always the present owner's, whoever claims the  *)
(* device, transfers it, activates it again or gives it back.              *)
THEOREM OrdersAlwaysFollow == Spec => []OrdersFollowOwnership
<1>1. OwnershipInv => OrdersFollowOwnership
  BY DEF OwnershipInv, PlacedFollow, Placed, OrdersFollowOwnership, OpenOrders
<1> QED
  BY <1>1, OwnershipInit, OwnershipStep, PTL DEF Spec

-----------------------------------------------------------------------------
(* What tokens were issued for                                             *)
(*                                                                         *)
(* Each kind of grant keeps the token it gave, and gives another only      *)
(* while it has none: a code that is not CONSUMED, a session that is       *)
(* CLAIMED (a PROVISIONED one may give its own token again, but that one   *)
(* exists; a late EXPIRED gives none), a rotation key without a saved      *)
(* answer.                                                                 *)

CredentialStates == {None, "ACTIVE", "GRACE", "REVOKED"}

(* What becomes of a session that gave its token.                          *)
Spent == {"PROVISIONED", "EXPIRED"}

TokensTyped ==
    /\ credential \in [Tokens -> CredentialStates]
    /\ origin = [t \in Tokens |-> origin[t]]
    /\ rotated = [k \in Keys |-> rotated[k]]
    /\ activation = [c \in Codes |-> activation[c]]
    /\ pairing = [q \in Pairs |-> pairing[q]]
    /\ \A q \in Pairs :
          /\ pairing[q] = [status |-> pairing[q].status, credential |-> pairing[q].credential]
          /\ pairing[q].credential \in Tokens \cup {None}
    /\ rotating = [r \in Rotations |-> rotating[r]]
    /\ \A r \in Rotations :
          rotating[r] # None => rotating[r].key \in Keys /\ rotating[r].old \in Tokens

(* Only issued tokens have a grant, and sessions name issued tokens.       *)
TokensIssued ==
    /\ \A t \in Tokens : credential[t] = None => origin[t] = None
    /\ \A q \in Pairs : pairing[q].credential # None =>
          /\ pairing[q].status \in Spent
          /\ credential[pairing[q].credential] # None

(* The grant remembers its token.                                          *)
GrantsKept ==
    /\ \A t \in Tokens, c \in Codes : origin[t] = c =>
          activation[c].status = "CONSUMED" /\ activation[c].credential = t
    /\ \A t \in Tokens, q \in Pairs : origin[t] = q => pairing[q].credential = t
    /\ \A t \in Tokens, k \in Keys : origin[t] = k => rotated[k] = t

GrantInv == TokensTyped /\ TokensIssued /\ GrantsKept

LEMMA GrantInit == Init => GrantInv
<1> SUFFICES ASSUME Init PROVE GrantInv
  OBVIOUS
<1> USE CredentialConstants DEF Init, CredentialsInit
<1>1. credential \in [Tokens -> CredentialStates]
  BY DEF CredentialStates
<1>2. TokensTyped
  BY <1>1 DEF TokensTyped
<1>3. \A t \in Tokens : origin[t] = None
  OBVIOUS
<1>4. TokensIssued
  BY <1>3 DEF TokensIssued
<1>5. GrantsKept
  BY <1>3 DEF GrantsKept
<1> QED BY <1>2, <1>4, <1>5 DEF GrantInv

(* A new token takes a number that had none; no issued token disappears.   *)
LEMMA NewToken ==
    ASSUME GrantInv, NEW rows \in [Tokens -> CredentialStates],
           \A t \in Tokens : credential[t] # None => rows[t] # None,
           NEW new, NEW grant, Issues(rows, new, grant)
    PROVE  /\ new \in Tokens /\ credential[new] = None
           /\ credential' \in [Tokens -> CredentialStates]
           /\ \A t \in Tokens : credential[t] # None => credential'[t] # None
           /\ credential'[new] # None
           /\ origin' = [t \in Tokens |-> origin'[t]]
           /\ origin'[new] = grant
           /\ \A t \in Tokens : t # new => origin'[t] = origin[t]
           /\ \A t \in Tokens : credential'[t] = None => origin'[t] = None
<1>1. /\ new \in Tokens /\ credential[new] = None
      /\ credential' = [rows EXCEPT ![new] = "ACTIVE"]
      /\ origin' = [origin EXCEPT ![new] = grant]
  BY DEF Issues, Unused
<1>2. /\ origin'[new] = grant /\ \A t \in Tokens : t # new => origin'[t] = origin[t]
      /\ origin' = [t \in Tokens |-> origin'[t]]
  BY <1>1 DEF GrantInv, TokensTyped
<1>3. /\ credential' \in [Tokens -> CredentialStates]
      /\ credential'[new] = "ACTIVE"
      /\ \A t \in Tokens : t # new => credential'[t] = rows[t]
  BY <1>1 DEF CredentialStates
<1> QED BY <1>1, <1>2, <1>3, CredentialConstants DEF GrantInv, TokensIssued

(* Grace ends the sole use of a token, not the token.                      *)
LEMMA GracedKeeps ==
    ASSUME GrantInv
    PROVE  /\ Graced(credential) \in [Tokens -> CredentialStates]
           /\ \A t \in Tokens : credential[t] # None => Graced(credential)[t] # None
  BY CredentialConstants DEF Graced, GrantInv, TokensTyped, CredentialStates

LEMMA ActivationGrant ==
    ASSUME GrantInv, NEW c \in Codes, NEW new \in Tokens, ActivateToken(c, new)
    PROVE  GrantInv'
<1>1. /\ activation[c].status = "PENDING"
      /\ Issues(Graced(credential), new, c)
      /\ activation' = [activation EXCEPT ![c] = [status |-> "CONSUMED", credential |-> new]]
      /\ UNCHANGED <<rotated, rotating, pairing>>
  BY DEF ActivateToken, Redeemable
<1>2. /\ credential' \in [Tokens -> CredentialStates]
      /\ \A t \in Tokens : credential[t] # None => credential'[t] # None
      /\ origin' = [t \in Tokens |-> origin'[t]] /\ origin'[new] = c
      /\ \A t \in Tokens : t # new => origin'[t] = origin[t]
      /\ \A t \in Tokens : credential'[t] = None => origin'[t] = None
  BY <1>1, GracedKeeps, NewToken
<1>3. /\ activation' = [d \in Codes |-> activation'[d]]
      /\ activation'[c].status = "CONSUMED" /\ activation'[c].credential = new
      /\ \A d \in Codes : d # c => activation'[d] = activation[d]
  BY <1>1 DEF GrantInv, TokensTyped
<1>4. TokensTyped'
  BY <1>1, <1>2, <1>3 DEF GrantInv, TokensTyped
<1>5. TokensIssued'
  BY <1>1, <1>2 DEF GrantInv, TokensIssued, TokensTyped
<1>6. GrantsKept'
  <2>1. \A t \in Tokens : origin[t] # c
    BY <1>1 DEF GrantInv, GrantsKept
  <2>2. c \notin Pairs /\ c \notin Keys
    BY CredentialConstants
  <2> QED BY <1>1, <1>2, <1>3, <2>1, <2>2 DEF GrantInv, GrantsKept
<1> QED BY <1>4, <1>5, <1>6 DEF GrantInv

LEMMA PairingGrant ==
    ASSUME GrantInv, NEW q \in Pairs, NEW t \in Tokens, ProvisionToken(q, t)
    PROVE  GrantInv'
<1> DEFINE given == IF pairing[q].credential = None THEN t ELSE pairing[q].credential
<1>1. /\ pairing' = [pairing EXCEPT ![q] = [status |-> "PROVISIONED", credential |-> given]]
      /\ UNCHANGED <<activation, rotated, rotating>>
      /\ \/ pairing[q].status = "CLAIMED"
         \/ pairing[q].status = "PROVISIONED" /\ pairing[q].credential = t
  BY DEF ProvisionToken, Provisionable
<1>2. /\ pairing[q].credential = None \/ pairing[q].credential = t
      /\ given = t
  BY <1>1 DEF GrantInv, TokensIssued, Spent
<1> HIDE DEF given
<1>3. /\ pairing' = [p \in Pairs |-> pairing'[p]]
      /\ pairing'[q] = [status |-> "PROVISIONED", credential |-> t]
      /\ \A p \in Pairs : p # q => pairing'[p] = pairing[p]
  BY <1>1, <1>2 DEF GrantInv, TokensTyped
<1>4. /\ pairing'[q].status = "PROVISIONED" /\ pairing'[q].credential = t
  BY <1>3
<1>5. CASE credential[t] # None /\ UNCHANGED <<credential, origin>>
  <2>1. TokensTyped'
    BY <1>1, <1>3, <1>4, <1>5 DEF GrantInv, TokensTyped
  <2>2. TokensIssued'
    BY <1>3, <1>4, <1>5 DEF GrantInv, TokensIssued, Spent
  <2>3. GrantsKept'
    BY <1>1, <1>2, <1>3, <1>4, <1>5, CredentialConstants DEF GrantInv, GrantsKept
  <2> QED BY <2>1, <2>2, <2>3 DEF GrantInv
<1>6. CASE credential[t] = None /\ Issues(Graced(credential), t, q)
  <2>1. /\ credential' \in [Tokens -> CredentialStates]
        /\ \A u \in Tokens : credential[u] # None => credential'[u] # None
        /\ credential'[t] # None
        /\ origin' = [u \in Tokens |-> origin'[u]] /\ origin'[t] = q
        /\ \A u \in Tokens : u # t => origin'[u] = origin[u]
        /\ \A u \in Tokens : credential'[u] = None => origin'[u] = None
    BY <1>6, GracedKeeps, NewToken
  <2>2. TokensTyped'
    BY <1>1, <1>3, <1>4, <2>1 DEF GrantInv, TokensTyped
  <2>3. TokensIssued'
    BY <1>3, <1>4, <2>1 DEF GrantInv, TokensIssued, TokensTyped, Spent
  <2>4. GrantsKept'
    <3>1. \A u \in Tokens : origin[u] = q => u = t
      BY <1>2, CredentialConstants DEF GrantInv, GrantsKept
    <3>2. q \notin Codes /\ q \notin Keys
      BY CredentialConstants
    <3> QED BY <1>1, <1>3, <1>4, <2>1, <3>1, <3>2 DEF GrantInv, GrantsKept
  <2> QED BY <2>2, <2>3, <2>4 DEF GrantInv
<1> QED BY <1>5, <1>6 DEF ProvisionToken

LEMMA RotationGrant ==
    ASSUME GrantInv, NEW r \in Rotations, Rotate(r)
    PROVE  GrantInv'
<1> DEFINE key == rotating[r].key
           rows == [credential EXCEPT ![rotating[r].old] = "GRACE"]
<1>1. /\ rotating[r] # None /\ UNCHANGED <<activation, pairing>>
      /\ rotating' = [rotating EXCEPT ![r] = None]
      /\ \/ /\ rotated[key] = None
            /\ \E t \in Tokens : Issues(rows, t, key) /\ rotated' = [rotated EXCEPT ![key] = t]
         \/ UNCHANGED <<credential, origin, rotated>>
  BY DEF Rotate, Fresh
<1>2. key \in Keys /\ rotating[r].old \in Tokens
  BY <1>1 DEF GrantInv, TokensTyped
<1>3. /\ rotating' = [s \in Rotations |-> rotating'[s]]
      /\ \A s \in Rotations : rotating'[s] # None => rotating'[s] = rotating[s]
  BY <1>1 DEF GrantInv, TokensTyped
<1>4. CASE UNCHANGED <<credential, origin, rotated>>
  <2>1. TokensTyped'
    BY <1>1, <1>3, <1>4 DEF GrantInv, TokensTyped
  <2> QED BY <1>1, <1>4, <2>1 DEF GrantInv, TokensIssued, GrantsKept
<1>5. ASSUME NEW t \in Tokens, rotated[key] = None, Issues(rows, t, key),
             rotated' = [rotated EXCEPT ![key] = t]
      PROVE  GrantInv'
  <2>1. /\ rows \in [Tokens -> CredentialStates]
        /\ \A u \in Tokens : credential[u] # None => rows[u] # None
    BY <1>2, CredentialConstants DEF GrantInv, TokensTyped, CredentialStates
  <2> HIDE DEF rows, key
  <2>2. /\ credential' \in [Tokens -> CredentialStates]
        /\ \A u \in Tokens : credential[u] # None => credential'[u] # None
        /\ origin' = [u \in Tokens |-> origin'[u]] /\ origin'[t] = key
        /\ \A u \in Tokens : u # t => origin'[u] = origin[u]
        /\ \A u \in Tokens : credential'[u] = None => origin'[u] = None
    BY <1>5, <2>1, NewToken
  <2>3. /\ rotated' = [k \in Keys |-> rotated'[k]] /\ rotated'[key] = t
        /\ \A k \in Keys : k # key => rotated'[k] = rotated[k]
    BY <1>2, <1>5 DEF GrantInv, TokensTyped
  <2>4. TokensTyped'
    BY <1>1, <1>3, <2>2, <2>3 DEF GrantInv, TokensTyped
  <2>5. TokensIssued'
    BY <1>1, <2>2 DEF GrantInv, TokensIssued, TokensTyped
  <2>6. GrantsKept'
    <3>1. \A u \in Tokens : origin[u] # key
      BY <1>2, <1>5, CredentialConstants DEF GrantInv, GrantsKept
    <3>2. key \notin Codes /\ key \notin Pairs
      BY <1>2, CredentialConstants
    <3> QED BY <1>1, <1>2, <2>2, <2>3, <3>1, <3>2 DEF GrantInv, GrantsKept
  <2> QED BY <2>4, <2>5, <2>6 DEF GrantInv
<1> QED BY <1>1, <1>4, <1>5

(* Sessions move on and keep the token they gave.                          *)
LEMMA SessionsMove ==
    ASSUME GrantInv, UNCHANGED tokens, pairing' = [q \in Pairs |-> pairing'[q]],
           \A q \in Pairs :
              /\ pairing'[q] = [status |-> pairing'[q].status,
                                credential |-> pairing[q].credential]
              /\ pairing[q].credential # None => pairing'[q].status \in Spent
    PROVE  GrantInv'
<1>1. UNCHANGED <<credential, origin, activation, rotated, rotating>>
  BY DEF tokens
<1>2. \A q \in Pairs : pairing'[q].credential = pairing[q].credential
  <2> SUFFICES ASSUME NEW q \in Pairs PROVE pairing'[q].credential = pairing[q].credential
    OBVIOUS
  <2>1. pairing'[q] = [status |-> pairing'[q].status, credential |-> pairing[q].credential]
    OBVIOUS
  <2> QED BY <2>1
<1>3. TokensTyped'
  BY <1>1, <1>2 DEF GrantInv, TokensTyped
<1>4. TokensIssued' /\ GrantsKept'
  BY <1>1, <1>2 DEF GrantInv, TokensIssued, GrantsKept
<1> QED BY <1>3, <1>4 DEF GrantInv

(* One session changes its status; if it gave a token, it is spent.        *)
LEMMA SessionMoves ==
    ASSUME GrantInv, UNCHANGED tokens, NEW q \in Pairs, NEW status,
           pairing[q].status = "PENDING" \/ status \in Spent,
           pairing' = [pairing EXCEPT ![q].status = status]
    PROVE  GrantInv'
<1>1. pairing[q].credential # None => status \in Spent
  BY DEF GrantInv, TokensIssued, Spent
<1>2. pairing[q] = [status |-> pairing[q].status, credential |-> pairing[q].credential]
  BY DEF GrantInv, TokensTyped
<1>3. pairing' = [pairing EXCEPT ![q] = [pairing[q] EXCEPT !.status = status]]
  OBVIOUS
<1>4. pairing'[q] = [pairing[q] EXCEPT !.status = status]
  BY <1>3 DEF GrantInv, TokensTyped
<1>5. pairing'[q] = [status |-> status, credential |-> pairing[q].credential]
  BY <1>2, <1>4
<1>6. /\ pairing'[q].status = status
      /\ pairing'[q] = [status |-> pairing'[q].status, credential |-> pairing[q].credential]
  BY <1>5
<1>7. /\ pairing' = [p \in Pairs |-> pairing'[p]]
      /\ \A p \in Pairs : p # q => pairing'[p] = pairing[p]
  BY <1>3 DEF GrantInv, TokensTyped
<1>8. ASSUME NEW p \in Pairs
      PROVE  /\ pairing'[p] = [status |-> pairing'[p].status, credential |-> pairing[p].credential]
             /\ pairing[p].credential # None => pairing'[p].status \in Spent
  BY <1>1, <1>6, <1>7 DEF GrantInv, TokensTyped, TokensIssued
<1> QED BY <1>7, <1>8, SessionsMove

LEMMA GrantStep == GrantInv /\ [Next]_vars => GrantInv'
<1> SUFFICES ASSUME GrantInv, [Next]_vars PROVE GrantInv'
  OBVIOUS
<1>1. CASE UNCHANGED <<tokens, pairing>>
  BY <1>1 DEF tokens, GrantInv, TokensTyped, TokensIssued, GrantsKept
<1>2. ASSUME NEW c \in Codes, CreateActivationCode(c)
      PROVE  GrantInv'
  <2>1. /\ activation[c].status = None
        /\ activation' = [d \in Codes |->
              IF d = c THEN [status |-> "PENDING", credential |-> None]
              ELSE IF activation[d].status = "PENDING"
                     THEN [activation[d] EXCEPT !.status = "CANCELLED"]
              ELSE activation[d]]
        /\ UNCHANGED <<credential, origin, rotated, rotating, pairing>>
    BY <1>2 DEF CreateActivationCode
  <2>2. \A d \in Codes : activation[d].status = "CONSUMED" => activation'[d] = activation[d]
    BY <2>1, CredentialConstants
  <2>3. TokensTyped' /\ TokensIssued'
    BY <2>1 DEF GrantInv, TokensTyped, TokensIssued
  <2>4. \A t \in Tokens, d \in Codes : origin[t] = d =>
           activation'[d].status = "CONSUMED" /\ activation'[d].credential = t
    <3>1. \A t \in Tokens, d \in Codes : origin[t] = d =>
             activation[d].status = "CONSUMED" /\ activation[d].credential = t
      BY DEF GrantInv, GrantsKept
    <3> QED BY <2>2, <3>1
  <2>5. GrantsKept'
    <3>1. UNCHANGED <<origin, rotated, pairing>>
      BY <2>1
    <3> QED BY <2>4, <3>1 DEF GrantInv, GrantsKept
  <2> QED BY <2>3, <2>5 DEF GrantInv
<1>3. ASSUME NEW r \in Rotations, NEW k \in Keys, NEW t \in Tokens, Authenticate(r, k, t)
      PROVE  GrantInv'
  <2>1. /\ rotating' = [rotating EXCEPT ![r] = [key |-> k, old |-> t]]
        /\ UNCHANGED <<credential, origin, activation, rotated, pairing>>
    BY <1>3 DEF Authenticate
  <2>2. TokensTyped'
    BY <2>1 DEF GrantInv, TokensTyped
  <2> QED BY <2>1, <2>2 DEF GrantInv, TokensIssued, GrantsKept
<1>4. ASSUME NEW t \in Tokens, RevokeToken(t)
      PROVE  GrantInv'
  <2>1. /\ credential' = [credential EXCEPT ![t] = "REVOKED"]
        /\ UNCHANGED <<origin, activation, rotated, rotating, pairing>>
    BY <1>4 DEF RevokeToken
  <2>2. /\ credential' \in [Tokens -> CredentialStates]
        /\ \A u \in Tokens : u # t => credential'[u] = credential[u]
        /\ credential'[t] # None
    BY <2>1, CredentialConstants DEF GrantInv, TokensTyped, CredentialStates
  <2>3. TokensTyped'
    BY <2>1, <2>2 DEF GrantInv, TokensTyped
  <2>4. TokensIssued' /\ GrantsKept'
    BY <2>1, <2>2 DEF GrantInv, TokensTyped, TokensIssued, GrantsKept
  <2> QED BY <2>3, <2>4 DEF GrantInv
<1>5. ASSUME NEW v \in Passwords, IssueMqtt(v) \/ ProvisionMqtt(v) \/ ActivateMqtt(v)
      PROVE  GrantInv'
  BY <1>1, <1>5 DEF IssueMqtt, ProvisionMqtt, ActivateMqtt
<1>6. CASE RevokeMqtt \/ RevokeBroker
  BY <1>1, <1>6 DEF RevokeMqtt, RevokeBroker
<1>7. CASE CredentialsNext
  BY <1>2, <1>3, <1>4, <1>5, <1>6, <1>7, RotationGrant DEF CredentialsNext
<1>8. ASSUME NEW c \in Codes, NEW t \in Tokens, Activate(c, t)
      PROVE  GrantInv'
  BY <1>8, ActivationGrant DEF Activate
<1>9. ASSUME NEW q \in Pairs, CreateSession(q)
      PROVE  GrantInv'
  <2>1. /\ pairing[q].status = None /\ UNCHANGED tokens
        /\ pairing' = [p \in Pairs |->
              IF p = q THEN [status |-> "PENDING", credential |-> None]
              ELSE IF pairing[p].status = "PENDING" THEN [pairing[p] EXCEPT !.status = "CANCELLED"]
              ELSE pairing[p]]
    BY <1>9 DEF CreateSession
  <2>2. ASSUME NEW p \in Pairs
        PROVE  /\ pairing'[p] = [status |-> pairing'[p].status, credential |-> pairing[p].credential]
               /\ pairing[p].credential # None => pairing'[p].status \in Spent
    <3>1. pairing[p] = [status |-> pairing[p].status, credential |-> pairing[p].credential]
      BY DEF GrantInv, TokensTyped
    <3>2. pairing[p].credential # None => pairing[p].status \in Spent
      BY DEF GrantInv, TokensIssued
    <3>3. CASE p = q
      <4>1. pairing[p].credential = None
        BY <2>1, <3>2, <3>3, CredentialConstants DEF Spent
      <4> QED BY <2>1, <3>3, <4>1
    <3>4. CASE p # q /\ pairing[p].status = "PENDING"
      <4>1. pairing'[p] = [pairing[p] EXCEPT !.status = "CANCELLED"]
        BY <2>1, <3>4
      <4>2. pairing'[p] = [status |-> "CANCELLED", credential |-> pairing[p].credential]
        BY <3>1, <4>1
      <4> QED BY <3>2, <3>4, <4>2 DEF Spent
    <3>5. CASE p # q /\ pairing[p].status # "PENDING"
      BY <2>1, <3>1, <3>2, <3>5
    <3> QED BY <3>3, <3>4, <3>5
  <2>3. pairing' = [p \in Pairs |-> pairing'[p]]
    BY <2>1
  <2> QED BY <2>1, <2>2, <2>3, SessionsMove
<1>10. ASSUME NEW q \in Pairs, SessionRunOut(q) \/ SessionExpires(q)
       PROVE  GrantInv'
  BY <1>1, <1>10, SessionMoves DEF SessionRunOut, SessionExpires, Spent
<1>11. ASSUME NEW q \in Pairs, NEW t \in Tokens, Provision(q, t)
       PROVE  GrantInv'
  BY <1>11, PairingGrant DEF Provision
<1>12. ASSUME NEW q \in Pairs, NEW m \in Merchants, ClaimPairing(q, m)
       PROVE  GrantInv'
  BY <1>12, SessionMoves DEF ClaimPairing, ChangesHands
<1>13. ASSUME NEW c \in ClaimCodes, IssueClaim(c) \/ \E m \in Merchants : ClaimByCode(c, m)
       PROVE  GrantInv'
  BY <1>1, <1>13 DEF IssueClaim, ClaimByCode, ChangesHands
<1>14. ASSUME UpdateLifecycle \/ \E status \in AdminStates : AdminLifecycle(status)
       PROVE  GrantInv'
  BY <1>1, <1>14 DEF UpdateLifecycle, AdminLifecycle, SetsLifecycle
<1>15. ASSUME NEW x \in Transfers,
              \/ \E target \in Merchants \cup {None} : Transfer(x, target)
              \/ AcceptTransfer(x) \/ CancelTransfer(x)
       PROVE  GrantInv'
  BY <1>1, <1>15 DEF Transfer, AcceptTransfer, CancelTransfer
<1>16. ASSUME NEW o \in Orders, PlaceOrder(o) \/ CommitOrder(o) \/ CloseOrder(o)
       PROVE  GrantInv'
  BY <1>1, <1>16 DEF PlaceOrder, CommitOrder, CloseOrder
<1>17. CASE UNCHANGED vars
  BY <1>1, <1>17 DEF vars
<1> QED
  BY <1>7, <1>8, <1>9, <1>10, <1>11, <1>12, <1>13, <1>14, <1>15, <1>16, <1>17 DEF Next

(* An activation code, a pairing session or a rotation key gives one token *)
(* at most, however the calls of its holders interleave with rotations,    *)
(* revocations and new codes.                                              *)
THEOREM GrantsGiveOneToken == Spec => []OneTokenPerGrant
<1>1. GrantInv => OneTokenPerGrant
  <2> SUFFICES ASSUME GrantInv, NEW g \in Codes \cup Pairs \cup Keys
               PROVE  Cardinality({t \in Tokens : origin[t] = g}) <= 1
    BY DEF OneTokenPerGrant
  <2>1. ASSUME NEW t \in Tokens, NEW u \in Tokens, origin[t] = g, origin[u] = g
        PROVE  t = u
    BY <2>1 DEF GrantInv, GrantsKept
  <2>2. CASE {t \in Tokens : origin[t] = g} = {}
    BY <2>2, FS_EmptySet
  <2>3. ASSUME NEW t \in Tokens, origin[t] = g
        PROVE  Cardinality({u \in Tokens : origin[u] = g}) <= 1
    <3>1. {u \in Tokens : origin[u] = g} = {t}
      BY <2>1, <2>3
    <3>2. Cardinality({t}) = 1
      BY FS_Singleton
    <3> QED BY <3>1, <3>2
  <2> QED BY <2>2, <2>3
<1> QED BY <1>1, GrantInit, GrantStep, PTL DEF Spec

(* A revoked token stays revoked in a step that issues a new one, if the   *)
(* rows it starts from say so.                                             *)
LEMMA IssueKeepsRevoked ==
    ASSUME GrantInv, NEW rows \in [Tokens -> CredentialStates],
           NEW new, NEW grant, Issues(rows, new, grant),
           NEW t \in Tokens, credential[t] = "REVOKED"
    PROVE  credential'[t] = rows[t]
<1>1. /\ new \in Tokens /\ credential[new] = None
      /\ credential' = [rows EXCEPT ![new] = "ACTIVE"]
  BY DEF Issues, Unused
<1>2. t # new
  BY <1>1, CredentialConstants
<1> QED BY <1>1, <1>2

LEMMA GracedKeepsRevoked ==
    ASSUME GrantInv, NEW new, NEW grant, Issues(Graced(credential), new, grant),
           NEW t \in Tokens, credential[t] = "REVOKED"
    PROVE  credential'[t] = "REVOKED"
<1>1. Graced(credential)[t] = "REVOKED"
  BY DEF Graced
<1> QED BY <1>1, GracedKeeps, IssueKeepsRevoked

(* Only the rotation of a request that was authenticated before takes a    *)
(* token out of REVOKED, and only to GRACE.                                *)
LEMMA RevokedStep ==
    ASSUME GrantInv, [Next]_vars, NEW t \in Tokens,
           credential[t] = "REVOKED", credential'[t] # "REVOKED"
    PROVE  /\ credential'[t] = "GRACE"
           /\ \E r \in Rotations : rotating[r] # None /\ rotating[r].old = t
<1>1. CASE credential' = credential
  BY <1>1
<1>2. ASSUME NEW r \in Rotations, Rotate(r), credential' # credential
      PROVE  /\ credential'[t] = "GRACE"
             /\ rotating[r] # None /\ rotating[r].old = t
  <2> DEFINE rows == [credential EXCEPT ![rotating[r].old] = "GRACE"]
  <2>1. /\ rotating[r] # None
        /\ \E u \in Tokens : Issues(rows, u, rotating[r].key)
    BY <1>2 DEF Rotate
  <2>2. rotating[r].old \in Tokens /\ rows \in [Tokens -> CredentialStates]
    BY <2>1 DEF GrantInv, TokensTyped, CredentialStates
  <2>3. rows[t] = IF t = rotating[r].old THEN "GRACE" ELSE credential[t]
    BY <2>2 DEF GrantInv, TokensTyped
  <2> HIDE DEF rows
  <2>4. credential'[t] = rows[t]
    BY <2>1, <2>2, IssueKeepsRevoked
  <2> QED BY <2>1, <2>3, <2>4
<1>3. ASSUME NEW u \in Tokens, RevokeToken(u)
      PROVE  credential'[t] = "REVOKED"
  BY <1>3 DEF RevokeToken, GrantInv, TokensTyped
<1>4. ASSUME NEW c \in Codes, NEW u \in Tokens, Activate(c, u)
      PROVE  credential'[t] = "REVOKED"
  BY <1>4, GracedKeepsRevoked DEF Activate, ActivateToken
<1>5. ASSUME NEW q \in Pairs, NEW u \in Tokens, Provision(q, u)
      PROVE  credential'[t] = "REVOKED"
  BY <1>5, GracedKeepsRevoked DEF Provision, ProvisionToken
<1>6. ASSUME CredentialsNext, credential' # credential
      PROVE  \/ \E r \in Rotations : Rotate(r)
             \/ \E u \in Tokens : RevokeToken(u)
  BY <1>6 DEF CredentialsNext, CreateActivationCode, Authenticate, IssueMqtt, ProvisionMqtt,
     ActivateMqtt, RevokeMqtt, RevokeBroker, tokens
<1>7. CASE CredentialsNext
  BY <1>1, <1>2, <1>3, <1>6, <1>7
<1>8. ASSUME \/ \E q \in Pairs : CreateSession(q) \/ SessionRunOut(q) \/ SessionExpires(q)
             \/ \E q \in Pairs, m \in Merchants : ClaimPairing(q, m)
             \/ \E c \in ClaimCodes : IssueClaim(c)
             \/ \E c \in ClaimCodes, m \in Merchants : ClaimByCode(c, m)
             \/ UpdateLifecycle
             \/ \E status \in AdminStates : AdminLifecycle(status)
             \/ \E x \in Transfers, target \in Merchants \cup {None} : Transfer(x, target)
             \/ \E x \in Transfers : AcceptTransfer(x) \/ CancelTransfer(x)
             \/ \E o \in Orders : PlaceOrder(o) \/ CommitOrder(o) \/ CloseOrder(o)
      PROVE  credential' = credential
  BY <1>8 DEF CreateSession, SessionRunOut, SessionExpires, ClaimPairing, IssueClaim, ClaimByCode,
     ChangesHands, UpdateLifecycle, AdminLifecycle, SetsLifecycle, Transfer, AcceptTransfer, CancelTransfer,
     PlaceOrder, CommitOrder, CloseOrder, tokens
<1>9. CASE UNCHANGED vars
  BY <1>1, <1>9 DEF vars, tokens
<1> QED
  BY <1>1, <1>4, <1>5, <1>7, <1>8, <1>9 DEF Next

(* A token that was revoked never becomes ACTIVE again, and comes back for *)
(* a grace period only by a rotation that it signed in before: for any     *)
(* number of tokens, codes, sessions and rotations under way.              *)
THEOREM RevokedNeverActive == Spec => RevokedOnlyGraces
<1>1. GrantInv /\ [Next]_vars =>
        [\A t \in Tokens :
            credential[t] = "REVOKED" /\ credential'[t] # "REVOKED" =>
               /\ credential'[t] = "GRACE"
               /\ \E r \in Rotations : rotating[r] # None /\ rotating[r].old = t
        ]_<<credential, rotating>>
  BY RevokedStep
<1> QED BY <1>1, GrantInit, GrantStep, PTL DEF Spec, RevokedOnlyGraces

-----------------------------------------------------------------------------
(* The broker and the table of MQTT passwords                              *)
(*                                                                         *)
(* A call that never had company is the only one there is, so what it did  *)
(* to the broker, or to the table, still stands when it ends.              *)

CallKinds == {Revocation} \cup Passwords

CallsTyped ==
    /\ mqtt = [v \in Passwords |-> mqtt[v]]
    /\ calls = [k \in CallKinds |-> calls[k]]

AloneIsOnly == alone => \A j, k \in Busy : j = k

AloneStands ==
    alone =>
        /\ \A v \in Passwords : calls[v] = "provisioned" => broker = v
        /\ calls[Revocation] # None => \A v \in Passwords : mqtt[v] # "ACTIVE"

SettledIsQuiet == settled => Busy = {} /\ RetryRepairsBroker

BrokerInv == CallsTyped /\ AloneIsOnly /\ AloneStands /\ SettledIsQuiet

LEMMA BrokerInit == Init => BrokerInv
<1> SUFFICES ASSUME Init PROVE BrokerInv
  OBVIOUS
<1>1. /\ mqtt = [v \in Passwords |-> None] /\ calls = [k \in CallKinds |-> None]
      /\ broker = None /\ alone = FALSE
  BY DEF Init, CredentialsInit, CallKinds
<1>2. CallsTyped /\ AloneIsOnly /\ AloneStands /\ Busy = {}
  BY <1>1 DEF CallsTyped, AloneIsOnly, AloneStands, Busy
<1>3. RetryRepairsBroker
  BY <1>1, CredentialConstants DEF RetryRepairsBroker
<1> QED BY <1>2, <1>3 DEF BrokerInv, SettledIsQuiet

(* A call begins: it is alone if nobody else is at work.                   *)
LEMMA CallBegins ==
    ASSUME BrokerInv, NEW k \in CallKinds, calls[k] = None, CallStarts(k),
           mqtt' = [v \in Passwords |-> mqtt'[v]],
           k = Revocation => \A v \in Passwords : mqtt'[v] # "ACTIVE"
    PROVE  BrokerInv'
<1>1. /\ calls' = [calls EXCEPT ![k] = "recorded"] /\ alone' = (Busy = {}) /\ settled' = FALSE
  BY DEF CallStarts
<1>2. /\ calls' = [j \in CallKinds |-> calls'[j]] /\ calls'[k] = "recorded"
      /\ \A j \in CallKinds : j # k => calls'[j] = calls[j]
  BY <1>1 DEF BrokerInv, CallsTyped
<1>3. CallsTyped'
  BY <1>2 DEF CallsTyped
<1>4. alone' => \A j \in CallKinds : j # k => calls'[j] = None
  BY <1>1, <1>2 DEF Busy, BrokerInv, CallsTyped
<1>5. AloneIsOnly'
  BY <1>2, <1>4 DEF AloneIsOnly, Busy
<1>6. AloneStands'
  BY <1>2, <1>4, CredentialConstants DEF AloneStands, CallKinds
<1>7. SettledIsQuiet'
  BY <1>1 DEF SettledIsQuiet
<1> QED BY <1>3, <1>5, <1>6, <1>7 DEF BrokerInv

(* A call ends; if it was alone and did all, broker and table agree.       *)
LEMMA CallFinishes ==
    ASSUME BrokerInv, NEW k \in CallKinds, calls[k] # None, NEW done, CallEnds(k, done),
           alone' = alone, mqtt' = [v \in Passwords |-> mqtt'[v]],
           done /\ alone => {v \in Passwords : mqtt'[v] = "ACTIVE"} = {broker'} \ {None}
    PROVE  BrokerInv'
<1>1. calls' = [calls EXCEPT ![k] = None] /\ settled' = (done /\ alone)
  BY DEF CallEnds
<1>2. /\ calls' = [j \in CallKinds |-> calls'[j]] /\ calls'[k] = None
      /\ \A j \in CallKinds : j # k => calls'[j] = calls[j]
  BY <1>1 DEF BrokerInv, CallsTyped
<1>3. CallsTyped'
  BY <1>2 DEF CallsTyped
<1>4. alone => \A j \in CallKinds : calls'[j] = None
  BY <1>2 DEF Busy, BrokerInv, CallsTyped, AloneIsOnly
<1>5. AloneIsOnly'
  BY <1>2, <1>4 DEF AloneIsOnly, Busy
<1>6. AloneStands'
  BY <1>4, CredentialConstants DEF AloneStands, CallKinds
<1>7. SettledIsQuiet'
  <2> SUFFICES ASSUME settled' PROVE Busy' = {} /\ RetryRepairsBroker'
    BY DEF SettledIsQuiet
  <2>1. done /\ alone
    BY <1>1
  <2>2. Busy' = {}
    BY <1>2, <1>4, <2>1 DEF Busy
  <2> QED BY <2>1, <2>2 DEF RetryRepairsBroker
<1> QED BY <1>3, <1>5, <1>6, <1>7 DEF BrokerInv

LEMMA BrokerStep == BrokerInv /\ [Next]_vars => BrokerInv'
<1> SUFFICES ASSUME BrokerInv, [Next]_vars PROVE BrokerInv'
  OBVIOUS
<1>t. CallsTyped /\ AloneIsOnly /\ AloneStands
  BY DEF BrokerInv
<1>1. CASE UNCHANGED brokers
  BY <1>1 DEF brokers, BrokerInv, CallsTyped, AloneIsOnly, AloneStands, SettledIsQuiet, Busy,
              RetryRepairsBroker
<1>2. ASSUME NEW v \in Passwords, IssueMqtt(v)
      PROVE  BrokerInv'
  <2>1. v \in CallKinds /\ v # Revocation
    BY DEF CallKinds, Passwords, Revocation
  <2>2. mqtt' = [u \in Passwords |-> mqtt'[u]]
    BY <1>t, <1>2 DEF IssueMqtt, CallsTyped
  <2>3. CASE calls[v] = None
    BY <1>2, <2>1, <2>2, <2>3, CallBegins DEF IssueMqtt
  <2>4. CASE calls[v] # None
    <3>1. /\ calls' = [calls EXCEPT ![v] = "recorded"] /\ alone' = (Busy = {}) /\ settled' = FALSE
      BY <1>2 DEF IssueMqtt, CallStarts
    <3>2. v \in Busy /\ alone' = FALSE
      BY <1>t, <2>1, <2>4, <3>1 DEF Busy, CallsTyped
    <3>3. CallsTyped'
      BY <1>t, <2>2, <3>1 DEF CallsTyped
    <3> QED BY <3>1, <3>2, <3>3 DEF BrokerInv, AloneIsOnly, AloneStands, SettledIsQuiet
  <2> QED BY <2>3, <2>4
<1>3. ASSUME NEW v \in Passwords, ProvisionMqtt(v)
      PROVE  BrokerInv'
  <2>1. calls[v] = "recorded" /\ v \in CallKinds /\ v # Revocation /\ UNCHANGED <<mqtt, alone>>
    BY <1>3 DEF ProvisionMqtt, CallKinds, Passwords, Revocation
  <2>2. CASE CallEnds(v, FALSE)
    BY <1>t, <2>1, <2>2, CallFinishes, CredentialConstants DEF CallsTyped
  <2>3. CASE ~CallEnds(v, FALSE)
    <3>1. broker' = v /\ calls' = [calls EXCEPT ![v] = "provisioned"] /\ UNCHANGED settled
      BY <1>3, <2>3 DEF ProvisionMqtt, SetsPassword
    <3>2. /\ calls' = [j \in CallKinds |-> calls'[j]] /\ calls'[v] = "provisioned"
          /\ \A j \in CallKinds : j # v => calls'[j] = calls[j]
      BY <1>t, <2>1, <3>1 DEF CallsTyped
    <3>3. v \in Busy /\ Busy' = Busy
      <4>1. DOMAIN calls = CallKinds /\ DOMAIN calls' = CallKinds
        BY <1>t, <3>2 DEF CallsTyped
      <4> QED BY <2>1, <3>2, <4>1, CredentialConstants DEF Busy
    <3>4. alone => \A j \in CallKinds : j # v => calls[j] = None
      BY <1>t, <3>3 DEF AloneIsOnly, Busy, CallsTyped
    <3>5. CallsTyped' /\ AloneIsOnly'
      BY <1>t, <2>1, <3>2, <3>3 DEF CallsTyped, AloneIsOnly
    <3>6. AloneStands'
      BY <2>1, <3>1, <3>2, <3>4, CredentialConstants DEF AloneStands, CallKinds
    <3>7. SettledIsQuiet'
      BY <3>1, <3>3 DEF BrokerInv, SettledIsQuiet
    <3> QED BY <3>5, <3>6, <3>7 DEF BrokerInv
  <2> QED BY <2>2, <2>3
<1>4. ASSUME NEW v \in Passwords, ActivateMqtt(v)
      PROVE  BrokerInv'
  <2>1. /\ calls[v] = "provisioned" /\ calls[v] # None /\ v \in CallKinds
        /\ UNCHANGED <<broker, alone>>
    BY <1>4, CredentialConstants DEF ActivateMqtt, CallKinds
  <2>2. CASE CallEnds(v, FALSE) /\ UNCHANGED mqtt
    BY <1>t, <2>1, <2>2, CallFinishes DEF CallsTyped
  <2>3. CASE /\ CallEnds(v, TRUE)
             /\ mqtt' = [u \in Passwords |->
                   IF u = v THEN "ACTIVE"
                   ELSE IF mqtt[u] = "ACTIVE" THEN "REVOKED" ELSE mqtt[u]]
    <3>1. {u \in Passwords : mqtt'[u] = "ACTIVE"} = {v}
      BY <2>3
    <3>2. alone => broker' = v
      BY <1>t, <2>1 DEF AloneStands
    <3>3. v # None
      BY CredentialConstants
    <3>4. mqtt' = [u \in Passwords |-> mqtt'[u]]
      BY <2>3
    <3>5. alone => {u \in Passwords : mqtt'[u] = "ACTIVE"} = {broker'} \ {None}
      BY <3>1, <3>2, <3>3
    <3> QED BY <2>1, <2>3, <3>4, <3>5, CallFinishes
  <2> QED BY <1>4, <2>2, <2>3 DEF ActivateMqtt
<1>5. CASE RevokeMqtt
  <2>1. /\ Revocation \in CallKinds /\ calls[Revocation] = None /\ CallStarts(Revocation)
        /\ mqtt' = [v \in Passwords |-> IF mqtt[v] = None THEN None ELSE "REVOKED"]
    BY <1>5 DEF RevokeMqtt, CallKinds
  <2>2. /\ mqtt' = [v \in Passwords |-> mqtt'[v]]
        /\ \A v \in Passwords : mqtt'[v] # "ACTIVE"
    BY <2>1, CredentialConstants
  <2> QED BY <2>1, <2>2, CallBegins
<1>6. CASE RevokeBroker
  <2>1. /\ Revocation \in CallKinds /\ calls[Revocation] = "recorded"
        /\ calls[Revocation] # None /\ UNCHANGED <<mqtt, alone>>
    BY <1>6, CredentialConstants DEF RevokeBroker, CallKinds
  <2>2. CASE CallEnds(Revocation, FALSE)
    BY <1>t, <2>1, <2>2, CallFinishes DEF CallsTyped
  <2>3. CASE broker' = None /\ CallEnds(Revocation, TRUE)
    <3>1. alone => {v \in Passwords : mqtt'[v] = "ACTIVE"} = {broker'} \ {None}
      BY <1>t, <2>1, <2>3 DEF AloneStands
    <3> QED BY <1>t, <2>1, <2>3, <3>1, CallFinishes DEF CallsTyped
  <2> QED BY <1>6, <2>2, <2>3 DEF RevokeBroker
<1>7. CASE CredentialsNext
  BY <1>1, <1>2, <1>3, <1>4, <1>5, <1>6, <1>7
  DEF CredentialsNext, CreateActivationCode, Authenticate, Rotate, RevokeToken
<1>8. ASSUME \/ \E c \in Codes, t \in Tokens : Activate(c, t)
             \/ \E q \in Pairs : CreateSession(q) \/ SessionRunOut(q) \/ SessionExpires(q)
             \/ \E q \in Pairs, t \in Tokens : Provision(q, t)
             \/ \E q \in Pairs, m \in Merchants : ClaimPairing(q, m)
             \/ \E c \in ClaimCodes : IssueClaim(c)
             \/ \E c \in ClaimCodes, m \in Merchants : ClaimByCode(c, m)
      PROVE  BrokerInv'
  BY <1>1, <1>8 DEF Activate, ActivateToken, CreateSession, SessionRunOut, SessionExpires, Provision,
     ProvisionToken, ClaimPairing, IssueClaim, ClaimByCode, ChangesHands
<1>9. ASSUME \/ UpdateLifecycle
             \/ \E status \in AdminStates : AdminLifecycle(status)
             \/ \E x \in Transfers, target \in Merchants \cup {None} : Transfer(x, target)
             \/ \E x \in Transfers : AcceptTransfer(x) \/ CancelTransfer(x)
             \/ \E o \in Orders : PlaceOrder(o) \/ CommitOrder(o) \/ CloseOrder(o)
             \/ UNCHANGED vars
      PROVE  BrokerInv'
  BY <1>1, <1>9 DEF UpdateLifecycle, AdminLifecycle, SetsLifecycle, Transfer, AcceptTransfer,
     CancelTransfer, PlaceOrder, CommitOrder, CloseOrder, vars
<1> QED BY <1>7, <1>8, <1>9 DEF Next

(* Whatever calls failed or overlapped before, a call that ran alone and   *)
(* succeeded leaves the broker with the password of the ACTIVE row, or     *)
(* with none: for any number of passwords.                                 *)
THEOREM RetriesRepairBroker == Spec => []RetryRepairsBroker
<1>1. BrokerInv => RetryRepairsBroker
  BY DEF BrokerInv, SettledIsQuiet, RetryRepairsBroker
<1> QED BY <1>1, BrokerInit, BrokerStep, PTL DEF Spec
=============================================================================
