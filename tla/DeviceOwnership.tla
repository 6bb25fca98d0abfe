-------------------------- MODULE DeviceOwnership --------------------------
(***************************************************************************)
(* Who owns one terminal and whether it may sell: its row in `terminal',   *)
(* claim codes, pairing sessions, transfers between merchants and the      *)
(* orders taken on it (app/merchant/assets.py and asset_schema.py,         *)
(* app/services/simulator_pairing.py and admin_operations.py), together    *)
(* with the credentials that activate it.                                  *)
(*                                                                         *)
(* An operation locks the terminal row, or changes it last after locking   *)
(* the one session, code or transfer it is about, so it is one step, which *)
(* waits while a customer's order holds that row.  Two take more steps:    *)
(* the order itself, from the lock to its commit, and session_status,      *)
(* which reads a session without a lock before it writes it.               *)
(*                                                                         *)
(* Stores, names, locales, store scopes and the client's version numbers   *)
(* only refuse a request or describe the device; an operation may be       *)
(* refused at any time.  So do device commands and refunds, which          *)
(* `blocking' also looks at.                                               *)
(***************************************************************************)
EXTENDS DeviceCredentials

CONSTANTS
    Merchants,     \* tenants other than the platform's own
    Legacy,        \* LEGACY_TENANT: the platform's inventory
    ClaimCodes,    \* merchant_device_claim rows
    Transfers,     \* merchant_device_transfer rows, each asked for once
    Orders,        \* orders placed on the terminal
    AdminStates    \* lifecycle states an administrator sets

(* None is not the status of a transfer or an order under way.             *)
ASSUME NoneIsNoStatus == 
    None \notin {"PLACING", "OPEN", "PENDING_RECIPIENT", "PENDING_PLATFORM"}

VARIABLES
    terminal,      \* owner, ownership version, frozen flag, lifecycle,
                   \* provisioning status
    interval,      \* merchant_device_ownership: open intervals of ownership
    claimCode,     \* status of each claim code
    transfer,      \* each transfer's status, parties and what it saw
    order,         \* each order's status and captured ownership version;
                   \* PLACING: inserted, not yet committed
    expiring       \* sessions some session_status has read as run out

owned == <<terminal, interval, claimCode, transfer, order>>
vars == <<tokens, pairing, brokers, owned, expiring>>

NoTransfer == [status |-> None, source |-> None, target |-> None, version |-> 0,
               previous |-> None]

Active(x) == transfer[x].status \in {"PENDING_RECIPIENT", "PENDING_PLATFORM"}
OpenOrders == {o \in Orders : order[o].status = "OPEN"}

(* Mutant: create and its trigger only read the terminal.                  *)
LockedByNone == TRUE

(* No customer's transaction holds the terminal row.                       *)
TerminalFree == \A o \in Orders : order[o].status # "PLACING"

Init ==
    /\ CredentialsInit
    /\ \E lifecycle \in {"PENDING_ACTIVATION", "ACTIVE"} :   \* registered or bootstrapped
          terminal = [tenant |-> Legacy, version |-> 1, frozen |-> FALSE,
                      lifecycle |-> lifecycle, provisioning |-> "LEGACY"]
    \* present since the migration, or registered after it
    /\ interval \in {{[tenant |-> Legacy, version |-> 1]}, {}}
    /\ claimCode = [c \in ClaimCodes |-> None]
    /\ transfer = [x \in Transfers |-> NoTransfer]
    /\ order = [o \in Orders |-> [status |-> None, version |-> 0]]
    /\ expiring = {}

-----------------------------------------------------------------------------
(* Activation and provisioning                                             *)

(* activate: activate_terminal sets the lifecycle whatever it was.         *)
Activate(c, t) ==
    /\ TerminalFree /\ ActivateToken(c, t)
    /\ terminal' = [terminal EXCEPT !.lifecycle = "ACTIVE"]
    /\ UNCHANGED <<interval, claimCode, transfer, order, expiring>>

(* create_session: a software device asks for a pairing code.              *)
CreateSession(q) ==
    /\ TerminalFree /\ pairing[q].status = None
    /\ interval' = IF \E i \in interval : i.version = terminal.version THEN interval
                   ELSE interval \cup {[tenant |-> terminal.tenant, version |-> terminal.version]}
    /\ pairing' = [p \in Pairs |->
          IF p = q THEN [status |-> "PENDING", credential |-> None]
          ELSE IF pairing[p].status = "PENDING" THEN [pairing[p] EXCEPT !.status = "CANCELLED"]
          ELSE pairing[p]]
    /\ terminal' = [terminal EXCEPT !.lifecycle = "PENDING_ACTIVATION",
                                    !.provisioning = "PAIRING_PENDING"]
    /\ UNCHANGED <<claimCode, transfer, order, tokens, brokers, expiring>>

(* session_status finds a session PENDING after its expires_at ...         *)
SessionRunOut(q) ==
    /\ pairing[q].status = "PENDING"
    /\ expiring' = expiring \cup {q}
    /\ UNCHANGED <<owned, tokens, pairing, brokers>>

(* ... and writes EXPIRED over whatever was committed meanwhile, a claim   *)
(* made just before expires_at or even its provisioning.                   *)
SessionExpires(q) ==
    /\ q \in expiring /\ expiring' = expiring \ {q}
    /\ pairing' = [pairing EXCEPT ![q].status = "EXPIRED"]
    /\ UNCHANGED <<owned, tokens, brokers>>

(* provision: the terminal is activated again each time it is repeated.    *)
Provision(q, t) ==
    /\ TerminalFree /\ ProvisionToken(q, t)
    /\ terminal' = [terminal EXCEPT !.lifecycle = "ACTIVE", !.provisioning = "PROVISIONED"]
    /\ UNCHANGED <<interval, claimCode, transfer, order, expiring>>

-----------------------------------------------------------------------------
(* Claiming                                                                *)

(* Mutant: open orders do not stand in the way.                            *)
BlockingNothing == FALSE

(* blocking                                                                *)
Blocking == OpenOrders # {}

(* claim: the terminal changes hands and its ownership version grows.      *)
ChangesHands(m, provisioning) ==
    /\ TerminalFree /\ terminal.tenant = Legacy /\ ~terminal.frozen /\ ~Blocking
    /\ terminal' = [terminal EXCEPT !.tenant = m, !.version = @ + 1,
                                    !.provisioning = provisioning]
    /\ interval' = {[tenant |-> m, version |-> terminal.version + 1]}
    /\ UNCHANGED <<transfer, order, tokens, brokers, expiring>>

ClaimPairing(q, m) ==
    /\ pairing[q].status = "PENDING"
    /\ ChangesHands(m, "CLAIMED_PENDING_PROVISION")
    /\ pairing' = [pairing EXCEPT ![q].status = "CLAIMED"]
    /\ UNCHANGED claimCode

(* issue_claim ends the codes that were not used.                          *)
IssueClaim(c) ==
    /\ TerminalFree /\ claimCode[c] = None /\ terminal.tenant = Legacy
    /\ claimCode' = [d \in ClaimCodes |->
          IF d = c THEN "open" ELSE IF claimCode[d] = "open" THEN "expired" ELSE claimCode[d]]
    /\ UNCHANGED <<terminal, interval, transfer, order, tokens, pairing, brokers, expiring>>

ClaimByCode(c, m) ==
    /\ claimCode[c] = "open"
    /\ ChangesHands(m, terminal.provisioning)
    /\ claimCode' = [claimCode EXCEPT ![c] = "consumed"]
    /\ UNCHANGED pairing

-----------------------------------------------------------------------------
(* Lifecycle                                                               *)

SetsLifecycle(status) ==
    /\ TerminalFree
    /\ terminal' = [terminal EXCEPT !.lifecycle = status]
    /\ UNCHANGED <<interval, claimCode, transfer, order, tokens, pairing, brokers, expiring>>

(* update by a merchant: what allowedActions offers.                       *)
UpdateLifecycle ==
    /\ terminal.tenant # Legacy /\ ~terminal.frozen
    /\ \/ terminal.lifecycle = "ACTIVE" /\ SetsLifecycle("SUSPENDED")
       \/ terminal.lifecycle = "SUSPENDED" /\ SetsLifecycle("ACTIVE")
       \/ terminal.lifecycle = "SUSPENDED" /\ ~Blocking /\ SetsLifecycle("RETIRED")

(* update_lifecycle by an administrator.  It refuses a device that is      *)
(* "PENDING", which no device ever is.                                     *)
AdminLifecycle(status) == terminal.lifecycle # status /\ SetsLifecycle(status)

-----------------------------------------------------------------------------
(* Transfers                                                               *)

(* transfer, and unbind (to None).  A repeated request is answered from    *)
(* merchant_operation.                                                     *)
Transfer(x, target) ==
    /\ TerminalFree /\ transfer[x] = NoTransfer /\ \A y \in Transfers : ~Active(y)
    /\ terminal.tenant # Legacy /\ target # terminal.tenant
    /\ ~terminal.frozen /\ ~Blocking
    /\ transfer' = [transfer EXCEPT ![x] =
          [status |-> IF target = None THEN "PENDING_PLATFORM" ELSE "PENDING_RECIPIENT",
           source |-> terminal.tenant, target |-> target,
           version |-> terminal.version, previous |-> terminal.lifecycle]]
    /\ terminal' = [terminal EXCEPT !.frozen = TRUE, !.lifecycle = "SUSPENDED"]
    /\ UNCHANGED <<interval, claimCode, order, tokens, pairing, brokers, expiring>>

(* transfer_action, accept: the platform has to complete it.               *)
AcceptTransfer(x) ==
    /\ transfer[x].status = "PENDING_RECIPIENT"
    /\ transfer' = [transfer EXCEPT ![x].status = "PENDING_PLATFORM"]
    /\ UNCHANGED <<terminal, interval, claimCode, order, tokens, pairing, brokers, expiring>>

(* Mutant: a transfer that was cancelled can be cancelled again.           *)
CancellableAgain(x) == transfer[x].status # None

(* The states transfer_action cancels from.                                *)
Cancellable(x) == transfer[x].status \in {"PENDING_RECIPIENT", "PENDING_PLATFORM"}

(* transfer_action, cancel: the device gets back the lifecycle it had when *)
(* the transfer was asked for.                                             *)
CancelTransfer(x) ==
    /\ TerminalFree /\ Cancellable(x)
    /\ transfer' = [transfer EXCEPT ![x].status = "CANCELLED"]
    /\ terminal' = IF terminal.version = transfer[x].version
                     THEN [terminal EXCEPT !.frozen = FALSE, !.lifecycle = transfer[x].previous]
                     ELSE terminal
    /\ UNCHANGED <<interval, claimCode, order, tokens, pairing, brokers, expiring>>

-----------------------------------------------------------------------------
(* Orders                                                                  *)

(* Mutant: the trigger does not look at the flag.                          *)
SellsFrozen == terminal.lifecycle = "ACTIVE"

(* public_menu offers nothing on a device that is not ACTIVE, and the      *)
(* trigger merchant_capture_order_owner refuses a frozen one.              *)
Sells == terminal.lifecycle = "ACTIVE" /\ ~terminal.frozen

(* create locks the terminal row, finds the drink on its menu and inserts  *)
(* the order; the trigger captures who owns the device.                    *)
PlaceOrder(o) ==
    /\ TerminalFree /\ order[o].status = None /\ Sells
    /\ order' = [order EXCEPT ![o] = [status |-> "PLACING", version |-> terminal.version]]
    /\ UNCHANGED <<terminal, interval, claimCode, transfer, tokens, pairing, brokers, expiring>>

(* It commits: from now on others see it, and the terminal row is free.    *)
CommitOrder(o) ==
    /\ order[o].status = "PLACING"
    /\ order' = [order EXCEPT ![o].status = "OPEN"]
    /\ UNCHANGED <<terminal, interval, claimCode, transfer, tokens, pairing, brokers, expiring>>

(* It is made, cancelled or fails; the captured columns are immutable.     *)
CloseOrder(o) ==
    /\ order[o].status = "OPEN"
    /\ order' = [order EXCEPT ![o].status = "CLOSED"]
    /\ UNCHANGED <<terminal, interval, claimCode, transfer, tokens, pairing, brokers, expiring>>

-----------------------------------------------------------------------------
Next ==
    \/ CredentialsNext /\ UNCHANGED <<owned, expiring>>
    \/ \E c \in Codes, t \in Tokens : Activate(c, t)
    \/ \E q \in Pairs : CreateSession(q) \/ SessionRunOut(q) \/ SessionExpires(q)
    \/ \E q \in Pairs, t \in Tokens : Provision(q, t)
    \/ \E q \in Pairs, m \in Merchants : ClaimPairing(q, m)
    \/ \E c \in ClaimCodes : IssueClaim(c)
    \/ \E c \in ClaimCodes, m \in Merchants : ClaimByCode(c, m)
    \/ UpdateLifecycle
    \/ \E status \in AdminStates : AdminLifecycle(status)
    \/ \E x \in Transfers, target \in Merchants \cup {None} : Transfer(x, target)
    \/ \E x \in Transfers : AcceptTransfer(x) \/ CancelTransfer(x)
    \/ \E o \in Orders : PlaceOrder(o) \/ CommitOrder(o) \/ CloseOrder(o)

Spec == Init /\ [][Next]_vars

-----------------------------------------------------------------------------
(* No order is in progress on a device whose ownership is being changed,   *)
(* and every order in progress belongs to the present owner: neither an    *)
(* activation that makes a frozen device ACTIVE again, nor a claim racing  *)
(* a customer, separates an order from the merchant that has to serve it.  *)
OrdersFollowOwnership ==
    \A o \in OpenOrders : ~terminal.frozen /\ order[o].version = terminal.version

(* The device is frozen exactly while one transfer by its present owner is *)
(* under way, and no other record of who owns it disagrees with its row.   *)
OwnershipAgrees ==
    /\ terminal.frozen <=>
         \E x \in Transfers : /\ Active(x)
                              /\ transfer[x].source = terminal.tenant
                              /\ transfer[x].version = terminal.version
    /\ \A i \in interval : i = [tenant |-> terminal.tenant, version |-> terminal.version]
=============================================================================
