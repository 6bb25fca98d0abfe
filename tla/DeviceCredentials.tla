------------------------- MODULE DeviceCredentials -------------------------
(***************************************************************************)
(* The credentials of one terminal (app/services/device_identity.py,       *)
(* app/services/simulator_pairing.py, app/emqx_provisioner.py): HTTP       *)
(* tokens, activation codes, rotations, and the MQTT password with its     *)
(* copy in the broker.                                                     *)
(*                                                                         *)
(* Activation and provisioning lock the terminal row and are one step      *)
(* each.  A rotation is two transactions, the authentication of the        *)
(* request and the rotation, and an MQTT password goes through a           *)
(* transaction, a call of the broker's management API and a second         *)
(* transaction: other calls come in between.                               *)
(*                                                                         *)
(* A call may always be refused (an expired code or grace period, a wrong  *)
(* token, an unavailable database) and then leaves nothing, even where the *)
(* code counts the failed attempt or marks the code EXPIRED first: the     *)
(* exception it raises rolls that back.                                    *)
(***************************************************************************)
EXTENDS Integers, FiniteSets

CONSTANTS
    MaxToken,     \* bound: HTTP tokens, numbered by version
    Codes,        \* activation codes
    Pairs,        \* pairing sessions
    Keys,         \* Idempotency-Keys of rotations
    Rotations,    \* rotation requests in progress at the same time
    MaxMqtt,      \* bound: MQTT passwords, numbered by version
    None

Tokens == 1 .. MaxToken
Passwords == 1 .. MaxMqtt
Revocation == 0               \* the call that is not about one password

(* Codes, sessions and rotation keys are rows of different tables, and     *)
(* None is no row and no status.                                           *)
ASSUME CredentialConstants ==
    /\ MaxToken \in Nat /\ MaxMqtt \in Nat
    /\ Codes \cap Pairs = {} /\ Codes \cap Keys = {} /\ Pairs \cap Keys = {}
    /\ None \notin Codes /\ None \notin Pairs /\ None \notin Keys
    /\ None \notin Tokens /\ None \notin Passwords
    /\ None \notin {"ACTIVE", "GRACE", "REVOKED", "PENDING", "CLAIMED", "PROVISIONED",
                    "CONSUMED", "CANCELLED", "EXPIRED", "recorded", "provisioned"}

VARIABLES
    credential,   \* status of each HTTP token
    origin,       \* history: what each token was issued for
    activation,   \* status of each activation code and the token it gave
    pairing,      \* status of each pairing session and the token it gave
    rotated,      \* the token saved for each rotation key
    rotating,     \* authenticated rotation requests: their key and old token
    mqtt,         \* status of each MQTT password
    calls,        \* how far each MQTT call is: revoking, or issuing a password
    broker,       \* the password the broker accepts
    alone,        \* history: the call in progress never had company
    settled       \* history: the last call succeeded alone

tokens == <<credential, origin, activation, rotated, rotating>>
brokers == <<mqtt, calls, broker, alone, settled>>

Usable == {t \in Tokens : credential[t] \in {"ACTIVE", "GRACE"}}
Unused == {t \in Tokens : credential[t] = None}

-----------------------------------------------------------------------------
(* HTTP tokens                                                             *)

CredentialsInit ==
    /\ \E first \in {None, "ACTIVE"} :   \* without and with bootstrap_device
          credential = [t \in Tokens |-> IF t = 1 THEN first ELSE None]
    /\ origin = [t \in Tokens |-> None]
    /\ activation = [c \in Codes |-> [status |-> None, credential |-> None]]
    /\ pairing = [q \in Pairs |-> [status |-> None, credential |-> None]]
    /\ rotated = [k \in Keys |-> None]
    /\ rotating = [r \in Rotations |-> None]
    /\ mqtt = [v \in Passwords |-> None]
    /\ calls = [v \in {Revocation} \cup Passwords |-> None]
    /\ broker = None
    /\ alone = FALSE
    /\ settled = TRUE

(* Mutant: no filter on the status.                                        *)
GracedEvery(rows) == [t \in Tokens |-> IF rows[t] # None THEN "GRACE" ELSE None]

(* grace_active_http_credentials                                           *)
Graced(rows) == [t \in Tokens |-> IF rows[t] = "ACTIVE" THEN "GRACE" ELSE rows[t]]

(* create_http_credential: the next version, for `grant'.                  *)
Issues(rows, t, grant) ==
    /\ t \in Unused /\ \A u \in Unused : t <= u
    /\ credential' = [rows EXCEPT ![t] = "ACTIVE"]
    /\ origin' = [origin EXCEPT ![t] = grant]

(* create_activation_code cancels the codes that are pending.              *)
CreateActivationCode(c) ==
    /\ activation[c].status = None
    /\ activation' = [d \in Codes |->
          IF d = c THEN [status |-> "PENDING", credential |-> None]
          ELSE IF activation[d].status = "PENDING"
                 THEN [activation[d] EXCEPT !.status = "CANCELLED"]
          ELSE activation[d]]
    /\ UNCHANGED <<credential, origin, rotated, rotating, pairing, brokers>>

(* Mutant: a code that was used passes for a pending one.                  *)
RedeemableTwice(c) == activation[c].status \in {"PENDING", "CONSUMED"}

(* activate's conditions on the code.                                      *)
Redeemable(c) == activation[c].status = "PENDING"

(* activate, up to the terminal row.  A repeated activation of a CONSUMED  *)
(* code with the same token is answered from the record.                   *)
ActivateToken(c, t) ==
    /\ Redeemable(c)
    /\ Issues(Graced(credential), t, c)
    /\ activation' = [activation EXCEPT ![c] = [status |-> "CONSUMED", credential |-> t]]
    /\ UNCHANGED <<rotated, rotating, pairing, brokers>>

(* Mutant: a claimed session always gives a new token.                     *)
ProvisionableTwice(q, t) ==
    pairing[q].status \in {"CLAIMED", "PROVISIONED"}

(* Whether session q may provision token t: a provisioned session only the *)
(* token it gave before.                                                   *)
Provisionable(q, t) ==
    \/ pairing[q].status = "CLAIMED"
    \/ pairing[q].status = "PROVISIONED" /\ pairing[q].credential = t

(* provision, up to the terminal row.  A token the terminal already has is *)
(* taken as it is, whatever its status.                                    *)
ProvisionToken(q, t) ==
    /\ Provisionable(q, t)
    /\ \/ credential[t] # None /\ UNCHANGED <<credential, origin>>
       \/ credential[t] = None /\ Issues(Graced(credential), t, q)
    /\ pairing' = [pairing EXCEPT ![q] =
          [status |-> "PROVISIONED",
           credential |-> IF @.credential = None THEN t ELSE @.credential]]
    /\ UNCHANGED <<activation, rotated, rotating, brokers>>

(* rotate_http's dependency authenticates the request in a transaction of  *)
(* its own.                                                                *)
Authenticate(r, k, t) ==
    /\ rotating[r] = None /\ t \in Usable
    /\ rotating' = [rotating EXCEPT ![r] = [key |-> k, old |-> t]]
    /\ UNCHANGED <<credential, origin, activation, rotated, pairing, brokers>>

(* Mutant: the key is not looked up.                                       *)
FreshAlways(k) == TRUE

(* rotation_request found nothing (and the unique key lets one insert in). *)
Fresh(k) == rotated[k] = None

(* rotate_http, or the saved response of an earlier request with this key, *)
(* or a refusal.                                                           *)
Rotate(r) ==
    LET q == rotating[r] IN
    /\ q # None
    /\ \/ /\ Fresh(q.key)
          /\ \E t \in Tokens :
                /\ Issues([credential EXCEPT ![q.old] = "GRACE"], t, q.key)
                /\ rotated' = [rotated EXCEPT ![q.key] = t]
       \/ UNCHANGED <<credential, origin, rotated>>
    /\ rotating' = [rotating EXCEPT ![r] = None]
    /\ UNCHANGED <<activation, pairing, brokers>>

(* revoke_http                                                             *)
RevokeToken(t) ==
    /\ t \in Usable
    /\ credential' = [credential EXCEPT ![t] = "REVOKED"]
    /\ UNCHANGED <<origin, activation, rotated, rotating, pairing, brokers>>

-----------------------------------------------------------------------------
(* MQTT passwords                                                          *)

Busy == {k \in DOMAIN calls : calls[k] # None}

(* A call starts; it is alone until another one starts.                    *)
CallStarts(k) ==
    /\ calls' = [calls EXCEPT ![k] = "recorded"]
    /\ alone' = (Busy = {})
    /\ settled' = FALSE

(* A call ends, having done all it had to do or not.                       *)
CallEnds(k, done) ==
    /\ calls' = [calls EXCEPT ![k] = None]
    /\ settled' = (done /\ alone)

(* issue_mqtt_credential: the row of the next version.                     *)
IssueMqtt(v) ==
    /\ mqtt[v] = None /\ \A u \in 1 .. v - 1 : mqtt[u] # None
    /\ mqtt' = [mqtt EXCEPT ![v] = "PENDING_PROVISION"]
    /\ CallStarts(v)
    /\ UNCHANGED <<broker, tokens, pairing>>

(* Mutant: a user the broker knows keeps its password.                     *)
KeepsPassword(old, new) == IF old = None THEN new ELSE old

(* POST, or PUT when the broker answers that it knows the user.            *)
SetsPassword(old, new) == new

(* provision_device: user and rules are set, or the call fails before or   *)
(* after the user is.                                                      *)
ProvisionMqtt(v) ==
    /\ calls[v] = "recorded"
    /\ \/ /\ broker' = SetsPassword(broker, v)
          /\ calls' = [calls EXCEPT ![v] = "provisioned"]
          /\ UNCHANGED settled
       \/ /\ broker' \in {broker, SetsPassword(broker, v)}
          /\ CallEnds(v, FALSE)
    /\ UNCHANGED <<mqtt, alone, tokens, pairing>>

(* activate_mqtt, or a failure of it; the unique index on the active row   *)
(* of a user name is one.                                                  *)
ActivateMqtt(v) ==
    /\ calls[v] = "provisioned"
    /\ \/ /\ mqtt' = [u \in Passwords |->
                IF u = v THEN "ACTIVE"
                ELSE IF mqtt[u] = "ACTIVE" THEN "REVOKED" ELSE mqtt[u]]
          /\ CallEnds(v, TRUE)
       \/ CallEnds(v, FALSE) /\ UNCHANGED mqtt
    /\ UNCHANGED <<broker, alone, tokens, pairing>>

(* revoke_mqtt                                                             *)
RevokeMqtt ==
    /\ calls[Revocation] = None
    /\ mqtt' = [v \in Passwords |-> IF mqtt[v] = None THEN None ELSE "REVOKED"]
    /\ CallStarts(Revocation)
    /\ UNCHANGED <<broker, tokens, pairing>>

(* revoke_device deletes the user, then its rules; it may fail before or   *)
(* in between.                                                             *)
RevokeBroker ==
    /\ calls[Revocation] = "recorded"
    /\ \/ broker' = None /\ CallEnds(Revocation, TRUE)
       \/ broker' \in {broker, None} /\ CallEnds(Revocation, FALSE)
    /\ UNCHANGED <<mqtt, alone, tokens, pairing>>

-----------------------------------------------------------------------------
CredentialsNext ==
    \/ \E c \in Codes : CreateActivationCode(c)
    \/ \E r \in Rotations, k \in Keys, t \in Tokens : Authenticate(r, k, t)
    \/ \E r \in Rotations : Rotate(r)
    \/ \E t \in Tokens : RevokeToken(t)
    \/ \E v \in Passwords : IssueMqtt(v) \/ ProvisionMqtt(v) \/ ActivateMqtt(v)
    \/ RevokeMqtt
    \/ RevokeBroker

-----------------------------------------------------------------------------
(* A token that was revoked is never ACTIVE again.  It comes back at all   *)
(* only for a grace period, through a rotation whose request it signed in  *)
(* before it was revoked: rotate_http does not look at the status of the   *)
(* row it locks.                                                           *)
RevokedOnlyGraces ==
    [][\A t \in Tokens :
          credential[t] = "REVOKED" /\ credential'[t] # "REVOKED" =>
             /\ credential'[t] = "GRACE"
             /\ \E r \in Rotations : rotating[r] # None /\ rotating[r].old = t
      ]_<<credential, rotating>>

(* An activation code, a pairing session and a rotation key each issue at  *)
(* most one token, however often and by however many requests they are     *)
(* used.                                                                   *)
OneTokenPerGrant ==
    \A g \in Codes \cup Pairs \cup Keys : Cardinality({t \in Tokens : origin[t] = g}) <= 1

(* Whatever failures and overlapping calls came before, after a call that  *)
(* ran alone and succeeded the broker accepts the password of the ACTIVE   *)
(* row, and none when there is no such row: issuing or revoking once more  *)
(* repairs a broker and a table that disagree.                             *)
RetryRepairsBroker ==
    settled => {v \in Passwords : mqtt[v] = "ACTIVE"} = {broker} \ {None}
=============================================================================
