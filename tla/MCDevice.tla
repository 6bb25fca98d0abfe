------------------------------ MODULE MCDevice ------------------------------
(***************************************************************************)
(* One terminal with two merchants, two pairing sessions, a claim code and *)
(* an activation code; three MQTT passwords.                               *)
(***************************************************************************)
EXTENDS DeviceOwnership, TLC

Symmetry == Permutations(Merchants)

(* MQTT calls share no variable with the rest; rotations and revocations   *)
(* change only the status of tokens, which nothing about ownership reads,  *)
(* and transfers and orders are not read by anything about tokens.  No     *)
(* property speaks of two of the three, so interleaving them shows nothing *)
(* more: a behaviour goes on with one of them.                             *)
BrokerAtRest ==
    broker = None /\ Busy = {} /\ \A v \in Passwords : mqtt[v] = None
TokensAtRest ==
    /\ \A t \in Tokens : credential[t] # "REVOKED"
    /\ \A r \in Rotations : rotating[r] = None
    /\ \A k \in Keys : rotated[k] = None
OwnershipAtRest ==
    /\ \A x \in Transfers : transfer[x] = NoTransfer
    /\ \A o \in Orders : order[o].status = None
GrantsAtRest ==
    /\ \A c \in Codes : activation[c].status = None
    /\ \A q \in Pairs : pairing[q].status = None
    /\ \A c \in ClaimCodes : claimCode[c] = None

OneAtATime ==
    \/ BrokerAtRest /\ (TokensAtRest \/ OwnershipAtRest)
    \/ TokensAtRest /\ OwnershipAtRest /\ GrantsAtRest

(* Bound: a second pairing session only before any transfer, order,        *)
(* rotation or revocation of a token.                                      *)
SecondSession ==
    Cardinality({q \in Pairs : pairing[q].status # None}) > 1 =>
        OwnershipAtRest /\ TokensAtRest

(* Bound: a session_status is between its read and its write one at a time *)
(* and while nothing but pairing sessions is used; claims, provisions and  *)
(* new sessions go on meanwhile.                                           *)
RunOutAlone ==
    expiring # {} =>
        /\ Cardinality(expiring) = 1 /\ OwnershipAtRest /\ TokensAtRest
        /\ \A c \in Codes : activation[c].status = None
        /\ \A c \in ClaimCodes : claimCode[c] = None
=============================================================================
