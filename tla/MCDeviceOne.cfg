SPECIFICATION Spec
CONSTANTS
    MaxToken = 3
    Codes = {c1}
    Pairs = {q1, q2}
    Keys = {k1}
    Rotations = {r1, r2}
    MaxMqtt = 3
    None = None
    Merchants = {m1, m2}
    Legacy = Legacy
    ClaimCodes = {d1}
    Transfers = {x1, x2}
    Orders = {o1}
    AdminStates = {"ACTIVE", "SUSPENDED"}
SYMMETRY Symmetry
CONSTRAINTS OneAtATime SecondSession RunOutAlone
CHECK_DEADLOCK FALSE
INVARIANTS
    OneTokenPerGrant
    RetryRepairsBroker
    OrdersFollowOwnership
    OwnershipAgrees
PROPERTY RevokedOnlyGraces
