\* One order, deep: every event, revisions, attempts, operator views.
CONSTANTS
    NumOrders = 1
    MaxDeviceRevision = 2
    MaxAttempt = 2
    MaxJobRevision = 4
    MachineEvents <- TaskEvents
    ReviewedOrders = {1}
SPECIFICATION Spec
INVARIANTS TypeOK RowsAgree ExpiredNeverSent
PROPERTIES NeverRollsBack
