\* A second open intent is closed after the first was paid and queued.
CONSTANTS
    Intents = {p1, p2}
    Historical = {p1, p2}
    Amount = 1
    ManualKeys = {}
    UnknownRefund = {"NOT_FOUND"}
SPECIFICATION Spec
INVARIANTS DeadOrderKeepsNoMoney
CHECK_DEADLOCK FALSE
