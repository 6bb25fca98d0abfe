\* One payment under fairness: refunds in parts, cancellation, late money, the books.
CONSTANTS
    Intents = {p1}
    Historical = {}
    Amount = 2
    ManualKeys = {m1, m2}
    UnknownRefund = {"NOT_FOUND"}
SPECIFICATION LedgerSpec
INVARIANTS NeverOverRefunded StatusMatchesRefunds BooksMatchMoney
PROPERTIES LateMoneyReturns PaidOrderProceeds
CHECK_DEADLOCK FALSE
