\* One order and one page; one fault of any kind.
CONSTANTS
    None = None
    MaxVersion = 2
    MaxRevision = 2
    Recorded = {0, 1}
    MaxAhead = 1
    MaxFaults = 1
SPECIFICATION FairSpec
CHECK_DEADLOCK FALSE
INVARIANT
    StaleIsNoticed
PROPERTIES
    AnswerKeepsProgress
    PageCatchesUp
