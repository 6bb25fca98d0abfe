SPECIFICATION FairFlushSpec
CONSTANTS
    Writers = {w1}
    Flushers = {f1, f2}
    MaxReports = 1
    MaxFallbacks = 1
    MaxFailures = 1
INVARIANTS
    QuietMeansEqual
PROPERTIES
    CatchesUp
