SPECIFICATION FairSpec
CONSTANTS
    Uplinks <- Contradicting
    Handlers = {h1, h2}
    OrderTasks = {"t1"}
    MaxCrashes = 1
INVARIANTS
    ProcessedWasApplied
    EventsDecideState
PROPERTIES
    StoredIsSettled
