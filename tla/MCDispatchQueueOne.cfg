\* One domain worker, as deployed; it may die and restart at any point.
CONSTANTS
    Workers = {w1}
    MaxJobs = 3
    MaxRequests = 3
SPECIFICATION FairQueueSpec

PROPERTIES RaisedRequestSurvives FreeMachineIsUsed
CHECK_DEADLOCK FALSE
