\* Two orders under fairness; the machine may pause, fail or fall silent.
CONSTANTS
    NumOrders = 2
    MaxDeviceRevision = 0
    MaxAttempt = 0
    MaxJobRevision = 2
    MachineEvents = {"paused", "succeeded", "failed"}
    ReviewedOrders = {}
SPECIFICATION FairSpec
INVARIANTS OneActiveJob
PROPERTIES ImplementsLifecycle DispatchedSettles QueuedIsServed
