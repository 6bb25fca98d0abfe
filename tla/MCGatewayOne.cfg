SPECIFICATION FairSpec
CONSTANTS
    w1 = w1
    Msgs = {tel, evt, bad}
    Telemetry = {tel}
    Malformed = {bad}
    Mismatched = {evt}
    Mids = {1, 2}
    Topics = {up}
    Workers = {w1}
    Shard <- OneShard
    Capacity = 2
    BatchSize = 2
    MaxFaults = 1
INVARIANTS
    AckedWasSettled
    WindowNeverLeaks
    ShutdownLeavesNothing
PROPERTIES
    ComesBack
    EveryUplinkSettles
CHECK_DEADLOCK FALSE
