\* Two jobs, two drivers, both kinds of cycle; one fault or intervention.
SPECIFICATION DispatchFairSpec
CONSTANTS
    Job = {j1, j2}
    Driver = {d1, d2}
    Cycle = {"edge", "workflow"}
    NoJob = NoJob
    NoDriver = NoDriver
    MaxCapacity = 2
    MaxAttempts = 3
    MaxEvents = 1
INVARIANT DispatchTypeOK
PROPERTIES OverloadExplained FinishedJobFrozen AcceptedIsAssigned DriverKeepsJob CycleEnds
CHECK_DEADLOCK FALSE
