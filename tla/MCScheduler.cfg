CONSTANTS
    Sources = {1, 2, 3}
    Lanes = {{1, 3}, {2}}
    ByteBacklogs = {0, 1, 3, 6}
    EventBacklogs = {0, 1}
    ChunkBytes = 2
    Quanta = {1, 4}
    Capacities = {1, 3, 5}
    MaxMeasurements = 1
SPECIFICATION SchedulerSpec
INVARIANTS PlanWithinMeans PromiseKept
CHECK_DEADLOCK TRUE
