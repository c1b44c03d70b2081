CONSTANTS
    e1 = e1
    e2 = e2
    e3 = e3
    Entries = {e1, e2, e3}
    Size <- MCSize
    FreeLevels <- MCFreeLevels
    FreeFloor = 1
    Cap = 2
    ResumePercent = 80
    UMax = 1000
    MaxFaults = 3
    NoEntry = NoEntry
SPECIFICATION SpoolFairSpec
INVARIANTS SpoolTypeOK LiveRowHasBundle SyncedRowSurvivesPowerLoss UsageBounded
PROPERTIES BundleKeptUntilAcknowledged ReconcileSettles DebrisEventuallyResolved
