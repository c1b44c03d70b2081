CONSTANTS
    oA = oA
    oB = oB
    s1 = s1
    cA = cA
    cB = cB
    Entries = {1, 2}
    Size <- MCSize
    FreeLevels = {2}
    FreeFloor = 1
    Cap = 9
    ResumePercent = 80
    UMax = 1000
    MaxFaults = 1
    Occurrences = {oA, oB}
    Sources = {s1}
    SourceOf <- MCSourceOf
    RangeEnd <- MCRangeEnd
    CursorOf <- MCCursorOf
    r1 = r1
    r2 = r2
    Requests = {r1, r2}
    Digests = {d1}
    BaseMs = 1
    CapMs = 1
    Bits = 2
    MaxAttempts = 1
    MaxOverdue = 1
    NoEntry = 0
    NoRequest = NoRequest
    NoOccurrence = NoOccurrence
    NoCursor = NoCursor
    NoReceipt = NoReceipt
    Never = Never
SPECIFICATION PipeSpec
INVARIANTS CursorNeverSkips
PROPERTIES KeepsCustody RunsUploadQueue
SYMMETRY RequestSymmetry
