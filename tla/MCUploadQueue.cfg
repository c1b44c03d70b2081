CONSTANTS
    oA = oA
    oB = oB
    oC = oC
    s1 = s1
    cA = cA
    cB = cB
    cC = cC
    Entries = {1, 2}
    Occurrences = {oA, oB}
    Sources = {s1}
    SourceOf <- MCSourceOf
    RangeEnd <- MCRangeEnd
    CursorOf <- MCCursorOf
    Requests = {r1, r2}
    Digests = {d1, d2}
    BaseMs = 2
    CapMs = 3
    Bits = 2
    MaxAttempts = 2
    MaxOverdue = 1
    NoEntry = 0
    NoRequest = NoRequest
    NoOccurrence = NoOccurrence
    NoCursor = NoCursor
    NoReceipt = NoReceipt
    Never = Never
SPECIFICATION QueueSpec
INVARIANTS QueueTypeOK AcknowledgedIffReceipted CursorIsReceipted OwnReceiptAccepted
PROPERTIES PromisesAreFinal BackoffNeverShrinks
SYMMETRY QueueSymmetry
CHECK_DEADLOCK FALSE
