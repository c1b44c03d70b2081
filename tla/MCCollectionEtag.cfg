CONSTANTS
    o1 = o1
    o2 = o2
    w1 = w1
    w2 = w2
    Blobs = {1}
    Occurrences = {o1, o2}
    BlobOf <- MCShared
    Workers = {w1, w2}
    Versioned = FALSE
    AttemptTime = 1
    Separation = 2
    Grace = 1
    MaxWrites = 2
    MaxStarts = 2
    MaxFaults = 1
    Idle = Idle
    Never = Never
SPECIFICATION CollectionSpec
PROPERTIES RetainedContentKept
CHECK_DEADLOCK TRUE
