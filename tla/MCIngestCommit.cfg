CONSTANTS
    a1 = a1
    a2 = a2
    rA = rA
    rB = rB
    e1 = e1
    e2 = e2
    e3 = e3
    k1 = k1
    oA = oA
    oB = oB
    dA = dA
    dB = dB
    dC = dC
    Attempts = {a1, a2}
    ReplicaOf <- MCReplicaOf
    SigningReplicas = {rA}
    Envelopes = {e1, e2}
    BlobOf <- MCBlobOf
    OccurrenceOf <- MCOccurrenceOf
    DocumentOf <- MCDocumentOf
    LengthOf <- MCLengthOf
    ConditionalCreate = TRUE
    Evidence = {"digest", "size", "none"}
    MaxFaults = 1
    Absent = Absent
    NoEnvelope = NoEnvelope
SPECIFICATION FairSpec
INVARIANTS IngestTypeOK ReceiptMeansDurable NoDanglingReference NothingUnverifiedStored OutcomesAreHonest
PROPERTIES ManifestsWriteOnce RetryConverges
CHECK_DEADLOCK TRUE
