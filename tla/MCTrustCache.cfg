CONSTANTS
    Requests = {q1, q2}
    Ttl = 2
    Window = 2
    LinksHanded = {"none", "published", "broken"}
    Start = 1
    MaxTime = 2
    MaxClockSteps = 1
    Never = Never
SPECIFICATION Spec
INVARIANTS TrustTypeOK 
PROPERTIES ReadinessIsEarned
SYMMETRY RequestSymmetry
CHECK_DEADLOCK TRUE
