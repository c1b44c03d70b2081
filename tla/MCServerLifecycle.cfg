CONSTANTS
    r1 = r1
    r2 = r2
    r3 = r3
    cA = cA
    cB = cB
    Requests = {r1, r2, r3}
    Clients = {cA, cB}
    ClientOf <- MCClientOf
    Cap = 2
    Share = 1
    MaxFaults = 2
SPECIFICATION ServerFairSpec
INVARIANTS ServerTypeOK SessionsAccounted CleanReturn
PROPERTIES SlotsComeBack ShutdownCompletes
CHECK_DEADLOCK TRUE
