CONSTANTS
    Newline = Newline
    Plain = Plain
    Account = Account
    Contents <- MCContents
    BrokenDigests <- MCBrokenDigests
    Inodes = {1, 2}
    HeaderBytes = 3
    MaxChanges = 2
    MaxRestarts = 1
    None = None
SPECIFICATION CaptureFairSpec
INVARIANTS EmittedIsAcknowledged
PROPERTIES RotatesForCause CaptureCatchesUp
CHECK_DEADLOCK TRUE
