SPECIFICATION FairSpec
CONSTANTS
    a = a
    b = b
    Message <- MCMessage
    AlertToo = {}
    Slot = {"hourly", "daily"}
    Matching <- MCMatching
    Sending = {"hourly", "daily"}
    ManualSends = TRUE
    Window <- MCWindow
    TopN = 1
    MaxMessages = 1
    Retention = 2
    KeepFlagged = 3
    MaxInsert = 1
    MaxManual = 1
    MaxCrash = 1
    MaxFault = 1
INVARIANTS TypeOK DigestedOncePerRow
PROPERTIES UndigestedSettles
\* The bound on insertions can be used up with every row removed.
CHECK_DEADLOCK FALSE
