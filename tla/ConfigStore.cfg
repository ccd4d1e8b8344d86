SPECIFICATION Spec
CONSTANTS
    r1 = r1
    r2 = r2
    Request <- MCRequest
    Asked <- MCAsked
    Stored <- MCStored
    MaxKey = 3
    Original = Original
    Absent = Absent
    Blank = Blank
    Torn = Torn
    Free = Free
    NoOp = NoOp
    MaxTries = 2
    MaxCrashes = 1
SYMMETRY Twins
CONSTRAINTS
    MCSameFile
    MCOneMishap
INVARIANTS
    TypeOK
    WholeUnlessShared
    OkMeansWritten
    LockedEditsSurvive
CHECK_DEADLOCK FALSE
