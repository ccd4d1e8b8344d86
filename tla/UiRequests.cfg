SPECIFICATION Spec
CONSTANTS
    t1 = t1
    t2 = t2
    t3 = t3
    Thread <- MCThread
    Stamp <- MCStamp
    Shared = Shared
    NoKey = NoKey
    NoLogin = NoLogin
    Asking <- Kind
    MaxSwitches = 1
    MaxCrashes = 1
    MaxFaults = 1
INVARIANTS
    TypeOK
    ToldAsItWas
    LatestCodeKept
SYMMETRY MCSymmetry
CONSTRAINTS
    MCOneMishap
    MCFewKinds
\* Every thread may have answered, and the sentinel have nothing to do.
CHECK_DEADLOCK FALSE
