SPECIFICATION Spec
CONSTANTS
    Thread = {a, b}
    Text = {x, y}
    NoText = NoText
    Score <- MCScore
    Threshold <- MCThreshold
    BorderlineNeeded = 1
    SamplesNeeded = 1
    RaiseBy = 10
    MaxDrift = 15
    MaxThreshold = 50
    MaxSamples = 1
    MaxRequests = 3
    MaxCrashes = 1
    MaxFaults = 1
INVARIANTS
    TypeOK
    RecomputeIsComing
    QueueSurvives
    DriftBounded
    SamplesCapped
    ReviewedIsCommitted
SYMMETRY MCSymmetry
