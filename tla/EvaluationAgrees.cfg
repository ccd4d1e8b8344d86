SPECIFICATION Spec
CONSTANTS
    a = a
    b = b
    g = g
    u = u
    x = x
    y = y
    w = w
    v = v
    s1 = s1
    s2 = s2
    Profile = {a, b}
    Definition <- MCDefinition
    Chat = {g, u}
    Private = {u}
    Message <- MCMessage
    Word = {w, v}
    User = {x, y, u}
    Topic <- MCTopic
    Rule <- MCRule
    Monitored = {u}
    Samples = {s1, s2}
    Likeness <- MCLikeness
    Absent = Absent
    NoRule = NoRule
    NoSamples = NoSamples
    NoReport = NoReport
    MaxEdits = 1
CONSTRAINT MCReportIsLast
INVARIANTS
    TypeOK
    BacktestsAgree
    NoProfileSilencesAnother
