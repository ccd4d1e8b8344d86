SPECIFICATION FairSpec
CONSTANTS
    alice = alice
    bob = bob
    User = {alice}
    NoUser = NoUser
    FirstFile = {alice, NoUser}
    MaxUploads = 2
    MaxLogouts = 1
    MaxLogins = 1
    MaxCrashes = 1
INVARIANTS
    TypeOK
    OnlyInUseIsHeard
    HeardOnlyWhileAuthorized
PROPERTIES
    ReceivedEventsAreTaken
    AuthorizedStarts
\* The bounds on uploads, log-outs and log-ins can be used up with every task
\* waiting, as a sentinel nobody talks to does.
CHECK_DEADLOCK FALSE
