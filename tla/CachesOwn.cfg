SPECIFICATION CFairSpec
CONSTANTS
    alice = alice
    bob = bob
    User <- MCUser
    NoUser = NoUser
    FirstFile = {alice, NoUser}
    MaxUploads = 1
    MaxLogouts = 1
    MaxLogins = 0
    MaxCrashes = 1
    MaxGeneration = 2
INVARIANTS
    CTypeOK
PROPERTIES
    StoredIsNotOlder
    OwnCachesEventually
\* The bounds can be used up with every task waiting, as in a sentinel nobody
\* talks to.
CHECK_DEADLOCK FALSE
