SPECIFICATION Spec
CONSTANTS
    alice = alice
    bob = bob
    User <- MCUser
    NoUser = NoUser
    FirstFile = {alice, NoUser}
    MaxUploads = 1
    MaxLogouts = 1
    MaxLogins = 1
    MaxCrashes = 0
PROPERTIES
    LoginServedWhenLoggedOut
\* The bounds on uploads, log-outs and log-ins can be used up with every task
\* waiting, as a sentinel nobody talks to does.
CHECK_DEADLOCK FALSE
