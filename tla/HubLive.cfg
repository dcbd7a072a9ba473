SPECIFICATION FairSpec
CONSTANTS
    c1 = c1
    c2 = c2
    alice = alice
    bob = bob
    User = {alice, bob}
    UserOf <- MCUserOf
    NoHub = NoHub
    Client = {c1, c2}
    BufCap = 1
    MaxEvents = 1
    Pingers = {c1, c2}
PROPERTIES
    JoinCompletes
    TeardownEnds
    EventArrives
    ConnectionEnds
CHECK_DEADLOCK FALSE
