SPECIFICATION Spec
CONSTANTS
    c1 = c1
    c2 = c2
    alice = alice
    bob = bob
    User = {alice, bob}
    UserOf <- MCUserOf
    NoHub = NoHub
    Client = {c1, c2}
    BufCap = 1
    MaxEvents = 2
    Pingers = {c1, c2}
INVARIANTS
    NobodyStranded
    Ledger
    Attachment
    NoEventSkipped
    PresenceAccurate
PROPERTY
    BroadcastFreesStuck
CHECK_DEADLOCK FALSE
