SPECIFICATION FairSpec
CONSTANTS
    b1 = b1
    t1 = t1
    t2 = t2
    c1 = c1
    Browser = {b1}
    Tab = {t1, t2}
    Code = {c1}
    NoCode = NoCode
    BrowserOf <- MCBrowserOf
    MaxIds = 2
    MaxDisruptions = 2
INVARIANTS
    KeepsIdentity
PROPERTY
    JoinEnds
CHECK_DEADLOCK FALSE
