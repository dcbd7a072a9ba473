SPECIFICATION InvitesSpec
CONSTANTS
    s1 = s1
    host = host
    guest = guest
    friend = friend
    r1 = r1
    r2 = r2
    User = {host, guest, friend}
    Host = host
    Song = {s1}
    NoSong = NoSong
    Duration <- MCDuration
    Slack = 1
    Pos = {}
    Req = {r1, r2}
    MaxInFlight = 2
    MaxClock = 2
    MaxBatch = 1
    Kinds <- RosterKinds
    Follower = {{}}
    MaxUses = 2
    MaxValid = 1
INVARIANTS
    UsesWithinLimit
    JoinsAreCounted
PROPERTY
    JoinsLikeAnyOther
CHECK_DEADLOCK FALSE
