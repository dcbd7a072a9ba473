SPECIFICATION FocusSpec
CONSTANTS
    s1 = s1
    s2 = s2
    host = host
    guest = guest
    r1 = r1
    r2 = r2
    User = {host, guest}
    Host = host
    Song = {s1, s2}
    NoSong = NoSong
    Duration <- MCDuration
    Slack = 1
    Pos <- MCPos
    Req = {r1, r2}
    MaxInFlight = 2
    MaxClock = 0
    MaxBatch = 2
    Kinds = {"add", "batch", "vote", "delete", "next", "playNow", "control", "event"}
    Follower <- MCFollower
INVARIANTS
    TypeOK
    AlwaysWellFormed
    AlwaysRanked
    OpenedByHost
    VoteSortsStably
    Settled
PROPERTIES
    OnlyPlaybackMovesPlayhead
    TakesEffectAtOnce
SYMMETRY Symmetry
CONSTRAINT FocusBound
CHECK_DEADLOCK FALSE
