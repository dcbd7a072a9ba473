SPECIFICATION Spec
CONSTANTS
    s1 = s1
    s2 = s2
    host = host
    guest = guest
    r1 = r1
    r2 = r2
    User = {host, guest}
    Host = host
    Song = {s1, s2}
    NoSong = NoSong
    Duration <- MCDuration
    Slack = 1
    Pos = {}
    Req = {r1, r2}
    MaxInFlight = 2
    MaxClock = 0
    MaxBatch = 1
    Kinds = {"add", "next"}
    Follower = {{}}
CONSTRAINT AddsApart
PROPERTY
    EndAdvancesOnce
CHECK_DEADLOCK FALSE
