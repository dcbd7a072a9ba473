SPECIFICATION Spec
CONSTANTS
    s1 = s1
    s2 = s2
    host = host
    guest = guest
    User = {host, guest}
    Host = host
    Song = {s1, s2}
    NoSong = NoSong
    Duration <- MCDuration
    Slack = 1
    Pos <- MCPos
    Call = {1}
    FirstSong = s1
    FirstQueue <- NextIsSecond
    MaxClock = 2
    MaxLosses = 0
    MaxActs = 1
PROPERTY
    ToggleKeepsPlace
CHECK_DEADLOCK FALSE
