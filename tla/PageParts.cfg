SPECIFICATION PartsSpec
CONSTANTS
    a = a
    b = b
    v = v
    l = l
    blank = blank
    single = single
    Text = {a, b, v, l, blank, single}
    Blank = blank
    Short = {single}
    Video = {v}
    List = {l}
    NoText = NoText
    MaxAsks = 4
    k1 = k1
    k2 = k2
    k3 = k3
    k4 = k4
    k5 = k5
    Sock = {k1, k2, k3, k4, k5}
    None = None
    Usual = 8
    Modest = 3
    MaxRuns = 4
    t1 = t1
    g1 = g1
    g2 = g2
    Tab = {t1}
    Guest = {g1, g2}
    Host = Host
    j1 = j1
    j2 = j2
    Job = {j1, j2}
    Nobody = Nobody
    MaxLoads = 1
    MaxSteps = 4
    Skew <- MCSkew
    MaxNow = 4
    MaxPings = 2
INVARIANTS
    NeverGivesUp
    Orderly
    LoudnessSurvives
    SceneFreed
    NoGhostRow
    ClockClose
PROPERTIES
    CleanUpIsFinal
    ImplementsSearch
    SearchEnds
CHECK_DEADLOCK FALSE
