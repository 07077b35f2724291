SPECIFICATION PagesLiveSpec
CONSTANTS
    k1 = k1
    k2 = k2
    l1 = l1
    l2 = l2
    e1 = e1
    e2 = e2
    x1 = x1
    x2 = x2
    r1 = r1
    r2 = r2
    Runners = {r1}
    Shell = {}
    Keys = {k1, k2}
    Exempt = {k1}
    GenesisKeys = {k1}
    HeldSets <- HeldOne
    Listings = {l1}
    Publishers = {x1}
    Entries = {e1, e2}
    Edits = {"merge", "advisory", "flag", "rebuild", "root"}
    WINDOW = 2
    RESIGN = 2
    BACKSTOP = 3
    ATTEMPTS = 1
    Skew = 1
    MaxClock = 2
    LandUntil = 1
    MaxMain = 3
INVARIANTS
    PagesTypeOK
    PagesServesOneCommit
PROPERTIES
    LatchNeverOpens
    PagesNeverRollsBack
    PagesCatchesUp
    ArmingTakesEffect
