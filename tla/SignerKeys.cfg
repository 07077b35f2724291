SPECIFICATION Spec
CONSTANTS
    k1 = k1
    k2 = k2
    l1 = l1
    l2 = l2
    e1 = e1
    e2 = e2
    x1 = x1
    x2 = x2
    r1 = r1
    r2 = r2
    Runners = {r1}
    Shell = {}
    Keys = {k1, k2}
    Exempt = {k1}
    GenesisKeys = {k1}
    HeldSets <- HeldNew
    Listings = {l1}
    Publishers = {x1, x2}
    Entries = {e1}
    Edits = {"rotation", "drop", "retire", "publisher"}
    WINDOW = 2
    RESIGN = 2
    BACKSTOP = 3
    ATTEMPTS = 2
    Skew = 0
    MaxClock = 4
    LandUntil = 3
    MaxMain = 3
SYMMETRY Symmetry
INVARIANTS
    CommitsVerify
    CachedTrustVerifiesCatalogue
