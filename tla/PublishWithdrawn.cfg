SPECIFICATION LiveSpec
CONSTANTS
    r1 = r1
    r2 = r2
    p1 = p1
    p2 = p2
    a = a
    b = b
    s1 = s1
    s2 = s2
    s3 = s3
    m1 = m1
    m2 = m2
    Runs = {r1}
    Ids = {p1}
    Bytes = {a}
    Subs = {s1, s2}
    Months = {m1}
    Edits = {"deny","approval","revocation","other"}
    ATTEMPTS = 2
    MaxVer = 2
    MaxReports = 2
    MaxMain = 4
CHECK_DEADLOCK FALSE
INVARIANTS
    TypeOK
    WithdrawnNeverLands
PROPERTY
    RunsEnd
