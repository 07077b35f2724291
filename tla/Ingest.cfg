SPECIFICATION LiveSpec
CONSTANTS
    r1 = r1
    r2 = r2
    s1 = s1
    s2 = s2
    t1 = t1
    t2 = t2
    Subs = {s1, s2}
    Runs = {r1, r2}
    Tokens = {t1, t2}
    Version <- VersionOf
    Cases <- AllCases
    Changes = {"upload", "delete", "revoke", "stop", "deny", "ok", "own", "again"}
    LEASE = 1
    WINDOW = 1
    NOTICE = 1
    MaxBytes = 2
    MaxApprovals = 2
    MaxSent = 6
    MaxTrouble = 1
CHECK_DEADLOCK FALSE
INVARIANTS
    TypeOK
    ApprovedBytesOnly
    SettledIsRecorded
PROPERTIES
    OperatorHadHisWindow
    FirstBindingIsAnswered
    PreviousAccountTold
    ApprovedIsAnswered
