SPECIFICATION Spec
CONSTANTS
    r1 = r1
    r2 = r2
    r3 = r3
    r4 = r4
    r5 = r5
    e1 = e1
    e2 = e2
    None = None
    Emails = {e1, e2}
    Requests = {r1, r2, r3, r4, r5}
    Faults = {"profile", "set"}
    LongSessions = TRUE
    Serial = TRUE
SYMMETRY Symmetry
CHECK_DEADLOCK FALSE
INVARIANTS TypeOK OneUserPerEmail OnlyNewestAccepted SignInSticks SessionMatchesUser
