CONSTANTS
    t1 = t1
    t2 = t2
    e1 = e1
    e2 = e2
    p1 = p1
    Tabs = {t1, t2}
    Emails = {e1, e2}
    Passwords = {p1}
    Absent = Absent
    Keep = Keep
    Limit <- MCLimit
    SessionTTL = 1
    CsrfTTL = 2
    Horizon = 3
    MaxRequests = 4
    MaxRestarts = 1
SPECIFICATION AccessSpec
SYMMETRY MCSymmetry
INVARIANTS
    AccountsAreKept
    ReloadHeals
    GuessesAreBounded
CHECK_DEADLOCK FALSE
