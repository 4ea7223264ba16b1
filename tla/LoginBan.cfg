SPECIFICATION Spec
CONSTANTS
    a1 = a1
    u1 = u1
    s1 = s1
    s2 = s2
    o1 = o1
    o2 = o2
    None = None
    Account = {a1, u1, s1, s2}
    Unknown = {u1}
    UserName <- MCName
    Origin = {o1, o2}
    Request = {r1, r2}
    Operator = {op1}
    Realm = {"admin", "subscriber"}
    Logins <- MCLogins
    MaxAttempts = 2
    MinTime = 1
    MaxTime = 1
    Increment = 1
    ScanLimit = 1
    StageBound = 1
INVARIANTS BanHasExpiry BanVisible GuessesBounded
SYMMETRY Symmetry
CHECK_DEADLOCK FALSE
