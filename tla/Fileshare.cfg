SPECIFICATION FairSpec
CONSTANTS
    r1 = r1
    s1 = s1
    x1 = x1
    Slot = {f1, f2, f3}
    User <- MCUser
    Size = {5}
    Ttl = {0}
    DefaultTtl = 1
    UserFiles = 1
    UserQuota = 60
    Handler = {h1, h2}
INVARIANTS FilesBounded
PROPERTIES KeptUntilDeleted UploadEnds
CHECK_DEADLOCK FALSE
