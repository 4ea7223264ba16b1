SPECIFICATION ServiceFairSpec
CONSTANTS
    Check = {k1, k2}
    DbCheck = {d1}
INVARIANTS Recoverable
PROPERTIES Recovers OutageSeen
