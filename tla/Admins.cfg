SPECIFICATION MCSpec
CONSTANTS
    Id = {a1, a2, a3}
    Reseller = {r1, r2}
    NoReseller = NoReseller
    Role = {"admin", "reseller"}
    Access <- MCAccess
    Handler = {h1, h2}
SYMMETRY Symmetry
INVARIANTS Confined NeverLockedOut
PROPERTIES PatchKeeps
CHECK_DEADLOCK FALSE
CONSTRAINT Bounded
