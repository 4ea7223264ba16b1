SPECIFICATION Spec
CONSTANTS
    R1 = R1
    R2 = R2
    p1 = p1
    p2 = p2
    None = None
    k1 = k1
    k2 = k2
    FirstReseller <- Contacts
    Edited = {k1}
    Customer = {c1}
    Contact = {k1, k2}
    Reseller = {R1, R2}
    Profile = {p1, p2}
    Package = {g1}
    Request = {h1, h2}
    ProfileReseller <- Resellers
    PackageProfile <- Profiles
    ScheduleBound = 2
SYMMETRY Symmetry
INVARIANTS Charged ResellerMatches PackageCharged ContactActive
CHECK_DEADLOCK FALSE
