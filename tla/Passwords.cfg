SPECIFICATION Spec
CONSTANTS
    NoPassword = NoPassword
    Password = {p1, p2, p3}
    Handler = {h1, h2}
    KeepLast = 2
    MaxId = 5
SYMMETRY Symmetry
INVARIANTS JournalShort JournalTellsCurrent
PROPERTIES NoReuse
CHECK_DEADLOCK FALSE
