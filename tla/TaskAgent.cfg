SPECIFICATION FairSpec
CONSTANTS
    Undefined = {undefined}
    Failed = {failed}
    Pending = {pending}
    Call = {c1}
    Node = {n1, n2, n3}
    InitialTimeout = 1
    MaxTimeout = 2
    ExceptionTimeout = 3
INVARIANTS Registered
PROPERTIES CountsSuffice CallerSpec CallerFairSpec
CHECK_DEADLOCK FALSE
