SPECIFICATION ProxyFairSpec
CONSTANTS
    Undefined = {undefined}
    Failed = {failed}
    Pending = {pending}
    NoBan = NoBan
    Handler = {h1}
    Ban = {b1}
    Node = {n1, n2, n3}
    Call <- Calls
INVARIANTS DeletedUnless RemovesReported
PROPERTIES Answered
CHECK_DEADLOCK FALSE
