SPECIFICATION Spec
CONSTANTS
    c1 = c1  c2 = c2  c3 = c3  c4 = c4
    k1 = k1  k2 = k2  t1 = t1  t2 = t2
    Call = {c1, c2, c3, c4}
    Thread = {t1, t2}
    ThreadOf <- TwoThreads
    Key = {k1, k2}
    KeyOf <- SharedKey
    Disconnected = {c2}
    BadWant = {c1}
    MaxId = 1
    RandomIds = {0}
    MaxRequestSize = 0
    NoCall = NoCall
    NoId = NoId
    NoKey = NoKey
INVARIANTS FindsOthersOnlyById EmptiedWithRequests AliveSizeBounded
CHECK_DEADLOCK FALSE
