SPECIFICATION Spec
CONSTANTS
    c1 = c1  c2 = c2  c3 = c3  c4 = c4
    k1 = k1  k2 = k2  t1 = t1  t2 = t2
    Call = {c1, c2, c3}
    Thread = {t1}
    ThreadOf <- OneThread
    Key = {k1, k2}
    KeyOf <- SharedKey
    Disconnected = {c1, c3}
    BadWant = {}
    MaxId = 4
    RandomIds = {0, 1}
    MaxRequestSize = 1
    NoCall = NoCall
    NoId = NoId
    NoKey = NoKey
INVARIANTS RoutedById FindsOwn
CHECK_DEADLOCK FALSE
