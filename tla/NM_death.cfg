SPECIFICATION Spec
CONSTANTS
    r1 = r1  r2 = r2  r3 = r3  k1 = k1  k2 = k2  p1 = p1  p2 = p2
    Req = {r1, r2}
    Key = {k1}
    Proc = {p1, p2}
    KeyOf <- OneKey
    ProcOf <- OwnProc
    Closers <- AppClosesR2
    Mortal = {p1}
    Faults = {}
    NoConn = NoConn
INVARIANTS ServedOverLiveAbility GivenUpIsFinished
PROPERTIES CallerProtocol
CHECK_DEADLOCK FALSE
