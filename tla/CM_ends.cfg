SPECIFICATION CMFairSpec
CONSTANTS
    c1 = c1  c2 = c2  c3 = c3
    NoConn = NoConn
    Call = {c1, c2, c3}
    Conn = {c1, c2}
    OfConn <- CloseC1
    MaxSerial = 2
    MayMute = {c2}
    MaxStarts = 2
    MayDie = {1}
INVARIANTS CMTypeOK RegisteredUntilEnd ToldDeathIsPosted
PROPERTIES RemovedByOwnEnd DeathIsHeard
CHECK_DEADLOCK FALSE
