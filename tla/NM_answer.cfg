SPECIFICATION FairSpec
CONSTANTS
    r1 = r1  r2 = r2  r3 = r3  k1 = k1  k2 = k2  p1 = p1  p2 = p2
    Req = {r1, r2}
    Key = {k1}
    Proc = {p1}
    KeyOf <- OneKey
    ProcOf <- OneProc
    Closers <- BothCloseR1
    Mortal = {}
    Faults = {"ability_err"}
    NoConn = NoConn
PROPERTIES AcceptedIsAnswered ExtensionProtocol
CHECK_DEADLOCK FALSE
