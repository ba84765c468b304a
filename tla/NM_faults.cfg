SPECIFICATION Spec
CONSTANTS
    r1 = r1  r2 = r2  r3 = r3  k1 = k1  k2 = k2  p1 = p1  p2 = p2
    Req = {r1, r2}
    Key = {k1}
    Proc = {p1}
    KeyOf <- OneKey
    ProcOf <- OneProc
    Closers <- AppClosesR1
    Mortal = {}
    Faults = {"reject", "memory", "null_client", "connect_err", "ability_err", "ipc_err", "disconnect_err", "unload_err", "refuse_early", "crash"}
    NoConn = NoConn
INVARIANTS TypeOK RefusedIsSilent HeldOnce AnswerIsOwed
PROPERTIES DisconnectedIsFinal
CHECK_DEADLOCK FALSE
