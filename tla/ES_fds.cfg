SPECIFICATION Spec
CONSTANTS
    c1 = c1  c2 = c2  c3 = c3
    i1 = i1  i2 = i2
    Conn = {c1, c2, c3}
    Id = {i1, i2}
    IdOf <- TwoIds
    Fd = {f1, f2, f3, f4}
    NoFd = NoFd
    NoConn = NoConn
    Faults = {"id_err", "fd_err", "no_handler", "post_err", "no_method"}
SYMMETRY Symmetry
INVARIANTS HeldAreOpen NothingLeaks OpenWhileTold
PROPERTIES ScriptProtocol
CHECK_DEADLOCK FALSE
