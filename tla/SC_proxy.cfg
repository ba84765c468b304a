SPECIFICATION FairSpec
CONSTANTS
    c1 = c1  c2 = c2  c3 = c3
    Call = {c1, c2}
    MaxStarts = 2
    MayDie = {1, 2}
    Faults = {"load_err", "start_err", "null_remote", "recipient_err", "timeout"}
INVARIANTS TypeOK
PROPERTIES CachedIsWatched NullOnlyWithoutService CallsReturn ImplementsProxySource
CHECK_DEADLOCK FALSE
