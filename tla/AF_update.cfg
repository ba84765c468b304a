SPECIFICATION FairSpec
CONSTANTS
    v1 = v1  v2 = v2  n1 = n1  n2 = n2  k1 = k1  p1 = p1  p2 = p2
    Verify = {v1, v2}
    Notify = {n1, n2}
    Client = {k1}
    ClientOf <- OneClient
    Path = {p1, p2}
    PathOf <- Paths
    NoPath = NoPath
    Handler = Handler
    MaxRetry = 2
    PreloadMode = TRUE
    Faults = {"unload_msg_err", "mount_err", "load_err", "set_path_err", "set_name_err", "completed_err", "unload_err", "late_call"}
INVARIANTS TypeOK LoadIsDue
PROPERTIES SuccessMeansInstalled NotifiedLoads
CHECK_DEADLOCK FALSE
