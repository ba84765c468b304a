SPECIFICATION FairSpec
CONSTANTS
    o1 = o1
    o2 = o2
    n1 = n1
    n2 = n2
    f1 = f1
    f2 = f2
    Nobody = Nobody
    NoObject = NoObject
    MaxId = 2
    Objects <- MCObjects
    Names <- MCNames
    Frames <- MCFrames
    InJsThread = {f2}
INVARIANTS RetainedWhileUsed NamesCounted HeldIdIsLive OneIdPerObject NoWaitIsStuck
PROPERTIES DroppedUnused EveryCallReturns
CHECK_DEADLOCK FALSE
