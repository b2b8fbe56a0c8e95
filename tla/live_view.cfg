CONSTANTS
    None = None
    NoFrame = NoFrame
    t1 = t1
    t2 = t2
    Threads = {t1, t2}
    TTL = 2
    MaxQueue = 2
    MaxTime = 5
    MaxFrames = 5
SPECIFICATION ViewSpec
SYMMETRY Symmetry
INVARIANTS
    ViewTypeOK
    RevokedFallsSilent
    ViewersCatchUp
