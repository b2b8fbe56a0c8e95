CONSTANTS
    None = None
    t1 = t1
    t2 = t2
    Threads = {t1, t2}
    Stamps = {0, 1, 2}
    Cooldown = 2
    Interval = 1
    Threshold = 2
    MaxTime = 4
SPECIFICATION Spec
SYMMETRY Symmetry
INVARIANTS
    OfflineIsSilence
    EventsSpaced
PROPERTIES
    RevokedStaysRevoked
