SPECIFICATION FairSpec
CONSTANTS
    Threads = {t1, t2}
    Goals = {g1}
    None = None
    MaxJournal = 3
    Watchers = {w1}
    WatchPage = 2
    WatchBuffer = 1
    MaxEpoch = 2
INVARIANTS
    NoLostUpdate
    
    ViewMatchesCursor
PROPERTIES
    DirtyConnectionFenced
    WriterReleased
    WatcherCatchesUp
CHECK_DEADLOCK FALSE
