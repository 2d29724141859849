SPECIFICATION FairSpec
CONSTANTS
    Threads = {"t1", "t2"}
    MaxMasks = 1
    MaxMessages = 3
    QueueLen = 2
INVARIANTS FlagMeansAlive CompleteHistory
PROPERTIES StopEnds
