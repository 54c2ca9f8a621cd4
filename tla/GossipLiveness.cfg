SPECIFICATION FairSpec
CONSTANTS
    Addrs = {a1}
    Heights = {0, 1}
    Tasks = {t1, t2, t3}
    NoTask = NoTask
    FaultyMode = "none"
    MaxMsgs = 3
PROPERTIES
    EveryTaskEnds
