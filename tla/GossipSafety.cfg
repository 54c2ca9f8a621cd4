SPECIFICATION Spec
CONSTANTS
    Addrs = {a1, a2}
    Heights = {0, 1, 2}
    Tasks = {t1, t2, t3}
    NoTask = NoTask
    FaultyMode = "RandomlyStopSendingMsg"
    MaxMsgs = 4
SYMMETRY Symmetry
INVARIANTS
    TypeOK
    LiveTasksAreRegistered
    RegistryHoldsOnlyLive
    AtMostOneDelivery
PROPERTIES
    NewHeadCancelsStale
    ImplementsPromise
