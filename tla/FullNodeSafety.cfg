SPECIFICATION Spec
CONSTANTS
    a1 = a1
    a2 = a2
    Addrs = {a1, a2}
    Zero = Zero
    Threads = {t1, t2}
    Configs <- MCAllConfigs
    Environments <- MCEnvironments
    BlockChainVersion = 2
    ServerMaxPeers = {1, 2}
    ThreadCounts = {0, 2}
    MaxPendingStarts = 2
SYMMETRY Symmetry
CONSTRAINT MCFocus
CHECK_DEADLOCK FALSE
INVARIANTS
    TypeOK
    DbClosedLast
    FullPeersKeepASlot
    MiningImpliesAcceptTxs
    CliqueMinerCanSign
