SPECIFICATION Spec
CONSTANTS
    a1 = a1
    a2 = a2
    Addrs = {a1, a2}
    Zero = Zero
    Threads = {t1, t2}
    Configs <- MCMiningConfigs
    Environments <- MCFairWeather
    BlockChainVersion = 2
    ServerMaxPeers = {2}
    ThreadCounts = {0, 2}
    MaxPendingStarts = 2
SYMMETRY Symmetry
CHECK_DEADLOCK FALSE
INVARIANT NoMiningAfterStop
