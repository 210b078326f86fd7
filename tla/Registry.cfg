\* One miner that comes, one of the same machine that left before.
SPECIFICATION FairSpec
CONSTANTS
    m1 = m1
    m2 = m2
    t1 = t1
    Miner = {m1, m2}
    Past = {m2}
    IpOf <- MCIpOf
    Tunnel = {t1}
    InFlight = 2
INVARIANTS TypeOK
CHECK_DEADLOCK FALSE
PROPERTIES PongSparesConnected CloseHasReason LeftMinerEnds RequestAnswered RestartNoticed EndedLeaves
