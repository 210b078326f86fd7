\* A tunnel against the end of a session.
SPECIFICATION FairSpec
CONSTANTS
    m1 = m1
    t1 = t1
    Miner = {m1}
    Tunnel = {t1}
    MaxUp = 0
    MaxDown = 0
    Payload <- OwnPayload
    NoFrame = NoFrame
PROPERTIES TunnelReturns
CHECK_DEADLOCK FALSE
