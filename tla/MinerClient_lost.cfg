\* A repeated ACK.
SPECIFICATION Spec
CONSTANTS
    m1 = m1
    t1 = t1
    Miner = {m1}
    Tunnel = {t1}
    MaxUp = 2
    MaxDown = 0
    Payload <- OwnPayload
    NoFrame = NoFrame
INVARIANTS KeptUntilReceived
CHECK_DEADLOCK FALSE
