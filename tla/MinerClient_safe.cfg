\* The gate and the retransmissions: the loads of MCMinerClient!Load.
SPECIFICATION Spec
CONSTANTS
    m1 = m1
    t1 = t1
    Miner = {m1}
    Tunnel = {t1}
    MaxUp = 3
    MaxDown = 2
    Payload <- OwnPayload
    NoFrame = NoFrame
CONSTRAINT Load
INVARIANTS TypeOK RetransmitsNewest RequestsPerAck AckMeansDelivered OpenIsAttended
PROPERTIES DeliversAsPromised SpeaksAsPromised
CHECK_DEADLOCK FALSE
