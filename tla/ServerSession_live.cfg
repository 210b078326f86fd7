\* One session, one chunk each way, under fairness.
SPECIFICATION FairSpec
CONSTANTS
    m1 = m1
    s1 = s1
    s2 = s2
    Miner = {m1}
    Session = {s1}
    NoSession = NoSession
    NoChunk = NoChunk
    MaxUp = 1
    MaxDown = 1
    UpChunk <- Chunk
    Payload <- OwnPayload
PROPERTIES ClosedSessionEnds
CHECK_DEADLOCK FALSE
