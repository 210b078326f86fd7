\* A session that moved no data, and the sweep.
SPECIFICATION FairSpec
CONSTANTS
    m1 = m1
    s1 = s1
    s2 = s2
    Miner = {m1}
    Session = {s1}
    NoSession = NoSession
    NoChunk = NoChunk
    MaxUp = 0
    MaxDown = 0
    UpChunk <- Chunk
    Payload <- OwnPayload
PROPERTIES SweptSessionEnds
CHECK_DEADLOCK FALSE
