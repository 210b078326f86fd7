\* Two miners that begin with the same bytes.
SPECIFICATION Spec
CONSTANTS
    m1 = m1
    m2 = m2
    s1 = s1
    s2 = s2
    Miner = {m1, m2}
    Session = {s1, s2}
    NoSession = NoSession
    NoChunk = NoChunk
    MaxUp = 1
    MaxDown = 0
    UpChunk <- Chunk
    Payload <- SamePayload
INVARIANTS AckMeansForwarded
CHECK_DEADLOCK FALSE
