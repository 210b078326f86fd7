\* The safety properties under the loads of MCServerSession!Load.
SPECIFICATION Spec
CONSTANTS
    m1 = m1
    s1 = s1
    s2 = s2
    Miner = {m1}
    Session = {s1, s2}
    NoSession = NoSession
    NoChunk = NoChunk
    MaxUp = 2
    MaxDown = 4
    UpChunk <- Chunk
    Payload <- OwnPayload
CONSTRAINT Load
SYMMETRY Symmetry
INVARIANTS TypeOK ForwardOnce AckMeansForwarded OneOpenSession DownstreamOrder WindowPerAck OpenIsServed
PROPERTIES ForwardsAsPromised
CHECK_DEADLOCK FALSE
