\* One sender and the refill loop, two tunnels wanted, four made at most.
SPECIFICATION FairSpec
CONSTANTS
    p1 = p1
    Id = {1, 2, 3, 4}
    NoId = 0
    Sender = {p1}
    Refill = Refill
    MaxConn = 2
ACTION_CONSTRAINT InOrder
INVARIANTS TypeOK ListedKnown WorkingListed
PROPERTIES NoResurrection ShortageEnds
CHECK_DEADLOCK FALSE
