\* Two clients, the second one started by the script of the server's page.
SPECIFICATION FairSpec
CONSTANTS
    t1 = t1
    t2 = t2
    t3 = t3
    c1 = c1
    c2 = c2
    Conn = {t1, t2, t3}
    Client = {c1, c2}
    ClientOf <- MCClientOf
    Downloaded = {c2}
    s1 = s1
    Sender = {s1}
    ServesFor <- MCServesFor
    Flags <- MCFlags
    Bodies <- MCBodies
    Counts = {1, 9}
    None = None
    BlockSize = 4
    Window = 5
    Least = 2
    Values = 6
    Zero <- MCZero
INVARIANTS TypeOK FrameIntact OwnKeyAdmitted IdsKnown FoundUnlessHidden DeadForgotten
PROPERTIES AllReached OffersAsPromised
CHECK_DEADLOCK FALSE
