SPECIFICATION FairSpec
CONSTANTS
    m1 = m1
    m2 = m2
    h1 = h1
    h2 = h2
    h3 = h3
    r1 = r1
    r2 = r2
    u1 = u1
    u2 = u2
    Mountpoints = {m1, m2}
    Users = {u1}
    Handlers = {h1, h2, h3}
    Rovers = {r1}
    PutTo <- PutToHandlers
    GetFrom <- GetFromRovers
    UserOf <- UsersOfRovers
    Expiry = 0
PROPERTIES
    OrphanedRoversReleased
    AbandonedTransportsReaped
    PositionKeptWhileStreaming
INVARIANTS
    TransportsRegistered
    LiveStreamsHaveTransport
    PositionsOwned
    SoloPublisherKeepsTransport
