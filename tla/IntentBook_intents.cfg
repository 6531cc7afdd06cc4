SPECIFICATION FairSpec
CONSTANTS
    p1 = p1
    swarm = swarm
    none = none
    Poster = {p1}
    Swarm = swarm
    Id = {1, 2}
    Offer <- MCOffer
    None = none
    KnownChain = {1, 2}
    MaxIntents = 1
    ChannelCap = 1
    FutureSlack = 1
    MaxWindow = 2
    P2pEnabled = TRUE
    MaxTime = 1
    MaxJobs = 4
    MaxFaults = 1
INVARIANTS
    TypeOK
    CapacityBound
    AcceptedStays
    RestartNeutral
    NoSquatter
PROPERTY
    EveryJobEnds
CHECK_DEADLOCK FALSE
