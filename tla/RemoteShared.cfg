SPECIFICATION FairSpec
CONSTANTS
    c1 = c1
    c2 = c2
    h1 = h1
    h2 = h2
    d1 = d1
    d2 = d2
    d3 = d3
    d4 = d4
    d5 = d5
    None = None
    Handle = {h1, h2}
    Client = {c1, c2}
    Descriptor = {d1}
    ClientOf <- TwoClients
    Kind <- Good
    Group <- OneGroup
    MayStop = TRUE
    MayFail = TRUE
INVARIANTS
    TypeOK
    OneRegionPerDescriptor
    DerivedOnce
PROPERTIES
    ImplementsSharedContent
    FaultServed
    StopReachesAll
CHECK_DEADLOCK FALSE
