SPECIFICATION Spec
CONSTANTS
    c1 = c1
    c2 = c2
    h1 = h1
    h2 = h2
    d1 = d1
    d2 = d2
    d3 = d3
    d4 = d4
    d5 = d5
    None = None
    Handle = {h1, h2}
    Client = {c1}
    Descriptor = {d1, d2}
    ClientOf <- OneClient
    Kind <- GoodAndOversized
    Group <- OneGroup
    MayStop = FALSE
    MayFail = FALSE
INVARIANTS
    GoodNeverRefused
CHECK_DEADLOCK FALSE
