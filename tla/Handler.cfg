SPECIFICATION FairSpec
CONSTANTS
    t1 = t1
    t2 = t2
    A = A
    B = B
    r1 = r1
    r2 = r2
    r3 = r3
    Thread = {t1, t2}
    Pool = {A, B}
    Region = {r1, r2, r3}
    PoolOf <- MCPoolOf
    Stray = Stray
    Scene <- AllScenes
    None = None
INVARIANTS
    TypeOK
    WalkedPoolListed
    LegalReadsSurvive
    NoSelfWait
    ChainBounded
PROPERTIES
    GPoolsLockReleased
    FaultAnswered
