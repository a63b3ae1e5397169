SPECIFICATION Spec
CONSTANTS
    t1 = t1
    t2 = t2
    A = A
    B = B
    r1 = r1
    r2 = r2
    r3 = r3
    Thread = {t1, t2}
    Pool = {A, B}
    Region = {r1, r2, r3}
    PoolOf <- MCPoolOf
    Stray = Stray
    Scene <- LeavesScenes
    None = None
INVARIANTS
    PassedDownSurvives
