SPECIFICATION FairSpec
CONSTANTS
    t1 = t1
    t2 = t2
    r1 = r1
    r2 = r2
    Thread = {t1, t2}
    Region = {r1, r2}
    None = None
    Reads <- MCReads
    MayView = TRUE
    MaxViews <- OneEach
PROPERTIES
    FillsFinish
CHECK_DEADLOCK FALSE
