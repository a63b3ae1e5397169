SPECIFICATION FairSpec
CONSTANTS
    Region <- MCRegion
    Chunk <- MCChunk
    Page <- MCPage
    RegionOf <- MCRegionOf
    Index <- MCIndex
    Size <- MCSize
    Contributors <- MCContributors
    ChunkSizes <- MixedSizes
    PageSize = 4
    SizeRange = 64
    TargetSize = 11
    lru_head = lru_head
    None = None
INVARIANTS
    TypeOK
    QueueSound
    ShadowMatchesVM
    PageComplete
    StagingExact
    ResolutionSound
    AssertionsHold
    BytesExact
PROPERTIES
    BudgetKept
    ColdEvictedFirst
    LockReleased
    ImplementsLazyMemory
