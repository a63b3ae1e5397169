SPECIFICATION WindowsSpec
CONSTANTS
    Region <- MCRegion
    Chunk <- MCChunk
    Page <- MCPage
    RegionOf <- MCRegionOf
    Index <- MCIndex
    Size <- MCSize
    Contributors <- MCContributors
    Offset <- MCOffset
    ChunkSizes <- WindowsSizes
    MaxEvents = 4
    PageSize = 4
    SizeRange = 64
    TargetSize = 17
    lru_head = lru_head
    None = None
INVARIANTS
    KernelCallsSucceed
    WindowsKeepsContract
    ReportsAgree
