SPECIFICATION ReaderSpec
CONSTANTS
    Region <- MCRegion
    Chunk <- MCChunk
    Page <- MCPage
    RegionOf <- MCRegionOf
    Index <- MCIndex
    Size <- MCSize
    Contributors <- MCContributors
    Loads <- TwoPages
    ChunkSizes <- SmallSizes
    PageSize = 4
    SizeRange = 64
    TargetSize = 11
    lru_head = lru_head
    None = None
PROPERTIES
    LoadCompletes
