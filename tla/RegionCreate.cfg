SPECIFICATION Spec
CONSTANTS
    PageSize = 4
    SizeRange = 32
    ChunkSize = {0, 1, 2, 3, 4, 5, 6, 9, 13, 27, 31}
    MaxChunks = 4
INVARIANTS
    AcceptsExactly
    LookupExact
    FillAccountsForSpan
    GroupsPartitionPages
CHECK_DEADLOCK FALSE
