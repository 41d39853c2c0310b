\* Every image and call of MCCommands.
SPECIFICATION Spec
CONSTANTS
    BlockBytes = 2
    ChunkBytes = 4
    MaxExtent = 3
    WalkBound = 6
    TreeDepth = 4
    Images <- AllImages
    ReadCalls <- SmallReadCalls
    WriteCalls <- SmallWriteCalls
INVARIANTS
    ConvertedFilesReadBack
    CatAgrees
    FindIsExact
    OptionsAreHonoured
    MetadataReachesItsAction
PROPERTIES
    ImplementsBlockService
    CommandEnds
