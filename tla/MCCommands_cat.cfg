\* Files with a hole before an unwritten extent, written by --cat.
SPECIFICATION Spec
CONSTANTS
    BlockBytes = 2
    ChunkBytes = 4
    MaxExtent = 3
    WalkBound = 0
    TreeDepth = 4
    Images <- GappedImages
    ReadCalls <- Cat
    WriteCalls <- NoCalls
INVARIANT CatIsTheFile
