\* Two hard links in a row to a compressed file, converted.
SPECIFICATION Spec
CONSTANTS
    BlockBytes = 2
    ChunkBytes = 4
    MaxExtent = 3
    WalkBound = 0
    TreeDepth = 4
    Images <- LinkedImages
    ReadCalls <- NoCalls
    WriteCalls <- Conversion
INVARIANT GapsAreMalformed
