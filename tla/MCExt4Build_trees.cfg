SPECIFICATION Spec
CONSTANTS
    BlocksPerGroup = 9
    InodesPerGroup = 2
    DescriptorsPerBlock = 6
    TableBlocks = 1
    FirstInode = 4
    InodeMargin = 3
    FixRounds = 8
    RoomRounds = 8
    TreeFanout = 2
    RootFanout = 2
    MaxExtentLen = 2
    MaxAttempts = 4
    CapSlack = 16
    Zero = z
    Dirents = dirents
    Letters = {a, b}
    Longest = 3
    InputSizes = {0}
    Reserves = {0, 6}
    Hash <- OneHash
    Jobs <- RaggedJobs
INVARIANT OneLevelTreesHoldAll
