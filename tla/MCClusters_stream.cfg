SPECIFICATION Spec
CONSTANTS
    SlotsPerBlock = 128
    MetaBlock = 0
    SbFirst = 32
    SbEnd = 36
    BlockBits = 12
    BatchBytes = 8192
    BatchLimit = 64
    Sizes = {0, 1, 4096, 12289, 20480, 24577}
    Companions = {0, 8193}
    Jobs <- SmallJobs
INVARIANTS
    FilesReadBack
    AnchorsLead
    ReservationsHold
