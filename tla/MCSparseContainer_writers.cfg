SPECIFICATION Spec
CONSTANTS
    Zero = z
    Patterns = {p, q}
    Textures = {t, u}
    MaxRawRun = 2
    MaxBlocks = 4
    Failed = failed
    Routes = {"in_place", "rebuilt", "stream", "patched"}
SYMMETRY Alike
INVARIANTS
    TypeOK
    StrictRoutesRestore
    RawImageIsThereUntilTheRename
    CutContainersAreRefused
    RunsTile
    RunsRestore
    RawRunsStayShort
