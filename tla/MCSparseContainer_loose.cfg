SPECIFICATION Spec
CONSTANTS
    Zero = z
    Patterns = {p, q}
    Textures = {t}
    MaxRawRun = 2
    MaxBlocks = 2
    Failed = failed
    Routes = {"patched", "rebuilt"}
SYMMETRY Alike
INVARIANT SparseOutputRestores
