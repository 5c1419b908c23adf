\* A batched request and an unload.
CONSTANTS
    Names = {"x", "y"}
    Pinned = {}
    max_loaded_loras = 2
    Parts = {"b1", "b2"}
    Singles = {}
    Batches <- MCBatches
    Endings = {"output"}
    MaxLoads = 3
SPECIFICATION Spec
INVARIANT InUseStaysLoaded
CHECK_DEADLOCK FALSE
