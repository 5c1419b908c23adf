\* A single request and a batched one compete for one place; three adapters, two
\* of them pinned, so that an eviction may find nothing to evict.
CONSTANTS
    Names = {"x", "y", "z"}
    Pinned = {"y", "z"}
    max_loaded_loras = 1
    Parts = {"s1", "b1", "b2"}
    Singles = {"s1"}
    Batches <- MCBatches
    Endings = {"output", "queue_abort_503"}
    MaxLoads = 4
SPECIFICATION FairSpec
INVARIANTS   BackendAgrees
 
\* All requests have ended and MaxLoads is used up.
CHECK_DEADLOCK FALSE
