CONSTANTS
    Pages <- MCPages
    Checkpoints <- MCCheckpoints
    kv_keys <- MCkv_keys
    Payload = 1
    Allocated = 2
    max_size_bytes = 3
    watermark = 2
    budget_bytes = 2
SPECIFICATION FairSpec
INVARIANTS FilesAreTracked 
PROPERTIES ProtectionLasts SetReturns
