SPECIFICATION Spec
CONSTANTS
    k1 = k1
    k2 = k2
    Ranks <- MCRanks
    Reqs = {1, 2, 3, 4}
    PoolSize <- MCUnevenPaged
    page_size = 2
    Origin <- MCOriginPaged
    max_new_tokens = 4
    Ratios = {0}
    RetractDecodeSteps = 2
    SoloOOMMaxRetries = 1
INVARIANTS RanksAgree NeverOOM SlotsBalance
