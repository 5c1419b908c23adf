SPECIFICATION FairSpec
CONSTANTS
    k1 = k1
    k2 = k2
    Ranks <- MCOne
    Reqs = {1, 2, 3, 4}
    PoolSize <- MCUneven
    page_size = 1
    Origin <- MCOrigin
    max_new_tokens = 4
    Ratios = {0}
    RetractDecodeSteps = 2
    SoloOOMMaxRetries = 1
PROPERTIES SoloOOMIsReal
