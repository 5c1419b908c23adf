SPECIFICATION Spec
CONSTANTS
    page_size = 2
    Sessions = {}
    TombstoneLimit = 1
    Reqs = {r1, r2}
    Prompts <- MCPromptsTwo
    Tokens = {1}
    NumPages = 5
    max_new_tokens = 2
    RetractDecodeSteps = 4
    MaxInFlight = 2
SYMMETRY ReqSymmetry
INVARIANTS EveryPageOnce RowReadsTree
