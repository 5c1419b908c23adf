SPECIFICATION Spec
CONSTANTS
    page_size = 1
    Sessions = {s1, s2}
    TombstoneLimit = 1
    Reqs = {r1, r2}
    Prompts <- MCPromptsNested
    Tokens = {1}
    NumPages = 6
    max_new_tokens = 2
    RetractDecodeSteps = 2
    MaxInFlight = 1
SYMMETRY Symmetry
INVARIANTS EveryPageOnce RowReadsTree SessionIndexAgrees ClosedStaysClosed
PROPERTIES CloseSparesOthers
