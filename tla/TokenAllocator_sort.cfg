SPECIFICATION FairSpec
CONSTANTS
    InitSize = 3
    MaxSize = 4
    need_sort = TRUE
    Biases <- MCBiases
    MaxChunk = 2
INVARIANTS EachSlotOnce StagedOnlyInWindow FailsOnlyWhenShort
PROPERTIES SteerSurvivesRefill ImplementsSlotPool StagedFreesLand
