SPECIFICATION Spec
CONSTANTS
    empty = empty
    t1 = t1
    t2 = t2
    bad = bad
    time = time
    None = none
    NItems = 3
    Depth <- DepthOf
    Folders = {1}
    CanRename = {1, 2, 3}
    EmptyName = emptyName
    Names <- Variant
    Names0 <- Start
    Terms <- TwoTerms
    Term0 = empty
    Invalid = {}
    TimeTerms = {}
    Replace <- ReplaceTwo
    Refused <- RefusedOne
    MadeUp <- Numbered
    FlagSets <- Flags
    MaxChanges = 2
    MaxRenames = 2
    MaxPumps = 1
    CreateMayFail = TRUE
CHECK_DEADLOCK FALSE
INVARIANTS TypeOK CompletedIsCurrent PathsOnDisk
