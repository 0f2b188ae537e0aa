SPECIFICATION FairSpec
CONSTANTS
    empty = empty
    t1 = t1
    t2 = t2
    bad = bad
    time = time
    None = none
    NItems = 1
    Depth <- OneDepth
    Folders = {}
    CanRename = {1}
    EmptyName = emptyName
    Names <- Variant
    Names0 <- OneStart
    Terms <- AllTerms
    Term0 = empty
    Invalid = {bad}
    TimeTerms = {time}
    Replace <- ReplaceAll
    Refused = {}
    MadeUp <- NumberedOne
    FlagSets <- FewFlags
    MaxChanges = 2
    MaxRenames = 2
    MaxPumps = 2
    CreateMayFail = FALSE
CHECK_DEADLOCK FALSE
INVARIANTS OneWorker NoSelfWait
 
