SPECIFICATION FairSpec
CONSTANTS
    None = none
    Launches = {l1, l2}
    Timers = {t1}
    MaxClicks = 3
    CreateMayFail = TRUE
    TokenMayFail = TRUE
    EndMayHang = TRUE
CHECK_DEADLOCK FALSE
INVARIANTS TypeOK IpcValid NoIpcLeft GlobalsAreHonest
PROPERTY LaunchEnds
