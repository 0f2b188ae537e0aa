SPECIFICATION Spec
CONSTANTS
    finder = finder
    guide = guide
    win = win
    a = a
    None = none
    Modules = {guide}
    Keys = {win, a}
    WinKeys = {win}
    Modifiers <- WinOnly
    Hotkeys <- TwoHotkeys
    Configs <- HotkeyConfigs
    Forced <- NoPolicy
    MaxChanges = 2
    MaxQueue = 2
CHECK_DEADLOCK FALSE
INVARIANTS DisabledIsNotTracked
