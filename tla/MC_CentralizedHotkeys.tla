------------------------ MODULE MC_CentralizedHotkeys ------------------------
EXTENDS CentralizedHotkeys, TLC

CONSTANTS finder, guide, win, a

WinOnly == [k \in Keys |-> IF k \in WinKeys THEN {"win"} ELSE {}]

Ex(h)  == [hotkeys |-> {}, ex |-> h, win |-> FALSE]
WinA   == [mods |-> {"win"}, key |-> a]
JustA  == [mods |-> {}, key |-> a]
TwoHotkeys == {WinA, JustA}

\* The hotkeys of two modules, which may be the same
HotkeyConfigs ==
    [m \in Modules |-> IF m = finder THEN {Ex(WinA), Ex(JustA), Ex(None)}
                       ELSE {Ex(WinA), [Ex(None) EXCEPT !.hotkeys = {WinA}, !.win = TRUE]}]

NoPolicy == [m \in Modules |-> "not_configured"]
Policy   == [m \in Modules |-> IF m = guide THEN "enabled" ELSE "not_configured"]
=============================================================================
