--------------------------- MODULE MC_KbmEngine ---------------------------
\* Small instances of KbmEngine for TLC.
EXTENDS KbmEngine, TLC

CONSTANT app

Letter(l)    == <<"Letter", l>>
LCtrl        == <<"Ctrl", "L">>
LAlt         == <<"Alt", "L">>
LWin         == <<"Win", "L">>
Chord(m, l)  == [mods |-> m, key |-> Letter(l)]
Key(key)     == [type |-> "key", key |-> key]
ToChord(m, l) == [type |-> "shortcut", to |-> Chord(m, l)]
Disabled     == [type |-> "disabled"]
Text         == [type |-> "text"]
Remap(m, l, to) == [from |-> Chord(m, l), to |-> to]
Ctrl == "Ctrl" :> "B"
Alt  == "Alt" :> "L"
Win  == "Win" :> "B"

\* shortcuts with the same modifier to all kinds of targets; the application
\* has one with another modifier
Table ==
    Os  :> << Remap(Ctrl, "a", ToChord(Alt, "v")),
              Remap(Ctrl, "b", ToChord(Ctrl, "c")),
              Remap(Ctrl, "x", Text),
              Remap(Win, "a", Key(Letter("c"))) >>
 @@ app :> << Remap(Win, "x", Disabled) >>
Singles == Letter("d") :> Key(LAlt) @@ Letter("f") :> Text
FewLetters == {"a", "b", "c", "d", "f", "v", "x"}
FewKeys == {LCtrl, LWin} \cup {Letter(l) : l \in {"a", "b", "d", "f", "x"}}

\* what the properties need of the tables, and the theorems about them
ASSUME TablesAreApart == Apart
=============================================================================
