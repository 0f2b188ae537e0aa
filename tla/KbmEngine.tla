----------------------------- MODULE KbmEngine -----------------------------
(***************************************************************************)
(* The engine of the Keyboard Manager: the low level keyboard hook that    *)
(* turns the keys of the user into those of the remappings.                *)
(*                                                                         *)
(* SendInput calls the hook again, from within the hook, for every event   *)
(* it is given, before the event that is being handled goes on.  Since a   *)
(* handler that sends events suppresses its own and sets its state before  *)
(* it sends, the events that are sent stand at the head of "queue", and    *)
(* every action handles one event.  The user acts when it is empty.        *)
(*                                                                         *)
(* A key is a pair: a letter, or a modifier with the side "L", "R" or "B", *)
(* the key code that stands for both sides.  Dummy keys, key events with   *)
(* the suppress flag and the characters of a text leave no key up or down, *)
(* and are left out.                                                       *)
(***************************************************************************)
EXTENDS Naturals, Sequences, FiniteSets

CONSTANTS Letters,         \* keys that are no modifiers
          Keyboard,        \* the keys the user has
          MaxHeld,         \* of which so many are held at a time
          MaxDisturbed,    \* or so many once "disturbed"
          Os,              \* the table of shortcuts for all applications
          Apps,            \* applications with a table of their own
          NoActivatedApp,  \* none of them
          SingleKey,       \* targets of single keys
          Shortcuts        \* the sorted shortcuts of each table: [from, to]

Kinds == {"Win", "Ctrl", "Alt", "Shift"}
Sides == {"L", "R", "B"}
Keys  == (Kinds \X Sides) \cup ({"Letter"} \X Letters)
NoKey == <<"None", "None">>

\* as the editor lets them be: IsValidShortcut asks for a modifier and an action
\* key, SetKey takes no modifier for one
Shortcut ==
    [mods: UNION {[ks -> Sides] : ks \in (SUBSET Kinds) \ {{}}}, key: {"Letter"} \X Letters]
Target ==
    [type: {"key"}, key: Keys] \cup [type: {"disabled", "text"}]
      \cup [type: {"shortcut"}, to: Shortcut]

Tables == Apps \cup {Os}
Remaps == UNION {{t} \X DOMAIN Shortcuts[t] : t \in Tables}

Size(s) == Cardinality(DOMAIN s.mods) + 1

ASSUME KbmAssumption ==
    /\ Keyboard \subseteq Keys /\ {MaxHeld, MaxDisturbed} \subseteq Nat
    /\ Os \notin Apps /\ NoActivatedApp \notin Apps \cup {Os}
    /\ DOMAIN SingleKey \subseteq Keys
    /\ \A k \in DOMAIN SingleKey : SingleKey[k] \in Target
    /\ Shortcuts \in [Tables -> Seq([from: Shortcut, to: Target])]
    /\ \A t \in Tables : \A i, j \in DOMAIN Shortcuts[t] :
         /\ Shortcuts[t][i].from = Shortcuts[t][j].from => i = j
         /\ i < j => Size(Shortcuts[t][i].from) >= Size(Shortcuts[t][j].from)

VARIABLES
    held,         \* keys the user holds
    last,         \* the key that repeats
    down,         \* keys that are down for the applications
    queue,        \* key events on their way, the one in the hook first
    foreground,   \* the application in front, if it has a table
    loadingSettings, editorIsRunning, crashed,
    isShortcutInvoked, winKeyInvoked, isOriginalActionKeyPressed,
    activatedApp,
    disturbed     \* the remappings in force changed while a key was held

user   == <<held, last, foreground>>
engine == <<loadingSettings, editorIsRunning, crashed>>
remap  == <<isShortcutInvoked, winKeyInvoked, isOriginalActionKeyPressed>>
vars   == <<user, engine, remap, down, queue, activatedApp, disturbed>>

Event == [key: Keys, dir: {"down", "up"}, flag: {"none", "single", "shortcut"}]

TypeOK ==
    /\ held \subseteq Keyboard /\ last \in held \cup {NoKey}
    /\ down \subseteq Keys /\ queue \in Seq(Event)
    /\ foreground \in Apps \cup {NoActivatedApp}
    /\ loadingSettings \in BOOLEAN /\ editorIsRunning \in BOOLEAN
    /\ crashed \in BOOLEAN /\ disturbed \in BOOLEAN
    /\ isShortcutInvoked \in [Remaps -> BOOLEAN]
    /\ winKeyInvoked \in [Remaps -> {"Disabled", "L", "R"}]
    /\ isOriginalActionKeyPressed \in [Remaps -> BOOLEAN]
    /\ activatedApp \in Apps \cup {NoActivatedApp}

Init ==
    /\ held = {} /\ last = NoKey /\ down = {} /\ queue = <<>>
    /\ foreground = NoActivatedApp
    /\ loadingSettings = FALSE /\ editorIsRunning = FALSE /\ crashed = FALSE
    /\ isShortcutInvoked = [r \in Remaps |-> FALSE]
    /\ winKeyInvoked = [r \in Remaps |-> "Disabled"]
    /\ isOriginalActionKeyPressed = [r \in Remaps |-> FALSE]
    /\ activatedApp = NoActivatedApp
    /\ disturbed = FALSE
-----------------------------------------------------------------------------
(* Shortcuts and the keys they consist of. *)

From(r)   == Shortcuts[r[1]][r[2]].from
To(r)     == Shortcuts[r[1]][r[2]].to

\* GetWinKey, GetCtrlKey, GetAltKey, GetShiftKey
ModifierKey(s, kind, win) ==
    IF kind \notin DOMAIN s.mods THEN NoKey
    ELSE IF kind = "Win" /\ s.mods[kind] = "B"
         THEN <<kind, IF win = "R" THEN "R" ELSE "L">>
         ELSE <<kind, s.mods[kind]>>

\* CheckWinKey, CheckCtrlKey, CheckAltKey, CheckShiftKey
Checks(s, kind, key) ==
    /\ kind \in DOMAIN s.mods /\ key[1] = kind
    /\ \/ key[2] = s.mods[kind] /\ key # <<"Win", "B">>
       \/ s.mods[kind] = "B" /\ key # <<"Win", "B">>

HasModifier(s, key) == \E kind \in Kinds : Checks(s, kind, key)

CheckModifiersKeyboardState(s) ==
    \A kind \in DOMAIN s.mods :
        IF kind = "Win" /\ s.mods[kind] = "B"
        THEN {<<"Win", "L">>, <<"Win", "R">>} \cap down # {}
        ELSE <<kind, s.mods[kind]>> \in down

IsKeyboardStateClearExcept(s) ==
    \A key \in down :
        IF key[1] \in Kinds
        THEN key[1] \in DOMAIN s.mods
             /\ (key[2] = "B" \/ s.mods[key[1]] \in {"B", key[2]})
        ELSE key = s.key

\* Shortcut(std::vector<int32_t>({ key }))
ShortcutOf(key) ==
    IF key[1] \in Kinds
    THEN [mods |-> [kind \in {key[1]} |-> key[2]], key |-> NoKey]
    ELSE [mods |-> [kind \in {} |-> "L"], key |-> key]

FilterArtificialKeys(key) == IF key = <<"Win", "B">> THEN <<"Win", "L">> ELSE key

KeyEvent(key, dir, flag) == [key |-> key, dir |-> dir, flag |-> flag]

\* Nothing is common with "nothing", and NoKey is released by nobody.
Empty == [mods |-> [kind \in {} |-> "L"], key |-> NoKey]

SendsDown(s, kind, win, other, released) ==
    /\ ModifierKey(s, kind, win) # NoKey
    /\ other = Empty \/ ModifierKey(s, kind, win) # ModifierKey(other, kind, win)
    /\ ~Checks(s, kind, released)
SendsUp(s, kind, win, other, released) ==
    /\ ModifierKey(s, kind, win) # NoKey
    /\ \/ other = Empty
       \/ ModifierKey(s, kind, win) # ModifierKey(other, kind, win)
       \/ Checks(s, kind, released)

\* SetModifierKeyEvents with isKeyDown and without
ModifiersDown(s, win, flag, other, released) ==
    LET One(kind) == IF SendsDown(s, kind, win, other, released)
                     THEN <<KeyEvent(ModifierKey(s, kind, win), "down", flag)>>
                     ELSE <<>>
    IN One("Win") \o One("Ctrl") \o One("Alt") \o One("Shift")
ModifiersUp(s, win, flag, other, released) ==
    LET One(kind) == IF SendsUp(s, kind, win, other, released)
                     THEN <<KeyEvent(ModifierKey(s, kind, win), "up", flag)>>
                     ELSE <<>>
    IN One("Shift") \o One("Alt") \o One("Ctrl") \o One("Win")

\* what the system makes of an event that no hook suppresses
OtherCodes(key, dir) ==
    IF key[1] \notin Kinds \ {"Win"} THEN {}
    ELSE IF key[2] # "B" THEN {<<key[1], "B">>}
    ELSE IF dir = "up" THEN {key[1]} \X {"L", "R"} ELSE {}
Applied(e) ==
    IF e.dir = "down" THEN down \cup {e.key} \cup OtherCodes(e.key, "down")
                      ELSE down \ ({e.key} \cup OtherCodes(e.key, "up"))
-----------------------------------------------------------------------------
(* Which handler takes an event: single keys, the table of the application *)
(* in front or of the one whose shortcut is invoked, texts of single keys, *)
(* the table for all applications.  In a table, the first remapping that   *)
(* fits; while one is invoked, only that one.                              *)

Invoked(t) == {r \in Remaps : r[1] = t /\ isShortcutInvoked[r]}

IsSingleKey(e) ==
    /\ e.flag = "none" /\ e.key \in DOMAIN SingleKey
    /\ SingleKey[e.key].type # "text"

\* WM_KEYDOWN, which is another message while Alt is down
IsSingleText(e) ==
    /\ e.flag = "none" /\ e.key \in DOMAIN SingleKey
    /\ SingleKey[e.key].type = "text"
    /\ e.dir = "down" /\ <<"Alt", "B">> \notin down

\* mutant: looks at the remapping alone
IsInvoked_Alone(r, e) ==
    /\ ~isShortcutInvoked[r]
    /\ CheckModifiersKeyboardState(From(r))
    /\ e.dir = "down" /\ e.key = From(r).key
    /\ To(r).type \in {"key", "text"} \/ IsKeyboardStateClearExcept(From(r))

IsInvoked(r, e) ==
    /\ Invoked(r[1]) = {}
    /\ CheckModifiersKeyboardState(From(r))
    /\ e.dir = "down" /\ e.key = From(r).key
    /\ To(r).type \in {"key", "text"} \/ IsKeyboardStateClearExcept(From(r))

IsModifierUp(r, e) ==
    isShortcutInvoked[r] /\ e.dir = "up" /\ HasModifier(From(r), e.key)

\* The other cases need the modifiers of the new shortcut.
TargetHeld(r) ==
    /\ isShortcutInvoked[r]
    /\ To(r).type = "shortcut" => CheckModifiersKeyboardState(To(r).to)

IsRepeated(r, e) == TargetHeld(r) /\ e.dir = "down" /\ e.key = From(r).key

IsActionUp(r, e) ==
    TargetHeld(r) /\ e.dir = "up" /\ e.key = From(r).key /\ To(r).type # "text"

IsModifierDown(r, e) ==
    TargetHeld(r) /\ e.dir = "down" /\ HasModifier(From(r), e.key)

IsOther(r, e) ==
    /\ TargetHeld(r) /\ e.dir = "down"
    /\ e.key # From(r).key /\ ~HasModifier(From(r), e.key)
    /\ To(r).type = "key" => FilterArtificialKeys(To(r).key) \notin down

Takes(r, e) ==
    \/ IsInvoked(r, e) \/ IsModifierUp(r, e) \/ IsRepeated(r, e)
    \/ IsActionUp(r, e) \/ IsModifierDown(r, e) \/ IsOther(r, e)

\* the table of the application that counts
AppTable == IF activatedApp = NoActivatedApp THEN foreground ELSE activatedApp

TakenBy(t, e) == \E r \in Remaps : r[1] = t /\ Takes(r, e)

Turn(r, e) ==
    /\ ~loadingSettings /\ ~editorIsRunning /\ ~crashed
    /\ ~IsSingleKey(e) /\ e.flag # "shortcut"
    /\ \/ r[1] \in Apps /\ r[1] = AppTable
       \/ r[1] = Os /\ ~TakenBy(AppTable, e) /\ ~IsSingleText(e)
    /\ \A s \in Remaps : s[1] = r[1] /\ s[2] < r[2] => ~Takes(s, e)

Untouched(e) ==
    \/ loadingSettings \/ editorIsRunning \/ crashed
    \/ /\ ~IsSingleKey(e) /\ ~IsSingleText(e)
       /\ e.flag = "shortcut" \/ ~(TakenBy(AppTable, e) \/ TakenBy(Os, e))
-----------------------------------------------------------------------------
(* Steps of the engine, each with the event at the head of the queue. *)

\* The event is suppressed and others are sent.
Send(events) ==
    /\ queue' = events \o Tail(queue)
    /\ UNCHANGED <<user, engine, down, disturbed>>

Reset(r) ==
    /\ isShortcutInvoked' = [isShortcutInvoked EXCEPT ![r] = FALSE]
    /\ winKeyInvoked' = [winKeyInvoked EXCEPT ![r] = "Disabled"]
    /\ isOriginalActionKeyPressed' = [isOriginalActionKeyPressed EXCEPT ![r] = FALSE]

\* if (activatedApp) SetActivatedApp(...): a table of an application only
SetActivatedApp(r, app) ==
    activatedApp' = IF r[1] = Os THEN activatedApp ELSE app

\* mutant: left to case 1
ForgetActivatedApp_Never == activatedApp' = activatedApp

\* if (activatedApp != NoActivatedApp), which an empty optional is, too
ForgetActivatedApp == activatedApp' = NoActivatedApp

\* mutant: "both" when none is down
WinKey_Both(r) ==
    IF <<"Win", "R">> \in down THEN "R"
    ELSE IF <<"Win", "L">> \in down THEN "L" ELSE "B"

\* which Windows key is down when a shortcut is invoked
WinKey(r) ==
    IF <<"Win", "R">> \in down THEN "R"
    ELSE IF <<"Win", "L">> \in down THEN "L" ELSE winKeyInvoked[r]

Down(key) == <<KeyEvent(key, "down", "shortcut")>>
Up(key)   == <<KeyEvent(key, "up", "shortcut")>>
UpIfDown(key) == IF key \in down THEN Up(key) ELSE <<>>

Pass(e) ==
    /\ Untouched(e)
    /\ down' = Applied(e)
    /\ queue' = Tail(queue)
    /\ UNCHANGED <<user, engine, remap, activatedApp, disturbed>>

SingleKeyEvents(to, dir) ==
    CASE to.type = "disabled" -> <<>>
      [] to.type = "key" -> <<KeyEvent(FilterArtificialKeys(to.key), dir, "single")>>
      [] to.type = "shortcut" /\ dir = "down" ->
           ModifiersDown(to.to, "Disabled", "single", Empty, NoKey)
             \o <<KeyEvent(to.to.key, "down", "single")>>
      [] to.type = "shortcut" /\ dir = "up" ->
           <<KeyEvent(to.to.key, "up", "single")>>
             \o ModifiersUp(to.to, "Disabled", "single", Empty, NoKey)

HandleSingleKeyRemapEvent(e) ==
    /\ ~loadingSettings /\ ~editorIsRunning /\ ~crashed
    /\ IsSingleKey(e)
    /\ Send(SingleKeyEvents(SingleKey[e.key], e.dir))
    /\ UNCHANGED <<remap, activatedApp>>

HandleSingleKeyToTextRemapEvent(e) ==
    /\ ~loadingSettings /\ ~editorIsRunning /\ ~crashed
    /\ IsSingleText(e) /\ ~TakenBy(AppTable, e)
    /\ Send(<<>>)
    /\ UNCHANGED <<remap, activatedApp>>

InvokeEvents(r) ==
    LET to == To(r) IN
    CASE to.type = "shortcut" ->
           ModifiersUp(From(r), WinKey(r), "shortcut", to.to, NoKey)
             \o ModifiersDown(to.to, WinKey(r), "shortcut", From(r), NoKey)
             \o Down(to.to.key)
      [] to.type = "key" ->
           ModifiersUp(From(r), WinKey(r), "shortcut", Empty, NoKey)
             \o Down(FilterArtificialKeys(to.key))
      [] to.type \in {"disabled", "text"} ->
           ModifiersUp(From(r), WinKey(r), "shortcut", Empty, NoKey)

Invoke(r, e) ==
    /\ IsInvoked(r, e)
    /\ isShortcutInvoked' = [isShortcutInvoked EXCEPT ![r] = TRUE]
    /\ winKeyInvoked' = [winKeyInvoked EXCEPT ![r] = WinKey(r)]
    /\ isOriginalActionKeyPressed' =
         [isOriginalActionKeyPressed EXCEPT ![r] = @ \/ To(r).type = "disabled"]
    /\ SetActivatedApp(r, r[1])
    /\ Send(InvokeEvents(r))

\* mutant: the key of the target is left to its own event
ModifierUpEvents_KeepsKey(r, key) ==
    LET to == To(r)
        Original(other) == ModifiersDown(From(r), winKeyInvoked[r], "shortcut", other, key)
    IN CASE to.type = "shortcut" ->
              ModifiersUp(to.to, winKeyInvoked[r], "shortcut", From(r), key)
                \o Original(to.to)
         [] to.type \in {"key", "disabled"} -> Original(Empty)
         [] to.type = "text" -> <<>>
\* mutant: a modifier of both shortcuts stays
ModifierUpEvents_KeepsCommon(r, key) ==
    LET to == To(r)
        Original(other) == ModifiersDown(From(r), winKeyInvoked[r], "shortcut", other, key)
    IN CASE to.type = "shortcut" ->
              UpIfDown(to.to.key)
                \o ModifiersUp(to.to, winKeyInvoked[r], "shortcut", From(r), NoKey)
                \o Original(to.to)
         [] to.type = "key" -> UpIfDown(FilterArtificialKeys(to.key)) \o Original(Empty)
         [] to.type = "disabled" -> Original(Empty)
         [] to.type = "text" -> <<>>

\* Nothing is sent for a text: the other modifiers stay up.
ModifierUpEvents(r, key) ==
    LET to == To(r)
        Original(other) == ModifiersDown(From(r), winKeyInvoked[r], "shortcut", other, key)
    IN CASE to.type = "shortcut" ->
              UpIfDown(to.to.key)
                \o ModifiersUp(to.to, winKeyInvoked[r], "shortcut", From(r), key)
                \o Original(to.to)
         [] to.type = "key" -> UpIfDown(FilterArtificialKeys(to.key)) \o Original(Empty)
         [] to.type = "disabled" -> Original(Empty)
         [] to.type = "text" -> <<>>

\* Case 1
ReleaseModifier(r, e) ==
    /\ IsModifierUp(r, e)
    /\ Reset(r)
    /\ SetActivatedApp(r, NoActivatedApp)
    /\ Send(ModifierUpEvents(r, e.key))

RepeatEvents(to) ==
    CASE to.type = "shortcut" -> Down(to.to.key)
      [] to.type = "key" -> Down(FilterArtificialKeys(to.key))
      [] to.type \in {"disabled", "text"} -> <<>>

\* Case 2
RepeatShortcut(r, e) ==
    /\ IsRepeated(r, e)
    /\ isOriginalActionKeyPressed' =
         [isOriginalActionKeyPressed EXCEPT ![r] = @ \/ To(r).type = "disabled"]
    /\ Send(RepeatEvents(To(r)))
    /\ UNCHANGED <<isShortcutInvoked, winKeyInvoked, activatedApp>>

\* Case 3, where the remapping stays invoked
ReleaseAction(r, e) ==
    /\ IsActionUp(r, e)
    /\ To(r).type = "key" =>
         IsKeyboardStateClearExcept(ShortcutOf(FilterArtificialKeys(To(r).key)))
    /\ isOriginalActionKeyPressed' =
         [isOriginalActionKeyPressed EXCEPT ![r] = @ /\ To(r).type # "disabled"]
    /\ Send(CASE To(r).type = "shortcut" -> Up(To(r).to.key)
              [] To(r).type = "key" -> Up(FilterArtificialKeys(To(r).key))
              [] To(r).type = "disabled" -> <<>>)
    /\ UNCHANGED <<isShortcutInvoked, winKeyInvoked, activatedApp>>

\* Case 3 with another key down: back to the keys that are held
ReleaseActionAmongOthers(r, e) ==
    /\ IsActionUp(r, e)
    /\ To(r).type = "key"
    /\ ~IsKeyboardStateClearExcept(ShortcutOf(FilterArtificialKeys(To(r).key)))
    /\ Reset(r)
    /\ ForgetActivatedApp
    /\ Send(Up(FilterArtificialKeys(To(r).key))
              \o ModifiersDown(From(r), winKeyInvoked[r], "shortcut", Empty, NoKey))

\* Case 4
SuppressModifier(r, e) ==
    /\ IsModifierDown(r, e) /\ To(r).type # "text"
    /\ Send(<<>>)
    /\ UNCHANGED <<remap, activatedApp>>

\* An exception leaves a noexcept function and ends the process: the hook and
\* the state of the engine are gone.
Crash(e) ==
    /\ crashed' = TRUE /\ disturbed' = TRUE
    /\ down' = Applied(e)
    /\ queue' = Tail(queue)
    /\ UNCHANGED <<user, loadingSettings, editorIsRunning, remap, activatedApp>>

\* Case 4 asks a text for its key.
SuppressModifierOfText(r, e) ==
    IsModifierDown(r, e) /\ To(r).type = "text" /\ Crash(e)

\* a shortcut of the same table with these modifiers and the key just pressed
NewRemappings(r, key) ==
    {s \in Remaps : s[1] = r[1] /\ From(s) = [From(r) EXCEPT !.key = key]}

\* mutant: without the flag, the action key invokes the shortcut again
RevertEvents_NoFlag(r, key) ==
    LET old == To(r).to
        win == winKeyInvoked[r]
    IN UpIfDown(old.key)
         \o ModifiersUp(old, win, "shortcut", From(r), NoKey)
         \o ModifiersDown(From(r), win, "shortcut", old, NoKey)
         \o (IF old.key \in down THEN <<KeyEvent(From(r).key, "down", "none")>> ELSE <<>>)
         \o <<KeyEvent(key, "down", "none")>>

RevertEvents(r, key) ==
    LET old == To(r).to
        win == winKeyInvoked[r]
    IN UpIfDown(old.key)
         \o ModifiersUp(old, win, "shortcut", From(r), NoKey)
         \o ModifiersDown(From(r), win, "shortcut", old, NoKey)
         \o (IF old.key \in down THEN Down(From(r).key) ELSE <<>>)
         \o <<KeyEvent(key, "down", "none")>>

\* Case 5 for a shortcut: the key is sent once more
LeaveShortcut(r, e) ==
    /\ IsOther(r, e)
    /\ To(r).type = "shortcut" /\ NewRemappings(r, e.key) = {}
    /\ Reset(r)
    /\ SetActivatedApp(r, NoActivatedApp)
    /\ Send(RevertEvents(r, e.key))

NewRemappingEvents(r, new) ==
    LET old == To(r).to
        win == winKeyInvoked[r]
    IN IF To(new).type = "shortcut"
       THEN ModifiersUp(old, win, "shortcut", To(new).to, NoKey)
              \o UpIfDown(old.key)
              \o ModifiersDown(To(new).to, win, "shortcut", old, NoKey)
              \o Down(To(new).to.key)
       ELSE ModifiersUp(old, win, "shortcut", Empty, NoKey)
              \o UpIfDown(old.key)
              \o (IF To(new).type = "disabled" \/ To(new).key = <<"Win", "B">>
                  THEN <<>> ELSE Down(To(new).key))

\* Case 5 with a new remapping: one to a key does not become invoked, and one
\* of an application is not remembered
ChangeShortcut(r, e) ==
    /\ IsOther(r, e) /\ To(r).type = "shortcut"
    /\ \E new \in NewRemappings(r, e.key) :
         /\ To(new).type # "text"
         /\ isShortcutInvoked' =
              [isShortcutInvoked EXCEPT ![new] = @ \/ To(new).type = "shortcut",
                                        ![r] = FALSE]
         /\ winKeyInvoked' =
              [winKeyInvoked EXCEPT ![new] = WinKey(new), ![r] = "Disabled"]
         /\ isOriginalActionKeyPressed' =
              [isOriginalActionKeyPressed EXCEPT ![r] = FALSE]
         /\ Send(NewRemappingEvents(r, new))
    /\ SetActivatedApp(r, NoActivatedApp)

ChangeShortcutToText(r, e) ==
    /\ IsOther(r, e) /\ To(r).type = "shortcut"
    /\ \E new \in NewRemappings(r, e.key) : To(new).type = "text"
    /\ Crash(e)

\* Case 5 for a key that is not down, for "disabled" and for a text
LeaveKey(r, e) ==
    /\ IsOther(r, e) /\ To(r).type # "shortcut"
    /\ Reset(r)
    /\ ForgetActivatedApp
    /\ Send(ModifiersDown(From(r), winKeyInvoked[r], "shortcut", Empty, NoKey)
              \o (IF To(r).type = "disabled" /\ isOriginalActionKeyPressed[r]
                  THEN Down(From(r).key) ELSE <<>>)
              \o <<KeyEvent(e.key, "down", "none")>>)

HandleShortcutRemapEvent(r, e) ==
    /\ Turn(r, e)
    /\ \/ Invoke(r, e) \/ ReleaseModifier(r, e) \/ RepeatShortcut(r, e)
       \/ ReleaseAction(r, e) \/ ReleaseActionAmongOthers(r, e)
       \/ SuppressModifier(r, e) \/ SuppressModifierOfText(r, e)
       \/ LeaveShortcut(r, e) \/ ChangeShortcut(r, e) \/ ChangeShortcutToText(r, e)
       \/ LeaveKey(r, e)

HandleKeyboardHookEvent ==
    /\ queue # <<>>
    /\ \/ Pass(Head(queue))
       \/ HandleSingleKeyRemapEvent(Head(queue))
       \/ HandleSingleKeyToTextRemapEvent(Head(queue))
       \/ \E r \in Remaps : HandleShortcutRemapEvent(r, Head(queue))
-----------------------------------------------------------------------------
(* The user, the settings and the editor. *)

ByHand(key, dir) ==
    /\ queue = <<>>
    /\ queue' = <<KeyEvent(key, dir, "none")>>
    /\ UNCHANGED <<foreground, engine, remap, down, activatedApp, disturbed>>

Press(key) ==
    /\ key \notin held
    /\ Cardinality(held) < (IF disturbed THEN MaxDisturbed ELSE MaxHeld)
    /\ held' = held \cup {key} /\ last' = key
    /\ ByHand(key, "down")

\* The key that was pressed last repeats.
Repeat ==
    /\ last \in held
    /\ ByHand(last, "down")
    /\ UNCHANGED <<held, last>>

Release(key) ==
    /\ key \in held
    /\ held' = held \ {key}
    /\ last' = IF key = last THEN NoKey ELSE last
    /\ ByHand(key, "up")

\* While a shortcut of an application is invoked, its table stays in force.
SwitchApp(app) ==
    /\ queue = <<>> /\ app # foreground
    /\ foreground' = app
    /\ disturbed' = (disturbed \/ (held # {} /\ activatedApp = NoActivatedApp))
    /\ UNCHANGED <<held, last, engine, remap, down, queue, activatedApp>>

\* The engine looks away, or looks again: a thread of its own or the editor sees to
\* that, though events may be on their way.
Blinks ==
    /\ disturbed' = (disturbed \/ held # {} \/ queue # <<>>)
    /\ UNCHANGED <<user, crashed, down, queue, activatedApp>>

\* changeSettingsCallback: the tables come back without the state of what was
\* invoked, and the activated application stays.
StartLoading ==
    /\ ~loadingSettings /\ ~crashed
    /\ loadingSettings' = TRUE
    /\ Blinks
    /\ UNCHANGED <<editorIsRunning, remap>>

FinishLoading ==
    /\ loadingSettings /\ ~crashed
    /\ loadingSettings' = FALSE
    /\ isShortcutInvoked' = [r \in Remaps |-> FALSE]
    /\ winKeyInvoked' = [r \in Remaps |-> "Disabled"]
    /\ isOriginalActionKeyPressed' = [r \in Remaps |-> FALSE]
    /\ Blinks
    /\ UNCHANGED editorIsRunning

\* The files cannot be read, twice: the tables stay as they were.
FailLoading ==
    /\ loadingSettings /\ ~crashed
    /\ loadingSettings' = FALSE
    /\ Blinks
    /\ UNCHANGED <<editorIsRunning, remap>>

\* The editor signals its event while its window is open.
ToggleEditor ==
    /\ editorIsRunning' = ~editorIsRunning
    /\ Blinks
    /\ UNCHANGED <<loadingSettings, remap>>

UserStep ==
    \/ \E key \in Keyboard : Press(key) \/ Release(key)
    \/ Repeat
    \/ \E app \in Apps \cup {NoActivatedApp} : SwitchApp(app)

Next ==
    \/ HandleKeyboardHookEvent \/ UserStep
    \/ StartLoading \/ FinishLoading \/ FailLoading \/ ToggleEditor

Spec == Init /\ [][Next]_vars
FairSpec == Spec /\ WF_vars(HandleKeyboardHookEvent)
-----------------------------------------------------------------------------
(* Properties. *)

AllInvoked == {r \in Remaps : isShortcutInvoked[r]}

\* between two events, while the same remappings have always been in force
Idle == queue = <<>> /\ ~disturbed

TargetKinds(to) ==
    CASE to.type = "key"      -> {FilterArtificialKeys(to.key)[1]} \cap Kinds
      [] to.type = "shortcut" -> DOMAIN to.to.mods
      [] OTHER                -> {}

\* the kinds of modifier among some keys
KindsOf(keys) == {key[1] : key \in keys} \cap Kinds

\* What some properties need of the tables: with others they can fail.

\* Case 5 leaves a shortcut for one to a key without marking it as invoked.
KeysApart ==
    \A r, s \in Remaps :
        r[1] = s[1] /\ From(r).mods = From(s).mods /\ To(r).type = "shortcut"
          => To(s).type # "key"

\* Two tables can have a shortcut invoked each when the first presses a modifier
\* of the second; then the second presses again what nobody holds.
TablesApart ==
    \A r, s \in Remaps : r[1] # s[1] => TargetKinds(To(r)) \cap DOMAIN From(s).mods = {}

\* The application is forgotten in case 5 from one of its shortcuts to another,
\* and when a shortcut for all applications that is not to a shortcut ends while
\* its own is invoked: one to nothing or to a text leaves no room for that, if
\* it cannot be invoked together with one to a key.
AppsApart ==
    \/ \A r \in Remaps : r[1] \in Apps =>
         /\ To(r).type \in {"disabled", "text"}
         /\ \A s \in Remaps : s[1] = Os /\ To(s).type = "key" =>
              DOMAIN From(r).mods \cap DOMAIN From(s).mods # {}
    \/ /\ \A r \in Remaps : r[1] = Os => To(r).type = "shortcut"
       /\ \A r, s \in Remaps :
            r # s /\ r[1] \in Apps /\ r[1] = s[1] /\ From(r).mods = From(s).mods
              => {To(r).type, To(s).type} # {"shortcut"}

\* the keys that a key of the user is for the shortcuts and the applications
Gives(key) ==
    IF key \notin DOMAIN SingleKey \/ SingleKey[key].type = "text" THEN {key}
    ELSE IF SingleKey[key].type = "key" THEN {FilterArtificialKeys(SingleKey[key].key)}
    ELSE {}

\* A single key sends one key or none, and that one is not remapped again.
SinglesApart ==
    \A key \in DOMAIN SingleKey :
        /\ SingleKey[key].type # "shortcut"
        /\ SingleKey[key].type = "key" => Gives(key) \cap DOMAIN SingleKey = {}

\* A shortcut that takes both sides of a modifier ends with the release of one,
\* and lifts or presses only one again: the other is then up although it is
\* held, or down although it is not.  With one key for each modifier ...
HandsApart ==
    \A x, y \in Keyboard : x # y => KindsOf(Gives(x)) \cap KindsOf(Gives(y)) = {}

\* ... on one side, which for the Windows key is that of FilterArtificialKeys,
\* there is no other.
SidesApart(side) ==
    /\ side["Win"] = "L"
    /\ \A x \in Keyboard : \A key \in Gives(x) \cup {x} :
         key[1] \in Kinds => key[2] = side[key[1]]
    /\ \A r \in Remaps :
         /\ To(r).type = "shortcut" =>
              \A kind \in DOMAIN To(r).to.mods : To(r).to.mods[kind] \in {side[kind], "B"}
         /\ To(r).type = "key" /\ To(r).key[1] \in Kinds =>
              FilterArtificialKeys(To(r).key)[2] \in {side[To(r).key[1]], "B"}

\* what they need together, whatever the tables and the keyboard are otherwise
Apart ==
    /\ KeysApart /\ TablesApart /\ AppsApart /\ SinglesApart /\ HandsApart
    /\ \E side \in [Kinds -> {"L", "R"}] : SidesApart(side)

\* Whatever shortcuts follow one another, overlap or break off: the modifiers
\* that are down are held, or belong to the target of a shortcut that is
\* invoked or of a single key that is held.  It cannot be said of letters: that
\* of a shortcut which began with its second press stays down (line 369).  For
\* tables and keyboards that are not Apart it can be false.
NoModifierStuck ==
    KeysApart /\ TablesApart /\ Idle =>
        KindsOf(down) \subseteq
          KindsOf(held)
            \cup (UNION {TargetKinds(To(r)) : r \in AllInvoked})
            \cup (UNION {TargetKinds(SingleKey[key]) : key \in held \cap DOMAIN SingleKey})

\* When no key is held no shortcut is invoked: case 1 sees its modifiers go.  And
\* only the action key of a shortcut can still be down, that of a target never.
\* It needs Apart, too.
AllReleased ==
    KeysApart /\ TablesApart /\ AppsApart /\ Idle /\ held = {} =>
        /\ AllInvoked = {}
        /\ \A key \in down : \E r \in Remaps : key = From(r).key

\* CheckShortcutRemapInvoked: in a table, one shortcut at a time, also while the
\* next replaces it and across reloads.
OneInvoked == \A t \in Tables : Cardinality(Invoked(t)) <= 1

\* While a shortcut of an application is invoked, that application is the one
\* whose table counts, whatever comes to the front; and no other way round.
AppRemembered ==
    TablesApart /\ AppsApart /\ ~disturbed =>
        \A a \in Apps : Invoked(a) # {} <=> activatedApp = a

\* Every event gets through the hook: what a handler sends does not come back
\* to it for ever.
EventsEnd == (queue # <<>>) ~> (queue = <<>>)
=============================================================================
