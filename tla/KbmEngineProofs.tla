-------------------------- MODULE KbmEngineProofs --------------------------
(***************************************************************************)
(* Proofs about KbmEngine for any keyboard and any tables of remappings:   *)
(* what the handlers send are key events, in each table at most one        *)
(* shortcut is invoked, and the application whose table counts is          *)
(* forgotten in three cases only.                                          *)
(*                                                                         *)
(* For those that are Apart: every key that is down has a reason, so that  *)
(* no modifier is left down, nothing is when the user holds no key, and    *)
(* the application is remembered while one of its shortcuts is invoked.    *)
(* The keys that will be down when the events of shortcuts on their way    *)
(* have passed are the ones that count, as every handler sets its state    *)
(* before it sends.                                                        *)
(***************************************************************************)
EXTENDS KbmEngine, FiniteSetTheorems, SequenceTheorems, TLAPS

\* OneInvoked without cardinalities
AtMostOne ==
    \A r, s \in Remaps :
        isShortcutInvoked[r] /\ isShortcutInvoked[s] /\ r[1] = s[1] => r = s

Flags == {"none", "single", "shortcut"}
Wins  == {"Disabled", "L", "R"}
-----------------------------------------------------------------------------
(* What the operators return. *)

LEMMA SeqElement ==
    ASSUME NEW S, NEW s \in Seq(S), NEW i \in DOMAIN s
    PROVE  s[i] \in S
  OBVIOUS

LEMMA RemapTypes ==
    ASSUME NEW r \in Remaps
    PROVE  From(r) \in Shortcut /\ To(r) \in Target
<1>1. PICK t \in Tables : r \in {t} \X DOMAIN Shortcuts[t]
  BY DEF Remaps
<1>2. r[1] = t /\ r[2] \in DOMAIN Shortcuts[t]
  BY <1>1
<1>3. Shortcuts[t] \in Seq([from: Shortcut, to: Target])
  BY KbmAssumption
<1> DEFINE R == [from: Shortcut, to: Target]
<1>4. Shortcuts[t][r[2]] \in R
  <2>1. Shortcuts[t] \in Seq(R)
    BY <1>3
  <2> HIDE DEF R
  <2> QED
    BY <1>2, <2>1, SeqElement
<1> QED
  BY <1>2, <1>4 DEF From, To

LEMMA TargetKindsOf ==
    ASSUME NEW to \in Target
    PROVE  \/ to.type = "key" /\ to.key \in Keys
           \/ to.type = "shortcut" /\ to.to \in Shortcut
           \/ to.type \in {"disabled", "text"}
  BY DEF Target

LEMMA ShortcutKey ==
    ASSUME NEW s \in Shortcut
    PROVE  s.key \in Keys
  BY DEF Shortcut, Keys

LEMMA KeysLemma ==
    /\ \A kind \in Kinds, side \in Sides : <<kind, side>> \in Keys
    /\ \A key \in Keys : FilterArtificialKeys(key) \in Keys
<1>1. \A kind \in Kinds, side \in Sides : <<kind, side>> \in Keys
  BY DEF Keys
<1>2. <<"Win", "L">> \in Keys
  BY <1>1 DEF Kinds, Sides
<1> QED
  BY <1>1, <1>2 DEF FilterArtificialKeys

LEMMA ModifierKeyType ==
    ASSUME NEW s \in Shortcut, NEW kind \in Kinds, NEW win,
           ModifierKey(s, kind, win) # NoKey
    PROVE  ModifierKey(s, kind, win) \in Keys
<1>1. PICK ks \in SUBSET Kinds : s.mods \in [ks -> Sides]
  BY DEF Shortcut
<1>2. kind \in DOMAIN s.mods
  BY DEF ModifierKey
<1>3. s.mods[kind] \in Sides
  BY <1>1, <1>2
<1>4. {"L", "R"} \subseteq Sides
  BY DEF Sides
<1> QED
  BY <1>2, <1>3, <1>4, KeysLemma DEF ModifierKey

LEMMA EventType ==
    ASSUME NEW key \in Keys, NEW dir \in {"down", "up"}, NEW flag \in Flags
    PROVE  KeyEvent(key, dir, flag) \in Event /\ <<KeyEvent(key, dir, flag)>> \in Seq(Event)
<1>1. KeyEvent(key, dir, flag) \in Event
  BY DEF KeyEvent, Event, Flags
<1> QED
  BY <1>1

LEMMA NothingType == <<>> \in Seq(Event)
  OBVIOUS

LEMMA ConcatType ==
    ASSUME NEW s \in Seq(Event), NEW t \in Seq(Event)
    PROVE  s \o t \in Seq(Event)
  OBVIOUS

LEMMA ModifiersType ==
    ASSUME NEW s \in Shortcut, NEW win, NEW flag \in Flags, NEW other, NEW released
    PROVE  /\ ModifiersDown(s, win, flag, other, released) \in Seq(Event)
           /\ ModifiersUp(s, win, flag, other, released) \in Seq(Event)
<1> DEFINE D(kind) == IF SendsDown(s, kind, win, other, released)
                      THEN <<KeyEvent(ModifierKey(s, kind, win), "down", flag)>>
                      ELSE <<>>
           U(kind) == IF SendsUp(s, kind, win, other, released)
                      THEN <<KeyEvent(ModifierKey(s, kind, win), "up", flag)>>
                      ELSE <<>>
<1>1. ASSUME NEW kind \in Kinds
      PROVE  D(kind) \in Seq(Event) /\ U(kind) \in Seq(Event)
  <2>1. ModifierKey(s, kind, win) # NoKey =>
          /\ <<KeyEvent(ModifierKey(s, kind, win), "down", flag)>> \in Seq(Event)
          /\ <<KeyEvent(ModifierKey(s, kind, win), "up", flag)>> \in Seq(Event)
    BY ModifierKeyType, EventType
  <2>2. CASE SendsDown(s, kind, win, other, released)
    BY <2>1, <2>2, NothingType DEF SendsDown, SendsUp
  <2>3. CASE ~SendsDown(s, kind, win, other, released)
    BY <2>1, <2>3, NothingType DEF SendsUp
  <2> QED
    BY <2>2, <2>3
<1>2. {"Win", "Ctrl", "Alt", "Shift"} = Kinds
  BY DEF Kinds
<1> HIDE DEF D, U
<1>3. D("Win") \o D("Ctrl") \o D("Alt") \o D("Shift") \in Seq(Event)
  BY <1>1, <1>2
<1>4. U("Shift") \o U("Alt") \o U("Ctrl") \o U("Win") \in Seq(Event)
  BY <1>1, <1>2
<1> QED
  BY <1>3, <1>4 DEF D, U, ModifiersDown, ModifiersUp

LEMMA DownUpType ==
    ASSUME NEW key \in Keys
    PROVE  /\ Down(key) \in Seq(Event) /\ Up(key) \in Seq(Event)
           /\ UpIfDown(key) \in Seq(Event)
<1>1. Down(key) \in Seq(Event) /\ Up(key) \in Seq(Event)
  BY EventType DEF Down, Up, Flags
<1> QED
  BY <1>1, NothingType DEF UpIfDown
-----------------------------------------------------------------------------
(* What the handlers send. *)

LEMMA FlagsLemma == {"single", "shortcut", "none"} = Flags
  BY DEF Flags

\* the target of a shortcut or a key has keys, and so have their events
LEMMA TargetKeys ==
    ASSUME NEW to \in Target
    PROVE  /\ to.type = "key" => to.key \in Keys /\ FilterArtificialKeys(to.key) \in Keys
           /\ to.type = "shortcut" => to.to \in Shortcut /\ to.to.key \in Keys
           /\ to.type \in {"key", "shortcut", "disabled", "text"}
<1>1. to.type = "key" => to.key \in Keys
  BY TargetKindsOf
<1>2. to.type = "shortcut" => to.to \in Shortcut
  BY TargetKindsOf
<1>3. \A s \in Shortcut : s.key \in Keys
  BY ShortcutKey
<1> QED
  BY <1>1, <1>2, <1>3, TargetKindsOf, KeysLemma

LEMMA SingleKeyEventsType ==
    ASSUME NEW to \in Target, to.type # "text", NEW dir \in {"down", "up"}
    PROVE  SingleKeyEvents(to, dir) \in Seq(Event)
<1>1. CASE to.type = "disabled"
  BY <1>1, NothingType DEF SingleKeyEvents
<1>2. CASE to.type = "key"
  <2>1. <<KeyEvent(FilterArtificialKeys(to.key), dir, "single")>> \in Seq(Event)
    BY <1>2, TargetKeys, EventType, FlagsLemma
  <2> QED
    BY <1>2, <2>1 DEF SingleKeyEvents
<1>3. CASE to.type = "shortcut"
  <2> DEFINE D == ModifiersDown(to.to, "Disabled", "single", Empty, NoKey)
             U == ModifiersUp(to.to, "Disabled", "single", Empty, NoKey)
             E(d) == <<KeyEvent(to.to.key, d, "single")>>
  <2>1. D \in Seq(Event) /\ U \in Seq(Event)
    BY <1>3, TargetKeys, ModifiersType, FlagsLemma
  <2>2. E("down") \in Seq(Event) /\ E("up") \in Seq(Event)
    BY <1>3, TargetKeys, EventType, FlagsLemma
  <2>3. /\ dir = "down" => SingleKeyEvents(to, dir) = D \o E("down")
        /\ dir = "up"   => SingleKeyEvents(to, dir) = E("up") \o U
    BY <1>3 DEF SingleKeyEvents
  <2> HIDE DEF D, U, E
  <2> QED
    BY <2>1, <2>2, <2>3, ConcatType
<1> QED
  BY <1>1, <1>2, <1>3, TargetKeys

LEMMA InvokeEventsType ==
    ASSUME NEW r \in Remaps
    PROVE  InvokeEvents(r) \in Seq(Event)
<1> DEFINE to == To(r)
           Off(other) == ModifiersUp(From(r), WinKey(r), "shortcut", other, NoKey)
           On == ModifiersDown(to.to, WinKey(r), "shortcut", From(r), NoKey)
<1>1. to \in Target /\ From(r) \in Shortcut
  BY RemapTypes
<1>2. \A other : Off(other) \in Seq(Event)
  BY <1>1, ModifiersType, FlagsLemma
<1>3. CASE to.type = "shortcut"
  <2>1. On \in Seq(Event) /\ Down(to.to.key) \in Seq(Event)
    BY <1>1, <1>3, TargetKeys, ModifiersType, FlagsLemma, DownUpType
  <2>2. InvokeEvents(r) = Off(to.to) \o On \o Down(to.to.key)
    BY <1>3 DEF InvokeEvents
  <2> HIDE DEF Off, On
  <2> QED
    BY <1>2, <2>1, <2>2, ConcatType
<1>4. CASE to.type = "key"
  <2>1. Down(FilterArtificialKeys(to.key)) \in Seq(Event)
    BY <1>1, <1>4, TargetKeys, DownUpType
  <2>2. InvokeEvents(r) = Off(Empty) \o Down(FilterArtificialKeys(to.key))
    BY <1>4 DEF InvokeEvents
  <2> HIDE DEF Off
  <2> QED
    BY <1>2, <2>1, <2>2, ConcatType
<1>5. CASE to.type \in {"disabled", "text"}
  <2>1. InvokeEvents(r) = Off(Empty)
    BY <1>5 DEF InvokeEvents
  <2> QED
    BY <1>2, <2>1
<1> QED
  BY <1>1, <1>3, <1>4, <1>5, TargetKeys

LEMMA ModifierUpEventsType ==
    ASSUME NEW r \in Remaps, NEW key
    PROVE  ModifierUpEvents(r, key) \in Seq(Event)
<1> DEFINE to == To(r)
           Original(other) == ModifiersDown(From(r), winKeyInvoked[r], "shortcut", other, key)
           Off == ModifiersUp(to.to, winKeyInvoked[r], "shortcut", From(r), key)
<1>1. to \in Target /\ From(r) \in Shortcut
  BY RemapTypes
<1>2. \A other : Original(other) \in Seq(Event)
  BY <1>1, ModifiersType, FlagsLemma
<1>3. CASE to.type = "shortcut"
  <2>1. Off \in Seq(Event) /\ UpIfDown(to.to.key) \in Seq(Event)
    BY <1>1, <1>3, TargetKeys, ModifiersType, FlagsLemma, DownUpType
  <2>2. ModifierUpEvents(r, key) = UpIfDown(to.to.key) \o Off \o Original(to.to)
    BY <1>3 DEF ModifierUpEvents
  <2> HIDE DEF Off, Original
  <2> QED
    BY <1>2, <2>1, <2>2, ConcatType
<1>4. CASE to.type = "key"
  <2>1. UpIfDown(FilterArtificialKeys(to.key)) \in Seq(Event)
    BY <1>1, <1>4, TargetKeys, DownUpType
  <2>2. ModifierUpEvents(r, key)
          = UpIfDown(FilterArtificialKeys(to.key)) \o Original(Empty)
    BY <1>4 DEF ModifierUpEvents
  <2> HIDE DEF Original
  <2> QED
    BY <1>2, <2>1, <2>2, ConcatType
<1>5. CASE to.type = "disabled"
  BY <1>2, <1>5 DEF ModifierUpEvents
<1>6. CASE to.type = "text"
  BY <1>6, NothingType DEF ModifierUpEvents
<1> QED
  BY <1>1, <1>3, <1>4, <1>5, <1>6, TargetKeys

LEMMA RepeatEventsType ==
    ASSUME NEW to \in Target
    PROVE  RepeatEvents(to) \in Seq(Event)
<1>1. CASE to.type = "shortcut"
  BY <1>1, TargetKeys, DownUpType DEF RepeatEvents
<1>2. CASE to.type = "key"
  BY <1>2, TargetKeys, DownUpType DEF RepeatEvents
<1>3. CASE to.type \in {"disabled", "text"}
  BY <1>3, NothingType DEF RepeatEvents
<1> QED
  BY <1>1, <1>2, <1>3, TargetKeys

LEMMA RevertEventsType ==
    ASSUME NEW r \in Remaps, To(r).type = "shortcut", NEW key \in Keys
    PROVE  RevertEvents(r, key) \in Seq(Event)
<1> DEFINE old == To(r).to
           win == winKeyInvoked[r]
           Off == ModifiersUp(old, win, "shortcut", From(r), NoKey)
           On  == ModifiersDown(From(r), win, "shortcut", old, NoKey)
           Action == IF old.key \in down THEN Down(From(r).key) ELSE <<>>
           Again == <<KeyEvent(key, "down", "none")>>
<1>1. old \in Shortcut /\ old.key \in Keys /\ From(r) \in Shortcut
  BY RemapTypes, TargetKeys
<1>2. From(r).key \in Keys
  BY <1>1, ShortcutKey
<1>3. UpIfDown(old.key) \in Seq(Event) /\ Action \in Seq(Event)
  BY <1>1, <1>2, DownUpType, NothingType
<1>4. Off \in Seq(Event) /\ On \in Seq(Event)
  BY <1>1, ModifiersType, FlagsLemma
<1>5. Again \in Seq(Event)
  BY EventType, FlagsLemma
<1>6. RevertEvents(r, key) = UpIfDown(old.key) \o Off \o On \o Action \o Again
  BY DEF RevertEvents
<1> HIDE DEF Off, On, Action, Again
<1> QED
  BY <1>3, <1>4, <1>5, <1>6, ConcatType

LEMMA NewRemappingEventsType ==
    ASSUME NEW r \in Remaps, To(r).type = "shortcut",
           NEW new \in Remaps, To(new).type # "text"
    PROVE  NewRemappingEvents(r, new) \in Seq(Event)
<1> DEFINE old == To(r).to
           win == winKeyInvoked[r]
           Off(other) == ModifiersUp(old, win, "shortcut", other, NoKey)
           On == ModifiersDown(To(new).to, win, "shortcut", old, NoKey)
           Key == IF To(new).type = "disabled" \/ To(new).key = <<"Win", "B">>
                  THEN <<>> ELSE Down(To(new).key)
<1>1. old \in Shortcut /\ old.key \in Keys /\ To(new) \in Target
  BY RemapTypes, TargetKeys
<1>2. \A other : Off(other) \in Seq(Event)
  BY <1>1, ModifiersType, FlagsLemma
<1>3. UpIfDown(old.key) \in Seq(Event)
  BY <1>1, DownUpType
<1>4. CASE To(new).type = "shortcut"
  <2>1. On \in Seq(Event) /\ Down(To(new).to.key) \in Seq(Event)
    BY <1>1, <1>4, TargetKeys, ModifiersType, FlagsLemma, DownUpType
  <2>2. NewRemappingEvents(r, new)
          = Off(To(new).to) \o UpIfDown(old.key) \o On \o Down(To(new).to.key)
    BY <1>4 DEF NewRemappingEvents
  <2> HIDE DEF Off, On
  <2> QED
    BY <1>2, <1>3, <2>1, <2>2, ConcatType
<1>5. CASE To(new).type # "shortcut"
  <2>1. To(new).type \in {"key", "disabled"}
    BY <1>1, <1>5, TargetKeys
  <2>2. Key \in Seq(Event)
    BY <1>1, <2>1, TargetKeys, DownUpType, NothingType
  <2>3. NewRemappingEvents(r, new) = Off(Empty) \o UpIfDown(old.key) \o Key
    BY <1>5 DEF NewRemappingEvents
  <2> HIDE DEF Off, Key
  <2> QED
    BY <1>2, <1>3, <2>2, <2>3, ConcatType
<1> QED
  BY <1>4, <1>5

\* what the system makes of an event are keys
LEMMA AppliedType ==
    ASSUME NEW e \in Event, down \subseteq Keys
    PROVE  Applied(e) \subseteq Keys
<1>1. e.key \in Keys
  BY DEF Event
<1>2. e.key[1] \in Kinds => \A side \in Sides : <<e.key[1], side>> \in Keys
  BY KeysLemma
<1>3. OtherCodes(e.key, "down") \subseteq Keys
  BY <1>2 DEF OtherCodes, Sides
<1> QED
  BY <1>1, <1>3 DEF Applied
-----------------------------------------------------------------------------
(* The type invariant. *)

StateTypes ==
    /\ isShortcutInvoked \in [Remaps -> BOOLEAN]
    /\ winKeyInvoked \in [Remaps -> Wins]
    /\ isOriginalActionKeyPressed \in [Remaps -> BOOLEAN]
AppTypes == activatedApp \in Apps \cup {NoActivatedApp}
OtherTypes ==
    /\ held \subseteq Keyboard /\ last \in held \cup {NoKey}
    /\ down \subseteq Keys /\ queue \in Seq(Event)
    /\ foreground \in Apps \cup {NoActivatedApp}
    /\ loadingSettings \in BOOLEAN /\ editorIsRunning \in BOOLEAN
    /\ crashed \in BOOLEAN /\ disturbed \in BOOLEAN

LEMMA TypeParts == TypeOK <=> StateTypes /\ AppTypes /\ OtherTypes
  BY DEF TypeOK, StateTypes, AppTypes, OtherTypes, Wins

LEMMA HeadAndTail ==
    ASSUME TypeOK, queue # <<>>
    PROVE  Head(queue) \in Event /\ Tail(queue) \in Seq(Event)
<1>1. queue \in Seq(Event)
  BY DEF TypeOK
<1> QED
  BY <1>1

LEMMA SendType ==
    ASSUME TypeOK, queue # <<>>, NEW events \in Seq(Event), Send(events)
    PROVE  OtherTypes'
<1>1. queue' \in Seq(Event)
  BY HeadAndTail, ConcatType DEF Send
<1> QED
  BY <1>1 DEF Send, TypeOK, OtherTypes, user, engine

LEMMA ResetType ==
    ASSUME TypeOK, NEW r \in Remaps, Reset(r)
    PROVE  StateTypes'
  BY DEF Reset, TypeOK, StateTypes, Wins

LEMMA WinKeyType ==
    ASSUME TypeOK, NEW r \in Remaps
    PROVE  WinKey(r) \in Wins
  BY DEF WinKey, TypeOK, Wins

LEMMA SetActivatedAppType ==
    ASSUME TypeOK, NEW r \in Remaps, NEW app \in {r[1], NoActivatedApp},
           SetActivatedApp(r, app)
    PROVE  AppTypes'
<1>1. r[1] \in Apps \cup {Os}
  BY DEF Remaps, Tables
<1> QED
  BY <1>1 DEF SetActivatedApp, TypeOK, AppTypes

LEMMA UnchangedRemap ==
    ASSUME TypeOK, UNCHANGED <<remap, activatedApp>>
    PROVE  StateTypes' /\ AppTypes'
  BY DEF TypeOK, StateTypes, AppTypes, Wins, remap

LEMMA CrashType ==
    ASSUME TypeOK, queue # <<>>, Crash(Head(queue))
    PROVE  TypeOK'
<1>1. down' \subseteq Keys /\ queue' \in Seq(Event)
  BY HeadAndTail, AppliedType DEF Crash, TypeOK
<1>2. OtherTypes'
  BY <1>1 DEF Crash, TypeOK, OtherTypes, user
<1>3. StateTypes' /\ AppTypes'
  BY UnchangedRemap DEF Crash
<1> QED
  BY <1>2, <1>3, TypeParts, PTL

\* for an invoked, repeated or released shortcut, only whether its own action
\* key was pressed
LEMMA ActionKeyType ==
    ASSUME TypeOK, NEW r \in Remaps, NEW b \in BOOLEAN,
           isOriginalActionKeyPressed' = [isOriginalActionKeyPressed EXCEPT ![r] = b],
           UNCHANGED <<isShortcutInvoked, winKeyInvoked, activatedApp>>
    PROVE  StateTypes' /\ AppTypes'
  BY DEF TypeOK, StateTypes, AppTypes, Wins

LEMMA ShortcutHandlerType ==
    ASSUME TypeOK, queue # <<>>, NEW r \in Remaps,
           HandleShortcutRemapEvent(r, Head(queue))
    PROVE  TypeOK'
<1> DEFINE e == Head(queue)
<1>1. e \in Event /\ e.key \in Keys
  BY HeadAndTail DEF Event
<1>2. To(r) \in Target /\ From(r) \in Shortcut /\ From(r).key \in Keys
  BY RemapTypes, ShortcutKey
<1>3. ASSUME NEW other, NEW key
      PROVE  ModifiersDown(From(r), winKeyInvoked[r], "shortcut", other, key) \in Seq(Event)
  BY <1>2, ModifiersType, FlagsLemma
<1>4. <<KeyEvent(e.key, "down", "none")>> \in Seq(Event)
  BY <1>1, EventType, FlagsLemma
<1>5. StateTypes' /\ AppTypes' /\ OtherTypes' => TypeOK'
  BY TypeParts, PTL
<1> HIDE DEF e
<1>6. CASE Invoke(r, e)
  <2>1. OtherTypes'
    BY <1>6, InvokeEventsType, SendType DEF Invoke
  <2>2. AppTypes'
    BY <1>6, SetActivatedAppType DEF Invoke
  <2>3. StateTypes'
    BY <1>6, WinKeyType DEF Invoke, TypeOK, StateTypes, Wins
  <2> QED
    BY <1>5, <2>1, <2>2, <2>3
<1>7. CASE ReleaseModifier(r, e)
  <2>1. OtherTypes'
    BY <1>7, ModifierUpEventsType, SendType DEF ReleaseModifier
  <2>2. AppTypes' /\ StateTypes'
    BY <1>7, SetActivatedAppType, ResetType DEF ReleaseModifier
  <2> QED
    BY <1>5, <2>1, <2>2
<1>8. CASE RepeatShortcut(r, e)
  <2>1. OtherTypes'
    BY <1>2, <1>8, RepeatEventsType, SendType DEF RepeatShortcut
  <2>2. (isOriginalActionKeyPressed[r] \/ To(r).type = "disabled") \in BOOLEAN
    BY DEF TypeOK
  <2>3. AppTypes' /\ StateTypes'
    BY <1>8 DEF RepeatShortcut, TypeOK, StateTypes, AppTypes, Wins
  <2> QED
    BY <1>5, <2>1, <2>3
<1>9. CASE ReleaseAction(r, e)
  <2> DEFINE Sent == CASE To(r).type = "shortcut" -> Up(To(r).to.key)
                       [] To(r).type = "key" -> Up(FilterArtificialKeys(To(r).key))
                       [] To(r).type = "disabled" -> <<>>
  <2>1. To(r).type # "text"
    BY <1>9 DEF ReleaseAction, IsActionUp
  <2>2. Sent \in Seq(Event)
    <3>1. CASE To(r).type = "shortcut"
      BY <1>2, <3>1, TargetKeys, DownUpType
    <3>2. CASE To(r).type = "key"
      BY <1>2, <3>2, TargetKeys, DownUpType
    <3>3. CASE To(r).type = "disabled"
      BY <3>3, NothingType
    <3> QED
      BY <1>2, <2>1, <3>1, <3>2, <3>3, TargetKeys
  <2>3. Send(Sent)
    BY <1>9 DEF ReleaseAction
  <2> HIDE DEF Sent
  <2>4. OtherTypes'
    BY <2>2, <2>3, SendType
  <2>5. AppTypes' /\ StateTypes'
    BY <1>9 DEF ReleaseAction, TypeOK, StateTypes, AppTypes, Wins
  <2> QED
    BY <1>5, <2>4, <2>5
<1>10. CASE ReleaseActionAmongOthers(r, e)
  <2> DEFINE U == Up(FilterArtificialKeys(To(r).key))
             D == ModifiersDown(From(r), winKeyInvoked[r], "shortcut", Empty, NoKey)
  <2>1. U \in Seq(Event)
    BY <1>2, <1>10, TargetKeys, DownUpType DEF ReleaseActionAmongOthers
  <2>2. D \in Seq(Event)
    BY <1>3
  <2>3. Send(U \o D)
    BY <1>10 DEF ReleaseActionAmongOthers
  <2> HIDE DEF U, D
  <2>4. OtherTypes'
    BY <2>1, <2>2, <2>3, ConcatType, SendType
  <2>5. AppTypes' /\ StateTypes'
    BY <1>10, ResetType DEF ReleaseActionAmongOthers, ForgetActivatedApp, AppTypes
  <2> QED
    BY <1>5, <2>4, <2>5
<1>11. CASE SuppressModifier(r, e)
  <2>1. OtherTypes'
    BY <1>11, NothingType, SendType DEF SuppressModifier
  <2>2. AppTypes' /\ StateTypes'
    BY <1>11, UnchangedRemap DEF SuppressModifier
  <2> QED
    BY <1>5, <2>1, <2>2
<1>12. CASE SuppressModifierOfText(r, e)
  BY <1>12, CrashType DEF SuppressModifierOfText, e
<1>13. CASE LeaveShortcut(r, e)
  <2>1. RevertEvents(r, e.key) \in Seq(Event)
    BY <1>1, <1>13, RevertEventsType DEF LeaveShortcut
  <2>2. OtherTypes'
    BY <1>13, <2>1, SendType DEF LeaveShortcut
  <2>3. AppTypes' /\ StateTypes'
    BY <1>13, SetActivatedAppType, ResetType DEF LeaveShortcut
  <2> QED
    BY <1>5, <2>2, <2>3
<1>14. CASE ChangeShortcut(r, e)
  <2>1. PICK new \in NewRemappings(r, e.key) :
          /\ To(new).type # "text"
          /\ isShortcutInvoked' =
               [isShortcutInvoked EXCEPT ![new] = @ \/ To(new).type = "shortcut",
                                         ![r] = FALSE]
          /\ winKeyInvoked' =
               [winKeyInvoked EXCEPT ![new] = WinKey(new), ![r] = "Disabled"]
          /\ isOriginalActionKeyPressed' =
               [isOriginalActionKeyPressed EXCEPT ![r] = FALSE]
          /\ Send(NewRemappingEvents(r, new))
    BY <1>14 DEF ChangeShortcut
  <2>2. new \in Remaps
    BY <2>1 DEF NewRemappings
  <2>3. To(r).type = "shortcut"
    BY <1>14 DEF ChangeShortcut
  <2>4. OtherTypes'
    BY <2>1, <2>2, <2>3, NewRemappingEventsType, SendType
  <2>5. AppTypes'
    BY <1>14, SetActivatedAppType DEF ChangeShortcut
  <2>6. StateTypes'
    BY <2>1, <2>2, WinKeyType DEF TypeOK, StateTypes, Wins
  <2> QED
    BY <1>5, <2>4, <2>5, <2>6
<1>15. CASE ChangeShortcutToText(r, e)
  BY <1>15, CrashType DEF ChangeShortcutToText, e
<1>16. CASE LeaveKey(r, e)
  <2> DEFINE D == ModifiersDown(From(r), winKeyInvoked[r], "shortcut", Empty, NoKey)
             Action == IF To(r).type = "disabled" /\ isOriginalActionKeyPressed[r]
                       THEN Down(From(r).key) ELSE <<>>
             Again == <<KeyEvent(e.key, "down", "none")>>
  <2>1. D \in Seq(Event) /\ Again \in Seq(Event)
    BY <1>3, <1>4
  <2>2. Action \in Seq(Event)
    BY <1>2, DownUpType, NothingType
  <2>3. Send(D \o Action \o Again)
    BY <1>16 DEF LeaveKey
  <2> HIDE DEF D, Action, Again
  <2>4. OtherTypes'
    BY <2>1, <2>2, <2>3, ConcatType, SendType
  <2>5. AppTypes' /\ StateTypes'
    BY <1>16, ResetType DEF LeaveKey, ForgetActivatedApp, AppTypes
  <2> QED
    BY <1>5, <2>4, <2>5
<1> QED
  BY <1>6, <1>7, <1>8, <1>9, <1>10, <1>11, <1>12, <1>13, <1>14, <1>15, <1>16
     DEF HandleShortcutRemapEvent, e

LEMMA HookType ==
    ASSUME TypeOK, HandleKeyboardHookEvent
    PROVE  TypeOK'
<1> DEFINE e == Head(queue)
<1>1. queue # <<>>
  BY DEF HandleKeyboardHookEvent
<1>2. e \in Event /\ Tail(queue) \in Seq(Event)
  BY <1>1, HeadAndTail
<1>3. StateTypes' /\ AppTypes' /\ OtherTypes' => TypeOK'
  BY TypeParts, PTL
<1>4. CASE Pass(e)
  <2>1. StateTypes' /\ AppTypes'
    BY <1>4, UnchangedRemap DEF Pass
  <2>2. down' \subseteq Keys /\ queue' \in Seq(Event)
    BY <1>2, <1>4, AppliedType DEF Pass, TypeOK
  <2>3. OtherTypes'
    BY <1>4, <2>2 DEF Pass, TypeOK, OtherTypes, user, engine
  <2> QED
    BY <1>3, <2>1, <2>3
<1>5. CASE HandleSingleKeyRemapEvent(e)
  <2>1. e.key \in DOMAIN SingleKey /\ SingleKey[e.key].type # "text"
    BY <1>5 DEF HandleSingleKeyRemapEvent, IsSingleKey
  <2>2. SingleKey[e.key] \in Target /\ e.dir \in {"down", "up"}
    BY <1>2, <2>1, KbmAssumption DEF Event
  <2>3. OtherTypes'
    BY <1>1, <1>5, <2>1, <2>2, SingleKeyEventsType, SendType DEF HandleSingleKeyRemapEvent
  <2>4. StateTypes' /\ AppTypes'
    BY <1>5, UnchangedRemap DEF HandleSingleKeyRemapEvent
  <2> QED
    BY <1>3, <2>3, <2>4
<1>6. CASE HandleSingleKeyToTextRemapEvent(e)
  <2>1. OtherTypes'
    BY <1>1, <1>6, NothingType, SendType DEF HandleSingleKeyToTextRemapEvent
  <2>2. StateTypes' /\ AppTypes'
    BY <1>6, UnchangedRemap DEF HandleSingleKeyToTextRemapEvent
  <2> QED
    BY <1>3, <2>1, <2>2
<1>7. ASSUME NEW r \in Remaps, HandleShortcutRemapEvent(r, e)
      PROVE  TypeOK'
  BY <1>1, <1>7, ShortcutHandlerType
<1> QED
  BY <1>4, <1>5, <1>6, <1>7 DEF HandleKeyboardHookEvent

\* the user, the settings and the editor
LEMMA UserType ==
    ASSUME TypeOK, UserStep \/ StartLoading \/ FinishLoading \/ FailLoading
                   \/ ToggleEditor
    PROVE  TypeOK'
<1>1. StateTypes' /\ AppTypes' /\ OtherTypes' => TypeOK'
  BY TypeParts, PTL
<1>2. Keyboard \subseteq Keys
  BY KbmAssumption
<1>3. ASSUME NEW key \in Keyboard, NEW dir \in {"down", "up"}, ByHand(key, dir),
             held' \subseteq Keyboard, last' \in held' \cup {NoKey}
      PROVE  TypeOK'
  <2>1. queue' \in Seq(Event)
    BY <1>2, <1>3, EventType, FlagsLemma DEF ByHand
  <2>2. OtherTypes'
    BY <1>3, <2>1 DEF ByHand, TypeOK, OtherTypes, engine
  <2>3. StateTypes' /\ AppTypes'
    BY <1>3, UnchangedRemap DEF ByHand
  <2> QED
    BY <1>1, <2>2, <2>3
<1>4. ASSUME NEW key \in Keyboard, Press(key) \/ Release(key)
      PROVE  TypeOK'
  <2>1. CASE Press(key)
    BY <1>3, <2>1 DEF Press, TypeOK
  <2>2. CASE Release(key)
    BY <1>3, <2>2 DEF Release, TypeOK
  <2> QED
    BY <1>4, <2>1, <2>2
<1>5. CASE Repeat
  <2>1. last \in Keyboard /\ UNCHANGED <<held, last>>
    BY <1>5 DEF Repeat, TypeOK
  <2> QED
    BY <1>3, <1>5, <2>1 DEF Repeat, TypeOK
<1>6. ASSUME NEW app \in Apps \cup {NoActivatedApp}, SwitchApp(app)
      PROVE  TypeOK'
  <2>1. OtherTypes'
    BY <1>6 DEF SwitchApp, TypeOK, OtherTypes, engine
  <2>2. StateTypes' /\ AppTypes'
    BY <1>6, UnchangedRemap DEF SwitchApp
  <2> QED
    BY <1>1, <2>1, <2>2
<1>7. CASE UserStep
  BY <1>4, <1>5, <1>6, <1>7 DEF UserStep
<1>8. CASE StartLoading \/ FailLoading
  <2>1. OtherTypes'
    BY <1>8 DEF StartLoading, FailLoading, Blinks, TypeOK, OtherTypes, user
  <2>2. StateTypes' /\ AppTypes'
    BY <1>8, UnchangedRemap DEF StartLoading, FailLoading, Blinks
  <2> QED
    BY <1>1, <2>1, <2>2
<1>9. CASE FinishLoading
  <2>1. OtherTypes'
    BY <1>9 DEF FinishLoading, Blinks, TypeOK, OtherTypes, user
  <2>2. StateTypes' /\ AppTypes'
    BY <1>9 DEF FinishLoading, Blinks, TypeOK, StateTypes, AppTypes, Wins
  <2> QED
    BY <1>1, <2>1, <2>2
<1>10. CASE ToggleEditor
  <2>1. OtherTypes'
    BY <1>10 DEF ToggleEditor, Blinks, TypeOK, OtherTypes, user
  <2>2. StateTypes' /\ AppTypes'
    BY <1>10, UnchangedRemap DEF ToggleEditor, Blinks
  <2> QED
    BY <1>1, <2>1, <2>2
<1> QED
  BY <1>7, <1>8, <1>9, <1>10

\* Whatever the user presses and whatever is remapped, what the handlers send
\* and keep stays within its types: only events of keys reach the hook, and the
\* activated application has a table.
THEOREM TypeCorrect == Spec => []TypeOK
<1>1. Init => TypeOK
  BY NothingType DEF Init, TypeOK
<1>2. TypeOK /\ [Next]_vars => TypeOK'
  <2> SUFFICES ASSUME TypeOK, [Next]_vars PROVE TypeOK'
    OBVIOUS
  <2>1. CASE Next
    BY <2>1, HookType, UserType DEF Next
  <2>2. CASE UNCHANGED vars
    BY <2>2 DEF vars, user, engine, remap, TypeOK
  <2> QED
    BY <2>1, <2>2
<1> QED
  BY <1>1, <1>2, PTL DEF Spec
-----------------------------------------------------------------------------
(* At most one shortcut of a table is invoked. *)

LEMMA Subset ==
    ASSUME AtMostOne,
           \A r \in Remaps : isShortcutInvoked'[r] => isShortcutInvoked[r]
    PROVE  AtMostOne'
  BY DEF AtMostOne

LEMMA ShortcutHandlerAtMostOne ==
    ASSUME TypeOK, AtMostOne, NEW r \in Remaps, NEW e,
           HandleShortcutRemapEvent(r, e)
    PROVE  AtMostOne'
<1>1. isShortcutInvoked \in [Remaps -> BOOLEAN]
  BY DEF TypeOK
<1>2. CASE Invoke(r, e)
  <2>1. \A s \in Remaps : s[1] = r[1] => ~isShortcutInvoked[s]
    BY <1>2 DEF Invoke, IsInvoked, Invoked
  <2>2. isShortcutInvoked' = [isShortcutInvoked EXCEPT ![r] = TRUE]
    BY <1>2 DEF Invoke
  <2>3. \A s \in Remaps : isShortcutInvoked'[s] => s = r \/ isShortcutInvoked[s]
    BY <1>1, <2>2
  <2> QED
    BY <2>1, <2>3 DEF AtMostOne
<1>3. CASE ReleaseModifier(r, e) \/ ReleaseActionAmongOthers(r, e)
             \/ LeaveShortcut(r, e) \/ LeaveKey(r, e)
  <2>1. isShortcutInvoked' = [isShortcutInvoked EXCEPT ![r] = FALSE]
    BY <1>3 DEF ReleaseModifier, ReleaseActionAmongOthers, LeaveShortcut, LeaveKey, Reset
  <2> QED
    BY <1>1, <2>1, Subset
<1>4. CASE RepeatShortcut(r, e) \/ ReleaseAction(r, e) \/ SuppressModifier(r, e)
             \/ SuppressModifierOfText(r, e) \/ ChangeShortcutToText(r, e)
  <2>1. UNCHANGED isShortcutInvoked
    BY <1>4 DEF RepeatShortcut, ReleaseAction, SuppressModifier,
                SuppressModifierOfText, ChangeShortcutToText, Crash, remap
  <2> QED
    BY <2>1, Subset
<1>5. CASE ChangeShortcut(r, e)
  <2>1. isShortcutInvoked[r]
    BY <1>5 DEF ChangeShortcut, IsOther, TargetHeld
  <2>2. PICK new \in NewRemappings(r, e.key) :
          isShortcutInvoked' =
            [isShortcutInvoked EXCEPT ![new] = @ \/ To(new).type = "shortcut",
                                      ![r] = FALSE]
    BY <1>5 DEF ChangeShortcut
  <2>3. new \in Remaps /\ new[1] = r[1]
    BY <2>2 DEF NewRemappings
  <2>4. \A s \in Remaps : isShortcutInvoked'[s] =>
          s # r /\ (s = new \/ isShortcutInvoked[s])
    BY <1>1, <2>2, <2>3
  <2>5. \A s \in Remaps : isShortcutInvoked'[s] /\ s[1] = r[1] => s = new
    BY <2>1, <2>4 DEF AtMostOne
  <2>6. \A s, u \in Remaps : isShortcutInvoked'[s] /\ isShortcutInvoked'[u] /\ s[1] = u[1]
                             => s = u
    <3>1. SUFFICES ASSUME NEW s \in Remaps, NEW u \in Remaps, isShortcutInvoked'[s],
                          isShortcutInvoked'[u], s[1] = u[1]
                   PROVE  s = u
      OBVIOUS
    <3>2. CASE s[1] = r[1]
      BY <2>5, <3>1, <3>2
    <3>3. CASE s[1] # r[1]
      BY <2>3, <2>4, <3>1, <3>3 DEF AtMostOne
    <3> QED
      BY <3>2, <3>3
  <2> QED
    BY <2>6 DEF AtMostOne
<1> QED
  BY <1>2, <1>3, <1>4, <1>5 DEF HandleShortcutRemapEvent

LEMMA NextAtMostOne ==
    ASSUME TypeOK, AtMostOne, [Next]_vars
    PROVE  AtMostOne'
<1>1. CASE \E r \in Remaps : HandleShortcutRemapEvent(r, Head(queue))
  BY <1>1, ShortcutHandlerAtMostOne
<1>2. CASE FinishLoading
  BY <1>2, Subset DEF FinishLoading
<1>3. CASE UNCHANGED isShortcutInvoked
  BY <1>3, Subset
<1>4. ASSUME HandleKeyboardHookEvent,
             ~ \E r \in Remaps : HandleShortcutRemapEvent(r, Head(queue))
      PROVE  UNCHANGED isShortcutInvoked
  BY <1>4 DEF HandleKeyboardHookEvent, Pass, HandleSingleKeyRemapEvent,
              HandleSingleKeyToTextRemapEvent, remap
<1>5. UserStep => UNCHANGED isShortcutInvoked
  BY DEF UserStep, Press, Release, Repeat, ByHand, SwitchApp, remap
<1>6. StartLoading \/ FailLoading \/ ToggleEditor \/ UNCHANGED vars => UNCHANGED isShortcutInvoked
  BY DEF StartLoading, FailLoading, ToggleEditor, vars, remap
<1> QED
  BY <1>1, <1>2, <1>3, <1>4, <1>5, <1>6 DEF Next

\* CheckShortcutRemapInvoked (State.cpp:29): with any number of shortcuts, also
\* when the key of another is pressed in the middle of one, when the settings
\* are loaded again and after a crash, a table has one shortcut invoked.
THEOREM OneShortcutInvoked == Spec => []OneInvoked
<1>1. Init => AtMostOne
  BY DEF Init, AtMostOne
<1>2. TypeOK /\ AtMostOne /\ [Next]_vars => AtMostOne'
  BY NextAtMostOne
<1>3. AtMostOne => OneInvoked
  <2> SUFFICES ASSUME AtMostOne, NEW t \in Tables
               PROVE  Cardinality(Invoked(t)) <= 1
    BY DEF OneInvoked
  <2>1. CASE Invoked(t) = {}
    BY <2>1, FS_EmptySet
  <2>2. CASE Invoked(t) # {}
    <3>1. PICK r \in Invoked(t) : TRUE
      BY <2>2
    <3>2. Invoked(t) = {r}
      BY <3>1 DEF AtMostOne, Invoked
    <3>3. Cardinality({r}) = 1
      BY FS_Singleton
    <3> QED
      BY <3>2, <3>3
  <2> QED
    BY <2>1, <2>2
<1> QED
  BY <1>1, <1>2, <1>3, TypeCorrect, PTL DEF Spec
-----------------------------------------------------------------------------
(* The application that is remembered. *)

\* The application whose table counts is the one with a shortcut invoked.
Agrees == \A a \in Apps : Invoked(a) # {} <=> activatedApp = a

\* Two tables have a shortcut invoked each; case 5 goes from one shortcut of an
\* application straight to another; or the settings are loaded while a shortcut
\* is invoked.
Loses ==
    \/ \E r, s \in AllInvoked : r[1] # s[1]
    \/ \E r \in AllInvoked, s \in AllInvoked' : r[1] \in Apps /\ r[1] = s[1] /\ r # s
    \/ loadingSettings /\ ~loadingSettings' /\ AllInvoked # {}

LEMMA RemapApps ==
    ASSUME NEW r \in Remaps
    PROVE  r[1] \in Apps \/ r[1] = Os
  BY DEF Remaps, Tables

\* Agrees, without the sets
LEMMA AgreesMeans ==
    Agrees <=> \A a \in Apps :
                 (\E r \in Remaps : r[1] = a /\ isShortcutInvoked[r]) <=> activatedApp = a
  BY DEF Agrees, Invoked

\* A shortcut of an application ends, and the application is forgotten.
LEMMA AppEnds ==
    ASSUME TypeOK, AtMostOne, Agrees, NEW r \in Remaps, r[1] # Os, isShortcutInvoked[r],
           activatedApp' = NoActivatedApp,
           \A s \in Remaps : isShortcutInvoked'[s] =>
             isShortcutInvoked[s] /\ s # r
    PROVE  Agrees'
<1>1. r[1] \in Apps /\ activatedApp = r[1]
  BY RemapApps, AgreesMeans
<1>2. \A s \in Remaps : isShortcutInvoked[s] /\ s[1] \in Apps => s = r
  BY <1>1, AgreesMeans DEF AtMostOne
<1>3. \A s \in Remaps : isShortcutInvoked'[s] => s[1] \notin Apps
  BY <1>2
<1>4. NoActivatedApp \notin Apps
  BY KbmAssumption
<1> QED
  BY <1>3, <1>4 DEF Agrees, Invoked

\* Nothing changes but what belongs to the table for all applications.
LEMMA OsChanges ==
    ASSUME Agrees, activatedApp' = activatedApp,
           \A s \in Remaps : s[1] # Os =>
             (isShortcutInvoked'[s] <=> isShortcutInvoked[s])
    PROVE  Agrees'
<1>1. Os \notin Apps
  BY KbmAssumption
<1> QED
  BY <1>1 DEF Agrees, Invoked

\* the two steps that forget an application too many, or an invoked one of it
Forgets(r, e) == r[1] = Os /\ (ReleaseActionAmongOthers(r, e) \/ LeaveKey(r, e))
Replaces(r, e) == r[1] # Os /\ ChangeShortcut(r, e)

LEMMA HandlerAgrees ==
    ASSUME TypeOK, AtMostOne, Agrees, NEW r \in Remaps, NEW e,
           Forgets(r, e) => \A s \in Remaps : isShortcutInvoked[s] => s[1] = Os,
           Replaces(r, e) => \A s \in Remaps : isShortcutInvoked'[s] => s[1] # r[1],
           HandleShortcutRemapEvent(r, e)
    PROVE  Agrees'
<1>1. isShortcutInvoked \in [Remaps -> BOOLEAN]
  BY DEF TypeOK
<1>2. NoActivatedApp \notin Apps /\ Os \notin Apps
  BY KbmAssumption
<1>3. CASE Invoke(r, e)
  <2>1. /\ \A s \in Remaps : s[1] = r[1] => ~isShortcutInvoked[s]
        /\ isShortcutInvoked' = [isShortcutInvoked EXCEPT ![r] = TRUE]
        /\ activatedApp' = IF r[1] = Os THEN activatedApp ELSE r[1]
    BY <1>3 DEF Invoke, IsInvoked, Invoked, SetActivatedApp
  <2>2. CASE r[1] = Os
    BY <1>1, <2>1, <2>2, OsChanges
  <2>3. CASE r[1] # Os
    <3>1. r[1] \in Apps /\ r[1] = AppTable
      BY <2>3, RemapApps DEF HandleShortcutRemapEvent, Turn
    <3>2. activatedApp # r[1]
      BY <2>1, <3>1, AgreesMeans
    <3>3. activatedApp = NoActivatedApp
      BY <3>1, <3>2 DEF AppTable
    <3>4. \A s \in Remaps : s[1] \in Apps => ~isShortcutInvoked[s]
      BY <1>2, <3>3, AgreesMeans
    <3>5. \A s \in Remaps : s[1] \in Apps => (isShortcutInvoked'[s] <=> s = r)
      BY <1>1, <2>1, <3>4
    <3>6. activatedApp' = r[1]
      BY <2>1, <2>3
    <3> QED
      BY <3>1, <3>5, <3>6 DEF Agrees, Invoked
  <2> QED
    BY <2>2, <2>3
<1>4. CASE ReleaseModifier(r, e) \/ LeaveShortcut(r, e)
  <2>1. /\ isShortcutInvoked[r]
        /\ isShortcutInvoked' = [isShortcutInvoked EXCEPT ![r] = FALSE]
        /\ activatedApp' = IF r[1] = Os THEN activatedApp ELSE NoActivatedApp
    BY <1>4 DEF ReleaseModifier, IsModifierUp, LeaveShortcut, IsOther, TargetHeld, Reset,
                SetActivatedApp
  <2>2. CASE r[1] = Os
    BY <1>1, <2>1, <2>2, OsChanges
  <2>3. CASE r[1] # Os
    BY <1>1, <2>1, <2>3, AppEnds
  <2> QED
    BY <2>2, <2>3
<1>5. CASE ReleaseActionAmongOthers(r, e) \/ LeaveKey(r, e)
  <2>1. /\ isShortcutInvoked[r]
        /\ isShortcutInvoked' = [isShortcutInvoked EXCEPT ![r] = FALSE]
        /\ activatedApp' = NoActivatedApp
    BY <1>5 DEF ReleaseActionAmongOthers, IsActionUp, LeaveKey, IsOther, TargetHeld, Reset,
                ForgetActivatedApp
  <2>2. CASE r[1] = Os
    <3>1. \A s \in Remaps : isShortcutInvoked[s] => s[1] = Os
      BY <1>5, <2>2 DEF Forgets
    <3>2. activatedApp \notin Apps
      BY <1>2, <3>1, AgreesMeans
    <3>3. activatedApp = NoActivatedApp
      BY <3>2 DEF TypeOK
    <3> QED
      BY <1>1, <2>1, <2>2, <3>3, OsChanges
  <2>3. CASE r[1] # Os
    BY <1>1, <2>1, <2>3, AppEnds
  <2> QED
    BY <2>2, <2>3
<1>6. CASE RepeatShortcut(r, e) \/ ReleaseAction(r, e) \/ SuppressModifier(r, e)
             \/ SuppressModifierOfText(r, e) \/ ChangeShortcutToText(r, e)
  <2>1. UNCHANGED <<isShortcutInvoked, activatedApp>>
    BY <1>6 DEF RepeatShortcut, ReleaseAction, SuppressModifier,
                SuppressModifierOfText, ChangeShortcutToText, Crash, remap
  <2> QED
    BY <2>1, OsChanges
<1>7. CASE ChangeShortcut(r, e)
  <2>1. /\ isShortcutInvoked[r] /\ e.key # From(r).key
        /\ activatedApp' = IF r[1] = Os THEN activatedApp ELSE NoActivatedApp
    BY <1>7 DEF ChangeShortcut, IsOther, TargetHeld, SetActivatedApp
  <2>2. PICK new \in NewRemappings(r, e.key) :
          isShortcutInvoked' =
            [isShortcutInvoked EXCEPT ![new] = @ \/ To(new).type = "shortcut",
                                      ![r] = FALSE]
    BY <1>7 DEF ChangeShortcut
  <2>3. new \in Remaps /\ new[1] = r[1]
    BY <2>2 DEF NewRemappings
  <2>4. /\ \A s \in Remaps : isShortcutInvoked'[s] =>
             s # r /\ (s = new \/ isShortcutInvoked[s])
        /\ \A s \in Remaps : s \notin {r, new} => isShortcutInvoked'[s] = isShortcutInvoked[s]
    BY <1>1, <2>2, <2>3
  <2>5. CASE r[1] = Os
    BY <2>1, <2>3, <2>4, <2>5, OsChanges
  <2>6. CASE r[1] # Os
    <3>1. r[1] \in Apps
      BY <2>6, RemapApps
    <3>2. \A s \in Remaps : isShortcutInvoked'[s] => s[1] # r[1]
      BY <1>7, <2>6 DEF Replaces
    <3>3. \A s \in Remaps : isShortcutInvoked'[s] => isShortcutInvoked[s] /\ s # r
      BY <2>3, <2>4, <3>2
    <3> QED
      BY <2>1, <2>6, <3>3, AppEnds
  <2> QED
    BY <2>5, <2>6
<1> QED
  BY <1>3, <1>4, <1>5, <1>6, <1>7 DEF HandleShortcutRemapEvent

LEMMA NextAgrees ==
    ASSUME TypeOK, AtMostOne, Agrees, ~Loses, [Next]_vars
    PROVE  Agrees'
<1>1. ASSUME NEW r \in Remaps, HandleShortcutRemapEvent(r, Head(queue)) PROVE Agrees'
  <2> DEFINE e == Head(queue)
  <2>1. Forgets(r, e) => \A s \in Remaps : isShortcutInvoked[s] => s[1] = Os
    <3>1. Forgets(r, e) => isShortcutInvoked[r]
      BY DEF Forgets, ReleaseActionAmongOthers, IsActionUp, LeaveKey, IsOther, TargetHeld
    <3> QED
      BY <3>1 DEF Loses, AllInvoked, Forgets
  <2>2. Replaces(r, e) => \A s \in Remaps : isShortcutInvoked'[s] => s[1] # r[1]
    <3>1. Replaces(r, e) => isShortcutInvoked[r] /\ ~isShortcutInvoked'[r]
      <4>1. isShortcutInvoked \in [Remaps -> BOOLEAN]
        BY DEF TypeOK
      <4> QED
        BY <4>1 DEF Replaces, ChangeShortcut, IsOther, TargetHeld
    <3> QED
      BY <3>1, RemapApps DEF Loses, AllInvoked, Replaces
  <2> QED
    BY <1>1, <2>1, <2>2, HandlerAgrees
<1>2. CASE UNCHANGED <<isShortcutInvoked, activatedApp>>
  BY <1>2, OsChanges
<1>3. CASE FinishLoading
  <2>1. /\ loadingSettings /\ ~loadingSettings' /\ UNCHANGED activatedApp
        /\ isShortcutInvoked' = [r \in Remaps |-> FALSE]
    BY <1>3 DEF FinishLoading, Blinks
  <2>2. AllInvoked = {}
    BY <2>1 DEF Loses
  <2> QED
    BY <2>1, <2>2, OsChanges DEF AllInvoked
<1>4. ASSUME HandleKeyboardHookEvent,
             ~ \E r \in Remaps : HandleShortcutRemapEvent(r, Head(queue))
      PROVE  UNCHANGED <<isShortcutInvoked, activatedApp>>
  BY <1>4 DEF HandleKeyboardHookEvent, Pass, HandleSingleKeyRemapEvent,
              HandleSingleKeyToTextRemapEvent, remap
<1>5. UserStep => UNCHANGED <<isShortcutInvoked, activatedApp>>
  BY DEF UserStep, Press, Release, Repeat, ByHand, SwitchApp, remap
<1>6. StartLoading \/ FailLoading \/ ToggleEditor \/ UNCHANGED vars
        => UNCHANGED <<isShortcutInvoked, activatedApp>>
  BY DEF StartLoading, FailLoading, ToggleEditor, Blinks, vars, remap
<1> QED
  BY <1>1, <1>2, <1>3, <1>4, <1>5, <1>6 DEF Next

\* SetActivatedApp: with any tables, also after the settings or the application
\* in front have changed with keys held, the application whose table counts
\* stays the one with a shortcut invoked, but for the three cases of Loses.
THEOREM AppForgotten == Spec => [][Agrees /\ ~Loses => Agrees']_vars
<1>1. Init => AtMostOne
  BY DEF Init, AtMostOne
<1>2. TypeOK /\ AtMostOne /\ [Next]_vars => AtMostOne'
  BY NextAtMostOne
<1>3. TypeOK /\ AtMostOne /\ [Next]_vars => [Agrees /\ ~Loses => Agrees']_vars
  BY NextAgrees
<1> QED
  BY <1>1, <1>2, <1>3, TypeCorrect, PTL DEF Spec
-----------------------------------------------------------------------------
(* The keys that are down: which, and why. *)

\* the side of the user's modifiers
Side == CHOOSE side \in [Kinds -> {"L", "R"}] : SidesApart(side)

\* the key of the user that stands behind a key, a modifier for both sides included
SlotOf(kind) == <<kind, Side[kind]>>
Slot(key) == IF key[1] \in Kinds THEN SlotOf(key[1]) ELSE key

\* on that side or for both, as no key for both Windows keys goes through the hook
Proper(key) == key[1] \in Kinds => key[2] \in {Side[key[1]], "B"} /\ key # <<"Win", "B">>

\* what the events with the flag of a shortcut, which the hook lets pass, will do
Adds(e, key) ==
    /\ e.flag = "shortcut" /\ e.dir = "down"
    /\ key \in {e.key} \cup OtherCodes(e.key, "down")
Lifts(e, key) == e.flag = "shortcut" /\ e.dir = "up" /\ Slot(e.key) = Slot(key)

Lifted(events, key) == \E j \in DOMAIN events : Lifts(events[j], key)
Added(events, key) ==
    \E i \in DOMAIN events :
        Adds(events[i], key) /\ \A j \in DOMAIN events : j > i => ~Lifts(events[j], key)
After(keys, events) ==
    {key \in Keys : (key \in keys /\ ~Lifted(events, key)) \/ Added(events, key)}

\* the keys that are down once those events have passed
Settled == After(down, queue)

\* The engine looks away, and then every key is itself.
Away == loadingSettings \/ editorIsRunning
Given(key) == IF Away THEN {key} ELSE Gives(key)
GivenBy(e) == IF e.flag = "none" THEN Given(e.key) ELSE {e.key}

\* A key the user holds gives this one, or its release is on its way.
Sourced(key) == \E x \in held : key \in Given(x)
OfLast(key) == last \in held /\ key \in Given(last)
AsksUp(key) ==
    \E i \in DOMAIN queue :
        queue[i].flag # "shortcut" /\ queue[i].dir = "up" /\ key \in GivenBy(queue[i])

\* The target of a shortcut has pressed this key.
Targets(to) ==
    IF to.type = "shortcut" THEN {SlotOf(kind) : kind \in DOMAIN to.to.mods} \cup {to.to.key}
    ELSE IF to.type = "key" THEN {Slot(FilterArtificialKeys(to.key))}
    ELSE {}
Presses(r, key, keys) ==
    /\ Slot(key) \in Targets(To(r))
    /\ To(r).type = "key" => FilterArtificialKeys(To(r).key) \in keys

\* a shortcut on the user's side
Fits(s) == \A kind \in DOMAIN s.mods : s.mods[kind] \in {Side[kind], "B"}

Mods(r) == DOMAIN From(r).mods
FromKeys == {From(r).key : r \in Remaps}

\* the events: those of shortcuts first, then at most one other
Ours(e) == e.flag = "shortcut" /\ Proper(e.key)
Theirs(e) ==
    /\ e.flag # "shortcut" /\ Proper(e.key) /\ Slot(e.key) = e.key
    /\ e.flag = "single" => e.key \notin DOMAIN SingleKey
    /\ e.flag = "none" => e.key \in Keyboard \/ e.key \notin DOMAIN SingleKey
AllOurs(events) == \A i \in DOMAIN events : Ours(events[i])
Orderly(events) ==
    \A i \in DOMAIN events : Ours(events[i]) \/ (i = Len(events) /\ Theirs(events[i]))
KeysInv == (\A key \in down : Proper(key)) /\ Orderly(queue) /\ ~crashed

\* the shortcuts that are invoked
ShortcutsInv ==
    /\ \A r \in Remaps : winKeyInvoked[r] \in {"Disabled", "L"}
    /\ \A r \in AllInvoked : Fits(From(r))
    /\ \A r, s \in AllInvoked : r # s => Mods(r) \cap Mods(s) = {}
    /\ Away => AllInvoked = {}

\* Their modifiers are held, none by the key that repeats.
SourcesInv ==
    \A r \in AllInvoked : \A kind \in Mods(r) :
        /\ Sourced(SlotOf(kind)) \/ AsksUp(SlotOf(kind))
        /\ ~OfLast(SlotOf(kind))

\* Their modifiers are up, but for those of the target.
LiftedInv ==
    \A r \in AllInvoked : \A kind \in Mods(r) : \A key \in Settled :
        key[1] = kind => Presses(r, key, Settled)

\* What is to be pressed is the key that repeats.
PendingInv ==
    \A i \in DOMAIN queue : queue[i].flag # "shortcut" /\ queue[i].dir = "down" =>
        last \in held /\ GivenBy(queue[i]) = Given(last)

\* Every key that is down has a reason.
Reason(key) ==
    \/ Slot(key) \in FromKeys
    \/ Sourced(Slot(key)) \/ AsksUp(Slot(key))
    \/ \E r \in AllInvoked : Presses(r, key, Settled)
ReasonsInv == \A key \in Settled : Reason(key)

KeepsInv ==
    KeysInv /\ ShortcutsInv /\ SourcesInv /\ LiftedInv /\ PendingInv /\ ReasonsInv
-----------------------------------------------------------------------------
(* Keys and their sides. *)

LEMMA KeyParts ==
    ASSUME NEW key \in Keys
    PROVE  /\ key = <<key[1], key[2]>>
           /\ key[1] \in Kinds => key[2] \in Sides
           /\ key[1] \notin Kinds => key[1] = "Letter" /\ Slot(key) = key
<1>1. CASE key \in Kinds \X Sides
  BY <1>1
<1>2. CASE key \in {"Letter"} \X Letters
  <2>1. key = <<key[1], key[2]>> /\ key[1] = "Letter"
    BY <1>2
  <2>2. "Letter" \notin Kinds
    BY DEF Kinds
  <2> QED
    BY <2>1, <2>2 DEF Slot
<1> QED
  BY <1>1, <1>2 DEF Keys

LEMMA ShortcutParts ==
    ASSUME NEW s \in Shortcut
    PROVE  /\ s.key \in Keys /\ s.key[1] \notin Kinds /\ Slot(s.key) = s.key /\ Proper(s.key)
           /\ DOMAIN s.mods \subseteq Kinds /\ DOMAIN s.mods # {}
           /\ \A kind \in DOMAIN s.mods : s.mods[kind] \in Sides
<1>1. s.key \in {"Letter"} \X Letters
  BY DEF Shortcut
<1>2. s.key[1] = "Letter" /\ s.key \in Keys
  BY <1>1 DEF Keys
<1>3. PICK ks \in (SUBSET Kinds) \ {{}} : s.mods \in [ks -> Sides]
  BY DEF Shortcut
<1>4. DOMAIN s.mods = ks /\ \A kind \in ks : s.mods[kind] \in Sides
  BY <1>3
<1>5. s.key[1] \notin Kinds
  BY <1>2 DEF Kinds
<1>6. Slot(s.key) = s.key /\ Proper(s.key)
  BY <1>5 DEF Slot, Proper
<1> QED
  BY <1>2, <1>3, <1>4, <1>5, <1>6

\* The codes that go with a key have its slot.
LEMMA CodesSlot ==
    ASSUME NEW key \in Keys, Proper(key), NEW code \in OtherCodes(key, "down")
    PROVE  Slot(code) = Slot(key) /\ Proper(code) /\ code \in Keys
<1>1. key[1] \in Kinds \ {"Win"} /\ code = <<key[1], "B">>
  BY DEF OtherCodes
<1>2. code[1] = key[1] /\ code[2] = "B"
  BY <1>1
<1>3. code \in Keys
  BY <1>1, KeysLemma DEF Sides
<1>4. code # <<"Win", "B">>
  BY <1>1
<1> QED
  BY <1>1, <1>2, <1>3, <1>4 DEF Slot, Proper

LEMMA AddsSlot ==
    ASSUME NEW e \in Event, Proper(e.key), NEW key, Adds(e, key)
    PROVE  Slot(key) = Slot(e.key) /\ Proper(key) /\ key \in Keys
<1>1. e.key \in Keys
  BY DEF Event
<1>2. key = e.key \/ key \in OtherCodes(e.key, "down")
  BY DEF Adds
<1> QED
  BY <1>1, <1>2, CodesSlot

\* What a release lifts is the whole slot, among proper keys.
LEMMA LiftedCodes ==
    ASSUME NEW key \in Keys, Proper(key), NEW k \in Keys, Proper(k),
           Side \in [Kinds -> {"L", "R"}]
    PROVE  k \in {key} \cup OtherCodes(key, "up") <=> Slot(k) = Slot(key)
<1>1. key = <<key[1], key[2]>> /\ k = <<k[1], k[2]>>
  BY KeyParts
<1>2. CASE key[1] \notin Kinds
  <2>1. OtherCodes(key, "up") = {} /\ Slot(key) = key
    BY <1>2, KeyParts DEF OtherCodes
  <2>2. Slot(k) = key => k = key
    BY <1>1, <1>2 DEF Slot, SlotOf
  <2> QED
    BY <2>1, <2>2
<1>3. CASE key[1] \in Kinds
  <2>1. key[2] \in {Side[key[1]], "B"} /\ Side[key[1]] \in {"L", "R"} /\ Slot(key) = SlotOf(key[1])
    BY <1>3 DEF Proper, Slot
  <2>2. Slot(k) = SlotOf(key[1]) <=> k[1] = key[1]
    BY <1>1, <1>3 DEF Slot, SlotOf
  <2>3. k[1] = key[1] => k[2] \in {Side[key[1]], "B"}
    BY <1>3 DEF Proper
  <2>4. CASE key[1] = "Win"
    <3>1. OtherCodes(key, "up") = {}
      BY <2>4 DEF OtherCodes
    <3>2. k[1] = "Win" => k[2] # "B"
      BY <1>1, <1>3, <2>4 DEF Proper
    <3>3. key[2] # "B"
      BY <1>1, <1>3, <2>4 DEF Proper
    <3> QED
      BY <1>1, <2>1, <2>2, <2>3, <2>4, <3>1, <3>2, <3>3
  <2>5. CASE key[1] # "Win" /\ key[2] = "B"
    <3>1. OtherCodes(key, "up") = {<<key[1], "L">>, <<key[1], "R">>}
      BY <1>3, <2>5 DEF OtherCodes
    <3> QED
      BY <1>1, <2>1, <2>2, <2>3, <2>5, <3>1
  <2>6. CASE key[1] # "Win" /\ key[2] # "B"
    <3>1. OtherCodes(key, "up") = {<<key[1], "B">>}
      BY <1>3, <2>6 DEF OtherCodes
    <3> QED
      BY <1>1, <2>1, <2>2, <2>3, <2>6, <3>1
  <2> QED
    BY <2>4, <2>5, <2>6
<1> QED
  BY <1>2, <1>3
-----------------------------------------------------------------------------
(* What a sequence of events lifts and adds. *)

LEMMA ConcatAt ==
    ASSUME NEW a \in Seq(Event), NEW b \in Seq(Event)
    PROVE  /\ DOMAIN (a \o b) = 1..(Len(a) + Len(b))
           /\ \A i \in DOMAIN a : i \in DOMAIN (a \o b) /\ (a \o b)[i] = a[i]
           /\ \A i \in DOMAIN b : /\ Len(a) + i \in DOMAIN (a \o b)
                                 /\ (a \o b)[Len(a) + i] = b[i]
           /\ \A j \in DOMAIN (a \o b) :
                j \in DOMAIN a \/ (j > Len(a) /\ j - Len(a) \in DOMAIN b)
  OBVIOUS

LEMMA ConcatLifted ==
    ASSUME NEW a \in Seq(Event), NEW b \in Seq(Event), NEW key
    PROVE  Lifted(a \o b, key) <=> Lifted(a, key) \/ Lifted(b, key)
<1>1. ASSUME Lifted(a \o b, key) PROVE Lifted(a, key) \/ Lifted(b, key)
  <2>1. PICK j \in DOMAIN (a \o b) : Lifts((a \o b)[j], key)
    BY <1>1 DEF Lifted
  <2>2. CASE j \in DOMAIN a
    BY <2>1, <2>2, ConcatAt DEF Lifted
  <2>3. CASE j > Len(a) /\ j - Len(a) \in DOMAIN b
    <3>1. Len(a) + (j - Len(a)) = j
      BY <2>3
    <3>2. (a \o b)[j] = b[j - Len(a)]
      BY <2>3, <3>1, ConcatAt
    <3> QED
      BY <2>1, <2>3, <3>2 DEF Lifted
  <2> QED
    BY <2>1, <2>2, <2>3, ConcatAt
<1>2. Lifted(a, key) \/ Lifted(b, key) => Lifted(a \o b, key)
  BY ConcatAt DEF Lifted
<1> QED
  BY <1>1, <1>2

LEMMA ConcatAdded ==
    ASSUME NEW a \in Seq(Event), NEW b \in Seq(Event), NEW key, Added(a \o b, key)
    PROVE  Added(b, key) \/ (Added(a, key) /\ ~Lifted(b, key))
<1>1. PICK i \in DOMAIN (a \o b) :
        /\ Adds((a \o b)[i], key)
        /\ \A j \in DOMAIN (a \o b) : j > i => ~Lifts((a \o b)[j], key)
  BY DEF Added
<1>2. Len(a) \in Nat /\ Len(b) \in Nat /\ DOMAIN a = 1..Len(a) /\ DOMAIN b = 1..Len(b)
  OBVIOUS
<1>3. CASE i \in DOMAIN a
  <2>1. \A j \in DOMAIN a : j > i => ~Lifts(a[j], key)
    BY <1>1, ConcatAt
  <2>2. \A j \in DOMAIN b : Len(a) + j > i
    BY <1>2, <1>3
  <2>3. \A j \in DOMAIN b : ~Lifts(b[j], key)
    BY <1>1, <2>2, ConcatAt
  <2>4. Adds(a[i], key)
    BY <1>1, <1>3, ConcatAt
  <2> QED
    BY <1>3, <2>1, <2>3, <2>4 DEF Added, Lifted
<1>4. CASE i > Len(a) /\ i - Len(a) \in DOMAIN b
  <2>1. Len(a) + (i - Len(a)) = i
    BY <1>2, <1>4
  <2>2. Adds(b[i - Len(a)], key)
    BY <1>1, <1>4, <2>1, ConcatAt
  <2>3. \A j \in DOMAIN b : j > i - Len(a) => Len(a) + j > i
    BY <1>2, <1>4
  <2>4. \A j \in DOMAIN b : j > i - Len(a) => ~Lifts(b[j], key)
    BY <1>1, <2>3, ConcatAt
  <2> QED
    BY <1>4, <2>2, <2>4 DEF Added
<1> QED
  BY <1>1, <1>3, <1>4, ConcatAt

LEMMA AddedConcat ==
    ASSUME NEW a \in Seq(Event), NEW b \in Seq(Event), NEW key,
           Added(b, key) \/ (Added(a, key) /\ ~Lifted(b, key))
    PROVE  Added(a \o b, key)
<1>1. Len(a) \in Nat /\ Len(b) \in Nat /\ DOMAIN a = 1..Len(a) /\ DOMAIN b = 1..Len(b)
  OBVIOUS
<1>2. CASE Added(b, key)
  <2>1. PICK i \in DOMAIN b :
          Adds(b[i], key) /\ \A j \in DOMAIN b : j > i => ~Lifts(b[j], key)
    BY <1>2 DEF Added
  <2>2. Len(a) + i \in DOMAIN (a \o b) /\ Adds((a \o b)[Len(a) + i], key)
    BY <2>1, ConcatAt
  <2>3. ASSUME NEW j \in DOMAIN (a \o b), j > Len(a) + i
        PROVE  ~Lifts((a \o b)[j], key)
    <3>1. j \in Nat
      BY <1>1, <2>3, ConcatAt
    <3>2. j - Len(a) \in DOMAIN b
      BY <1>1, <2>3, <3>1, ConcatAt
    <3>3. Len(a) + (j - Len(a)) = j /\ j - Len(a) > i
      BY <1>1, <2>3, <3>1
    <3>4. (a \o b)[j] = b[j - Len(a)]
      BY <3>2, <3>3, ConcatAt
    <3> QED
      BY <2>1, <3>2, <3>3, <3>4
  <2> QED
    BY <2>2, <2>3 DEF Added
<1>3. CASE Added(a, key) /\ ~Lifted(b, key)
  <2>1. PICK i \in DOMAIN a :
          Adds(a[i], key) /\ \A j \in DOMAIN a : j > i => ~Lifts(a[j], key)
    BY <1>3 DEF Added
  <2>2. i \in DOMAIN (a \o b) /\ Adds((a \o b)[i], key)
    BY <2>1, ConcatAt
  <2>3. ASSUME NEW j \in DOMAIN (a \o b), j > i
        PROVE  ~Lifts((a \o b)[j], key)
    <3>1. CASE j \in DOMAIN a
      BY <2>1, <2>3, <3>1, ConcatAt
    <3>2. CASE j > Len(a) /\ j - Len(a) \in DOMAIN b
      <4>1. Len(a) + (j - Len(a)) = j
        BY <1>1, <3>2, ConcatAt
      <4>2. (a \o b)[j] = b[j - Len(a)]
        BY <3>2, <4>1, ConcatAt
      <4> QED
        BY <1>3, <3>2, <4>2 DEF Lifted
    <3> QED
      BY <3>1, <3>2, ConcatAt
  <2> QED
    BY <2>2, <2>3 DEF Added
<1> QED
  BY <1>2, <1>3

\* one event, or none
LEMMA OneEvent ==
    ASSUME NEW e \in Event, NEW key
    PROVE  /\ Lifted(<<e>>, key) <=> Lifts(e, key)
           /\ Added(<<e>>, key) <=> Adds(e, key)
           /\ ~Lifted(<<>>, key) /\ ~Added(<<>>, key)
<1>1. DOMAIN <<e>> = {1} /\ <<e>>[1] = e
  OBVIOUS
<1>2. DOMAIN <<>> = {}
  OBVIOUS
<1>3. \A j \in {1} : ~(j > 1)
  OBVIOUS
<1> QED
  BY <1>1, <1>2, <1>3 DEF Lifted, Added

LEMMA AfterConcat ==
    ASSUME NEW keys, NEW a \in Seq(Event), NEW b \in Seq(Event)
    PROVE  After(keys, a \o b) = After(After(keys, a), b)
<1>1. ASSUME NEW key \in Keys
      PROVE  key \in After(keys, a \o b) <=> key \in After(After(keys, a), b)
  BY ConcatLifted, ConcatAdded, AddedConcat DEF After
<1> QED
  BY <1>1 DEF After
-----------------------------------------------------------------------------
(* What the handlers send, in terms of slots. *)

LEMMA SideChosen ==
    ASSUME Apart
    PROVE  Side \in [Kinds -> {"L", "R"}] /\ Side["Win"] = "L" /\ SidesApart(Side)
<1>1. \E side \in [Kinds -> {"L", "R"}] : SidesApart(side)
  BY DEF Apart
<1>2. Side \in [Kinds -> {"L", "R"}] /\ SidesApart(Side)
  BY <1>1 DEF Side
<1> QED
  BY <1>2 DEF SidesApart

LEMMA ModifierKeySlot ==
    ASSUME Apart, NEW s \in Shortcut, Fits(s), NEW kind \in DOMAIN s.mods,
           NEW win \in {"Disabled", "L"}
    PROVE  /\ ModifierKey(s, kind, win) \in Keys
           /\ ModifierKey(s, kind, win)[1] = kind
           /\ Proper(ModifierKey(s, kind, win))
           /\ Slot(ModifierKey(s, kind, win)) = SlotOf(kind)
<1>1. kind \in Kinds /\ s.mods[kind] \in Sides /\ s.mods[kind] \in {Side[kind], "B"}
  BY ShortcutParts DEF Fits
<1>2. Side[kind] \in {"L", "R"} /\ Side["Win"] = "L"
  BY <1>1, SideChosen
<1>3. CASE kind = "Win" /\ s.mods[kind] = "B"
  <2>1. ModifierKey(s, kind, win) = <<kind, "L">>
    BY <1>3 DEF ModifierKey
  <2>2. <<kind, "L">> \in Keys
    BY <1>1, KeysLemma DEF Sides
  <2> QED
    BY <1>1, <1>2, <1>3, <2>1, <2>2 DEF Proper, Slot
<1>4. CASE ~(kind = "Win" /\ s.mods[kind] = "B")
  <2>1. ModifierKey(s, kind, win) = <<kind, s.mods[kind]>>
    BY <1>4 DEF ModifierKey
  <2>2. <<kind, s.mods[kind]>> \in Keys
    BY <1>1, KeysLemma
  <2>3. <<kind, s.mods[kind]>> # <<"Win", "B">>
    BY <1>4
  <2> QED
    BY <1>1, <1>2, <2>1, <2>2, <2>3 DEF Proper, Slot
<1> QED
  BY <1>3, <1>4

LEMMA OursConcat ==
    ASSUME NEW a \in Seq(Event), NEW b \in Seq(Event), AllOurs(a), AllOurs(b)
    PROVE  AllOurs(a \o b)
<1>1. ASSUME NEW i \in DOMAIN (a \o b) PROVE Ours((a \o b)[i])
  <2>1. CASE i \in DOMAIN a
    BY <2>1, ConcatAt DEF AllOurs
  <2>2. CASE i > Len(a) /\ i - Len(a) \in DOMAIN b
    <3>1. Len(a) + (i - Len(a)) = i
      BY <2>2
    <3>2. (a \o b)[i] = b[i - Len(a)]
      BY <2>2, <3>1, ConcatAt
    <3> QED
      BY <2>2, <3>2 DEF AllOurs
  <2> QED
    BY <2>1, <2>2, ConcatAt
<1> QED
  BY <1>1 DEF AllOurs

LEMMA OursOne ==
    /\ AllOurs(<<>>)
    /\ \A e \in Event : Ours(e) => AllOurs(<<e>>)
  BY DEF AllOurs

\* what two of them do that only lift, or only add
LEMMA ConcatUps ==
    ASSUME NEW a \in Seq(Event), NEW b \in Seq(Event), NEW key,
           ~Added(a, key), ~Added(b, key)
    PROVE  ~Added(a \o b, key)
  BY ConcatAdded

LEMMA ConcatDowns ==
    ASSUME NEW a \in Seq(Event), NEW b \in Seq(Event), NEW key,
           ~Lifted(a, key), ~Lifted(b, key)
    PROVE  /\ ~Lifted(a \o b, key)
           /\ Added(a \o b, key) <=> Added(a, key) \/ Added(b, key)
  BY ConcatAdded, AddedConcat, ConcatLifted

\* a sequence that only lifts, and one that only adds
OnlyUps(events) ==
    events \in Seq(Event) /\ AllOurs(events) /\ \A key : ~Added(events, key)
OnlyDowns(events) ==
    events \in Seq(Event) /\ AllOurs(events) /\ \A key : ~Lifted(events, key)

LEMMA UpsConcat ==
    ASSUME NEW a, NEW b, OnlyUps(a), OnlyUps(b)
    PROVE  OnlyUps(a \o b) /\ \A key : Lifted(a \o b, key) <=> Lifted(a, key) \/ Lifted(b, key)
<1>1. a \in Seq(Event) /\ b \in Seq(Event) /\ AllOurs(a) /\ AllOurs(b)
  BY DEF OnlyUps
<1>2. a \o b \in Seq(Event) /\ AllOurs(a \o b)
  BY <1>1, OursConcat
<1>3. \A key : ~Added(a \o b, key)
  BY <1>1, ConcatUps DEF OnlyUps
<1>4. \A key : Lifted(a \o b, key) <=> Lifted(a, key) \/ Lifted(b, key)
  BY <1>1, ConcatLifted
<1> QED
  BY <1>2, <1>3, <1>4 DEF OnlyUps

LEMMA DownsConcat ==
    ASSUME NEW a, NEW b, OnlyDowns(a), OnlyDowns(b)
    PROVE  OnlyDowns(a \o b) /\ \A key : Added(a \o b, key) <=> Added(a, key) \/ Added(b, key)
<1>1. a \in Seq(Event) /\ b \in Seq(Event) /\ AllOurs(a) /\ AllOurs(b)
  BY DEF OnlyDowns
<1>2. a \o b \in Seq(Event) /\ AllOurs(a \o b)
  BY <1>1, OursConcat
<1>3. \A key : /\ ~Lifted(a \o b, key)
               /\ Added(a \o b, key) <=> Added(a, key) \/ Added(b, key)
  BY <1>1, ConcatDowns DEF OnlyDowns
<1> QED
  BY <1>2, <1>3 DEF OnlyDowns

LEMMA ModifiersUpEvents ==
    ASSUME Apart, NEW s \in Shortcut, Fits(s), NEW win \in {"Disabled", "L"},
           NEW other, NEW released
    PROVE  LET events == ModifiersUp(s, win, "shortcut", other, released) IN
           /\ events \in Seq(Event) /\ AllOurs(events)
           /\ \A key :
                /\ ~Added(events, key)
                /\ Lifted(events, key) <=>
                     \E kind \in DOMAIN s.mods :
                        SendsUp(s, kind, win, other, released) /\ Slot(key) = SlotOf(kind)
<1> DEFINE E(kind) == KeyEvent(ModifierKey(s, kind, win), "up", "shortcut")
           U(kind) == IF SendsUp(s, kind, win, other, released) THEN <<E(kind)>> ELSE <<>>
           Does(kind, key) == SendsUp(s, kind, win, other, released) /\ Slot(key) = SlotOf(kind)
<1>1. ASSUME NEW kind \in Kinds
      PROVE  /\ U(kind) \in Seq(Event) /\ AllOurs(U(kind))
             /\ \A key : ~Added(U(kind), key)
             /\ \A key : Lifted(U(kind), key) <=> kind \in DOMAIN s.mods /\ Does(kind, key)
  <2>1. CASE SendsUp(s, kind, win, other, released)
    <3>1. kind \in DOMAIN s.mods
      BY <2>1 DEF SendsUp, ModifierKey
    <3>2. ModifierKey(s, kind, win) \in Keys /\ Proper(ModifierKey(s, kind, win))
          /\ Slot(ModifierKey(s, kind, win)) = SlotOf(kind)
      BY <3>1, ModifierKeySlot
    <3>3. E(kind) \in Event /\ Ours(E(kind))
      BY <3>2, EventType, FlagsLemma DEF Ours, KeyEvent
    <3>4. \A key : ~Adds(E(kind), key) /\ (Lifts(E(kind), key) <=> Slot(key) = SlotOf(kind))
      BY <3>2 DEF Adds, Lifts, KeyEvent
    <3>5. U(kind) = <<E(kind)>>
      BY <2>1
    <3> HIDE DEF E, U
    <3> QED
      BY <2>1, <3>1, <3>3, <3>4, <3>5, OneEvent, OursOne
  <2>2. CASE ~SendsUp(s, kind, win, other, released)
    <3>1. U(kind) = <<>>
      BY <2>2
    <3>2. \A key : ~Lifted(<<>>, key) /\ ~Added(<<>>, key)
      BY DEF Lifted, Added
    <3> HIDE DEF E, U
    <3> QED
      BY <2>2, <3>1, <3>2, OursOne, NothingType
  <2> QED
    BY <2>1, <2>2
<1>2. Kinds = {"Win", "Ctrl", "Alt", "Shift"} /\ DOMAIN s.mods \subseteq Kinds
  BY ShortcutParts DEF Kinds
<1>3. ModifiersUp(s, win, "shortcut", other, released)
        = U("Shift") \o U("Alt") \o U("Ctrl") \o U("Win")
  BY DEF ModifiersUp
<1> HIDE DEF E, U, Does
<1>4. \A kind \in Kinds : OnlyUps(U(kind))
  BY <1>1 DEF OnlyUps
<1>5. OnlyUps(U("Shift")) /\ OnlyUps(U("Alt")) /\ OnlyUps(U("Ctrl")) /\ OnlyUps(U("Win"))
  BY <1>2, <1>4
<1> DEFINE V == U("Shift") \o U("Alt")
           W == V \o U("Ctrl")
<1>6. OnlyUps(V) /\ \A key : Lifted(V, key) <=> Lifted(U("Shift"), key) \/ Lifted(U("Alt"), key)
  BY <1>5, UpsConcat
<1> HIDE DEF V
<1>7. OnlyUps(W) /\ \A key : Lifted(W, key) <=> Lifted(V, key) \/ Lifted(U("Ctrl"), key)
  BY <1>5, <1>6, UpsConcat
<1> HIDE DEF W
<1>8. /\ OnlyUps(W \o U("Win"))
      /\ \A key : Lifted(W \o U("Win"), key) <=> Lifted(W, key) \/ Lifted(U("Win"), key)
  BY <1>5, <1>7, UpsConcat
<1>9. ModifiersUp(s, win, "shortcut", other, released) = W \o U("Win")
  BY <1>3 DEF W, V
<1>10. \A key : Lifted(W \o U("Win"), key) <=> \E kind \in Kinds : Lifted(U(kind), key)
  BY <1>2, <1>6, <1>7, <1>8
<1>11. \A key : Lifted(W \o U("Win"), key) <=> \E kind \in DOMAIN s.mods : Does(kind, key)
  BY <1>1, <1>2, <1>10
<1> QED
  BY <1>8, <1>9, <1>11 DEF OnlyUps, Does

LEMMA ModifiersDownEvents ==
    ASSUME Apart, NEW s \in Shortcut, Fits(s), NEW win \in {"Disabled", "L"},
           NEW other, NEW released
    PROVE  LET events == ModifiersDown(s, win, "shortcut", other, released) IN
           /\ events \in Seq(Event) /\ AllOurs(events)
           /\ \A key :
                /\ ~Lifted(events, key)
                /\ Added(events, key) =>
                     \E kind \in DOMAIN s.mods :
                        SendsDown(s, kind, win, other, released) /\ Slot(key) = SlotOf(kind)
<1> DEFINE E(kind) == KeyEvent(ModifierKey(s, kind, win), "down", "shortcut")
           U(kind) == IF SendsDown(s, kind, win, other, released) THEN <<E(kind)>> ELSE <<>>
           Does(kind, key) == SendsDown(s, kind, win, other, released) /\ Slot(key) = SlotOf(kind)
<1>1. ASSUME NEW kind \in Kinds
      PROVE  /\ U(kind) \in Seq(Event) /\ AllOurs(U(kind))
             /\ \A key : ~Lifted(U(kind), key)
             /\ \A key : Added(U(kind), key) => kind \in DOMAIN s.mods /\ Does(kind, key)
  <2>1. CASE SendsDown(s, kind, win, other, released)
    <3>1. kind \in DOMAIN s.mods
      BY <2>1 DEF SendsDown, ModifierKey
    <3>2. ModifierKey(s, kind, win) \in Keys /\ Proper(ModifierKey(s, kind, win))
          /\ Slot(ModifierKey(s, kind, win)) = SlotOf(kind)
      BY <3>1, ModifierKeySlot
    <3>3. E(kind) \in Event /\ Ours(E(kind)) /\ E(kind).key = ModifierKey(s, kind, win)
          /\ E(kind).dir = "down"
      BY <3>2, EventType, FlagsLemma DEF Ours, KeyEvent
    <3>4. \A key : ~Lifts(E(kind), key) /\ (Adds(E(kind), key) => Slot(key) = SlotOf(kind))
      BY <3>2, <3>3, AddsSlot DEF Lifts
    <3>5. U(kind) = <<E(kind)>>
      BY <2>1
    <3> HIDE DEF E, U
    <3> QED
      BY <2>1, <3>1, <3>3, <3>4, <3>5, OneEvent, OursOne
  <2>2. CASE ~SendsDown(s, kind, win, other, released)
    <3>1. U(kind) = <<>>
      BY <2>2
    <3>2. \A key : ~Lifted(<<>>, key) /\ ~Added(<<>>, key)
      BY DEF Lifted, Added
    <3> HIDE DEF E, U
    <3> QED
      BY <2>2, <3>1, <3>2, OursOne, NothingType
  <2> QED
    BY <2>1, <2>2
<1>2. Kinds = {"Win", "Ctrl", "Alt", "Shift"} /\ DOMAIN s.mods \subseteq Kinds
  BY ShortcutParts DEF Kinds
<1>3. ModifiersDown(s, win, "shortcut", other, released)
        = U("Win") \o U("Ctrl") \o U("Alt") \o U("Shift")
  BY DEF ModifiersDown
<1> HIDE DEF E, U, Does
<1>4. \A kind \in Kinds : OnlyDowns(U(kind))
  BY <1>1 DEF OnlyDowns
<1>5. OnlyDowns(U("Win")) /\ OnlyDowns(U("Ctrl")) /\ OnlyDowns(U("Alt")) /\ OnlyDowns(U("Shift"))
  BY <1>2, <1>4
<1> DEFINE V == U("Win") \o U("Ctrl")
           W == V \o U("Alt")
<1>6. OnlyDowns(V) /\ \A key : Added(V, key) <=> Added(U("Win"), key) \/ Added(U("Ctrl"), key)
  BY <1>5, DownsConcat
<1> HIDE DEF V
<1>7. OnlyDowns(W) /\ \A key : Added(W, key) <=> Added(V, key) \/ Added(U("Alt"), key)
  BY <1>5, <1>6, DownsConcat
<1> HIDE DEF W
<1>8. /\ OnlyDowns(W \o U("Shift"))
      /\ \A key : Added(W \o U("Shift"), key) <=> Added(W, key) \/ Added(U("Shift"), key)
  BY <1>5, <1>7, DownsConcat
<1>9. ModifiersDown(s, win, "shortcut", other, released) = W \o U("Shift")
  BY <1>3 DEF W, V
<1>10. \A key : Added(W \o U("Shift"), key) <=> \E kind \in Kinds : Added(U(kind), key)
  BY <1>2, <1>6, <1>7, <1>8
<1>11. \A key : Added(W \o U("Shift"), key) => \E kind \in DOMAIN s.mods : Does(kind, key)
  BY <1>1, <1>2, <1>10
<1> QED
  BY <1>8, <1>9, <1>11 DEF OnlyDowns, Does

LEMMA UpsDowns ==
    ASSUME NEW a, NEW b, OnlyUps(a), OnlyDowns(b)
    PROVE  /\ a \o b \in Seq(Event) /\ AllOurs(a \o b)
           /\ \A key : /\ Lifted(a \o b, key) <=> Lifted(a, key)
                       /\ Added(a \o b, key) <=> Added(b, key)
<1>1. a \in Seq(Event) /\ b \in Seq(Event) /\ AllOurs(a) /\ AllOurs(b)
  BY DEF OnlyUps, OnlyDowns
<1>2. a \o b \in Seq(Event) /\ AllOurs(a \o b)
  BY <1>1, OursConcat
<1>3. \A key : /\ Lifted(a \o b, key) <=> Lifted(a, key)
               /\ Added(a \o b, key) <=> Added(b, key)
  BY <1>1, ConcatLifted, ConcatAdded, AddedConcat DEF OnlyUps, OnlyDowns
<1> QED
  BY <1>2, <1>3

LEMMA NothingUpsDowns ==
    /\ OnlyUps(<<>>) /\ OnlyDowns(<<>>)
    /\ \A key : ~Lifted(<<>>, key) /\ ~Added(<<>>, key)
<1>1. \A key : ~Lifted(<<>>, key) /\ ~Added(<<>>, key)
  BY DEF Lifted, Added
<1> QED
  BY <1>1, NothingType, OursOne DEF OnlyUps, OnlyDowns

LEMMA DownEvent ==
    ASSUME NEW key \in Keys, Proper(key)
    PROVE  /\ OnlyDowns(Down(key)) /\ Added(Down(key), key)
           /\ \A k : Added(Down(key), k) => Slot(k) = Slot(key)
<1> DEFINE e == KeyEvent(key, "down", "shortcut")
<1>1. e \in Event /\ Ours(e) /\ e.key = key /\ e.dir = "down" /\ e.flag = "shortcut"
  BY EventType, FlagsLemma DEF Ours, KeyEvent
<1>2. Down(key) = <<e>>
  BY DEF Down
<1> HIDE DEF e
<1>3. <<e>> \in Seq(Event) /\ AllOurs(<<e>>)
  BY <1>1, OursOne
<1>4. \A k : ~Lifts(e, k) /\ (Adds(e, k) => Slot(k) = Slot(key))
  BY <1>1, AddsSlot DEF Lifts
<1>5. Adds(e, key)
  BY <1>1 DEF Adds
<1> QED
  BY <1>1, <1>2, <1>3, <1>4, <1>5, OneEvent DEF OnlyDowns

LEMMA UpEvent ==
    ASSUME NEW key \in Keys, Proper(key)
    PROVE  /\ OnlyUps(Up(key)) /\ \A k : Lifted(Up(key), k) <=> Slot(k) = Slot(key)
           /\ OnlyUps(UpIfDown(key))
           /\ \A k : Lifted(UpIfDown(key), k) <=> key \in down /\ Slot(k) = Slot(key)
<1> DEFINE e == KeyEvent(key, "up", "shortcut")
<1>1. e \in Event /\ Ours(e) /\ e.key = key /\ e.dir = "up" /\ e.flag = "shortcut"
  BY EventType, FlagsLemma DEF Ours, KeyEvent
<1>2. Up(key) = <<e>>
  BY DEF Up
<1> HIDE DEF e
<1>3. <<e>> \in Seq(Event) /\ AllOurs(<<e>>)
  BY <1>1, OursOne
<1>4. \A k : ~Adds(e, k) /\ (Lifts(e, k) <=> Slot(k) = Slot(key))
  BY <1>1 DEF Lifts, Adds
<1>5. OnlyUps(Up(key)) /\ \A k : Lifted(Up(key), k) <=> Slot(k) = Slot(key)
  BY <1>1, <1>2, <1>3, <1>4, OneEvent DEF OnlyUps
<1> QED
  BY <1>5, NothingUpsDowns DEF UpIfDown

LEMMA ModifiersUps ==
    ASSUME Apart, NEW s \in Shortcut, Fits(s), NEW win \in {"Disabled", "L"},
           NEW other, NEW released
    PROVE  /\ OnlyUps(ModifiersUp(s, win, "shortcut", other, released))
           /\ OnlyDowns(ModifiersDown(s, win, "shortcut", other, released))
  BY ModifiersUpEvents, ModifiersDownEvents DEF OnlyUps, OnlyDowns

\* Whether a key is lifted depends on its slot.
LEMMA LiftedSlot ==
    ASSUME NEW events, NEW k, NEW j, Slot(k) = Slot(j)
    PROVE  Lifted(events, k) <=> Lifted(events, j)
  BY DEF Lifted, Lifts
-----------------------------------------------------------------------------
(* What every handler of a shortcut has to see to. *)

\* r is handled, n may be invoked when it is done
Handles(r, n, events) ==
    /\ r[1] = n[1]
    /\ AllInvoked' \subseteq (AllInvoked \ {r}) \cup {n}
    /\ AllInvoked \ {r} \subseteq AllInvoked'
    /\ \A s \in AllInvoked \ {r} : s[1] # n[1]
    /\ \A s \in Remaps : winKeyInvoked'[s] \in {"Disabled", "L"}
    /\ UNCHANGED <<held, last, loadingSettings, editorIsRunning>>
    /\ Settled = down /\ Settled' = After(down, events)
    /\ \A key \in Keys : ~AsksUp(key)'

\* the one that is invoked, and those that stay so
Invokes(r, n) ==
    /\ \A s \in AllInvoked \ {r} : \A kind \in Mods(s) : Sourced(SlotOf(kind))
    /\ n \in AllInvoked' =>
         /\ Fits(From(n))
         /\ \A s \in AllInvoked \ {r} : Mods(n) \cap Mods(s) = {}
         /\ \A kind \in Mods(n) : Sourced(SlotOf(kind)) /\ ~OfLast(SlotOf(kind))

\* It presses the target of n, or what the user holds for r.
AddsFor(r, n, events) ==
    \A key \in Keys : Added(events, key) =>
        \/ n \in AllInvoked' /\ Presses(n, key, Settled')
        \/ /\ n \notin AllInvoked' /\ r \in AllInvoked
           /\ \E kind \in Mods(r) : Slot(key) = SlotOf(kind) /\ Sourced(SlotOf(kind))
        \/ Slot(key) \in FromKeys

\* It leaves nothing down that belongs to r or to n alone.
LeavesFor(r, n, events) ==
    \A key \in down : ~Lifted(events, key) =>
        /\ \/ ~AsksUp(Slot(key))
           \/ Slot(key) \in FromKeys
        /\ r \in AllInvoked /\ Presses(r, key, down) =>
             Sourced(Slot(key)) \/ (n \in AllInvoked' /\ Presses(n, key, Settled'))
        /\ n \in AllInvoked' /\ key[1] \in Mods(n) => Presses(n, key, Settled')

LEMMA SettledKeys ==
    ASSUME NEW events, NEW key, key \in After(down, events)
    PROVE  /\ key \in Keys
           /\ Added(events, key) \/ (key \in down /\ ~Lifted(events, key))
  BY DEF After

\* A shortcut keeps what its target has pressed, unless it is lifted.
LEMMA PressesStays ==
    ASSUME TypeOK, NEW events, NEW s \in Remaps, NEW key \in down, ~Lifted(events, key),
           Presses(s, key, down)
    PROVE  Presses(s, key, After(down, events))
<1>1. CASE To(s).type = "key"
  <2> DEFINE target == FilterArtificialKeys(To(s).key)
  <2>1. target \in down /\ Slot(key) \in {Slot(target)}
    BY <1>1 DEF Presses, Targets
  <2>2. ~Lifted(events, target)
    BY <2>1, LiftedSlot
  <2>3. target \in Keys
    BY <2>1 DEF TypeOK
  <2>4. target \in After(down, events)
    BY <2>1, <2>2, <2>3 DEF After
  <2> QED
    BY <2>4 DEF Presses
<1>2. CASE To(s).type # "key"
  BY <1>2 DEF Presses
<1> QED
  BY <1>1, <1>2

\* What a target presses is no modifier of a shortcut of another table.
LEMMA PressesApart ==
    ASSUME Apart, NEW r \in Remaps, NEW s \in Remaps, r[1] # s[1], NEW key \in Keys, NEW keys,
           Presses(r, key, keys), key[1] \in Kinds
    PROVE  key[1] \notin Mods(s)
<1>1. TargetKinds(To(r)) \cap Mods(s) = {}
  BY DEF Apart, TablesApart, Mods
<1>2. To(r) \in Target
  BY RemapTypes
<1>3. Slot(key) = SlotOf(key[1]) /\ Slot(key) \in Targets(To(r))
  BY DEF Slot, Presses
<1>4. CASE To(r).type = "shortcut"
  <2>1. To(r).to.key[1] \notin Kinds
    BY <1>2, <1>4, TargetKeys, ShortcutParts
  <2>2. Slot(key) # To(r).to.key
    BY <1>3, <2>1 DEF SlotOf
  <2>3. PICK kind \in DOMAIN To(r).to.mods : SlotOf(key[1]) = SlotOf(kind)
    BY <1>3, <1>4, <2>2 DEF Targets
  <2>4. key[1] = kind
    BY <2>3 DEF SlotOf
  <2>5. TargetKinds(To(r)) = DOMAIN To(r).to.mods
    BY <1>4 DEF TargetKinds
  <2> QED
    BY <1>1, <2>3, <2>4, <2>5
<1>5. CASE To(r).type = "key"
  <2> DEFINE target == FilterArtificialKeys(To(r).key)
  <2>1. SlotOf(key[1]) = Slot(target)
    BY <1>3, <1>5 DEF Targets
  <2>2. target \in Keys
    BY <1>2, <1>5, TargetKeys
  <2> HIDE DEF target
  <2>3. target[1] = key[1]
    <3>1. target[1] \in Kinds => target[1] = key[1]
      BY <2>1 DEF Slot, SlotOf
    <3>2. target[1] \notin Kinds => target[1] = key[1]
      BY <2>1 DEF Slot, SlotOf
    <3> QED
      BY <3>1, <3>2
  <2>4. TargetKinds(To(r)) = {target[1]} \cap Kinds
    BY <1>5 DEF TargetKinds, target
  <2> QED
    BY <1>1, <2>3, <2>4
<1>6. CASE To(r).type \in {"disabled", "text"}
  BY <1>3, <1>6 DEF Targets
<1> QED
  BY <1>2, <1>4, <1>5, <1>6, TargetKeys

LEMMA ModsKinds ==
    ASSUME NEW r \in Remaps
    PROVE  Mods(r) \subseteq Kinds /\ Mods(r) # {}
  BY RemapTypes, ShortcutParts DEF Mods

LEMMA FromKeysLetters ==
    ASSUME NEW key \in Keys, key[1] \in Kinds
    PROVE  Slot(key) \notin FromKeys
<1>1. Slot(key)[1] \in Kinds
  BY DEF Slot, SlotOf
<1>2. \A r \in Remaps : From(r).key[1] \notin Kinds
  BY RemapTypes, ShortcutParts
<1> QED
  BY <1>1, <1>2 DEF FromKeys

LEMMA SlotKind ==
    ASSUME NEW key, key[1] \in Kinds, NEW kind, Slot(key) = SlotOf(kind)
    PROVE  key[1] = kind
  BY DEF Slot, SlotOf

LEMMA HandlerKeeps ==
    ASSUME TypeOK, Apart, ShortcutsInv, SourcesInv, LiftedInv, ReasonsInv, ~Away,
           NEW r \in Remaps, NEW n \in Remaps, NEW events,
           Handles(r, n, events), Invokes(r, n), AddsFor(r, n, events),
           LeavesFor(r, n, events)
    PROVE  ShortcutsInv' /\ SourcesInv' /\ LiftedInv' /\ ReasonsInv'
<1> DEFINE Others == AllInvoked \ {r}
           Keeps == After(down, events)
<1>1. /\ AllInvoked' \subseteq Others \cup {n} /\ Others \subseteq AllInvoked'
      /\ \A s \in Others : s[1] # n[1]
      /\ Settled = down /\ Settled' = Keeps
  BY DEF Handles
<1>2. /\ \A key : (Sourced(key)' <=> Sourced(key)) /\ (OfLast(key)' <=> OfLast(key))
      /\ ~Away'
  BY DEF Handles, Sourced, OfLast, Given, Away
<1>3. Others \subseteq Remaps /\ Others \subseteq AllInvoked
  BY DEF AllInvoked
<1>4. ShortcutsInv'
  <2>1. \A s \in Remaps : winKeyInvoked'[s] \in {"Disabled", "L"}
    BY DEF Handles
  <2>2. \A s \in AllInvoked' : Fits(From(s))
    BY <1>1, <1>3 DEF ShortcutsInv, Invokes
  <2>3. \A s, u \in Others : s # u => Mods(s) \cap Mods(u) = {}
    BY <1>3 DEF ShortcutsInv
  <2>4. n \in AllInvoked' => \A s \in Others : Mods(n) \cap Mods(s) = {}
    BY DEF Invokes
  <2>5. \A s, u \in AllInvoked' : s # u => Mods(s) \cap Mods(u) = {}
    BY <1>1, <2>3, <2>4
  <2> QED
    BY <1>2, <2>1, <2>2, <2>5 DEF ShortcutsInv
<1>5. SourcesInv'
  <2>1. ASSUME NEW s \in AllInvoked', NEW kind \in Mods(s)
        PROVE  Sourced(SlotOf(kind)) /\ ~OfLast(SlotOf(kind))
    <3>1. CASE s = n
      BY <2>1, <3>1 DEF Invokes
    <3>2. CASE s \in Others
      BY <1>3, <2>1, <3>2 DEF Invokes, SourcesInv
    <3> QED
      BY <1>1, <3>1, <3>2
  <2> QED
    BY <1>2, <2>1 DEF SourcesInv
<1>6. LiftedInv'
  <2>1. ASSUME NEW s \in AllInvoked', NEW kind \in Mods(s), NEW key \in Keeps, key[1] = kind
        PROVE  Presses(s, key, Keeps)
    <3> HIDE DEF Keeps
    <3>1. key \in Keys /\ (Added(events, key) \/ (key \in down /\ ~Lifted(events, key)))
      BY <2>1, SettledKeys DEF Keeps
    <3>2. s \in Remaps
      BY <1>1, <1>3
    <3>3. kind \in Kinds /\ Slot(key) \notin FromKeys
      BY <2>1, <3>1, <3>2, ModsKinds, FromKeysLetters
    <3>4. CASE Added(events, key)
      <4>1. CASE n \in AllInvoked' /\ Presses(n, key, Settled')
        BY <1>1, <1>3, <2>1, <3>1, <3>2, <3>3, <4>1, PressesApart
      <4>2. CASE /\ n \notin AllInvoked' /\ r \in AllInvoked
                 /\ \E k \in Mods(r) : Slot(key) = SlotOf(k) /\ Sourced(SlotOf(k))
        <5>1. kind \in Mods(r)
          BY <2>1, <3>3, <4>2, SlotKind
        <5>2. s \in Others
          BY <1>1, <4>2
        <5>3. Mods(r) \cap Mods(s) = {}
          BY <4>2, <5>2 DEF ShortcutsInv
        <5> QED
          BY <2>1, <5>1, <5>3
      <4> QED
        BY <3>1, <3>3, <3>4, <4>1, <4>2 DEF AddsFor
    <3>5. CASE key \in down /\ ~Lifted(events, key)
      <4>1. CASE s = n
        BY <1>1, <2>1, <3>5, <4>1 DEF LeavesFor
      <4>2. CASE s \in Others
        <5>1. Presses(s, key, down)
          BY <1>1, <1>3, <2>1, <3>5, <4>2 DEF LiftedInv
        <5> QED
          BY <3>2, <3>5, <5>1, PressesStays DEF Keeps
      <4> QED
        BY <1>1, <4>1, <4>2
    <3> QED
      BY <3>1, <3>4, <3>5
  <2> HIDE DEF Keeps
  <2> QED
    BY <1>1, <2>1 DEF LiftedInv
<1>7. ReasonsInv'
  <2>1. ASSUME NEW key \in Keeps
        PROVE  \/ Slot(key) \in FromKeys \/ Sourced(Slot(key))
               \/ \E s \in AllInvoked' : Presses(s, key, Keeps)
    <3> HIDE DEF Keeps
    <3>1. key \in Keys /\ (Added(events, key) \/ (key \in down /\ ~Lifted(events, key)))
      BY <2>1, SettledKeys DEF Keeps
    <3>2. CASE Added(events, key)
      BY <1>1, <3>1, <3>2 DEF AddsFor
    <3>3. CASE key \in down /\ ~Lifted(events, key)
      <4>1. Reason(key)
        BY <1>1, <3>3 DEF ReasonsInv
      <4>2. CASE AsksUp(Slot(key))
        BY <3>3, <4>2 DEF LeavesFor
      <4>3. ASSUME NEW s \in AllInvoked, Presses(s, key, down)
            PROVE  Sourced(Slot(key)) \/ \E u \in AllInvoked' : Presses(u, key, Keeps)
        <5>1. CASE s = r
          BY <1>1, <3>3, <4>3, <5>1 DEF LeavesFor
        <5>2. CASE s # r
          <6>1. Presses(s, key, Keeps)
            BY <1>3, <3>3, <4>3, <5>2, PressesStays DEF Keeps
          <6> QED
            BY <1>1, <4>3, <5>2, <6>1
        <5> QED
          BY <5>1, <5>2
      <4> QED
        BY <1>1, <4>1, <4>2, <4>3 DEF Reason
    <3> QED
      BY <3>1, <3>2, <3>3
  <2> HIDE DEF Keeps
  <2> QED
    BY <1>1, <1>2, <2>1 DEF ReasonsInv, Reason
<1> QED
  BY <1>4, <1>5, <1>6, <1>7
-----------------------------------------------------------------------------
(* The hook, when the event is not one of a shortcut. *)

LEMMA UpsDownsDowns ==
    ASSUME NEW a, NEW b, NEW c, OnlyUps(a), OnlyDowns(b), OnlyDowns(c)
    PROVE  /\ a \o b \o c \in Seq(Event) /\ AllOurs(a \o b \o c)
           /\ \A key : /\ Lifted(a \o b \o c, key) <=> Lifted(a, key)
                       /\ Added(a \o b \o c, key) <=> Added(b, key) \/ Added(c, key)
<1>1. a \in Seq(Event) /\ b \in Seq(Event) /\ c \in Seq(Event)
  BY DEF OnlyUps, OnlyDowns
<1>2. (a \o b) \o c = a \o (b \o c)
  BY <1>1, ConcatAssociative
<1>3. OnlyDowns(b \o c) /\ \A key : Added(b \o c, key) <=> Added(b, key) \/ Added(c, key)
  BY DownsConcat
<1>4. /\ a \o (b \o c) \in Seq(Event) /\ AllOurs(a \o (b \o c))
      /\ \A key : /\ Lifted(a \o (b \o c), key) <=> Lifted(a, key)
                  /\ Added(a \o (b \o c), key) <=> Added(b \o c, key)
  BY <1>3, UpsDowns
<1> QED
  BY <1>2, <1>3, <1>4

LEMMA UpsUpsDownsDowns ==
    ASSUME NEW a, NEW b, NEW c, NEW d, OnlyUps(a), OnlyUps(b), OnlyDowns(c), OnlyDowns(d)
    PROVE  LET events == a \o b \o c \o d IN
           /\ events \in Seq(Event) /\ AllOurs(events)
           /\ \A key : /\ Lifted(events, key) <=> Lifted(a, key) \/ Lifted(b, key)
                       /\ Added(events, key) <=> Added(c, key) \/ Added(d, key)
<1>1. OnlyUps(a \o b) /\ \A key : Lifted(a \o b, key) <=> Lifted(a, key) \/ Lifted(b, key)
  BY UpsConcat
<1> DEFINE u == a \o b
<1>2. OnlyUps(u)
  BY <1>1
<1> HIDE DEF u
<1>3. /\ u \o c \o d \in Seq(Event) /\ AllOurs(u \o c \o d)
      /\ \A key : /\ Lifted(u \o c \o d, key) <=> Lifted(u, key)
                  /\ Added(u \o c \o d, key) <=> Added(c, key) \/ Added(d, key)
  BY <1>2, UpsDownsDowns
<1> QED
  BY <1>1, <1>3 DEF u

LEMMA OneElement ==
    ASSUME NEW q \in Seq(Event), q # <<>>, Len(q) = 1
    PROVE  Tail(q) = <<>>
<1>1. Tail(q) \in Seq(Event) /\ Len(Tail(q)) = 0
  BY HeadTailProperties
<1> QED
  BY <1>1, EmptySeq

LEMMA TheirsAlone ==
    ASSUME TypeOK, KeysInv, NEW e, queue # <<>>, e = Head(queue), e.flag # "shortcut"
    PROVE  /\ e \in Event /\ Tail(queue) = <<>> /\ Theirs(e)
           /\ Settled = down
           /\ \A key : AsksUp(key) <=> e.dir = "up" /\ key \in GivenBy(e)
<1>1. queue \in Seq(Event) /\ e = queue[1] /\ 1 \in DOMAIN queue /\ e \in Event
  BY HeadAndTail DEF TypeOK
<1>2. ~Ours(e)
  BY DEF Ours
<1>3. Len(queue) = 1 /\ Theirs(e)
  BY <1>1, <1>2 DEF KeysInv, Orderly
<1>4. Tail(queue) = <<>>
  BY <1>1, <1>3, OneElement
<1>5. DOMAIN queue = {1}
  BY <1>1, <1>3
<1>6. Settled = down
  <2>1. \A key : ~Lifted(queue, key) /\ ~Added(queue, key)
    BY <1>1, <1>5 DEF Lifted, Added, Lifts, Adds
  <2>2. down \subseteq Keys
    BY DEF TypeOK
  <2> QED
    BY <2>1, <2>2 DEF Settled, After
<1>7. \A key : AsksUp(key) <=> e.dir = "up" /\ key \in GivenBy(e)
  BY <1>1, <1>5 DEF AsksUp
<1> QED
  BY <1>1, <1>3, <1>4, <1>6, <1>7

LEMMA Quiet ==
    ASSUME KeysInv, UNCHANGED <<down, crashed>>,
           NEW events \in Seq(Event), AllOurs(events), queue' = events
    PROVE  /\ KeysInv' /\ PendingInv'
           /\ Settled' = After(down, events) /\ \A key : ~AsksUp(key)'
<1>1. \A i \in DOMAIN queue' : Ours(queue'[i]) /\ queue'[i].flag = "shortcut"
  BY DEF AllOurs, Ours
<1>2. KeysInv'
  BY <1>1 DEF KeysInv, Orderly
<1>3. PendingInv' /\ \A key : ~AsksUp(key)'
  BY <1>1 DEF PendingInv, AsksUp
<1> QED
  BY <1>2, <1>3 DEF Settled

\* the key is sent once more
LEMMA Again ==
    ASSUME KeysInv, UNCHANGED <<down, crashed, held, last, loadingSettings, editorIsRunning>>,
           NEW e \in Event, Theirs(e), ~Away, Gives(e.key) = {e.key},
           last \in held, Given(last) = {e.key},
           NEW events \in Seq(Event), AllOurs(events),
           queue' = events \o <<KeyEvent(e.key, "down", "none")>>
    PROVE  /\ KeysInv' /\ PendingInv'
           /\ Settled' = After(down, events) /\ \A key : ~AsksUp(key)'
<1> DEFINE more == KeyEvent(e.key, "down", "none")
<1>1. /\ more \in Event /\ Theirs(more)
      /\ more.flag = "none" /\ more.dir = "down" /\ more.key = e.key
  <2>1. e.key \in Keys /\ e.flag \in {"none", "single", "shortcut"}
    BY DEF Event
  <2>2. more \in Event /\ more.flag = "none" /\ more.dir = "down" /\ more.key = e.key
    BY <2>1, EventType, FlagsLemma DEF KeyEvent
  <2> QED
    BY <2>1, <2>2 DEF Theirs
<1> HIDE DEF more
<1>2. queue' = events \o <<more>> /\ <<more>> \in Seq(Event)
  BY <1>1 DEF more
<1>3. \A i \in DOMAIN queue' :
        \/ Ours(queue'[i]) /\ queue'[i].flag = "shortcut"
        \/ i = Len(queue') /\ queue'[i] = more
  <2>1. ASSUME NEW i \in DOMAIN queue'
        PROVE  \/ Ours(queue'[i])
               \/ i = Len(queue') /\ queue'[i] = more
    <3>1. CASE i \in DOMAIN events
      BY <1>2, <3>1, ConcatAt DEF AllOurs
    <3>2. CASE i > Len(events) /\ i - Len(events) \in DOMAIN <<more>>
      <4>1. i = Len(events) + 1
        BY <3>2
      <4>2. Len(queue') = Len(events) + 1
        BY <1>2
      <4>3. queue'[i] = more
        BY <1>2, <4>1
      <4> QED
        BY <4>1, <4>2, <4>3
    <3> QED
      BY <1>2, <2>1, <3>1, <3>2, ConcatAt
  <2> QED
    BY <2>1 DEF Ours
<1>4. KeysInv'
  BY <1>1, <1>3 DEF KeysInv, Orderly
<1>5. (last \in held)' /\ GivenBy(more)' = Given(last)'
  <2>1. ~Away' /\ last' = last /\ held' = held
    BY DEF Away
  <2>2. GivenBy(more)' = {e.key}
    BY <1>1, <2>1 DEF GivenBy, Given
  <2>3. Given(last)' = Given(last)
    BY DEF Given, Away
  <2> QED
    BY <2>1, <2>2, <2>3
<1>6. PendingInv'
  <2>1. \A i \in DOMAIN queue' : queue'[i].flag # "shortcut" => queue'[i] = more
    BY <1>3
  <2> QED
    BY <1>5, <2>1 DEF PendingInv
<1>7. \A key : ~AsksUp(key)'
  BY <1>1, <1>3 DEF AsksUp
<1>8. Settled' = After(down, events)
  <2>1. \A key : ~Lifted(<<more>>, key) /\ ~Added(<<more>>, key)
    BY <1>1, OneEvent DEF Lifts, Adds
  <2>2. \A key : /\ Lifted(events \o <<more>>, key) <=> Lifted(events, key)
                 /\ Added(events \o <<more>>, key) <=> Added(events, key)
    BY <1>2, <2>1, ConcatLifted, ConcatAdded, AddedConcat
  <2> QED
    BY <1>2, <2>2 DEF Settled, After
<1> QED
  BY <1>4, <1>6, <1>7, <1>8

\* a shortcut is handled, and the event is not one of a shortcut
Turns(r, e) ==
    /\ Apart /\ TypeOK /\ AtMostOne /\ KeepsInv
    /\ r \in Remaps /\ e \in Event /\ Theirs(e) /\ Tail(queue) = <<>> /\ Settled = down
    /\ ~Away /\ Gives(e.key) = {e.key}
    /\ \A key : AsksUp(key) <=> e.dir = "up" /\ key = e.key
    /\ e.dir = "down" => last \in held /\ Given(last) = {e.key}

LEMMA ItsKey ==
    ASSUME NEW e \in Event, Theirs(e), ~Away, ~IsSingleKey(e)
    PROVE  Gives(e.key) = {e.key} /\ GivenBy(e) = {e.key}
<1>1. e.flag \in {"none", "single"}
  BY DEF Event, Theirs
<1>2. Gives(e.key) = {e.key}
  BY <1>1 DEF Gives, Theirs, IsSingleKey
<1> QED
  BY <1>2 DEF GivenBy, Given

LEMMA TurnsTheirs ==
    ASSUME Apart, TypeOK, AtMostOne, KeepsInv, NEW r \in Remaps, NEW e, e = Head(queue),
           queue # <<>>, Turn(r, e)
    PROVE  Turns(r, e)
<1>1. ~Away /\ ~IsSingleKey(e) /\ e.flag # "shortcut"
  BY DEF Turn, Away
<1>2. /\ e \in Event /\ Tail(queue) = <<>> /\ Theirs(e) /\ Settled = down
      /\ \A key : AsksUp(key) <=> e.dir = "up" /\ key \in GivenBy(e)
  BY <1>1, TheirsAlone DEF KeepsInv
<1>3. Gives(e.key) = {e.key} /\ GivenBy(e) = {e.key}
  BY <1>1, <1>2, ItsKey
<1>4. ASSUME e.dir = "down" PROVE last \in held /\ Given(last) = {e.key}
  <2>1. queue \in Seq(Event) /\ 1 \in DOMAIN queue /\ queue[1] = e
    BY DEF TypeOK
  <2> QED
    BY <1>1, <1>3, <1>4, <2>1 DEF KeepsInv, PendingInv
<1> QED
  BY <1>1, <1>2, <1>3, <1>4 DEF Turns

\* what is sent, with the key of the event once more or not
Sent(events) ==
    /\ KeysInv' /\ PendingInv'
    /\ Settled' = After(down, events) /\ \A key : ~AsksUp(key)'
    /\ UNCHANGED <<held, last, loadingSettings, editorIsRunning>>

LEMMA SendQuiet ==
    ASSUME NEW r, NEW e, Turns(r, e), NEW events \in Seq(Event), AllOurs(events), Send(events)
    PROVE  Sent(events)
<1>1. queue' = events
  BY ConcatEmptySeq DEF Turns, Send
<1>2. UNCHANGED <<held, last, loadingSettings, editorIsRunning, crashed, down>>
  BY DEF Send, user, engine
<1> QED
  BY <1>1, <1>2, Quiet DEF Turns, KeepsInv, Sent

LEMMA SendAgain ==
    ASSUME NEW r, NEW e, Turns(r, e), e.dir = "down",
           NEW events \in Seq(Event), AllOurs(events),
           Send(events \o <<KeyEvent(e.key, "down", "none")>>)
    PROVE  Sent(events)
<1> DEFINE all == events \o <<KeyEvent(e.key, "down", "none")>>
<1>1. e.key \in Keys
  BY DEF Turns, Event
<1>2. all \in Seq(Event)
  BY <1>1, EventType, FlagsLemma, ConcatType
<1>3. queue' = all \o Tail(queue)
  BY DEF Send
<1> HIDE DEF all
<1>4. queue' = all
  BY <1>2, <1>3, ConcatEmptySeq DEF Turns
<1>5. UNCHANGED <<held, last, loadingSettings, editorIsRunning, crashed, down>>
  BY DEF Send, user, engine
<1> QED
  BY <1>4, <1>5, Again DEF Turns, KeepsInv, Sent, all

LEMMA Handled ==
    ASSUME NEW r, NEW e, Turns(r, e), NEW events, Sent(events), NEW n \in Remaps, r[1] = n[1],
           AllInvoked' \subseteq (AllInvoked \ {r}) \cup {n},
           AllInvoked \ {r} \subseteq AllInvoked',
           \A s \in AllInvoked \ {r} : s[1] # n[1],
           \A s \in Remaps : winKeyInvoked'[s] \in {"Disabled", "L"},
           Invokes(r, n), AddsFor(r, n, events), LeavesFor(r, n, events)
    PROVE  KeepsInv'
<1>1. Handles(r, n, events)
  BY DEF Handles, Turns, Sent
<1>2. r \in Remaps /\ ~Away /\ TypeOK /\ Apart
      /\ ShortcutsInv /\ SourcesInv /\ LiftedInv /\ ReasonsInv
  BY DEF Turns, KeepsInv
<1>3. ShortcutsInv' /\ SourcesInv' /\ LiftedInv' /\ ReasonsInv'
  BY <1>1, <1>2, HandlerKeeps
<1> QED
  BY <1>3 DEF Sent, KeepsInv

\* the keys of a remapping, on the user's side
LEMMA RemapSides ==
    ASSUME Apart, NEW r \in Remaps
    PROVE  /\ From(r) \in Shortcut /\ To(r) \in Target
           /\ From(r).key \in Keys /\ Slot(From(r).key) = From(r).key /\ Proper(From(r).key)
           /\ From(r).key[1] \notin Kinds
           /\ To(r).type = "shortcut" =>
                /\ To(r).to \in Shortcut /\ Fits(To(r).to) /\ To(r).to # Empty
                /\ To(r).to.key \in Keys /\ Proper(To(r).to.key)
                /\ Slot(To(r).to.key) = To(r).to.key
           /\ To(r).type = "key" =>
                /\ FilterArtificialKeys(To(r).key) \in Keys
                /\ Proper(FilterArtificialKeys(To(r).key))
<1>1. From(r) \in Shortcut /\ To(r) \in Target
  BY RemapTypes
<1>2. SidesApart(Side) /\ Side["Win"] = "L"
  BY SideChosen
<1>3. ASSUME To(r).type = "shortcut"
      PROVE  To(r).to \in Shortcut /\ Fits(To(r).to) /\ To(r).to # Empty
  <2>1. To(r).to \in Shortcut
    BY <1>1, <1>3, TargetKeys
  <2>2. DOMAIN To(r).to.mods # {} /\ DOMAIN Empty.mods = {}
    BY <2>1, ShortcutParts DEF Empty
  <2>3. Fits(To(r).to)
    BY <1>2, <1>3 DEF SidesApart, Fits
  <2> QED
    BY <2>1, <2>2, <2>3
<1>4. ASSUME To(r).type = "key"
      PROVE  Proper(FilterArtificialKeys(To(r).key))
  <2> DEFINE key == To(r).key
  <2>1. key \in Keys
    BY <1>1, <1>4, TargetKeys
  <2>2. CASE key = <<"Win", "B">>
    <3>1. FilterArtificialKeys(key) = <<"Win", "L">>
      BY <2>2 DEF FilterArtificialKeys
    <3> QED
      BY <1>2, <3>1 DEF Proper
  <2>3. CASE key # <<"Win", "B">>
    <3>1. FilterArtificialKeys(key) = key
      BY <2>3 DEF FilterArtificialKeys
    <3>2. key[1] \in Kinds => key[2] \in {Side[key[1]], "B"}
      BY <1>2, <1>4, <3>1 DEF SidesApart
    <3> QED
      BY <2>3, <3>1, <3>2 DEF Proper
  <2> QED
    BY <2>2, <2>3
<1> QED
  BY <1>1, <1>3, <1>4, TargetKeys, ShortcutParts
-----------------------------------------------------------------------------
(* The handlers keep the keys in order. *)

\* A shortcut is invoked with its modifiers down, on the user's side, ...
LEMMA StateMods ==
    ASSUME Apart, TypeOK, KeysInv, NEW r \in Remaps, CheckModifiersKeyboardState(From(r))
    PROVE  Fits(From(r)) /\ \A kind \in Mods(r) : \E key \in down : key[1] = kind
<1>1. ASSUME NEW kind \in Mods(r)
      PROVE  From(r).mods[kind] \in {Side[kind], "B"} /\ \E key \in down : key[1] = kind
  <2>1. CASE kind = "Win" /\ From(r).mods[kind] = "B"
    <3>1. {<<"Win", "L">>, <<"Win", "R">>} \cap down # {}
      BY <1>1, <2>1 DEF CheckModifiersKeyboardState, Mods
    <3> QED
      BY <2>1, <3>1
  <2>2. CASE ~(kind = "Win" /\ From(r).mods[kind] = "B")
    <3>1. <<kind, From(r).mods[kind]>> \in down
      BY <1>1, <2>2 DEF CheckModifiersKeyboardState, Mods
    <3>2. Proper(<<kind, From(r).mods[kind]>>) /\ kind \in Kinds
      BY <1>1, <3>1, ModsKinds DEF KeysInv
    <3> QED
      BY <3>1, <3>2 DEF Proper
  <2> QED
    BY <2>1, <2>2
<1> QED
  BY <1>1 DEF Fits, Mods

LEMMA WinKeyLeft ==
    ASSUME Apart, KeysInv, ShortcutsInv, NEW r \in Remaps
    PROVE  WinKey(r) \in {"Disabled", "L"}
<1>1. "Win" \in Kinds /\ Side["Win"] = "L"
  BY SideChosen DEF Kinds
<1>2. <<"Win", "R">> \notin down
  BY <1>1 DEF KeysInv, Proper
<1> QED
  BY <1>2 DEF WinKey, ShortcutsInv

\* ... which the user holds and no other shortcut needs.
LEMMA InvokedMods ==
    ASSUME NEW r, NEW e, Turns(r, e), e.dir = "down", Invoked(r[1]) = {},
           CheckModifiersKeyboardState(From(r)), NEW kind \in Mods(r)
    PROVE  Sourced(SlotOf(kind)) /\ \A s \in AllInvoked : kind \notin Mods(s)
<1>1. r \in Remaps /\ Apart /\ TypeOK /\ KeepsInv /\ Settled = down /\ \A k : ~AsksUp(k)
  BY DEF Turns
<1>2. PICK key \in down : key[1] = kind
  BY <1>1, StateMods DEF KeepsInv
<1>3. key \in Keys /\ kind \in Kinds /\ Slot(key) = SlotOf(kind)
  BY <1>1, <1>2, ModsKinds DEF TypeOK, Slot
<1>4. \A s \in AllInvoked : s \in Remaps /\ s[1] # r[1]
  BY DEF AllInvoked, Invoked
<1>5. \A s \in AllInvoked : ~Presses(s, key, down)
  BY <1>1, <1>2, <1>3, <1>4, PressesApart
<1>6. \A s \in AllInvoked : kind \notin Mods(s)
  BY <1>1, <1>2, <1>5 DEF KeepsInv, LiftedInv
<1>7. Reason(key)
  BY <1>1, <1>2 DEF KeepsInv, ReasonsInv
<1>8. Sourced(SlotOf(kind))
  BY <1>1, <1>2, <1>3, <1>5, <1>7, FromKeysLetters DEF Reason
<1> QED
  BY <1>6, <1>8

\* While a key goes down, the modifiers of what is invoked are held.
LEMMA OthersSourced ==
    ASSUME NEW r, NEW e, Turns(r, e),
           NEW s \in AllInvoked, NEW kind \in Mods(s), e.dir = "down" \/ e.key # SlotOf(kind)
    PROVE  Sourced(SlotOf(kind)) /\ ~OfLast(SlotOf(kind))
  BY DEF Turns, KeepsInv, SourcesInv

\* what invoking r sends: its modifiers are lifted, but for those of the target
LEMMA InvokeSends ==
    ASSUME Apart, NEW r \in Remaps, Fits(From(r)), WinKey(r) \in {"Disabled", "L"}
    PROVE  /\ InvokeEvents(r) \in Seq(Event) /\ AllOurs(InvokeEvents(r))
           /\ \A key : Added(InvokeEvents(r), key) =>
                /\ Slot(key) \in Targets(To(r))
                /\ To(r).type = "key" => Added(InvokeEvents(r), FilterArtificialKeys(To(r).key))
           /\ \A kind \in Mods(r) : \A key : Slot(key) = SlotOf(kind) =>
                \/ Lifted(InvokeEvents(r), key)
                \/ To(r).type = "shortcut" /\ SlotOf(kind) \in Targets(To(r))
<1> DEFINE to == To(r)
           from == From(r)
           win == WinKey(r)
           events == InvokeEvents(r)
<1>1. from \in Shortcut /\ to \in Target
  BY RemapSides
<1>2. \A kind \in Mods(r) : ModifierKey(from, kind, win) # NoKey
                            /\ ModifierKey(from, kind, win)[1] = kind
  <2>1. NoKey \notin Keys
    BY DEF NoKey, Keys, Kinds
  <2> QED
    BY <1>1, <2>1, ModifierKeySlot DEF Mods
<1>3. CASE to.type = "shortcut"
  <2> DEFINE U == ModifiersUp(from, win, "shortcut", to.to, NoKey)
             V == ModifiersDown(to.to, win, "shortcut", from, NoKey)
             W == Down(to.to.key)
  <2>1. /\ to.to \in Shortcut /\ Fits(to.to) /\ to.to.key \in Keys /\ Proper(to.to.key)
        /\ Slot(to.to.key) = to.to.key
    BY <1>3, RemapSides
  <2>2. OnlyUps(U) /\ OnlyDowns(V) /\ OnlyDowns(W)
    BY <1>1, <2>1, ModifiersUps, DownEvent
  <2>3. events = U \o V \o W
    BY <1>3 DEF InvokeEvents
  <2>4. \A key : Lifted(U, key) <=>
          \E kind \in Mods(r) : SendsUp(from, kind, win, to.to, NoKey) /\ Slot(key) = SlotOf(kind)
    BY <1>1, ModifiersUpEvents DEF Mods
  <2>5. \A key : Added(V, key) => \E kind \in DOMAIN to.to.mods : Slot(key) = SlotOf(kind)
    BY <2>1, ModifiersDownEvents
  <2>6. \A key : Added(W, key) => Slot(key) = to.to.key
    BY <2>1, DownEvent
  <2>7. Targets(to) = {SlotOf(kind) : kind \in DOMAIN to.to.mods} \cup {to.to.key}
    BY <1>3 DEF Targets
  <2>8. \A kind \in Mods(r) : SendsUp(from, kind, win, to.to, NoKey) \/ kind \in DOMAIN to.to.mods
    BY <1>2 DEF SendsUp, ModifierKey
  <2> HIDE DEF U, V, W
  <2>9. /\ events \in Seq(Event) /\ AllOurs(events)
        /\ \A key : /\ Lifted(events, key) <=> Lifted(U, key)
                    /\ Added(events, key) <=> Added(V, key) \/ Added(W, key)
    BY <2>2, <2>3, UpsDownsDowns
  <2> HIDE DEF events
  <2>10. \A key : Added(events, key) => Slot(key) \in Targets(to)
    BY <2>5, <2>6, <2>7, <2>9
  <2>11. \A kind \in Mods(r) : \A key : Slot(key) = SlotOf(kind) =>
           Lifted(events, key) \/ SlotOf(kind) \in Targets(to)
    BY <2>4, <2>7, <2>8, <2>9
  <2> QED
    BY <1>3, <2>9, <2>10, <2>11 DEF events
<1>4. CASE to.type # "shortcut"
  <2> DEFINE U == ModifiersUp(from, win, "shortcut", Empty, NoKey)
  <2>1. OnlyUps(U)
    BY <1>1, ModifiersUps
  <2>2. \A kind \in Mods(r) : SendsUp(from, kind, win, Empty, NoKey)
    BY <1>2 DEF SendsUp
  <2>3. \A kind \in Mods(r) : \A key : Slot(key) = SlotOf(kind) => Lifted(U, key)
    BY <1>1, <2>2, ModifiersUpEvents DEF Mods
  <2>4. CASE to.type = "key"
    <3> DEFINE target == FilterArtificialKeys(to.key)
               W == Down(target)
    <3>1. target \in Keys /\ Proper(target) /\ Targets(to) = {Slot(target)}
      BY <2>4, RemapSides DEF Targets
    <3>2. /\ OnlyDowns(W) /\ Added(W, target)
          /\ \A key : Added(W, key) => Slot(key) = Slot(target)
      BY <3>1, DownEvent
    <3>3. events = U \o W
      BY <2>4 DEF InvokeEvents
    <3> HIDE DEF U, W
    <3>4. /\ events \in Seq(Event) /\ AllOurs(events)
          /\ \A key : /\ Lifted(events, key) <=> Lifted(U, key)
                      /\ Added(events, key) <=> Added(W, key)
      BY <2>1, <3>2, <3>3, UpsDowns
    <3> HIDE DEF events
    <3> QED
      BY <2>3, <3>1, <3>2, <3>4 DEF events
  <2>5. CASE to.type \in {"disabled", "text"}
    <3>1. events = U
      BY <2>5 DEF InvokeEvents
    <3> HIDE DEF U, events
    <3> QED
      BY <2>1, <2>3, <3>1 DEF OnlyUps, events
  <2> QED
    BY <1>1, <1>4, <2>4, <2>5, TargetKeys
<1> QED
  BY <1>3, <1>4

LEMMA InvokeKeeps ==
    ASSUME NEW r, NEW e, Turns(r, e), Invoke(r, e)
    PROVE  KeepsInv'
<1> DEFINE events == InvokeEvents(r)
<1>1. /\ Apart /\ TypeOK /\ r \in Remaps /\ KeysInv /\ ShortcutsInv /\ Settled = down
      /\ \A key : AsksUp(key) <=> e.dir = "up" /\ key = e.key
  BY DEF Turns, KeepsInv
<1>2. /\ Invoked(r[1]) = {} /\ CheckModifiersKeyboardState(From(r))
      /\ e.dir = "down" /\ e.key = From(r).key
  BY DEF Invoke, IsInvoked
<1>3. Fits(From(r)) /\ WinKey(r) \in {"Disabled", "L"}
  BY <1>1, <1>2, StateMods, WinKeyLeft
<1>4. /\ events \in Seq(Event) /\ AllOurs(events)
      /\ \A key : Added(events, key) =>
           /\ Slot(key) \in Targets(To(r))
           /\ To(r).type = "key" => Added(events, FilterArtificialKeys(To(r).key))
      /\ \A kind \in Mods(r) : \A key : Slot(key) = SlotOf(kind) =>
           \/ Lifted(events, key)
           \/ To(r).type = "shortcut" /\ SlotOf(kind) \in Targets(To(r))
  BY <1>1, <1>3, InvokeSends
<1>5. Send(events)
  BY DEF Invoke
<1> HIDE DEF events
<1>6. Sent(events)
  BY <1>4, <1>5, SendQuiet
<1>7. AllInvoked' = AllInvoked \cup {r} /\ \A s \in AllInvoked : s[1] # r[1]
  <2>1. isShortcutInvoked' = [isShortcutInvoked EXCEPT ![r] = TRUE]
    BY DEF Invoke
  <2>2. isShortcutInvoked \in [Remaps -> BOOLEAN]
    BY <1>1 DEF TypeOK
  <2> QED
    BY <1>1, <1>2, <2>1, <2>2 DEF AllInvoked, Invoked
<1>8. \A s \in Remaps : winKeyInvoked'[s] \in {"Disabled", "L"}
  <2>1. winKeyInvoked' = [winKeyInvoked EXCEPT ![r] = WinKey(r)]
    BY DEF Invoke
  <2>2. winKeyInvoked \in [Remaps -> {"Disabled", "L", "R"}]
    BY <1>1 DEF TypeOK
  <2> QED
    BY <1>1, <1>3, <2>1, <2>2 DEF ShortcutsInv
<1>9. Invokes(r, r)
  <2>1. \A kind \in Mods(r) : Sourced(SlotOf(kind)) /\ \A s \in AllInvoked : kind \notin Mods(s)
    BY <1>2, InvokedMods
  <2>2. ASSUME NEW kind \in Mods(r) PROVE ~OfLast(SlotOf(kind))
    <3>1. Given(last) = {From(r).key} /\ From(r).key[1] \notin Kinds
      BY <1>1, <1>2, RemapSides DEF Turns
    <3>2. SlotOf(kind)[1] \in Kinds
      BY <1>1, <2>2, ModsKinds DEF SlotOf
    <3> QED
      BY <3>1, <3>2 DEF OfLast
  <2>3. \A s \in AllInvoked : \A kind \in Mods(s) : Sourced(SlotOf(kind))
    BY <1>2, OthersSourced
  <2> QED
    BY <1>3, <2>1, <2>2, <2>3 DEF Invokes
<1>10. \A key \in Keys : Added(events, key) => Presses(r, key, Settled')
  <2>1. To(r).type = "key" => FilterArtificialKeys(To(r).key) \in Keys
    BY <1>1, RemapSides
  <2> QED
    BY <1>4, <1>6, <2>1 DEF Presses, Sent, After
<1>11. AddsFor(r, r, events)
  BY <1>7, <1>10 DEF AddsFor
<1>12. LeavesFor(r, r, events)
  <2>1. r \notin AllInvoked /\ \A key : ~AsksUp(key)
    BY <1>1, <1>2, <1>7
  <2>2. ASSUME NEW key \in down, ~Lifted(events, key), key[1] \in Mods(r)
        PROVE  Presses(r, key, Settled')
    <3>1. Slot(key) = SlotOf(key[1])
      BY <1>1, <2>2, ModsKinds DEF Slot
    <3> QED
      BY <1>4, <2>2, <3>1 DEF Presses
  <2> QED
    BY <2>1, <2>2 DEF LeavesFor
<1> QED
  BY <1>1, <1>6, <1>7, <1>8, <1>9, <1>11, <1>12, Handled

\* what the reset of r leaves
LEMMA ResetLeaves ==
    ASSUME TypeOK, AtMostOne, ShortcutsInv, NEW r \in Remaps, r \in AllInvoked, Reset(r)
    PROVE  /\ AllInvoked' = AllInvoked \ {r} /\ r \notin AllInvoked'
           /\ \A s \in AllInvoked \ {r} : s[1] # r[1]
           /\ \A s \in Remaps : winKeyInvoked'[s] \in {"Disabled", "L"}
<1>1. /\ isShortcutInvoked' = [isShortcutInvoked EXCEPT ![r] = FALSE]
      /\ winKeyInvoked' = [winKeyInvoked EXCEPT ![r] = "Disabled"]
  BY DEF Reset
<1>2. /\ isShortcutInvoked \in [Remaps -> BOOLEAN]
      /\ winKeyInvoked \in [Remaps -> {"Disabled", "L", "R"}]
  BY DEF TypeOK
<1>3. AllInvoked' = AllInvoked \ {r}
  BY <1>1, <1>2 DEF AllInvoked
<1>4. \A s \in AllInvoked \ {r} : s[1] # r[1]
  BY DEF AllInvoked, AtMostOne
<1>5. \A s \in Remaps : winKeyInvoked'[s] \in {"Disabled", "L"}
  BY <1>1, <1>2 DEF ShortcutsInv
<1> QED
  BY <1>3, <1>4, <1>5

\* What r's target has pressed is lifted, or held.
Unpresses(r, events) ==
    \A key \in down : ~Lifted(events, key) /\ Presses(r, key, down) => Sourced(Slot(key))

\* r ends: its modifiers that are pressed again are held, and its target is up.
LEMMA EndKeeps ==
    ASSUME NEW r, NEW e, Turns(r, e), r \in AllInvoked, Reset(r), NEW events, Sent(events),
           \A s \in AllInvoked \ {r} : \A kind \in Mods(s) : e.dir = "down" \/ e.key # SlotOf(kind),
           \A key \in Keys : Added(events, key) =>
              \/ \E kind \in Mods(r) : Slot(key) = SlotOf(kind) /\ Sourced(SlotOf(kind))
              \/ Slot(key) \in FromKeys,
           \A key \in down : ~Lifted(events, key) =>
              e.dir = "down" \/ e.key # Slot(key) \/ Slot(key) \in FromKeys,
           Unpresses(r, events)
    PROVE  KeepsInv'
<1>1. /\ r \in Remaps /\ TypeOK /\ AtMostOne /\ ShortcutsInv
      /\ \A key : AsksUp(key) <=> e.dir = "up" /\ key = e.key
  BY DEF Turns, KeepsInv
<1>2. /\ AllInvoked' = AllInvoked \ {r} /\ r \notin AllInvoked'
      /\ \A s \in AllInvoked \ {r} : s[1] # r[1]
      /\ \A s \in Remaps : winKeyInvoked'[s] \in {"Disabled", "L"}
  BY <1>1, ResetLeaves
<1>3. Invokes(r, r)
  BY <1>2, OthersSourced DEF Invokes
<1>4. AddsFor(r, r, events)
  BY <1>2 DEF AddsFor
<1>5. LeavesFor(r, r, events)
  <2>1. \A key \in down : ~Lifted(events, key) => ~AsksUp(Slot(key)) \/ Slot(key) \in FromKeys
    BY <1>1
  <2> QED
    BY <1>2, <2>1 DEF LeavesFor, Unpresses
<1> QED
  BY <1>1, <1>2, <1>3, <1>4, <1>5, Handled

\* a modifier of the target of r that another shortcut has as well
Shares(r, other, released, key) ==
    /\ other # Empty
    /\ \E kind \in DOMAIN other.mods :
         /\ kind \in DOMAIN To(r).to.mods /\ ~Checks(To(r).to, kind, released)
         /\ Slot(key) = SlotOf(kind)

\* The target of r is lifted, but for the modifiers of another shortcut.
LEMMA TargetLifted ==
    ASSUME Apart, TypeOK, NEW r \in Remaps, To(r).type = "shortcut", NEW other, NEW released,
           NEW win \in {"Disabled", "L"}, NEW key \in down, Presses(r, key, down)
    PROVE  \/ Lifted(UpIfDown(To(r).to.key), key)
           \/ Lifted(ModifiersUp(To(r).to, win, "shortcut", other, released), key)
           \/ Shares(r, other, released, key)
<1> DEFINE old == To(r).to
<1>1. /\ old \in Shortcut /\ Fits(old) /\ old.key \in Keys /\ Proper(old.key)
      /\ Slot(old.key) = old.key /\ old.key[1] \notin Kinds
  BY RemapSides, ShortcutParts
<1>2. Slot(key) = old.key \/ \E kind \in DOMAIN old.mods : Slot(key) = SlotOf(kind)
  BY DEF Presses, Targets
<1>3. CASE Slot(key) = old.key
  <2>1. key[1] \in Kinds => Slot(key)[1] \in Kinds
    BY DEF Slot, SlotOf
  <2>2. key = old.key
    BY <1>1, <1>3, <2>1 DEF Slot
  <2> QED
    BY <1>1, <2>2, UpEvent
<1>4. ASSUME NEW kind \in DOMAIN old.mods, Slot(key) = SlotOf(kind)
      PROVE  \/ Lifted(ModifiersUp(old, win, "shortcut", other, released), key)
             \/ /\ other # Empty /\ kind \in DOMAIN other.mods
                /\ ~Checks(old, kind, released)
  <2>1. SendsUp(old, kind, win, other, released) =>
          Lifted(ModifiersUp(old, win, "shortcut", other, released), key)
    BY <1>1, <1>4, ModifiersUpEvents
  <2>2. ModifierKey(old, kind, win) # NoKey
    <3>1. NoKey \notin Keys
      BY DEF NoKey, Keys, Kinds
    <3> QED
      BY <1>1, <1>4, <3>1, ModifierKeySlot
  <2>3. ~SendsUp(old, kind, win, other, released) =>
          /\ other # Empty /\ kind \in DOMAIN other.mods
          /\ ~Checks(old, kind, released)
    BY <2>2 DEF SendsUp, ModifierKey
  <2> QED
    BY <2>1, <2>3
<1> QED
  BY <1>2, <1>3, <1>4 DEF Shares

LEMMA NotEmpty ==
    ASSUME NEW s \in Shortcut
    PROVE  s # Empty
<1>1. DOMAIN s.mods # {} /\ DOMAIN Empty.mods = {}
  BY ShortcutParts DEF Empty
<1> QED
  BY <1>1

LEMMA RestoreSends ==
    ASSUME Apart, TypeOK, NEW r \in Remaps, Fits(From(r)), winKeyInvoked[r] \in {"Disabled", "L"},
           NEW released
    PROVE  LET events == ModifierUpEvents(r, released) IN
           /\ events \in Seq(Event) /\ AllOurs(events)
           /\ \A key : Added(events, key) =>
                \E kind \in Mods(r) :
                   ~Checks(From(r), kind, released) /\ Slot(key) = SlotOf(kind)
           /\ \A key \in down : Presses(r, key, down) =>
                \/ Lifted(events, key)
                \/ /\ To(r).type = "shortcut"
                   /\ \E kind \in Mods(r) :
                        /\ kind \in DOMAIN To(r).to.mods /\ ~Checks(To(r).to, kind, released)
                        /\ Slot(key) = SlotOf(kind)
<1> DEFINE to == To(r)
           from == From(r)
           win == winKeyInvoked[r]
           Original(other) == ModifiersDown(from, win, "shortcut", other, released)
           events == ModifierUpEvents(r, released)
<1>1. from \in Shortcut /\ to \in Target /\ from # Empty
  BY RemapSides, NotEmpty
<1>2. \A other :
        /\ OnlyDowns(Original(other))
        /\ \A key : Added(Original(other), key) =>
             \E kind \in Mods(r) : ~Checks(from, kind, released) /\ Slot(key) = SlotOf(kind)
  BY <1>1, ModifiersUps, ModifiersDownEvents DEF Mods, SendsDown
<1>3. CASE to.type = "shortcut"
  <2> DEFINE T == UpIfDown(to.to.key)
             U == ModifiersUp(to.to, win, "shortcut", from, released)
             V == Original(to.to)
  <2>1. to.to \in Shortcut /\ Fits(to.to) /\ to.to.key \in Keys /\ Proper(to.to.key)
    BY <1>3, RemapSides
  <2>2. OnlyUps(T) /\ OnlyUps(U) /\ OnlyDowns(V) /\ OnlyDowns(<<>>)
    BY <1>2, <2>1, UpEvent, ModifiersUps, NothingUpsDowns
  <2>3. events = T \o U \o V
    BY <1>3 DEF ModifierUpEvents
  <2>4. \A key \in down : Presses(r, key, down) =>
          \/ Lifted(T, key) \/ Lifted(U, key)
          \/ \E kind \in Mods(r) :
               /\ kind \in DOMAIN to.to.mods /\ ~Checks(to.to, kind, released)
               /\ Slot(key) = SlotOf(kind)
    <3> SUFFICES ASSUME NEW key \in down, Presses(r, key, down)
                 PROVE  \/ Lifted(T, key) \/ Lifted(U, key)
                        \/ \E kind \in DOMAIN from.mods :
                             /\ kind \in DOMAIN to.to.mods /\ ~Checks(to.to, kind, released)
                             /\ Slot(key) = SlotOf(kind)
      BY DEF Mods
    <3>1. \/ Lifted(UpIfDown(To(r).to.key), key)
          \/ Lifted(ModifiersUp(To(r).to, win, "shortcut", From(r), released), key)
          \/ Shares(r, From(r), released, key)
      BY <1>3, TargetLifted
    <3> QED
      BY <3>1 DEF Shares
  <2>5. \A key : Added(V, key) =>
          \E kind \in Mods(r) : ~Checks(from, kind, released) /\ Slot(key) = SlotOf(kind)
    BY <1>2
  <2> HIDE DEF T, U, V
  <2>6. OnlyUps(T \o U) /\ \A key : Lifted(T \o U, key) <=> Lifted(T, key) \/ Lifted(U, key)
    BY <2>2, UpsConcat
  <2> DEFINE W == T \o U
  <2> HIDE DEF events, W
  <2>7. /\ W \o V \in Seq(Event) /\ AllOurs(W \o V)
        /\ \A key : /\ Lifted(W \o V, key) <=> Lifted(W, key)
                    /\ Added(W \o V, key) <=> Added(V, key)
    BY <2>2, <2>6, UpsDowns DEF W
  <2>8. \A key : Added(events, key) =>
          \E kind \in Mods(r) : ~Checks(from, kind, released) /\ Slot(key) = SlotOf(kind)
    BY <2>3, <2>5, <2>7 DEF W
  <2>9. \A key \in down : Presses(r, key, down) =>
          \/ Lifted(events, key)
          \/ \E kind \in Mods(r) :
               /\ kind \in DOMAIN to.to.mods /\ ~Checks(to.to, kind, released)
               /\ Slot(key) = SlotOf(kind)
    BY <2>3, <2>4, <2>6, <2>7 DEF W
  <2>10. events \in Seq(Event) /\ AllOurs(events)
    BY <2>3, <2>7 DEF W
  <2> QED
    BY <1>3, <2>8, <2>9, <2>10 DEF events
<1>4. CASE to.type = "key"
  <2> DEFINE target == FilterArtificialKeys(to.key)
             T == UpIfDown(target)
             V == Original(Empty)
  <2>1. target \in Keys /\ Proper(target)
    BY <1>4, RemapSides
  <2>2. OnlyUps(T) /\ \A key : Lifted(T, key) <=> target \in down /\ Slot(key) = Slot(target)
    BY <2>1, UpEvent
  <2>3. events = T \o V
    BY <1>4 DEF ModifierUpEvents
  <2>4. \A key \in down : Presses(r, key, down) => Lifted(T, key)
    BY <1>4, <2>2 DEF Presses, Targets
  <2>5. OnlyDowns(V)
    BY <1>2
  <2>6. \A key : Added(V, key) =>
          \E kind \in Mods(r) : ~Checks(from, kind, released) /\ Slot(key) = SlotOf(kind)
    BY <1>2
  <2> HIDE DEF T, V
  <2>7. /\ events \in Seq(Event) /\ AllOurs(events)
        /\ \A key : /\ Lifted(events, key) <=> Lifted(T, key)
                    /\ Added(events, key) <=> Added(V, key)
    BY <2>2, <2>3, <2>5, UpsDowns
  <2> HIDE DEF events
  <2> QED
    BY <2>4, <2>6, <2>7 DEF events
<1>5. CASE to.type \in {"disabled", "text"}
  <2>1. \A key : ~Presses(r, key, down)
    BY <1>5 DEF Presses, Targets
  <2>2. events = Original(Empty) \/ events = <<>>
    BY <1>5 DEF ModifierUpEvents
  <2>3. /\ OnlyDowns(events)
        /\ \A key : Added(events, key) =>
             \E kind \in Mods(r) : ~Checks(from, kind, released) /\ Slot(key) = SlotOf(kind)
    <3>1. CASE events = Original(Empty)
      BY <1>2, <3>1
    <3>2. CASE events = <<>>
      BY <3>2, NothingUpsDowns
    <3> QED
      BY <2>2, <3>1, <3>2
  <2> HIDE DEF events
  <2> QED
    BY <2>1, <2>3 DEF OnlyDowns, events
<1> QED
  BY <1>1, <1>3, <1>4, <1>5, TargetKeys

LEMMA ReleaseModifierKeeps ==
    ASSUME NEW r, NEW e, Turns(r, e), ReleaseModifier(r, e)
    PROVE  KeepsInv'
<1> DEFINE events == ModifierUpEvents(r, e.key)
<1>1. /\ Apart /\ TypeOK /\ r \in Remaps /\ ShortcutsInv /\ LiftedInv /\ Settled = down
      /\ e \in Event /\ Theirs(e)
  BY DEF Turns, KeepsInv
<1>2. isShortcutInvoked[r] /\ e.dir = "up" /\ HasModifier(From(r), e.key)
  BY DEF ReleaseModifier, IsModifierUp
<1>3. r \in AllInvoked /\ Fits(From(r)) /\ winKeyInvoked[r] \in {"Disabled", "L"}
  BY <1>1, <1>2 DEF AllInvoked, ShortcutsInv
<1>4. PICK kind \in Kinds : Checks(From(r), kind, e.key)
  BY <1>2 DEF HasModifier
<1>5. kind \in Mods(r) /\ e.key = SlotOf(kind)
  BY <1>1, <1>4 DEF Checks, Mods, Theirs, Slot
<1>6. /\ events \in Seq(Event) /\ AllOurs(events)
      /\ \A key : Added(events, key) =>
           \E k \in Mods(r) : ~Checks(From(r), k, e.key) /\ Slot(key) = SlotOf(k)
      /\ \A key \in down : Presses(r, key, down) =>
           \/ Lifted(events, key)
           \/ /\ To(r).type = "shortcut"
              /\ \E k \in Mods(r) :
                   /\ k \in DOMAIN To(r).to.mods /\ ~Checks(To(r).to, k, e.key)
                   /\ Slot(key) = SlotOf(k)
  BY <1>1, <1>3, RestoreSends
<1>7. Send(events) /\ Reset(r)
  BY DEF ReleaseModifier
<1> HIDE DEF events
<1>8. Sent(events)
  BY <1>6, <1>7, SendQuiet
<1>9. \A k : k # kind => e.key # SlotOf(k)
  BY <1>5 DEF SlotOf
<1>10. \A k \in Mods(r) : k # kind => Sourced(SlotOf(k))
  BY <1>3, <1>9, OthersSourced
<1>11. \A s \in AllInvoked \ {r} : \A k \in Mods(s) : e.key # SlotOf(k)
  BY <1>3, <1>5, <1>9 DEF Turns, KeepsInv, ShortcutsInv
<1>12. \A key \in Keys : Added(events, key) =>
         \E k \in Mods(r) : Slot(key) = SlotOf(k) /\ Sourced(SlotOf(k))
  BY <1>4, <1>6, <1>10
<1>13. To(r).type = "shortcut" /\ kind \in DOMAIN To(r).to.mods => Checks(To(r).to, kind, e.key)
  <2>1. Side[kind] \in {"L", "R"}
    BY <1>1, <1>4, SideChosen
  <2>2. e.key = <<kind, Side[kind]>> /\ e.key # <<"Win", "B">>
    BY <1>5, <2>1 DEF SlotOf
  <2>3. To(r).type = "shortcut" => Fits(To(r).to)
    BY <1>1, RemapSides
  <2> QED
    BY <2>2, <2>3 DEF Checks, Fits
<1>14. \A key \in down : ~Lifted(events, key) /\ Presses(r, key, down) =>
         \E k \in Mods(r) : k # kind /\ Slot(key) = SlotOf(k)
  BY <1>6, <1>13
<1>15. \A key \in down : ~Lifted(events, key) => e.key # Slot(key)
  <2> SUFFICES ASSUME NEW key \in down, ~Lifted(events, key), Slot(key) = SlotOf(kind)
               PROVE  FALSE
    BY <1>5
  <2>1. key[1] = kind
    <3>1. key[1] \in Kinds
      <4>1. key[1] \notin Kinds => Slot(key) = key
        BY DEF Slot
      <4> QED
        BY <1>4, <4>1 DEF SlotOf
    <3> QED
      BY <3>1, SlotKind
  <2>2. Presses(r, key, down)
    BY <1>1, <1>3, <1>5, <2>1 DEF LiftedInv
  <2> QED
    BY <1>5, <1>9, <1>14, <2>2
<1>16. Unpresses(r, events)
  BY <1>10, <1>14 DEF Unpresses
<1> QED
  BY <1>3, <1>7, <1>8, <1>11, <1>12, <1>15, <1>16, EndKeeps

\* the modifiers of r, pressed again
LEMMA OriginalDowns ==
    ASSUME Apart, NEW r \in Remaps, Fits(From(r)), NEW win \in {"Disabled", "L"}, NEW other
    PROVE  LET events == ModifiersDown(From(r), win, "shortcut", other, NoKey) IN
           /\ OnlyDowns(events)
           /\ \A key : Added(events, key) => \E kind \in Mods(r) : Slot(key) = SlotOf(kind)
<1>1. From(r) \in Shortcut
  BY RemapSides
<1> QED
  BY <1>1, ModifiersUps, ModifiersDownEvents DEF Mods

\* The action key of r is no modifier.
LEMMA ActionKey ==
    ASSUME NEW r \in Remaps, NEW s \in Remaps, NEW kind \in Mods(s)
    PROVE  From(r).key # SlotOf(kind) /\ From(r).key \in FromKeys
<1>1. From(r).key[1] \notin Kinds /\ kind \in Kinds
  BY RemapTypes, ShortcutParts, ModsKinds
<1> QED
  BY <1>1 DEF SlotOf, FromKeys

LEMMA InvokedParts ==
    ASSUME NEW r, NEW e, Turns(r, e), isShortcutInvoked[r]
    PROVE  /\ r \in AllInvoked /\ Fits(From(r)) /\ winKeyInvoked[r] \in {"Disabled", "L"}
           /\ r \in Remaps /\ Apart /\ TypeOK /\ AtMostOne /\ Settled = down
           /\ ShortcutsInv /\ AllInvoked \subseteq Remaps
  BY DEF AllInvoked, Turns, KeepsInv, ShortcutsInv

LEMMA ReleaseActionAmongOthersKeeps ==
    ASSUME NEW r, NEW e, Turns(r, e), ReleaseActionAmongOthers(r, e)
    PROVE  KeepsInv'
<1> DEFINE target == FilterArtificialKeys(To(r).key)
           U == Up(target)
           V == ModifiersDown(From(r), winKeyInvoked[r], "shortcut", Empty, NoKey)
           events == U \o V
<1>1. isShortcutInvoked[r] /\ e.key = From(r).key /\ To(r).type = "key"
  BY DEF ReleaseActionAmongOthers, IsActionUp, TargetHeld
<1>2. /\ r \in AllInvoked /\ Fits(From(r)) /\ winKeyInvoked[r] \in {"Disabled", "L"}
      /\ r \in Remaps /\ Apart /\ TypeOK /\ AllInvoked \subseteq Remaps
  BY <1>1, InvokedParts
<1>3. target \in Keys /\ Proper(target) /\ Targets(To(r)) = {Slot(target)}
  BY <1>1, <1>2, RemapSides DEF Targets
<1>4. OnlyUps(U) /\ \A key : Lifted(U, key) <=> Slot(key) = Slot(target)
  BY <1>3, UpEvent
<1>5. OnlyDowns(V) /\ \A key : Added(V, key) => \E kind \in Mods(r) : Slot(key) = SlotOf(kind)
  BY <1>2, OriginalDowns
<1>6. Send(events) /\ Reset(r)
  BY DEF ReleaseActionAmongOthers
<1> HIDE DEF target, U, V
<1>7. /\ events \in Seq(Event) /\ AllOurs(events)
      /\ \A key : /\ Lifted(events, key) <=> Lifted(U, key)
                  /\ Added(events, key) <=> Added(V, key)
  BY <1>4, <1>5, UpsDowns
<1> HIDE DEF events
<1>8. Sent(events)
  BY <1>6, <1>7, SendQuiet
<1>9. \A s \in AllInvoked : \A kind \in Mods(s) : e.key # SlotOf(kind)
  BY <1>1, <1>2, ActionKey
<1>10. \A kind \in Mods(r) : Sourced(SlotOf(kind))
  BY <1>2, <1>9, OthersSourced
<1>11. \A key \in Keys : Added(events, key) =>
         \E kind \in Mods(r) : Slot(key) = SlotOf(kind) /\ Sourced(SlotOf(kind))
  BY <1>5, <1>7, <1>10
<1>12. e.key \in FromKeys
  BY <1>1, <1>2 DEF FromKeys
<1>13. Unpresses(r, events)
  BY <1>3, <1>4, <1>7 DEF Unpresses, Presses
<1> QED
  BY <1>2, <1>6, <1>8, <1>9, <1>11, <1>12, <1>13, EndKeeps

LEMMA LeaveShortcutKeeps ==
    ASSUME NEW r, NEW e, Turns(r, e), LeaveShortcut(r, e)
    PROVE  KeepsInv'
<1> DEFINE old == To(r).to
           win == winKeyInvoked[r]
           T == UpIfDown(old.key)
           U == ModifiersUp(old, win, "shortcut", From(r), NoKey)
           V == ModifiersDown(From(r), win, "shortcut", old, NoKey)
           W == IF old.key \in down THEN Down(From(r).key) ELSE <<>>
           events == T \o U \o V \o W
<1>1. isShortcutInvoked[r] /\ e.dir = "down" /\ To(r).type = "shortcut"
  BY DEF LeaveShortcut, IsOther, TargetHeld
<1>2. /\ r \in AllInvoked /\ Fits(From(r)) /\ win \in {"Disabled", "L"}
      /\ r \in Remaps /\ Apart /\ TypeOK /\ AllInvoked \subseteq Remaps
  BY <1>1, InvokedParts
<1>3. /\ old \in Shortcut /\ Fits(old) /\ old.key \in Keys /\ Proper(old.key)
      /\ From(r).key \in Keys /\ Proper(From(r).key) /\ Slot(From(r).key) = From(r).key
  BY <1>1, <1>2, RemapSides
<1>4. OnlyUps(T) /\ OnlyUps(U)
  BY <1>2, <1>3, UpEvent, ModifiersUps
<1>5. OnlyDowns(V) /\ \A key : Added(V, key) => \E kind \in Mods(r) : Slot(key) = SlotOf(kind)
  BY <1>2, OriginalDowns
<1>6. OnlyDowns(W) /\ \A key : Added(W, key) => Slot(key) \in FromKeys
  BY <1>2, <1>3, DownEvent, NothingUpsDowns DEF FromKeys
<1>7. \A key \in down : Presses(r, key, down) =>
        Lifted(T, key) \/ Lifted(U, key) \/ Shares(r, From(r), NoKey, key)
  <2> SUFFICES ASSUME NEW key \in down, Presses(r, key, down)
               PROVE  Lifted(T, key) \/ Lifted(U, key) \/ Shares(r, From(r), NoKey, key)
    OBVIOUS
  <2> QED
    BY <1>1, <1>2, TargetLifted
<1>8. Send(events \o <<KeyEvent(e.key, "down", "none")>>) /\ Reset(r)
  BY DEF LeaveShortcut, RevertEvents
<1> HIDE DEF T, U, V, W
<1>9. /\ events \in Seq(Event) /\ AllOurs(events)
      /\ \A key : /\ Lifted(events, key) <=> Lifted(T, key) \/ Lifted(U, key)
                  /\ Added(events, key) <=> Added(V, key) \/ Added(W, key)
  BY <1>4, <1>5, <1>6, UpsUpsDownsDowns
<1> HIDE DEF events
<1>10. Sent(events)
  BY <1>1, <1>8, <1>9, SendAgain
<1>11. \A kind \in Mods(r) : Sourced(SlotOf(kind))
  BY <1>1, <1>2, OthersSourced
<1>12. \A key \in Keys : Added(events, key) =>
         \/ \E kind \in Mods(r) : Slot(key) = SlotOf(kind) /\ Sourced(SlotOf(kind))
         \/ Slot(key) \in FromKeys
  BY <1>5, <1>6, <1>9, <1>11
<1>13. Unpresses(r, events)
  <2>1. \A key : Shares(r, From(r), NoKey, key) => Sourced(Slot(key))
    BY <1>11 DEF Shares, Mods
  <2> QED
    BY <1>7, <1>9, <2>1 DEF Unpresses
<1> QED
  BY <1>1, <1>2, <1>8, <1>10, <1>12, <1>13, EndKeeps

LEMMA LeaveKeyKeeps ==
    ASSUME NEW r, NEW e, Turns(r, e), LeaveKey(r, e)
    PROVE  KeepsInv'
<1> DEFINE V == ModifiersDown(From(r), winKeyInvoked[r], "shortcut", Empty, NoKey)
           W == IF To(r).type = "disabled" /\ isOriginalActionKeyPressed[r]
                THEN Down(From(r).key) ELSE <<>>
           events == V \o W
<1>1. /\ isShortcutInvoked[r] /\ e.dir = "down" /\ To(r).type # "shortcut"
      /\ To(r).type = "key" => FilterArtificialKeys(To(r).key) \notin down
  BY DEF LeaveKey, IsOther, TargetHeld
<1>2. /\ r \in AllInvoked /\ Fits(From(r)) /\ winKeyInvoked[r] \in {"Disabled", "L"}
      /\ r \in Remaps /\ Apart /\ TypeOK /\ AllInvoked \subseteq Remaps
  BY <1>1, InvokedParts
<1>3. From(r).key \in Keys /\ Proper(From(r).key) /\ Slot(From(r).key) = From(r).key
  BY <1>2, RemapSides
<1>4. OnlyDowns(V) /\ \A key : Added(V, key) => \E kind \in Mods(r) : Slot(key) = SlotOf(kind)
  BY <1>2, OriginalDowns
<1>5. OnlyDowns(W) /\ \A key : Added(W, key) => Slot(key) \in FromKeys
  BY <1>2, <1>3, DownEvent, NothingUpsDowns DEF FromKeys
<1>6. Send(events \o <<KeyEvent(e.key, "down", "none")>>) /\ Reset(r)
  BY DEF LeaveKey
<1> HIDE DEF V, W
<1>7. /\ events \in Seq(Event) /\ AllOurs(events)
      /\ \A key : Added(events, key) <=> Added(V, key) \/ Added(W, key)
  BY <1>4, <1>5, DownsConcat DEF OnlyDowns
<1> HIDE DEF events
<1>8. Sent(events)
  BY <1>1, <1>6, <1>7, SendAgain
<1>9. \A kind \in Mods(r) : Sourced(SlotOf(kind))
  BY <1>1, <1>2, OthersSourced
<1>10. \A key \in Keys : Added(events, key) =>
         \/ \E kind \in Mods(r) : Slot(key) = SlotOf(kind) /\ Sourced(SlotOf(kind))
         \/ Slot(key) \in FromKeys
  BY <1>4, <1>5, <1>7, <1>9
<1>11. Unpresses(r, events)
  BY <1>1 DEF Unpresses, Presses, Targets
<1> QED
  BY <1>1, <1>2, <1>6, <1>8, <1>10, <1>11, EndKeeps

\* r goes on: it presses its target, or lifts it.
LEMMA StayKeeps ==
    ASSUME NEW r, NEW e, Turns(r, e), isShortcutInvoked[r],
           UNCHANGED <<isShortcutInvoked, winKeyInvoked>>, NEW events, Sent(events),
           e.dir = "down" \/ e.key = From(r).key,
           \A key \in Keys : Added(events, key) => Presses(r, key, Settled')
    PROVE  KeepsInv'
<1>1. /\ r \in AllInvoked /\ r \in Remaps /\ Apart /\ TypeOK /\ AtMostOne /\ Settled = down
      /\ ShortcutsInv /\ LiftedInv /\ AllInvoked \subseteq Remaps
      /\ \A key : AsksUp(key) <=> e.dir = "up" /\ key = e.key
  BY InvokedParts DEF Turns, KeepsInv
<1>2. AllInvoked' = AllInvoked /\ \A s \in Remaps : winKeyInvoked'[s] \in {"Disabled", "L"}
  BY <1>1 DEF AllInvoked, ShortcutsInv
<1>3. \A s \in AllInvoked \ {r} : s[1] # r[1]
  BY <1>1 DEF AllInvoked, AtMostOne
<1>4. \A s \in AllInvoked : \A kind \in Mods(s) : e.dir = "down" \/ e.key # SlotOf(kind)
  BY <1>1, ActionKey
<1>5. \A s \in AllInvoked : \A kind \in Mods(s) : Sourced(SlotOf(kind)) /\ ~OfLast(SlotOf(kind))
  BY <1>4, OthersSourced
<1>6. Invokes(r, r)
  BY <1>1, <1>5 DEF Invokes, ShortcutsInv
<1>7. AddsFor(r, r, events)
  BY <1>1, <1>2 DEF AddsFor
<1>8. LeavesFor(r, r, events)
  <2> SUFFICES ASSUME NEW key \in down, ~Lifted(events, key)
               PROVE  /\ ~AsksUp(Slot(key)) \/ Slot(key) \in FromKeys
                      /\ Presses(r, key, down) => Presses(r, key, Settled')
                      /\ key[1] \in Mods(r) => Presses(r, key, Settled')
    BY <1>1, <1>2 DEF LeavesFor
  <2>1. ~AsksUp(Slot(key)) \/ Slot(key) \in FromKeys
    BY <1>1 DEF FromKeys
  <2>2. Presses(r, key, down) => Presses(r, key, Settled')
    BY <1>1, PressesStays DEF Sent
  <2>3. key[1] \in Mods(r) => Presses(r, key, down)
    BY <1>1 DEF LiftedInv
  <2> QED
    BY <2>1, <2>2, <2>3
<1> QED
  BY <1>1, <1>2, <1>3, <1>6, <1>7, <1>8, Handled

LEMMA RepeatShortcutKeeps ==
    ASSUME NEW r, NEW e, Turns(r, e), RepeatShortcut(r, e)
    PROVE  KeepsInv'
<1> DEFINE events == RepeatEvents(To(r))
<1>1. isShortcutInvoked[r] /\ e.dir = "down"
  BY DEF RepeatShortcut, IsRepeated, TargetHeld
<1>2. r \in Remaps /\ Apart
  BY <1>1, InvokedParts
<1>3. /\ events \in Seq(Event) /\ AllOurs(events)
      /\ \A key : Added(events, key) =>
           /\ Slot(key) \in Targets(To(r))
           /\ To(r).type = "key" => Added(events, FilterArtificialKeys(To(r).key))
  <2>1. CASE To(r).type = "shortcut"
    <3> DEFINE target == To(r).to.key
    <3>1. target \in Keys /\ Proper(target) /\ Slot(target) = target
      BY <1>2, <2>1, RemapSides
    <3>2. events = Down(target)
      BY <2>1 DEF RepeatEvents
    <3>3. OnlyDowns(Down(target)) /\ \A k : Added(Down(target), k) => Slot(k) = target
      BY <3>1, DownEvent
    <3> QED
      BY <2>1, <3>2, <3>3 DEF OnlyDowns, Targets
  <2>2. CASE To(r).type = "key"
    <3> DEFINE target == FilterArtificialKeys(To(r).key)
    <3>1. target \in Keys /\ Proper(target)
      BY <1>2, <2>2, RemapSides
    <3>2. events = Down(target)
      BY <2>2 DEF RepeatEvents
    <3>3. /\ OnlyDowns(Down(target)) /\ Added(Down(target), target)
          /\ \A k : Added(Down(target), k) => Slot(k) = Slot(target)
      BY <3>1, DownEvent
    <3>4. Targets(To(r)) = {Slot(target)}
      BY <2>2 DEF Targets
    <3> QED
      BY <2>2, <3>2, <3>3, <3>4 DEF OnlyDowns
  <2>3. CASE To(r).type \in {"disabled", "text"}
    <3>1. events = <<>>
      BY <2>3 DEF RepeatEvents
    <3> QED
      BY <3>1, NothingUpsDowns DEF OnlyDowns
  <2>4. To(r) \in Target
    BY <1>2, RemapSides
  <2> QED
    BY <2>1, <2>2, <2>3, <2>4, TargetKeys
<1>4. Send(events) /\ UNCHANGED <<isShortcutInvoked, winKeyInvoked>>
  BY DEF RepeatShortcut
<1> HIDE DEF events
<1>5. Sent(events)
  BY <1>3, <1>4, SendQuiet
<1>6. To(r).type = "key" => FilterArtificialKeys(To(r).key) \in Keys
  BY <1>2, RemapSides
<1>7. \A key \in Keys : Added(events, key) => Presses(r, key, Settled')
  BY <1>3, <1>5, <1>6 DEF Sent, Presses, After
<1> QED
  BY <1>1, <1>4, <1>5, <1>7, StayKeeps

LEMMA ReleaseActionKeeps ==
    ASSUME NEW r, NEW e, Turns(r, e), ReleaseAction(r, e)
    PROVE  KeepsInv'
<1> DEFINE events ==
             CASE To(r).type = "shortcut" -> Up(To(r).to.key)
               [] To(r).type = "key" -> Up(FilterArtificialKeys(To(r).key))
               [] To(r).type = "disabled" -> <<>>
<1>1. isShortcutInvoked[r] /\ e.key = From(r).key /\ To(r).type # "text"
  BY DEF ReleaseAction, IsActionUp, TargetHeld
<1>2. r \in Remaps /\ Apart
  BY <1>1, InvokedParts
<1>3. OnlyUps(events)
  <2>1. CASE To(r).type = "shortcut"
    <3>1. events = Up(To(r).to.key)
      BY <2>1
    <3>2. To(r).to.key \in Keys /\ Proper(To(r).to.key)
      BY <1>2, <2>1, RemapSides
    <3> QED
      BY <3>1, <3>2, UpEvent
  <2>2. CASE To(r).type = "key"
    <3>1. events = Up(FilterArtificialKeys(To(r).key))
      BY <2>2
    <3>2. FilterArtificialKeys(To(r).key) \in Keys /\ Proper(FilterArtificialKeys(To(r).key))
      BY <1>2, <2>2, RemapSides
    <3> QED
      BY <3>1, <3>2, UpEvent
  <2>3. CASE To(r).type = "disabled"
    <3>1. events = <<>>
      BY <2>3
    <3> QED
      BY <3>1, NothingUpsDowns
  <2>4. To(r) \in Target
    BY <1>2, RemapSides
  <2> QED
    BY <1>1, <2>1, <2>2, <2>3, <2>4, TargetKeys
<1>4. Send(events) /\ UNCHANGED <<isShortcutInvoked, winKeyInvoked>>
  BY DEF ReleaseAction
<1> HIDE DEF events
<1>5. Sent(events)
  BY <1>3, <1>4, SendQuiet DEF OnlyUps
<1> QED
  BY <1>1, <1>3, <1>4, <1>5, StayKeeps DEF OnlyUps

LEMMA SuppressModifierKeeps ==
    ASSUME NEW r, NEW e, Turns(r, e), SuppressModifier(r, e)
    PROVE  KeepsInv'
<1>1. isShortcutInvoked[r] /\ e.dir = "down"
  BY DEF SuppressModifier, IsModifierDown, TargetHeld
<1>2. Send(<<>>) /\ UNCHANGED <<isShortcutInvoked, winKeyInvoked>>
  BY DEF SuppressModifier, remap
<1>3. Sent(<<>>)
  BY <1>2, SendQuiet, NothingUpsDowns DEF OnlyUps
<1> QED
  BY <1>1, <1>2, <1>3, StayKeeps, NothingUpsDowns

\* A shortcut gives way to another with the same modifiers: to one to a shortcut, ...
LEMMA ChangeSends ==
    ASSUME Apart, TypeOK, NEW r \in Remaps, NEW new \in Remaps, To(r).type = "shortcut",
           To(new).type \in {"shortcut", "disabled"}, winKeyInvoked[r] \in {"Disabled", "L"}
    PROVE  LET events == NewRemappingEvents(r, new) IN
           /\ events \in Seq(Event) /\ AllOurs(events)
           /\ \A key : Added(events, key) =>
                To(new).type = "shortcut" /\ Slot(key) \in Targets(To(new))
           /\ \A key \in down : Presses(r, key, down) =>
                \/ Lifted(events, key)
                \/ To(new).type = "shortcut" /\ Slot(key) \in Targets(To(new))
<1> DEFINE old == To(r).to
           win == winKeyInvoked[r]
           T == UpIfDown(old.key)
           events == NewRemappingEvents(r, new)
<1>1. old \in Shortcut /\ Fits(old) /\ old.key \in Keys /\ Proper(old.key)
  BY RemapSides
<1>2. OnlyUps(T)
  BY <1>1, UpEvent
<1>3. CASE To(new).type = "shortcut"
  <2> DEFINE to == To(new).to
             U == ModifiersUp(old, win, "shortcut", to, NoKey)
             V == ModifiersDown(to, win, "shortcut", old, NoKey)
             W == Down(to.key)
  <2>1. to \in Shortcut /\ Fits(to) /\ to.key \in Keys /\ Proper(to.key) /\ Slot(to.key) = to.key
    BY <1>3, RemapSides
  <2>2. OnlyUps(U)
    BY <1>1, ModifiersUps
  <2>3. OnlyDowns(V) /\ \A key : Added(V, key) => Slot(key) \in Targets(To(new))
    <3>1. \A key : Added(V, key) => \E kind \in DOMAIN to.mods : Slot(key) = SlotOf(kind)
      BY <2>1, ModifiersDownEvents
    <3>2. \A kind \in DOMAIN to.mods : SlotOf(kind) \in Targets(To(new))
      BY <1>3 DEF Targets
    <3> QED
      BY <2>1, <3>1, <3>2, ModifiersUps
  <2>4. OnlyDowns(W) /\ \A key : Added(W, key) => Slot(key) \in Targets(To(new))
    BY <1>3, <2>1, DownEvent DEF Targets
  <2>5. \A key \in down : Presses(r, key, down) =>
          Lifted(T, key) \/ Lifted(U, key) \/ Slot(key) \in Targets(To(new))
    <3> SUFFICES ASSUME NEW key \in down, Presses(r, key, down)
                 PROVE  Lifted(T, key) \/ Lifted(U, key) \/ Slot(key) \in Targets(To(new))
      OBVIOUS
    <3>1. Lifted(T, key) \/ Lifted(U, key) \/ Shares(r, to, NoKey, key)
      BY TargetLifted
    <3>2. Shares(r, to, NoKey, key) => Slot(key) \in Targets(To(new))
      BY <1>3 DEF Shares, Targets
    <3> QED
      BY <3>1, <3>2
  <2>6. events = U \o T \o V \o W
    BY <1>3 DEF NewRemappingEvents
  <2> HIDE DEF T, U, V, W
  <2>7. /\ events \in Seq(Event) /\ AllOurs(events)
        /\ \A key : /\ Lifted(events, key) <=> Lifted(U, key) \/ Lifted(T, key)
                    /\ Added(events, key) <=> Added(V, key) \/ Added(W, key)
    BY <1>2, <2>2, <2>3, <2>4, <2>6, UpsUpsDownsDowns
  <2> HIDE DEF events
  <2> QED
    BY <1>3, <2>3, <2>4, <2>5, <2>7 DEF events
<1>4. CASE To(new).type = "disabled"
  <2> DEFINE U == ModifiersUp(old, win, "shortcut", Empty, NoKey)
  <2>1. OnlyUps(U)
    BY <1>1, ModifiersUps
  <2>2. \A key \in down : Presses(r, key, down) => Lifted(T, key) \/ Lifted(U, key)
    <3> SUFFICES ASSUME NEW key \in down, Presses(r, key, down)
                 PROVE  Lifted(T, key) \/ Lifted(U, key)
      OBVIOUS
    <3>1. Lifted(T, key) \/ Lifted(U, key) \/ Shares(r, Empty, NoKey, key)
      BY TargetLifted
    <3> QED
      BY <3>1 DEF Shares
  <2>3. events = U \o T
    <3>1. events = U \o T \o <<>>
      BY <1>4 DEF NewRemappingEvents
    <3>2. U \o T \in Seq(Event)
      BY <1>2, <2>1, UpsConcat DEF OnlyUps
    <3> QED
      BY <3>1, <3>2
  <2> HIDE DEF T, U
  <2>4. OnlyUps(events) /\ \A key : Lifted(events, key) <=> Lifted(U, key) \/ Lifted(T, key)
    BY <1>2, <2>1, <2>3, UpsConcat
  <2> HIDE DEF events
  <2> QED
    BY <2>2, <2>4 DEF OnlyUps, events
<1> QED
  BY <1>3, <1>4

LEMMA ChangeShortcutKeeps ==
    ASSUME NEW r, NEW e, Turns(r, e), ChangeShortcut(r, e)
    PROVE  KeepsInv'
<1>1. isShortcutInvoked[r] /\ e.dir = "down" /\ To(r).type = "shortcut"
  BY DEF ChangeShortcut, IsOther, TargetHeld
<1>2. /\ r \in AllInvoked /\ Fits(From(r)) /\ winKeyInvoked[r] \in {"Disabled", "L"}
      /\ r \in Remaps /\ Apart /\ TypeOK /\ AtMostOne /\ Settled = down
      /\ ShortcutsInv /\ LiftedInv /\ KeysInv /\ AllInvoked \subseteq Remaps
      /\ \A key : AsksUp(key) <=> e.dir = "up" /\ key = e.key
  BY <1>1, InvokedParts DEF Turns, KeepsInv
<1>3. PICK new \in NewRemappings(r, e.key) :
        /\ To(new).type # "text"
        /\ isShortcutInvoked' =
             [isShortcutInvoked EXCEPT ![new] = @ \/ To(new).type = "shortcut", ![r] = FALSE]
        /\ winKeyInvoked' =
             [winKeyInvoked EXCEPT ![new] = WinKey(new), ![r] = "Disabled"]
        /\ Send(NewRemappingEvents(r, new))
  BY DEF ChangeShortcut
<1> DEFINE events == NewRemappingEvents(r, new)
<1>4. /\ new \in Remaps /\ new[1] = r[1] /\ From(new).mods = From(r).mods
      /\ From(new).key = e.key /\ e.key # From(r).key /\ new # r
  <2>1. new \in Remaps /\ new[1] = r[1] /\ From(new) = [From(r) EXCEPT !.key = e.key]
    BY <1>3 DEF NewRemappings
  <2>2. e.key # From(r).key
    BY DEF ChangeShortcut, IsOther
  <2>3. From(r) \in Shortcut
    BY <1>2, RemapSides
  <2>4. From(new).mods = From(r).mods /\ From(new).key = e.key
    BY <2>1, <2>3 DEF Shortcut
  <2> QED
    BY <2>1, <2>2, <2>4
<1>5. To(new).type \in {"shortcut", "disabled"}
  <2>1. KeysApart
    BY <1>2 DEF Apart
  <2>2. To(new).type # "key"
    BY <1>1, <1>2, <1>4, <2>1 DEF KeysApart
  <2>3. To(new) \in Target
    BY <1>4, <1>2, RemapSides
  <2> QED
    BY <1>3, <2>2, <2>3, TargetKeys
<1>6. Mods(new) = Mods(r) /\ Fits(From(new))
  BY <1>2, <1>4 DEF Mods, Fits
<1>7. \A s \in AllInvoked \ {r} : s[1] # r[1]
  BY <1>1, <1>2 DEF AllInvoked, AtMostOne
<1>8. new \notin AllInvoked
  BY <1>4, <1>7
<1>9. /\ AllInvoked' = (AllInvoked \ {r}) \cup (IF To(new).type = "shortcut" THEN {new} ELSE {})
      /\ \A s \in Remaps : winKeyInvoked'[s] \in {"Disabled", "L"}
  <2>1. \A s \in Remaps : isShortcutInvoked'[s] =
          IF s = r THEN FALSE
          ELSE IF s = new THEN isShortcutInvoked[new] \/ To(new).type = "shortcut"
          ELSE isShortcutInvoked[s]
    BY <1>2, <1>3, <1>4 DEF TypeOK
  <2>2. \A s \in Remaps : winKeyInvoked'[s] =
          IF s = r THEN "Disabled" ELSE IF s = new THEN WinKey(new) ELSE winKeyInvoked[s]
    BY <1>2, <1>3, <1>4 DEF TypeOK
  <2>3. WinKey(new) \in {"Disabled", "L"}
    BY <1>2, <1>4, WinKeyLeft
  <2>4. isShortcutInvoked \in [Remaps -> BOOLEAN]
    BY <1>2 DEF TypeOK
  <2> QED
    BY <1>2, <1>4, <1>8, <2>1, <2>2, <2>3, <2>4 DEF AllInvoked, ShortcutsInv
<1>10. /\ events \in Seq(Event) /\ AllOurs(events)
       /\ \A key : Added(events, key) =>
            To(new).type = "shortcut" /\ Slot(key) \in Targets(To(new))
       /\ \A key \in down : Presses(r, key, down) =>
            \/ Lifted(events, key)
            \/ To(new).type = "shortcut" /\ Slot(key) \in Targets(To(new))
  BY <1>1, <1>2, <1>4, <1>5, ChangeSends
<1> HIDE DEF events
<1>11. Sent(events)
  BY <1>3, <1>10, SendQuiet DEF events
<1>12. \A key : To(new).type = "shortcut" /\ Slot(key) \in Targets(To(new)) =>
         new \in AllInvoked' /\ Presses(new, key, Settled')
  BY <1>9 DEF Presses
<1>13. \A s \in AllInvoked : \A kind \in Mods(s) : Sourced(SlotOf(kind)) /\ ~OfLast(SlotOf(kind))
  BY <1>1, OthersSourced
<1>14. Invokes(r, new)
  <2>1. \A s \in AllInvoked \ {r} : Mods(new) \cap Mods(s) = {}
    BY <1>2, <1>6 DEF ShortcutsInv
  <2> QED
    BY <1>2, <1>6, <1>13, <2>1 DEF Invokes
<1>15. AddsFor(r, new, events)
  BY <1>10, <1>12 DEF AddsFor
<1>16. LeavesFor(r, new, events)
  <2> SUFFICES ASSUME NEW key \in down, ~Lifted(events, key)
               PROVE  /\ ~AsksUp(Slot(key))
                      /\ Presses(r, key, down) =>
                           new \in AllInvoked' /\ Presses(new, key, Settled')
                      /\ key[1] \in Mods(new) => Presses(r, key, down)
    BY DEF LeavesFor
  <2>1. ~AsksUp(Slot(key))
    BY <1>1, <1>2
  <2>2. Presses(r, key, down) => new \in AllInvoked' /\ Presses(new, key, Settled')
    BY <1>10, <1>12
  <2>3. key[1] \in Mods(new) => Presses(r, key, down)
    BY <1>2, <1>6 DEF LiftedInv
  <2> QED
    BY <2>1, <2>2, <2>3
<1> QED
  BY <1>2, <1>4, <1>7, <1>9, <1>11, <1>14, <1>15, <1>16, Handled

\* The handlers of shortcuts keep all of it, or crash.
LEMMA HandlersKeep ==
    ASSUME Apart, TypeOK, AtMostOne, KeepsInv, NEW r \in Remaps, queue # <<>>,
           HandleShortcutRemapEvent(r, Head(queue)), ~disturbed'
    PROVE  KeepsInv'
<1> DEFINE e == Head(queue)
<1>1. Turns(r, e)
  BY TurnsTheirs DEF HandleShortcutRemapEvent
<1>2. ~SuppressModifierOfText(r, e) /\ ~ChangeShortcutToText(r, e)
  BY DEF SuppressModifierOfText, ChangeShortcutToText, Crash
<1> HIDE DEF e
<1>3. \/ Invoke(r, e) \/ ReleaseModifier(r, e) \/ RepeatShortcut(r, e)
      \/ ReleaseAction(r, e) \/ ReleaseActionAmongOthers(r, e)
      \/ SuppressModifier(r, e) \/ LeaveShortcut(r, e) \/ ChangeShortcut(r, e)
      \/ LeaveKey(r, e)
  BY <1>2 DEF HandleShortcutRemapEvent, e
<1>4. CASE Invoke(r, e)
  BY <1>1, <1>4, InvokeKeeps
<1>5. CASE ReleaseModifier(r, e)
  BY <1>1, <1>5, ReleaseModifierKeeps
<1>6. CASE RepeatShortcut(r, e)
  BY <1>1, <1>6, RepeatShortcutKeeps
<1>7. CASE ReleaseAction(r, e)
  BY <1>1, <1>7, ReleaseActionKeeps
<1>8. CASE ReleaseActionAmongOthers(r, e)
  BY <1>1, <1>8, ReleaseActionAmongOthersKeeps
<1>9. CASE SuppressModifier(r, e)
  BY <1>1, <1>9, SuppressModifierKeeps
<1>10. CASE LeaveShortcut(r, e)
  BY <1>1, <1>10, LeaveShortcutKeeps
<1>11. CASE ChangeShortcut(r, e)
  BY <1>1, <1>11, ChangeShortcutKeeps
<1>12. CASE LeaveKey(r, e)
  BY <1>1, <1>12, LeaveKeyKeeps
<1> QED
  BY <1>3, <1>4, <1>5, <1>6, <1>7, <1>8, <1>9, <1>10, <1>11, <1>12
-----------------------------------------------------------------------------
(* The events that no remapping takes, and the single keys. *)

\* Nothing but the order of the events changes.
LEMMA FrameKeeps ==
    ASSUME ShortcutsInv, SourcesInv, LiftedInv, ReasonsInv,
           UNCHANGED <<held, last, loadingSettings, editorIsRunning,
                       isShortcutInvoked, winKeyInvoked>>,
           Settled' = Settled, \A key : AsksUp(key)' <=> AsksUp(key)
    PROVE  ShortcutsInv' /\ SourcesInv' /\ LiftedInv' /\ ReasonsInv'
<1>1. /\ AllInvoked' = AllInvoked /\ Away' = Away
      /\ \A key : Given(key)' = Given(key)
  BY DEF AllInvoked, Away, Given
<1>2. \A key : (Sourced(key)' <=> Sourced(key)) /\ (OfLast(key)' <=> OfLast(key))
  BY <1>1 DEF Sourced, OfLast
<1>3. ShortcutsInv'
  BY <1>1 DEF ShortcutsInv
<1>4. SourcesInv'
  BY <1>1, <1>2 DEF SourcesInv
<1>5. LiftedInv'
  BY <1>1 DEF LiftedInv
<1>6. \A key : Reason(key)' <=> Reason(key)
  BY <1>1, <1>2 DEF Reason
<1> QED
  BY <1>3, <1>4, <1>5, <1>6 DEF ReasonsInv

\* What the system makes of an event of a shortcut is what was expected of it.
LEMMA AppliedAfter ==
    ASSUME Apart, TypeOK, \A key \in down : Proper(key), NEW e \in Event, Ours(e)
    PROVE  Applied(e) = After(down, <<e>>) /\ \A key \in Applied(e) : Proper(key)
<1>1. e.key \in Keys /\ e.dir \in {"down", "up"} /\ Proper(e.key) /\ down \subseteq Keys
  BY DEF Event, Ours, TypeOK
<1>2. \A key : /\ Lifted(<<e>>, key) <=> Lifts(e, key)
               /\ Added(<<e>>, key) <=> Adds(e, key)
  BY OneEvent
<1>3. CASE e.dir = "down"
  <2>1. Applied(e) = down \cup {e.key} \cup OtherCodes(e.key, "down")
    BY <1>3 DEF Applied
  <2>2. \A key : ~Lifts(e, key) /\ (Adds(e, key) <=> key \in {e.key} \cup OtherCodes(e.key, "down"))
    BY <1>3 DEF Lifts, Adds, Ours
  <2>3. \A code \in OtherCodes(e.key, "down") : Proper(code) /\ code \in Keys
    BY <1>1, CodesSlot
  <2>4. After(down, <<e>>) =
          {key \in Keys : key \in down \/ key \in {e.key} \cup OtherCodes(e.key, "down")}
    BY <1>2, <2>2 DEF After
  <2> QED
    BY <1>1, <2>1, <2>3, <2>4
<1>4. CASE e.dir = "up"
  <2>1. Applied(e) = down \ ({e.key} \cup OtherCodes(e.key, "up"))
    BY <1>4 DEF Applied
  <2>2. \A key : ~Adds(e, key) /\ (Lifts(e, key) <=> Slot(e.key) = Slot(key))
    BY <1>4 DEF Lifts, Adds, Ours
  <2>3. \A k \in down : k \in {e.key} \cup OtherCodes(e.key, "up") <=> Slot(k) = Slot(e.key)
    BY <1>1, SideChosen, LiftedCodes
  <2>4. After(down, <<e>>) = {key \in Keys : key \in down /\ Slot(e.key) # Slot(key)}
    BY <1>2, <2>2 DEF After
  <2> QED
    BY <1>1, <2>1, <2>3, <2>4
<1> QED
  BY <1>1, <1>3, <1>4

LEMMA HeadTail ==
    ASSUME NEW q \in Seq(Event), q # <<>>
    PROVE  /\ Head(q) \in Event /\ Tail(q) \in Seq(Event) /\ q = <<Head(q)>> \o Tail(q)
           /\ 1 \in DOMAIN q /\ q[1] = Head(q) /\ Len(Tail(q)) = Len(q) - 1 /\ Len(q) \in Nat
           /\ \A i \in DOMAIN Tail(q) : i \in Nat /\ i + 1 \in DOMAIN q /\ Tail(q)[i] = q[i + 1]
           /\ \A i \in DOMAIN q : i = 1 \/ (i - 1 \in DOMAIN Tail(q) /\ Tail(q)[i - 1] = q[i])
  OBVIOUS

LEMMA PassesOurs ==
    ASSUME Apart, TypeOK, KeepsInv, queue # <<>>, Head(queue).flag = "shortcut",
           Pass(Head(queue))
    PROVE  KeepsInv'
<1> DEFINE e == Head(queue)
           q == queue
<1>1. /\ KeysInv /\ ShortcutsInv /\ SourcesInv /\ LiftedInv /\ PendingInv /\ ReasonsInv
  BY DEF KeepsInv
<1>2. q \in Seq(Event) /\ down \subseteq Keys
  BY DEF TypeOK
<1>3. /\ e \in Event /\ Tail(q) \in Seq(Event) /\ q = <<e>> \o Tail(q)
      /\ 1 \in DOMAIN q /\ q[1] = e /\ Len(Tail(q)) = Len(q) - 1 /\ Len(q) \in Nat
      /\ \A i \in DOMAIN Tail(q) : i \in Nat /\ i + 1 \in DOMAIN q /\ Tail(q)[i] = q[i + 1]
      /\ \A i \in DOMAIN q : i = 1 \/ (i - 1 \in DOMAIN Tail(q) /\ Tail(q)[i - 1] = q[i])
  BY <1>2, HeadTail
<1>4. Ours(e)
  <2>1. Ours(q[1]) \/ Theirs(q[1])
    BY <1>1, <1>3 DEF KeysInv, Orderly
  <2> QED
    BY <1>3, <2>1 DEF Theirs
<1>5. /\ down' = Applied(e) /\ queue' = Tail(queue)
      /\ UNCHANGED <<held, last, loadingSettings, editorIsRunning, crashed,
                     isShortcutInvoked, winKeyInvoked>>
  BY DEF Pass, user, engine, remap
<1>6. Applied(e) = After(down, <<e>>) /\ \A key \in Applied(e) : Proper(key)
  BY <1>1, <1>3, <1>4, AppliedAfter DEF KeysInv
<1>7. Settled' = Settled
  <2>1. After(down, <<e>> \o Tail(queue)) = After(After(down, <<e>>), Tail(queue))
    <3>1. <<e>> \in Seq(Event)
      BY <1>3
    <3> QED
      BY <1>3, <3>1, AfterConcat
  <2> QED
    BY <1>3, <1>5, <1>6, <2>1 DEF Settled
<1>8. Orderly(queue')
  <2> SUFFICES ASSUME NEW i \in DOMAIN Tail(q)
               PROVE  Ours(Tail(q)[i]) \/ (i = Len(Tail(q)) /\ Theirs(Tail(q)[i]))
    BY <1>5 DEF Orderly
  <2>1. Ours(q[i + 1]) \/ (i + 1 = Len(q) /\ Theirs(q[i + 1]))
    BY <1>1, <1>3 DEF KeysInv, Orderly
  <2> QED
    BY <1>3, <2>1
<1>9. KeysInv'
  BY <1>1, <1>5, <1>6, <1>8 DEF KeysInv, Orderly
<1>10. \A key : Given(key)' = Given(key)
  BY <1>5 DEF Given, Away
<1>11. \A x : GivenBy(x)' = GivenBy(x)
  BY <1>10 DEF GivenBy
<1>12. PendingInv'
  <2> SUFFICES ASSUME NEW i \in DOMAIN Tail(q), Tail(q)[i].flag # "shortcut",
                      Tail(q)[i].dir = "down"
               PROVE  last \in held /\ GivenBy(Tail(q)[i]) = Given(last)
    BY <1>5, <1>10, <1>11 DEF PendingInv
  <2>1. i + 1 \in DOMAIN q /\ Tail(q)[i] = q[i + 1]
    BY <1>3
  <2>2. last \in held /\ GivenBy(q[i + 1]) = Given(last)
    BY <1>1, <2>1 DEF PendingInv
  <2> QED
    BY <2>1, <2>2
<1>13. \A key : AsksUp(key)' <=> AsksUp(key)
  <2> TAKE key
  <2>1. AsksUp(key)' <=> \E i \in DOMAIN Tail(q) :
          Tail(q)[i].flag # "shortcut" /\ Tail(q)[i].dir = "up" /\ key \in GivenBy(Tail(q)[i])
    BY <1>5, <1>11 DEF AsksUp
  <2>2. AsksUp(key) <=> \E i \in DOMAIN q :
          q[i].flag # "shortcut" /\ q[i].dir = "up" /\ key \in GivenBy(q[i])
    BY DEF AsksUp
  <2>3. q[1].flag = "shortcut"
    BY <1>3
  <2> HIDE DEF q
  <2> QED
    BY <1>3, <2>1, <2>2, <2>3
<1> HIDE DEF q
<1> QED
  BY <1>1, <1>5, <1>7, <1>9, <1>12, <1>13, FrameKeeps DEF KeepsInv

\* Nothing is left of the queue, and nothing was expected of it.
LEMMA LastEvent ==
    ASSUME TypeOK, queue' = <<>>, down' \subseteq Keys
    PROVE  Settled' = down' /\ \A key : ~AsksUp(key)'
<1>1. \A key : ~Lifted(<<>>, key) /\ ~Added(<<>>, key)
  BY NothingUpsDowns
<1>2. After(down', <<>>) = {key \in Keys : key \in down'}
  BY <1>1 DEF After
<1>3. Settled' = After(down', <<>>)
  BY DEF Settled
<1>4. DOMAIN <<>> = {}
  OBVIOUS
<1>5. \A key : ~AsksUp(key)'
  BY <1>4 DEF AsksUp
<1> QED
  BY <1>2, <1>3, <1>5

\* a key the hook lets pass
Passes(e) ==
    /\ Apart /\ TypeOK /\ KeepsInv /\ Agrees /\ queue # <<>> /\ Pass(e)
    /\ e = Head(queue) /\ e \in Event /\ e.flag # "shortcut" /\ Theirs(e)
    /\ Settled = down /\ Tail(queue) = <<>> /\ GivenBy(e) = {e.key}
    /\ \A key : AsksUp(key) <=> e.dir = "up" /\ key = e.key
    /\ e.key \in Keys /\ Proper(e.key) /\ Slot(e.key) = e.key

LEMMA PassesTheirs ==
    ASSUME Apart, TypeOK, KeepsInv, Agrees, queue # <<>>, NEW e, e = Head(queue),
           e.flag # "shortcut", Pass(e)
    PROVE  Passes(e)
<1>1. /\ e \in Event /\ Tail(queue) = <<>> /\ Theirs(e) /\ Settled = down
      /\ \A key : AsksUp(key) <=> e.dir = "up" /\ key \in GivenBy(e)
  BY TheirsAlone DEF KeepsInv
<1>2. GivenBy(e) = {e.key}
  <2>1. CASE Away
    BY <2>1 DEF GivenBy, Given
  <2>2. CASE ~Away
    <3>1. ~IsSingleKey(e)
      BY <2>2 DEF Pass, Untouched, Away, KeepsInv, KeysInv
    <3> QED
      BY <1>1, <2>2, <3>1, ItsKey
  <2> QED
    BY <2>1, <2>2
<1>3. e.key \in Keys /\ Proper(e.key) /\ Slot(e.key) = e.key
  BY <1>1 DEF Event, Theirs
<1> QED
  BY <1>1, <1>2, <1>3 DEF Passes

LEMMA PassesParts ==
    ASSUME NEW e, Passes(e)
    PROVE  /\ KeysInv /\ ShortcutsInv /\ SourcesInv /\ LiftedInv /\ PendingInv /\ ReasonsInv
           /\ down \subseteq Keys /\ (e.dir = "down" \/ e.dir = "up")
           /\ down' = Applied(e) /\ queue' = <<>>
           /\ UNCHANGED <<held, last, loadingSettings, editorIsRunning, crashed,
                          isShortcutInvoked, winKeyInvoked>>
           /\ AllInvoked' = AllInvoked /\ Away' = Away /\ AllInvoked \subseteq Remaps
           /\ \A key : (Sourced(key)' <=> Sourced(key)) /\ (OfLast(key)' <=> OfLast(key))
<1>1. /\ KeysInv /\ ShortcutsInv /\ SourcesInv /\ LiftedInv /\ PendingInv /\ ReasonsInv
      /\ down \subseteq Keys /\ (e.dir = "down" \/ e.dir = "up")
  BY DEF Passes, KeepsInv, TypeOK, Event
<1>2. /\ down' = Applied(e) /\ queue' = <<>>
      /\ UNCHANGED <<held, last, loadingSettings, editorIsRunning, crashed,
                     isShortcutInvoked, winKeyInvoked>>
  BY DEF Passes, Pass, user, engine, remap
<1>3. /\ AllInvoked' = AllInvoked /\ Away' = Away /\ AllInvoked \subseteq Remaps
      /\ \A key : Given(key)' = Given(key)
  BY <1>2 DEF AllInvoked, Away, Given
<1>4. \A key : (Sourced(key)' <=> Sourced(key)) /\ (OfLast(key)' <=> OfLast(key))
  BY <1>2, <1>3 DEF Sourced, OfLast
<1> QED
  BY <1>1, <1>2, <1>3, <1>4

\* The key that is pressed is held, and no shortcut has lifted it.
LEMMA PassesDown ==
    ASSUME NEW e, Passes(e), e.dir = "down"
    PROVE  KeepsInv'
<1>1. /\ KeysInv /\ ShortcutsInv /\ SourcesInv /\ LiftedInv /\ PendingInv /\ ReasonsInv
      /\ down \subseteq Keys /\ down' = Applied(e) /\ queue' = <<>>
      /\ UNCHANGED <<held, last, loadingSettings, editorIsRunning, crashed,
                     isShortcutInvoked, winKeyInvoked>>
      /\ AllInvoked' = AllInvoked /\ Away' = Away /\ AllInvoked \subseteq Remaps
      /\ \A key : (Sourced(key)' <=> Sourced(key)) /\ (OfLast(key)' <=> OfLast(key))
  BY PassesParts
<1>2. /\ Apart /\ TypeOK /\ queue # <<>> /\ e = Head(queue) /\ e \in Event
      /\ e.flag # "shortcut" /\ Settled = down /\ GivenBy(e) = {e.key}
      /\ \A key : AsksUp(key) <=> e.dir = "up" /\ key = e.key
      /\ e.key \in Keys /\ Proper(e.key) /\ Slot(e.key) = e.key
  BY DEF Passes
<1>3. down' = down \cup {e.key} \cup OtherCodes(e.key, "down")
  BY <1>1 DEF Applied
<1>4. \A key \in down' : key \in Keys /\ Proper(key) /\ (key \in down \/ Slot(key) = e.key)
  BY <1>1, <1>2, <1>3, CodesSlot DEF KeysInv
<1>5. Settled' = down' /\ \A key : ~AsksUp(key)'
  BY <1>1, <1>2, <1>4, LastEvent
<1>6. OfLast(e.key) /\ Sourced(e.key)
  <2>1. 1 \in DOMAIN queue /\ queue[1] = e
    BY <1>2, HeadTail DEF TypeOK
  <2>2. last \in held /\ Given(last) = {e.key}
    BY <1>1, <1>2, <2>1 DEF PendingInv
  <2> QED
    BY <2>2 DEF OfLast, Sourced
<1>7. KeysInv' /\ PendingInv'
  BY <1>1, <1>4 DEF KeysInv, Orderly, PendingInv
<1>8. ShortcutsInv'
  BY <1>1 DEF ShortcutsInv
<1>9. \A r, key : Presses(r, key, Settled) => Presses(r, key, Settled')
  BY <1>2, <1>3, <1>5 DEF Presses
<1>10. SourcesInv'
  BY <1>1, <1>2 DEF SourcesInv
<1>11. LiftedInv'
  <2> SUFFICES ASSUME NEW r \in AllInvoked, NEW kind \in Mods(r), NEW key \in down',
                      key[1] = kind
               PROVE  Presses(r, key, Settled')
    BY <1>1, <1>5 DEF LiftedInv
  <2>1. CASE key \in down
    BY <1>1, <1>2, <1>9, <2>1 DEF LiftedInv
  <2>2. Slot(key) # e.key
    <3>1. kind \in Kinds
      BY <1>1, ModsKinds
    <3>2. Slot(key) = SlotOf(kind)
      BY <3>1 DEF Slot
    <3> QED
      BY <1>1, <1>6, <3>2 DEF SourcesInv
  <2> QED
    BY <1>4, <2>1, <2>2
<1>12. ReasonsInv'
  <2> SUFFICES ASSUME NEW key \in down' PROVE Reason(key)'
    BY <1>5 DEF ReasonsInv
  <2>1. CASE key \in down
    <3>1. Reason(key)
      BY <1>1, <1>2, <2>1 DEF ReasonsInv
    <3> QED
      BY <1>1, <1>2, <1>9, <3>1 DEF Reason
  <2>2. CASE Slot(key) = e.key
    <3>1. Sourced(Slot(key))'
      BY <1>1, <1>6, <2>2
    <3> QED
      BY <3>1 DEF Reason
  <2> QED
    BY <1>4, <2>1, <2>2
<1> QED
  BY <1>7, <1>8, <1>10, <1>11, <1>12 DEF KeepsInv

\* The key that is released is none of a shortcut that is invoked.
LEMMA PassesUp ==
    ASSUME NEW e, Passes(e), e.dir = "up"
    PROVE  KeepsInv'
<1>1. /\ KeysInv /\ ShortcutsInv /\ SourcesInv /\ LiftedInv /\ PendingInv /\ ReasonsInv
      /\ down \subseteq Keys /\ down' = Applied(e) /\ queue' = <<>>
      /\ UNCHANGED <<held, last, loadingSettings, editorIsRunning, crashed,
                     isShortcutInvoked, winKeyInvoked>>
      /\ AllInvoked' = AllInvoked /\ Away' = Away /\ AllInvoked \subseteq Remaps
      /\ \A key : (Sourced(key)' <=> Sourced(key)) /\ (OfLast(key)' <=> OfLast(key))
  BY PassesParts
<1>2. /\ Apart /\ TypeOK /\ Agrees /\ Pass(e) /\ e.flag # "shortcut" /\ Settled = down
      /\ \A key : AsksUp(key) <=> key = e.key
      /\ e.key \in Keys /\ Proper(e.key) /\ Slot(e.key) = e.key
  BY DEF Passes
<1>3. down' = down \ ({e.key} \cup OtherCodes(e.key, "up"))
  BY <1>1 DEF Applied
<1>4. \A key \in down : key \in down' <=> Slot(key) # e.key
  BY <1>1, <1>2, <1>3, SideChosen, LiftedCodes DEF KeysInv
<1>5. down' \subseteq down
  BY <1>3
<1>6. Settled' = down' /\ \A key : ~AsksUp(key)'
  BY <1>1, <1>2, <1>5, LastEvent
<1>7. KeysInv' /\ PendingInv'
  BY <1>1, <1>5 DEF KeysInv, Orderly, PendingInv
<1>8. ShortcutsInv'
  BY <1>1 DEF ShortcutsInv
<1>9. \A r, key : key \in down' /\ Presses(r, key, Settled) => Presses(r, key, Settled')
  <2> SUFFICES ASSUME NEW r, NEW key \in down', Presses(r, key, down), To(r).type = "key"
               PROVE  FilterArtificialKeys(To(r).key) \in down'
    BY <1>2, <1>6 DEF Presses
  <2>1. /\ Slot(key) = Slot(FilterArtificialKeys(To(r).key))
        /\ FilterArtificialKeys(To(r).key) \in down
    BY DEF Presses, Targets
  <2> QED
    BY <1>4, <1>5, <2>1
<1>10. \A r \in AllInvoked : \A kind \in Mods(r) : e.key # SlotOf(kind)
  <2> SUFFICES ASSUME NEW r \in AllInvoked, NEW kind \in Mods(r), e.key = SlotOf(kind)
               PROVE  FALSE
    OBVIOUS
  <2>1. r \in Remaps /\ isShortcutInvoked[r] /\ Fits(From(r)) /\ ~Away /\ kind \in Kinds
    BY <1>1, ModsKinds DEF AllInvoked, ShortcutsInv
  <2>2. ~TakenBy(AppTable, e) /\ ~TakenBy(Os, e)
    BY <1>1, <1>2, <2>1 DEF Pass, Untouched, Away, KeysInv
  <2>3. Checks(From(r), kind, e.key)
    <3>1. Side[kind] \in {"L", "R"}
      BY <1>2, <2>1, SideChosen
    <3>2. From(r).mods[kind] \in {Side[kind], "B"} /\ kind \in DOMAIN From(r).mods
      BY <2>1 DEF Fits, Mods
    <3> QED
      BY <3>1, <3>2 DEF Checks, SlotOf
  <2>4. Takes(r, e)
    BY <2>1, <2>3 DEF Takes, IsModifierUp, HasModifier
  <2>5. r[1] # Os
    BY <2>1, <2>2, <2>4 DEF TakenBy
  <2>6. r[1] \in Apps /\ activatedApp = r[1]
    BY <1>2, <2>1, <2>5, RemapApps, AgreesMeans
  <2>7. AppTable = r[1]
    BY <2>6, KbmAssumption DEF AppTable
  <2> QED
    BY <2>1, <2>2, <2>4, <2>7 DEF TakenBy
<1>11. SourcesInv'
  BY <1>1, <1>2, <1>10 DEF SourcesInv
<1>12. LiftedInv'
  <2> SUFFICES ASSUME NEW r \in AllInvoked, NEW kind \in Mods(r), NEW key \in down',
                      key[1] = kind
               PROVE  Presses(r, key, Settled')
    BY <1>1, <1>6 DEF LiftedInv
  <2>1. Presses(r, key, Settled)
    BY <1>1, <1>2, <1>5 DEF LiftedInv
  <2> QED
    BY <1>9, <2>1
<1>13. ReasonsInv'
  <2> SUFFICES ASSUME NEW key \in down' PROVE Reason(key)'
    BY <1>6 DEF ReasonsInv
  <2>1. Reason(key)
    BY <1>1, <1>2, <1>5 DEF ReasonsInv
  <2>2. ~AsksUp(Slot(key))
    BY <1>2, <1>4, <1>5
  <2> QED
    BY <1>1, <1>9, <2>1, <2>2 DEF Reason
<1> QED
  BY <1>7, <1>8, <1>11, <1>12, <1>13 DEF KeepsInv

LEMMA PassKeeps ==
    ASSUME Apart, TypeOK, KeepsInv, Agrees, queue # <<>>, Pass(Head(queue))
    PROVE  KeepsInv'
<1> DEFINE e == Head(queue)
<1>1. CASE e.flag = "shortcut"
  BY <1>1, PassesOurs
<1>2. CASE e.flag # "shortcut"
  <2>1. Passes(e)
    BY <1>2, PassesTheirs
  <2>2. e.dir = "down" \/ e.dir = "up"
    BY <2>1, PassesParts
  <2> QED
    BY <2>1, <2>2, PassesDown, PassesUp
<1> QED
  BY <1>1, <1>2

\* One event of the user or of a single key is on its way.
LEMMA OneLeft ==
    ASSUME TypeOK, KeysInv, UNCHANGED <<down, crashed>>, NEW e \in Event, e.flag # "shortcut",
           queue' = <<e>>
    PROVE  /\ Settled' = down
           /\ \A key : AsksUp(key)' <=> e.dir = "up" /\ key \in GivenBy(e)'
           /\ Theirs(e) => KeysInv'
           /\ e.dir = "down" /\ last' \in held' /\ GivenBy(e)' = Given(last)' => PendingInv'
           /\ e.dir # "down" => PendingInv'
<1>1. DOMAIN <<e>> = {1} /\ <<e>>[1] = e /\ Len(<<e>>) = 1
  OBVIOUS
<1>2. Settled' = down
  <2>1. \A key : ~Lifted(<<e>>, key) /\ ~Added(<<e>>, key)
    BY OneEvent DEF Lifts, Adds
  <2>2. After(down, <<e>>) = {key \in Keys : key \in down}
    BY <2>1 DEF After
  <2>3. Settled' = After(down, <<e>>)
    BY DEF Settled
  <2> QED
    BY <2>2, <2>3 DEF TypeOK
<1>3. \A key : AsksUp(key)' <=> e.dir = "up" /\ key \in GivenBy(e)'
  BY <1>1 DEF AsksUp, GivenBy
<1>4. Theirs(e) => KeysInv'
  BY <1>1 DEF KeysInv, Orderly
<1>5. /\ e.dir = "down" /\ last' \in held' /\ GivenBy(e)' = Given(last)' => PendingInv'
      /\ e.dir # "down" => PendingInv'
  BY <1>1 DEF PendingInv, GivenBy
<1> QED
  BY <1>2, <1>3, <1>4, <1>5

\* A key of the user and what it gives are on the user's side.
LEMMA OwnSide ==
    ASSUME Apart, NEW x \in Keyboard, NEW key \in Gives(x) \cup {x}, key \in Keys,
           key # <<"Win", "B">>
    PROVE  Proper(key) /\ Slot(key) = key
<1>1. SidesApart(Side)
  BY SideChosen
<1>2. key[1] \in Kinds => key[2] = Side[key[1]]
  BY <1>1 DEF SidesApart
<1>3. key = <<key[1], key[2]>>
  BY KeyParts
<1> QED
  BY <1>2, <1>3 DEF Proper, Slot, SlotOf

LEMMA HandsProper ==
    ASSUME Apart, NEW x \in Keyboard
    PROVE  x \in Keys /\ Proper(x) /\ Slot(x) = x
<1>1. x \in Keys
  BY KbmAssumption
<1>2. x # <<"Win", "B">>
  <2>1. SidesApart(Side) /\ Side["Win"] = "L"
    BY SideChosen
  <2>2. x[1] \in Kinds => x[2] = Side[x[1]]
    BY <2>1 DEF SidesApart
  <2> QED
    BY <2>1, <2>2 DEF Kinds
<1> QED
  BY <1>1, <1>2, OwnSide

\* A single key sends its key, which is the one that is awaited.
LEMMA SingleKeeps ==
    ASSUME Apart, TypeOK, KeepsInv, queue # <<>>, NEW e, e = Head(queue),
           HandleSingleKeyRemapEvent(e)
    PROVE  KeepsInv'
<1> DEFINE to == SingleKey[e.key]
<1>1. /\ KeysInv /\ ShortcutsInv /\ SourcesInv /\ LiftedInv /\ PendingInv /\ ReasonsInv
  BY DEF KeepsInv
<1>2. /\ ~Away /\ e.flag = "none" /\ e.key \in DOMAIN SingleKey /\ to.type # "text"
      /\ Send(SingleKeyEvents(to, e.dir)) /\ UNCHANGED <<isShortcutInvoked, winKeyInvoked>>
  BY DEF HandleSingleKeyRemapEvent, IsSingleKey, Away, remap
<1>3. /\ e \in Event /\ Tail(queue) = <<>> /\ Theirs(e) /\ Settled = down
      /\ \A key : AsksUp(key) <=> e.dir = "up" /\ key \in GivenBy(e)
  BY <1>1, <1>2, TheirsAlone
<1>4. to \in Target /\ to.type # "shortcut" /\ e.key \in Keyboard
      /\ e.dir \in {"down", "up"}
  BY <1>2, <1>3, KbmAssumption DEF Apart, SinglesApart, Theirs, Event
<1>5. UNCHANGED <<held, last, loadingSettings, editorIsRunning, down, crashed>>
  BY <1>2 DEF Send, user, engine
<1>6. GivenBy(e) = Gives(e.key)
  BY <1>2 DEF GivenBy, Given
<1>7. CASE to.type = "disabled"
  <2>1. SingleKeyEvents(to, e.dir) = <<>>
    BY <1>7 DEF SingleKeyEvents
  <2>2. queue' = <<>>
    BY <1>2, <1>3, <2>1 DEF Send
  <2>3. Settled' = Settled /\ \A key : ~AsksUp(key)'
    BY <1>3, <1>5, <2>2, LastEvent DEF TypeOK
  <2>4. Gives(e.key) = {}
    BY <1>2, <1>7 DEF Gives
  <2>5. KeysInv' /\ PendingInv'
    BY <1>1, <1>5, <2>2 DEF KeysInv, Orderly, PendingInv
  <2> HIDE DEF to
  <2>6. \A key : AsksUp(key)' <=> AsksUp(key)
    BY <1>3, <1>6, <2>3, <2>4
  <2> QED
    BY <1>1, <1>2, <1>5, <2>3, <2>5, <2>6, FrameKeeps DEF KeepsInv
<1>8. CASE to.type = "key"
  <2> DEFINE key == FilterArtificialKeys(to.key)
             d == KeyEvent(key, e.dir, "single")
  <2>1. SingleKeyEvents(to, e.dir) = <<d>>
    BY <1>8 DEF SingleKeyEvents
  <2>2. Gives(e.key) = {key}
    BY <1>2, <1>8 DEF Gives
  <2>3. key \in Keys /\ key # <<"Win", "B">>
    <3>1. to.key \in Keys
      BY <1>4, <1>8, TargetKeys
    <3>2. <<"Win", "L">> \in Keys /\ <<"Win", "L">> # <<"Win", "B">>
      BY DEF Keys, Kinds, Sides
    <3> QED
      BY <3>1, <3>2 DEF FilterArtificialKeys
  <2>4. Proper(key) /\ Slot(key) = key
    BY <1>4, <2>2, <2>3, OwnSide
  <2>5. key \notin DOMAIN SingleKey
    BY <1>2, <1>8, <2>2 DEF Apart, SinglesApart
  <2> HIDE DEF key
  <2>6. /\ d \in Event /\ d.flag = "single" /\ d.dir = e.dir /\ d.key = key
        /\ Theirs(d) /\ GivenBy(d)' = {key}
    BY <1>4, <2>3, <2>4, <2>5 DEF KeyEvent, Event, Theirs, GivenBy
  <2>7. queue' = <<d>>
    <3>1. queue' = <<d>> \o <<>>
      BY <1>2, <1>3, <2>1 DEF Send
    <3> QED
      BY <2>6, <3>1
  <2> HIDE DEF d
  <2>8. Settled' = Settled /\ KeysInv'
    BY <1>1, <1>3, <1>5, <2>6, <2>7, OneLeft
  <2>9. \A k : AsksUp(k)' <=> d.dir = "up" /\ k \in GivenBy(d)'
    BY <1>1, <1>5, <2>6, <2>7, OneLeft
  <2>10. PendingInv'
    <3>1. CASE e.dir = "down"
      <4>1. 1 \in DOMAIN queue /\ queue[1] = e
        BY HeadTail DEF TypeOK
      <4>2. last \in held /\ Given(last) = {key}
        BY <1>1, <1>2, <1>6, <2>2, <3>1, <4>1 DEF PendingInv
      <4>3. last' \in held' /\ GivenBy(d)' = Given(last)'
        BY <1>5, <2>6, <4>2 DEF Given, Away
      <4> QED
        BY <1>1, <1>5, <2>6, <2>7, <3>1, <4>3, OneLeft
    <3>2. CASE e.dir # "down"
      BY <1>1, <1>5, <2>6, <2>7, <3>2, OneLeft
    <3> QED
      BY <3>1, <3>2
  <2> HIDE DEF to
  <2>11. \A k : AsksUp(k)' <=> AsksUp(k)
    BY <1>3, <1>6, <2>2, <2>6, <2>9
  <2> QED
    BY <1>1, <1>2, <1>5, <2>8, <2>10, <2>11, FrameKeeps DEF KeepsInv
<1> QED
  BY <1>2, <1>4, <1>7, <1>8, TargetKeys

LEMMA TextKeeps ==
    ASSUME Apart, TypeOK, KeepsInv, queue # <<>>,
           HandleSingleKeyToTextRemapEvent(Head(queue))
    PROVE  KeepsInv'
<1> DEFINE e == Head(queue)
<1>1. /\ KeysInv /\ ShortcutsInv /\ SourcesInv /\ LiftedInv /\ PendingInv /\ ReasonsInv
  BY DEF KeepsInv
<1>2. /\ e.flag = "none" /\ e.dir = "down" /\ Send(<<>>)
      /\ UNCHANGED <<isShortcutInvoked, winKeyInvoked>>
  BY DEF HandleSingleKeyToTextRemapEvent, IsSingleText, remap
<1>3. /\ e \in Event /\ Tail(queue) = <<>> /\ Settled = down
      /\ \A key : AsksUp(key) <=> e.dir = "up" /\ key \in GivenBy(e)
  BY <1>1, <1>2, TheirsAlone
<1>4. /\ queue' = <<>>
      /\ UNCHANGED <<held, last, loadingSettings, editorIsRunning, down, crashed>>
  BY <1>2, <1>3 DEF Send, user, engine
<1>5. Settled' = Settled /\ \A key : ~AsksUp(key)'
  BY <1>3, <1>4, LastEvent DEF TypeOK
<1>6. KeysInv' /\ PendingInv'
  BY <1>1, <1>4 DEF KeysInv, Orderly, PendingInv
<1>7. \A key : AsksUp(key)' <=> AsksUp(key)
  BY <1>2, <1>3, <1>5
<1> QED
  BY <1>1, <1>2, <1>4, <1>5, <1>6, <1>7, FrameKeeps DEF KeepsInv
-----------------------------------------------------------------------------
(* The user and the settings. *)

\* Between two events nothing is on its way.
LEMMA NothingOnItsWay ==
    ASSUME TypeOK, queue = <<>>
    PROVE  Settled = down /\ \A key : ~AsksUp(key)
<1>1. \A key : ~Lifted(<<>>, key) /\ ~Added(<<>>, key)
  BY NothingUpsDowns
<1>2. Settled = {key \in Keys : key \in down}
  BY <1>1 DEF Settled, After
<1>3. DOMAIN <<>> = {}
  OBVIOUS
<1> QED
  BY <1>2, <1>3 DEF AsksUp, TypeOK

LEMMA HandParts ==
    ASSUME Apart, TypeOK, KeepsInv, NEW x \in Keyboard, NEW dir \in {"down", "up"},
           ByHand(x, dir)
    PROVE  LET e == KeyEvent(x, dir, "none") IN
           /\ KeysInv /\ ShortcutsInv /\ SourcesInv /\ LiftedInv /\ PendingInv /\ ReasonsInv
           /\ UNCHANGED <<loadingSettings, editorIsRunning, crashed, down,
                          isShortcutInvoked, winKeyInvoked>>
           /\ AllInvoked' = AllInvoked /\ Away' = Away
           /\ Settled = down /\ Settled' = down /\ \A key : ~AsksUp(key)
           /\ \A key : Given(key)' = Given(key)
           /\ \A key : AsksUp(key)' <=> dir = "up" /\ key \in Given(x)
           /\ KeysInv'
           /\ dir = "down" /\ last' \in held' /\ Given(x) = Given(last)' => PendingInv'
           /\ dir = "up" => PendingInv'
<1> DEFINE e == KeyEvent(x, dir, "none")
<1>1. /\ KeysInv /\ ShortcutsInv /\ SourcesInv /\ LiftedInv /\ PendingInv /\ ReasonsInv
  BY DEF KeepsInv
<1>2. /\ queue = <<>> /\ queue' = <<e>>
      /\ UNCHANGED <<loadingSettings, editorIsRunning, crashed, down,
                     isShortcutInvoked, winKeyInvoked>>
  BY DEF ByHand, engine, remap
<1>3. /\ AllInvoked' = AllInvoked /\ Away' = Away
      /\ \A key : Given(key)' = Given(key)
  BY <1>2 DEF AllInvoked, Away, Given
<1>4. Settled = down /\ \A key : ~AsksUp(key)
  BY <1>2, NothingOnItsWay
<1>5. x \in Keys /\ Proper(x) /\ Slot(x) = x
  BY HandsProper
<1>6. /\ e \in Event /\ e.flag = "none" /\ e.dir = dir /\ e.key = x /\ Theirs(e)
      /\ GivenBy(e)' = Given(x)
  BY <1>3, <1>5 DEF KeyEvent, Event, Theirs, GivenBy
<1> HIDE DEF e
<1>7. Settled' = down /\ KeysInv'
  BY <1>1, <1>2, <1>6, OneLeft
<1>8. \A key : AsksUp(key)' <=> dir = "up" /\ key \in Given(x)
  BY <1>1, <1>2, <1>6, OneLeft
<1>9. /\ dir = "down" /\ last' \in held' /\ Given(x) = Given(last)' => PendingInv'
      /\ dir = "up" => PendingInv'
  BY <1>1, <1>2, <1>6, OneLeft
<1> QED
  BY <1>1, <1>2, <1>3, <1>4, <1>7, <1>8, <1>9

\* A key that is pressed is none of those that stand behind a shortcut.
LEMMA PressKeeps ==
    ASSUME Apart, TypeOK, KeepsInv, NEW x \in Keyboard, Press(x)
    PROVE  KeepsInv'
<1>1. x \notin held /\ held' = held \cup {x} /\ last' = x /\ ByHand(x, "down")
  BY DEF Press
<1>2. /\ KeysInv /\ ShortcutsInv /\ SourcesInv /\ LiftedInv /\ PendingInv /\ ReasonsInv
      /\ UNCHANGED winKeyInvoked
      /\ AllInvoked' = AllInvoked /\ Away' = Away
      /\ Settled = down /\ Settled' = down /\ \A key : ~AsksUp(key)
      /\ \A key : Given(key)' = Given(key)
      /\ \A key : ~AsksUp(key)'
      /\ KeysInv' /\ PendingInv'
  BY <1>1, HandParts
<1>3. \A key : Sourced(key) => Sourced(key)'
  BY <1>1, <1>2 DEF Sourced
<1>4. ShortcutsInv'
  BY <1>2 DEF ShortcutsInv
<1>5. SourcesInv'
  <2> SUFFICES ASSUME NEW r \in AllInvoked, NEW kind \in Mods(r)
               PROVE  Sourced(SlotOf(kind))' /\ ~OfLast(SlotOf(kind))'
    BY <1>2 DEF SourcesInv
  <2>1. Sourced(SlotOf(kind)) /\ ~Away /\ kind \in Kinds
    BY <1>2, ModsKinds DEF SourcesInv, ShortcutsInv, AllInvoked
  <2>2. PICK y \in held : SlotOf(kind) \in Gives(y)
    BY <2>1 DEF Sourced, Given
  <2>3. y \in Keyboard /\ y # x
    BY <1>1 DEF TypeOK
  <2>4. kind \in KindsOf(Gives(y))
    BY <2>1, <2>2 DEF KindsOf, SlotOf
  <2>5. SlotOf(kind) \in Gives(x) => kind \in KindsOf(Gives(x))
    BY <2>1 DEF KindsOf, SlotOf
  <2>6. SlotOf(kind) \notin Gives(x)
    BY <2>3, <2>4, <2>5 DEF Apart, HandsApart
  <2>7. ~OfLast(SlotOf(kind))'
    BY <1>1, <1>2, <2>1, <2>6 DEF OfLast, Given
  <2> QED
    BY <1>3, <2>1, <2>7
<1>6. LiftedInv'
  BY <1>2 DEF LiftedInv
<1>7. ReasonsInv'
  BY <1>2, <1>3 DEF ReasonsInv, Reason
<1> QED
  BY <1>2, <1>4, <1>5, <1>6, <1>7 DEF KeepsInv

LEMMA RepeatKeeps ==
    ASSUME Apart, TypeOK, KeepsInv, Repeat
    PROVE  KeepsInv'
<1>1. last \in held /\ last \in Keyboard /\ ByHand(last, "down") /\ UNCHANGED <<held, last>>
  BY DEF Repeat, TypeOK
<1>2. /\ KeysInv /\ ShortcutsInv /\ SourcesInv /\ LiftedInv /\ PendingInv /\ ReasonsInv
      /\ UNCHANGED <<loadingSettings, editorIsRunning, isShortcutInvoked, winKeyInvoked>>
      /\ Settled = down /\ Settled' = down /\ \A key : ~AsksUp(key)
      /\ \A key : Given(key)' = Given(key)
      /\ \A key : ~AsksUp(key)'
      /\ KeysInv' /\ PendingInv'
  BY <1>1, HandParts
<1> QED
  BY <1>1, <1>2, FrameKeeps DEF KeepsInv

\* The release of a key that is held is on its way.
LEMMA ReleaseKeeps ==
    ASSUME Apart, TypeOK, KeepsInv, NEW x \in Keyboard, Release(x)
    PROVE  KeepsInv'
<1>1. /\ held' = held \ {x} /\ last' = IF x = last THEN NoKey ELSE last
      /\ ByHand(x, "up")
  BY DEF Release
<1>2. /\ KeysInv /\ ShortcutsInv /\ SourcesInv /\ LiftedInv /\ PendingInv /\ ReasonsInv
      /\ UNCHANGED winKeyInvoked
      /\ AllInvoked' = AllInvoked /\ Away' = Away
      /\ Settled = down /\ Settled' = down /\ \A key : ~AsksUp(key)
      /\ \A key : Given(key)' = Given(key)
      /\ \A key : AsksUp(key)' <=> key \in Given(x)
      /\ KeysInv' /\ PendingInv'
  BY <1>1, HandParts
<1>3. \A key : Sourced(key) => Sourced(key)' \/ AsksUp(key)'
  BY <1>1, <1>2 DEF Sourced
<1>4. \A key : OfLast(key)' => OfLast(key)
  <2>1. NoKey \notin Keyboard
    BY KbmAssumption DEF NoKey, Keys, Kinds
  <2>2. NoKey \notin held
    BY <2>1 DEF TypeOK
  <2>3. last' \in held' => last' = last /\ last \in held
    BY <1>1, <2>2
  <2> QED
    BY <1>2, <2>3 DEF OfLast
<1>5. ShortcutsInv'
  BY <1>2 DEF ShortcutsInv
<1>6. SourcesInv'
  BY <1>2, <1>3, <1>4 DEF SourcesInv
<1>7. LiftedInv'
  BY <1>2 DEF LiftedInv
<1>8. ReasonsInv'
  BY <1>2, <1>3 DEF ReasonsInv, Reason
<1> QED
  BY <1>2, <1>5, <1>6, <1>7, <1>8 DEF KeepsInv

\* When no key is held, no shortcut is invoked.
LEMMA NoneInvoked ==
    ASSUME TypeOK, KeepsInv, queue = <<>>, held = {}
    PROVE  AllInvoked = {}
<1>1. \A key : ~AsksUp(key) /\ ~Sourced(key)
  BY NothingOnItsWay DEF Sourced
<1>2. \A r \in AllInvoked : r \in Remaps /\ Mods(r) = {}
  BY <1>1 DEF KeepsInv, SourcesInv, AllInvoked
<1> QED
  BY <1>2, ModsKinds

\* The engine looks away, or looks again, while no key is held.
LEMMA BlinksKeep ==
    ASSUME TypeOK, KeepsInv, Blinks, ~disturbed',
           AllInvoked' \subseteq AllInvoked,
           \A r \in Remaps : winKeyInvoked'[r] \in {"Disabled", "L"}
    PROVE  KeepsInv'
<1>1. /\ queue = <<>> /\ held = {} /\ UNCHANGED <<held, last, crashed, down, queue>>
  BY DEF Blinks, user
<1>2. AllInvoked = {} /\ AllInvoked' = {}
  BY <1>1, NoneInvoked
<1>3. KeysInv' /\ PendingInv'
  BY <1>1 DEF KeepsInv, KeysInv, Orderly, PendingInv
<1>4. Settled = down /\ \A key : ~AsksUp(key) /\ ~Sourced(key)
  BY <1>1, NothingOnItsWay DEF Sourced
<1>5. Settled' = Settled
  BY <1>1 DEF Settled
<1>6. \A key \in Settled : Slot(key) \in FromKeys
  BY <1>2, <1>4 DEF KeepsInv, ReasonsInv, Reason
<1>7. ReasonsInv'
  BY <1>5, <1>6 DEF ReasonsInv, Reason
<1>8. ShortcutsInv' /\ SourcesInv' /\ LiftedInv'
  BY <1>2 DEF ShortcutsInv, SourcesInv, LiftedInv
<1> QED
  BY <1>3, <1>7, <1>8 DEF KeepsInv

LEMMA SameKeeps ==
    ASSUME KeepsInv,
           UNCHANGED <<held, last, loadingSettings, editorIsRunning, crashed, down, queue,
                       isShortcutInvoked, winKeyInvoked>>
    PROVE  KeepsInv'
<1>1. /\ KeysInv /\ ShortcutsInv /\ SourcesInv /\ LiftedInv /\ PendingInv /\ ReasonsInv
  BY DEF KeepsInv
<1>2. Settled' = Settled /\ \A e : GivenBy(e)' = GivenBy(e)
  BY DEF Settled, GivenBy, Given, Away
<1>3. \A key : Given(key)' = Given(key)
  BY DEF Given, Away
<1>4. \A key : AsksUp(key)' <=> AsksUp(key)
  BY <1>2 DEF AsksUp
<1>5. PendingInv'
  BY <1>1, <1>2, <1>3 DEF PendingInv
<1>6. KeysInv'
  BY <1>1 DEF KeysInv, Orderly
<1> QED
  BY <1>1, <1>2, <1>4, <1>5, <1>6, FrameKeeps DEF KeepsInv

\* Only what is pressed, released and remapped changes the keys.
LEMMA NextKeeps ==
    ASSUME Apart, TypeOK, AtMostOne, KeepsInv, Agrees, [Next]_vars, ~disturbed'
    PROVE  KeepsInv'
<1>1. ShortcutsInv
  BY DEF KeepsInv
<1>2. CASE HandleKeyboardHookEvent
  BY <1>2, PassKeeps, SingleKeeps, TextKeeps, HandlersKeep DEF HandleKeyboardHookEvent
<1>3. CASE UserStep
  <2>1. ASSUME NEW app, SwitchApp(app) PROVE KeepsInv'
    <3>1. UNCHANGED <<held, last, engine, remap, down, queue>>
      BY <2>1 DEF SwitchApp
    <3>2. UNCHANGED <<held, last, loadingSettings, editorIsRunning, crashed, down, queue,
                      isShortcutInvoked, winKeyInvoked>>
      BY <3>1 DEF engine, remap
    <3> QED
      BY <3>2, SameKeeps
  <2> QED
    BY <1>3, <2>1, PressKeeps, RepeatKeeps, ReleaseKeeps DEF UserStep
<1>4. CASE StartLoading \/ FailLoading \/ ToggleEditor
  <2>1. Blinks /\ UNCHANGED <<isShortcutInvoked, winKeyInvoked>>
    BY <1>4 DEF StartLoading, FailLoading, ToggleEditor, remap
  <2> QED
    BY <1>1, <2>1, BlinksKeep DEF AllInvoked, ShortcutsInv
<1>5. CASE FinishLoading
  <2>1. /\ Blinks /\ isShortcutInvoked' = [r \in Remaps |-> FALSE]
        /\ winKeyInvoked' = [r \in Remaps |-> "Disabled"]
    BY <1>5 DEF FinishLoading
  <2> QED
    BY <2>1, BlinksKeep DEF AllInvoked
<1>6. CASE UNCHANGED vars
  <2>1. UNCHANGED <<held, last, loadingSettings, editorIsRunning, crashed, down, queue,
                    isShortcutInvoked, winKeyInvoked>>
    BY <1>6 DEF vars, user, engine, remap
  <2> QED
    BY <2>1, SameKeeps
<1> QED
  BY <1>2, <1>3, <1>4, <1>5, <1>6 DEF Next
-----------------------------------------------------------------------------
(* The application whose table counts. *)

\* Whatever forgets the application leaves no shortcut of it invoked: either such
\* a shortcut would have taken the event first, or it needs the same modifier.
LEMMA NothingForgotten ==
    ASSUME NEW r, NEW e, Turns(r, e), Turn(r, e), Agrees, Forgets(r, e)
    PROVE  \A s \in Remaps : isShortcutInvoked[s] => s[1] = Os
<1>1. /\ Apart /\ TypeOK /\ AtMostOne /\ ShortcutsInv /\ r \in Remaps /\ r[1] = Os
  BY DEF Turns, KeepsInv, Forgets
<1>2. /\ isShortcutInvoked[r] /\ r \in AllInvoked
      /\ To(r).type # "shortcut"
      /\ To(r).type # "key" => e.dir = "down"
  BY <1>1 DEF Forgets, ReleaseActionAmongOthers, LeaveKey, IsActionUp, IsOther, TargetHeld,
              AllInvoked
<1>3. AppsApart
  BY <1>1 DEF Apart
<1>4. CASE \A s \in Remaps : s[1] = Os => To(s).type = "shortcut"
  BY <1>1, <1>2, <1>4
<1>5. CASE \A s \in Remaps : s[1] \in Apps =>
             /\ To(s).type \in {"disabled", "text"}
             /\ \A o \in Remaps : o[1] = Os /\ To(o).type = "key" =>
                  DOMAIN From(s).mods \cap DOMAIN From(o).mods # {}
  <2> SUFFICES ASSUME NEW s \in Remaps, isShortcutInvoked[s], s[1] # Os
               PROVE  FALSE
    OBVIOUS
  <2>1. s[1] \in Apps /\ activatedApp = s[1] /\ s \in AllInvoked /\ s # r
    BY <1>1, RemapApps, AgreesMeans DEF AllInvoked
  <2>2. To(s).type \in {"disabled", "text"}
    BY <1>5, <2>1
  <2>3. CASE To(r).type = "key"
    <3>1. Mods(s) \cap Mods(r) = {}
      BY <1>1, <1>2, <2>1 DEF ShortcutsInv
    <3> QED
      BY <1>1, <1>5, <2>1, <2>3, <3>1 DEF Mods
  <2>4. CASE To(r).type # "key"
    <3>1. e.dir = "down"
      BY <1>2, <2>4
    <3>2. Takes(s, e)
      BY <2>2, <3>1 DEF Takes, IsRepeated, IsModifierDown, IsOther, TargetHeld
    <3>3. AppTable = s[1]
      BY <2>1, KbmAssumption DEF AppTable
    <3>4. TakenBy(AppTable, e)
      BY <3>2, <3>3 DEF TakenBy
    <3> QED
      BY <1>1, <3>4, KbmAssumption DEF Turn
  <2> QED
    BY <2>3, <2>4
<1> QED
  BY <1>3, <1>4, <1>5 DEF AppsApart

\* No shortcut of an application gives way to another that is invoked.
LEMMA NoneReplaces ==
    ASSUME NEW r, NEW e, Turns(r, e), Replaces(r, e)
    PROVE  \A s \in Remaps : isShortcutInvoked'[s] => s[1] # r[1]
<1>1. /\ Apart /\ TypeOK /\ AtMostOne /\ r \in Remaps /\ r[1] \in Apps
  BY RemapApps DEF Turns, Replaces
<1>2. isShortcutInvoked[r] /\ To(r).type = "shortcut" /\ e.key # From(r).key
  BY DEF Replaces, ChangeShortcut, IsOther, TargetHeld
<1>3. PICK new \in NewRemappings(r, e.key) :
        isShortcutInvoked' =
          [isShortcutInvoked EXCEPT ![new] = @ \/ To(new).type = "shortcut", ![r] = FALSE]
  BY DEF Replaces, ChangeShortcut
<1>4. /\ new \in Remaps /\ new[1] = r[1] /\ From(new).mods = From(r).mods /\ new # r
  <2>1. new \in Remaps /\ new[1] = r[1] /\ From(new) = [From(r) EXCEPT !.key = e.key]
    BY <1>3 DEF NewRemappings
  <2>2. From(r) \in Shortcut
    BY <1>1, RemapSides
  <2>3. From(new).mods = From(r).mods /\ From(new).key = e.key
    BY <2>1, <2>2 DEF Shortcut
  <2> QED
    BY <1>2, <2>1, <2>3
<1>5. To(new).type # "shortcut"
  <2>1. AppsApart
    BY <1>1 DEF Apart
  <2> QED
    BY <1>1, <1>2, <1>4, <2>1 DEF AppsApart
<1>6. \A s \in Remaps : isShortcutInvoked'[s] => isShortcutInvoked[s] /\ s # r
  BY <1>1, <1>3, <1>4, <1>5 DEF TypeOK
<1> QED
  BY <1>1, <1>2, <1>6 DEF AtMostOne

LEMMA NextAgreesApart ==
    ASSUME Apart, TypeOK, AtMostOne, KeepsInv, Agrees, [Next]_vars, ~disturbed'
    PROVE  Agrees'
<1>1. CASE HandleKeyboardHookEvent
  <2>1. ASSUME NEW r \in Remaps, HandleShortcutRemapEvent(r, Head(queue)) PROVE Agrees'
    <3>1. Turns(r, Head(queue))
      BY <1>1, <2>1, TurnsTheirs DEF HandleKeyboardHookEvent, HandleShortcutRemapEvent
    <3>2. Turn(r, Head(queue))
      BY <2>1 DEF HandleShortcutRemapEvent
    <3> QED
      BY <2>1, <3>1, <3>2, NothingForgotten, NoneReplaces, HandlerAgrees
  <2>2. \/ \E r \in Remaps : HandleShortcutRemapEvent(r, Head(queue))
        \/ UNCHANGED <<isShortcutInvoked, activatedApp>>
    BY <1>1 DEF HandleKeyboardHookEvent, Pass, HandleSingleKeyRemapEvent,
                HandleSingleKeyToTextRemapEvent, remap
  <2> QED
    BY <2>1, <2>2, OsChanges
<1>2. CASE FinishLoading
  <2>1. /\ Blinks /\ isShortcutInvoked' = [r \in Remaps |-> FALSE] /\ UNCHANGED activatedApp
    BY <1>2 DEF FinishLoading, Blinks
  <2>2. queue = <<>> /\ held = {}
    BY <2>1 DEF Blinks
  <2>3. AllInvoked = {}
    BY <2>2, NoneInvoked
  <2> QED
    BY <2>1, <2>3, OsChanges DEF AllInvoked
<1>3. UserStep \/ StartLoading \/ FailLoading \/ ToggleEditor \/ UNCHANGED vars
        => UNCHANGED <<isShortcutInvoked, activatedApp>>
  BY DEF UserStep, Press, Release, Repeat, ByHand, SwitchApp, StartLoading, FailLoading, ToggleEditor,
         Blinks, vars, remap
<1> QED
  BY <1>1, <1>2, <1>3, OsChanges DEF Next
-----------------------------------------------------------------------------
(* What that means between two events. *)

\* What happened once has happened.
LEMMA NextDisturbed ==
    ASSUME [Next]_vars, disturbed
    PROVE  disturbed'
<1>1. HandleKeyboardHookEvent => disturbed'
  <2>1. \A events : Send(events) => disturbed'
    BY DEF Send
  <2>2. ASSUME NEW r \in Remaps, HandleShortcutRemapEvent(r, Head(queue))
        PROVE  disturbed'
    <3> DEFINE e == Head(queue)
    <3>1. Invoke(r, e) => disturbed'
      BY <2>1 DEF Invoke
    <3>2. ReleaseModifier(r, e) \/ RepeatShortcut(r, e) => disturbed'
      BY <2>1 DEF ReleaseModifier, RepeatShortcut
    <3>3. ReleaseAction(r, e) \/ ReleaseActionAmongOthers(r, e) => disturbed'
      BY <2>1 DEF ReleaseAction, ReleaseActionAmongOthers
    <3>4. SuppressModifier(r, e) \/ LeaveShortcut(r, e) => disturbed'
      BY <2>1 DEF SuppressModifier, LeaveShortcut
    <3>5. ChangeShortcut(r, e) \/ LeaveKey(r, e) => disturbed'
      BY <2>1 DEF ChangeShortcut, LeaveKey
    <3>6. SuppressModifierOfText(r, e) \/ ChangeShortcutToText(r, e) => disturbed'
      BY DEF SuppressModifierOfText, ChangeShortcutToText, Crash
    <3> QED
      BY <2>2, <3>1, <3>2, <3>3, <3>4, <3>5, <3>6 DEF HandleShortcutRemapEvent
  <2> QED
    BY <2>1, <2>2 DEF HandleKeyboardHookEvent, Pass, HandleSingleKeyRemapEvent,
                      HandleSingleKeyToTextRemapEvent
<1>2. UserStep => disturbed'
  BY DEF UserStep, Press, Release, Repeat, ByHand, SwitchApp
<1>3. StartLoading \/ FinishLoading \/ FailLoading \/ ToggleEditor
        \/ UNCHANGED vars => disturbed'
  BY DEF StartLoading, FinishLoading, FailLoading, ToggleEditor, Blinks, vars
<1> QED
  BY <1>1, <1>2, <1>3 DEF Next

LEMMA InitKeeps ==
    ASSUME Init
    PROVE  KeepsInv /\ Agrees
<1>1. /\ held = {} /\ down = {} /\ queue = <<>> /\ ~crashed
      /\ \A r \in Remaps : ~isShortcutInvoked[r] /\ winKeyInvoked[r] = "Disabled"
      /\ activatedApp \notin Apps
  BY KbmAssumption DEF Init
<1>2. DOMAIN <<>> = {}
  OBVIOUS
<1>3. AllInvoked = {}
  BY <1>1 DEF AllInvoked
<1>4. Settled = {}
  <2>1. \A key : ~Added(<<>>, key)
    BY NothingUpsDowns
  <2> QED
    BY <1>1, <2>1 DEF Settled, After
<1>5. KeysInv /\ PendingInv
  BY <1>1, <1>2 DEF KeysInv, Orderly, PendingInv
<1>6. ShortcutsInv /\ SourcesInv /\ LiftedInv /\ ReasonsInv
  BY <1>1, <1>3, <1>4 DEF ShortcutsInv, SourcesInv, LiftedInv, ReasonsInv
<1>7. Agrees
  BY <1>1 DEF Agrees, Invoked
<1> QED
  BY <1>5, <1>6, <1>7 DEF KeepsInv

\* the modifiers of the targets that are in force
ToKinds     == UNION {TargetKinds(To(r)) : r \in AllInvoked}
SingleKinds == UNION {TargetKinds(SingleKey[key]) : key \in held \cap DOMAIN SingleKey}

\* A modifier that is down is held, or belongs to a target that is.
LEMMA KindsHaveReasons ==
    ASSUME Apart, TypeOK, KeepsInv, queue = <<>>
    PROVE  KindsOf(down) \subseteq KindsOf(held) \cup ToKinds \cup SingleKinds
<1> SUFFICES ASSUME NEW kind \in KindsOf(down)
             PROVE  kind \in KindsOf(held) \cup ToKinds \cup SingleKinds
  OBVIOUS
<1>0. PICK key \in down : key[1] = kind /\ kind \in Kinds
  BY DEF KindsOf
<1>1. key \in Keys /\ Settled = down /\ ~AsksUp(Slot(key)) /\ Slot(key) = SlotOf(kind)
  BY <1>0, NothingOnItsWay DEF TypeOK, Slot
<1>2. Slot(key) \notin FromKeys
  BY <1>0, <1>1, FromKeysLetters
<1>3. Reason(key)
  BY <1>1 DEF KeepsInv, ReasonsInv
<1>4. CASE Sourced(Slot(key))
  <2>1. PICK x \in held : SlotOf(kind) \in Given(x)
    BY <1>1, <1>4 DEF Sourced
  <2>2. CASE Given(x) = {x}
    <3>1. x[1] = kind
      BY <2>1, <2>2 DEF SlotOf
    <3> QED
      BY <1>0, <3>1 DEF KindsOf
  <2>3. CASE Given(x) # {x}
    <3>1. /\ x \in DOMAIN SingleKey /\ SingleKey[x].type = "key"
          /\ SlotOf(kind) = FilterArtificialKeys(SingleKey[x].key)
      BY <2>1, <2>3 DEF Given, Gives
    <3>2. kind \in TargetKinds(SingleKey[x])
      BY <1>0, <3>1 DEF TargetKinds, SlotOf
    <3>3. kind \in SingleKinds
      BY <2>1, <3>1, <3>2 DEF SingleKinds
    <3> QED
      BY <3>3
  <2> QED
    BY <2>2, <2>3
<1>5. ASSUME NEW r \in AllInvoked, Presses(r, key, Settled) PROVE kind \in TargetKinds(To(r))
  <2>1. r \in Remaps /\ To(r) \in Target
    BY RemapTypes DEF AllInvoked
  <2>2. SlotOf(kind) \in Targets(To(r))
    BY <1>1, <1>5 DEF Presses
  <2>3. CASE To(r).type = "shortcut"
    <3>1. To(r).to.key # SlotOf(kind)
      <4>1. To(r).to.key[1] \notin Kinds
        BY <2>1, <2>3, TargetKeys, ShortcutParts
      <4> QED
        BY <1>0, <4>1 DEF SlotOf
    <3>2. PICK k \in DOMAIN To(r).to.mods : SlotOf(kind) = SlotOf(k)
      BY <2>2, <2>3, <3>1 DEF Targets
    <3> QED
      BY <2>3, <3>2 DEF TargetKinds, SlotOf
  <2>4. CASE To(r).type = "key"
    <3> DEFINE target == FilterArtificialKeys(To(r).key)
    <3>1. SlotOf(kind) = Slot(target)
      BY <2>2, <2>4 DEF Targets
    <3>2. target[1] = kind
      BY <1>0, <3>1 DEF Slot, SlotOf
    <3> QED
      BY <1>0, <2>4, <3>2 DEF TargetKinds
  <2>5. CASE To(r).type \in {"disabled", "text"}
    BY <2>2, <2>5 DEF Targets
  <2> QED
    BY <2>1, <2>3, <2>4, <2>5, TargetKeys
<1>6. \A r \in AllInvoked : kind \in TargetKinds(To(r)) => kind \in ToKinds
  BY DEF ToKinds
<1> QED
  BY <1>1, <1>2, <1>3, <1>4, <1>5, <1>6 DEF Reason

\* When no key is held, what is down is an action key.
LEMMA ActionKeysLeft ==
    ASSUME TypeOK, KeepsInv, queue = <<>>, held = {}
    PROVE  AllInvoked = {} /\ \A key \in down : \E r \in Remaps : key = From(r).key
<1>1. AllInvoked = {}
  BY NoneInvoked
<1>2. Settled = down /\ \A key : ~AsksUp(key) /\ ~Sourced(key)
  BY NothingOnItsWay DEF Sourced
<1>3. \A key \in down : key \in Keys /\ Slot(key) \in FromKeys
  BY <1>1, <1>2 DEF KeepsInv, ReasonsInv, Reason, TypeOK
<1>4. \A key \in down : Slot(key) = key
  BY <1>3, FromKeysLetters DEF Slot
<1> QED
  BY <1>1, <1>3, <1>4 DEF FromKeys

EngineInv == ~disturbed => KeepsInv /\ Agrees

\* While the same remappings have always been in force, every key that is down
\* has its reason, and every shortcut that is invoked its modifiers held and
\* lifted: the inductive invariant of the engine.
THEOREM KeysHaveReasons ==
    ASSUME Apart
    PROVE  Spec => []EngineInv
<1>1. Init => AtMostOne /\ EngineInv
  BY InitKeeps DEF Init, AtMostOne, EngineInv
<1>2. TypeOK /\ AtMostOne /\ [Next]_vars => AtMostOne'
  BY NextAtMostOne
<1>3. TypeOK /\ AtMostOne /\ EngineInv /\ [Next]_vars => EngineInv'
  BY NextDisturbed, NextKeeps, NextAgreesApart DEF EngineInv
<1> QED
  BY <1>1, <1>2, <1>3, TypeCorrect, PTL DEF Spec

\* Whatever shortcuts follow one another, overlap or break off, no modifier is
\* left down that is neither held nor part of a target that is in force.
THEOREM NoModifierStuckEver ==
    ASSUME Apart
    PROVE  Spec => []NoModifierStuck
<1>1. TypeOK /\ EngineInv => NoModifierStuck
  <2>1. TypeOK /\ EngineInv /\ Idle =>
          KindsOf(down) \subseteq KindsOf(held) \cup ToKinds \cup SingleKinds
    BY KindsHaveReasons DEF EngineInv, Idle
  <2> QED
    BY <2>1 DEF NoModifierStuck, ToKinds, SingleKinds
<1> QED
  BY <1>1, KeysHaveReasons, TypeCorrect, PTL

\* Once the user holds no key, no shortcut is invoked and no key of a target is
\* down.
THEOREM AllReleasedEver ==
    ASSUME Apart
    PROVE  Spec => []AllReleased
<1>1. TypeOK /\ EngineInv => AllReleased
  BY ActionKeysLeft DEF EngineInv, AllReleased, Idle
<1> QED
  BY <1>1, KeysHaveReasons, TypeCorrect, PTL

\* SetActivatedApp: the application is remembered exactly while one of its
\* shortcuts is invoked.
THEOREM AppRememberedEver ==
    ASSUME Apart
    PROVE  Spec => []AppRemembered
<1>1. EngineInv => AppRemembered
  BY DEF EngineInv, AppRemembered, Agrees
<1> QED
  BY <1>1, KeysHaveReasons, PTL
=============================================================================
