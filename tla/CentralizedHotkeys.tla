------------------------ MODULE CentralizedHotkeys ------------------------
(***************************************************************************)
(* How the runner brings the keyboard to its modules: the low level hook   *)
(* and its timers (centralized_kb_hook.cpp), RegisterHotKey                *)
(* (centralized_hotkeys.cpp), and the code that keeps both in step with    *)
(* the modules (powertoy_module.cpp, general_settings.cpp,                 *)
(* settings_window.cpp).  Everything runs on the main thread of the        *)
(* runner, one callback or message at a time; what makes it hard is the    *)
(* order in which keys, timers and queued messages reach it.               *)
(*                                                                         *)
(* A module's settings are the hotkeys of get_hotkeys, the one of          *)
(* GetHotkeyEx and keep_track_of_pressed_win_key.  Time is not modelled: a *)
(* timer may elapse whenever it is set.                                    *)
(***************************************************************************)
EXTENDS Naturals, SequencesExt, FiniteSets

CONSTANTS
    Modules,
    Keys,
    WinKeys,      \* the keys whose long press can be asked for
    Modifiers,    \* what each key contributes to a hotkey while it is held
    Hotkeys,      \* records of the modifiers and the key
    None,         \* no hotkey
    Configs,      \* the settings each module may have
    Forced,       \* what the group policy says of each module
    MaxChanges,   \* bound on the messages of the settings window
    MaxQueue      \* bound on the queue of the main thread

Config == [hotkeys : SUBSET Hotkeys, ex : Hotkeys \cup {None}, win : BOOLEAN]

ASSUME HotkeysAssumption ==
    /\ WinKeys \subseteq Keys
    /\ None \notin Hotkeys /\ None \notin Keys
    /\ Configs \in [Modules -> SUBSET Config]
    /\ \A m \in Modules : \A c \in Configs[m] : c.win => c.ex = None
    /\ \A h \in Hotkeys : h.key \in Keys
    /\ Forced \in [Modules -> {"not_configured", "enabled", "disabled"}]
    /\ MaxChanges \in Nat /\ MaxQueue \in Nat

VARIABLES
    stage,        \* how far the runner has got with each module
    enabled, config,
    hotkeyDescriptors,    \* pairs of a hotkey and the module it belongs to
    pressedKeyDescriptors,  \* how many each module has for every win key
    vkCodePressed,        \* None is VK_DISABLED
    timers,       \* the timers that are set, by module and key
    actions,      \* the modules that have an action for each shortcut, in order
    registered,   \* shortcuts that RegisterHotKey has given to the runner
    taken,        \* and those of other programs
    queue,        \* messages to the main thread
    crashed,
    held, last,   \* keys that are down, and the one that repeats
    changes,
    seen,         \* history: what happened since each timer was set
    late          \* history: shortcuts given up while a WM_HOTKEY waited

modules == <<stage, enabled, config>>
hook    == <<hotkeyDescriptors, pressedKeyDescriptors, vkCodePressed, timers, seen>>
hotkeys == <<actions, registered, late>>
system  == <<taken, held, last>>
vars    == <<modules, hook, hotkeys, system, queue, crashed, changes>>

Timers == Modules \X WinKeys

Messages ==
    [kind : {"general"}, module : Modules, on : BOOLEAN]
        \cup [kind : {"config"}, module : Modules, config : Config]
        \cup [kind : {"hotkey"}, hotkey : Hotkeys]

TypeOK ==
    /\ stage \in [Modules -> {"no", "absent", "loaded", "ready"}]
    /\ enabled \in [Modules -> BOOLEAN] /\ config \in [Modules -> Config]
    /\ hotkeyDescriptors \subseteq Hotkeys \X Modules
    /\ pressedKeyDescriptors \in [Modules -> Nat]
    /\ vkCodePressed \in Keys \cup {None}
    /\ timers \subseteq Timers /\ seen \in [Timers -> SUBSET {"up", "cleared"}]
    /\ actions \in [Hotkeys -> Seq(Modules)]
    /\ registered \subseteq Hotkeys /\ taken \subseteq Hotkeys /\ late \subseteq Hotkeys
    /\ queue \in Seq(Messages)
    /\ crashed \in BOOLEAN
    /\ held \subseteq Keys /\ last \in Keys \cup {None}
    /\ changes \in 0 .. MaxChanges

Init ==
    /\ stage = [m \in Modules |-> "no"]
    /\ enabled = [m \in Modules |-> FALSE]
    /\ config \in {c \in [Modules -> Config] : \A m \in Modules : c[m] \in Configs[m]}
    /\ hotkeyDescriptors = {} /\ pressedKeyDescriptors = [m \in Modules |-> 0]
    /\ vkCodePressed = None /\ timers = {} /\ seen = [t \in Timers |-> {}]
    /\ actions = [h \in Hotkeys |-> <<>>] /\ registered = {} /\ late = {}
    /\ taken = {} /\ queue = <<>> /\ crashed = FALSE
    /\ held = {} /\ last = None /\ changes = 0

-----------------------------------------------------------------------------
\* PowertoyModule: the operators take the module's state after the change

Waiting(h) == \E i \in DOMAIN queue : queue[i].kind = "hotkey" /\ queue[i].hotkey = h

\* ClearModuleHotkeys, then one SetHotkeyAction for each hotkey
update_hotkeys(m, c) ==
    /\ hotkeyDescriptors' = {d \in hotkeyDescriptors : d[2] # m} \cup (c.hotkeys \X {m})
    /\ seen' = [t \in Timers |-> IF t[1] = m /\ t \in timers THEN seen[t] \cup {"cleared"}
                                                              ELSE seen[t]]

WithoutActions_Keeps(m) == actions

\* UnregisterHotkeysForModule
WithoutActions(m) == [h \in Hotkeys |-> RemoveFirst(actions[h], m)]

GivenUp_Never(m) == {}

\* and the UnregisterHotKey calls it makes
GivenUp(m) == {h \in Hotkeys : actions[h] # <<>> /\ WithoutActions(m)[h] = <<>>}

AddPressedKeyAction_OrRemove(c, pressed) == IF c.win THEN pressed + 1 ELSE pressed - 1

AddPressedKeyAction(c, pressed) == IF c.win THEN pressed + 1 ELSE pressed

\* With the module's entries in pressedKeyDescriptors, which update_hotkeys has
\* cleared or not
UpdateHotkeyEx(m, c, on, pressed) ==
    LET add == {h \in Hotkeys : on /\ h = c.ex}
    IN  /\ actions' = [h \in Hotkeys |-> IF h \in add THEN Append(WithoutActions(m)[h], m)
                                                      ELSE WithoutActions(m)[h]]
        /\ registered' = (registered \ GivenUp(m))
              \cup {h \in add : WithoutActions(m)[h] = <<>> /\ h \notin taken}
        /\ late' = late \cup {h \in GivenUp(m) : Waiting(h)}
        /\ pressedKeyDescriptors' =
               [pressedKeyDescriptors EXCEPT ![m] = AddPressedKeyAction(c, pressed)]

-----------------------------------------------------------------------------
\* main.cpp: load_powertoy and start_enabled_powertoys

AllLoaded == \A m \in Modules : stage[m] # "no"
Looping   == \A m \in Modules : stage[m] \in {"absent", "ready"}

\* The constructor of PowertoyModule
Load(m) ==
    /\ stage[m] = "no"
    /\ stage' = [stage EXCEPT ![m] = "loaded"]
    /\ update_hotkeys(m, config[m])
    /\ UpdateHotkeyEx(m, config[m], FALSE, 0)
    /\ UNCHANGED <<enabled, config, vkCodePressed, timers, system, queue, crashed, changes>>

LoadFails(m) ==
    /\ stage[m] = "no"
    /\ stage' = [stage EXCEPT ![m] = "absent"]
    /\ UNCHANGED <<enabled, config, hook, hotkeys, system, queue, crashed, changes>>

Target(m, on) ==
    IF Forced[m] = "not_configured" THEN on ELSE Forced[m] = "enabled"

Start(m, on) ==
    /\ AllLoaded /\ stage[m] = "loaded"
    /\ stage' = [stage EXCEPT ![m] = "ready"]
    /\ IF Target(m, on)
       THEN /\ enabled' = [enabled EXCEPT ![m] = TRUE]
            /\ UpdateHotkeyEx(m, config[m], TRUE, pressedKeyDescriptors[m])
       ELSE UNCHANGED <<enabled, actions, registered, late, pressedKeyDescriptors>>
    /\ UNCHANGED <<config, hotkeyDescriptors, vkCodePressed, timers, seen, system,
                   queue, crashed, changes>>

-----------------------------------------------------------------------------
\* The keyboard.  Keys that go down or up while the runner starts do not reach
\* the hook.

Running == Looping /\ ~crashed

Tracked(k) == {t \in Timers : t[2] = k /\ pressedKeyDescriptors[t[1]] > 0}

Tracks == \E m \in Modules : pressedKeyDescriptors[m] > 0

\* SetTimer and KillTimer for a key that goes down
TrackDown(k) ==
    LET set  == Tracks /\ vkCodePressed = None
        kill == Tracks /\ vkCodePressed \notin {None, k}
    IN  /\ vkCodePressed' = IF Tracks THEN k ELSE vkCodePressed
        /\ timers' = (timers \cup (IF set THEN Tracked(k) ELSE {}))
                        \ (IF kill THEN Tracked(vkCodePressed) ELSE {})
        /\ seen' = [t \in Timers |->
                      IF t \notin timers' \/ (set /\ t \in Tracked(k)) THEN {} ELSE seen[t]]

Hotkey(k) == [mods |-> UNION {Modifiers[j] : j \in held}, key |-> k]

\* A key goes down, or repeats.  An enabled module may swallow its hotkey;
\* otherwise the system posts WM_HOTKEY for one that is registered.
KeyDown(k) ==
    /\ Running /\ (k \notin held \/ k = last)
    /\ held' = held \cup {k} /\ last' = k
    /\ TrackDown(k)
    /\ \/ /\ \E d \in hotkeyDescriptors : d[1] = Hotkey(k) /\ enabled[d[2]]
          /\ UNCHANGED queue
       \/ IF Hotkey(k) \in registered
          THEN /\ Len(queue) < MaxQueue
               /\ queue' = Append(queue, [kind |-> "hotkey", hotkey |-> Hotkey(k)])
          ELSE UNCHANGED queue
    /\ UNCHANGED <<modules, hotkeyDescriptors, pressedKeyDescriptors, hotkeys, taken,
                   crashed, changes>>

TrackUp_OfPressed(k) ==
    /\ vkCodePressed' = IF Tracks THEN None ELSE vkCodePressed
    /\ timers' = timers \ (IF Tracks /\ vkCodePressed # None THEN Tracked(k) ELSE {})
    /\ seen' = [t \in Timers |-> IF t \notin timers' THEN {}
                                 ELSE IF t[2] = k THEN seen[t] \cup {"up"} ELSE seen[t]]

TrackUp(k) ==
    /\ vkCodePressed' = IF Tracks THEN None ELSE vkCodePressed
    /\ timers' = timers \ (IF Tracks THEN Tracked(k) ELSE {})
    /\ seen' = [t \in Timers |-> IF t \notin timers' THEN {}
                                 ELSE IF t[2] = k THEN seen[t] \cup {"up"} ELSE seen[t]]

KeyUp(k) ==
    /\ Running /\ k \in held
    /\ held' = held \ {k} /\ last' = IF last = k THEN None ELSE last
    /\ TrackUp(k)
    /\ UNCHANGED <<modules, hotkeyDescriptors, pressedKeyDescriptors, hotkeys, taken,
                   queue, crashed, changes>>

\* PressedKeyTimerProc calls OnHotkeyEx once for every descriptor with this id
TimerElapses(t) ==
    /\ Running /\ t \in timers
    /\ timers' = timers \ {t}
    /\ seen' = [seen EXCEPT ![t] = {}]
    /\ UNCHANGED <<modules, hotkeyDescriptors, pressedKeyDescriptors, vkCodePressed,
                   hotkeys, system, queue, crashed, changes>>

-----------------------------------------------------------------------------
\* Messages.  Those of the settings window come from dispatch_received_json.

Send(msg) ==
    /\ Running /\ changes < MaxChanges /\ Len(queue) < MaxQueue
    /\ changes' = changes + 1
    /\ queue' = Append(queue, msg)
    /\ UNCHANGED <<modules, hook, hotkeys, system, crashed>>

\* One module of apply_general_settings; it skips the others, which are as they
\* should be
ApplyGeneralSettings(m, on) ==
    /\ IF stage[m] = "ready" /\ enabled[m] # Target(m, on)
       THEN /\ enabled' = [enabled EXCEPT ![m] = Target(m, on)]
            /\ UpdateHotkeyEx(m, config[m], Target(m, on), pressedKeyDescriptors[m])
       ELSE UNCHANGED <<enabled, actions, registered, late, pressedKeyDescriptors>>
    /\ UNCHANGED <<config, hotkeyDescriptors, seen, crashed>>

\* send_json_config_to_module
SendConfigToModule(m, c) ==
    /\ IF stage[m] = "ready"
       THEN /\ config' = [config EXCEPT ![m] = c]
            /\ update_hotkeys(m, c)
            /\ UpdateHotkeyEx(m, c, enabled[m], 0)
       ELSE UNCHANGED <<config, hotkeyDescriptors, seen, actions, registered, late,
                        pressedKeyDescriptors>>
    /\ UNCHANGED <<enabled, crashed>>

\* WM_HOTKEY: the first of the actions is called, be there one or not
PopulateHotkey(h) ==
    /\ crashed' = (actions[h] = <<>>)
    /\ UNCHANGED <<enabled, config, hotkeyDescriptors, seen, hotkeys, pressedKeyDescriptors>>

Handle ==
    /\ Running /\ queue # <<>>
    /\ queue' = Tail(queue)
    /\ LET msg == Head(queue) IN
         \/ msg.kind = "general" /\ ApplyGeneralSettings(msg.module, msg.on)
         \/ msg.kind = "config" /\ SendConfigToModule(msg.module, msg.config)
         \/ msg.kind = "hotkey" /\ PopulateHotkey(msg.hotkey)
    /\ UNCHANGED <<stage, vkCodePressed, timers, system, changes>>

\* RegisterHotKey and UnregisterHotKey of another program
OtherProgram(h) ==
    /\ Running /\ h \notin registered
    /\ taken' = (taken \cup {h}) \ (taken \cap {h})
    /\ UNCHANGED <<modules, hook, hotkeys, held, last, queue, crashed, changes>>

Next ==
    \/ \E m \in Modules : Load(m) \/ LoadFails(m)
    \/ \E m \in Modules, on \in BOOLEAN : Start(m, on)
    \/ \E k \in Keys : KeyDown(k) \/ KeyUp(k)
    \/ \E t \in Timers : TimerElapses(t)
    \/ \E m \in Modules, on \in BOOLEAN : Send([kind |-> "general", module |-> m, on |-> on])
    \/ \E m \in Modules : \E c \in Configs[m] :
         Send([kind |-> "config", module |-> m, config |-> c])
    \/ Handle
    \/ \E h \in Hotkeys : OtherProgram(h)

Spec == Init /\ [][Next]_vars

-----------------------------------------------------------------------------
HasAction(m, h) == \E i \in DOMAIN actions[h] : actions[h][i] = m

\* Whatever settings, switches and policies came in whatever order, a module
\* has its action for the hotkey it asks for now, once, while it is enabled,
\* and no other: UpdateHotkeyEx removes one action and never leaves a second.
ExFollowsModule ==
    \A h \in Hotkeys :
        /\ \A m \in Modules : HasAction(m, h) <=> enabled[m] /\ config[m].ex = h
        /\ \A i, j \in DOMAIN actions[h] : actions[h][i] = actions[h][j] => i = j

\* The runner never keeps a hotkey from other programs that no module wants.
RegisteredHasAction == \A h \in registered : actions[h] # <<>>

\* The hook calls the modules for the hotkeys of their present settings and
\* tracks the win keys just for those whose present settings ask for it.
HookFollowsModule ==
    \A m \in Modules : stage[m] \in {"loaded", "ready"} =>
        /\ {d[1] : d \in {e \in hotkeyDescriptors : e[2] = m}} = config[m].hotkeys
        /\ pressedKeyDescriptors[m] > 0 <=> config[m].win

\* A module is never on or off against the group policy, whatever the settings
\* file said at the start and the settings window sends.
PolicyHolds ==
    \A m \in Modules : stage[m] = "ready" /\ Forced[m] # "not_configured"
                          => enabled[m] = (Forced[m] = "enabled")

\* Whatever settings, switches and policies come in whatever order, the actions,
\* registrations and descriptors of the runner are those of its modules as they
\* are now, and these obey the policy.
TablesFollow ==
    ExFollowsModule /\ RegisteredHasAction /\ HookFollowsModule /\ PolicyHolds

\* A WM_HOTKEY finds no action, where PopulateHotkey goes through the first of
\* none, only if the hotkey was given up while the message waited.
PostedHasAction ==
    \A h \in Hotkeys : Waiting(h) /\ actions[h] = <<>> => h \in late

\* The timer of a long press is not set any more once its key is up, unless the
\* settings of the module were changed in between.
NoTimerAfterRelease ==
    \A t \in timers : "up" \in seen[t] => "cleared" \in seen[t]

\* "Sync the hotkey state with the module state, so it can be removed for
\* disabled modules." (general_settings.cpp:193)
DisabledIsNotTracked ==
    Looping => \A m \in Modules : ~enabled[m] => pressedKeyDescriptors[m] = 0
=============================================================================
