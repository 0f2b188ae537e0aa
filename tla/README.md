# PowerToys: models, model checks and proofs

TLA+ specifications of the parts of PowerToys in which threads, processes,
files and the user meet: the program that updates itself, the runner and its
settings window, the messages between them, the hotkeys the runner keeps for
its modules, and of the modules PowerRename, the engine of the Keyboard Manager
and the queries of PowerToys Run. Each module was translated from the source, one
action per step that other threads can see. TLC checks small instances, TLAPS
proves the invariants for every instance.

    tlc -config MC_Updating.cfg MC_Updating
    tlapm UpdatingProofs.tla

`PROJECT.json` lists the runs, the lines each definition stands for, one
deliberate bug per property that TLC finds, the hazards of the code, and the
theorems.

## 1. The system

| Component | State | Operations | Talks to | What is hard |
|---|---|---|---|---|
| Updating (`src/common/updating`, `src/runner/UpdateUtils.cpp`, `src/Update`) | `UpdateState.json`, the directory of installers, a copy of the state in each worker | start-up clean-up, periodic check, check on request, download, "update now", the two stages of the updater | GitHub, the settings window (through the file), the installer | three threads and any number of processes share a file and a directory; the copy of the periodic worker may be a day old; exits and failing downloads in between |
| Message queue (`src/common/interop/async_message_queue.h`) | a queue, a flag, a mutex, a condition variable | `queue_message`, `pop_message`, `interrupt` | both queues of the pipe | wake-ups |
| Two way pipe (`two_way_pipe_message_ipc.cpp`) | two queues, pipe instances, three threads and one per connection | `send`, `start`, `end`, the callback | runner and settings window | connections that race with the creation of pipe instances, failed writes, death of the other process, shutdown |
| Settings window and tray icon (`settings_window.cpp`, `tray_icon.cpp`) | launch flag, process id, pipe pointer, click timer | open, show, close, click, double click | settings process | the globals are written by a thread per launch and read without a lock |
| Hotkeys of the runner (`centralized_kb_hook.cpp`, `centralized_hotkeys.cpp`, `powertoy_module.cpp`, `general_settings.cpp`) | tables of hotkeys, long press descriptors, timers, the remembered key; enabled and configured modules | load, start, switch, configure; key down and up, timer, `WM_HOTKEY` | the modules, Windows, the settings window | keys, timers and queued messages in any order; failing registrations; group policies |
| PowerRename (`src/modules/powerrename`) | items with their names and paths, terms and flags, preview and file operation threads, events | type, select, rename | the shell, the file system | each change cancels and restarts a thread; a rename pumps messages, in which more changes and renames arrive |
| PowerToys Run (`MainViewModel.cs` and what it calls) | the current query, a cancellation source, the results | query, delayed plugins, final sort, clean-up, history, selection | plugins | queries overtake each other; results, sort and clean-up run as tasks, with a lock for some of them |
| Keyboard Manager engine (`KeyboardEventHandlers.cpp`) | tables of remappings, the state of each invoked shortcut, the activated application | key down and up, reload of the settings, the editor | the keyboard hook, which `SendInput` calls again | keys of overlapping shortcuts in any order; virtual keys that stay down |
| PowerAccent (keyboard service) | toolbar, trigger and letter keys, a stop watch | key down and up | its window | short presses, other letters, swallowed releases |
| Awake | the mode, a token source, a queue of execution states | set a mode, expire, cancel | tray, settings file, the system | an expiring timer races a new mode |
| Always On Top, FancyZones, Shortcut Guide, Mouse Without Borders, Peek, Color Picker, Image Resizer, Video Conference Mute, previewers, mouse utilities and the smaller tools | each its own | each its own | Windows | see `PROJECT.json`, "components" |
| Settings UI, settings API, group policies, logging, telemetry, installer, developer tools | files, registry | read, write | every module | little concurrency of their own |

How they interact: the settings process sends JSON through the pipe; the pipe's
input thread posts it to the main thread of the runner, which switches and
configures the modules and answers through the same pipe. Modules receive
their hotkeys from the runner. The updater is started by the runner, ends it,
installs and starts it again; the two know of each other only through
`UpdateState.json`.

What makes each component correct:

- Updating: an offer is never older than what runs; a state that names an
  installer has it on disk; the fields agree.
- Queue: what goes in comes out, in order, once, until the interrupt; nobody
  sleeps for ever.
- Pipe: a message is in one place; the sender never gets stuck; `end()`
  returns.
- Settings window: pointer, id and flag never outlive what they stand for;
  every launch comes to an end.
- Hotkeys: the tables follow the modules through any order of settings,
  switches and policies; timers do not outlive the press.
- PowerRename: names that are shown and used are those of the present terms;
  paths are those on disk; no two preview threads; no wait that does not end.
- PowerToys Run: the list belongs to the last query. Keyboard Manager: no key
  stays down. Awake: the last mode asked for is the one in force.

## 2. The plan

Done, in this order: `Updating`, `MessageChannel` and `AsyncMessageQueue`,
`TwoWayPipe`, `SettingsWindow`, `PowerRename`, `CentralizedHotkeys`, `KbmEngine`,
`Launcher`, each with its proofs.

Left:

1. `Awake`: modes, timers and tray; `PowerAccent`: the state of the toolbar.
2. `Dispatch`: the composition of `TwoWayPipe`'s callback, the queue of the
   main thread and `CentralizedHotkeys`, by instance of the latter.

Abstract specifications: `MessageChannel` for the queue (done); "the mode last
asked for" for Awake. For the launcher, "the list of the last query" is stated
as properties of the list instead: the code reaches it only in the end, and
not after an older query or a clean-up has cleared late.

## 3. Modules

In every module a variable has the name of the code's where there is one, and
each action is one stretch of code that no other thread can divide: a locked
section, an access to a shared variable, a call of the system. Definitions
marked `mutant` are plausible bugs; no specification uses them.

**Updating.** `file` is `UpdateState.json` with the version that wrote it
(`updateState.cpp` drops the file of another version, `ReadState`), `disk` the
installers, `me[a]` the locals of the start-up thread, the periodic worker, the
worker of the settings window and each `PowerToys.Update.exe`. `Read`,
`WorkerStore` and `Stored...` are the sections under the named mutex; between
them everything interleaves. `FetchOk`, `NothingNew`, `KeepDownload`,
`AnnounceOnly`, `DownloadNew` and `CleanupThrows` are the branches of
`ProcessNewVersionInfo`; `AttemptFails` with `Download` is the loop of
`download_new_version`; `ObtainRead` to `StoreFailed` are the two stages of the
updater. `RunnerExit` and `Shutdown` stop them at any point, and whoever was
writing the file may leave one that does not parse (`CutOff`). Outside
`ProcessNewVersionInfo` nobody catches what a clean-up throws: `StartupThrows` ends
the runner, `ObtainThrows` the updater. Versions are
numbers; GitHub answers or does not; what the answer contains is the newest
release at that time. `MC_UpdatingLost` adds the history variable `outdated`: whose
copy is older than what another actor has stored in the file since.

**MessageChannel, AsyncMessageQueue.** The first is the promise: `Put`,
`Deliver`, `Interrupt`. The second has the lock, the test, the wait, the push
and the notification as actions of their own, and spurious wake-ups.
`Channel == INSTANCE MessageChannel WITH queue <- message_queue` is the
refinement mapping.

**TwoWayPipe.** Two objects, each the server of its own pipe and the client of
the other's. `output`, `input` and `server` are the program counters of its
threads, `handler[m]` the detached reader of the connection that carries `m`.
The queues are those of `MessageChannel`. A message larger than the buffer of
the pipe blocks its writer until it is read. `MayFail`, `MayEnd` and `MayDie`
say what may go wrong in an instance. The history variable `missed` has the objects
whose `end()` cancelled when the server thread had tested `closed` and not yet
called `ConnectNamedPipe`.

**SettingsWindow.** `launcher[l]` is a call of `run_settings_window`, `opener[o]`
one of `open_settings_window` in the main thread or a click timer's. Globals
are read and written in steps of their own, as there is no lock around most of
them. A thread that is done closes its handles (`CloseHandles`), then takes
`ipc_mutex`, ends and deletes whatever pipe object is current and only then resets
the id. `EndHangs` is the `end()` that never returns, with the mutex held
(`TwoWayPipe` says when). `created`, `deleted` and the history variable `overwritten`
follow the pipe objects the pointer was at, `handles` the process handles.

**PowerRename.** `main` is the main thread in `_PerformRegExRename`,
`_CancelRegExWorkerThread` and `_PerformFileOperation`, or in its message loop;
`worker` the preview threads, `renamer` the file operation threads, `pumps` the
depth of nested message loops. A term is a value and `Replace` what it makes, with
the flags, of each name; paths are sequences of names, so that a renamed folder
changes the paths of what is in it. Of the flags there are those that exclude
items; `ExtensionOnly` is in them because `DoRename` leaves out folders for it and
`ShouldRenameItem` does not. A preview sets the status of an item, refuses a name of
`Refused` in a step of its own, and then puts the name: a rename looks at all
three. `Found` are the files a path may lead to when the shell item is made.
`PerformOperations` is the shell: it carries out the whole queue or part of it, and
with `FOF_RENAMEONCOLLISION` it gives a file whose new name is taken another one
(`MadeUp`), of which the manager does not learn (`failed`). The items of the first
layer are in one folder. Counters in the replace term (`${}`), and the index they
need, are left out.

**CentralizedHotkeys.** One thread, and so one action per callback or message:
`KeyDown`, `KeyUp`, `TimerElapses`, `Handle`; the start of the runner module by
module. A module's settings are a record of the hotkeys it wants. `queue` is
the message queue of the main thread, in which `WM_HOTKEY` and the settings
wait for one another. `OtherProgram` takes and frees hotkeys.

**KbmEngine.** `held` is what the user holds, `down` what applications see.
`SendInput` calls the hook again for each event it sends, before it returns;
the handlers set their state before they send and suppress the event they were
called for, so the events on their way form the sequence `queue`, and
`HandleKeyboardHookEvent` takes one at a time. The user acts when it is empty.
`Turn` says which remapping takes an event: single keys first, then the table of
the application, texts, the table for all applications, and in a table the
first that fits. `Invoke`, `ReleaseModifier` (case 1), `RepeatShortcut` (2),
`ReleaseAction` and `ReleaseActionAmongOthers` (3), `SuppressModifier` (4),
`LeaveShortcut`, `ChangeShortcut` and `LeaveKey` (5) are the cases that comments in
`HandleShortcutRemapEvent` number; an exception there, in a function that is
`noexcept`, is `Crash`. `Applied` is what Windows makes of an event: the code for
both Ctrl keys follows those of the single ones. Settings are reloaded by a thread
of their own, beside the hook: `StartLoading`, `FinishLoading`, or `FailLoading` when
they cannot be read. `disturbed` remembers that this happened, the editor was opened
or closed, or the application changed while keys were held or events were on their
way, after which what is down is not what the tables explain.

**Launcher.** `task[q]` and `thread[q][p]` are the program counters of the task of
a query and of the thread of a slow plugin in its `Parallel.ForEach`, with a
step for each test of the token and each change of the list: the UI thread
cancels tokens without the lock, between any two of them. `lock` is
`_addResultsLock`; `dispatched` are the actions given to the UI thread.
`fast[q]` and `slow[q]` are the plugins that found something. Texts are equal up
to case; one may be spaces, for which no plugin has results. `Build` says which
plugins are asked: those whose keyword the text begins with, or else the global
ones. The user may have disabled all of these; then the tokens are cancelled
and the current query stays.
`clearedBy` is a history variable. A sort takes out results of the history that
another plugin has as well (`Repeated`); the sorts of `Finish` and `SlowDispatch` do so
under the lock. `SortCopies`, `SortClears` and `SortAdds` are the final sort, which
takes no lock: its copy throws when the list changes meanwhile (`ListInUse`).

## 4. Runs

| Run | Shows | Bounds |
|---|---|---|
| `updating` | no offer of what is installed, fields that agree, a named installer that is there | two releases, one updater, one attempt per download, so that a second attempt is left to the theorems. Two versions are enough for "older than what runs" and "of the previous version"; the proofs cover every number of releases, updaters and attempts |
| `updating_lost` | what the other worker has stored in the file is overwritten (known deviation 1) | as above; module `MC_UpdatingLost` |
| `queue` | no lost wake-up; the channel with its fairness (`ChannelFairSpec`, of which `QueueIsChannel` proves the safety half, `ChannelSpec`); interrupted readers end | two writers and two readers, for a wake-up taken by the wrong one; three messages, for order |
| `pipe` | every message in one place, no empty buffer from a living process | two messages one way, one of them larger than the buffers; the runner may end the pipe, the settings process may die, every call may fail |
| `pipe_live` | the sender gets rid of every message; `end()` returns, or waits for a server thread that had not yet called `ConnectNamedPipe` when `end()` cancelled | two messages, one of them larger than the buffers, failures of writing, a runner that may end the pipe; deaths and other failures are left to `pipe` |
| `settings` | pointer, id and flag are not left wrong by a thread that is over, the pipe objects left are those whose pointer was overwritten; every launch ends, but for an `end()` that hangs | two launches, one click timer, three clicks, failures of both calls, an `end()` that hangs. The hazards are between two launches |
| `rename` | names, their status, paths, button | a folder, a file in it, a file beside it: the smallest tree with a path that must follow; two terms, of which one gives the folder a name that is taken and the file in it one that is refused; no flags, `ExcludeFolders` and `ExtensionOnly`; two changes, two renames one after the other |
| `rename_nested` | one preview thread, no thread that waits for itself, renames end | one item, a term that throws and one with the file time, two renames, one inside the other |
| `hotkeys` | tables, registrations and policy follow the modules; no timer after the release | two modules with the same hotkey or different ones, one forced on by policy, two keys, two settings messages, two queued messages: a hotkey that waits behind the message that gives it up |
| `hotkeys_sync` | a disabled module keeps its long press (known deviation 2) | as `hotkeys`, without policy |
| `kbm` | modifiers that are down are held or belong to what is invoked; targets go up; nothing stays invoked; one shortcut at a time; the application is remembered; every event gets through | a table for all applications with shortcuts to a shortcut that overlaps another, a key and a text, one of an application to nothing, two single keys: every kind of target; seven keys of which three are held (two modifiers and a letter, or a modifier and two letters), so that the next shortcut takes over from the first. After a disturbance one key is held at a time (`MaxDisturbed` 1), enough to leave any shortcut; what more keys do then is left to the theorem `OneShortcutInvoked` |
| `launcher` | nothing stale, nothing mixed, nothing twice; the list and the window are complete in the end; an empty query leaves nothing; everything comes to rest | two queries and one empty one, with the same text or different ones, a slow plugin that finds what is in the history and the history as a fast one, texts with the keyword of one, without a keyword and of spaces, with the global plugins or without, with and without the final sort. Every hazard is between one query and what comes after it; the theorems cover every number |

Deadlock is checked where the system never stops (`updating`, `kbm`); in the
others threads end, users stop clicking, and the counters of changes run out.

Properties of `kbm` name what they need of the tables. `KeysApart`: no shortcut
to a key shares its modifiers with one to a shortcut in the same table, since
case 5 does not mark the former as invoked. `TablesApart`: no target in one
table presses a modifier that a shortcut of another table begins with, be it as
a modifier or as the key itself, since two tables may each have one invoked.
`AppsApart`: the shortcuts of applications are to nothing or to texts and have a
modifier in common with those to keys, or else those for all applications are to
shortcuts and no two of an application with the same modifiers are; other
shortcuts let the engine forget the application. For every table and keyboard
that is not enough: `Apart` adds that single keys are to one key that is not
remapped again, or to nothing or a text (`SinglesApart`), that no two keys of
the user are for the same modifier (`HandsApart`), and that all that is used of
a modifier is of one side (`SidesApart`). The tables and the keyboard of the run
are `Apart`, which it evaluates (`TablesAreApart`): a single key gives the Alt that
a shortcut is made of, so that both press it and either may let go first. With
tables that are not, the properties fail in the ways section 5 lists.

Fairness (weak fairness throughout). `queue`: whoever holds the mutex or is about to notify goes on, and a
reader takes a mutex that stays free; nobody has to write, and no spurious
wake-up is owed. `pipe_live`: the threads of the objects run; nobody has to
send, end or die. `settings`: launching threads, the main thread in
`open_settings_window` and click timers run, and `ipc_mutex` comes to whoever waits
for it unless `end()` hangs while it is held, which may happen at any time; the user
and the settings process do as they like. `rename_nested`: threads run, and the main
thread handles its messages and looks at the handle of the file operation over and
over, as the loop that polls it with `WaitForSingleObject(..., 0)` and `PeekMessage`
does (`PowerRenameManager.cpp:667`). `kbm`: Windows calls the hook for each event;
the user owes nothing. `launcher`: the threads of the pool run and plugins answer,
the UI thread takes up what it was given; nobody has to type. All of these are
threads the system schedules.

## 5. Known deviations

Checked by the runs that expect a violation:

1. `UpdateUtils.cpp:248` stores a copy read earlier over what the other worker has
   stored in the file since (`:285` does the same the other way round), although
   `updateState.h:22` promises that the interface prevents concurrent modification.
2. `powertoy_module.cpp:100` adds long press descriptors for disabled modules, in the
   run for one that is disabled at start-up. (Every switch adds them once more,
   which this run does not need.)

Seen while modelling, present in the models, and not checked by a run of its
own:

- `PowerToys.Update.cpp:61` uses the version information before the test on
  line 70 that it is there. A clean-up that throws ends the runner
  (`main.cpp:415`) or the updater (`PowerToys.Update.cpp:77`).
- `two_way_pipe_message_ipc.cpp:108` and `:432`: a message is given up when its
  receiver is between two pipe instances, or when the client was faster than
  `ConnectNamedPipe`; `doc/devdocs/settingsv2/runner-ipc.md:45` says that
  whenever something is sent it is acted upon.
- `settings_window.cpp:466`: after a failed `CreateProcess` the launch flag
  stays set. `settings_window.cpp:606`: two requests between the test and the
  update start two settings processes, and the second launch to reach `:481`
  overwrites the pointer to the pipe object of the first, which is then never ended
  or deleted: it and its threads stay. `NoIpcLeft` says that this is the only way.
- `settings_window.cpp:502` closes the handle of the process before `end()` on `:515`,
  and only `:526` resets the id. In between the id is that of no process, or of
  whatever process the system gives it next, and `close_settings_window` (`:617`)
  would terminate that. If `end()` hangs, this window does not end. `IdIsHeld` says
  that there is no other.
- `settings_window.cpp:574` to `:598` test and use the pipe pointer without `ipc_mutex`;
  between the test and the use it may become null, or its object be deleted.
- `tray_icon.cpp:202`: the second click of a slow double click counts as a new
  click.
- `PowerRenameManager.cpp:704` gives the file operation thread the start event
  of the preview thread, so it does not wait for line 665; `:857` lets the main
  thread enter again, so a preview may run beside a rename.
- `centralized_kb_hook.cpp:137` forgets a key that is still down when another
  is released, and `:98` remembers one that went up while no module tracked
  keys: a long press may then trigger during a shortcut, or not at all.
- `two_way_pipe_message_ipc.cpp:72` cancels a `ConnectNamedPipe` that may not
  have been called yet; the join after it then waits for ever, under
  `ipc_mutex`. `EndHangsOnlyInConnect` says that this is the only way; `LaunchEnds`
  excepts the launches it keeps (`StuckInEnd`).
- `PowerRenameManager.cpp:871` resets the cancel event only after the new thread
  may have seen it: the list keeps the names of the terms before, until the
  next change. `:824` lets the shell use another name when one is taken
  (`FOF_RENAMEONCOLLISION`, `:16`), and the operations may fail: the paths were set
  when the renames were queued (`:797`), and are then not those on the disk.
- `KeyboardEventHandlers.cpp`: a letter pressed while its shortcut is held back
  stays down when a modifier goes up first (`:369`). Case 5 to a new shortcut
  that is remapped to a key sends the key and does not mark it as invoked
  (`:631`), and forgets the application of a table it stays in (`:728`). The tests
  on `:575` and `:802` hold for an empty `activatedApp`, too, against the comment
  above them. A text as the target throws in case 4 (`:598`) and in case 5
  (`:649`), which ends the process. In case 1 with a text nothing is sent, and
  the other modifiers stay up. An application's shortcut and one for all
  applications can be invoked together, though
  `doc/devdocs/modules/keyboardmanager/keyboardeventhandlers.md:25` wants no two
  at a time: with Alt+B to Win+A for all applications and Win+X to Shift in one,
  held Alt, B, X and Ctrl and released Alt and X leave the Windows key down for
  good, since the end of the second presses a modifier of which nobody knows
  that it was not the user's. With Win+C to nothing for all applications and
  Ctrl+A to C in one, the end of the former forgets the application of the
  latter. Both sides of a modifier: a shortcut with "Ctrl" for either
  side takes the release of one side for its end (`:369`) and suppresses it, even
  if the other side invoked it. With Win+Ctrl+B to a text and Ctrl+B to Win+V:
  held Windows, left Ctrl and B, released B and left Ctrl, pressed both again,
  released Windows, pressed and released right Ctrl and released left Ctrl, right
  Ctrl stays down. The same happens with a single key that is remapped to right
  Ctrl, and not with one Ctrl key only. `KeyboardManager.cpp:54`: a
  reload forgets what is invoked and keeps the activated application. (It may also
  come in the middle of a handler that iterates over the tables, which is undefined
  and not modelled.)
- `MainViewModel.cs`: an older query with the same text clears the list of the
  newer one (`:656`), and so does a late clean-up (`:772`). An older action of the
  UI thread shows the window after the query became empty (`:792`). The final
  sort without the lock loses results and brings old ones back, or throws (`:754`).
  `ResultsViewModel.cs:297` removes a result of the history for one that another
  plugin has as well, and does not bring it back when that plugin's slow results,
  without the one in question, replace its fast ones (`MainViewModel.cs:703`). A text no
  plugin answers to cancels the query before it and leaves its text the current
  one, so its list stays (`:593`).

## 6. Proofs

Every theorem but the refinement `QueueIsChannel` and the action property
`AppForgotten` is `Spec => []Inv`, by an inductive invariant `IInv`:
`Init => IInv`, `IInv /\ [Next]_vars => IInv'` with one step per action,
`IInv => Inv`. The assumptions are those on the constants
(`ConstantsAssumption` and so on), which the runs evaluate, and for three
invariants of `KbmEngine` `Apart`, which its run evaluates, too.

- `UpdatingProofs`: `TypeCorrect`, `FileConsistent`, `NoStaleOffer` and
  `ReadyIsThere`. What the file says cannot be shown from the file alone, since
  actors store copies: `LocalsOK` says of the locals of every actor, at each
  point of its code, what its copy may offer relative to the version that was
  built into it, and `FileOK` that the file is never of a version later than the
  installed one. `ReadyIsThere` needs a second invariant, `RInv`: what each
  actor `Knows` of the disk at each point of its code as long as no race was
  recorded. `Disturbing` and `Undisturbing` divide the steps: whoever changes
  the file or the disk makes all others stale and owes them nothing, and every
  other step leaves what the others know.
- `AsyncMessageQueueProofs`: `TypeCorrect`, `WakeupsNotLost` and
  `QueueIsChannel`. `NoLostWakeup` is nearly inductive: `WaitingWaits` adds that
  the threads on the condition variable are those that wait. The refinement
  holds step by step: the push, the interrupt and the pop are the steps of
  `MessageChannel`, all others stutter.
- `TwoWayPipeProofs`: `TypeCorrect`, `InOnePlace`, `ZerosAfterDeath`.
  `SentRight` says of each message how far its sender is and in what state that
  leaves the sender's end of the connection, `ReadRight` the same of the
  instance and the thread that reads it; `Own` and `NoTwice` say that what an
  object holds is its own and in no queue twice, which taking the front off
  needs. `Same` are the facts of a message on which these depend: a step moves
  one message and leaves the others the `Same`, so each step is proved for the
  message it moves.
- `SettingsWindowProofs`: `TypeCorrect`, `IpcIsValid`, `GlobalsHonest`,
  `NoIpcIsLeft`. The invariant says who holds the mutex, which pipe objects and
  processes have been created, and that the pointer is that of a deleted object
  only between the deletion and the reset, under the mutex. `IdIsHeld`,
  `FlagIsHonest` and `NoIpcLeft` are inductive beside these: each names what the
  thread that holds a handle, a flag or a pipe object is still on its way to do.
  `OnlyOverwrittenLeft` draws the conclusion that once no launch is at work the
  pointer is null and what has not been deleted was overwritten.
- `PowerRenameProofs`: `TypeCorrect`, `OnePreviewThread`, `NeverWaitsForItself`,
  `PreviewsAreCurrent`, `PathsAreOnDisk`: every safety property of `PowerRename`.
  A preview thread runs only while the manager has its handle, and a thread is
  created only when there is no handle (`HandleHeld`); the main thread has
  entered the critical section before it creates one (`Entered`), so the preview
  thread fails to enter and never waits. That paths have a layer per ancestor
  needs the existence of ancestors, by the least element of a set of numbers
  (`AncestorExists`). The other two rest on `Order`, for which `StepKinds` and
  `RenamerKinds` divide the steps by what they do to a rename: only the thread
  whose handle the main thread has is at work, and has ended when no messages
  are pumped (`OneRename`); it starts with nothing queued (`Untouched`), keeps the
  items in step just when the window stays (`Keeps`), and deals with no item
  before those below it (`DeepestFirst`). `PathsFollow` then says of each layer
  of each path, at every point of a rename, whether it has the name on the disk
  or the queued one: the queued one for the item itself at once, and for the
  items below it from the update on. That the update reaches just these is
  `AncestorShared` and `BelowAncestor`. The file found for an item is then its own
  (`Found`), and what the shell makes of the queue is what was queued unless it has
  left something out or used another name, which `failed` records. `Current` says that
  a preview thread has given each item before its own the right name and the status
  of that name, and that the item it is at has the status of the name it is about to
  put (`Halfway`); it holds only where the main
  thread cannot have changed terms without having cancelled the thread, and no
  rename is at work (`Settled`).
- `CentralizedHotkeysProofs`: `TypeCorrect`, `TablesFollowModules`,
  `PostedAnswered`, `NoLateTimer`: every safety property of `CentralizedHotkeys`
  but the one the code does not have. Two lemmas about sequences without
  repetition say what removing and appending an action do; `StepKinds` then
  divides the steps into those that keep all settings and those that reconfigure
  one module, so that each invariant is proved for two cases instead of ten. The
  strengthening is small: what is enabled has been started (`OnlyReadyEnabled`),
  and a timer that is set belongs to a key that is down and tracked, or its
  module was cleared (`TimersTracked`).
- `KbmEngineProofs`, for all tables: `TypeCorrect`, which has to follow the
  events a handler sends through every case, `OneShortcutInvoked` and
  `AppForgotten`. `AtMostOne` says the same as `OneInvoked` without cardinalities:
  of two shortcuts invoked in a table, both are the same one. `AppForgotten` is
  what holds of `AppRemembered` for all tables, and with settings and
  applications that change at any time: a step can part the remembered
  application from the one with a shortcut invoked only when two tables have one
  invoked, when case 5 goes from one shortcut of an application straight to
  another, or when the settings are loaded meanwhile (`Loses`).
  For those that are `Apart` (section 4), while nothing was `disturbed`:
  `NoModifierStuckEver`, `AllReleasedEver` and `AppRememberedEver`, from the
  invariant of `KeysHaveReasons`. A handler sets its state and then sends, so the
  keys that are down lag behind the flags. `Settled` are those that will be down
  when the events of shortcuts that are on their way have passed; these agree
  with the flags after every handler. `ReasonsInv`: each has a reason, which is
  that a key the user holds gives it, that its release is still on its way, that
  an invoked shortcut presses it, or that it is the action key of a shortcut,
  which may stay (section 5). `SourcesInv` and `LiftedInv`: the modifiers of an
  invoked shortcut are held, and up for the applications but for those of its
  target; `ShortcutsInv`: no two invoked shortcuts have a modifier in common.
  `PendingInv`: a press on its way is that of the key that repeats. `KeysInv`: on
  the way are events of shortcuts, then at most one other, and no handler
  throws. `HandlerKeeps` proves the invariant from what a handler sends
  and does to the flags, in three forms: it invokes a shortcut (`Invokes`), ends
  one (`EndKeeps`) or leaves all as they were (`StayKeeps`); `ModifiersUpEvents` and
  `ModifiersDownEvents` say what the two directions of
  `Helpers::SetModifierKeyEvents` send. `PassKeeps` is the other half: an event
  that is handled changes `down` and leaves `Settled`. `Apart` is used where two
  tables may both have a shortcut invoked (`PressesApart`), where the key behind a
  modifier must be known from its kind (`Slot`), where a single key sends its
  target (`SingleKeeps`), and for `Agrees`, where it rules out what `Loses` names
  (`NothingForgotten`, `NoneReplaces`).
- `LauncherProofs`: `TypeCorrect`, `OfOneQueryEver`, `OnceEachEver`,
  `CompleteEver`, `EmptyForEver`: every safety property of `Launcher`. `TaskKinds` and `SlowKinds` divide the steps by what they do
  with the lock: outside it, enter, pass a test, add, leave. `Discipline` says
  who is in the lock, that only the token of the latest query may be live
  (`Order`), and that who has passed the last test of its token is the latest
  query, or was when the list had not been cleared for the latest one
  (`Passed`). `Contents` says that the list belongs to whoever is in the lock
  (`Owned`), has each plugin once (`Distinct`) and none of those who are about
  to add theirs (`Room`). The list itself is only known to be free of older
  queries because both hold together. `Emptied`, for `EmptyForEver`: after an
  empty query a clean-up is still to come, or the task of a query of spaces that
  will clear the list, or the list is empty and nobody holds results for it.
  That such a task is not stopped by a later query that no plugin answers to
  follows from `Build`: if spaces are asked about, so is every text.
  `Completeness`, for `CompleteEver`, follows the results of the latest query
  from plugin to window: while its token is live, whatever a plugin found is in
  the list, or its task or thread has still to add it, or it is a result of the
  history that another plugin has as well (`Known`; `SortKnown`: a sort takes out
  nothing else); an action that will show the list is on its way or still to be sent.
  For the other invariants it is enough that a sort makes the list smaller
  (`ThinnedOnly`).

Only model-checked: liveness and the fairness of the refinement (`ENABLED` is
out of the prover's reach), and the step property of `MC_UpdatingLost`, which does
not hold. Every other invariant and action property that the passing
runs check is stated by a theorem; the three of `KbmEngine` above for tables that
are `Apart`, as those of the run are. Attempts to prove
them under less failed on tables for which TLC then found behaviours that
violate them: without `TablesApart` or `AppsApart`, or with both sides of a
modifier. `SinglesApart` is what the proof needs of single keys, not what is
known to be necessary.

## 7. Not modelled

Logging, telemetry, layout and wording; the pixels and windows of all modules;
security attributes and tokens; the contents of settings other than what the
properties tell apart; times, which are replaced by "any number of other steps
later". `PROJECT.json` gives the reason for each component without a module.

PowerToys is written in C++ and C#, and that is what is modelled. The JavaScript
in the repository is the Monaco editor in its minified form, which the previewer
for source files loads, and a few files that register languages with it: they
declare syntax and keep no state worth a model.
