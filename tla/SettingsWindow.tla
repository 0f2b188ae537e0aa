--------------------------- MODULE SettingsWindow ---------------------------
(***************************************************************************)
(* How the runner starts, reaches and leaves the settings process          *)
(* (settings_window.cpp), and the clicks on the tray icon that ask for it  *)
(* (tray_icon.cpp).  A detached thread per launch starts the process,      *)
(* owns the pipe to it and waits for its end; the main thread and the      *)
(* thread of the click timer read the globals it writes.                   *)
(***************************************************************************)
EXTENDS Naturals, FiniteSets

CONSTANTS
    Launches,       \* calls of run_settings_window, their processes and pipes
    None,           \* no process, no pipe object, nobody holds the mutex
    Timers,         \* threads of the click timer
    MaxClicks,      \* bound on what the user does at the tray icon
    CreateMayFail,  \* CreateProcess may fail
    TokenMayFail,   \* OpenProcessToken may fail
    EndMayHang      \* end() may wait for ever (see EndCancel of TwoWayPipe)

ASSUME SettingsAssumption ==
    /\ None \notin Launches /\ "main" \notin Timers
    /\ MaxClicks \in Nat
    /\ CreateMayFail \in BOOLEAN /\ TokenMayFail \in BOOLEAN /\ EndMayHang \in BOOLEAN

\* The threads that call open_settings_window
Openers == {"main"} \cup Timers

VARIABLES
    g_isLaunchInProgress,
    g_settings_process_id,
    current_settings_ipc,
    ipc_mutex,              \* the launching thread that holds it
    created,                \* pipe objects that have been made, with their threads
    deleted,                \* pipe objects that have been deleted
    overwritten,            \* history: objects whose pointer another launch replaced
    handles,                \* settings processes whose handle is open
    process,                \* each settings process
    launcher,               \* where each launching thread is
    opener,                 \* where each thread is in open_settings_window
    double_click_timer_running,
    double_clicked,
    timer,                  \* where each click timer thread is
    gesture,                \* how far a double click has come
    clicks

globals == <<g_isLaunchInProgress, g_settings_process_id, current_settings_ipc>>
tray    == <<double_click_timer_running, double_clicked, timer, gesture, clicks>>
owned   == <<created, deleted, overwritten, handles>>
vars    == <<globals, ipc_mutex, owned, process, launcher, opener, tray>>

TypeOK ==
    /\ g_isLaunchInProgress \in BOOLEAN
    /\ g_settings_process_id \in Launches \cup {None}
    /\ current_settings_ipc \in Launches \cup {None}
    /\ ipc_mutex \in Launches \cup {None}
    /\ created \subseteq Launches
    /\ deleted \subseteq Launches
    /\ overwritten \subseteq Launches
    /\ handles \subseteq Launches
    /\ process \in [Launches -> {"none", "running", "ended"}]
    /\ launcher \in [Launches -> {"none", "start", "create", "launched", "token", "ipc",
                                  "id", "wait", "exit", "lock", "ending", "hung",
                                  "deleted", "reset", "ended"}]
    /\ opener \in [Openers -> {"idle", "id", "ipc", "send", "flag", "quit"}]
    /\ double_click_timer_running \in BOOLEAN
    /\ double_clicked \in BOOLEAN
    /\ timer \in [Timers -> {"none", "sleep", "elapsed", "ended"}]
    /\ gesture \in {"none", "first", "second"}
    /\ clicks \in 0 .. MaxClicks

\* On its first start, and on the first one of a new version, the runner opens
\* the OOBE or SCOOBE window, which asks nobody.
Init ==
    /\ g_isLaunchInProgress = FALSE
    /\ g_settings_process_id = None
    /\ current_settings_ipc = None
    /\ ipc_mutex = None
    /\ created = {}
    /\ deleted = {}
    /\ overwritten = {}
    /\ handles = {}
    /\ process = [l \in Launches |-> "none"]
    /\ \/ launcher = [l \in Launches |-> "none"]
       \/ \E first \in Launches :
            launcher = [l \in Launches |-> IF l = first THEN "start" ELSE "none"]
    /\ opener = [o \in Openers |-> "idle"]
    /\ double_click_timer_running = FALSE
    /\ double_clicked = FALSE
    /\ timer = [t \in Timers |-> "none"]
    /\ gesture = "none"
    /\ clicks = 0

-----------------------------------------------------------------------------
(* run_settings_window, in a thread of its own.                            *)

LauncherAt(l, pc) == launcher[l] = pc
LauncherGoto(l, pc) == launcher' = [launcher EXCEPT ![l] = pc]

BeginLaunch(l) ==
    /\ LauncherAt(l, "start")
    /\ g_isLaunchInProgress' = TRUE
    /\ LauncherGoto(l, "create")
    /\ UNCHANGED <<g_settings_process_id, current_settings_ipc, ipc_mutex, owned,
                   process, opener, tray>>

CreateProcessW(l) ==
    /\ LauncherAt(l, "create")
    /\ process' = [process EXCEPT ![l] = "running"]
    /\ handles' = handles \cup {l}
    /\ LauncherGoto(l, "launched")
    /\ UNCHANGED <<globals, ipc_mutex, created, deleted, overwritten, opener, tray>>

\* goto LExit, with g_isLaunchInProgress left as it is
CreateFails(l) ==
    /\ LauncherAt(l, "create")
    /\ CreateMayFail
    /\ LauncherGoto(l, "exit")
    /\ UNCHANGED <<globals, ipc_mutex, owned, process, opener, tray>>

Launched(l) ==
    /\ LauncherAt(l, "launched")
    /\ g_isLaunchInProgress' = FALSE
    /\ LauncherGoto(l, "token")
    /\ UNCHANGED <<g_settings_process_id, current_settings_ipc, ipc_mutex, owned,
                   process, opener, tray>>

\* OpenProcessToken; without it the process runs on, and nobody waits for it
GetToken(l) ==
    /\ LauncherAt(l, "token")
    /\ \/ LauncherGoto(l, "ipc")
       \/ TokenMayFail /\ LauncherGoto(l, "exit")
    /\ UNCHANGED <<globals, ipc_mutex, owned, process, opener, tray>>

\* under ipc_mutex; the pointer to an object that was there is overwritten, and
\* that object and its threads stay for good
StartIpc(l) ==
    /\ LauncherAt(l, "ipc")
    /\ ipc_mutex = None
    /\ current_settings_ipc' = l
    /\ created' = created \cup {l}
    /\ overwritten' = overwritten \cup ({current_settings_ipc} \ {None})
    /\ LauncherGoto(l, "id")
    /\ UNCHANGED <<g_isLaunchInProgress, g_settings_process_id, ipc_mutex, deleted,
                   handles, process, opener, tray>>

StoreId(l) ==
    /\ LauncherAt(l, "id")
    /\ g_settings_process_id' = l
    /\ LauncherGoto(l, "wait")
    /\ UNCHANGED <<g_isLaunchInProgress, current_settings_ipc, ipc_mutex, owned,
                   process, opener, tray>>

WaitForProcess(l) ==
    /\ LauncherAt(l, "wait")
    /\ process[l] = "ended"
    /\ LauncherGoto(l, "exit")
    /\ UNCHANGED <<globals, ipc_mutex, owned, process, opener, tray>>

\* LExit: first the handle is closed, if there is one; the identifier stays
CloseHandles(l) ==
    /\ LauncherAt(l, "exit")
    /\ handles' = handles \ {l}
    /\ LauncherGoto(l, "lock")
    /\ UNCHANGED <<globals, ipc_mutex, created, deleted, overwritten, process, opener,
                   tray>>

\* mutant: the pointer is not tested, and may be null
LockForExit_Untested(l) ==
    /\ LauncherAt(l, "lock")
    /\ ipc_mutex = None
    /\ LauncherGoto(l, "ending") /\ ipc_mutex' = l
    /\ UNCHANGED <<globals, owned, process, opener, tray>>

\* mutant: without a pipe object there is nothing to clean up
LockForExit_Returns(l) ==
    /\ LauncherAt(l, "lock")
    /\ ipc_mutex = None
    /\ IF current_settings_ipc = None
       THEN LauncherGoto(l, "ended") /\ UNCHANGED ipc_mutex
       ELSE LauncherGoto(l, "ending") /\ ipc_mutex' = l
    /\ UNCHANGED <<globals, owned, process, opener, tray>>

\* mutant: the object is deleted only when the current process is this one
LockForExit_OwnOnly(l) ==
    /\ LauncherAt(l, "lock")
    /\ ipc_mutex = None
    /\ IF current_settings_ipc = None \/ g_settings_process_id # l
       THEN LauncherGoto(l, "reset") /\ UNCHANGED ipc_mutex
       ELSE LauncherGoto(l, "ending") /\ ipc_mutex' = l
    /\ UNCHANGED <<globals, owned, process, opener, tray>>

\* then whatever object is current is ended and deleted under the mutex
LockForExit(l) ==
    /\ LauncherAt(l, "lock")
    /\ ipc_mutex = None
    /\ IF current_settings_ipc = None
       THEN LauncherGoto(l, "reset") /\ UNCHANGED ipc_mutex
       ELSE LauncherGoto(l, "ending") /\ ipc_mutex' = l
    /\ UNCHANGED <<globals, owned, process, opener, tray>>

\* end() has joined the threads of the object
DeleteIpc(l) ==
    /\ LauncherAt(l, "ending")
    /\ deleted' = deleted \cup {current_settings_ipc}
    /\ LauncherGoto(l, "deleted")
    /\ UNCHANGED <<globals, ipc_mutex, created, overwritten, handles, process, opener,
                   tray>>

\* end() waits for ever for the server thread of the object, with ipc_mutex held
EndHangs(l) ==
    /\ LauncherAt(l, "ending")
    /\ EndMayHang
    /\ LauncherGoto(l, "hung")
    /\ UNCHANGED <<globals, ipc_mutex, owned, process, opener, tray>>

\* mutant: the pointer keeps its value
ClearIpc_Forgotten(l) ==
    /\ LauncherAt(l, "deleted")
    /\ ipc_mutex' = None
    /\ LauncherGoto(l, "reset")
    /\ UNCHANGED <<globals, owned, process, opener, tray>>

\* mutant: the mutex is never unlocked
ClearIpc_KeepsMutex(l) ==
    /\ LauncherAt(l, "deleted")
    /\ current_settings_ipc' = None
    /\ LauncherGoto(l, "reset")
    /\ UNCHANGED <<g_isLaunchInProgress, g_settings_process_id, ipc_mutex, owned,
                   process, opener, tray>>

ClearIpc(l) ==
    /\ LauncherAt(l, "deleted")
    /\ current_settings_ipc' = None
    /\ ipc_mutex' = None
    /\ LauncherGoto(l, "reset")
    /\ UNCHANGED <<g_isLaunchInProgress, g_settings_process_id, owned, process,
                   opener, tray>>

ResetId(l) ==
    /\ LauncherAt(l, "reset")
    /\ g_settings_process_id' = None
    /\ LauncherGoto(l, "ended")
    /\ UNCHANGED <<g_isLaunchInProgress, current_settings_ipc, ipc_mutex, owned,
                   process, opener, tray>>

\* The user closes the window
SettingsExit(l) ==
    /\ process[l] = "running"
    /\ process' = [process EXCEPT ![l] = "ended"]
    /\ UNCHANGED <<globals, ipc_mutex, owned, launcher, opener, tray>>

-----------------------------------------------------------------------------
(* open_settings_window, in the main thread or in one of a click timer.    *)

OpenerAt(o, pc) == opener[o] = pc
OpenerGoto(o, pc) == opener' = [opener EXCEPT ![o] = pc]

TestId(o) ==
    /\ OpenerAt(o, "id")
    /\ OpenerGoto(o, IF g_settings_process_id # None THEN "ipc" ELSE "flag")
    /\ UNCHANGED <<globals, ipc_mutex, owned, process, launcher, tray>>

\* without ipc_mutex
TestIpc(o) ==
    /\ OpenerAt(o, "ipc")
    /\ OpenerGoto(o, IF current_settings_ipc # None THEN "send" ELSE "idle")
    /\ UNCHANGED <<globals, ipc_mutex, owned, process, launcher, tray>>

\* "ShowYourself"
SendShow(o) ==
    /\ OpenerAt(o, "send")
    /\ OpenerGoto(o, "idle")
    /\ UNCHANGED <<globals, ipc_mutex, owned, process, launcher, tray>>

TestFlag(o) ==
    /\ OpenerAt(o, "flag")
    /\ \/ g_isLaunchInProgress /\ UNCHANGED launcher
       \/ /\ ~g_isLaunchInProgress
          /\ \E l \in Launches : LauncherAt(l, "none") /\ LauncherGoto(l, "start")
    /\ OpenerGoto(o, "idle")
    /\ UNCHANGED <<globals, ipc_mutex, owned, process, tray>>

-----------------------------------------------------------------------------
(* The tray icon: messages to the main thread, and the click timer.        *)

MainMessage == OpenerAt("main", "idle") /\ clicks < MaxClicks /\ clicks' = clicks + 1

\* the menu, or another instance of the runner that was told to open settings
MenuOpen ==
    /\ MainMessage
    /\ OpenerGoto("main", "id")
    /\ UNCHANGED <<globals, ipc_mutex, owned, process, launcher,
                   double_click_timer_running, double_clicked, timer, gesture>>

StartTimer ==
    \E t \in Timers :
      /\ timer[t] = "none"
      /\ timer' = [timer EXCEPT ![t] = "sleep"]

\* WM_LBUTTONUP, of a click or of the second click of a double click
LButtonUp ==
    /\ MainMessage
    /\ gesture # "first"
    /\ gesture' = IF gesture = "none" THEN "first" ELSE "none"
    /\ \/ /\ double_click_timer_running
          /\ UNCHANGED <<double_click_timer_running, double_clicked, timer>>
       \/ /\ ~double_click_timer_running
          /\ double_click_timer_running' = TRUE
          /\ double_clicked' = FALSE
          /\ StartTimer
    /\ UNCHANGED <<globals, ipc_mutex, owned, process, launcher, opener>>

\* WM_LBUTTONDBLCLK
LButtonDblClk ==
    /\ MainMessage
    /\ gesture = "first"
    /\ gesture' = "second"
    /\ double_clicked' = TRUE
    /\ OpenerGoto("main", "id")
    /\ UNCHANGED <<globals, ipc_mutex, owned, process, launcher,
                   double_click_timer_running, timer>>

\* the time for a second click is over
NoSecondClick ==
    /\ gesture = "first"
    /\ gesture' = "none"
    /\ UNCHANGED <<globals, ipc_mutex, owned, process, launcher, opener,
                   double_click_timer_running, double_clicked, timer, clicks>>

\* click_timer_elapsed
TimerElapses(t) ==
    /\ timer[t] = "sleep"
    /\ double_click_timer_running' = FALSE
    /\ timer' = [timer EXCEPT ![t] = "elapsed"]
    /\ UNCHANGED <<globals, ipc_mutex, owned, process, launcher, opener,
                   double_clicked, gesture, clicks>>

\* the flyout opens unless there was a double click
TimerOpens(t) ==
    /\ timer[t] = "elapsed"
    /\ timer' = [timer EXCEPT ![t] = "ended"]
    /\ IF double_clicked THEN UNCHANGED opener ELSE OpenerGoto(t, "id")
    /\ UNCHANGED <<globals, ipc_mutex, owned, process, launcher,
                   double_click_timer_running, double_clicked, gesture, clicks>>

\* WM_DESTROY: close_settings_window terminates the process it knows of
Destroy ==
    /\ OpenerAt("main", "idle")
    /\ OpenerGoto("main", "quit")
    /\ process' = IF g_settings_process_id = None THEN process
                  ELSE [process EXCEPT ![g_settings_process_id] = "ended"]
    /\ UNCHANGED <<globals, ipc_mutex, owned, launcher, tray>>

-----------------------------------------------------------------------------
Launcher(l) ==
    \/ BeginLaunch(l) \/ CreateProcessW(l) \/ CreateFails(l) \/ Launched(l)
    \/ GetToken(l) \/ StartIpc(l) \/ StoreId(l) \/ WaitForProcess(l)
    \/ CloseHandles(l) \/ LockForExit(l) \/ DeleteIpc(l) \/ EndHangs(l)
    \/ ClearIpc(l) \/ ResetId(l)

Opener(o) == TestId(o) \/ TestIpc(o) \/ SendShow(o) \/ TestFlag(o)
Timer(t)  == TimerElapses(t) \/ TimerOpens(t)

Next ==
    \/ \E l \in Launches : Launcher(l) \/ SettingsExit(l)
    \/ \E o \in Openers : Opener(o)
    \/ \E t \in Timers : Timer(t)
    \/ MenuOpen \/ LButtonUp \/ LButtonDblClk \/ NoSecondClick \/ Destroy

Spec == Init /\ [][Next]_vars

\* Threads run; ipc_mutex is held for a bounded time unless end() hangs.  The
\* user does as he likes.
Fairness ==
    /\ \A l \in Launches : WF_vars(Launcher(l))
    /\ \A o \in Openers : WF_vars(Opener(o))
    /\ \A t \in Timers : WF_vars(Timer(t))

FairSpec == Spec /\ Fairness

-----------------------------------------------------------------------------
\* Whoever takes ipc_mutex finds no pointer to a deleted object: answers to the
\* settings can be sent.  (Opening the settings tests and uses the pointer without
\* the mutex; nothing is said of that.)
IpcValid == ipc_mutex = None => current_settings_ipc \notin deleted

\* The identifier outlives the handle of its process only while the thread that
\* closed it is on its way to reset it: it is never left behind for good by a
\* thread that is over.
IdIsHeld ==
    g_settings_process_id # None =>
      \/ g_settings_process_id \in handles
      \/ launcher[g_settings_process_id] \in {"lock", "ending", "hung", "deleted",
                                              "reset"}

\* The current pipe object is deleted in time: the thread of its own launch has
\* still to come to LExit.  No object is left without a pointer to it, except one
\* whose pointer a launch that overlapped with it has overwritten.  So when no
\* launch is left the pointer is null, and what is left are the overwritten ones.
NoIpcLeft ==
    /\ current_settings_ipc # None =>
         launcher[current_settings_ipc] \in {"id", "wait", "exit", "lock", "ending",
                                             "hung", "deleted"}
    /\ created \ deleted \subseteq overwritten \cup {current_settings_ipc}

\* While a launch is said to be in progress, a thread is about to say that it
\* is over, or CreateProcess has failed.
FlagIsHonest ==
    g_isLaunchInProgress =>
      \E l \in Launches :
        \/ launcher[l] \in {"create", "launched"}
        \/ process[l] = "none" /\ launcher[l] \notin {"none", "start"}

\* What the launching threads write without a lock is never left behind.
GlobalsAreHonest == IdIsHeld /\ FlagIsHonest

\* The thread is in an end() that never returns, or behind one for ipc_mutex.
StuckInEnd(l) ==
    /\ launcher[l] \in {"ipc", "lock", "hung"}
    /\ \E k \in Launches : LauncherAt(k, "hung") /\ ipc_mutex = k

\* A launching thread gets as far as waiting for its process, and comes to its
\* end once that has ended, whatever else goes wrong; the only thing that keeps it
\* is an end() that hangs and keeps ipc_mutex.
LaunchEnds ==
    \A l \in Launches :
      /\ LauncherAt(l, "start") ~> launcher[l] \in {"wait", "ended"} \/ StuckInEnd(l)
      /\ process[l] = "ended" ~> LauncherAt(l, "ended") \/ StuckInEnd(l)
=============================================================================
