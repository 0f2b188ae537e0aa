------------------------ MODULE SettingsWindowProofs ------------------------
(***************************************************************************)
(* Proofs about SettingsWindow for any number of overlapping launches.     *)
(***************************************************************************)
EXTENDS SettingsWindow, TLAPS

USE SettingsAssumption

HasProcess == {"launched", "token", "ipc", "id", "wait"}
BeforeIpc  == {"none", "start", "create", "launched", "token", "ipc"}

\* The mutex is held from the lock in LExit to the reset of the pointer, by one
\* thread, which finds a pipe object there
MutexHeld ==
    /\ \A l \in Launches : launcher[l] \in {"ending", "hung", "deleted"} => ipc_mutex = l
    /\ \A l \in Launches : launcher[l] = "deleted" => current_settings_ipc \in deleted
    /\ ipc_mutex # None =>
         /\ launcher[ipc_mutex] \in {"ending", "hung", "deleted"}
         /\ current_settings_ipc # None
    /\ current_settings_ipc \in deleted =>
         ipc_mutex # None /\ launcher[ipc_mutex] = "deleted"

\* Pipe objects are those of threads that have come that far
IpcCreated ==
    /\ \A d \in created \cup deleted : launcher[d] \notin BeforeIpc
    /\ current_settings_ipc # None => launcher[current_settings_ipc] \notin BeforeIpc

ProcessCreated ==
    /\ \A l \in Launches : launcher[l] \in HasProcess =>
         process[l] # "none" /\ l \in handles
    /\ \A l \in Launches : launcher[l] \in {"none", "start", "create"} => process[l] = "none"
    /\ g_settings_process_id # None => process[g_settings_process_id] # "none"

IInv == /\ TypeOK /\ MutexHeld /\ IpcCreated /\ ProcessCreated
        /\ IdIsHeld /\ FlagIsHonest /\ NoIpcLeft

-----------------------------------------------------------------------------
LEMMA InitInv == Init => IInv
<1> SUFFICES ASSUME Init PROVE IInv
  OBVIOUS
<1>1. launcher \in [Launches -> {"none", "start"}]
  BY DEF Init
<1>2. TypeOK
  <2>1. clicks \in 0 .. MaxClicks
    BY DEF Init
  <2>2. opener \in [Openers -> {"idle", "id", "ipc", "send", "flag", "quit"}]
    BY DEF Init
  <2> QED BY <1>1, <2>1, <2>2 DEF Init, TypeOK
<1>3. /\ MutexHeld /\ IpcCreated /\ ProcessCreated /\ IdIsHeld /\ FlagIsHonest
      /\ NoIpcLeft
  BY <1>1 DEF Init, MutexHeld, IpcCreated, ProcessCreated, IdIsHeld, FlagIsHonest,
              NoIpcLeft, HasProcess
<1> QED BY <1>2, <1>3 DEF IInv

\* The steps that leave alone all the invariant is about
LEMMA OthersStep ==
    ASSUME IInv, TypeOK',
           UNCHANGED <<globals, ipc_mutex, owned, process, launcher>>
    PROVE  IInv'
BY DEF globals, owned, IInv, MutexHeld, IpcCreated, ProcessCreated, IdIsHeld, FlagIsHonest,
       NoIpcLeft

\* A settings process ends
LEMMA ExitStep ==
    ASSUME IInv, TypeOK', NEW l \in Launches, process[l] # "none",
           process' = [process EXCEPT ![l] = "ended"],
           UNCHANGED <<globals, ipc_mutex, owned, launcher>>
    PROVE  IInv'
<1>1. \A k \in Launches : (process'[k] = "none") <=> (process[k] = "none")
  BY DEF IInv, TypeOK
<1>2. MutexHeld' /\ IpcCreated' /\ IdIsHeld' /\ NoIpcLeft'
  BY DEF globals, owned, IInv, MutexHeld, IpcCreated, IdIsHeld, NoIpcLeft
<1>3. ProcessCreated'
  BY <1>1 DEF globals, owned, IInv, ProcessCreated, TypeOK
<1>4. FlagIsHonest'
  BY <1>1 DEF globals, owned, IInv, FlagIsHonest, TypeOK
<1> QED BY <1>2, <1>3, <1>4 DEF IInv

\* A launching thread goes from one place to another
LEMMA MoveOf ==
    ASSUME TypeOK, NEW l \in Launches, NEW pc, LauncherGoto(l, pc)
    PROVE  launcher'[l] = pc /\ \A k \in Launches : k # l => launcher'[k] = launcher[k]
BY DEF TypeOK, LauncherGoto

\* What each step does to the thread that takes it, and to what it shares
LEMMA LauncherStep ==
    ASSUME IInv, TypeOK', NEW l \in Launches, Launcher(l)
    PROVE  IInv'
<1> USE DEF IInv, MutexHeld, IpcCreated, ProcessCreated, IdIsHeld, FlagIsHonest,
            NoIpcLeft, HasProcess, BeforeIpc, globals, owned, LauncherAt
<1>0. TypeOK
  OBVIOUS
<1>1. CASE BeginLaunch(l)
  <2>1. /\ launcher[l] = "start" /\ LauncherGoto(l, "create")
        /\ UNCHANGED <<g_settings_process_id, current_settings_ipc, ipc_mutex,
                       owned, process>>
    BY <1>1 DEF BeginLaunch
  <2>2. launcher'[l] = "create" /\ \A k \in Launches : k # l => launcher'[k] = launcher[k]
    BY <2>1, MoveOf, <1>0
  <2> QED BY <2>1, <2>2 DEF TypeOK
<1>2. CASE CreateProcessW(l)
  <2>1. /\ launcher[l] = "create" /\ LauncherGoto(l, "launched")
        /\ process' = [process EXCEPT ![l] = "running"]
        /\ handles' = handles \cup {l}
        /\ UNCHANGED <<g_isLaunchInProgress, g_settings_process_id,
                       current_settings_ipc, ipc_mutex, created, deleted, overwritten>>
    BY <1>2 DEF CreateProcessW
  <2>2. launcher'[l] = "launched" /\ \A k \in Launches : k # l => launcher'[k] = launcher[k]
    BY <2>1, MoveOf, <1>0
  <2>3. process'[l] = "running" /\ \A k \in Launches : k # l => process'[k] = process[k]
    BY <2>1 DEF TypeOK
  <2> QED BY <2>1, <2>2, <2>3 DEF TypeOK
<1>3. CASE CreateFails(l)
  <2>1. /\ launcher[l] = "create" /\ LauncherGoto(l, "exit")
        /\ UNCHANGED <<g_isLaunchInProgress, g_settings_process_id,
                       current_settings_ipc, ipc_mutex, owned, process>>
    BY <1>3 DEF CreateFails
  <2>2. launcher'[l] = "exit" /\ \A k \in Launches : k # l => launcher'[k] = launcher[k]
    BY <2>1, MoveOf, <1>0
  <2> QED BY <2>1, <2>2 DEF TypeOK
<1>4. CASE Launched(l)
  <2>1. /\ launcher[l] = "launched" /\ LauncherGoto(l, "token")
        /\ ~g_isLaunchInProgress'
        /\ UNCHANGED <<g_settings_process_id, current_settings_ipc, ipc_mutex,
                       owned, process>>
    BY <1>4 DEF Launched
  <2>2. launcher'[l] = "token" /\ \A k \in Launches : k # l => launcher'[k] = launcher[k]
    BY <2>1, MoveOf, <1>0
  <2> QED BY <2>1, <2>2 DEF TypeOK
<1>5. CASE GetToken(l)
  <2>1. PICK pc \in {"ipc", "exit"} : LauncherGoto(l, pc)
    BY <1>5 DEF GetToken
  <2>2. launcher[l] = "token" /\ UNCHANGED <<g_isLaunchInProgress, g_settings_process_id,
                       current_settings_ipc, ipc_mutex, owned, process>>
    BY <1>5 DEF GetToken
  <2>3. launcher'[l] = pc /\ \A k \in Launches : k # l => launcher'[k] = launcher[k]
    BY <2>1, MoveOf, <1>0
  <2> QED BY <2>1, <2>2, <2>3 DEF TypeOK
<1>6. CASE StartIpc(l)
  <2>1. /\ launcher[l] = "ipc" /\ LauncherGoto(l, "id")
        /\ ipc_mutex = None /\ current_settings_ipc' = l
        /\ created' = created \cup {l}
        /\ overwritten' = overwritten \cup ({current_settings_ipc} \ {None})
        /\ UNCHANGED <<g_isLaunchInProgress, g_settings_process_id, ipc_mutex,
                       deleted, handles, process>>
    BY <1>6 DEF StartIpc
  <2>2. launcher'[l] = "id" /\ \A k \in Launches : k # l => launcher'[k] = launcher[k]
    BY <2>1, MoveOf, <1>0
  <2>3. MutexHeld' /\ IpcCreated' /\ ProcessCreated'
    BY <2>1, <2>2 DEF TypeOK
  <2>4. IdIsHeld' /\ FlagIsHonest'
    BY <2>1, <2>2 DEF TypeOK
  <2>5. NoIpcLeft'
    BY <2>1, <2>2 DEF TypeOK
  <2> QED BY <2>3, <2>4, <2>5
<1>7. CASE StoreId(l)
  <2>1. /\ launcher[l] = "id" /\ LauncherGoto(l, "wait")
        /\ g_settings_process_id' = l
        /\ UNCHANGED <<g_isLaunchInProgress, current_settings_ipc, ipc_mutex,
                       owned, process>>
    BY <1>7 DEF StoreId
  <2>2. launcher'[l] = "wait" /\ \A k \in Launches : k # l => launcher'[k] = launcher[k]
    BY <2>1, MoveOf, <1>0
  <2> QED BY <2>1, <2>2 DEF TypeOK
<1>8. CASE WaitForProcess(l)
  <2>1. /\ launcher[l] = "wait" /\ LauncherGoto(l, "exit")
        /\ UNCHANGED <<g_isLaunchInProgress, g_settings_process_id,
                       current_settings_ipc, ipc_mutex, owned, process>>
    BY <1>8 DEF WaitForProcess
  <2>2. launcher'[l] = "exit" /\ \A k \in Launches : k # l => launcher'[k] = launcher[k]
    BY <2>1, MoveOf, <1>0
  <2> QED BY <2>1, <2>2 DEF TypeOK
<1>9. CASE LockForExit(l)
  <2>1. launcher[l] = "lock" /\ ipc_mutex = None
          /\ UNCHANGED <<g_isLaunchInProgress, g_settings_process_id,
                         current_settings_ipc, owned, process>>
    BY <1>9 DEF LockForExit
  <2>2. CASE current_settings_ipc = None
    <3>1. LauncherGoto(l, "reset") /\ UNCHANGED ipc_mutex
      BY <1>9, <2>2 DEF LockForExit
    <3>2. launcher'[l] = "reset" /\ \A k \in Launches : k # l => launcher'[k] = launcher[k]
      BY <3>1, MoveOf, <1>0
    <3> QED BY <2>1, <2>2, <3>1, <3>2 DEF TypeOK
  <2>3. CASE current_settings_ipc # None
    <3>1. LauncherGoto(l, "ending") /\ ipc_mutex' = l
      BY <1>9, <2>3 DEF LockForExit
    <3>2. launcher'[l] = "ending" /\ \A k \in Launches : k # l => launcher'[k] = launcher[k]
      BY <3>1, MoveOf, <1>0
    <3> QED BY <2>1, <2>3, <3>1, <3>2 DEF TypeOK
  <2> QED BY <2>2, <2>3
<1>10. CASE DeleteIpc(l)
  <2>1. /\ launcher[l] = "ending" /\ LauncherGoto(l, "deleted")
        /\ deleted' = deleted \cup {current_settings_ipc}
        /\ UNCHANGED <<g_isLaunchInProgress, g_settings_process_id,
                       current_settings_ipc, ipc_mutex, created, overwritten, handles,
                       process>>
    BY <1>10 DEF DeleteIpc
  <2>2. launcher'[l] = "deleted" /\ \A k \in Launches : k # l => launcher'[k] = launcher[k]
    BY <2>1, MoveOf, <1>0
  <2> QED BY <2>1, <2>2 DEF TypeOK
<1>11. CASE ClearIpc(l)
  <2>1. /\ launcher[l] = "deleted" /\ LauncherGoto(l, "reset")
        /\ current_settings_ipc' = None /\ ipc_mutex' = None
        /\ UNCHANGED <<g_isLaunchInProgress, g_settings_process_id, owned, process>>
    BY <1>11 DEF ClearIpc
  <2>2. launcher'[l] = "reset" /\ \A k \in Launches : k # l => launcher'[k] = launcher[k]
    BY <2>1, MoveOf, <1>0
  <2> QED BY <2>1, <2>2 DEF TypeOK
<1>12. CASE ResetId(l)
  <2>1. /\ launcher[l] = "reset" /\ LauncherGoto(l, "ended")
        /\ g_settings_process_id' = None
        /\ UNCHANGED <<g_isLaunchInProgress, current_settings_ipc, ipc_mutex,
                       owned, process>>
    BY <1>12 DEF ResetId
  <2>2. launcher'[l] = "ended" /\ \A k \in Launches : k # l => launcher'[k] = launcher[k]
    BY <2>1, MoveOf, <1>0
  <2> QED BY <2>1, <2>2 DEF TypeOK
<1>13. CASE CloseHandles(l)
  <2>1. /\ launcher[l] = "exit" /\ LauncherGoto(l, "lock")
        /\ handles' = handles \ {l}
        /\ UNCHANGED <<g_isLaunchInProgress, g_settings_process_id, current_settings_ipc,
                       ipc_mutex, created, deleted, overwritten, process>>
    BY <1>13 DEF CloseHandles
  <2>2. launcher'[l] = "lock" /\ \A k \in Launches : k # l => launcher'[k] = launcher[k]
    BY <2>1, MoveOf, <1>0
  <2> QED BY <2>1, <2>2 DEF TypeOK
<1>14. CASE EndHangs(l)
  <2>1. /\ launcher[l] = "ending" /\ LauncherGoto(l, "hung")
        /\ UNCHANGED <<g_isLaunchInProgress, g_settings_process_id,
                       current_settings_ipc, ipc_mutex, owned, process>>
    BY <1>14 DEF EndHangs
  <2>2. launcher'[l] = "hung" /\ \A k \in Launches : k # l => launcher'[k] = launcher[k]
    BY <2>1, MoveOf, <1>0
  <2> QED BY <2>1, <2>2 DEF TypeOK
<1> QED BY <1>1, <1>2, <1>3, <1>4, <1>5, <1>6, <1>7, <1>8, <1>9, <1>10, <1>11,
           <1>12, <1>13, <1>14 DEF Launcher

\* The flag was clear, and a new launching thread starts
LEMMA TestFlagStep ==
    ASSUME IInv, TypeOK', NEW o \in Openers, TestFlag(o)
    PROVE  IInv'
<1> USE DEF IInv, MutexHeld, IpcCreated, ProcessCreated, IdIsHeld, FlagIsHonest,
            NoIpcLeft, HasProcess, BeforeIpc, globals, owned, LauncherAt
<1>1. UNCHANGED <<globals, ipc_mutex, owned, process>>
  BY DEF TestFlag
<1>2. CASE UNCHANGED launcher
  BY <1>1, <1>2, OthersStep
<1>3. ASSUME NEW l \in Launches, launcher[l] = "none", LauncherGoto(l, "start")
      PROVE  IInv'
  <2>1. launcher'[l] = "start" /\ \A k \in Launches : k # l => launcher'[k] = launcher[k]
    BY <1>3, MoveOf
  <2> QED BY <1>1, <1>3, <2>1 DEF TypeOK
<1> QED BY <1>2, <1>3 DEF TestFlag

-----------------------------------------------------------------------------
LEMMA LauncherTypes ==
    ASSUME IInv, NEW l \in Launches, Launcher(l) \/ SettingsExit(l)
    PROVE  TypeOK'
<1> USE DEF TypeOK, globals, owned, tray, LauncherGoto, LauncherAt
<1>0. TypeOK
  BY DEF IInv
<1>1. CASE BeginLaunch(l) \/ CreateProcessW(l) \/ CreateFails(l) \/ Launched(l)
  BY <1>0, <1>1 DEF BeginLaunch, CreateProcessW, CreateFails, Launched
<1>2. CASE GetToken(l)
  BY <1>0, <1>2 DEF GetToken
<1>3. CASE StartIpc(l) \/ StoreId(l) \/ WaitForProcess(l)
  BY <1>0, <1>3 DEF StartIpc, StoreId, WaitForProcess
<1>4. CASE CloseHandles(l) \/ LockForExit(l) \/ EndHangs(l)
  BY <1>0, <1>4 DEF CloseHandles, LockForExit, EndHangs
<1>5. CASE DeleteIpc(l)
  <2>1. ipc_mutex = l /\ ipc_mutex # None
    BY <1>5 DEF DeleteIpc, IInv, MutexHeld
  <2>2. current_settings_ipc \in Launches
    BY <1>0, <2>1 DEF IInv, MutexHeld
  <2> QED BY <1>0, <1>5, <2>2 DEF DeleteIpc
<1>6. CASE ClearIpc(l) \/ ResetId(l) \/ SettingsExit(l)
  BY <1>0, <1>6 DEF ClearIpc, ResetId, SettingsExit
<1> QED BY <1>1, <1>2, <1>3, <1>4, <1>5, <1>6 DEF Launcher

LEMMA OpenerTypes ==
    ASSUME TypeOK, NEW o \in Openers, Opener(o)
    PROVE  TypeOK'
<1> USE DEF TypeOK, globals, owned, tray, OpenerGoto, OpenerAt, LauncherGoto
<1>1. CASE TestId(o) \/ TestIpc(o) \/ SendShow(o)
  BY <1>1 DEF TestId, TestIpc, SendShow
<1>2. CASE TestFlag(o)
  BY <1>2 DEF TestFlag
<1> QED BY <1>1, <1>2 DEF Opener

LEMMA TrayTypes ==
    ASSUME TypeOK,
           \/ MenuOpen \/ LButtonUp \/ LButtonDblClk \/ NoSecondClick \/ Destroy
           \/ \E t \in Timers : Timer(t)
    PROVE  TypeOK'
<1> USE DEF TypeOK, globals, owned, tray, OpenerGoto, OpenerAt, MainMessage
<1>0. "main" \in Openers /\ Timers \subseteq Openers
  BY DEF Openers
<1>1. CASE MenuOpen
  BY <1>0, <1>1 DEF MenuOpen
<1>2. CASE LButtonUp
  <2>1. UNCHANGED <<globals, ipc_mutex, owned, process, launcher, opener>>
          /\ clicks' \in 0 .. MaxClicks
    BY <1>2 DEF LButtonUp
  <2>2. gesture' \in {"none", "first", "second"}
    BY <1>2 DEF LButtonUp
  <2>3. /\ double_click_timer_running' \in BOOLEAN /\ double_clicked' \in BOOLEAN
        /\ timer' \in [Timers -> {"none", "sleep", "elapsed", "ended"}]
    <3>1. CASE UNCHANGED <<double_click_timer_running, double_clicked, timer>>
      BY <3>1
    <3>2. ASSUME double_click_timer_running' = TRUE, double_clicked' = FALSE,
                 NEW t \in Timers, timer' = [timer EXCEPT ![t] = "sleep"]
          PROVE  /\ double_click_timer_running' \in BOOLEAN /\ double_clicked' \in BOOLEAN
                 /\ timer' \in [Timers -> {"none", "sleep", "elapsed", "ended"}]
      BY <3>2
    <3> QED BY <1>2, <3>1, <3>2 DEF LButtonUp, StartTimer
  <2> QED BY <2>1, <2>2, <2>3
<1>3. CASE LButtonDblClk
  BY <1>0, <1>3 DEF LButtonDblClk
<1>4. CASE NoSecondClick
  BY <1>4 DEF NoSecondClick
<1>5. CASE Destroy
  BY <1>0, <1>5 DEF Destroy
<1>6. ASSUME NEW t \in Timers, Timer(t) PROVE TypeOK'
  <2>1. timer' \in [Timers -> {"none", "sleep", "elapsed", "ended"}]
          /\ double_click_timer_running' \in BOOLEAN
    BY <1>6 DEF Timer, TimerElapses, TimerOpens
  <2>2. opener' \in [Openers -> {"idle", "id", "ipc", "send", "flag", "quit"}]
    <3>1. t \in Openers
      BY <1>0
    <3>2. UNCHANGED opener \/ opener' = [opener EXCEPT ![t] = "id"]
      BY <1>6 DEF Timer, TimerElapses, TimerOpens
    <3>3. CASE opener' = [opener EXCEPT ![t] = "id"]
      BY <3>1, <3>3
    <3> QED BY <3>2, <3>3
  <2>3. UNCHANGED <<globals, ipc_mutex, owned, process, launcher,
                    double_clicked, gesture, clicks>>
    BY <1>6 DEF Timer, TimerElapses, TimerOpens
  <2> QED BY <2>1, <2>2, <2>3
<1> QED BY <1>1, <1>2, <1>3, <1>4, <1>5, <1>6

LEMMA NextInv == IInv /\ [Next]_vars => IInv'
<1> SUFFICES ASSUME IInv, [Next]_vars PROVE IInv'
  OBVIOUS
<1>0. TypeOK
  BY DEF IInv
<1>1. ASSUME NEW l \in Launches, Launcher(l) PROVE IInv'
  BY <1>1, LauncherTypes, LauncherStep
<1>2. ASSUME NEW l \in Launches, SettingsExit(l) PROVE IInv'
  <2>1. TypeOK'
    BY <1>2, LauncherTypes
  <2>2. /\ process[l] # "none" /\ process' = [process EXCEPT ![l] = "ended"]
        /\ UNCHANGED <<globals, ipc_mutex, owned, launcher>>
    BY <1>2 DEF SettingsExit
  <2> QED BY <2>1, <2>2, ExitStep
<1>3. ASSUME NEW o \in Openers, Opener(o) PROVE IInv'
  <2>1. TypeOK'
    BY <1>0, <1>3, OpenerTypes
  <2>2. CASE TestId(o) \/ TestIpc(o) \/ SendShow(o)
    BY <2>1, <2>2, OthersStep DEF TestId, TestIpc, SendShow
  <2>3. CASE TestFlag(o)
    BY <2>1, <2>3, TestFlagStep
  <2> QED BY <1>3, <2>2, <2>3 DEF Opener
<1>4. CASE MenuOpen \/ LButtonUp \/ LButtonDblClk \/ NoSecondClick
             \/ \E t \in Timers : Timer(t)
  <2>1. TypeOK'
    BY <1>0, <1>4, TrayTypes
  <2>2. UNCHANGED <<globals, ipc_mutex, owned, process, launcher>>
    BY <1>4 DEF MenuOpen, LButtonUp, LButtonDblClk, NoSecondClick, Timer,
                TimerElapses, TimerOpens
  <2> QED BY <2>1, <2>2, OthersStep
<1>5. CASE Destroy
  <2>1. TypeOK'
    BY <1>0, <1>5, TrayTypes
  <2>2. UNCHANGED <<globals, ipc_mutex, owned, launcher>>
    BY <1>5 DEF Destroy
  <2>3. CASE g_settings_process_id = None
    BY <1>5, <2>1, <2>2, <2>3, OthersStep DEF Destroy
  <2>4. CASE g_settings_process_id # None
    <3>1. g_settings_process_id \in Launches /\ process[g_settings_process_id] # "none"
      BY <1>0, <2>4 DEF TypeOK, IInv, ProcessCreated
    <3>2. process' = [process EXCEPT ![g_settings_process_id] = "ended"]
      BY <1>5, <2>4 DEF Destroy
    <3> QED BY <2>1, <2>2, <3>1, <3>2, ExitStep
  <2> QED BY <2>3, <2>4
<1>6. CASE UNCHANGED vars
  <2>1. TypeOK'
    BY <1>0, <1>6 DEF TypeOK, vars, globals, owned, tray
  <2> QED BY <1>6, <2>1, OthersStep DEF vars
<1> QED BY <1>1, <1>2, <1>3, <1>4, <1>5, <1>6 DEF Next

\* The inductive invariant: who holds the mutex, and what has been created.
THEOREM Invariance == Spec => []IInv
BY InitInv, NextInv, PTL DEF Spec

\* Every variable keeps its type; in particular a thread that deletes the pipe
\* object always finds one.
THEOREM TypeCorrect == Spec => []TypeOK
<1>1. IInv => TypeOK
  BY DEF IInv
<1> QED BY <1>1, Invariance, PTL

\* A thread that takes ipc_mutex finds the pipe pointer null or that of an object
\* that exists, however many launches overlap.
THEOREM IpcIsValid == Spec => []IpcValid
<1>1. IInv => IpcValid
  BY DEF IInv, MutexHeld, IpcValid
<1> QED BY <1>1, Invariance, PTL

\* The process id that close_settings_window terminates is that of a process whose
\* handle is open, or of one whose thread has just closed it and is on its way to
\* reset the id; and the launch flag is set only while a launch is under way, or
\* after a failed CreateProcess.
THEOREM GlobalsHonest == Spec => []GlobalsAreHonest
<1>1. IInv => GlobalsAreHonest
  BY DEF IInv, GlobalsAreHonest
<1> QED BY <1>1, Invariance, PTL

\* The thread of the current pipe object has still to come to LExit, and an object
\* that is neither current nor deleted is one whose pointer was overwritten by a
\* launch that overlapped with its own.
THEOREM NoIpcIsLeft == Spec => []NoIpcLeft
<1>1. IInv => NoIpcLeft
  BY DEF IInv
<1> QED BY <1>1, Invariance, PTL

\* When no launch is left, no pipe is current, and exactly the overwritten objects
\* may be left.
THEOREM OnlyOverwrittenLeft ==
    Spec => []((\A l \in Launches : launcher[l] \in {"none", "ended"}) =>
                 current_settings_ipc = None /\ created \ deleted \subseteq overwritten)
<1>1. IInv => ((\A l \in Launches : launcher[l] \in {"none", "ended"}) =>
                 current_settings_ipc = None /\ created \ deleted \subseteq overwritten)
  <2> SUFFICES ASSUME IInv, \A l \in Launches : launcher[l] \in {"none", "ended"}
               PROVE  current_settings_ipc = None /\ created \ deleted \subseteq overwritten
    OBVIOUS
  <2>1. current_settings_ipc = None
    BY DEF IInv, TypeOK, NoIpcLeft
  <2>2. None \notin created
    BY DEF IInv, TypeOK
  <2> QED BY <2>1, <2>2 DEF IInv, NoIpcLeft
<1> QED BY <1>1, Invariance, PTL
=============================================================================
