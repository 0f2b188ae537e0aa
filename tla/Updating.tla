------------------------------ MODULE Updating ------------------------------
(***************************************************************************)
(* The self-update machinery.  Four kinds of actor share one status file   *)
(* (UpdateState.json) and one directory of downloaded installers:          *)
(*   "startup"   the thread main() starts to drop installers that are no   *)
(*               longer needed,                                            *)
(*   "periodic"  PeriodicUpdateWorker,                                     *)
(*   "check"     CheckForUpdatesCallback, run from the settings window,    *)
(*   Updaters    processes PowerToys.Update.exe, stage 1 and stage 2.      *)
(* UpdateState::read and ::store each run under a named mutex, so each is  *)
(* one step; everything between the two of one actor interleaves.          *)
(* Times are left out: a sleep may last for any number of other steps.     *)
(***************************************************************************)
EXTENDS Integers, FiniteSets

CONSTANTS
    MaxVersion,             \* bound on the releases that ever appear
    Updaters,               \* the PowerToys.Update.exe processes
    MaxDownloadAttempts,    \* attempts of download_new_version
    DiskErrors              \* whether cleanup_updates may throw half-way

Threads == {"startup", "periodic", "check"}
Actors  == Threads \cup Updaters

ASSUME ConstantsAssumption ==
    /\ MaxVersion \in Nat \ {0}
    /\ MaxDownloadAttempts \in Nat \ {0}
    /\ DiskErrors \in BOOLEAN
    /\ Threads \cap Updaters = {}

None     == 0               \* no version: an empty string in the code
Versions == 1 .. MaxVersion

States == {"upToDate", "errorDownloading", "readyToDownload",
           "readyToInstall", "networkError"}

\* struct UpdateState; page and installer name the version they belong to
UpdateState == [state : States, page : Versions \cup {None},
                installer : Versions \cup {None}]
Fresh       == [state |-> "upToDate", page |-> None, installer |-> None]

VARIABLES
    latest,     \* the newest release GitHub offers
    installed,  \* the version of the installed program
    file,       \* [ver, s]: the status file; ver = None when unusable
    disk,       \* what the Updates directory holds of each installer
    runner,     \* the runner process: "off", "running" or "closing"
    me,         \* the locals of each actor
    stale,      \* ghost: actors whose read another actor has outdated
    dirty,      \* ghost: actors that cleaned up and have not stored since
    raced       \* ghost: a stale actor wrote, or a dirty one died or threw

ghost == <<stale, dirty, raced>>
vars  == <<latest, installed, file, disk, runner, me, ghost>>

PCs == {"off", "read", "cleanup", "fetch", "process", "download", "writing",
        "store", "decide", "stage1", "stage2", "installing", "done", "fail"}

\* pc, the copy of the state, the version learnt of or being installed, the
\* download attempts made, and the version the actor's program was built as
Locals == [pc : PCs, st : UpdateState, info : Versions \cup {None},
           tries : 0 .. MaxDownloadAttempts, ver : Versions \cup {None}]
Off    == [pc |-> "off", st |-> Fresh, info |-> None, tries |-> 0,
           ver |-> None]

TypeOK ==
    /\ latest \in Versions
    /\ installed \in Versions
    /\ file \in [ver : Versions \cup {None}, s : UpdateState]
    /\ disk \in [Versions -> {"absent", "partial", "complete"}]
    /\ runner \in {"off", "running", "closing"}
    /\ me \in [Actors -> Locals]
    /\ stale \in SUBSET Actors
    /\ dirty \in SUBSET Actors
    /\ raced \in BOOLEAN

Init ==
    /\ latest = 1
    /\ installed = 1
    /\ file = [ver |-> None, s |-> Fresh]
    /\ disk = [v \in Versions |-> "absent"]
    /\ runner = "off"
    /\ me = [a \in Actors |-> Off]
    /\ stale = {}
    /\ dirty = {}
    /\ raced = FALSE

-----------------------------------------------------------------------------
\* get_github_version_info_async: None stands for version_up_to_date
Offered(a) == IF latest <= me[a].ver THEN None ELSE latest

\* mutant: a status file of another version is accepted
IsOldFileVersion_Never(v, cur) == FALSE

IsOldFileVersion(v, cur) == v # cur

\* Record a race; from then on the other two ghosts are not kept
Ghosts(s, d, race) ==
    /\ raced' = (raced \/ race)
    /\ stale' = IF raced' THEN {} ELSE s
    /\ dirty' = IF raced' THEN {} ELSE d

\* The actors that are outdated once a has changed the file or the disk
Disturbed(a) == stale \cup (Actors \ {a})

\* UpdateState::read by a program of version cur; a missing or old file is
\* replaced by a fresh one
ReadState(cur) == IF IsOldFileVersion(file.ver, cur) THEN Fresh ELSE file.s
Read(a, cur) ==
    /\ file' = IF IsOldFileVersion(file.ver, cur)
               THEN [ver |-> cur, s |-> Fresh] ELSE file
    /\ Ghosts((IF file' = file THEN stale ELSE Disturbed(a)) \ {a},
              dirty \ {a}, FALSE)
    /\ UNCHANGED <<latest, installed, disk, runner>>

\* UpdateState::store with a modifier that replaces the whole state by s
Store(a, s) ==
    /\ file' = [ver |-> me[a].ver, s |-> s]
    /\ Ghosts(Disturbed(a), dirty \ {a}, a \in stale)
    /\ UNCHANGED <<latest, installed, disk, runner>>

\* An installer that is being written or run cannot be deleted
InUse(v) ==
    \E a \in Actors : me[a].pc \in {"writing", "installing"} /\ me[a].info = v

cleanup_updates == [v \in Versions |-> IF InUse(v) THEN disk[v] ELSE "absent"]

\* Walking the directory throws: some installers are gone
CleanupFails ==
    /\ DiskErrors
    /\ \E gone \in SUBSET {v \in Versions : ~InUse(v)} :
         disk' = [v \in Versions |-> IF v \in gone THEN "absent" ELSE disk[v]]
    /\ Ghosts({}, {}, TRUE)

\* A step that changes only the locals of a
Local(a, l) ==
    /\ me' = [me EXCEPT ![a] = l]
    /\ UNCHANGED <<latest, installed, file, disk, runner, ghost>>

-----------------------------------------------------------------------------
(* The world outside: releases, starting and stopping of processes.        *)

Release ==
    /\ latest < MaxVersion
    /\ latest' = latest + 1
    /\ UNCHANGED <<installed, runner, file, disk, me, ghost>>

\* main() starts the clean-up thread and runner() the periodic one
StartRunner ==
    /\ runner = "off"
    /\ runner' = "running"
    /\ me' = [a \in Actors |->
                IF a \in {"startup", "periodic"}
                THEN [Off EXCEPT !.pc = "read", !.ver = installed]
                ELSE me[a]]
    /\ UNCHANGED <<latest, installed, file, disk, ghost>>

\* The actors in A disappear wherever they are
Killed(A) == [a \in Actors |-> IF a \in A THEN Off ELSE me[a]]
Kill(A) ==
    /\ me' = Killed(A)
    /\ Ghosts(stale, dirty \ A, A \cap dirty # {})
    /\ UNCHANGED <<latest, disk>>

WritesFile(a) ==
    \/ me[a].pc \in {"store", "done", "fail"}
    \/ me[a].pc = "read" /\ IsOldFileVersion(file.ver, me[a].ver)

\* A status file that one of A was writing when it was ended does not parse any
\* more
CutOff(A) ==
    \/ UNCHANGED file
    \/ /\ \E a \in A : WritesFile(a)
       /\ file' = [ver |-> None, s |-> Fresh]

\* The user exits PowerToys, or the process finishes closing: its detached
\* threads end wherever they are
RunnerExit ==
    /\ runner # "off"
    /\ runner' = "off"
    /\ Kill(Threads)
    /\ CutOff(Threads)
    /\ UNCHANGED installed

\* Power loss
Shutdown ==
    /\ \E a \in Actors : me[a].pc # "off"
    /\ runner' = "off"
    /\ Kill(Actors)
    /\ CutOff(Actors)
    /\ UNCHANGED installed

-----------------------------------------------------------------------------
(* The clean-up thread of main().                                          *)

\* mutant: clean up whatever the status file says
StartupRead_AnyState ==
    LET a == "startup"
    IN  /\ me[a].pc = "read"
        /\ Read(a, me[a].ver)
        /\ me' = [me EXCEPT ![a].pc = "cleanup"]

StartupRead ==
    LET a   == "startup"
        cur == me[a].ver
    IN  /\ me[a].pc = "read"
        /\ Read(a, cur)
        /\ me' = [me EXCEPT ![a] =
                    IF ReadState(cur).state = "upToDate"
                    THEN [@ EXCEPT !.pc = "cleanup"] ELSE Off]

StartupCleanup ==
    LET a == "startup"
    IN  /\ me[a].pc = "cleanup"
        /\ disk' = cleanup_updates
        /\ Ghosts(Disturbed(a), dirty, a \in stale)
        /\ me' = [me EXCEPT ![a] = Off]
        /\ UNCHANGED <<latest, installed, file, runner>>

\* Nobody catches what the thread throws: the runner is terminated
StartupThrows ==
    /\ me["startup"].pc = "cleanup"
    /\ CleanupFails
    /\ runner' = "off"
    /\ me' = Killed(Threads)
    /\ CutOff(Threads)
    /\ UNCHANGED <<latest, installed>>

-----------------------------------------------------------------------------
(* PeriodicUpdateWorker and CheckForUpdatesCallback.                       *)

\* The periodic worker reads and only then sleeps, for up to a day
PeriodicRead ==
    LET a   == "periodic"
        cur == me[a].ver
    IN  /\ me[a].pc = "read"
        /\ Read(a, cur)
        /\ me' = [me EXCEPT ![a].pc = "fetch", ![a].st = ReadState(cur)]

\* The settings window asks for a check; one such thread runs at a time
CheckForUpdates ==
    LET a == "check"
    IN  /\ runner = "running"
        /\ me[a].pc = "off"
        /\ Read(a, installed)
        /\ me' = [me EXCEPT ![a] = [Off EXCEPT !.pc = "fetch",
                                               !.st = ReadState(installed),
                                               !.ver = installed]]

FetchOk(a) ==
    /\ me[a].pc = "fetch"
    /\ Local(a, [me[a] EXCEPT !.info = Offered(a),
                   !.pc = IF a \in Updaters THEN "decide" ELSE "process"])

PeriodicFetchFails ==
    LET a == "periodic"
    IN  /\ me[a].pc = "fetch"
        /\ Local(a, [Off EXCEPT !.pc = "read", !.ver = me[a].ver])

CheckFetchFails ==
    LET a == "check"
    IN  /\ me[a].pc = "fetch"
        /\ Local(a, [me[a] EXCEPT !.pc = "store",
                                  !.st.state = "networkError"])

\* The worker has a copy s to store; what it learnt of is in there
Finish(a, s) == [Off EXCEPT !.pc = "store", !.st = s, !.ver = me[a].ver]

AlreadyDownloaded(a) ==
    me[a].st.state = "readyToInstall" /\ me[a].st.installer = me[a].info

\* ProcessNewVersionInfo: nothing new
NothingNew(a) ==
    /\ me[a].pc = "process"
    /\ me[a].info = None
    /\ Local(a, Finish(a, Fresh))

\* ProcessNewVersionInfo: the installer has been downloaded before
KeepDownload(a) ==
    /\ me[a].pc = "process"
    /\ me[a].info # None
    /\ AlreadyDownloaded(a)
    /\ Local(a, Finish(a, [me[a].st EXCEPT !.page = me[a].info]))

\* ProcessNewVersionInfo with download_update = FALSE: a metered connection,
\* the user's setting or a policy
AnnounceOnly(a) ==
    /\ me[a].pc = "process"
    /\ me[a].info # None
    /\ ~AlreadyDownloaded(a)
    /\ Local(a, Finish(a, [state |-> "readyToDownload", page |-> me[a].info,
                           installer |-> None]))

\* cleanup_updates before a download, by a worker or by an updater
CleanThenDownload(a) ==
    /\ disk' = cleanup_updates
    /\ Ghosts(Disturbed(a), dirty \cup {a}, a \in stale)
    /\ me' = [me EXCEPT ![a].pc = "download", ![a].st.page = me[a].info]
    /\ UNCHANGED <<latest, installed, file, runner>>

DownloadNew(a) ==
    /\ me[a].pc = "process"
    /\ me[a].info # None
    /\ ~AlreadyDownloaded(a)
    /\ CleanThenDownload(a)

\* The periodic worker still stores its half-changed copy, the check ends
\* without storing anything
CleanupThrows(a) ==
    /\ me[a].pc = "process"
    /\ me[a].info # None
    /\ ~AlreadyDownloaded(a)
    /\ CleanupFails
    /\ me' = [me EXCEPT ![a] =
                IF a = "periodic"
                THEN Finish(a, [me[a].st EXCEPT !.page = me[a].info])
                ELSE Off]
    /\ UNCHANGED <<latest, installed, file, runner>>

WorkerStore(a) ==
    /\ me[a].pc = "store"
    /\ Store(a, me[a].st)
    /\ me' = [me EXCEPT ![a] =
                IF a = "periodic"
                THEN [Off EXCEPT !.pc = "read", !.ver = me[a].ver] ELSE Off]

-----------------------------------------------------------------------------
\* The locals of an updater that gives up; isUpToDate selects the state that
\* it will store
GiveUp(u, isUpToDate) ==
    [Off EXCEPT !.pc = "fail", !.ver = me[u].ver,
                !.st.state = IF isUpToDate THEN "upToDate"
                                           ELSE "errorDownloading"]

(* download_new_version, awaited by a worker or an updater.                *)

\* The response has arrived: the file is created anew and filled
BeginWriting(a) ==
    /\ me[a].pc = "download"
    /\ disk' = [disk EXCEPT ![me[a].info] = "partial"]
    /\ Ghosts(Disturbed(a), dirty, FALSE)
    /\ me' = [me EXCEPT ![a].pc = "writing"]
    /\ UNCHANGED <<latest, installed, file, runner>>

Downloaded(a) ==
    LET ready == [state |-> "readyToInstall", page |-> me[a].info,
                  installer |-> me[a].info]
    IN  /\ me[a].pc = "writing"
        /\ disk' = [disk EXCEPT ![me[a].info] = "complete"]
        /\ me' = [me EXCEPT ![a] =
                    IF a \in Updaters THEN [@ EXCEPT !.pc = "stage1"]
                                      ELSE Finish(a, ready)]
        /\ UNCHANGED <<latest, installed, file, runner, ghost>>

\* mutants: the loop has no bound; the name of an earlier installer stays
\* behind
AttemptFails_Forever(a) ==
    /\ me[a].pc \in {"download", "writing"}
    /\ Local(a, [me[a] EXCEPT !.tries = @ + 1, !.pc = "download"])
AttemptFails_KeepsName(a) ==
    /\ me[a].pc \in {"download", "writing"}
    /\ Local(a, IF a \in Updaters
                THEN GiveUp(a, FALSE)
                ELSE Finish(a, [me[a].st EXCEPT !.state = "errorDownloading"]))

\* No response, or an error while writing: try again, or give up
AttemptFails(a) ==
    LET error == [me[a].st EXCEPT !.state = "errorDownloading",
                                  !.installer = None]
    IN  /\ me[a].pc \in {"download", "writing"}
        /\ Local(a, IF me[a].tries + 1 < MaxDownloadAttempts
                    THEN [me[a] EXCEPT !.tries = @ + 1, !.pc = "download"]
                    ELSE IF a \in Updaters
                    THEN GiveUp(a, FALSE)
                    ELSE Finish(a, error))

Download(a) == BeginWriting(a) \/ Downloaded(a) \/ AttemptFails(a)

-----------------------------------------------------------------------------
(* PowerToys.Update.exe.  st is what ObtainInstaller read.                  *)

\* -update_now: from the toast, the settings window or the URI
UpdateNow(u) ==
    /\ me[u].pc = "off"
    /\ Local(u, [Off EXCEPT !.pc = "read", !.ver = installed])

ObtainRead(u) ==
    /\ me[u].pc = "read"
    /\ Read(u, me[u].ver)
    /\ me' = [me EXCEPT ![u].pc = "fetch", ![u].st = ReadState(me[u].ver)]

\* The readyToInstall branch of ObtainInstaller: is there such a file?
FindInstaller(u) ==
    IF disk[me[u].st.installer] # "absent"
    THEN [me[u] EXCEPT !.pc = "stage1", !.info = me[u].st.installer]
    ELSE GiveUp(u, FALSE)

\* ObtainInstaller dereferences the missing result before it tests it: the
\* process dies, or the garbage reads as "up to date", or as a new version
ObtainFetchFails(u) ==
    /\ me[u].pc = "fetch"
    /\ \/ Local(u, Off)
       \/ Local(u, GiveUp(u, TRUE))
       \/ Local(u, IF me[u].st.state = "readyToInstall"
                   THEN FindInstaller(u)
                   ELSE GiveUp(u, me[u].st.state = "upToDate"))

\* version_up_to_date, or the file says so: isUpToDate
ObtainNothing(u) ==
    /\ me[u].pc = "decide"
    /\ me[u].info = None \/ me[u].st.state = "upToDate"
    /\ Local(u, GiveUp(u, TRUE))

ToDownload(u) ==
    /\ me[u].pc = "decide"
    /\ me[u].info # None
    /\ me[u].st.state \in {"readyToDownload", "errorDownloading"}

ObtainByDownload(u) == ToDownload(u) /\ CleanThenDownload(u)

\* Nobody catches what the clean-up throws: the updater is terminated
ObtainThrows(u) ==
    /\ ToDownload(u)
    /\ CleanupFails
    /\ me' = [me EXCEPT ![u] = Off]
    /\ UNCHANGED <<latest, installed, file, runner>>

ObtainDownloaded(u) ==
    /\ me[u].pc = "decide"
    /\ me[u].info # None
    /\ me[u].st.state = "readyToInstall"
    /\ Local(u, FindInstaller(u))

ObtainInvalid(u) ==
    /\ me[u].pc = "decide"
    /\ me[u].info # None
    /\ me[u].st.state = "networkError"
    /\ Local(u, GiveUp(u, FALSE))

\* Ask the runner to close, then start the copy of this program; making the
\* copy or starting it may fail
InstallNewVersionStage1(u) ==
    /\ me[u].pc = "stage1"
    /\ \/ Local(u, GiveUp(u, FALSE))
       \/ /\ runner' = IF runner = "off" THEN "off" ELSE "closing"
          /\ \E l \in {[me[u] EXCEPT !.pc = "stage2"], GiveUp(u, FALSE)} :
               me' = [me EXCEPT ![u] = l]
          /\ UNCHANGED <<latest, installed, file, disk, ghost>>

\* InstallNewVersionStage2: start the installer, if there is one to start
StartInstall(u) ==
    /\ me[u].pc = "stage2"
    /\ Local(u, IF disk[me[u].info] = "absent"
                THEN GiveUp(u, FALSE)
                ELSE [me[u] EXCEPT !.pc = "installing"])

\* The installer ends what is left of the runner and never downgrades
InstallOk(u) ==
    /\ me[u].pc = "installing"
    /\ disk[me[u].info] = "complete"
    /\ me[u].info >= installed
    /\ installed' = me[u].info
    /\ runner' = "off"
    /\ me' = [Killed(Threads) EXCEPT ![u].pc = "done"]
    /\ Ghosts(stale, dirty \ Threads, dirty \cap Threads # {})
    /\ CutOff(Threads)
    /\ UNCHANGED <<latest, disk>>

InstallFails(u) ==
    /\ me[u].pc = "installing"
    /\ Local(u, GiveUp(u, FALSE))

\* The end of stage 2
StoreInstalled(u) ==
    /\ me[u].pc = "done"
    /\ Store(u, Fresh)
    /\ me' = [me EXCEPT ![u] = Off]

\* The end of a stage that failed: everything but the outcome is forgotten
StoreFailed(u) ==
    /\ me[u].pc = "fail"
    /\ Store(u, me[u].st)
    /\ me' = [me EXCEPT ![u] = Off]

-----------------------------------------------------------------------------
Worker(a) ==
    \/ FetchOk(a) \/ NothingNew(a) \/ KeepDownload(a) \/ AnnounceOnly(a)
    \/ DownloadNew(a) \/ CleanupThrows(a) \/ Download(a) \/ WorkerStore(a)

Startup  == StartupRead \/ StartupCleanup \/ StartupThrows
Periodic == PeriodicRead \/ PeriodicFetchFails \/ Worker("periodic")
Check    == CheckFetchFails \/ Worker("check")

Updater(u) ==
    \/ ObtainRead(u) \/ FetchOk(u) \/ ObtainFetchFails(u)
    \/ ObtainNothing(u) \/ ObtainByDownload(u) \/ ObtainThrows(u)
    \/ ObtainDownloaded(u) \/ ObtainInvalid(u) \/ Download(u)
    \/ InstallNewVersionStage1(u)
    \/ StartInstall(u) \/ InstallOk(u) \/ InstallFails(u)
    \/ StoreInstalled(u) \/ StoreFailed(u)

Next ==
    \/ Release \/ StartRunner \/ RunnerExit \/ Shutdown
    \/ Startup \/ Periodic \/ Check \/ CheckForUpdates
    \/ \E u \in Updaters : UpdateNow(u) \/ Updater(u)

Spec == Init /\ [][Next]_vars

-----------------------------------------------------------------------------
\* What the status file says of an installer agrees with its state: only
\* readyToInstall names one (networkError keeps what it found).
FieldsAgreeIn(s) ==
    /\ s.state = "readyToInstall" => s.installer # None
    /\ s.state \in {"upToDate", "errorDownloading", "readyToDownload"}
         => s.installer = None

FieldsAgree == FieldsAgreeIn(file.s)

\* A status file that the installed version accepts never offers that
\* version or an older one, whatever updaters of older versions still do.
NeverOfferInstalled ==
    file.ver = installed /\ file.s.installer # None
        => file.s.installer > installed

\* Unless an actor wrote over what another one had changed since its read,
\* or died between clean-up and store, "ready to install" is true: once
\* nobody is between the two, the named installer is complete on disk.
ReadyIsDownloaded ==
    /\ ~raced
    /\ dirty = {}
    /\ file.ver = installed
    /\ file.s.state = "readyToInstall"
    => disk[file.s.installer] = "complete"
=============================================================================
