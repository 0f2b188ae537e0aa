--------------------------- MODULE UpdatingProofs ---------------------------
(***************************************************************************)
(* Proofs about Updating, for any number of releases and of updater        *)
(* processes.  The inductive invariant says of every actor's locals what   *)
(* FieldsAgree and NeverOfferInstalled say of the file: what an actor may  *)
(* store later has to be right already.  A second one, RInv, carries what  *)
(* the file says of the disk as long as no race has been recorded.         *)
(***************************************************************************)
EXTENDS Updating, TLAPS

\* Past these points an actor knows which installer it is about
HasInfo == {"download", "writing", "stage1", "stage2", "installing"}

LocalOK(a, l, inst) ==
    /\ FieldsAgreeIn(l.st)
    /\ l.pc \in HasInfo => l.info # None
    /\ l.pc = "fail" => l.st.installer = None
    /\ l.pc # "off" => l.ver # None
    /\ l.ver <= inst
    /\ a \in Threads /\ l.pc # "off" =>
         /\ l.ver = inst
         /\ l.info # None => l.info > inst
         /\ l.st.installer # None => l.st.installer > inst

FileOK ==
    /\ file.ver <= installed
    /\ FieldsAgree
    /\ NeverOfferInstalled

LocalsOK == \A a \in Actors : LocalOK(a, me[a], installed)

IInv == TypeOK /\ FileOK /\ LocalsOK

USE ConstantsAssumption DEF None, Versions

-----------------------------------------------------------------------------
(* A lemma for each way a step can change the state.                       *)

\* The locals that an idle actor has
LEMMA OffOK ==
    ASSUME TypeOK, NEW a \in Actors
    PROVE  Off \in Locals /\ LocalOK(a, Off, installed)
BY DEF TypeOK, Off, Locals, PCs, LocalOK, FieldsAgreeIn, Fresh, UpdateState,
       States, HasInfo

\* One actor's locals change to locals that are right
LEMMA LocalsStep ==
    ASSUME TypeOK, LocalsOK, NEW a \in Actors, NEW l \in Locals,
           LocalOK(a, l, installed), me' = [me EXCEPT ![a] = l],
           UNCHANGED installed
    PROVE  me' \in [Actors -> Locals] /\ LocalsOK'
<1>1. me \in [Actors -> Locals]
  BY DEF TypeOK
<1>2. \A b \in Actors : me'[b] = IF b = a THEN l ELSE me[b]
  BY <1>1
<1>3. \A b \in Actors : LocalOK(b, me'[b], installed)
  BY <1>2 DEF LocalsOK
<1> QED BY <1>1, <1>3 DEF LocalsOK, LocalOK

\* The ghost variables keep their types
LEMMA GhostsType ==
    ASSUME TypeOK, NEW s, NEW d, NEW race,
           s \subseteq Actors, d \subseteq Actors, Ghosts(s, d, race)
    PROVE  stale' \subseteq Actors /\ dirty' \subseteq Actors
             /\ raced' \in BOOLEAN
BY DEF Ghosts, TypeOK

\* A step that changes one actor's locals only
LEMMA LocalStep ==
    ASSUME IInv, NEW a \in Actors, NEW l \in Locals,
           LocalOK(a, l, installed), Local(a, l)
    PROVE  IInv'
<1>1. /\ me' = [me EXCEPT ![a] = l]
      /\ UNCHANGED <<latest, installed, file, disk, runner, ghost>>
  BY DEF Local
<1>2. me' \in [Actors -> Locals] /\ LocalsOK'
  BY <1>1, LocalsStep DEF IInv
<1>3. TypeOK'
  BY <1>1, <1>2 DEF IInv, TypeOK, ghost
<1>4. FileOK'
  BY <1>1 DEF IInv, FileOK, FieldsAgree, NeverOfferInstalled
<1> QED BY <1>2, <1>3, <1>4 DEF IInv

-----------------------------------------------------------------------------
(* Locals that an actor may come to have.                                  *)

\* A lookup answers with a version newer than the program, or with none
LEMMA OfferedNewer ==
    ASSUME IInv, NEW a \in Actors
    PROVE  /\ Offered(a) \in Versions \cup {None}
           /\ Offered(a) # None => Offered(a) > me[a].ver
BY DEF Offered, IInv, TypeOK, Locals

\* A copy that agrees with the program's version may be stored by a worker
LEMMA FinishOK ==
    ASSUME IInv, NEW a \in Threads, me[a].pc # "off", NEW s \in UpdateState,
           FieldsAgreeIn(s), s.installer # None => s.installer > installed
    PROVE  Finish(a, s) \in Locals /\ LocalOK(a, Finish(a, s), installed)
<1>1. me[a] \in Locals /\ LocalOK(a, me[a], installed)
  BY DEF IInv, TypeOK, LocalsOK, Actors
<1>2. Off \in Locals
  BY <1>1, OffOK DEF IInv, Actors
<1>3. Finish(a, s) \in Locals
  BY <1>1, <1>2 DEF Finish, Locals, PCs
<1>4. /\ Finish(a, s).pc = "store"
      /\ Finish(a, s).st = s
      /\ Finish(a, s).ver = me[a].ver
      /\ Finish(a, s).info = None
  BY DEF Finish, Off
<1> QED BY <1>1, <1>3, <1>4 DEF LocalOK, HasInfo

\* Giving up keeps no installer
LEMMA GiveUpOK ==
    ASSUME IInv, NEW u \in Updaters, me[u].pc # "off", NEW b \in BOOLEAN
    PROVE  GiveUp(u, b) \in Locals /\ LocalOK(u, GiveUp(u, b), installed)
<1>1. me[u] \in Locals /\ LocalOK(u, me[u], installed) /\ u \notin Threads
  BY DEF IInv, TypeOK, LocalsOK, Actors
<1>2. Off \in Locals
  BY <1>1, OffOK DEF IInv, Actors
<1>3. GiveUp(u, b) \in Locals
  BY <1>1, <1>2 DEF GiveUp, Locals, PCs, UpdateState, States
<1>4. /\ GiveUp(u, b).pc = "fail"
      /\ GiveUp(u, b).ver = me[u].ver
      /\ GiveUp(u, b).st.state \in {"upToDate", "errorDownloading"}
      /\ GiveUp(u, b).st.installer = None
  BY DEF GiveUp, Off, Fresh
<1> QED BY <1>1, <1>3, <1>4 DEF LocalOK, HasInfo, FieldsAgreeIn

\* An installer named by the copy of the state is not "none"
LEMMA FindInstallerOK ==
    ASSUME IInv, NEW u \in Updaters, me[u].pc # "off",
           me[u].st.state = "readyToInstall"
    PROVE  /\ FindInstaller(u) \in Locals
           /\ LocalOK(u, FindInstaller(u), installed)
<1>1. me[u] \in Locals /\ LocalOK(u, me[u], installed) /\ u \notin Threads
  BY DEF IInv, TypeOK, LocalsOK, Actors
<1>2. GiveUp(u, FALSE) \in Locals /\ LocalOK(u, GiveUp(u, FALSE), installed)
  BY GiveUpOK
<1> DEFINE l == [me[u] EXCEPT !.pc = "stage1", !.info = me[u].st.installer]
<1>3. l \in Locals /\ l.pc = "stage1" /\ l.info = me[u].st.installer
        /\ l.st = me[u].st /\ l.ver = me[u].ver
  BY <1>1 DEF Locals, PCs, UpdateState
<1> HIDE DEF l
<1>4. LocalOK(u, l, installed)
  BY <1>1, <1>3 DEF LocalOK, FieldsAgreeIn
<1>5. FindInstaller(u) \in {l, GiveUp(u, FALSE)}
  BY DEF FindInstaller, l
<1> QED BY <1>2, <1>3, <1>4, <1>5

-----------------------------------------------------------------------------
(* read, store and clean-up.                                               *)

\* What read() returns agrees with itself and with the program's version
LEMMA ReadStateOK ==
    ASSUME IInv, NEW cur \in Versions
    PROVE  /\ ReadState(cur) \in UpdateState
           /\ FieldsAgreeIn(ReadState(cur))
           /\ cur = installed /\ ReadState(cur).installer # None
                => ReadState(cur).installer > installed
BY DEF ReadState, IsOldFileVersion, IInv, TypeOK, FileOK, FieldsAgree,
       NeverOfferInstalled, FieldsAgreeIn, Fresh, UpdateState, States

\* A step that reads, with the reader's new locals
LEMMA ReadStep ==
    ASSUME IInv, NEW a \in Actors, NEW cur \in Versions, cur <= installed,
           Read(a, cur), NEW l \in Locals, LocalOK(a, l, installed),
           me' = [me EXCEPT ![a] = l]
    PROVE  IInv'
<1>1. /\ UNCHANGED <<latest, installed, disk, runner>>
      /\ file' = IF IsOldFileVersion(file.ver, cur)
                 THEN [ver |-> cur, s |-> Fresh] ELSE file
  BY DEF Read
<1>2. me' \in [Actors -> Locals] /\ LocalsOK'
  BY <1>1, LocalsStep DEF IInv
<1>3. Fresh \in UpdateState
  BY DEF Fresh, UpdateState, States
<1>4. file' \in [ver : Versions \cup {None}, s : UpdateState]
  BY <1>1, <1>3 DEF IInv, TypeOK
<1>5. FileOK'
  BY <1>1 DEF IInv, FileOK, FieldsAgree, NeverOfferInstalled, FieldsAgreeIn,
              Fresh
<1>6. stale' \subseteq Actors /\ dirty' \subseteq Actors /\ raced' \in BOOLEAN
  <2>1. /\ (IF file' = file THEN stale ELSE Disturbed(a)) \ {a} \subseteq Actors
        /\ dirty \ {a} \subseteq Actors
    BY DEF IInv, TypeOK, Disturbed
  <2> QED BY <2>1, GhostsType DEF Read, IInv
<1>7. TypeOK'
  BY <1>1, <1>2, <1>4, <1>6 DEF IInv, TypeOK
<1> QED BY <1>2, <1>5, <1>7 DEF IInv

\* A step that stores a state, after which the actor is idle or reads again
LEMMA StoreStep ==
    ASSUME IInv, NEW a \in Actors, me[a].ver # None, NEW s \in UpdateState,
           FieldsAgreeIn(s),
           me[a].ver = installed /\ s.installer # None
               => s.installer > installed,
           Store(a, s), NEW l \in Locals, LocalOK(a, l, installed),
           me' = [me EXCEPT ![a] = l]
    PROVE  IInv'
<1>1. /\ UNCHANGED <<latest, installed, disk, runner>>
      /\ file' = [ver |-> me[a].ver, s |-> s]
  BY DEF Store
<1>2. me' \in [Actors -> Locals] /\ LocalsOK'
  BY <1>1, LocalsStep DEF IInv
<1>3. me[a].ver \in Versions /\ me[a].ver <= installed
  BY DEF IInv, TypeOK, Locals, LocalsOK, LocalOK
<1>4. FileOK'
  BY <1>1, <1>3 DEF FileOK, FieldsAgree, NeverOfferInstalled
<1>5. stale' \subseteq Actors /\ dirty' \subseteq Actors /\ raced' \in BOOLEAN
  <2>1. Disturbed(a) \subseteq Actors /\ dirty \ {a} \subseteq Actors
    BY DEF IInv, TypeOK, Disturbed
  <2> QED BY <2>1, GhostsType DEF Store, IInv
<1>6. TypeOK'
  BY <1>1, <1>2, <1>3, <1>5 DEF IInv, TypeOK
<1> QED BY <1>2, <1>4, <1>6 DEF IInv

\* A step that changes the directory and one actor's locals
LEMMA DiskStep ==
    ASSUME IInv, NEW a \in Actors, NEW l \in Locals,
           LocalOK(a, l, installed), me' = [me EXCEPT ![a] = l],
           UNCHANGED <<latest, installed, file, runner>>,
           disk' \in [Versions -> {"absent", "partial", "complete"}],
           stale' \subseteq Actors, dirty' \subseteq Actors,
           raced' \in BOOLEAN
    PROVE  IInv'
<1>1. me' \in [Actors -> Locals] /\ LocalsOK'
  BY LocalsStep DEF IInv
<1>2. TypeOK'
  BY <1>1 DEF IInv, TypeOK
<1>3. FileOK'
  BY DEF IInv, FileOK, FieldsAgree, NeverOfferInstalled
<1> QED BY <1>1, <1>2, <1>3 DEF IInv

\* A step that ends some actors, and with them perhaps the old version
LEMMA KillStep ==
    ASSUME IInv, NEW A, A \subseteq Actors
    PROVE  /\ Killed(A) \in [Actors -> Locals]
           /\ \A a \in Actors : LocalOK(a, Killed(A)[a], installed)
<1>1. \A a \in Actors : Off \in Locals /\ LocalOK(a, Off, installed)
  BY OffOK DEF IInv
<1> QED BY <1>1 DEF Killed, IInv, TypeOK, LocalsOK

-----------------------------------------------------------------------------
(* One lemma for each group of actions.                                    *)

\* Releases, and processes that start or end
LEMMA WorldStep ==
    ASSUME IInv, Release \/ StartRunner \/ RunnerExit \/ Shutdown
    PROVE  IInv'
<1>1. CASE Release
  <2>1. latest' \in Versions
    BY <1>1 DEF Release, IInv, TypeOK
  <2> QED BY <1>1, <2>1 DEF Release, IInv, TypeOK, FileOK, FieldsAgree,
             NeverOfferInstalled, LocalsOK, LocalOK, ghost
<1>2. CASE StartRunner
  <2> DEFINE l == [Off EXCEPT !.pc = "read", !.ver = installed]
  <2>1. l \in Locals /\ \A a \in Actors : LocalOK(a, l, installed)
    <3>1. Off \in Locals /\ installed \in Versions
      BY OffOK DEF IInv, TypeOK, Actors, Threads
    <3>2. l \in Locals
      BY <3>1 DEF Locals, PCs
    <3>3. l.pc = "read" /\ l.st = Fresh /\ l.info = None /\ l.ver = installed
      BY DEF Off
    <3> QED BY <3>1, <3>2, <3>3 DEF LocalOK, FieldsAgreeIn, Fresh, HasInfo
  <2>2. me' \in [Actors -> Locals]
    BY <1>2, <2>1 DEF StartRunner, IInv, TypeOK
  <2>3. LocalsOK'
    BY <1>2, <2>1 DEF StartRunner, IInv, LocalsOK, LocalOK
  <2> QED BY <1>2, <2>2, <2>3 DEF StartRunner, IInv, TypeOK, FileOK,
             FieldsAgree, NeverOfferInstalled, ghost
<1>3. ASSUME NEW A \in SUBSET Actors, Kill(A), runner' = "off",
             UNCHANGED installed,
             file' = file \/ file' = [ver |-> None, s |-> Fresh]
      PROVE  IInv'
  <2>1. me' \in [Actors -> Locals]
    BY <1>3, KillStep DEF Kill
  <2>2. LocalsOK'
    BY <1>3, KillStep DEF Kill, LocalsOK, LocalOK
  <2>3. FileOK'
    BY <1>3 DEF IInv, TypeOK, FileOK, FieldsAgree, FieldsAgreeIn,
                NeverOfferInstalled, Fresh
  <2>4. stale' \subseteq Actors /\ dirty' \subseteq Actors
          /\ raced' \in BOOLEAN
    <3>1. stale \subseteq Actors /\ dirty \ A \subseteq Actors
      BY DEF IInv, TypeOK
    <3> QED BY <1>3, <3>1, GhostsType DEF Kill, IInv
  <2>5. file' \in [ver : Versions \cup {None}, s : UpdateState]
    BY <1>3 DEF IInv, TypeOK, Fresh, UpdateState, States
  <2>6. TypeOK'
    BY <1>3, <2>1, <2>4, <2>5 DEF Kill, IInv, TypeOK
  <2> QED BY <2>2, <2>3, <2>6 DEF IInv
<1>4. CASE RunnerExit
  BY <1>3, <1>4 DEF RunnerExit, CutOff, Actors
<1>5. CASE Shutdown
  BY <1>3, <1>5 DEF Shutdown, CutOff
<1> QED BY <1>1, <1>2, <1>4, <1>5

\* What a clean-up that throws leaves of the directory
LEMMA CleanupFailsTypes ==
    ASSUME IInv, CleanupFails
    PROVE  /\ disk' \in [Versions -> {"absent", "partial", "complete"}]
           /\ stale' \subseteq Actors /\ dirty' \subseteq Actors /\ raced' \in BOOLEAN
<1>1. disk' \in [Versions -> {"absent", "partial", "complete"}]
  BY DEF CleanupFails, IInv, TypeOK
<1>2. stale' \subseteq Actors /\ dirty' \subseteq Actors /\ raced' \in BOOLEAN
  BY GhostsType DEF CleanupFails, IInv
<1> QED BY <1>1, <1>2

\* A clean-up that throws terminates the runner
LEMMA StartupThrowsStep ==
    ASSUME IInv, StartupThrows
    PROVE  IInv'
<1>1. /\ me' = Killed(Threads) /\ runner' = "off" /\ CleanupFails
      /\ UNCHANGED <<latest, installed>>
      /\ file' = file \/ file' = [ver |-> None, s |-> Fresh]
  BY DEF StartupThrows, CutOff
<1>2. me' \in [Actors -> Locals]
  BY <1>1, KillStep DEF Actors
<1>3. LocalsOK'
  BY <1>1, KillStep DEF LocalsOK, LocalOK, Actors
<1>4. FileOK'
  BY <1>1 DEF IInv, TypeOK, FileOK, FieldsAgree, FieldsAgreeIn, NeverOfferInstalled,
              Fresh
<1>5. file' \in [ver : Versions \cup {None}, s : UpdateState]
  BY <1>1 DEF IInv, TypeOK, Fresh, UpdateState, States
<1>6. TypeOK'
  BY <1>1, <1>2, <1>5, CleanupFailsTypes DEF IInv, TypeOK
<1> QED BY <1>3, <1>4, <1>6 DEF IInv

\* The clean-up thread
LEMMA StartupStep ==
    ASSUME IInv, Startup
    PROVE  IInv'
<1> DEFINE a == "startup"
<1>1. a \in Threads /\ a \in Actors
  BY DEF Threads, Actors
<1>2. me[a] \in Locals /\ LocalOK(a, me[a], installed)
  BY <1>1 DEF IInv, TypeOK, LocalsOK
<1>3. CASE StartupRead
  <2>1. me[a].ver = installed
    BY <1>1, <1>2, <1>3 DEF StartupRead, LocalOK
  <2> DEFINE l == IF ReadState(installed).state = "upToDate"
                  THEN [me[a] EXCEPT !.pc = "cleanup"] ELSE Off
  <2>2. l \in Locals /\ LocalOK(a, l, installed)
    <3>1. Off \in Locals /\ LocalOK(a, Off, installed)
      BY <1>1, OffOK DEF IInv
    <3> QED BY <1>2, <1>3, <3>1 DEF StartupRead, Locals, PCs, LocalOK, HasInfo
  <2>3. me' = [me EXCEPT ![a] = l]
    BY <1>3, <2>1 DEF StartupRead
  <2>4. installed \in Versions /\ Read(a, installed)
    BY <1>3, <2>1 DEF StartupRead, IInv, TypeOK
  <2>5. installed <= installed
    BY <2>4
  <2> HIDE DEF l
  <2> QED BY <1>1, <2>2, <2>3, <2>4, <2>5, ReadStep
<1>4. CASE StartupCleanup
  <2>1. disk' \in [Versions -> {"absent", "partial", "complete"}]
    BY <1>4 DEF StartupCleanup, cleanup_updates, IInv, TypeOK
  <2>2. Disturbed(a) \subseteq Actors /\ dirty \subseteq Actors
    BY DEF IInv, TypeOK, Disturbed
  <2>3. stale' \subseteq Actors /\ dirty' \subseteq Actors
          /\ raced' \in BOOLEAN
    BY <1>4, <2>2, GhostsType DEF StartupCleanup, IInv
  <2>4. Off \in Locals /\ LocalOK(a, Off, installed)
    BY <1>1, OffOK DEF IInv
  <2> QED BY <1>1, <1>4, <2>1, <2>3, <2>4, DiskStep DEF StartupCleanup
<1>5. CASE StartupThrows
  BY <1>5, StartupThrowsStep
<1> QED BY <1>3, <1>4, <1>5 DEF Startup

\* PeriodicUpdateWorker and CheckForUpdatesCallback, when they fetch
LEMMA WorkerFetch ==
    ASSUME IInv, PeriodicRead \/ PeriodicFetchFails \/ CheckForUpdates
                   \/ CheckFetchFails
    PROVE  IInv'
<1>1. installed \in Versions /\ installed <= installed
  BY DEF IInv, TypeOK
<1>2. \A a \in Threads : /\ a \in Actors
                         /\ me[a] \in Locals
                         /\ LocalOK(a, me[a], installed)
                         /\ Off \in Locals
  BY OffOK DEF IInv, TypeOK, LocalsOK, Actors
<1>3. "periodic" \in Threads /\ "check" \in Threads
  BY DEF Threads
<1>4. /\ ReadState(installed) \in UpdateState
      /\ FieldsAgreeIn(ReadState(installed))
      /\ ReadState(installed).installer # None
           => ReadState(installed).installer > installed
  BY <1>1, ReadStateOK
<1>5. CASE PeriodicRead
  <2> DEFINE a == "periodic"
             l == [me[a] EXCEPT !.pc = "fetch", !.st = ReadState(installed)]
  <2>1. me[a].ver = installed
    BY <1>2, <1>3, <1>5 DEF PeriodicRead, LocalOK
  <2>2. l \in Locals
    BY <1>2, <1>3, <1>4 DEF Locals, PCs
  <2>3. l.pc = "fetch" /\ l.st = ReadState(installed) /\ l.ver = me[a].ver
          /\ l.info = me[a].info
    BY <1>2, <1>3 DEF Locals
  <2>4. me' = [me EXCEPT ![a] = l] /\ Read(a, installed)
    BY <1>2, <1>3, <1>5, <2>1 DEF PeriodicRead, IInv, TypeOK
  <2>5. me[a].pc = "read"
    BY <1>5 DEF PeriodicRead
  <2> HIDE DEF l
  <2>6. LocalOK(a, l, installed)
    BY <1>1, <1>2, <1>3, <1>4, <2>1, <2>3, <2>5 DEF LocalOK, HasInfo
  <2> QED BY <1>1, <1>2, <1>3, <2>2, <2>4, <2>6, ReadStep
<1>6. CASE CheckForUpdates
  <2> DEFINE a == "check"
             l == [Off EXCEPT !.pc = "fetch", !.st = ReadState(installed),
                              !.ver = installed]
  <2>2. l \in Locals
    BY <1>1, <1>2, <1>3, <1>4 DEF Locals, PCs
  <2>3. l.pc = "fetch" /\ l.st = ReadState(installed) /\ l.ver = installed
          /\ l.info = None
    BY DEF Off
  <2>4. me' = [me EXCEPT ![a] = l] /\ Read(a, installed)
    BY <1>6 DEF CheckForUpdates
  <2> HIDE DEF l
  <2>6. LocalOK(a, l, installed)
    BY <1>1, <1>4, <2>3 DEF LocalOK, HasInfo
  <2> QED BY <1>1, <1>2, <1>3, <2>2, <2>4, <2>6, ReadStep
<1>7. CASE PeriodicFetchFails
  <2> DEFINE a == "periodic"
             l == [Off EXCEPT !.pc = "read", !.ver = me[a].ver]
  <2>1. Local(a, l) /\ me[a].pc = "fetch"
    BY <1>7 DEF PeriodicFetchFails
  <2>2. l \in Locals
    BY <1>2, <1>3 DEF Locals, PCs
  <2>3. l.pc = "read" /\ l.st = Fresh /\ l.ver = me[a].ver /\ l.info = None
    BY DEF Off
  <2> HIDE DEF l
  <2>4. LocalOK(a, l, installed)
    BY <1>2, <1>3, <2>1, <2>3 DEF LocalOK, HasInfo, Fresh, FieldsAgreeIn
  <2> QED BY <1>2, <1>3, <2>1, <2>2, <2>4, LocalStep
<1>8. CASE CheckFetchFails
  <2> DEFINE a == "check"
             l == [me[a] EXCEPT !.pc = "store", !.st.state = "networkError"]
  <2>1. Local(a, l) /\ me[a].pc = "fetch"
    BY <1>8 DEF CheckFetchFails
  <2>2. l \in Locals
    <3> DEFINE st == [me[a].st EXCEPT !.state = "networkError"]
    <3>1. st \in UpdateState
      BY <1>2, <1>3 DEF Locals, UpdateState, States
    <3>2. l = [me[a] EXCEPT !.pc = "store", !.st = st]
      OBVIOUS
    <3> HIDE DEF st, l
    <3> QED BY <1>2, <1>3, <3>1, <3>2 DEF Locals, PCs
  <2>3. l.pc = "store" /\ l.st.state = "networkError" /\ l.ver = me[a].ver
          /\ l.info = me[a].info /\ l.st.installer = me[a].st.installer
    BY <1>2, <1>3 DEF Locals, UpdateState
  <2> HIDE DEF l
  <2>4. LocalOK(a, l, installed)
    BY <1>2, <1>3, <2>1, <2>3 DEF LocalOK, HasInfo, FieldsAgreeIn
  <2> QED BY <1>2, <1>3, <2>1, <2>2, <2>4, LocalStep
<1> QED BY <1>5, <1>6, <1>7, <1>8

\* The answer arrives, for a worker or an updater
LEMMA FetchOkStep ==
    ASSUME IInv, NEW a \in Actors, FetchOk(a)
    PROVE  IInv'
<1> DEFINE p == IF a \in Updaters THEN "decide" ELSE "process"
           l == [me[a] EXCEPT !.info = Offered(a), !.pc = p]
<1>1. me[a] \in Locals /\ LocalOK(a, me[a], installed)
  BY DEF IInv, TypeOK, LocalsOK
<1>2. p \in PCs /\ p \in {"decide", "process"}
  BY DEF PCs
<1>3. Local(a, l) /\ me[a].pc = "fetch"
  BY DEF FetchOk
<1> HIDE DEF p
<1>4. l \in Locals
  BY <1>1, <1>2, OfferedNewer DEF Locals
<1>5. l.info = Offered(a) /\ l.pc = p /\ l.st = me[a].st
        /\ l.ver = me[a].ver
  BY <1>1 DEF Locals
<1> HIDE DEF l
<1>6. LocalOK(a, l, installed)
  BY <1>1, <1>2, <1>3, <1>5, OfferedNewer DEF LocalOK, HasInfo
<1> QED BY <1>3, <1>4, <1>6, LocalStep

\* A worker decides what to store without downloading, and stores
LEMMA ProcessStep ==
    ASSUME IInv, NEW a \in {"periodic", "check"},
           NothingNew(a) \/ KeepDownload(a) \/ AnnounceOnly(a)
    PROVE  IInv'
<1>1. a \in Threads /\ a \in Actors
  BY DEF Threads, Actors
<1>2. me[a] \in Locals /\ LocalOK(a, me[a], installed) /\ me[a].pc = "process"
  BY <1>1 DEF IInv, TypeOK, LocalsOK, NothingNew, KeepDownload, AnnounceOnly
<1>3. ASSUME NEW s \in UpdateState, FieldsAgreeIn(s),
             s.installer # None => s.installer > installed,
             Local(a, Finish(a, s))
      PROVE  IInv'
  BY <1>1, <1>2, <1>3, FinishOK, LocalStep
<1>4. CASE NothingNew(a)
  <2>1. /\ Fresh \in UpdateState /\ FieldsAgreeIn(Fresh)
        /\ Fresh.installer = None
    BY DEF Fresh, UpdateState, States, FieldsAgreeIn
  <2> QED BY <1>3, <1>4, <2>1 DEF NothingNew
<1>5. CASE KeepDownload(a)
  <2> DEFINE s == [me[a].st EXCEPT !.page = me[a].info]
  <2>1. s \in UpdateState /\ s.state = me[a].st.state
          /\ s.installer = me[a].st.installer
    BY <1>2 DEF Locals, UpdateState
  <2>2. Local(a, Finish(a, s))
    BY <1>5 DEF KeepDownload
  <2> HIDE DEF s
  <2>3. FieldsAgreeIn(s) /\ (s.installer # None => s.installer > installed)
    BY <1>1, <1>2, <2>1 DEF LocalOK, FieldsAgreeIn
  <2> QED BY <1>3, <2>1, <2>2, <2>3
<1>6. CASE AnnounceOnly(a)
  <2> DEFINE s == [state |-> "readyToDownload", page |-> me[a].info,
                   installer |-> None]
  <2>1. s \in UpdateState /\ FieldsAgreeIn(s) /\ s.installer = None
    BY <1>2 DEF Locals, UpdateState, States, FieldsAgreeIn
  <2>2. Local(a, Finish(a, s))
    BY <1>6 DEF AnnounceOnly
  <2> QED BY <1>3, <2>1, <2>2
<1> QED BY <1>4, <1>5, <1>6

\* The directory is cleaned and a download begins
LEMMA CleanStep ==
    ASSUME IInv, NEW a \in Actors, me[a].pc # "off", me[a].info # None,
           CleanThenDownload(a)
    PROVE  IInv'
<1> DEFINE l == [me[a] EXCEPT !.pc = "download", !.st.page = me[a].info]
<1>1. me[a] \in Locals /\ LocalOK(a, me[a], installed)
  BY DEF IInv, TypeOK, LocalsOK
<1>2. l \in Locals
  BY <1>1 DEF Locals, PCs, UpdateState
<1>3. l.pc = "download" /\ l.info = me[a].info /\ l.ver = me[a].ver
        /\ l.st.state = me[a].st.state /\ l.st.installer = me[a].st.installer
  BY <1>1 DEF Locals, UpdateState
<1>4. me' = [me EXCEPT ![a] = l]
        /\ UNCHANGED <<latest, installed, file, runner>>
  BY DEF CleanThenDownload
<1>5. disk' \in [Versions -> {"absent", "partial", "complete"}]
  BY DEF CleanThenDownload, cleanup_updates, IInv, TypeOK
<1>6. stale' \subseteq Actors /\ dirty' \subseteq Actors /\ raced' \in BOOLEAN
  <2>1. Disturbed(a) \subseteq Actors /\ dirty \cup {a} \subseteq Actors
    BY DEF IInv, TypeOK, Disturbed
  <2> QED BY <2>1, GhostsType DEF CleanThenDownload, IInv
<1> HIDE DEF l
<1>7. LocalOK(a, l, installed)
  BY <1>1, <1>3 DEF LocalOK, FieldsAgreeIn
<1> QED BY <1>2, <1>4, <1>5, <1>6, <1>7, DiskStep

\* The clean-up throws
LEMMA ThrowStep ==
    ASSUME IInv, NEW a \in {"periodic", "check"}, CleanupThrows(a)
    PROVE  IInv'
<1> DEFINE s == [me[a].st EXCEPT !.page = me[a].info]
           l == IF a = "periodic" THEN Finish(a, s) ELSE Off
<1>1. a \in Threads /\ a \in Actors
  BY DEF Threads, Actors
<1>2. me[a] \in Locals /\ LocalOK(a, me[a], installed) /\ me[a].pc = "process"
  BY <1>1 DEF IInv, TypeOK, LocalsOK, CleanupThrows
<1>3. s \in UpdateState /\ s.state = me[a].st.state
        /\ s.installer = me[a].st.installer
  BY <1>2 DEF Locals, UpdateState
<1>4. me' = [me EXCEPT ![a] = l]
        /\ UNCHANGED <<latest, installed, file, runner>>
  BY DEF CleanupThrows
<1> HIDE DEF s
<1>5. Off \in Locals /\ LocalOK(a, Off, installed)
  BY <1>1, OffOK DEF IInv
<1>6. FieldsAgreeIn(s) /\ (s.installer # None => s.installer > installed)
  BY <1>1, <1>2, <1>3 DEF LocalOK, FieldsAgreeIn
<1>7. l \in Locals /\ LocalOK(a, l, installed)
  BY <1>1, <1>2, <1>3, <1>5, <1>6, FinishOK
<1>8. disk' \in [Versions -> {"absent", "partial", "complete"}]
  BY CleanupFailsTypes DEF CleanupThrows
<1>9. stale' \subseteq Actors /\ dirty' \subseteq Actors /\ raced' \in BOOLEAN
  BY CleanupFailsTypes DEF CleanupThrows
<1> HIDE DEF l
<1> QED BY <1>1, <1>4, <1>7, <1>8, <1>9, DiskStep

\* A worker stores and sleeps again or ends
LEMMA WorkerStoreStep ==
    ASSUME IInv, NEW a \in {"periodic", "check"}, WorkerStore(a)
    PROVE  IInv'
<1> DEFINE r == [Off EXCEPT !.pc = "read", !.ver = me[a].ver]
           l == IF a = "periodic" THEN r ELSE Off
<1>1. a \in Threads /\ a \in Actors
  BY DEF Threads, Actors
<1>2. me[a] \in Locals /\ LocalOK(a, me[a], installed) /\ me[a].pc = "store"
  BY <1>1 DEF IInv, TypeOK, LocalsOK, WorkerStore
<1>3. Off \in Locals /\ LocalOK(a, Off, installed)
  BY <1>1, OffOK DEF IInv
<1>4. r \in Locals
  BY <1>2, <1>3 DEF Locals, PCs
<1>5. r.pc = "read" /\ r.st = Fresh /\ r.info = None /\ r.ver = me[a].ver
  BY DEF Off
<1>6. me' = [me EXCEPT ![a] = l] /\ Store(a, me[a].st)
  BY DEF WorkerStore
<1> HIDE DEF r
<1>7. LocalOK(a, r, installed)
  BY <1>1, <1>2, <1>5 DEF LocalOK, HasInfo, Fresh, FieldsAgreeIn
<1>8. l \in Locals /\ LocalOK(a, l, installed)
  BY <1>3, <1>4, <1>7
<1>9. me[a].ver = installed /\ me[a].st \in UpdateState
        /\ FieldsAgreeIn(me[a].st)
        /\ (me[a].st.installer # None => me[a].st.installer > installed)
  BY <1>1, <1>2 DEF LocalOK, Locals
<1>10. me[a].ver # None
  BY <1>9 DEF IInv, TypeOK
<1> HIDE DEF l
<1> QED BY <1>1, <1>6, <1>8, <1>9, <1>10, StoreStep

\* The download of a worker or an updater
LEMMA DownloadStep ==
    ASSUME IInv, NEW a \in Actors, Download(a)
    PROVE  IInv'
<1>1. me[a] \in Locals /\ LocalOK(a, me[a], installed)
        /\ me[a].pc \in {"download", "writing"}
  BY DEF IInv, TypeOK, LocalsOK, Download, BeginWriting, Downloaded,
         AttemptFails
<1>2. me[a].info # None /\ me[a].info \in Versions
  BY <1>1 DEF LocalOK, HasInfo, Locals
<1>3. a \in Threads \/ a \in Updaters
  BY DEF Actors
<1>4. CASE BeginWriting(a)
  <2> DEFINE l == [me[a] EXCEPT !.pc = "writing"]
  <2>1. l \in Locals
    BY <1>1 DEF Locals, PCs
  <2>2. l.pc = "writing" /\ l.info = me[a].info /\ l.ver = me[a].ver
          /\ l.st = me[a].st
    BY <1>1 DEF Locals
  <2>3. me' = [me EXCEPT ![a] = l]
          /\ UNCHANGED <<latest, installed, file, runner>>
    BY <1>4 DEF BeginWriting, IInv, TypeOK
  <2>4. disk' \in [Versions -> {"absent", "partial", "complete"}]
    BY <1>4 DEF BeginWriting, IInv, TypeOK
  <2>5. stale' \subseteq Actors /\ dirty' \subseteq Actors
          /\ raced' \in BOOLEAN
    <3>1. Disturbed(a) \subseteq Actors /\ dirty \subseteq Actors
      BY DEF IInv, TypeOK, Disturbed
    <3> QED BY <1>4, <3>1, GhostsType DEF BeginWriting, IInv
  <2> HIDE DEF l
  <2>6. LocalOK(a, l, installed)
    BY <1>1, <2>2 DEF LocalOK, HasInfo
  <2> QED BY <2>1, <2>3, <2>4, <2>5, <2>6, DiskStep
<1>5. CASE Downloaded(a)
  <2> DEFINE ready == [state |-> "readyToInstall", page |-> me[a].info,
                       installer |-> me[a].info]
             r == [me[a] EXCEPT !.pc = "stage1"]
             l == IF a \in Updaters THEN r ELSE Finish(a, ready)
  <2>1. r \in Locals
    BY <1>1 DEF Locals, PCs
  <2>2. r.pc = "stage1" /\ r.info = me[a].info /\ r.ver = me[a].ver
          /\ r.st = me[a].st
    BY <1>1 DEF Locals
  <2>3. me' = [me EXCEPT ![a] = l] /\ UNCHANGED ghost
          /\ UNCHANGED <<latest, installed, file, runner>>
    BY <1>5 DEF Downloaded, IInv, TypeOK
  <2>4. disk' \in [Versions -> {"absent", "partial", "complete"}]
    BY <1>5 DEF Downloaded, IInv, TypeOK
  <2>5. stale' \subseteq Actors /\ dirty' \subseteq Actors
          /\ raced' \in BOOLEAN
    BY <2>3 DEF IInv, TypeOK, ghost
  <2>6. ready \in UpdateState /\ ready.installer = me[a].info
          /\ FieldsAgreeIn(ready)
    BY <1>2 DEF UpdateState, States, FieldsAgreeIn
  <2> HIDE DEF r, ready
  <2>7. CASE a \in Updaters
    <3>1. a \notin Threads
      BY <2>7
    <3>2. LocalOK(a, r, installed)
      BY <1>1, <2>2, <3>1 DEF LocalOK, HasInfo
    <3>3. l = r
      BY <2>7
    <3> HIDE DEF l
    <3> QED BY <2>1, <2>3, <2>4, <2>5, <3>2, <3>3, DiskStep
  <2>8. CASE a \in Threads
    <3>1. a \notin Updaters
      BY <2>8
    <3>2. ready.installer # None => ready.installer > installed
      BY <1>1, <1>2, <2>6, <2>8 DEF LocalOK
    <3>3. l \in Locals /\ LocalOK(a, l, installed)
      BY <1>1, <2>6, <2>8, <3>1, <3>2, FinishOK
    <3> HIDE DEF l
    <3> QED BY <2>3, <2>4, <2>5, <3>3, DiskStep
  <2> QED BY <1>3, <2>7, <2>8
<1>6. CASE AttemptFails(a)
  <2> DEFINE error == [me[a].st EXCEPT !.state = "errorDownloading",
                                       !.installer = None]
             r == [me[a] EXCEPT !.tries = @ + 1, !.pc = "download"]
             l == IF me[a].tries + 1 < MaxDownloadAttempts THEN r
                  ELSE IF a \in Updaters THEN GiveUp(a, FALSE)
                  ELSE Finish(a, error)
  <2>1. Local(a, l)
    BY <1>6 DEF AttemptFails
  <2>2. CASE me[a].tries + 1 < MaxDownloadAttempts
    <3>1. r \in Locals
      <4>1. me[a].tries + 1 \in 0 .. MaxDownloadAttempts
        BY <1>1, <2>2 DEF Locals
      <4> QED BY <1>1, <4>1 DEF Locals, PCs
    <3>2. r.pc = "download" /\ r.info = me[a].info /\ r.ver = me[a].ver
            /\ r.st = me[a].st
      BY <1>1 DEF Locals
    <3>3. l = r
      BY <2>2
    <3> HIDE DEF r, l
    <3>4. LocalOK(a, r, installed)
      BY <1>1, <3>2 DEF LocalOK, HasInfo
    <3> QED BY <2>1, <3>1, <3>3, <3>4, LocalStep
  <2>3. CASE ~(me[a].tries + 1 < MaxDownloadAttempts) /\ a \in Updaters
    <3>1. l = GiveUp(a, FALSE)
      BY <2>3
    <3> HIDE DEF l
    <3>2. me[a].pc # "off"
      BY <1>1
    <3> QED BY <2>1, <2>3, <3>1, <3>2, GiveUpOK, LocalStep
  <2>4. CASE ~(me[a].tries + 1 < MaxDownloadAttempts) /\ a \notin Updaters
    <3>1. error \in UpdateState /\ error.state = "errorDownloading"
            /\ error.installer = None
      BY <1>1 DEF Locals, UpdateState, States
    <3>2. l = Finish(a, error)
      BY <2>4
    <3> HIDE DEF l, error
    <3>3. FieldsAgreeIn(error)
      BY <3>1 DEF FieldsAgreeIn
    <3> QED BY <1>1, <1>3, <2>1, <2>4, <3>1, <3>2, <3>3, FinishOK, LocalStep
  <2> QED BY <2>2, <2>3, <2>4
<1> QED BY <1>4, <1>5, <1>6 DEF Download

\* A new version is installed and the runner is ended
LEMMA InstallStep ==
    ASSUME IInv, NEW u \in Updaters, InstallOk(u)
    PROVE  IInv'
<1> DEFINE K == Killed(Threads)
           l == [K[u] EXCEPT !.pc = "done"]
<1>1. u \in Actors /\ u \notin Threads /\ Threads \subseteq Actors
  BY DEF Actors
<1>2. K \in [Actors -> Locals] /\ \A a \in Actors : LocalOK(a, K[a], installed)
  BY <1>1, KillStep
<1>3. /\ installed' = me[u].info
      /\ me[u].info \in Versions
      /\ installed \in Versions
      /\ installed' >= installed
      /\ me[u].pc = "installing"
  <2>1. me[u] \in Locals /\ LocalOK(u, me[u], installed)
    BY <1>1 DEF IInv, TypeOK, LocalsOK
  <2> QED BY <2>1 DEF InstallOk, Locals, LocalOK, HasInfo, IInv, TypeOK
<1>4. K[u] = me[u]
  BY <1>1 DEF Killed
<1>5. me' = [K EXCEPT ![u] = l]
  BY DEF InstallOk
<1>6. \A a \in Threads : K[a].pc = "off"
  BY <1>1 DEF Killed, Off
<1> HIDE DEF K
<1>7. l \in Locals /\ l.pc = "done" /\ l.st = K[u].st /\ l.ver = K[u].ver
  BY <1>1, <1>2 DEF Locals, PCs
<1> HIDE DEF l
<1>8. me' \in [Actors -> Locals]
  BY <1>2, <1>5, <1>7
<1>9. LocalOK(u, l, installed)
  BY <1>1, <1>2, <1>3, <1>4, <1>7 DEF LocalOK, HasInfo
<1>10. \A a \in Actors : /\ LocalOK(a, me'[a], installed)
                         /\ me'[a].ver \in Nat
                         /\ a \in Threads => me'[a].pc = "off"
  BY <1>1, <1>2, <1>5, <1>6, <1>8, <1>9 DEF Locals
<1>11. LocalsOK'
  BY <1>3, <1>10 DEF LocalsOK, LocalOK
<1>12. FileOK' /\ file' \in [ver : Versions \cup {None}, s : UpdateState]
  <2>1. file' = file \/ file' = [ver |-> None, s |-> Fresh]
    BY DEF InstallOk, CutOff
  <2>2. CASE file' = file
    BY <1>3, <2>2 DEF IInv, TypeOK, FileOK, FieldsAgree, NeverOfferInstalled
  <2>3. CASE file' = [ver |-> None, s |-> Fresh]
    BY <1>3, <2>3 DEF FileOK, FieldsAgree, FieldsAgreeIn, NeverOfferInstalled, Fresh,
                      UpdateState, States
  <2> QED BY <2>1, <2>2, <2>3
<1>13. stale' \subseteq Actors /\ dirty' \subseteq Actors /\ raced' \in BOOLEAN
  <2>1. stale \subseteq Actors /\ dirty \ Threads \subseteq Actors
    BY DEF IInv, TypeOK
  <2> QED BY <2>1, GhostsType DEF InstallOk, IInv
<1>14. TypeOK'
  BY <1>3, <1>8, <1>12, <1>13 DEF InstallOk, IInv, TypeOK
<1> QED BY <1>11, <1>12, <1>14 DEF IInv

\* PowerToys.Update.exe outside its download
LEMMA UpdaterStep ==
    ASSUME IInv, NEW u \in Updaters, UpdateNow(u) \/ Updater(u)
    PROVE  IInv'
<1>1. u \in Actors /\ u \notin Threads
  BY DEF Actors
<1>2. me[u] \in Locals /\ LocalOK(u, me[u], installed)
  BY <1>1 DEF IInv, TypeOK, LocalsOK
<1>3. Off \in Locals /\ LocalOK(u, Off, installed)
  BY <1>1, OffOK DEF IInv
<1>4. me[u].pc # "off" =>
        \A b \in BOOLEAN : /\ GiveUp(u, b) \in Locals
                           /\ LocalOK(u, GiveUp(u, b), installed)
  BY GiveUpOK
<1>5. installed \in Versions
  BY DEF IInv, TypeOK
\* Locals that differ from me[u] in pc only
<1>6. ASSUME NEW p \in PCs, p # "fail", p \in HasInfo => me[u].info # None,
             me[u].pc # "off"
      PROVE  /\ [me[u] EXCEPT !.pc = p] \in Locals
             /\ LocalOK(u, [me[u] EXCEPT !.pc = p], installed)
  <2> DEFINE l == [me[u] EXCEPT !.pc = p]
  <2>1. l \in Locals /\ l.pc = p /\ l.st = me[u].st /\ l.info = me[u].info
          /\ l.ver = me[u].ver
    BY <1>2 DEF Locals
  <2> HIDE DEF l
  <2>2. LocalOK(u, l, installed)
    BY <1>1, <1>2, <1>6, <2>1 DEF LocalOK
  <2> QED BY <2>1, <2>2 DEF l
<1>7. CASE UpdateNow(u)
  <2> DEFINE l == [Off EXCEPT !.pc = "read", !.ver = installed]
  <2>1. l \in Locals
    BY <1>3, <1>5 DEF Locals, PCs
  <2>2. l.pc = "read" /\ l.st = Fresh /\ l.ver = installed
    BY DEF Off
  <2>3. Local(u, l)
    BY <1>7 DEF UpdateNow
  <2> HIDE DEF l
  <2>4. LocalOK(u, l, installed)
    BY <1>1, <1>5, <2>2 DEF LocalOK, HasInfo, Fresh, FieldsAgreeIn
  <2> QED BY <1>1, <2>1, <2>3, <2>4, LocalStep
<1>8. CASE ObtainRead(u)
  <2> DEFINE cur == me[u].ver
             l == [me[u] EXCEPT !.pc = "fetch", !.st = ReadState(cur)]
  <2>1. Read(u, cur) /\ me' = [me EXCEPT ![u] = l]
    BY <1>1, <1>8 DEF ObtainRead, IInv, TypeOK
  <2>2. cur <= installed /\ cur \in Versions /\ me[u].pc = "read"
    BY <1>2, <1>8 DEF ObtainRead, LocalOK, Locals
  <2>3. ReadState(cur) \in UpdateState /\ FieldsAgreeIn(ReadState(cur))
    BY <2>2, ReadStateOK
  <2>4. l \in Locals /\ l.pc = "fetch" /\ l.st = ReadState(cur)
          /\ l.ver = me[u].ver
    BY <1>2, <2>3 DEF Locals, PCs
  <2> HIDE DEF l
  <2>5. LocalOK(u, l, installed)
    BY <1>1, <1>2, <2>2, <2>3, <2>4 DEF LocalOK, HasInfo
  <2> HIDE DEF cur
  <2> QED BY <1>1, <2>1, <2>2, <2>4, <2>5, ReadStep
<1>9. CASE FetchOk(u)
  BY <1>1, <1>9, FetchOkStep
<1>10. CASE ObtainFetchFails(u)
  BY <1>1, <1>3, <1>4, <1>10, FindInstallerOK, LocalStep
     DEF ObtainFetchFails
<1>11. CASE ObtainNothing(u) \/ ObtainInvalid(u) \/ InstallFails(u)
  BY <1>1, <1>4, <1>11, LocalStep
     DEF ObtainNothing, ObtainInvalid, InstallFails
<1>12. CASE ObtainByDownload(u)
  BY <1>1, <1>12, CleanStep DEF ObtainByDownload, ToDownload
<1>13. CASE ObtainDownloaded(u)
  BY <1>1, <1>13, FindInstallerOK, LocalStep DEF ObtainDownloaded
<1>14. CASE Download(u)
  BY <1>1, <1>14, DownloadStep
<1>15. CASE InstallNewVersionStage1(u)
  <2> DEFINE r == [me[u] EXCEPT !.pc = "stage2"]
  <2>0. me[u].pc = "stage1"
    BY <1>15 DEF InstallNewVersionStage1
  <2>1. r \in Locals /\ LocalOK(u, r, installed)
    <3>1. "stage2" \in PCs /\ me[u].info # None
      BY <1>2, <2>0 DEF PCs, HasInfo, LocalOK
    <3> QED BY <1>6, <2>0, <3>1
  <2>2. CASE Local(u, GiveUp(u, FALSE))
    BY <1>1, <1>4, <2>0, <2>2, LocalStep
  <2> HIDE DEF r
  <2>3. ASSUME NEW l \in {r, GiveUp(u, FALSE)}, me' = [me EXCEPT ![u] = l],
               runner' = IF runner = "off" THEN "off" ELSE "closing",
               UNCHANGED <<latest, installed, file, disk, ghost>>
        PROVE  IInv'
    <3>1. l \in Locals /\ LocalOK(u, l, installed)
      BY <1>4, <2>0, <2>1, <2>3
    <3>2. me' \in [Actors -> Locals] /\ LocalsOK'
      BY <1>1, <2>3, <3>1, LocalsStep DEF IInv
    <3>3. TypeOK'
      BY <2>3, <3>2 DEF IInv, TypeOK, ghost
    <3>4. FileOK'
      BY <2>3 DEF IInv, FileOK, FieldsAgree, NeverOfferInstalled
    <3> QED BY <3>2, <3>3, <3>4 DEF IInv
  <2> QED BY <1>15, <2>2, <2>3 DEF InstallNewVersionStage1, r
<1>16. CASE StartInstall(u)
  <2>1. /\ [me[u] EXCEPT !.pc = "installing"] \in Locals
        /\ LocalOK(u, [me[u] EXCEPT !.pc = "installing"], installed)
    BY <1>2, <1>6, <1>16 DEF StartInstall, PCs, HasInfo, LocalOK
  <2> QED BY <1>1, <1>4, <1>16, <2>1, LocalStep DEF StartInstall
<1>17. CASE InstallOk(u)
  BY <1>17, InstallStep
<1>18. CASE StoreInstalled(u) \/ StoreFailed(u)
  <2>1. Fresh \in UpdateState /\ FieldsAgreeIn(Fresh)
          /\ Fresh.installer = None
    BY DEF Fresh, UpdateState, States, FieldsAgreeIn
  <2>2. me[u].st \in UpdateState /\ FieldsAgreeIn(me[u].st)
    BY <1>2 DEF Locals, LocalOK
  <2>3. me[u].ver # None
    BY <1>2, <1>18 DEF StoreInstalled, StoreFailed, LocalOK
  <2>4. CASE StoreInstalled(u)
    BY <1>1, <1>3, <2>1, <2>3, <2>4, StoreStep DEF StoreInstalled
  <2>5. CASE StoreFailed(u)
    <3>1. me[u].st.installer = None
      BY <1>2, <2>5 DEF StoreFailed, LocalOK
    <3> QED BY <1>1, <1>3, <2>2, <2>3, <2>5, <3>1, StoreStep DEF StoreFailed
  <2> QED BY <1>18, <2>4, <2>5
<1>19. CASE ObtainThrows(u)
  BY <1>1, <1>3, <1>19, CleanupFailsTypes, DiskStep DEF ObtainThrows
<1> QED BY <1>7, <1>8, <1>9, <1>10, <1>11, <1>12, <1>13, <1>14, <1>15,
           <1>16, <1>17, <1>18, <1>19 DEF Updater

-----------------------------------------------------------------------------
\* The initial state satisfies the invariant
LEMMA InitInv == Init => IInv
<1> SUFFICES ASSUME Init PROVE IInv
  OBVIOUS
<1>1. Off \in Locals /\ \A a \in Actors : LocalOK(a, Off, 1)
  BY DEF Off, Locals, PCs, LocalOK, FieldsAgreeIn, Fresh, UpdateState,
         States, HasInfo
<1>2. TypeOK
  <2>1. 1 \in Versions /\ Fresh \in UpdateState
    BY DEF Fresh, UpdateState, States
  <2> QED BY <1>1, <2>1 DEF Init, TypeOK
<1>3. FileOK
  BY DEF Init, FileOK, FieldsAgree, FieldsAgreeIn, NeverOfferInstalled, Fresh
<1>4. LocalsOK
  BY <1>1 DEF Init, LocalsOK
<1> QED BY <1>2, <1>3, <1>4 DEF IInv

\* Every step preserves the invariant
LEMMA NextInv == IInv /\ [Next]_vars => IInv'
<1> SUFFICES ASSUME IInv, [Next]_vars PROVE IInv'
  OBVIOUS
<1>1. CASE Release \/ StartRunner \/ RunnerExit \/ Shutdown
  BY <1>1, WorldStep
<1>2. CASE Startup
  BY <1>2, StartupStep
<1>3. ASSUME NEW a \in {"periodic", "check"}, Worker(a)
      PROVE  IInv'
  <2>1. a \in Actors
    BY DEF Actors, Threads
  <2>2. CASE FetchOk(a)
    BY <2>1, <2>2, FetchOkStep
  <2>3. CASE NothingNew(a) \/ KeepDownload(a) \/ AnnounceOnly(a)
    BY <2>3, ProcessStep
  <2>4. CASE DownloadNew(a)
    BY <2>1, <2>4, CleanStep DEF DownloadNew
  <2>5. CASE CleanupThrows(a)
    BY <2>5, ThrowStep
  <2>6. CASE Download(a)
    BY <2>1, <2>6, DownloadStep
  <2>7. CASE WorkerStore(a)
    BY <2>7, WorkerStoreStep
  <2> QED BY <1>3, <2>2, <2>3, <2>4, <2>5, <2>6, <2>7 DEF Worker
<1>4. CASE Periodic
  BY <1>3, <1>4, WorkerFetch DEF Periodic
<1>5. CASE Check \/ CheckForUpdates
  BY <1>3, <1>5, WorkerFetch DEF Check
<1>6. CASE \E u \in Updaters : UpdateNow(u) \/ Updater(u)
  BY <1>6, UpdaterStep
<1>7. CASE UNCHANGED vars
  BY <1>7 DEF vars, ghost, IInv, TypeOK, FileOK, FieldsAgree,
              NeverOfferInstalled, LocalsOK, LocalOK
<1> QED BY <1>1, <1>2, <1>4, <1>5, <1>6, <1>7 DEF Next

\* The inductive invariant holds in every reachable state: whatever an actor
\* may still store agrees with the version that runs.
THEOREM Invariance == Spec => []IInv
BY InitInv, NextInv, PTL DEF Spec

\* Every variable keeps its type.
THEOREM TypeCorrect == Spec => []TypeOK
<1>1. IInv => TypeOK
  BY DEF IInv
<1> QED BY <1>1, Invariance, PTL

\* What the status file says of an installer agrees with its state.
THEOREM FileConsistent == Spec => []FieldsAgree
<1>1. IInv => FieldsAgree
  BY DEF IInv, FileOK
<1> QED BY <1>1, Invariance, PTL

\* The installed version is never offered what is installed already, for any
\* number of releases and of concurrent updater processes.
THEOREM NoStaleOffer == Spec => []NeverOfferInstalled
<1>1. IInv => NeverOfferInstalled
  BY DEF IInv, FileOK
<1> QED BY <1>1, Invariance, PTL

-----------------------------------------------------------------------------
(* What the file says of the disk.  An actor knows that the installer it   *)
(* may name is there as long as nobody has disturbed it: whoever changes   *)
(* the file or the disk makes all others stale, and whoever has cleaned up *)
(* is dirty.                                                               *)

\* Past a clean-up, and before the store that makes up for it
AfterCleanup == {"download", "writing", "store", "stage1", "stage2",
                 "installing", "done", "fail"}

\* The installer that the state s says is ready to install is there
Ready(s) == s.state = "readyToInstall" => disk[s.installer] = "complete"

\* What an actor with locals l knows as long as nobody has interfered
Knows(a, l) ==
    /\ a \in dirty => l.pc \in AfterCleanup
    /\ l.pc \in {"download", "writing"} => a \in dirty
    /\ /\ a \in Threads \ stale
       /\ l.pc \in {"fetch", "process", "store"}
       /\ dirty = {} \/ a \in dirty
       => Ready(l.st)
    /\ a = "startup" /\ a \notin stale /\ l.pc = "cleanup"
         => (file.ver # installed \/ file.s.state = "upToDate")

\* No thread outlives the runner, and what everybody knows is so
RInv ==
    /\ runner = "off" => \A a \in Threads : me[a].pc = "off"
    /\ ~raced => /\ ReadyIsDownloaded
                 /\ \A a \in Actors : Knows(a, me[a])

LEMMA KnowsInit == Init => RInv
<1> SUFFICES ASSUME Init
             PROVE  RInv
  OBVIOUS
<1>1. \A a \in Actors : me[a].pc = "off" /\ a \notin dirty
  BY DEF Init, Off
<1>2. \A a \in Actors : Knows(a, me[a])
  BY <1>1 DEF Knows
<1>3. ReadyIsDownloaded
  BY DEF Init, ReadyIsDownloaded, Fresh
<1> QED BY <1>1, <1>2, <1>3 DEF RInv, Actors

LEMMA GhostsKept ==
    ASSUME NEW s, NEW d, NEW race, Ghosts(s, d, race), ~raced'
    PROVE  ~raced /\ ~race /\ stale' = s /\ dirty' = d
  BY DEF Ghosts

\* A step of a that makes all others stale
LEMMA Disturbing ==
    ASSUME IInv, RInv, NEW a \in Actors,
           \A b \in Actors \ {a} : me'[b] = me[b],
           a \in Threads => me[a].pc # "off" \/ runner # "off",
           UNCHANGED runner,
           ~raced' => /\ ~raced /\ Actors \ {a} \subseteq stale'
                      /\ dirty \ {a} \subseteq dirty'
                      /\ dirty' \subseteq dirty \cup {a}
                      /\ ReadyIsDownloaded' /\ (Knows(a, me[a]))'
    PROVE  RInv'
<1>1. runner' = "off" => \A b \in Threads : me'[b].pc = "off"
  BY DEF RInv, Actors
<1>2. ASSUME ~raced', NEW b \in Actors \ {a}
      PROVE  (Knows(b, me[b]))'
  <2>1. Knows(b, me[b]) /\ me'[b] = me[b] /\ b \in stale'
    BY <1>2 DEF RInv
  <2>2. b \in dirty' <=> b \in dirty
    BY <1>2
  <2> QED BY <2>1, <2>2 DEF Knows
<1> QED BY <1>1, <1>2 DEF RInv

\* A step of a that lets the others keep what they know
LEMMA Undisturbing ==
    ASSUME IInv, IInv', RInv, NEW a \in Actors,
           \A b \in Actors \ {a} : me'[b] = me[b],
           a \in Threads => me[a].pc # "off" \/ runner # "off",
           runner' = "off" => runner = "off",
           UNCHANGED <<file, installed>>,
           \A v \in Versions : disk[v] = "complete" => disk'[v] = "complete",
           ~raced' => /\ ~raced /\ stale \ {a} \subseteq stale'
                      /\ dirty' = dirty /\ (Knows(a, me[a]))'
    PROVE  RInv'
<1>1. runner' = "off" => \A b \in Threads : me'[b].pc = "off"
  BY DEF RInv, Actors
<1>2. ASSUME NEW s \in UpdateState, FieldsAgreeIn(s), Ready(s)
      PROVE  (Ready(s))'
  BY <1>2 DEF FieldsAgreeIn, Ready, UpdateState
<1>3. ASSUME ~raced'
      PROVE  ReadyIsDownloaded'
  <2>1. Ready(file.s) => (Ready(file.s))'
    <3>1. file.s \in UpdateState /\ FieldsAgreeIn(file.s) /\ UNCHANGED file
      BY DEF IInv, TypeOK, FileOK, FieldsAgree
    <3> QED BY <1>2, <3>1 DEF Ready
  <2> QED BY <1>3, <2>1 DEF RInv, ReadyIsDownloaded, Ready
<1>4. ASSUME ~raced', NEW b \in Actors \ {a}
      PROVE  (Knows(b, me[b]))'
  <2>1. Knows(b, me[b]) /\ me'[b] = me[b]
    BY <1>4 DEF RInv
  <2>2. Ready(me[b].st) => (Ready(me[b].st))'
    <3>1. me[b].st \in UpdateState /\ FieldsAgreeIn(me[b].st)
      BY DEF IInv, TypeOK, Locals, LocalsOK, LocalOK
    <3> QED BY <1>2, <2>1, <3>1 DEF Ready
  <2> QED BY <1>4, <2>1, <2>2 DEF Knows
<1> QED BY <1>1, <1>3, <1>4 DEF RInv

\* A step that changes the locals of a only
LEMMA KnowsLocal ==
    ASSUME IInv, IInv', RInv, NEW a \in Actors, NEW l, Local(a, l),
           a \in Threads => me[a].pc # "off",
           ~raced => Knows(a, l)
    PROVE  RInv'
<1>1. /\ me'[a] = l /\ \A b \in Actors \ {a} : me'[b] = me[b]
      /\ UNCHANGED <<runner, file, installed, disk, stale, dirty, raced>>
  BY DEF Local, IInv, TypeOK, ghost
<1>2. ~raced' => (Knows(a, me[a]))'
  BY <1>1 DEF Knows, Ready
<1> QED BY <1>1, <1>2, Undisturbing

\* A step that reads the file, with the reader's locals l
LEMMA KnowsRead ==
    ASSUME IInv, IInv', RInv, NEW a \in Actors, NEW cur \in Versions,
           Read(a, cur),
           me[a].pc \in {"off", "read"},
           a \in Threads => /\ cur = installed
                            /\ me[a].pc = "read" \/ runner = "running",
           \A b \in Actors \ {a} : me'[b] = me[b],
           \/ me'[a].pc = "off"
           \/ me'[a].pc = "fetch" /\ me'[a].st = ReadState(cur)
           \/ /\ me'[a].pc = "cleanup" /\ a \in Threads
              /\ ReadState(cur).state = "upToDate"
    PROVE  RInv'
<1>1. /\ UNCHANGED <<latest, installed, disk, runner>>
      /\ file' = IF file.ver # cur THEN [ver |-> cur, s |-> Fresh] ELSE file
      /\ ReadState(cur) = IF file.ver # cur THEN Fresh ELSE file.s
  BY DEF Read, IsOldFileVersion, ReadState
<1>2. file'.s = ReadState(cur) /\ file'.ver = cur
  BY <1>1 DEF IInv, TypeOK
<1>3. a \in Threads => me[a].pc # "off" \/ runner # "off"
  OBVIOUS
<1>4. ASSUME ~raced'
      PROVE  /\ ~raced /\ dirty' = dirty /\ a \notin dirty
             /\ stale' = (IF file' = file THEN stale ELSE Disturbed(a)) \ {a}
             /\ ReadyIsDownloaded' /\ (Knows(a, me[a]))'
  <2>1. /\ ~raced /\ dirty' = dirty \ {a}
        /\ stale' = (IF file' = file THEN stale ELSE Disturbed(a)) \ {a}
    BY <1>4 DEF Read, Ghosts
  <2>2. a \notin dirty
    BY <2>1 DEF RInv, Knows, AfterCleanup
  <2>3. ReadyIsDownloaded'
    BY <1>1, <2>1, <2>2 DEF RInv, ReadyIsDownloaded, Fresh
  <2>4. me'[a].pc = "fetch" /\ a \in Threads /\ dirty = {} => (Ready(me[a].st))'
    BY <1>1, <1>2, <1>4, <2>1, <2>2, <2>3 DEF ReadyIsDownloaded, Ready
  <2>5. me'[a].pc = "cleanup" => file'.s.state = "upToDate"
    BY <1>2
  <2>6. (Knows(a, me[a]))'
    BY <2>1, <2>2, <2>4, <2>5 DEF Knows
  <2> QED BY <2>1, <2>2, <2>3, <2>6
<1>5. CASE file' = file
  BY <1>1, <1>3, <1>4, <1>5, Undisturbing
<1>6. CASE file' # file
  BY <1>1, <1>3, <1>4, <1>6, Disturbing DEF Disturbed
<1> QED BY <1>5, <1>6

\* A step that stores the state s
LEMMA KnowsStore ==
    ASSUME IInv, IInv', RInv, NEW a \in Actors, NEW s \in UpdateState,
           Store(a, s),
           me[a].pc \in {"store", "done", "fail"},
           \A b \in Actors \ {a} : me'[b] = me[b],
           me'[a].pc \in {"off", "read"},
           \/ s.state # "readyToInstall"
           \/ a \in Threads /\ me[a].pc = "store" /\ s = me[a].st
    PROVE  RInv'
<1>1. /\ UNCHANGED <<latest, installed, disk, runner>>
      /\ file' = [ver |-> me[a].ver, s |-> s]
  BY DEF Store
<1>2. ASSUME ~raced'
      PROVE  /\ ~raced /\ Actors \ {a} \subseteq stale' /\ dirty' = dirty \ {a}
             /\ ReadyIsDownloaded' /\ (Knows(a, me[a]))'
  <2>1. /\ ~raced /\ a \notin stale
        /\ stale' = Disturbed(a) /\ dirty' = dirty \ {a}
    BY <1>2, GhostsKept DEF Store
  <2>2. dirty' = {} => dirty = {} \/ a \in dirty
    BY <2>1
  <2>3. ReadyIsDownloaded'
    BY <1>1, <2>1, <2>2 DEF RInv, Knows, Ready, ReadyIsDownloaded
  <2>4. (Knows(a, me[a]))'
    BY <2>1 DEF Knows
  <2> QED BY <2>1, <2>3, <2>4 DEF Disturbed
<1> QED BY <1>1, <1>2, Disturbing

\* A step that cleans up, or begins to write an installer
LEMMA KnowsDisk ==
    ASSUME IInv, IInv', RInv, NEW a \in Actors,
           \A b \in Actors \ {a} : me'[b] = me[b],
           me[a].pc # "off", UNCHANGED <<runner, file, installed>>,
           NEW d, NEW race, Ghosts(Disturbed(a), d, race),
           dirty \subseteq d, d \subseteq dirty \cup {a},
           \/ a \in d /\ me'[a].pc \in {"download", "writing"}
           \/ /\ d = dirty /\ me'[a].pc = "off"
              /\ ~raced' => a \notin dirty /\ ReadyIsDownloaded'
    PROVE  RInv'
<1>1. ASSUME ~raced'
      PROVE  /\ ~raced /\ Actors \ {a} \subseteq stale' /\ dirty' = d
             /\ ReadyIsDownloaded' /\ (Knows(a, me[a]))'
  <2>1. ~raced /\ stale' = Disturbed(a) /\ dirty' = d
    BY <1>1, GhostsKept
  <2>2. CASE a \in d /\ me'[a].pc \in {"download", "writing"}
    <3>1. ReadyIsDownloaded'
      BY <2>1, <2>2 DEF ReadyIsDownloaded
    <3>2. (Knows(a, me[a]))'
      BY <2>1, <2>2 DEF Knows, AfterCleanup
    <3> QED BY <2>1, <3>1, <3>2 DEF Disturbed
  <2>3. CASE /\ a \notin dirty /\ ReadyIsDownloaded'
             /\ me'[a].pc = "off" /\ d = dirty
    <3>1. (Knows(a, me[a]))'
      BY <2>1, <2>3 DEF Knows
    <3> QED BY <2>1, <2>3, <3>1 DEF Disturbed
  <2> QED BY <1>1, <2>1, <2>2, <2>3
<1> QED BY <1>1, Disturbing

\* A step that ends the actors in A
LEMMA KnowsKill ==
    ASSUME IInv, IInv', RInv, NEW A \in SUBSET Actors, Kill(A), runner' = "off",
           Threads \subseteq A, UNCHANGED installed,
           file' = file \/ file' = [ver |-> None, s |-> Fresh]
    PROVE  RInv'
<1>1. /\ me' = Killed(A) /\ UNCHANGED disk
      /\ Ghosts(stale, dirty \ A, A \cap dirty # {})
  BY DEF Kill
<1>2. \A b \in Actors : me'[b] = IF b \in A THEN Off ELSE me[b]
  BY <1>1 DEF Killed
<1>3. \A b \in Threads : me'[b].pc = "off"
  BY <1>2 DEF Off, Actors
<1>4. ASSUME ~raced'
      PROVE  ReadyIsDownloaded' /\ \A b \in Actors : (Knows(b, me[b]))'
  <2>1. ~raced /\ A \cap dirty = {} /\ UNCHANGED <<stale, dirty>>
    <3>1. ~raced /\ ~(A \cap dirty # {}) /\ stale' = stale /\ dirty' = dirty \ A
      BY <1>1, <1>4, GhostsKept
    <3> QED BY <3>1
  <2>2. ReadyIsDownloaded'
    BY <1>1, <2>1 DEF RInv, ReadyIsDownloaded, Fresh
  <2>3. ASSUME NEW b \in Actors
        PROVE  (Knows(b, me[b]))'
    <3>1. CASE b \in A
      BY <1>2, <2>1, <3>1 DEF Knows, Off
    <3>2. CASE b \notin A
      <4>1. b \notin Threads /\ me'[b] = me[b]
        BY <1>2, <3>2
      <4>2. b # "startup"
        BY <4>1 DEF Threads
      <4> QED BY <1>1, <2>1, <4>1, <4>2 DEF RInv, Knows
    <3> QED BY <3>1, <3>2
  <2> QED BY <2>2, <2>3
<1> QED BY <1>3, <1>4 DEF RInv

\* Releases, and processes that start or end
LEMMA WorldKnows ==
    ASSUME IInv, IInv', RInv, Release \/ StartRunner \/ RunnerExit \/ Shutdown
    PROVE  RInv'
<1>1. CASE Release
  BY <1>1 DEF Release, ghost, RInv, Knows, Ready, ReadyIsDownloaded
<1>2. CASE StartRunner
  <2>1. /\ UNCHANGED <<installed, file, disk, stale, dirty, raced>>
        /\ runner' = "running" /\ runner = "off"
    BY <1>2 DEF StartRunner, ghost
  <2>2. ASSUME NEW a \in Actors, ~raced
        PROVE  (Knows(a, me[a]))'
    <3>1. CASE a \in {"startup", "periodic"}
      <4>1. me[a].pc = "off" /\ me'[a].pc = "read"
        BY <1>2, <2>1, <3>1 DEF StartRunner, RInv, Threads, Off
      <4> QED BY <2>1, <2>2, <4>1 DEF RInv, Knows, AfterCleanup
    <3>2. CASE a \notin {"startup", "periodic"}
      <4>1. me'[a] = me[a]
        BY <1>2, <3>2 DEF StartRunner
      <4> QED BY <2>1, <2>2, <4>1 DEF RInv, Knows, Ready
    <3> QED BY <3>1, <3>2
  <2> QED BY <2>1, <2>2 DEF RInv, ReadyIsDownloaded
<1>3. CASE RunnerExit
  <2>1. Threads \in SUBSET Actors
    BY DEF Actors
  <2> QED BY <1>3, <2>1, KnowsKill DEF RunnerExit, CutOff
<1>4. CASE Shutdown
  <2>1. Actors \in SUBSET Actors /\ Threads \subseteq Actors
    BY DEF Actors
  <2> QED BY <1>4, <2>1, KnowsKill DEF Shutdown, CutOff
<1> QED BY <1>1, <1>2, <1>3, <1>4

\* A step that changes the locals of a, as most do, leaves the other locals
LEMMA OtherLocals ==
    ASSUME IInv, NEW a \in Actors, NEW l, me' = [me EXCEPT ![a] = l]
    PROVE  me'[a] = l /\ \A b \in Actors \ {a} : me'[b] = me[b]
  BY DEF IInv, TypeOK

LEMMA StartupKnows ==
    ASSUME IInv, IInv', RInv, Startup
    PROVE  RInv'
<1> DEFINE a == "startup"
<1>1. a \in Threads /\ a \in Actors
  BY DEF Threads, Actors
<1>2. me[a] \in Locals /\ LocalOK(a, me[a], installed) /\ installed \in Versions
  BY <1>1 DEF IInv, TypeOK, LocalsOK
<1>3. CASE StartupRead
  <2> DEFINE l == IF ReadState(installed).state = "upToDate"
                  THEN [me[a] EXCEPT !.pc = "cleanup"] ELSE Off
  <2>1. me[a].ver = installed /\ me[a].pc = "read"
    BY <1>1, <1>2, <1>3 DEF StartupRead, LocalOK
  <2>2. me' = [me EXCEPT ![a] = l] /\ Read(a, installed)
    BY <1>3, <2>1 DEF StartupRead
  <2>3. \/ l.pc = "off"
        \/ l.pc = "cleanup" /\ ReadState(installed).state = "upToDate"
    BY <1>2 DEF Locals, Off
  <2> HIDE DEF l
  <2>4. me'[a] = l /\ \A b \in Actors \ {a} : me'[b] = me[b]
    BY <1>1, <2>2, OtherLocals
  <2> QED BY <1>1, <1>2, <2>1, <2>2, <2>3, <2>4, KnowsRead
<1>4. CASE StartupCleanup
  <2>1. /\ me[a].pc = "cleanup" /\ me' = [me EXCEPT ![a] = Off]
        /\ Ghosts(Disturbed(a), dirty, a \in stale)
        /\ UNCHANGED <<file, runner, installed>>
    BY <1>4 DEF StartupCleanup
  <2>2. me'[a].pc = "off" /\ \A b \in Actors \ {a} : me'[b] = me[b]
    <3>1. me'[a] = Off /\ \A b \in Actors \ {a} : me'[b] = me[b]
      BY <1>1, <2>1, OtherLocals
    <3> QED BY <3>1 DEF Off
  <2>3. ASSUME ~raced'
        PROVE  a \notin dirty /\ ReadyIsDownloaded'
    <3>1. ~raced /\ a \notin stale
      BY <2>1, <2>3 DEF Ghosts
    <3>2. Knows(a, me[a])
      BY <1>1, <3>1 DEF RInv
    <3> QED BY <2>1, <3>1, <3>2 DEF Knows, AfterCleanup, ReadyIsDownloaded
  <2>4. /\ dirty \subseteq dirty /\ dirty \subseteq dirty \cup {a}
        /\ me[a].pc # "off"
    BY <2>1
  <2> HIDE DEF a
  <2> QED BY <1>1, <2>1, <2>2, <2>3, <2>4, KnowsDisk
<1>5. CASE StartupThrows
  <2>1. raced' /\ me' = Killed(Threads)
    BY <1>5 DEF StartupThrows, CleanupFails, Ghosts
  <2>2. \A b \in Threads : me'[b].pc = "off"
    BY <2>1 DEF Killed, Off, Actors
  <2> QED BY <2>1, <2>2 DEF RInv
<1> QED BY <1>3, <1>4, <1>5 DEF Startup

LEMMA FetchKnows ==
    ASSUME IInv, IInv', RInv,
           \/ PeriodicRead \/ PeriodicFetchFails
           \/ CheckForUpdates \/ CheckFetchFails
    PROVE  RInv'
<1>1. "periodic" \in Threads /\ "check" \in Threads /\ Threads \subseteq Actors
  BY DEF Threads, Actors
<1>2. \A a \in Threads : /\ me[a] \in Locals /\ LocalOK(a, me[a], installed)
                         /\ installed \in Versions
  BY <1>1 DEF IInv, TypeOK, LocalsOK
<1>3. CASE PeriodicRead
  <2> DEFINE a == "periodic"
             l == [me[a] EXCEPT !.pc = "fetch", !.st = ReadState(installed)]
  <2>1. me[a].ver = installed /\ me[a].pc = "read"
    BY <1>1, <1>2, <1>3 DEF PeriodicRead, LocalOK
  <2>2. me' = [me EXCEPT ![a] = l] /\ Read(a, installed)
    BY <1>1, <1>3, <2>1 DEF PeriodicRead, IInv, TypeOK
  <2>3. l.pc = "fetch" /\ l.st = ReadState(installed)
    BY <1>1, <1>2 DEF Locals
  <2> HIDE DEF l
  <2>4. me'[a] = l /\ \A b \in Actors \ {a} : me'[b] = me[b]
    BY <1>1, <2>2, OtherLocals
  <2> QED BY <1>1, <1>2, <2>1, <2>2, <2>3, <2>4, KnowsRead
<1>4. CASE CheckForUpdates
  <2> DEFINE a == "check"
             l == [Off EXCEPT !.pc = "fetch", !.st = ReadState(installed),
                              !.ver = installed]
  <2>1. runner = "running" /\ me[a].pc = "off"
    BY <1>4 DEF CheckForUpdates
  <2>2. me' = [me EXCEPT ![a] = l] /\ Read(a, installed)
    BY <1>4 DEF CheckForUpdates
  <2>3. l.pc = "fetch" /\ l.st = ReadState(installed)
    BY DEF Off
  <2> HIDE DEF l
  <2>4. me'[a] = l /\ \A b \in Actors \ {a} : me'[b] = me[b]
    BY <1>1, <2>2, OtherLocals
  <2> QED BY <1>1, <1>2, <2>1, <2>2, <2>3, <2>4, KnowsRead
<1>5. CASE PeriodicFetchFails
  <2> DEFINE a == "periodic"
             l == [Off EXCEPT !.pc = "read", !.ver = me[a].ver]
  <2>1. Local(a, l) /\ me[a].pc = "fetch" /\ l.pc = "read"
    BY <1>5 DEF PeriodicFetchFails, Off
  <2>2. ~raced => Knows(a, l)
    BY <1>1, <2>1 DEF RInv, Knows, AfterCleanup
  <2> HIDE DEF l
  <2> QED BY <1>1, <2>1, <2>2, KnowsLocal
<1>6. CASE CheckFetchFails
  <2> DEFINE a == "check"
             l == [me[a] EXCEPT !.pc = "store", !.st.state = "networkError"]
  <2>1. Local(a, l) /\ me[a].pc = "fetch"
    BY <1>6 DEF CheckFetchFails
  <2>2. l.pc = "store" /\ l.st.state = "networkError"
    BY <1>1, <1>2 DEF Locals, UpdateState
  <2> HIDE DEF l
  <2>3. ~raced => Knows(a, l)
    BY <1>1, <2>1, <2>2 DEF RInv, Knows, AfterCleanup, Ready
  <2> QED BY <1>1, <2>1, <2>3, KnowsLocal
<1> QED BY <1>3, <1>4, <1>5, <1>6

\* Once something has raced, only the idle threads of an idle runner count
LEMMA RacedKnows ==
    ASSUME IInv, RInv, raced', NEW a \in Actors, UNCHANGED runner,
           \A b \in Actors \ {a} : me'[b] = me[b],
           a \in Threads => me[a].pc # "off"
    PROVE  RInv'
<1>1. runner' = "off" => \A b \in Threads : me'[b].pc = "off"
  BY DEF RInv, Actors
<1> QED BY <1>1 DEF RInv

\* A clean-up, by a worker or by an updater, and the download that follows
LEMMA CleanKnows ==
    ASSUME IInv, IInv', RInv, NEW a \in Actors, me[a].pc # "off",
           CleanThenDownload(a)
    PROVE  RInv'
<1> DEFINE l == [me[a] EXCEPT !.pc = "download", !.st.page = me[a].info]
           d == dirty \cup {a}
<1>1. me[a] \in Locals
  BY DEF IInv, TypeOK
<1>2. l.pc = "download"
  BY <1>1 DEF Locals, UpdateState
<1>3. me' = [me EXCEPT ![a] = l]
  BY DEF CleanThenDownload
<1> HIDE DEF l
<1>4. me'[a].pc = "download" /\ \A b \in Actors \ {a} : me'[b] = me[b]
  <2>1. me'[a] = l /\ \A b \in Actors \ {a} : me'[b] = me[b]
    BY <1>3, OtherLocals
  <2> QED BY <1>2, <2>1
<1>5. Ghosts(Disturbed(a), d, a \in stale) /\ UNCHANGED <<runner, file>>
  BY DEF CleanThenDownload
<1>6. UNCHANGED installed
  BY DEF CleanThenDownload
<1>7. a \in d /\ dirty \subseteq d /\ d \subseteq dirty \cup {a}
  OBVIOUS
<1> HIDE DEF d
<1> QED BY <1>4, <1>5, <1>6, <1>7, KnowsDisk

LEMMA DownloadKnows ==
    ASSUME IInv, IInv', RInv, NEW a \in Actors, Download(a)
    PROVE  RInv'
<1>1. me[a] \in Locals /\ LocalOK(a, me[a], installed)
        /\ me[a].pc \in {"download", "writing"}
  BY DEF IInv, TypeOK, LocalsOK, Download, BeginWriting, Downloaded,
         AttemptFails
<1>2. me[a].info \in Versions
  BY <1>1 DEF LocalOK, HasInfo, Locals
<1>3. /\ a \in Threads \/ a \in Updaters
      /\ a \in Updaters => a \notin Threads
      /\ a \in Updaters => a # "startup"
  BY DEF Actors, Threads
<1>4. ~raced => a \in dirty
  BY <1>1 DEF RInv, Knows
<1>5. CASE BeginWriting(a)
  <2> DEFINE l == [me[a] EXCEPT !.pc = "writing"]
  <2>1. l.pc = "writing"
    BY <1>1 DEF Locals
  <2>2. me' = [me EXCEPT ![a] = l] /\ Ghosts(Disturbed(a), dirty, FALSE)
          /\ UNCHANGED <<runner, file, installed>>
    BY <1>5 DEF BeginWriting, IInv, TypeOK
  <2> HIDE DEF l
  <2>3. me'[a].pc = "writing" /\ \A b \in Actors \ {a} : me'[b] = me[b]
    <3>1. me'[a] = l /\ \A b \in Actors \ {a} : me'[b] = me[b]
      BY <2>2, OtherLocals
    <3> QED BY <2>1, <3>1
  <2>4. me[a].pc # "off"
    BY <1>1
  <2>5. CASE raced
    <3>1. raced'
      BY <2>2, <2>5 DEF Ghosts
    <3> QED BY <2>2, <2>3, <2>4, <3>1, RacedKnows
  <2>6. CASE ~raced
    <3>1. dirty \subseteq dirty /\ dirty \subseteq dirty \cup {a} /\ a \in dirty
      BY <1>4, <2>6
    <3> QED BY <2>2, <2>3, <2>4, <3>1, KnowsDisk
  <2> QED BY <2>5, <2>6
<1>6. CASE Downloaded(a)
  <2> DEFINE ready == [state |-> "readyToInstall", page |-> me[a].info,
                       installer |-> me[a].info]
             l == IF a \in Updaters THEN [me[a] EXCEPT !.pc = "stage1"]
                                    ELSE Finish(a, ready)
  <2>1. /\ me' = [me EXCEPT ![a] = l]
        /\ disk' = [disk EXCEPT ![me[a].info] = "complete"]
        /\ UNCHANGED <<latest, installed, file, runner, ghost>>
    BY <1>6 DEF Downloaded
  <2>2. \/ a \in Updaters /\ l.pc = "stage1"
        \/ a \in Threads /\ l.pc = "store" /\ l.st.installer = me[a].info
    BY <1>1, <1>3 DEF Locals, Finish, Off
  <2> HIDE DEF l
  <2>3. me'[a] = l /\ \A b \in Actors \ {a} : me'[b] = me[b]
    BY <2>1, OtherLocals
  <2>4. \A v \in Versions : disk[v] = "complete" => disk'[v] = "complete"
    BY <1>2, <2>1 DEF IInv, TypeOK
  <2>5. disk'[me[a].info] = "complete"
    BY <1>2, <2>1 DEF IInv, TypeOK
  <2>6. (Knows(a, me[a]))'
    BY <1>3, <2>2, <2>3, <2>5 DEF Knows, Ready, AfterCleanup
  <2> QED BY <1>1, <2>1, <2>3, <2>4, <2>6, Undisturbing DEF ghost
<1>7. CASE AttemptFails(a)
  <2> DEFINE error == [me[a].st EXCEPT !.state = "errorDownloading",
                                       !.installer = None]
             again == [me[a] EXCEPT !.tries = @ + 1, !.pc = "download"]
  <2>1. error.state = "errorDownloading" /\ again.pc = "download"
    BY <1>1 DEF Locals, UpdateState
  <2>2. \/ Local(a, again)
        \/ a \in Updaters /\ Local(a, GiveUp(a, FALSE))
        \/ a \in Threads /\ Local(a, Finish(a, error))
    BY <1>3, <1>7 DEF AttemptFails
  <2> HIDE DEF error, again
  <2>3. GiveUp(a, FALSE).pc = "fail" /\ Finish(a, error).pc = "store"
          /\ Finish(a, error).st = error
    BY DEF GiveUp, Finish, Off
  <2>4. ~raced => Knows(a, again)
    BY <1>4, <2>1 DEF Knows, AfterCleanup
  <2>5. ~raced => Knows(a, GiveUp(a, FALSE))
    BY <2>3 DEF Knows, AfterCleanup
  <2>6. ~raced => Knows(a, Finish(a, error))
    BY <2>1, <2>3 DEF Knows, AfterCleanup, Ready
  <2>7. me[a].pc # "off"
    BY <1>1
  <2> QED BY <2>2, <2>4, <2>5, <2>6, <2>7, KnowsLocal
<1> QED BY <1>5, <1>6, <1>7 DEF Download

LEMMA WorkerKnows ==
    ASSUME IInv, IInv', RInv, NEW a \in {"periodic", "check"}, Worker(a)
    PROVE  RInv'
<1>1. a \in Threads /\ a \in Actors /\ a \notin Updaters
  BY DEF Threads, Actors
<1>2. me[a] \in Locals
  BY <1>1 DEF IInv, TypeOK
<1>3. ASSUME me[a].pc \in {"fetch", "process"}, ~raced
      PROVE  a \notin dirty /\ (a \notin stale /\ dirty = {} => Ready(me[a].st))
  BY <1>1, <1>3 DEF RInv, Knows, AfterCleanup
\* What a worker that looks or has looked up the release may go on with
<1>4. ASSUME NEW l, me[a].pc \in {"fetch", "process"}, Local(a, l),
             l.pc \in {"process", "store"},
             Ready(me[a].st) => Ready(l.st)
      PROVE  RInv'
  <2>1. ~raced => Knows(a, l)
    BY <1>3, <1>4 DEF Knows
  <2> QED BY <1>1, <1>4, <2>1, KnowsLocal
<1>5. \A s : Finish(a, s).pc = "store" /\ Finish(a, s).st = s
  BY DEF Finish, Off
<1>6. CASE FetchOk(a)
  <2> DEFINE l == [me[a] EXCEPT !.info = Offered(a), !.pc = "process"]
  <2>1. Local(a, l) /\ me[a].pc = "fetch"
    BY <1>1, <1>6 DEF FetchOk
  <2>2. l.pc = "process" /\ l.st = me[a].st
    BY <1>2 DEF Locals
  <2> HIDE DEF l
  <2> QED BY <1>4, <2>1, <2>2
<1>7. CASE NothingNew(a)
  <2>1. Ready(Fresh)
    BY DEF Ready, Fresh
  <2> QED BY <1>4, <1>5, <1>7, <2>1 DEF NothingNew
<1>8. CASE KeepDownload(a)
  <2> DEFINE s == [me[a].st EXCEPT !.page = me[a].info]
  <2>1. s.state = me[a].st.state /\ s.installer = me[a].st.installer
    BY <1>2 DEF Locals, UpdateState
  <2>2. Local(a, Finish(a, s)) /\ me[a].pc = "process"
    BY <1>8 DEF KeepDownload
  <2> HIDE DEF s
  <2>3. Ready(me[a].st) => Ready(s)
    BY <2>1 DEF Ready
  <2> QED BY <1>4, <1>5, <2>2, <2>3
<1>9. CASE AnnounceOnly(a)
  <2> DEFINE s == [state |-> "readyToDownload", page |-> me[a].info,
                   installer |-> None]
  <2>1. Ready(s)
    BY DEF Ready
  <2>2. Local(a, Finish(a, s)) /\ me[a].pc = "process"
    BY <1>9 DEF AnnounceOnly
  <2> HIDE DEF s
  <2> QED BY <1>4, <1>5, <2>1, <2>2
<1>10. CASE DownloadNew(a)
  BY <1>1, <1>10, CleanKnows DEF DownloadNew
<1>11. CASE CleanupThrows(a)
  <2> DEFINE l == IF a = "periodic"
                  THEN Finish(a, [me[a].st EXCEPT !.page = me[a].info]) ELSE Off
  <2>1. /\ me' = [me EXCEPT ![a] = l] /\ me[a].pc = "process"
        /\ UNCHANGED runner /\ raced'
    BY <1>11 DEF CleanupThrows, CleanupFails, Ghosts
  <2> HIDE DEF l
  <2>2. \A b \in Actors \ {a} : me'[b] = me[b]
    BY <1>1, <2>1, OtherLocals
  <2> QED BY <1>1, <2>1, <2>2, RacedKnows
<1>12. CASE Download(a)
  BY <1>1, <1>12, DownloadKnows
<1>13. CASE WorkerStore(a)
  <2> DEFINE l == IF a = "periodic"
                  THEN [Off EXCEPT !.pc = "read", !.ver = me[a].ver] ELSE Off
  <2>1. /\ me' = [me EXCEPT ![a] = l] /\ me[a].pc = "store"
        /\ Store(a, me[a].st)
    BY <1>13 DEF WorkerStore
  <2>2. l.pc \in {"off", "read"}
    BY DEF Off
  <2> HIDE DEF l
  <2>3. me'[a] = l /\ \A b \in Actors \ {a} : me'[b] = me[b]
    BY <1>1, <2>1, OtherLocals
  <2>4. me[a].st \in UpdateState
    BY <1>2 DEF Locals
  <2> QED BY <1>1, <2>1, <2>2, <2>3, <2>4, KnowsStore
<1> QED BY <1>6, <1>7, <1>8, <1>9, <1>10, <1>11, <1>12, <1>13 DEF Worker

\* The installer ends the threads; a file that is accepted after it was
\* accepted before, so that nothing has been installed but what ran already
LEMMA InstallKnows ==
    ASSUME IInv, IInv', RInv, NEW u \in Updaters, InstallOk(u)
    PROVE  RInv'
<1>1. /\ u \in Actors /\ u \notin Threads /\ u # "startup"
      /\ Threads \subseteq Actors
  BY DEF Actors, Threads
<1>2. \A b \in Actors \ {u} : me'[b] = IF b \in Threads THEN Off ELSE me[b]
  BY <1>1 DEF InstallOk, Killed
<1>3. me'[u].pc = "done"
  <2>1. me[u] \in Locals /\ Killed(Threads)[u] = me[u]
    BY <1>1 DEF Killed, IInv, TypeOK
  <2>2. Killed(Threads) = [a \in Actors |-> Killed(Threads)[a]]
    BY DEF Killed
  <2> QED BY <1>1, <2>1, <2>2 DEF InstallOk, Locals
<1>4. \A b \in Threads : me'[b].pc = "off"
  BY <1>1, <1>2 DEF Off
<1>5. /\ UNCHANGED disk /\ me[u].pc = "installing"
      /\ installed' >= installed /\ file.ver <= installed
      /\ installed \in Nat /\ installed' \in Nat /\ file.ver \in Nat
      /\ file' = file \/ file' = [ver |-> None, s |-> Fresh]
  BY DEF InstallOk, CutOff, IInv, TypeOK, FileOK
<1>6. ASSUME ~raced'
      PROVE  ReadyIsDownloaded' /\ \A b \in Actors : (Knows(b, me[b]))'
  <2>1. ~raced /\ UNCHANGED <<stale, dirty>> /\ dirty \cap Threads = {}
    <3>1. ~raced /\ ~(dirty \cap Threads # {}) /\ stale' = stale
            /\ dirty' = dirty \ Threads
      BY <1>6, GhostsKept DEF InstallOk
    <3> QED BY <3>1
  <2>2. ReadyIsDownloaded'
    BY <1>5, <2>1 DEF RInv, ReadyIsDownloaded, Fresh
  <2>3. ASSUME NEW b \in Actors
        PROVE  (Knows(b, me[b]))'
    <3>1. CASE b = u
      BY <1>1, <1>3, <3>1 DEF Knows, AfterCleanup
    <3>2. CASE b \in Threads
      BY <1>4, <2>1, <3>2 DEF Knows
    <3>3. CASE b # u /\ b \notin Threads
      <4>1. me'[b] = me[b] /\ b # "startup"
        BY <1>2, <3>3 DEF Threads
      <4> QED BY <2>1, <3>3, <4>1 DEF RInv, Knows
    <3> QED BY <3>1, <3>2, <3>3
  <2> QED BY <2>2, <2>3
<1> QED BY <1>4, <1>6 DEF RInv

LEMMA UpdaterKnows ==
    ASSUME IInv, IInv', RInv, NEW u \in Updaters, UpdateNow(u) \/ Updater(u)
    PROVE  RInv'
<1>1. u \in Actors /\ u \notin Threads /\ u # "startup"
  BY DEF Actors, Threads
<1>2. me[u] \in Locals /\ LocalOK(u, me[u], installed)
  BY <1>1 DEF IInv, TypeOK, LocalsOK
\* An updater only has to know that it is dirty
<1>3. ASSUME NEW l, ~raced,
             me[u].pc \in AfterCleanup => l.pc \in AfterCleanup,
             l.pc \notin {"download", "writing"}
      PROVE  Knows(u, l)
  BY <1>1, <1>3 DEF RInv, Knows
<1>4. ASSUME NEW l, Local(u, l),
             me[u].pc \in AfterCleanup => l.pc \in AfterCleanup,
             l.pc \notin {"download", "writing"}
      PROVE  RInv'
  BY <1>1, <1>3, <1>4, KnowsLocal
<1>5. \A b \in BOOLEAN : GiveUp(u, b).pc = "fail"
  BY DEF GiveUp, Off, Fresh
<1>6. \A b \in BOOLEAN : Local(u, GiveUp(u, b)) => RInv'
  BY <1>4, <1>5 DEF AfterCleanup
<1>7. Local(u, FindInstaller(u)) => RInv'
  <2>1. FindInstaller(u).pc \in {"stage1", "fail"}
    BY <1>2, <1>5 DEF FindInstaller, Locals
  <2> QED BY <1>4, <2>1 DEF AfterCleanup
<1>8. CASE UpdateNow(u)
  <2>1. [Off EXCEPT !.pc = "read", !.ver = installed].pc = "read"
    BY DEF Off
  <2> QED BY <1>4, <1>8, <2>1 DEF UpdateNow, AfterCleanup
<1>9. CASE ObtainRead(u)
  <2> DEFINE cur == me[u].ver
             l == [me[u] EXCEPT !.pc = "fetch", !.st = ReadState(cur)]
  <2>1. Read(u, cur) /\ me' = [me EXCEPT ![u] = l]
    BY <1>1, <1>9 DEF ObtainRead, IInv, TypeOK
  <2>2. cur \in Versions /\ me[u].pc = "read"
    BY <1>2, <1>9 DEF ObtainRead, LocalOK, Locals
  <2>3. l.pc = "fetch" /\ l.st = ReadState(cur)
    BY <1>2 DEF Locals
  <2> HIDE DEF l, cur
  <2>4. me'[u] = l /\ \A b \in Actors \ {u} : me'[b] = me[b]
    BY <1>1, <2>1, OtherLocals
  <2> QED BY <1>1, <2>1, <2>2, <2>3, <2>4, KnowsRead
<1>10. CASE FetchOk(u)
  <2> DEFINE l == [me[u] EXCEPT !.info = Offered(u), !.pc = "decide"]
  <2>1. Local(u, l) /\ me[u].pc = "fetch"
    BY <1>10 DEF FetchOk
  <2>2. l.pc = "decide"
    BY <1>2 DEF Locals
  <2> HIDE DEF l
  <2> QED BY <1>4, <2>1, <2>2 DEF AfterCleanup
<1>11. CASE ObtainFetchFails(u)
  <2>1. me[u].pc = "fetch" /\ Off.pc = "off"
    BY <1>11 DEF ObtainFetchFails, Off
  <2>2. Local(u, Off) => RInv'
    BY <1>4, <2>1 DEF AfterCleanup
  <2> QED BY <1>6, <1>7, <1>11, <2>2 DEF ObtainFetchFails
<1>12. CASE ObtainNothing(u) \/ ObtainInvalid(u) \/ InstallFails(u)
  BY <1>6, <1>12 DEF ObtainNothing, ObtainInvalid, InstallFails
<1>13. CASE ObtainByDownload(u)
  BY <1>1, <1>13, CleanKnows DEF ObtainByDownload, ToDownload
<1>14. CASE ObtainDownloaded(u)
  BY <1>7, <1>14 DEF ObtainDownloaded
<1>15. CASE Download(u)
  BY <1>1, <1>15, DownloadKnows
<1>16. CASE InstallNewVersionStage1(u)
  <2> DEFINE r == [me[u] EXCEPT !.pc = "stage2"]
  <2>1. me[u].pc = "stage1" /\ r.pc = "stage2"
    BY <1>2, <1>16 DEF InstallNewVersionStage1, Locals
  <2>2. r.pc \in AfterCleanup /\ GiveUp(u, FALSE).pc \in AfterCleanup
    BY <1>5, <2>1 DEF AfterCleanup
  <2>3. r.pc \notin {"download", "writing"}
          /\ GiveUp(u, FALSE).pc \notin {"download", "writing"}
    BY <1>5, <2>1
  <2> HIDE DEF r
  <2>4. ASSUME NEW l \in {r, GiveUp(u, FALSE)}, me' = [me EXCEPT ![u] = l],
               runner' = IF runner = "off" THEN "off" ELSE "closing",
               UNCHANGED <<latest, installed, file, disk, ghost>>
        PROVE  RInv'
    <3>1. me'[u] = l /\ \A b \in Actors \ {u} : me'[b] = me[b]
      BY <1>1, <2>4, OtherLocals
    <3>2. UNCHANGED <<stale, dirty, raced>>
      BY <2>4 DEF ghost
    <3>3. ~raced => Knows(u, l)
      BY <1>3, <2>2, <2>3, <2>4
    <3>4. ~raced' => (Knows(u, me[u]))'
      BY <1>1, <3>1, <3>2, <3>3 DEF Knows
    <3> QED BY <1>1, <2>4, <3>1, <3>2, <3>4, Undisturbing
  <2> QED BY <1>6, <1>16, <2>4 DEF InstallNewVersionStage1, r
<1>17. CASE StartInstall(u)
  <2>1. [me[u] EXCEPT !.pc = "installing"].pc = "installing"
    BY <1>2 DEF Locals
  <2> QED BY <1>4, <1>6, <1>17, <2>1 DEF StartInstall, AfterCleanup
<1>18. CASE InstallOk(u)
  BY <1>18, InstallKnows
<1>19. CASE StoreInstalled(u) \/ StoreFailed(u)
  <2>1. me' = [me EXCEPT ![u] = Off] /\ me[u].pc \in {"done", "fail"}
    BY <1>19 DEF StoreInstalled, StoreFailed
  <2>2. me'[u].pc = "off" /\ \A b \in Actors \ {u} : me'[b] = me[b]
    <3>1. me'[u] = Off /\ \A b \in Actors \ {u} : me'[b] = me[b]
      BY <1>1, <2>1, OtherLocals
    <3> QED BY <3>1 DEF Off
  <2>3. ASSUME NEW s \in UpdateState, Store(u, s), s.installer = None,
               FieldsAgreeIn(s)
        PROVE  RInv'
    <3>1. s.state # "readyToInstall"
      BY <2>3 DEF FieldsAgreeIn
    <3> QED BY <1>1, <2>1, <2>2, <2>3, <3>1, KnowsStore
  <2>4. Fresh \in UpdateState /\ FieldsAgreeIn(Fresh) /\ Fresh.installer = None
    BY DEF Fresh, UpdateState, States, FieldsAgreeIn
  <2>5. me[u].st \in UpdateState /\ FieldsAgreeIn(me[u].st)
    BY <1>2 DEF Locals, LocalOK
  <2>6. me[u].pc = "fail" => me[u].st.installer = None
    BY <1>2 DEF LocalOK
  <2> QED BY <1>19, <2>3, <2>4, <2>5, <2>6 DEF StoreInstalled, StoreFailed
<1>20. CASE ObtainThrows(u)
  <2>1. raced' /\ UNCHANGED runner /\ me' = [me EXCEPT ![u] = Off]
    BY <1>20 DEF ObtainThrows, CleanupFails, Ghosts
  <2>2. \A b \in Actors \ {u} : me'[b] = me[b]
    BY <1>1, <2>1, OtherLocals
  <2> QED BY <1>1, <2>1, <2>2, RacedKnows
<1> QED BY <1>8, <1>9, <1>10, <1>11, <1>12, <1>13, <1>14, <1>15, <1>16,
           <1>17, <1>18, <1>19, <1>20 DEF Updater

LEMMA NextKnows == IInv /\ RInv /\ [Next]_vars => (IInv /\ RInv)'
<1> SUFFICES ASSUME IInv, RInv, [Next]_vars
             PROVE  (IInv /\ RInv)'
  OBVIOUS
<1>1. IInv'
  BY NextInv
<1>2. CASE Release \/ StartRunner \/ RunnerExit \/ Shutdown
  BY <1>1, <1>2, WorldKnows
<1>3. CASE Startup
  BY <1>1, <1>3, StartupKnows
<1>4. CASE Periodic
  BY <1>1, <1>4, FetchKnows, WorkerKnows DEF Periodic
<1>5. CASE Check \/ CheckForUpdates
  BY <1>1, <1>5, FetchKnows, WorkerKnows DEF Check
<1>6. CASE \E u \in Updaters : UpdateNow(u) \/ Updater(u)
  BY <1>1, <1>6, UpdaterKnows
<1>7. CASE UNCHANGED vars
  <2>1. UNCHANGED <<file, disk, installed, runner, me, stale, dirty, raced>>
    BY <1>7 DEF vars, ghost
  <2>2. RInv'
    BY <2>1 DEF RInv, Knows, Ready, ReadyIsDownloaded
  <2> QED BY <1>1, <2>2
<1> QED BY <1>1, <1>2, <1>3, <1>4, <1>5, <1>6, <1>7 DEF Next

\* Unless something raced, "ready to install" is true whenever nobody is
\* between a clean-up and the store that makes up for it, for any number of
\* releases and of updater processes.
THEOREM ReadyIsThere == Spec => []ReadyIsDownloaded
<1>1. Init => IInv /\ RInv
  BY InitInv, KnowsInit
<1>2. IInv /\ RInv => ReadyIsDownloaded
  BY DEF RInv, ReadyIsDownloaded
<1> QED BY <1>1, <1>2, NextKnows, PTL DEF Spec
=============================================================================
