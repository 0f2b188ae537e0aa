---------------------------- MODULE PowerRename ----------------------------
(***************************************************************************)
(* CPowerRenameManager (PowerRenameManager.cpp) with the window that       *)
(* drives it (MainWindow.xaml.cpp).  The main thread keeps a preview of    *)
(* the new names up to date: every change of the terms or flags cancels    *)
(* the running preview thread, waits for its end and starts another.  A    *)
(* rename waits for the preview, hands the items to a file operation       *)
(* thread, deepest first, and pumps messages until that thread has ended.  *)
(*                                                                         *)
(* A search and a replace term are one value here and so is a name; what   *)
(* Replace makes of the name of an item is a constant, so the counters a   *)
(* replace term may contain are left out.  Names that must not be used     *)
(* (invalid characters, too long) are the set Refused.                     *)
(***************************************************************************)
EXTENDS Naturals, Sequences, FiniteSets

CONSTANTS
    NItems,       \* the items are 1 .. NItems, in the order of their ids
    Depth,        \* folders above each item that are items themselves
    Folders,      \* the items that are folders
    CanRename,    \* the items the shell lets be renamed
    Names,        \* file names
    Names0,       \* the name each item starts with
    None,         \* no new name
    EmptyName,    \* the name of no characters
    Terms,        \* pairs of a search and a replace term
    Term0,        \* the empty ones
    Invalid,      \* terms whose regular expression throws
    TimeTerms,    \* terms that use the file time
    Replace,      \* what a term and flags make of the name of an item, or None
    Refused,      \* names that are shown but not given to a file
    MadeUp,       \* the name the shell finds for an item when a name is taken
    FlagSets,     \* the combinations of the flags that exclude items
    MaxChanges,   \* bound on the changes of terms, flags and selection
    MaxRenames,   \* bound on the rename operations
    MaxPumps,     \* bound on those on the stack of the main thread at once
    CreateMayFail \* CreateThread may fail

Items == 1 .. NItems

ASSUME PowerRenameAssumption ==
    /\ NItems \in Nat \ {0}
    /\ Depth \in [Items -> Nat] /\ Folders \subseteq Items
    /\ Depth[1] = 0                              \* _ParseEnumItems adds a folder,
    /\ \A i \in 2 .. NItems :                    \* then what is in it
         Depth[i] <= Depth[i - 1] + (IF i - 1 \in Folders THEN 1 ELSE 0)
    /\ CanRename \subseteq Items
    /\ Names0 \in [Items -> Names] /\ None \notin Names
    /\ Term0 \in Terms /\ Invalid \subseteq Terms /\ TimeTerms \subseteq Terms
    /\ {} \in FlagSets
    /\ MaxChanges \in Nat /\ MaxRenames \in Nat /\ MaxPumps \in Nat
    /\ CreateMayFail \in BOOLEAN

ASSUME NamesAssumption ==
    /\ FlagSets \subseteq SUBSET {"ExcludeFolders", "ExcludeFiles", "ExcludeSubfolders",
                                "ExtensionOnly"}
    /\ Replace \in [Terms -> [FlagSets -> [Items -> [Names -> Names \cup {None}]]]]
    /\ MadeUp \in [Items -> [Names -> Names]]
    /\ Refused \subseteq Names

NewNames == Names \cup {None}

\* Handles of preview threads: the second one is never needed if the first
\* thread is always waited for
Workers  == {1, 2}
Renames  == 1 .. MaxRenames

VARIABLES
    term, flags,     \* in the text boxes, the CPowerRenameRegEx and the manager
    selected,        \* the check boxes of the items
    originalName, newName, path,
    status,          \* m_status: whether the new name may be used
    disk,            \* the name each item has in the file system
    startRegEx, cancelRegEx, startFileOp,   \* manual reset events
    reentrancy,      \* m_critsecReentrancy: free or entered by the main thread
    worker,          \* the preview threads
    regExHandle,     \* m_regExWorkerThreadHandle, 0 is nullptr
    outcome,         \* how the last preview thread ended
    renamer,         \* the file operation threads
    fileOpHandle,    \* m_fileOpWorkerThreadHandle
    main,            \* where the main thread is
    previews,        \* calls of _PerformRegExRename it still has to make
    pumps,           \* _PerformFileOperation calls on its stack
    closeUI,         \* m_closeUIWindowAfterRenaming
    button,          \* whether the rename button is enabled
    posted,          \* messages in its queue that call UpdateCounts
    changes, renames,
    overlapped,      \* Rename was called from the message loop of another one
    failed           \* the shell has left out an operation, or used another name

input  == <<term, flags, selected, changes>>
items  == <<originalName, newName, path, status, disk>>
events == <<startRegEx, cancelRegEx, startFileOp, reentrancy>>
regex  == <<worker, regExHandle, outcome>>
fileop == <<renamer, fileOpHandle, renames, overlapped, failed>>
ui     == <<main, previews, pumps, closeUI, button, posted>>
vars   == <<input, items, events, regex, fileop, ui>>

-----------------------------------------------------------------------------
\* Paths are sequences of names, from the folder of the first layer down

Ancestor(i, d) == CHOOSE j \in 1 .. i : Depth[j] = d /\ \A k \in j + 1 .. i : Depth[k] > d

DiskPath(i) == [d \in 1 .. Depth[i] + 1 |-> disk[Ancestor(i, d - 1)]]

\* The items below folder i
Children(i) == {j \in i + 1 .. NItems : \A k \in i + 1 .. j : Depth[k] > Depth[i]}

\* The other items of the folder that item i is in
Siblings(i) ==
    {j \in Items \ {i} : Depth[j] = Depth[i] /\
         \A d \in 0 .. Depth[i] - 1 : Ancestor(j, d) = Ancestor(i, d)}

\* The files that may be found by the path of item i: its own, or else that of
\* another item or, after the shell has used another name, no item's (0)
Found(i) ==
    IF path[i] = DiskPath(i) THEN {i}
    ELSE {j \in Items : DiskPath(j) = path[i]} \cup (IF failed THEN {0} ELSE {})

IsExcluded(i, f) ==
    \/ i \in Folders /\ "ExcludeFolders" \in f
    \/ i \notin Folders /\ "ExcludeFiles" \in f
    \/ Depth[i] > 0 /\ "ExcludeSubfolders" \in f

\* DoRename leaves out folders for ExtensionOnly, too
IsSkipped(i, f) == IsExcluded(i, f) \/ (i \in Folders /\ "ExtensionOnly" \in f)

ShouldRenameItem(i, f) ==
    /\ i \in selected \cap CanRename
    /\ newName[i] \notin {None, EmptyName, originalName[i]}
    /\ ~IsExcluded(i, f)
    /\ status[i] = "ShouldRename"

\* GetRenameItemCount > 0, after which the button is enabled
AnyToRename == \E i \in Items : ShouldRenameItem(i, flags)

\* What DoRename makes of item i
Preview(i) ==
    LET name == Replace[term][flags][i][originalName[i]]
    IN  IF IsSkipped(i, flags) \/ name = originalName[i] THEN None ELSE name

\* Where a preview thread is, its item and the name it has computed
PreviewThread == [pc : {"none", "start", "test", "compute", "status", "refuse", "put", "self"},
                  next : 1 .. NItems + 1, name : NewNames]

\* Where a file operation thread is, the items it has left, what it has read
\* from the manager, and what it has queued for the shell: the name and the
\* file found for each item
FileOpThread == [pc : {"none", "start", "wait", "test", "queue", "update", "ended"},
                 todo : SUBSET Items, keep : BOOLEAN, flags : FlagSets,
                 queued : [Items -> NewNames], file : [Items -> Items \cup {0}]]

TypeOK ==
    /\ term \in Terms /\ flags \in FlagSets /\ selected \subseteq Items
    /\ originalName \in [Items -> Names] /\ newName \in [Items -> NewNames]
    /\ path \in [Items -> Seq(Names)] /\ (\A i \in Items : Len(path[i]) = Depth[i] + 1)
    /\ status \in [Items -> {"Init", "ShouldRename", "Refused"}]
    /\ disk \in [Items -> Names]
    /\ startRegEx \in BOOLEAN /\ cancelRegEx \in BOOLEAN /\ startFileOp \in BOOLEAN
    /\ reentrancy \in {"free", "main"}
    /\ worker \in [Workers -> PreviewThread]
    /\ regExHandle \in Workers \cup {0}
    /\ outcome \in {"none", "running", "completed", "canceled", "threw", "failed"}
    /\ renamer \in [Renames -> FileOpThread]
    /\ fileOpHandle \in Renames \cup {0}
    /\ main \in {"ui", "enter", "start", "cancel", "wait", "create", "reset", "signal",
                 "renameWait", "renameCreate", "renameSignal", "closed", "crashed"}
    /\ previews \in 0 .. 2 /\ pumps \in Nat
    /\ closeUI \in BOOLEAN /\ button \in BOOLEAN /\ posted \in Nat
    /\ changes \in 0 .. MaxChanges /\ renames \in 0 .. MaxRenames
    /\ overlapped \in BOOLEAN /\ failed \in BOOLEAN

NoWorker  == [pc |-> "none", next |-> 1, name |-> None]
NoRenamer == [pc |-> "none", todo |-> {}, keep |-> FALSE, flags |-> {},
              queued |-> [i \in Items |-> None], file |-> [i \in Items |-> 0]]

Init ==
    /\ term = Term0 /\ flags = {} /\ selected = Items
    /\ originalName = Names0 /\ newName = [i \in Items |-> None] /\ disk = Names0
    /\ status = [i \in Items |-> "Init"]
    /\ path = [i \in Items |-> [d \in 1 .. Depth[i] + 1 |-> Names0[Ancestor(i, d - 1)]]]
    /\ startRegEx = FALSE /\ cancelRegEx = FALSE /\ startFileOp = FALSE
    /\ reentrancy = "free"
    /\ worker = [w \in Workers |-> NoWorker] /\ regExHandle = 0 /\ outcome = "none"
    /\ renamer = [r \in Renames |-> NoRenamer] /\ fileOpHandle = 0
    /\ main = "ui" /\ previews = 0 /\ pumps = 0
    /\ closeUI = FALSE /\ button = FALSE /\ posted = 0
    /\ changes = 0 /\ renames = 0 /\ overlapped = FALSE /\ failed = FALSE

-----------------------------------------------------------------------------
\* The main thread: what the user does, and messages of the other threads.
\* All of it may come while a rename pumps messages.

StartPreviews(n) == previews' = n /\ main' = "enter"

Change ==
    /\ main = "ui" /\ changes < MaxChanges
    /\ changes' = changes + 1

\* TextChanged, SearchReplaceChanged, PutSearchTerm or PutReplaceTerm
TypeTerm(t) ==
    /\ Change /\ t # term
    /\ term' = t
    /\ StartPreviews(1)
    /\ UNCHANGED <<flags, selected, items, events, regex, fileop, pumps, closeUI, button, posted>>

\* UpdateFlag, PutFlags, OnFlagsChanged
PutFlags(f) ==
    /\ Change /\ f # flags
    /\ flags' = f
    /\ StartPreviews(1)
    /\ UNCHANGED <<term, selected, items, events, regex, fileop, pumps, closeUI, button, posted>>

ToggleItem(i) ==
    /\ Change
    /\ selected' = (selected \cup {i}) \ (selected \cap {i})
    /\ UNCHANGED <<term, flags, items, events, regex, fileop, main, previews, pumps, closeUI, posted>>
    /\ button' = AnyToRename'

\* OnRegExCompleted and OnRename of the window
UpdateCounts ==
    /\ main = "ui" /\ posted > 0
    /\ posted' = posted - 1
    /\ button' = AnyToRename
    /\ UNCHANGED <<input, items, events, regex, fileop, main, previews, pumps, closeUI>>

\* Rename and the first lines of _PerformFileOperation
Rename(close) ==
    /\ main = "ui" /\ button /\ renames < MaxRenames /\ pumps < MaxPumps
    /\ closeUI' = close
    /\ main' = IF AnyToRename THEN "renameWait" ELSE "ui"
    /\ renames' = renames + 1
    /\ overlapped' = (overlapped \/ pumps > 0)
    /\ UNCHANGED <<input, items, events, regex, renamer, fileOpHandle, failed,
                   previews, pumps, button, posted>>

-----------------------------------------------------------------------------
\* _PerformRegExRename

\* TryEnterCriticalSection succeeds for the owner; nothing ever leaves
TryEnter ==
    /\ main = "enter"
    /\ reentrancy' = "main"
    /\ main' = "start"
    /\ UNCHANGED <<input, items, startRegEx, cancelRegEx, startFileOp, regex, fileop,
                   previews, pumps, closeUI, button, posted>>

CancelStarts ==
    /\ main = "start"
    /\ startRegEx' = TRUE
    /\ main' = "cancel"
    /\ UNCHANGED <<input, items, cancelRegEx, startFileOp, reentrancy, regex, fileop,
                   previews, pumps, closeUI, button, posted>>

Cancel ==
    /\ main = "cancel"
    /\ cancelRegEx' = TRUE
    /\ main' = "wait"
    /\ UNCHANGED <<input, items, startRegEx, startFileOp, reentrancy, regex, fileop,
                   previews, pumps, closeUI, button, posted>>

Running(w) == worker[w].pc # "none"

WaitForRegExWorkerThread_Polls(at, then) ==
    /\ main = at
    /\ regExHandle' = 0
    /\ main' = then
    /\ UNCHANGED <<input, items, events, worker, outcome, fileop,
                   previews, pumps, closeUI, button, posted>>

WaitForRegExWorkerThread(at, then) ==
    /\ main = at
    /\ regExHandle # 0 => ~Running(regExHandle)
    /\ regExHandle' = 0
    /\ main' = then
    /\ UNCHANGED <<input, items, events, worker, outcome, fileop,
                   previews, pumps, closeUI, button, posted>>

NextPreview_OneMore ==
    /\ previews' = previews - 1
    /\ main' = IF previews > 0 THEN "enter" ELSE "ui"

NextPreview ==
    /\ previews' = previews - 1
    /\ main' = IF previews > 1 THEN "enter" ELSE "ui"

CreateRegExWorkerThread ==
    /\ main = "create"
    /\ \/ \E w \in Workers :
            /\ ~Running(w) /\ \A v \in Workers : v < w => Running(v)
            /\ worker' = [worker EXCEPT ![w] = [NoWorker EXCEPT !.pc = "start"]]
            /\ regExHandle' = w
            /\ outcome' = "running"
            /\ main' = "reset" /\ UNCHANGED previews
       \/ /\ CreateMayFail
          /\ outcome' = "failed"
          /\ NextPreview
          /\ UNCHANGED <<worker, regExHandle>>
    /\ UNCHANGED <<input, items, events, fileop, pumps, closeUI, button, posted>>

ResetCancel ==
    /\ main = "reset"
    /\ cancelRegEx' = FALSE
    /\ main' = "signal"
    /\ UNCHANGED <<input, items, startRegEx, startFileOp, reentrancy, regex, fileop,
                   previews, pumps, closeUI, button, posted>>

SignalStart_Leaves ==
    /\ main = "signal"
    /\ startRegEx' = TRUE
    /\ reentrancy' = "free"
    /\ NextPreview
    /\ UNCHANGED <<input, items, cancelRegEx, startFileOp, regex, fileop,
                   pumps, closeUI, button, posted>>

SignalStart ==
    /\ main = "signal"
    /\ startRegEx' = TRUE
    /\ NextPreview
    /\ UNCHANGED <<input, items, cancelRegEx, startFileOp, reentrancy, regex, fileop,
                   pumps, closeUI, button, posted>>

-----------------------------------------------------------------------------
\* s_regexWorkerThread

WorkerVars == <<input, path, originalName, disk, events, regExHandle, fileop,
                main, previews, pumps, closeUI, button>>

WorkerStarts(w) ==
    /\ worker[w].pc = "start" /\ startRegEx
    /\ worker' = [worker EXCEPT ![w].pc = "test"]
    /\ UNCHANGED <<newName, status, outcome, posted, WorkerVars>>

\* SRM_REGEX_CANCELED does nothing in the window, SRM_REGEX_COMPLETE follows it
WorkerEnds(w, how) ==
    /\ worker' = [worker EXCEPT ![w] = NoWorker]
    /\ outcome' = how
    /\ posted' = posted + 1
    /\ UNCHANGED <<newName, status>>

WorkerTests(w) ==
    /\ worker[w].pc = "test"
    /\ \/ /\ worker[w].next > NItems
          /\ WorkerEnds(w, "completed")
       \/ /\ worker[w].next <= NItems /\ cancelRegEx
          /\ WorkerEnds(w, "canceled")
       \/ /\ worker[w].next <= NItems /\ ~cancelRegEx
          /\ worker' = [worker EXCEPT ![w].pc = "compute"]
          /\ UNCHANGED <<newName, status, outcome, posted>>
    /\ UNCHANGED WorkerVars

\* DoRename up to PutStatus, which an item that is left out does without.
\* PutFileTime and ResetFileTime tell the manager, which would cancel, and wait
\* for, this very thread if it got past TryEnterCriticalSection.  GetTime
\* throws if the file cannot be opened.
WorkerComputes(w) ==
    LET i == worker[w].next
        skipped  == IsSkipped(i, flags)
        usesTime == term \in TimeTerms /\ ~skipped
        invalid  == term \in Invalid /\ ~skipped
    IN  /\ worker[w].pc = "compute"
        /\ \/ /\ usesTime /\ reentrancy = "free"
              /\ worker' = [worker EXCEPT ![w].pc = "self"]
              /\ UNCHANGED outcome
           \/ /\ usesTime \/ invalid
              /\ worker' = [worker EXCEPT ![w] = NoWorker]
              /\ outcome' = "threw"
           \/ /\ ~(usesTime /\ reentrancy = "free")
              /\ ~invalid
              /\ worker' = [worker EXCEPT ![w].pc = IF skipped THEN "put" ELSE "status",
                                          ![w].name = Preview(i)]
              /\ UNCHANGED outcome
        /\ UNCHANGED <<newName, status, posted, WorkerVars>>

\* PutStatus, twice for a name that must not be used
WorkerSetsStatus(w) ==
    LET refuses == worker[w].pc = "refuse"
    IN  /\ worker[w].pc \in {"status", "refuse"}
        /\ status' = [status EXCEPT ![worker[w].next] =
                         IF refuses THEN "Refused" ELSE "ShouldRename"]
        /\ worker' = [worker EXCEPT ![w].pc =
                         IF worker[w].name \in Refused /\ ~refuses THEN "refuse" ELSE "put"]
        /\ UNCHANGED <<newName, outcome, posted, WorkerVars>>

WorkerPuts_KeepsName(w) ==
    /\ worker[w].pc = "put"
    /\ newName' = IF worker[w].name = None THEN newName
                  ELSE [newName EXCEPT ![worker[w].next] = worker[w].name]
    /\ worker' = [worker EXCEPT ![w].pc = "test", ![w].next = @ + 1, ![w].name = None]
    /\ UNCHANGED <<status, outcome, posted, WorkerVars>>

WorkerPuts(w) ==
    /\ worker[w].pc = "put"
    /\ newName' = [newName EXCEPT ![worker[w].next] = worker[w].name]
    /\ worker' = [worker EXCEPT ![w].pc = "test", ![w].next = @ + 1, ![w].name = None]
    /\ UNCHANGED <<status, outcome, posted, WorkerVars>>

-----------------------------------------------------------------------------
\* _PerformFileOperation once the preview thread has ended

CreateFileOpWorkerThread ==
    /\ main = "renameCreate"
    /\ \/ \E r \in Renames :
            /\ r = renames
            /\ renamer' = [renamer EXCEPT ![r].pc = "start"]
            /\ fileOpHandle' = r
            /\ main' = "renameSignal"
       \/ /\ CreateMayFail
          /\ main' = "ui"
          /\ UNCHANGED <<renamer, fileOpHandle>>
    /\ UNCHANGED <<input, items, events, regex, renames, overlapped, failed,
                   previews, pumps, closeUI, button, posted>>

SignalFileOp ==
    /\ main = "renameSignal"
    /\ startFileOp' = TRUE
    /\ pumps' = pumps + 1
    /\ main' = "ui"
    /\ UNCHANGED <<input, items, startRegEx, cancelRegEx, reentrancy, regex, fileop,
                   previews, closeUI, button, posted>>

\* The loop ends with the thread whose handle was stored last.  The window is
\* closed, or shows the renamed items and previews them twice.
RenameCompleted ==
    /\ main = "ui" /\ pumps > 0 /\ renamer[fileOpHandle].pc = "ended"
    /\ pumps' = pumps - 1
    /\ IF closeUI THEN main' = "closed" /\ UNCHANGED previews
                  ELSE StartPreviews(2)
    /\ UNCHANGED <<input, items, events, regex, fileop, closeUI, button, posted>>

-----------------------------------------------------------------------------
\* s_fileOpWorkerThread

RenamerVars == <<input, events, regex, fileOpHandle, renames, overlapped, previews, pumps,
                 closeUI, button>>

RenamerReads(r) ==
    /\ renamer[r].pc = "start"
    /\ renamer' = [renamer EXCEPT ![r].pc = "wait", ![r].keep = ~closeUI]
    /\ UNCHANGED <<items, failed, main, posted, RenamerVars>>


\* It was given the start event of the preview thread
RenamerStarts(r) ==
    /\ renamer[r].pc = "wait" /\ startRegEx
    /\ renamer' = [renamer EXCEPT ![r].pc = "test", ![r].todo = Items, ![r].flags = flags]
    /\ UNCHANGED <<items, failed, main, posted, RenamerVars>>

\* The rows of the matrix from the greatest depth up
IsNext(r, i) ==
    \A j \in renamer[r].todo : Depth[i] > Depth[j] \/ (Depth[i] = Depth[j] /\ i <= j)

RenamerTests(r) ==
    \E i \in renamer[r].todo :
        /\ renamer[r].pc = "test" /\ IsNext(r, i)
        /\ renamer' = IF ShouldRenameItem(i, renamer[r].flags)
                      THEN [renamer EXCEPT ![r].pc = "queue"]
                      ELSE [renamer EXCEPT ![r].todo = @ \ {i}]
        /\ UNCHANGED <<items, failed, main, posted, RenamerVars>>

Leaves(t, i) == [t EXCEPT !.pc = "test", !.todo = @ \ {i}]

\* RenameItem with the name that GetNewName gave, for file j
Queued(t, i, j) == [t EXCEPT !.queued[i] = newName[i], !.file[i] = j]

\* GetNewName, GetShellItem and RenameItem.  The shell item is found by the
\* path the item has, in the file system as it is.  A name that was reset in
\* the meantime is a null pointer, which std::wstring does not survive.
RenamerQueues(r) ==
    \E i \in renamer[r].todo :
        /\ renamer[r].pc = "queue" /\ IsNext(r, i)
        /\ \/ /\ Found(i) \subseteq {0} \/ (newName[i] = None /\ ~renamer[r].keep)
              /\ renamer' = [renamer EXCEPT ![r] = Leaves(@, i)]
              /\ UNCHANGED <<path, originalName, main>>
           \/ /\ Found(i) # {} /\ newName[i] = None /\ renamer[r].keep
              /\ main' = "crashed"
              /\ UNCHANGED <<renamer, path, originalName>>
           \/ \E j \in Found(i) :
              /\ newName[i] # None
              /\ IF renamer[r].keep
                 THEN /\ renamer' = [renamer EXCEPT ![r] = [Queued(@, i, j) EXCEPT !.pc = "update"]]
                      /\ path' = [path EXCEPT ![i][Depth[i] + 1] = newName[i]]
                      /\ originalName' = [originalName EXCEPT ![i] = newName[i]]
                 ELSE /\ renamer' = [renamer EXCEPT ![r] = Leaves(Queued(@, i, j), i)]
                      /\ UNCHANGED <<path, originalName>>
              /\ UNCHANGED main
        /\ UNCHANGED <<newName, status, disk, failed, posted, RenamerVars>>

UpdateChildrenPath_Forgotten(i) == path

UpdateChildrenPath(i) ==
    [j \in Items |-> IF i \in Folders /\ j \in Children(i)
                     THEN path[i] \o SubSeq(path[j], Depth[i] + 2, Depth[j] + 1)
                     ELSE path[j]]

RenamerUpdates(r) ==
    \E i \in renamer[r].todo :
        /\ renamer[r].pc = "update" /\ IsNext(r, i)
        /\ newName' = [newName EXCEPT ![i] = None]
        /\ path' = UpdateChildrenPath(i)
        /\ posted' = posted + 1
        /\ renamer' = [renamer EXCEPT ![r] = Leaves(@, i)]
        /\ UNCHANGED <<originalName, status, disk, failed, main, RenamerVars>>

\* The shell carries out what was queued, or part of it.  With
\* FOF_RENAMEONCOLLISION a file whose new name is taken, by the file of another
\* item or by one that is no item, gets a name the shell makes up.
PerformOperations(queued, file) ==
    /\ \E done \in SUBSET {i \in Items : queued[i] # None /\ file[i] # 0} :
       \E taken \in SUBSET done :
       LET name == [i \in done |-> IF i \in taken THEN MadeUp[i][queued[i]] ELSE queued[i]]
       IN  /\ \A i, k \in done : file[i] = file[k] => i = k
           /\ disk' = [j \in Items |-> IF \E i \in done : file[i] = j
                                      THEN name[CHOOSE i \in done : file[i] = j] ELSE disk[j]]
           /\ \A i \in done : \A j \in Siblings(file[i]) :      \* in the order of the queue
                name[i] # (IF j < file[i] THEN disk'[j] ELSE disk[j])
    /\ failed' = (failed \/ \E i \in Items :
                    disk'[i] # IF queued[i] # None THEN queued[i] ELSE disk[i])

RenamerPerforms(r) ==
    /\ renamer[r].pc = "test" /\ renamer[r].todo = {}
    /\ PerformOperations(renamer[r].queued, renamer[r].file)
    /\ renamer' = [renamer EXCEPT ![r].pc = "ended"]
    /\ UNCHANGED <<originalName, newName, path, status, main, posted, RenamerVars>>

-----------------------------------------------------------------------------
UserStep ==
    \/ \E t \in Terms : TypeTerm(t)
    \/ \E f \in FlagSets : PutFlags(f)
    \/ \E i \in Items : ToggleItem(i)
    \/ \E close \in BOOLEAN : Rename(close)

MainStep ==
    \/ UpdateCounts
    \/ TryEnter \/ CancelStarts \/ Cancel
    \/ WaitForRegExWorkerThread("wait", "create")
    \/ CreateRegExWorkerThread \/ ResetCancel \/ SignalStart
    \/ WaitForRegExWorkerThread("renameWait", "renameCreate")
    \/ CreateFileOpWorkerThread \/ SignalFileOp \/ RenameCompleted

WorkerStep(w) ==
    WorkerStarts(w) \/ WorkerTests(w) \/ WorkerComputes(w) \/ WorkerSetsStatus(w) \/ WorkerPuts(w)

RenamerStep(r) ==
    \/ RenamerReads(r) \/ RenamerStarts(r) \/ RenamerTests(r)
    \/ RenamerQueues(r) \/ RenamerUpdates(r) \/ RenamerPerforms(r)

\* The threads end with the process
Alive == main \notin {"closed", "crashed"}

Next ==
    /\ Alive
    /\ \/ UserStep \/ MainStep
       \/ \E w \in Workers : WorkerStep(w)
       \/ \E r \in Renames : RenamerStep(r)

Spec == Init /\ [][Next]_vars

\* The threads run, the main thread handles its messages and looks at the
\* handle of the file operation thread over and over; nothing makes the user
\* do anything.
FairSpec ==
    /\ Spec
    /\ WF_vars(Alive /\ MainStep)
    /\ WF_vars(Alive /\ RenameCompleted)
    /\ \A w \in Workers : WF_vars(Alive /\ WorkerStep(w))
    /\ \A r \in Renames : WF_vars(Alive /\ RenamerStep(r))

-----------------------------------------------------------------------------
\* Nothing to do but wait for the user
Quiet == main = "ui" /\ pumps = 0

\* There is one preview thread at a time: _CancelRegExWorkerThread waits for
\* the thread whose handle it has, and a new handle is stored only after that.
OneWorker == \A v, w \in Workers : Running(v) /\ Running(w) => v = w

\* A preview thread never gets past TryEnterCriticalSection in
\* _PerformRegExRename, which DoRename reaches through PutFileTime: it would
\* wait there for its own end, and the main thread for it.
NoSelfWait == \A w \in Workers : worker[w].pc # "self"

\* The status of an item with a new name is that of the name.
StatusFits(i) ==
    newName[i] # None =>
        status[i] = IF newName[i] \in Refused THEN "Refused" ELSE "ShouldRename"

\* When the last preview thread has gone through all items every new name is
\* the one that the present terms and flags make of the present name, and its
\* status says whether it may be used, however the changes and cancellations
\* before, and a rename, have interleaved.  Once its messages are handled the
\* button is enabled just when there is something to rename.
CompletedIsCurrent ==
    Quiet /\ outcome = "completed" /\ ~overlapped =>
        /\ \A i \in Items : newName[i] = Preview(i) /\ StatusFits(i)
        /\ posted = 0 => button = AnyToRename

\* As long as the shell has carried out every rename under the name it was
\* given, every item has the path of its file when the rename is over, those
\* below renamed folders included; and so has, during the rename, each item
\* whose turn it is: its shell item is found, as no new name is in its path
\* that the shell does not know of yet.  (A name that is taken makes the shell
\* use another one, of which the manager does not learn.)
PathsOnDisk ==
    ~failed /\ ~overlapped =>
        /\ Quiet => \A i \in Items : path[i] = DiskPath(i)
        /\ \A r \in Renames : \A i \in renamer[r].todo :
             renamer[r].pc = "queue" /\ IsNext(r, i) => path[i] = DiskPath(i)

=============================================================================
