------------------------------ MODULE Launcher ------------------------------
(***************************************************************************)
(* The queries of PowerToys Run and the list of their results              *)
(* (MainViewModel.QueryResults).                                           *)
(*                                                                         *)
(* The UI thread starts a task for each query, after it has cancelled the  *)
(* token of the one before.  The task asks every plugin at once, fills the *)
(* list, and then asks the slow plugins again, each on a thread of its own.*)
(* The list is filled and cleared under _addResultsLock; the UI thread     *)
(* takes no lock to cancel a token or to replace the current query, and    *)
(* the final sort takes none either.                                       *)
(*                                                                         *)
(* Results are told apart by query, plugin and speed.  A sort takes out    *)
(* results of the history that another plugin has as well; since it looks  *)
(* at each by itself, the results of the history stand here for one.       *)
(* The order of results and the selected item are left out.                *)
(***************************************************************************)
EXTENDS Naturals, Sequences, FiniteSets

CONSTANTS Plugins,
          SlowPlugins,   \* IDelayedExecutionPlugin
          Texts,         \* what is typed, without regard to case
          Empty,         \* _emptyQuery
          KeywordPlugins,\* those whose action keyword a text begins with
          GlobalPlugins, \* those that answer to texts without a keyword
          History,       \* the plugin of that name
          Repeats,       \* at which speed a plugin finds what is in the history
          Tunings,       \* combinations of settings
          MaxQueries,    \* queries that are made
          MaxClears      \* empty queries whose clean-up is still to come

\* noGlobals: every global plugin is disabled
Tuning == {"finalSort", "sequential", "noGlobals"}

ASSUME LauncherAssumption ==
    /\ SlowPlugins \subseteq Plugins /\ GlobalPlugins \subseteq Plugins
    /\ History \subseteq Plugins /\ Repeats \in [Plugins -> SUBSET {"fast", "slow"}]
    /\ KeywordPlugins \in [Texts -> SUBSET Plugins]
    /\ Empty \in Texts /\ KeywordPlugins[Empty] = {}
    /\ Tunings \subseteq SUBSET Tuning
    /\ MaxQueries \in Nat /\ MaxClears \in Nat

Queries == 1..MaxQueries
Locks   == {<<>>} \cup {<<q>> : q \in Queries} \cup (Queries \X Plugins)
Batch   == [query: Queries, plugin: Plugins, speed: {"fast", "slow"}]

VARIABLES
    currentQuery,
    source,      \* the query whose token _updateSource is, 0 if there is none
    canceled,    \* queries whose token is cancelled
    settings,
    text,        \* of each query
    delayed,     \* whether it asks the slow plugins, too
    task,        \* what the task of each query does next
    todo,        \* plugins whose results it has not added yet
    fast, slow,  \* plugins that had results for it
    thread,      \* what the threads of the slow plugins do next
    sorted,      \* the copy of the list in the final sort
    lock,        \* _addResultsLock: who is in it, <<>> for nobody
    results,
    clearedBy,   \* the query that last cleared the list, 0 for an empty one
    clears,      \* clean-up tasks of empty queries
    dispatched,  \* calls of UpdateResultsListViewAfterQuery for the UI thread
    shown, visible

ui    == <<currentQuery, source, canceled, settings>>
made  == <<text, delayed>>
found == <<fast, slow>>
list  == <<results, clearedBy>>
view  == <<shown, visible>>
vars  == <<ui, made, task, todo, found, thread, sorted, lock, list, clears,
           dispatched, view>>

TaskStates   == {"none", "start", "query", "lock", "add", "append", "slow",
                 "sort", "clear", "readd", "ended"}
ThreadStates == {"none", "query", "lock", "add", "append", "dispatch", "ended"}

TypeOK ==
    /\ currentQuery \in Texts /\ source \in 0..MaxQueries
    /\ canceled \subseteq Queries /\ settings \in Tunings
    /\ text \in [Queries -> Texts] /\ delayed \in [Queries -> BOOLEAN]
    /\ task \in [Queries -> TaskStates]
    /\ todo \in [Queries -> SUBSET Plugins]
    /\ fast \in [Queries -> SUBSET Plugins] /\ slow \in [Queries -> SUBSET Plugins]
    /\ thread \in [Queries -> [Plugins -> ThreadStates]]
    /\ sorted \in [Queries -> SUBSET Batch]
    /\ lock \in Locks
    /\ results \subseteq Batch /\ clearedBy \in 0..MaxQueries
    /\ clears \in 0..MaxClears
    /\ dispatched \in Seq(Texts)
    /\ shown \subseteq Batch /\ visible \in BOOLEAN

Init ==
    /\ currentQuery = Empty /\ source = 0 /\ canceled = {}
    /\ settings \in Tunings
    /\ text = [q \in Queries |-> Empty] /\ delayed = [q \in Queries |-> FALSE]
    /\ task = [q \in Queries |-> "none"]
    /\ todo = [q \in Queries |-> {}]
    /\ fast = [q \in Queries |-> {}] /\ slow = [q \in Queries |-> {}]
    /\ thread = [q \in Queries |-> [p \in Plugins |-> "none"]]
    /\ sorted = [q \in Queries |-> {}]
    /\ lock = <<>> /\ results = {} /\ clearedBy = 0
    /\ clears = 0 /\ dispatched = <<>> /\ shown = {} /\ visible = FALSE
-----------------------------------------------------------------------------
(* The UI thread. *)

FinalSorts == "finalSort" \in settings

\* QueryBuilder.Build: the global plugins are asked if no keyword matches.
Build(t) == IF KeywordPlugins[t] # {} THEN KeywordPlugins[t]
            ELSE IF "noGlobals" \in settings THEN {} ELSE GlobalPlugins

\* mutant: without the test for null
CancelSource_Always == canceled' = canceled \cup {source}

CancelSource == canceled' = canceled \cup ({source} \ {0})

\* QueryResults of a text that is not empty, though it may consist of spaces.
\* The current query stays if no plugin answers to the text.
QueryResults(t, d) ==
    /\ source < MaxQueries
    /\ CancelSource
    /\ source' = source + 1
    /\ text' = [text EXCEPT ![source'] = t]
    /\ delayed' = [delayed EXCEPT ![source'] = d]
    /\ IF Build(t) # {}
       THEN currentQuery' = t /\ task' = [task EXCEPT ![source'] = "start"]
       ELSE UNCHANGED <<currentQuery, task>>
    /\ UNCHANGED <<settings, todo, found, thread, sorted, lock, list, clears,
                   dispatched, view>>

QueryNothing ==
    /\ clears < MaxClears
    /\ CancelSource
    /\ currentQuery' = Empty
    /\ visible' = FALSE
    /\ clears' = clears + 1
    /\ UNCHANGED <<source, settings, made, task, todo, found, thread, sorted,
                   lock, list, dispatched, shown>>

\* the action that UpdateResultsListViewAfterQuery gives the UI thread
UpdateListView ==
    /\ dispatched # <<>> /\ lock = <<>>
    /\ shown' = IF Head(dispatched) = currentQuery THEN results ELSE shown
    /\ visible' = (results # {})
    /\ dispatched' = Tail(dispatched)
    /\ UNCHANGED <<ui, made, task, todo, found, thread, sorted, lock, list, clears>>
-----------------------------------------------------------------------------
(* The task of a query.  A token is cancelled before its text is replaced,  *)
(* so that a query whose text is not the current one throws at its next     *)
(* test; a test of the text on the way there makes no difference.          *)

Go(q, state) == task' = [task EXCEPT ![q] = state]

\* ThrowIfCancellationRequested: the task ends, and frees the lock if it had it
Throws(q) == q \in canceled /\ Go(q, "ended")

\* A task whose token is cancelled before its start does not run.
Start(q) ==
    /\ task[q] = "start"
    /\ Throws(q) \/ (q \notin canceled /\ Go(q, "query"))
    /\ UNCHANGED <<ui, made, todo, found, thread, sorted, lock, list, clears,
                   dispatched, view>>

\* A plugin has no results for spaces.
MayFind(q) == IF text[q] = Empty THEN {} ELSE Build(text[q])

\* All plugins have answered.  In parallel the exceptions are swallowed.
Answer(q) ==
    /\ task[q] = "query"
    /\ \/ /\ "sequential" \in settings /\ Throws(q)
          /\ UNCHANGED <<todo, fast>>
       \/ /\ "sequential" \in settings => q \notin canceled
          /\ \E ps \in SUBSET MayFind(q) :
               /\ fast' = [fast EXCEPT ![q] = ps]
               /\ todo' = [todo EXCEPT ![q] = ps]
          /\ Go(q, "lock")
    /\ UNCHANGED <<ui, made, slow, thread, sorted, lock, list, clears, dispatched, view>>

\* The token is not tested before the list is cleared, only the text.
TakeLock(q) ==
    /\ task[q] = "lock" /\ lock = <<>>
    /\ IF text[q] = currentQuery
       THEN /\ results' = {} /\ clearedBy' = q
            /\ lock' = <<q>> /\ Go(q, "add")
       ELSE Throws(q) /\ UNCHANGED <<list, lock>>
    /\ UNCHANGED <<ui, made, todo, found, thread, sorted, clears, dispatched, view>>

\* mutant: tests the text alone
CheckResults_TextOnly(q) ==
    /\ task[q] = "add" /\ todo[q] # {}
    /\ IF text[q] = currentQuery THEN Go(q, "append") /\ UNCHANGED lock
                                 ELSE Throws(q) /\ lock' = <<>>
    /\ UNCHANGED <<ui, made, todo, found, thread, sorted, list, clears, dispatched, view>>

\* UpdateResultView tests the token before it makes the results ...
CheckResults(q) ==
    /\ task[q] = "add" /\ todo[q] # {}
    /\ \/ Throws(q) /\ lock' = <<>>
       \/ q \notin canceled /\ Go(q, "append") /\ UNCHANGED lock
    /\ UNCHANGED <<ui, made, todo, found, thread, sorted, list, clears, dispatched, view>>

\* ... and once more for each, but not when it adds them.
AddResults(q) ==
    /\ task[q] = "append"
    /\ \/ Throws(q) /\ lock' = <<>> /\ UNCHANGED <<todo, results>>
       \/ /\ \E p \in todo[q] :
               /\ results' = results \cup {[query |-> q, plugin |-> p, speed |-> "fast"]}
               /\ todo' = [todo EXCEPT ![q] = @ \ {p}]
          /\ Go(q, "add") /\ UNCHANGED lock
    /\ UNCHANGED <<ui, made, found, thread, sorted, clearedBy, clears, dispatched, view>>

\* history items that are in the list as non-history items
Repeated(bs) ==
    {h \in bs : /\ h.plugin \in History
                /\ \E b \in bs : b.plugin \notin History /\ b.speed \in Repeats[b.plugin]}

Sort(bs) == bs \ Repeated(bs)
Sorted   == IF FinalSorts THEN results ELSE Sort(results)

TaskEnds(q) == Go(q, IF FinalSorts THEN "sort" ELSE "ended")

Dispatch(q) ==
    dispatched' = IF FinalSorts THEN dispatched ELSE Append(dispatched, text[q])

\* The list is complete, and sorted; the slow plugins are next.  The token is
\* tested before the sort and after it.
Finish(q) ==
    /\ task[q] = "add" /\ todo[q] = {}
    /\ lock' = <<>>
    /\ \/ Throws(q) /\ results' \in {results, Sorted} /\ UNCHANGED <<thread, dispatched>>
       \/ /\ q \notin canceled
          /\ results' = Sorted
          /\ Dispatch(q)
          /\ IF delayed[q]
             THEN /\ Go(q, "slow")
                  /\ thread' = [thread EXCEPT ![q] =
                       [p \in Plugins |-> IF p \in Build(text[q]) \cap SlowPlugins
                                          THEN "query" ELSE "ended"]]
             ELSE TaskEnds(q) /\ UNCHANGED thread
    /\ UNCHANGED <<ui, made, todo, found, sorted, clearedBy, clears, view>>

\* Parallel.ForEach is over.
SlowFinish(q) ==
    /\ task[q] = "slow" /\ \A p \in Plugins : thread[q][p] = "ended"
    /\ TaskEnds(q)
    /\ UNCHANGED <<ui, made, todo, found, thread, sorted, lock, list, clears,
                   dispatched, view>>
-----------------------------------------------------------------------------
(* The thread of a slow plugin.  An exception ends it alone. *)

Thread(q, p, state) == thread' = [thread EXCEPT ![q][p] = state]
ThreadThrows(q, p)  == q \in canceled /\ Thread(q, p, "ended")

SlowAnswer(q, p) ==
    /\ thread[q][p] = "query"
    /\ \/ ThreadThrows(q, p) /\ UNCHANGED slow
       \/ q \notin canceled /\ Thread(q, p, "ended") /\ UNCHANGED slow
       \/ /\ q \notin canceled /\ p \in MayFind(q) /\ Thread(q, p, "lock")
          /\ slow' = [slow EXCEPT ![q] = @ \cup {p}]
    /\ UNCHANGED <<ui, made, task, todo, fast, sorted, lock, list, clears,
                   dispatched, view>>

\* mutant: what the plugin had stays
SlowRemove_Not(q, p) ==
    /\ thread[q][p] = "lock" /\ lock = <<>>
    /\ \/ ThreadThrows(q, p) /\ UNCHANGED <<lock, results>>
       \/ /\ q \notin canceled /\ Thread(q, p, "add") /\ lock' = <<q, p>>
          /\ results' = results
    /\ UNCHANGED <<ui, made, task, todo, found, sorted, clearedBy, clears,
                   dispatched, view>>

\* The results that the plugin had are replaced.
SlowRemove(q, p) ==
    /\ thread[q][p] = "lock" /\ lock = <<>>
    /\ \/ ThreadThrows(q, p) /\ UNCHANGED <<lock, results>>
       \/ /\ q \notin canceled /\ Thread(q, p, "add") /\ lock' = <<q, p>>
          /\ results' = {b \in results : b.plugin # p}
    /\ UNCHANGED <<ui, made, task, todo, found, sorted, clearedBy, clears,
                   dispatched, view>>

\* mutant: the lock is not freed when the test throws
SlowCheck_Keeps(q, p) ==
    /\ thread[q][p] = "add"
    /\ ThreadThrows(q, p) \/ (q \notin canceled /\ Thread(q, p, "append"))
    /\ UNCHANGED <<ui, made, task, todo, found, sorted, lock, list, clears,
                   dispatched, view>>

SlowCheck(q, p) ==
    /\ thread[q][p] = "add"
    /\ \/ ThreadThrows(q, p) /\ lock' = <<>>
       \/ q \notin canceled /\ Thread(q, p, "append") /\ UNCHANGED lock
    /\ UNCHANGED <<ui, made, task, todo, found, sorted, list, clears,
                   dispatched, view>>

SlowAdd(q, p) ==
    /\ thread[q][p] = "append"
    /\ \/ ThreadThrows(q, p) /\ lock' = <<>> /\ UNCHANGED results
       \/ /\ results' = results \cup {[query |-> q, plugin |-> p, speed |-> "slow"]}
          /\ Thread(q, p, "dispatch") /\ UNCHANGED lock
    /\ UNCHANGED <<ui, made, task, todo, found, sorted, clearedBy, clears,
                   dispatched, view>>

\* mutant: the window is not told
SlowDispatch_Silent(q, p) ==
    /\ thread[q][p] = "dispatch"
    /\ lock' = <<>>
    /\ Thread(q, p, "ended")
    /\ results' = Sorted
    /\ UNCHANGED <<ui, made, task, todo, found, sorted, clearedBy, clears,
                   dispatched, view>>

SlowDispatch(q, p) ==
    /\ thread[q][p] = "dispatch"
    /\ lock' = <<>>
    /\ Thread(q, p, "ended")
    /\ \/ q \in canceled /\ results' \in {results, Sorted} /\ UNCHANGED dispatched
       \/ q \notin canceled /\ results' = Sorted /\ Dispatch(q)
    /\ UNCHANGED <<ui, made, task, todo, found, sorted, clearedBy, clears, view>>

SlowStep(q, p) ==
    \/ SlowAnswer(q, p) \/ SlowRemove(q, p) \/ SlowCheck(q, p)
    \/ SlowAdd(q, p) \/ SlowDispatch(q, p)
-----------------------------------------------------------------------------
(* The final sort and the clean-up of an empty query. *)

\* Somebody else may be changing the list.
ListInUse(q) ==
    \/ clears > 0
    \/ \E r \in Queries \ {q} :
         task[r] \in {"lock", "add", "append", "slow", "clear", "readd"}

\* The continuation of the task does not start once its token is cancelled, and
\* ends when the list changes while it is copied.
SortCopies(q) ==
    /\ task[q] = "sort"
    /\ \/ Throws(q) /\ UNCHANGED sorted
       \/ q \notin canceled /\ ListInUse(q) /\ Go(q, "ended") /\ UNCHANGED sorted
       \/ q \notin canceled /\ Go(q, "clear")
          /\ sorted' = [sorted EXCEPT ![q] = Sort(results)]
    /\ UNCHANGED <<ui, made, todo, found, thread, lock, list, clears,
                   dispatched, view>>

SortClears(q) ==
    /\ task[q] = "clear"
    /\ results' = {}
    /\ Go(q, "readd")
    /\ UNCHANGED <<ui, made, todo, found, thread, sorted, lock, clearedBy, clears,
                   dispatched, view>>

SortAdds(q) ==
    /\ task[q] = "readd"
    /\ results' = results \cup sorted[q]
    /\ dispatched' = Append(dispatched, text[q])
    /\ Go(q, "ended")
    /\ UNCHANGED <<ui, made, todo, found, thread, sorted, lock, clearedBy, clears, view>>

\* mutant: the list is cleared at once
Clear_Unlocked ==
    /\ clears > 0
    /\ results' = {} /\ clearedBy' = 0
    /\ clears' = clears - 1
    /\ UNCHANGED <<ui, made, task, todo, found, thread, sorted, lock, dispatched, view>>

Clear ==
    /\ clears > 0 /\ lock = <<>>
    /\ results' = {} /\ clearedBy' = 0
    /\ clears' = clears - 1
    /\ UNCHANGED <<ui, made, task, todo, found, thread, sorted, lock, dispatched, view>>

TaskStep(q) ==
    \/ Start(q) \/ Answer(q) \/ TakeLock(q) \/ CheckResults(q) \/ AddResults(q)
    \/ Finish(q) \/ SlowFinish(q)
    \/ SortCopies(q) \/ SortClears(q) \/ SortAdds(q)

BackgroundStep == \E q \in Queries : TaskStep(q) \/ \E p \in Plugins : SlowStep(q, p)

Next ==
    \/ \E t \in Texts, d \in BOOLEAN : QueryResults(t, d)
    \/ QueryNothing \/ UpdateListView \/ Clear \/ BackgroundStep

Spec == Init /\ [][Next]_vars

\* The threads of the pool run, and plugins answer; the UI thread does what it
\* was given.
FairSpec == Spec /\ WF_vars(BackgroundStep) /\ WF_vars(UpdateListView) /\ WF_vars(Clear)
-----------------------------------------------------------------------------
(* Properties. *)

Cleared(q) == task[q] \notin {"none", "start", "query", "lock"}

\* Once the latest query has cleared the list there is nothing in it of an
\* earlier one, though the threads of those go on and add what they have found
\* if they have passed their last test of the token.
NothingStale ==
    ~FinalSorts /\ source \notin canceled \cup {0} /\ Cleared(source) =>
        \A b \in results : b.query = source

\* Results of different queries are never mixed, cleared or not.
NeverMixed == ~FinalSorts => \A b, c \in results : b.query = c.query

\* Whatever overtakes what, the list is that of one query, of the latest one once
\* that has cleared it.
OfOneQuery == NothingStale /\ NeverMixed

\* A slow plugin replaces its fast results: none is in the list twice.
OnceEach ==
    ~FinalSorts /\ lock = <<>> => \A b, c \in results : b.plugin = c.plugin => b = c

\* no task runs and the UI thread has nothing to do
Quiet ==
    /\ \A q \in Queries : task[q] \in {"none", "ended"}
    /\ clears = 0 /\ dispatched = <<>>

\* The latest query was not cancelled, and neither an earlier one with the same
\* text nor the clean-up of an empty one has cleared the list after it (lines
\* 656 and 768).
Undisturbed == source > 0 /\ source \notin canceled /\ clearedBy = source

Expected(q) ==
    {[query |-> q, plugin |-> p, speed |-> "slow"] : p \in slow[q]}
      \cup {[query |-> q, plugin |-> p, speed |-> "fast"] : p \in fast[q] \ slow[q]}

FoundElsewhere(q) ==
    \E p \in Plugins \ History :
        \/ p \in fast[q] /\ "fast" \in Repeats[p]
        \/ p \in slow[q] /\ "slow" \in Repeats[p]

\* In the end the list is what the plugins found for the latest query, and the
\* window shows it, and shows itself if there is something in it.  Nothing else
\* is missing than a result of the history that another plugin found as well,
\* which is never in the list beside that.  (It is missing even when the slow
\* results of that plugin, without it, have replaced the fast ones.)
WindowComplete ==
    ~FinalSorts /\ Quiet /\ Undisturbed =>
        /\ results \subseteq Expected(source)
        /\ \A b \in Expected(source) \ results : b.plugin \in History /\ FoundElsewhere(source)
        /\ Repeated(results) = {}
        /\ shown = results /\ visible = (results # {})

\* After an empty query nothing comes back.
EmptyStaysEmpty == ~FinalSorts /\ Quiet /\ currentQuery = Empty => results = {}

\* Everything comes to rest, though all tasks and the UI thread want one lock:
\* every task ends, and the UI thread gets through what it was given.
ComesToRest ==
    <>[](dispatched = <<>> /\ \A q \in Queries : task[q] \in {"none", "ended"})
=============================================================================
