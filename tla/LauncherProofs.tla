--------------------------- MODULE LauncherProofs ---------------------------
(***************************************************************************)
(* Proofs about Launcher: types, what the lock and the tokens achieve      *)
(* together, and that an empty query leaves nothing.                       *)
(***************************************************************************)
EXTENDS Launcher, TLAPS

USE LauncherAssumption DEF Queries

TypeTask   == task \in [Queries -> TaskStates]
TypeThread == thread \in [Queries -> [Plugins -> ThreadStates]]
TypeFound ==
    /\ todo \in [Queries -> SUBSET Plugins]
    /\ fast \in [Queries -> SUBSET Plugins] /\ slow \in [Queries -> SUBSET Plugins]
    /\ sorted \in [Queries -> SUBSET Batch]
TypeLists ==
    /\ lock \in Locks
    /\ results \subseteq Batch /\ clearedBy \in 0..MaxQueries
    /\ clears \in 0..MaxClears
    /\ dispatched \in Seq(Texts)
    /\ shown \subseteq Batch /\ visible \in BOOLEAN
TypeUi ==
    /\ currentQuery \in Texts /\ source \in 0..MaxQueries
    /\ canceled \subseteq Queries /\ settings \in Tunings
    /\ text \in [Queries -> Texts] /\ delayed \in [Queries -> BOOLEAN]

LEMMA TypeParts == TypeOK <=> TypeUi /\ TypeTask /\ TypeThread /\ TypeFound /\ TypeLists
BY DEF TypeOK, TypeUi, TypeTask, TypeThread, TypeFound, TypeLists

(* How the program counters move. *)
LEMMA GoTypes ==
    ASSUME TypeTask, NEW q \in Queries, NEW s \in TaskStates, Go(q, s)
    PROVE  TypeTask' /\ task'[q] = s /\ \A r \in Queries : r # q => task'[r] = task[r]
BY DEF TypeTask, Go

LEMMA ThreadTypes ==
    ASSUME TypeThread, NEW q \in Queries, NEW p \in Plugins, NEW s \in ThreadStates,
           Thread(q, p, s)
    PROVE  /\ TypeThread' /\ thread'[q][p] = s
           /\ \A r \in Queries, o \in Plugins :
                r # q \/ o # p => thread'[r][o] = thread[r][o]
<1>1. thread' = [thread EXCEPT ![q] = [thread[q] EXCEPT ![p] = s]]
  BY DEF Thread
<1>2. thread[q] \in [Plugins -> ThreadStates]
  BY DEF TypeThread
<1> DEFINE mine == [thread[q] EXCEPT ![p] = s]
<1>3. mine \in [Plugins -> ThreadStates] /\ mine[p] = s
      /\ \A o \in Plugins : o # p => mine[o] = thread[q][o]
  BY <1>2
<1> HIDE DEF mine
<1>4. thread' = [thread EXCEPT ![q] = mine]
  BY <1>1 DEF mine
<1> QED
  BY <1>3, <1>4 DEF TypeThread

LEMMA StateTypes ==
    /\ {"none", "start", "query", "lock", "add", "append", "slow", "sort", "clear",
        "readd", "ended"} \subseteq TaskStates
    /\ {"none", "query", "lock", "add", "append", "dispatch", "ended"} \subseteq ThreadStates
BY DEF TaskStates, ThreadStates

LEMMA LockTypes ==
    /\ <<>> \in Locks
    /\ \A q \in Queries : <<q>> \in Locks
    /\ \A q \in Queries, p \in Plugins : <<q, p>> \in Locks
BY DEF Locks

\* What a sort does to a list, and who leaves the lock has done at most that.
LEMMA SortRemoves ==
    ASSUME NEW bs
    PROVE  /\ Sort(bs) \subseteq bs /\ Repeated(Sort(bs)) = {}
           /\ Repeated(bs) = {} => Sort(bs) = bs
BY DEF Sort, Repeated

Thinned == results' \in {results, Sort(results)}

LEMMA ThinnedOnly == Thinned => results' \subseteq results
BY SortRemoves DEF Thinned

LEMMA SortedThins == results' \in {results, Sorted} => Thinned
BY DEF Sorted, Thinned

LEMMA InitTypes == Init => TypeOK
<1> SUFFICES ASSUME Init PROVE TypeOK
  OBVIOUS
<1>1. TypeUi
  BY DEF Init, TypeUi
<1>2. TypeTask /\ TypeThread /\ TypeFound
  BY DEF Init, TypeTask, TypeThread, TypeFound, TaskStates, ThreadStates
<1>3. <<>> \in Seq(Texts)
  OBVIOUS
<1>4. visible \in BOOLEAN
  BY DEF Init
<1>5. TypeLists
  BY <1>3, <1>4, LockTypes DEF Init, TypeLists
<1> QED
  BY <1>1, <1>2, <1>5, TypeParts

(* The UI thread's own variables change only in two actions. *)
LEMMA UiTypes == ASSUME TypeOK, [Next]_vars PROVE TypeUi'
<1> USE DEF TypeUi
<1>0. TypeUi
  BY TypeParts
<1>1. CASE UNCHANGED vars
  BY <1>0, <1>1 DEF vars, ui, made
<1>2. ASSUME NEW t \in Texts, NEW d \in BOOLEAN, QueryResults(t, d) PROVE TypeUi'
  BY <1>0, <1>2 DEF QueryResults, CancelSource
<1>3. CASE QueryNothing
  BY <1>0, <1>3 DEF QueryNothing, CancelSource, made
<1>4. CASE UpdateListView \/ Clear
  BY <1>0, <1>4 DEF UpdateListView, Clear, ui, made
<1>5. CASE BackgroundStep
  <2>1. ASSUME NEW q \in Queries, TaskStep(q) PROVE UNCHANGED <<ui, made>>
    BY <2>1 DEF TaskStep, Start, Answer, TakeLock, CheckResults, AddResults, Finish,
         SlowFinish, SortCopies, SortClears, SortAdds
  <2>2. ASSUME NEW q \in Queries, NEW p \in Plugins, SlowStep(q, p) PROVE UNCHANGED <<ui, made>>
    BY <2>2 DEF SlowStep, SlowAnswer, SlowRemove, SlowCheck, SlowAdd, SlowDispatch
  <2> QED
    BY <1>0, <1>5, <2>1, <2>2 DEF BackgroundStep, ui, made
<1> QED
  BY <1>1, <1>2, <1>3, <1>4, <1>5 DEF Next

LEMMA TaskTypes ==
    ASSUME TypeOK, NEW q \in Queries, TaskStep(q)
    PROVE  TypeTask' /\ TypeThread' /\ TypeFound'
<1> USE GoTypes, StateTypes
<1>0. TypeTask /\ TypeThread /\ TypeFound /\ TypeLists /\ TypeUi
  BY TypeParts
<1>1. TypeTask'
  <2>1. \A s : s \in TaskStates /\ Go(q, s) => TypeTask'
    BY <1>0
  <2>2. Throws(q) \/ TaskEnds(q) => TypeTask'
    BY <2>1 DEF Throws, TaskEnds
  <2> QED
    BY <2>1, <2>2 DEF TaskStep, Start, Answer, TakeLock, CheckResults, AddResults, Finish,
         SlowFinish, SortCopies, SortClears, SortAdds
<1>2. TypeThread'
  <2>1. CASE Finish(q)
    <3>1. CASE UNCHANGED thread
      BY <1>0, <3>1 DEF TypeThread
    <3> DEFINE mine == [p \in Plugins |-> IF p \in Build(text[q]) \cap SlowPlugins
                                          THEN "query" ELSE "ended"]
    <3>2. mine \in [Plugins -> ThreadStates]
      BY DEF ThreadStates
    <3>3. CASE thread' = [thread EXCEPT ![q] = mine]
      <4> HIDE DEF mine
      <4> QED
        BY <1>0, <3>2, <3>3 DEF TypeThread
    <3> QED
      BY <2>1, <3>1, <3>3 DEF Finish
  <2>2. CASE UNCHANGED thread
    BY <1>0, <2>2 DEF TypeThread
  <2> QED
    BY <2>1, <2>2 DEF TaskStep, Start, Answer, TakeLock, CheckResults, AddResults,
         SlowFinish, SortCopies, SortClears, SortAdds
<1>3. TypeFound'
  <2>1. CASE Answer(q)
    <3>1. MayFind(q) \subseteq Plugins
      BY <1>0 DEF MayFind, Build, TypeUi
    <3>2. CASE UNCHANGED <<todo, fast>>
      BY <1>0, <2>1, <3>2 DEF Answer, TypeFound
    <3>3. ASSUME NEW ps \in SUBSET MayFind(q), fast' = [fast EXCEPT ![q] = ps],
                 todo' = [todo EXCEPT ![q] = ps]
          PROVE  TypeFound'
      BY <1>0, <2>1, <3>1, <3>3 DEF Answer, TypeFound
    <3> QED
      BY <2>1, <3>2, <3>3 DEF Answer
  <2>2. CASE AddResults(q)
    <3>1. CASE UNCHANGED todo
      BY <1>0, <2>2, <3>1 DEF AddResults, TypeFound, found
    <3>2. ASSUME NEW p \in todo[q], todo' = [todo EXCEPT ![q] = @ \ {p}]
          PROVE  TypeFound'
      BY <1>0, <2>2, <3>2 DEF AddResults, TypeFound, found
    <3> QED
      BY <2>2, <3>1, <3>2 DEF AddResults
  <2>3. CASE SortCopies(q)
    BY <1>0, <2>3, SortRemoves DEF SortCopies, TypeFound, TypeLists, found
  <2>4. CASE UNCHANGED <<todo, fast, slow, sorted>>
    BY <1>0, <2>4 DEF TypeFound
  <2> QED
    BY <2>1, <2>2, <2>3, <2>4 DEF TaskStep, Start, TakeLock, CheckResults, Finish,
         SlowFinish, SortClears, SortAdds, found
<1> QED
  BY <1>1, <1>2, <1>3

LEMMA TaskLists ==
    ASSUME TypeOK, NEW q \in Queries, TaskStep(q)
    PROVE  TypeLists'
<1> USE LockTypes DEF TypeLists
<1>0. TypeTask /\ TypeThread /\ TypeFound /\ TypeLists /\ TypeUi
  BY TypeParts
<1>1. CASE Start(q) \/ Answer(q) \/ SlowFinish(q) \/ SortCopies(q)
  BY <1>0, <1>1 DEF Start, Answer, SlowFinish, SortCopies, list, view
<1>2. CASE TakeLock(q)
  BY <1>0, <1>2 DEF TakeLock, list, view
<1>3. CASE CheckResults(q)
  BY <1>0, <1>3 DEF CheckResults, list, view
<1>4. CASE AddResults(q)
  <2>1. \A p \in todo[q] : [query |-> q, plugin |-> p, speed |-> "fast"] \in Batch
    BY <1>0 DEF TypeFound, Batch
  <2> QED
    BY <1>0, <1>4, <2>1 DEF AddResults, view
<1>5. CASE Finish(q)
  <2>0. dispatched \in Seq(Texts) /\ text[q] \in Texts
    BY <1>0 DEF TypeLists, TypeUi
  <2>1. dispatched' \in Seq(Texts)
    BY <1>5, <2>0 DEF Finish, Dispatch
  <2>2. results' \subseteq results
    BY <1>5, SortedThins, ThinnedOnly DEF Finish
  <2> QED
    BY <1>0, <1>5, <2>1, <2>2 DEF Finish, view
<1>6. CASE SortClears(q)
  BY <1>0, <1>6 DEF SortClears, view
<1>7. CASE SortAdds(q)
  <2>0. dispatched \in Seq(Texts) /\ text[q] \in Texts
    BY <1>0 DEF TypeUi
  <2>1. dispatched' \in Seq(Texts)
    BY <1>7, <2>0 DEF SortAdds
  <2> QED
    BY <1>0, <1>7, <2>1 DEF SortAdds, TypeFound, view
<1> QED
  BY <1>1, <1>2, <1>3, <1>4, <1>5, <1>6, <1>7 DEF TaskStep

LEMMA SlowTypes ==
    ASSUME TypeOK, NEW q \in Queries, NEW p \in Plugins, SlowStep(q, p)
    PROVE  TypeTask' /\ TypeThread' /\ TypeFound' /\ TypeLists'
<1> USE LockTypes
<1>0. TypeTask /\ TypeThread /\ TypeFound /\ TypeLists /\ TypeUi
  BY TypeParts
<1>1. TypeTask'
  BY <1>0 DEF TypeTask, SlowStep, SlowAnswer, SlowRemove, SlowCheck, SlowAdd, SlowDispatch
<1>2. TypeThread'
  <2>1. \A s : s \in ThreadStates /\ Thread(q, p, s) => TypeThread'
    BY <1>0, ThreadTypes
  <2>2. ThreadThrows(q, p) => TypeThread'
    BY <2>1, StateTypes DEF ThreadThrows
  <2> QED
    BY <2>1, <2>2, StateTypes
    DEF SlowStep, SlowAnswer, SlowRemove, SlowCheck, SlowAdd, SlowDispatch
<1>3. TypeFound'
  <2>1. CASE UNCHANGED slow
    BY <1>0, <2>1 DEF TypeFound, SlowStep, SlowAnswer, SlowRemove, SlowCheck, SlowAdd,
         SlowDispatch, found
  <2>2. CASE SlowAnswer(q, p) /\ slow' = [slow EXCEPT ![q] = @ \cup {p}]
    BY <1>0, <2>2 DEF TypeFound, SlowAnswer
  <2> QED
    BY <2>1, <2>2 DEF SlowStep, SlowAnswer, SlowRemove, SlowCheck, SlowAdd, SlowDispatch, found
<1>4. TypeLists'
  <2>1. CASE SlowAnswer(q, p)
    BY <1>0, <2>1 DEF SlowAnswer, TypeLists, list, view
  <2>2. CASE SlowRemove(q, p)
    BY <1>0, <2>2 DEF SlowRemove, TypeLists, view
  <2>3. CASE SlowCheck(q, p)
    BY <1>0, <2>3 DEF SlowCheck, TypeLists, list, view
  <2>4. CASE SlowAdd(q, p)
    <3>1. [query |-> q, plugin |-> p, speed |-> "slow"] \in Batch
      BY DEF Batch
    <3> QED
      BY <1>0, <2>4, <3>1 DEF SlowAdd, TypeLists, view
  <2>5. CASE SlowDispatch(q, p)
    <3>1. dispatched \in Seq(Texts) /\ text[q] \in Texts
      BY <1>0 DEF TypeLists, TypeUi
    <3>2. dispatched' \in Seq(Texts)
      <4>1. dispatched' = dispatched \/ dispatched' = Append(dispatched, text[q])
        BY <2>5 DEF SlowDispatch, Dispatch
      <4> QED
        BY <3>1, <4>1
    <3>3. results' \subseteq results
      BY <2>5, SortedThins, ThinnedOnly DEF SlowDispatch
    <3> QED
      BY <1>0, <2>5, <3>2, <3>3 DEF SlowDispatch, TypeLists, view
  <2> QED
    BY <2>1, <2>2, <2>3, <2>4, <2>5 DEF SlowStep
<1> QED
  BY <1>1, <1>2, <1>3, <1>4

LEMMA NextTypes == TypeOK /\ [Next]_vars => TypeOK'
<1> SUFFICES ASSUME TypeOK, [Next]_vars PROVE TypeTask' /\ TypeThread' /\ TypeFound' /\ TypeLists'
  BY UiTypes, TypeParts, PTL
<1>0. TypeTask /\ TypeThread /\ TypeFound /\ TypeLists /\ TypeUi
  BY TypeParts
<1>1. CASE UNCHANGED vars
  BY <1>0, <1>1 DEF TypeTask, TypeThread, TypeFound, TypeLists, vars, found, list, view
<1>2. ASSUME NEW t \in Texts, NEW d \in BOOLEAN, QueryResults(t, d)
      PROVE  TypeTask' /\ TypeThread' /\ TypeFound' /\ TypeLists'
  <2>1. source' \in Queries
    BY <1>0, <1>2 DEF QueryResults, TypeUi
  <2> QED
    BY <1>0, <1>2, <2>1, StateTypes DEF QueryResults, TypeTask, TypeThread, TypeFound, TypeLists, found, list, view
<1>3. CASE QueryNothing
  <2>1. visible' \in BOOLEAN
    BY <1>3 DEF QueryNothing
  <2> QED
    BY <1>0, <1>3, <2>1
    DEF QueryNothing, TypeTask, TypeThread, TypeFound, TypeLists, found, list
<1>4. CASE UpdateListView
  <2>1. Tail(dispatched) \in Seq(Texts) /\ visible' \in BOOLEAN
    BY <1>0, <1>4 DEF UpdateListView, TypeLists
  <2> QED
    BY <1>0, <1>4, <2>1 DEF UpdateListView, TypeTask, TypeThread, TypeFound, TypeLists, found, list
<1>5. CASE Clear
  BY <1>0, <1>5 DEF Clear, TypeTask, TypeThread, TypeFound, TypeLists, found, view
<1>6. CASE BackgroundStep
  BY <1>6, TaskTypes, TaskLists, SlowTypes DEF BackgroundStep
<1> QED
  BY <1>1, <1>2, <1>3, <1>4, <1>5, <1>6 DEF Next

\* The variables keep their types, whatever the plugins, texts and settings.
THEOREM TypeCorrect == Spec => []TypeOK
BY InitTypes, NextTypes, PTL DEF Spec
-----------------------------------------------------------------------------
(* Who is in the lock, and whose token may still be live. *)

Inside(q)        == task[q] \in {"add", "append"}
InsideSlow(q, p) == thread[q][p] \in {"add", "append", "dispatch"}

\* Only the token of the source may be live.
Order ==
    /\ \A q \in canceled : q <= source
    /\ \A q \in Queries : q < source => q \in canceled
    /\ \A q \in Queries : q > source => task[q] = "none"
ThreadsOfSlow ==
    \A q \in Queries, p \in Plugins :
        thread[q][p] \notin {"none", "ended"} => task[q] = "slow"
SortsOnDemand ==
    ~FinalSorts => \A q \in Queries : task[q] \notin {"sort", "clear", "readd"}
LockHeld ==
    /\ \A q \in Queries : Inside(q) => lock = <<q>>
    /\ \A q \in Queries, p \in Plugins : InsideSlow(q, p) => lock = <<q, p>>

\* Who has passed the last test of its token is the source, or was: the source
\* has not cleared the list since then.
PassedBefore(q) == q = source \/ source \in canceled \/ ~Cleared(source)
Passed ==
    /\ \A q \in Queries : task[q] = "append" => PassedBefore(q)
    /\ \A q \in Queries, p \in Plugins : thread[q][p] = "append" => PassedBefore(q)

Discipline == Order /\ ThreadsOfSlow /\ SortsOnDemand /\ LockHeld /\ Passed

LEMMA LockNames ==
    /\ \A q \in Queries : <<q>> # <<>>
    /\ \A q, r \in Queries : <<q>> = <<r>> => q = r
    /\ \A q \in Queries, p \in Plugins : <<q, p>> # <<>>
    /\ \A q, r \in Queries, p \in Plugins : <<q, p>> # <<r>>
    /\ \A q, r \in Queries, o, p \in Plugins : <<q, p>> = <<r, o>> => q = r /\ p = o
OBVIOUS

LEMMA InitDiscipline == Init => Discipline
BY DEF Init, Discipline, Order, ThreadsOfSlow, SortsOnDemand, LockHeld, Passed, Inside,
     InsideSlow

(* The kinds of steps of a task, and of the thread of a slow plugin, by what *)
(* they do with the lock.                                                   *)

Others(q) == \A r \in Queries : r # q => task'[r] = task[r]

Outside(q) ==
    /\ ~Inside(q) /\ ~Inside(q)' /\ task[q] # "none" /\ UNCHANGED <<lock, results, thread>>
    /\ Cleared(q)' => Cleared(q) \/ q \in canceled
    /\ task'[q] \in {"sort", "clear", "readd"} => FinalSorts \/ task[q] = "sort"
    /\ task[q] = "slow" => \A p \in Plugins : thread[q][p] = "ended"
Enters(q) ==
    /\ task[q] = "lock" /\ task'[q] = "add" /\ lock = <<>> /\ lock' = <<q>>
    /\ text[q] = currentQuery
    /\ results' = {} /\ UNCHANGED <<todo, thread>>
Passes(q) ==
    /\ task[q] = "add" /\ task'[q] = "append" /\ q \notin canceled
    /\ UNCHANGED <<lock, results, todo, thread>>
Adds(q) ==
    /\ task[q] = "append" /\ task'[q] = "add" /\ UNCHANGED <<lock, thread>>
    /\ \E p \in todo[q] :
         /\ results' = results \cup {[query |-> q, plugin |-> p, speed |-> "fast"]}
         /\ todo' = [todo EXCEPT ![q] = @ \ {p}]
Leaves(q) ==
    /\ Inside(q) /\ lock' = <<>> /\ Thinned
    /\ \/ task'[q] = "ended" /\ UNCHANGED thread
       \/ task'[q] = "sort" /\ FinalSorts /\ UNCHANGED thread
       \/ task'[q] = "slow" /\ \A r \in Queries, p \in Plugins :
            thread'[r][p] = IF r # q THEN thread[r][p]
                            ELSE IF p \in Build(text[q]) \cap SlowPlugins
                                 THEN "query" ELSE "ended"
Sorts(q) ==
    /\ task[q] \in {"clear", "readd"} /\ task'[q] \in {"readd", "ended"}
    /\ UNCHANGED <<lock, thread>>

LEMMA TaskKinds ==
    ASSUME TypeOK, NEW q \in Queries, TaskStep(q)
    PROVE  /\ Others(q) /\ UNCHANGED <<ui, made>>
           /\ \/ Outside(q) \/ Enters(q) \/ Passes(q) \/ Adds(q) \/ Leaves(q) \/ Sorts(q)
           /\ \A r \in Queries : r # q => todo'[r] = todo[r]
<1> USE StateTypes DEF Throws
<1>0. TypeTask /\ TypeThread /\ TypeFound
  BY TypeParts
<1>1. ASSUME NEW s \in TaskStates, Go(q, s) PROVE Others(q) /\ task'[q] = s
  BY <1>0, <1>1, GoTypes DEF Others
<1>2. CASE Start(q)
  BY <1>1, <1>2 DEF Start, Outside, Inside, Cleared, list
<1>3. CASE Answer(q)
  BY <1>0, <1>1, <1>3 DEF Answer, Outside, Inside, Cleared, TypeFound, list
<1>4. CASE TakeLock(q)
  BY <1>1, <1>4 DEF TakeLock, Outside, Inside, Cleared, Enters, list
<1>5. CASE CheckResults(q)
  BY <1>1, <1>5 DEF CheckResults, Passes, Leaves, Thinned, Inside, list
<1>6. CASE AddResults(q)
  <2>1. CASE Throws(q) /\ lock' = <<>> /\ UNCHANGED <<todo, results>>
    BY <1>1, <1>6, <2>1 DEF AddResults, Leaves, Thinned, Inside
  <2>2. CASE Go(q, "add") /\ UNCHANGED lock
    <3>1. PICK p \in todo[q] :
             /\ results' = results \cup {[query |-> q, plugin |-> p, speed |-> "fast"]}
             /\ todo' = [todo EXCEPT ![q] = @ \ {p}]
      BY <1>1, <1>6, <2>2 DEF AddResults
    <3> QED
      BY <1>0, <1>1, <1>6, <2>2, <3>1 DEF AddResults, Adds, TypeFound
  <2> QED
    BY <1>6, <2>1, <2>2 DEF AddResults
<1>7. CASE Finish(q)
  <2>1. /\ Inside(q) /\ lock' = <<>> /\ UNCHANGED <<ui, made, todo>> /\ Thinned
    BY <1>7, SortedThins DEF Finish, Inside
  <2>2. CASE Throws(q) /\ UNCHANGED thread
    BY <1>1, <2>1, <2>2 DEF Leaves
  <2>3. CASE TaskEnds(q) /\ UNCHANGED thread
    BY <1>1, <2>1, <2>3 DEF Leaves, TaskEnds, Outside
  <2> DEFINE mine == [p \in Plugins |-> IF p \in Build(text[q]) \cap SlowPlugins
                                        THEN "query" ELSE "ended"]
  <2>4. CASE Go(q, "slow") /\ thread' = [thread EXCEPT ![q] = mine]
    <3>1. \A p \in Plugins : mine[p] = IF p \in Build(text[q]) \cap SlowPlugins
                                        THEN "query" ELSE "ended"
      OBVIOUS
    <3> HIDE DEF mine
    <3>2. \A r \in Queries : thread'[r] = IF r # q THEN thread[r] ELSE mine
      BY <1>0, <2>4 DEF TypeThread
    <3> QED
      BY <1>1, <2>1, <2>4, <3>1, <3>2 DEF Leaves
  <2> QED
    BY <1>7, <2>2, <2>3, <2>4 DEF Finish
<1>8. CASE SlowFinish(q)
  BY <1>1, <1>8 DEF SlowFinish, TaskEnds, Outside, Inside, Cleared, list
<1>9. CASE SortCopies(q)
  BY <1>1, <1>9 DEF SortCopies, Outside, Inside, Cleared, list
<1>10. CASE SortClears(q)
  BY <1>1, <1>10 DEF SortClears, Sorts
<1>11. CASE SortAdds(q)
  BY <1>1, <1>11 DEF SortAdds, Sorts
<1> QED
  BY <1>2, <1>3, <1>4, <1>5, <1>6, <1>7, <1>8, <1>9, <1>10, <1>11 DEF TaskStep

SlowOthers(q, p) ==
    \A r \in Queries, o \in Plugins : r # q \/ o # p => thread'[r][o] = thread[r][o]

SlowOutside(q, p) ==
    /\ thread[q][p] \in {"query", "lock"} /\ thread'[q][p] \in {"lock", "ended"}
    /\ UNCHANGED <<lock, results>>
SlowEnters(q, p) ==
    /\ thread[q][p] = "lock" /\ thread'[q][p] = "add" /\ q \notin canceled
    /\ lock = <<>> /\ lock' = <<q, p>>
    /\ results' = {b \in results : b.plugin # p}
SlowPasses(q, p) ==
    /\ thread[q][p] = "add" /\ thread'[q][p] = "append" /\ q \notin canceled
    /\ UNCHANGED <<lock, results>>
SlowAdds(q, p) ==
    /\ thread[q][p] = "append" /\ thread'[q][p] = "dispatch" /\ UNCHANGED lock
    /\ results' = results \cup {[query |-> q, plugin |-> p, speed |-> "slow"]}
SlowLeaves(q, p) ==
    /\ InsideSlow(q, p) /\ thread'[q][p] = "ended"
    /\ lock' = <<>> /\ Thinned

LEMMA SlowKinds ==
    ASSUME TypeOK, NEW q \in Queries, NEW p \in Plugins, SlowStep(q, p)
    PROVE  /\ SlowOthers(q, p) /\ UNCHANGED <<ui, made, task, todo>>
           /\ \/ SlowOutside(q, p) \/ SlowEnters(q, p) \/ SlowPasses(q, p)
              \/ SlowAdds(q, p) \/ SlowLeaves(q, p)
<1> USE StateTypes DEF ThreadThrows
<1>0. TypeThread
  BY TypeParts
<1>1. ASSUME NEW s \in ThreadStates, Thread(q, p, s)
      PROVE  SlowOthers(q, p) /\ thread'[q][p] = s
  BY <1>0, <1>1, ThreadTypes DEF SlowOthers
<1>2. CASE SlowAnswer(q, p)
  BY <1>1, <1>2 DEF SlowAnswer, SlowOutside, list
<1>3. CASE SlowRemove(q, p)
  BY <1>1, <1>3 DEF SlowRemove, SlowOutside, SlowEnters
<1>4. CASE SlowCheck(q, p)
  BY <1>1, <1>4 DEF SlowCheck, SlowPasses, SlowLeaves, Thinned, InsideSlow, list
<1>5. CASE SlowAdd(q, p)
  BY <1>1, <1>5 DEF SlowAdd, SlowAdds, SlowLeaves, Thinned, InsideSlow
<1>6. CASE SlowDispatch(q, p)
  BY <1>1, <1>6, SortedThins DEF SlowDispatch, SlowLeaves, InsideSlow
<1> QED
  BY <1>2, <1>3, <1>4, <1>5, <1>6 DEF SlowStep

LEMMA TaskDiscipline ==
    ASSUME TypeOK, Discipline, NEW q \in Queries, TaskStep(q)
    PROVE  Discipline'
<1>0. TypeTask /\ TypeThread /\ TypeUi /\ Others(q) /\ UNCHANGED <<source, canceled, settings>>
  BY TypeParts, TaskKinds DEF ui
<1>1. Order /\ ThreadsOfSlow /\ SortsOnDemand /\ LockHeld /\ Passed
  BY DEF Discipline
<1>2. \/ Outside(q) \/ Enters(q) \/ Passes(q) \/ Adds(q) \/ Leaves(q) \/ Sorts(q)
  BY TaskKinds
<1>a. task[q] # "none"
  BY <1>2 DEF Outside, Enters, Passes, Adds, Leaves, Sorts, Inside
<1>b. source \in Queries
  BY <1>0, <1>1, <1>a DEF Order, TypeUi
<1>3. Order'
  BY <1>0, <1>1, <1>a DEF Order, Others
<1>4. ThreadsOfSlow'
  <2>1. CASE Outside(q)
    BY <1>0, <1>1, <2>1 DEF ThreadsOfSlow, Others, Outside
  <2>2. CASE Leaves(q)
    BY <1>0, <1>1, <2>2 DEF ThreadsOfSlow, Others, Leaves, Inside
  <2>3. CASE Enters(q) \/ Passes(q) \/ Adds(q) \/ Sorts(q)
    BY <1>0, <1>1, <2>3 DEF ThreadsOfSlow, Others, Enters, Passes, Adds, Sorts
  <2> QED
    BY <1>2, <2>1, <2>2, <2>3
<1>5. SortsOnDemand'
  BY <1>0, <1>1, <1>2
  DEF SortsOnDemand, FinalSorts, Others, Outside, Enters, Passes, Adds, Leaves, Sorts
<1>6. LockHeld'
  <2>1. CASE Outside(q) \/ Passes(q) \/ Adds(q) \/ Sorts(q)
    BY <1>0, <1>1, <2>1
    DEF LockHeld, Others, Inside, InsideSlow, Outside, Passes, Adds, Sorts
  <2>2. CASE Enters(q)
    BY <1>0, <1>1, <2>2, LockNames DEF LockHeld, Others, Inside, InsideSlow, Enters
  <2>3. CASE Leaves(q)
    BY <1>0, <1>1, <2>3, LockNames DEF LockHeld, Others, Inside, InsideSlow, Leaves
  <2> QED
    BY <1>2, <2>1, <2>2, <2>3
<1>7. Passed'
  <2>1. CASE Enters(q)
    BY <1>0, <1>1, <2>1, LockNames
    DEF Passed, LockHeld, Others, Inside, InsideSlow, Enters
  <2>2. CASE Passes(q)
    <3>1. q = source
      BY <1>0, <1>1, <2>2 DEF Order, Passes, TypeUi
    <3> QED
      BY <1>0, <1>1, <2>2, <3>1 DEF Passed, PassedBefore, Others, Passes, Cleared
  <2>3. CASE Outside(q)
    <3>1. \A r \in Queries : PassedBefore(r) => PassedBefore(r)'
      BY <1>0, <1>b, <2>3 DEF PassedBefore, Others, Outside, Cleared
    <3> QED
      BY <1>0, <1>1, <2>3, <3>1 DEF Passed, Others, Outside, Inside
  <2>4. CASE Adds(q) \/ Sorts(q) \/ Leaves(q)
    <3>1. \A r \in Queries : PassedBefore(r) => PassedBefore(r)'
      BY <1>0, <1>b, <2>4
      DEF PassedBefore, Others, Adds, Sorts, Leaves, Inside, Cleared
    <3> QED
      BY <1>0, <1>1, <2>4, <3>1 DEF Passed, Others, Adds, Sorts, Leaves
  <2> QED
    BY <1>2, <2>1, <2>2, <2>3, <2>4
<1> QED
  BY <1>3, <1>4, <1>5, <1>6, <1>7 DEF Discipline

\* While somebody is in the lock, nobody else is.
LEMMA Alone ==
    ASSUME Discipline, NEW q \in Queries
    PROVE  /\ lock = <<>> => ~Inside(q) /\ \A p \in Plugins : ~InsideSlow(q, p)
           /\ Inside(q) => /\ \A r \in Queries : r # q => ~Inside(r)
                           /\ \A r \in Queries, p \in Plugins : ~InsideSlow(r, p)
           /\ \A p \in Plugins : InsideSlow(q, p) =>
                /\ \A r \in Queries : ~Inside(r)
                /\ \A r \in Queries, o \in Plugins : r # q \/ o # p => ~InsideSlow(r, o)
<1>1. /\ \A r \in Queries : Inside(r) => lock = <<r>>
      /\ \A r \in Queries, o \in Plugins : InsideSlow(r, o) => lock = <<r, o>>
  BY DEF Discipline, LockHeld
<1>2. lock = <<>> => ~Inside(q) /\ \A p \in Plugins : ~InsideSlow(q, p)
  BY <1>1, LockNames
<1>3. Inside(q) => /\ \A r \in Queries : r # q => ~Inside(r)
                   /\ \A r \in Queries, p \in Plugins : ~InsideSlow(r, p)
  BY <1>1, LockNames
<1>4. ASSUME NEW p \in Plugins, InsideSlow(q, p)
      PROVE  /\ \A r \in Queries : ~Inside(r)
             /\ \A r \in Queries, o \in Plugins : r # q \/ o # p => ~InsideSlow(r, o)
  <2>1. lock = <<q, p>>
    BY <1>1, <1>4
  <2>2. \A r \in Queries : ~Inside(r)
    BY <1>1, <2>1, LockNames
  <2>3. ASSUME NEW r \in Queries, NEW o \in Plugins, InsideSlow(r, o)
        PROVE  r = q /\ o = p
    BY <1>1, <2>1, <2>3, LockNames
  <2> QED
    BY <2>2, <2>3
<1> QED
  BY <1>2, <1>3, <1>4

LEMMA SlowDiscipline ==
    ASSUME TypeOK, Discipline, NEW q \in Queries, NEW p \in Plugins, SlowStep(q, p)
    PROVE  Discipline'
<1>0. /\ TypeUi /\ SlowOthers(q, p) /\ UNCHANGED <<source, canceled, settings, task>>
  BY TypeParts, SlowKinds DEF ui
<1>1. Order /\ ThreadsOfSlow /\ SortsOnDemand /\ LockHeld /\ Passed
  BY DEF Discipline
<1>2. \/ SlowOutside(q, p) \/ SlowEnters(q, p) \/ SlowPasses(q, p)
      \/ SlowAdds(q, p) \/ SlowLeaves(q, p)
  BY SlowKinds
<1>3. Order' /\ SortsOnDemand'
  BY <1>0, <1>1 DEF Order, SortsOnDemand, FinalSorts
<1>4. ThreadsOfSlow'
  <2>1. thread[q][p] \notin {"none", "ended"}
    BY <1>2 DEF SlowOutside, SlowEnters, SlowPasses, SlowAdds, SlowLeaves, InsideSlow
  <2> QED
    BY <1>0, <1>1, <2>1 DEF ThreadsOfSlow, SlowOthers
<1>5. LockHeld'
  <2>1. CASE SlowOutside(q, p) \/ SlowPasses(q, p) \/ SlowAdds(q, p)
    <3>1. UNCHANGED <<lock, task>> /\ (InsideSlow(q, p)' => InsideSlow(q, p))
      BY <1>0, <2>1 DEF InsideSlow, SlowOutside, SlowPasses, SlowAdds
    <3> QED
      BY <1>0, <1>1, <3>1 DEF LockHeld, SlowOthers, Inside, InsideSlow
  <2>2. CASE SlowEnters(q, p) \/ SlowLeaves(q, p)
    <3>0. lock = <<>> \/ InsideSlow(q, p)
      BY <2>2 DEF SlowEnters, SlowLeaves
    <3>1. \A r \in Queries : ~Inside(r)
      BY <3>0, Alone
    <3>2. \A r \in Queries, o \in Plugins : r # q \/ o # p => ~InsideSlow(r, o)
      BY <3>0, Alone
    <3>3. InsideSlow(q, p)' => lock' = <<q, p>>
      BY <2>2 DEF InsideSlow, SlowEnters, SlowLeaves
    <3>4. \A r \in Queries : ~Inside(r)'
      BY <1>0, <3>1 DEF Inside
    <3>5. \A r \in Queries, o \in Plugins : r # q \/ o # p => ~InsideSlow(r, o)'
      BY <1>0, <3>2 DEF InsideSlow, SlowOthers
    <3> QED
      BY <3>3, <3>4, <3>5 DEF LockHeld
  <2> QED
    BY <1>2, <2>1, <2>2
<1>6. Passed'
  <2>1. \A r \in Queries : PassedBefore(r)' <=> PassedBefore(r)
    BY <1>0 DEF PassedBefore, Cleared
  <2>2. thread'[q][p] = "append" => PassedBefore(q)
    <3>1. thread'[q][p] = "append" => q \notin canceled
      BY <1>2 DEF SlowOutside, SlowEnters, SlowPasses, SlowAdds, SlowLeaves
    <3>2. q \notin canceled => q = source
      BY <1>0, <1>1, <1>4, <1>2 DEF Order, ThreadsOfSlow, SlowOutside, SlowEnters, SlowPasses,
         SlowAdds, SlowLeaves, InsideSlow, TypeUi
    <3> QED
      BY <3>1, <3>2 DEF PassedBefore
  <2> QED
    BY <1>0, <1>1, <2>1, <2>2 DEF Passed, SlowOthers
<1> QED
  BY <1>3, <1>4, <1>5, <1>6 DEF Discipline

LEMMA NextDiscipline == TypeOK /\ Discipline /\ [Next]_vars => Discipline'
<1> SUFFICES ASSUME TypeOK, Discipline, [Next]_vars PROVE Discipline'
  OBVIOUS
<1> USE DEF Inside, InsideSlow, PassedBefore, Cleared, FinalSorts
<1>0. TypeTask /\ TypeThread /\ TypeUi
  BY TypeParts
<1>1. CASE UNCHANGED vars
  BY <1>1 DEF vars, ui, Discipline, Order, ThreadsOfSlow, SortsOnDemand, LockHeld, Passed
<1>2. ASSUME NEW t \in Texts, NEW d \in BOOLEAN, QueryResults(t, d) PROVE Discipline'
  <2>1. /\ source' = source + 1 /\ source' \in Queries
        /\ canceled' = canceled \cup ({source} \ {0})
        /\ UNCHANGED <<settings, thread, lock>>
    BY <1>0, <1>2 DEF QueryResults, CancelSource, TypeUi
  <2>2. /\ task'[source'] \in {"none", "start"}
        /\ \A r \in Queries : r # source' => task'[r] = task[r]
        /\ task[source'] = "none"
    BY <1>0, <1>2, <2>1 DEF QueryResults, TypeTask, TypeUi, Discipline, Order
  <2>3. Order'
    BY <1>0, <2>1, <2>2 DEF Discipline, Order, TypeUi
  <2>4. ThreadsOfSlow' /\ SortsOnDemand' /\ LockHeld' /\ Passed'
    BY <1>0, <2>1, <2>2 DEF Discipline, ThreadsOfSlow, SortsOnDemand, LockHeld, Passed
  <2> QED
    BY <2>3, <2>4 DEF Discipline
<1>3. CASE QueryNothing
  BY <1>0, <1>3 DEF QueryNothing, CancelSource, Discipline, Order, ThreadsOfSlow,
     SortsOnDemand, LockHeld, Passed, TypeUi
<1>4. CASE UpdateListView \/ Clear
  BY <1>4 DEF UpdateListView, Clear, ui, Discipline, Order, ThreadsOfSlow, SortsOnDemand,
     LockHeld, Passed
<1>5. CASE BackgroundStep
  BY <1>5, TaskDiscipline, SlowDiscipline DEF BackgroundStep
<1> QED
  BY <1>1, <1>2, <1>3, <1>4, <1>5 DEF Next
-----------------------------------------------------------------------------
(* What is in the list, as long as nothing is sorted without the lock. *)

OwnedBy(q) == \A b \in results : b.query = q
Without(p) == \A b \in results : b.plugin # p
Owned ==
    /\ \A q \in Queries : Inside(q) => OwnedBy(q)
    /\ \A q \in Queries, p \in Plugins : InsideSlow(q, p) => OwnedBy(q)
Distinct == \A b, c \in results : b.plugin = c.plugin => b = c
Room ==
    /\ \A q \in Queries : Inside(q) => \A p \in todo[q] : Without(p)
    /\ \A q \in Queries, p \in Plugins :
         thread[q][p] \in {"add", "append"} => Without(p)

Contents == ~FinalSorts => NothingStale /\ NeverMixed /\ Owned /\ Distinct /\ Room

LEMMA InitContents == Init => Contents
BY DEF Init, Contents, NothingStale, NeverMixed, Owned, Distinct, Room, Inside, InsideSlow

LEMMA TaskContents ==
    ASSUME TypeOK, Discipline, Contents, NEW q \in Queries, TaskStep(q)
    PROVE  Contents'
<1> SUFFICES ASSUME ~FinalSorts
             PROVE  NothingStale' /\ NeverMixed' /\ Owned' /\ Distinct' /\ Room'
  BY TaskKinds DEF Contents, FinalSorts, ui
<1>0. TypeTask /\ TypeThread /\ TypeUi /\ Others(q) /\ UNCHANGED <<source, canceled, settings>>
      /\ \A r \in Queries : r # q => todo'[r] = todo[r]
  BY TypeParts, TaskKinds DEF ui
<1>1. NothingStale /\ NeverMixed /\ Owned /\ Distinct /\ Room
  BY DEF Contents
<1>2. \/ Outside(q) \/ Enters(q) \/ Passes(q) \/ Adds(q) \/ Leaves(q) \/ Sorts(q)
  BY TaskKinds
<1>a. task[q] # "none"
  BY <1>2 DEF Outside, Enters, Passes, Adds, Leaves, Sorts, Inside
<1>b. source \in Queries
  BY <1>0, <1>a DEF Discipline, Order, TypeUi
<1>3. CASE Outside(q) \/ Leaves(q)
  <2>1. results' \subseteq results /\ ~Inside(q)'
    BY <1>3, ThinnedOnly DEF Outside, Leaves, Inside
  <2>2. \A r \in Queries : Inside(r)' => Inside(r) /\ r # q
    BY <1>0, <2>1 DEF Inside, Others
  <2>3. \A r \in Queries, p \in Plugins : thread'[r][p] # thread[r][p] =>
          thread'[r][p] \in {"query", "ended"}
    BY <1>3 DEF Outside, Leaves
  <2>4. \A r \in Queries, p \in Plugins : InsideSlow(r, p)' => InsideSlow(r, p)
    BY <2>3 DEF InsideSlow
  <2>5. Cleared(source)' => Cleared(source) \/ source \in canceled
    BY <1>0, <1>b, <1>3 DEF Cleared, Outside, Leaves, Inside, Others
  <2>6. NothingStale'
    BY <1>0, <1>1, <2>1, <2>5 DEF NothingStale, FinalSorts
  <2>7. Owned' /\ Room'
    BY <1>0, <1>1, <2>1, <2>2, <2>3, <2>4 DEF Owned, OwnedBy, Room, Without
  <2> QED
    BY <1>0, <1>1, <2>1, <2>6, <2>7 DEF NeverMixed, Distinct, FinalSorts
<1>4. CASE Enters(q)
  BY <1>4 DEF Enters, NothingStale, NeverMixed, Owned, OwnedBy, Distinct, Room, Without
<1>5. CASE Passes(q)
  <2>1. UNCHANGED <<results, todo, thread>>
    BY <1>5 DEF Passes
  <2>2. \A r \in Queries : Inside(r)' <=> Inside(r)
    BY <1>0, <1>5 DEF Passes, Inside, Others
  <2>3. Cleared(source)' <=> Cleared(source)
    BY <1>0, <1>b, <1>5 DEF Passes, Cleared, Others
  <2> QED
    BY <1>0, <1>1, <2>1, <2>2, <2>3 DEF NothingStale, NeverMixed, Owned, OwnedBy, Distinct,
       Room, Without, InsideSlow, FinalSorts
<1>6. CASE Adds(q)
  <2>0. PICK p \in todo[q] :
          /\ results' = results \cup {[query |-> q, plugin |-> p, speed |-> "fast"]}
          /\ todo' = [todo EXCEPT ![q] = @ \ {p}]
    BY <1>6 DEF Adds
  <2>1. Inside(q) /\ UNCHANGED thread
    BY <1>6 DEF Adds, Inside
  <2>2. /\ \A r \in Queries : r # q => ~Inside(r)'
        /\ \A r \in Queries, o \in Plugins : ~InsideSlow(r, o)'
    BY <1>0, <2>1, Alone DEF Inside, InsideSlow, Others
  <2>3. OwnedBy(q) /\ Without(p)
    BY <1>1, <2>0, <2>1 DEF Owned, Room
  <2>4. OwnedBy(q)'
    BY <2>0, <2>3 DEF OwnedBy
  <2>5. NeverMixed' /\ Owned'
    BY <2>2, <2>4 DEF NeverMixed, Owned, OwnedBy
  <2>6. Distinct'
    BY <1>1, <2>0, <2>3 DEF Distinct, Without
  <2>7. todo'[q] = todo[q] \ {p}
    BY <2>0, TypeParts DEF TypeFound
  <2>8. \A o \in todo'[q] : Without(o)'
    BY <1>1, <2>0, <2>1, <2>7 DEF Room, Without
  <2>9. Room'
    BY <2>2, <2>8 DEF Room, InsideSlow
  <2>10. NothingStale'
    <3>1. q = source \/ source \in canceled \/ ~Cleared(source)
      BY <1>6 DEF Adds, Discipline, Passed, PassedBefore
    <3>2. Cleared(source)' <=> Cleared(source)
      BY <1>0, <1>b, <1>6 DEF Adds, Cleared, Others
    <3> QED
      BY <1>0, <2>4, <3>1, <3>2 DEF NothingStale, OwnedBy
  <2> QED
    BY <2>5, <2>6, <2>9, <2>10
<1>7. CASE Sorts(q)
  BY <1>7 DEF Sorts, Discipline, SortsOnDemand
<1> QED
  BY <1>2, <1>3, <1>4, <1>5, <1>6, <1>7

LEMMA SlowContents ==
    ASSUME TypeOK, Discipline, Contents, NEW q \in Queries, NEW p \in Plugins,
           SlowStep(q, p)
    PROVE  Contents'
<1> SUFFICES ASSUME ~FinalSorts
             PROVE  NothingStale' /\ NeverMixed' /\ Owned' /\ Distinct' /\ Room'
  BY SlowKinds DEF Contents, FinalSorts, ui
<1>0. /\ TypeUi /\ SlowOthers(q, p)
      /\ UNCHANGED <<source, canceled, settings, task, todo>>
  BY TypeParts, SlowKinds DEF ui
<1>1. NothingStale /\ NeverMixed /\ Owned /\ Distinct /\ Room
  BY DEF Contents
<1>2. \/ SlowOutside(q, p) \/ SlowEnters(q, p) \/ SlowPasses(q, p)
      \/ SlowAdds(q, p) \/ SlowLeaves(q, p)
  BY SlowKinds
<1>3. \A r \in Queries : Inside(r)' <=> Inside(r)
  BY <1>0 DEF Inside
<1>4. Cleared(source)' <=> Cleared(source)
  BY <1>0 DEF Cleared
<1>5. CASE SlowOutside(q, p) \/ SlowPasses(q, p) \/ SlowLeaves(q, p)
  <2>1. results' \subseteq results
    BY <1>5, ThinnedOnly DEF SlowOutside, SlowPasses, SlowLeaves
  <2>2. \A r \in Queries, o \in Plugins :
          /\ InsideSlow(r, o)' => InsideSlow(r, o)
          /\ thread'[r][o] \in {"add", "append"} => thread[r][o] \in {"add", "append"}
    BY <1>0, <1>5 DEF SlowOthers, InsideSlow, SlowOutside, SlowPasses, SlowLeaves
  <2>3. NothingStale' /\ NeverMixed' /\ Distinct'
    BY <1>0, <1>1, <1>4, <2>1 DEF NothingStale, NeverMixed, Distinct, FinalSorts
  <2>4. Owned'
    BY <1>1, <1>3, <2>1, <2>2 DEF Owned, OwnedBy
  <2>5. Room'
    BY <1>0, <1>1, <1>3, <2>1, <2>2 DEF Room, Without
  <2> QED
    BY <2>3, <2>4, <2>5
<1>6. CASE SlowEnters(q, p)
  <2>1. results' = {b \in results : b.plugin # p} /\ lock = <<>>
        /\ q \notin canceled /\ thread[q][p] = "lock"
    BY <1>6 DEF SlowEnters
  <2>2. task[q] = "slow"
    BY <2>1 DEF Discipline, ThreadsOfSlow
  <2>3. q = source /\ source # 0 /\ Cleared(source)
    BY <1>0, <2>1, <2>2 DEF Discipline, Order, TypeUi, Cleared
  <2>4. OwnedBy(q)
    BY <1>1, <2>1, <2>3 DEF NothingStale, OwnedBy
  <2>5. OwnedBy(q)' /\ Without(p)'
    BY <2>1, <2>4 DEF OwnedBy, Without
  <2>6. \A r \in Queries : ~Inside(r)'
    BY <1>3, <2>1, Alone
  <2>7. \A r \in Queries, o \in Plugins : r # q \/ o # p => ~InsideSlow(r, o)'
    BY <1>0, <2>1, Alone DEF SlowOthers, InsideSlow
  <2>8. NothingStale' /\ NeverMixed' /\ Owned'
    BY <1>0, <2>3, <2>5, <2>6, <2>7 DEF NothingStale, NeverMixed, Owned, OwnedBy
  <2>9. Distinct'
    BY <1>1, <2>1 DEF Distinct
  <2>10. Room'
    BY <2>5, <2>6, <2>7 DEF Room, InsideSlow
  <2> QED
    BY <2>8, <2>9, <2>10
<1>7. CASE SlowAdds(q, p)
  <2>1. results' = results \cup {[query |-> q, plugin |-> p, speed |-> "slow"]}
        /\ thread[q][p] = "append" /\ thread'[q][p] = "dispatch"
    BY <1>7 DEF SlowAdds
  <2>2. OwnedBy(q) /\ Without(p) /\ InsideSlow(q, p)
    BY <1>1, <2>1 DEF Owned, Room, InsideSlow
  <2>3. OwnedBy(q)'
    BY <2>1, <2>2 DEF OwnedBy
  <2>4. \A r \in Queries : ~Inside(r)'
    BY <1>3, <2>2, Alone
  <2>5. \A r \in Queries, o \in Plugins : r # q \/ o # p => ~InsideSlow(r, o)'
    BY <1>0, <2>2, Alone DEF SlowOthers, InsideSlow
  <2>6. NeverMixed' /\ Owned'
    BY <2>3, <2>4, <2>5 DEF NeverMixed, Owned, OwnedBy
  <2>7. Distinct'
    BY <1>1, <2>1, <2>2 DEF Distinct, Without
  <2>8. Room'
    BY <2>1, <2>4, <2>5 DEF Room, InsideSlow
  <2>9. NothingStale'
    <3>1. q = source \/ source \in canceled \/ ~Cleared(source)
      BY <2>1 DEF Discipline, Passed, PassedBefore
    <3> QED
      BY <1>0, <1>4, <2>3, <3>1 DEF NothingStale, OwnedBy
  <2> QED
    BY <2>6, <2>7, <2>8, <2>9
<1> QED
  BY <1>2, <1>5, <1>6, <1>7

LEMMA NextContents == TypeOK /\ Discipline /\ Contents /\ [Next]_vars => Contents'
<1> SUFFICES ASSUME TypeOK, Discipline, Contents, [Next]_vars PROVE Contents'
  OBVIOUS
<1>0. TypeTask /\ TypeUi
  BY TypeParts
<1>1. CASE UNCHANGED vars
  BY <1>1 DEF vars, ui, list, Contents, NothingStale, NeverMixed, Owned, OwnedBy, Distinct,
     Room, Without, Inside, InsideSlow, Cleared, FinalSorts
<1>2. ASSUME NEW t \in Texts, NEW d \in BOOLEAN, QueryResults(t, d) PROVE Contents'
  <2>1. source' = source + 1 /\ source' \in Queries
        /\ UNCHANGED <<settings, thread, todo, results>>
    BY <1>0, <1>2 DEF QueryResults, TypeUi, list
  <2>2. /\ task'[source'] \in {"none", "start"}
        /\ \A r \in Queries : r # source' => task'[r] = task[r]
    BY <1>0, <1>2, <2>1 DEF QueryResults, TypeTask, TypeUi, Discipline, Order
  <2>3. \A r \in Queries : Inside(r)' => Inside(r)
    BY <2>2 DEF Inside
  <2>4. ~Cleared(source)'
    BY <2>2 DEF Cleared
  <2>5. ~FinalSorts => NeverMixed' /\ Owned' /\ Distinct' /\ Room'
    BY <2>1, <2>3 DEF Contents, NeverMixed, Owned, OwnedBy, Distinct, Room, Without,
       InsideSlow
  <2> QED
    BY <2>1, <2>4, <2>5 DEF Contents, NothingStale, FinalSorts
<1>3. CASE QueryNothing
  <2>1. /\ source' \in canceled' \cup {0}
        /\ UNCHANGED <<settings, task, thread, todo, results>>
    BY <1>3 DEF QueryNothing, CancelSource, list
  <2> QED
    BY <2>1 DEF Contents, NothingStale, NeverMixed, Owned, OwnedBy, Distinct, Room, Without,
       Inside, InsideSlow, FinalSorts
<1>4. CASE UpdateListView
  BY <1>4 DEF UpdateListView, ui, list, Contents, NothingStale, NeverMixed, Owned, OwnedBy,
     Distinct, Room, Without, Inside, InsideSlow, Cleared, FinalSorts
<1>5. CASE Clear
  BY <1>5 DEF Clear, Contents, NothingStale, NeverMixed, Owned, OwnedBy, Distinct, Room,
     Without, FinalSorts, ui
<1>6. CASE BackgroundStep
  BY <1>6, TaskContents, SlowContents DEF BackgroundStep
<1> QED
  BY <1>1, <1>2, <1>3, <1>4, <1>5, <1>6 DEF Next

-----------------------------------------------------------------------------
(* After an empty query: the list is empty, or somebody will yet clear it.   *)

\* The threads that have, or had, results of the plugin
Found(q, p) == thread[q][p] \in {"lock", "add", "append", "dispatch"}

\* A query of spaces finds nothing, and one to come has not begun.
Barren ==
    /\ \A q \in Queries : q > source => todo[q] = {}
    /\ \A q \in Queries : text[q] = Empty =>
         todo[q] = {} /\ \A p \in Plugins : ~Found(q, p)

\* Some plugin is asked.
SomeAsked == \A q \in Queries : task[q] # "none" => Build(text[q]) # {}

\* The task whose token is live, if any, is one of spaces.
LiveIsEmpty ==
    currentQuery = Empty =>
        \A q \in Queries : task[q] # "none" /\ q \notin canceled => text[q] = Empty

Renewing ==
    source # 0 /\ source \notin canceled /\ task[source] \in {"start", "query", "lock"}
NothingComes ==
    /\ results = {}
    /\ \A q \in Queries : Inside(q) => todo[q] = {}
    /\ \A q \in Queries, p \in Plugins : thread[q][p] \notin {"add", "append"}

Emptied ==
    ~FinalSorts /\ currentQuery = Empty => clears > 0 \/ Renewing \/ NothingComes

Emptiness == Barren /\ SomeAsked /\ LiveIsEmpty /\ Emptied

LEMMA InitEmptiness == Init => Emptiness
BY DEF Init, Emptiness, Barren, Found, SomeAsked, LiveIsEmpty, Emptied, NothingComes, Inside

\* If spaces are asked about, so is every text.
LEMMA AskedForAll ==
    ASSUME Build(Empty) # {}, NEW t \in Texts
    PROVE  Build(t) # {}
BY DEF Build

LEMMA TaskFinds ==
    ASSUME TypeOK, NEW q \in Queries, TaskStep(q)
    PROVE  /\ UNCHANGED clears /\ task'[q] # "none"
           /\ todo'[q] \subseteq todo[q] \cup MayFind(q)
<1> USE StateTypes DEF Throws, TaskEnds
<1>0. TypeTask /\ TypeFound
  BY TypeParts
<1>1. \A s \in TaskStates : Go(q, s) => task'[q] = s
  BY <1>0, GoTypes
<1>2. UNCHANGED clears /\ task'[q] # "none"
  BY <1>1 DEF TaskStep, Start, Answer, TakeLock, CheckResults, AddResults, Finish,
     SlowFinish, SortCopies, SortClears, SortAdds
<1>3. CASE Answer(q)
  <2>1. CASE UNCHANGED todo
    BY <1>2, <2>1
  <2>2. ASSUME NEW ps \in SUBSET MayFind(q), todo' = [todo EXCEPT ![q] = ps]
        PROVE  todo'[q] \subseteq todo[q] \cup MayFind(q)
    BY <1>0, <2>2 DEF TypeFound
  <2> QED
    BY <1>2, <1>3, <2>1, <2>2 DEF Answer
<1>4. CASE AddResults(q)
  <2>1. CASE UNCHANGED todo
    BY <1>2, <2>1
  <2>2. ASSUME NEW p \in todo[q], todo' = [todo EXCEPT ![q] = @ \ {p}]
        PROVE  todo'[q] \subseteq todo[q]
    BY <1>0, <2>2 DEF TypeFound
  <2> QED
    BY <1>2, <1>4, <2>1, <2>2 DEF AddResults
<1>5. CASE UNCHANGED todo
  BY <1>2, <1>5
<1> QED
  BY <1>3, <1>4, <1>5 DEF TaskStep, Start, TakeLock, CheckResults, Finish, SlowFinish,
     SortCopies, SortClears, SortAdds

LEMMA SlowFinds ==
    ASSUME TypeOK, NEW q \in Queries, NEW p \in Plugins, SlowStep(q, p)
    PROVE  UNCHANGED clears /\ (Found(q, p)' => Found(q, p) \/ p \in MayFind(q))
<1> USE StateTypes DEF ThreadThrows, Found
<1>0. TypeThread
  BY TypeParts
<1>1. \A s \in ThreadStates : Thread(q, p, s) => thread'[q][p] = s
  BY <1>0, ThreadTypes
<1> QED
  BY <1>1 DEF SlowStep, SlowAnswer, SlowRemove, SlowCheck, SlowAdd, SlowDispatch

LEMMA TaskEmptiness ==
    ASSUME TypeOK, Discipline, Emptiness, NEW q \in Queries, TaskStep(q)
    PROVE  Emptiness'
<1>0. /\ TypeTask /\ TypeThread /\ TypeUi /\ Others(q) /\ UNCHANGED <<ui, made>>
      /\ \A r \in Queries : r # q => todo'[r] = todo[r]
  BY TypeParts, TaskKinds
<1>u. UNCHANGED <<currentQuery, source, canceled, settings, text>>
  BY <1>0 DEF ui, made
<1>1. Barren /\ SomeAsked /\ LiveIsEmpty /\ Emptied
  BY DEF Emptiness
<1>2. \/ Outside(q) \/ Enters(q) \/ Passes(q) \/ Adds(q) \/ Leaves(q) \/ Sorts(q)
  BY TaskKinds
<1>3. /\ UNCHANGED clears /\ task'[q] # "none"
      /\ todo'[q] \subseteq todo[q] \cup MayFind(q)
  BY TaskFinds
<1>4. task[q] # "none" /\ q <= source /\ source \in Queries
  <2>1. task[q] # "none"
    BY <1>2 DEF Outside, Enters, Passes, Adds, Leaves, Sorts, Inside
  <2> QED
    BY <1>0, <2>1 DEF Discipline, Order, TypeUi
<1>5. \A r \in Queries, p \in Plugins : thread'[r][p] # thread[r][p] =>
        thread'[r][p] \in {"query", "ended"}
  BY <1>2 DEF Outside, Enters, Passes, Adds, Leaves, Sorts
<1>6. Barren'
  <2>1. \A r \in Queries, p \in Plugins : Found(r, p)' => Found(r, p)
    BY <1>5 DEF Found
  <2>2. text[q] = Empty => todo'[q] \subseteq todo[q]
    BY <1>3 DEF MayFind
  <2>3. \A r \in Queries : r > source => r # q
    BY <1>0, <1>4 DEF TypeUi
  <2> QED
    BY <1>0, <1>1, <1>u, <2>1, <2>2, <2>3 DEF Barren
<1>7. SomeAsked' /\ LiveIsEmpty'
  BY <1>0, <1>1, <1>u, <1>4 DEF SomeAsked, LiveIsEmpty, Others, Build
<1>8. Emptied'
  <2> SUFFICES ASSUME ~FinalSorts, currentQuery = Empty
               PROVE  clears' > 0 \/ Renewing' \/ NothingComes'
    BY <1>u DEF Emptied, FinalSorts
  <2>1. CASE clears > 0
    BY <1>3, <2>1
  <2>2. CASE Enters(q)
    <3>1. todo[q] = {}
      BY <1>1, <2>2 DEF Enters, Barren
    <3>2. \A r \in Queries : r # q => ~Inside(r)'
      BY <1>0, <2>2, Alone DEF Enters, Others, Inside
    <3>3. \A r \in Queries, p \in Plugins : thread'[r][p] \notin {"add", "append"}
      BY <1>5, <2>2, Alone DEF Enters, InsideSlow
    <3> QED
      BY <2>2, <3>1, <3>2, <3>3 DEF NothingComes, Enters
  <2>3. CASE Renewing /\ ~Enters(q)
    <3>1. CASE q # source
      BY <1>0, <1>u, <1>4, <2>3, <3>1 DEF Renewing, Others
    <3>2. CASE q = source
      <4>1. Outside(q)
        BY <1>2, <2>3, <3>2 DEF Renewing, Passes, Adds, Leaves, Sorts, Inside
      <4>2. ~Cleared(q)'
        BY <2>3, <3>2, <4>1 DEF Renewing, Outside, Cleared
      <4> QED
        BY <1>u, <1>3, <2>3, <3>2, <4>2 DEF Renewing, Cleared
    <3> QED
      BY <3>1, <3>2
  <2>4. CASE NothingComes /\ ~Enters(q)
    <3>1. ~Adds(q) /\ ~Sorts(q)
      BY <2>4 DEF NothingComes, Adds, Sorts, Inside, Discipline, SortsOnDemand
    <3>2. results' = {}
      BY <1>2, <2>4, <3>1, ThinnedOnly DEF NothingComes, Outside, Passes, Leaves
    <3>3. Inside(q)' => todo'[q] = {}
      <4>1. CASE Passes(q)
        BY <2>4, <4>1 DEF NothingComes, Passes, Inside
      <4>2. CASE Outside(q) \/ Leaves(q)
        BY <4>2 DEF Outside, Leaves, Inside
      <4> QED
        BY <1>2, <2>4, <3>1, <4>1, <4>2
    <3>4. \A r \in Queries : r # q /\ Inside(r)' => todo'[r] = {}
      BY <1>0, <2>4 DEF NothingComes, Inside, Others
    <3>5. \A r \in Queries, p \in Plugins : thread'[r][p] \notin {"add", "append"}
      BY <1>5, <2>4 DEF NothingComes
    <3> QED
      BY <3>2, <3>3, <3>4, <3>5 DEF NothingComes
  <2> QED
    BY <1>1, <2>1, <2>2, <2>3, <2>4 DEF Emptied
<1> QED
  BY <1>6, <1>7, <1>8 DEF Emptiness

LEMMA SlowEmptiness ==
    ASSUME TypeOK, Discipline, Emptiness, NEW q \in Queries, NEW p \in Plugins,
           SlowStep(q, p)
    PROVE  Emptiness'
<1>0. TypeUi /\ SlowOthers(q, p) /\ UNCHANGED <<ui, made, task, todo>>
  BY TypeParts, SlowKinds
<1>u. UNCHANGED <<currentQuery, source, canceled, settings, text>>
  BY <1>0 DEF ui, made
<1>1. Barren /\ SomeAsked /\ LiveIsEmpty /\ Emptied
  BY DEF Emptiness
<1>2. \/ SlowOutside(q, p) \/ SlowEnters(q, p) \/ SlowPasses(q, p)
      \/ SlowAdds(q, p) \/ SlowLeaves(q, p)
  BY SlowKinds
<1>3. UNCHANGED clears /\ (Found(q, p)' => Found(q, p) \/ p \in MayFind(q))
  BY SlowFinds
<1>4. Barren'
  <2>1. text[q] = Empty => ~Found(q, p)'
    BY <1>1, <1>3 DEF Barren, MayFind
  <2>2. \A r \in Queries, o \in Plugins : r # q \/ o # p => (Found(r, o)' <=> Found(r, o))
    BY <1>0 DEF SlowOthers, Found
  <2> QED
    BY <1>0, <1>1, <1>u, <2>1, <2>2 DEF Barren
<1>5. SomeAsked' /\ LiveIsEmpty'
  BY <1>0, <1>1, <1>u DEF SomeAsked, LiveIsEmpty, Build
<1>6. Emptied'
  <2> SUFFICES ASSUME ~FinalSorts, currentQuery = Empty
               PROVE  clears' > 0 \/ Renewing' \/ NothingComes'
    BY <1>u DEF Emptied, FinalSorts
  <2>1. CASE clears > 0 \/ Renewing
    BY <1>0, <1>u, <1>3, <2>1 DEF Renewing
  <2>2. CASE NothingComes
    <3>1. ~SlowEnters(q, p)
      <4>1. SlowEnters(q, p) => task[q] = "slow" /\ q \notin canceled /\ Found(q, p)
        BY DEF SlowEnters, Found, Discipline, ThreadsOfSlow
      <4> QED
        BY <1>1, <4>1 DEF LiveIsEmpty, Barren
    <3>2. SlowOutside(q, p) \/ SlowLeaves(q, p)
      BY <1>2, <2>2, <3>1 DEF NothingComes, SlowPasses, SlowAdds
    <3>3. results' \subseteq results /\ thread'[q][p] \notin {"add", "append"}
      BY <3>2, ThinnedOnly DEF SlowOutside, SlowLeaves
    <3> QED
      BY <1>0, <2>2, <3>3 DEF NothingComes, Inside, SlowOthers
  <2> QED
    BY <1>1, <2>1, <2>2 DEF Emptied
<1> QED
  BY <1>4, <1>5, <1>6 DEF Emptiness

LEMMA UiEmptiness ==
    ASSUME TypeOK, Discipline, Emptiness, NEW t \in Texts, NEW d \in BOOLEAN,
           QueryResults(t, d)
    PROVE  Emptiness'
<1>0. TypeTask /\ TypeUi
  BY TypeParts
<1>1. Barren /\ SomeAsked /\ LiveIsEmpty /\ Emptied /\ Order /\ ThreadsOfSlow
  BY DEF Emptiness, Discipline
<1>2. /\ source' = source + 1 /\ source' \in Queries
      /\ canceled' = canceled \cup ({source} \ {0})
      /\ text' = [text EXCEPT ![source'] = t]
      /\ UNCHANGED <<settings, todo, thread, results, clears>>
  BY <1>0 DEF QueryResults, CancelSource, TypeUi, list
<1>3. \A q \in Queries : q # source' => text'[q] = text[q] /\ task'[q] = task[q]
  BY <1>0, <1>2 DEF QueryResults, TypeUi, TypeTask
<1>4. text'[source'] = t /\ task[source'] = "none"
  BY <1>0, <1>1, <1>2 DEF TypeUi, Order
<1>5. \A q \in Queries : q > source' => q > source
  BY <1>0, <1>2 DEF TypeUi
<1>6. Barren'
  <2>1. todo[source'] = {} /\ source' > source
    BY <1>0, <1>1, <1>2 DEF Barren, TypeUi
  <2>2. \A p \in Plugins : ~Found(source', p)
    BY <1>1, <1>2, <1>4 DEF ThreadsOfSlow, Found
  <2> QED
    BY <1>1, <1>2, <1>3, <1>5, <2>1, <2>2 DEF Barren, Found
<1>7. CASE Build(t) # {}
  <2>1. currentQuery' = t /\ task'[source'] = "start"
    BY <1>0, <1>2, <1>7 DEF QueryResults, TypeTask
  <2>2. \A q \in Queries : q # source' /\ task'[q] # "none" => q \in canceled'
    BY <1>0, <1>1, <1>2, <1>3 DEF Order, TypeUi
  <2>3. SomeAsked'
    BY <1>1, <1>2, <1>3, <1>4, <1>7 DEF SomeAsked, Build
  <2>4. LiveIsEmpty'
    BY <1>4, <2>1, <2>2 DEF LiveIsEmpty
  <2>5. source' \notin canceled' /\ source' # 0
    BY <1>0, <1>1, <1>2 DEF Order, TypeUi
  <2> QED
    BY <1>6, <2>1, <2>3, <2>4, <2>5 DEF Emptiness, Emptied, Renewing
<1>8. CASE Build(t) = {}
  <2>1. UNCHANGED <<currentQuery, task>>
    BY <1>8 DEF QueryResults
  <2>2. SomeAsked'
    BY <1>1, <1>2, <1>3, <1>4, <2>1 DEF SomeAsked, Build
  <2>3. LiveIsEmpty'
    BY <1>1, <1>2, <1>3, <1>4, <2>1 DEF LiveIsEmpty
  <2>4. Renewing => currentQuery # Empty
    <3>1. Renewing /\ currentQuery = Empty =>
            source \in Queries /\ text[source] = Empty /\ task[source] # "none"
      BY <1>0, <1>1 DEF Renewing, LiveIsEmpty, TypeUi
    <3> QED
      BY <1>1, <1>8, <3>1, AskedForAll DEF SomeAsked
  <2>5. NothingComes => NothingComes'
    BY <1>2, <2>1 DEF NothingComes, Inside
  <2>6. Emptied'
    BY <1>1, <1>2, <2>1, <2>4, <2>5 DEF Emptied, FinalSorts
  <2> QED
    BY <1>6, <2>2, <2>3, <2>6 DEF Emptiness
<1> QED
  BY <1>7, <1>8

LEMMA NextEmptiness == TypeOK /\ Discipline /\ Emptiness /\ [Next]_vars => Emptiness'
<1> SUFFICES ASSUME TypeOK, Discipline, Emptiness, [Next]_vars PROVE Emptiness'
  OBVIOUS
<1>0. TypeTask /\ TypeUi /\ TypeLists
  BY TypeParts
<1>1. CASE UNCHANGED vars \/ UpdateListView
  <2>1. UNCHANGED <<currentQuery, source, canceled, settings, text, task, todo, thread,
                    results, clears>>
    BY <1>1 DEF vars, ui, made, list, UpdateListView
  <2> QED
    BY <2>1 DEF Emptiness, Barren, Found, SomeAsked, Build, LiveIsEmpty, Emptied, Renewing,
       NothingComes, Inside, FinalSorts
<1>2. ASSUME NEW t \in Texts, NEW d \in BOOLEAN, QueryResults(t, d) PROVE Emptiness'
  BY <1>2, UiEmptiness
<1>3. CASE QueryNothing
  <2>1. /\ canceled' = canceled \cup ({source} \ {0})
        /\ UNCHANGED <<source, settings, text, task, todo, thread>>
        /\ clears' > 0
    BY <1>0, <1>3 DEF QueryNothing, CancelSource, made, TypeLists
  <2>2. \A q \in Queries : task'[q] # "none" => q \in canceled'
    BY <1>0, <2>1 DEF Discipline, Order, TypeUi
  <2> QED
    BY <2>1, <2>2 DEF Emptiness, Barren, Found, SomeAsked, Build, LiveIsEmpty, Emptied
<1>4. CASE Clear
  <2>1. /\ lock = <<>> /\ results' = {}
        /\ UNCHANGED <<currentQuery, source, canceled, settings, text, task, todo, thread>>
    BY <1>4 DEF Clear, ui, made
  <2>2. /\ \A q \in Queries : ~Inside(q)'
        /\ \A q \in Queries, p \in Plugins : thread'[q][p] \notin {"add", "append"}
    BY <2>1, Alone DEF Inside, InsideSlow
  <2>3. NothingComes'
    BY <2>1, <2>2 DEF NothingComes
  <2> QED
    BY <2>1, <2>3 DEF Emptiness, Barren, Found, SomeAsked, Build, LiveIsEmpty, Emptied
<1>5. CASE BackgroundStep
  BY <1>5, TaskEmptiness, SlowEmptiness DEF BackgroundStep
<1> QED
  BY <1>1, <1>2, <1>3, <1>4, <1>5 DEF Next

-----------------------------------------------------------------------------
(* What the window comes to show: the list of the query that last cleared it, *)
(* as far as its threads have got.                                           *)

\* The plugins that a query has still to add are among those that had results
\* for it, and a slow plugin has had some once its thread is past its answer.
Records ==
    /\ \A q \in Queries : todo[q] \subseteq fast[q]
    /\ \A q \in Queries :
         /\ ~Cleared(q) => todo[q] = fast[q]
         /\ Cleared(q) /\ ~Inside(q) /\ q \notin canceled => todo[q] = {}
    /\ \A q \in Queries : slow[q] # {} => Cleared(q) /\ ~Inside(q)
    /\ \A q \in Queries, p \in Plugins :
         /\ Found(q, p) => p \in slow[q]
         /\ p \in slow[q] => thread[q][p] \notin {"none", "query"}

\* Who cleared the list last is past that, and its text is the current one as
\* long as it is the latest query.
ClearedFor ==
    /\ clearedBy # 0 => Cleared(clearedBy)
    /\ Undisturbed => text[source] = currentQuery

Replaced(q, p) == p \in slow[q] /\ thread[q][p] # "lock"
Renewed(q, p)  == p \in slow[q] /\ thread[q][p] \in {"dispatch", "ended"}
Belongs(b) ==
    /\ b.query = source
    /\ IF b.speed = "slow" THEN Renewed(source, b.plugin)
       ELSE b.plugin \in fast[source] \ todo[source] /\ ~Replaced(source, b.plugin)

\* The window shows the list, or will be told to, or somebody in the lock has yet
\* to tell it.
Agrees     == shown = results /\ visible = (results # {})
Told       == \E i \in 1..Len(dispatched) : dispatched[i] = currentQuery
Working(q) == Inside(q) \/ \E p \in Plugins : InsideSlow(q, p)

\* A result of the history that has been taken out, or will be.
Known(b) == b.plugin \in History /\ FoundElsewhere(source)

Completing ==
    ~FinalSorts /\ Undisturbed =>
        /\ \A b \in Batch : b \in results => Belongs(b)
        /\ \A b \in Batch : Belongs(b) => b \in results \/ Known(b)
        /\ Repeated(results) = {} \/ Working(source)
        /\ Agrees \/ Told \/ Working(source)

Completeness == Records /\ ClearedFor /\ Completing

LEMMA InitCompleteness == Init => Completeness
BY DEF Init, Completeness, Records, Found, Inside, ClearedFor, Undisturbed, Completing

\* What becomes of the records when the task of a query makes a step.
LEMMA TaskRecords ==
    ASSUME TypeOK, NEW q \in Queries, TaskStep(q)
    PROVE  /\ UNCHANGED <<slow, shown, visible>>
           /\ \A r \in Queries : r # q => fast'[r] = fast[r]
           /\ \/ todo'[q] = todo[q] /\ fast'[q] = fast[q]
              \/ Adds(q) /\ todo'[q] \subseteq todo[q] /\ fast'[q] = fast[q]
              \/ task[q] = "query" /\ task'[q] = "lock" /\ todo'[q] = fast'[q]
           /\ \/ task[q] # "lock" /\ UNCHANGED clearedBy
              \/ Enters(q) /\ clearedBy' = q
              \/ task'[q] = "ended" /\ UNCHANGED clearedBy
<1> USE StateTypes DEF Throws, TaskEnds
<1>0. TypeTask /\ TypeFound
  BY TypeParts
<1>1. \A s \in TaskStates : Go(q, s) => task'[q] = s
  BY <1>0, GoTypes
<1>2. CASE Start(q)
  BY <1>2 DEF Start, found, list, view
<1>3. CASE Answer(q)
  <2>1. CASE UNCHANGED <<todo, fast>>
    BY <1>3, <2>1 DEF Answer, list, view
  <2>2. ASSUME NEW ps \in SUBSET MayFind(q), fast' = [fast EXCEPT ![q] = ps],
               todo' = [todo EXCEPT ![q] = ps], Go(q, "lock")
        PROVE  /\ \A r \in Queries : r # q => fast'[r] = fast[r]
               /\ task'[q] = "lock" /\ todo'[q] = fast'[q]
    BY <1>0, <1>1, <2>2 DEF TypeFound
  <2> QED
    BY <1>3, <2>1, <2>2 DEF Answer, list, view
<1>4. CASE TakeLock(q)
  BY <1>1, <1>4 DEF TakeLock, Enters, found, list, view
<1>5. CASE CheckResults(q)
  BY <1>5 DEF CheckResults, found, list, view
<1>6. CASE AddResults(q)
  <2>1. CASE UNCHANGED todo
    BY <1>6, <2>1 DEF AddResults, found, view
  <2>2. CASE Adds(q)
    BY <1>0, <1>6, <2>2 DEF AddResults, Adds, TypeFound, found, view
  <2> QED
    BY <1>1, <1>6, <2>1, <2>2 DEF AddResults, Adds
<1>7. CASE Finish(q)
  BY <1>7 DEF Finish, found, view
<1>8. CASE SlowFinish(q) \/ SortCopies(q) \/ SortClears(q) \/ SortAdds(q)
  BY <1>8 DEF SlowFinish, SortCopies, SortClears, SortAdds, found, list, view
<1> QED
  BY <1>2, <1>3, <1>4, <1>5, <1>6, <1>7, <1>8 DEF TaskStep

LEMMA AppendTells ==
    ASSUME dispatched \in Seq(Texts), NEW t \in Texts, dispatched' = Append(dispatched, t),
           UNCHANGED currentQuery
    PROVE  (Told => Told') /\ (t = currentQuery => Told')
<1>1. /\ Len(dispatched) \in Nat /\ Len(dispatched') = Len(dispatched) + 1
      /\ dispatched'[Len(dispatched) + 1] = t
      /\ \A i \in 1..Len(dispatched) : dispatched'[i] = dispatched[i]
  OBVIOUS
<1>2. Told => Told'
  BY <1>1 DEF Told
<1>3. t = currentQuery => Told'
  <2>1. Len(dispatched) + 1 \in 1..Len(dispatched')
    BY <1>1
  <2> QED
    BY <1>1, <2>1 DEF Told
<1> QED
  BY <1>2, <1>3

\* A task whose token is live leaves the lock when it has added everything, and
\* has the window told.
LEMMA TaskTells ==
    ASSUME TypeOK, NEW q \in Queries, TaskStep(q)
    PROVE  /\ q \notin canceled /\ Inside(q) /\ ~Inside(q)' =>
                /\ todo[q] = {} /\ UNCHANGED todo
                /\ ~FinalSorts => /\ results' = Sort(results)
                                  /\ dispatched' = Append(dispatched, text[q])
           /\ Told => Told'
           /\ Cleared(q) => Cleared(q)'
           /\ q \notin canceled /\ Cleared(q)' => Cleared(q) \/ Enters(q)
<1> USE StateTypes DEF Throws, TaskEnds
<1>0. TypeTask /\ TypeFound /\ TypeLists /\ TypeUi
  BY TypeParts
<1>1. \A s \in TaskStates : Go(q, s) => task'[q] = s
  BY <1>0, GoTypes
<1>2. /\ q \notin canceled /\ Inside(q) /\ ~Inside(q)' =>
          /\ todo[q] = {} /\ UNCHANGED todo
          /\ ~FinalSorts => /\ results' = Sort(results)
                            /\ dispatched' = Append(dispatched, text[q])
      /\ Cleared(q) => Cleared(q)'
      /\ q \notin canceled /\ Cleared(q)' => Cleared(q) \/ Enters(q)
  <2>1. CASE Start(q) \/ Answer(q) \/ SlowFinish(q) \/ SortCopies(q) \/ SortClears(q) \/ SortAdds(q)
    BY <1>1, <2>1 DEF Start, Answer, SlowFinish, SortCopies, SortClears, SortAdds, Inside, Cleared
  <2>2. CASE TakeLock(q)
    BY <1>1, <2>2 DEF TakeLock, Inside, Cleared, Enters
  <2>3. CASE CheckResults(q) \/ AddResults(q)
    BY <1>1, <2>3 DEF CheckResults, AddResults, Inside, Cleared
  <2>4. CASE Finish(q)
    BY <1>1, <2>4 DEF Finish, Inside, Cleared, Dispatch, Sorted
  <2> QED
    BY <2>1, <2>2, <2>3, <2>4 DEF TaskStep
<1>3. Told => Told'
  <2>1. UNCHANGED dispatched \/ dispatched' = Append(dispatched, text[q])
    BY DEF TaskStep, Start, Answer, TakeLock, CheckResults, AddResults, Finish, Dispatch,
       SlowFinish, SortCopies, SortClears, SortAdds
  <2>2. UNCHANGED currentQuery
    BY TaskKinds DEF ui
  <2>3. dispatched \in Seq(Texts) /\ text[q] \in Texts
    BY <1>0 DEF TypeLists, TypeUi
  <2> QED
    BY <2>1, <2>2, <2>3, AppendTells DEF Told
<1> QED
  BY <1>2, <1>3

\* The same for a step of the thread of a slow plugin.
LEMMA SlowRecords ==
    ASSUME TypeOK, NEW q \in Queries, NEW p \in Plugins, SlowStep(q, p)
    PROVE  /\ UNCHANGED <<fast, shown, visible, clearedBy>>
           /\ thread[q][p] \notin {"none", "ended"} /\ thread'[q][p] \notin {"none", "query"}
           /\ \/ UNCHANGED slow /\ thread'[q][p] # "lock"
              \/ /\ thread[q][p] = "query" /\ thread'[q][p] = "lock"
                 /\ slow' = [slow EXCEPT ![q] = @ \cup {p}]
           /\ q \notin canceled /\ SlowOutside(q, p) => thread[q][p] = "query"
           /\ q \notin canceled /\ SlowLeaves(q, p) =>
                /\ thread[q][p] = "dispatch"
                /\ ~FinalSorts => /\ results' = Sort(results)
                                  /\ dispatched' = Append(dispatched, text[q])
           /\ Told => Told'
<1> USE StateTypes DEF ThreadThrows
<1>0. TypeThread /\ TypeLists /\ TypeUi
  BY TypeParts
<1>1. \A s \in ThreadStates : Thread(q, p, s) => thread'[q][p] = s
  BY <1>0, ThreadTypes
<1>2. Told => Told'
  <2>1. UNCHANGED dispatched \/ dispatched' = Append(dispatched, text[q])
    BY DEF SlowStep, SlowAnswer, SlowRemove, SlowCheck, SlowAdd, SlowDispatch, Dispatch
  <2>2. UNCHANGED currentQuery
    BY SlowKinds DEF ui
  <2>3. dispatched \in Seq(Texts) /\ text[q] \in Texts
    BY <1>0 DEF TypeLists, TypeUi
  <2> QED
    BY <2>1, <2>2, <2>3, AppendTells DEF Told
<1>3. CASE SlowAnswer(q, p)
  BY <1>1, <1>2, <1>3 DEF SlowAnswer, SlowLeaves, InsideSlow, list, view
<1>4. CASE SlowRemove(q, p)
  BY <1>1, <1>2, <1>4 DEF SlowRemove, SlowOutside, SlowLeaves, InsideSlow, found, view
<1>5. CASE SlowCheck(q, p)
  BY <1>1, <1>2, <1>5 DEF SlowCheck, SlowOutside, SlowLeaves, found, list, view
<1>6. CASE SlowAdd(q, p)
  BY <1>1, <1>2, <1>6 DEF SlowAdd, SlowOutside, SlowLeaves, found, view
<1>7. CASE SlowDispatch(q, p)
  BY <1>1, <1>2, <1>7 DEF SlowDispatch, Dispatch, Sorted, SlowOutside, found, view
<1> QED
  BY <1>3, <1>4, <1>5, <1>6, <1>7 DEF SlowStep

\* What a sort takes out of the list of the source is known: who found it is in
\* the list, and so is one of the plugins that had results for the source.
LEMMA SortKnown ==
    ASSUME TypeOK, \A b \in Batch : b \in results => Belongs(b),
           NEW b \in Batch, b \in results
    PROVE  b \in Sort(results) \/ Known(b)
<1> SUFFICES ASSUME b \in Repeated(results) PROVE Known(b)
  BY DEF Sort
<1>1. PICK c \in results : c.plugin \notin History /\ c.speed \in Repeats[c.plugin]
  BY DEF Repeated
<1>2. c \in Batch /\ Belongs(c)
  BY <1>1 DEF TypeOK
<1>3. c.plugin \in Plugins /\ c.speed \in {"fast", "slow"}
  BY <1>2 DEF Batch
<1>4. \/ c.speed = "fast" /\ c.plugin \in fast[source]
      \/ c.speed = "slow" /\ c.plugin \in slow[source]
  BY <1>2, <1>3 DEF Belongs, Renewed
<1> QED
  BY <1>1, <1>3, <1>4 DEF Known, FoundElsewhere, Repeated

LEMMA TaskCompleteness ==
    ASSUME TypeOK, Discipline, Completeness, NEW q \in Queries, TaskStep(q)
    PROVE  Completeness'
<1>0. /\ TypeTask /\ TypeThread /\ TypeUi /\ Others(q)
      /\ UNCHANGED <<currentQuery, source, canceled, settings, text, slow, shown, visible>>
      /\ \A r \in Queries : r # q => todo'[r] = todo[r] /\ fast'[r] = fast[r]
  BY TypeParts, TaskKinds, TaskRecords DEF ui, made
<1>1. Records /\ ClearedFor /\ Completing
  BY DEF Completeness
<1>2. \/ Outside(q) \/ Enters(q) \/ Passes(q) \/ Adds(q) \/ Leaves(q) \/ Sorts(q)
  BY TaskKinds
<1>3. /\ \/ todo'[q] = todo[q] /\ fast'[q] = fast[q]
         \/ Adds(q) /\ todo'[q] \subseteq todo[q] /\ fast'[q] = fast[q]
         \/ task[q] = "query" /\ task'[q] = "lock" /\ todo'[q] = fast'[q]
      /\ \/ ~Enters(q) /\ UNCHANGED clearedBy
         \/ Enters(q) /\ clearedBy' = q
  BY TaskRecords DEF Enters, Outside
<1>4. /\ q \notin canceled /\ Inside(q) /\ ~Inside(q)' =>
           /\ todo[q] = {} /\ UNCHANGED todo
           /\ ~FinalSorts => /\ results' = Sort(results)
                             /\ dispatched' = Append(dispatched, text[q])
      /\ Told => Told'
      /\ Cleared(q) => Cleared(q)'
      /\ q \notin canceled /\ Cleared(q)' => Cleared(q) \/ Enters(q)
  BY TaskTells
<1>5. \A r \in Queries, p \in Plugins : thread'[r][p] # thread[r][p] =>
        Leaves(q) /\ r = q /\ thread'[r][p] \in {"query", "ended"}
  BY <1>2 DEF Outside, Enters, Passes, Adds, Leaves, Sorts
<1>6. \A r \in Queries : Cleared(r) => Cleared(r)'
  BY <1>0, <1>4 DEF Others, Cleared
<1>7. Records'
  <2>1. todo'[q] \subseteq fast'[q]
    BY <1>1, <1>3 DEF Records
  <2>2. ~Cleared(q)' => todo'[q] = fast'[q]
    BY <1>1, <1>3, <1>4 DEF Records, Adds, Cleared
  <2>3. Cleared(q)' /\ ~Inside(q)' /\ q \notin canceled => todo'[q] = {}
    <3>1. Cleared(q)' /\ ~Inside(q)' => ~Enters(q) /\ ~Adds(q)
      BY DEF Enters, Adds, Inside
    <3> QED
      BY <1>1, <1>3, <1>4, <3>1 DEF Records, Cleared
  <2>4. Cleared(q) /\ ~Inside(q) => ~Inside(q)'
    BY <1>2 DEF Outside, Enters, Passes, Adds, Leaves, Sorts, Inside, Cleared
  <2>5. \A r \in Queries : slow'[r] # {} => Cleared(r)' /\ ~Inside(r)'
    BY <1>0, <1>1, <1>6, <2>4 DEF Records, Others, Inside
  <2>6. \A r \in Queries, p \in Plugins : Found(r, p)' => p \in slow'[r]
    BY <1>0, <1>1, <1>5 DEF Records, Found
  <2>7. \A r \in Queries, p \in Plugins : p \in slow'[r] => thread'[r][p] \notin {"none", "query"}
    <3>1. Leaves(q) => slow[q] = {}
      BY <1>1 DEF Records, Leaves
    <3> QED
      BY <1>0, <1>1, <1>5, <3>1 DEF Records
  <2>8. \A r \in Queries : r # q => (Cleared(r)' <=> Cleared(r)) /\ (Inside(r)' <=> Inside(r))
    BY <1>0 DEF Others, Cleared, Inside
  <2>9. \A r \in Queries : todo'[r] \subseteq fast'[r]
    BY <1>0, <1>1, <2>1 DEF Records
  <2>10. \A r \in Queries :
           /\ ~Cleared(r)' => todo'[r] = fast'[r]
           /\ Cleared(r)' /\ ~Inside(r)' /\ r \notin canceled' => todo'[r] = {}
    BY <1>0, <1>1, <2>2, <2>3, <2>8 DEF Records
  <2> QED
    BY <2>5, <2>6, <2>7, <2>9, <2>10 DEF Records
<1>8. ClearedFor'
  <2>1. clearedBy' # 0 => Cleared(clearedBy)'
    <3>1. clearedBy \in 0..MaxQueries
      BY DEF TypeOK
    <3>2. Enters(q) => Cleared(q)'
      BY DEF Enters, Cleared
    <3>3. CASE Enters(q)
      BY <1>3, <3>2, <3>3 DEF Cleared
    <3>4. CASE UNCHANGED clearedBy
      BY <1>1, <1>6, <3>1, <3>4 DEF ClearedFor, Cleared
    <3> QED
      BY <1>3, <3>3, <3>4
  <2>2. Undisturbed' => text'[source'] = currentQuery'
    BY <1>0, <1>1, <1>3 DEF ClearedFor, Undisturbed, Enters
  <2> QED
    BY <2>1, <2>2 DEF ClearedFor
<1>9. Completing'
  <2> SUFFICES ASSUME ~FinalSorts, Undisturbed'
               PROVE  /\ \A b \in Batch : (b \in results)' => Belongs(b)'
                      /\ \A b \in Batch : Belongs(b)' => (b \in results)' \/ Known(b)'
                      /\ Repeated(results)' = {} \/ Working(source)'
                      /\ Agrees' \/ Told' \/ Working(source)'
    BY <1>0 DEF Completing, FinalSorts
  <2>0. source \in Queries /\ source \notin canceled /\ clearedBy' = source
    BY <1>0 DEF Undisturbed, TypeUi
  <2>1. CASE Enters(q)
    <3>1. q = source /\ results' = {}
      BY <1>3, <2>0, <2>1 DEF Enters
    <3>2. slow[q] = {} /\ todo[q] = fast[q] /\ todo'[q] = todo[q] /\ fast'[q] = fast[q]
      BY <1>1, <1>3, <2>1 DEF Records, Enters, Adds, Cleared
    <3>3. \A b \in Batch : ~Belongs(b)'
      BY <1>0, <3>1, <3>2 DEF Belongs, Renewed
    <3>4. Working(source)'
      BY <1>0, <2>1, <3>1 DEF Working, Inside, Enters
    <3> QED
      BY <3>1, <3>3, <3>4
  <2>2. CASE ~Enters(q)
    <3>0. /\ \A b \in Batch : b \in results => Belongs(b)
          /\ \A b \in Batch : Belongs(b) => b \in results \/ Known(b)
          /\ Repeated(results) = {} \/ Working(source)
          /\ Agrees \/ Told \/ Working(source)
          /\ Cleared(source)
          /\ text[source] = currentQuery
      BY <1>0, <1>1, <1>3, <2>0, <2>2 DEF Completing, ClearedFor, Undisturbed
    <3>1. ~Sorts(q)
      BY DEF Sorts, Discipline, SortsOnDemand
    <3>k. \A b \in Batch : Known(b) => Known(b)'
      <4>1. fast'[source] = fast[source] /\ slow'[source] = slow[source]
        BY <1>0, <1>3, <2>0, <3>0 DEF Cleared
      <4> QED
        BY <1>0, <4>1 DEF Known, FoundElsewhere
    <3>2. CASE q # source
      <4>1. ~Adds(q)
        BY <2>0, <3>0, <3>2 DEF Adds, Discipline, Passed, PassedBefore
      <4>0. Leaves(q) => ~Working(source)
        BY <2>0, <3>2, Alone DEF Leaves, Working
      <4>2. UNCHANGED results
        BY <1>2, <2>2, <3>0, <3>1, <4>0, <4>1, SortRemoves
        DEF Outside, Passes, Leaves, Thinned
      <4>3. /\ todo'[source] = todo[source] /\ fast'[source] = fast[source]
            /\ \A p \in Plugins : thread'[source][p] = thread[source][p]
            /\ task'[source] = task[source]
        BY <1>0, <1>5, <2>0, <3>2 DEF Others
      <4>4. \A b \in Batch : Belongs(b)' <=> Belongs(b)
        BY <1>0, <4>3 DEF Belongs, Renewed, Replaced, Batch
      <4>5. (Working(source) => Working(source)') /\ (Agrees => Agrees')
        BY <1>0, <4>2, <4>3 DEF Working, Inside, InsideSlow, Agrees
      <4> QED
        BY <1>4, <3>0, <3>k, <4>2, <4>4, <4>5
    <3>3. CASE q = source /\ (Outside(q) \/ Passes(q))
      <4>1. UNCHANGED <<results, thread>>
        BY <3>3 DEF Outside, Passes
      <4>2. todo'[q] = todo[q] /\ fast'[q] = fast[q]
        BY <1>3, <3>0, <3>3 DEF Outside, Passes, Adds, Inside, Cleared
      <4>3. \A b \in Batch : Belongs(b)' <=> Belongs(b)
        BY <1>0, <3>3, <4>1, <4>2 DEF Belongs, Renewed, Replaced
      <4>4. Inside(q) => Inside(q)'
        BY <3>3 DEF Outside, Passes, Inside
      <4>5. (Working(source) => Working(source)') /\ (Agrees => Agrees')
        BY <1>0, <3>3, <4>1, <4>4 DEF Working, InsideSlow, Agrees
      <4> QED
        BY <1>4, <3>0, <3>k, <4>1, <4>3, <4>5
    <3>4. CASE q = source /\ Adds(q)
      <4>1. PICK p \in todo[q] :
               /\ results' = results \cup {[query |-> q, plugin |-> p, speed |-> "fast"]}
               /\ todo' = [todo EXCEPT ![q] = @ \ {p}]
        BY <3>4 DEF Adds
      <4>2. /\ todo'[q] = todo[q] \ {p} /\ fast'[q] = fast[q] /\ p \in fast[q]
            /\ UNCHANGED thread /\ Inside(q) /\ Inside(q)'
        BY <1>1, <1>3, <3>4, <4>1, TypeParts DEF TypeFound, Records, Adds, Inside
      <4>3. slow[q] = {}
        BY <1>1, <4>2 DEF Records
      <4>4. \A b \in Batch : Belongs(b)' <=>
              Belongs(b) \/ (b.query = q /\ b.speed # "slow" /\ b.plugin = p)
        BY <1>0, <3>4, <4>2, <4>3 DEF Belongs, Renewed, Replaced
      <4>5. \A b \in Batch : b.query = q /\ b.speed # "slow" /\ b.plugin = p <=>
              b = [query |-> q, plugin |-> p, speed |-> "fast"]
        BY DEF Batch
      <4>6. Working(source)'
        BY <1>0, <3>4, <4>2 DEF Working
      <4> QED
        BY <3>0, <3>k, <4>1, <4>4, <4>5, <4>6
    <3>5. CASE q = source /\ Leaves(q)
      <4>1. Inside(q) /\ ~Inside(q)'
        BY <3>5 DEF Leaves, Inside
      <4>2. /\ todo'[q] = todo[q] /\ fast'[q] = fast[q] /\ slow[q] = {}
            /\ results' = Sort(results)
            /\ dispatched' = Append(dispatched, currentQuery)
        BY <1>1, <1>3, <1>4, <2>0, <3>0, <3>5, <4>1 DEF Records, Inside, Adds
      <4>3. \A b \in Batch : Belongs(b)' <=> Belongs(b)
        BY <1>0, <3>5, <4>2 DEF Belongs, Renewed, Replaced
      <4>4. Told'
        BY <1>0, <4>2, AppendTells DEF TypeOK
      <4>5. \A b \in Batch : b \in results => b \in results' \/ Known(b)
        BY <3>0, <4>2, SortKnown
      <4> QED
        BY <3>0, <3>k, <4>2, <4>3, <4>4, <4>5, SortRemoves
    <3> QED
      BY <1>2, <2>2, <3>1, <3>2, <3>3, <3>4, <3>5
  <2> QED
    BY <2>1, <2>2
<1> QED
  BY <1>7, <1>8, <1>9 DEF Completeness

LEMMA SlowCompleteness ==
    ASSUME TypeOK, Discipline, Completeness, NEW q \in Queries, NEW p \in Plugins,
           SlowStep(q, p)
    PROVE  Completeness'
<1>0. /\ TypeThread /\ TypeUi /\ SlowOthers(q, p)
      /\ UNCHANGED <<currentQuery, source, canceled, settings, text, task, todo, fast,
                     shown, visible, clearedBy>>
  BY TypeParts, SlowKinds, SlowRecords DEF ui, made
<1>1. Records /\ ClearedFor /\ Completing
  BY DEF Completeness
<1>2. \/ SlowOutside(q, p) \/ SlowEnters(q, p) \/ SlowPasses(q, p)
      \/ SlowAdds(q, p) \/ SlowLeaves(q, p)
  BY SlowKinds
<1>3. /\ thread[q][p] \notin {"none", "ended"} /\ thread'[q][p] \notin {"none", "query"}
      /\ q \notin canceled /\ SlowOutside(q, p) => thread[q][p] = "query"
      /\ q \notin canceled /\ SlowLeaves(q, p) =>
           /\ thread[q][p] = "dispatch"
           /\ ~FinalSorts => /\ results' = Sort(results)
                             /\ dispatched' = Append(dispatched, text[q])
      /\ Told => Told'
  BY SlowRecords
<1>4. /\ \A r \in Queries : r # q => slow'[r] = slow[r]
      /\ \/ slow'[q] = slow[q] /\ thread'[q][p] # "lock"
         \/ /\ thread[q][p] = "query" /\ thread'[q][p] = "lock"
            /\ slow'[q] = slow[q] \cup {p}
  <2>1. slow \in [Queries -> SUBSET Plugins]
    BY TypeParts DEF TypeFound
  <2>2. \/ UNCHANGED slow /\ thread'[q][p] # "lock"
        \/ /\ thread[q][p] = "query" /\ thread'[q][p] = "lock"
           /\ slow' = [slow EXCEPT ![q] = @ \cup {p}]
    BY SlowRecords
  <2> QED
    BY <2>1, <2>2
<1>5. task[q] = "slow" /\ (q = source \/ q \in canceled)
  BY <1>0, <1>3 DEF Discipline, ThreadsOfSlow, Order, TypeUi
<1>6. Records'
  <2>1. \A r \in Queries : slow'[r] # {} => Cleared(r)' /\ ~Inside(r)'
    BY <1>0, <1>1, <1>4, <1>5 DEF Records, Cleared, Inside
  <2>2. Found(q, p)' => p \in slow'[q]
    <3>1. CASE thread'[q][p] = "lock"
      BY <1>4, <3>1
    <3>2. CASE thread'[q][p] # "lock" /\ Found(q, p)'
      <4>1. Found(q, p)
        BY <1>2, <3>2
        DEF Found, SlowOutside, SlowEnters, SlowPasses, SlowAdds, SlowLeaves, InsideSlow
      <4> QED
        BY <1>1, <1>4, <4>1 DEF Records
    <3> QED
      BY <3>1, <3>2
  <2>3. \A r \in Queries, o \in Plugins : r # q \/ o # p =>
          /\ Found(r, o)' <=> Found(r, o)
          /\ o \in slow'[r] <=> o \in slow[r]
    BY <1>0, <1>4 DEF SlowOthers, Found
  <2>4. \A r \in Queries, o \in Plugins :
          /\ Found(r, o)' => o \in slow'[r]
          /\ o \in slow'[r] => thread'[r][o] \notin {"none", "query"}
    BY <1>0, <1>1, <1>3, <2>2, <2>3 DEF Records, SlowOthers
  <2> QED
    BY <1>0, <1>1, <2>1, <2>4 DEF Records, Cleared, Inside
<1>7. ClearedFor'
  BY <1>0, <1>1 DEF ClearedFor, Undisturbed, Cleared
<1>8. Completing'
  <2> SUFFICES ASSUME ~FinalSorts, Undisturbed
               PROVE  /\ \A b \in Batch : (b \in results)' => Belongs(b)'
                      /\ \A b \in Batch : Belongs(b)' => (b \in results)' \/ Known(b)'
                      /\ Repeated(results)' = {} \/ Working(source)'
                      /\ Agrees' \/ Told' \/ Working(source)'
    BY <1>0 DEF Completing, FinalSorts, Undisturbed
  <2>0. source \in Queries /\ source \notin canceled
    BY <1>0 DEF Undisturbed, TypeUi
  <2>1. /\ \A b \in Batch : b \in results => Belongs(b)
        /\ \A b \in Batch : Belongs(b) => b \in results \/ Known(b)
        /\ Repeated(results) = {} \/ Working(source)
        /\ Agrees \/ Told \/ Working(source)
        /\ Cleared(source) /\ text[source] = currentQuery
    BY <1>1, <2>0 DEF Completing, ClearedFor, Undisturbed
  <2>k. \A b \in Batch : Known(b) => Known(b)'
    <3>1. fast'[source] = fast[source] /\ slow[source] \subseteq slow'[source]
      BY <1>0, <1>4, <2>0
    <3> QED
      BY <1>0, <3>1 DEF Known, FoundElsewhere
  <2>2. CASE q # source
    <3>1. ~SlowEnters(q, p) /\ ~SlowPasses(q, p)
      BY <1>5, <2>2 DEF SlowEnters, SlowPasses
    <3>2. ~SlowAdds(q, p)
      BY <2>0, <2>1, <2>2 DEF SlowAdds, Discipline, Passed, PassedBefore
    <3>0. SlowLeaves(q, p) => ~Working(source)
      BY <2>0, <2>2, Alone DEF SlowLeaves, Working
    <3>3. UNCHANGED results
      BY <1>2, <2>1, <3>0, <3>1, <3>2, SortRemoves DEF SlowOutside, SlowLeaves, Thinned
    <3>4. slow'[source] = slow[source]
          /\ \A o \in Plugins : thread'[source][o] = thread[source][o]
      BY <1>0, <1>4, <2>0, <2>2 DEF SlowOthers
    <3>5. \A b \in Batch : Belongs(b)' <=> Belongs(b)
      BY <1>0, <3>4 DEF Belongs, Renewed, Replaced, Batch
    <3>6. (Working(source) => Working(source)') /\ (Agrees => Agrees')
      BY <1>0, <3>3, <3>4 DEF Working, Inside, InsideSlow, Agrees
    <3> QED
      BY <1>3, <2>1, <2>k, <3>3, <3>5, <3>6
  <2>3. CASE q = source
    <3>1. \A o \in Plugins : o # p =>
            /\ Renewed(q, o)' <=> Renewed(q, o)
            /\ Replaced(q, o)' <=> Replaced(q, o)
            /\ InsideSlow(q, o)' <=> InsideSlow(q, o)
      BY <1>0, <1>4 DEF SlowOthers, Renewed, Replaced, InsideSlow
    <3>2. \A b \in Batch : b.plugin # p => (Belongs(b)' <=> Belongs(b))
      BY <1>0, <2>3, <3>1 DEF Belongs, Batch
    <3>3. CASE SlowOutside(q, p)
      <4>1. thread[q][p] = "query" /\ p \notin slow[q] /\ UNCHANGED results
        BY <1>1, <1>3, <2>0, <2>3, <3>3 DEF Records, SlowOutside
      <4>2. /\ ~Renewed(q, p) /\ ~Replaced(q, p) /\ ~InsideSlow(q, p)
            /\ ~Renewed(q, p)' /\ ~Replaced(q, p)'
        BY <1>4, <4>1 DEF Renewed, Replaced, InsideSlow
      <4>3. \A b \in Batch : b.plugin = p => (Belongs(b)' <=> Belongs(b))
        BY <1>0, <2>3, <4>2 DEF Belongs
      <4>4. (Working(source) => Working(source)') /\ (Agrees => Agrees')
        BY <1>0, <2>3, <3>1, <4>1, <4>2 DEF Working, Inside, Agrees
      <4> QED
        BY <1>3, <2>1, <2>k, <3>2, <4>1, <4>3, <4>4
    <3>4. CASE SlowEnters(q, p)
      <4>1. /\ p \in slow[q] /\ slow'[q] = slow[q] /\ thread'[q][p] = "add"
            /\ results' = {b \in results : b.plugin # p}
        BY <1>1, <1>4, <3>4 DEF Records, Found, SlowEnters
      <4>2. ~Renewed(q, p)' /\ Replaced(q, p)' /\ InsideSlow(q, p)'
        BY <4>1 DEF Renewed, Replaced, InsideSlow
      <4>3. \A b \in Batch : b.plugin = p => ~Belongs(b)'
        BY <1>0, <2>3, <4>2 DEF Belongs
      <4> QED
        BY <1>0, <2>1, <2>3, <2>k, <3>2, <4>1, <4>2, <4>3 DEF Working
    <3>5. CASE SlowPasses(q, p)
      <4>1. /\ slow'[q] = slow[q] /\ thread[q][p] = "add" /\ thread'[q][p] = "append"
            /\ UNCHANGED results
        BY <1>4, <3>5 DEF SlowPasses
      <4>2. /\ Renewed(q, p)' <=> Renewed(q, p)
            /\ Replaced(q, p)' <=> Replaced(q, p)
            /\ InsideSlow(q, p)'
        BY <4>1 DEF Renewed, Replaced, InsideSlow
      <4>3. \A b \in Batch : b.plugin = p => (Belongs(b)' <=> Belongs(b))
        BY <1>0, <2>3, <4>2 DEF Belongs
      <4> QED
        BY <1>0, <2>1, <2>3, <2>k, <3>2, <4>1, <4>2, <4>3 DEF Working
    <3>6. CASE SlowAdds(q, p)
      <4>1. /\ p \in slow[q] /\ slow'[q] = slow[q]
            /\ thread[q][p] = "append" /\ thread'[q][p] = "dispatch"
            /\ results' = results \cup {[query |-> q, plugin |-> p, speed |-> "slow"]}
        BY <1>1, <1>4, <3>6 DEF Records, Found, SlowAdds
      <4>2. /\ Renewed(q, p)' /\ ~Renewed(q, p) /\ Replaced(q, p)' /\ Replaced(q, p)
            /\ InsideSlow(q, p)'
        BY <4>1 DEF Renewed, Replaced, InsideSlow
      <4>3. \A b \in Batch : b.plugin = p =>
              (Belongs(b)' <=> b.query = q /\ b.speed = "slow") /\ ~Belongs(b)
        BY <1>0, <2>3, <4>2 DEF Belongs
      <4>4. \A b \in Batch : b.query = q /\ b.speed = "slow" /\ b.plugin = p <=>
              b = [query |-> q, plugin |-> p, speed |-> "slow"]
        BY DEF Batch
      <4>5. /\ \A b \in Batch : (b \in results)' => Belongs(b)'
            /\ \A b \in Batch : Belongs(b)' => (b \in results)' \/ Known(b)'
        BY <2>1, <2>k, <3>2, <4>1, <4>3, <4>4
      <4> QED
        BY <1>0, <2>3, <4>2, <4>5 DEF Working
    <3>7. CASE SlowLeaves(q, p)
      <4>1. /\ thread[q][p] = "dispatch" /\ thread'[q][p] = "ended" /\ slow'[q] = slow[q]
            /\ results' = Sort(results)
            /\ dispatched' = Append(dispatched, currentQuery)
        BY <1>3, <1>4, <2>0, <2>1, <2>3, <3>7 DEF SlowLeaves
      <4>2. /\ Renewed(q, p)' <=> Renewed(q, p)
            /\ Replaced(q, p)' <=> Replaced(q, p)
        BY <4>1 DEF Renewed, Replaced
      <4>3. \A b \in Batch : b.plugin = p => (Belongs(b)' <=> Belongs(b))
        BY <1>0, <2>3, <4>2 DEF Belongs
      <4>4. Told'
        BY <1>0, <4>1, AppendTells DEF TypeOK
      <4>5. \A b \in Batch : b \in results => b \in results' \/ Known(b)
        BY <2>1, <4>1, SortKnown
      <4> QED
        BY <2>1, <2>k, <3>2, <4>1, <4>3, <4>4, <4>5, SortRemoves
    <3> QED
      BY <1>2, <3>3, <3>4, <3>5, <3>6, <3>7
  <2> QED
    BY <2>2, <2>3
<1> QED
  BY <1>6, <1>7, <1>8 DEF Completeness

LEMMA NextCompleteness == TypeOK /\ Discipline /\ Completeness /\ [Next]_vars => Completeness'
<1> SUFFICES ASSUME TypeOK, Discipline, Completeness, [Next]_vars PROVE Completeness'
  OBVIOUS
<1>0. TypeTask /\ TypeUi /\ TypeLists
  BY TypeParts
<1>1. Records /\ ClearedFor /\ Completing
  BY DEF Completeness
<1>2. CASE UNCHANGED vars
  BY <1>2 DEF vars, ui, made, found, list, view, Completeness, Records, Found, ClearedFor,
     Undisturbed, Completing, Belongs, Known, FoundElsewhere, Renewed, Replaced, Agrees,
     Told, Working, Inside, InsideSlow, Cleared, FinalSorts
<1>3. ASSUME NEW t \in Texts, NEW d \in BOOLEAN, QueryResults(t, d) PROVE Completeness'
  <2>1. /\ source' = source + 1 /\ source' \in Queries
        /\ canceled \subseteq canceled'
        /\ UNCHANGED <<thread, todo, fast, slow, clearedBy>>
    BY <1>0, <1>3 DEF QueryResults, CancelSource, TypeUi, found, list
  <2>2. /\ task'[source'] \in {"none", "start"} /\ task[source'] = "none"
        /\ \A r \in Queries : r # source' => task'[r] = task[r]
    BY <1>0, <1>3, <2>1 DEF QueryResults, TypeTask, TypeUi, Discipline, Order
  <2>3. \A r \in Queries : (Cleared(r)' <=> Cleared(r)) /\ (Inside(r)' <=> Inside(r))
    BY <2>2 DEF Cleared, Inside
  <2>4. Records'
    BY <1>1, <2>1, <2>3 DEF Records, Found
  <2>5. clearedBy \in 0..MaxQueries
    BY <1>0 DEF TypeLists
  <2>6. (clearedBy' # 0 => Cleared(clearedBy)') /\ ~Undisturbed'
    BY <1>1, <2>1, <2>2, <2>3, <2>5 DEF ClearedFor, Undisturbed, Cleared
  <2> QED
    BY <2>4, <2>6 DEF Completeness, ClearedFor, Completing
<1>4. CASE QueryNothing
  <2>1. /\ canceled \subseteq canceled' /\ (source > 0 => source \in canceled')
        /\ UNCHANGED <<source, task, thread, todo, fast, slow, clearedBy>>
    BY <1>0, <1>4 DEF QueryNothing, CancelSource, TypeUi, found, list
  <2>2. ~Undisturbed'
    BY <2>1 DEF Undisturbed
  <2> QED
    BY <1>1, <2>1, <2>2 DEF Completeness, Records, Found, Inside, Cleared, ClearedFor,
       Completing
<1>5. CASE Clear
  <2>1. clearedBy' = 0 /\ UNCHANGED <<source, canceled, task, thread, todo, fast, slow>>
    BY <1>5 DEF Clear, ui, found
  <2>2. ~Undisturbed'
    BY <2>1 DEF Undisturbed
  <2> QED
    BY <1>1, <2>1, <2>2 DEF Completeness, Records, Found, Inside, Cleared, ClearedFor,
       Completing
<1>6. CASE UpdateListView
  <2>1. UNCHANGED <<currentQuery, source, canceled, settings, text, task, thread, todo,
                    fast, slow, results, clearedBy>>
    BY <1>6 DEF UpdateListView, ui, made, found, list
  <2>2. Agrees => Agrees'
    BY <1>6, <2>1 DEF UpdateListView, Agrees
  <2>3. Told => Agrees' \/ Told'
    <3>0. dispatched \in Seq(Texts) /\ dispatched # <<>>
      BY <1>0, <1>6 DEF TypeLists, UpdateListView
    <3>1. CASE Head(dispatched) = currentQuery
      BY <1>6, <2>1, <3>1 DEF UpdateListView, Agrees
    <3>2. CASE Head(dispatched) # currentQuery
      <4> SUFFICES ASSUME NEW i \in 1..Len(dispatched), dispatched[i] = currentQuery
                   PROVE  Told'
        BY DEF Told
      <4>1. i # 1 /\ i - 1 \in 1..Len(Tail(dispatched))
            /\ Tail(dispatched)[i - 1] = dispatched[i]
        BY <3>0, <3>2
      <4> QED
        BY <1>6, <2>1, <4>1 DEF Told, UpdateListView
    <3> QED
      BY <3>1, <3>2
  <2>4. Working(source) => Working(source)'
    BY <2>1 DEF Working, Inside, InsideSlow
  <2>5. \A b \in Batch : (Belongs(b)' <=> Belongs(b)) /\ (Known(b)' <=> Known(b))
    BY <2>1 DEF Belongs, Renewed, Replaced, Known, FoundElsewhere
  <2>6. Completing'
    BY <1>1, <2>1, <2>2, <2>3, <2>4, <2>5 DEF Completing, Undisturbed, FinalSorts
  <2> QED
    BY <1>1, <2>1, <2>6 DEF Completeness, Records, Found, Inside, Cleared, ClearedFor,
       Undisturbed
<1>7. CASE BackgroundStep
  BY <1>7, TaskCompleteness, SlowCompleteness DEF BackgroundStep
<1> QED
  BY <1>2, <1>3, <1>4, <1>5, <1>6, <1>7 DEF Next

LEMMA Invariant == Spec => [](TypeOK /\ Discipline /\ Contents /\ Emptiness /\ Completeness)
<1>1. Init => TypeOK /\ Discipline /\ Contents /\ Emptiness /\ Completeness
  BY InitTypes, InitDiscipline, InitContents, InitEmptiness, InitCompleteness
<1>2. TypeOK /\ Discipline /\ Contents /\ Emptiness /\ Completeness /\ [Next]_vars =>
        (TypeOK /\ Discipline /\ Contents /\ Emptiness /\ Completeness)'
  BY NextTypes, NextDiscipline, NextContents, NextEmptiness, NextCompleteness
<1> QED
  BY <1>1, <1>2, PTL DEF Spec

\* The list never holds results of two queries, and nothing of an earlier one
\* once the latest has cleared it, whatever their threads still do.
THEOREM OfOneQueryEver == Spec => []OfOneQuery
<1>1. Contents => OfOneQuery
  BY DEF Contents, OfOneQuery, NothingStale, NeverMixed
<1> QED
  BY <1>1, Invariant, PTL

\* No plugin is in the list twice, with its fast results and with its slow ones.
THEOREM OnceEachEver == Spec => []OnceEach
<1>1. Contents => OnceEach
  BY DEF Contents, OnceEach, Distinct
<1> QED
  BY <1>1, Invariant, PTL

\* When everything has come to rest after an empty query, the list is empty: what
\* was under way has been cleared, or was of spaces and found nothing.
THEOREM EmptyForEver == Spec => []EmptyStaysEmpty
<1>1. TypeOK /\ Emptiness => EmptyStaysEmpty
  <2> SUFFICES ASSUME TypeOK, Emptiness, ~FinalSorts, Quiet, currentQuery = Empty
               PROVE  results = {}
    BY DEF EmptyStaysEmpty
  <2>1. source # 0 => source \in Queries
    BY DEF TypeOK
  <2> QED
    BY <2>1 DEF Emptiness, Emptied, Renewing, NothingComes, Quiet
<1> QED
  BY <1>1, Invariant, PTL

\* When everything has come to rest and nobody has cleared the list after the latest
\* query, it is what the plugins found for that, the slow results in place of the
\* fast ones, and the window shows it; all that is missing is a result of the
\* history that another plugin found as well, which is never beside that.
THEOREM CompleteEver == Spec => []WindowComplete
<1>1. TypeOK /\ Discipline /\ Completeness => WindowComplete
  <2> SUFFICES ASSUME TypeOK, Discipline, Completeness, ~FinalSorts, Quiet, Undisturbed
               PROVE  /\ results \subseteq Expected(source)
                      /\ \A b \in Expected(source) \ results : Known(b)
                      /\ Repeated(results) = {}
                      /\ Agrees
    BY DEF WindowComplete, Agrees, Known
  <2>0. source \in Queries /\ source \notin canceled
    BY DEF TypeOK, Undisturbed
  <2>1. /\ Cleared(source) /\ ~Inside(source) /\ todo[source] = {}
        /\ \A b \in Batch : b \in results => Belongs(b)
        /\ \A b \in Batch : Belongs(b) => b \in results \/ Known(b)
        /\ Repeated(results) = {} \/ Working(source)
        /\ Agrees \/ Told \/ Working(source)
    BY <2>0 DEF Completeness, Records, ClearedFor, Completing, Quiet, Undisturbed, Cleared,
       Inside
  <2>2. \A p \in Plugins : thread[source][p] \in {"none", "ended"}
    BY <2>0 DEF Discipline, ThreadsOfSlow, Quiet
  <2>3. ~Working(source) /\ ~Told
    BY <2>1, <2>2 DEF Working, InsideSlow, Told, Quiet
  <2>4. \A p \in Plugins :
          (Renewed(source, p) <=> p \in slow[source]) /\ (Replaced(source, p) <=> p \in slow[source])
    BY <2>0, <2>2 DEF Completeness, Records, Renewed, Replaced
  <2>5. fast[source] \subseteq Plugins /\ slow[source] \subseteq Plugins
    BY <2>0 DEF TypeOK
  <2>6. Expected(source) \subseteq Batch /\ results \subseteq Batch
    BY <2>0, <2>5 DEF Expected, Batch, TypeOK
  <2>7. \A b \in Batch : b \in Expected(source) <=> Belongs(b)
    <3> SUFFICES ASSUME NEW b \in Batch PROVE b \in Expected(source) <=> Belongs(b)
      OBVIOUS
    <3>1. /\ b = [query |-> b.query, plugin |-> b.plugin, speed |-> b.speed]
          /\ b.plugin \in Plugins /\ b.speed \in {"fast", "slow"}
      BY DEF Batch
    <3>2. Belongs(b) <=>
            /\ b.query = source
            /\ \/ b.speed = "slow" /\ b.plugin \in slow[source]
               \/ b.speed = "fast" /\ b.plugin \in fast[source] \ slow[source]
      BY <2>1, <2>4, <3>1 DEF Belongs
    <3> QED
      BY <3>1, <3>2 DEF Expected
  <2> QED
    BY <2>1, <2>3, <2>6, <2>7
<1> QED
  BY <1>1, Invariant, PTL
=============================================================================
