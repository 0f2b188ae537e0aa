------------------------ MODULE PowerRenameProofs ------------------------
(***************************************************************************)
(* Proofs about PowerRename for any items, names, terms and flags and any  *)
(* number of changes, renames and renames that overlap.                    *)
(***************************************************************************)
EXTENDS PowerRename, WellFoundedInduction, SequenceTheorems, TLAPS

USE PowerRenameAssumption

-----------------------------------------------------------------------------
\* Every layer above an item has a folder: the last item before it (or it
\* itself) that is not deeper

LEMMA NatsHaveMinimum ==
    ASSUME NEW T, T \subseteq Nat, T # {}
    PROVE  \E x \in T : \A y \in T : x <= y
<1> DEFINE R == OpToRel(<, Nat)
<1>1. IsWellFoundedOn(R, Nat)
  BY NatLessThanWellFounded
<1>2. \A x, y \in Nat : x < y => <<x, y>> \in R
  BY DEF OpToRel
<1> HIDE DEF R
<1>3. PICK x \in T : \A y \in T : <<y, x>> \notin R
  BY <1>1, WFMin
<1>4. \A y \in T : ~(y < x)
  BY <1>2, <1>3
<1>5. \A y \in T : y \in Nat
  OBVIOUS
<1> QED BY <1>4, <1>5

LEMMA AncestorExists ==
    ASSUME NEW i \in Items, NEW d \in 0 .. Depth[i]
    PROVE  \E j \in 1 .. i : Depth[j] = d /\ \A k \in j + 1 .. i : Depth[k] > d
<1> DEFINE S == {j \in 1 .. i : Depth[j] <= d}
           T == {i - j : j \in S}
<1>1. 1 \in S
  BY DEF Items
<1>2. T \subseteq Nat /\ T # {}
  BY <1>1 DEF Items
<1> HIDE DEF T
<1>3. PICK m \in T : \A n \in T : m <= n
  BY <1>2, NatsHaveMinimum
<1> USE DEF T
<1>4. PICK j \in S : m = i - j
  OBVIOUS
<1>5. \A k \in S : i - j <= i - k
  BY <1>3, <1>4
<1>6. \A k \in j + 1 .. i : k \in Items /\ k \notin S
  BY <1>5 DEF Items
<1>7. \A k \in 1 .. i : Depth[k] \in Nat
  BY DEF Items
<1>8. \A k \in j + 1 .. i : Depth[k] > d
  BY <1>6, <1>7
<1>9. Depth[j] >= d
  <2>1. CASE j = i
    BY <2>1, <1>7
  <2>2. CASE j # i
    <3>1. j + 1 \in 2 .. NItems /\ j + 1 \in j + 1 .. i /\ j \in 1 .. i
      BY <2>2 DEF Items
    <3>2. Depth[j + 1] <= Depth[j] + 1
      <4>1. Depth[j + 1] <= Depth[(j + 1) - 1] + (IF (j + 1) - 1 \in Folders THEN 1 ELSE 0)
        BY <3>1
      <4>2. (j + 1) - 1 = j
        BY <3>1
      <4> QED BY <4>1, <4>2, <3>1, <1>7
    <3>3. Depth[j + 1] > d /\ Depth[j + 1] \in Nat
      BY <1>8, <3>1, <1>7
    <3> QED BY <3>1, <3>2, <3>3, <1>7
  <2> QED BY <2>1, <2>2
<1> QED BY <1>7, <1>8, <1>9

LEMMA AncestorIsItem ==
    ASSUME NEW i \in Items, NEW d \in 0 .. Depth[i]
    PROVE  Ancestor(i, d) \in Items
<1>1. Ancestor(i, d) \in 1 .. i
  BY AncestorExists DEF Ancestor
<1> QED BY <1>1 DEF Items

-----------------------------------------------------------------------------
\* The places of _PerformRegExRename once it has entered the critical section
InPreview == {"start", "cancel", "wait", "create", "reset", "signal"}

\* A preview thread that is past its test has an item
AtItem ==
    \A w \in Workers :
        worker[w].pc \in {"compute", "status", "refuse", "put", "self"} => worker[w].next \in Items

\* _PerformRegExRename runs because it has still to be called
Pending == main \in InPreview \cup {"enter"} => previews >= 1

\* The handle is that of the preview thread, and a thread is created only
\* after the handle was given up
HandleHeld ==
    /\ \A w \in Workers : Running(w) => regExHandle = w
    /\ main = "create" => regExHandle = 0

\* The main thread has entered the critical section before it creates a
\* preview thread
Entered ==
    /\ \A w \in Workers : Running(w) => reentrancy = "main"
    /\ main \in InPreview => reentrancy = "main"

IInv == TypeOK /\ AtItem /\ Pending /\ HandleHeld /\ Entered /\ NoSelfWait

-----------------------------------------------------------------------------
LEMMA RecordTypes ==
    /\ NoWorker \in PreviewThread
    /\ NoRenamer \in FileOpThread
BY DEF NoWorker, NoRenamer, PreviewThread, FileOpThread, NewNames, Items

LEMMA InitInv == Init => IInv
<1> SUFFICES ASSUME Init PROVE IInv
  OBVIOUS
<1>1. path \in [Items -> Seq(Names)] /\ \A i \in Items : Len(path[i]) = Depth[i] + 1
  <2>1. ASSUME NEW i \in Items
        PROVE  path[i] \in Seq(Names) /\ Len(path[i]) = Depth[i] + 1
    <3>1. path[i] = [d \in 1 .. Depth[i] + 1 |-> Names0[Ancestor(i, d - 1)]]
      BY DEF Init
    <3>2. \A d \in 1 .. Depth[i] + 1 : d - 1 \in 0 .. Depth[i]
      BY DEF Items
    <3>3. \A d \in 1 .. Depth[i] + 1 : Names0[Ancestor(i, d - 1)] \in Names
      BY <3>2, AncestorIsItem
    <3>4. Depth[i] + 1 \in Nat
      OBVIOUS
    <3>5. path[i] \in [1 .. Depth[i] + 1 -> Names]
      BY <3>1, <3>3
    <3>6. path[i] \in Seq(Names)
      BY <3>4, <3>5, SeqDef
    <3>7. DOMAIN path[i] = 1 .. Depth[i] + 1 /\ DOMAIN path[i] = 1 .. Len(path[i])
      BY <3>5, <3>6, LenProperties
    <3>8. Len(path[i]) \in Nat
      BY <3>6, LenProperties
    <3>9. Len(path[i]) = Depth[i] + 1
      BY <3>4, <3>7, <3>8
    <3> QED BY <3>6, <3>9
  <2> QED BY <2>1 DEF Init
<1>2. worker \in [Workers -> PreviewThread] /\ renamer \in [Renames -> FileOpThread]
  BY RecordTypes DEF Init
<1>3. \A w \in Workers : worker[w].pc = "none"
  BY DEF Init, NoWorker
<1>4. TypeOK
  <2>1. term \in Terms /\ flags \in FlagSets /\ selected \subseteq Items
    BY DEF Init
  <2>2. originalName \in [Items -> Names] /\ newName \in [Items -> NewNames] /\ disk \in [Items -> Names]
    BY DEF Init, NewNames
  <2>4. status \in [Items -> {"Init", "ShouldRename", "Refused"}]
    BY DEF Init
  <2>3. changes \in 0 .. MaxChanges /\ renames \in 0 .. MaxRenames /\ previews \in 0 .. 2
    BY DEF Init
  <2> QED BY <1>1, <1>2, <2>1, <2>2, <2>3, <2>4 DEF Init, TypeOK
<1>5. AtItem /\ Pending /\ HandleHeld /\ Entered /\ NoSelfWait
  BY <1>3 DEF Init, AtItem, Pending, HandleHeld, Entered, NoSelfWait, Running, InPreview
<1> QED BY <1>4, <1>5 DEF IInv

-----------------------------------------------------------------------------
\* Type correctness, step by step

LEMMA PreviewThreadGoes ==
    ASSUME NEW t \in PreviewThread
    PROVE  /\ \A pc \in {"none", "start", "test", "compute", "status", "refuse", "put", "self"} :
                [t EXCEPT !.pc = pc] \in PreviewThread
           /\ \A pc \in {"status", "put"}, n \in NewNames :
                [t EXCEPT !.pc = pc, !.name = n] \in PreviewThread
           /\ t.next \in Items =>
                [t EXCEPT !.pc = "test", !.next = @ + 1, !.name = None] \in PreviewThread
<1>1. t.next \in 1 .. NItems + 1 /\ t.name \in NewNames /\ None \in NewNames
  BY DEF PreviewThread, NewNames
<1>2. \A pc \in {"none", "start", "test", "compute", "status", "refuse", "put", "self"} :
        [t EXCEPT !.pc = pc] \in PreviewThread
  BY DEF PreviewThread
<1>3. \A pc \in {"status", "put"}, n \in NewNames :
        [t EXCEPT !.pc = pc, !.name = n] \in PreviewThread
  BY DEF PreviewThread
<1>4. ASSUME t.next \in Items
      PROVE  [t EXCEPT !.pc = "test", !.next = @ + 1, !.name = None] \in PreviewThread
  <2>1. t.next + 1 \in 1 .. NItems + 1
    BY <1>4 DEF Items
  <2> QED BY <1>1, <2>1 DEF PreviewThread
<1> QED BY <1>2, <1>3, <1>4

LEMMA FileOpThreadGoes ==
    ASSUME NEW t \in FileOpThread
    PROVE  /\ \A pc \in {"start", "queue", "ended"} : [t EXCEPT !.pc = pc] \in FileOpThread
           /\ \A k \in BOOLEAN : [t EXCEPT !.pc = "wait", !.keep = k] \in FileOpThread
           /\ \A f \in FlagSets :
                [t EXCEPT !.pc = "test", !.todo = Items, !.flags = f] \in FileOpThread
           /\ \A i \in Items : [t EXCEPT !.todo = @ \ {i}] \in FileOpThread
<1>1. \A i \in Items : t.todo \ {i} \in SUBSET Items
  BY DEF FileOpThread
<1>2. /\ \A pc \in {"start", "queue", "ended"} : [t EXCEPT !.pc = pc] \in FileOpThread
      /\ \A k \in BOOLEAN : [t EXCEPT !.pc = "wait", !.keep = k] \in FileOpThread
  BY DEF FileOpThread
<1>3. \A f \in FlagSets :
        [t EXCEPT !.pc = "test", !.todo = Items, !.flags = f] \in FileOpThread
  BY DEF FileOpThread
<1>4. \A i \in Items : [t EXCEPT !.todo = @ \ {i}] \in FileOpThread
  BY <1>1 DEF FileOpThread
<1> QED BY <1>2, <1>3, <1>4

LEMMA Leaving ==
    ASSUME NEW t \in FileOpThread, NEW i \in Items
    PROVE  /\ Leaves(t, i) \in FileOpThread
           /\ Leaves(t, i).pc = "test" /\ Leaves(t, i).todo = t.todo \ {i}
           /\ Leaves(t, i).keep = t.keep /\ Leaves(t, i).queued = t.queued
BY DEF FileOpThread, Leaves

LEMMA Queueing ==
    ASSUME NEW t \in FileOpThread, NEW i \in Items, NEW j \in Items \cup {0}, newName[i] \in NewNames
    PROVE  /\ Queued(t, i, j) \in FileOpThread
           /\ Queued(t, i, j).pc = t.pc /\ Queued(t, i, j).todo = t.todo
           /\ Queued(t, i, j).keep = t.keep
           /\ Queued(t, i, j).queued = [t.queued EXCEPT ![i] = newName[i]]
<1>1. Queued(t, i, j) \in FileOpThread
  <2> DEFINE n == newName[i]
  <2>1. n \in NewNames
    OBVIOUS
  <2> HIDE DEF n
  <2> QED BY <2>1 DEF FileOpThread, Queued, n
<1>2. /\ Queued(t, i, j).pc = t.pc /\ Queued(t, i, j).todo = t.todo
      /\ Queued(t, i, j).keep = t.keep
      /\ Queued(t, i, j).queued = [t.queued EXCEPT ![i] = newName[i]]
  BY DEF FileOpThread, Queued
<1> QED BY <1>1, <1>2

LEMMA PerformOperationsType ==
    ASSUME disk \in [Items -> Names], NEW queued \in [Items -> NewNames], NEW file,
           PerformOperations(queued, file)
    PROVE  disk' \in [Items -> Names] /\ failed' \in BOOLEAN
<1>1. PICK done \in SUBSET {i \in Items : queued[i] # None /\ file[i] # 0} :
        \E taken \in SUBSET done :
        LET name == [i \in done |-> IF i \in taken THEN MadeUp[i][queued[i]] ELSE queued[i]]
        IN  disk' = [j \in Items |-> IF \E i \in done : file[i] = j
                                   THEN name[CHOOSE i \in done : file[i] = j] ELSE disk[j]]
  BY ZenonT(60) DEF PerformOperations
<1>2. PICK taken \in SUBSET done :
        LET name == [i \in done |-> IF i \in taken THEN MadeUp[i][queued[i]] ELSE queued[i]]
        IN  disk' = [j \in Items |-> IF \E i \in done : file[i] = j
                                   THEN name[CHOOSE i \in done : file[i] = j] ELSE disk[j]]
  BY <1>1, Zenon
<1> DEFINE name == [i \in done |-> IF i \in taken THEN MadeUp[i][queued[i]] ELSE queued[i]]
<1>3. \A i \in done : name[i] \in Names
  <2>1. ASSUME NEW i \in done PROVE name[i] \in Names
    <3>1. i \in Items /\ queued[i] \in Names
      BY DEF NewNames
    <3>2. MadeUp[i][queued[i]] \in Names
      BY <3>1, NamesAssumption
    <3> QED BY <3>1, <3>2
  <2> QED BY <2>1
<1>4. disk' = [j \in Items |-> IF \E i \in done : file[i] = j
                             THEN name[CHOOSE i \in done : file[i] = j] ELSE disk[j]]
  BY <1>2
<1> HIDE DEF name
<1>5. \A j \in Items : (\E i \in done : file[i] = j) => (CHOOSE i \in done : file[i] = j) \in done
  OBVIOUS
<1>6. disk' \in [Items -> Names]
  BY <1>3, <1>4, <1>5
<1>7. failed' \in BOOLEAN
  BY DEF PerformOperations
<1> QED BY <1>6, <1>7

LEMMA PreviewType ==
    ASSUME TypeOK, NEW i \in Items
    PROVE  Preview(i) \in NewNames
<1>1. term \in Terms /\ flags \in FlagSets /\ originalName[i] \in Names
  BY DEF TypeOK
<1>2. Replace[term][flags][i][originalName[i]] \in Names \cup {None}
  BY <1>1, NamesAssumption
<1> QED BY <1>2 DEF Preview, NewNames

\* UpdateChildrenPath keeps the length of every path
LEMMA UpdateChildrenPathType ==
    ASSUME TypeOK, NEW i \in Items
    PROVE  /\ UpdateChildrenPath(i) \in [Items -> Seq(Names)]
           /\ \A j \in Items : Len(UpdateChildrenPath(i)[j]) = Depth[j] + 1
<1>1. ASSUME NEW j \in Items, i \in Folders, j \in Children(i)
      PROVE  LET p == path[i] \o SubSeq(path[j], Depth[i] + 2, Depth[j] + 1)
             IN  p \in Seq(Names) /\ Len(p) = Depth[j] + 1
  <2> DEFINE tail == SubSeq(path[j], Depth[i] + 2, Depth[j] + 1)
  <2>1. path[i] \in Seq(Names) /\ path[j] \in Seq(Names)
        /\ Len(path[i]) = Depth[i] + 1 /\ Len(path[j]) = Depth[j] + 1
    BY DEF TypeOK
  <2>2. Depth[i] \in Nat /\ Depth[j] \in Nat
    OBVIOUS
  <2>3. Depth[j] > Depth[i]
    BY <1>1 DEF Children, Items
  <2>4. \A k \in Depth[i] + 2 .. Depth[j] + 1 : path[j][k] \in Names
    BY <2>1, <2>2, LenProperties
  <2>5. tail \in Seq(Names) /\ Len(tail) = Depth[j] - Depth[i]
    BY <2>2, <2>3, <2>4, SubSeqProperties
  <2> HIDE DEF tail
  <2>6. path[i] \o tail \in Seq(Names) /\ Len(path[i] \o tail) = Depth[j] + 1
    <3>1. /\ path[i] \o tail \in Seq(Names)
          /\ Len(path[i] \o tail) = Len(path[i]) + Len(tail)
      BY <2>1, <2>5, ConcatProperties, ZenonT(60)
    <3> QED BY <3>1, <2>1, <2>2, <2>5
  <2> QED BY <2>6, Zenon DEF tail
<1>2. ASSUME NEW j \in Items
      PROVE  /\ UpdateChildrenPath(i)[j] \in Seq(Names)
             /\ Len(UpdateChildrenPath(i)[j]) = Depth[j] + 1
  BY <1>1, <1>2 DEF UpdateChildrenPath, TypeOK
<1> QED BY <1>2 DEF UpdateChildrenPath

LEMMA OwnPathType ==
    ASSUME TypeOK, NEW i \in Items, NEW n \in Names
    PROVE  /\ [path EXCEPT ![i][Depth[i] + 1] = n] \in [Items -> Seq(Names)]
           /\ \A j \in Items : Len([path EXCEPT ![i][Depth[i] + 1] = n][j]) = Depth[j] + 1
<1>1. path[i] \in Seq(Names) /\ Len(path[i]) = Depth[i] + 1 /\ Depth[i] + 1 \in 1 .. Len(path[i])
  BY DEF TypeOK
<1>2. LET p == [path[i] EXCEPT ![Depth[i] + 1] = n]
      IN  p \in Seq(Names) /\ Len(p) = Depth[i] + 1
  BY <1>1, ExceptSeq
<1> DEFINE p == [path[i] EXCEPT ![Depth[i] + 1] = n]
<1>3. [path EXCEPT ![i][Depth[i] + 1] = n] = [path EXCEPT ![i] = p]
  BY DEF TypeOK
<1>4. p \in Seq(Names) /\ Len(p) = Depth[i] + 1
  BY <1>2
<1> HIDE DEF p
<1> QED BY <1>3, <1>4 DEF TypeOK

LEMMA UserType ==
    ASSUME TypeOK, UserStep
    PROVE  TypeOK'
<1> USE DEF TypeOK, items, events, regex, fileop, input
<1>1. ASSUME NEW t \in Terms, TypeTerm(t) PROVE TypeOK'
  <2>1. changes' \in 0 .. MaxChanges /\ previews' \in 0 .. 2 /\ term' \in Terms
    BY <1>1 DEF TypeTerm, Change, StartPreviews
  <2> QED BY <1>1, <2>1 DEF TypeTerm, Change, StartPreviews
<1>2. ASSUME NEW f \in FlagSets, PutFlags(f) PROVE TypeOK'
  <2>1. changes' \in 0 .. MaxChanges /\ previews' \in 0 .. 2 /\ flags' \in FlagSets
    BY <1>2 DEF PutFlags, Change, StartPreviews
  <2> QED BY <1>2, <2>1 DEF PutFlags, Change, StartPreviews
<1>3. ASSUME NEW i \in Items, ToggleItem(i) PROVE TypeOK'
  <2>1. changes' \in 0 .. MaxChanges /\ selected' \subseteq Items
    BY <1>3 DEF ToggleItem, Change
  <2>2. button' \in BOOLEAN
    BY <1>3 DEF ToggleItem, AnyToRename
  <2> QED BY <1>3, <2>1, <2>2 DEF ToggleItem, Change
<1>4. ASSUME NEW close \in BOOLEAN, Rename(close) PROVE TypeOK'
  <2>1. renames' \in 0 .. MaxRenames /\ overlapped' \in BOOLEAN /\ closeUI' \in BOOLEAN
    BY <1>4 DEF Rename
  <2>2. main' \in {"renameWait", "ui"}
    BY <1>4 DEF Rename
  <2> QED BY <1>4, <2>1, <2>2 DEF Rename
<1> QED BY <1>1, <1>2, <1>3, <1>4 DEF UserStep

LEMMA WaitType ==
    ASSUME TypeOK, NEW at, NEW then \in {"create", "renameCreate"},
           WaitForRegExWorkerThread(at, then)
    PROVE  TypeOK'
BY DEF TypeOK, WaitForRegExWorkerThread, input, items, events, fileop

LEMMA NextPreviewType ==
    ASSUME TypeOK, previews >= 1, NextPreview
    PROVE  previews' \in 0 .. 2 /\ main' \in {"enter", "ui"}
           /\ (main' = "enter" => previews' >= 1)
BY DEF TypeOK, NextPreview

\* The type invariant in six parts, one per group of variables, each kept by a
\* step that leaves its group alone.
TypeInput  == term \in Terms /\ flags \in FlagSets /\ selected \subseteq Items
                /\ changes \in 0 .. MaxChanges
TypeItems  == /\ originalName \in [Items -> Names] /\ newName \in [Items -> NewNames]
              /\ path \in [Items -> Seq(Names)] /\ (\A i \in Items : Len(path[i]) = Depth[i] + 1)
              /\ status \in [Items -> {"Init", "ShouldRename", "Refused"}]
              /\ disk \in [Items -> Names]
TypeEvents == /\ startRegEx \in BOOLEAN /\ cancelRegEx \in BOOLEAN /\ startFileOp \in BOOLEAN
              /\ reentrancy \in {"free", "main"}
TypeRegex  == /\ worker \in [Workers -> PreviewThread] /\ regExHandle \in Workers \cup {0}
              /\ outcome \in {"none", "running", "completed", "canceled", "threw", "failed"}
TypeFileop == /\ renamer \in [Renames -> FileOpThread] /\ fileOpHandle \in Renames \cup {0}
              /\ renames \in 0 .. MaxRenames /\ overlapped \in BOOLEAN /\ failed \in BOOLEAN
TypeUi     == /\ main \in {"ui", "enter", "start", "cancel", "wait", "create", "reset", "signal",
                           "renameWait", "renameCreate", "renameSignal", "closed", "crashed"}
              /\ previews \in 0 .. 2 /\ pumps \in Nat
              /\ closeUI \in BOOLEAN /\ button \in BOOLEAN /\ posted \in Nat

LEMMA TypeParts ==
    /\ TypeOK => TypeInput /\ TypeItems /\ TypeEvents /\ TypeRegex /\ TypeFileop /\ TypeUi
    /\ (TypeInput /\ TypeItems /\ TypeEvents /\ TypeRegex /\ TypeFileop /\ TypeUi)' => TypeOK'
BY DEF TypeOK, TypeInput, TypeItems, TypeEvents, TypeRegex, TypeFileop, TypeUi

LEMMA TypeFrame ==
    /\ TypeInput /\ UNCHANGED input => TypeInput'
    /\ TypeItems /\ UNCHANGED items => TypeItems'
    /\ TypeEvents /\ UNCHANGED events => TypeEvents'
    /\ TypeRegex /\ UNCHANGED regex => TypeRegex'
    /\ TypeFileop /\ UNCHANGED fileop => TypeFileop'
    /\ TypeUi /\ UNCHANGED <<main, previews, pumps, closeUI, button, posted>> => TypeUi'
<1>1. TypeInput /\ UNCHANGED input => TypeInput'
  BY DEF TypeInput, input
<1>2. TypeItems /\ UNCHANGED items => TypeItems'
  BY DEF TypeItems, items
<1>3. TypeEvents /\ UNCHANGED events => TypeEvents'
  BY DEF TypeEvents, events
<1>4. TypeRegex /\ UNCHANGED regex => TypeRegex'
  BY DEF TypeRegex, regex
<1>5. TypeFileop /\ UNCHANGED fileop => TypeFileop'
  BY DEF TypeFileop, fileop
<1>6. TypeUi /\ UNCHANGED <<main, previews, pumps, closeUI, button, posted>> => TypeUi'
  BY DEF TypeUi
<1> QED BY <1>1, <1>2, <1>3, <1>4, <1>5, <1>6

\* The steps of the main thread that only set events.
LEMMA EventStepType ==
    ASSUME TypeOK, TryEnter \/ CancelStarts \/ Cancel \/ ResetCancel \/ SignalFileOp
    PROVE  TypeOK'
<1>1. UNCHANGED <<input, items, regex, fileop>>
  BY DEF TryEnter, CancelStarts, Cancel, ResetCancel, SignalFileOp
<1>2. TypeEvents'
  <2>1. TypeEvents
    BY TypeParts
  <2> QED BY <2>1 DEF TypeEvents, TryEnter, CancelStarts, Cancel, ResetCancel, SignalFileOp
<1>3. TypeUi'
  <2>1. TypeUi
    BY TypeParts
  <2>2. main' \in {"start", "cancel", "wait", "signal", "ui"}
    BY DEF TryEnter, CancelStarts, Cancel, ResetCancel, SignalFileOp
  <2>3. pumps' \in Nat
    BY <2>1 DEF TypeUi, TryEnter, CancelStarts, Cancel, ResetCancel, SignalFileOp
  <2>4. UNCHANGED <<previews, closeUI, button, posted>>
    BY DEF TryEnter, CancelStarts, Cancel, ResetCancel, SignalFileOp
  <2> QED BY <2>1, <2>2, <2>3, <2>4 DEF TypeUi
<1> QED BY <1>1, <1>2, <1>3, TypeParts, TypeFrame

LEMMA MainType ==
    ASSUME TypeOK, Pending, MainStep
    PROVE  TypeOK'
<1>0. ASSUME TryEnter \/ CancelStarts \/ Cancel \/ ResetCancel \/ SignalFileOp
      PROVE  TypeOK'
  BY <1>0, EventStepType
<1> USE DEF TypeOK, input, items, events, regex, fileop
<1>1. CASE UpdateCounts
  <2>1. posted' \in Nat /\ button' \in BOOLEAN
    BY <1>1 DEF UpdateCounts, AnyToRename
  <2> QED BY <1>1, <2>1 DEF UpdateCounts
<1>5. CASE WaitForRegExWorkerThread("wait", "create")
  BY <1>5, WaitType
<1>6. CASE CreateRegExWorkerThread
  <2>1. CASE outcome' = "failed" /\ NextPreview /\ UNCHANGED <<worker, regExHandle>>
    <3>1. previews' \in 0 .. 2 /\ main' \in {"enter", "ui"}
      BY <1>6, <2>1, NextPreviewType DEF CreateRegExWorkerThread, Pending, InPreview
    <3> QED BY <1>6, <2>1, <3>1 DEF CreateRegExWorkerThread
  <2>2. ASSUME NEW w \in Workers,
               worker' = [worker EXCEPT ![w] = [NoWorker EXCEPT !.pc = "start"]],
               regExHandle' = w, outcome' = "running", main' = "reset", UNCHANGED previews
        PROVE  TypeOK'
    <3>1. [NoWorker EXCEPT !.pc = "start"] \in PreviewThread
      BY RecordTypes, PreviewThreadGoes
    <3>2. worker' \in [Workers -> PreviewThread]
      BY <2>2, <3>1
    <3> QED BY <1>6, <2>2, <3>2 DEF CreateRegExWorkerThread
  <2> QED BY <1>6, <2>1, <2>2 DEF CreateRegExWorkerThread
<1>8. CASE SignalStart
  <2>1. previews' \in 0 .. 2 /\ main' \in {"enter", "ui"}
    BY <1>8, NextPreviewType DEF SignalStart, Pending, InPreview
  <2> QED BY <1>8, <2>1 DEF SignalStart
<1>9. CASE WaitForRegExWorkerThread("renameWait", "renameCreate")
  BY <1>9, WaitType
<1>10. CASE CreateFileOpWorkerThread
  <2>1. CASE main' = "ui" /\ UNCHANGED <<renamer, fileOpHandle>>
    BY <1>10, <2>1 DEF CreateFileOpWorkerThread
  <2>2. ASSUME NEW r \in Renames,
               renamer' = [renamer EXCEPT ![r].pc = "start"],
               fileOpHandle' = r, main' = "renameSignal"
        PROVE  TypeOK'
    <3>1. [renamer[r] EXCEPT !.pc = "start"] \in FileOpThread
      BY FileOpThreadGoes
    <3>2. renamer' \in [Renames -> FileOpThread]
      BY <2>2, <3>1
    <3> QED BY <1>10, <2>2, <3>2 DEF CreateFileOpWorkerThread
  <2> QED BY <1>10, <2>1, <2>2 DEF CreateFileOpWorkerThread
<1>12. CASE RenameCompleted
  <2>1. pumps' \in Nat /\ previews' \in 0 .. 2 /\ main' \in {"closed", "enter"}
    BY <1>12 DEF RenameCompleted, StartPreviews
  <2> QED BY <1>12, <2>1 DEF RenameCompleted
<1> QED BY <1>0, <1>1, <1>5, <1>6, <1>8, <1>9, <1>10, <1>12 DEF MainStep

LEMMA WorkerType ==
    ASSUME TypeOK, AtItem, NEW w \in Workers, WorkerStep(w)
    PROVE  TypeOK'
<1>4. CASE WorkerPuts(w)
  <2>1. worker[w].next \in Items
    BY <1>4 DEF WorkerPuts, AtItem
  <2>2. TypeRegex /\ TypeItems /\ TypeUi
    BY TypeParts
  <2>3. TypeRegex'
    <3>1. worker' \in [Workers -> PreviewThread]
      BY <1>4, <2>1, <2>2, PreviewThreadGoes DEF WorkerPuts, TypeRegex
    <3> QED BY <1>4, <2>2, <3>1 DEF WorkerPuts, WorkerVars, TypeRegex
  <2>4. TypeItems'
    <3>1. newName' \in [Items -> NewNames]
      BY <1>4, <2>1, <2>2 DEF WorkerPuts, PreviewThread, TypeItems, TypeRegex
    <3>2. UNCHANGED <<path, originalName, status, disk>>
      BY <1>4 DEF WorkerPuts, WorkerVars
    <3> QED BY <2>2, <3>1, <3>2 DEF TypeItems
  <2>5. UNCHANGED <<input, events, fileop>>
    BY <1>4 DEF WorkerPuts, WorkerVars
  <2>6. TypeUi'
    BY <1>4, <2>2 DEF WorkerPuts, WorkerVars, TypeUi
  <2> QED BY <2>3, <2>4, <2>5, <2>6, TypeParts, TypeFrame
<1>5. CASE WorkerSetsStatus(w)
  <2>1. worker[w].next \in Items
    BY <1>5 DEF WorkerSetsStatus, AtItem
  <2>2. TypeRegex /\ TypeItems /\ TypeUi
    BY TypeParts
  <2>3. TypeRegex'
    <3>1. worker' \in [Workers -> PreviewThread]
      BY <1>5, <2>2, PreviewThreadGoes DEF WorkerSetsStatus, TypeRegex
    <3> QED BY <1>5, <2>2, <3>1 DEF WorkerSetsStatus, WorkerVars, TypeRegex
  <2>4. TypeItems'
    <3>1. status' \in [Items -> {"Init", "ShouldRename", "Refused"}]
      BY <1>5, <2>1, <2>2 DEF WorkerSetsStatus, TypeItems
    <3>2. UNCHANGED <<path, originalName, newName, disk>>
      BY <1>5 DEF WorkerSetsStatus, WorkerVars
    <3> QED BY <2>2, <3>1, <3>2 DEF TypeItems
  <2>5. UNCHANGED <<input, events, fileop>>
    BY <1>5 DEF WorkerSetsStatus, WorkerVars
  <2>6. TypeUi'
    BY <1>5, <2>2 DEF WorkerSetsStatus, WorkerVars, TypeUi
  <2> QED BY <2>3, <2>4, <2>5, <2>6, TypeParts, TypeFrame
<1> USE DEF TypeOK, WorkerVars, input, events, fileop
<1>0. NoWorker \in PreviewThread
  BY RecordTypes
<1>1. CASE WorkerStarts(w)
  <2>1. worker' \in [Workers -> PreviewThread]
    BY <1>1, PreviewThreadGoes DEF WorkerStarts
  <2> QED BY <1>1, <2>1 DEF WorkerStarts
<1>2. CASE WorkerTests(w)
  <2>1. worker' \in [Workers -> PreviewThread]
    <3>1. \/ worker' = [worker EXCEPT ![w] = NoWorker]
          \/ worker' = [worker EXCEPT ![w].pc = "compute"]
      BY <1>2 DEF WorkerTests, WorkerEnds
    <3>2. [worker[w] EXCEPT !.pc = "compute"] \in PreviewThread
      BY PreviewThreadGoes
    <3>3. CASE worker' = [worker EXCEPT ![w] = NoWorker]
      BY <1>0, <3>3
    <3>4. CASE worker' = [worker EXCEPT ![w].pc = "compute"]
      BY <3>2, <3>4
    <3> QED BY <3>1, <3>3, <3>4
  <2>2. posted' \in Nat /\ newName' = newName /\ status' = status
        /\ outcome' \in {"none", "running", "completed", "canceled", "threw", "failed"}
    BY <1>2 DEF WorkerTests, WorkerEnds
  <2> QED BY <1>2, <2>1, <2>2 DEF WorkerTests
<1>3. CASE WorkerComputes(w)
  <2>1. Preview(worker[w].next) \in NewNames
    BY <1>3, PreviewType DEF WorkerComputes, AtItem
  <2>2. worker' \in [Workers -> PreviewThread]
    <3> DEFINE n  == Preview(worker[w].next)
               pc == IF IsSkipped(worker[w].next, flags) THEN "put" ELSE "status"
    <3>1. \/ worker' = [worker EXCEPT ![w].pc = "self"]
          \/ worker' = [worker EXCEPT ![w] = NoWorker]
          \/ worker' = [worker EXCEPT ![w].pc = pc, ![w].name = n]
      BY <1>3 DEF WorkerComputes
    <3>7. pc \in {"status", "put"}
      OBVIOUS
    <3> HIDE DEF n, pc
    <3>2. [worker[w] EXCEPT !.pc = "self"] \in PreviewThread
      BY PreviewThreadGoes
    <3>3. [worker[w] EXCEPT !.pc = pc, !.name = n] \in PreviewThread
      BY <2>1, <3>7, PreviewThreadGoes DEF n
    <3>4. CASE worker' = [worker EXCEPT ![w].pc = "self"]
      BY <3>2, <3>4
    <3>5. CASE worker' = [worker EXCEPT ![w] = NoWorker]
      BY <1>0, <3>5
    <3>6. CASE worker' = [worker EXCEPT ![w].pc = pc, ![w].name = n]
      BY <3>3, <3>6
    <3> QED BY <3>1, <3>4, <3>5, <3>6
  <2>3. outcome' \in {"none", "running", "completed", "canceled", "threw", "failed"}
    BY <1>3 DEF WorkerComputes
  <2> QED BY <1>3, <2>2, <2>3 DEF WorkerComputes
<1> QED BY <1>1, <1>2, <1>3, <1>4, <1>5 DEF WorkerStep

LEMMA RenamerType ==
    ASSUME TypeOK, NEW r \in Renames, RenamerStep(r)
    PROVE  TypeOK'
<1>1. ASSUME RenamerReads(r) \/ RenamerStarts(r) PROVE TypeOK'
  <2>1. TypeFileop /\ TypeUi
    BY TypeParts
  <2>2. /\ [renamer[r] EXCEPT !.pc = "wait", !.keep = ~closeUI] \in FileOpThread
        /\ [renamer[r] EXCEPT !.pc = "test", !.todo = Items, !.flags = flags] \in FileOpThread
    <3>1. closeUI \in BOOLEAN /\ flags \in FlagSets /\ renamer \in [Renames -> FileOpThread]
      BY DEF TypeOK
    <3> QED BY <3>1, FileOpThreadGoes
  <2>3. renamer' \in [Renames -> FileOpThread]
    <3>1. renamer \in [Renames -> FileOpThread]
      BY <2>1 DEF TypeFileop
    <3>2. CASE RenamerReads(r)
      BY <2>2, <3>1, <3>2 DEF RenamerReads
    <3>3. CASE RenamerStarts(r)
      BY <2>2, <3>1, <3>3 DEF RenamerStarts
    <3> QED BY <1>1, <3>2, <3>3
  <2>4. /\ UNCHANGED <<input, items, events, regex>>
        /\ UNCHANGED <<fileOpHandle, renames, overlapped, failed>>
        /\ UNCHANGED <<main, previews, pumps, closeUI, button, posted>>
    BY <1>1 DEF RenamerReads, RenamerStarts, RenamerVars
  <2>5. TypeFileop'
    BY <2>1, <2>3, <2>4 DEF TypeFileop
  <2> QED BY <2>1, <2>4, <2>5, TypeParts, TypeFrame
<1> USE DEF TypeOK, RenamerVars, input, events, regex, items
<1>3. CASE RenamerTests(r)
  <2>1. renamer' \in [Renames -> FileOpThread]
    <3>1. PICK i \in renamer[r].todo :
            \/ renamer' = [renamer EXCEPT ![r].pc = "queue"]
            \/ renamer' = [renamer EXCEPT ![r].todo = @ \ {i}]
      BY <1>3 DEF RenamerTests
    <3>2. i \in Items
      BY DEF FileOpThread
    <3>3. /\ [renamer[r] EXCEPT !.pc = "queue"] \in FileOpThread
          /\ [renamer[r] EXCEPT !.todo = @ \ {i}] \in FileOpThread
      BY <3>2, FileOpThreadGoes
    <3>4. CASE renamer' = [renamer EXCEPT ![r].pc = "queue"]
      BY <3>3, <3>4
    <3>5. CASE renamer' = [renamer EXCEPT ![r].todo = @ \ {i}]
      BY <3>3, <3>5
    <3> QED BY <3>1, <3>4, <3>5
  <2>2. UNCHANGED <<items, failed, main, posted, RenamerVars>>
    BY <1>3, Zenon DEF RenamerTests
  <2> QED BY <2>1, <2>2
<1>4. CASE RenamerQueues(r)
  <2>1. PICK i \in renamer[r].todo :
            /\ renamer[r].pc = "queue" /\ IsNext(r, i)
            /\ \/ /\ renamer' = [renamer EXCEPT ![r] = Leaves(renamer[r], i)]
                  /\ UNCHANGED <<path, originalName, main>>
               \/ /\ main' = "crashed"
                  /\ UNCHANGED <<renamer, path, originalName>>
               \/ \E j \in Found(i) :
                  /\ newName[i] # None
                  /\ IF renamer[r].keep
                     THEN /\ renamer' = [renamer EXCEPT
                                          ![r] = [Queued(renamer[r], i, j) EXCEPT !.pc = "update"]]
                          /\ path' = [path EXCEPT ![i][Depth[i] + 1] = newName[i]]
                          /\ originalName' = [originalName EXCEPT ![i] = newName[i]]
                     ELSE /\ renamer' = [renamer EXCEPT ![r] = Leaves(Queued(renamer[r], i, j), i)]
                          /\ UNCHANGED <<path, originalName>>
                  /\ UNCHANGED main
            /\ UNCHANGED <<newName, status, disk, failed, posted, RenamerVars>>
    BY <1>4, Zenon DEF RenamerQueues
  <2>2. i \in Items
    BY DEF FileOpThread
  <2>3. newName[i] \in NewNames /\ (newName[i] # None => newName[i] \in Names)
    BY <2>2 DEF NewNames
  <2>4. renamer' \in [Renames -> FileOpThread]
    <3>1. renamer \in [Renames -> FileOpThread] /\ renamer[r] \in FileOpThread
      OBVIOUS
    <3>2. Found(i) \subseteq Items \cup {0}
      BY <2>2 DEF Found
    <3>3. \A j \in Found(i) : [Queued(renamer[r], i, j) EXCEPT !.pc = "update"] \in FileOpThread
      <4>1. ASSUME NEW j \in Found(i), NEW t \in FileOpThread
            PROVE  [t EXCEPT !.pc = "update"] \in FileOpThread
        BY DEF FileOpThread
      <4> QED BY <2>2, <2>3, <3>1, <3>2, <4>1, Queueing
    <3>4. \A t \in FileOpThread : [renamer EXCEPT ![r] = t] \in [Renames -> FileOpThread]
      BY <3>1
    <3>5. /\ Leaves(renamer[r], i) \in FileOpThread
          /\ \A j \in Found(i) : Leaves(Queued(renamer[r], i, j), i) \in FileOpThread
      BY <2>2, <2>3, <3>1, <3>2, Queueing, Leaving
    <3> HIDE DEF TypeOK
    <3> QED BY <2>1, <3>1, <3>3, <3>4, <3>5
  <2>5. /\ path' \in [Items -> Seq(Names)] /\ (\A j \in Items : Len(path'[j]) = Depth[j] + 1)
        /\ originalName' \in [Items -> Names]
    <3> DEFINE n == newName[i]
               p == [path EXCEPT ![i][Depth[i] + 1] = n]
    <3>1. \/ path' = path /\ originalName' = originalName
          \/ n # None /\ path' = p /\ originalName' = [originalName EXCEPT ![i] = n]
      BY <2>1
    <3>2. n # None => /\ p \in [Items -> Seq(Names)]
                      /\ \A j \in Items : Len(p[j]) = Depth[j] + 1
      BY <2>2, <2>3, OwnPathType
    <3> HIDE DEF p
    <3>3. originalName' \in [Items -> Names]
      BY <2>2, <2>3, <3>1
    <3> QED BY <3>1, <3>2, <3>3
  <2>6. main' \in {"crashed", main}
    BY <2>1
  <2> QED BY <2>1, <2>4, <2>5, <2>6
<1>5. CASE RenamerUpdates(r)
  <2>1. PICK i \in renamer[r].todo :
        /\ newName' = [newName EXCEPT ![i] = None]
        /\ path' = UpdateChildrenPath(i)
        /\ posted' = posted + 1
        /\ renamer' = [renamer EXCEPT ![r] = Leaves(renamer[r], i)]
        /\ UNCHANGED <<originalName, status, disk, failed, main, RenamerVars>>
    BY <1>5 DEF RenamerUpdates
  <2>2. i \in Items
    BY DEF FileOpThread
  <2>3. renamer' \in [Renames -> FileOpThread] /\ newName' \in [Items -> NewNames]
    <3>1. Leaves(renamer[r], i) \in FileOpThread
      BY <2>2, Leaving
    <3> QED BY <2>1, <2>2, <3>1 DEF NewNames
  <2>4. path' \in [Items -> Seq(Names)] /\ (\A j \in Items : Len(path'[j]) = Depth[j] + 1)
    BY <2>1, <2>2, UpdateChildrenPathType
  <2>5. posted' \in Nat
    BY <2>1
  <2>6. UNCHANGED <<originalName, status, disk, failed, main, RenamerVars>>
    BY <2>1
  <2> QED BY <2>3, <2>4, <2>5, <2>6
<1>6. CASE RenamerPerforms(r)
  <2>1. renamer' \in [Renames -> FileOpThread]
    BY <1>6, FileOpThreadGoes DEF RenamerPerforms
  <2>2. renamer[r].queued \in [Items -> NewNames]
    BY DEF FileOpThread
  <2>3. disk' \in [Items -> Names] /\ failed' \in BOOLEAN
    BY <1>6, <2>2, PerformOperationsType DEF RenamerPerforms
  <2> QED BY <1>6, <2>1, <2>3 DEF RenamerPerforms
<1> QED BY <1>1, <1>3, <1>4, <1>5, <1>6 DEF RenamerStep

-----------------------------------------------------------------------------
\* The invariant, step by step

\* The steps that leave the preview threads and the main thread's part in
\* _PerformRegExRename alone
LEMMA OthersStep ==
    ASSUME IInv, TypeOK', UNCHANGED <<worker, regExHandle, reentrancy>>,
           \/ main' \notin InPreview /\ (main' = "enter" => previews' >= 1)
           \/ UNCHANGED <<main, previews>>
    PROVE  IInv'
BY DEF IInv, AtItem, Pending, HandleHeld, Entered, NoSelfWait, InPreview, Running

LEMMA UserInv ==
    ASSUME IInv, TypeOK', UserStep
    PROVE  IInv'
<1> USE DEF InPreview, regex, events
<1>1. ASSUME NEW t \in Terms, TypeTerm(t) PROVE IInv'
  BY <1>1, OthersStep DEF TypeTerm, StartPreviews
<1>2. ASSUME NEW f \in FlagSets, PutFlags(f) PROVE IInv'
  BY <1>2, OthersStep DEF PutFlags, StartPreviews
<1>3. ASSUME NEW i \in Items, ToggleItem(i) PROVE IInv'
  BY <1>3, OthersStep DEF ToggleItem
<1>4. ASSUME NEW close \in BOOLEAN, Rename(close) PROVE IInv'
  BY <1>4, OthersStep DEF Rename
<1> QED BY <1>1, <1>2, <1>3, <1>4 DEF UserStep

LEMMA RenamerInv ==
    ASSUME IInv, TypeOK', NEW r \in Renames, RenamerStep(r)
    PROVE  IInv'
<1>1. UNCHANGED <<worker, regExHandle, reentrancy, previews>> /\ main' \in {main, "crashed"}
  BY DEF RenamerStep, RenamerReads, RenamerStarts, RenamerTests, RenamerQueues,
         RenamerUpdates, RenamerPerforms, RenamerVars, regex, events
<1> QED BY <1>1, OthersStep DEF InPreview

\* No preview thread is left when the main thread has waited for the one whose
\* handle it has
LEMMA WaitInv ==
    ASSUME IInv, TypeOK', NEW at \in {"wait", "renameWait"}, NEW then,
           then = IF at = "wait" THEN "create" ELSE "renameCreate",
           WaitForRegExWorkerThread(at, then)
    PROVE  IInv'
<1>1. \A w \in Workers : ~Running(w)
  BY DEF IInv, HandleHeld, WaitForRegExWorkerThread, TypeOK, Workers
<1>2. worker' = worker /\ regExHandle' = 0 /\ reentrancy' = reentrancy
      /\ previews' = previews /\ main = at /\ main' = then
  BY DEF WaitForRegExWorkerThread, events
<1>3. AtItem' /\ NoSelfWait' /\ HandleHeld'
  BY <1>1, <1>2 DEF IInv, AtItem, NoSelfWait, HandleHeld, Running
<1>4. Pending' /\ Entered'
  BY <1>1, <1>2 DEF IInv, Pending, Entered, Running, InPreview
<1> QED BY <1>3, <1>4 DEF IInv

LEMMA CreateInv ==
    ASSUME IInv, TypeOK', CreateRegExWorkerThread
    PROVE  IInv'
<1>1. main = "create" /\ reentrancy' = reentrancy /\ reentrancy = "main" /\ previews >= 1
      /\ \A w \in Workers : ~Running(w)
  BY DEF IInv, HandleHeld, Entered, Pending, InPreview, CreateRegExWorkerThread,
         Workers, events
<1>2. CASE NextPreview /\ UNCHANGED <<worker, regExHandle>>
  <2>1. main' \in {"enter", "ui"} /\ (main' = "enter" => previews' >= 1)
    BY <1>1, <1>2, NextPreviewType DEF IInv
  <2> QED BY <1>1, <1>2, <2>1, OthersStep DEF InPreview
<1>3. ASSUME NEW w \in Workers,
             worker' = [worker EXCEPT ![w] = [NoWorker EXCEPT !.pc = "start"]],
             regExHandle' = w, main' = "reset", UNCHANGED previews
      PROVE  IInv'
  <2>1. worker'[w].pc = "start" /\ \A v \in Workers : v # w => worker'[v] = worker[v]
    BY <1>3 DEF IInv, TypeOK, NoWorker
  <2>2. AtItem' /\ NoSelfWait'
    BY <2>1 DEF IInv, AtItem, NoSelfWait
  <2>3. HandleHeld' /\ Entered' /\ Pending'
    BY <1>1, <1>3, <2>1 DEF HandleHeld, Entered, Pending, Running, InPreview
  <2> QED BY <2>2, <2>3 DEF IInv
<1> QED BY <1>2, <1>3 DEF CreateRegExWorkerThread

LEMMA MainInv ==
    ASSUME IInv, TypeOK', MainStep
    PROVE  IInv'
<1> USE DEF InPreview, regex, events
<1>1. CASE UpdateCounts
  BY <1>1, OthersStep DEF UpdateCounts
<1>2. CASE TryEnter
  BY <1>2 DEF TryEnter, IInv, AtItem, Pending, HandleHeld, Entered, NoSelfWait, Running
<1>3. CASE CancelStarts
  BY <1>3 DEF CancelStarts, IInv, AtItem, Pending, HandleHeld, Entered, NoSelfWait, Running
<1>4. CASE Cancel
  BY <1>4 DEF Cancel, IInv, AtItem, Pending, HandleHeld, Entered, NoSelfWait, Running
<1>5. CASE WaitForRegExWorkerThread("wait", "create")
  BY <1>5, WaitInv
<1>6. CASE CreateRegExWorkerThread
  BY <1>6, CreateInv
<1>7. CASE ResetCancel
  BY <1>7 DEF ResetCancel, IInv, AtItem, Pending, HandleHeld, Entered, NoSelfWait, Running
<1>8. CASE SignalStart
  <2>1. main' \in {"enter", "ui"} /\ (main' = "enter" => previews' >= 1)
    BY <1>8, NextPreviewType DEF SignalStart, IInv, Pending
  <2> QED BY <1>8, <2>1, OthersStep DEF SignalStart
<1>9. CASE WaitForRegExWorkerThread("renameWait", "renameCreate")
  BY <1>9, WaitInv
<1>10. CASE CreateFileOpWorkerThread
  BY <1>10, OthersStep DEF CreateFileOpWorkerThread
<1>11. CASE SignalFileOp
  BY <1>11, OthersStep DEF SignalFileOp
<1>12. CASE RenameCompleted
  BY <1>12, OthersStep DEF RenameCompleted, StartPreviews
<1> QED BY <1>1, <1>2, <1>3, <1>4, <1>5, <1>6, <1>7, <1>8, <1>9, <1>10, <1>11, <1>12
        DEF MainStep

\* A preview thread that runs finds the critical section entered, which is why
\* it does not wait for itself
LEMMA WorkerInv ==
    ASSUME IInv, TypeOK', NEW w \in Workers, WorkerStep(w)
    PROVE  IInv'
<1>1. UNCHANGED <<main, previews, regExHandle, reentrancy>>
  BY DEF WorkerStep, WorkerStarts, WorkerTests, WorkerComputes, WorkerSetsStatus, WorkerPuts,
         WorkerVars, events
<1>2. Running(w) /\ reentrancy = "main"
  BY DEF WorkerStep, WorkerStarts, WorkerTests, WorkerComputes, WorkerSetsStatus, WorkerPuts,
         IInv, Entered, Running
<1>3. /\ \A v \in Workers : v # w => worker'[v] = worker[v]
      /\ worker'[w].pc \in {"compute", "status", "refuse", "put", "self"} =>
           worker'[w].next \in Items
      /\ worker'[w].pc # "self"
  <2> USE DEF IInv, TypeOK
  <2>1. CASE WorkerStarts(w)
    BY <2>1 DEF WorkerStarts, PreviewThread
  <2>2. CASE WorkerTests(w)
    <3>1. worker[w].next \in 1 .. NItems + 1
      BY DEF PreviewThread
    <3>2. CASE worker' = [worker EXCEPT ![w] = NoWorker]
      BY <3>2 DEF NoWorker
    <3>3. CASE worker[w].next <= NItems /\ worker' = [worker EXCEPT ![w].pc = "compute"]
      BY <3>1, <3>3 DEF Items, PreviewThread
    <3> QED BY <2>2, <3>2, <3>3 DEF WorkerTests, WorkerEnds
  <2>3. CASE WorkerComputes(w)
    <3> DEFINE n  == Preview(worker[w].next)
               pc == IF IsSkipped(worker[w].next, flags) THEN "put" ELSE "status"
    <3>1. \/ worker' = [worker EXCEPT ![w] = NoWorker]
          \/ worker' = [worker EXCEPT ![w].pc = pc, ![w].name = n]
      BY <2>3, <1>2 DEF WorkerComputes
    <3>2. worker[w].next \in Items /\ pc # "self"
      BY <2>3 DEF WorkerComputes, AtItem
    <3> HIDE DEF n, pc
    <3>3. CASE worker' = [worker EXCEPT ![w] = NoWorker]
      BY <3>3 DEF NoWorker
    <3>4. CASE worker' = [worker EXCEPT ![w].pc = pc, ![w].name = n]
      BY <3>2, <3>4 DEF PreviewThread
    <3> QED BY <3>1, <3>3, <3>4
  <2>4. CASE WorkerPuts(w)
    BY <2>4 DEF WorkerPuts, PreviewThread
  <2>5. CASE WorkerSetsStatus(w)
    <3> DEFINE pc == IF worker[w].name \in Refused /\ worker[w].pc # "refuse"
                     THEN "refuse" ELSE "put"
    <3>1. worker' = [worker EXCEPT ![w].pc = pc] /\ worker[w].next \in Items /\ pc # "self"
      BY <2>5 DEF WorkerSetsStatus, AtItem
    <3> HIDE DEF pc
    <3> QED BY <3>1 DEF PreviewThread
  <2> QED BY <2>1, <2>2, <2>3, <2>4, <2>5 DEF WorkerStep
<1>4. AtItem' /\ NoSelfWait'
  BY <1>3 DEF IInv, AtItem, NoSelfWait
<1>5. HandleHeld' /\ Entered' /\ Pending'
  BY <1>1, <1>2, <1>3 DEF IInv, HandleHeld, Entered, Pending, Running
<1> QED BY <1>4, <1>5 DEF IInv

LEMMA NextInv == IInv /\ [Next]_vars => IInv'
<1> SUFFICES ASSUME IInv, [Next]_vars PROVE IInv'
  OBVIOUS
<1> USE DEF IInv
<1>1. CASE UserStep
  BY <1>1, UserType, UserInv
<1>2. CASE MainStep
  BY <1>2, MainType, MainInv
<1>3. ASSUME NEW w \in Workers, WorkerStep(w) PROVE IInv'
  BY <1>3, WorkerType, WorkerInv
<1>4. ASSUME NEW r \in Renames, RenamerStep(r) PROVE IInv'
  BY <1>4, RenamerType, RenamerInv
<1>5. CASE UNCHANGED vars
  BY <1>5 DEF vars, input, items, events, regex, fileop, ui, TypeOK, AtItem, Pending,
              HandleHeld, Entered, NoSelfWait, Running
<1> QED BY <1>1, <1>2, <1>3, <1>4, <1>5 DEF Next

\* The invariant that is inductive
THEOREM Invariance == Spec => []IInv
<1> QED BY InitInv, NextInv, PTL DEF Spec

\* The variables keep their types: in particular every item has a name at
\* every layer of its path, and no preview is made that nobody asked for.
THEOREM TypeCorrect == Spec => []TypeOK
<1>1. IInv => TypeOK
  BY DEF IInv
<1> QED BY <1>1, Invariance, PTL

\* However changes, renames and overlapping renames interleave, there is at
\* most one preview thread.
THEOREM OnePreviewThread == Spec => []OneWorker
<1>1. IInv => OneWorker
  BY DEF IInv, HandleHeld, OneWorker
<1> QED BY <1>1, Invariance, PTL

\* A preview thread never waits for its own end.
THEOREM NeverWaitsForItself == Spec => []NoSelfWait
<1>1. IInv => NoSelfWait
  BY DEF IInv
<1> QED BY <1>1, Invariance, PTL

-----------------------------------------------------------------------------
\* The folders above an item

LEMMA AncestorFacts ==
    ASSUME NEW i \in Items, NEW d \in 0 .. Depth[i]
    PROVE  /\ Ancestor(i, d) \in 1 .. i /\ Ancestor(i, d) \in Items
           /\ Depth[Ancestor(i, d)] = d
           /\ \A k \in Ancestor(i, d) + 1 .. i : Depth[k] > d
BY AncestorExists, AncestorIsItem DEF Ancestor

LEMMA AncestorUnique ==
    ASSUME NEW i \in Items, NEW d \in 0 .. Depth[i], NEW j \in 1 .. i,
           Depth[j] = d, \A k \in j + 1 .. i : Depth[k] > d
    PROVE  Ancestor(i, d) = j
<1> DEFINE a == Ancestor(i, d)
<1>1. a \in 1 .. i /\ Depth[a] = d /\ \A k \in a + 1 .. i : Depth[k] > d
  BY AncestorFacts
<1> HIDE DEF a
<1>2. i \in Nat /\ a \in Nat /\ j \in Nat /\ d \in Nat
  BY <1>1 DEF Items
<1>3. ~(a < j) /\ ~(j < a)
  BY <1>1, <1>2
<1> QED BY <1>2, <1>3 DEF a

LEMMA AncestorSelf ==
    ASSUME NEW i \in Items
    PROVE  Ancestor(i, Depth[i]) = i
<1>1. Depth[i] \in 0 .. Depth[i] /\ i \in 1 .. i /\ \A k \in i + 1 .. i : Depth[k] > Depth[i]
  BY DEF Items
<1> QED BY <1>1, AncestorUnique

\* An item below a folder has the folders above that in its path, too.
LEMMA AncestorShared ==
    ASSUME NEW i \in Items, NEW j \in Children(i), NEW d \in 0 .. Depth[i]
    PROVE  j \in Items /\ d \in 0 .. Depth[j] /\ Ancestor(j, d) = Ancestor(i, d)
<1>1. j \in i + 1 .. NItems /\ \A k \in i + 1 .. j : Depth[k] > Depth[i]
  BY DEF Children
<1>2. j \in Items /\ \A k \in 1 .. j : k \in Items /\ Depth[k] \in Nat
  BY <1>1 DEF Items
<1>3. d \in 0 .. Depth[j] /\ d <= Depth[i]
  BY <1>1, <1>2
<1> DEFINE a == Ancestor(i, d)
<1>4. a \in 1 .. i /\ Depth[a] = d /\ \A k \in a + 1 .. i : Depth[k] > d
  BY AncestorFacts
<1> HIDE DEF a
<1>5. \A k \in a + 1 .. j : Depth[k] > d
  <2> SUFFICES ASSUME NEW k \in a + 1 .. j PROVE Depth[k] > d
    OBVIOUS
  <2>1. CASE k <= i
    BY <1>2, <1>4, <2>1 DEF Items
  <2>2. CASE k > i
    <3>1. k \in i + 1 .. j /\ k \in 1 .. j
      BY <1>4, <2>2 DEF Items
    <3> QED BY <1>1, <1>2, <1>3, <3>1
  <2> QED BY <1>4, <2>1, <2>2 DEF Items
<1>6. a \in 1 .. j
  BY <1>1, <1>4 DEF Items
<1> QED BY <1>2, <1>3, <1>4, <1>5, <1>6, AncestorUnique DEF a

\* What is above an item is a folder, and the item is below it.
LEMMA BelowAncestor ==
    ASSUME NEW j \in Items, NEW d \in 0 .. Depth[j], Ancestor(j, d) # j
    PROVE  j \in Children(Ancestor(j, d)) /\ Ancestor(j, d) \in Folders
<1> DEFINE a == Ancestor(j, d)
<1>1. a \in 1 .. j /\ a \in Items /\ Depth[a] = d /\ \A k \in a + 1 .. j : Depth[k] > d
  BY AncestorFacts
<1>2. a # j
  OBVIOUS
<1> HIDE DEF a
<1>3. j \in a + 1 .. NItems /\ a + 1 \in a + 1 .. j /\ a + 1 \in 2 .. NItems
  BY <1>1, <1>2 DEF Items
<1>4. j \in Children(a)
  BY <1>1, <1>3 DEF Children
<1>5. Depth[a + 1] <= Depth[a] + (IF a \in Folders THEN 1 ELSE 0)
  <2>1. Depth[a + 1] <= Depth[(a + 1) - 1] + (IF (a + 1) - 1 \in Folders THEN 1 ELSE 0)
    BY <1>3
  <2>2. (a + 1) - 1 = a
    BY <1>1 DEF Items
  <2> QED BY <2>1, <2>2
<1>6. Depth[a + 1] > Depth[a] /\ Depth[a] \in Nat /\ Depth[a + 1] \in Nat
  BY <1>1, <1>3 DEF Items
<1>7. a \in Folders
  BY <1>5, <1>6
<1> QED BY <1>4, <1>7 DEF a

-----------------------------------------------------------------------------
\* The steps by what they do to a rename

Previewing == InPreview \cup {"ui", "enter"}

\* No part of a rename: at most the previews go on.
NoRename ==
    /\ UNCHANGED <<fileop, path, disk, pumps, closeUI>>
    /\ main' = main \/ (main \in Previewing /\ main' \in Previewing)

LEMMA StepKinds ==
    ASSUME TypeOK, Next
    PROVE  /\ Alive
           /\ \/ NoRename
              \/ \E close \in BOOLEAN : Rename(close)
              \/ WaitForRegExWorkerThread("renameWait", "renameCreate")
              \/ CreateFileOpWorkerThread \/ SignalFileOp \/ RenameCompleted
              \/ \E r \in Renames : RenamerStep(r)
<1> USE DEF NoRename, Previewing, InPreview, items
<1>1. Alive
  BY DEF Next
<1>2. ASSUME NEW t \in Terms, TypeTerm(t) PROVE NoRename
  BY <1>2 DEF TypeTerm, Change, StartPreviews
<1>3. ASSUME NEW f \in FlagSets, PutFlags(f) PROVE NoRename
  BY <1>3 DEF PutFlags, Change, StartPreviews
<1>4. ASSUME NEW i \in Items, ToggleItem(i) PROVE NoRename
  BY <1>4 DEF ToggleItem, Change
<1>5. ASSUME UpdateCounts \/ TryEnter \/ CancelStarts \/ Cancel \/ ResetCancel
      PROVE  NoRename
  BY <1>5 DEF UpdateCounts, TryEnter, CancelStarts, Cancel, ResetCancel
<1>6. ASSUME WaitForRegExWorkerThread("wait", "create") PROVE NoRename
  BY <1>6 DEF WaitForRegExWorkerThread
<1>7. ASSUME CreateRegExWorkerThread \/ SignalStart PROVE NoRename
  BY <1>7 DEF CreateRegExWorkerThread, SignalStart, NextPreview
<1>8. ASSUME NEW w \in Workers, WorkerStep(w) PROVE NoRename
  BY <1>8 DEF WorkerStep, WorkerStarts, WorkerTests, WorkerComputes, WorkerSetsStatus,
         WorkerPuts, WorkerVars
<1> QED BY <1>1, <1>2, <1>3, <1>4, <1>5, <1>6, <1>7, <1>8 DEF Next, UserStep, MainStep

\* The steps of a file operation thread.  What is written of renamer[r] is all
\* of it but the flags.
Goes(r, pc, todo) == renamer'[r].pc = pc /\ renamer'[r].todo = todo
Keeping(r)        == renamer'[r].keep = renamer[r].keep /\ renamer'[r].queued = renamer[r].queued
Files             == <<path, disk, failed>>

Reads(r) ==
    /\ renamer[r].pc = "start" /\ renamer'[r].pc = "wait"
    /\ renamer'[r].keep = ~closeUI /\ renamer'[r].queued = renamer[r].queued
    /\ UNCHANGED <<Files, main>>
Begins(r) ==
    /\ renamer[r].pc = "wait" /\ Goes(r, "test", Items) /\ Keeping(r)
    /\ UNCHANGED <<Files, main>>
Finds(r) ==
    /\ renamer[r].pc = "test" /\ Goes(r, "queue", renamer[r].todo) /\ Keeping(r)
    /\ UNCHANGED <<Files, main>>
Skips(r, i) ==
    /\ renamer[r].pc \in {"test", "queue"} /\ IsNext(r, i)
    /\ Goes(r, "test", renamer[r].todo \ {i}) /\ Keeping(r)
    /\ UNCHANGED <<Files, main>>
Crashes(r) ==
    /\ renamer[r].pc = "queue" /\ main' = "crashed" /\ UNCHANGED <<Files, renamer>>
Queues(r, i) ==
    /\ renamer[r].pc = "queue" /\ IsNext(r, i) /\ newName[i] \in Names
    /\ renamer'[r].keep = renamer[r].keep
    /\ renamer'[r].queued = [renamer[r].queued EXCEPT ![i] = newName[i]]
    /\ \/ /\ renamer[r].keep /\ Goes(r, "update", renamer[r].todo)
          /\ path' = [path EXCEPT ![i] = [path[i] EXCEPT ![Depth[i] + 1] = newName[i]]]
       \/ ~renamer[r].keep /\ Goes(r, "test", renamer[r].todo \ {i}) /\ path' = path
    /\ UNCHANGED <<disk, failed, main>>
Updates(r, i) ==
    /\ renamer[r].pc = "update" /\ IsNext(r, i)
    /\ Goes(r, "test", renamer[r].todo \ {i}) /\ Keeping(r)
    /\ path' = UpdateChildrenPath(i)
    /\ UNCHANGED <<disk, failed, main>>
Performs(r) ==
    /\ renamer[r].pc = "test" /\ renamer[r].todo = {}
    /\ renamer'[r].pc = "ended" /\ Keeping(r)
    /\ ~failed' => /\ ~failed
                   /\ \A i \in Items :
                        disk'[i] = IF renamer[r].queued[i] # None
                                   THEN renamer[r].queued[i] ELSE disk[i]
    /\ UNCHANGED <<path, main>>

LEMMA RenamerKinds ==
    ASSUME TypeOK, NEW r \in Renames, RenamerStep(r)
    PROVE  /\ UNCHANGED <<fileOpHandle, renames, overlapped, pumps, closeUI>>
           /\ \A s \in Renames : s # r => renamer'[s] = renamer[s]
           /\ \/ Reads(r) \/ Begins(r) \/ Finds(r) \/ Crashes(r) \/ Performs(r)
              \/ \E i \in renamer[r].todo : Skips(r, i) \/ Queues(r, i) \/ Updates(r, i)
<1> USE DEF Goes, Keeping, Files, items
<1>0. renamer \in [Renames -> FileOpThread]
      /\ renamer[r].todo \subseteq Items /\ renamer[r].queued \in [Items -> NewNames]
  BY DEF TypeOK, FileOpThread
<1>1. UNCHANGED <<fileOpHandle, renames, overlapped, pumps, closeUI>>
  <2>1. CASE RenamerQueues(r)
    BY <2>1 DEF RenamerQueues, RenamerVars
  <2>2. CASE RenamerReads(r) \/ RenamerStarts(r) \/ RenamerTests(r)
    BY <2>2 DEF RenamerReads, RenamerStarts, RenamerTests, RenamerVars
  <2>3. CASE RenamerUpdates(r) \/ RenamerPerforms(r)
    BY <2>3 DEF RenamerUpdates, RenamerPerforms, RenamerVars
  <2> QED BY <2>1, <2>2, <2>3 DEF RenamerStep
<1>2. CASE RenamerReads(r)
  BY <1>0, <1>1, <1>2 DEF RenamerReads, Reads, FileOpThread
<1>3. CASE RenamerStarts(r)
  BY <1>0, <1>1, <1>3 DEF RenamerStarts, Begins, FileOpThread
<1>4. CASE RenamerTests(r)
  <2>1. PICK i \in renamer[r].todo :
          /\ renamer[r].pc = "test" /\ IsNext(r, i)
          /\ \/ renamer' = [renamer EXCEPT ![r].pc = "queue"]
             \/ renamer' = [renamer EXCEPT ![r].todo = @ \ {i}]
          /\ UNCHANGED <<items, failed, main>>
    BY <1>4 DEF RenamerTests
  <2>2. CASE renamer' = [renamer EXCEPT ![r].pc = "queue"]
    BY <1>0, <1>1, <2>1, <2>2 DEF Finds, FileOpThread
  <2>3. CASE renamer' = [renamer EXCEPT ![r].todo = @ \ {i}]
    BY <1>0, <1>1, <2>1, <2>3 DEF Skips, FileOpThread
  <2> QED BY <2>1, <2>2, <2>3
<1>5. CASE RenamerQueues(r)
  <2>1. PICK i \in renamer[r].todo :
            /\ renamer[r].pc = "queue" /\ IsNext(r, i)
            /\ \/ /\ renamer' = [renamer EXCEPT ![r] = Leaves(renamer[r], i)]
                  /\ UNCHANGED <<path, originalName, main>>
               \/ /\ main' = "crashed"
                  /\ UNCHANGED <<renamer, path, originalName>>
               \/ \E j \in Found(i) :
                  /\ newName[i] # None
                  /\ IF renamer[r].keep
                     THEN /\ renamer' = [renamer EXCEPT
                                          ![r] = [Queued(renamer[r], i, j) EXCEPT !.pc = "update"]]
                          /\ path' = [path EXCEPT ![i][Depth[i] + 1] = newName[i]]
                          /\ originalName' = [originalName EXCEPT ![i] = newName[i]]
                     ELSE /\ renamer' = [renamer EXCEPT ![r] = Leaves(Queued(renamer[r], i, j), i)]
                          /\ UNCHANGED <<path, originalName>>
                  /\ UNCHANGED main
            /\ UNCHANGED <<newName, status, disk, failed, posted, RenamerVars>>
    BY <1>5, Zenon DEF RenamerQueues
  <2>2. i \in Items /\ newName[i] \in NewNames /\ path[i] \in Seq(Names)
    BY <1>0 DEF TypeOK
  <2>0. renamer[r] \in FileOpThread /\ Found(i) \subseteq Items \cup {0}
    BY <1>0, <2>2 DEF Found
  <2>3. CASE /\ renamer' = [renamer EXCEPT ![r] = Leaves(renamer[r], i)]
             /\ UNCHANGED <<path, main>>
    <3>1. /\ renamer'[r] = Leaves(renamer[r], i)
          /\ \A s \in Renames : s # r => renamer'[s] = renamer[s]
      BY <1>0, <2>3
    <3>2. Goes(r, "test", renamer[r].todo \ {i}) /\ Keeping(r)
      BY <2>0, <2>2, <3>1, Leaving
    <3> HIDE DEF Goes, Keeping
    <3>3. Skips(r, i)
      BY <2>1, <2>3, <3>2 DEF Skips
    <3> QED BY <1>1, <3>1, <3>3
  <2>4. CASE main' = "crashed" /\ UNCHANGED <<renamer, path>>
    BY <1>1, <2>1, <2>4 DEF Crashes
  <2>5. ASSUME NEW j \in Found(i), newName[i] # None, renamer[r].keep,
               renamer' = [renamer EXCEPT ![r] = [Queued(renamer[r], i, j) EXCEPT !.pc = "update"]],
               path' = [path EXCEPT ![i][Depth[i] + 1] = newName[i]],
               UNCHANGED main
        PROVE  Queues(r, i)
    <3>1. newName[i] \in Names
      BY <2>2, <2>5 DEF NewNames
    <3>2. path' = [path EXCEPT ![i] = [path[i] EXCEPT ![Depth[i] + 1] = newName[i]]]
      BY <2>2, <2>5 DEF TypeOK
    <3> DEFINE t == Queued(renamer[r], i, j)
    <3>3. /\ t \in FileOpThread /\ t.todo = renamer[r].todo /\ t.keep = renamer[r].keep
          /\ t.queued = [renamer[r].queued EXCEPT ![i] = newName[i]]
      <4>1. j \in Items \cup {0}
        BY <2>0
      <4>2. renamer[r] \in FileOpThread /\ i \in Items /\ newName[i] \in NewNames
        BY <2>0, <2>2
      <4> QED BY <4>1, <4>2, Queueing
    <3> HIDE DEF t
    <3>4. renamer'[r] = [t EXCEPT !.pc = "update"]
      BY <1>0, <2>5 DEF t
    <3>5. /\ Goes(r, "update", renamer[r].todo) /\ renamer'[r].keep = renamer[r].keep
          /\ renamer'[r].queued = [renamer[r].queued EXCEPT ![i] = newName[i]]
      BY <3>3, <3>4 DEF FileOpThread
    <3> HIDE DEF Goes
    <3> QED BY <1>1, <2>1, <2>5, <3>1, <3>2, <3>5 DEF Queues
  <2>6. ASSUME NEW j \in Found(i), newName[i] # None, ~renamer[r].keep,
               renamer' = [renamer EXCEPT ![r] = Leaves(Queued(renamer[r], i, j), i)],
               UNCHANGED <<path, main>>
        PROVE  Queues(r, i)
    <3>1. newName[i] \in Names
      BY <2>2, <2>6 DEF NewNames
    <3>4. renamer'[r] = Leaves(Queued(renamer[r], i, j), i)
      BY <1>0, <2>6
    <3> DEFINE t == Queued(renamer[r], i, j)
    <3>3. /\ t \in FileOpThread /\ t.todo = renamer[r].todo /\ t.keep = renamer[r].keep
          /\ t.queued = [renamer[r].queued EXCEPT ![i] = newName[i]]
      <4>1. j \in Items \cup {0}
        BY <2>0
      <4>2. renamer[r] \in FileOpThread /\ i \in Items /\ newName[i] \in NewNames
        BY <2>0, <2>2
      <4> QED BY <4>1, <4>2, Queueing
    <3>2. renamer'[r] = Leaves(t, i)
      BY <3>4
    <3> HIDE DEF t
    <3>5. /\ Goes(r, "test", renamer[r].todo \ {i}) /\ renamer'[r].keep = renamer[r].keep
          /\ renamer'[r].queued = [renamer[r].queued EXCEPT ![i] = newName[i]]
      BY <2>2, <3>2, <3>3, Leaving
    <3> HIDE DEF Goes
    <3> QED BY <1>1, <2>1, <2>6, <3>1, <3>5 DEF Queues
  <2>7. \A s \in Renames : s # r => renamer'[s] = renamer[s]
    BY <1>0, <2>1
  <2> QED BY <1>1, <2>1, <2>3, <2>4, <2>5, <2>6, <2>7
<1>6. CASE RenamerUpdates(r)
  <2>1. PICK i \in renamer[r].todo :
          /\ renamer[r].pc = "update" /\ IsNext(r, i)
          /\ path' = UpdateChildrenPath(i)
          /\ renamer' = [renamer EXCEPT ![r] = Leaves(renamer[r], i)]
          /\ UNCHANGED <<disk, failed, main>>
    BY <1>6 DEF RenamerUpdates
  <2>2. /\ renamer'[r] = Leaves(renamer[r], i)
        /\ \A s \in Renames : s # r => renamer'[s] = renamer[s]
    BY <1>0, <2>1
  <2>3. i \in Items /\ renamer[r] \in FileOpThread
    BY <1>0
  <2>4. Goes(r, "test", renamer[r].todo \ {i}) /\ Keeping(r)
    BY <2>2, <2>3, Leaving
  <2> HIDE DEF Goes, Keeping
  <2>5. Updates(r, i)
    BY <2>1, <2>4 DEF Updates
  <2> QED BY <1>1, <2>2, <2>5
<1>7. CASE RenamerPerforms(r)
  <2>1. /\ renamer[r].pc = "test" /\ renamer[r].todo = {}
        /\ renamer' = [renamer EXCEPT ![r].pc = "ended"]
        /\ failed' = (failed \/ \E i \in Items :
                       disk'[i] # IF renamer[r].queued[i] # None
                                  THEN renamer[r].queued[i] ELSE disk[i])
        /\ UNCHANGED <<path, main>>
    BY <1>7, Zenon DEF RenamerPerforms, PerformOperations
  <2>3. ~failed' => /\ ~failed
                    /\ \A i \in Items :
                         disk'[i] = IF renamer[r].queued[i] # None
                                    THEN renamer[r].queued[i] ELSE disk[i]
    BY <2>1, Zenon
  <2>2. /\ renamer'[r].pc = "ended" /\ Keeping(r)
        /\ \A s \in Renames : s # r => renamer'[s] = renamer[s]
    BY <1>0, <2>1 DEF FileOpThread
  <2> HIDE DEF Keeping
  <2> QED BY <1>1, <2>1, <2>2, <2>3 DEF Performs
<1> QED BY <1>2, <1>3, <1>4, <1>5, <1>6, <1>7 DEF RenamerStep

-----------------------------------------------------------------------------
\* One rename at a time, unless one was called from the message loop of another

Idle(r) == renamer[r].pc \in {"none", "ended"}
Ending(r) == renamer[r].pc \in {"test", "queue", "update"}
AtWork  == pumps > 0 \/ main = "renameSignal"

\* Only the thread whose handle the main thread has is at work, and only until
\* the main thread has seen its end.
OneRename ==
    ~overlapped =>
        /\ pumps <= 1
        /\ main \in {"renameWait", "renameCreate", "renameSignal"} => pumps = 0
        /\ \A r \in Renames : ~Idle(r) => r = fileOpHandle /\ (AtWork \/ main = "crashed")
        /\ AtWork => fileOpHandle # 0 /\ renamer[fileOpHandle].pc # "none"

\* A rename has a thread of its own, which has queued nothing at its start.
Untouched ==
    /\ \A r \in Renames : r > renames => renamer[r] = NoRenamer
    /\ main \in {"renameWait", "renameCreate"} =>
         renames \in Renames /\ renamer[renames] = NoRenamer
    /\ \A r \in Renames : renamer[r].pc \in {"none", "start", "wait"} =>
         \A i \in Items : renamer[r].queued[i] = None

\* The items are kept in step with the files just when the window stays open.
Keeps ==
    ~overlapped /\ fileOpHandle # 0 =>
        /\ AtWork /\ renamer[fileOpHandle].pc \notin {"none", "start"} =>
             renamer[fileOpHandle].keep = ~closeUI
        /\ ~AtWork /\ Alive =>
             renamer[fileOpHandle].pc = "ended" /\ renamer[fileOpHandle].keep

\* No item is dealt with before those below it.
DeepestFirst ==
    \A r \in Renames : Ending(r) =>
        /\ \A i \in Items \ renamer[r].todo, j \in renamer[r].todo : Depth[i] >= Depth[j]
        /\ \A i \in renamer[r].todo : renamer[r].queued[i] # None =>
             renamer[r].pc = "update" /\ IsNext(r, i)

Order == OneRename /\ Untouched /\ Keeps /\ DeepestFirst

LEMMA InitOrder == Init => Order
BY DEF Init, Order, OneRename, Untouched, Keeps, DeepestFirst, Idle, Ending, AtWork, NoRenamer

LEMMA NextIsOne ==
    ASSUME TypeOK, NEW r \in Renames, NEW i \in renamer[r].todo, NEW j \in renamer[r].todo,
           IsNext(r, i), IsNext(r, j)
    PROVE  i = j
<1>1. renamer[r].todo \subseteq Items
  BY DEF TypeOK, FileOpThread
<1>2. i \in Nat /\ j \in Nat /\ Depth[i] \in Nat /\ Depth[j] \in Nat
  BY <1>1 DEF Items
<1> QED BY <1>2 DEF IsNext

LEMMA RenamerOrder ==
    ASSUME TypeOK, Order, Alive, NEW r \in Renames, RenamerStep(r)
    PROVE  Order'
<1> USE DEF Goes, Keeping, Files
<1>0. /\ UNCHANGED <<fileOpHandle, renames, overlapped, pumps, closeUI>>
      /\ \A s \in Renames : s # r => renamer'[s] = renamer[s]
  BY RenamerKinds
<1>1. \/ Reads(r) \/ Begins(r) \/ Finds(r) \/ Crashes(r) \/ Performs(r)
      \/ \E i \in renamer[r].todo : Skips(r, i) \/ Queues(r, i) \/ Updates(r, i)
  BY RenamerKinds
<1>2. renamer[r].pc \notin {"none", "ended"} /\ renamer'[r].pc # "none"
  BY <1>1 DEF Reads, Begins, Finds, Crashes, Performs, Skips, Queues, Updates
<1>3. main' = main \/ main' = "crashed"
  BY <1>1 DEF Reads, Begins, Finds, Crashes, Performs, Skips, Queues, Updates
<1>t. renamer[r].todo \subseteq Items /\ renamer[r].queued \in [Items -> NewNames]
  BY DEF TypeOK, FileOpThread
<1>4. OneRename'
  BY <1>0, <1>2, <1>3 DEF Order, OneRename, Idle, AtWork, Alive
<1>5. Untouched'
  <2>1. r <= renames
    BY <1>2 DEF Order, Untouched, NoRenamer, TypeOK, Renames
  <2>2. main' \in {"renameWait", "renameCreate"} => main' = main /\ renames # r
    BY <1>2, <1>3 DEF Order, Untouched, NoRenamer
  <2>3. renamer'[r].pc \in {"none", "start", "wait"} =>
          \A i \in Items : renamer'[r].queued[i] = None
    <3>1. CASE Reads(r)
      BY <3>1 DEF Reads, Order, Untouched
    <3>2. renamer'[r].pc \notin {"none", "start", "wait"} \/ Reads(r)
      BY <1>1 DEF Begins, Finds, Crashes, Performs, Skips, Queues, Updates
    <3> QED BY <3>1, <3>2
  <2>4. renames \in 0 .. MaxRenames /\ r \in Nat
    BY DEF TypeOK, Renames
  <2>5. \A s \in Renames : s > renames => s # r
    BY <2>1, <2>4 DEF Renames
  <2> QED BY <1>0, <2>2, <2>3, <2>5 DEF Order, Untouched
<1>6. Keeps'
  <2> SUFFICES ASSUME ~overlapped, fileOpHandle # 0
               PROVE  /\ AtWork' /\ renamer'[fileOpHandle].pc \notin {"none", "start"} =>
                           renamer'[fileOpHandle].keep = ~closeUI
                      /\ ~AtWork' /\ Alive' =>
                           /\ renamer'[fileOpHandle].pc = "ended"
                           /\ renamer'[fileOpHandle].keep
    BY <1>0 DEF Keeps
  <2>1. r = fileOpHandle /\ AtWork
    BY <1>2 DEF Order, OneRename, Idle, Alive
  <2>2. Alive' => AtWork'
    BY <1>0, <1>3, <2>1 DEF AtWork, Alive
  <2>3. renamer'[r].pc \notin {"none", "start"} => renamer'[r].keep = ~closeUI
    BY <1>1, <2>1 DEF Order, Keeps, Reads, Begins, Finds, Crashes, Performs, Skips, Queues, Updates
  <2> QED BY <2>1, <2>2, <2>3
<1>7. DeepestFirst'
  <2> SUFFICES ASSUME Ending(r)'
               PROVE  /\ \A i \in Items \ renamer'[r].todo, j \in renamer'[r].todo :
                           Depth[i] >= Depth[j]
                      /\ \A i \in renamer'[r].todo : renamer'[r].queued[i] # None =>
                           renamer'[r].pc = "update" /\ IsNext(r, i)'
    BY <1>0 DEF Order, DeepestFirst, Ending, IsNext
  <2>1. CASE Begins(r)
    BY <1>t, <2>1 DEF Begins, Order, Untouched
  <2>2. CASE Finds(r) \/ Crashes(r)
    BY <2>2 DEF Finds, Crashes, Order, DeepestFirst, Ending, IsNext
  <2>3. ASSUME NEW i \in renamer[r].todo, Skips(r, i) \/ Updates(r, i) \/ Queues(r, i),
               renamer'[r].todo = renamer[r].todo \ {i}, renamer'[r].pc = "test"
        PROVE  /\ \A k \in Items \ renamer'[r].todo, j \in renamer'[r].todo :
                    Depth[k] >= Depth[j]
               /\ \A k \in renamer'[r].todo : renamer'[r].queued[k] = None
    <3>1. IsNext(r, i) /\ Ending(r)
      BY <2>3 DEF Skips, Updates, Queues, Ending
    <3>2. \A k \in Items \ renamer'[r].todo, j \in renamer'[r].todo : Depth[k] >= Depth[j]
      <4>1. \A j \in renamer[r].todo : Depth[i] >= Depth[j]
        <5>1. \A j \in renamer[r].todo : Depth[i] \in Nat /\ Depth[j] \in Nat
          BY <1>t
        <5> QED BY <3>1, <5>1 DEF IsNext
      <4> QED BY <2>3, <3>1, <4>1 DEF Order, DeepestFirst
    <3>3. ASSUME NEW k \in renamer[r].todo \ {i} PROVE renamer[r].queued[k] = None
      <4>1. ~IsNext(r, k)
        BY <3>1, NextIsOne
      <4> QED BY <3>1, <4>1 DEF Order, DeepestFirst
    <3>4. \A k \in renamer[r].todo \ {i} : renamer'[r].queued[k] = renamer[r].queued[k]
      BY <1>t, <2>3 DEF Skips, Updates, Queues
    <3> QED BY <2>3, <3>2, <3>3, <3>4
  <2>4. ASSUME NEW i \in renamer[r].todo, Queues(r, i), renamer'[r].pc = "update",
               renamer'[r].todo = renamer[r].todo
        PROVE  /\ \A k \in Items \ renamer'[r].todo, j \in renamer'[r].todo :
                    Depth[k] >= Depth[j]
               /\ \A k \in renamer'[r].todo : renamer'[r].queued[k] # None => IsNext(r, k)'
    <3>1. IsNext(r, i) /\ Ending(r) /\ renamer[r].pc = "queue"
      BY <2>4 DEF Queues, Ending
    <3>2. \A k \in renamer[r].todo : k # i => renamer'[r].queued[k] = renamer[r].queued[k]
      BY <1>t, <2>4 DEF Queues
    <3>3. \A k \in renamer[r].todo : renamer[r].queued[k] = None
      BY <3>1 DEF Order, DeepestFirst
    <3>4. IsNext(r, i)'
      BY <2>4, <3>1 DEF IsNext
    <3> QED BY <2>4, <3>1, <3>2, <3>3, <3>4 DEF Order, DeepestFirst
  <2>5. ASSUME NEW i \in renamer[r].todo, Queues(r, i)
        PROVE  \/ renamer'[r].pc = "update" /\ renamer'[r].todo = renamer[r].todo
               \/ renamer'[r].pc = "test" /\ renamer'[r].todo = renamer[r].todo \ {i}
    BY <2>5 DEF Queues
  <2>6. ASSUME NEW i \in renamer[r].todo, Skips(r, i) \/ Updates(r, i)
        PROVE  renamer'[r].pc = "test" /\ renamer'[r].todo = renamer[r].todo \ {i}
    BY <2>6 DEF Skips, Updates
  <2>7. CASE Reads(r) \/ Performs(r)
    BY <2>7 DEF Reads, Performs, Ending
  <2> HIDE DEF Goes, Keeping, Files
  <2> QED BY <1>1, <2>1, <2>2, <2>3, <2>4, <2>5, <2>6, <2>7
<1> QED BY <1>4, <1>5, <1>6, <1>7 DEF Order

LEMMA NextOrder == TypeOK /\ Order /\ [Next]_vars => Order'
<1> SUFFICES ASSUME TypeOK, Order, [Next]_vars PROVE Order'
  OBVIOUS
<1> USE DEF Order
<1>1. CASE UNCHANGED vars
  BY <1>1 DEF vars, fileop, ui, OneRename, Untouched, Keeps, DeepestFirst, Idle, Ending,
     AtWork, Alive, IsNext
<1>2. CASE NoRename /\ Alive
  <2>1. /\ UNCHANGED <<renamer, fileOpHandle, renames, overlapped, pumps, closeUI>>
        /\ main' = main \/ (main \in Previewing /\ main' \in Previewing)
    BY <1>2 DEF NoRename, fileop
  <2>2. AtWork' <=> AtWork
    BY <2>1 DEF AtWork, Previewing, InPreview
  <2>3. OneRename' /\ Untouched'
    BY <1>2, <2>1, <2>2 DEF OneRename, Untouched, Idle, Previewing, InPreview, Alive
  <2>4. Keeps' /\ DeepestFirst'
    BY <1>2, <2>1, <2>2 DEF Keeps, DeepestFirst, Ending, IsNext, Alive
  <2> QED BY <2>3, <2>4
<1>3. ASSUME NEW close \in BOOLEAN, Rename(close) PROVE Order'
  <2>1. /\ UNCHANGED <<renamer, fileOpHandle, pumps>> /\ main = "ui"
        /\ main' \in {"renameWait", "ui"} /\ renames' = renames + 1 /\ renames' \in Renames
        /\ ~overlapped' => ~overlapped /\ pumps = 0
    <3>1. overlapped' = (overlapped \/ pumps > 0)
      BY <1>3 DEF Rename
    <3>2. ~overlapped' => ~overlapped /\ pumps = 0
      <4>1. ~overlapped' => ~overlapped /\ ~(pumps > 0)
        BY <3>1, Zenon
      <4>2. pumps \in Nat
        BY DEF TypeOK
      <4> QED BY <4>1, <4>2
    <3>3. renames < MaxRenames /\ renames' = renames + 1 /\ renames \in Nat
      BY <1>3 DEF Rename, TypeOK
    <3>4. renames' \in Renames
      BY <3>3, PowerRenameAssumption DEF Renames
    <3> QED BY <1>3, <3>2, <3>3, <3>4 DEF Rename
  <2>2. OneRename'
    BY <2>1 DEF OneRename, Idle, AtWork
  <2>3. Untouched'
    <3>1. renames' > renames /\ \A r \in Renames : r > renames' => r > renames
      BY <2>1 DEF TypeOK, Renames
    <3> QED BY <2>1, <3>1 DEF Untouched
  <2>4. Keeps' /\ DeepestFirst'
    BY <2>1 DEF Keeps, DeepestFirst, Ending, AtWork, Alive, IsNext
  <2> QED BY <2>2, <2>3, <2>4
<1>4. CASE WaitForRegExWorkerThread("renameWait", "renameCreate")
  <2>1. /\ UNCHANGED <<renamer, fileOpHandle, renames, overlapped, pumps, closeUI>>
        /\ main = "renameWait" /\ main' = "renameCreate"
    BY <1>4 DEF WaitForRegExWorkerThread, fileop
  <2> QED BY <2>1 DEF OneRename, Untouched, Keeps, DeepestFirst, Idle, Ending, AtWork, Alive, IsNext
<1>5. CASE CreateFileOpWorkerThread
  <2>1. /\ UNCHANGED <<renames, overlapped, pumps, closeUI>> /\ main = "renameCreate"
    BY <1>5 DEF CreateFileOpWorkerThread
  <2>2. CASE main' = "ui" /\ UNCHANGED <<renamer, fileOpHandle>>
    BY <2>1, <2>2 DEF OneRename, Untouched, Keeps, DeepestFirst, Idle, Ending, AtWork, Alive,
       IsNext
  <2>3. ASSUME NEW r \in Renames, r = renames,
               renamer' = [renamer EXCEPT ![r].pc = "start"], fileOpHandle' = r,
               main' = "renameSignal"
        PROVE  Order'
    <3>1. /\ renamer'[r].pc = "start" /\ renamer'[r].queued = renamer[r].queued
          /\ \A s \in Renames : s # r => renamer'[s] = renamer[s]
      BY <2>3 DEF TypeOK, FileOpThread
    <3>2. \A i \in Items : renamer[r].queued[i] = None
      BY <2>1, <2>3 DEF Untouched, NoRenamer
    <3>3. r # 0 /\ r <= renames
      BY <2>3 DEF Renames
    <3>4. OneRename'
      BY <2>1, <2>3, <3>1, <3>3 DEF OneRename, Idle, AtWork
    <3>5. Untouched'
      BY <2>1, <2>3, <3>1, <3>2, <3>3 DEF Untouched, Renames
    <3>6. Keeps'
      BY <2>3, <3>1 DEF Keeps, AtWork
    <3>7. DeepestFirst'
      BY <3>1 DEF DeepestFirst, Ending, IsNext
    <3> QED BY <3>4, <3>5, <3>6, <3>7
  <2> QED BY <1>5, <2>2, <2>3 DEF CreateFileOpWorkerThread
<1>6. CASE SignalFileOp
  <2>1. /\ UNCHANGED <<renamer, fileOpHandle, renames, overlapped, closeUI>>
        /\ main = "renameSignal" /\ main' = "ui" /\ pumps' = pumps + 1 /\ pumps \in Nat
    BY <1>6 DEF SignalFileOp, fileop, TypeOK
  <2>2. AtWork /\ AtWork'
    BY <2>1 DEF AtWork
  <2>3. OneRename'
    BY <2>1, <2>2 DEF OneRename, Idle
  <2>4. Untouched' /\ Keeps' /\ DeepestFirst'
    BY <2>1, <2>2 DEF Untouched, Keeps, DeepestFirst, Ending, IsNext
  <2> QED BY <2>3, <2>4
<1>7. CASE RenameCompleted
  <2>1. /\ UNCHANGED <<renamer, fileOpHandle, renames, overlapped, closeUI>>
        /\ main = "ui" /\ pumps > 0 /\ pumps' = pumps - 1 /\ pumps \in Nat
        /\ renamer[fileOpHandle].pc = "ended"
        /\ main' = IF closeUI THEN "closed" ELSE "enter"
    BY <1>7 DEF RenameCompleted, StartPreviews, fileop, TypeOK
  <2>2. ~overlapped => pumps' = 0
    BY <2>1 DEF OneRename
  <2>3. AtWork /\ (~overlapped => ~AtWork')
    BY <2>1, <2>2 DEF AtWork
  <2>4. OneRename'
    BY <2>1, <2>2, <2>3 DEF OneRename, Idle
  <2>5. Keeps'
    BY <2>1, <2>3 DEF Keeps, Alive
  <2>6. Untouched' /\ DeepestFirst'
    BY <2>1 DEF Untouched, DeepestFirst, Ending, IsNext
  <2> QED BY <2>4, <2>5, <2>6
<1>8. ASSUME NEW r \in Renames, Alive, RenamerStep(r) PROVE Order'
  BY <1>8, RenamerOrder
<1> QED BY <1>1, <1>2, <1>3, <1>4, <1>5, <1>6, <1>7, <1>8, StepKinds

-----------------------------------------------------------------------------
\* Where the paths stand while a rename goes on

\* The new name of item a, which the shell does not know of yet, is in the
\* path of item i.
InPath(r, i, a) ==
    renamer[r].keep /\ renamer[r].queued[a] # None /\ (a = i \/ a \notin renamer[r].todo)

\* The name of item a in the path of item i
NameInPath(i, a) ==
    IF fileOpHandle # 0 /\ Ending(fileOpHandle) /\ InPath(fileOpHandle, i, a)
    THEN renamer[fileOpHandle].queued[a]
    ELSE disk[a]

\* The items have been left as they were, for the window is about to close.
Forgotten ==
    fileOpHandle # 0 /\ renamer[fileOpHandle].pc = "ended" /\ ~renamer[fileOpHandle].keep

PathsFollow ==
    ~failed /\ ~overlapped /\ ~Forgotten =>
        \A i \in Items : \A d \in 0 .. Depth[i] : path[i][d + 1] = NameInPath(i, Ancestor(i, d))

LEMMA InitPaths == Init => PathsFollow
<1> SUFFICES ASSUME Init, NEW i \in Items, NEW d \in 0 .. Depth[i]
             PROVE  path[i][d + 1] = disk[Ancestor(i, d)]
  BY DEF Init, PathsFollow, NameInPath
<1>1. path[i] = [e \in 1 .. Depth[i] + 1 |-> Names0[Ancestor(i, e - 1)]]
  BY DEF Init
<1>2. d + 1 \in 1 .. Depth[i] + 1 /\ (d + 1) - 1 = d
  OBVIOUS
<1> QED BY <1>1, <1>2 DEF Init

\* UpdateChildrenPath: the path of the folder, then what it was below that.
LEMMA UpdatedPath ==
    ASSUME TypeOK, NEW i \in Items, NEW j \in Items, NEW d \in 0 .. Depth[j]
    PROVE  UpdateChildrenPath(i)[j][d + 1] =
             IF i \in Folders /\ j \in Children(i) /\ d <= Depth[i]
             THEN path[i][d + 1] ELSE path[j][d + 1]
<1>1. CASE i \in Folders /\ j \in Children(i)
  <2> DEFINE tail == SubSeq(path[j], Depth[i] + 2, Depth[j] + 1)
  <2>1. path[i] \in Seq(Names) /\ path[j] \in Seq(Names)
        /\ Len(path[i]) = Depth[i] + 1 /\ Len(path[j]) = Depth[j] + 1
    BY DEF TypeOK
  <2>2. Depth[i] \in Nat /\ Depth[j] \in Nat /\ Depth[j] > Depth[i]
    BY <1>1 DEF Children, Items
  <2>3. \A k \in Depth[i] + 2 .. Depth[j] + 1 : path[j][k] \in Names
    BY <2>1, <2>2, LenProperties
  <2>4. /\ tail \in Seq(Names) /\ Len(tail) = Depth[j] - Depth[i]
        /\ \A k \in 1 .. Depth[j] - Depth[i] : tail[k] = path[j][Depth[i] + 2 + k - 1]
    <3>1. (Depth[j] + 1) - (Depth[i] + 2) + 1 = Depth[j] - Depth[i]
          /\ Depth[i] + 2 <= Depth[j] + 1 /\ Depth[i] + 2 \in Int /\ Depth[j] + 1 \in Int
      BY <2>2
    <3>2. /\ tail \in Seq(Names)
          /\ Len(tail) = IF Depth[i] + 2 <= Depth[j] + 1
                         THEN (Depth[j] + 1) - (Depth[i] + 2) + 1 ELSE 0
          /\ \A k \in 1 .. (Depth[j] + 1) - (Depth[i] + 2) + 1 :
               tail[k] = path[j][Depth[i] + 2 + k - 1]
      BY <2>3, <3>1, SubSeqProperties
    <3> QED BY <3>1, <3>2
  <2>5. UpdateChildrenPath(i)[j] = path[i] \o tail
    BY <1>1 DEF UpdateChildrenPath
  <2> HIDE DEF tail
  <2>6. \A k \in 1 .. (Depth[i] + 1) + (Depth[j] - Depth[i]) :
          (path[i] \o tail)[k] = IF k <= Depth[i] + 1 THEN path[i][k] ELSE tail[k - (Depth[i] + 1)]
    <3>1. \A k \in 1 .. Len(path[i]) + Len(tail) :
            (path[i] \o tail)[k] = IF k <= Len(path[i]) THEN path[i][k] ELSE tail[k - Len(path[i])]
      <4> DEFINE top == path[i]
      <4>1. top \in Seq(Names) /\ tail \in Seq(Names)
        BY <2>1, <2>4
      <4> HIDE DEF top
      <4>2. \A k \in 1 .. Len(top) + Len(tail) :
              (top \o tail)[k] = IF k <= Len(top) THEN top[k] ELSE tail[k - Len(top)]
        BY <4>1, ConcatProperties
      <4> QED BY <4>2 DEF top
    <3> QED BY <2>1, <2>4, <3>1, Zenon
  <2>7. d + 1 \in 1 .. (Depth[i] + 1) + (Depth[j] - Depth[i])
    BY <2>2
  <2>8. ASSUME d > Depth[i] PROVE tail[(d + 1) - (Depth[i] + 1)] = path[j][d + 1]
    <3>1. /\ (d + 1) - (Depth[i] + 1) \in 1 .. Depth[j] - Depth[i]
          /\ Depth[i] + 2 + ((d + 1) - (Depth[i] + 1)) - 1 = d + 1
      BY <2>2, <2>8
    <3> QED BY <2>4, <3>1
  <2>9. d + 1 <= Depth[i] + 1 <=> d <= Depth[i]
    BY <2>2
  <2>10. d > Depth[i] <=> ~(d <= Depth[i])
    BY <2>2
  <2>11. UpdateChildrenPath(i)[j][d + 1] =
           IF d <= Depth[i] THEN path[i][d + 1] ELSE tail[(d + 1) - (Depth[i] + 1)]
    BY <2>5, <2>6, <2>7, <2>9
  <2> QED BY <1>1, <2>8, <2>10, <2>11
<1>2. CASE ~(i \in Folders /\ j \in Children(i))
  BY <1>2 DEF UpdateChildrenPath
<1> QED BY <1>1, <1>2

\* As long as an item waits for its turn, so do the folders above it, which
\* keep their names.
LEMMA AboveWaits ==
    ASSUME TypeOK, Order, NEW r \in Renames, Ending(r),
           NEW i \in renamer[r].todo, NEW d \in 0 .. Depth[i]
    PROVE  /\ i \in Items
           /\ Ancestor(i, d) \in renamer[r].todo
           /\ d = Depth[i] <=> Ancestor(i, d) = i
<1> DEFINE a == Ancestor(i, d)
<1>1. i \in Items
  BY DEF TypeOK, FileOpThread
<1>2. a \in Items /\ Depth[a] = d
  BY <1>1, AncestorFacts
<1>3. d = Depth[i] <=> a = i
  BY <1>1, <1>2, AncestorSelf
<1> HIDE DEF a
<1>4. d # Depth[i] => ~(Depth[a] >= Depth[i])
  BY <1>1, <1>2
<1>5. a \notin renamer[r].todo => Depth[a] >= Depth[i]
  BY <1>2 DEF Order, DeepestFirst
<1> QED BY <1>1, <1>3, <1>4, <1>5 DEF a

LEMMA RenamerPaths ==
    ASSUME TypeOK, Order, PathsFollow, Alive, NEW r \in Renames, RenamerStep(r)
    PROVE  PathsFollow'
<1>1. /\ UNCHANGED <<fileOpHandle, overlapped>>
      /\ \/ Reads(r) \/ Begins(r) \/ Finds(r) \/ Crashes(r) \/ Performs(r)
         \/ \E i \in renamer[r].todo : Skips(r, i) \/ Queues(r, i) \/ Updates(r, i)
  BY RenamerKinds
<1>2. renamer[r].pc \notin {"none", "ended"}
  BY <1>1 DEF Reads, Begins, Finds, Crashes, Performs, Skips, Queues, Updates
<1>3. ~failed' => ~failed
  BY <1>1 DEF Reads, Begins, Finds, Crashes, Performs, Skips, Queues, Updates, Files
<1> SUFFICES ASSUME ~failed', ~overlapped', ~Forgotten',
                    NEW j \in Items, NEW d \in 0 .. Depth[j]
             PROVE  path'[j][d + 1] = NameInPath(j, Ancestor(j, d))'
  BY DEF PathsFollow
<1> DEFINE a == Ancestor(j, d)
<1>4. r = fileOpHandle /\ r # 0
  BY <1>1, <1>2 DEF Order, OneRename, Idle, Renames
<1>5. path[j][d + 1] = IF Ending(r) /\ InPath(r, j, a) THEN renamer[r].queued[a] ELSE disk[a]
  BY <1>1, <1>2, <1>3, <1>4 DEF PathsFollow, Forgotten, NameInPath
<1>6. a \in Items /\ Depth[a] = d
  BY AncestorFacts
<1> HIDE DEF a
<1> SUFFICES path'[j][d + 1] =
               IF Ending(r)' /\ InPath(r, j, a)' THEN renamer'[r].queued[a] ELSE disk'[a]
  BY <1>1, <1>4 DEF NameInPath, a
<1>t. renamer[r].todo \subseteq Items /\ renamer[r].queued \in [Items -> NewNames]
  BY DEF TypeOK, FileOpThread
<1> USE DEF Goes, Keeping, Files, InPath, Ending
<1>7. CASE Reads(r)
  BY <1>5, <1>7 DEF Reads
<1>8. CASE Begins(r)
  BY <1>5, <1>6, <1>8 DEF Begins, Order, Untouched
<1>9. CASE Finds(r) \/ Crashes(r)
  BY <1>5, <1>9 DEF Finds, Crashes
<1>10. CASE Performs(r)
  BY <1>1, <1>4, <1>5, <1>6, <1>10 DEF Performs, Forgotten
<1>11. ASSUME NEW i \in renamer[r].todo, Skips(r, i)
       PROVE  path'[j][d + 1] =
                IF Ending(r)' /\ InPath(r, j, a)' THEN renamer'[r].queued[a] ELSE disk'[a]
  <2>1. renamer[r].queued[i] = None
    BY <1>11 DEF Skips, Order, DeepestFirst
  <2> QED BY <1>5, <1>11, <2>1 DEF Skips
<1>12. ASSUME NEW i \in renamer[r].todo, Queues(r, i)
       PROVE  path'[j][d + 1] =
                IF Ending(r)' /\ InPath(r, j, a)' THEN renamer'[r].queued[a] ELSE disk'[a]
  <2>0. i \in Items
    BY <1>t
  <2> DEFINE n == newName[i]
  <2>1. /\ n \in Names /\ renamer[r].pc = "queue"
        /\ renamer'[r].keep = renamer[r].keep /\ disk' = disk
        /\ renamer'[r].queued = [renamer[r].queued EXCEPT ![i] = n]
    BY <1>12 DEF Queues
  <2>2. /\ renamer'[r].queued[i] = n /\ n # None
        /\ \A k \in Items : k # i => renamer'[r].queued[k] = renamer[r].queued[k]
    BY <1>t, <2>0, <2>1
  <2>3. CASE /\ renamer[r].keep /\ Goes(r, "update", renamer[r].todo)
             /\ path' = [path EXCEPT ![i] = [path[i] EXCEPT ![Depth[i] + 1] = n]]
    <3> HIDE DEF n
    <3>1. /\ \A k \in Items : k # i => path'[k] = path[k]
          /\ path'[i] = [path[i] EXCEPT ![Depth[i] + 1] = n]
      BY <2>0, <2>3 DEF TypeOK
    <3>2. path[i] \in Seq(Names) /\ Len(path[i]) = Depth[i] + 1 /\ Depth[i] \in Nat
      BY <2>0 DEF TypeOK
    <3>3. Depth[i] + 1 \in 1 .. Len(path[i])
      BY <3>2
    <3>4. \A k \in 1 .. Len(path[i]) : path'[i][k] = IF k = Depth[i] + 1 THEN n ELSE path[i][k]
      BY <2>1, <3>1, <3>2, <3>3, ExceptSeq
    <3>5. CASE a = i /\ j = i
      <4>1. d + 1 = Depth[i] + 1
        BY <1>6, <3>5
      <4>2. path'[j][d + 1] = n
        BY <3>3, <3>4, <3>5, <4>1
      <4> QED BY <2>1, <2>2, <2>3, <3>5, <4>2
    <3>6. CASE a = i /\ j # i
      BY <1>5, <2>1, <2>3, <3>1, <3>6
    <3>7. CASE a # i
      <4>1. path'[j][d + 1] = path[j][d + 1]
        <5>1. CASE j = i
          <6>1. d # Depth[i]
            BY <3>7, <5>1, AncestorSelf DEF a
          <6>2. d + 1 \in 1 .. Len(path[i]) /\ d + 1 # Depth[i] + 1
            BY <3>2, <5>1, <6>1
          <6> QED BY <3>4, <5>1, <6>2
        <5>2. CASE j # i
          BY <3>1, <5>2
        <5> QED BY <5>1, <5>2
      <4> QED BY <1>5, <1>6, <2>1, <2>2, <2>3, <3>7, <4>1
    <3> QED BY <3>5, <3>6, <3>7
  <2>4. CASE ~renamer[r].keep /\ path' = path
    BY <1>5, <2>1, <2>4
  <2> QED BY <1>12, <2>3, <2>4 DEF Queues
<1>13. ASSUME NEW i \in renamer[r].todo, Updates(r, i)
       PROVE  path'[j][d + 1] =
                IF Ending(r)' /\ InPath(r, j, a)' THEN renamer'[r].queued[a] ELSE disk'[a]
  <2>0. i \in Items
    BY <1>t
  <2>1. /\ renamer[r].pc = "update" /\ Goes(r, "test", renamer[r].todo \ {i}) /\ Keeping(r)
        /\ disk' = disk
        /\ path'[j][d + 1] = IF i \in Folders /\ j \in Children(i) /\ d <= Depth[i]
                             THEN path[i][d + 1] ELSE path[j][d + 1]
    BY <1>13, <2>0, UpdatedPath DEF Updates
  <2>2. CASE i \in Folders /\ j \in Children(i) /\ d <= Depth[i]
    <3>1. d \in 0 .. Depth[i] /\ Ancestor(i, d) = a
      <4>1. d \in 0 .. Depth[i]
        BY <2>0, <2>2
      <4> QED BY <2>0, <2>2, <4>1, AncestorShared DEF a
    <3>2. path[i][d + 1] =
            IF Ending(r) /\ InPath(r, i, a) THEN renamer[r].queued[a] ELSE disk[a]
      BY <1>1, <1>2, <1>3, <1>4, <2>0, <3>1 DEF PathsFollow, Forgotten, NameInPath
    <3>3. a \in renamer[r].todo
      BY <2>1, <3>1, AboveWaits
    <3>4. j # i /\ (a = j => d = Depth[j]) /\ (d <= Depth[i] => d # Depth[j])
      BY <1>6, <2>0, <2>2 DEF Children, Items
    <3> QED BY <2>1, <2>2, <3>2, <3>3, <3>4
  <2>3. CASE ~(i \in Folders /\ j \in Children(i) /\ d <= Depth[i])
    <3>1. a = i => j = i
      <4>1. a = i /\ a # j => j \in Children(i) /\ i \in Folders
        BY BelowAncestor DEF a
      <4>2. a = i => d <= Depth[i]
        BY <1>6, <2>0
      <4> QED BY <2>3, <4>1, <4>2
    <3> QED BY <1>5, <2>1, <2>3, <3>1
  <2> QED BY <2>2, <2>3
<1> HIDE DEF Goes, Keeping, Files, InPath, Ending
<1> QED BY <1>1, <1>7, <1>8, <1>9, <1>10, <1>11, <1>12, <1>13

LEMMA NextPaths == TypeOK /\ Order /\ PathsFollow /\ [Next]_vars => PathsFollow'
<1> SUFFICES ASSUME TypeOK, Order, PathsFollow, [Next]_vars PROVE PathsFollow'
  OBVIOUS
<1>1. ASSUME UNCHANGED <<renamer, fileOpHandle, path, disk, failed>>, ~overlapped' => ~overlapped
      PROVE  PathsFollow'
  BY <1>1 DEF PathsFollow, Forgotten, NameInPath, InPath, Ending
<1>2. CASE UNCHANGED vars
  BY <1>1, <1>2 DEF vars, items, fileop
<1>3. CASE NoRename
  BY <1>1, <1>3 DEF NoRename, fileop
<1>4. ASSUME NEW close \in BOOLEAN, Rename(close) PROVE PathsFollow'
  <2>1. UNCHANGED <<renamer, fileOpHandle, path, disk, failed>>
    BY <1>4 DEF Rename, items
  <2>2. overlapped' = (overlapped \/ pumps > 0)
    BY <1>4 DEF Rename
  <2>3. ~overlapped' => ~overlapped
    BY <2>2, Zenon
  <2> QED BY <1>1, <2>1, <2>3
<1>5. CASE WaitForRegExWorkerThread("renameWait", "renameCreate")
  BY <1>1, <1>5 DEF WaitForRegExWorkerThread, items, fileop
<1>6. CASE CreateFileOpWorkerThread
  <2>1. UNCHANGED <<path, disk, overlapped, failed>> /\ main = "renameCreate"
    BY <1>6 DEF CreateFileOpWorkerThread, items
  <2>2. CASE UNCHANGED <<renamer, fileOpHandle>>
    BY <1>1, <2>1, <2>2
  <2>3. ASSUME NEW r \in Renames, fileOpHandle' = r, ~overlapped,
               renamer' = [renamer EXCEPT ![r].pc = "start"]
        PROVE  PathsFollow'
    <3>1. ~AtWork /\ Alive
      BY <2>1, <2>3 DEF Order, OneRename, AtWork, Alive
    <3>2. fileOpHandle # 0 => renamer[fileOpHandle].pc = "ended" /\ renamer[fileOpHandle].keep
      BY <2>3, <3>1 DEF Order, Keeps
    <3>3. renamer'[r].pc = "start"
      BY <2>3 DEF TypeOK, FileOpThread
    <3> QED BY <2>1, <2>3, <3>2, <3>3 DEF PathsFollow, Forgotten, NameInPath, Ending
  <2> QED BY <1>6, <2>1, <2>2, <2>3 DEF CreateFileOpWorkerThread, PathsFollow
<1>7. CASE SignalFileOp
  BY <1>1, <1>7 DEF SignalFileOp, items, fileop
<1>8. CASE RenameCompleted
  BY <1>1, <1>8 DEF RenameCompleted, items, fileop
<1>9. ASSUME NEW r \in Renames, Alive, RenamerStep(r) PROVE PathsFollow'
  BY <1>9, RenamerPaths
<1> QED BY <1>2, <1>3, <1>4, <1>5, <1>6, <1>7, <1>8, <1>9, StepKinds

LEMMA PathIsDisk ==
    ASSUME TypeOK, NEW i \in Items,
           \A d \in 0 .. Depth[i] : path[i][d + 1] = disk[Ancestor(i, d)]
    PROVE  path[i] = DiskPath(i)
<1>1. path[i] \in Seq(Names) /\ Len(path[i]) = Depth[i] + 1
  BY DEF TypeOK
<1>2. path[i] \in [1 .. Depth[i] + 1 -> Names]
  BY <1>1, LenProperties
<1>3. ASSUME NEW k \in 1 .. Depth[i] + 1 PROVE path[i][k] = disk[Ancestor(i, k - 1)]
  <2>1. k - 1 \in 0 .. Depth[i] /\ (k - 1) + 1 = k
    OBVIOUS
  <2>2. path[i][(k - 1) + 1] = disk[Ancestor(i, k - 1)]
    BY <2>1
  <2> QED BY <2>1, <2>2
<1>4. path[i] = [k \in 1 .. Depth[i] + 1 |-> disk[Ancestor(i, k - 1)]]
  BY <1>2, <1>3
<1> QED BY <1>4 DEF DiskPath

LEMMA PathsImply == TypeOK /\ Order /\ PathsFollow => PathsOnDisk
<1> SUFFICES ASSUME TypeOK, Order, PathsFollow, ~failed, ~overlapped
             PROVE  /\ Quiet => \A i \in Items : path[i] = DiskPath(i)
                    /\ \A r \in Renames : \A i \in renamer[r].todo :
                         renamer[r].pc = "queue" /\ IsNext(r, i) => path[i] = DiskPath(i)
  BY DEF PathsOnDisk
<1>1. ASSUME Quiet, NEW i \in Items PROVE path[i] = DiskPath(i)
  <2>1. ~AtWork /\ Alive
    BY <1>1 DEF Quiet, AtWork, Alive
  <2>2. fileOpHandle # 0 => renamer[fileOpHandle].pc = "ended" /\ renamer[fileOpHandle].keep
    BY <2>1 DEF Order, Keeps
  <2>3. \A d \in 0 .. Depth[i] : path[i][d + 1] = disk[Ancestor(i, d)]
    BY <2>2 DEF PathsFollow, Forgotten, NameInPath, Ending
  <2> QED BY <2>3, PathIsDisk
<1>2. ASSUME NEW r \in Renames, NEW i \in renamer[r].todo, renamer[r].pc = "queue"
      PROVE  path[i] = DiskPath(i)
  <2>1. Ending(r) /\ r = fileOpHandle
    BY <1>2 DEF Ending, Order, OneRename, Idle
  <2>2. i \in Items
    BY DEF TypeOK, FileOpThread
  <2>3. renamer[r].queued[i] = None
    BY <1>2, <2>1 DEF Order, DeepestFirst
  <2>4. ASSUME NEW d \in 0 .. Depth[i] PROVE path[i][d + 1] = disk[Ancestor(i, d)]
    <3>1. ~InPath(r, i, Ancestor(i, d))
      BY <2>1, <2>3, AboveWaits DEF InPath
    <3>2. ~Forgotten
      BY <1>2, <2>1 DEF Forgotten
    <3> QED BY <2>1, <2>2, <3>1, <3>2 DEF PathsFollow, NameInPath
  <2> QED BY <2>2, <2>4, PathIsDisk
<1> QED BY <1>1, <1>2

-----------------------------------------------------------------------------
\* What a preview thread has done

\* The main thread lets the last preview thread run, and no rename is at work
\* on the names.
Settled ==
    /\ main \in {"ui", "reset", "signal", "renameWait", "renameCreate"}
    /\ pumps = 0 /\ ~overlapped

RunsAre == \A w \in Workers : Running(w) => outcome = "running"

\* The button is right, or the message that will set it is on its way.
Shown == posted > 0 \/ button = AnyToRename

\* A preview thread has given every item before its own the name that the
\* terms and flags make of it, and the status of that name: nothing it reads
\* changes unless it is canceled.
Done(i) == newName[i] = Preview(i) /\ StatusFits(i)

\* The item it is at has the status of the name that it is about to put.
Halfway(t) ==
    /\ t.pc \in {"status", "refuse", "put"} => t.name = Preview(t.next)
    /\ t.pc = "refuse" => t.name \in Refused
    /\ t.pc = "put" /\ t.name # None =>
         status[t.next] = IF t.name \in Refused THEN "Refused" ELSE "ShouldRename"

Current ==
    Settled =>
        /\ \A w \in Workers : Running(w) =>
             /\ \A i \in Items : i < worker[w].next => Done(i)
             /\ Halfway(worker[w])
        /\ outcome = "completed" => (\A i \in Items : Done(i)) /\ Shown

LEMMA InitCurrent == Init => RunsAre /\ Current
BY DEF Init, RunsAre, Current, Running, NoWorker

\* An item that is left out has no new name.
LEMMA SkippedHasNone == \A i \in Items : IsSkipped(i, flags) => Preview(i) = None
BY DEF Preview

LEMMA SameShown ==
    UNCHANGED <<flags, selected, originalName, newName, status, posted, button>>
        => (Shown => Shown')
BY DEF Shown, AnyToRename, ShouldRenameItem, IsExcluded

LEMMA SameRuns ==
    ASSUME RunsAre, Current, Settled' => Settled, Shown => Shown',
           UNCHANGED <<term, flags, originalName, newName, status, worker, outcome>>
    PROVE  RunsAre' /\ Current'
<1>1. \A i : Preview(i)' = Preview(i) /\ Done(i)' = Done(i)
  BY DEF Preview, IsSkipped, IsExcluded, Done, StatusFits
<1>3. \A w \in Workers : Halfway(worker[w])' = Halfway(worker[w])
  BY <1>1 DEF Halfway
<1>2. \A w \in Workers : Running(w)' <=> Running(w)
  BY DEF Running
<1> QED BY <1>1, <1>2, <1>3 DEF RunsAre, Current

LEMMA WorkerCurrent ==
    ASSUME IInv, RunsAre, Current, NEW w \in Workers, WorkerStep(w)
    PROVE  RunsAre' /\ Current'
<1>1. UNCHANGED <<term, flags, selected, originalName, main, pumps, overlapped, button>>
  BY DEF WorkerStep, WorkerStarts, WorkerTests, WorkerComputes, WorkerSetsStatus, WorkerPuts,
     WorkerVars, input, fileop
<1>2. \A i : Preview(i)' = Preview(i)
  BY <1>1 DEF Preview, IsSkipped, IsExcluded
<1>3. Settled' <=> Settled
  BY <1>1 DEF Settled
<1>4. Running(w)
  BY DEF WorkerStep, WorkerStarts, WorkerTests, WorkerComputes, WorkerSetsStatus, WorkerPuts,
     Running
<1>5. outcome = "running"
  BY <1>4 DEF RunsAre
<1>t. /\ worker \in [Workers -> PreviewThread] /\ worker[w].next \in 1 .. NItems + 1
      /\ worker[w].pc \in {"compute", "status", "refuse", "put"} => worker[w].next \in Items
  BY DEF IInv, TypeOK, PreviewThread, AtItem
<1>6. /\ \A v \in Workers : v # w => worker'[v] = worker[v]
      /\ \A v \in Workers : v # w => ~Running(v)
  <2>1. \A v \in Workers : v # w => worker'[v] = worker[v]
    BY <1>t DEF WorkerStep, WorkerStarts, WorkerTests, WorkerEnds, WorkerComputes,
       WorkerSetsStatus, WorkerPuts
  <2> QED BY <1>4, <2>1 DEF IInv, HandleHeld
<1>7. \A v \in Workers : Running(v)' => v = w
  BY <1>6 DEF Running
\* The thread goes on.
<1>8. ASSUME outcome' = outcome,
             Settled => \A i \in Items : i < worker'[w].next => Done(i)',
             Settled => Halfway(worker[w])'
      PROVE  RunsAre' /\ Current'
  BY <1>3, <1>5, <1>7, <1>8 DEF RunsAre, Current
\* The thread ends.
<1>9. ASSUME worker'[w].pc = "none",
             outcome' = "completed" /\ Settled => (\A i \in Items : Done(i)') /\ posted' > 0
      PROVE  RunsAre' /\ Current'
  <2>1. \A v \in Workers : ~Running(v)'
    BY <1>7, <1>9 DEF Running
  <2> QED BY <1>3, <1>9, <2>1 DEF RunsAre, Current, Shown
<1>10. Settled => /\ \A i \in Items : i < worker[w].next => Done(i)
                  /\ Halfway(worker[w])
  BY <1>4 DEF Current
<1>d. UNCHANGED <<newName, status>> => \A i \in Items : Done(i)' = Done(i)
  BY <1>2 DEF Done, StatusFits
<1>11. CASE WorkerStarts(w)
  <2>1. /\ worker'[w].pc = "test" /\ worker'[w].next = worker[w].next
        /\ UNCHANGED <<newName, status>> /\ outcome' = outcome
    BY <1>t, <1>11 DEF WorkerStarts, PreviewThread
  <2> QED BY <1>8, <1>10, <1>d, <2>1 DEF Halfway
<1>12. CASE WorkerTests(w)
  <2>0. UNCHANGED <<newName, status>>
    BY <1>12 DEF WorkerTests, WorkerEnds
  <2>1. CASE worker[w].next > NItems /\ WorkerEnds(w, "completed")
    <3>1. worker'[w].pc = "none" /\ posted' = posted + 1 /\ posted' > 0
      BY <1>t, <2>1 DEF WorkerEnds, NoWorker, IInv, TypeOK
    <3>2. \A i \in Items : i < worker[w].next
      BY <1>t, <2>1 DEF Items
    <3> QED BY <1>9, <1>10, <1>d, <2>0, <3>1, <3>2
  <2>2. CASE WorkerEnds(w, "canceled")
    <3>1. worker'[w].pc = "none" /\ outcome' = "canceled"
      BY <1>t, <2>2 DEF WorkerEnds, NoWorker
    <3> QED BY <1>9, <3>1
  <2>3. CASE worker' = [worker EXCEPT ![w].pc = "compute"] /\ UNCHANGED outcome
    <3>1. worker'[w].pc = "compute" /\ worker'[w].next = worker[w].next
      BY <1>t, <2>3 DEF PreviewThread
    <3> QED BY <1>8, <1>10, <1>d, <2>0, <2>3, <3>1 DEF Halfway
  <2> QED BY <1>12, <2>1, <2>2, <2>3 DEF WorkerTests
<1>13. CASE WorkerComputes(w)
  <2> DEFINE i  == worker[w].next
             n  == Preview(i)
             pc == IF IsSkipped(i, flags) THEN "put" ELSE "status"
  <2>1. /\ UNCHANGED <<newName, status>> /\ worker[w].pc = "compute"
        /\ \/ worker' = [worker EXCEPT ![w].pc = "self"] /\ outcome' = outcome
           \/ worker' = [worker EXCEPT ![w] = NoWorker] /\ outcome' = "threw"
           \/ worker' = [worker EXCEPT ![w].pc = pc, ![w].name = n] /\ outcome' = outcome
    BY <1>13 DEF WorkerComputes
  <2>2. CASE worker' = [worker EXCEPT ![w].pc = "self"] /\ outcome' = outcome
    <3>1. worker'[w].pc = "self" /\ worker'[w].next = worker[w].next
      BY <1>t, <2>2 DEF PreviewThread
    <3> QED BY <1>8, <1>10, <1>d, <2>1, <2>2, <3>1 DEF Halfway
  <2>3. CASE worker' = [worker EXCEPT ![w] = NoWorker] /\ outcome' = "threw"
    <3>1. worker'[w].pc = "none"
      BY <1>t, <2>3 DEF NoWorker
    <3> QED BY <1>9, <2>3, <3>1
  <2>4. CASE worker' = [worker EXCEPT ![w].pc = pc, ![w].name = n] /\ outcome' = outcome
    <3>1. pc \in {"put", "status"} /\ (pc = "put" => n = None)
      BY <1>t, <2>1, SkippedHasNone
    <3> HIDE DEF n, pc
    <3>2. /\ worker'[w].pc = pc /\ worker'[w].name = n /\ worker'[w].next = i
      BY <1>t, <2>4 DEF PreviewThread
    <3>3. worker'[w].name = Preview(worker[w].next)'
      BY <1>2, <3>2 DEF n
    <3>4. Halfway(worker[w])'
      BY <3>1, <3>2, <3>3 DEF Halfway
    <3> QED BY <1>8, <1>10, <1>d, <2>1, <2>4, <3>2, <3>4
  <2> QED BY <2>1, <2>2, <2>3, <2>4
<1>14. CASE WorkerSetsStatus(w)
  <2> DEFINE i  == worker[w].next
             to == IF worker[w].pc = "refuse" THEN "Refused" ELSE "ShouldRename"
             pc == IF worker[w].name \in Refused /\ worker[w].pc # "refuse"
                   THEN "refuse" ELSE "put"
  <2>1. /\ i \in Items /\ worker[w].pc \in {"status", "refuse"}
        /\ status' = [status EXCEPT ![i] = to] /\ newName' = newName /\ outcome' = outcome
        /\ worker' = [worker EXCEPT ![w].pc = pc]
    BY <1>t, <1>14 DEF WorkerSetsStatus
  <2> HIDE DEF to, pc
  <2>2. /\ worker'[w].pc = pc /\ worker'[w].next = i /\ worker'[w].name = worker[w].name
    BY <1>t, <2>1 DEF PreviewThread
  <2>3. status'[i] = to /\ \A j \in Items : j # i => status'[j] = status[j]
    BY <2>1 DEF IInv, TypeOK
  <2>4. Settled => \A j \in Items : j < i => Done(j)'
    <3>1. \A j \in Items : j < i => j # i
      BY <2>1 DEF Items
    <3> QED BY <1>2, <1>10, <2>1, <2>3, <3>1 DEF Done, StatusFits
  <2>5. Settled => Halfway(worker[w])'
    BY <1>2, <1>10, <2>1, <2>2, <2>3 DEF Halfway, to, pc
  <2> QED BY <1>8, <2>1, <2>2, <2>4, <2>5
<1>15. CASE WorkerPuts(w)
  <2>1. worker[w].next \in Items /\ worker[w].pc = "put"
    BY <1>t, <1>15 DEF WorkerPuts
  <2>2. /\ worker'[w].pc = "test" /\ worker'[w].next = worker[w].next + 1
        /\ outcome' = outcome /\ status' = status
    BY <1>t, <1>15 DEF WorkerPuts, PreviewThread
  <2>3. /\ newName'[worker[w].next] = worker[w].name
        /\ \A i \in Items : i # worker[w].next => newName'[i] = newName[i]
    BY <1>15, <2>1 DEF WorkerPuts, IInv, TypeOK
  <2>4. \A i \in Items : i < worker[w].next + 1 => i < worker[w].next \/ i = worker[w].next
    BY <2>1 DEF Items
  <2>5. \A i \in Items : i < worker[w].next => i # worker[w].next
    BY <2>1 DEF Items
  <2>6. ASSUME Settled, NEW i \in Items, i < worker[w].next + 1 PROVE Done(i)'
    <3>1. CASE i = worker[w].next
      BY <1>2, <1>10, <2>1, <2>2, <2>3, <2>6, <3>1 DEF Done, StatusFits, Halfway
    <3>2. CASE i < worker[w].next
      BY <1>2, <1>10, <2>2, <2>3, <2>5, <2>6, <3>2 DEF Done, StatusFits
    <3> QED BY <2>4, <2>6, <3>1, <3>2
  <2>7. Halfway(worker[w])'
    BY <2>2 DEF Halfway
  <2> QED BY <1>8, <2>2, <2>6, <2>7
<1> QED BY <1>11, <1>12, <1>13, <1>14, <1>15 DEF WorkerStep

LEMMA NextCurrent ==
    IInv /\ Order /\ RunsAre /\ Current /\ [Next]_vars => RunsAre' /\ Current'
<1> SUFFICES ASSUME IInv, Order, RunsAre, Current, [Next]_vars PROVE RunsAre' /\ Current'
  OBVIOUS
<1> USE SameShown, SameRuns
<1> DEFINE Same == UNCHANGED <<term, flags, originalName, newName, status, worker, outcome>>
<1>1. CASE UNCHANGED vars
  <2>1. Same /\ UNCHANGED <<selected, posted, button, main, pumps, overlapped>>
    BY <1>1 DEF vars, input, items, regex, fileop, ui
  <2> QED BY <2>1 DEF Settled
<1>2. ASSUME (\E t \in Terms : TypeTerm(t)) \/ (\E f \in FlagSets : PutFlags(f))
      PROVE  RunsAre' /\ Current'
  <2>1. main' = "enter" /\ UNCHANGED <<worker, outcome>>
    BY <1>2 DEF TypeTerm, PutFlags, StartPreviews, regex
  <2> QED BY <2>1 DEF RunsAre, Current, Settled, Running
<1>3. ASSUME NEW i \in Items, ToggleItem(i) PROVE RunsAre' /\ Current'
  <2>1. Same /\ UNCHANGED <<main, pumps, overlapped>>
    BY <1>3 DEF ToggleItem, Change, items, regex, fileop
  <2>2. Shown'
    BY <1>3 DEF ToggleItem, Shown
  <2> QED BY <2>1, <2>2 DEF Settled
<1>4. CASE UpdateCounts
  <2>1. Same /\ UNCHANGED <<selected, main, pumps, overlapped>>
    BY <1>4 DEF UpdateCounts, input, items, regex, fileop
  <2>2. button' = AnyToRename /\ (AnyToRename' <=> AnyToRename)
    BY <1>4, <2>1 DEF UpdateCounts, AnyToRename, ShouldRenameItem, IsExcluded
  <2>3. Shown'
    BY <2>2, Zenon DEF Shown
  <2> QED BY <2>1, <2>3 DEF Settled
<1>5. ASSUME NEW close \in BOOLEAN, Rename(close) PROVE RunsAre' /\ Current'
  <2>1. Same /\ UNCHANGED <<selected, posted, button, pumps>> /\ main = "ui"
    BY <1>5 DEF Rename, input, items, regex
  <2>2. ~overlapped' => ~overlapped
    BY <1>5, Zenon DEF Rename
  <2> QED BY <2>1, <2>2 DEF Settled
<1>6. ASSUME TryEnter \/ CancelStarts \/ Cancel \/ ResetCancel \/ SignalStart \/ SignalFileOp
             \/ RenameCompleted \/ WaitForRegExWorkerThread("wait", "create")
             \/ WaitForRegExWorkerThread("renameWait", "renameCreate")
      PROVE  RunsAre' /\ Current'
  <2>1. Same /\ UNCHANGED <<selected, posted, button>>
    BY <1>6 DEF TryEnter, CancelStarts, Cancel, ResetCancel, SignalStart, SignalFileOp,
       RenameCompleted, WaitForRegExWorkerThread, input, items, regex
  <2>2. Settled' => Settled
    BY <1>6 DEF TryEnter, CancelStarts, Cancel, ResetCancel, SignalStart, SignalFileOp,
       RenameCompleted, StartPreviews, NextPreview, WaitForRegExWorkerThread, fileop, Settled,
       IInv, TypeOK
  <2> QED BY <2>1, <2>2
<1>7. CASE CreateRegExWorkerThread
  <2>1. \A w \in Workers : ~Running(w)
    BY <1>7 DEF CreateRegExWorkerThread, IInv, HandleHeld, Workers
  <2>2. ASSUME NEW w \in Workers, outcome' = "running",
               worker' = [worker EXCEPT ![w] = [NoWorker EXCEPT !.pc = "start"]]
        PROVE  RunsAre' /\ Current'
    <3>1. /\ worker'[w].pc = "start" /\ worker'[w].next = 1
          /\ \A v \in Workers : v # w => ~Running(v)'
      BY <2>1, <2>2 DEF Running, NoWorker, IInv, TypeOK
    <3>2. \A i \in Items : ~(i < 1)
      BY DEF Items
    <3> QED BY <2>2, <3>1, <3>2 DEF RunsAre, Current, Halfway
  <2>3. CASE outcome' = "failed" /\ worker' = worker
    BY <2>1, <2>3 DEF RunsAre, Current, Running
  <2> QED BY <1>7, <2>2, <2>3 DEF CreateRegExWorkerThread
<1>8. CASE CreateFileOpWorkerThread
  <2>1. /\ Same /\ UNCHANGED <<selected, posted, button, pumps, overlapped>>
        /\ main = "renameCreate"
    BY <1>8 DEF CreateFileOpWorkerThread, input, items, regex
  <2> QED BY <2>1 DEF Settled
<1>9. ASSUME NEW w \in Workers, WorkerStep(w) PROVE RunsAre' /\ Current'
  BY <1>9, WorkerCurrent
<1>10. ASSUME NEW r \in Renames, Alive, RenamerStep(r) PROVE RunsAre' /\ Current'
  <2>1. /\ UNCHANGED <<pumps, overlapped>>
        /\ \/ Reads(r) \/ Begins(r) \/ Finds(r) \/ Crashes(r) \/ Performs(r)
           \/ \E i \in renamer[r].todo : Skips(r, i) \/ Queues(r, i) \/ Updates(r, i)
    BY <1>10, RenamerKinds DEF IInv
  <2>2. overlapped \/ pumps > 0 \/ main = "renameSignal"
    <3>1. ~Idle(r)
      BY <2>1 DEF Reads, Begins, Finds, Crashes, Performs, Skips, Queues, Updates, Idle
    <3> QED BY <1>10, <3>1 DEF Order, OneRename, AtWork, Alive
  <2>3. UNCHANGED <<worker, outcome, pumps, overlapped>> /\ main' \in {main, "crashed"}
    <3>1. UNCHANGED <<worker, outcome>>
      <4>1. CASE RenamerQueues(r)
        BY <4>1 DEF RenamerQueues, RenamerVars, regex
      <4>2. CASE RenamerReads(r) \/ RenamerStarts(r) \/ RenamerTests(r)
        BY <4>2 DEF RenamerReads, RenamerStarts, RenamerTests, RenamerVars, regex
      <4>3. CASE RenamerUpdates(r) \/ RenamerPerforms(r)
        BY <4>3 DEF RenamerUpdates, RenamerPerforms, RenamerVars, regex
      <4> QED BY <1>10, <4>1, <4>2, <4>3 DEF RenamerStep
    <3>2. main' \in {main, "crashed"}
      BY <2>1 DEF Reads, Begins, Finds, Crashes, Performs, Skips, Queues, Updates
    <3> QED BY <2>1, <3>1, <3>2
  <2>4. ~Settled'
    BY <2>2, <2>3 DEF Settled, IInv, TypeOK
  <2> QED BY <2>3, <2>4 DEF RunsAre, Current, Running
<1> HIDE DEF Same
<1> QED BY <1>1, <1>2, <1>3, <1>4, <1>5, <1>6, <1>7, <1>8, <1>9, <1>10
     DEF Next, UserStep, MainStep

-----------------------------------------------------------------------------
\* The invariant that is inductive together with IInv
THEOREM RenameInvariance == Spec => [](IInv /\ Order /\ PathsFollow /\ RunsAre /\ Current)
<1>1. Init => IInv /\ Order /\ PathsFollow /\ RunsAre /\ Current
  BY InitInv, InitOrder, InitPaths, InitCurrent
<1>2. IInv /\ Order /\ PathsFollow /\ RunsAre /\ Current /\ [Next]_vars
        => (IInv /\ Order /\ PathsFollow /\ RunsAre /\ Current)'
  <2>1. IInv => TypeOK
    BY DEF IInv
  <2> QED BY <2>1, NextInv, NextOrder, NextPaths, NextCurrent
<1> QED BY <1>1, <1>2, PTL DEF Spec

\* After any changes, cancellations and renames, also of other items, the new
\* names that a preview thread which has gone through all items leaves are the
\* ones the present terms and flags make of the present names, and the button
\* agrees with them once its messages are handled.
THEOREM PreviewsAreCurrent == Spec => []CompletedIsCurrent
<1>1. Current => CompletedIsCurrent
  BY DEF Current, Done, Settled, Shown, CompletedIsCurrent, Quiet
<1> QED BY <1>1, RenameInvariance, PTL

\* For any tree of items: as long as the shell has carried out every rename
\* under the name it was given, every path is that of the file after a rename,
\* and the path of an item whose turn it is during one is the path it still has
\* in the file system.
THEOREM PathsAreOnDisk == Spec => []PathsOnDisk
<1>1. IInv /\ Order /\ PathsFollow => PathsOnDisk
  BY PathsImply DEF IInv
<1> QED BY <1>1, RenameInvariance, PTL
=============================================================================
