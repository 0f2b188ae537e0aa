--------------------- MODULE CentralizedHotkeysProofs ----------------------
(***************************************************************************)
(* Proofs about CentralizedHotkeys for any modules, keys, settings and     *)
(* policies: the actions of the shortcuts, the descriptors of the hook and *)
(* the switches of the modules stay in step whatever comes in what order.  *)
(***************************************************************************)
EXTENDS CentralizedHotkeys, SequenceTheorems, TLAPS

\* What is enabled has been started
OnlyReadyEnabled == \A m \in Modules : enabled[m] => stage[m] = "ready"

\* A timer that is set is tracked and its key down, or its module was cleared
TimersTracked ==
    \A t \in timers : \/ "cleared" \in seen[t]
                      \/ "up" \notin seen[t] /\ pressedKeyDescriptors[t[1]] > 0

IInv == /\ TypeOK
        /\ OnlyReadyEnabled /\ TimersTracked
        /\ ExFollowsModule /\ RegisteredHasAction /\ HookFollowsModule
        /\ PolicyHolds /\ PostedHasAction

-----------------------------------------------------------------------------
(* Sequences without repetition.                                           *)

Has(s, x) == \E i \in DOMAIN s : s[i] = x
Once(s) == \A i, j \in DOMAIN s : s[i] = s[j] => i = j

LEMMA RemoveFirstOnce ==
    ASSUME NEW S, NEW s \in Seq(S), NEW m, Once(s)
    PROVE  /\ RemoveFirst(s, m) \in Seq(S)
           /\ Once(RemoveFirst(s, m))
           /\ \A x : Has(RemoveFirst(s, m), x) <=> Has(s, x) /\ x # m
<1>0. DOMAIN s = 1 .. Len(s) /\ Len(s) \in Nat
  BY LenProperties
<1>1. CASE ~\E i \in 1 .. Len(s) : s[i] = m
  BY <1>0, <1>1 DEF RemoveFirst, Has, Once
<1>2. CASE \E i \in 1 .. Len(s) : s[i] = m
  <2>1. PICK k \in 1 .. Len(s) : s[k] = m
    BY <1>2
  <2> DEFINE I == {i \in 1 .. Len(s) : s[i] = m}
             r == SubSeq(s, 1, k - 1) \o SubSeq(s, k + 1, Len(s))
  <2>2. I = {k}
    BY <1>0, <2>1 DEF Once
  <2>3. Min(I) = k
    BY <2>1, <2>2 DEF Min
  <2> HIDE DEF I
  <2>4. RemoveFirst(s, m) = r
    BY <1>2, <2>1, <2>2, <2>3 DEF RemoveFirst, RemoveAt, SelectInSeq, I
  <2>5. /\ r \in Seq(S) /\ Len(r) = Len(s) - 1
        /\ \A i \in 1 .. Len(r) : r[i] = IF i < k THEN s[i] ELSE s[i + 1]
    <3> DEFINE a == SubSeq(s, 1, k - 1)
               b == SubSeq(s, k + 1, Len(s))
    <3>1. a \in Seq(S) /\ Len(a) = k - 1 /\ \A i \in 1 .. k - 1 : a[i] = s[i]
      BY <1>0, <2>1
    <3>2. /\ b \in Seq(S) /\ Len(b) = Len(s) - k
          /\ \A i \in 1 .. Len(s) - k : b[i] = s[i + k]
      <4>1. /\ b \in Seq(S)
            /\ Len(b) = IF k + 1 <= Len(s) THEN Len(s) - (k + 1) + 1 ELSE 0
            /\ \A i \in 1 .. Len(s) - (k + 1) + 1 : b[i] = s[(k + 1) + i - 1]
        <5>1. \A i \in k + 1 .. Len(s) : s[i] \in S
          BY <1>0, <2>1, ElementOfSeq
        <5>2. k + 1 \in Int /\ Len(s) \in Int
          BY <1>0, <2>1
        <5> HIDE DEF b
        <5> QED BY <5>1, <5>2, SubSeqProperties DEF b
      <4> HIDE DEF b
      <4>2. Len(s) - (k + 1) + 1 = Len(s) - k
        BY <1>0, <2>1
      <4>3. ASSUME NEW i \in 1 .. Len(s) - k PROVE (k + 1) + i - 1 = i + k
        BY <1>0, <2>1
      <4>4. Len(b) = Len(s) - k
        <5>1. CASE k + 1 <= Len(s)
          <6>1. Len(b) = Len(s) - (k + 1) + 1
            BY <4>1, <5>1
          <6> QED BY <4>2, <6>1
        <5>2. CASE ~(k + 1 <= Len(s))
          <6>1. Len(b) = 0
            BY <4>1, <5>2
          <6>2. k \in Nat /\ k <= Len(s) /\ Len(s) \in Nat
            BY <1>0, <2>1
          <6>3. k = Len(s)
            BY <5>2, <6>2
          <6>4. Len(s) - k = 0
            BY <6>2, <6>3
          <6> QED BY <6>1, <6>4
        <5> QED BY <5>1, <5>2
      <4>5. \A i \in 1 .. Len(s) - k : b[i] = s[i + k]
        <5>1. ASSUME NEW i \in 1 .. Len(s) - k PROVE b[i] = s[i + k]
          <6>1. b[i] = s[(k + 1) + i - 1]
            BY <4>1, <4>2
          <6> QED BY <4>3, <6>1
        <5> QED BY <5>1
      <4> QED BY <4>1, <4>4, <4>5
    <3> HIDE DEF a, b
    <3>3. /\ a \o b \in Seq(S) /\ Len(a \o b) = Len(a) + Len(b)
          /\ \A i \in 1 .. Len(a) + Len(b) :
               (a \o b)[i] = IF i <= Len(a) THEN a[i] ELSE b[i - Len(a)]
      BY <3>1, <3>2, ConcatProperties
    <3>4. r = a \o b
      BY DEF a, b
    <3> HIDE DEF r
    <3>5. ASSUME NEW i \in 1 .. Len(r)
          PROVE  r[i] = IF i < k THEN s[i] ELSE s[i + 1]
      <4>1. i \in 1 .. Len(s) - 1
        BY <1>0, <2>1, <3>1, <3>2, <3>3, <3>4
      <4>2. CASE i < k
        BY <1>0, <2>1, <3>1, <3>2, <3>3, <3>4, <4>1, <4>2
      <4>3. CASE ~(i < k)
        <5>1. r[i] = b[i - (k - 1)] /\ i - (k - 1) \in 1 .. Len(s) - k
          BY <1>0, <2>1, <3>1, <3>2, <3>3, <3>4, <4>1, <4>3
        <5>2. (i - (k - 1)) + k = i + 1
          BY <4>1, <2>1
        <5> QED BY <3>2, <4>3, <5>1, <5>2
      <4> QED BY <4>2, <4>3
    <3>6. r \in Seq(S) /\ Len(r) = Len(s) - 1
      <4>1. r \in Seq(S) /\ Len(r) = Len(a) + Len(b)
        BY <3>3, <3>4
      <4>2. (k - 1) + (Len(s) - k) = Len(s) - 1
        BY <1>0, <2>1
      <4> QED BY <3>1, <3>2, <4>1, <4>2
    <3> QED BY <3>5, <3>6
  <2> HIDE DEF r
  <2>6. DOMAIN r = 1 .. Len(r)
    BY <2>5, LenProperties
  <2>7. Once(r)
    <3> DEFINE At(i) == IF i < k THEN i ELSE i + 1
    <3>1. SUFFICES ASSUME NEW i \in 1 .. Len(r), NEW j \in 1 .. Len(r), r[i] = r[j]
                   PROVE  i = j
      BY <2>6 DEF Once
    <3>2. At(i) \in 1 .. Len(s) /\ At(j) \in 1 .. Len(s)
      BY <1>0, <2>5
    <3>3. s[At(i)] = s[At(j)]
      BY <2>5, <3>1
    <3>4. At(i) = At(j)
      BY <1>0, <3>2, <3>3 DEF Once
    <3> QED BY <3>4
  <2>8. ASSUME NEW x PROVE Has(r, x) <=> Has(s, x) /\ x # m
    <3>1. ASSUME Has(r, x) PROVE Has(s, x) /\ x # m
      BY <1>0, <2>1, <2>5, <2>6, <3>1 DEF Has, Once
    <3>2. ASSUME Has(s, x), x # m PROVE Has(r, x)
      <4>1. PICK i \in 1 .. Len(s) : s[i] = x
        BY <1>0, <3>2 DEF Has
      <4>2. CASE i < k
        BY <1>0, <2>1, <2>5, <2>6, <4>1, <4>2 DEF Has
      <4>3. CASE i > k
        <5>1. i - 1 \in 1 .. Len(r) /\ ~(i - 1 < k) /\ (i - 1) + 1 = i
          BY <1>0, <2>1, <2>5, <4>1, <4>3
        <5> QED BY <2>5, <2>6, <4>1, <5>1 DEF Has
      <4> QED BY <2>1, <3>2, <4>1, <4>2, <4>3
    <3> QED BY <3>1, <3>2
  <2> QED BY <2>4, <2>5, <2>7, <2>8
<1> QED BY <1>0, <1>1, <1>2

LEMMA AppendOnce ==
    ASSUME NEW S, NEW s \in Seq(S), NEW m \in S, Once(s), ~Has(s, m)
    PROVE  /\ Append(s, m) \in Seq(S) /\ Append(s, m) # <<>>
           /\ Once(Append(s, m))
           /\ \A x : Has(Append(s, m), x) <=> Has(s, x) \/ x = m
<1> DEFINE a == Append(s, m)
<1>1. /\ a \in Seq(S) /\ Len(a) = Len(s) + 1 /\ Len(s) \in Nat
      /\ DOMAIN a = 1 .. Len(s) + 1 /\ DOMAIN s = 1 .. Len(s)
      /\ \A i \in 1 .. Len(s) : a[i] = s[i]
      /\ a[Len(s) + 1] = m
  BY AppendProperties, LenProperties
<1> HIDE DEF a
<1>2. Once(a) /\ a # <<>>
  BY <1>1 DEF Once, Has
<1>3. ASSUME NEW x PROVE Has(a, x) <=> Has(s, x) \/ x = m
  BY <1>1 DEF Has
<1> QED BY <1>1, <1>2, <1>3 DEF a

-----------------------------------------------------------------------------
(* What UpdateHotkeyEx leaves behind.                                      *)

ActionsOnce == \A h \in Hotkeys : Once(actions[h])

LEMMA WithoutActionsEffect ==
    ASSUME TypeOK, ActionsOnce, NEW m \in Modules, NEW h \in Hotkeys
    PROVE  /\ WithoutActions(m)[h] \in Seq(Modules)
           /\ Once(WithoutActions(m)[h])
           /\ \A x : Has(WithoutActions(m)[h], x) <=> Has(actions[h], x) /\ x # m
<1>1. actions[h] \in Seq(Modules) /\ Once(actions[h])
  BY DEF TypeOK, ActionsOnce
<1>2. WithoutActions(m)[h] = RemoveFirst(actions[h], m)
  BY DEF WithoutActions
<1> QED BY <1>1, <1>2, RemoveFirstOnce

LEMMA ActionsEffect ==
    ASSUME TypeOK, ActionsOnce, NEW m \in Modules, NEW c \in Config, NEW on \in BOOLEAN,
           NEW p \in Nat, UpdateHotkeyEx(m, c, on, p), NEW h \in Hotkeys
    PROVE  /\ actions'[h] \in Seq(Modules)
           /\ Once(actions'[h])
           /\ \A x : Has(actions'[h], x)
                       <=> IF x = m THEN on /\ c.ex = h ELSE Has(actions[h], x)
           /\ on /\ h = c.ex => actions'[h] # <<>>
           /\ ~(on /\ h = c.ex) => actions'[h] = WithoutActions(m)[h]
<1> DEFINE w == WithoutActions(m)[h]
<1>1. /\ w \in Seq(Modules) /\ Once(w)
      /\ \A x : Has(w, x) <=> Has(actions[h], x) /\ x # m
  BY WithoutActionsEffect
<1>2. actions'[h] = IF on /\ h = c.ex THEN Append(w, m) ELSE w
  BY DEF UpdateHotkeyEx
<1> HIDE DEF w
<1>3. /\ Append(w, m) \in Seq(Modules) /\ Append(w, m) # <<>> /\ Once(Append(w, m))
      /\ \A x : Has(Append(w, m), x) <=> Has(w, x) \/ x = m
  BY <1>1, AppendOnce
<1>4. CASE on /\ h = c.ex
  BY <1>1, <1>2, <1>3, <1>4
<1>5. CASE ~(on /\ h = c.ex)
  BY <1>1, <1>2, <1>5 DEF w
<1> QED BY <1>4, <1>5

LEMMA UpdateHotkeyExTypes ==
    ASSUME TypeOK, ActionsOnce, NEW m \in Modules, NEW c \in Config, NEW on \in BOOLEAN,
           NEW p \in Nat, UpdateHotkeyEx(m, c, on, p)
    PROVE  /\ actions' \in [Hotkeys -> Seq(Modules)]
           /\ registered' \subseteq Hotkeys /\ late' \subseteq Hotkeys
           /\ pressedKeyDescriptors' \in [Modules -> Nat]
           /\ pressedKeyDescriptors'
                = [pressedKeyDescriptors EXCEPT ![m] = IF c.win THEN p + 1 ELSE p]
<1>1. \A h \in Hotkeys : actions'[h] \in Seq(Modules)
  BY ActionsEffect
<1>2. actions' = [h \in Hotkeys |-> actions'[h]]
  BY DEF UpdateHotkeyEx
<1>3. registered' \subseteq Hotkeys /\ late' \subseteq Hotkeys
  BY DEF UpdateHotkeyEx, TypeOK, GivenUp
<1>4. pressedKeyDescriptors'
        = [pressedKeyDescriptors EXCEPT ![m] = IF c.win THEN p + 1 ELSE p]
  BY DEF UpdateHotkeyEx, AddPressedKeyAction
<1> QED BY <1>1, <1>2, <1>3, <1>4 DEF TypeOK

\* A shortcut that is registered keeps an action, and one that loses its last
\* while a WM_HOTKEY waits is remembered
LEMMA RegisteredEffect ==
    ASSUME TypeOK, ActionsOnce, NEW m \in Modules, NEW c \in Config, NEW on \in BOOLEAN,
           NEW p \in Nat, UpdateHotkeyEx(m, c, on, p)
    PROVE  /\ RegisteredHasAction => RegisteredHasAction'
           /\ PostedHasAction =>
                \A h \in Hotkeys : Waiting(h) /\ actions'[h] = <<>> => h \in late'
<1>1. \A h \in Hotkeys : /\ on /\ h = c.ex => actions'[h] # <<>>
                         /\ ~(on /\ h = c.ex) => actions'[h] = WithoutActions(m)[h]
  BY ActionsEffect
<1>2. registered' = (registered \ GivenUp(m))
          \cup {h \in Hotkeys : on /\ h = c.ex /\ WithoutActions(m)[h] = <<>> /\ h \notin taken}
  BY DEF UpdateHotkeyEx
<1>3. late' = late \cup {h \in GivenUp(m) : Waiting(h)}
  BY DEF UpdateHotkeyEx
<1>4. \A h \in Hotkeys : h \in GivenUp(m) <=> actions[h] # <<>> /\ WithoutActions(m)[h] = <<>>
  BY DEF GivenUp
<1>5. registered \subseteq Hotkeys
  BY DEF TypeOK
<1>6. RegisteredHasAction => RegisteredHasAction'
  BY <1>1, <1>2, <1>4, <1>5 DEF RegisteredHasAction
<1>7. PostedHasAction =>
        \A h \in Hotkeys : Waiting(h) /\ actions'[h] = <<>> => h \in late'
  BY <1>1, <1>3, <1>4 DEF PostedHasAction
<1> QED BY <1>6, <1>7

LEMMA OnceOfFollows == ExFollowsModule => ActionsOnce
BY DEF ExFollowsModule, ActionsOnce, Once

\* UpdateHotkeyEx brings the actions in step with a module that was switched or
\* reconfigured
LEMMA Reconfigured ==
    ASSUME TypeOK, ExFollowsModule, NEW m \in Modules, NEW c \in Config,
           NEW on \in BOOLEAN, NEW p \in Nat, UpdateHotkeyEx(m, c, on, p),
           enabled' = [enabled EXCEPT ![m] = on], config' = [config EXCEPT ![m] = c]
    PROVE  ExFollowsModule'
<1>1. ActionsOnce
  BY OnceOfFollows
<1>2. \A h \in Hotkeys : /\ Once(actions'[h])
                         /\ \A x : Has(actions'[h], x)
                              <=> IF x = m THEN on /\ c.ex = h ELSE Has(actions[h], x)
  BY <1>1, ActionsEffect
<1>3. ASSUME NEW h \in Hotkeys, NEW x \in Modules
      PROVE  Has(actions'[h], x) <=> enabled'[x] /\ config'[x].ex = h
  <2>1. Has(actions[h], x) <=> enabled[x] /\ config[x].ex = h
    BY DEF ExFollowsModule, HasAction, Has
  <2>2. CASE x = m
    <3>1. enabled'[x] = on /\ config'[x] = c
      BY <2>2 DEF TypeOK
    <3> QED BY <1>2, <2>2, <3>1
  <2>3. CASE x # m
    <3>1. enabled'[x] = enabled[x] /\ config'[x] = config[x]
      BY <2>3 DEF TypeOK
    <3> QED BY <1>2, <2>1, <2>3, <3>1
  <2> QED BY <2>2, <2>3
<1> QED BY <1>2, <1>3 DEF ExFollowsModule, HasAction, Has, Once

-----------------------------------------------------------------------------
(* The messages of the queue.                                              *)

LEMMA HeadMessage ==
    ASSUME TypeOK, queue # <<>>
    PROVE  /\ Head(queue).kind = "general" =>
                Head(queue).module \in Modules /\ Head(queue).on \in BOOLEAN
           /\ Head(queue).kind = "config" =>
                Head(queue).module \in Modules /\ Head(queue).config \in Config
           /\ Head(queue).kind = "hotkey" => Head(queue).hotkey \in Hotkeys
           /\ Tail(queue) \in Seq(Messages)
<1>1. Head(queue) \in Messages /\ Tail(queue) \in Seq(Messages)
  BY DEF TypeOK
<1> DEFINE msg == Head(queue)
<1> HIDE DEF msg
<1>2. msg \in Messages
  BY <1>1 DEF msg
<1>3. /\ msg.kind = "general" => msg.module \in Modules /\ msg.on \in BOOLEAN
      /\ msg.kind = "config" => msg.module \in Modules /\ msg.config \in Config
      /\ msg.kind = "hotkey" => msg.hotkey \in Hotkeys
  <2>1. CASE msg \in [kind : {"general"}, module : Modules, on : BOOLEAN]
    BY <2>1
  <2>2. CASE msg \in [kind : {"config"}, module : Modules, config : Config]
    BY <2>2
  <2>3. CASE msg \in [kind : {"hotkey"}, hotkey : Hotkeys]
    BY <2>3
  <2> QED BY <1>2, <2>1, <2>2, <2>3 DEF Messages
<1> QED BY <1>1, <1>3 DEF msg

LEMMA TargetBoolean ==
    ASSUME NEW m, NEW on \in BOOLEAN PROVE Target(m, on) \in BOOLEAN
BY DEF Target

\* A WM_HOTKEY that waits after a message was taken waited before
LEMMA WaitingOfTail ==
    ASSUME TypeOK, queue # <<>>, queue' = Tail(queue), NEW h, Waiting(h)'
    PROVE  Waiting(h)
<1>1. PICK i \in DOMAIN queue' : queue'[i].kind = "hotkey" /\ queue'[i].hotkey = h
  BY DEF Waiting
<1>2. i + 1 \in DOMAIN queue /\ queue'[i] = queue[i + 1]
  BY HeadTailProperties, LenProperties DEF TypeOK
<1> QED BY <1>1, <1>2 DEF Waiting

LEMMA WaitingOfAppend ==
    ASSUME TypeOK, NEW msg \in Messages, queue' = Append(queue, msg), NEW h, Waiting(h)'
    PROVE  Waiting(h) \/ (msg.kind = "hotkey" /\ msg.hotkey = h)
<1>1. PICK i \in DOMAIN queue' : queue'[i].kind = "hotkey" /\ queue'[i].hotkey = h
  BY DEF Waiting
<1>2. /\ DOMAIN queue' = 1 .. Len(queue) + 1 /\ DOMAIN queue = 1 .. Len(queue)
      /\ \A j \in 1 .. Len(queue) : queue'[j] = queue[j]
      /\ queue'[Len(queue) + 1] = msg /\ Len(queue) \in Nat
  BY AppendProperties, LenProperties DEF TypeOK
<1>3. CASE i = Len(queue) + 1
  BY <1>1, <1>2, <1>3
<1>4. CASE i # Len(queue) + 1
  <2>1. i \in 1 .. Len(queue)
    BY <1>2, <1>4
  <2> QED BY <1>1, <1>2, <2>1 DEF Waiting
<1> QED BY <1>3, <1>4

-----------------------------------------------------------------------------
(* Types.                                                                  *)

LEMMA UpdateHotkeysTypes ==
    ASSUME TypeOK, NEW m \in Modules, NEW c \in Config, update_hotkeys(m, c)
    PROVE  /\ hotkeyDescriptors' \subseteq Hotkeys \X Modules
           /\ seen' \in [Timers -> SUBSET {"up", "cleared"}]
BY DEF TypeOK, update_hotkeys, Config

LEMMA TypeStep == IInv /\ [Next]_vars => TypeOK'
<1> SUFFICES ASSUME IInv, [Next]_vars PROVE TypeOK'
  OBVIOUS
<1>0. TypeOK /\ ActionsOnce
  BY OnceOfFollows DEF IInv
<1>1. ASSUME NEW m \in Modules, Load(m) PROVE TypeOK'
  <2>1. config[m] \in Config /\ FALSE \in BOOLEAN /\ 0 \in Nat
    BY <1>0 DEF TypeOK
  <2>2. /\ update_hotkeys(m, config[m]) /\ UpdateHotkeyEx(m, config[m], FALSE, 0)
        /\ stage' = [stage EXCEPT ![m] = "loaded"]
        /\ UNCHANGED <<enabled, config, vkCodePressed, timers, taken, held, last,
                       queue, crashed, changes>>
    BY <1>1 DEF Load, system
  <2>3. /\ hotkeyDescriptors' \subseteq Hotkeys \X Modules
        /\ seen' \in [Timers -> SUBSET {"up", "cleared"}]
    BY <1>0, <2>1, <2>2, UpdateHotkeysTypes
  <2>4. /\ actions' \in [Hotkeys -> Seq(Modules)]
        /\ registered' \subseteq Hotkeys /\ late' \subseteq Hotkeys
        /\ pressedKeyDescriptors' \in [Modules -> Nat]
    BY <1>0, <2>1, <2>2, UpdateHotkeyExTypes
  <2> QED BY <1>0, <2>2, <2>3, <2>4 DEF TypeOK
<1>2. ASSUME NEW m \in Modules, LoadFails(m) PROVE TypeOK'
  BY <1>0, <1>2 DEF LoadFails, TypeOK, hook, hotkeys, system
<1>3. ASSUME NEW m \in Modules, NEW on \in BOOLEAN, Start(m, on) PROVE TypeOK'
  <2>1. /\ stage' = [stage EXCEPT ![m] = "ready"]
        /\ UNCHANGED <<config, hotkeyDescriptors, vkCodePressed, timers, seen, taken,
                       held, last, queue, crashed, changes>>
    BY <1>3 DEF Start, system
  <2>2. CASE Target(m, on)
    <3>1. /\ UpdateHotkeyEx(m, config[m], TRUE, pressedKeyDescriptors[m])
          /\ enabled' = [enabled EXCEPT ![m] = TRUE]
      BY <1>3, <2>2 DEF Start
    <3>2. config[m] \in Config /\ pressedKeyDescriptors[m] \in Nat /\ TRUE \in BOOLEAN
      BY <1>0 DEF TypeOK
    <3>3. /\ actions' \in [Hotkeys -> Seq(Modules)]
          /\ registered' \subseteq Hotkeys /\ late' \subseteq Hotkeys
          /\ pressedKeyDescriptors' \in [Modules -> Nat]
      BY <1>0, <3>1, <3>2, UpdateHotkeyExTypes
    <3> QED BY <1>0, <2>1, <3>1, <3>3 DEF TypeOK
  <2>3. CASE ~Target(m, on)
    <3>1. UNCHANGED <<enabled, actions, registered, late, pressedKeyDescriptors>>
      BY <1>3, <2>3 DEF Start
    <3> QED BY <1>0, <2>1, <3>1 DEF TypeOK
  <2> QED BY <2>2, <2>3
<1>4. ASSUME NEW k \in Keys, KeyDown(k) PROVE TypeOK'
  <2>1. /\ held' = held \cup {k} /\ last' = k /\ TrackDown(k)
        /\ UNCHANGED <<stage, enabled, config, hotkeyDescriptors, pressedKeyDescriptors,
                       actions, registered, late, taken, crashed, changes>>
    BY <1>4 DEF KeyDown, modules, hotkeys
  <2>2. queue' \in Seq(Messages)
    <3>1. CASE UNCHANGED queue
      BY <1>0, <3>1 DEF TypeOK
    <3>2. CASE /\ Hotkey(k) \in registered
               /\ queue' = Append(queue, [kind |-> "hotkey", hotkey |-> Hotkey(k)])
      <4>1. [kind |-> "hotkey", hotkey |-> Hotkey(k)] \in Messages
        BY <1>0, <3>2 DEF TypeOK, Messages
      <4> QED BY <1>0, <3>2, <4>1, AppendProperties DEF TypeOK
    <3> QED BY <1>4, <3>1, <3>2 DEF KeyDown
  <2>3. /\ vkCodePressed' \in Keys \cup {None} /\ timers' \subseteq Timers
        /\ seen' \in [Timers -> SUBSET {"up", "cleared"}]
    BY <1>0, <2>1 DEF TrackDown, Tracked, TypeOK
  <2> QED BY <1>0, <2>1, <2>2, <2>3 DEF TypeOK
<1>5. ASSUME NEW k \in Keys, KeyUp(k) PROVE TypeOK'
  <2>1. /\ held' = held \ {k}
        /\ UNCHANGED <<stage, enabled, config, hotkeyDescriptors, pressedKeyDescriptors,
                       actions, registered, late, taken, queue, crashed, changes>>
    BY <1>5 DEF KeyUp, modules, hotkeys
  <2>2. TrackUp(k) /\ (last' = None \/ last' = last)
    BY <1>5 DEF KeyUp
  <2>3. /\ vkCodePressed' \in Keys \cup {None} /\ timers' \subseteq Timers
        /\ seen' \in [Timers -> SUBSET {"up", "cleared"}]
    BY <1>0, <2>2 DEF TrackUp, TypeOK
  <2> QED BY <1>0, <2>1, <2>2, <2>3 DEF TypeOK
<1>6. ASSUME NEW t \in Timers, TimerElapses(t) PROVE TypeOK'
  BY <1>0, <1>6 DEF TimerElapses, TypeOK, modules, hotkeys, system
<1>7. ASSUME NEW msg \in Messages, Send(msg) PROVE TypeOK'
  <2>1. Append(queue, msg) \in Seq(Messages)
    BY <1>0, AppendProperties DEF TypeOK
  <2>2. changes' \in 0 .. MaxChanges
    BY <1>0, <1>7, HotkeysAssumption DEF TypeOK, Send
  <2> QED BY <1>0, <1>7, <2>1, <2>2 DEF Send, TypeOK, modules, hook, hotkeys, system
<1>8. CASE Handle
  <2> DEFINE msg == Head(queue)
  <2>1. /\ queue' \in Seq(Messages)
        /\ UNCHANGED <<stage, vkCodePressed, timers, taken, held, last, changes>>
    BY <1>0, <1>8, HeadMessage DEF Handle, system
  <2>2. CASE msg.kind = "general" /\ ApplyGeneralSettings(msg.module, msg.on)
    <3>1. msg.module \in Modules /\ msg.on \in BOOLEAN
      BY <1>0, <1>8, <2>2, HeadMessage DEF Handle
    <3> DEFINE m == msg.module
               on == Target(msg.module, msg.on)
    <3>2. UNCHANGED <<config, hotkeyDescriptors, seen, crashed>>
      BY <2>2 DEF ApplyGeneralSettings
    <3>3. CASE stage[m] = "ready" /\ enabled[m] # on
      <4>1. /\ enabled' = [enabled EXCEPT ![m] = on]
            /\ UpdateHotkeyEx(m, config[m], on, pressedKeyDescriptors[m])
        BY <2>2, <3>3 DEF ApplyGeneralSettings
      <4>2. on \in BOOLEAN /\ config[m] \in Config /\ pressedKeyDescriptors[m] \in Nat
        BY <1>0, <3>1, TargetBoolean DEF TypeOK
      <4>3. /\ actions' \in [Hotkeys -> Seq(Modules)]
            /\ registered' \subseteq Hotkeys /\ late' \subseteq Hotkeys
            /\ pressedKeyDescriptors' \in [Modules -> Nat]
        BY <1>0, <3>1, <4>1, <4>2, UpdateHotkeyExTypes
      <4> QED BY <1>0, <2>1, <3>1, <3>2, <4>1, <4>2, <4>3 DEF TypeOK
    <3>4. CASE ~(stage[m] = "ready" /\ enabled[m] # on)
      <4>1. UNCHANGED <<enabled, actions, registered, late, pressedKeyDescriptors>>
        BY <2>2, <3>4 DEF ApplyGeneralSettings
      <4> QED BY <1>0, <2>1, <3>2, <4>1 DEF TypeOK
    <3> QED BY <3>3, <3>4
  <2>3. CASE msg.kind = "config" /\ SendConfigToModule(msg.module, msg.config)
    <3>1. msg.module \in Modules /\ msg.config \in Config
      BY <1>0, <1>8, <2>3, HeadMessage DEF Handle
    <3> DEFINE m == msg.module
               c == msg.config
    <3>2. UNCHANGED <<enabled, crashed>>
      BY <2>3 DEF SendConfigToModule
    <3>3. CASE stage[m] = "ready"
      <4>1. /\ config' = [config EXCEPT ![m] = c] /\ update_hotkeys(m, c)
            /\ UpdateHotkeyEx(m, c, enabled[m], 0)
        BY <2>3, <3>3 DEF SendConfigToModule
      <4>2. enabled[m] \in BOOLEAN /\ 0 \in Nat
        BY <1>0, <3>1 DEF TypeOK
      <4>3. /\ actions' \in [Hotkeys -> Seq(Modules)]
            /\ registered' \subseteq Hotkeys /\ late' \subseteq Hotkeys
            /\ pressedKeyDescriptors' \in [Modules -> Nat]
        BY <1>0, <3>1, <4>1, <4>2, UpdateHotkeyExTypes
      <4>4. /\ hotkeyDescriptors' \subseteq Hotkeys \X Modules
            /\ seen' \in [Timers -> SUBSET {"up", "cleared"}]
        BY <1>0, <3>1, <4>1, UpdateHotkeysTypes
      <4>5. config' \in [Modules -> Config]
        BY <1>0, <3>1, <4>1 DEF TypeOK
      <4> QED BY <1>0, <2>1, <3>2, <4>3, <4>4, <4>5 DEF TypeOK
    <3>4. CASE stage[m] # "ready"
      <4>1. UNCHANGED <<config, hotkeyDescriptors, seen, actions, registered, late,
                        pressedKeyDescriptors>>
        BY <2>3, <3>4 DEF SendConfigToModule
      <4> QED BY <1>0, <2>1, <3>2, <4>1 DEF TypeOK
    <3> QED BY <3>3, <3>4
  <2>4. CASE msg.kind = "hotkey" /\ PopulateHotkey(msg.hotkey)
    BY <1>0, <2>1, <2>4 DEF PopulateHotkey, hotkeys, TypeOK
  <2> QED BY <1>8, <2>2, <2>3, <2>4 DEF Handle
<1>9. ASSUME NEW h \in Hotkeys, OtherProgram(h) PROVE TypeOK'
  BY <1>0, <1>9 DEF OtherProgram, TypeOK, modules, hook, hotkeys
<1>10. CASE UNCHANGED vars
  BY <1>0, <1>10 DEF vars, TypeOK, modules, hook, hotkeys, system
<1>11. ASSUME NEW m \in Modules, NEW on \in BOOLEAN
       PROVE  [kind |-> "general", module |-> m, on |-> on] \in Messages
  BY DEF Messages
<1>12. ASSUME NEW m \in Modules, NEW c \in Configs[m]
       PROVE  [kind |-> "config", module |-> m, config |-> c] \in Messages
  <2>1. c \in Config
    BY HotkeysAssumption
  <2> QED BY <2>1 DEF Messages
<1> QED BY <1>1, <1>2, <1>3, <1>4, <1>5, <1>6, <1>7, <1>8, <1>9, <1>10, <1>11, <1>12
        DEF Next

-----------------------------------------------------------------------------
(* Every step keeps the settings of all modules and what the runner has    *)
(* registered for them, or it reconfigures one module.                     *)

TimersMove ==
    \/ UNCHANGED <<timers, seen>>
    \/ \E k \in Keys : TrackDown(k) \/ TrackUp(k)
    \/ \E t \in Timers : timers' = timers \ {t} /\ seen' = [seen EXCEPT ![t] = {}]

Keeps ==
    /\ TimersMove
    /\ UNCHANGED <<enabled, config, actions, registered, late,
                   hotkeyDescriptors, pressedKeyDescriptors>>
    /\ \A x \in Modules :
         \/ stage'[x] = stage[x]
         \/ stage[x] = "no" /\ stage'[x] = "absent"
         \/ stage[x] = "loaded" /\ Forced[x] # "enabled"

\* With the hotkeys and the keys tracked, or without them
Reconfigures(m, c, on, p) ==
    /\ UpdateHotkeyEx(m, c, on, p)
    /\ enabled' = [enabled EXCEPT ![m] = on]
    /\ config' = [config EXCEPT ![m] = c]
    /\ UNCHANGED timers
    /\ stage'[m] \in {"loaded", "ready"}
    /\ \A x \in Modules \ {m} : stage'[x] = stage[x]
    /\ on => stage'[m] = "ready"
    /\ stage'[m] = "ready" /\ Forced[m] # "not_configured" => on = (Forced[m] = "enabled")
    /\ \/ update_hotkeys(m, c) /\ p = 0
       \/ /\ c = config[m] /\ p = pressedKeyDescriptors[m]
          /\ stage[m] \in {"loaded", "ready"}
          /\ UNCHANGED <<hotkeyDescriptors, seen>>

SomeReconfigures ==
    \E m \in Modules, c \in Config, on \in BOOLEAN, p \in Nat : Reconfigures(m, c, on, p)

LEMMA StepKinds == IInv /\ [Next]_vars => Keeps \/ SomeReconfigures
<1> SUFFICES ASSUME IInv, [Next]_vars PROVE Keeps \/ SomeReconfigures
  OBVIOUS
<1>0. /\ stage \in [Modules -> {"no", "absent", "loaded", "ready"}]
      /\ enabled \in [Modules -> BOOLEAN] /\ config \in [Modules -> Config]
      /\ pressedKeyDescriptors \in [Modules -> Nat]
      /\ OnlyReadyEnabled /\ PolicyHolds /\ TypeOK
  BY DEF IInv, TypeOK
<1>1. ASSUME NEW m \in Modules, Load(m) PROVE SomeReconfigures
  <2>1. /\ stage[m] = "no" /\ stage' = [stage EXCEPT ![m] = "loaded"]
        /\ update_hotkeys(m, config[m]) /\ UpdateHotkeyEx(m, config[m], FALSE, 0)
        /\ UNCHANGED <<enabled, config, timers>>
    BY <1>1 DEF Load
  <2>2. enabled[m] = FALSE
    BY <1>0, <2>1 DEF OnlyReadyEnabled
  <2>3. enabled' = [enabled EXCEPT ![m] = FALSE] /\ config' = [config EXCEPT ![m] = config[m]]
    BY <1>0, <2>1, <2>2
  <2>4. stage'[m] = "loaded" /\ \A x \in Modules \ {m} : stage'[x] = stage[x]
    BY <1>0, <2>1
  <2>5. Reconfigures(m, config[m], FALSE, 0)
    BY <2>1, <2>3, <2>4 DEF Reconfigures
  <2>6. config[m] \in Config
    BY <1>0
  <2> QED BY <2>5, <2>6 DEF SomeReconfigures
<1>2. ASSUME NEW m \in Modules, LoadFails(m) PROVE Keeps
  BY <1>0, <1>2 DEF LoadFails, Keeps, TimersMove, hook, hotkeys
<1>3. ASSUME NEW m \in Modules, NEW on \in BOOLEAN, Start(m, on)
      PROVE  Keeps \/ SomeReconfigures
  <2>1. /\ stage[m] = "loaded" /\ stage' = [stage EXCEPT ![m] = "ready"]
        /\ UNCHANGED <<config, hotkeyDescriptors, timers, seen>>
    BY <1>3 DEF Start
  <2>2. stage'[m] = "ready" /\ \A x \in Modules \ {m} : stage'[x] = stage[x]
    BY <1>0, <2>1
  <2>3. CASE Target(m, on)
    <3>1. /\ enabled' = [enabled EXCEPT ![m] = TRUE]
          /\ UpdateHotkeyEx(m, config[m], TRUE, pressedKeyDescriptors[m])
      BY <1>3, <2>3 DEF Start
    <3>2. config' = [config EXCEPT ![m] = config[m]]
      BY <1>0, <2>1
    <3>3. Forced[m] # "not_configured" => TRUE = (Forced[m] = "enabled")
      BY <2>3 DEF Target
    <3>4. Reconfigures(m, config[m], TRUE, pressedKeyDescriptors[m])
      BY <2>1, <2>2, <3>1, <3>2, <3>3 DEF Reconfigures
    <3>5. config[m] \in Config /\ pressedKeyDescriptors[m] \in Nat
      BY <1>0
    <3> QED BY <3>4, <3>5 DEF SomeReconfigures
  <2>4. CASE ~Target(m, on)
    <3>1. UNCHANGED <<enabled, actions, registered, late, pressedKeyDescriptors>>
      BY <1>3, <2>4 DEF Start
    <3>2. Forced[m] # "enabled"
      BY <2>4 DEF Target
    <3> QED BY <2>1, <2>2, <3>1, <3>2 DEF Keeps, TimersMove
  <2> QED BY <2>3, <2>4
<1>4. ASSUME NEW k \in Keys, KeyDown(k) \/ KeyUp(k) PROVE Keeps
  BY <1>4 DEF KeyDown, KeyUp, Keeps, TimersMove, modules, hotkeys
<1>5. ASSUME NEW t \in Timers, TimerElapses(t) PROVE Keeps
  BY <1>5 DEF TimerElapses, Keeps, TimersMove, modules, hotkeys
<1>6. ASSUME NEW msg, Send(msg) PROVE Keeps
  BY <1>6 DEF Send, Keeps, TimersMove, modules, hook, hotkeys
<1>7. CASE Handle
  <2> DEFINE msg == Head(queue)
  <2>0. queue # <<>> /\ UNCHANGED <<stage, timers>>
    BY <1>7 DEF Handle
  <2>1. CASE msg.kind = "general" /\ ApplyGeneralSettings(msg.module, msg.on)
    <3> DEFINE m == msg.module
               on == Target(msg.module, msg.on)
    <3>1. m \in Modules /\ on \in BOOLEAN
      BY <1>0, <2>0, <2>1, HeadMessage, TargetBoolean
    <3>2. UNCHANGED <<config, hotkeyDescriptors, seen>>
      BY <2>1 DEF ApplyGeneralSettings
    <3>3. CASE stage[m] = "ready" /\ enabled[m] # on
      <4>1. /\ enabled' = [enabled EXCEPT ![m] = on]
            /\ UpdateHotkeyEx(m, config[m], on, pressedKeyDescriptors[m])
        BY <2>1, <3>3 DEF ApplyGeneralSettings
      <4>2. config' = [config EXCEPT ![m] = config[m]]
        BY <1>0, <3>2
      <4>3. Forced[m] # "not_configured" => on = (Forced[m] = "enabled")
        BY DEF Target
      <4> HIDE DEF m, on
      <4>4. Reconfigures(m, config[m], on, pressedKeyDescriptors[m])
        BY <2>0, <3>2, <3>3, <4>1, <4>2, <4>3 DEF Reconfigures
      <4>5. config[m] \in Config /\ pressedKeyDescriptors[m] \in Nat
        BY <1>0, <3>1
      <4> QED BY <3>1, <4>4, <4>5 DEF SomeReconfigures
    <3>4. CASE ~(stage[m] = "ready" /\ enabled[m] # on)
      <4>1. UNCHANGED <<enabled, actions, registered, late, pressedKeyDescriptors>>
        BY <2>1, <3>4 DEF ApplyGeneralSettings
      <4> QED BY <2>0, <3>2, <4>1 DEF Keeps, TimersMove
    <3> QED BY <3>3, <3>4
  <2>2. CASE msg.kind = "config" /\ SendConfigToModule(msg.module, msg.config)
    <3> DEFINE m == msg.module
               c == msg.config
    <3>1. m \in Modules /\ c \in Config
      BY <1>0, <2>0, <2>2, HeadMessage
    <3>2. UNCHANGED enabled
      BY <2>2 DEF SendConfigToModule
    <3>3. CASE stage[m] = "ready"
      <4>1. /\ config' = [config EXCEPT ![m] = c] /\ update_hotkeys(m, c)
            /\ UpdateHotkeyEx(m, c, enabled[m], 0)
        BY <2>2, <3>3 DEF SendConfigToModule
      <4> HIDE DEF m, c
      <4>2. enabled' = [enabled EXCEPT ![m] = enabled[m]]
        BY <1>0, <3>2
      <4>3. Forced[m] # "not_configured" => enabled[m] = (Forced[m] = "enabled")
        BY <1>0, <3>1, <3>3 DEF PolicyHolds
      <4>4. Reconfigures(m, c, enabled[m], 0)
        BY <2>0, <3>3, <4>1, <4>2, <4>3 DEF Reconfigures
      <4>5. enabled[m] \in BOOLEAN
        BY <1>0, <3>1
      <4> QED BY <3>1, <4>4, <4>5 DEF SomeReconfigures
    <3>4. CASE stage[m] # "ready"
      <4>1. UNCHANGED <<config, hotkeyDescriptors, seen, actions, registered, late,
                        pressedKeyDescriptors>>
        BY <2>2, <3>4 DEF SendConfigToModule
      <4> QED BY <2>0, <3>2, <4>1 DEF Keeps, TimersMove
    <3> QED BY <3>3, <3>4
  <2>3. CASE msg.kind = "hotkey" /\ PopulateHotkey(msg.hotkey)
    BY <2>0, <2>3 DEF PopulateHotkey, Keeps, TimersMove, hotkeys
  <2> QED BY <1>7, <2>1, <2>2, <2>3 DEF Handle
<1>8. ASSUME NEW h \in Hotkeys, OtherProgram(h) PROVE Keeps
  BY <1>8 DEF OtherProgram, Keeps, TimersMove, modules, hook, hotkeys
<1>9. CASE UNCHANGED vars
  BY <1>9 DEF vars, Keeps, TimersMove, modules, hook, hotkeys
<1> QED BY <1>1, <1>2, <1>3, <1>4, <1>5, <1>6, <1>7, <1>8, <1>9 DEF Next

-----------------------------------------------------------------------------
(* The invariants, one after the other.                                    *)

LEMMA ModulesStep ==
    IInv /\ [Next]_vars => OnlyReadyEnabled' /\ PolicyHolds' /\ ExFollowsModule'
                             /\ RegisteredHasAction'
<1> SUFFICES ASSUME IInv, [Next]_vars
             PROVE  OnlyReadyEnabled' /\ PolicyHolds' /\ ExFollowsModule'
                      /\ RegisteredHasAction'
  OBVIOUS
<1>0. /\ TypeOK /\ OnlyReadyEnabled /\ PolicyHolds /\ ExFollowsModule
      /\ RegisteredHasAction /\ ActionsOnce
      /\ enabled \in [Modules -> BOOLEAN] /\ Forced \in [Modules ->
                                     {"not_configured", "enabled", "disabled"}]
  BY OnceOfFollows, HotkeysAssumption DEF IInv, TypeOK
<1>1. CASE Keeps
  <2>1. ASSUME NEW x \in Modules, stage'[x] # stage[x]
        PROVE  ~enabled[x] /\ (stage'[x] = "ready" => Forced[x] # "enabled")
    BY <1>0, <1>1, <2>1 DEF Keeps, OnlyReadyEnabled
  <2>2. OnlyReadyEnabled' /\ PolicyHolds'
    BY <1>0, <1>1, <2>1 DEF Keeps, OnlyReadyEnabled, PolicyHolds
  <2>3. ExFollowsModule' /\ RegisteredHasAction'
    BY <1>0, <1>1 DEF Keeps, ExFollowsModule, HasAction, RegisteredHasAction
  <2> QED BY <2>2, <2>3
<1>2. ASSUME NEW m \in Modules, NEW c \in Config, NEW on \in BOOLEAN, NEW p \in Nat,
             Reconfigures(m, c, on, p)
      PROVE  OnlyReadyEnabled' /\ PolicyHolds' /\ ExFollowsModule' /\ RegisteredHasAction'
  <2>1. ExFollowsModule'
    BY <1>0, <1>2, Reconfigured DEF Reconfigures
  <2>2. RegisteredHasAction'
    BY <1>0, <1>2, RegisteredEffect DEF Reconfigures
  <2>3. enabled'[m] = on /\ \A x \in Modules \ {m} : enabled'[x] = enabled[x]
    BY <1>0, <1>2 DEF Reconfigures
  <2>4. OnlyReadyEnabled' /\ PolicyHolds'
    BY <1>0, <1>2, <2>3 DEF Reconfigures, OnlyReadyEnabled, PolicyHolds
  <2> QED BY <2>1, <2>2, <2>4
<1> QED BY <1>1, <1>2, StepKinds DEF SomeReconfigures

LEMMA HookStep == IInv /\ [Next]_vars => HookFollowsModule'
<1> SUFFICES ASSUME IInv, [Next]_vars, NEW x \in Modules, stage'[x] \in {"loaded", "ready"}
             PROVE  /\ {d[1] : d \in {e \in hotkeyDescriptors' : e[2] = x}} = config'[x].hotkeys
                    /\ pressedKeyDescriptors'[x] > 0 <=> config'[x].win
  BY DEF HookFollowsModule
<1>0. /\ TypeOK /\ HookFollowsModule /\ ActionsOnce
      /\ config \in [Modules -> Config] /\ pressedKeyDescriptors \in [Modules -> Nat]
      /\ hotkeyDescriptors \subseteq Hotkeys \X Modules
  BY OnceOfFollows DEF IInv, TypeOK
<1>1. CASE Keeps
  <2>1. stage[x] \in {"loaded", "ready"}
    BY <1>1 DEF Keeps
  <2> QED BY <1>0, <1>1, <2>1 DEF Keeps, HookFollowsModule
<1>2. ASSUME NEW m \in Modules, NEW c \in Config, NEW on \in BOOLEAN, NEW p \in Nat,
             Reconfigures(m, c, on, p)
      PROVE  /\ {d[1] : d \in {e \in hotkeyDescriptors' : e[2] = x}} = config'[x].hotkeys
             /\ pressedKeyDescriptors'[x] > 0 <=> config'[x].win
  <2>1. pressedKeyDescriptors'
          = [pressedKeyDescriptors EXCEPT ![m] = IF c.win THEN p + 1 ELSE p]
    BY <1>0, <1>2, UpdateHotkeyExTypes DEF Reconfigures
  <2>2. config'[m] = c /\ \A y \in Modules \ {m} : config'[y] = config[y]
    BY <1>0, <1>2 DEF Reconfigures
  <2>3. c.hotkeys \subseteq Hotkeys /\ c.win \in BOOLEAN
    BY DEF Config
  <2>4. CASE x # m
    <3>1. {e \in hotkeyDescriptors' : e[2] = x} = {e \in hotkeyDescriptors : e[2] = x}
      BY <1>0, <1>2, <2>3, <2>4 DEF Reconfigures, update_hotkeys
    <3>2. stage[x] \in {"loaded", "ready"}
      BY <1>2, <2>4 DEF Reconfigures
    <3>3. pressedKeyDescriptors'[x] = pressedKeyDescriptors[x] /\ config'[x] = config[x]
      BY <1>0, <2>1, <2>2, <2>4
    <3> QED BY <1>0, <3>1, <3>2, <3>3 DEF HookFollowsModule
  <2>5. CASE x = m /\ update_hotkeys(m, c) /\ p = 0
    <3>1. {e \in hotkeyDescriptors' : e[2] = m} = c.hotkeys \X {m}
      BY <1>0, <2>3, <2>5 DEF update_hotkeys
    <3>2. {d[1] : d \in c.hotkeys \X {m}} = c.hotkeys
      <4>1. ASSUME NEW h \in c.hotkeys PROVE h \in {d[1] : d \in c.hotkeys \X {m}}
        <5>1. <<h, m>> \in c.hotkeys \X {m} /\ <<h, m>>[1] = h
          OBVIOUS
        <5> QED BY <5>1
      <4>2. {d[1] : d \in c.hotkeys \X {m}} \subseteq c.hotkeys
        OBVIOUS
      <4> QED BY <4>1, <4>2
    <3>3. pressedKeyDescriptors'[m] = IF c.win THEN 1 ELSE 0
      BY <1>0, <2>1, <2>5
    <3> QED BY <2>2, <2>3, <2>5, <3>1, <3>2, <3>3
  <2>6. CASE x = m /\ ~(update_hotkeys(m, c) /\ p = 0)
    <3>1. /\ c = config[m] /\ p = pressedKeyDescriptors[m]
          /\ stage[m] \in {"loaded", "ready"} /\ UNCHANGED hotkeyDescriptors
      BY <1>2, <2>6 DEF Reconfigures
    <3>2. /\ {d[1] : d \in {e \in hotkeyDescriptors : e[2] = m}} = config[m].hotkeys
          /\ pressedKeyDescriptors[m] > 0 <=> config[m].win
      BY <1>0, <3>1 DEF HookFollowsModule
    <3>3. pressedKeyDescriptors'[m] = IF c.win THEN p + 1 ELSE p
      BY <1>0, <2>1
    <3>4. pressedKeyDescriptors'[m] > 0 <=> c.win
      BY <1>0, <2>3, <3>1, <3>2, <3>3
    <3> QED BY <2>2, <2>6, <3>1, <3>2, <3>4
  <2> QED BY <2>4, <2>5, <2>6
<1> QED BY <1>1, <1>2, StepKinds DEF SomeReconfigures

LEMMA PostedStep == IInv /\ [Next]_vars => PostedHasAction'
<1> SUFFICES ASSUME IInv, [Next]_vars, NEW h \in Hotkeys, Waiting(h)', actions'[h] = <<>>
             PROVE  h \in late'
  BY DEF PostedHasAction
<1>0. TypeOK /\ PostedHasAction /\ RegisteredHasAction /\ ActionsOnce
  BY OnceOfFollows DEF IInv
<1>1. Waiting(h) \/ (UNCHANGED actions /\ h \in registered)
  <2>1. CASE UNCHANGED queue
    BY <2>1 DEF Waiting
  <2>2. CASE Handle
    BY <1>0, <2>2, WaitingOfTail DEF Handle
  <2>3. ASSUME NEW m \in Modules, NEW on \in BOOLEAN,
               Send([kind |-> "general", module |-> m, on |-> on])
        PROVE  Waiting(h)
    <3>1. [kind |-> "general", module |-> m, on |-> on] \in Messages
      BY DEF Messages
    <3> QED BY <1>0, <2>3, <3>1, WaitingOfAppend DEF Send
  <2>4. ASSUME NEW m \in Modules, NEW c \in Configs[m],
               Send([kind |-> "config", module |-> m, config |-> c])
        PROVE  Waiting(h)
    <3>1. [kind |-> "config", module |-> m, config |-> c] \in Messages
      BY HotkeysAssumption DEF Messages
    <3> QED BY <1>0, <2>4, <3>1, WaitingOfAppend DEF Send
  <2>5. ASSUME NEW k \in Keys, KeyDown(k), ~UNCHANGED queue
        PROVE  Waiting(h) \/ (UNCHANGED actions /\ h \in registered)
    <3>1. /\ Hotkey(k) \in registered /\ UNCHANGED actions
          /\ queue' = Append(queue, [kind |-> "hotkey", hotkey |-> Hotkey(k)])
      BY <2>5 DEF KeyDown, hotkeys
    <3>2. [kind |-> "hotkey", hotkey |-> Hotkey(k)] \in Messages
      BY <1>0, <3>1 DEF Messages, TypeOK
    <3> QED BY <1>0, <3>1, <3>2, WaitingOfAppend
  <2>6. ASSUME NEW m \in Modules, NEW on \in BOOLEAN,
               Load(m) \/ LoadFails(m) \/ Start(m, on)
        PROVE  UNCHANGED queue
    BY <2>6 DEF Load, LoadFails, Start
  <2>7. ASSUME NEW k \in Keys, KeyUp(k) PROVE UNCHANGED queue
    BY <2>7 DEF KeyUp
  <2>8. ASSUME NEW t \in Timers, TimerElapses(t) PROVE UNCHANGED queue
    BY <2>8 DEF TimerElapses
  <2>9. ASSUME NEW g \in Hotkeys, OtherProgram(g) PROVE UNCHANGED queue
    BY <2>9 DEF OtherProgram
  <2>10. CASE UNCHANGED vars
    BY <2>1, <2>10 DEF vars
  <2> QED BY <2>1, <2>2, <2>3, <2>4, <2>5, <2>6, <2>7, <2>8, <2>9, <2>10 DEF Next
<1>2. Waiting(h)
  BY <1>0, <1>1 DEF RegisteredHasAction
<1>3. CASE Keeps
  BY <1>0, <1>2, <1>3 DEF Keeps, PostedHasAction
<1>4. ASSUME NEW m \in Modules, NEW c \in Config, NEW on \in BOOLEAN, NEW p \in Nat,
             Reconfigures(m, c, on, p)
      PROVE  h \in late'
  BY <1>0, <1>2, <1>4, RegisteredEffect DEF Reconfigures
<1> QED BY <1>3, <1>4, StepKinds DEF SomeReconfigures

LEMMA TimersOfReconfigures ==
    ASSUME IInv, NEW m \in Modules, NEW c \in Config, NEW on \in BOOLEAN, NEW p \in Nat,
           Reconfigures(m, c, on, p)
    PROVE  TimersTracked'
<1>0. /\ TypeOK /\ ActionsOnce /\ TimersTracked /\ timers \subseteq Timers
      /\ pressedKeyDescriptors \in [Modules -> Nat]
  BY OnceOfFollows DEF IInv, TypeOK
<1>1. /\ UNCHANGED timers
      /\ pressedKeyDescriptors'
          = [pressedKeyDescriptors EXCEPT ![m] = IF c.win THEN p + 1 ELSE p]
  BY <1>0, UpdateHotkeyExTypes DEF Reconfigures
<1> SUFFICES ASSUME NEW t \in timers
             PROVE  \/ "cleared" \in seen'[t]
                    \/ "up" \notin seen'[t] /\ pressedKeyDescriptors'[t[1]] > 0
  BY <1>1 DEF TimersTracked
<1>2. t \in Timers /\ t[1] \in Modules
  BY <1>0 DEF Timers
<1>3. \/ "cleared" \in seen[t]
      \/ "up" \notin seen[t] /\ pressedKeyDescriptors[t[1]] > 0
  BY <1>0 DEF TimersTracked
<1>4. CASE update_hotkeys(m, c)
  <2>1. seen'[t] = IF t[1] = m THEN seen[t] \cup {"cleared"} ELSE seen[t]
    BY <1>2, <1>4 DEF update_hotkeys
  <2>2. t[1] # m => pressedKeyDescriptors'[t[1]] = pressedKeyDescriptors[t[1]]
    BY <1>0, <1>1, <1>2
  <2> QED BY <1>3, <2>1, <2>2
<1>5. CASE UNCHANGED seen /\ p = pressedKeyDescriptors[m]
  <2>1. pressedKeyDescriptors[t[1]] > 0 => pressedKeyDescriptors'[t[1]] > 0
    BY <1>0, <1>1, <1>2, <1>5
  <2> QED BY <1>3, <1>5, <2>1
<1> QED BY <1>4, <1>5 DEF Reconfigures

LEMMA TimersStep == IInv /\ [Next]_vars => TimersTracked'
<1> SUFFICES ASSUME IInv, [Next]_vars PROVE TimersTracked'
  OBVIOUS
<1>0. /\ TypeOK /\ TimersTracked /\ timers \subseteq Timers
      /\ seen \in [Timers -> SUBSET {"up", "cleared"}]
      /\ pressedKeyDescriptors \in [Modules -> Nat]
  BY DEF IInv, TypeOK
<1>1. ASSUME UNCHANGED <<timers, seen, pressedKeyDescriptors>> PROVE TimersTracked'
  BY <1>0, <1>1 DEF TimersTracked
<1>2. ASSUME NEW k \in Keys, TrackDown(k), UNCHANGED pressedKeyDescriptors
      PROVE  TimersTracked'
  <2>1. timers' \subseteq Timers
    BY <1>0, <1>2 DEF TrackDown, Tracked
  <2> DEFINE set == Tracks /\ vkCodePressed = None
  <2>2. ASSUME NEW t \in timers'
        PROVE  \/ "cleared" \in seen'[t]
               \/ "up" \notin seen'[t] /\ pressedKeyDescriptors[t[1]] > 0
    <3>1. seen'[t] = IF set /\ t \in Tracked(k) THEN {} ELSE seen[t]
      BY <1>2, <2>1, <2>2 DEF TrackDown
    <3>2. t \in timers \/ (set /\ t \in Tracked(k))
      BY <1>2, <2>2 DEF TrackDown
    <3>3. t \in Tracked(k) => pressedKeyDescriptors[t[1]] > 0
      BY DEF Tracked
    <3> QED BY <1>0, <3>1, <3>2, <3>3 DEF TimersTracked
  <2> QED BY <1>2, <2>2 DEF TimersTracked
<1>3. ASSUME NEW k \in Keys, TrackUp(k), UNCHANGED pressedKeyDescriptors
      PROVE  TimersTracked'
  <2>1. ASSUME NEW t \in timers'
        PROVE  \/ "cleared" \in seen'[t]
               \/ "up" \notin seen'[t] /\ pressedKeyDescriptors[t[1]] > 0
    <3>1. /\ t \in timers /\ t \in Timers /\ ~(Tracks /\ t \in Tracked(k))
          /\ seen'[t] = IF t[2] = k THEN seen[t] \cup {"up"} ELSE seen[t]
      BY <1>0, <1>3, <2>1 DEF TrackUp
    <3>2. \/ "cleared" \in seen[t]
          \/ "up" \notin seen[t] /\ pressedKeyDescriptors[t[1]] > 0
      BY <1>0, <3>1 DEF TimersTracked
    <3>3. t[2] = k => ~(pressedKeyDescriptors[t[1]] > 0)
      BY <3>1 DEF Tracks, Tracked, Timers
    <3> QED BY <3>1, <3>2, <3>3
  <2> QED BY <1>3, <2>1 DEF TimersTracked
<1>4. ASSUME NEW t \in Timers, timers' = timers \ {t}, seen' = [seen EXCEPT ![t] = {}],
             UNCHANGED pressedKeyDescriptors
      PROVE  TimersTracked'
  BY <1>0, <1>4 DEF TimersTracked
<1>5. CASE Keeps
  BY <1>1, <1>2, <1>3, <1>4, <1>5 DEF Keeps, TimersMove
<1> QED BY <1>5, TimersOfReconfigures, StepKinds DEF SomeReconfigures

-----------------------------------------------------------------------------
(* The theorems.                                                           *)

LEMMA Inductive == Spec => []IInv
<1>1. Init => IInv
  <2> SUFFICES ASSUME Init PROVE IInv
    OBVIOUS
  <2>1. /\ <<>> \in Seq(Modules) /\ <<>> \in Seq(Messages) /\ 0 \in 0 .. MaxChanges
        /\ DOMAIN <<>> = {}
    BY HotkeysAssumption
  <2>2. config \in [Modules -> Config]
    BY DEF Init
  <2>3. TypeOK
    BY <2>1, <2>2 DEF Init, TypeOK
  <2>4. \A h : ~Waiting(h)
    BY DEF Init, Waiting
  <2>5. /\ OnlyReadyEnabled /\ TimersTracked /\ RegisteredHasAction
        /\ HookFollowsModule /\ PolicyHolds /\ PostedHasAction
    BY <2>4 DEF Init, OnlyReadyEnabled, TimersTracked, RegisteredHasAction,
                HookFollowsModule, PolicyHolds, PostedHasAction
  <2>6. ExFollowsModule
    BY <2>1 DEF Init, ExFollowsModule, HasAction
  <2> QED BY <2>3, <2>5, <2>6 DEF IInv
<1>2. IInv /\ [Next]_vars => IInv'
  BY TypeStep, ModulesStep, HookStep, PostedStep, TimersStep DEF IInv
<1> QED BY <1>1, <1>2, PTL DEF Spec

\* The tables of the runner, its timers and its queue keep their types for any
\* modules, keys and settings.
THEOREM TypeCorrect == Spec => []TypeOK
<1>1. IInv => TypeOK
  BY DEF IInv
<1> QED BY <1>1, Inductive, PTL

\* Whatever order settings, switches and starts come in, CentralizedHotkeys
\* holds one action of a module for the hotkey it asks for while it is enabled,
\* and no other; RegisterHotKey is undone with the last action of a hotkey; the
\* descriptors of the hook are those of the modules' settings; and the group
\* policy decides on a module from its start on.
THEOREM TablesFollowModules == Spec => []TablesFollow
<1>1. IInv => TablesFollow
  BY DEF IInv, TablesFollow
<1> QED BY <1>1, Inductive, PTL

\* A WM_HOTKEY without an action was overtaken by the change that removed it.
THEOREM PostedAnswered == Spec => []PostedHasAction
<1>1. IInv => PostedHasAction
  BY DEF IInv
<1> QED BY <1>1, Inductive, PTL

\* A released key leaves no timer of a long press behind, settings apart.
THEOREM NoLateTimer == Spec => []NoTimerAfterRelease
<1>1. IInv => NoTimerAfterRelease
  BY DEF IInv, TimersTracked, NoTimerAfterRelease
<1> QED BY <1>1, Inductive, PTL

=============================================================================
