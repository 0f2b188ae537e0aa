----------------------- MODULE AsyncMessageQueueProofs -----------------------
(***************************************************************************)
(* Proofs about AsyncMessageQueue for any sets of threads and messages: no *)
(* wake-up is lost, and the queue implements MessageChannel.               *)
(***************************************************************************)
EXTENDS AsyncMessageQueue, TLAPS

\* A thread in the wait set is nowhere else
WaitingWaits == \A c \in waiting : pc[c] = "wait"

IInv == TypeOK /\ WaitingWaits /\ NoLostWakeup

USE DistinctThreads

\* A thread's place changes and nobody else's
LEMMA GotoOthers ==
    ASSUME TypeOK, NEW t \in Threads, NEW l \in PCs, Goto(t, l)
    PROVE  /\ pc' \in [Threads -> PCs]
           /\ pc'[t] = l
           /\ \A x \in Threads : x # t => pc'[x] = pc[x]
BY DEF TypeOK, Goto

-----------------------------------------------------------------------------
(* Types.                                                                  *)

LEMMA TypeStep == TypeOK /\ [Next]_vars => TypeOK'
<1> SUFFICES ASSUME TypeOK, [Next]_vars PROVE TypeOK'
  OBVIOUS
<1> USE DEF TypeOK, Goto, Acquire, PCs
<1>1. ASSUME NEW p \in Producers, Producer(p) PROVE TypeOK'
  <2>1. p \in Threads
    BY DEF Threads
  <2>2. CASE QueueLock(p)
    BY <2>1, <2>2 DEF QueueLock
  <2>3. CASE QueuePush(p)
    BY <2>1, <2>3 DEF QueuePush
  <2>4. CASE QueueNotify(p)
    BY <2>1, <2>4 DEF QueueNotify, NotifyOne, Threads
  <2> QED BY <1>1, <2>2, <2>3, <2>4 DEF Producer
<1>2. CASE Interrupter
  BY <1>2 DEF Interrupter, InterruptLock, InterruptSet, InterruptNotify,
              NotifyAll, Threads
<1>3. ASSUME NEW c \in Consumers, Consumer(c) PROVE TypeOK'
  <2>1. c \in Threads
    BY DEF Threads
  <2>2. CASE PopLock(c) \/ PopWait(c) \/ PopInterrupted(c)
    BY <2>1, <2>2 DEF PopLock, PopWait, PopInterrupted
  <2>3. CASE SpuriousWakeup(c)
    BY <2>1, <2>3 DEF SpuriousWakeup
  <2>4. CASE PopMessage(c)
    <3>1. Head(message_queue) \in Messages
            /\ Tail(message_queue) \in Seq(Messages)
      BY <2>4 DEF PopMessage
    <3> QED BY <2>1, <2>4, <3>1 DEF PopMessage
  <2> QED BY <1>3, <2>2, <2>3, <2>4 DEF Consumer, Test
<1>4. CASE UNCHANGED vars
  BY <1>4 DEF vars
<1> QED BY <1>1, <1>2, <1>3, <1>4 DEF Next

-----------------------------------------------------------------------------
(* No lost wake-up.                                                        *)

LEMMA ProducerStep ==
    ASSUME IInv, TypeOK', NEW p \in Producers, Producer(p)
    PROVE  WaitingWaits' /\ NoLostWakeup'
<1> USE DEF IInv, WaitingWaits, NoLostWakeup, Awake
<1>1. p \in Threads /\ p \notin Consumers /\ p # Closer
        /\ Consumers \subseteq Threads /\ Closer \in Threads
        /\ Producers \subseteq Threads
  BY DEF Threads
<1>2. waiting \subseteq Consumers /\ pc \in [Threads -> PCs]
  BY DEF TypeOK
<1>3. CASE QueueLock(p)
  <2>1. pc' = [pc EXCEPT ![p] = "locked"] /\ pc[p] = "idle"
          /\ UNCHANGED <<waiting, interrupted, message_queue>>
    BY <1>3 DEF QueueLock, Goto
  <2> QED BY <1>1, <1>2, <2>1
<1>4. CASE QueuePush(p)
  <2>1. pc' = [pc EXCEPT ![p] = "notify"]
          /\ UNCHANGED <<waiting, interrupted>>
    BY <1>4 DEF QueuePush, Goto
  <2> QED BY <1>1, <1>2, <2>1
<1>5. CASE QueueNotify(p)
  <2>0. UNCHANGED <<interrupted, message_queue>> /\ NotifyOne(p)
    BY <1>5 DEF QueueNotify
  <2>1. CASE waiting = {}
    BY <2>0, <2>1 DEF NotifyOne
  <2>2. ASSUME NEW c \in waiting, waiting' = waiting \ {c},
               pc' = [pc EXCEPT ![p] = "idle", ![c] = "relock"]
        PROVE  WaitingWaits' /\ NoLostWakeup'
    <3>1. c \in Consumers /\ c # p /\ c # Closer /\ c \in Threads
      BY <1>1, <1>2
    <3>2. /\ pc'[c] = "relock"
          /\ pc'[Closer] = pc[Closer]
          /\ \A d \in waiting' : pc'[d] = pc[d]
      BY <1>1, <1>2, <2>2, <3>1
    <3> QED BY <2>0, <2>2, <3>1, <3>2
  <2> QED BY <2>0, <2>1, <2>2 DEF NotifyOne
<1> QED BY <1>3, <1>4, <1>5 DEF Producer

LEMMA InterrupterStep ==
    ASSUME IInv, TypeOK', Interrupter
    PROVE  WaitingWaits' /\ NoLostWakeup'
<1> USE DEF IInv, WaitingWaits, NoLostWakeup, Awake
<1>1. Closer \notin Consumers /\ Closer \notin Producers
        /\ Closer \in Threads /\ Consumers \subseteq Threads
        /\ Producers \subseteq Threads
  BY DEF Threads
<1>2. waiting \subseteq Consumers /\ pc \in [Threads -> PCs]
  BY DEF TypeOK
<1>3. CASE InterruptLock
  <2>1. pc' = [pc EXCEPT ![Closer] = "locked"] /\ pc[Closer] = "idle"
          /\ UNCHANGED <<waiting, interrupted, message_queue>>
    BY <1>3 DEF InterruptLock, Goto
  <2> QED BY <1>1, <1>2, <2>1
<1>4. CASE InterruptSet
  <2>1. pc' = [pc EXCEPT ![Closer] = "notify"] /\ interrupted'
          /\ UNCHANGED <<waiting, message_queue>>
    BY <1>4 DEF InterruptSet, Goto
  <2> QED BY <1>1, <1>2, <2>1
<1>5. CASE InterruptNotify
  BY <1>5 DEF InterruptNotify, NotifyAll
<1> QED BY <1>3, <1>4, <1>5 DEF Interrupter

LEMMA ConsumerStep ==
    ASSUME IInv, TypeOK', NEW c \in Consumers, Consumer(c)
    PROVE  WaitingWaits' /\ NoLostWakeup'
<1> USE DEF IInv, WaitingWaits, NoLostWakeup, Awake
<1>1. c \in Threads /\ c # Closer /\ c \notin Producers
        /\ Closer \in Threads /\ Consumers \subseteq Threads
        /\ Producers \subseteq Threads
  BY DEF Threads
<1>2. waiting \subseteq Consumers /\ pc \in [Threads -> PCs]
  BY DEF TypeOK
<1>3. CASE PopLock(c)
  <2>1. pc' = [pc EXCEPT ![c] = "test"] /\ pc[c] \in {"pop", "relock"}
          /\ UNCHANGED <<waiting, interrupted, message_queue>>
    BY <1>3 DEF PopLock, Goto
  <2> QED BY <1>1, <1>2, <2>1
<1>4. CASE PopWait(c)
  <2>1. pc' = [pc EXCEPT ![c] = "wait"] /\ waiting' = waiting \cup {c}
          /\ message_queue' = <<>> /\ ~interrupted'
    BY <1>4 DEF PopWait, Goto
  <2> QED BY <1>1, <1>2, <2>1
<1>5. CASE PopInterrupted(c)
  <2>1. pc' = [pc EXCEPT ![c] = "ended"] /\ pc[c] = "test" /\ interrupted'
          /\ UNCHANGED <<waiting, interrupted, message_queue>>
    BY <1>5 DEF PopInterrupted, Goto, TypeOK
  <2> QED BY <1>1, <1>2, <2>1
<1>6. CASE PopMessage(c)
  <2>1. pc' = [pc EXCEPT ![c] = "pop"] /\ pc[c] = "test"
          /\ UNCHANGED <<waiting, interrupted>>
    BY <1>6 DEF PopMessage, Goto
  <2> QED BY <1>1, <1>2, <2>1
<1>7. CASE SpuriousWakeup(c)
  <2>1. pc' = [pc EXCEPT ![c] = "relock"] /\ waiting' = waiting \ {c}
          /\ UNCHANGED <<interrupted, message_queue>>
    BY <1>7 DEF SpuriousWakeup, Goto
  <2> QED BY <1>1, <1>2, <2>1
<1> QED BY <1>3, <1>4, <1>5, <1>6, <1>7 DEF Consumer, Test

LEMMA InitInv == Init => IInv
<1> SUFFICES ASSUME Init PROVE IInv
  OBVIOUS
<1>1. waiting = {} /\ message_queue = <<>> /\ delivered = <<>>
        /\ interrupted = FALSE /\ mutex = NoThread /\ unsent = Messages
  BY DEF Init
<1>2. pc \in [Threads -> PCs]
  BY DEF Init, PCs
<1>3. TypeOK
  <2>1. <<>> \in Seq(Messages)
    OBVIOUS
  <2>2. message_queue \in Seq(Messages) /\ delivered \in Seq(Messages)
    BY <1>1, <2>1
  <2>3. /\ interrupted \in BOOLEAN /\ mutex \in Threads \cup {NoThread}
        /\ waiting \subseteq Consumers /\ unsent \subseteq Messages
    BY <1>1
  <2> QED BY <1>2, <2>2, <2>3 DEF TypeOK
<1>4. WaitingWaits /\ NoLostWakeup
  BY <1>1 DEF WaitingWaits, NoLostWakeup
<1> QED BY <1>3, <1>4 DEF IInv

LEMMA NextInv == IInv /\ [Next]_vars => IInv'
<1> SUFFICES ASSUME IInv, [Next]_vars PROVE IInv'
  OBVIOUS
<1>1. TypeOK'
  BY TypeStep DEF IInv
<1>2. CASE Next
  BY <1>1, <1>2, ProducerStep, InterrupterStep, ConsumerStep DEF Next, IInv
<1>3. CASE UNCHANGED vars
  BY <1>1, <1>3 DEF vars, IInv, WaitingWaits, NoLostWakeup, Awake
<1> QED BY <1>2, <1>3

\* No message and no interrupt is left for a sleeping consumer to miss,
\* whatever the number of threads: the loop around wait() and the order of
\* unlock and notify in queue_message and interrupt are right.
THEOREM WakeupsNotLost == Spec => []NoLostWakeup
<1>1. IInv => NoLostWakeup
  BY DEF IInv
<1> QED BY <1>1, InitInv, NextInv, PTL DEF Spec

\* Every variable keeps its type.
THEOREM TypeCorrect == Spec => []TypeOK
<1>1. IInv => TypeOK
  BY DEF IInv
<1> QED BY <1>1, InitInv, NextInv, PTL DEF Spec

-----------------------------------------------------------------------------
(* The queue implements MessageChannel.                                    *)

LEMMA StepRefines ==
    TypeOK /\ [Next]_vars => [Channel!Next]_(Channel!vars)
<1> SUFFICES ASSUME TypeOK, [Next]_vars
             PROVE  [Channel!Next]_(Channel!vars)
  OBVIOUS
<1> USE DEF Channel!Next, Channel!vars
<1>1. ASSUME NEW p \in Producers, QueuePush(p)
      PROVE  Channel!Next
  <2>1. PICK m \in unsent : message_queue' = Append(message_queue, m)
    BY <1>1 DEF QueuePush
  <2>2. m \in Messages
    BY <2>1 DEF TypeOK
  <2>3. Channel!Put(m)
    BY <1>1, <2>1 DEF QueuePush, Channel!Put
  <2> QED BY <2>2, <2>3
<1>2. ASSUME NEW p \in Producers, QueueLock(p) \/ QueueNotify(p)
      PROVE  UNCHANGED Channel!vars
  BY <1>2 DEF QueueLock, QueueNotify
<1>3. CASE Interrupter
  <2>1. InterruptSet => Channel!Interrupt
    BY DEF InterruptSet, Channel!Interrupt
  <2>2. InterruptLock \/ InterruptNotify => UNCHANGED Channel!vars
    BY DEF InterruptLock, InterruptNotify
  <2> QED BY <1>3, <2>1, <2>2 DEF Interrupter
<1>4. ASSUME NEW c \in Consumers, PopMessage(c)
      PROVE  Channel!Deliver
  BY <1>4 DEF PopMessage, Channel!Deliver
<1>5. ASSUME NEW c \in Consumers,
             PopLock(c) \/ PopWait(c) \/ PopInterrupted(c)
               \/ SpuriousWakeup(c)
      PROVE  UNCHANGED Channel!vars
  BY <1>5 DEF PopLock, PopWait, PopInterrupted, SpuriousWakeup
<1>6. UNCHANGED vars => UNCHANGED Channel!vars
  BY DEF vars
<1> QED BY <1>1, <1>2, <1>3, <1>4, <1>5, <1>6
        DEF Next, Producer, Consumer, Test

\* Messages come out in the order they went in, each once, and none after an
\* interrupt, for any number of threads.
THEOREM QueueIsChannel == Spec => ChannelSpec
<1>1. Init => Channel!Init
  BY DEF Init, Channel!Init
<1>2. Spec => []TypeOK
  BY TypeCorrect
<1>3. TypeOK /\ [Next]_vars => [Channel!Next]_(Channel!vars)
  BY StepRefines
<1> QED BY <1>1, <1>2, <1>3, PTL DEF Spec, ChannelSpec, Channel!Spec

=============================================================================
