------------------------- MODULE AsyncMessageQueue -------------------------
(***************************************************************************)
(* class AsyncMessageQueue: a std::queue, a mutex, a condition variable    *)
(* and a flag.  Any number of threads put messages in; the reading threads *)
(* run the loop of consume_input_queue_thread and                          *)
(* consume_output_queue_thread around pop_message.                         *)
(***************************************************************************)
EXTENDS Sequences, FiniteSets, Naturals

CONSTANTS
    Producers,      \* threads that call queue_message
    Consumers,      \* threads that call pop_message in a loop
    Closer,         \* the thread that calls interrupt
    NoThread,       \* the mutex is free
    Messages        \* the messages; each is queued at most once

Threads == Producers \cup Consumers \cup {Closer}

ASSUME DistinctThreads ==
    /\ Producers \cap Consumers = {}
    /\ Closer \notin Producers \cup Consumers
    /\ NoThread \notin Threads

VARIABLES
    message_queue,
    interrupted,
    mutex,          \* who holds queue_mutex
    waiting,        \* the consumers blocked in message_ready.wait
    pc,
    unsent,         \* messages nobody has queued yet
    delivered       \* what pop_message has returned, in order

vars == <<message_queue, interrupted, mutex, waiting, pc, unsent, delivered>>

PCs == {"idle", "locked", "notify", "pop", "test", "wait", "relock", "ended"}

TypeOK ==
    /\ message_queue \in Seq(Messages)
    /\ interrupted \in BOOLEAN
    /\ mutex \in Threads \cup {NoThread}
    /\ waiting \subseteq Consumers
    /\ pc \in [Threads -> PCs]
    /\ unsent \subseteq Messages
    /\ delivered \in Seq(Messages)

Init ==
    /\ message_queue = <<>>
    /\ interrupted = FALSE
    /\ mutex = NoThread
    /\ waiting = {}
    /\ pc = [t \in Threads |-> IF t \in Consumers THEN "pop" ELSE "idle"]
    /\ unsent = Messages
    /\ delivered = <<>>

-----------------------------------------------------------------------------
Goto(t, l) == pc' = [pc EXCEPT ![t] = l]

Acquire(t) == mutex = NoThread /\ mutex' = t

\* mutants: a queued message, or an interrupt, wakes nobody
NotifyOne_Forgotten(p) == UNCHANGED waiting /\ Goto(p, "idle")
NotifyAll_Forgotten(t) == UNCHANGED waiting /\ Goto(t, "ended")

\* message_ready.notify_one: wakes one waiter, if there is any
NotifyOne(p) ==
    IF waiting = {}
    THEN UNCHANGED waiting /\ Goto(p, "idle")
    ELSE \E c \in waiting :
           /\ waiting' = waiting \ {c}
           /\ pc' = [pc EXCEPT ![p] = "idle", ![c] = "relock"]

\* message_ready.notify_all
NotifyAll(t) ==
    /\ waiting' = {}
    /\ pc' = [x \in Threads |-> IF x = t THEN "ended"
                                ELSE IF x \in waiting THEN "relock" ELSE pc[x]]

\* queue_message
QueueLock(p) ==
    /\ pc[p] = "idle"
    /\ unsent # {}
    /\ Acquire(p)
    /\ Goto(p, "locked")
    /\ UNCHANGED <<message_queue, interrupted, waiting, unsent, delivered>>

QueuePush(p) ==
    /\ pc[p] = "locked"
    /\ \E m \in unsent : /\ message_queue' = Append(message_queue, m)
                         /\ unsent' = unsent \ {m}
    /\ mutex' = NoThread
    /\ Goto(p, "notify")
    /\ UNCHANGED <<interrupted, waiting, delivered>>

QueueNotify(p) ==
    /\ pc[p] = "notify"
    /\ NotifyOne(p)
    /\ UNCHANGED <<message_queue, interrupted, mutex, unsent, delivered>>

\* interrupt
InterruptLock ==
    /\ pc[Closer] = "idle"
    /\ Acquire(Closer)
    /\ Goto(Closer, "locked")
    /\ UNCHANGED <<message_queue, interrupted, waiting, unsent, delivered>>

InterruptSet ==
    /\ pc[Closer] = "locked"
    /\ interrupted' = TRUE
    /\ mutex' = NoThread
    /\ Goto(Closer, "notify")
    /\ UNCHANGED <<message_queue, waiting, unsent, delivered>>

InterruptNotify ==
    /\ pc[Closer] = "notify"
    /\ NotifyAll(Closer)
    /\ UNCHANGED <<message_queue, interrupted, mutex, unsent, delivered>>

-----------------------------------------------------------------------------
\* pop_message: take the lock, for the first time or after a wake-up
PopLock(c) ==
    /\ pc[c] \in {"pop", "relock"}
    /\ Acquire(c)
    /\ Goto(c, "test")
    /\ UNCHANGED <<message_queue, interrupted, waiting, unsent, delivered>>

\* mutant: the test of the flag is left to the code after the loop
PopWait_IgnoresInterrupt(c) ==
    /\ pc[c] = "test"
    /\ message_queue = <<>>
    /\ waiting' = waiting \cup {c}
    /\ mutex' = NoThread
    /\ Goto(c, "wait")
    /\ UNCHANGED <<message_queue, interrupted, unsent, delivered>>

\* nothing to return yet: wait, which releases the lock
PopWait(c) ==
    /\ pc[c] = "test"
    /\ message_queue = <<>>
    /\ ~interrupted
    /\ waiting' = waiting \cup {c}
    /\ mutex' = NoThread
    /\ Goto(c, "wait")
    /\ UNCHANGED <<message_queue, interrupted, unsent, delivered>>

\* a condition variable may wake a waiter for no reason
SpuriousWakeup(c) ==
    /\ c \in waiting
    /\ waiting' = waiting \ {c}
    /\ Goto(c, "relock")
    /\ UNCHANGED <<message_queue, interrupted, mutex, unsent, delivered>>

\* the empty string, on which the loop of the consumer ends
PopInterrupted(c) ==
    /\ pc[c] = "test"
    /\ interrupted
    /\ mutex' = NoThread
    /\ Goto(c, "ended")
    /\ UNCHANGED <<message_queue, interrupted, waiting, unsent, delivered>>

\* mutant: the queue is not tested again after a wake-up; what the front of
\* an empty queue holds is not a message
PopMessage_NoLoop(c) ==
    /\ pc[c] = "test"
    /\ ~interrupted
    /\ delivered' = Append(delivered, IF message_queue = <<>> THEN NoThread
                                      ELSE Head(message_queue))
    /\ message_queue' = IF message_queue = <<>> THEN <<>>
                        ELSE Tail(message_queue)
    /\ mutex' = NoThread
    /\ Goto(c, "pop")
    /\ UNCHANGED <<interrupted, waiting, unsent>>

PopMessage(c) ==
    /\ pc[c] = "test"
    /\ message_queue # <<>>
    /\ ~interrupted
    /\ delivered' = Append(delivered, Head(message_queue))
    /\ message_queue' = Tail(message_queue)
    /\ mutex' = NoThread
    /\ Goto(c, "pop")
    /\ UNCHANGED <<interrupted, waiting, unsent>>

-----------------------------------------------------------------------------
Producer(p)  == QueueLock(p) \/ QueuePush(p) \/ QueueNotify(p)
Interrupter  == InterruptLock \/ InterruptSet \/ InterruptNotify
Test(c)      == PopWait(c) \/ PopInterrupted(c) \/ PopMessage(c)
Consumer(c)  == PopLock(c) \/ Test(c) \/ SpuriousWakeup(c)

Next ==
    \/ \E p \in Producers : Producer(p)
    \/ Interrupter
    \/ \E c \in Consumers : Consumer(c)

Spec == Init /\ [][Next]_vars

\* Threads run: whoever holds the lock or is about to notify goes on, and a
\* reader takes a lock that stays free.  Nobody has to queue a message or to
\* interrupt, and no spurious wake-up is owed to anyone.
Fairness ==
    /\ \A p \in Producers : WF_vars(QueuePush(p)) /\ WF_vars(QueueNotify(p))
    /\ WF_vars(InterruptSet) /\ WF_vars(InterruptNotify)
    /\ \A c \in Consumers : WF_vars(PopLock(c)) /\ WF_vars(Test(c))

FairSpec == Spec /\ Fairness

-----------------------------------------------------------------------------
\* A consumer sleeps on a queue with something to return only while a thread
\* is on its way to wake one, or another consumer is awake and will look.
Awake == {c \in Consumers : pc[c] \in {"pop", "test", "relock"}}

NoLostWakeup ==
    waiting # {} =>
      /\ interrupted => pc[Closer] = "notify"
      /\ message_queue # <<>> /\ ~interrupted =>
           Awake # {} \/ \E p \in Producers : pc[p] = "notify"

\* Once interrupted, every consumer's loop ends: end() can join its thread.
InterruptEnds ==
    \A c \in Consumers : interrupted ~> pc[c] = "ended"

\* The queue keeps the promise of MessageChannel, in order and in the end.
Channel == INSTANCE MessageChannel WITH queue <- message_queue
ChannelSpec == Channel!Spec
ChannelFairSpec == Channel!FairSpec
=============================================================================
