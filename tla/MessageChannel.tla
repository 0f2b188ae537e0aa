--------------------------- MODULE MessageChannel ---------------------------
(***************************************************************************)
(* What a message queue between threads promises: messages are handed out  *)
(* in the order they were put in, each once, until it is interrupted; from *)
(* then on nothing is handed out any more.                                 *)
(***************************************************************************)
EXTENDS Sequences

CONSTANT Messages

VARIABLES
    queue,          \* what has been put in and not yet handed out
    interrupted,    \* whether the queue has been told to stop
    delivered       \* everything handed out, in order

vars == <<queue, interrupted, delivered>>

Init ==
    /\ queue = <<>>
    /\ interrupted = FALSE
    /\ delivered = <<>>

Put(m) ==
    /\ queue' = Append(queue, m)
    /\ UNCHANGED <<interrupted, delivered>>

Deliver ==
    /\ ~interrupted
    /\ queue # <<>>
    /\ delivered' = Append(delivered, Head(queue))
    /\ queue' = Tail(queue)
    /\ UNCHANGED interrupted

Interrupt ==
    /\ interrupted' = TRUE
    /\ UNCHANGED <<queue, delivered>>

Next == (\E m \in Messages : Put(m)) \/ Deliver \/ Interrupt

Spec == Init /\ [][Next]_vars

\* While it is not interrupted, the reader gets what is there.
FairSpec == Spec /\ WF_vars(Deliver)
=============================================================================
