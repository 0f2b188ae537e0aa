-------------------------- MODULE TwoWayPipeProofs --------------------------
(***************************************************************************)
(* Proofs about TwoWayPipe, for any messages: each that has been sent is   *)
(* in one place and is dispatched once at most, and zeros are dispatched   *)
(* only after the sender's process has ended.                              *)
(***************************************************************************)
EXTENDS TwoWayPipe, FiniteSetTheorems, TLAPS

(***************************************************************************)
(* The inductive invariant.  It follows each message by where its two ends *)
(* of the connection are and in which queues it is.                        *)
(***************************************************************************)
Held(o) == output[o].pc \in {"open", "busy", "write", "close"}

Opening(m) == output[From[m]].pc \in {"open", "busy"} /\ output[From[m]].msg = m
Writing(m) == output[From[m]].pc = "write" /\ output[From[m]].msg = m
Closing(m) == output[From[m]].pc = "close" /\ output[From[m]].msg = m

Queued(m)   == m \in Elements(output_queue[From[m]])
Received(m) == m \in Elements(input_queue[To(m)])
Called(m)   == m \in Elements(dispatched[To(m)])
Pending(m)  == server[To(m)].inst = m

Once(q) == \A i, j \in DOMAIN q : q[i] = q[j] /\ q[i] # Garbage => i = j

\* What an object holds is its own.
Own ==
    \A o \in Objects :
      /\ Held(o) => output[o].msg \in Messages /\ From[output[o].msg] = o
      /\ Elements(output_queue[o]) \subseteq {m \in Messages : From[m] = o}
      /\ Elements(input_queue[o]) \subseteq {m \in Messages : To(m) = o} \cup {Garbage}
      /\ server[o].inst \in Messages => To(server[o].inst) = o
      /\ server[o].pc \in {"listen", "connect", "clear", "hand"}
           => server[o].inst # NoMessage

NoTwice ==
    \A o \in Objects : /\ Once(output_queue[o]) /\ Once(input_queue[o])
                       /\ Once(dispatched[o])

\* The sender of a message and its end of the connection
SentRight(m) ==
    /\ Queued(m) \/ Opening(m) => client[m] = "none"
    /\ Queued(m) => ~Opening(m)
    /\ Writing(m) => client[m] \notin {"none", "written", "closed"}
    /\ Writing(m) /\ alive[From[m]] => client[m] = "open"
    /\ Closing(m) /\ alive[From[m]] => client[m] = "written"
    /\ client[m] = "broken" => ~alive[From[m]]
    /\ m \in dropped => ~Queued(m) /\ ~Opening(m) /\ ~Writing(m)
    /\ m \in sent => \/ Queued(m) \/ Opening(m) \/ Writing(m)
                     \/ Arrived(m) \/ m \in dropped
    /\ Queued(m) \/ Opening(m) \/ client[m] # "none" \/ m \in dropped => m \in sent

\* and the receiver's
ReadRight(m) ==
    /\ Received(m) \/ Called(m) <=> Arrived(m) /\ Read(m)
    /\ ~(Received(m) /\ Called(m))
    /\ m \in dropped /\ Arrived(m) => handler[m] = "none" /\ ~Pending(m)
    /\ Pending(m) => handler[m] = "none" /\ client[m] # "none"
    /\ handler[m] # "none" => client[m] # "none"
    /\ Read(m) => Arrived(m) \/ client[m] = "broken"

Zeros ==
    \A o \in Objects :
      Garbage \in Elements(input_queue[o]) \cup Elements(dispatched[o])
        => ~alive[Peer(o)]

IInv == /\ TypeOK /\ Own /\ NoTwice /\ Zeros
        /\ \A m \in Messages : SentRight(m) /\ ReadRight(m)

-----------------------------------------------------------------------------
(* The two ends, and the queues.                                           *)

\* There are two objects, each the peer of the other.
LEMMA Peers ==
    /\ \A o \in Objects : /\ Peer(o) \in Objects /\ Peer(o) # o
                          /\ Peer(Peer(o)) = o
                          /\ \A p \in Objects : p = o \/ p = Peer(o)
    /\ \A m \in Messages : /\ From[m] \in Objects /\ To(m) \in Objects
                           /\ To(m) = Peer(From[m])
<1>1. PICK a, b \in Objects : a # b /\ Objects = {a, b}
  BY PipeAssumption
<1>2. Peer(a) = b /\ Peer(b) = a
  BY <1>1 DEF Peer
<1> QED BY <1>1, <1>2, PipeAssumption DEF To

\* What is appended to a queue is in it, after what was.
LEMMA AppendElements ==
    ASSUME NEW S, NEW q \in Seq(S), NEW x \in S
    PROVE  /\ Append(q, x) \in Seq(S)
           /\ Elements(Append(q, x)) = Elements(q) \cup {x}
           /\ Once(q) /\ (x = Garbage \/ x \notin Elements(q))
                => Once(Append(q, x))
<1> DEFINE a == Append(q, x)
<1>1. /\ a \in Seq(S) /\ Len(q) \in Nat /\ Len(a) = Len(q) + 1
      /\ DOMAIN q = 1..Len(q) /\ DOMAIN a = 1..(Len(q) + 1)
      /\ \A i \in 1..Len(q) : a[i] = q[i]
      /\ a[Len(q) + 1] = x
  OBVIOUS
<1> HIDE DEF a
<1>2. Elements(a) = Elements(q) \cup {x}
  <2>1. \A i \in 1..(Len(q) + 1) : i \in 1..Len(q) \/ i = Len(q) + 1
    BY <1>1
  <2>2. 1..Len(q) \subseteq 1..(Len(q) + 1) /\ Len(q) + 1 \in 1..(Len(q) + 1)
    BY <1>1
  <2> QED BY <1>1, <2>1, <2>2, Zenon DEF Elements
<1>3. ASSUME Once(q), x = Garbage \/ x \notin Elements(q)
      PROVE  Once(a)
  <2> SUFFICES ASSUME NEW i \in DOMAIN a, NEW j \in DOMAIN a,
                      a[i] = a[j], a[i] # Garbage
               PROVE  i = j
    BY DEF Once
  <2>1. CASE i \in 1..Len(q) /\ j \in 1..Len(q)
    BY <1>1, <1>3, <2>1 DEF Once
  <2>2. CASE i = Len(q) + 1 /\ j \in 1..Len(q)
    BY <1>1, <1>3, <2>2 DEF Elements
  <2>3. CASE j = Len(q) + 1 /\ i \in 1..Len(q)
    BY <1>1, <1>3, <2>3 DEF Elements
  <2> QED BY <1>1, <2>1, <2>2, <2>3
<1> QED BY <1>1, <1>2, <1>3 DEF a

\* The front of a queue is in it, and after it has been taken off the others
\* are what is left.
LEMMA TailElements ==
    ASSUME NEW S, NEW q \in Seq(S), q # <<>>
    PROVE  /\ Tail(q) \in Seq(S) /\ Head(q) \in S /\ Head(q) \in Elements(q)
           /\ Elements(Tail(q)) \subseteq Elements(q)
           /\ \A x \in Elements(q) : x # Head(q) => x \in Elements(Tail(q))
           /\ Once(q) => Once(Tail(q))
           /\ Once(q) /\ Head(q) # Garbage => Head(q) \notin Elements(Tail(q))
<1> DEFINE t == Tail(q)
<1>1. /\ t \in Seq(S) /\ Len(q) \in Nat \ {0} /\ Len(t) = Len(q) - 1
      /\ DOMAIN q = 1..Len(q) /\ DOMAIN t = 1..(Len(q) - 1)
      /\ \A i \in 1..(Len(q) - 1) : t[i] = q[i + 1]
      /\ Head(q) = q[1] /\ Head(q) \in S
  OBVIOUS
<1> HIDE DEF t
<1>2. \A i \in DOMAIN t : i + 1 \in DOMAIN q /\ i \in Nat
  BY <1>1
<1>3. 1 \in DOMAIN q /\ Head(q) \in Elements(q)
  BY <1>1 DEF Elements
<1>4. Elements(t) \subseteq Elements(q)
  BY <1>1, <1>2 DEF Elements
<1>5. \A x \in Elements(q) : x # Head(q) => x \in Elements(t)
  <2> SUFFICES ASSUME NEW i \in DOMAIN q, q[i] # Head(q)
               PROVE  q[i] \in Elements(t)
    BY DEF Elements
  <2>1. i - 1 \in DOMAIN t /\ t[i - 1] = q[i]
    BY <1>1
  <2> QED BY <2>1 DEF Elements
<1>6. Once(q) => Once(t)
  BY <1>1, <1>2 DEF Once
<1>7. Once(q) /\ Head(q) # Garbage => Head(q) \notin Elements(t)
  <2> SUFFICES ASSUME Once(q), Head(q) # Garbage, NEW i \in DOMAIN t,
                      t[i] = Head(q)
               PROVE  FALSE
    BY DEF Elements
  <2>1. q[i + 1] = q[1] /\ i + 1 # 1
    BY <1>1, <1>2
  <2> QED BY <1>1, <1>2, <1>3, <2>1 DEF Once
<1> QED BY <1>1, <1>3, <1>4, <1>5, <1>6, <1>7 DEF t

\* The threads of an object move one at a time.
LEMMA Goto ==
    ASSUME TypeOK, NEW o \in Objects
    PROVE  /\ \A l \in {"check", "pop", "open", "busy", "write", "close", "ended"} :
                OutputGoto(o, l) =>
                  /\ output' \in [Objects -> Outputs]
                  /\ output'[o].pc = l /\ output'[o].msg = output[o].msg
                  /\ \A p \in Objects \ {o} : output'[p] = output[p]
           /\ \A l \in {"check", "create", "listen", "connect", "clear", "hand",
                        "ended"} :
                ServerGoto(o, l) =>
                  /\ server' \in [Objects -> Servers]
                  /\ server'[o].pc = l /\ server'[o].inst = server[o].inst
                  /\ server'[o].connected = server[o].connected
                  /\ \A p \in Objects \ {o} : server'[p] = server[p]
<1>1. output[o] \in Outputs /\ server[o] \in Servers
  BY DEF TypeOK
<1>2. ASSUME NEW l \in {"check", "pop", "open", "busy", "write", "close", "ended"},
             OutputGoto(o, l)
      PROVE  /\ output' \in [Objects -> Outputs]
             /\ output'[o].pc = l /\ output'[o].msg = output[o].msg
             /\ \A p \in Objects \ {o} : output'[p] = output[p]
  <2>1. output' = [output EXCEPT ![o] = [output[o] EXCEPT !.pc = l]]
    BY <1>2 DEF OutputGoto
  <2>2. [output[o] EXCEPT !.pc = l] \in Outputs
    BY <1>1 DEF Outputs
  <2>3. /\ [output[o] EXCEPT !.pc = l].pc = l
        /\ [output[o] EXCEPT !.pc = l].msg = output[o].msg
    BY <1>1 DEF Outputs
  <2> QED BY <2>1, <2>2, <2>3 DEF TypeOK
<1>3. ASSUME NEW l \in {"check", "create", "listen", "connect", "clear", "hand",
                        "ended"},
             ServerGoto(o, l)
      PROVE  /\ server' \in [Objects -> Servers]
             /\ server'[o].pc = l /\ server'[o].inst = server[o].inst
             /\ server'[o].connected = server[o].connected
             /\ \A p \in Objects \ {o} : server'[p] = server[p]
  <2>1. server' = [server EXCEPT ![o] = [server[o] EXCEPT !.pc = l]]
    BY <1>3 DEF ServerGoto
  <2>2. [server[o] EXCEPT !.pc = l] \in Servers
    BY <1>1 DEF Servers
  <2>3. /\ [server[o] EXCEPT !.pc = l].pc = l
        /\ [server[o] EXCEPT !.pc = l].inst = server[o].inst
        /\ [server[o] EXCEPT !.pc = l].connected = server[o].connected
    BY <1>1 DEF Servers
  <2> QED BY <2>1, <2>2, <2>3 DEF TypeOK
<1> QED BY <1>2, <1>3
-----------------------------------------------------------------------------
(* Types.                                                                  *)

LEMMA TypeInit == Init => TypeOK
<1>1. /\ [pc |-> "check", msg |-> NoMessage] \in Outputs
      /\ [pc |-> "check", inst |-> NoMessage, connected |-> FALSE] \in Servers
  BY DEF Outputs, Servers
<1>2. <<>> \in Seq(Messages) /\ <<>> \in Seq(Messages \cup {Garbage})
  OBVIOUS
<1> QED BY <1>1, <1>2 DEF Init, TypeOK

LEMMA OutputTypes ==
    ASSUME TypeOK, Own, NEW o \in Objects, OutputThread(o)
    PROVE  TypeOK'
<1> USE DEF outs, ins, ends
<1>0. /\ Held(o) => output[o].msg \in Messages
      /\ OutputAt(o, "open") \/ OutputAt(o, "busy") \/ OutputAt(o, "write")
           \/ OutputAt(o, "close") => Held(o)
      /\ Peer(o) \in Objects /\ output[o] \in Outputs
  BY Peers DEF TypeOK, Own, Held, OutputAt
<1>1. CASE OutputCheck(o)
  BY <1>1, Goto DEF OutputCheck, TypeOK
<1>2. CASE OutputPop(o)
  <2>1. CASE output_interrupted[o]
    BY <1>2, <2>1, Goto DEF OutputPop, TypeOK
  <2>2. CASE ~output_interrupted[o]
    <3> DEFINE q == output_queue[o]
    <3>1. /\ q \in Seq(Messages) /\ q # <<>>
          /\ output_queue' = [output_queue EXCEPT ![o] = Tail(q)]
          /\ output' = [output EXCEPT ![o] = [pc |-> "open", msg |-> Head(q)]]
      BY <1>2, <2>2 DEF OutputPop, TypeOK
    <3>2. Tail(q) \in Seq(Messages) /\ Head(q) \in Messages
      BY <3>1
    <3>3. [pc |-> "open", msg |-> Head(q)] \in Outputs
      BY <3>2 DEF Outputs
    <3> HIDE DEF q
    <3>4. /\ output_queue' \in [Objects -> Seq(Messages)]
          /\ output' \in [Objects -> Outputs]
      BY <3>1, <3>2, <3>3 DEF TypeOK
    <3> QED BY <1>2, <3>4 DEF OutputPop, TypeOK
  <2> QED BY <2>1, <2>2
<1>3. CASE OpenPipe(o)
  <2>1. output' \in [Objects -> Outputs]
    BY <1>3, Goto DEF OpenPipe
  <2>2. [server[Peer(o)] EXCEPT !.inst = output[o].msg] \in Servers
    <3>1. server[Peer(o)] \in Servers /\ output[o].msg \in Messages
      BY <1>0, <1>3 DEF OpenPipe, TypeOK
    <3> QED BY <3>1 DEF Servers
  <2>3. server' \in [Objects -> Servers]
    BY <1>0, <1>3, <2>2 DEF OpenPipe, TypeOK
  <2> QED BY <1>0, <1>3, <2>1, <2>3 DEF OpenPipe, TypeOK
<1>4. CASE OpenFails(o)
  BY <1>0, <1>4, Goto DEF OpenFails, GiveUpMessage, TypeOK
<1>5. CASE OpenBusy(o)
  BY <1>5, Goto DEF OpenBusy, TypeOK
<1>6. CASE WaitPipe(o)
  BY <1>0, <1>6, Goto DEF WaitPipe, GiveUpMessage, TypeOK
<1>7. CASE WritePipe(o)
  BY <1>0, <1>7, Goto DEF WritePipe, TypeOK
<1>8. CASE WriteFails(o)
  BY <1>0, <1>8, Goto DEF WriteFails, WriteFailure, GiveUpMessage, TypeOK
<1>9. CASE ClosePipe(o)
  BY <1>0, <1>9, Goto DEF ClosePipe, TypeOK
<1> QED BY <1>1, <1>2, <1>3, <1>4, <1>5, <1>6, <1>7, <1>8, <1>9 DEF OutputThread

LEMMA ServerTypes ==
    ASSUME TypeOK, Own, NEW o \in Objects, ServerThread(o)
    PROVE  TypeOK'
<1> USE DEF outs, ins, ends
<1>0. server[o] \in Servers
  BY DEF TypeOK
<1>1. CASE ServerCheck(o)
  BY <1>1, Goto DEF ServerCheck, TypeOK
<1>2. CASE CreateInstance(o)
  <2>1. [server[o] EXCEPT !.pc = "listen", !.inst = Listening] \in Servers
    BY <1>0 DEF Servers
  <2>2. server' \in [Objects -> Servers]
    BY <1>2, <2>1 DEF CreateInstance, TypeOK
  <2> QED BY <1>2, <2>2 DEF CreateInstance, TypeOK
<1>3. CASE CreateFails(o)
  BY <1>3, Goto DEF CreateFails, TypeOK
<1>4. CASE CallConnect(o)
  <2>1. \A l \in {"connect", "clear"}, c \in BOOLEAN :
          [server[o] EXCEPT !.pc = l, !.connected = c] \in Servers
    BY <1>0 DEF Servers
  <2>2. server' \in [Objects -> Servers]
    BY <1>4, <2>1 DEF CallConnect, TypeOK
  <2> QED BY <1>4, <2>2 DEF CallConnect, TypeOK
<1>5. CASE Connected(o)
  <2>1. [server[o] EXCEPT !.pc = "clear", !.connected = TRUE] \in Servers
    BY <1>0 DEF Servers
  <2>2. server' \in [Objects -> Servers]
    BY <1>5, <2>1 DEF Connected, TypeOK
  <2> QED BY <1>5, <2>2 DEF Connected, TypeOK
<1>6. CASE ClearHandle(o)
  BY <1>6, Goto DEF ClearHandle, TypeOK
<1>7. CASE StartHandler(o) \/ CloseInstance(o)
  <2>1. [server[o] EXCEPT !.pc = "check", !.inst = NoMessage] \in Servers
    BY <1>0 DEF Servers
  <2>2. server' \in [Objects -> Servers]
    BY <1>7, <2>1 DEF StartHandler, CloseInstance, TypeOK
  <2>3. CASE StartHandler(o)
    BY <2>2, <2>3 DEF StartHandler, TypeOK
  <2>4. CASE CloseInstance(o)
    <3>1. server[o].inst # Listening /\ Arrived(server[o].inst) /\ ServerAt(o, "hand")
            => server[o].inst \in Messages
      BY <1>0 DEF Servers, Own, ServerAt
    <3> QED BY <2>2, <2>4, <3>1 DEF CloseInstance, TypeOK
  <2> QED BY <1>7, <2>3, <2>4
<1> QED BY <1>1, <1>2, <1>3, <1>4, <1>5, <1>6, <1>7 DEF ServerThread

LEMMA ReaderTypes ==
    ASSUME TypeOK,
           \/ \E o \in Objects : InputThread(o)
           \/ \E m \in Messages : HandlerThread(m)
    PROVE  TypeOK'
<1> USE DEF outs, ins, ends
<1>1. ASSUME NEW o \in Objects, InputCheck(o)
      PROVE  TypeOK'
  BY <1>1 DEF InputCheck, TypeOK
<1>2. ASSUME NEW o \in Objects, InputPop(o)
      PROVE  TypeOK'
  <2>1. CASE input_interrupted[o]
    BY <1>2, <2>1 DEF InputPop, TypeOK
  <2>2. CASE ~input_interrupted[o]
    <3> DEFINE G == Messages \cup {Garbage}
               q == input_queue[o]
               d == dispatched[o]
    <3>1. /\ q \in Seq(G) /\ d \in Seq(G) /\ q # <<>>
          /\ input_queue' = [input_queue EXCEPT ![o] = Tail(q)]
          /\ dispatched' = [dispatched EXCEPT ![o] = Append(d, Head(q))]
          /\ dispatched \in [Objects -> Seq(G)] /\ input_queue \in [Objects -> Seq(G)]
      BY <1>2, <2>2 DEF InputPop, TypeOK
    <3> HIDE DEF G, q, d
    <3>2. Tail(q) \in Seq(G) /\ Append(d, Head(q)) \in Seq(G)
      BY <3>1
    <3>3. input_queue' \in [Objects -> Seq(G)] /\ dispatched' \in [Objects -> Seq(G)]
      BY <3>1, <3>2
    <3> QED BY <1>2, <2>2, <3>3 DEF InputPop, TypeOK, G
  <2> QED BY <2>1, <2>2
<1>3. ASSUME NEW m \in Messages, HandleConnection(m)
      PROVE  TypeOK'
  <2> DEFINE G == Messages \cup {Garbage}
             x == IF Arrived(m) THEN m ELSE Garbage
             q == input_queue[To(m)]
  <2>1. /\ x \in G /\ q \in Seq(G) /\ To(m) \in Objects
        /\ input_queue' = [input_queue EXCEPT ![To(m)] = Append(q, x)]
        /\ input_queue \in [Objects -> Seq(G)]
    BY <1>3, Peers DEF HandleConnection, TypeOK
  <2> HIDE DEF G, q, x
  <2>2. Append(q, x) \in Seq(G)
    BY <2>1
  <2>3. input_queue' \in [Objects -> Seq(G)]
    BY <2>1, <2>2
  <2> QED BY <1>3, <2>3 DEF HandleConnection, TypeOK, G
<1>4. ASSUME NEW m \in Messages, CloseConnection(m)
      PROVE  TypeOK'
  BY <1>4 DEF CloseConnection, TypeOK
<1> QED BY <1>1, <1>2, <1>3, <1>4 DEF InputThread, HandlerThread

LEMMA EndTypes ==
    ASSUME TypeOK, NEW o \in Objects, End(o) \/ EndThread(o) \/ Die(o)
    PROVE  TypeOK'
<1> USE DEF outs, ins, ends
<1>1. CASE End(o)
  BY <1>1 DEF End, EnderGoto, TypeOK
<1>2. CASE EndJoinInput(o)
  BY <1>2 DEF EndJoinInput, EnderGoto, TypeOK
<1>3. CASE EndJoinOutput(o)
  BY <1>3 DEF EndJoinOutput, EnderGoto, TypeOK
<1>4. CASE EndCancel(o)
  <2>1. server[o] \in Servers
    BY DEF TypeOK
  <2>2. [server[o] EXCEPT !.pc = "clear", !.connected = FALSE] \in Servers
    BY <2>1 DEF Servers
  <2>3. server' \in [Objects -> Servers]
    BY <1>4, <2>2 DEF EndCancel, TypeOK
  <2> QED BY <1>4, <2>3 DEF EndCancel, EnderGoto, TypeOK
<1>5. CASE EndJoinServer(o)
  BY <1>5 DEF EndJoinServer, EnderGoto, TypeOK
<1>6. CASE Die(o)
  BY <1>6 DEF Die, TypeOK
<1> QED BY <1>1, <1>2, <1>3, <1>4, <1>5, <1>6 DEF EndThread

LEMMA SendTypes ==
    ASSUME TypeOK, NEW m \in Messages, Send(m)
    PROVE  TypeOK'
<1> DEFINE q == output_queue[From[m]]
<1>1. /\ q \in Seq(Messages) /\ From[m] \in Objects
      /\ output_queue' = [output_queue EXCEPT ![From[m]] = Append(q, m)]
  BY Peers DEF Send, TypeOK
<1> HIDE DEF q
<1>2. Append(q, m) \in Seq(Messages)
  BY <1>1
<1>3. output_queue' \in [Objects -> Seq(Messages)]
  BY <1>1, <1>2 DEF TypeOK
<1> QED BY <1>3 DEF Send, TypeOK, outs, ins, ends

LEMMA TypeStep == TypeOK /\ Own /\ [Next]_vars => TypeOK'
<1>1. TypeOK /\ UNCHANGED vars => TypeOK'
  BY DEF TypeOK, vars, outs, ins, ends
<1> QED
  BY <1>1, OutputTypes, ServerTypes, ReaderTypes, EndTypes, SendTypes DEF Next
-----------------------------------------------------------------------------
(* The invariant.                                                          *)

\* A step after which message m is where it was
Same(m) ==
    /\ (Queued(m))' <=> Queued(m)
    /\ (Opening(m))' <=> Opening(m)
    /\ (Writing(m))' <=> Writing(m)
    /\ (Closing(m))' <=> Closing(m)
    /\ (Received(m))' <=> Received(m)
    /\ (Called(m))' <=> Called(m)
    /\ (Pending(m))' => Pending(m)
    /\ client'[m] = client[m] /\ handler'[m] = handler[m]
    /\ alive'[From[m]] <=> alive[From[m]]
    /\ m \in sent' <=> m \in sent
    /\ m \in dropped' <=> m \in dropped

\* and a step that moves no message
Queues == <<output_queue, input_queue, dispatched>>
Quiet ==
    /\ UNCHANGED <<Queues, alive, client, handler, sent, dropped>>
    /\ \A m \in Messages : Same(m)

LEMMA SameRight ==
    ASSUME NEW m \in Messages, SentRight(m), ReadRight(m), Same(m)
    PROVE  (SentRight(m))' /\ (ReadRight(m))'
  BY DEF Same, SentRight, ReadRight, Arrived, Read

LEMMA QuietRight ==
    ASSUME IInv, TypeOK', Own', Quiet
    PROVE  IInv'
<1>1. \A m \in Messages : (SentRight(m))' /\ (ReadRight(m))'
  BY SameRight DEF IInv, Quiet
<1>2. NoTwice' /\ Zeros'
  BY DEF IInv, NoTwice, Zeros, Quiet, Queues, Once, Elements
<1> QED BY <1>1, <1>2 DEF IInv

\* A step of the sending thread of o that leaves the queues and the
\* connections' receiving side alone, seen from the other messages
LEMMA OutputFrame ==
    ASSUME IInv, NEW o \in Objects, NEW m \in Messages,
           m # output[o].msg \/ ~Held(o),
           m # output'[o].msg \/ ~(Held(o))',
           \A p \in Objects \ {o} : output'[p] = output[p]
    PROVE  /\ (Opening(m))' <=> Opening(m)
           /\ (Writing(m))' <=> Writing(m)
           /\ (Closing(m))' <=> Closing(m)
<1>1. From[m] \in Objects
  BY Peers
<1>2. CASE From[m] = o
  BY <1>2 DEF Opening, Writing, Closing, Held
<1>3. CASE From[m] # o
  BY <1>1, <1>3 DEF Opening, Writing, Closing
<1> QED BY <1>2, <1>3

LEMMA QuietOutput ==
    ASSUME IInv, NEW o \in Objects,
           \/ OutputCheck(o) \/ OpenBusy(o)
           \/ OutputPop(o) /\ output_interrupted[o]
           \/ WaitPipe(o) /\ HasListener(Peer(o))
    PROVE  Own' /\ Quiet
<1> USE DEF outs, ins, ends
<1>1. /\ UNCHANGED <<Queues, alive, client, handler, sent, dropped, server>>
      /\ \E l \in {"pop", "ended", "open", "busy"} :
           /\ OutputGoto(o, l)
           /\ \/ ~Held(o) /\ l \in {"pop", "ended"}
              \/ output[o].pc \in {"open", "busy"} /\ l \in {"open", "busy"}
  <2>1. CASE OutputCheck(o)
    BY <2>1 DEF OutputCheck, OutputAt, Queues, Held
  <2>2. CASE OpenBusy(o)
    BY <2>2 DEF OpenBusy, OutputAt, Queues, Held
  <2>3. CASE OutputPop(o) /\ output_interrupted[o]
    BY <2>3 DEF OutputPop, OutputAt, Queues, Held
  <2>4. CASE WaitPipe(o) /\ HasListener(Peer(o))
    BY <2>4 DEF WaitPipe, OutputAt, Queues, Held
  <2> QED BY <2>1, <2>2, <2>3, <2>4
<1>2. PICK l \in {"pop", "ended", "open", "busy"} :
         /\ OutputGoto(o, l)
         /\ \/ ~Held(o) /\ l \in {"pop", "ended"}
            \/ output[o].pc \in {"open", "busy"} /\ l \in {"open", "busy"}
  BY <1>1
<1>3. /\ output'[o].pc = l /\ output'[o].msg = output[o].msg
      /\ \A p \in Objects \ {o} : output'[p] = output[p]
  BY <1>2, Goto DEF IInv
<1>4. ASSUME NEW m \in Messages
      PROVE  Same(m)
  <2>1. /\ (Opening(m))' <=> Opening(m)
        /\ (Writing(m))' <=> Writing(m)
        /\ (Closing(m))' <=> Closing(m)
    <3>1. From[m] \in Objects
      BY Peers
    <3>2. CASE From[m] = o
      BY <1>2, <1>3, <3>2 DEF Opening, Writing, Closing, Held
    <3>3. CASE From[m] # o
      BY <1>3, <3>1, <3>3 DEF Opening, Writing, Closing
    <3> QED BY <3>2, <3>3
  <2>2. /\ (Queued(m))' <=> Queued(m)
        /\ (Received(m))' <=> Received(m)
        /\ (Called(m))' <=> Called(m)
        /\ (Pending(m))' <=> Pending(m)
    BY <1>1 DEF Queues, Queued, Received, Called, Pending, Elements
  <2> QED BY <1>1, <2>1, <2>2 DEF Same, Queues
<1>5. Own'
  <2> SUFFICES ASSUME NEW p \in Objects
               PROVE  (Held(p))' => output'[p].msg \in Messages
                                    /\ From[output'[p].msg] = p
    BY <1>1 DEF IInv, Own, Queues, Elements
  <2>1. CASE p = o
    BY <1>2, <1>3, <2>1 DEF IInv, Own, Held
  <2>2. CASE p # o
    BY <1>3, <2>2 DEF IInv, Own, Held
  <2> QED BY <2>1, <2>2
<1> QED BY <1>1, <1>4, <1>5 DEF Quiet

\* The pipe server moves on, or makes or closes an instance without a message.
LEMMA QuietServer ==
    ASSUME IInv, TypeOK', NEW o \in Objects,
           \/ ServerCheck(o) \/ CreateInstance(o) \/ CreateFails(o)
           \/ CallConnect(o) \/ Connected(o) \/ ClearHandle(o)
           \/ CloseInstance(o) /\ UNCHANGED dropped
           \/ EndCancel(o)
    PROVE  Own' /\ Quiet
<1> USE DEF outs, ins, ends
<1>0. server[o] \in Servers /\ server \in [Objects -> Servers]
  BY DEF IInv, TypeOK
<1>1. /\ UNCHANGED <<Queues, alive, client, handler, sent, dropped, output>>
      /\ \A p \in Objects \ {o} : server'[p] = server[p]
      /\ server'[o].inst \in {server[o].inst, Listening, NoMessage}
      /\ server'[o].pc \in {"listen", "connect", "clear", "hand"}
           => server'[o].inst # NoMessage
  <2>1. CASE ServerCheck(o)
    <3>1. \E l \in {"ended", "create"} : ServerGoto(o, l)
      BY <2>1 DEF ServerCheck
    <3> QED BY <2>1, <3>1, Goto DEF ServerCheck, Queues, IInv
  <2>2. CASE CreateInstance(o)
    <3>1. server'[o].inst = Listening
      BY <1>0, <2>2 DEF CreateInstance, Servers
    <3> QED BY <1>0, <2>2, <3>1, PipeAssumption DEF CreateInstance, Queues
  <2>3. CASE CreateFails(o)
    BY <2>3, Goto DEF CreateFails, Queues, IInv
  <2>4. CASE CallConnect(o)
    <3>1. server'[o].inst = server[o].inst
      BY <1>0, <2>4 DEF CallConnect, Servers
    <3> QED BY <1>0, <2>4, <3>1 DEF CallConnect, ServerAt, Queues, IInv, Own
  <2>5. CASE Connected(o)
    <3>1. server'[o].inst = server[o].inst
      BY <1>0, <2>5 DEF Connected, Servers
    <3> QED BY <1>0, <2>5, <3>1 DEF Connected, ServerAt, Queues, IInv, Own
  <2>6. CASE ClearHandle(o)
    BY <2>6, Goto DEF ClearHandle, ServerAt, Queues, IInv, Own
  <2>7. CASE CloseInstance(o) /\ UNCHANGED dropped
    <3>1. server'[o].inst = NoMessage /\ server'[o].pc = "check"
      BY <1>0, <2>7 DEF CloseInstance, Servers
    <3> QED BY <1>0, <2>7, <3>1 DEF CloseInstance, Queues
  <2>8. CASE EndCancel(o)
    <3>1. CASE UNCHANGED server
      BY <2>8, <3>1 DEF EndCancel, Queues, IInv, Own
    <3>2. CASE server' = [server EXCEPT ![o].pc = "clear", ![o].connected = FALSE]
      <4>1. server'[o].inst = server[o].inst
        BY <1>0, <3>2 DEF Servers
      <4> QED BY <1>0, <2>8, <3>1, <3>2, <4>1
              DEF EndCancel, HasListener, ServerAt, Queues, IInv, Own
    <3> QED BY <2>8, <3>1, <3>2 DEF EndCancel
  <2> QED BY <2>1, <2>2, <2>3, <2>4, <2>5, <2>6, <2>7, <2>8
<1>2. NoMessage \notin Messages /\ Listening \notin Messages
  BY PipeAssumption
<1>3. ASSUME NEW m \in Messages
      PROVE  Same(m)
  <2>1. (Pending(m))' => Pending(m)
    BY <1>1, <1>2, Peers DEF Pending
  <2>2. /\ (Queued(m))' <=> Queued(m)
        /\ (Received(m))' <=> Received(m)
        /\ (Called(m))' <=> Called(m)
        /\ (Opening(m))' <=> Opening(m)
        /\ (Writing(m))' <=> Writing(m)
        /\ (Closing(m))' <=> Closing(m)
    BY <1>1 DEF Queues, Queued, Received, Called, Opening, Writing, Closing, Elements
  <2> QED BY <1>1, <2>1, <2>2 DEF Same, Queues
<1>4. Own'
  <2> SUFFICES ASSUME NEW p \in Objects
               PROVE  /\ server'[p].inst \in Messages => To(server'[p].inst) = p
                      /\ server'[p].pc \in {"listen", "connect", "clear", "hand"}
                           => server'[p].inst # NoMessage
    BY <1>1 DEF IInv, Own, Held, Queues, Elements
  <2> QED BY <1>1, <1>2 DEF IInv, Own
<1> QED BY <1>1, <1>3, <1>4 DEF Quiet

\* The threads that read and that end the object
LEMMA QuietOthers ==
    ASSUME IInv, NEW o \in Objects,
           \/ InputCheck(o) \/ (InputPop(o) /\ input_interrupted[o])
           \/ End(o) \/ EndJoinInput(o) \/ EndJoinOutput(o) \/ EndJoinServer(o)
    PROVE  Own' /\ Quiet
<1>1. UNCHANGED <<Queues, alive, client, handler, sent, dropped, output, server>>
  BY DEF InputCheck, InputPop, End, EndJoinInput, EndJoinOutput, EndJoinServer,
         Queues, outs, ins, ends
<1> QED
  BY <1>1 DEF Quiet, Queues, Same, Queued, Opening, Writing, Closing, Received,
              Called, Pending, IInv, Own, Held, Elements

\* A step that moves one message
LEMMA OneMoves ==
    ASSUME IInv, TypeOK', Own', NoTwice', Zeros', NEW x \in Messages,
           \A m \in Messages \ {x} : Same(m),
           (SentRight(x))', (ReadRight(x))'
    PROVE  IInv'
<1>1. \A m \in Messages : (SentRight(m))' /\ (ReadRight(m))'
  BY SameRight DEF IInv
<1> QED BY <1>1 DEF IInv

\* Queues that stay as they are, or change for one object
LEMMA QueuesKept ==
    ASSUME IInv
    PROVE  /\ UNCHANGED output_queue =>
                /\ \A m \in Messages : (Queued(m))' <=> Queued(m)
                /\ \A o \in Objects : Once(output_queue'[o])
           /\ UNCHANGED <<input_queue, dispatched>> =>
                /\ \A m \in Messages : /\ (Received(m))' <=> Received(m)
                                       /\ (Called(m))' <=> Called(m)
                /\ \A o \in Objects : Once(input_queue'[o]) /\ Once(dispatched'[o])
                /\ (\A o \in Objects : alive'[o] => alive[o]) => Zeros'
  BY Peers DEF Queued, Received, Called, Elements, IInv, NoTwice, Zeros

LEMMA SendStep ==
    ASSUME IInv, TypeOK', NEW x \in Messages, Send(x)
    PROVE  IInv'
<1> DEFINE o == From[x]
           q == output_queue[o]
<1>1. /\ UNCHANGED <<alive, output, input_queue, server, client, handler,
                     dispatched, dropped>>
      /\ sent' = sent \cup {x} /\ x \notin sent
      /\ output_queue' = [output_queue EXCEPT ![o] = Append(q, x)]
  BY DEF Send, ends, ins
<1>2. /\ o \in Objects /\ q \in Seq(Messages) /\ output_queue \in [Objects -> Seq(Messages)]
      /\ SentRight(x) /\ ReadRight(x)
  BY Peers DEF IInv, TypeOK
<1>3. x \notin Elements(q)
  BY <1>1, <1>2 DEF SentRight, Queued
<1>4. /\ Elements(output_queue'[o]) = Elements(q) \cup {x}
      /\ Once(output_queue'[o])
      /\ \A p \in Objects \ {o} : output_queue'[p] = output_queue[p]
  BY <1>1, <1>2, <1>3, AppendElements DEF IInv, NoTwice
<1> HIDE DEF q
<1>5. \A m \in Messages : /\ (Opening(m))' <=> Opening(m)
                          /\ (Writing(m))' <=> Writing(m)
                          /\ (Closing(m))' <=> Closing(m)
                          /\ (Pending(m))' <=> Pending(m)
                          /\ (Received(m))' <=> Received(m)
                          /\ (Called(m))' <=> Called(m)
  BY <1>1, QueuesKept DEF Opening, Writing, Closing, Pending
<1>6. \A m \in Messages \ {x} : (Queued(m))' <=> Queued(m)
  BY <1>4, Peers DEF Queued, q
<1>7. (Queued(x))'
  BY <1>4 DEF Queued
<1>8. \A m \in Messages \ {x} : Same(m)
  BY <1>1, <1>5, <1>6 DEF Same
<1>9. (SentRight(x))' /\ (ReadRight(x))'
  BY <1>1, <1>2, <1>5, <1>7 DEF SentRight, ReadRight, Arrived, Read
<1>10. NoTwice' /\ Zeros'
  BY <1>1, <1>4, QueuesKept DEF NoTwice, IInv
<1>11. Own'
  BY <1>1, <1>2, <1>4 DEF Own, IInv, Held, q
<1> QED BY <1>8, <1>9, <1>10, <1>11, OneMoves

\* The front of the output queue becomes the message the thread sends.
LEMMA OutputPopStep ==
    ASSUME IInv, TypeOK', NEW o \in Objects, OutputPop(o), ~output_interrupted[o]
    PROVE  IInv'
<1> DEFINE q == output_queue[o]
<1>0. PICK x \in Messages : x = Head(q) /\ x \in Elements(q)
  <2>1. q \in Seq(Messages) /\ q # <<>>
    BY DEF OutputPop, IInv, TypeOK
  <2> QED BY <2>1, TailElements
<1>1. /\ UNCHANGED <<alive, input_queue, server, client, handler, sent, dispatched,
                     dropped>>
      /\ output[o].pc = "pop"
      /\ output_queue' = [output_queue EXCEPT ![o] = Tail(q)]
      /\ output' = [output EXCEPT ![o] = [pc |-> "open", msg |-> x]]
      /\ q # <<>>
  BY <1>0 DEF OutputPop, OutputAt, ends, ins
<1>2. /\ q \in Seq(Messages) /\ output_queue \in [Objects -> Seq(Messages)]
      /\ output \in [Objects -> Outputs] /\ Once(q)
      /\ \A m \in Elements(q) : From[m] = o
  BY DEF IInv, TypeOK, NoTwice, Own
<1>3. /\ x \in Messages /\ x \in Elements(q) /\ From[x] = o /\ x # Garbage
      /\ Elements(Tail(q)) = Elements(q) \ {x} /\ Once(Tail(q))
  <2>1. x # Garbage
    BY PipeAssumption
  <2> HIDE DEF q
  <2> QED BY <1>0, <1>1, <1>2, <2>1, TailElements
<1>4. /\ output_queue'[o] = Tail(q)
      /\ \A p \in Objects \ {o} : output_queue'[p] = output_queue[p]
      /\ output'[o].pc = "open" /\ output'[o].msg = x
      /\ \A p \in Objects \ {o} : output'[p] = output[p]
  BY <1>1, <1>2
<1> HIDE DEF q
<1>5. SentRight(x) /\ ReadRight(x) /\ Queued(x)
  BY <1>3 DEF IInv, Queued, q
<1>6. ASSUME NEW m \in Messages
      PROVE  /\ (Pending(m))' <=> Pending(m)
             /\ (Received(m))' <=> Received(m)
             /\ (Called(m))' <=> Called(m)
  BY <1>1, QueuesKept DEF Pending
<1>7. ASSUME NEW m \in Messages \ {x}
      PROVE  Same(m)
  <2>1. (Queued(m))' <=> Queued(m)
    BY <1>3, <1>4, Peers DEF Queued, q
  <2>2. /\ (Opening(m))' <=> Opening(m)
        /\ (Writing(m))' <=> Writing(m)
        /\ (Closing(m))' <=> Closing(m)
    BY <1>1, <1>4, OutputFrame DEF Held
  <2> QED BY <1>1, <1>6, <2>1, <2>2 DEF Same
<1>8. (Opening(x))' /\ ~(Writing(x))' /\ ~(Closing(x))' /\ ~(Queued(x))'
  BY <1>3, <1>4 DEF Opening, Writing, Closing, Queued
<1>9. (SentRight(x))' /\ (ReadRight(x))'
  BY <1>1, <1>3, <1>5, <1>6, <1>8 DEF SentRight, ReadRight, Arrived, Read
<1>10. NoTwice' /\ Zeros'
  BY <1>1, <1>3, <1>4, QueuesKept DEF NoTwice, IInv
<1>11. Own'
  BY <1>1, <1>3, <1>4 DEF Own, IInv, Held, q
<1> QED BY <1>3, <1>7, <1>9, <1>10, <1>11, OneMoves

\* A step of the sending thread with the message x it holds
LEMMA HeldMoves ==
    ASSUME IInv, NEW o \in Objects, NEW x \in Messages,
           Held(o), x = output[o].msg,
           NEW l \in {"check", "write", "close"}, OutputGoto(o, l),
           UNCHANGED <<Queues, alive, handler, sent>>,
           \A m \in Messages \ {x} : /\ client'[m] = client[m]
                                     /\ m \in dropped' <=> m \in dropped
                                     /\ (Pending(m))' => Pending(m)
    PROVE  /\ From[x] = o
           /\ \A m \in Messages \ {x} : Same(m)
           /\ (Queued(x))' <=> Queued(x)
           /\ (Received(x))' <=> Received(x)
           /\ (Called(x))' <=> Called(x)
           /\ ~(Opening(x))'
           /\ (Writing(x))' <=> l = "write"
           /\ (Closing(x))' <=> l = "close"
           /\ NoTwice' /\ Zeros'
           /\ UNCHANGED server => Own'
<1>1. From[x] = o
  BY DEF IInv, Own
<1>2. /\ output'[o].pc = l /\ output'[o].msg = x
      /\ \A p \in Objects \ {o} : output'[p] = output[p]
  BY Goto DEF IInv
<1>3. \A m \in Messages : /\ (Queued(m))' <=> Queued(m)
                          /\ (Received(m))' <=> Received(m)
                          /\ (Called(m))' <=> Called(m)
  BY QueuesKept DEF Queues
<1>4. ASSUME NEW m \in Messages \ {x}
      PROVE  Same(m)
  <2>1. /\ (Opening(m))' <=> Opening(m)
        /\ (Writing(m))' <=> Writing(m)
        /\ (Closing(m))' <=> Closing(m)
    BY <1>2, OutputFrame
  <2> QED BY <1>3, <2>1 DEF Same
<1>5. /\ ~(Opening(x))'
      /\ (Writing(x))' <=> l = "write"
      /\ (Closing(x))' <=> l = "close"
  BY <1>1, <1>2 DEF Opening, Writing, Closing
<1>6. NoTwice' /\ Zeros'
  BY QueuesKept DEF NoTwice, Queues
<1>7. UNCHANGED server => Own'
  BY <1>1, <1>2 DEF Own, IInv, Held, Queues, Elements
<1> QED BY <1>1, <1>3, <1>4, <1>5, <1>6, <1>7

LEMMA GiveUpStep ==
    ASSUME IInv, TypeOK', NEW o \in Objects,
           \/ OpenFails(o) \/ WriteFails(o)
           \/ WaitPipe(o) /\ ~HasListener(Peer(o))
    PROVE  IInv'
<1> USE DEF outs, ins, ends
<1>1. /\ UNCHANGED <<Queues, alive, server, handler, sent>>
      /\ OutputGoto(o, "check") /\ dropped' = dropped \cup {output[o].msg}
      /\ Held(o)
      /\ \/ UNCHANGED client /\ output[o].pc \in {"open", "busy"}
         \/ /\ client' = [client EXCEPT ![output[o].msg] = "leaked"]
            /\ \/ output[o].pc = "write"
               \/ output[o].pc = "close" /\ ~Read(output[o].msg)
            /\ alive[o]
  <2>1. CASE OpenFails(o)
    BY <2>1 DEF OpenFails, GiveUpMessage, OutputAt, Held, Queues
  <2>2. CASE WaitPipe(o) /\ ~HasListener(Peer(o))
    BY <2>2 DEF WaitPipe, GiveUpMessage, OutputAt, Held, Queues
  <2>3. CASE WriteFails(o)
    BY <2>3 DEF WriteFails, WriteFailure, GiveUpMessage, OutputAt, Held, Queues
  <2> QED BY <2>1, <2>2, <2>3
<1>2. PICK x \in Messages : x = output[o].msg
  BY <1>1 DEF IInv, Own
<1>3. /\ SentRight(x) /\ ReadRight(x)
      /\ client \in [Messages -> {"none", "open", "written", "closed", "leaked", "broken"}]
  BY DEF IInv, TypeOK
<1>4. /\ From[x] = o
      /\ \A m \in Messages \ {x} : Same(m)
      /\ (Queued(x))' <=> Queued(x)
      /\ (Received(x))' <=> Received(x)
      /\ (Called(x))' <=> Called(x)
      /\ ~(Opening(x))' /\ ~(Writing(x))' /\ ~(Closing(x))'
      /\ NoTwice' /\ Zeros' /\ Own'
  <2>1. \A m \in Messages \ {x} : client'[m] = client[m]
    BY <1>1, <1>2, <1>3
  <2>2. \A m \in Messages \ {x} : (Pending(m))' => Pending(m)
    BY <1>1 DEF Pending
  <2> QED BY <1>1, <1>2, <2>1, <2>2, HeldMoves
<1>5. (Pending(x))' <=> Pending(x)
  BY <1>1 DEF Pending
<1>6. (SentRight(x))' /\ (ReadRight(x))'
  <2>1. CASE UNCHANGED client /\ output[o].pc \in {"open", "busy"}
    <3>1. Opening(x)
      BY <1>2, <1>4, <2>1 DEF Opening
    <3> QED BY <1>1, <1>2, <1>3, <1>4, <1>5, <2>1, <3>1
            DEF SentRight, ReadRight, Arrived, Read
  <2>2. CASE /\ client' = [client EXCEPT ![x] = "leaked"]
             /\ \/ output[o].pc = "write"
                \/ output[o].pc = "close" /\ ~Read(x)
             /\ alive[o]
    <3>1. client'[x] = "leaked" /\ (Writing(x) \/ (Closing(x) /\ ~Read(x)))
      BY <1>2, <1>3, <1>4, <2>2 DEF Writing, Closing
    <3>2. client[x] \in {"open", "written"}
      BY <1>3, <1>4, <2>2, <3>1 DEF SentRight
    <3>3. ~Received(x) /\ ~Called(x)
      BY <1>3, <3>1, <3>2 DEF ReadRight, SentRight, Arrived
    <3>4. ~Queued(x) /\ x \in sent /\ ~Read(x)
      BY <1>3, <3>1, <3>2 DEF SentRight, ReadRight, Arrived
    <3> QED BY <1>1, <1>2, <1>3, <1>4, <1>5, <3>1, <3>2, <3>3, <3>4
            DEF SentRight, ReadRight, Arrived, Read
  <2> QED BY <1>1, <1>2, <2>1, <2>2
<1> QED BY <1>4, <1>6, OneMoves

LEMMA WriteStep ==
    ASSUME IInv, TypeOK', NEW o \in Objects, WritePipe(o) \/ ClosePipe(o)
    PROVE  IInv'
<1> USE DEF outs, ins, ends
<1>1. /\ UNCHANGED <<Queues, alive, server, handler, sent, dropped>>
      /\ Held(o) /\ alive[o]
      /\ \/ /\ output[o].pc = "write" /\ OutputGoto(o, "close")
            /\ client' = [client EXCEPT ![output[o].msg] = "written"]
         \/ /\ output[o].pc = "close" /\ OutputGoto(o, "check")
            /\ client' = [client EXCEPT ![output[o].msg] = "closed"]
  BY DEF WritePipe, ClosePipe, OutputAt, Held, Queues
<1>2. PICK x \in Messages : x = output[o].msg
  BY <1>1 DEF IInv, Own
<1>3. /\ SentRight(x) /\ ReadRight(x)
      /\ client \in [Messages -> {"none", "open", "written", "closed", "leaked", "broken"}]
  BY DEF IInv, TypeOK
<1>4. PICK l \in {"close", "check"} :
        /\ OutputGoto(o, l)
        /\ l = "close" => output[o].pc = "write" /\ client' = [client EXCEPT ![x] = "written"]
        /\ l = "check" => output[o].pc = "close" /\ client' = [client EXCEPT ![x] = "closed"]
  BY <1>1, <1>2
<1>5. /\ From[x] = o
      /\ \A m \in Messages \ {x} : Same(m)
      /\ (Queued(x))' <=> Queued(x)
      /\ (Received(x))' <=> Received(x)
      /\ (Called(x))' <=> Called(x)
      /\ ~(Opening(x))' /\ ~(Writing(x))'
      /\ (Closing(x))' <=> l = "close"
      /\ NoTwice' /\ Zeros' /\ Own'
  <2>1. \A m \in Messages \ {x} : client'[m] = client[m]
    BY <1>3, <1>4
  <2>2. \A m \in Messages \ {x} : (Pending(m))' => Pending(m)
    BY <1>1 DEF Pending
  <2> QED BY <1>1, <1>2, <1>4, <2>1, <2>2, HeldMoves
<1>6. (Pending(x))' <=> Pending(x)
  BY <1>1 DEF Pending
<1>7. CASE l = "close"
  <2>1. Writing(x) /\ client'[x] = "written" /\ client[x] = "open"
    BY <1>1, <1>2, <1>3, <1>4, <1>5, <1>7 DEF Writing, SentRight
  <2>2. (SentRight(x))'
    BY <1>1, <1>3, <1>5, <1>7, <2>1 DEF SentRight, Arrived
  <2>3. (ReadRight(x))'
    BY <1>1, <1>3, <1>5, <1>6, <2>1 DEF SentRight, ReadRight, Arrived, Read
  <2> QED BY <1>5, <2>2, <2>3, OneMoves
<1>8. CASE l = "check"
  <2>1. Closing(x) /\ client'[x] = "closed" /\ client[x] = "written"
    BY <1>1, <1>2, <1>3, <1>4, <1>5, <1>8 DEF Closing, SentRight
  <2>2. (SentRight(x))'
    BY <1>1, <1>3, <1>5, <1>8, <2>1 DEF SentRight, Arrived
  <2>3. (ReadRight(x))'
    BY <1>1, <1>3, <1>5, <1>6, <2>1 DEF SentRight, ReadRight, Arrived, Read
  <2> QED BY <1>5, <2>2, <2>3, OneMoves
<1> QED BY <1>7, <1>8

LEMMA OpenStep ==
    ASSUME IInv, TypeOK', NEW o \in Objects, OpenPipe(o)
    PROVE  IInv'
<1> USE DEF outs, ins, ends
<1>1. /\ UNCHANGED <<Queues, alive, handler, sent, dropped>>
      /\ Held(o) /\ output[o].pc = "open" /\ OutputGoto(o, "write")
      /\ client' = [client EXCEPT ![output[o].msg] = "open"]
      /\ server[Peer(o)].inst = Listening
      /\ server' = [server EXCEPT ![Peer(o)].inst = output[o].msg]
  BY DEF OpenPipe, OutputAt, HasListener, Held, Queues
<1>2. PICK x \in Messages : x = output[o].msg
  BY <1>1 DEF IInv, Own
<1>3. /\ From[x] = o /\ To(x) = Peer(o) /\ Peer(o) \in Objects
      /\ SentRight(x) /\ ReadRight(x)
      /\ client \in [Messages -> {"none", "open", "written", "closed", "leaked", "broken"}]
  BY <1>1, <1>2, Peers DEF IInv, TypeOK, Own
<1>4. /\ server'[Peer(o)].inst = x
      /\ server'[Peer(o)].pc = server[Peer(o)].pc
      /\ \A p \in Objects \ {Peer(o)} : server'[p] = server[p]
  <2>1. server[Peer(o)] \in Servers /\ server \in [Objects -> Servers]
    BY <1>3 DEF IInv, TypeOK
  <2> QED BY <1>1, <1>2, <1>3, <2>1 DEF Servers
<1>5. Listening \notin Messages /\ NoMessage \notin Messages
  BY PipeAssumption
<1>6. \A m \in Messages \ {x} : (Pending(m))' => Pending(m)
  BY <1>4, <1>5, Peers DEF Pending
<1>7. /\ \A m \in Messages \ {x} : Same(m)
      /\ (Queued(x))' <=> Queued(x)
      /\ (Received(x))' <=> Received(x)
      /\ (Called(x))' <=> Called(x)
      /\ ~(Opening(x))' /\ (Writing(x))' /\ ~(Closing(x))'
      /\ NoTwice' /\ Zeros'
  <2>1. \A m \in Messages \ {x} : client'[m] = client[m]
    BY <1>1, <1>2, <1>3
  <2> QED BY <1>1, <1>2, <1>6, <2>1, HeldMoves
<1>8. Own'
  <2>1. /\ output'[o].msg = x
        /\ \A p \in Objects \ {o} : output'[p] = output[p]
    BY <1>1, <1>2, Goto DEF IInv
  <2>2. \A p \in Objects : (Held(p))' => /\ output'[p].msg \in Messages
                                         /\ From[output'[p].msg] = p
    BY <1>3, <2>1 DEF IInv, Own, Held
  <2>3. \A p \in Objects :
          /\ server'[p].inst \in Messages => To(server'[p].inst) = p
          /\ server'[p].pc \in {"listen", "connect", "clear", "hand"}
               => server'[p].inst # NoMessage
    BY <1>3, <1>4, <1>5 DEF IInv, Own
  <2> QED BY <1>1, <2>2, <2>3 DEF IInv, Own, Queues, Elements
<1>9. client'[x] = "open" /\ client[x] = "none" /\ Opening(x) /\ handler'[x] = "none"
  <2>1. Opening(x)
    BY <1>1, <1>2, <1>3 DEF Opening
  <2> QED BY <1>1, <1>2, <1>3, <2>1 DEF SentRight, ReadRight
<1>10. alive[o]
  BY DEF OpenPipe, OutputAt
<1>11. (SentRight(x))'
  BY <1>1, <1>3, <1>7, <1>9, <1>10 DEF SentRight, Arrived
<1>12. (ReadRight(x))'
  BY <1>1, <1>3, <1>7, <1>9 DEF SentRight, ReadRight, Arrived, Read
<1> QED BY <1>7, <1>8, <1>11, <1>12, OneMoves

LEMMA OutputStep ==
    ASSUME IInv, TypeOK', NEW o \in Objects, OutputThread(o)
    PROVE  IInv'
<1>1. CASE WaitPipe(o)
  BY <1>1, GiveUpStep, QuietOutput, QuietRight
<1>2. CASE OutputPop(o)
  BY <1>2, OutputPopStep, QuietOutput, QuietRight
<1>3. CASE OutputCheck(o) \/ OpenBusy(o)
  BY <1>3, QuietOutput, QuietRight
<1>4. CASE OpenFails(o) \/ WriteFails(o)
  BY <1>4, GiveUpStep
<1> QED BY <1>1, <1>2, <1>3, <1>4, OpenStep, WriteStep DEF OutputThread

\* The server gives the instance of message x to a reader, or closes it.
LEMMA InstanceStep ==
    ASSUME IInv, TypeOK', NEW o \in Objects, StartHandler(o) \/ CloseInstance(o)
    PROVE  IInv'
<1> USE DEF outs, ins, ends
<1>1. /\ UNCHANGED <<Queues, alive, client, sent, output>>
      /\ server'[o].inst = NoMessage /\ server'[o].pc = "check"
      /\ \A p \in Objects \ {o} : server'[p] = server[p]
  <2>1. server[o] \in Servers /\ server \in [Objects -> Servers]
    BY DEF IInv, TypeOK
  <2> QED BY <2>1 DEF StartHandler, CloseInstance, Queues, Servers
<1>2. NoMessage \notin Messages /\ server[o].inst # NoMessage
  BY PipeAssumption DEF StartHandler, CloseInstance, ServerAt, IInv, Own
<1>3. Own' /\ NoTwice' /\ Zeros'
  <2>1. Own'
    BY <1>1, <1>2 DEF IInv, Own, Held, Queues, Elements
  <2> QED BY <1>1, <2>1, QueuesKept DEF NoTwice, Queues
<1>4. ASSUME NEW m \in Messages
      PROVE  /\ (Queued(m))' <=> Queued(m)
             /\ (Opening(m))' <=> Opening(m)
             /\ (Writing(m))' <=> Writing(m)
             /\ (Closing(m))' <=> Closing(m)
             /\ (Received(m))' <=> Received(m)
             /\ (Called(m))' <=> Called(m)
             /\ (Pending(m))' => Pending(m) /\ m # server[o].inst
  <2>1. (Pending(m))' => Pending(m) /\ m # server[o].inst
    BY <1>1, <1>2, Peers DEF Pending, IInv, Own
  <2> QED BY <1>1, <2>1, QueuesKept DEF Queues, Opening, Writing, Closing
<1>5. CASE server[o].inst \notin Messages
  <2>1. UNCHANGED <<handler, dropped>>
    <3>1. CASE StartHandler(o)
      BY <1>5, <3>1 DEF StartHandler, IInv, TypeOK
    <3>2. CASE CloseInstance(o)
      <4>1. server[o].inst = Listening
        BY <1>2, <1>5 DEF IInv, TypeOK, Servers
      <4> QED BY <3>2, <4>1 DEF CloseInstance
    <3> QED BY <3>1, <3>2
  <2>2. Quiet
    BY <1>1, <1>4, <2>1 DEF Quiet, Same, Queues
  <2> QED BY <1>3, <2>2, QuietRight
<1>6. CASE server[o].inst \in Messages
  <2>1. PICK x \in Messages : x = server[o].inst
    BY <1>6
  <2>2. To(x) = o /\ Pending(x) /\ SentRight(x) /\ ReadRight(x)
    BY <2>1 DEF IInv, Own, Pending
  <2>3. ~(Pending(x))'
    BY <1>4, <2>1
  <2>4. CASE StartHandler(o)
    <3>1. /\ handler' = [handler EXCEPT ![x] = "read"] /\ UNCHANGED dropped
          /\ handler \in [Messages -> {"none", "read", "close", "done"}]
      BY <2>1, <2>4 DEF StartHandler, IInv, TypeOK
    <3>2. handler'[x] = "read" /\ \A m \in Messages \ {x} : handler'[m] = handler[m]
      BY <3>1
    <3>3. \A m \in Messages \ {x} : Same(m)
      BY <1>1, <1>4, <3>1, <3>2 DEF Same
    <3>4. (SentRight(x))'
      BY <1>1, <1>4, <2>2, <3>1 DEF SentRight, Arrived
    <3>5. (ReadRight(x))'
      BY <1>1, <1>4, <2>2, <2>3, <3>1, <3>2 DEF ReadRight, Arrived, Read
    <3> QED BY <1>3, <3>3, <3>4, <3>5, OneMoves
  <2>5. CASE CloseInstance(o)
    <3>1. /\ UNCHANGED handler
          /\ \A m \in Messages : m \in dropped' <=> m \in dropped \/ (m = x /\ Arrived(x))
      <4>1. x # Listening
        BY PipeAssumption
      <4> QED BY <2>1, <2>5, <4>1 DEF CloseInstance
    <3>2. \A m \in Messages \ {x} : Same(m)
      BY <1>1, <1>4, <3>1 DEF Same
    <3>3. (SentRight(x))'
      BY <1>1, <1>4, <2>2, <3>1 DEF SentRight, Arrived
    <3>4. (ReadRight(x))'
      BY <1>1, <1>4, <2>2, <2>3, <3>1 DEF ReadRight, Arrived, Read
    <3> QED BY <1>3, <3>2, <3>3, <3>4, OneMoves
  <2> QED BY <2>4, <2>5
<1> QED BY <1>5, <1>6

LEMMA ServerStep ==
    ASSUME IInv, TypeOK', NEW o \in Objects, ServerThread(o) \/ EndCancel(o)
    PROVE  IInv'
<1>1. CASE StartHandler(o) \/ CloseInstance(o)
  BY <1>1, InstanceStep
<1>2. CASE ~(StartHandler(o) \/ CloseInstance(o))
  BY <1>2, QuietServer, QuietRight DEF ServerThread
<1> QED BY <1>1, <1>2

\* A reader queues what it has read: the message, or a buffer of zeros.
LEMMA HandleStep ==
    ASSUME IInv, TypeOK', NEW x \in Messages, HandleConnection(x)
    PROVE  IInv'
<1> DEFINE o == To(x)
           G == Messages \cup {Garbage}
           y == IF Arrived(x) THEN x ELSE Garbage
           q == input_queue[o]
<1>1. /\ UNCHANGED <<alive, output_queue, output, server, client, sent, dispatched,
                     dropped>>
      /\ handler[x] = "read" /\ handler' = [handler EXCEPT ![x] = "close"]
      /\ input_queue' = [input_queue EXCEPT ![o] = Append(q, y)]
      /\ Arrived(x) \/ client[x] = "broken"
  BY DEF HandleConnection, ends, outs
<1>2. /\ o \in Objects /\ From[x] \in Objects /\ Peer(o) = From[x]
      /\ q \in Seq(G) /\ Once(q) /\ y \in G
      /\ input_queue \in [Objects -> Seq(G)]
      /\ handler \in [Messages -> {"none", "read", "close", "done"}]
      /\ SentRight(x) /\ ReadRight(x) /\ x # Garbage
  BY Peers, PipeAssumption DEF IInv, TypeOK, NoTwice
<1>3. ~Read(x) /\ ~Received(x) /\ ~Called(x)
  BY <1>1, <1>2 DEF Read, ReadRight
<1>4. y = Garbage \/ y \notin Elements(q)
  BY <1>3 DEF Received
<1> HIDE DEF G, y, q
<1>5. /\ Elements(Append(q, y)) = Elements(q) \cup {y}
      /\ Once(Append(q, y))
  BY <1>2, <1>4, AppendElements
<1>6. /\ input_queue'[o] = Append(q, y)
      /\ \A p \in Objects \ {o} : input_queue'[p] = input_queue[p]
      /\ handler'[x] = "close" /\ \A m \in Messages \ {x} : handler'[m] = handler[m]
  BY <1>1, <1>2
<1>7. ASSUME NEW m \in Messages
      PROVE  /\ (Queued(m))' <=> Queued(m)
             /\ (Opening(m))' <=> Opening(m)
             /\ (Writing(m))' <=> Writing(m)
             /\ (Closing(m))' <=> Closing(m)
             /\ (Called(m))' <=> Called(m)
             /\ (Pending(m))' <=> Pending(m)
             /\ m # x \/ y # x => ((Received(m))' <=> Received(m))
  <2>1. m # x \/ y # x => ((Received(m))' <=> Received(m))
    <3>1. m # Garbage /\ To(m) \in Objects
      BY Peers, PipeAssumption
    <3>2. ASSUME m # x \/ y # x
          PROVE  m # y
      BY <3>1, <3>2 DEF y
    <3>3. CASE To(m) = o
      BY <1>5, <1>6, <3>2, <3>3 DEF Received, q
    <3>4. CASE To(m) # o
      BY <1>6, <3>1, <3>4 DEF Received
    <3> QED BY <3>3, <3>4
  <2>2. (Called(m))' <=> Called(m)
    BY <1>1 DEF Called
  <2> QED BY <1>1, <2>1, <2>2, QueuesKept DEF Opening, Writing, Closing, Pending
<1>8. \A m \in Messages \ {x} : Same(m)
  BY <1>1, <1>6, <1>7 DEF Same
<1>9. (SentRight(x))'
  BY <1>1, <1>2, <1>7 DEF SentRight, Arrived
<1>10. (ReadRight(x))'
  <2>1. CASE Arrived(x)
    <3>1. (Received(x))'
      BY <1>5, <1>6, <2>1 DEF Received, y
    <3> QED BY <1>1, <1>2, <1>3, <1>6, <1>7, <2>1, <3>1 DEF ReadRight, Arrived, Read
  <2>2. CASE ~Arrived(x)
    <3>1. (Received(x))' <=> Received(x)
      BY <1>2, <1>7, <2>2 DEF y
    <3> QED BY <1>1, <1>2, <1>3, <1>6, <1>7, <2>2, <3>1 DEF ReadRight, Arrived, Read
  <2> QED BY <2>1, <2>2
<1>11. NoTwice'
  BY <1>1, <1>5, <1>6 DEF NoTwice, IInv, Once
<1>12. Zeros'
  <2>1. y = Garbage => ~alive[Peer(o)]
    BY <1>1, <1>2 DEF y, SentRight
  <2> QED BY <1>1, <1>5, <1>6, <2>1 DEF Zeros, IInv, q
<1>13. Own'
  <2>1. y \in {x, Garbage}
    BY DEF y
  <2> QED BY <1>1, <1>5, <1>6, <2>1 DEF Own, IInv, Held, q
<1> QED BY <1>8, <1>9, <1>10, <1>11, <1>12, <1>13, OneMoves

LEMMA CloseConnectionStep ==
    ASSUME IInv, TypeOK', NEW x \in Messages, CloseConnection(x)
    PROVE  IInv'
<1>1. /\ UNCHANGED <<Queues, alive, output, server, client, sent, dropped>>
      /\ handler[x] = "close" /\ handler' = [handler EXCEPT ![x] = "done"]
      /\ handler \in [Messages -> {"none", "read", "close", "done"}]
      /\ SentRight(x) /\ ReadRight(x)
  BY DEF CloseConnection, ends, outs, ins, Queues, IInv, TypeOK
<1>2. handler'[x] = "done" /\ \A m \in Messages \ {x} : handler'[m] = handler[m]
  BY <1>1
<1>3. \A m \in Messages : /\ (Queued(m))' <=> Queued(m)
                          /\ (Opening(m))' <=> Opening(m)
                          /\ (Writing(m))' <=> Writing(m)
                          /\ (Closing(m))' <=> Closing(m)
                          /\ (Received(m))' <=> Received(m)
                          /\ (Called(m))' <=> Called(m)
                          /\ (Pending(m))' <=> Pending(m)
  BY <1>1, QueuesKept DEF Queues, Opening, Writing, Closing, Pending
<1>4. \A m \in Messages \ {x} : Same(m)
  BY <1>1, <1>2, <1>3 DEF Same
<1>5. (SentRight(x))' /\ (ReadRight(x))'
  BY <1>1, <1>2, <1>3 DEF SentRight, ReadRight, Arrived, Read
<1>6. NoTwice' /\ Zeros' /\ Own'
  BY <1>1, QueuesKept DEF NoTwice, Queues, Own, IInv, Held, Elements
<1> QED BY <1>4, <1>5, <1>6, OneMoves

\* The front of the input queue is passed to the callback.
LEMMA InputPopStep ==
    ASSUME IInv, TypeOK', NEW o \in Objects, InputPop(o), ~input_interrupted[o]
    PROVE  IInv'
<1> DEFINE G == Messages \cup {Garbage}
           q == input_queue[o]
           d == dispatched[o]
<1>1. /\ UNCHANGED <<alive, output_queue, output, server, client, handler, sent, dropped>>
      /\ q # <<>> /\ q \in Seq(G) /\ d \in Seq(G) /\ Once(q) /\ Once(d)
      /\ input_queue' = [input_queue EXCEPT ![o] = Tail(q)]
      /\ dispatched' = [dispatched EXCEPT ![o] = Append(d, Head(q))]
      /\ input_queue \in [Objects -> Seq(G)] /\ dispatched \in [Objects -> Seq(G)]
  BY DEF InputPop, ends, outs, IInv, TypeOK, NoTwice
<1>2. PICK x \in G : x = Head(q)
  BY <1>1, TailElements
<1> HIDE DEF G, q, d
<1>3. /\ x \in Elements(q) /\ Elements(Tail(q)) \subseteq Elements(q)
      /\ \A e \in Elements(q) : e # x => e \in Elements(Tail(q))
      /\ Once(Tail(q)) /\ (x # Garbage => x \notin Elements(Tail(q)))
  BY <1>1, <1>2, TailElements
<1>4. /\ input_queue'[o] = Tail(q) /\ dispatched'[o] = Append(d, x)
      /\ \A p \in Objects \ {o} : /\ input_queue'[p] = input_queue[p]
                                  /\ dispatched'[p] = dispatched[p]
  BY <1>1, <1>2
<1>5. x \in Messages /\ To(x) = o => Received(x) /\ ~Called(x)
  BY <1>3 DEF Received, IInv, ReadRight, q
<1>6. x # Garbage => x \in Messages /\ To(x) = o
  BY <1>3 DEF IInv, Own, q
<1>7. Once(Append(d, x)) /\ Elements(Append(d, x)) = Elements(d) \cup {x}
  <2>1. x = Garbage \/ x \notin Elements(d)
    BY <1>5, <1>6 DEF Called, d
  <2> QED BY <1>1, <2>1, AppendElements
<1>8. ASSUME NEW m \in Messages
      PROVE  /\ (Queued(m))' <=> Queued(m)
             /\ (Opening(m))' <=> Opening(m)
             /\ (Writing(m))' <=> Writing(m)
             /\ (Closing(m))' <=> Closing(m)
             /\ (Pending(m))' <=> Pending(m)
             /\ (Received(m))' <=> Received(m) /\ m # x
             /\ (Called(m))' <=> Called(m) \/ m = x
  <2>1. m # Garbage /\ To(m) \in Objects
    BY Peers, PipeAssumption
  <2>2. CASE To(m) = o
    BY <1>1, <1>3, <1>4, <1>7, <2>1, <2>2, QueuesKept
       DEF Received, Called, Opening, Writing, Closing, Pending, q, d
  <2>3. CASE To(m) # o
    <3>1. m # x
      BY <1>6, <2>1, <2>3
    <3> QED BY <1>1, <1>4, <2>1, <2>3, <3>1, QueuesKept
            DEF Received, Called, Opening, Writing, Closing, Pending
  <2> QED BY <2>2, <2>3
<1>9. \A m \in Messages \ {x} : Same(m)
  BY <1>1, <1>8 DEF Same
<1>10. NoTwice'
  BY <1>1, <1>3, <1>4, <1>7 DEF NoTwice, IInv, Once
<1>11. Zeros'
  BY <1>1, <1>3, <1>4, <1>7 DEF Zeros, IInv, q, d
<1>12. Own'
  BY <1>1, <1>3, <1>4 DEF Own, IInv, Held, q, Elements
<1>13. ASSUME NEW m \in Messages
       PROVE  (SentRight(m))' /\ (ReadRight(m))'
  <2>1. CASE m # x
    BY <1>9, <2>1, SameRight DEF IInv
  <2>2. CASE m = x
    <3>1. SentRight(m) /\ ReadRight(m) /\ Received(m) /\ ~Called(m)
      BY <1>5, <1>6, <2>2, PipeAssumption DEF IInv
    <3>2. (SentRight(m))'
      BY <1>1, <1>8, <3>1 DEF SentRight, Arrived
    <3>3. (ReadRight(m))'
      BY <1>1, <1>8, <2>2, <3>1 DEF ReadRight, Arrived, Read
    <3> QED BY <3>2, <3>3
  <2> QED BY <2>1, <2>2
<1> QED BY <1>10, <1>11, <1>12, <1>13 DEF IInv

\* The process of o ends.
LEMMA DieStep ==
    ASSUME IInv, TypeOK', NEW o \in Objects, Die(o)
    PROVE  IInv'
<1>1. /\ UNCHANGED <<Queues, output, server, handler, sent>>
      /\ alive' = [alive EXCEPT ![o] = FALSE] /\ alive \in [Objects -> BOOLEAN]
      /\ client \in [Messages -> {"none", "open", "written", "closed", "leaked", "broken"}]
  BY DEF Die, outs, ins, Queues, IInv, TypeOK
<1>2. ~alive'[o] /\ \A p \in Objects \ {o} : alive'[p] = alive[p]
  BY <1>1
<1>3. ASSUME NEW m \in Messages
      PROVE  /\ (Queued(m))' <=> Queued(m)
             /\ (Opening(m))' <=> Opening(m)
             /\ (Writing(m))' <=> Writing(m)
             /\ (Closing(m))' <=> Closing(m)
             /\ (Received(m))' <=> Received(m)
             /\ (Called(m))' <=> Called(m)
             /\ (Pending(m))' <=> Pending(m)
  BY <1>1, QueuesKept DEF Queues, Opening, Writing, Closing, Pending
<1>4. Own' /\ NoTwice' /\ Zeros'
  <2>1. \A p \in Objects : alive'[p] => alive[p]
    BY <1>2
  <2> QED BY <1>1, <2>1, QueuesKept DEF NoTwice, Queues, Own, IInv, Held, Elements
<1>5. ASSUME NEW m \in Messages, From[m] # o
      PROVE  Same(m)
  <2>1. client'[m] = client[m] /\ (m \in dropped' <=> m \in dropped)
    BY <1>5 DEF Die
  <2> QED BY <1>1, <1>2, <1>3, <1>5, <2>1, Peers DEF Same
<1>6. ASSUME NEW m \in Messages, From[m] = o
      PROVE  (SentRight(m))' /\ (ReadRight(m))'
  <2>1. SentRight(m) /\ ReadRight(m) /\ ~alive'[From[m]]
    BY <1>2, <1>6 DEF IInv
  <2>2. CASE client[m] = "written" /\ m \in Large /\ ~Read(m)
    <3>1. client'[m] = "broken" /\ m \in dropped'
      BY <1>6, <2>2 DEF Die
    <3>2. (SentRight(m))'
      BY <1>1, <1>3, <2>1, <2>2, <3>1 DEF SentRight, Arrived
    <3>3. (ReadRight(m))'
      BY <1>1, <1>3, <2>1, <2>2, <3>1 DEF ReadRight, Arrived, Read
    <3> QED BY <3>2, <3>3
  <2>3. CASE ~(client[m] = "written" /\ m \in Large /\ ~Read(m))
    <3>1. /\ m \in dropped' <=> m \in dropped
          /\ client[m] \in {"open", "leaked"} => client'[m] = "broken"
          /\ client[m] = "written" => client'[m] = "closed"
          /\ client[m] \in {"none", "closed", "broken"} => client'[m] = client[m]
      BY <1>6, <2>3 DEF Die
    <3>2. client[m] \in {"none", "open", "written", "closed", "leaked", "broken"}
      BY <1>1
    <3>3. (SentRight(m))'
      BY <1>1, <1>3, <2>1, <3>1, <3>2 DEF SentRight, Arrived
    <3>4. (ReadRight(m))'
      BY <1>1, <1>3, <2>1, <3>1, <3>2 DEF ReadRight, Arrived, Read
    <3> QED BY <3>3, <3>4
  <2> QED BY <2>2, <2>3
<1>7. \A m \in Messages : (SentRight(m))' /\ (ReadRight(m))'
  BY <1>5, <1>6, SameRight DEF IInv
<1> QED BY <1>4, <1>7 DEF IInv

-----------------------------------------------------------------------------
(* The theorems.                                                           *)

LEMMA InvInit == Init => IInv
<1> SUFFICES ASSUME Init
             PROVE  IInv
  OBVIOUS
<1>1. TypeOK
  BY TypeInit
<1>2. /\ \A o \in Objects : /\ output_queue[o] = <<>> /\ input_queue[o] = <<>>
                            /\ dispatched[o] = <<>> /\ output[o].pc = "check"
                            /\ server[o].pc = "check" /\ server[o].inst = NoMessage
      /\ \A m \in Messages : client[m] = "none" /\ handler[m] = "none"
      /\ sent = {} /\ dropped = {}
  BY DEF Init
<1>3. Elements(<<>>) = {} /\ Once(<<>>) /\ NoMessage \notin Messages
  BY PipeAssumption DEF Elements, Once
<1>4. Own /\ NoTwice /\ Zeros
  BY <1>2, <1>3, Peers DEF Own, Held, NoTwice, Zeros
<1>5. \A m \in Messages : SentRight(m) /\ ReadRight(m)
  BY <1>2, <1>3, Peers DEF SentRight, ReadRight, Queued, Opening, Writing, Closing,
                           Received, Called, Pending, Arrived, Read
<1> QED BY <1>1, <1>4, <1>5 DEF IInv

LEMMA InvStep == IInv /\ [Next]_vars => IInv'
<1> SUFFICES ASSUME IInv, [Next]_vars
             PROVE  IInv'
  OBVIOUS
<1>1. TypeOK'
  BY TypeStep DEF IInv
<1>2. CASE UNCHANGED vars
  <2>1. Own' /\ Quiet
    BY <1>2 DEF vars, ends, outs, ins, Quiet, Queues, Same, Queued, Opening, Writing,
                Closing, Received, Called, Pending, IInv, Own, Held, Elements
  <2> QED BY <1>1, <2>1, QuietRight
<1>3. ASSUME NEW m \in Messages, Send(m) \/ HandlerThread(m)
      PROVE  IInv'
  BY <1>1, <1>3, SendStep, HandleStep, CloseConnectionStep DEF HandlerThread
<1>4. ASSUME NEW o \in Objects,
             \/ OutputThread(o) \/ ServerThread(o) \/ InputThread(o)
             \/ End(o) \/ EndThread(o) \/ Die(o)
      PROVE  IInv'
  <2>1. CASE OutputThread(o)
    BY <1>1, <2>1, OutputStep
  <2>2. CASE ServerThread(o) \/ EndCancel(o)
    BY <1>1, <2>2, ServerStep
  <2>3. CASE InputPop(o)
    BY <1>1, <2>3, InputPopStep, QuietOthers, QuietRight
  <2>4. CASE InputCheck(o) \/ End(o) \/ EndJoinInput(o) \/ EndJoinOutput(o)
               \/ EndJoinServer(o)
    BY <1>1, <2>4, QuietOthers, QuietRight
  <2>5. CASE Die(o)
    BY <1>1, <2>5, DieStep
  <2> QED BY <1>4, <2>1, <2>2, <2>3, <2>4, <2>5 DEF InputThread, EndThread
<1> QED BY <1>2, <1>3, <1>4 DEF Next

\* IInv, which says of every message where it is and how far its connection
\* has come, holds in every state.
THEOREM InvAlways == Spec => []IInv
  BY InvInit, InvStep, PTL DEF Spec

\* Type correctness of the two objects, their queues and their pipes
THEOREM TypeCorrect == Spec => []TypeOK
<1>1. IInv => TypeOK
  BY DEF IInv
<1> QED BY <1>1, InvAlways, PTL

\* A message that has been sent is in exactly one place, through failed calls,
\* time-outs, end() and the end of a process, and the callback of its receiver
\* is called with it once at most.
THEOREM InOnePlace == Spec => []OnePlace
<1>1. ASSUME IInv
      PROVE  OnePlace
  <2>1. ASSUME NEW m \in sent
        PROVE  Cardinality(Places(m)) = 1
    <3>1. m \in Messages
      BY <1>1 DEF IInv, TypeOK
    <3>2. SentRight(m) /\ ReadRight(m)
      BY <1>1, <3>1 DEF IInv
    <3> DEFINE all == {"queued", "sending", "piped", "received", "dispatched", "dropped"}
    <3>3. \A p : p \in Places(m) <=>
                 \/ p = "queued" /\ Queued(m)
                 \/ p = "sending" /\ (Opening(m) \/ Writing(m))
                 \/ p = "piped" /\ Arrived(m) /\ ~Read(m) /\ m \notin dropped
                 \/ p = "received" /\ Received(m)
                 \/ p = "dispatched" /\ Called(m)
                 \/ p = "dropped" /\ m \in dropped
      BY DEF Places, Queued, Opening, Writing, Received, Called
    <3>4. \E p \in all : Places(m) = {p}
      <4>1. CASE Queued(m)
        <5>1. Places(m) = {"queued"}
          BY <2>1, <3>2, <3>3, <4>1 DEF SentRight, ReadRight, Arrived
        <5> QED BY <5>1
      <4>2. CASE Opening(m) \/ Writing(m)
        <5>1. Places(m) = {"sending"}
          BY <2>1, <3>2, <3>3, <4>2 DEF SentRight, ReadRight, Arrived
        <5> QED BY <5>1
      <4>3. CASE m \in dropped
        <5>1. Places(m) = {"dropped"}
          BY <2>1, <3>2, <3>3, <4>3 DEF SentRight, ReadRight, Arrived, Read
        <5> QED BY <5>1
      <4>4. CASE Arrived(m) /\ Read(m)
        <5>1. Places(m) = {"received"} \/ Places(m) = {"dispatched"}
          BY <2>1, <3>2, <3>3, <4>4 DEF SentRight, ReadRight, Arrived, Read
        <5> QED BY <5>1
      <4>5. CASE Arrived(m) /\ ~Read(m) /\ m \notin dropped
        <5>1. Places(m) = {"piped"}
          BY <2>1, <3>2, <3>3, <4>5 DEF SentRight, ReadRight, Arrived
        <5> QED BY <5>1
      <4> QED BY <2>1, <3>2, <4>1, <4>2, <4>3, <4>4, <4>5 DEF SentRight
    <3> QED BY <3>4, FS_Singleton
  <2>2. \A o \in Objects : \A i, j \in DOMAIN dispatched[o] :
          dispatched[o][i] = dispatched[o][j] /\ dispatched[o][i] # Garbage => i = j
    BY <1>1 DEF IInv, NoTwice, Once
  <2> QED BY <2>1, <2>2 DEF OnePlace
<1> QED BY <1>1, InvAlways, PTL

\* The callback is called with a buffer of zeros only after the process at the
\* other end has ended.
THEOREM ZerosAfterDeath == Spec => []GarbageAfterDeath
<1>1. IInv => GarbageAfterDeath
  BY DEF IInv, Zeros, GarbageAfterDeath
<1> QED BY <1>1, InvAlways, PTL
=============================================================================
