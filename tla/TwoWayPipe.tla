----------------------------- MODULE TwoWayPipe -----------------------------
(***************************************************************************)
(* class TwoWayPipeMessageIPC, by which the runner and the settings window *)
(* send each other messages.  Each object is the server of one named pipe  *)
(* and the client of the other's: every message travels over a connection  *)
(* of its own, which a detached thread reads.                              *)
(*                                                                         *)
(* Each of the two queues of an object is the channel of MessageChannel,   *)
(* which AsyncMessageQueue implements.  The critical sections under        *)
(* pipe_connect_handle_mutex do not block and are single steps.            *)
(***************************************************************************)
EXTENDS Sequences, FiniteSets, Naturals, TLC

CONSTANTS
    Objects,        \* the two ends
    Messages,
    From,           \* the object that sends a message
    Large,          \* messages that do not fit in the buffers of the pipe
    Garbage,        \* what a failed read leaves: a buffer of zeros
    NoMessage,
    MayFail,        \* calls to Windows that may fail for reasons not modelled
    MayEnd,         \* objects whose process may call end()
    MayDie          \* objects whose process may end at any time

\* a pipe instance no client has connected to
Listening == "listening"

ASSUME PipeAssumption ==
    /\ \E o, p \in Objects : o # p /\ Objects = {o, p}
    /\ From \in [Messages -> Objects]
    /\ Large \subseteq Messages
    /\ Garbage \notin Messages /\ NoMessage \notin Messages
    /\ Listening \notin Messages \cup {NoMessage}
    /\ MayFail \subseteq {"open", "write", "create"}
    /\ MayEnd \subseteq Objects /\ MayDie \subseteq Objects

Peer(o) == CHOOSE p \in Objects : p # o
To(m)   == Peer(From[m])

VARIABLES
    alive,          \* the process that holds the object runs
    closed,
    ender,          \* where the thread in end() is
    missed,         \* history: whose end() cancelled before the server thread waited
    output_queue, output_interrupted, output,   \* output: its thread
    input_queue, input_interrupted, input,      \* input: its thread
    server,         \* the pipe server thread
    handle,         \* current_connect_pipe_handle is not NULL
    client,         \* the sending side of each message's connection
    handler,        \* the thread that reads each message's connection
    sent,           \* messages passed to send()
    dispatched,     \* what the callback of each object was called with
    dropped         \* messages given up after they left the output queue

outs == <<output_queue, output_interrupted, output>>
ins  == <<input_queue, input_interrupted, input>>
ends == <<alive, closed, ender, missed>>
vars == <<ends, outs, ins, server, handle, client, handler, sent, dispatched,
          dropped>>

\* inst: the pipe instance the server holds; a message when its client has
\* connected to it.  connected: what ConnectNamedPipe has told the server.
Servers ==
    [pc        : {"check", "create", "listen", "connect", "clear", "hand", "ended"},
     inst      : Messages \cup {NoMessage, Listening},
     connected : BOOLEAN]

Outputs == [pc  : {"check", "pop", "open", "busy", "write", "close", "ended"},
            msg : Messages \cup {NoMessage}]

TypeOK ==
    /\ alive \in [Objects -> BOOLEAN]
    /\ closed \in [Objects -> BOOLEAN]
    /\ ender \in [Objects -> {"open", "input", "output", "cancel", "server", "ended"}]
    /\ missed \subseteq Objects
    /\ output_queue \in [Objects -> Seq(Messages)]
    /\ output_interrupted \in [Objects -> BOOLEAN]
    /\ output \in [Objects -> Outputs]
    /\ input_queue \in [Objects -> Seq(Messages \cup {Garbage})]
    /\ input_interrupted \in [Objects -> BOOLEAN]
    /\ input \in [Objects -> {"check", "pop", "ended"}]
    /\ server \in [Objects -> Servers]
    /\ handle \in [Objects -> BOOLEAN]
    /\ client \in [Messages -> {"none", "open", "written", "closed", "leaked", "broken"}]
    /\ handler \in [Messages -> {"none", "read", "close", "done"}]
    /\ sent \subseteq Messages
    /\ dispatched \in [Objects -> Seq(Messages \cup {Garbage})]
    /\ dropped \subseteq Messages

\* Both objects have been constructed and started
Init ==
    /\ alive = [o \in Objects |-> TRUE]
    /\ closed = [o \in Objects |-> FALSE]
    /\ ender = [o \in Objects |-> "open"]
    /\ missed = {}
    /\ output_queue = [o \in Objects |-> <<>>]
    /\ output_interrupted = [o \in Objects |-> FALSE]
    /\ output = [o \in Objects |-> [pc |-> "check", msg |-> NoMessage]]
    /\ input_queue = [o \in Objects |-> <<>>]
    /\ input_interrupted = [o \in Objects |-> FALSE]
    /\ input = [o \in Objects |-> "check"]
    /\ server = [o \in Objects |-> [pc |-> "check", inst |-> NoMessage,
                                    connected |-> FALSE]]
    /\ handle = [o \in Objects |-> FALSE]
    /\ client = [m \in Messages |-> "none"]
    /\ handler = [m \in Messages |-> "none"]
    /\ sent = {}
    /\ dispatched = [o \in Objects |-> <<>>]
    /\ dropped = {}

-----------------------------------------------------------------------------
(* Pipe instances (Windows).                                               *)

HasListener(o) == alive[o] /\ server[o].inst = Listening

\* CreateFile finds no pipe of the name when no instance is left
HasInstance(o) ==
    /\ alive[o]
    /\ \/ server[o].inst # NoMessage
       \/ \E m \in Messages : To(m) = o /\ handler[m] \in {"read", "close"}

\* The receiving side of a message's connection is open
ServerOpen(m) ==
    /\ alive[To(m)]
    /\ server[To(m)].inst = m \/ handler[m] \in {"read", "close"}

Arrived(m) == client[m] \in {"written", "closed"}
Read(m)    == handler[m] \in {"close", "done"}

-----------------------------------------------------------------------------
(* Sending.                                                                *)

Send(m) ==
    LET o == From[m] IN
    /\ alive[o] /\ ender[o] = "open"
    /\ m \notin sent
    /\ sent' = sent \cup {m}
    /\ output_queue' = [output_queue EXCEPT ![o] = Append(@, m)]
    /\ UNCHANGED <<ends, output_interrupted, output, ins, server, handle,
                   client, handler, dispatched, dropped>>

OutputAt(o, l) == alive[o] /\ output[o].pc = l
OutputGoto(o, l) == output' = [output EXCEPT ![o].pc = l]

\* while (!closed)
OutputCheck(o) ==
    /\ OutputAt(o, "check")
    /\ OutputGoto(o, IF closed[o] THEN "ended" ELSE "pop")
    /\ UNCHANGED <<ends, output_queue, output_interrupted, ins, server, handle,
                   client, handler, sent, dispatched, dropped>>

\* mutant: the front of the queue is returned and not taken off
OutputPop_KeepsFront(o) ==
    /\ OutputAt(o, "pop")
    /\ \/ /\ output_interrupted[o]
          /\ OutputGoto(o, "ended")
       \/ /\ ~output_interrupted[o]
          /\ output_queue[o] # <<>>
          /\ output' = [output EXCEPT ![o] = [pc  |-> "open",
                                              msg |-> Head(output_queue[o])]]
    /\ UNCHANGED <<ends, output_queue, output_interrupted, ins, server, handle,
                   client, handler, sent, dispatched, dropped>>

\* pop_message: the empty string of an interrupted queue ends the loop
OutputPop(o) ==
    /\ OutputAt(o, "pop")
    /\ \/ /\ output_interrupted[o]
          /\ OutputGoto(o, "ended")
          /\ UNCHANGED output_queue
       \/ /\ ~output_interrupted[o]
          /\ output_queue[o] # <<>>
          /\ output' = [output EXCEPT ![o] = [pc  |-> "open",
                                              msg |-> Head(output_queue[o])]]
          /\ output_queue' = [output_queue EXCEPT ![o] = Tail(@)]
    /\ UNCHANGED <<ends, output_interrupted, ins, server, handle, client,
                   handler, sent, dispatched, dropped>>

\* send_pipe_message returns without having sent the message
GiveUpMessage(o) ==
    /\ OutputGoto(o, "check")
    /\ dropped' = dropped \cup {output[o].msg}

\* CreateFile connects to the listening instance
OpenPipe(o) ==
    LET m == output[o].msg IN
    /\ OutputAt(o, "open")
    /\ HasListener(Peer(o))
    /\ server' = [server EXCEPT ![Peer(o)].inst = m]
    /\ client' = [client EXCEPT ![m] = "open"]
    /\ OutputGoto(o, "write")
    /\ UNCHANGED <<ends, output_queue, output_interrupted, ins, handle,
                   handler, sent, dispatched, dropped>>

\* any error but ERROR_PIPE_BUSY, such as no instance at all
OpenFails(o) ==
    /\ OutputAt(o, "open")
    /\ ~HasInstance(Peer(o)) \/ "open" \in MayFail
    /\ GiveUpMessage(o)
    /\ UNCHANGED <<ends, output_queue, output_interrupted, ins, server, handle,
                   client, handler, sent, dispatched>>

OpenBusy(o) ==
    /\ OutputAt(o, "open")
    /\ HasInstance(Peer(o)) /\ ~HasListener(Peer(o))
    /\ OutputGoto(o, "busy")
    /\ UNCHANGED <<ends, output_queue, output_interrupted, ins, server, handle,
                   client, handler, sent, dispatched, dropped>>

\* mutant: WaitNamedPipe waits for as long as it takes
WaitPipe_Forever(o) ==
    /\ OutputAt(o, "busy")
    /\ \/ /\ HasListener(Peer(o))
          /\ OutputGoto(o, "open")
          /\ UNCHANGED dropped
       \/ /\ ~HasInstance(Peer(o))
          /\ GiveUpMessage(o)
    /\ UNCHANGED <<ends, output_queue, output_interrupted, ins, server, handle,
                   client, handler, sent, dispatched>>

\* WaitNamedPipe: an instance listens again, none is left, or 20 seconds pass
WaitPipe(o) ==
    /\ OutputAt(o, "busy")
    /\ \/ /\ HasListener(Peer(o))
          /\ OutputGoto(o, "open")
          /\ UNCHANGED dropped
       \/ /\ ~HasListener(Peer(o))
          /\ GiveUpMessage(o)
    /\ UNCHANGED <<ends, output_queue, output_interrupted, ins, server, handle,
                   client, handler, sent, dispatched>>

\* SetNamedPipeHandleState and WriteFile succeed
WritePipe(o) ==
    LET m == output[o].msg IN
    /\ OutputAt(o, "write")
    /\ ServerOpen(m)
    /\ client' = [client EXCEPT ![m] = "written"]
    /\ OutputGoto(o, "close")
    /\ UNCHANGED <<ends, output_queue, output_interrupted, ins, server, handle,
                   handler, sent, dispatched, dropped>>

\* what makes one of them fail: the server has gone away, for a message that
\* needs several reads also half-way
WriteFailure(o) ==
    LET m == output[o].msg IN
    \/ OutputAt(o, "write") /\ (~ServerOpen(m) \/ "write" \in MayFail)
    \/ OutputAt(o, "close") /\ m \in Large /\ ~Read(m) /\ ~ServerOpen(m)

\* mutant: the pipe handle is closed on every path
WriteFails_Closes(o) ==
    /\ WriteFailure(o)
    /\ client' = [client EXCEPT ![output[o].msg] = "broken"]
    /\ GiveUpMessage(o)
    /\ UNCHANGED <<ends, output_queue, output_interrupted, ins, server, handle,
                   handler, sent, dispatched>>

\* one of them fails: the thread returns and leaves the pipe handle open
WriteFails(o) ==
    /\ WriteFailure(o)
    /\ client' = [client EXCEPT ![output[o].msg] = "leaked"]
    /\ GiveUpMessage(o)
    /\ UNCHANGED <<ends, output_queue, output_interrupted, ins, server, handle,
                   handler, sent, dispatched>>

\* WriteFile returns, which for a large message takes its reader; CloseHandle
ClosePipe(o) ==
    LET m == output[o].msg IN
    /\ OutputAt(o, "close")
    /\ m \in Large => Read(m)
    /\ client' = [client EXCEPT ![m] = "closed"]
    /\ OutputGoto(o, "check")
    /\ UNCHANGED <<ends, output_queue, output_interrupted, ins, server, handle,
                   handler, sent, dispatched, dropped>>

-----------------------------------------------------------------------------
(* The pipe server.                                                        *)

ServerAt(o, l) == alive[o] /\ server[o].pc = l
ServerGoto(o, l) == server' = [server EXCEPT ![o].pc = l]

\* while (!closed)
ServerCheck(o) ==
    /\ ServerAt(o, "check")
    /\ ServerGoto(o, IF closed[o] THEN "ended" ELSE "create")
    /\ UNCHANGED <<ends, outs, ins, handle, client, handler, sent, dispatched,
                   dropped>>

CreateInstance(o) ==
    /\ ServerAt(o, "create")
    /\ server' = [server EXCEPT ![o].pc = "listen", ![o].inst = Listening]
    /\ handle' = [handle EXCEPT ![o] = TRUE]
    /\ UNCHANGED <<ends, outs, ins, client, handler, sent, dispatched, dropped>>

CreateFails(o) ==
    /\ ServerAt(o, "create")
    /\ "create" \in MayFail
    /\ ServerGoto(o, "ended")
    /\ UNCHANGED <<ends, outs, ins, handle, client, handler, sent, dispatched,
                   dropped>>

\* ConnectNamedPipe is called: it returns at once when a client has connected
\* already, with an error when that client has closed its end again
CallConnect(o) ==
    LET m == server[o].inst IN
    /\ ServerAt(o, "listen")
    /\ server' = [server EXCEPT ![o].pc = IF m = Listening THEN "connect" ELSE "clear",
                                ![o].connected = m # Listening
                                                   /\ client[m] \notin {"closed", "broken"}]
    /\ UNCHANGED <<ends, outs, ins, handle, client, handler, sent, dispatched,
                   dropped>>

\* it returns because a client connects
Connected(o) ==
    /\ ServerAt(o, "connect")
    /\ server[o].inst # Listening
    /\ server' = [server EXCEPT ![o].pc = "clear", ![o].connected = TRUE]
    /\ UNCHANGED <<ends, outs, ins, handle, client, handler, sent, dispatched,
                   dropped>>

ClearHandle(o) ==
    /\ ServerAt(o, "clear")
    /\ handle' = [handle EXCEPT ![o] = FALSE]
    /\ ServerGoto(o, "hand")
    /\ UNCHANGED <<ends, outs, ins, client, handler, sent, dispatched, dropped>>

\* mutant: the result of ConnectNamedPipe is not looked at
StartHandler_Unconnected(o) ==
    /\ ServerAt(o, "hand")
    /\ handler' = server[o].inst :> "read" @@ handler
    /\ server' = [server EXCEPT ![o].pc = "check", ![o].inst = NoMessage]
    /\ UNCHANGED <<ends, outs, ins, handle, client, sent, dispatched, dropped>>

\* a detached thread takes the connection over
StartHandler(o) ==
    /\ ServerAt(o, "hand")
    /\ server[o].connected
    /\ handler' = [handler EXCEPT ![server[o].inst] = "read"]
    /\ server' = [server EXCEPT ![o].pc = "check", ![o].inst = NoMessage]
    /\ UNCHANGED <<ends, outs, ins, handle, client, sent, dispatched, dropped>>

\* "Client could not connect": CloseHandle, with what a client has written
CloseInstance(o) ==
    LET m == server[o].inst IN
    /\ ServerAt(o, "hand")
    /\ ~server[o].connected
    /\ dropped' = IF m # Listening /\ Arrived(m) THEN dropped \cup {m} ELSE dropped
    /\ server' = [server EXCEPT ![o].pc = "check", ![o].inst = NoMessage]
    /\ UNCHANGED <<ends, outs, ins, handle, client, handler, sent, dispatched>>

-----------------------------------------------------------------------------
(* Receiving.                                                              *)

\* the reads of handle_pipe_connection, and queue_message.  A read that fails
\* before any data arrived leaves the zeros the buffer was made of.
HandleConnection(m) ==
    LET o == To(m) IN
    /\ alive[o] /\ handler[m] = "read"
    /\ Arrived(m) \/ client[m] = "broken"
    /\ input_queue' = [input_queue EXCEPT
                         ![o] = Append(@, IF Arrived(m) THEN m ELSE Garbage)]
    /\ handler' = [handler EXCEPT ![m] = "close"]
    /\ UNCHANGED <<ends, outs, input_interrupted, input, server, handle,
                   client, sent, dispatched, dropped>>

\* FlushFileBuffers, DisconnectNamedPipe, CloseHandle
CloseConnection(m) ==
    /\ alive[To(m)] /\ handler[m] = "close"
    /\ handler' = [handler EXCEPT ![m] = "done"]
    /\ UNCHANGED <<ends, outs, ins, server, handle, client, sent, dispatched,
                   dropped>>

InputAt(o, l) == alive[o] /\ input[o] = l

InputCheck(o) ==
    /\ InputAt(o, "check")
    /\ input' = [input EXCEPT ![o] = IF closed[o] THEN "ended" ELSE "pop"]
    /\ UNCHANGED <<ends, outs, input_queue, input_interrupted, server, handle,
                   client, handler, sent, dispatched, dropped>>

\* pop_message and the callback
InputPop(o) ==
    /\ InputAt(o, "pop")
    /\ \/ /\ input_interrupted[o]
          /\ input' = [input EXCEPT ![o] = "ended"]
          /\ UNCHANGED <<input_queue, dispatched>>
       \/ /\ ~input_interrupted[o]
          /\ input_queue[o] # <<>>
          /\ dispatched' = [dispatched EXCEPT ![o] = Append(@, Head(input_queue[o]))]
          /\ input_queue' = [input_queue EXCEPT ![o] = Tail(@)]
          /\ input' = [input EXCEPT ![o] = "check"]
    /\ UNCHANGED <<ends, outs, input_interrupted, server, handle, client,
                   handler, sent, dropped>>

-----------------------------------------------------------------------------
(* end(), called by one thread of the object's process, and exits.         *)

EnderAt(o, l) == alive[o] /\ ender[o] = l
EnderGoto(o, l) == ender' = [ender EXCEPT ![o] = l]

End(o) ==
    /\ o \in MayEnd
    /\ EnderAt(o, "open")
    /\ closed' = [closed EXCEPT ![o] = TRUE]
    /\ input_interrupted' = [input_interrupted EXCEPT ![o] = TRUE]
    /\ EnderGoto(o, "input")
    /\ UNCHANGED <<alive, missed, outs, input_queue, input, server, handle, client,
                   handler, sent, dispatched, dropped>>

\* the input thread has been joined
EndJoinInput(o) ==
    /\ EnderAt(o, "input")
    /\ input[o] = "ended"
    /\ output_interrupted' = [output_interrupted EXCEPT ![o] = TRUE]
    /\ EnderGoto(o, "output")
    /\ UNCHANGED <<alive, closed, missed, output_queue, output, ins, server, handle,
                   client, handler, sent, dispatched, dropped>>

\* the output thread has been joined
EndJoinOutput(o) ==
    /\ EnderAt(o, "output")
    /\ output[o].pc = "ended"
    /\ EnderGoto(o, "cancel")
    /\ UNCHANGED <<alive, closed, missed, outs, ins, server, handle, client,
                   handler, sent, dispatched, dropped>>

\* the server thread has still to call ConnectNamedPipe, and will
ToConnect(o) == server[o].pc \in {"create", "listen"}

\* mutant: nothing is cancelled
EndCancel_Skips(o) ==
    /\ EnderAt(o, "cancel")
    /\ missed' = IF ToConnect(o) THEN missed \cup {o} ELSE missed
    /\ EnderGoto(o, "server")
    /\ UNCHANGED <<alive, closed, outs, ins, server, handle, client, handler, sent,
                   dispatched, dropped>>

\* CancelIoEx ends a ConnectNamedPipe that waits; it cannot end one that is
\* not there yet
EndCancel(o) ==
    /\ EnderAt(o, "cancel")
    /\ IF handle[o] /\ ServerAt(o, "connect") /\ HasListener(o)
       THEN server' = [server EXCEPT ![o].pc = "clear", ![o].connected = FALSE]
       ELSE UNCHANGED server
    /\ missed' = IF ToConnect(o) THEN missed \cup {o} ELSE missed
    /\ EnderGoto(o, "server")
    /\ UNCHANGED <<alive, closed, outs, ins, handle, client, handler, sent,
                   dispatched, dropped>>

EndJoinServer(o) ==
    /\ EnderAt(o, "server")
    /\ server[o].pc = "ended"
    /\ EnderGoto(o, "ended")
    /\ UNCHANGED <<alive, closed, missed, outs, ins, server, handle, client,
                   handler, sent, dispatched, dropped>>

\* The process ends: its ends of all pipes are closed.  What it had written
\* stays readable, but a message it was still writing is cut short.
Die(o) ==
    LET cut == {m \in Messages : From[m] = o /\ client[m] = "written"
                                   /\ m \in Large /\ ~Read(m)} IN
    /\ o \in MayDie
    /\ alive[o]
    /\ alive' = [alive EXCEPT ![o] = FALSE]
    /\ client' = [m \in Messages |->
                    IF From[m] # o THEN client[m]
                    ELSE IF m \in cut \/ client[m] \in {"open", "leaked"} THEN "broken"
                    ELSE IF client[m] = "written" THEN "closed"
                    ELSE client[m]]
    /\ dropped' = dropped \cup cut
    /\ UNCHANGED <<closed, ender, missed, outs, ins, server, handle, handler, sent,
                   dispatched>>

-----------------------------------------------------------------------------
OutputThread(o) ==
    \/ OutputCheck(o) \/ OutputPop(o)
    \/ OpenPipe(o) \/ OpenFails(o) \/ OpenBusy(o) \/ WaitPipe(o)
    \/ WritePipe(o) \/ WriteFails(o) \/ ClosePipe(o)

ServerThread(o) ==
    \/ ServerCheck(o) \/ CreateInstance(o) \/ CreateFails(o)
    \/ CallConnect(o) \/ Connected(o) \/ ClearHandle(o)
    \/ StartHandler(o) \/ CloseInstance(o)

InputThread(o)   == InputCheck(o) \/ InputPop(o)
HandlerThread(m) == HandleConnection(m) \/ CloseConnection(m)

EndThread(o) ==
    \/ EndJoinInput(o) \/ EndJoinOutput(o) \/ EndCancel(o) \/ EndJoinServer(o)

Next ==
    \/ \E m \in Messages : Send(m) \/ HandlerThread(m)
    \/ \E o \in Objects : \/ OutputThread(o) \/ ServerThread(o)
                          \/ InputThread(o) \/ End(o) \/ EndThread(o) \/ Die(o)

Spec == Init /\ [][Next]_vars

\* Every thread runs.  Nobody has to send, to call end() or to die.
Fairness ==
    /\ \A o \in Objects : /\ WF_vars(OutputThread(o)) /\ WF_vars(ServerThread(o))
                          /\ WF_vars(InputThread(o)) /\ WF_vars(EndThread(o))
    /\ \A m \in Messages : WF_vars(HandlerThread(m))

FairSpec == Spec /\ Fairness

-----------------------------------------------------------------------------
Elements(q) == {q[i] : i \in DOMAIN q}

\* Where a message that has been sent is.  A connection holds it from the
\* write to the read.
Places(m) ==
    LET s == From[m]
        r == To(m)
    IN  {p \in {"queued", "sending", "piped", "received", "dispatched", "dropped"} :
           \/ p = "queued" /\ m \in Elements(output_queue[s])
           \/ p = "sending" /\ output[s].pc \in {"open", "busy", "write"}
                            /\ output[s].msg = m
           \/ p = "piped" /\ Arrived(m) /\ ~Read(m) /\ m \notin dropped
           \/ p = "received" /\ m \in Elements(input_queue[r])
           \/ p = "dispatched" /\ m \in Elements(dispatched[r])
           \/ p = "dropped" /\ m \in dropped}

\* A message is in one place at a time, and the callback sees it once at most,
\* although no thread that passes it on waits for the next.
OnePlace ==
    /\ \A m \in sent : Cardinality(Places(m)) = 1
    /\ \A o \in Objects : \A i, j \in DOMAIN dispatched[o] :
         dispatched[o][i] = dispatched[o][j] /\ dispatched[o][i] # Garbage => i = j

\* The callback gets a buffer of zeros only after the other process has ended:
\* as long as it lives, a connection without a message is never closed.
GarbageAfterDeath ==
    \A o \in Objects : Garbage \in Elements(dispatched[o]) => ~alive[Peer(o)]

\* No message holds up those behind it for ever.
SenderNeverStuck ==
    \A o \in {From[m] : m \in Messages} :
      output[o].pc \in {"open", "busy", "write", "close"}
        ~> output[o].pc \in {"check", "pop", "ended"} \/ ~alive[o]

Ending(o) == ender[o] \notin {"open", "ended"}

\* end() returns, or its last join waits for a server thread in ConnectNamedPipe
\* that had tested closed but not yet made that call when CancelIoEx was done.  A
\* thread that was in the call, or past it, is always joined.
EndHangsOnlyInConnect ==
    \A o \in MayEnd :
      Ending(o) ~> \/ ender[o] = "ended" \/ ~alive[o]
                   \/ /\ ender[o] = "server" /\ server[o].pc = "connect"
                      /\ o \in missed
=============================================================================
