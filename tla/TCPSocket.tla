------------------------------- MODULE TCPSocket -------------------------------
(***************************************************************************)
(* The class TCPSocket, with everybody who touches one: the user's thread, *)
(* the socket's own run loop, the thread of its connector when it connects *)
(* (a Remote socket), and the peer and the kernel at the other end of the  *)
(* descriptor.                                                             *)
(*                                                                         *)
(* The user's thread calls write() directly; read(), closeWrite(), close(),*)
(* open() and continueFinished() post tasks.  The connector of a Remote    *)
(* socket calls back on the connector's thread, and there the socket's     *)
(* state is tested and assigned in two steps, because the socket's own     *)
(* thread runs meanwhile.  How the connector comes to its one answer is    *)
(* module TCPConnector.                                                    *)
(*                                                                         *)
(* The user of the model is like the one of tests/test_tcpsocket.cpp: a    *)
(* handler, set before the loop runs, that answers HasBytesAvailable with  *)
(* read() and EndEncountered with closeWrite(); beyond that the user's     *)
(* thread makes each call of Calls at most once, at any moment.  A user's  *)
(* stop() is left to module Runloop.                                       *)
(***************************************************************************)
EXTENDS CommunicatorStateMachine, EventLoop, FiniteSets

CONSTANTS Kinds,      \* of socket: "Local", accepted by TCPAcceptor; "Remote", connects
          Blocks,     \* recv() on an accepted descriptor blocks, as on Linux
          Calls,      \* what the user's thread calls, each at most once
          MaxBytes    \* bound: how often the peer of each kind sends

AllCalls == {"open", "continueFinished", "connect", "read", "write", "closeWrite", "close"}

ASSUME KindAssumption == Kinds \subseteq Types /\ Blocks \in BOOLEAN

ASSUME CallsAssumption == Calls \subseteq AllCalls /\ MaxBytes \in [Types -> Nat]

\* What a user calls on a socket of each kind.  On a descriptor that blocks read()
\* is left to the handler: called unasked it would hold the loop's thread.
CallsOn(kind) == Calls \ IF kind = "Remote" THEN {"open", "continueFinished"}
                         ELSE IF Blocks THEN {"connect", "read"} ELSE {"connect"}

VARIABLES m,          \* _stateMachine
          loop,       \* _runloop
          fd,         \* what _socket names: "none", "open" or "closed"
          net,        \* the descriptor's receive side, and our end of stream
          connector,  \* where the connector's thread is in its callback
          writer,     \* where the user's thread is in write(): "idle" if it is not
          todo,       \* the calls the user has not made
          told        \* how often each event was delivered

vars == <<m, loop, fd, net, connector, writer, todo, told>>

Events == {"OpenCompleted", "HasBytesAvailable", "HasSpaceAvailable",
           "EndEncountered", "ErrorOccurred"}

\* sent counts what the peer has sent, bytes what of it is still unread; urgent
\* is the exceptional condition of select(), shut our own end of stream.
NewNet == [sent |-> 0, bytes |-> 0, fin |-> FALSE, reset |-> FALSE,
           urgent |-> FALSE, shut |-> FALSE]

Places == {"test", "testClosed", "locking", "asleep", "drain", "select", "recv",
           "shutdown", "over", "killed"}

ConnectorSteps == {"none", "dialling", "handover", "connected", "assign", "tell", "done"}

Init == /\ m \in {NewMachine(kind) : kind \in Kinds}
        /\ loop = run(NewLoop)
        /\ fd = IF m.type = "Local" THEN "open" ELSE "none"
        /\ net = NewNet
        /\ connector = "none"
        /\ writer = "idle"
        /\ todo = CallsOn(m.type)
        /\ told = [e \in Events |-> 0]

\* Counted to 2: none, one, more than one.
Tell(e) == told' = [told EXCEPT ![e] = IF @ < 2 THEN @ + 1 ELSE @]

closeSocket == fd' = IF fd = "open" THEN "closed" ELSE fd

(* The user's thread *)

\* A user of a Remote socket connects it first, as the tests do; no task can
\* then run between the guard and the assignment of connectBegin.
Calling(c) == /\ c \in todo
              /\ "connect" \in todo => c = "connect"
              /\ writer = "idle"
              /\ todo' = todo \ {c}

\* These calls post a task; open() comes before continueFinished().
PostingCalls == {"open", "continueFinished", "read", "closeWrite", "close"}

CallPosts(c) == /\ Calling(c)
                /\ c = "continueFinished" => "open" \notin todo
                /\ loop' = post(loop, c)
                /\ UNCHANGED <<m, fd, net, connector, writer, told>>

\* connect() starts the connector; the state changes on this thread.
CallConnect == /\ Calling("connect")
               /\ m' = connectBegin(m)
               /\ connector' = "dialling"
               /\ UNCHANGED <<loop, fd, net, writer, told>>

CallWrite == /\ Calling("write")
             /\ m' = writeBegin(m)
             /\ writer' = "sending"
             /\ UNCHANGED <<loop, fd, net, connector, told>>

\* The send succeeds or fails, write() does not look.
WriteReturns == /\ writer = "sending"
                /\ m' = writeEnd(m)
                /\ writer' = "idle"
                /\ UNCHANGED <<loop, fd, net, connector, todo, told>>

\* Sending with flags 0 on a stream that is reset, or that we have shut down, raises
\* SIGPIPE where SO_NOSIGPIPE is not set: if nobody handles it, it ends the process,
\* with every thread of it.
WriteKilled == /\ writer = "sending"
               /\ fd = "open" /\ (net.reset \/ net.shut)
               /\ writer' = "killed"
               /\ loop' = Goto(loop, "killed")
               /\ connector' = IF connector = "none" THEN "none" ELSE "done"
               /\ UNCHANGED <<m, fd, net, todo, told>>

Killed == writer = "killed"

User == \/ \E c \in PostingCalls : CallPosts(c)
        \/ CallConnect \/ CallWrite \/ WriteReturns \/ WriteKilled

(* The connector's thread: the handler TCPSocket::connect installs *)

DialSucceeds_keeps ==          \* mutant: _socket = socket is forgotten
  /\ connector = "dialling"
  /\ connector' = "connected"
  /\ UNCHANGED <<m, loop, fd, net, writer, todo, told>>

DialSucceeds == /\ connector = "dialling"
                /\ connector' = "handover"
                /\ UNCHANGED <<m, loop, fd, net, writer, todo, told>>

\* Refused or timed out: the socket is closed by this thread.
DialFails == /\ connector = "dialling"
             /\ m' = errored(m)
             /\ Tell("ErrorOccurred")
             /\ connector' = "done"
             /\ UNCHANGED <<loop, fd, net, writer, todo>>

\* The connector's socket() failed: its thread is gone and nobody is told.
DialDies == /\ connector = "dialling"
            /\ connector' = "done"
            /\ UNCHANGED <<m, loop, fd, net, writer, todo, told>>

\* _socket = socket
HandOver == /\ connector = "handover"
            /\ fd' = "open"
            /\ connector' = "connected"
            /\ UNCHANGED <<m, loop, net, writer, todo, told>>

ConnectedGuard_blind ==        \* mutant: connected() without its guard
  /\ connector = "connected"
  /\ connector' = "assign"
  /\ UNCHANGED <<m, loop, fd, net, writer, todo, told>>

\* connected(): the guard, and then the assignment ...
ConnectedGuard == /\ connector = "connected"
                  /\ connector' = IF m.state \in {"Init", "Establishing"}
                                  THEN "assign" ELSE "tell"
                  /\ UNCHANGED <<m, loop, fd, net, writer, todo, told>>

ConnectedAssign == /\ connector = "assign"
                   /\ m' = [m EXCEPT !.state = "Established"]
                   /\ connector' = "tell"
                   /\ UNCHANGED <<loop, fd, net, writer, todo, told>>

\* ... and the event.  Nothing is posted to the socket's own loop.
TellOpen == /\ connector = "tell"
            /\ Tell("OpenCompleted")
            /\ connector' = "done"
            /\ UNCHANGED <<m, loop, fd, net, writer, todo>>

Connector == \/ DialSucceeds \/ DialFails \/ DialDies
             \/ HandOver \/ ConnectedGuard \/ ConnectedAssign \/ TellOpen

(* The peer, once there is a connection: before the socket has it, too *)

Peer(n) == /\ fd = "open" \/ connector = "handover"
           /\ ~net.reset
           /\ net' = n
           /\ UNCHANGED <<m, loop, fd, connector, writer, todo, told>>

PeerSends == /\ ~net.fin /\ net.sent < MaxBytes[m.type]
             /\ Peer([net EXCEPT !.sent = @ + 1, !.bytes = @ + 1])

PeerEnds == ~net.fin /\ Peer([net EXCEPT !.fin = TRUE])

PeerResets == Peer([net EXCEPT !.reset = TRUE])

PeerUrgent == ~net.urgent /\ ~net.fin /\ Peer([net EXCEPT !.urgent = TRUE])

PeerStep == PeerSends \/ PeerEnds \/ PeerResets \/ PeerUrgent

(* The socket's run loop: the handler *)

Others == UNCHANGED <<net, connector, writer, todo>>

Test_leaks ==                  \* mutant: the loop ends without closeSocket()
  /\ loop.pc = "test"
  /\ loop' = Goto(loop, IF loop.canceled THEN "over"
                        ELSE IF m.state = "Established" THEN "select" ELSE "testClosed")
  /\ UNCHANGED <<m, fd, told>> /\ Others

Test_waits ==                  \* mutant: work is awaited before every select
  /\ loop.pc = "test"
  /\ loop' = Goto(loop, IF loop.canceled THEN "over" ELSE "testClosed")
  /\ UNCHANGED <<m, fd, told>> /\ Others

\* while (!isCanceled()): select while Established.  The socket is closed when
\* the loop ends.
Test == /\ loop.pc = "test"
        /\ IF loop.canceled
           THEN loop' = Goto(loop, "over") /\ closeSocket
           ELSE /\ loop' = Goto(loop, IF m.state = "Established"
                                      THEN "select" ELSE "testClosed")
                /\ UNCHANGED fd
        /\ UNCHANGED <<m, told>> /\ Others

TestClosed_runsOn ==           \* mutant: Closed does not stop the loop
  /\ loop.pc = "testClosed"
  /\ loop' = dispatch(loop, TRUE)
  /\ UNCHANGED <<m, fd, told>> /\ Others

\* The state is read a second time: stop when Closed, and wait for work.
TestClosed == /\ loop.pc = "testClosed"
              /\ loop' = dispatch(IF m.state = "Closed" THEN stop(loop) ELSE loop, TRUE)
              /\ UNCHANGED <<m, fd, told>> /\ Others

Wait == /\ loop.pc = "locking"
        /\ loop' = waitForWork(loop)
        /\ UNCHANGED <<m, fd, told>> /\ Others

SpuriousWakeup == /\ loop.pc = "asleep"
                  /\ loop' = spuriousWakeup(loop)
                  /\ UNCHANGED <<m, fd, told>> /\ Others

Readable == fd = "open" /\ (net.bytes > 0 \/ net.fin \/ net.reset)

\* One second without an event, then dispatch().
SelectTimeout == /\ loop.pc = "select"
                 /\ fd = "open"
                 /\ ~Readable /\ ~net.urgent
                 /\ loop' = dispatch(loop, FALSE)
                 /\ UNCHANGED <<m, fd, told>> /\ Others

\* Readable: one byte is peeked.  The user's handler reads what there is ...
SelectBytes == /\ loop.pc = "select"
               /\ Readable /\ ~net.reset /\ net.bytes > 0
               /\ Tell("HasBytesAvailable")
               /\ loop' = dispatch(post(loop, "read"), FALSE)
               /\ UNCHANGED <<m, fd>> /\ Others

SelectEnd_again ==             \* mutant: readClosed() is not called
  /\ loop.pc = "select"
  /\ Readable /\ ~net.reset /\ net.bytes = 0
  /\ Tell("EndEncountered")
  /\ loop' = dispatch(loop, FALSE)
  /\ UNCHANGED <<m, fd>> /\ Others

\* ... and closes its own side at the end of the stream.
SelectEnd == /\ loop.pc = "select"
             /\ Readable /\ ~net.reset /\ net.bytes = 0
             /\ m' = readClosed(m)
             /\ Tell("EndEncountered")
             /\ loop' = dispatch(post(loop, "closeWrite"), FALSE)
             /\ UNCHANGED fd /\ Others

SelectReset == /\ loop.pc = "select"
               /\ Readable /\ net.reset
               /\ m' = errored(m)
               /\ Tell("ErrorOccurred")
               /\ loop' = dispatch(loop, FALSE)
               /\ UNCHANGED fd /\ Others

\* Only the exceptional set is ready.  writeSet is tested first and was never
\* given a value, so either branch may be taken.
SelectUrgentAsSpace == /\ loop.pc = "select"
                       /\ fd = "open" /\ ~Readable /\ net.urgent
                       /\ Tell("HasSpaceAvailable")
                       /\ loop' = dispatch(loop, FALSE)
                       /\ UNCHANGED <<m, fd>> /\ Others

SelectUrgentAsError == /\ loop.pc = "select"
                       /\ fd = "open" /\ ~Readable /\ net.urgent
                       /\ m' = errored(m)
                       /\ closeSocket
                       /\ Tell("ErrorOccurred")
                       /\ loop' = dispatch(loop, FALSE)
                       /\ Others

\* A signal, or a descriptor that is not open.
SelectFails == /\ loop.pc = "select"
               /\ m' = errored(m)
               /\ closeSocket
               /\ Tell("ErrorOccurred")
               /\ loop' = dispatch(loop, FALSE)
               /\ Others

(* The tasks *)

At(task) == loop.pc = "drain" /\ loop.queue # << >> /\ Head(loop.queue) = task

Drained == /\ loop.pc = "drain"
           /\ loop.queue = << >>
           /\ loop' = drained(loop)
           /\ UNCHANGED <<m, fd, told>> /\ Others

OpenTask == /\ At("open")
            /\ m' = connectBegin(m)
            /\ loop' = pop(loop)
            /\ UNCHANGED <<fd, told>> /\ Others

ContinueFinishedTask_blind ==  \* mutant: connected() without its guard
  /\ At("continueFinished")
  /\ m' = [m EXCEPT !.state = "Established"]
  /\ loop' = pop(loop)
  /\ UNCHANGED <<fd, told>> /\ Others

ContinueFinishedTask == /\ At("continueFinished")
                        /\ m' = connected(m)
                        /\ loop' = pop(loop)
                        /\ UNCHANGED <<fd, told>> /\ Others

\* read(): readBegin, and a recv.  With nothing to receive it fails on a
\* connected socket, which the connector made non-blocking, and blocks on an
\* accepted one unless accept() handed the acceptor's flag on, as BSD's does.
ReadTask == /\ At("read")
            /\ m' = readBegin(m)
            /\ loop' = Goto(loop, "recv")
            /\ UNCHANGED <<fd, told>> /\ Others

RecvBytes == /\ loop.pc = "recv"
             /\ fd = "open" /\ ~net.reset /\ net.bytes > 0
             /\ \E n \in 1..net.bytes : net' = [net EXCEPT !.bytes = @ - n]
             /\ m' = readEnd(m)
             /\ loop' = pop(loop)
             /\ UNCHANGED <<fd, connector, writer, todo, told>>

Blocked == /\ Blocks /\ m.type = "Local" /\ fd = "open"
           /\ net.bytes = 0 /\ ~net.fin /\ ~net.reset

\* The end of the stream, met by a read() before the loop saw it, is an error
\* like any other.
RecvFails == /\ loop.pc = "recv"
             /\ ~Blocked
             /\ ~(fd = "open" /\ ~net.reset /\ net.bytes > 0)
             /\ m' = errored(m)
             /\ Tell("ErrorOccurred")
             /\ loop' = pop(loop)
             /\ UNCHANGED fd /\ Others

\* closeWrite(): writeCloseBegin, the shutdown, writeCloseEnd.
CloseWriteTask == /\ At("closeWrite")
                  /\ m' = writeCloseBegin(m)
                  /\ loop' = Goto(loop, "shutdown")
                  /\ UNCHANGED <<fd, told>> /\ Others

ShutdownWrite == /\ loop.pc = "shutdown"
                 /\ net' = IF fd = "open" THEN [net EXCEPT !.shut = TRUE] ELSE net
                 /\ m' = writeCloseEnd(m)
                 /\ loop' = pop(loop)
                 /\ UNCHANGED <<fd, connector, writer, todo, told>>

CloseTask_unmarked ==          \* mutant: the descriptor goes, the state stays
  /\ At("close")
  /\ closeSocket
  /\ loop' = pop(loop)
  /\ UNCHANGED <<m, told>> /\ Others

CloseTask == /\ At("close")
             /\ m' = closed(m)
             /\ closeSocket
             /\ loop' = pop(loop)
             /\ UNCHANGED told /\ Others

LoopThread == \/ Test \/ TestClosed \/ Wait \/ Drained
              \/ SelectTimeout \/ SelectBytes \/ SelectEnd \/ SelectReset
              \/ SelectUrgentAsSpace \/ SelectUrgentAsError \/ SelectFails
              \/ OpenTask \/ ContinueFinishedTask \/ ReadTask \/ RecvBytes \/ RecvFails
              \/ CloseWriteTask \/ ShutdownWrite \/ CloseTask

Next == User \/ Connector \/ PeerStep \/ LoopThread \/ SpuriousWakeup

\* The scheduler runs both threads: select() is bounded by a second, a dial by
\* its timeouts.  The user and the peer owe nothing; a send may block for ever.
Fairness == WF_vars(LoopThread) /\ WF_vars(Connector)

Spec == Init /\ [][Next]_vars

FairSpec == Spec /\ Fairness
-----------------------------------------------------------------------------

TypeOK == /\ m \in Machine
          /\ loop \in Loop(PostingCalls, Places)
          /\ fd \in {"none", "open", "closed"}
          /\ net \in [sent: 0..MaxBytes[m.type], bytes: 0..MaxBytes[m.type], fin: BOOLEAN,
                     reset: BOOLEAN, urgent: BOOLEAN, shut: BOOLEAN]
          /\ net.bytes <= net.sent
          /\ connector \in ConnectorSteps
          /\ writer \in {"idle", "sending", "killed"}
          /\ todo \subseteq CallsOn(m.type)
          /\ told \in [Events -> 0..2]

Accepted == m.type = "Local"

\* The loop selects and peeks only on a descriptor it has: a connecting socket's
\* is handed over before the state says Established, and whoever closes an
\* accepted socket's has made the state Closed before the loop's next turn.
SelectsOnOpenSocket == loop.pc = "select" => /\ fd # "none"
                                             /\ Accepted => fd = "open"

\* When the loop of an accepted socket has ended the descriptor is closed,
\* whichever task, event or error ended it, and the machine is Closed.
OverMeansReleased == Accepted /\ loop.pc = "over" => fd = "closed" /\ m.state = "Closed"

\* The end of the stream is announced at most once, and not before every byte
\* the peer had sent was read.
EndAnnouncedOnce == /\ told["EndEncountered"] <= 1
                    /\ told["EndEncountered"] > 0 => net.bytes = 0 /\ m.readClosed

\* The state of an accepted socket follows the diagram of the state machine.  (The
\* diagram does not have the Established that a connector's thread may assign to
\* a socket closed after its guard; a connecting socket is not looked at.)
Lifecycle == INSTANCE ConnectionLifecycle WITH
  phase <- IF Accepted THEN m.state ELSE "Init",
  readEnded <- Accepted /\ m.readClosed, writeEnded <- Accepted /\ m.writeClosed

LifecycleSpec == Lifecycle!Spec

\* What the peer sends on an established connection is read, unless the
\* connection does not stay established.  (UsbmuxdSocket.cpp:181 posts an empty
\* task after the hand-over so that this holds of a connecting socket.)
BytesAreRead == (m.state = "Established" /\ net.bytes > 0)
                  ~> (net.bytes = 0 \/ m.state # "Established" \/ Killed)

\* Nothing of the peer goes unnoticed by an accepted socket that is established:
\* its bytes are read, and its end of stream ends the state Established.
PeerIsHeard ==
  /\ (Accepted /\ m.state = "Established" /\ net.bytes > 0)
       ~> (net.bytes = 0 \/ m.state # "Established" \/ Killed)
  /\ (Accepted /\ m.state = "Established" /\ net.fin) ~> (m.state # "Established" \/ Killed)

\* Either kind of socket serves its connection, if its loop is not about to sleep
\* or, wherever the loop is, a task is posted: between the loop's two looks at the
\* state, on its way to sleep or asleep, a wake-up after the hand-over is all that
\* a connecting socket lacks.
Serving == /\ ~loop.canceled
           /\ loop.pc \in {"testClosed", "locking", "asleep"} => loop.queue # << >>

AwakeLoopServes == (m.state = "Established" /\ net.bytes > 0 /\ Serving)
                     ~> (net.bytes = 0 \/ m.state # "Established" \/ Killed)

\* A closed socket stays closed, whatever its threads and its user still do: of
\* connected() on the connector's thread (CommunicatorStateMachine.hpp:138) only an
\* assignment whose guard came before the close may undo it.
ClosedForGood == m.state = "Closed" /\ connector # "assign"

ClosedIsFinal == [][ClosedForGood => ClosedForGood']_vars

\* close() ends the loop, wherever the loop was and whatever else happens, if
\* its task is still to run when the connector is through; and as long as nobody
\* calls read() on a blocking descriptor without being told that there are bytes.
ClosePending == \E i \in 1..Len(loop.queue) : loop.queue[i] = "close"

CloseEndsLoop == (ClosePending /\ connector \in {"none", "done"}) ~> (loop.pc = "over" \/ Killed)

\* CommunicatorStateMachine.hpp:94: in the state Closing a socket is readable
\* as long as its read side is not closed; so the bytes the peer sends after our
\* closeWrite() are read.
HalfClosedIsRead == (m.state = "Closing" /\ ~m.readClosed /\ net.bytes > 0)
                      ~> (net.bytes = 0 \/ net.reset \/ m.state = "Closed" \/ Killed)
=============================================================================
