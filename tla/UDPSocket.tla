------------------------------- MODULE UDPSocket -------------------------------
(***************************************************************************)
(* The class UDPSocket: a descriptor that is bound and non-blocking from   *)
(* the start, a run loop that selects on it, and a write() that sends, from*)
(* the thread that calls it, to the endpoint a task of connect() stores.   *)
(*                                                                         *)
(* The network delivers datagrams late, twice or never: what arrives is any*)
(* sequence.  The kernel may drop one that select() has announced (a bad   *)
(* checksum, no memory).  The user is like the one of                      *)
(* tests/test_udpsocket.cpp: a handler that answers HasBytesAvailable with *)
(* read(), a connect() before the first write(), and beyond that each call *)
(* of Calls at most once, at any moment.                                   *)
(***************************************************************************)
EXTENDS CommunicatorStateMachine, EventLoop, FiniteSets

CONSTANTS Calls,          \* what the user's thread calls
          MaxDatagrams    \* bound: how many datagrams arrive

PostingCalls == {"connect", "read", "closeWrite", "close"}

ASSUME CallsAssumption == /\ Calls \subseteq PostingCalls \cup {"write"}
                          /\ MaxDatagrams \in Nat

VARIABLES m,          \* _stateMachine
          loop,       \* _runloop
          fd,         \* what _socket names: "open" or "closed"
          endpoint,   \* _endpoint has been set
          inbox,      \* the datagrams that wait: "data" or "empty"
          arrivals,   \* how many datagrams have arrived
          writer,     \* where the user's thread is in write()
          todo,       \* the calls the user has not made
          mishaps     \* history: what has happened that may cost the socket

vars == <<m, loop, fd, endpoint, inbox, arrivals, writer, todo, mishaps>>

Places == {"test", "locking", "asleep", "drain", "select", "writeClosing", "over", "killed"}

\* The constructor opens and binds the descriptor, or throws.
Init == /\ m = NewMachine("Remote")
        /\ loop = run(NewLoop)
        /\ fd = "open"
        /\ endpoint = FALSE
        /\ inbox = << >>
        /\ arrivals = 0
        /\ writer = "idle"
        /\ todo = Calls
        /\ mishaps = {}

(* The user's thread *)

Calling(c) == /\ c \in todo
              /\ c = "write" => "connect" \notin todo
              /\ writer = "idle"
              /\ todo' = todo \ {c}

CallPosts(c) == /\ Calling(c)
                /\ loop' = post(loop, c)
                /\ mishaps' = mishaps \cup ({c} \cap {"read"})
                /\ UNCHANGED <<m, fd, endpoint, inbox, arrivals, writer>>

CallWrite == /\ Calling("write")
             /\ m' = writeBegin(m)
             /\ writer' = "address"
             /\ UNCHANGED <<loop, fd, endpoint, inbox, arrivals, mishaps>>

\* _endpoint->getEndpointSockaddrIn()
WriteAddress == /\ writer = "address"
                /\ endpoint
                /\ writer' = "sending"
                /\ UNCHANGED <<m, loop, fd, endpoint, inbox, arrivals, todo, mishaps>>

\* With no endpoint a null pointer is dereferenced: the process is gone, and the
\* kernel closes its descriptors.
WriteCrashes == /\ writer = "address"
                /\ ~endpoint
                /\ writer' = "crashed"
                /\ loop' = Goto(loop, "killed")
                /\ fd' = "closed"
                /\ inbox' = << >>
                /\ UNCHANGED <<m, endpoint, arrivals, todo, mishaps>>

WriteReturns == /\ writer = "sending"
                /\ m' = writeEnd(m)
                /\ writer' = "idle"
                /\ UNCHANGED <<loop, fd, endpoint, inbox, arrivals, todo, mishaps>>

User == \/ \E c \in PostingCalls : CallPosts(c)
        \/ CallWrite \/ WriteAddress \/ WriteCrashes \/ WriteReturns

(* The network and the kernel *)

Arrives(kind) == /\ fd = "open"
                 /\ arrivals < MaxDatagrams
                 /\ arrivals' = arrivals + 1
                 /\ inbox' = Append(inbox, kind)
                 /\ mishaps' = mishaps \cup ({kind} \cap {"empty"})
                 /\ UNCHANGED <<m, loop, fd, endpoint, writer, todo>>

Dropped == /\ inbox # << >>
           /\ inbox' = Tail(inbox)
           /\ mishaps' = mishaps \cup {"dropped"}
           /\ UNCHANGED <<m, loop, fd, endpoint, arrivals, writer, todo>>

Network == (\E kind \in {"data", "empty"} : Arrives(kind)) \/ Dropped

(* The run loop: the handler *)

Others == UNCHANGED <<arrivals, writer, todo>>

LoopOnly == UNCHANGED <<m, fd, endpoint, inbox, mishaps>> /\ Others

Test_waits ==                  \* mutant: work is awaited before every select
  /\ loop.pc = "test"
  /\ loop' = IF loop.canceled THEN Goto(loop, "over") ELSE dispatch(loop, TRUE)
  /\ LoopOnly

Test_runsOn ==                 \* mutant: Closed does not stop the loop
  /\ loop.pc = "test"
  /\ loop' = IF loop.canceled THEN Goto(loop, "over")
             ELSE IF m.state = "Established" THEN Goto(loop, "select")
             ELSE dispatch(loop, TRUE)
  /\ LoopOnly

\* while (!isCanceled()): select while Established, else stop when Closed and
\* wait for work.  The socket is closed when the loop ends.
Test == /\ loop.pc = "test"
        /\ IF loop.canceled
           THEN loop' = Goto(loop, "over") /\ fd' = "closed" /\ inbox' = << >>
           ELSE /\ loop' = IF m.state = "Established" THEN Goto(loop, "select")
                           ELSE IF m.state = "Closed" THEN dispatch(stop(loop), TRUE)
                           ELSE dispatch(loop, TRUE)
                /\ UNCHANGED <<fd, inbox>>
        /\ UNCHANGED <<m, endpoint, mishaps>> /\ Others

Wait == /\ loop.pc = "locking"
        /\ loop' = waitForWork(loop)
        /\ LoopOnly

SpuriousWakeup == /\ loop.pc = "asleep"
                  /\ loop' = spuriousWakeup(loop)
                  /\ LoopOnly

\* One second without a datagram, then dispatch().
SelectTimeout == /\ loop.pc = "select"
                 /\ inbox = << >>
                 /\ loop' = dispatch(loop, FALSE)
                 /\ LoopOnly

SelectReadable_twice ==        \* mutant: a datagram is announced twice
  /\ loop.pc = "select"
  /\ inbox # << >>
  /\ loop' = dispatch(post(post(loop, "read"), "read"), FALSE)
  /\ LoopOnly

\* HasBytesAvailable: the user's handler reads.
SelectReadable == /\ loop.pc = "select"
                  /\ inbox # << >>
                  /\ loop' = dispatch(post(loop, "read"), FALSE)
                  /\ LoopOnly

SelectFails == /\ loop.pc = "select"
               /\ m' = errored(m)
               /\ mishaps' = mishaps \cup {"select"}
               /\ loop' = dispatch(loop, FALSE)
               /\ UNCHANGED <<fd, endpoint, inbox>> /\ Others

(* The tasks *)

At(task) == loop.pc = "drain" /\ loop.queue # << >> /\ Head(loop.queue) = task

Drained == /\ loop.pc = "drain"
           /\ loop.queue = << >>
           /\ loop' = drained(loop)
           /\ LoopOnly

ConnectTask == /\ At("connect")
               /\ m' = connected(connectBegin(m))
               /\ endpoint' = TRUE
               /\ loop' = pop(loop)
               /\ UNCHANGED <<fd, inbox, mishaps>> /\ Others

\* read(): a datagram with content is handed over; an empty one, or none, is an
\* error and closes the machine.
ReadTask == /\ At("read")
            /\ m' = IF inbox # << >> /\ Head(inbox) = "data"
                    THEN readEnd(readBegin(m)) ELSE errored(readBegin(m))
            /\ inbox' = IF inbox = << >> THEN << >> ELSE Tail(inbox)
            /\ loop' = pop(loop)
            /\ UNCHANGED <<fd, endpoint, mishaps>> /\ Others

CloseWriteTask == /\ At("closeWrite")
                  /\ m' = writeCloseBegin(m)
                  /\ loop' = Goto(loop, "writeClosing")
                  /\ UNCHANGED <<fd, endpoint, inbox, mishaps>> /\ Others

WriteCloseEnd == /\ loop.pc = "writeClosing"
                 /\ m' = writeCloseEnd(m)
                 /\ loop' = pop(loop)
                 /\ UNCHANGED <<fd, endpoint, inbox, mishaps>> /\ Others

CloseTask == /\ At("close")
             /\ m' = closed(m)
             /\ loop' = pop(loop)
             /\ UNCHANGED <<fd, endpoint, inbox, mishaps>> /\ Others

LoopThread == \/ Test \/ Wait \/ Drained
              \/ SelectTimeout \/ SelectReadable \/ SelectFails
              \/ ConnectTask \/ ReadTask \/ CloseTask
              \/ CloseWriteTask \/ WriteCloseEnd

Next == User \/ Network \/ LoopThread \/ SpuriousWakeup

\* The scheduler runs the loop's thread; select() is bounded by a second.
Fairness == WF_vars(LoopThread)

Spec == Init /\ [][Next]_vars

FairSpec == Spec /\ Fairness
-----------------------------------------------------------------------------

TypeOK == /\ m \in Machine
          /\ loop \in Loop(PostingCalls, Places)
          /\ fd \in {"open", "closed"}
          /\ endpoint \in BOOLEAN
          /\ inbox \in Seq({"data", "empty"}) /\ Len(inbox) <= arrivals
          /\ arrivals \in 0..MaxDatagrams
          /\ writer \in {"idle", "address", "sending", "crashed"}
          /\ todo \subseteq Calls
          /\ mishaps \subseteq {"read", "empty", "dropped", "select"}

\* A socket does not close by itself: its machine is Closed only if the user
\* called close(), or read() unasked, or a datagram was empty or was dropped
\* after it had been announced, or select() failed.  In particular a read() per
\* announcement never comes too late or once too often.
ClosedHasACause == m.state = "Closed" => mishaps # {} \/ "close" \in Calls \ todo

\* The state of a UDPSocket follows the diagram of the state machine.
Lifecycle == INSTANCE ConnectionLifecycle WITH
  phase <- m.state, readEnded <- m.readClosed, writeEnded <- m.writeClosed

LifecycleSpec == Lifecycle!Spec

\* What has arrived on an established socket is read.
DatagramsAreRead == (m.state = "Established" /\ inbox # << >>)
                      ~> (inbox = << >> \/ m.state # "Established")

\* close() ends the loop and releases the descriptor, whatever else was posted.
CloseReleases == ("close" \in Calls \ todo) ~> (fd = "closed")

\* test_udpsocket.cpp:31-37 calls write() right after connect().  The endpoint
\* is stored by a task of connect(), so write() may come before it.
WriteHasEndpoint == writer # "crashed"
=============================================================================
