# SocketKit in TLA+

This directory holds TLA+ models of SocketKit, the configurations that check
them with TLC, and the theorems about them that TLAPS proves. SocketKit is a
C++ socket library in which every socket owns a thread, the thread runs a *run
loop*, and everything else happens through tasks posted to it. What is hard in
it is the traffic between threads: between a user and a socket's loop, between
a socket and the connector that dials for it, between the library and the other
end of the wire.

Paths below are relative to the root of the repository
(`include/libSocketKit/Runloop.hpp` and so on). `PROJECT.json` gives, definition
by definition, the lines of C++ that each one models.

## 1. The system

### Components

| Component | State | Operations | Who calls |
|---|---|---|---|
| `utils::Runloop` (`Runloop.hpp`) | task queue, push mutex, condition, `_canceled`, `_running`, the thread's future | `post`, `stop`, `run`, `dispatch(wait)`, the handler | any thread; `dispatch` only the loop's own |
| `CommunicatorStateMachine` | `_state`, and the flags reading, writing, readClosed, writeClosed, writeClosing | `connectBegin`, `connected`, `readBegin/End/Closed`, `writeBegin/End`, `writeCloseBegin/End`, `closed`, `errored` | its owner's loop; `write*` on the caller's thread; `connected` of a connecting socket on the connector's thread |
| `TCPConnector` | loop, machine, endpoint, current descriptor, locals of the dial | `connect`; the handler dials | `TCPSocket::connect` |
| `TCPSocket` | loop, machine, descriptor, connector | `open`, `continueFinished`, `connect`, `read`, `write`, `closeWrite`, `close`; the handler selects | the user, its own loop, the connector's loop |
| `TCPAcceptor` | loop, machine, listening descriptor | `bind`, `listen`, `accept`; the handler selects | the user, its own loop |
| `UDPSocket` | loop, machine, descriptor, endpoint | `connect`, `read`, `write`, `closeWrite`, `close`; the handler selects | the user, its own loop |
| `UsbmuxdProtocol` | the tag counter, two maps from tags to outstanding requests | make a listen or connect request; parse an answer | `UsbmuxdConnector`, `UsbmuxdDeviceListener` |
| `UsbmuxdDeviceListener` | loop, machine, descriptor, protocol, map of devices | `startListenDevice`, `attachedDevices`; the handler reads messages | the user, its own loop |
| `UsbmuxdConnector` | loop, machine, descriptor, a protocol it shares | `connect`; the handler reads the answer | `UsbmuxdSocket::connect` |
| `UsbmuxdSocket` | as `TCPSocket`, with the other connector | as `TCPSocket` | the user |
| `Data` | buffer, capacity, length | `copy`, `expansion`, ... | everywhere |
| `Endpoint` | an address | conversions | everywhere |
| `SocketKit`, `SocketException`, the interfaces | none | platform start-up, descriptor flags | everywhere |

### How they interact

* **Posting.** A call on a socket is a task on its loop; the loop's handler runs
  `while (!isCanceled())`: it selects while the machine is `Established` and
  otherwise waits in `dispatch(true)` for a task. `write()` is the exception: it
  runs on the caller's thread.
* **Callbacks.** The handler calls the user's event handler on the loop's thread,
  and the user answers by posting: `HasBytesAvailable` by `read()`, `CanAccept`
  by `accept()`, `EndEncountered` by `closeWrite()`. Inside the library,
  `TCPConnector` calls back `TCPSocket`, and `UsbmuxdConnector` calls back
  `UsbmuxdSocket`, on the connector's thread: there the socket's descriptor is
  assigned and its machine becomes `Established`.
* **Requests.** The clients of usbmuxd register a request with `UsbmuxdProtocol`
  on the caller's thread and post the task that sends it; the answer is parsed
  on the loop's thread and finds the request by its tag.
* **Shared state without a lock.** The queue is popped without the mutex that
  pushes hold; the machine's fields are plain variables that two or three
  threads touch; so are the protocol's maps. A `UsbmuxdSocket` and its connector
  share one descriptor on two loops.
* **The outside.** Descriptors, the backlog, the peer's bytes, end of stream and
  reset, datagrams; the daemon usbmuxd, whose stream delivers messages in pieces.

### What is hard, and what makes each component correct

| Component | Hard behaviour | Correct when |
|---|---|---|
| Runloop | the queue is tested without the mutex before the wait; tasks post and stop; a task throws | no wake-up is lost; tasks run in order, once, one at a time; a posted task begins |
| State machine | guard and assignment on different threads; two directions that end in either order, half way through each other, or together through an error | state and direction flags agree; a flag does not outlive its call; the diagram at its head |
| TCPConnector | rounds that fail in different ways; a second `connect()` meanwhile; `socket()` throws | one answer, and a true one; no descriptor left behind; a dial is answered |
| TCPSocket | the loop reads the state twice while the connector assigns it; the peer and the user close at the same time; nothing wakes the loop after the hand-over | it selects only on a descriptor it has; every way to the end releases it; the end of stream is announced once and after the bytes; `close()` ends the loop |
| TCPAcceptor | an announcement and its connection are two things; a task that throws; `accept()` fails | each announcement finds its connection; none waits for ever; a failed `listen` leaves nothing that looks established |
| UDPSocket | `write()` against the task of `connect()`; a datagram that is empty or gone when it is read | it closes only for a cause; what arrives is read; `close()` releases the descriptor |
| UsbmuxdDeviceListener | messages peeked and read with one `recv` each; maps filled by one thread and emptied by another; requests made while answers come | an answer finds its own request; the device map is what usbmuxd reported; a refused or stopped listener ends |
| UsbmuxdSocket, UsbmuxdConnector | two loops on one descriptor; the peer may speak before the answer is read; a refusal or `close()` during the dial | one reader at a time; the user hears what usbmuxd said; the socket's loop wakes up, and ends when it is Closed |

`PROJECT.json` lists under `hazards` each of these at the line where it bites,
with the properties that cover it, or why none does.

## 2. The modules

```
SerialExecutor   EventLoopSpec        ConnectionLifecycle               Dial
      ^              ^                  ^      ^      ^                ^    ^
      |  implements  |       implements |      |      |     implements |    |
      +--- Runloop --+       Communicator  TCPSocket  UDPSocket  TCPConnector
                                          (accepted)                 UsbmuxdSocket

EventLoop, CommunicatorStateMachine        operators on records, which
   TCPConnector, TCPSocket, TCPAcceptor, UDPSocket                  extend
   UsbmuxdClient (with UsbmuxdProtocol)                             extends
       UsbmuxdDeviceListener, UsbmuxdConnector                      extend that
   UsbmuxdSocket           composes TCPSocket's loop and UsbmuxdConnector

CoreProofs        of Communicator and Runloop
EventLoopProofs   lemmas about the operators, for
   TCPConnectorProofs, TCPSocketProofs, TCPAcceptorProofs, UDPSocketProofs,
   UsbmuxdDeviceListenerProofs, UsbmuxdSocketProofs
```

| Module | Models |
|---|---|
| `CommunicatorStateMachine` | The class, as a record type and one operator per method: the guard of the method decides, as in a release build, whether the call has an effect. |
| `ConnectionLifecycle` | Abstract: the state diagram in the comment at the head of the class, with the two directions that end. |
| `Communicator` | A machine in use: one owner (a run loop's thread, task after task) and any number of writers. A writer's guard, assignment, send and `writeEnd` are separate steps; so are the halves of the owner's `read` and `closeWrite`. |
| `SerialExecutor` | Abstract: tasks run one at a time in the order posted. |
| `Runloop` | The class at the grain of its shared accesses: the push under the mutex and the notify, the flags, the test of the queue without the mutex, the predicate of the wait with it, spurious wake-ups, and the steps of a task (which may post, stop, return or throw). |
| `EventLoop`, `EventLoopSpec` | The loop as its owners need it: a record of queue, flag and place, an operator per operation, and the specification that `Runloop` is shown to implement. |
| `Dial` | Abstract: what `connect()` promises whoever calls it: at most one answer, success with a connection and its descriptor, failure without one, and attempts only before the answer. |
| `TCPConnector` | The dial: rounds, descriptors, `connect()`, `select()`, the verdict, the task with which the owner stops the loop; the kernel decides the fate of each connection. |
| `TCPSocket` | Accepted (`Local`) and connecting (`Remote`) sockets; the user's thread, the loop's, the connector's, and the peer. |
| `TCPAcceptor` | The acceptor, its user, the kernel's queue of connections and the peers. |
| `UDPSocket` | The socket, its user and the network. |
| `UsbmuxdProtocol` | The class, as operators on the tag counter and the keys of its two maps. |
| `UsbmuxdClient` | The lines that `UsbmuxdDeviceListener.cpp` and `UsbmuxdConnector.cpp` share: the request and the task that sends it, the select loop, the two `recv` calls per message, and the stream from usbmuxd, on which a message may come in two pieces. |
| `UsbmuxdDeviceListener` | The listener: its requests, their answers, device records, the map, `stop()`. |
| `UsbmuxdConnector` | The connect request and its verdict. It has no specification of its own: what happens in its callback is its owner's. |
| `UsbmuxdSocket` | The socket and its connector. The socket's loop is an instance of `TCPSocket` (the two sources agree line by line there), the connector's an instance of `UsbmuxdConnector`; `connect()`, the callback with its wake-up, and the peer that may speak early are this module's. |
| `...Proofs` | The theorems of section 5. |
| `MC...` | One per specification, with the configurations that instantiate it. |

### How a class becomes a module

A module's variables are the fields of the class, plus the kernel's side of its
descriptor and histories (each says so where it is declared). An action is
everything the code does between two points at which another thread can see or
change something. The place of a loop's thread, `loop.pc`, is the line it stands
at: `test` at the head of the `while`, `select` before the select, `locking`
before the predicate of the wait, `asleep` in the wait, `drain` between tasks,
`over` or `died` after the handler has returned or thrown. A task is one step
unless another thread may tell its halves apart: `read` (readBegin and `recv`)
and `closeWrite` (writeCloseBegin, shutdown, writeCloseEnd) of a `TCPSocket` are
two, `connected()` on the connector's thread is a guard and an assignment.
`post()` is one step in the modules that own a loop. `Runloop` takes it apart,
and that the difference cannot be seen (`EventLoopBehaviour`) is checked by the run
`runloop` and proved for any clients and tasks.

The kernel is an environment with its own actions. `select()` reports what the
model's descriptor has, or fails at any time (a signal). Peers send, end their
stream, reset and send urgent data; datagrams arrive with or without content, or
are dropped after they were announced; `socket()`, `bind()` and `listen()` fail
at any time. usbmuxd accepts or refuses, reports devices and may close its end.
Contents, addresses and sizes are not modelled, since no branch depends on them;
the text of a property list is written and read by libplist, and a message is
what that text says.

The size of a message matters in one place. A client of usbmuxd peeks the header
and then reads, with one `recv`, as many bytes as it announces or as there are.
When the rest comes later it is taken for a header: `Misread` loses it with all
that waits. At the end of the stream the header stays zero and the length wraps,
after which the turn either does nothing (`ReadEnd`) or ends the process
(`Crash`): the outcome is undefined, so it is a choice. If the connector of a
`UsbmuxdSocket` has lost an answer, what its loop reads next are the peer's
bytes: any number of them goes as a header, or the process does
(`ConnectorTakes`), and the loop does not time out while there are any.

A send on a connection that is reset or shut down raises SIGPIPE on Linux: the
flags of `send()` are 0, and `SO_NOSIGPIPE`, where the code sets it at all, is
another constant there (`SocketKit.hpp:36-38`). Nothing in the library handles
the signal, so a writer may go on (`WriteReturns`, `SendTask`: a user of the
library ignores the signal) or take the process with it (`WriteKilled`,
`SendKilled`). After that nothing moves, and nothing is asked: the liveness
properties name `Killed`, `Dead` or `Alive`.

`TCPSocket.cpp:178` tests a set it never initialised. This is a choice between
two actions, `SelectUrgentAsSpace` and `SelectUrgentAsError`.

## 3. The runs

| Run | Question | Distinct states |
|---|---|---|
| `communicator` | Do state, direction flags and the writing flag stay consistent with two writers that race each other and the owner's close, and is the diagram implemented? | 759 |
| `runloop` | Is a wake-up ever lost, a task lost, doubled or overtaken? Is the loop the `EventLoop` the other modules use? Do posted tasks begin? | 3 142 |
| `runloop_stop` | Does `stop()` end a loop? *No, if it sleeps.* | |
| `tcp_connector` | Does the connector implement `Dial` over every outcome of three rounds, is what it reports true, and is a dial answered? | 1 098 |
| `tcp_socket` | Does an accepted socket serve its peer, announce the end once, and release its descriptor however it ends? Does a connecting one select only on what was handed over, does a closed one stay closed, and does `close()` end it? | 596 817 |
| `tcp_socket_served` | Is what the peer sends on a connecting socket read? *Not if the loop was asleep at the hand-over.* | |
| `tcp_socket_half_closed` | Is the peer still heard after `closeWrite()`? *No.* | |
| `tcp_acceptor` | Does every announcement find its connection, and is every connection accepted? | 36 066 |
| `udp_socket` | Does a UDP socket close only for a cause, read what arrives, and end on `close()`? | 58 383 |
| `udp_socket_write` | May `write()` follow `connect()`, as in the repository's test? *It may dereference null.* | |
| `usbmuxd_listener` | Is the device map what usbmuxd reported, does every answer find its request, is every change noticed, and does a refused or stopped listener end? | 615 968 |
| `usbmuxd_socket` | Does one loop at a time read the shared descriptor, is `connect()` a `Dial` and its answer true, is the peer heard from its first byte on, and does a Closed socket end? | 139 669 |

The runs in italics are expected to end in a counterexample. Each checks one
property that a comment or a test of the repository states; the quotations are
under `findings` in `PROJECT.json`.

A module's type invariant, `TypeOK`, is in no run: it is a theorem (section 5).

Every property of a passing run has a mutant: a variant of one definition with
a plausible bug (defined before it and marked `mutant`) with which TLC finds the
property violated. `tlc -config X.cfg MCY.tla` runs one configuration.

### Bounds

* `Writers = {w1, w2}`: two writers exhibit every race on the one shared flag.
  The theorems hold for any set.
* `Runloop`: two clients, two tasks, `MaxPosts = 3`. Three posts let one task
  run, one wait and one be pushed at the same time, and two clients let a post
  and a stop or a post overlap.
* `TCPConnector`: three rounds, the default of `mRetryTimes`, so that an error
  can be followed by a timeout and by an inconclusive round; two endpoints and
  two `connect()` calls, the second at any moment of the first; descriptors
  from 3 up, those of a process with its standard streams open. With descriptor
  0 free `OneDescriptor` fails, because `initSocket` closes only descriptors
  above 0; this is recorded as a hazard.
* `TCPSocket`: the user makes each call once and at any moment, in addition to
  the handler's answers. An accepted socket's peer sends twice, so that bytes
  arrive before and after a read; a connecting socket's once, which is enough
  for bytes that come before, during and after the hand-over. Event counts
  saturate at two: none, one, more.
* `TCPAcceptor`: three peers and a backlog of two, so that the backlog fills, and
  a connection may follow one that has gone.
* `UDPSocket`: two datagrams, so that one arrives while another is announced and
  an empty one comes before or after one with content.
* `UsbmuxdDeviceListener`: two requests, so that one is made while the answer of
  the other is on its way; two devices and three reports, so that a device goes
  while another comes; any message whole or in two pieces.
* `UsbmuxdSocket`: each call once, and one send of the peer, which may come before
  the answer is read, in the hand-over or after it.

`CHECK_DEADLOCK FALSE` is set where the system may rightly stop: a socket whose
loop has ended and whose user has no call left.

### The users of the models

The users behave like those of `tests/`: the handler is set before the loop runs,
`HasBytesAvailable` is answered by `read()`, `EndEncountered` by `closeWrite()`,
`CanAccept` by `accept()`. The user's thread makes further calls at any moment.
Two limits of this are not accidental:

* An accepted descriptor blocks on Linux (it does not inherit `O_NONBLOCK`; on
  BSD and macOS it does). There a `read()` that nobody announced holds the
  loop's thread until the peer sends, which is what `CloseEndsLoop`
  excludes. `TCPSocket` has a constant, `Blocks`, for it.
* The user connects a connecting socket before anything else, as the tests do.
* In the run `usbmuxd_socket` the user leaves `read()` to the handler. A `read()`
  with nothing to read closes a socket whose connector is still busy, and
  `connected()` on the connector's thread may then undo that; the race is in the
  run `tcp_socket`.

### Fairness

* A loop's thread runs (`WF` of its steps): nothing in a handler blocks for
  ever, since `select()` is bounded by a second, the sleep of a dial by
  `mRetrySecond`, its select by `mTimeoutSecond`. A blocking `recv` is not
  enabled in the model until there is something to receive, so fairness says
  nothing about it.
* The connector's thread runs, for the same reason.
* In `Communicator`, a send returns and a begun task is finished. In `TCPSocket`
  and `UDPSocket` nothing is assumed of the user's thread, and a send may block.
* In `Runloop`, a client inside `post()` reaches its notify, and a task returns
  or throws.
* In `UsbmuxdDeviceListener` the loop's thread runs; in `UsbmuxdSocket` both loops'
  threads do, and `connect()` gets from the registration of its request to the
  post: there is nothing between them that could block.
* Users, peers, the network, usbmuxd and spurious wake-ups owe nothing.

## 4. What the runs show, beyond that the properties hold

* **The wake-up protocol of the run loop is right.** `dispatch()` tests the queue
  without the mutex, but the predicate is tested again with it. The mutant that
  leaves that out loses a wake-up in a few steps.
* **Stop does not wake.** The library itself stops a loop only from one of its
  own tasks or from its handler, and then it ends (`StoppedAwakeEnds`). A stop
  from another thread, the destructor's included, leaves a sleeping loop asleep.
* **The writing flag may rise on a closed machine**, when a writer passed its
  guard before the close, but it never outlives the write.
* **A dial answers once and truly**, but one whose peer speaks first is given up
  (a mail or SSH server does that): a descriptor that is readable as well as
  writable is taken for a failed one, in every round (`SelectReadable`).
* **The hand-over of a connection lacks a wake-up.** `AwakeLoopServes` states what
  holds: a loop serves the connection if it is not about to sleep, or, wherever
  it is, when a task is posted. `tcp_socket_served` shows what does not, without
  such a task. `UsbmuxdSocket` has the missing post.
* **Every way an accepted socket ends releases its descriptor**, and the end of
  the stream comes once and after the bytes. But a socket that has closed its
  own side no longer listens.
* **Closing while a dial is on its way** can be undone: `connected()` tests the
  state and assigns it on another thread. `ClosedIsFinal` shows that this is the
  only way: no other step of the user, the loop or the connector, a late hand-over
  included, takes a Closed socket back. `CloseEndsLoop` is stated for a close that
  is still pending when the connector is through.
* **One announcement of the acceptor is one connection**, because the task posted
  for it runs before the next select. When the connection goes away in between,
  the unchecked result of `accept()` becomes a socket on descriptor -1.
* **The device map follows usbmuxd** as long as no message is read before all of it
  has arrived; `lost` says when that has happened, and nothing is claimed after.
  Answers find their requests in any case.
* **The hand-over of usbmuxd's connection works**, where that of `TCPSocket` does
  not: the empty task wakes the socket's loop, and the connector's loop is stopped
  on its own thread before it selects again, so that the peer's first bytes are
  for the socket. Both mutants of `Wake` break it.
* **A connector of usbmuxd may fall silent.** A signal, an exceptional condition or
  the end of the stream ends or spins its loop and nobody is told; `mTimeout` is
  never used. `DialAnswered` says when an answer is certain.

## 5. What is proved

For every value of the constants, with `tlapm M.tla` for each module `M` of
proofs. Each specification has a theorem `Invariance` (its inductive invariant,
`IInv`) and a theorem `Typed` (`TypeOK`); in `CoreProofs` the invariants are
`CommInv` and `LoopInv`, and those of `Communicator` are `CommInvariance` and
`CommTyped`. And these:

| Theorem | Says |
|---|---|
| `CoreProofs!StateIsTrue`, `FlagHasAWriter` | `StateMatchesSides` and `WritingHasAWriter` are invariant, for any set of writers and both types of machine |
| `CoreProofs!LifecycleRefinement`, `Monotone` | `Communicator` implements `ConnectionLifecycle`; no step takes a machine to an earlier state |
| `CoreProofs!Safety`, `NothingLost` | `NoLostWakeup` and `QueueIsTheRest` are invariant, for any clients and tasks and any number of posts |
| `CoreProofs!Refinement` | `Runloop` implements `SerialExecutor` |
| `CoreProofs!OwnersRefinement` | what the owners of a `Runloop` see of it is `EventLoopSpec`, on whose operators every socket's module is built |
| `TCPConnectorProofs!AnswersOnce`, `AnswersTruly` | `OneAnswer` and `AnswerIsTrue`, for any number of rounds, endpoints and calls |
| `TCPConnectorProofs!DialRefinement` | `TCPConnector` implements `Dial` |
| `TCPConnectorProofs!KeepsOneDescriptor` | `OneDescriptor`, if `FirstFd > 0` |
| `TCPSocketProofs!SelectsSafely`, `Releases`, `EndsOnce` | `SelectsOnOpenSocket`, `OverMeansReleased` and `EndAnnouncedOnce`, for both kinds of socket, any calls and any number of bytes |
| `TCPSocketProofs!ClosedStays` | `ClosedIsFinal`: only a `connected()` past its guard can undo a close, for both kinds of socket |
| `TCPSocketProofs!Refinement` | an accepted `TCPSocket` implements `ConnectionLifecycle`, whatever the order of calls, ends of stream and errors |
| `TCPAcceptorProofs!SelectsSafely`, `AnnouncementsHold` | `SelectsOnListening` and `AnnouncedIsThere`, for any peers and backlog |
| `UDPSocketProofs!ClosesForACause`, `Refinement` | `ClosedHasACause`, and `UDPSocket` implements `ConnectionLifecycle`, for any number of datagrams |
| `UsbmuxdDeviceListenerProofs!AnswersArrive` | `AnswersFindTheirRequest`, for any number of requests, devices and reports, whole or in pieces |
| `UsbmuxdDeviceListenerProofs!MapIsTrue` | `MapFollowsReports`, for the same |
| `UsbmuxdSocketProofs!HasOneReader`, `AnswersTruly` | `OneReader` and `AnswerIsTrue`, for any calls and any number of bytes, whole or split answers |
| `UsbmuxdSocketProofs!DialRefinement` | `UsbmuxdSocket`, with its connector and usbmuxd, implements `Dial` |

*Assumptions.* Those the modules declare: the loop's thread, the clients and
"nobody" are different holders of the mutex (`HolderAssumption`); bounds are
natural numbers, calls and kinds are among those there are (`RetryAssumption`,
`CallsAssumption`, `KindAssumption`, `BoundAssumption`, `SplitsAssumption`). TLC
evaluates them in every run. `FirstFd > 0` is a hypothesis of the one theorem
that needs it, since `initSocket` and `closeSocket` take descriptor 0 for none.

*Communicator.* `StateMatchesSides` is not inductive: from a state in which
`writeClosing` is up and no task is in `closeWrite`, or `reading` is up and no
task is in `read`, the next call breaks it. `FlagsHaveATask` says that the flags
a task raises are up only while that task runs, and that a half-close in
progress shows in the state. The owner's calls and the writers' steps are
separated: the first never raise `writing` (`OwnerLowersWriting`), the second
touch nothing else. Given `IInv`, each step is one of the lifecycle's or a
stutter.

*Runloop.* `NoLostWakeup` needs to know who can hold the mutex while the thread
sleeps: not the thread (`LockInv`), so a client, which will notify. The order of
tasks needs the history (`HistoryInv`): the tasks posted are those popped
followed by those queued, and those begun are a prefix of them. `HeadInv` says
that a task stays at the head until it is popped, which is what makes the pop
without the mutex sound. The lemmas first reduce the steps to four shapes (leave
the queue, push, begin, pop), and the conjuncts are shown preserved by shape. The
owners' view adds `ExitInv` (the thread leaves its handler only when stopped):
each step of the class is one `EventLoop` operator on the view, or a stutter. A
push onto a sleeping thread's queue is already the wake-up there, the notify
nothing.

*The modules that own a loop* share `EventLoopProofs`: each operator of the state
machine returns a machine, each of the loop a loop, and what it does to the
queue. A *prompt* is a task posted for an announcement (`accept()`, `read()`);
`NoPrompt` and `OnePrompt` count them in a queue, and the lemma `Prompts` says
how a post and a pop change the count.

*TCPConnector.* `Rounds`: the handler dials only while the state is
`Establishing`, and in no round but the last is `isConnect` up. So a report comes
once, and a success is not a left-over of an earlier round. `Holds` ties the
descriptor to the kernel's table in each place of a round, `FewOpen` says that
what is open is the round's descriptor or 0. For `Dial`, every step of a round is
an attempt or a stutter, the verdict is `Succeed` or `Fail`, and a second
`connect()`, which `connectBegin` ignores on any state but Init, is a stutter.

*TCPSocket.* `Serves`: Established means a descriptor, and a connector that is
through with it. `Ends`: on an accepted socket, whoever closes the descriptor or
stops the loop has made the machine Closed. `Ended`: after the end of the stream
the machine is past Established and the peer has nothing left to send. `Roles`
keeps the tasks of the two kinds of socket apart, and `RunningTask` a task at
the head of the queue while the thread is in the middle of it. For the
refinement `Sided` adds that an accepted socket is Closed exactly when both its
directions have ended, and `Serves` that an end of stream is met only while
Established, so that each step is one of the lifecycle's or a stutter. For
`ClosedStays` the step lemmas, which keep a Closed machine Closed, leave the
assignment of `connected()`, and `Assigning` says that its guard does not let the
connector's thread get there once the machine is Closed.

*TCPAcceptor and UDPSocket.* `Prompted`: there is at most one prompt in the queue,
only while the tasks are being run, and what it was posted for is still there.
This is the argument for answering a level-triggered announcement with a posted
task. `Sided` and `CloseIsAsked` complete it for UDP.

*UsbmuxdDeviceListener.* `Underway`: a tag on its way (registered, in a queued
task, at usbmuxd, or in an answer that waits) is in both maps and in one of these
places only, so the answer that takes it from the maps takes nobody else's.
`Fresh`: the next tag is a new one. The map is `MapFollowsReports` strengthened
by `Pieced`: the second piece of a message comes right after the first, so that
one read takes both or neither is understood. What the records that wait will make
of the map is stated by the last of them for each device, which needs no
induction: a record that arrives is the new last one, and one that is read either
decides or is overruled by a later one.

*UsbmuxdSocket.* `OneRequest`: from `connect()` to its answer the request is in
exactly one place (registered, posted, at usbmuxd, or the first thing in the
stream), and once the answer is read there is no other; so the callback runs
once, with what usbmuxd last said. `Switched`: unless the process ends, while the callback runs the
connector's loop stands in it, before it returns the loop is canceled, and
only in between does the socket get the descriptor; this is the argument for one
reader. `Truth` ties what the user was told to what usbmuxd did. The steps of the
socket's own side touch none of this (`SocketSteps`), so the proof has one case
for all of them. For `Dial`, usbmuxd's acceptance is the attempt, the hand-over
`Give`, and the two events are `Succeed` and `Fail`.

*Only model-checked*: the liveness properties, since liveness under fairness is
outside what the proof system handles. Every safety property and refinement that
a passing run checks is a theorem.

## 6. What is not modelled

* **`Data`, `Endpoint`, library setup, exceptions, interfaces**: no behaviour of
  their own between threads. A buffer is filled once and read once; an endpoint
  is a value where it is used. The text of a property list is libplist's; that keys
  may be missing in it, and the copy of 256 bytes from a serial number that may be
  shorter (`UsbmuxdProtocol.cpp:151`), are below the grain of a message.
* **The destructor of `Runloop`**, and a second `run()` before the first thread
  has set `_running`: the library calls `run()` once, and a loop is destroyed
  with its owner, whose lifetime is the user's.
* **Data races below the access.** Each read and write of a field, and each
  operation on the queue or a map, is atomic and seen in order. `front()` and
  `pop()` of a `std::deque` beside a push, an insertion into `std::map` beside an
  erasure, and `attachedDevices()` on another thread are undefined behaviour;
  they are hazards without a property.
* **Reuse of descriptor numbers between sockets.** A closed descriptor is closed;
  that its number may belong to another socket by then needs several sockets in
  one model.
* **Descriptor exhaustion in `accept()`**: the process has descriptors to spare.
* **Moving handlers.** A user who changes `mEventHandler` while the loop runs, as
  `tests/test_tcpsocket.cpp:65` does, races the loop.
* In `TCPSocket` and `UsbmuxdSocket`, a user's `stop()` and a second `connect()`;
  in `UDPSocket` the race inside `writeBegin()`, which `Communicator` has.
* **The wrap of the 32-bit tag** of `UsbmuxdProtocol`, after four thousand million
  requests on one connection.

## 7. Plan

Done, in order of importance: the run loop and the state machine, on which
everything rests; the sockets over TCP and UDP; the clients of usbmuxd and the
socket over them; proofs of every safety property and refinement of the passing
runs. Left:

1. The connector's half of `TCPSocket` shown to implement `Dial` as well.
2. The destructor of `Runloop`, with its joins.
3. Two sockets in one process, for the reuse of descriptor numbers.

The modules to be proved about declare no recursive operator and state their
constants' assumptions by name.
