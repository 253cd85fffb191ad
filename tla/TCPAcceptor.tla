------------------------------ MODULE TCPAcceptor ------------------------------
(***************************************************************************)
(* The class TCPAcceptor: a run loop that selects on a listening descriptor*)
(* and announces connections; its user answers an announcement with        *)
(* accept(), which posts a task that takes a connection from the kernel and*)
(* hands it over as a socket.                                              *)
(*                                                                         *)
(* The kernel is part of the model: it queues the connections that complete*)
(* and may forget one whose peer has reset it before it was accepted (BSD  *)
(* does, Linux does not).  The process has descriptors to spare: accept()  *)
(* fails only when no connection waits.                                    *)
(***************************************************************************)
EXTENDS CommunicatorStateMachine, EventLoop, FiniteSets

CONSTANTS Peers,      \* each connects at most once
          Nobody,     \* the descriptor -1 that accept() returns when it fails
          Backlog,    \* the argument of listen()
          Calls       \* what the user's thread calls, each at most once

AllCalls == {"bind", "listen", "accept", "stop"}

ASSUME CallsAssumption == /\ Nobody \notin Peers
                          /\ Backlog \in Nat
                          /\ Calls \subseteq AllCalls

VARIABLES m,          \* _stateMachine
          loop,       \* _runloop
          fd,         \* what _acceptorSocket names: "open" or "closed"
          listening,  \* listen() has succeeded
          pending,    \* the connections that wait to be accepted, in order
          gone,       \* those the kernel has forgotten
          given,      \* what the user was handed, in order
          todo        \* the calls the user has not made

vars == <<m, loop, fd, listening, pending, gone, given, todo>>

Places == {"test", "locking", "asleep", "drain", "select", "over", "died"}

Elements(s) == {s[i] : i \in 1..Len(s)}

\* The constructor opens the descriptor, or throws and there is no acceptor.
Init == /\ m = NewMachine("Local")
        /\ loop = run(NewLoop)
        /\ fd = "open"
        /\ listening = FALSE
        /\ pending = << >>
        /\ gone = {}
        /\ given = << >>
        /\ todo = Calls

(* The user's thread *)

CallPosts == \E c \in todo \ {"stop"} :
               /\ loop' = post(loop, c)
               /\ todo' = todo \ {c}
               /\ UNCHANGED <<m, fd, listening, pending, gone, given>>

CallStop == /\ "stop" \in todo
            /\ loop' = stop(loop)
            /\ todo' = todo \ {"stop"}
            /\ UNCHANGED <<m, fd, listening, pending, gone, given>>

(* The kernel and the peers *)

PeerConnects == \E p \in Peers \ (Elements(pending) \cup gone \cup Elements(given)) :
                  /\ listening /\ fd = "open"
                  /\ Len(pending) < Backlog
                  /\ pending' = Append(pending, p)
                  /\ UNCHANGED <<m, loop, fd, listening, gone, given, todo>>

PeerResets == /\ pending # << >>
              /\ gone' = gone \cup {Head(pending)}
              /\ pending' = Tail(pending)
              /\ UNCHANGED <<m, loop, fd, listening, given, todo>>

(* The run loop: the handler *)

Others == UNCHANGED <<listening, gone, given, todo>>

Test_waits ==                  \* mutant: work is awaited before every select
  /\ loop.pc = "test"
  /\ ~loop.canceled
  /\ loop' = dispatch(loop, TRUE)
  /\ UNCHANGED <<m, fd, pending>> /\ Others

\* while (!isCanceled()): select while Established, else wait for work.  The
\* descriptor is closed when the loop ends, and what waits there is dropped.
Test == /\ loop.pc = "test"
        /\ ~loop.canceled
        /\ loop' = IF m.state = "Established" THEN Goto(loop, "select")
                   ELSE dispatch(loop, TRUE)
        /\ UNCHANGED <<m, fd, pending>> /\ Others

LoopEnd_leaks ==               \* mutant: the loop ends without closeSocket()
  /\ loop.pc = "test"
  /\ loop.canceled
  /\ loop' = Goto(loop, "over")
  /\ UNCHANGED <<m, fd, pending>> /\ Others

LoopEnd == /\ loop.pc = "test"
           /\ loop.canceled
           /\ loop' = Goto(loop, "over")
           /\ fd' = "closed"
           /\ pending' = << >>
           /\ gone' = gone \cup Elements(pending)
           /\ UNCHANGED <<m, listening, given, todo>>

Wait == /\ loop.pc = "locking"
        /\ loop' = waitForWork(loop)
        /\ UNCHANGED <<m, fd, pending>> /\ Others

SpuriousWakeup == /\ loop.pc = "asleep"
                  /\ loop' = spuriousWakeup(loop)
                  /\ UNCHANGED <<m, fd, pending>> /\ Others

\* One second without a connection, then dispatch().
SelectTimeout == /\ loop.pc = "select"
                 /\ pending = << >>
                 /\ loop' = dispatch(loop, FALSE)
                 /\ UNCHANGED <<m, fd, pending>> /\ Others

SelectReady_twice ==           \* mutant: a connection is announced twice
  /\ loop.pc = "select"
  /\ pending # << >>
  /\ loop' = dispatch(post(post(loop, "accept"), "accept"), FALSE)
  /\ UNCHANGED <<m, fd, pending>> /\ Others

\* CanAccept: the user's handler calls accept(), and dispatch() runs the task.
SelectReady == /\ loop.pc = "select"
               /\ pending # << >>
               /\ loop' = dispatch(post(loop, "accept"), FALSE)
               /\ UNCHANGED <<m, fd, pending>> /\ Others

\* The state becomes Closed, the loop goes on, and waits from now on.
SelectFails == /\ loop.pc = "select"
               /\ m' = errored(m)
               /\ loop' = dispatch(loop, FALSE)
               /\ UNCHANGED <<fd, pending>> /\ Others

(* The tasks *)

At(task) == loop.pc = "drain" /\ loop.queue # << >> /\ Head(loop.queue) = task

Drained == /\ loop.pc = "drain"
           /\ loop.queue = << >>
           /\ loop' = drained(loop)
           /\ UNCHANGED <<m, fd, pending>> /\ Others

BindTask == /\ At("bind")
            /\ loop' = pop(loop)
            /\ UNCHANGED <<m, fd, pending>> /\ Others

\* The task throws, and the loop's thread is gone.
BindThrows == /\ At("bind")
              /\ m' = errored(m)
              /\ loop' = Goto(loop, "died")
              /\ UNCHANGED <<fd, pending>> /\ Others

ListenTask == /\ At("listen")
              /\ m' = connected(connectBegin(m))
              /\ listening' = TRUE
              /\ loop' = pop(loop)
              /\ UNCHANGED <<fd, pending, gone, given, todo>>

ListenThrows_caught ==         \* mutant: a failed listen() counts as a success
  /\ At("listen")
  /\ m' = connected(connectBegin(m))
  /\ loop' = pop(loop)
  /\ UNCHANGED <<fd, pending>> /\ Others

ListenThrows == /\ At("listen")
                /\ m' = errored(connectBegin(m))
                /\ loop' = Goto(loop, "died")
                /\ UNCHANGED <<fd, pending>> /\ Others

\* accept(): the result is not tested, and a socket is handed over either way.
AcceptTask == /\ At("accept")
              /\ given' = Append(given, IF pending = << >> THEN Nobody ELSE Head(pending))
              /\ pending' = IF pending = << >> THEN << >> ELSE Tail(pending)
              /\ loop' = pop(loop)
              /\ UNCHANGED <<m, fd, listening, gone, todo>>

LoopThread == \/ Test \/ LoopEnd \/ Wait \/ Drained
              \/ SelectTimeout \/ SelectReady \/ SelectFails
              \/ BindTask \/ BindThrows \/ ListenTask \/ ListenThrows \/ AcceptTask

Next == CallPosts \/ CallStop \/ PeerConnects \/ PeerResets \/ LoopThread \/ SpuriousWakeup

\* The scheduler runs the loop's thread; select() is bounded by a second.
Fairness == WF_vars(LoopThread)

Spec == Init /\ [][Next]_vars

FairSpec == Spec /\ Fairness
-----------------------------------------------------------------------------

TypeOK == /\ m \in Machine
          /\ loop \in Loop(AllCalls \ {"stop"}, Places)
          /\ fd \in {"open", "closed"} /\ listening \in BOOLEAN
          /\ pending \in Seq(Peers) /\ Len(pending) <= Backlog
          /\ gone \subseteq Peers
          /\ given \in Seq(Peers \cup {Nobody})
          /\ todo \subseteq Calls

\* The loop selects on a descriptor that listens and that it has not closed; a
\* bind() or listen() that fails leaves no acceptor that looks established.
SelectsOnListening == m.state = "Established" /\ loop.pc # "over" =>
                        listening /\ fd = "open"

\* A user who calls accept() only when told gets a connection each time, unless
\* one that was announced has gone: an announcement stands for one connection,
\* and every task posted for it runs before the next select().
AnnouncedIsThere == "accept" \notin Calls \ todo /\ gone = {} =>
                      Nobody \notin Elements(given)

\* A connection does not wait for ever, unless the loop is stopped, fails or dies.
ConnectionsServed ==
  \A p \in Peers :
    (p \in Elements(pending) /\ m.state = "Established")
      ~> (p \notin Elements(pending) \/ loop.canceled \/ m.state # "Established")

\* An acceptor that is stopped while it is not asleep closes its descriptor.
\* There is no close(): an acceptor whose select() failed waits with the
\* descriptor open until it is stopped and something is posted.
StoppedAwakeReleases == (loop.canceled /\ loop.pc # "asleep")
                          ~> (fd = "closed" \/ loop.pc = "died")
=============================================================================
