------------------------------ MODULE TCPConnector ------------------------------
(***************************************************************************)
(* The class TCPConnector: a run loop whose handler dials an endpoint, up  *)
(* to RetryTimes times and each time on a new descriptor, and tells its    *)
(* owner once how it went.  The owner is TCPSocket::connect, which stops   *)
(* the loop with a task when the connection is up and leaves it alone when *)
(* it is not.                                                              *)
(*                                                                         *)
(* The kernel is part of the model: what became of the connection in       *)
(* progress (its fate) decides what connect() and select() may return.     *)
(***************************************************************************)
EXTENDS CommunicatorStateMachine, EventLoop, FiniteSets, FiniteSetsExt

CONSTANTS Endpoints,     \* what connect() may be asked to dial
          RetryTimes,    \* mRetryTimes
          FirstFd,       \* the lowest descriptor the process has free
          NoEndpoint,    \* _endpoint before the first connect()
          MaxConnects    \* bound: the number of connect() calls

ASSUME RetryAssumption == RetryTimes \in Nat /\ FirstFd \in Nat /\ MaxConnects \in Nat

VARIABLES loop,        \* _runloop
          m,           \* _stateMachine
          endpoint,    \* _endpoint
          socket,      \* _socket
          open,        \* the descriptors the kernel has open
          fate,        \* of the connection on socket: "none", "up", "greeted" (up, and
                       \* the peer has sent already), "refused" or "silent"
          dial,        \* the locals of the handler: retryTimes, isConnect, isError
          events,      \* what the owner was told, in order
          connects     \* the number of connect() calls

vars == <<loop, m, endpoint, socket, open, fate, dial, events, connects>>

Fates == {"none", "up", "greeted", "refused", "silent"}

Places == {"off", "died", "test", "body", "locking", "asleep", "drain",
           "initSocket", "connect", "select", "sleep", "report"}

NoDial == [retryTimes |-> 0, isConnect |-> FALSE, isError |-> FALSE]

\* The owner runs the loop before it posts the first connect().
Init == /\ loop = run(NewLoop)
        /\ m = NewMachine("Remote")
        /\ endpoint = NoEndpoint
        /\ socket = -1
        /\ open = {}
        /\ fate = "none"
        /\ dial = NoDial
        /\ events = << >>
        /\ connects = 0

(* The owner *)

\* connect() posts one task: connectBegin, and the endpoint to dial.
Connect == /\ connects < MaxConnects
           /\ connects' = connects + 1
           /\ \E ep \in Endpoints : loop' = post(loop, ep)
           /\ UNCHANGED <<m, endpoint, socket, open, fate, dial, events>>

(* The tasks *)

ConnectTask == /\ loop.pc = "drain"
               /\ loop.queue # << >>
               /\ Head(loop.queue) \in Endpoints
               /\ m' = connectBegin(m)
               /\ endpoint' = Head(loop.queue)
               /\ loop' = pop(loop)
               /\ UNCHANGED <<socket, open, fate, dial, events, connects>>

\* The task the owner posts when it was told Connected.
StopTask == /\ loop.pc = "drain"
            /\ loop.queue # << >>
            /\ Head(loop.queue) = "stop"
            /\ loop' = stop(pop(loop))
            /\ UNCHANGED <<m, endpoint, socket, open, fate, dial, events, connects>>

(* The handler *)

HandlerOnly == UNCHANGED <<m, endpoint, socket, open, fate, events, connects>>

\* while (!isCanceled()): wait for work unless there is something to dial.
Test == /\ loop.pc = "test"
        /\ loop' = Goto(loop, IF loop.canceled THEN "off"
                              ELSE IF m.state = "Establishing" THEN "initSocket" ELSE "body")
        /\ dial' = NoDial
        /\ HandlerOnly

Dispatch == /\ loop.pc = "body"
            /\ loop' = dispatch(loop, TRUE)
            /\ UNCHANGED dial /\ HandlerOnly

Wait == /\ loop.pc = "locking"
        /\ loop' = waitForWork(loop)
        /\ UNCHANGED dial /\ HandlerOnly

Drained == /\ loop.pc = "drain"
           /\ loop.queue = << >>
           /\ loop' = drained(loop)
           /\ UNCHANGED dial /\ HandlerOnly

SpuriousWakeup == /\ loop.pc = "asleep"
                  /\ loop' = spuriousWakeup(loop)
                  /\ UNCHANGED dial /\ HandlerOnly

LowestFree(fds) == Min({fd \in FirstFd..(FirstFd + Cardinality(fds)) : fd \notin fds})

InitSocket_leaks ==            \* mutant: the descriptor of the last round is kept
  /\ loop.pc = "initSocket"
  /\ dial.retryTimes < RetryTimes
  /\ socket' = LowestFree(open)
  /\ open' = open \cup {socket'}
  /\ fate' = "none"
  /\ loop' = Goto(loop, "connect")
  /\ UNCHANGED <<m, endpoint, dial, events, connects>>

\* A new round of the retry loop: the descriptor of the last round is closed,
\* if it is greater than 0, and a new one opened.
InitSocket == /\ loop.pc = "initSocket"
              /\ dial.retryTimes < RetryTimes
              /\ LET kept == IF socket > 0 THEN open \ {socket} ELSE open
                 IN  /\ socket' = LowestFree(kept)
                     /\ open' = kept \cup {socket'}
              /\ fate' = "none"
              /\ loop' = Goto(loop, "connect")
              /\ UNCHANGED <<m, endpoint, dial, events, connects>>

\* socket() fails: initSocket throws out of the handler and the thread is gone.
InitSocketThrows == /\ loop.pc = "initSocket"
                    /\ dial.retryTimes < RetryTimes
                    /\ open' = IF socket > 0 THEN open \ {socket} ELSE open
                    /\ socket' = -1
                    /\ fate' = "none"
                    /\ m' = errored(m)
                    /\ loop' = Goto(loop, "died")
                    /\ UNCHANGED <<endpoint, dial, events, connects>>

RoundsOver == /\ loop.pc = "initSocket"
              /\ dial.retryTimes = RetryTimes
              /\ loop' = Goto(loop, "report")
              /\ UNCHANGED dial /\ HandlerOnly

\* A round that ends without a verdict, or with one the next round may change.
NextRound(connected_, error) ==
  dial' = [retryTimes |-> dial.retryTimes + 1, isConnect |-> connected_, isError |-> error]

\* connect() on a non-blocking descriptor: up at once, failed at once, or in
\* progress.
ConnectUp == /\ loop.pc = "connect"
             /\ fate' = "up"
             /\ dial' = [dial EXCEPT !.isConnect = TRUE, !.isError = FALSE]
             /\ loop' = Goto(loop, "report")
             /\ UNCHANGED <<m, endpoint, socket, open, events, connects>>

ConnectFails == /\ loop.pc = "connect"
                /\ fate' = "refused"
                /\ dial' = [dial EXCEPT !.isConnect = FALSE, !.isError = TRUE]
                /\ loop' = Goto(loop, "sleep")
                /\ UNCHANGED <<m, endpoint, socket, open, events, connects>>

ConnectInProgress == /\ loop.pc = "connect"
                     /\ fate' \in {"up", "greeted", "refused", "silent"}
                     /\ loop' = Goto(loop, "select")
                     /\ UNCHANGED <<m, endpoint, socket, open, dial, events, connects>>

\* Writable and not readable: the connection is up.
SelectUp == /\ loop.pc = "select"
            /\ fate = "up"
            /\ dial' = [dial EXCEPT !.isConnect = TRUE, !.isError = FALSE]
            /\ loop' = Goto(loop, "report")
            /\ HandlerOnly

SelectReadable_trusts ==       \* mutant: every ready descriptor is a success
  /\ loop.pc = "select"
  /\ fate \in {"greeted", "refused"}
  /\ dial' = [dial EXCEPT !.isConnect = TRUE, !.isError = FALSE]
  /\ loop' = Goto(loop, "report")
  /\ HandlerOnly

\* Readable as well, which is what a refused connection looks like and what a
\* connection looks like whose peer has spoken: the flags keep what the round
\* before left in them.
SelectReadable == /\ loop.pc = "select"
                  /\ fate \in {"greeted", "refused"}
                  /\ loop' = Goto(loop, "sleep")
                  /\ UNCHANGED dial /\ HandlerOnly

SelectTimeout_same ==          \* mutant: a round that timed out is not counted
  /\ loop.pc = "select"
  /\ fate = "silent"
  /\ loop' = Goto(loop, "initSocket")
  /\ UNCHANGED dial /\ HandlerOnly

\* The time is up: the next round at once, without the sleep.
SelectTimeout == /\ loop.pc = "select"
                 /\ fate = "silent"
                 /\ NextRound(FALSE, FALSE)
                 /\ loop' = Goto(loop, "initSocket")
                 /\ HandlerOnly

SelectFails == /\ loop.pc = "select"
               /\ dial' = [dial EXCEPT !.isConnect = FALSE, !.isError = TRUE]
               /\ loop' = Goto(loop, "sleep")
               /\ HandlerOnly

Sleep == /\ loop.pc = "sleep"
         /\ NextRound(dial.isConnect, dial.isError)
         /\ loop' = Goto(loop, "initSocket")
         /\ HandlerOnly

Report_again ==                \* mutant: a failure leaves the state Establishing
  /\ loop.pc = "report"
  /\ events' = Append(events, [event |-> "Errored", fd |-> -1])
  /\ loop' = dispatch(loop, FALSE)
  /\ UNCHANGED <<m, endpoint, socket, open, fate, dial, connects>>

Report_runsOn ==               \* mutant: the owner does not stop the loop
  /\ loop.pc = "report"
  /\ LET up == dial.isConnect /\ ~dial.isError
     IN  /\ m' = IF up THEN connected(m) ELSE errored(m)
         /\ events' = Append(events, [event |-> IF up THEN "Connected" ELSE "Errored",
                                      fd |-> IF up THEN socket ELSE -1])
  /\ loop' = dispatch(loop, FALSE)
  /\ UNCHANGED <<endpoint, socket, open, fate, dial, connects>>

\* The verdict: the owner is told from this thread, posts the stop task when
\* the connection is up, and dispatch() runs it.
Report == /\ loop.pc = "report"
          /\ LET up      == dial.isConnect /\ ~dial.isError
                 verdict == IF up THEN "Connected"
                            ELSE IF dial.isError THEN "Errored" ELSE "Timeout"
             IN  /\ m' = IF up THEN connected(m) ELSE errored(m)
                 /\ events' = Append(events, [event |-> verdict,
                                              fd |-> IF up THEN socket ELSE -1])
                 /\ loop' = dispatch(IF up THEN post(loop, "stop") ELSE loop, FALSE)
          /\ UNCHANGED <<endpoint, socket, open, fate, dial, connects>>

Thread == \/ ConnectTask \/ StopTask
          \/ Test \/ Dispatch \/ Wait \/ Drained
          \/ InitSocket \/ InitSocketThrows \/ RoundsOver
          \/ ConnectUp \/ ConnectFails \/ ConnectInProgress
          \/ SelectUp \/ SelectReadable \/ SelectTimeout \/ SelectFails
          \/ Sleep \/ Report

Next == Connect \/ Thread \/ SpuriousWakeup

\* The scheduler runs the loop's thread: connect() does not block, select() is
\* bounded by mTimeoutSecond and the sleep by mRetrySecond.
Fairness == WF_vars(Thread)

Spec == Init /\ [][Next]_vars

FairSpec == Spec /\ Fairness
-----------------------------------------------------------------------------

TypeOK == /\ loop \in Loop(Endpoints \cup {"stop"}, Places)
          /\ m \in Machine
          /\ endpoint \in Endpoints \cup {NoEndpoint}
          /\ socket \in Int
          /\ open \subseteq Nat
          /\ fate \in Fates
          /\ dial \in [retryTimes: 0..RetryTimes, isConnect: BOOLEAN, isError: BOOLEAN]
          /\ events \in Seq([event: {"Connected", "Timeout", "Errored"}, fd: Int])
          /\ connects \in 0..MaxConnects

\* The descriptor handed to the owner is open, is the one the connector still
\* holds, and carries a connection that is up.
AnswerIsTrue == \A i \in 1..Len(events) :
                  events[i].event = "Connected" =>
                    events[i].fd = socket /\ socket \in open /\ fate = "up"

\* The rounds leave no descriptor behind: whatever failed, at most the one of
\* the last round is open.
OneDescriptor == open \subseteq {socket}

Given == \E i \in 1..Len(events) : events[i].event = "Connected"

Answer == CASE Len(events) = 0 -> "none"
            [] Len(events) = 1 -> IF Given THEN "Connected" ELSE "Failed"
            [] OTHER -> "several"

\* The owner sees a dial: over all the rounds, and whatever becomes of each of their
\* connections, one answer that is a success only with a connection, which the
\* connector leaves alone from then on.
Promise == INSTANCE Dial WITH
  asked <- m.state # "Init",
  up <- fate \in {"up", "greeted"},
  given <- Given,
  answer <- Answer

DialSpec == Promise!Spec

\* A dial ends: the owner is told, or socket() threw and the thread is gone.
DialAnswered == (m.state = "Establishing") ~> (events # << >> \/ loop.pc = "died")

\* When the connection is up the loop ends, by the task the owner posts.
LoopEnds == (events # << >> /\ events[1].event = "Connected") ~> (loop.pc = "off")
=============================================================================
