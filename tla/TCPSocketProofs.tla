---------------------------- MODULE TCPSocketProofs ----------------------------
(***************************************************************************)
(* What module TCPSocket promises of both kinds of socket, for any calls of*)
(* the user and any number of bytes.                                       *)
(***************************************************************************)
EXTENDS TCPSocket, EventLoopProofs

\* Only a Remote socket has a connector, and only a Local one is opened.
Roles == /\ m.type = "Local" => connector = "none" /\ fd # "none"
         /\ m.type = "Remote" =>
              \A i \in 1..Len(loop.queue) : loop.queue[i] \notin {"open", "continueFinished"}
         /\ "connect" \in todo => connector = "none"

\* A task is at the head of the queue until it has run to its end.
RunningTask == loop.pc \in {"recv", "shutdown"} => loop.queue # << >>

\* Established means a descriptor, and a connector that is through with the state.
Serves == /\ connector \in {"connected", "assign", "tell"} => fd # "none"
          /\ m.state = "Established" =>
               IF m.type = "Local" THEN fd = "open"
               ELSE fd # "none" /\ connector \in {"tell", "done"}
          /\ loop.pc = "select" => m.state = "Established"

\* Who closes the descriptor of an accepted socket, or stops its loop, has made
\* the machine Closed; and the loop ends with the descriptor closed.
Ends == m.type = "Local" => /\ fd = "closed" \/ loop.canceled => m.state = "Closed"
                            /\ loop.pc = "over" => loop.canceled /\ fd = "closed"

\* After the end of the stream the socket is not Established again.
Ended == told["EndEncountered"] > 0 =>
           /\ told["EndEncountered"] = 1
           /\ m.state \in {"Closing", "Closed"} /\ m.readClosed
           /\ net.fin /\ net.bytes = 0
           /\ m.type = "Local" \/ connector \in {"tell", "done"}

IInv == TypeOK /\ Roles /\ RunningTask /\ Serves /\ Ends /\ Ended

\* The machine's type never changes.
LEMMA TypeKept ==
  ASSUME NEW x \in Machine
  PROVE  /\ connectBegin(x).type = x.type /\ connected(x).type = x.type
         /\ readBegin(x).type = x.type /\ readEnd(x).type = x.type
         /\ readClosed(x).type = x.type /\ writeBegin(x).type = x.type
         /\ writeEnd(x).type = x.type /\ writeCloseBegin(x).type = x.type
         /\ writeCloseEnd(x).type = x.type /\ closed(x).type = x.type
         /\ errored(x).type = x.type
  BY DEF Machine, connectBegin, connected, readBegin, readEnd, readClosed,
     writeBegin, writeEnd, writeCloseBegin, writeCloseEnd, closed, errored

\* A new socket satisfies the inductive invariant.
LEMMA InitIInv == Init => IInv
<1> SUFFICES ASSUME Init PROVE IInv
  OBVIOUS
<1>1. PICK kind \in Kinds : m = NewMachine(kind)
  BY DEF Init
<1>2. /\ loop \in Loop(PostingCalls, Places) /\ loop.pc = "test" /\ loop.queue = << >>
      /\ ~loop.canceled /\ m \in Machine /\ m.state = "Init" /\ m.type = kind
  BY <1>1, KindAssumption, NewTyped DEF Init, Places
<1>3. MaxBytes[m.type] \in Nat
  BY <1>2, CallsAssumption, KindAssumption
<1>4. TypeOK
  BY <1>2, <1>3 DEF Init, TypeOK, NewNet, ConnectorSteps
<1>5. told["EndEncountered"] = 0
  BY DEF Init, Events
<1> QED
  BY <1>2, <1>4, <1>5 DEF Init, IInv, Roles, RunningTask, Serves, Ends, Ended, CallsOn

\* The task at the head of the queue, for the actions that run one.
LEMMA AtHead ==
  ASSUME TypeOK, NEW task, At(task)
  PROVE  /\ loop.pc = "drain" /\ loop.queue # << >> /\ Head(loop.queue) = task
         /\ loop.queue[1] = task /\ 1 \in 1..Len(loop.queue)
<1>1. loop.queue \in Seq(PostingCalls) /\ loop.queue # << >> /\ Head(loop.queue) = task
  BY DEF TypeOK, At, Loop
<1> QED
  BY <1>1 DEF At

\* A task that has run leaves the queue.
LEMMA Popped ==
  ASSUME TypeOK, loop.queue # << >>
  PROVE  /\ pop(loop) \in Loop(PostingCalls, Places)
         /\ pop(loop).queue = Tail(loop.queue) /\ pop(loop).pc = "drain"
         /\ pop(loop).canceled = loop.canceled
<1>1. loop \in Loop(PostingCalls, Places) /\ "drain" \in Places
  BY DEF TypeOK, Places
<1> QED
  BY <1>1, PopMoves

\* A task that is posted.
LEMMA Posted ==
  ASSUME TypeOK, NEW task \in PostingCalls
  PROVE  /\ post(loop, task) \in Loop(PostingCalls, Places)
         /\ post(loop, task).queue = Append(loop.queue, task)
         /\ post(loop, task).queue # << >>
         /\ post(loop, task).canceled = loop.canceled
         /\ post(loop, task).pc = IF loop.pc = "asleep" THEN "locking" ELSE loop.pc
<1>1. loop \in Loop(PostingCalls, Places) /\ "locking" \in Places
  BY DEF TypeOK, Places
<1> QED
  BY <1>1, PostMoves

\* The handler's answer to an event is posted and dispatch() goes on to the tasks.
LEMMA Answered ==
  ASSUME TypeOK, NEW task \in PostingCalls
  PROVE  /\ dispatch(post(loop, task), FALSE) \in Loop(PostingCalls, Places)
         /\ dispatch(post(loop, task), FALSE).queue = Append(loop.queue, task)
         /\ dispatch(post(loop, task), FALSE).canceled = loop.canceled
         /\ dispatch(post(loop, task), FALSE).pc = "drain"
<1> DEFINE l == post(loop, task)
<1>1. /\ l \in Loop(PostingCalls, Places) /\ l.queue = Append(loop.queue, task)
      /\ l.queue # << >> /\ l.canceled = loop.canceled
  BY Posted
<1>2. dispatch(l, FALSE) = Goto(l, "drain")
  BY <1>1 DEF dispatch
<1>3. "drain" \in Places
  BY DEF Places
<1> HIDE DEF l
<1>4. /\ Goto(l, "drain") \in Loop(PostingCalls, Places) /\ Goto(l, "drain").pc = "drain"
      /\ Goto(l, "drain").queue = l.queue /\ Goto(l, "drain").canceled = l.canceled
  BY <1>1, <1>3, GotoMoves
<1> QED
  BY <1>1, <1>2, <1>4 DEF l

\* The steps that change nothing of the loop but its place and what follows.
Moves == \/ Test \/ TestClosed \/ Wait \/ Drained \/ SpuriousWakeup
         \/ SelectTimeout \/ SelectReset \/ SelectUrgentAsSpace \/ SelectUrgentAsError
         \/ SelectFails \/ ReadTask \/ CloseWriteTask \/ WriteKilled

\* They leave the queue as it is.
LEMMA QueueKept ==
  ASSUME TypeOK, Moves
  PROVE  loop' \in Loop(PostingCalls, Places) /\ loop'.queue = loop.queue
  BY DEF TypeOK, Moves, Test, TestClosed, Wait, Drained, SpuriousWakeup, SelectTimeout,
     SelectReset, SelectUrgentAsSpace, SelectUrgentAsError, SelectFails, ReadTask,
     CloseWriteTask, WriteKilled, Loop, Places, Goto, dispatch, stop, waitForWork, spuriousWakeup, drained

\* The events are counted to 2.
LEMMA Telling ==
  ASSUME TypeOK, NEW e \in Events, Tell(e)
  PROVE  /\ told' \in [Events -> 0..2]
         /\ e # "EndEncountered" => told'["EndEncountered"] = told["EndEncountered"]
         /\ e = "EndEncountered" /\ told[e] = 0 => told'[e] = 1
  BY DEF TypeOK, Tell, Events

\* No step takes a variable out of its range.
LEMMA StepTyped == TypeOK /\ RunningTask /\ [Next]_vars => TypeOK' /\ m'.type = m.type
<1> SUFFICES ASSUME TypeOK, RunningTask, [Next]_vars PROVE TypeOK' /\ m'.type = m.type
  OBVIOUS
<1> USE DEF TypeOK, Others, closeSocket
<1>0. MaxBytes[m.type] \in Nat
  BY CallsAssumption DEF Machine
<1>1. ASSUME NEW c \in PostingCalls, CallPosts(c) PROVE TypeOK' /\ m'.type = m.type
  BY <1>1, Posted DEF CallPosts, Calling
<1>2. CASE CallConnect \/ CallWrite \/ WriteReturns
  BY <1>2, MachineTyped, TypeKept DEF CallConnect, CallWrite, WriteReturns, Calling, ConnectorSteps
<1>3. CASE DialSucceeds \/ DialDies \/ HandOver \/ ConnectedGuard
  BY <1>3 DEF DialSucceeds, DialDies, HandOver, ConnectedGuard, ConnectorSteps
<1>4. CASE DialFails
  BY <1>4, MachineTyped, TypeKept, Telling DEF DialFails, ConnectorSteps, Events
<1>5. CASE ConnectedAssign
  BY <1>5 DEF ConnectedAssign, Machine, States, ConnectorSteps
<1>6. CASE TellOpen
  BY <1>6, Telling DEF TellOpen, ConnectorSteps, Events
<1>7. CASE PeerStep
  <2>1. UNCHANGED <<m, loop, fd, connector, writer, todo, told>>
    BY <1>7 DEF PeerStep, PeerSends, PeerEnds, PeerResets, PeerUrgent, Peer
  <2>2. /\ net' \in [sent: 0..MaxBytes[m.type], bytes: 0..MaxBytes[m.type], fin: BOOLEAN,
                      reset: BOOLEAN, urgent: BOOLEAN, shut: BOOLEAN]
        /\ net'.bytes <= net'.sent
    <3>1. CASE PeerSends
      <4>1. net' = [net EXCEPT !.sent = @ + 1, !.bytes = @ + 1] /\ net.sent < MaxBytes[m.type]
        BY <3>1 DEF PeerSends, Peer
      <4>2. /\ net.sent + 1 \in 0..MaxBytes[m.type] /\ net.bytes + 1 \in 0..MaxBytes[m.type]
            /\ net.bytes + 1 <= net.sent + 1
        BY <1>0, <4>1
      <4>3. /\ net' = [[net EXCEPT !.sent = net.sent + 1] EXCEPT !.bytes = net.bytes + 1]
            /\ net'.sent = net.sent + 1 /\ net'.bytes = net.bytes + 1
        BY <4>1
      <4> QED
        BY <4>2, <4>3
    <3>2. CASE PeerEnds \/ PeerResets \/ PeerUrgent
      BY <3>2 DEF PeerEnds, PeerResets, PeerUrgent, Peer
    <3> QED
      BY <1>7, <3>1, <3>2 DEF PeerStep
  <2> QED
    BY <2>1, <2>2
<1>8. CASE Test \/ TestClosed \/ Wait \/ Drained \/ SpuriousWakeup \/ SelectTimeout
  <2>1. loop' \in Loop(PostingCalls, Places)
    BY <1>8, QueueKept DEF Moves
  <2> QED
    BY <1>8, <2>1 DEF Test, TestClosed, Wait, Drained, SpuriousWakeup, SelectTimeout
<1>9. CASE SelectBytes
  BY <1>9, Answered, Telling DEF SelectBytes, PostingCalls, Events
<1>10. CASE SelectEnd
  <2>1. loop' \in Loop(PostingCalls, Places)
    BY <1>10, Answered DEF SelectEnd, PostingCalls
  <2>2. told' \in [Events -> 0..2]
    BY <1>10, Telling DEF SelectEnd, Events
  <2> QED
    BY <1>10, <2>1, <2>2, MachineTyped, TypeKept DEF SelectEnd
<1>11. CASE SelectReset \/ SelectUrgentAsSpace \/ SelectUrgentAsError \/ SelectFails
  <2>1. loop' \in Loop(PostingCalls, Places)
    BY <1>11, QueueKept DEF Moves
  <2>2. told' \in [Events -> 0..2]
    BY <1>11, Telling DEF SelectReset, SelectUrgentAsSpace, SelectUrgentAsError, SelectFails, Events
  <2>3. m' \in Machine /\ m'.type = m.type
    BY <1>11, MachineTyped, TypeKept
       DEF SelectReset, SelectUrgentAsSpace, SelectUrgentAsError, SelectFails
  <2> QED
    BY <1>11, <2>1, <2>2, <2>3
       DEF SelectReset, SelectUrgentAsSpace, SelectUrgentAsError, SelectFails
<1>12. CASE OpenTask \/ ContinueFinishedTask \/ CloseTask
  <2>1. loop' \in Loop(PostingCalls, Places)
    BY <1>12, Popped DEF OpenTask, ContinueFinishedTask, CloseTask, At
  <2> QED
    BY <1>12, <2>1, MachineTyped, TypeKept DEF OpenTask, ContinueFinishedTask, CloseTask
<1>13. CASE ReadTask \/ CloseWriteTask
  <2>1. loop' \in Loop(PostingCalls, Places)
    BY <1>13, QueueKept DEF Moves
  <2> QED
    BY <1>13, <2>1, MachineTyped, TypeKept DEF ReadTask, CloseWriteTask
<1>14. CASE RecvBytes \/ RecvFails \/ ShutdownWrite
  <2>1. loop' \in Loop(PostingCalls, Places)
    BY <1>14, Popped DEF RecvBytes, RecvFails, ShutdownWrite, RunningTask
  <2>2. m' \in Machine /\ m'.type = m.type
    BY <1>14, MachineTyped, TypeKept DEF RecvBytes, RecvFails, ShutdownWrite
  <2>3. told' \in [Events -> 0..2]
    BY <1>14, Telling DEF RecvBytes, RecvFails, ShutdownWrite, Events
  <2>4. /\ net' \in [sent: 0..MaxBytes[m.type], bytes: 0..MaxBytes[m.type], fin: BOOLEAN,
                      reset: BOOLEAN, urgent: BOOLEAN, shut: BOOLEAN]
        /\ net'.bytes <= net'.sent
    <3>1. CASE RecvBytes
      <4>1. PICK n \in 1..net.bytes : net' = [net EXCEPT !.bytes = @ - n]
        BY <3>1 DEF RecvBytes
      <4>2. net.bytes - n \in 0..net.bytes /\ net.bytes \in Nat /\ net.sent \in Nat
        BY <1>0, <4>1
      <4> QED
        BY <1>0, <4>1, <4>2
    <3>2. CASE RecvFails
      BY <3>2 DEF RecvFails
    <3>3. CASE ShutdownWrite
      BY <3>3 DEF ShutdownWrite
    <3> QED
      BY <1>14, <3>1, <3>2, <3>3
  <2> QED
    BY <1>14, <2>1, <2>2, <2>3, <2>4 DEF RecvBytes, RecvFails, ShutdownWrite
<1>15. CASE UNCHANGED vars
  BY <1>15 DEF vars
<1>16. CASE WriteKilled
  <2>1. loop' \in Loop(PostingCalls, Places)
    BY <1>16, QueueKept DEF Moves
  <2> QED
    BY <1>16, <2>1 DEF WriteKilled, ConnectorSteps
<1> QED
  BY <1>1, <1>2, <1>3, <1>4, <1>5, <1>6, <1>7, <1>8, <1>9, <1>10, <1>11, <1>12, <1>13, <1>14,
     <1>15, <1>16 DEF Next, User, Connector, LoopThread

\* The queue of a connecting socket never holds the tasks of an accepted one.
LEMMA StepRoles == TypeOK /\ RunningTask /\ Roles /\ [Next]_vars => Roles'
<1> SUFFICES ASSUME TypeOK, RunningTask, Roles, [Next]_vars PROVE Roles'
  OBVIOUS
<1>0. /\ m'.type = m.type /\ m.type \in Types /\ loop.queue \in Seq(PostingCalls)
      /\ todo \subseteq CallsOn(m.type)
  BY StepTyped DEF TypeOK, Machine, Loop
<1> DEFINE Apart(q) == \A i \in 1..Len(q) : q[i] \notin {"open", "continueFinished"}
<1>1. /\ m.type = "Local" => connector' = "none" /\ fd' # "none"
      /\ "connect" \in todo' => connector' = "none"
  <2>1. m.type = "Local" => "connect" \notin todo
    BY <1>0 DEF CallsOn
  <2>2. CASE User
    BY <2>1, <2>2 DEF Roles, User, CallPosts, CallConnect, CallWrite, WriteReturns, WriteKilled,
       Calling
  <2>3. CASE Connector
    BY <2>3 DEF Roles, Connector, DialSucceeds, DialFails, DialDies, HandOver, ConnectedGuard,
       ConnectedAssign, TellOpen
  <2>4. CASE PeerStep \/ LoopThread \/ SpuriousWakeup \/ UNCHANGED vars
    <3>1. UNCHANGED <<connector, todo>> /\ (fd' = fd \/ fd' = "closed" \/ closeSocket)
      BY <2>4 DEF PeerStep, PeerSends, PeerEnds, PeerResets, PeerUrgent, Peer, LoopThread, Others,
         Test, TestClosed, Wait, Drained, SpuriousWakeup, SelectTimeout, SelectBytes, SelectEnd,
         SelectReset, SelectUrgentAsSpace, SelectUrgentAsError, SelectFails, OpenTask,
         ContinueFinishedTask, ReadTask, RecvBytes, RecvFails, CloseWriteTask, ShutdownWrite,
         CloseTask, vars
    <3> QED
      BY <3>1 DEF Roles, closeSocket
  <2> QED
    BY <2>2, <2>3, <2>4 DEF Next
<1>2. ASSUME m.type = "Remote", Apart(loop.queue) PROVE Apart(loop'.queue)
  <2>1. ASSUME NEW c \in PostingCalls, CallPosts(c) PROVE Apart(loop'.queue)
    <3>1. c \notin {"open", "continueFinished"}
      BY <1>0, <1>2, <2>1 DEF CallPosts, Calling, CallsOn
    <3>2. loop'.queue = Append(loop.queue, c)
      BY <2>1, Posted DEF CallPosts
    <3> QED
      BY <1>0, <1>2, <3>1, <3>2
  <2>2. CASE Moves
    BY <1>2, <2>2, QueueKept
  <2>3. CASE SelectBytes \/ SelectEnd
    <3>1. PICK c \in {"read", "closeWrite"} : loop'.queue = Append(loop.queue, c)
      BY <2>3, Answered DEF SelectBytes, SelectEnd, PostingCalls
    <3> QED
      BY <1>0, <1>2, <3>1
  <2>4. CASE \/ OpenTask \/ ContinueFinishedTask \/ RecvBytes \/ RecvFails
             \/ ShutdownWrite \/ CloseTask
    <3>1. loop' = pop(loop) /\ loop.queue # << >>
      BY <2>4 DEF OpenTask, ContinueFinishedTask, RecvBytes, RecvFails, ShutdownWrite, CloseTask,
         At, RunningTask
    <3>2. loop'.queue = Tail(loop.queue)
      BY <3>1, Popped
    <3> QED
      BY <1>0, <1>2, <3>1, <3>2
  <2>5. CASE \/ CallConnect \/ CallWrite \/ WriteReturns \/ Connector \/ PeerStep
             \/ UNCHANGED vars
    <3>1. loop' = loop
      BY <2>5 DEF CallConnect, CallWrite, WriteReturns, Connector, DialSucceeds, DialFails,
         DialDies, HandOver, ConnectedGuard, ConnectedAssign, TellOpen, PeerStep, PeerSends,
         PeerEnds, PeerResets, PeerUrgent, Peer, vars
    <3> QED
      BY <1>2, <3>1
  <2> QED
    BY <2>1, <2>2, <2>3, <2>4, <2>5 DEF Next, User, LoopThread, Moves
<1> QED
  BY <1>0, <1>1, <1>2 DEF Roles

\* Where the thread stands after each kind of step.
LEMMA Whereabouts ==
  ASSUME TypeOK, RunningTask, [Next]_vars
  PROVE  /\ loop'.pc \in {"recv", "shutdown"} => loop'.queue # << >>
         /\ loop'.pc = "select" => loop.pc = "select" \/ (m.state = "Established" /\ m' = m)
         /\ loop'.pc = "over" => loop.pc = "over" \/ (loop.canceled /\ Test)
         /\ loop'.canceled => loop.canceled \/ m.state = "Closed"
         /\ loop.canceled => loop'.canceled
         /\ LoopThread => loop'.pc # "select" \/ Test
<1>0. loop \in Loop(PostingCalls, Places)
  BY DEF TypeOK
<1>1. ASSUME NEW c \in PostingCalls, CallPosts(c)
      PROVE  /\ loop'.queue # << >> /\ loop'.canceled = loop.canceled
             /\ loop'.pc = loop.pc \/ loop'.pc = "locking"
  BY <1>1, Posted DEF CallPosts
<1>2. CASE Moves
  <2>1. CASE Test \/ TestClosed \/ Wait \/ Drained \/ SpuriousWakeup
    BY <1>0, <2>1 DEF Test, TestClosed, Wait, Drained, SpuriousWakeup, Loop, Goto, dispatch,
       stop, waitForWork, spuriousWakeup, drained
  <2>2. CASE \/ SelectTimeout \/ SelectReset \/ SelectUrgentAsSpace \/ SelectUrgentAsError
             \/ SelectFails
    BY <1>0, <2>2 DEF SelectTimeout, SelectReset, SelectUrgentAsSpace, SelectUrgentAsError,
       SelectFails, Loop, Goto, dispatch
  <2>3. CASE ReadTask \/ CloseWriteTask \/ WriteKilled
    BY <1>0, <2>3 DEF ReadTask, CloseWriteTask, WriteKilled, At, Loop, Goto
  <2> QED
    BY <1>2, <2>1, <2>2, <2>3 DEF Moves
<1>3. CASE SelectBytes \/ SelectEnd
  <2>1. loop'.pc = "drain" /\ loop'.canceled = loop.canceled
    BY <1>3, Answered DEF SelectBytes, SelectEnd, PostingCalls
  <2> QED
    BY <2>1
<1>4. CASE OpenTask \/ ContinueFinishedTask \/ RecvBytes \/ RecvFails \/ ShutdownWrite \/ CloseTask
  <2>1. loop' = pop(loop) /\ loop.queue # << >>
    BY <1>4 DEF OpenTask, ContinueFinishedTask, RecvBytes, RecvFails, ShutdownWrite, CloseTask,
       At, RunningTask
  <2>2. loop'.pc = "drain" /\ loop'.canceled = loop.canceled
    BY <2>1, Popped
  <2> QED
    BY <2>2
<1>5. CASE CallConnect \/ CallWrite \/ WriteReturns \/ Connector \/ PeerStep \/ UNCHANGED vars
  <2>1. loop' = loop
    BY <1>5 DEF CallConnect, CallWrite, WriteReturns, Connector, DialSucceeds, DialFails,
       DialDies, HandOver, ConnectedGuard, ConnectedAssign, TellOpen, PeerStep, PeerSends,
       PeerEnds, PeerResets, PeerUrgent, Peer, vars
  <2>2. LoopThread => loop'.pc # "select" \/ Test
    <3>1. CASE LoopThread
      BY <2>1, <3>1, <1>0 DEF LoopThread, TestClosed, Wait, Drained, SelectTimeout, SelectBytes,
         SelectEnd, SelectReset, SelectUrgentAsSpace, SelectUrgentAsError, SelectFails, OpenTask,
         ContinueFinishedTask, ReadTask, RecvBytes, RecvFails, CloseWriteTask, ShutdownWrite,
         CloseTask, At, Loop, Goto, dispatch, pop
    <3> QED
      BY <3>1
  <2> QED
    BY <2>1, <2>2 DEF RunningTask
<1> QED
  BY <1>1, <1>2, <1>3, <1>4, <1>5 DEF Next, User, LoopThread, Moves, RunningTask

\* What a step of the socket's own thread does to the state and the descriptor.
LEMMA LoopSteps ==
  ASSUME TypeOK, RunningTask, Roles, LoopThread \/ SpuriousWakeup
  PROVE  /\ connector' = connector
         /\ m'.state = "Established" =>
              \/ m.state = "Established"
              \/ m.type = "Local" /\ m.state \in {"Init", "Establishing"} /\ fd' = fd
         /\ fd' = fd \/ (fd = "open" /\ fd' = "closed" /\ (m'.state = "Closed" \/ loop.canceled))
         /\ m.state = "Closed" => m'.state = "Closed"
         /\ m.state \in {"Closing", "Closed"} => m'.state \in {"Closing", "Closed"}
         /\ m.readClosed => m'.readClosed
<1> USE DEF Machine, States, closeSocket, Others
<1>0. m \in Machine
  BY DEF TypeOK
<1>1. CASE \/ Test \/ TestClosed \/ Wait \/ Drained \/ SpuriousWakeup
           \/ SelectTimeout \/ SelectBytes \/ SelectUrgentAsSpace
  BY <1>0, <1>1 DEF Test, TestClosed, Wait, Drained, SpuriousWakeup, SelectTimeout, SelectBytes,
     SelectUrgentAsSpace
<1>2. CASE SelectReset \/ SelectUrgentAsError \/ SelectFails \/ RecvFails \/ CloseTask
  BY <1>0, <1>2 DEF SelectReset, SelectUrgentAsError, SelectFails, RecvFails, CloseTask,
     errored, closed
<1>3. CASE SelectEnd
  BY <1>0, <1>3 DEF SelectEnd, readClosed
<1>4. CASE OpenTask
  BY <1>0, <1>4 DEF OpenTask, connectBegin
<1>5. CASE ContinueFinishedTask
  <2>1. m.type = "Local"
    BY <1>0, <1>5, AtHead DEF ContinueFinishedTask, Roles, Types
  <2> QED
    BY <1>0, <1>5, <2>1 DEF ContinueFinishedTask, connected
<1>6. CASE ReadTask \/ RecvBytes
  BY <1>0, <1>6 DEF ReadTask, RecvBytes, readBegin, readEnd
<1>7. CASE CloseWriteTask
  BY <1>0, <1>7 DEF CloseWriteTask, writeCloseBegin
<1>8. CASE ShutdownWrite
  BY <1>0, <1>8 DEF ShutdownWrite, writeCloseEnd
<1> QED
  BY <1>1, <1>2, <1>3, <1>4, <1>5, <1>6, <1>7, <1>8 DEF LoopThread

\* Outside it, a user's call changes no state but Init, and the connector's thread
\* makes the socket Established when it has handed the descriptor over.
LEMMA OtherSteps ==
  ASSUME TypeOK, Roles, Serves, User \/ Connector \/ PeerStep \/ UNCHANGED vars
  PROVE  /\ loop'.canceled = loop.canceled
         /\ fd' = fd \/ (connector = "handover" /\ fd' = "open")
         /\ \/ m'.state = m.state /\ (connector' = connector \/ connector \notin {"tell", "done"}
                                                               \/ connector' = "done")
            \/ m.state = "Init" /\ m'.state = "Establishing"
            \/ connector = "assign" /\ connector' = "tell" /\ m'.state = "Established"
            \/ connector = "dialling" /\ m'.state = "Closed"
         /\ m.readClosed => m'.readClosed
         /\ connector' \in {"connected", "assign", "tell"} =>
              connector \in {"connected", "assign", "tell"} \/ fd' = "open"
         /\ m.type = "Local" => connector' = "none"
         /\ connector \in {"tell", "done"} => connector' \in {"tell", "done"}
         /\ connector = "none" => connector' \in {"none", "dialling"}
<1> USE DEF Machine, States
<1>0. m \in Machine /\ loop \in Loop(PostingCalls, Places)
  BY DEF TypeOK
<1>1. ASSUME NEW c \in PostingCalls, CallPosts(c)
      PROVE  loop'.canceled = loop.canceled /\ UNCHANGED <<m, fd, connector>>
  BY <1>1, Posted DEF CallPosts
<1>2. CASE CallConnect
  <2>1. connector = "none" /\ m.type # "Local"
    BY <1>2 DEF CallConnect, Calling, Roles, TypeOK, CallsOn
  <2> QED
    BY <1>0, <1>2, <2>1 DEF CallConnect, connectBegin
<1>3. CASE CallWrite \/ WriteReturns \/ WriteKilled
  BY <1>0, <1>3 DEF CallWrite, WriteReturns, WriteKilled, writeBegin, writeEnd, Goto, Loop, Roles
<1>4. CASE Connector
  <2>1. m.type # "Local"
    BY <1>4 DEF Roles, Connector, DialSucceeds, DialFails, DialDies, HandOver, ConnectedGuard,
       ConnectedAssign, TellOpen
  <2> QED
    BY <1>0, <1>4, <2>1 DEF Connector, DialSucceeds, DialFails, DialDies, HandOver, ConnectedGuard,
       ConnectedAssign, TellOpen, errored, closed
<1>5. CASE PeerStep \/ UNCHANGED vars
  BY <1>0, <1>5 DEF PeerStep, PeerSends, PeerEnds, PeerResets, PeerUrgent, Peer, vars, Roles
<1> QED
  BY <1>1, <1>2, <1>3, <1>4, <1>5 DEF User, Roles

\* Established keeps its meaning.
LEMMA StepServes == TypeOK /\ Roles /\ RunningTask /\ Serves /\ Ends /\ [Next]_vars => Serves'
<1> SUFFICES ASSUME TypeOK, Roles, RunningTask, Serves, Ends, [Next]_vars PROVE Serves'
  OBVIOUS
<1>0. m'.type = m.type /\ m.type \in Types /\ fd \in {"none", "open", "closed"}
  BY StepTyped DEF TypeOK, Machine
<1>1. CASE LoopThread \/ SpuriousWakeup
  <2>1. m'.state = "Established" => IF m'.type = "Local" THEN fd' = "open"
                                   ELSE fd' # "none" /\ connector' \in {"tell", "done"}
    BY <1>0, <1>1, LoopSteps DEF Roles, Serves, Ends, Types
  <2>2. loop'.pc = "select" => m'.state = "Established"
    BY <1>1, Whereabouts DEF Test, SpuriousWakeup
  <2> QED
    BY <1>1, <2>1, <2>2, LoopSteps DEF Serves
<1>2. CASE User \/ Connector \/ PeerStep \/ UNCHANGED vars
  <2>1. m.type = "Local" => connector = "none"
    BY DEF Roles
  <2>2. m'.state = "Established" => IF m'.type = "Local" THEN fd' = "open"
                                   ELSE fd' # "none" /\ connector' \in {"tell", "done"}
    BY <1>0, <1>2, <2>1, OtherSteps DEF Serves
  <2>3. m.state = "Established" => m'.state = "Established"
    BY <1>0, <1>2, <2>1, OtherSteps DEF Serves
  <2>4. loop'.pc = "select" => m'.state = "Established"
    BY <2>3, Whereabouts DEF Serves
  <2> QED
    BY <1>2, <2>2, <2>4, OtherSteps DEF Serves
<1> QED
  BY <1>1, <1>2 DEF Next

\* The loop of an accepted socket ends closed.
LEMMA StepEnds == TypeOK /\ Roles /\ RunningTask /\ Serves /\ Ends /\ [Next]_vars => Ends'
<1> SUFFICES ASSUME TypeOK, Roles, RunningTask, Serves, Ends, [Next]_vars, m.type = "Local"
             PROVE  Ends'
  BY StepTyped DEF Ends
<1>0. connector = "none" /\ fd \in {"open", "closed"}
  BY DEF TypeOK, Roles
<1>1. CASE LoopThread \/ SpuriousWakeup
  <2>1. fd' = "closed" \/ loop'.canceled => m'.state = "Closed"
    BY <1>0, <1>1, LoopSteps, Whereabouts DEF Ends
  <2>2. loop'.pc = "over" => loop'.canceled /\ fd' = "closed"
    BY <1>0, <1>1, LoopSteps, Whereabouts DEF Ends, Test, closeSocket
  <2> QED
    BY <2>1, <2>2 DEF Ends
<1>2. CASE User \/ Connector \/ PeerStep \/ UNCHANGED vars
  <2>1. ~Test \/ ~loop.canceled \/ fd' = "closed"
    BY <1>0 DEF Test, closeSocket
  <2>2. fd' = fd /\ loop'.canceled = loop.canceled /\ (m.state = "Closed" => m'.state = "Closed")
    BY <1>0, <1>2, OtherSteps
  <2> QED
    BY <2>1, <2>2, Whereabouts DEF Ends
<1> QED
  BY <1>1, <1>2 DEF Next

\* The end is announced once, and nothing comes after it.
LEMMA StepEnded == IInv /\ [Next]_vars => Ended'
<1> SUFFICES ASSUME IInv, [Next]_vars, told'["EndEncountered"] > 0
             PROVE  /\ told'["EndEncountered"] = 1
                    /\ m'.state \in {"Closing", "Closed"} /\ m'.readClosed
                    /\ net'.fin /\ net'.bytes = 0
                    /\ m'.type = "Local" \/ connector' \in {"tell", "done"}
  BY DEF Ended
<1>0. /\ TypeOK /\ RunningTask /\ Roles /\ Serves /\ m'.type = m.type /\ m \in Machine
      /\ told["EndEncountered"] \in 0..2
  BY StepTyped DEF IInv, TypeOK, Events
<1>1. CASE SelectEnd
  <2>1. m.state = "Established"
    BY <1>0, <1>1 DEF SelectEnd, Serves
  <2>2. told["EndEncountered"] = 0
    BY <1>0, <2>1 DEF IInv, Ended
  <2>3. told'["EndEncountered"] = 1
    BY <1>0, <1>1, <2>2, Telling DEF SelectEnd, Events
  <2>4. m'.state \in {"Closing", "Closed"} /\ m'.readClosed
    BY <1>0, <1>1, <2>1 DEF SelectEnd, readClosed, Machine
  <2>5. net' = net /\ connector' = connector /\ net.fin /\ net.bytes = 0
    <3>1. net.bytes \in Nat /\ ~(net.bytes > 0) => net.bytes = 0
      OBVIOUS
    <3> QED
      BY <1>0, <1>1 DEF SelectEnd, Readable, Others
  <2> QED
    BY <1>0, <2>1, <2>3, <2>4, <2>5 DEF Serves, Machine, Types
<1>2. CASE ~SelectEnd
  <2>1. told'["EndEncountered"] = told["EndEncountered"]
    <3>1. CASE \/ DialFails \/ TellOpen \/ SelectBytes \/ SelectReset \/ SelectUrgentAsSpace
               \/ SelectUrgentAsError \/ SelectFails \/ RecvFails
      <4>1. PICK e \in Events \ {"EndEncountered"} : Tell(e)
        BY <3>1 DEF DialFails, TellOpen, SelectBytes, SelectReset, SelectUrgentAsSpace,
           SelectUrgentAsError, SelectFails, RecvFails, Events
      <4> QED
        BY <1>0, <4>1, Telling
    <3>2. CASE UNCHANGED told
      BY <3>2
    <3> QED
      BY <1>2, <3>1, <3>2 DEF Next, User, CallPosts, CallConnect, CallWrite, WriteReturns, WriteKilled,
         Connector, DialSucceeds, DialDies, HandOver, ConnectedGuard, ConnectedAssign, PeerStep,
         PeerSends, PeerEnds, PeerResets, PeerUrgent, Peer, LoopThread, Test, TestClosed, Wait,
         Drained, SpuriousWakeup, SelectTimeout, OpenTask, ContinueFinishedTask, ReadTask,
         RecvBytes, CloseWriteTask, ShutdownWrite, CloseTask, vars
  <2>2. /\ told["EndEncountered"] = 1
        /\ m.state \in {"Closing", "Closed"} /\ m.readClosed
        /\ net.fin /\ net.bytes = 0
        /\ m.type = "Local" \/ connector \in {"tell", "done"}
    BY <2>1 DEF IInv, Ended
  <2>3. net'.fin /\ net'.bytes = 0
    <3>1. ~PeerSends /\ ~RecvBytes
      BY <2>2 DEF PeerSends, RecvBytes
    <3>2. CASE PeerStep \/ ShutdownWrite
      BY <1>0, <2>2, <3>1, <3>2 DEF PeerStep, PeerEnds, PeerResets, PeerUrgent, Peer, ShutdownWrite,
         TypeOK
    <3>3. CASE UNCHANGED net
      BY <2>2, <3>3
    <3> QED
      BY <1>2, <3>1, <3>2, <3>3 DEF Next, User, CallPosts, CallConnect, CallWrite, WriteReturns, WriteKilled,
         Connector, DialSucceeds, DialFails, DialDies, HandOver, ConnectedGuard, ConnectedAssign,
         TellOpen, LoopThread, Others, Test, TestClosed, Wait, Drained, SpuriousWakeup,
         SelectTimeout, SelectBytes, SelectReset, SelectUrgentAsSpace, SelectUrgentAsError,
         SelectFails, OpenTask, ContinueFinishedTask, ReadTask, RecvFails, CloseWriteTask,
         CloseTask, vars
  <2>4. CASE LoopThread \/ SpuriousWakeup
    BY <1>0, <2>1, <2>2, <2>3, <2>4, LoopSteps
  <2>5. CASE User \/ Connector \/ PeerStep \/ UNCHANGED vars
    <3>1. m.type = "Local" => connector = "none"
      BY <1>0 DEF Roles
    <3> QED
      BY <1>0, <2>1, <2>2, <2>3, <2>5, <3>1, OtherSteps
  <2> QED
    BY <2>4, <2>5 DEF Next
<1> QED
  BY <1>1, <1>2

\* The inductive invariant holds in every state the socket reaches.
THEOREM Invariance == Spec => []IInv
<1>1. TypeOK /\ RunningTask /\ [Next]_vars => RunningTask'
  BY Whereabouts DEF RunningTask
<1>2. IInv /\ [Next]_vars => IInv'
  BY <1>1, StepTyped, StepRoles, StepServes, StepEnds, StepEnded DEF IInv
<1> QED
  BY InitIInv, <1>2, PTL DEF Spec

\* Every variable stays in its range.
THEOREM Typed == Spec => []TypeOK
<1>1. IInv => TypeOK
  BY DEF IInv
<1> QED
  BY Invariance, <1>1, PTL

\* The loop never selects on a descriptor it has not been given, or, on an accepted
\* socket, on one that somebody has closed.
THEOREM SelectsSafely == Spec => []SelectsOnOpenSocket
<1>1. IInv => SelectsOnOpenSocket
  BY DEF IInv, TypeOK, Serves, SelectsOnOpenSocket, Accepted
<1> QED
  BY Invariance, <1>1, PTL

\* An accepted socket never ends its loop with the descriptor open.
THEOREM Releases == Spec => []OverMeansReleased
<1>1. IInv => OverMeansReleased
  BY DEF IInv, Ends, OverMeansReleased, Accepted
<1> QED
  BY Invariance, <1>1, PTL

\* The peer's end of stream is announced once, after all its bytes.
THEOREM EndsOnce == Spec => []EndAnnouncedOnce
<1>1. IInv => EndAnnouncedOnce
  BY DEF IInv, Ended, TypeOK, Events, EndAnnouncedOnce
<1> QED
  BY Invariance, <1>1, PTL

\* The assignment of connected() on the connector's thread comes only after a guard
\* that found the socket open.
LEMMA Assigning ==
  ASSUME [Next]_vars, connector' = "assign"
  PROVE  connector = "assign" \/ m.state \in {"Init", "Establishing"}
<1>1. CASE User \/ PeerStep
  BY <1>1 DEF User, CallPosts, CallConnect, CallWrite, WriteReturns, WriteKilled, PeerStep,
     PeerSends, PeerEnds, PeerResets, PeerUrgent, Peer
<1>2. CASE Connector
  BY <1>2 DEF Connector, DialSucceeds, DialFails, DialDies, HandOver, ConnectedGuard,
     ConnectedAssign, TellOpen
<1>3. CASE LoopThread \/ SpuriousWakeup
  BY <1>3 DEF LoopThread, SpuriousWakeup, Others, Test, TestClosed, Wait, Drained, SelectTimeout,
     SelectBytes, SelectEnd, SelectReset, SelectUrgentAsSpace, SelectUrgentAsError, SelectFails,
     OpenTask, ContinueFinishedTask, ReadTask, RecvBytes, RecvFails, CloseWriteTask,
     ShutdownWrite, CloseTask
<1>4. CASE UNCHANGED vars
  BY <1>4 DEF vars
<1> QED
  BY <1>1, <1>2, <1>3, <1>4 DEF Next

\* A closed socket of either kind stays closed, whatever its user, its loop and its
\* connector's thread do, but for a connected() that had passed its guard before.
THEOREM ClosedStays == Spec => ClosedIsFinal
<1>1. ASSUME IInv, [Next]_vars, ClosedForGood PROVE ClosedForGood'
  <2>1. m'.state = "Closed"
    <3>1. CASE LoopThread \/ SpuriousWakeup
      BY <1>1, <3>1, LoopSteps DEF IInv, ClosedForGood
    <3>2. CASE User \/ Connector \/ PeerStep \/ UNCHANGED vars
      BY <1>1, <3>2, OtherSteps DEF IInv, ClosedForGood
    <3> QED
      BY <1>1, <3>1, <3>2 DEF Next
  <2>2. connector' # "assign"
    BY <1>1, Assigning DEF ClosedForGood
  <2> QED
    BY <2>1, <2>2 DEF ClosedForGood
<1>2. IInv /\ [Next]_vars => [ClosedForGood => ClosedForGood']_vars
  BY <1>1
<1> QED
  BY Invariance, <1>2, PTL DEF Spec, ClosedIsFinal
-----------------------------------------------------------------------------
(* The lifecycle of an accepted socket. *)

\* Closed exactly when both directions have ended; a direction that has ended, or is
\* ending, is one of a connection that is.
Sided == m.type = "Local" =>
           /\ (m.readClosed /\ m.writeClosed) <=> m.state = "Closed"
           /\ m.readClosed \/ m.writeClosed => m.state \in {"Closing", "Closed"}
           /\ m.writeClosing => m.state = "Closing"

\* What the methods an accepted socket calls do to its machine.
LEMMA Methods ==
  ASSUME m \in Machine, m.type = "Local", Sided,
         \/ m' \in {m, connectBegin(m), connected(m), readBegin(m), readEnd(m), writeBegin(m),
                    writeEnd(m), writeCloseBegin(m), writeCloseEnd(m), closed(m)}
         \/ m' = readClosed(m) /\ m.state = "Established"
  PROVE  Sided' /\ [Lifecycle!Next]_(Lifecycle!vars)
<1> USE DEF Machine, States, Sided, Accepted, Lifecycle!Next, Lifecycle!vars
<1>1. CASE m' \in {m, readBegin(m), readEnd(m), writeBegin(m), writeEnd(m)}
  BY <1>1 DEF readBegin, readEnd, writeBegin, writeEnd
<1>2. CASE m' = connectBegin(m)
  BY <1>2 DEF connectBegin, Lifecycle!Begin
<1>3. CASE m' = connected(m)
  BY <1>3 DEF connected, Lifecycle!Connect
<1>4. CASE m' = writeCloseBegin(m)
  BY <1>4 DEF writeCloseBegin, Lifecycle!BeginEnd
<1>5. CASE m' = writeCloseEnd(m)
  BY <1>5 DEF writeCloseEnd, Lifecycle!EndWrite
<1>6. CASE m' = closed(m)
  BY <1>6 DEF closed, Lifecycle!Abort
<1>7. CASE m' = readClosed(m) /\ m.state = "Established"
  BY <1>7 DEF readClosed, Lifecycle!EndRead
<1> QED
  BY <1>1, <1>2, <1>3, <1>4, <1>5, <1>6, <1>7

\* Every step calls one of them, or none; and the end of the stream is met while
\* the socket is established.
LEMMA StepMachine ==
  ASSUME m.type = "Local", Roles, Serves, [Next]_vars
  PROVE  \/ m' \in {m, connectBegin(m), connected(m), readBegin(m), readEnd(m), writeBegin(m),
                    writeEnd(m), writeCloseBegin(m), writeCloseEnd(m), closed(m)}
         \/ m' = readClosed(m) /\ m.state = "Established"
<1>1. CASE User
  BY <1>1 DEF User, CallPosts, CallConnect, CallWrite, WriteReturns, WriteKilled
<1>2. CASE Connector
  BY <1>2 DEF Roles, Connector, DialSucceeds, DialFails, DialDies, HandOver, ConnectedGuard,
     ConnectedAssign, TellOpen
<1>3. CASE PeerStep \/ UNCHANGED vars
  BY <1>3 DEF PeerStep, PeerSends, PeerEnds, PeerResets, PeerUrgent, Peer, vars
<1>4. CASE LoopThread \/ SpuriousWakeup
  BY <1>4 DEF LoopThread, SpuriousWakeup, Test, TestClosed, Wait, Drained, SelectTimeout,
     SelectBytes, SelectEnd, SelectReset, SelectUrgentAsSpace, SelectUrgentAsError, SelectFails,
     OpenTask, ContinueFinishedTask, ReadTask, RecvBytes, RecvFails, CloseWriteTask,
     ShutdownWrite, CloseTask, errored, Serves
<1> QED
  BY <1>1, <1>2, <1>3, <1>4 DEF Next

\* A step of either kind of socket is a step of the lifecycle or none; a connecting
\* socket shows the lifecycle nothing.
LEMMA StepLifecycle ==
  IInv /\ Sided /\ [Next]_vars => Sided' /\ [Lifecycle!Next]_(Lifecycle!vars)
<1> SUFFICES ASSUME IInv, Sided, [Next]_vars
             PROVE  Sided' /\ [Lifecycle!Next]_(Lifecycle!vars)
  OBVIOUS
<1>0. m \in Machine /\ m'.type = m.type
  BY StepTyped DEF IInv, TypeOK
<1>1. CASE m.type = "Local"
  BY <1>0, <1>1, StepMachine, Methods DEF IInv
<1>2. CASE m.type # "Local"
  BY <1>0, <1>2 DEF Sided, Accepted, Lifecycle!vars
<1> QED
  BY <1>1, <1>2

\* The state of an accepted socket follows the state diagram of
\* CommunicatorStateMachine.hpp, whatever the order in which the user's calls, the
\* peer's end of stream and the errors come.
THEOREM Refinement == Spec => LifecycleSpec
<1>1. Init => Sided /\ Lifecycle!Init
  BY DEF Init, NewMachine, Sided, Accepted, Lifecycle!Init
<1> QED
  BY <1>1, StepLifecycle, Invariance, PTL DEF Spec, LifecycleSpec, Lifecycle!Spec
=============================================================================
