-------------------------- MODULE TCPConnectorProofs --------------------------
(***************************************************************************)
(* What module TCPConnector promises for any number of rounds, of calls of *)
(* connect() and of endpoints.                                             *)
(***************************************************************************)
EXTENDS TCPConnector, EventLoopProofs, FiniteSetTheorems

Tasks == Endpoints \cup {"stop"}

Dialling == {"initSocket", "connect", "select", "sleep", "report"}

\* The handler dials while the state is Establishing; its rounds are counted, and
\* none of them but the last leaves a connection that counts as up.
Rounds == /\ loop.pc \in Dialling => m.state = "Establishing"
          /\ loop.pc \in {"connect", "select", "sleep"} => dial.retryTimes < RetryTimes
          /\ loop.pc \in Dialling \ {"report"} => ~dial.isConnect

\* A round works on a descriptor that is open, and reports one that is up.
Holds == /\ loop.pc \in {"connect", "select"} => socket \in open
         /\ loop.pc = "report" /\ dial.isConnect => socket \in open /\ fate = "up"

\* A round closes what the last one opened, but for the descriptor 0.
FewOpen == /\ open \subseteq {0, socket}
           /\ FirstFd > 0 => 0 \notin open

\* However often connect() is called and however many rounds a dial takes, the
\* owner is told at most once, and the dial is over when it is.
OneAnswer == /\ Len(events) <= 1
             /\ events # << >> => m.state \in {"Established", "Closed"}

Answered == OneAnswer /\ AnswerIsTrue

IInv == TypeOK /\ Rounds /\ Holds /\ FewOpen /\ Answered

\* The lowest free descriptor when none is open, and when 0 is.
LEMMA Lowest ==
  ASSUME NEW fds, fds = {} \/ (fds = {0} /\ FirstFd = 0)
  PROVE  LowestFree(fds) \in Nat /\ LowestFree(fds) >= FirstFd
<1>0. FirstFd \in Nat
  BY RetryAssumption
<1>1. CASE fds = {}
  <2>1. {fd \in FirstFd..(FirstFd + Cardinality(fds)) : fd \notin fds} = {FirstFd}
    BY <1>0, <1>1, FS_EmptySet
  <2>2. LowestFree(fds) = FirstFd
    BY <1>0, <2>1 DEF LowestFree, Min
  <2> QED
    BY <1>0, <2>2
<1>2. CASE fds = {0} /\ FirstFd = 0
  <2>1. Cardinality({0}) = 1
    BY FS_Singleton
  <2>2. {fd \in 0..1 : fd \notin {0}} = {1}
    OBVIOUS
  <2>3. LowestFree(fds) = CHOOSE x \in {1} : \A y \in {1} : x <= y
    BY <1>2, <2>1, <2>2 DEF LowestFree, Min
  <2> QED
    BY <1>2, <2>3
<1> QED
  BY <1>1, <1>2

\* What a new round opens and leaves open.
LEMMA NewRound ==
  ASSUME TypeOK, FewOpen, InitSocket
  PROVE  /\ socket' \in Nat /\ socket' \in open' /\ open' \subseteq Nat
         /\ FewOpen'
<1> DEFINE kept == IF socket > 0 THEN open \ {socket} ELSE open
<1>1. socket' = LowestFree(kept) /\ open' = kept \cup {socket'}
  BY DEF InitSocket
<1>2. socket \in Int /\ open \subseteq Nat /\ FirstFd \in Nat
  BY RetryAssumption DEF TypeOK
<1>3. kept = {} \/ (kept = {0} /\ FirstFd = 0)
  <2>1. kept \subseteq {0} /\ kept \subseteq open
    BY <1>2 DEF FewOpen
  <2>2. 0 \in kept => FirstFd = 0
    BY <1>2, <2>1 DEF FewOpen
  <2> HIDE DEF kept
  <2>3. CASE 0 \in kept
    BY <2>1, <2>2, <2>3
  <2>4. CASE 0 \notin kept
    BY <2>1, <2>4
  <2> QED
    BY <2>3, <2>4
<1>4. LowestFree(kept) \in Nat /\ LowestFree(kept) >= FirstFd
  BY <1>3, Lowest
<1> HIDE DEF kept
<1>5. open' \subseteq {0, socket'} /\ open' \subseteq Nat /\ socket' \in open'
  BY <1>1, <1>3, <1>4
<1>6. FirstFd > 0 => 0 \notin open'
  BY <1>1, <1>2, <1>3, <1>4
<1> QED
  BY <1>1, <1>4, <1>5, <1>6 DEF FewOpen

\* A new connector satisfies the inductive invariant.
LEMMA InitIInv == Init => IInv
<1> SUFFICES ASSUME Init PROVE IInv
  OBVIOUS
<1>1. /\ loop \in Loop(Tasks, Places) /\ loop.pc = "test" /\ loop.queue = << >>
      /\ m \in Machine
  BY NewTyped DEF Init, Places, Types
<1>2. TypeOK
  <2>1. /\ dial \in [retryTimes: 0..RetryTimes, isConnect: BOOLEAN, isError: BOOLEAN]
        /\ connects \in 0..MaxConnects
    BY RetryAssumption DEF Init, NoDial
  <2>2. events \in Seq([event: {"Connected", "Timeout", "Errored"}, fd: Int])
    BY DEF Init
  <2> QED
    BY <1>1, <2>1, <2>2 DEF Init, TypeOK, Tasks, Fates
<1>3. Rounds /\ Holds /\ FewOpen /\ Answered
  BY <1>1 DEF Init, Rounds, Dialling, Holds, FewOpen, Answered, OneAnswer, AnswerIsTrue
<1> QED
  BY <1>2, <1>3 DEF IInv

\* The places of the connector's thread, as module EventLoop and its own name them.
LEMMA PlacesOfLoop == Dialling \cup {"off", "died", "test", "body", "locking", "asleep", "drain"}
                        \subseteq Places
  BY DEF Places, Dialling

\* A task that has run leaves the queue.
LEMMA Popped ==
  ASSUME TypeOK, loop.queue # << >>
  PROVE  /\ pop(loop) \in Loop(Tasks, Places) /\ pop(loop).pc = "drain"
         /\ stop(pop(loop)) \in Loop(Tasks, Places) /\ stop(pop(loop)).pc = "drain"
<1>1. loop \in Loop(Tasks, Places) /\ "drain" \in Places /\ "test" \in Places
  BY PlacesOfLoop DEF TypeOK, Tasks
<1>2. pop(loop) \in Loop(Tasks, Places) /\ pop(loop).pc = "drain"
  BY <1>1, PopMoves
<1> QED
  BY <1>1, <1>2, FlagMoves

\* A task that is posted.
LEMMA Posted ==
  ASSUME TypeOK, NEW task \in Tasks
  PROVE  /\ post(loop, task) \in Loop(Tasks, Places)
         /\ post(loop, task).pc = IF loop.pc = "asleep" THEN "locking" ELSE loop.pc
<1>1. loop \in Loop(Tasks, Places) /\ "locking" \in Places
  BY PlacesOfLoop DEF TypeOK, Tasks
<1> QED
  BY <1>1, PostMoves

\* The verdict moves the thread on to the tasks, or to a new turn of the handler.
LEMMA Reported ==
  ASSUME TypeOK, Report
  PROVE  loop' \in Loop(Tasks, Places) /\ loop'.pc \in {"drain", "test"}
<1> DEFINE up == dial.isConnect /\ ~dial.isError
           l == IF up THEN post(loop, "stop") ELSE loop
<1>1. "stop" \in Tasks /\ loop \in Loop(Tasks, Places)
  BY DEF Tasks, TypeOK
<1>2. l \in Loop(Tasks, Places)
  BY <1>1, Posted
<1>3. loop' = dispatch(l, FALSE)
  BY DEF Report
<1> HIDE DEF l
<1> QED
  BY <1>2, <1>3 DEF dispatch, Loop, Goto, Places

\* The steps of the handler that neither run, post nor report anything.
Moves == \/ Test \/ Dispatch \/ Wait \/ Drained \/ SpuriousWakeup
         \/ InitSocket \/ InitSocketThrows \/ RoundsOver
         \/ ConnectUp \/ ConnectFails \/ ConnectInProgress
         \/ SelectUp \/ SelectReadable \/ SelectTimeout \/ SelectFails \/ Sleep

\* They leave a loop behind.
LEMMA MovesLoop == TypeOK /\ Moves => loop' \in Loop(Tasks, Places)
  BY DEF TypeOK, Tasks, Moves, Test, Dispatch, Wait, Drained, SpuriousWakeup, InitSocket,
     InitSocketThrows, RoundsOver, ConnectUp, ConnectFails, ConnectInProgress, SelectUp,
     SelectReadable, SelectTimeout, SelectFails, Sleep, Loop, Places, Goto, dispatch,
     waitForWork, spuriousWakeup, drained

\* No step takes a variable out of its range.
LEMMA StepTyped == TypeOK /\ Rounds /\ FewOpen /\ [Next]_vars => TypeOK'
<1> SUFFICES ASSUME TypeOK, Rounds, FewOpen, [Next]_vars PROVE TypeOK'
  OBVIOUS
<1> USE RetryAssumption DEF TypeOK, HandlerOnly, Tasks
<1>1. CASE Connect
  <2>1. loop' \in Loop(Tasks, Places)
    BY <1>1, Posted DEF Connect
  <2>2. connects' \in 0..MaxConnects
    BY <1>1 DEF Connect
  <2> QED
    BY <1>1, <2>1, <2>2 DEF Connect
<1>2. CASE ConnectTask \/ StopTask
  BY <1>2, Popped, MachineTyped DEF ConnectTask, StopTask
<1>3. CASE Test
  BY <1>3, MovesLoop DEF Moves, Test, NoDial
<1>4. CASE Dispatch \/ Wait \/ Drained \/ SpuriousWakeup \/ RoundsOver \/ SelectReadable
  <2>1. loop' \in Loop(Tasks, Places)
    BY <1>4, MovesLoop DEF Moves
  <2> QED
    BY <1>4, <2>1 DEF Dispatch, Wait, Drained, SpuriousWakeup, RoundsOver, SelectReadable
<1>5. CASE InitSocket
  <2>1. loop' \in Loop(Tasks, Places)
    BY <1>5, MovesLoop DEF Moves
  <2>2. socket' \in Int /\ open' \subseteq Nat
    BY <1>5, NewRound
  <2> QED
    BY <1>5, <2>1, <2>2 DEF InitSocket, Fates
<1>6. CASE InitSocketThrows
  BY <1>6, MovesLoop, MachineTyped DEF InitSocketThrows, Moves, Fates
<1>7. CASE ConnectUp \/ ConnectFails \/ ConnectInProgress
  <2>1. loop' \in Loop(Tasks, Places)
    BY <1>7, MovesLoop DEF Moves
  <2> QED
    BY <1>7, <2>1 DEF ConnectUp, ConnectFails, ConnectInProgress, Fates
<1>8. CASE SelectUp \/ SelectFails
  BY <1>8, MovesLoop DEF SelectUp, SelectFails, Moves
<1>9. CASE SelectTimeout \/ Sleep
  <2>1. loop.pc \in {"select", "sleep"} /\ loop' \in Loop(Tasks, Places)
    BY <1>9, MovesLoop DEF SelectTimeout, Sleep, Moves
  <2>2. dial.retryTimes + 1 \in 0..RetryTimes
    BY <2>1 DEF Rounds
  <2>3. dial' \in [retryTimes: 0..RetryTimes, isConnect: BOOLEAN, isError: BOOLEAN]
    <3>1. /\ dial.isConnect \in BOOLEAN /\ dial.isError \in BOOLEAN
          /\ FALSE \in BOOLEAN
      OBVIOUS
    <3>2. CASE SelectTimeout
      BY <2>2, <3>1, <3>2 DEF SelectTimeout, NextRound
    <3>3. CASE Sleep
      BY <2>2, <3>1, <3>3 DEF Sleep, NextRound
    <3> QED
      BY <1>9, <3>2, <3>3
  <2>4. UNCHANGED <<m, endpoint, socket, open, fate, events, connects>>
    BY <1>9 DEF SelectTimeout, Sleep
  <2> QED
    BY <2>1, <2>3, <2>4
<1>10. CASE Report
  <2>1. loop' \in Loop(Tasks, Places)
    BY <1>10, Reported
  <2>2. events' \in Seq([event: {"Connected", "Timeout", "Errored"}, fd: Int])
    BY <1>10 DEF Report
  <2>3. m' \in Machine
    BY <1>10, MachineTyped DEF Report
  <2> QED
    BY <1>10, <2>1, <2>2, <2>3 DEF Report
<1>11. CASE UNCHANGED vars
  BY <1>11 DEF vars
<1> QED
  BY <1>1, <1>2, <1>3, <1>4, <1>5, <1>6, <1>7, <1>8, <1>9, <1>10, <1>11
     DEF Next, Thread

\* Outside the handler the rounds are over.
LEMMA StepRounds == TypeOK /\ Rounds /\ [Next]_vars => Rounds'
<1> SUFFICES ASSUME TypeOK, Rounds, [Next]_vars PROVE Rounds'
  OBVIOUS
<1> USE DEF Rounds, Dialling
<1>0. loop \in Loop(Tasks, Places)
  BY DEF TypeOK, Tasks
<1>1. CASE Connect
  <2>1. loop'.pc = loop.pc \/ loop'.pc = "locking"
    BY <1>1, Posted DEF Connect, Tasks
  <2> QED
    BY <1>1, <2>1 DEF Connect
<1>2. CASE ConnectTask \/ StopTask
  <2>1. loop'.pc = "drain"
    BY <1>2, Popped DEF ConnectTask, StopTask
  <2> QED
    BY <2>1
<1>3. CASE Report
  BY <1>3, Reported
<1>4. CASE Test \/ Dispatch \/ Wait \/ Drained \/ SpuriousWakeup
  BY <1>0, <1>4 DEF Test, Dispatch, Wait, Drained, SpuriousWakeup, NoDial, Loop, Goto,
     dispatch, waitForWork, spuriousWakeup, drained, HandlerOnly
<1>5. CASE InitSocket \/ InitSocketThrows \/ RoundsOver
  BY <1>0, RetryAssumption, <1>5 DEF InitSocket, InitSocketThrows, RoundsOver, Loop, Goto, HandlerOnly,
     TypeOK
<1>6. CASE ConnectUp \/ ConnectFails \/ ConnectInProgress
  BY <1>0, <1>6 DEF ConnectUp, ConnectFails, ConnectInProgress, Loop, Goto, TypeOK
<1>7. CASE SelectUp \/ SelectReadable \/ SelectTimeout \/ SelectFails \/ Sleep
  <2>1. loop.pc \in {"select", "sleep"} /\ m' = m /\ m.state = "Establishing"
    BY <1>7 DEF SelectUp, SelectReadable, SelectTimeout, SelectFails, Sleep, HandlerOnly
  <2>2. CASE SelectUp
    BY <1>0, <2>1, <2>2 DEF SelectUp, Loop, Goto
  <2>3. CASE SelectReadable
    BY <1>0, <2>1, <2>3 DEF SelectReadable, Loop, Goto
  <2>4. CASE SelectTimeout
    BY <1>0, <2>1, <2>4 DEF SelectTimeout, NextRound, Loop, Goto
  <2>5. CASE SelectFails
    BY <1>0, <2>1, <2>5 DEF SelectFails, Loop, Goto, TypeOK
  <2>6. CASE Sleep
    BY <1>0, <2>1, <2>6 DEF Sleep, NextRound, Loop, Goto
  <2> QED
    BY <1>7, <2>2, <2>3, <2>4, <2>5, <2>6
<1>8. CASE UNCHANGED vars
  BY <1>8 DEF vars
<1> QED
  BY <1>1, <1>2, <1>3, <1>4, <1>5, <1>6, <1>7, <1>8 DEF Next, Thread

\* The descriptor of a round is open from the round's start to the verdict.
LEMMA StepHolds == TypeOK /\ Rounds /\ Holds /\ FewOpen /\ [Next]_vars => Holds'
<1> SUFFICES ASSUME TypeOK, Rounds, Holds, FewOpen, [Next]_vars PROVE Holds'
  OBVIOUS
<1> USE DEF Holds
<1>0. loop \in Loop(Tasks, Places)
  BY DEF TypeOK, Tasks
<1>1. CASE Connect
  <2>1. loop'.pc = loop.pc \/ loop'.pc = "locking"
    BY <1>1, Posted DEF Connect, Tasks
  <2> QED
    BY <1>1, <2>1 DEF Connect
<1>2. CASE ConnectTask \/ StopTask
  <2>1. loop'.pc = "drain"
    BY <1>2, Popped DEF ConnectTask, StopTask
  <2> QED
    BY <2>1
<1>3. CASE Report
  BY <1>3, Reported
<1>4. CASE Test \/ Dispatch \/ Wait \/ Drained \/ SpuriousWakeup
  BY <1>0, <1>4 DEF Test, Dispatch, Wait, Drained, SpuriousWakeup, Loop, Goto,
     dispatch, waitForWork, spuriousWakeup, drained
<1>5. CASE InitSocket
  <2>1. loop'.pc = "connect"
    BY <1>0, <1>5 DEF InitSocket, Loop, Goto
  <2> QED
    BY <1>5, <2>1, NewRound
<1>6. CASE InitSocketThrows \/ RoundsOver
  BY <1>0, <1>6 DEF InitSocketThrows, RoundsOver, Loop, Goto, Rounds, Dialling
<1>7. CASE ConnectUp \/ ConnectFails \/ ConnectInProgress
  BY <1>0, <1>7 DEF ConnectUp, ConnectFails, ConnectInProgress, Loop, Goto
<1>8. CASE SelectUp \/ SelectReadable \/ SelectTimeout \/ SelectFails \/ Sleep
  BY <1>0, <1>8 DEF SelectUp, SelectReadable, SelectTimeout, SelectFails, Sleep, Loop, Goto,
     HandlerOnly
<1>9. CASE UNCHANGED vars
  BY <1>9 DEF vars
<1> QED
  BY <1>1, <1>2, <1>3, <1>4, <1>5, <1>6, <1>7, <1>8, <1>9 DEF Next, Thread

\* Only a new round touches the descriptors.
LEMMA StepFewOpen == TypeOK /\ FewOpen /\ [Next]_vars => FewOpen'
<1> SUFFICES ASSUME TypeOK, FewOpen, [Next]_vars PROVE FewOpen'
  OBVIOUS
<1>1. CASE InitSocket
  BY <1>1, NewRound
<1>2. CASE InitSocketThrows
  <2>1. open' \subseteq {0} /\ open' \subseteq open
    BY <1>2 DEF InitSocketThrows, FewOpen, TypeOK
  <2> QED
    BY <2>1 DEF FewOpen
<1>3. CASE ~InitSocket /\ ~InitSocketThrows
  <2>1. UNCHANGED <<socket, open>>
    BY <1>3 DEF Next, Thread, Connect, ConnectTask, StopTask, Test, Dispatch, Wait, Drained,
       SpuriousWakeup, RoundsOver, ConnectUp, ConnectFails, ConnectInProgress, SelectUp,
       SelectReadable, SelectTimeout, SelectFails, Sleep, Report, HandlerOnly, vars
  <2> QED
    BY <2>1 DEF FewOpen
<1> QED
  BY <1>1, <1>2, <1>3

\* A step is one of the handler while it dials, or the verdict, or it touches
\* neither the connection nor the answer.
LEMMA Shapes ==
  ASSUME IInv, [Next]_vars
  PROVE  \/ /\ m.state = "Establishing" /\ m'.state # "Init"
            /\ events = << >> /\ events' = events
         \/ Report
         \/ /\ UNCHANGED <<events, socket, open, fate>>
            /\ m' = m \/ m' = connectBegin(m)
<1>0. m \in Machine /\ OneAnswer
  BY DEF IInv, TypeOK, Answered
<1>1. CASE loop.pc \in Dialling \ {"report"}
  <2>1. m.state = "Establishing" /\ events = << >>
    BY <1>0, <1>1 DEF IInv, Rounds, OneAnswer
  <2>2. ~Report
    BY <1>1 DEF Report
  <2>3. events' = events /\ (m' = m \/ m' = errored(m))
    BY <1>1, <2>2 DEF Next, Thread, Connect, ConnectTask, StopTask, Test, Dispatch, Wait, Drained,
       SpuriousWakeup, InitSocket, InitSocketThrows, RoundsOver, ConnectUp, ConnectFails,
       ConnectInProgress, SelectUp, SelectReadable, SelectTimeout, SelectFails, Sleep,
       HandlerOnly, vars, Dialling
  <2>4. m'.state # "Init"
    BY <1>0, <2>1, <2>3 DEF errored, closed, Machine
  <2> QED
    BY <2>1, <2>3, <2>4
<1>2. CASE loop.pc \notin Dialling \ {"report"} /\ ~Report
  <2>1. UNCHANGED <<events, socket, open, fate>>
    BY <1>2 DEF Next, Thread, Connect, ConnectTask, StopTask, Test, Dispatch, Wait, Drained,
       SpuriousWakeup, InitSocket, InitSocketThrows, RoundsOver, ConnectUp, ConnectFails,
       ConnectInProgress, SelectUp, SelectReadable, SelectTimeout, SelectFails, Sleep,
       HandlerOnly, vars, Dialling
  <2>2. m' = m \/ m' = connectBegin(m)
    BY <1>2 DEF Next, Thread, Connect, ConnectTask, StopTask, Test, Dispatch, Wait, Drained,
       SpuriousWakeup, InitSocket, InitSocketThrows, RoundsOver, ConnectUp, ConnectFails,
       ConnectInProgress, SelectUp, SelectReadable, SelectTimeout, SelectFails, Sleep,
       HandlerOnly, vars, Dialling
  <2> QED
    BY <2>1, <2>2
<1> QED
  BY <1>1, <1>2

\* The verdict is the first, and a success is reported with a connection that is up.
LEMMA Verdict ==
  ASSUME IInv, Report
  PROVE  /\ events = << >> /\ m.state = "Establishing"
         /\ m'.state \in {"Established", "Closed"}
         /\ UNCHANGED <<socket, open, fate>>
         /\ Len(events') = 1 /\ events' \in Seq([event: {"Connected", "Timeout", "Errored"}, fd: Int])
         /\ events'[1].event = "Connected" =>
              events'[1].fd = socket /\ socket \in open /\ fate = "up"
<1>0. m \in Machine /\ socket \in Int /\ OneAnswer
  BY DEF IInv, TypeOK, Answered
<1>1. loop.pc = "report" /\ m.state = "Establishing" /\ events = << >>
  BY <1>0 DEF Report, IInv, Rounds, Dialling, OneAnswer
<1> DEFINE up == dial.isConnect /\ ~dial.isError
           verdict == IF up THEN "Connected" ELSE IF dial.isError THEN "Errored" ELSE "Timeout"
           report == [event |-> verdict, fd |-> IF up THEN socket ELSE -1]
<1>2. /\ events' = Append(events, report) /\ UNCHANGED <<socket, open, fate>>
      /\ m' = IF up THEN connected(m) ELSE errored(m)
  BY DEF Report
<1>3. /\ report.event = "Connected" => up /\ report.fd = socket
      /\ report \in [event: {"Connected", "Timeout", "Errored"}, fd: Int]
  BY <1>0
<1>4. m'.state \in {"Established", "Closed"}
  BY <1>0, <1>1, <1>2 DEF connected, errored, closed, Machine
<1>5. up => socket \in open /\ fate = "up"
  BY <1>1 DEF IInv, Holds
<1> HIDE DEF report, up
<1>6. /\ Len(events') = 1 /\ events'[1] = report
      /\ events' \in Seq([event: {"Connected", "Timeout", "Errored"}, fd: Int])
  BY <1>1, <1>2, <1>3
<1> QED
  BY <1>1, <1>2, <1>3, <1>4, <1>5, <1>6

\* A verdict is given once, by a handler that was dialling, and after that nothing
\* touches the descriptor it handed over.
LEMMA StepAnswered == IInv /\ [Next]_vars => Answered'
<1> SUFFICES ASSUME IInv, [Next]_vars PROVE Answered'
  OBVIOUS
<1>0. OneAnswer /\ AnswerIsTrue
  BY DEF IInv, Answered
<1>1. CASE m.state = "Establishing" /\ events = << >> /\ events' = events
  BY <1>1 DEF Answered, OneAnswer, AnswerIsTrue
<1>2. CASE Report
  <2>1. /\ m'.state \in {"Established", "Closed"} /\ Len(events') = 1
        /\ UNCHANGED <<socket, open, fate>>
        /\ events'[1].event = "Connected" =>
             events'[1].fd = socket /\ socket \in open /\ fate = "up"
    BY <1>2, Verdict
  <2>2. \A i \in 1..Len(events') : i = 1
    BY <2>1
  <2> QED
    BY <2>1, <2>2 DEF Answered, OneAnswer, AnswerIsTrue
<1>3. CASE /\ UNCHANGED <<events, socket, open, fate>>
           /\ m' = m \/ m' = connectBegin(m)
  <2>1. m.state \in {"Established", "Closed"} => m'.state = m.state
    BY <1>3 DEF connectBegin
  <2> QED
    BY <1>0, <1>3, <2>1 DEF Answered, OneAnswer, AnswerIsTrue
<1> QED
  BY <1>1, <1>2, <1>3, Shapes

\* The inductive invariant holds in every state the connector reaches.
THEOREM Invariance == Spec => []IInv
<1>1. IInv /\ [Next]_vars => IInv'
  BY StepTyped, StepRounds, StepHolds, StepFewOpen, StepAnswered DEF IInv
<1> QED
  BY InitIInv, <1>1, PTL DEF Spec

\* Every variable stays in its range.
THEOREM Typed == Spec => []TypeOK
<1>1. IInv => TypeOK
  BY DEF IInv
<1> QED
  BY Invariance, <1>1, PTL

\* However many rounds a dial takes and however often connect() is called, the
\* owner is told at most once.
THEOREM AnswersOnce == Spec => []OneAnswer
<1>1. IInv => OneAnswer
  BY DEF IInv, Answered
<1> QED
  BY Invariance, <1>1, PTL

\* A connection that is reported is up, on the descriptor that is handed over.
THEOREM AnswersTruly == Spec => []AnswerIsTrue
<1>1. IInv => AnswerIsTrue
  BY DEF IInv, Answered
<1> QED
  BY Invariance, <1>1, PTL

\* The rounds leave no descriptor behind, in a process that has its standard input
\* open: closeSocket() and initSocket() take the descriptor 0 for none.
THEOREM KeepsOneDescriptor == ASSUME FirstFd > 0 PROVE Spec => []OneDescriptor
<1>1. IInv => OneDescriptor
  BY DEF IInv, FewOpen, OneDescriptor
<1> QED
  BY Invariance, <1>1, PTL

\* A connector that nobody has called is a dial nobody has asked for.
LEMMA InitDial == Init => Promise!Init
<1> SUFFICES ASSUME Init PROVE Promise!Init
  OBVIOUS
<1>1. m.state = "Init" /\ fate = "none" /\ Len(events) = 0
  BY NewTyped DEF Init, Types
<1>2. ~Given /\ Answer = "none"
  BY <1>1 DEF Given, Answer
<1> QED
  BY <1>1, <1>2 DEF Promise!Init

\* What the mapping makes of the answers.
LEMMA Answers == /\ events = << >> => ~Given /\ Answer = "none"
                 /\ Len(events) = 1 => /\ Given <=> events[1].event = "Connected"
                                       /\ Answer = IF Given THEN "Connected" ELSE "Failed"
<1>1. Len(events) = 1 => (Given <=> events[1].event = "Connected")
  BY DEF Given
<1> QED
  BY <1>1 DEF Given, Answer

\* Each step is a step of the dial, or none.
LEMMA StepDial == IInv /\ [Next]_vars => [Promise!Next]_(Promise!vars)
<1> SUFFICES ASSUME IInv, [Next]_vars PROVE [Promise!Next]_(Promise!vars)
  OBVIOUS
<1> DEFINE asked == m.state # "Init"
           up == fate \in {"up", "greeted"}
<1>1. CASE /\ m.state = "Establishing" /\ m'.state # "Init"
           /\ events = << >> /\ events' = events
  <2>1. asked /\ asked' /\ ~Given /\ ~Given' /\ Answer = "none" /\ Answer' = "none"
    BY <1>1, Answers DEF Given, Answer
  <2>2. asked' = asked /\ Answer' = Answer
    BY <2>1
  <2>3. Given' = Given
    BY <1>1 DEF Given
  <2>4. CASE up' = up
    BY <2>2, <2>3, <2>4 DEF Promise!vars
  <2>5. CASE up' = ~up
    BY <2>1, <2>2, <2>3, <2>5 DEF Promise!Attempt, Promise!Next
  <2>6. up' = up \/ up' = ~up
    OBVIOUS
  <2> QED
    BY <2>4, <2>5, <2>6
<1>2. CASE Report
  <2>1. /\ m.state = "Establishing" /\ m'.state \in {"Established", "Closed"}
        /\ fate' = fate /\ events = << >> /\ Len(events') = 1
        /\ events'[1].event = "Connected" => fate = "up"
    BY <1>2, Verdict
  <2>2. /\ Given' <=> events'[1].event = "Connected"
        /\ Answer' = IF Given' THEN "Connected" ELSE "Failed"
    BY <2>1 DEF Given, Answer
  <2>3. asked /\ asked' /\ (up' <=> up) /\ ~Given /\ Answer = "none"
    BY <2>1, Answers
  <2>4. CASE Given'
    BY <2>1, <2>2, <2>3, <2>4 DEF Promise!Succeed, Promise!Next
  <2>5. CASE ~Given'
    <3>1. Answer' = "Failed" /\ asked' = asked /\ up' = up
      BY <2>1, <2>2, <2>3, <2>5
    <3>2. Given' = Given
      BY <2>3, <2>5 DEF Given
    <3> QED
      BY <2>3, <3>1, <3>2 DEF Promise!Fail, Promise!Next
  <2> QED
    BY <2>4, <2>5
<1>3. CASE /\ UNCHANGED <<events, socket, open, fate>>
           /\ m' = m \/ m' = connectBegin(m)
  <2>1. up' = up /\ Given' = Given /\ Answer' = Answer
    BY <1>3 DEF Given, Answer
  <2>2. asked' = asked \/ (~asked /\ asked' = TRUE)
    BY <1>3 DEF connectBegin, IInv, TypeOK, Machine
  <2>3. CASE asked' = asked
    BY <2>1, <2>3 DEF Promise!vars
  <2>4. CASE ~asked /\ asked' = TRUE
    BY <2>1, <2>4 DEF Promise!Ask, Promise!Next
  <2> QED
    BY <2>2, <2>3, <2>4
<1> QED
  BY <1>1, <1>2, <1>3, Shapes

\* TCPConnector implements Dial, for any number of rounds, endpoints and calls.
THEOREM DialRefinement == Spec => DialSpec
<1> QED
  BY Invariance, InitDial, StepDial, PTL DEF Spec, DialSpec, Promise!Spec
=============================================================================
