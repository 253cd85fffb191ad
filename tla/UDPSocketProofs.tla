---------------------------- MODULE UDPSocketProofs ----------------------------
(***************************************************************************)
(* What module UDPSocket promises for any calls of the user and any number *)
(* of datagrams.                                                           *)
(***************************************************************************)
EXTENDS UDPSocket, EventLoopProofs

\* The peer of a UDP socket has no stream to end, so only Closed ends the read
\* side; a direction that is ending is one of a connection that is.
Sided == /\ m.readClosed <=> m.state = "Closed"
         /\ m.state = "Closed" => m.writeClosed
         /\ m.writeClosed => m.state \in {"Closing", "Closed"}
         /\ m.writeClosing => m.state = "Closing"

\* The thread completes the end of the stream inside the task that began it.
EndingTask == loop.pc = "writeClosing" => loop.queue # << >>

CloseCalled == "close" \in Calls \ todo

\* A task that closes is there because the user called close().
CloseIsAsked == \A i \in 1..Len(loop.queue) : loop.queue[i] = "close" => CloseCalled

\* Nothing unusual has happened to the socket and the process runs.
Undisturbed == mishaps = {} /\ loop.pc # "killed"

\* Then an announcement is answered before the loop selects again: there is at
\* most one read() for it, only while the tasks are run, and its datagram waits.
Prompted == Undisturbed =>
              /\ loop.pc \notin {"drain", "writeClosing"} => NoPrompt(loop.queue, "read")
              /\ OnePrompt(loop.queue, "read")
              /\ NoPrompt(loop.queue, "read") \/ inbox # << >>
              /\ \A i \in 1..Len(inbox) : inbox[i] = "data"

IInv == TypeOK /\ EndingTask /\ Sided /\ CloseIsAsked /\ Prompted /\ ClosedHasACause

\* A new socket satisfies the inductive invariant.
LEMMA InitIInv == Init => IInv
<1> SUFFICES ASSUME Init PROVE IInv
  OBVIOUS
<1>1. /\ loop \in Loop(PostingCalls, Places) /\ loop.pc = "test" /\ loop.queue = << >>
      /\ m \in Machine /\ m.state = "Init"
  BY NewTyped DEF Init, Places, Types
<1>2. ~m.readClosed /\ ~m.writeClosed /\ ~m.writeClosing
  BY DEF Init, NewMachine
<1>3. << >> \in Seq({"data", "empty"}) /\ Len(<< >>) = 0
  OBVIOUS
<1>4. TypeOK
  <2>1. inbox \in Seq({"data", "empty"}) /\ Len(inbox) <= arrivals
    BY <1>3 DEF Init
  <2>2. arrivals \in 0..MaxDatagrams
    BY CallsAssumption DEF Init
  <2> QED
    BY <1>1, <2>1, <2>2 DEF Init, TypeOK
<1> QED
  BY <1>1, <1>2, <1>4 DEF Init, IInv, EndingTask, Sided, CloseIsAsked, Prompted, NoPrompt, OnePrompt,
     ClosedHasACause

\* Where a thread can be.
LEMMA PlacesOfLoop == {"test", "locking", "asleep", "drain", "select", "writeClosing", "over",
                       "killed"} \subseteq Places
  BY DEF Places

\* The task at the head of the queue, for the actions that run one.
LEMMA AtHead ==
  ASSUME TypeOK, NEW task, At(task)
  PROVE  /\ loop.pc = "drain" /\ loop.queue # << >> /\ Head(loop.queue) = task
         /\ task \in PostingCalls
<1>1. loop.queue \in Seq(PostingCalls) /\ loop.queue # << >> /\ Head(loop.queue) = task
  BY DEF TypeOK, At, Loop
<1> QED
  BY <1>1 DEF At

\* A task that has run leaves the queue.
LEMMA Popped ==
  ASSUME TypeOK, loop.queue # << >>
  PROVE  /\ pop(loop) \in Loop(PostingCalls, Places)
         /\ pop(loop).queue = Tail(loop.queue) /\ pop(loop).pc = "drain"
<1>1. loop \in Loop(PostingCalls, Places) /\ "drain" \in Places
  BY PlacesOfLoop DEF TypeOK
<1> QED
  BY <1>1, PopMoves

\* A task that is posted.
LEMMA Posted ==
  ASSUME TypeOK, NEW task \in PostingCalls
  PROVE  /\ post(loop, task) \in Loop(PostingCalls, Places)
         /\ post(loop, task).queue = Append(loop.queue, task)
         /\ post(loop, task).queue # << >>
         /\ post(loop, task).pc = IF loop.pc = "asleep" THEN "locking" ELSE loop.pc
<1>1. loop \in Loop(PostingCalls, Places) /\ "locking" \in Places
  BY PlacesOfLoop DEF TypeOK
<1> QED
  BY <1>1, PostMoves

\* The announcement: the prompt is posted and dispatch() goes on to the tasks.
LEMMA Announced ==
  ASSUME TypeOK
  PROVE  /\ dispatch(post(loop, "read"), FALSE) \in Loop(PostingCalls, Places)
         /\ dispatch(post(loop, "read"), FALSE).queue = Append(loop.queue, "read")
         /\ dispatch(post(loop, "read"), FALSE).pc = "drain"
<1> DEFINE l == post(loop, "read")
<1>1. "read" \in PostingCalls
  BY DEF PostingCalls
<1>2. l \in Loop(PostingCalls, Places) /\ l.queue = Append(loop.queue, "read") /\ l.queue # << >>
  BY <1>1, Posted
<1>3. dispatch(l, FALSE) = Goto(l, "drain")
  BY <1>2 DEF dispatch
<1>4. l \in Loop(PostingCalls, Places) /\ "drain" \in Places
  BY <1>2, PlacesOfLoop
<1> HIDE DEF l
<1>5. /\ Goto(l, "drain") \in Loop(PostingCalls, Places) /\ Goto(l, "drain").pc = "drain"
      /\ Goto(l, "drain").queue = l.queue
  BY <1>4, GotoMoves
<1> QED
  BY <1>2, <1>3, <1>5 DEF l

\* The steps of the thread that run no task and announce nothing.
Moves == Test \/ Wait \/ Drained \/ SpuriousWakeup \/ SelectTimeout \/ SelectFails

\* They leave the queue as it is.
LEMMA QueueKept ==
  ASSUME TypeOK, Moves \/ CloseWriteTask \/ WriteCrashes
  PROVE  /\ loop' \in Loop(PostingCalls, Places)
         /\ loop'.queue = loop.queue
  BY DEF TypeOK, Moves, Test, Wait, Drained, SpuriousWakeup, SelectTimeout, SelectFails,
     CloseWriteTask, WriteCrashes, LoopOnly, Loop, Places, Goto, dispatch, stop, waitForWork,
     spuriousWakeup, drained

\* No step takes a variable out of its range.
LEMMA StepTyped == TypeOK /\ EndingTask /\ [Next]_vars => TypeOK'
<1> SUFFICES ASSUME TypeOK, EndingTask, [Next]_vars PROVE TypeOK'
  OBVIOUS
<1> USE DEF TypeOK, Others, LoopOnly
<1>1. ASSUME NEW c \in PostingCalls, CallPosts(c) PROVE TypeOK'
  BY <1>1, Posted DEF CallPosts, Calling
<1>2. CASE CallWrite \/ WriteAddress \/ WriteReturns
  BY <1>2, MachineTyped DEF CallWrite, WriteAddress, WriteReturns, Calling
<1>3. CASE WriteCrashes
  BY <1>3, QueueKept DEF WriteCrashes
<1>4. ASSUME NEW kind \in {"data", "empty"}, Arrives(kind) PROVE TypeOK'
  BY <1>4, CallsAssumption DEF Arrives
<1>5. CASE Dropped
  <2>1. Tail(inbox) \in Seq({"data", "empty"}) /\ Len(Tail(inbox)) = Len(inbox) - 1
    BY <1>5 DEF Dropped
  <2> QED
    BY <1>5, <2>1 DEF Dropped
<1>6. CASE Test \/ Wait \/ Drained \/ SpuriousWakeup \/ SelectTimeout
  <2>1. loop' \in Loop(PostingCalls, Places)
    BY <1>6, QueueKept DEF Moves
  <2>2. << >> \in Seq({"data", "empty"}) /\ Len(<< >>) = 0
    OBVIOUS
  <2>3. /\ inbox' = inbox \/ inbox' = << >>
        /\ fd' \in {"open", "closed"}
        /\ UNCHANGED <<m, endpoint, arrivals, writer, todo, mishaps>>
    BY <1>6 DEF Test, Wait, Drained, SpuriousWakeup, SelectTimeout
  <2>4. inbox' \in Seq({"data", "empty"}) /\ Len(inbox') <= arrivals
    <3>1. CASE inbox' = inbox
      BY <2>3, <3>1
    <3>2. CASE inbox' = << >>
      BY <2>2, <2>3, <3>2, CallsAssumption
    <3> QED
      BY <2>3, <3>1, <3>2
  <2> QED
    BY <2>1, <2>3, <2>4
<1>7. CASE SelectFails
  BY <1>7, QueueKept, MachineTyped DEF SelectFails, Moves
<1>8. CASE SelectReadable
  BY <1>8, Announced DEF SelectReadable
<1>9. CASE ConnectTask
  BY <1>9, AtHead, Popped, MachineTyped DEF ConnectTask
<1>10. CASE ReadTask
  <2>1. m' \in Machine /\ loop' \in Loop(PostingCalls, Places)
    BY <1>10, AtHead, Popped, MachineTyped DEF ReadTask
  <2>2. inbox' \in Seq({"data", "empty"}) /\ Len(inbox') <= arrivals
    BY <1>10 DEF ReadTask
  <2> QED
    BY <1>10, <2>1, <2>2 DEF ReadTask
<1>11. CASE CloseWriteTask
  BY <1>11, QueueKept, MachineTyped DEF CloseWriteTask
<1>12. CASE WriteCloseEnd
  BY <1>12, Popped, MachineTyped DEF WriteCloseEnd, EndingTask
<1>13. CASE CloseTask
  BY <1>13, AtHead, Popped, MachineTyped DEF CloseTask
<1>14. CASE UNCHANGED vars
  BY <1>14 DEF vars
<1> QED
  BY <1>1, <1>2, <1>3, <1>4, <1>5, <1>6, <1>7, <1>8, <1>9, <1>10, <1>11, <1>12, <1>13, <1>14
     DEF Next, User, Network, LoopThread

\* What the methods the socket calls do to its machine.
LEMMA Methods ==
  ASSUME m \in Machine, Sided,
         NEW x \in {m, connected(connectBegin(m)), readEnd(readBegin(m)), errored(readBegin(m)),
                    writeBegin(m), writeEnd(m), writeCloseBegin(m), writeCloseEnd(m),
                    closed(m), errored(m)},
         m' = x
  PROVE  Sided' /\ [Lifecycle!Next]_(Lifecycle!vars)
<1> USE DEF Machine, States, Sided, Lifecycle!Next, Lifecycle!vars
<1>1. CASE x \in {m, writeBegin(m), writeEnd(m), readEnd(readBegin(m))}
  BY <1>1 DEF writeBegin, writeEnd, readEnd, readBegin
<1>2. CASE x = connected(connectBegin(m))
  BY <1>2 DEF connected, connectBegin, Lifecycle!Connect
<1>3. CASE x \in {errored(readBegin(m)), closed(m), errored(m)}
  BY <1>3 DEF errored, closed, readBegin, Lifecycle!Abort
<1>4. CASE x = writeCloseBegin(m)
  BY <1>4 DEF writeCloseBegin, Lifecycle!BeginEnd
<1>5. CASE x = writeCloseEnd(m)
  BY <1>5 DEF writeCloseEnd, Lifecycle!EndWrite
<1> QED
  BY <1>1, <1>2, <1>3, <1>4, <1>5

\* Every step calls one of them, or none.
LEMMA StepMachine ==
  ASSUME [Next]_vars
  PROVE  m' \in {m, connected(connectBegin(m)), readEnd(readBegin(m)), errored(readBegin(m)),
                 writeBegin(m), writeEnd(m), writeCloseBegin(m), writeCloseEnd(m),
                 closed(m), errored(m)}
<1>1. CASE User
  BY <1>1 DEF User, CallPosts, CallWrite, WriteAddress, WriteCrashes, WriteReturns
<1>2. CASE Network
  BY <1>2 DEF Network, Arrives, Dropped
<1>3. CASE LoopThread \/ SpuriousWakeup
  BY <1>3 DEF LoopThread, SpuriousWakeup, LoopOnly, Test, Wait, Drained, SelectTimeout,
     SelectReadable, SelectFails, ConnectTask, ReadTask, CloseTask, CloseWriteTask, WriteCloseEnd
<1>4. CASE UNCHANGED vars
  BY <1>4 DEF vars
<1> QED
  BY <1>1, <1>2, <1>3, <1>4 DEF Next

\* Whatever a call posts and a task does, the state tells which sides are open.
LEMMA StepSided == TypeOK /\ Sided /\ [Next]_vars => Sided'
  BY Methods, StepMachine DEF TypeOK

\* The queue of a step that is not a post or a pop keeps its tasks, and the thread
\* enters "writeClosing" only with the task at the head of it.
LEMMA StepEnding == TypeOK /\ EndingTask /\ [Next]_vars => EndingTask'
<1> SUFFICES ASSUME TypeOK, EndingTask, [Next]_vars, loop'.pc = "writeClosing"
             PROVE  loop'.queue # << >>
  BY DEF EndingTask
<1>1. ASSUME NEW c \in PostingCalls, CallPosts(c) PROVE loop'.queue # << >>
  BY <1>1, Posted DEF CallPosts
<1>2. CASE Moves \/ CloseWriteTask \/ WriteCrashes
  <2>1. loop'.queue = loop.queue
    BY <1>2, QueueKept
  <2>2. loop'.pc = "writeClosing" => CloseWriteTask
    BY <1>2 DEF TypeOK, Loop, Moves, Test, Wait, Drained, SpuriousWakeup, SelectTimeout,
       SelectFails, WriteCrashes, LoopOnly, Goto, dispatch, stop, waitForWork, spuriousWakeup,
       drained
  <2> QED
    BY <2>1, <2>2 DEF CloseWriteTask, At
<1>3. CASE CallWrite \/ WriteAddress \/ WriteReturns \/ Network \/ UNCHANGED vars
  BY <1>3 DEF CallWrite, WriteAddress, WriteReturns, Network, Arrives, Dropped, vars, EndingTask
<1>4. CASE SelectReadable
  BY <1>4, Announced DEF SelectReadable
<1>5. CASE ConnectTask \/ ReadTask \/ CloseTask \/ WriteCloseEnd
  <2>1. loop.queue # << >> /\ loop' = pop(loop)
    BY <1>5 DEF ConnectTask, ReadTask, CloseTask, WriteCloseEnd, At, EndingTask
  <2> QED
    BY <2>1, Popped
<1> QED
  BY <1>1, <1>2, <1>3, <1>4, <1>5 DEF Next, User, LoopThread, Moves

\* A history that only grows.
LEMMA History ==
  ASSUME [Next]_vars
  PROVE  mishaps \subseteq mishaps' /\ todo' \subseteq todo
<1>1. CASE User
  BY <1>1 DEF User, CallPosts, CallWrite, Calling, WriteAddress, WriteCrashes, WriteReturns
<1>2. CASE Network
  BY <1>2 DEF Network, Arrives, Dropped
<1>3. CASE LoopThread \/ SpuriousWakeup
  BY <1>3 DEF LoopThread, SpuriousWakeup, LoopOnly, Others, Test, Wait, Drained, SelectTimeout,
     SelectReadable, SelectFails, ConnectTask, ReadTask, CloseTask, CloseWriteTask, WriteCloseEnd
<1>4. CASE UNCHANGED vars
  BY <1>4 DEF vars
<1> QED
  BY <1>1, <1>2, <1>3, <1>4 DEF Next

\* A close() in the queue is one the user called.
LEMMA StepCloseAsked == TypeOK /\ EndingTask /\ CloseIsAsked /\ [Next]_vars => CloseIsAsked'
<1> SUFFICES ASSUME TypeOK, EndingTask, CloseIsAsked, [Next]_vars PROVE CloseIsAsked'
  OBVIOUS
<1>0. loop.queue \in Seq(PostingCalls) /\ (CloseCalled => CloseCalled')
  BY History DEF TypeOK, Loop, CloseCalled
<1>1. ASSUME NEW c \in PostingCalls, CallPosts(c) PROVE CloseIsAsked'
  <2>1. loop'.queue = Append(loop.queue, c)
    BY <1>1, Posted DEF CallPosts
  <2>2. c = "close" => CloseCalled'
    BY <1>1 DEF CallPosts, Calling, CloseCalled, TypeOK
  <2> QED
    BY <1>0, <2>1, <2>2 DEF CloseIsAsked
<1>2. CASE \/ Moves \/ CloseWriteTask \/ WriteCrashes
           \/ CallWrite \/ WriteAddress \/ WriteReturns \/ Network \/ UNCHANGED vars
  <2>1. loop'.queue = loop.queue
    BY <1>2, QueueKept DEF CallWrite, WriteAddress, WriteReturns, Network, Arrives, Dropped, vars
  <2> QED
    BY <1>0, <2>1 DEF CloseIsAsked
<1>3. CASE SelectReadable
  <2>1. loop'.queue = Append(loop.queue, "read")
    BY <1>3, Announced DEF SelectReadable
  <2> QED
    BY <1>0, <2>1 DEF CloseIsAsked
<1>4. CASE ConnectTask \/ ReadTask \/ CloseTask \/ WriteCloseEnd
  <2>1. loop.queue # << >> /\ loop' = pop(loop)
    BY <1>4 DEF ConnectTask, ReadTask, CloseTask, WriteCloseEnd, At, EndingTask
  <2>2. loop'.queue = Tail(loop.queue)
    BY <2>1, Popped
  <2> QED
    BY <1>0, <2>1, <2>2 DEF CloseIsAsked
<1> QED
  BY <1>1, <1>2, <1>3, <1>4 DEF Next, User, LoopThread, Moves

\* An announcement is answered before the next one is made.
LEMMA StepPrompted == TypeOK /\ EndingTask /\ Prompted /\ [Next]_vars => Prompted'
<1> SUFFICES ASSUME TypeOK, EndingTask, Prompted, [Next]_vars, Undisturbed' PROVE Prompted'
  BY DEF Prompted
<1>0. /\ loop \in Loop(PostingCalls, Places) /\ loop.queue \in Seq(PostingCalls)
      /\ "read" \in PostingCalls
  BY DEF TypeOK, Loop, PostingCalls
<1>1. mishaps = {} /\ mishaps' = {}
  BY History DEF Undisturbed
<1>2. ASSUME NEW c \in PostingCalls, CallPosts(c) PROVE Prompted'
  <2>1. c # "read" /\ inbox' = inbox
    BY <1>1, <1>2 DEF CallPosts
  <2>2. /\ loop'.queue = Append(loop.queue, c)
        /\ loop'.pc = IF loop.pc = "asleep" THEN "locking" ELSE loop.pc
    BY <1>2, Posted DEF CallPosts
  <2>3. /\ NoPrompt(loop.queue, "read") => NoPrompt(loop'.queue, "read")
        /\ OnePrompt(loop.queue, "read") => OnePrompt(loop'.queue, "read")
    BY <1>0, <2>1, <2>2, Prompts
  <2> QED
    BY <1>1, <2>1, <2>2, <2>3 DEF Prompted, Undisturbed
<1>3. CASE WriteCrashes
  BY <1>0, <1>3 DEF WriteCrashes, Loop, Goto, Undisturbed
<1>4. CASE CallWrite \/ WriteAddress \/ WriteReturns \/ UNCHANGED vars
  BY <1>4 DEF CallWrite, WriteAddress, WriteReturns, vars, Prompted, Undisturbed
<1>5. ASSUME NEW kind \in {"data", "empty"}, Arrives(kind) PROVE Prompted'
  <2>1. kind = "data" /\ inbox \in Seq({"data", "empty"})
    BY <1>1, <1>5 DEF Arrives, TypeOK
  <2>2. /\ inbox' = Append(inbox, "data") /\ inbox' # << >>
        /\ (\A i \in 1..Len(inbox) : inbox[i] = "data") =>
             \A i \in 1..Len(inbox') : inbox'[i] = "data"
    BY <1>5, <2>1 DEF Arrives
  <2> QED
    BY <1>1, <1>5, <2>2 DEF Arrives, Prompted, Undisturbed
<1>6. CASE Dropped
  BY <1>1, <1>6 DEF Dropped
<1>7. CASE Moves \/ CloseWriteTask
  <2>1. loop'.queue = loop.queue
    BY <1>7, QueueKept
  <2>2. SelectFails => FALSE
    BY <1>1 DEF SelectFails
  <2>3. /\ loop.pc # "killed"
        /\ loop.pc \notin {"drain", "writeClosing"} \/ loop.queue = << >>
             \/ loop'.pc = "writeClosing"
        /\ inbox' = inbox \/ (inbox' = << >> /\ loop.pc = "test")
    BY <1>0, <1>7, <2>2 DEF Moves, Test, Wait, Drained, SpuriousWakeup, SelectTimeout,
       CloseWriteTask, LoopOnly, At, Loop, Goto
  <2>4. loop.queue = << >> => NoPrompt(loop.queue, "read")
    BY DEF NoPrompt
  <2> QED
    BY <1>1, <2>1, <2>3, <2>4 DEF Prompted, Undisturbed
<1>8. CASE SelectReadable
  <2>1. /\ loop'.queue = Append(loop.queue, "read") /\ loop'.pc = "drain"
        /\ loop.pc = "select" /\ inbox' # << >> /\ UNCHANGED inbox
    BY <1>8, Announced DEF SelectReadable, LoopOnly
  <2>2. NoPrompt(loop.queue, "read") => OnePrompt(loop'.queue, "read")
    BY <1>0, <2>1, Prompts
  <2> QED
    BY <1>1, <2>1, <2>2 DEF Prompted, Undisturbed
<1>9. CASE ConnectTask \/ CloseTask \/ WriteCloseEnd
  <2>1. loop.queue # << >> /\ loop' = pop(loop) /\ UNCHANGED inbox /\ loop.pc # "killed"
    BY <1>9 DEF ConnectTask, CloseTask, WriteCloseEnd, At, EndingTask
  <2>2. loop'.queue = Tail(loop.queue) /\ loop'.pc = "drain"
    BY <2>1, Popped
  <2>3. /\ NoPrompt(loop.queue, "read") => NoPrompt(loop'.queue, "read")
        /\ OnePrompt(loop.queue, "read") => OnePrompt(loop'.queue, "read")
    BY <1>0, <2>1, <2>2, Prompts
  <2> QED
    BY <1>1, <2>1, <2>2, <2>3 DEF Prompted, Undisturbed
<1>10. CASE ReadTask
  <2>1. /\ loop.pc = "drain" /\ loop.queue # << >> /\ Head(loop.queue) = "read"
        /\ loop' = pop(loop)
    BY <1>10 DEF ReadTask, At
  <2>2. loop'.queue = Tail(loop.queue) /\ loop'.pc = "drain"
    BY <2>1, Popped
  <2>3. OnePrompt(loop.queue, "read") =>
          NoPrompt(loop'.queue, "read") /\ OnePrompt(loop'.queue, "read")
    BY <1>0, <2>1, <2>2, Prompts
  <2>4. inbox \in Seq({"data", "empty"}) /\ inbox' = IF inbox = << >> THEN << >> ELSE Tail(inbox)
    BY <1>10 DEF ReadTask, TypeOK
  <2>5. (\A i \in 1..Len(inbox) : inbox[i] = "data") =>
          \A i \in 1..Len(inbox') : inbox'[i] = "data"
    <3>1. CASE inbox = << >>
      BY <2>4, <3>1
    <3>2. CASE inbox # << >>
      BY <2>4, <3>2
    <3> QED
      BY <3>1, <3>2
  <2> QED
    BY <1>1, <2>1, <2>2, <2>3, <2>5 DEF Prompted, Undisturbed
<1> QED
  BY <1>2, <1>3, <1>4, <1>5, <1>6, <1>7, <1>8, <1>9, <1>10
     DEF Next, User, Network, LoopThread, Moves

\* A step that closes the machine adds to its causes or finds one.
LEMMA StepClosed == IInv /\ [Next]_vars => ClosedHasACause'
<1> SUFFICES ASSUME IInv, [Next]_vars, m'.state = "Closed"
             PROVE  mishaps' # {} \/ CloseCalled'
  BY DEF ClosedHasACause, CloseCalled
<1>0. /\ m \in Machine /\ TypeOK
      /\ mishaps # {} => mishaps' # {}
      /\ CloseCalled => CloseCalled'
  BY History DEF IInv, TypeOK, CloseCalled
<1>1. CASE m.state = "Closed"
  BY <1>0, <1>1 DEF IInv, ClosedHasACause, CloseCalled
<1>2. CASE m.state # "Closed" /\ SelectFails
  BY <1>2 DEF SelectFails
<1>3. CASE m.state # "Closed" /\ CloseTask
  <2>1. /\ loop.queue \in Seq(PostingCalls) /\ loop.queue # << >>
        /\ Head(loop.queue) = "close"
    BY <1>0, <1>3 DEF CloseTask, At, TypeOK, Loop
  <2>2. 1 \in 1..Len(loop.queue) /\ loop.queue[1] = "close"
    BY <2>1
  <2> QED
    BY <1>0, <2>2 DEF IInv, CloseIsAsked
<1>4. CASE m.state # "Closed" /\ ReadTask
  <2>1. SUFFICES ASSUME mishaps = {} PROVE FALSE
    BY <1>0
  <2>2. /\ loop.queue \in Seq(PostingCalls) /\ loop.queue # << >>
        /\ Head(loop.queue) = "read" /\ loop.pc = "drain"
    BY <1>0, <1>4 DEF ReadTask, At, TypeOK, Loop
  <2>3. ~NoPrompt(loop.queue, "read")
    BY <2>2 DEF NoPrompt
  <2>4. inbox # << >> /\ \A i \in 1..Len(inbox) : inbox[i] = "data"
    BY <2>1, <2>2, <2>3 DEF IInv, Prompted, Undisturbed
  <2>5. inbox \in Seq({"data", "empty"})
    BY <1>0 DEF TypeOK
  <2>6. Head(inbox) = "data"
    BY <2>4, <2>5
  <2>7. m' = readEnd(readBegin(m))
    BY <1>4, <2>4, <2>6 DEF ReadTask
  <2> QED
    BY <1>0, <1>4, <2>7 DEF readEnd, readBegin, Machine
<1>5. CASE m.state # "Closed" /\ ~(SelectFails \/ CloseTask \/ ReadTask)
  <2>1. m' \in {m, connected(connectBegin(m)), writeBegin(m), writeEnd(m), writeCloseBegin(m),
                writeCloseEnd(m)}
    <3>1. CASE User
      BY <3>1 DEF User, CallPosts, CallWrite, WriteAddress, WriteCrashes, WriteReturns
    <3>2. CASE Network
      BY <3>2 DEF Network, Arrives, Dropped
    <3>3. CASE LoopThread \/ SpuriousWakeup
      BY <1>5, <3>3 DEF LoopThread, SpuriousWakeup, LoopOnly, Test, Wait, Drained, SelectTimeout,
         SelectReadable, ConnectTask, CloseWriteTask, WriteCloseEnd
    <3>4. CASE UNCHANGED vars
      BY <3>4 DEF vars
    <3> QED
      BY <3>1, <3>2, <3>3, <3>4 DEF Next
  <2>2. ~m.readClosed
    BY <1>5 DEF IInv, Sided
  <2> QED
    BY <1>0, <1>5, <2>1, <2>2 DEF Machine, connected, connectBegin, writeBegin, writeEnd,
       writeCloseBegin, writeCloseEnd
<1> QED
  BY <1>1, <1>2, <1>3, <1>4, <1>5

\* The inductive invariant holds in every state the socket reaches.
THEOREM Invariance == Spec => []IInv
<1>1. IInv /\ [Next]_vars => IInv'
  BY StepTyped, StepEnding, StepSided, StepCloseAsked, StepPrompted, StepClosed DEF IInv
<1> QED
  BY InitIInv, <1>1, PTL DEF Spec

\* Every variable stays in its range.
THEOREM Typed == Spec => []TypeOK
<1>1. IInv => TypeOK
  BY DEF IInv
<1> QED
  BY Invariance, <1>1, PTL

\* A socket does not close by itself, whatever the order of the user's calls, the
\* datagrams and the announcements.
THEOREM ClosesForACause == Spec => []ClosedHasACause
<1>1. IInv => ClosedHasACause
  BY DEF IInv
<1> QED
  BY Invariance, <1>1, PTL

\* The machine of a UDPSocket implements the state diagram of
\* CommunicatorStateMachine.hpp.
THEOREM Refinement == Spec => LifecycleSpec
<1>1. Init => Lifecycle!Init
  BY DEF Init, NewMachine, Lifecycle!Init
<1>2. IInv /\ [Next]_vars => [Lifecycle!Next]_(Lifecycle!vars)
  BY Methods, StepMachine DEF IInv, TypeOK
<1> QED
  BY <1>1, <1>2, Invariance, PTL DEF Spec, LifecycleSpec, Lifecycle!Spec
=============================================================================
