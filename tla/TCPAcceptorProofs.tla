--------------------------- MODULE TCPAcceptorProofs ---------------------------
(***************************************************************************)
(* What module TCPAcceptor promises for any number of peers, any backlog   *)
(* and any calls of the user.                                              *)
(***************************************************************************)
EXTENDS TCPAcceptor, EventLoopProofs

Tasks == AllCalls \ {"stop"}

\* The descriptor is open until the loop's thread has left the handler, and a
\* machine is Established by a listen() that succeeded.
Listens == /\ loop.pc # "over" => fd = "open"
           /\ m.state = "Established" => listening

\* The user has not called accept() on its own.
Unasked == "accept" \notin Calls \ todo

\* An announcement is answered before the loop selects again: there is at most one
\* task for it, only while the tasks are run, and the connection still waits.
Prompted == Unasked =>
              /\ loop.pc \notin {"drain", "died"} => NoPrompt(loop.queue, "accept")
              /\ OnePrompt(loop.queue, "accept")
              /\ gone = {} => /\ NoPrompt(loop.queue, "accept") \/ pending # << >>
                              /\ Nobody \notin Elements(given)

IInv == TypeOK /\ Listens /\ Prompted

\* A new acceptor satisfies the inductive invariant.
LEMMA InitIInv == Init => IInv
<1> SUFFICES ASSUME Init PROVE IInv
  OBVIOUS
<1>1. /\ loop \in Loop(Tasks, Places) /\ loop.pc = "test" /\ loop.queue = << >>
      /\ m \in Machine /\ m.state = "Init"
  BY NewTyped DEF Init, Places, Types
<1>2. TypeOK
  <2>1. /\ << >> \in Seq(Peers) /\ << >> \in Seq(Peers \cup {Nobody})
        /\ Len(<< >>) <= Backlog
    BY CallsAssumption
  <2> QED
    BY <1>1, <2>1 DEF Init, TypeOK, Tasks
<1>3. Listens /\ Prompted
  BY <1>1 DEF Init, Listens, Prompted, NoPrompt, OnePrompt, Elements
<1> QED
  BY <1>2, <1>3 DEF IInv

\* Where a thread can be.
LEMMA PlacesOfLoop ==
  /\ {"test", "locking", "asleep", "drain"} \subseteq Places
  /\ "select" \in Places /\ "over" \in Places /\ "died" \in Places
  BY DEF Places

\* A task of the queue's head, for the actions that run one.
LEMMA AtHead ==
  ASSUME TypeOK, NEW task, At(task)
  PROVE  /\ loop.pc = "drain" /\ loop.queue # << >> /\ Head(loop.queue) = task
         /\ loop.queue \in Seq(Tasks)
         /\ pop(loop) \in Loop(Tasks, Places)
         /\ pop(loop).queue = Tail(loop.queue) /\ pop(loop).pc = "drain"
<1>1. loop \in Loop(Tasks, Places) /\ loop.queue # << >>
  BY DEF TypeOK, At, Tasks
<1>2. loop.queue \in Seq(Tasks)
  BY <1>1 DEF Loop
<1>3. /\ pop(loop) \in Loop(Tasks, Places)
      /\ pop(loop).queue = Tail(loop.queue) /\ pop(loop).pc = "drain"
  BY <1>1, PopMoves, PlacesOfLoop
<1> QED
  BY <1>1, <1>2, <1>3 DEF At

\* A task that is posted.
LEMMA Posted ==
  ASSUME TypeOK, NEW task \in Tasks
  PROVE  /\ loop.queue \in Seq(Tasks)
         /\ post(loop, task) \in Loop(Tasks, Places)
         /\ post(loop, task).queue = Append(loop.queue, task)
         /\ post(loop, task).queue # << >>
         /\ post(loop, task).pc = IF loop.pc = "asleep" THEN "locking" ELSE loop.pc
<1>1. loop \in Loop(Tasks, Places) /\ loop.queue \in Seq(Tasks)
  BY DEF TypeOK, Tasks, Loop
<1> QED
  BY <1>1, PostMoves, PlacesOfLoop

\* The announcement: the prompt is posted and dispatch() goes on to the tasks.
LEMMA Announced ==
  ASSUME TypeOK
  PROVE  /\ dispatch(post(loop, "accept"), FALSE) \in Loop(Tasks, Places)
         /\ dispatch(post(loop, "accept"), FALSE).queue = Append(loop.queue, "accept")
         /\ dispatch(post(loop, "accept"), FALSE).pc = "drain"
<1> DEFINE l == post(loop, "accept")
<1>1. "accept" \in Tasks
  BY DEF Tasks, AllCalls
<1>2. l \in Loop(Tasks, Places) /\ l.queue = Append(loop.queue, "accept") /\ l.queue # << >>
  BY <1>1, Posted
<1>3. dispatch(l, FALSE) = Goto(l, "drain")
  BY <1>2 DEF dispatch
<1>4. l \in Loop(Tasks, Places) /\ "drain" \in Places
  BY <1>2, PlacesOfLoop
<1> HIDE DEF l
<1>5. /\ Goto(l, "drain") \in Loop(Tasks, Places) /\ Goto(l, "drain").pc = "drain"
      /\ Goto(l, "drain").queue = l.queue
  BY <1>4, GotoMoves
<1> QED
  BY <1>2, <1>3, <1>5 DEF l

\* No step takes a variable out of its range.
LEMMA StepTyped == TypeOK /\ [Next]_vars => TypeOK'
<1> SUFFICES ASSUME TypeOK, [Next]_vars PROVE TypeOK'
  OBVIOUS
<1> USE DEF TypeOK, Others
<1>1. CASE CallPosts
  BY <1>1, Posted, CallsAssumption DEF CallPosts, Tasks
<1>2. CASE CallStop
  BY <1>2 DEF CallStop, Loop, Places, stop
<1>3. CASE PeerConnects
  BY <1>3, CallsAssumption DEF PeerConnects
<1>4. CASE PeerResets
  <2>1. /\ Tail(pending) \in Seq(Peers) /\ Head(pending) \in Peers
        /\ Len(Tail(pending)) = Len(pending) - 1
    BY <1>4 DEF PeerResets
  <2> QED
    BY <1>4, <2>1, CallsAssumption DEF PeerResets
<1>5. CASE Test
  BY <1>5 DEF Test, Loop, Places, Goto, dispatch
<1>6. CASE LoopEnd
  BY <1>6, CallsAssumption DEF LoopEnd, Elements, Loop, Places, Goto
<1>7. CASE Wait \/ Drained \/ SpuriousWakeup
  BY <1>7 DEF Wait, Drained, SpuriousWakeup, waitForWork, spuriousWakeup, drained,
     Loop, Places, Goto
<1>8. CASE SelectTimeout
  BY <1>8 DEF SelectTimeout, Loop, Places, Goto, dispatch
<1>9. CASE SelectReady
  BY <1>9, Announced DEF SelectReady, Tasks
<1>10. CASE SelectFails
  BY <1>10, MachineTyped DEF SelectFails, Loop, Places, Goto, dispatch
<1>11. CASE BindTask
  BY <1>11, AtHead DEF BindTask, Tasks
<1>12. CASE BindThrows
  BY <1>12, MachineTyped DEF BindThrows, Loop, Places, Goto
<1>13. CASE ListenTask
  BY <1>13, AtHead, MachineTyped DEF ListenTask, Tasks
<1>14. CASE ListenThrows
  BY <1>14, MachineTyped DEF ListenThrows, Loop, Places, Goto
<1>15. CASE AcceptTask
  <2>1. pop(loop) \in Loop(Tasks, Places)
    BY <1>15, AtHead DEF AcceptTask
  <2>2. CASE pending = << >>
    BY <1>15, <2>1, <2>2, CallsAssumption DEF AcceptTask, Tasks
  <2>3. CASE pending # << >>
    <3>1. /\ Tail(pending) \in Seq(Peers) /\ Head(pending) \in Peers
          /\ Len(Tail(pending)) = Len(pending) - 1
      BY <2>3
    <3> QED
      BY <1>15, <2>1, <2>3, <3>1, CallsAssumption DEF AcceptTask, Tasks
  <2> QED
    BY <2>2, <2>3
<1>16. CASE UNCHANGED vars
  BY <1>16 DEF vars
<1> QED
  BY <1>1, <1>2, <1>3, <1>4, <1>5, <1>6, <1>7, <1>8, <1>9, <1>10, <1>11, <1>12, <1>13,
     <1>14, <1>15, <1>16 DEF Next, LoopThread

\* The descriptor and the listening flag keep up with the machine's state.
LEMMA StepListens == TypeOK /\ Listens /\ [Next]_vars => Listens'
<1> SUFFICES ASSUME TypeOK, Listens, [Next]_vars PROVE Listens'
  OBVIOUS
<1> USE DEF Listens, Others
<1>0. loop \in Loop(Tasks, Places) /\ m \in Machine
  BY DEF TypeOK, Tasks
<1>1. CASE CallPosts
  <2>1. PICK c \in Tasks : loop' = post(loop, c) /\ UNCHANGED <<m, fd, listening>>
    BY <1>1, CallsAssumption DEF CallPosts, Tasks, TypeOK
  <2>2. loop.pc = "over" => loop'.pc = "over"
    BY <2>1, Posted
  <2> QED
    BY <2>1, <2>2
<1>2. CASE CallStop
  BY <1>0, <1>2 DEF CallStop, Loop, stop
<1>3. CASE PeerConnects \/ PeerResets
  BY <1>3 DEF PeerConnects, PeerResets
<1>4. CASE Test \/ LoopEnd \/ Wait \/ SpuriousWakeup \/ Drained \/ SelectTimeout
  BY <1>0, <1>4 DEF Test, LoopEnd, Wait, SpuriousWakeup, Drained, SelectTimeout,
     Loop, Goto, dispatch, waitForWork, spuriousWakeup, drained
<1>5. CASE SelectReady
  BY <1>5, Announced DEF SelectReady
<1>6. CASE SelectFails
  BY <1>0, <1>6 DEF SelectFails, Loop, Machine, Goto, dispatch, errored, closed
<1>7. CASE BindTask \/ AcceptTask \/ ListenTask
  BY <1>7, AtHead DEF BindTask, AcceptTask, ListenTask
<1>8. CASE BindThrows \/ ListenThrows
  <2>1. /\ errored(m).state = "Closed" /\ errored(connectBegin(m)).state = "Closed"
    BY <1>0, MachineTyped DEF errored, closed, Machine
  <2>2. Goto(loop, "died").pc = "died"
    BY <1>0 DEF Goto, Loop
  <2>3. loop.pc # "over"
    BY <1>8 DEF BindThrows, ListenThrows, At
  <2> QED
    BY <1>8, <2>1, <2>2, <2>3 DEF BindThrows, ListenThrows
<1>9. CASE UNCHANGED vars
  BY <1>9 DEF vars
<1> QED
  BY <1>1, <1>2, <1>3, <1>4, <1>5, <1>6, <1>7, <1>8, <1>9 DEF Next, LoopThread

\* An announcement is answered, by a connection, before the next one is made.
LEMMA StepPrompted == TypeOK /\ Prompted /\ [Next]_vars => Prompted'
<1> SUFFICES ASSUME TypeOK, Prompted, [Next]_vars, Unasked' PROVE Prompted'
  BY DEF Prompted
<1>0. loop \in Loop(Tasks, Places) /\ loop.queue \in Seq(Tasks) /\ "accept" \in Tasks
  BY DEF TypeOK, Loop, Tasks, AllCalls
<1> USE DEF Others
<1>1. CASE CallPosts
  <2>1. PICK c \in todo \ {"stop"} : /\ loop' = post(loop, c)
                                     /\ todo' = todo \ {c}
                                     /\ UNCHANGED <<m, fd, listening, pending, gone, given>>
    BY <1>1 DEF CallPosts
  <2>2. c \in Tasks /\ c # "accept" /\ Unasked
    BY <2>1, CallsAssumption DEF Unasked, TypeOK, Tasks
  <2>3. /\ loop'.queue = Append(loop.queue, c)
        /\ loop'.pc \notin {"drain", "died"} => loop.pc \notin {"drain", "died"}
    BY <2>1, <2>2, Posted
  <2>4. /\ NoPrompt(loop.queue, "accept") => NoPrompt(loop'.queue, "accept")
        /\ OnePrompt(loop.queue, "accept") => OnePrompt(loop'.queue, "accept")
    BY <1>0, <2>2, <2>3, Prompts
  <2> QED
    BY <2>1, <2>2, <2>3, <2>4 DEF Prompted
<1>2. CASE CallStop
  BY <1>0, <1>2 DEF CallStop, Loop, stop, Prompted, Unasked
<1>3. CASE PeerConnects
  <2>1. pending' # << >>
    BY <1>3 DEF PeerConnects, TypeOK
  <2> QED
    BY <1>3, <2>1 DEF PeerConnects, Prompted, Unasked
<1>4. CASE PeerResets
  BY <1>4 DEF PeerResets, Prompted, Unasked
<1>5. CASE Test \/ Wait \/ SpuriousWakeup \/ SelectTimeout
  <2>1. loop.pc \notin {"drain", "died"} /\ UNCHANGED <<pending, gone, given, todo>>
    BY <1>5 DEF Test, Wait, SpuriousWakeup, SelectTimeout
  <2>2. loop'.queue = loop.queue
    BY <1>0, <1>5 DEF Test, Wait, SpuriousWakeup, SelectTimeout,
       Loop, Goto, dispatch, waitForWork, spuriousWakeup
  <2> QED
    BY <2>1, <2>2 DEF Prompted, Unasked
<1>6. CASE LoopEnd
  <2>1. loop.pc = "test" /\ loop'.queue = loop.queue /\ UNCHANGED <<given, todo>>
    BY <1>0, <1>6 DEF LoopEnd, Loop, Goto
  <2>2. gone' = {} => gone = {}
    BY <1>6 DEF LoopEnd
  <2> QED
    BY <2>1, <2>2 DEF Prompted, Unasked
<1>7. CASE Drained
  <2>1. loop'.queue = << >> /\ UNCHANGED <<pending, gone, given, todo>>
    BY <1>0, <1>7 DEF Drained, Loop, Goto, drained
  <2> QED
    BY <2>1 DEF Prompted, Unasked, NoPrompt, OnePrompt
<1>8. CASE SelectReady
  <2>1. /\ loop'.queue = Append(loop.queue, "accept") /\ loop'.pc = "drain"
        /\ loop.pc = "select" /\ pending' # << >> /\ UNCHANGED <<pending, gone, given, todo>>
    BY <1>8, Announced DEF SelectReady
  <2>2. NoPrompt(loop.queue, "accept") => OnePrompt(loop'.queue, "accept")
    BY <1>0, <2>1, Prompts
  <2> QED
    BY <2>1, <2>2 DEF Prompted, Unasked
<1>9. CASE SelectFails
  <2>1. loop.pc = "select" /\ UNCHANGED <<pending, gone, given, todo>>
    BY <1>9 DEF SelectFails
  <2>2. loop'.queue = loop.queue
    BY <1>0, <1>9 DEF SelectFails, Loop, Goto, dispatch
  <2> QED
    BY <2>1, <2>2 DEF Prompted, Unasked
<1>10. CASE BindTask \/ ListenTask
  <2>1. PICK task \in {"bind", "listen"} : At(task) /\ loop' = pop(loop)
    BY <1>10 DEF BindTask, ListenTask
  <2>2. /\ loop.queue # << >> /\ loop'.queue = Tail(loop.queue) /\ loop'.pc = "drain"
    BY <2>1, AtHead
  <2>3. UNCHANGED <<pending, gone, given, todo>>
    BY <1>10 DEF BindTask, ListenTask
  <2>4. /\ NoPrompt(loop.queue, "accept") => NoPrompt(loop'.queue, "accept")
        /\ OnePrompt(loop.queue, "accept") => OnePrompt(loop'.queue, "accept")
    BY <1>0, <2>2, Prompts
  <2> QED
    BY <2>2, <2>3, <2>4 DEF Prompted, Unasked
<1>11. CASE BindThrows \/ ListenThrows
  BY <1>0, <1>11 DEF BindThrows, ListenThrows, Loop, Goto, Prompted, Unasked
<1>12. CASE AcceptTask
  <2>1. /\ loop.queue # << >> /\ Head(loop.queue) = "accept"
        /\ loop'.queue = Tail(loop.queue) /\ loop'.pc = "drain"
    BY <1>12, AtHead DEF AcceptTask
  <2>2. OnePrompt(loop.queue, "accept") => NoPrompt(loop'.queue, "accept") /\ OnePrompt(loop'.queue, "accept")
    BY <1>0, <2>1, Prompts
  <2>3. ~NoPrompt(loop.queue, "accept")
    BY <1>0, <2>1 DEF NoPrompt
  <2>4. Unasked /\ gone' = gone
    BY <1>12 DEF AcceptTask, Unasked
  <2>5. ASSUME gone = {} PROVE Nobody \notin Elements(given')
    <3>1. pending # << >> /\ Nobody \notin Elements(given)
      BY <2>3, <2>4, <2>5 DEF Prompted
    <3>2. given' = Append(given, Head(pending)) /\ Head(pending) \in Peers
      BY <1>12, <3>1 DEF AcceptTask, TypeOK
    <3>3. given \in Seq(Peers \cup {Nobody})
      BY DEF TypeOK
    <3> QED
      BY <3>1, <3>2, <3>3, CallsAssumption DEF Elements
  <2> QED
    BY <2>1, <2>2, <2>4, <2>5 DEF Prompted
<1>13. CASE UNCHANGED vars
  BY <1>13 DEF vars, Prompted, Unasked
<1> QED
  BY <1>1, <1>2, <1>3, <1>4, <1>5, <1>6, <1>7, <1>8, <1>9, <1>10, <1>11, <1>12, <1>13
     DEF Next, LoopThread

\* The inductive invariant holds in every state the acceptor reaches.
THEOREM Invariance == Spec => []IInv
<1>1. IInv /\ [Next]_vars => IInv'
  BY StepTyped, StepListens, StepPrompted DEF IInv
<1> QED
  BY InitIInv, <1>1, PTL DEF Spec

\* Every variable stays in its range.
THEOREM Typed == Spec => []TypeOK
<1>1. IInv => TypeOK
  BY DEF IInv
<1> QED
  BY Invariance, <1>1, PTL

\* An acceptor that looks established listens on an open descriptor, for any backlog,
\* peers and calls: a bind() or listen() that failed leaves none that does.
THEOREM SelectsSafely == Spec => []SelectsOnListening
<1>1. IInv => SelectsOnListening
  BY DEF IInv, Listens, SelectsOnListening
<1> QED
  BY Invariance, <1>1, PTL

\* A user who calls accept() only when told never receives a missing connection,
\* unless the kernel has forgotten one.
THEOREM AnnouncementsHold == Spec => []AnnouncedIsThere
<1>1. IInv => AnnouncedIsThere
  BY DEF IInv, Prompted, Unasked, AnnouncedIsThere
<1> QED
  BY Invariance, <1>1, PTL
=============================================================================
