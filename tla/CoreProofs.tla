------------------------------- MODULE CoreProofs -------------------------------
(***************************************************************************)
(* What the two classes that every socket owns promise: a state machine,   *)
(* used as module Communicator uses it, for any writers, and a run loop,   *)
(* for any clients, any tasks and any number of posts.                     *)
(***************************************************************************)
EXTENDS Communicator, Runloop, SequenceTheorems, TLAPS

\* The lemmas about the operators that EventLoopSpec is made of.
Operations == INSTANCE EventLoopProofs

(* The state machine *)

\* The flags a task raises are up only while that task runs, and a half-close
\* in progress is visible in the state.
FlagsHaveATask == /\ m.reading => task = "read"
                  /\ m.writeClosing => task = "closeWrite" /\ m.state = "Closing"

\* The part of the inductive invariant that only the owner's calls can disturb.
MachineInv == StateMatchesSides /\ FlagsHaveATask

CommInv == CommTypeOK /\ MachineInv /\ WritingHasAWriter

\* A new machine has not begun anything: the initial state satisfies the
\* inductive invariant.
LEMMA InitComm == CommInit => CommInv
  BY DEF CommInit, CommInv, CommTypeOK, MachineInv, StateMatchesSides,
     WritingHasAWriter, FlagsHaveATask, NewMachine, Machine, Types,
     States, WriterSteps

\* No step takes a field of the machine, the owner's task or a writer's place
\* in write() out of its range.
LEMMA StepCommTyped == CommTypeOK /\ [CommNext]_commVars => CommTypeOK'
<1> SUFFICES ASSUME CommTypeOK, [CommNext]_commVars PROVE CommTypeOK'
  OBVIOUS
<1> USE DEF CommTypeOK, Machine, States, WriterSteps
<1>1. CASE ConnectBegin
  BY <1>1 DEF ConnectBegin, Single, connectBegin
<1>2. CASE Connected
  BY <1>2 DEF Connected, Single, connected
<1>3. CASE ReadClosed
  BY <1>3 DEF ReadClosed, Single, readClosed
<1>4. CASE Close
  BY <1>4 DEF Close, Single, closed
<1>5. CASE ReadBegin
  BY <1>5 DEF ReadBegin, readBegin
<1>6. CASE ReadDone
  BY <1>6 DEF ReadDone, readEnd, errored, closed
<1>7. CASE CloseWriteBegin
  BY <1>7 DEF CloseWriteBegin, writeCloseBegin
<1>8. CASE CloseWriteDone
  BY <1>8 DEF CloseWriteDone, writeCloseEnd
<1>9. ASSUME NEW w \in Writers, Write(w) PROVE CommTypeOK'
  BY <1>9 DEF Write, WriteGuard, WriteAssign, WriteSent, WriteEnd,
     writeEnd
<1>10. CASE UNCHANGED commVars
  BY <1>10 DEF commVars
<1> QED
  BY <1>1, <1>2, <1>3, <1>4, <1>5, <1>6, <1>7, <1>8, <1>9, <1>10 DEF CommNext, OwnerStep

\* No call of the owner and no step of a writer separates the state from the
\* directions that have ended.
LEMMA StepMachineInv == CommTypeOK /\ MachineInv /\ [CommNext]_commVars => MachineInv'
<1> SUFFICES ASSUME CommTypeOK, MachineInv, [CommNext]_commVars PROVE MachineInv'
  OBVIOUS
<1> USE DEF CommTypeOK, Machine, MachineInv, StateMatchesSides, FlagsHaveATask
<1>1. CASE ConnectBegin
  BY <1>1 DEF ConnectBegin, Single, connectBegin
<1>2. CASE Connected
  BY <1>2 DEF Connected, Single, connected
<1>3. CASE ReadClosed
  BY <1>3 DEF ReadClosed, Single, readClosed
<1>4. CASE Close
  BY <1>4 DEF Close, Single, closed
<1>5. CASE ReadBegin
  BY <1>5 DEF ReadBegin, readBegin, isReadable, Open
<1>6. CASE ReadDone
  BY <1>6 DEF ReadDone, readEnd, errored, closed
<1>7. CASE CloseWriteBegin
  BY <1>7 DEF CloseWriteBegin, writeCloseBegin
<1>8. CASE CloseWriteDone
  BY <1>8 DEF CloseWriteDone, writeCloseEnd
<1>9. ASSUME NEW w \in Writers, Write(w) PROVE MachineInv'
  BY <1>9 DEF Write, WriteGuard, WriteAssign, WriteSent, WriteEnd,
     writeEnd
<1>10. CASE UNCHANGED commVars
  BY <1>10 DEF commVars
<1> QED
  BY <1>1, <1>2, <1>3, <1>4, <1>5, <1>6, <1>7, <1>8, <1>9, <1>10 DEF CommNext, OwnerStep

\* The owner's calls only ever lower the writing flag.
LEMMA OwnerLowersWriting ==
  ASSUME CommTypeOK, OwnerStep
  PROVE  place' = place /\ (m'.writing => m.writing)
  BY DEF CommTypeOK, Machine, OwnerStep, ConnectBegin, Connected,
     ReadClosed, Close, Single,
     ReadBegin, ReadDone, CloseWriteBegin, CloseWriteDone,
     connectBegin, connected,
     readClosed, closed, readBegin, readEnd, errored,
     writeCloseBegin, writeCloseEnd

\* A writer that raises the flag moves on to its send; one that leaves write()
\* leaves the flag down or another writer inside.
LEMMA StepWriting ==
  CommTypeOK /\ WritingHasAWriter /\ [CommNext]_commVars => WritingHasAWriter'
<1> SUFFICES ASSUME CommTypeOK, WritingHasAWriter, [CommNext]_commVars, m'.writing
             PROVE  \E v \in Writers : place'[v] \in {"send", "end"}
  BY DEF WritingHasAWriter
<1>1. CASE OwnerStep
  BY <1>1, OwnerLowersWriting DEF WritingHasAWriter
<1>2. ASSUME NEW w \in Writers, Write(w)
      PROVE  \E v \in Writers : place'[v] \in {"send", "end"}
  <2>1. CASE WriteGuard(w)
    BY <2>1 DEF CommTypeOK, WritingHasAWriter, WriteGuard
  <2>2. CASE WriteAssign(w)
    BY <2>2 DEF CommTypeOK, WriteAssign
  <2>3. CASE WriteSent(w)
    BY <2>3 DEF CommTypeOK, WritingHasAWriter, WriteSent
  <2>4. CASE WriteEnd(w)
    BY <2>4 DEF CommTypeOK, Machine, WriteEnd, writeEnd
  <2> QED
    BY <1>2, <2>1, <2>2, <2>3, <2>4 DEF Write
<1>3. CASE UNCHANGED commVars
  BY <1>3 DEF commVars, WritingHasAWriter
<1> QED
  BY <1>1, <1>2, <1>3 DEF CommNext

\* The inductive invariant holds in every behaviour.
THEOREM CommInvariance == CommSpec => []CommInv
<1>1. CommInv /\ [CommNext]_commVars => CommInv'
  BY StepCommTyped, StepMachineInv, StepWriting DEF CommInv
<1> QED
  BY InitComm, <1>1, PTL DEF CommSpec

\* Type correctness, of the machine and of everyone's place in its methods.
THEOREM CommTyped == CommSpec => []CommTypeOK
<1>1. CommInv => CommTypeOK
  BY DEF CommInv
<1> QED
  BY CommInvariance, <1>1, PTL

\* The state always tells which directions are open, and no read outlives the end
\* of the stream.
THEOREM StateIsTrue == CommSpec => []StateMatchesSides
<1>1. CommInv => StateMatchesSides
  BY DEF CommInv, MachineInv
<1> QED
  BY CommInvariance, <1>1, PTL

\* A raised writing flag has a writer inside write(), whoever closed the machine
\* meanwhile.
THEOREM FlagHasAWriter == CommSpec => []WritingHasAWriter
<1>1. CommInv => WritingHasAWriter
  BY DEF CommInv
<1> QED
  BY CommInvariance, <1>1, PTL

\* Every step of the machine is a step of the state diagram, or changes nothing
\* the diagram shows.
LEMMA StepLifecycle ==
  CommInv /\ [CommNext]_commVars => [Lifecycle!Next]_(Lifecycle!vars)
<1> SUFFICES ASSUME CommInv, [CommNext]_commVars
             PROVE  [Lifecycle!Next]_(Lifecycle!vars)
  OBVIOUS
<1> USE DEF CommInv, CommTypeOK, Machine, States, MachineInv,
     StateMatchesSides, FlagsHaveATask,
     Lifecycle!Next, Lifecycle!vars
<1>1. CASE ConnectBegin
  BY <1>1 DEF ConnectBegin, Single, connectBegin, Lifecycle!Begin
<1>2. CASE Connected
  BY <1>2 DEF Connected, Single, connected, Lifecycle!Connect
<1>3. CASE ReadClosed
  BY <1>3 DEF ReadClosed, Single, readClosed, Lifecycle!EndRead
<1>4. CASE Close
  BY <1>4 DEF Close, Single, closed, Lifecycle!Abort
<1>5. CASE ReadBegin
  BY <1>5 DEF ReadBegin, readBegin
<1>6. CASE ReadDone
  BY <1>6 DEF ReadDone, readEnd, errored, closed, Lifecycle!Abort
<1>7. CASE CloseWriteBegin
  BY <1>7 DEF CloseWriteBegin, writeCloseBegin, Lifecycle!BeginEnd
<1>8. CASE CloseWriteDone
  BY <1>8 DEF CloseWriteDone, writeCloseEnd, Lifecycle!EndWrite
<1>9. ASSUME NEW w \in Writers, Write(w) PROVE [Lifecycle!Next]_(Lifecycle!vars)
  BY <1>9 DEF Write, WriteGuard, WriteAssign, WriteSent, WriteEnd,
     writeEnd
<1>10. CASE UNCHANGED commVars
  BY <1>10 DEF commVars
<1> QED
  BY <1>1, <1>2, <1>3, <1>4, <1>5, <1>6, <1>7, <1>8, <1>9, <1>10 DEF CommNext, OwnerStep

\* The machine, with its owner and its writers, implements the state diagram of
\* CommunicatorStateMachine.hpp.
THEOREM LifecycleRefinement == CommSpec => LifecycleSpec
<1>1. CommInit => Lifecycle!Init
  BY DEF CommInit, NewMachine, Types, Lifecycle!Init
<1> QED
  BY <1>1, CommInvariance, StepLifecycle, PTL DEF CommSpec, LifecycleSpec,
     Lifecycle!Spec

\* The connection never goes back to an earlier state.
THEOREM Monotone == CommSpec => NeverBackwards
<1>1. CommInv /\ [Lifecycle!Next]_(Lifecycle!vars)
        => Rank[m'.state] >= Rank[m.state]
  BY DEF CommInv, CommTypeOK, Machine, States, Rank, Lifecycle!Next,
     Lifecycle!vars, Lifecycle!Begin,
     Lifecycle!Connect, Lifecycle!BeginEnd, Lifecycle!EndRead,
     Lifecycle!EndWrite, Lifecycle!Abort
<1>2. CommInv /\ [CommNext]_commVars => [Rank[m'.state] >= Rank[m.state]]_commVars
  BY <1>1, StepLifecycle
<1> QED
  BY <1>2, CommInvariance, PTL DEF CommSpec, NeverBackwards

(* The run loop *)

InPop == InTask \cup {"pop"}

\* The loop's thread holds the mutex only while a task of its own posts.
LockInv == lock = Thread <=> pc = "posting"

\* A task stays at the head of the queue until it is popped.
HeadInv == pc \in InPop => queue # << >>

\* What was posted is what was popped followed by what is in the queue, and the
\* tasks that ran are a prefix of it.
HistoryInv ==
  /\ Popped \in Nat
  /\ Len(posted) = Popped + Len(queue)
  /\ \A i \in 1..Len(queue) : queue[i] = posted[Popped + i]
  /\ \A i \in 1..Len(ran) : ran[i] = posted[i]

\* The thread leaves its handler only when the loop was stopped, and nobody calls
\* run() before it has ended.
ExitInv == pc = "exit" => canceled

LoopInv == TypeOK /\ LockInv /\ HeadInv /\ HistoryInv /\ NoLostWakeup /\ ExitInv

\* Nothing is posted, nothing has run and nobody holds the mutex at first.
LEMMA InitLoop == Init => LoopInv
<1> SUFFICES ASSUME Init PROVE LoopInv
  OBVIOUS
<1>1. << >> \in Seq(Tasks) /\ Len(<< >>) = 0
  BY EmptySeq
<1>2. Popped = 0
  BY <1>1 DEF Init, Popped, InTask
<1>3. TypeOK
  BY <1>1, HolderAssumption DEF Init, TypeOK, Steps, Over
<1>4. LockInv /\ HeadInv /\ NoLostWakeup /\ ExitInv
  BY HolderAssumption DEF Init, LockInv, HeadInv, NoLostWakeup, ExitInv, InPop, InTask
<1>5. HistoryInv
  BY <1>1, <1>2 DEF Init, HistoryInv
<1> QED
  BY <1>3, <1>4, <1>5 DEF LoopInv

(* What a step can do to the queue and to the histories.                   *)

Same == UNCHANGED <<queue, posted, ran>> /\ (pc' \in InPop <=> pc \in InPop)

Pushed(t) == /\ queue' = Append(queue, t)
             /\ posted' = Append(posted, t)
             /\ ran' = ran
             /\ pc' \in InPop <=> pc \in InPop

\* A step of a client leaves the queue alone or is the push of a post.
LEMMA ClientShape ==
  ASSUME LoopInv, NEW c \in Clients, Client(c)
  PROVE  Same \/ \E t \in Tasks : Pushed(t)
<1>1. CASE \E t \in Tasks : Post(c, t)
  BY <1>1 DEF Post, Push, Pushed
<1>2. CASE Notify(c)
  BY <1>2 DEF Notify, Same, InPop, InTask
<1>3. CASE Stop(c) \/ Run(c)
  BY <1>3 DEF Stop, Run, Same, InPop, InTask
<1> QED
  BY <1>1, <1>2, <1>3 DEF Client

\* The steps of the loop's thread, one by one.
LEMMA ThreadShape ==
  ASSUME LoopInv, Progress \/ HandlerStop \/ SpuriousWakeup \/ TaskStop
  PROVE  Same \/ TaskBegin \/ Pop
<1> USE DEF Same, InPop, InTask, Goto
<1>1. CASE ThreadBegin \/ HandlerTest \/ HandlerDispatch
  BY <1>1 DEF ThreadBegin, HandlerTest, HandlerDispatch
<1>2. CASE DispatchTest \/ DispatchWait \/ DrainEmpty
  BY <1>2 DEF DispatchTest, DispatchWait, DrainEmpty
<1>3. CASE TaskPosted \/ TaskReturn \/ TaskThrow
  BY <1>3 DEF TaskPosted, TaskReturn, TaskThrow
<1>4. CASE ThreadEnd \/ HandlerStop \/ SpuriousWakeup \/ TaskStop
  BY <1>4 DEF ThreadEnd, HandlerStop, SpuriousWakeup, TaskStop
<1> QED
  BY <1>1, <1>2, <1>3, <1>4 DEF Progress

\* Every step leaves the queue alone, pushes, begins a task or pops one.
LEMMA StepShape ==
  ASSUME LoopInv, [Next]_vars
  PROVE  Same \/ (\E t \in Tasks : Pushed(t)) \/ TaskBegin \/ Pop
<1>1. ASSUME NEW t \in Tasks, TaskPost(t) PROVE Pushed(t)
  BY <1>1 DEF TaskPost, Push, Pushed, InPop, InTask
<1>2. CASE UNCHANGED vars
  BY <1>2 DEF vars, Same
<1> QED
  BY <1>1, <1>2, ClientShape, ThreadShape DEF Next

(* The inductive invariant is preserved.                                   *)

\* The flags, the mutex and the thread's place stay in their types.
LEMMA StepFlags ==
  ASSUME LoopInv, [Next]_vars
  PROVE  /\ lock' \in Clients \cup {Thread, Free}
         /\ canceled' \in BOOLEAN /\ running' \in BOOLEAN
         /\ pc' \in Steps
<1> USE DEF LoopInv, TypeOK, Steps, Over, InTask, Goto
<1>1. ASSUME NEW c \in Clients, Client(c)
      PROVE  /\ lock' \in Clients \cup {Thread, Free}
             /\ canceled' \in BOOLEAN /\ running' \in BOOLEAN
             /\ pc' \in Steps
  BY <1>1 DEF Client, Post, Push, Notify, Stop, Run
<1>2. CASE ThreadBegin \/ HandlerTest \/ HandlerDispatch \/ DispatchTest
  BY <1>2 DEF ThreadBegin, HandlerTest, HandlerDispatch, DispatchTest
<1>3. CASE DispatchWait \/ DrainEmpty \/ TaskBegin \/ TaskPosted
  BY <1>3 DEF DispatchWait, DrainEmpty, TaskBegin, TaskPosted
<1>4. CASE TaskReturn \/ TaskThrow \/ Pop \/ ThreadEnd
  BY <1>4 DEF TaskReturn, TaskThrow, Pop, ThreadEnd
<1>5. CASE HandlerStop \/ SpuriousWakeup \/ TaskStop \/ \E t \in Tasks : TaskPost(t)
  BY <1>5 DEF HandlerStop, SpuriousWakeup, TaskStop, TaskPost, Push
<1>6. CASE UNCHANGED vars
  BY <1>6 DEF vars
<1> QED
  BY <1>1, <1>2, <1>3, <1>4, <1>5, <1>6 DEF Next, Progress

\* The queue and the histories remain sequences of tasks.
LEMMA StepSeqs ==
  ASSUME LoopInv, [Next]_vars
  PROVE  queue' \in Seq(Tasks) /\ posted' \in Seq(Tasks) /\ ran' \in Seq(Tasks)
<1> USE DEF LoopInv, TypeOK
<1>1. CASE Same
  BY <1>1 DEF Same
<1>2. ASSUME NEW t \in Tasks, Pushed(t)
      PROVE  queue' \in Seq(Tasks) /\ posted' \in Seq(Tasks) /\ ran' \in Seq(Tasks)
  BY <1>2, AppendProperties DEF Pushed
<1>3. CASE TaskBegin
  BY <1>3, AppendProperties, HeadTailProperties DEF TaskBegin
<1>4. CASE Pop
  BY <1>4, HeadTailProperties DEF Pop, HeadInv, InPop
<1> QED
  BY <1>1, <1>2, <1>3, <1>4, StepShape

\* A task that posts holds the mutex as the loop's thread, and nobody else does.
LEMMA StepLock ==
  ASSUME LoopInv, [Next]_vars
  PROVE  LockInv'
<1> USE HolderAssumption DEF LoopInv, LockInv, Goto
<1>1. ASSUME NEW c \in Clients, Client(c) PROVE LockInv'
  BY <1>1 DEF Client, Post, Push, Notify, Stop, Run
<1>2. CASE ThreadBegin \/ HandlerTest \/ HandlerDispatch \/ DispatchTest
  BY <1>2 DEF ThreadBegin, HandlerTest, HandlerDispatch, DispatchTest
<1>3. CASE DispatchWait \/ DrainEmpty \/ TaskBegin \/ TaskPosted
  BY <1>3 DEF DispatchWait, DrainEmpty, TaskBegin, TaskPosted
<1>4. CASE TaskReturn \/ TaskThrow \/ Pop \/ ThreadEnd
  BY <1>4 DEF TaskReturn, TaskThrow, Pop, ThreadEnd
<1>5. CASE HandlerStop \/ SpuriousWakeup \/ TaskStop \/ \E t \in Tasks : TaskPost(t)
  BY <1>5 DEF HandlerStop, SpuriousWakeup, TaskStop, TaskPost, Push
<1>6. CASE UNCHANGED vars
  BY <1>6 DEF vars
<1> QED
  BY <1>1, <1>2, <1>3, <1>4, <1>5, <1>6 DEF Next, Progress

\* Posts append, the queue is only cut while no task is in progress, and a task
\* begins only on a queue that has one.
LEMMA StepHead ==
  ASSUME LoopInv, [Next]_vars
  PROVE  HeadInv'
<1> USE DEF LoopInv, TypeOK, HeadInv
<1>1. CASE Same
  BY <1>1 DEF Same
<1>2. ASSUME NEW t \in Tasks, Pushed(t) PROVE HeadInv'
  BY <1>2, AppendProperties DEF Pushed
<1>3. CASE TaskBegin
  BY <1>3 DEF TaskBegin
<1>4. CASE Pop
  BY <1>4 DEF Pop, InPop, InTask
<1> QED
  BY <1>1, <1>2, <1>3, <1>4, StepShape

\* The queue remains the part of the posts that was not popped, and what ran a
\* prefix of the posts.
LEMMA StepHistory ==
  ASSUME LoopInv, [Next]_vars
  PROVE  HistoryInv'
<1> USE DEF LoopInv, TypeOK, HistoryInv
<1>0. Len(queue) \in Nat /\ Len(posted) \in Nat /\ Len(ran) \in Nat
  BY LenProperties
<1>1. CASE Same
  BY <1>1 DEF Same, InPop, Popped
<1>2. ASSUME NEW t \in Tasks, Pushed(t) PROVE HistoryInv'
  <2>1. Len(queue') = Len(queue) + 1 /\ Len(posted') = Len(posted) + 1
    BY <1>2, AppendProperties DEF Pushed
  <2>2. /\ \A i \in 1..Len(queue) : queue'[i] = queue[i]
        /\ queue'[Len(queue) + 1] = t
    BY <1>2, AppendProperties DEF Pushed
  <2>7. /\ \A i \in 1..Len(posted) : posted'[i] = posted[i]
        /\ posted'[Len(posted) + 1] = t
    BY <1>2, AppendProperties DEF Pushed
  <2>3. Popped' = Popped /\ ran' = ran
    BY <1>2 DEF Pushed, InPop, Popped
  <2>4. Popped <= Len(posted) /\ Len(ran) <= Len(posted)
    BY <1>0, EmptySeq DEF HeadInv, InPop, Popped
  <2>5. ASSUME NEW i \in 1..Len(queue') PROVE queue'[i] = posted'[Popped' + i]
    <3>1. CASE i = Len(queue) + 1
      BY <1>0, <2>1, <2>2, <2>3, <2>7, <3>1
    <3>2. CASE i \in 1..Len(queue)
      <4>1. Popped + i \in 1..Len(posted)
        BY <1>0, <3>2
      <4> QED
        BY <2>2, <2>3, <2>7, <3>2, <4>1
    <3> QED
      BY <1>0, <2>1, <3>1, <3>2
  <2>6. \A i \in 1..Len(ran') : ran'[i] = posted'[i]
    BY <1>0, <2>3, <2>4, <2>7
  <2> QED
    BY <1>0, <2>1, <2>3, <2>5, <2>6
<1>3. CASE TaskBegin
  <2>1. queue' = queue /\ posted' = posted /\ queue # << >>
    BY <1>3 DEF TaskBegin
  <2>2. Popped = Len(ran) /\ Popped' = Len(ran') - 1
    BY <1>3 DEF TaskBegin, InTask, Popped
  <2>3. /\ Head(queue) \in Tasks /\ Head(queue) = queue[1]
        /\ Len(queue) >= 1
    BY <1>0, <2>1, HeadTailProperties, EmptySeq
  <2>4. /\ Len(ran') = Len(ran) + 1
        /\ \A i \in 1..Len(ran) : ran'[i] = ran[i]
        /\ ran'[Len(ran) + 1] = queue[1]
    BY <1>3, <2>3, AppendProperties DEF TaskBegin
  <2>5. Popped' = Popped
    BY <1>0, <2>2, <2>4
  <2>6. queue[1] = posted[Len(ran) + 1]
    BY <1>0, <2>2, <2>3
  <2>7. \A i \in 1..Len(ran') : ran'[i] = posted'[i]
    BY <1>0, <2>1, <2>4, <2>6
  <2>8. /\ Popped' \in Nat
        /\ Len(posted') = Popped' + Len(queue')
        /\ \A i \in 1..Len(queue') : queue'[i] = posted'[Popped' + i]
    BY <2>1, <2>5
  <2> QED
    BY <2>7, <2>8
<1>4. CASE Pop
  <2>1. queue # << >> /\ queue' = Tail(queue) /\ posted' = posted /\ ran' = ran
    BY <1>4 DEF Pop, HeadInv, InPop
  <2>2. /\ Len(queue') = Len(queue) - 1
        /\ \A i \in 1..Len(queue') : queue'[i] = queue[i + 1]
    BY <2>1, HeadTailProperties
  <2>3. Popped' = Popped + 1
    BY <1>0, <1>4 DEF Pop, InTask, Popped
  <2>4. ASSUME NEW i \in 1..Len(queue') PROVE queue'[i] = posted'[Popped' + i]
    <3>1. i + 1 \in 1..Len(queue)
      BY <1>0, <2>2
    <3>2. queue[i + 1] = posted[Popped + (i + 1)]
      BY <3>1
    <3>3. Popped + (i + 1) = Popped' + i
      BY <1>0, <2>2, <2>3
    <3> QED
      BY <2>1, <2>2, <3>2, <3>3
  <2>5. Popped' \in Nat /\ Len(posted') = Popped' + Len(queue')
    <3>1. Popped \in Nat /\ Len(posted) = Popped + Len(queue)
      OBVIOUS
    <3>2. Len(queue') = Len(queue) - 1 /\ Len(posted') = Len(posted)
      BY <2>1, <2>2
    <3> HIDE DEF LoopInv, TypeOK, HistoryInv
    <3> QED
      BY <1>0, <2>3, <3>1, <3>2
  <2>6. \A i \in 1..Len(ran') : ran'[i] = posted'[i]
    BY <2>1
  <2> QED
    BY <2>4, <2>5, <2>6
<1> QED
  BY <1>1, <1>2, <1>3, <1>4, StepShape

\* A push leaves its poster inside post(), and the thread goes to sleep only on
\* an empty queue.
LEMMA StepWakeup ==
  ASSUME LoopInv, [Next]_vars
  PROVE  NoLostWakeup'
<1> USE HolderAssumption DEF LoopInv, LockInv, NoLostWakeup, Goto
<1>1. ASSUME NEW c \in Clients, Client(c) PROVE NoLostWakeup'
  BY <1>1 DEF Client, Post, Push, Notify, Stop, Run
<1>2. CASE ThreadBegin \/ HandlerTest \/ HandlerDispatch \/ DispatchTest
  BY <1>2 DEF ThreadBegin, HandlerTest, HandlerDispatch, DispatchTest
<1>3. CASE DispatchWait \/ DrainEmpty \/ TaskBegin \/ TaskPosted
  BY <1>3 DEF DispatchWait, DrainEmpty, TaskBegin, TaskPosted
<1>4. CASE TaskReturn \/ TaskThrow \/ Pop \/ ThreadEnd
  BY <1>4 DEF TaskReturn, TaskThrow, Pop, ThreadEnd
<1>5. CASE HandlerStop \/ SpuriousWakeup \/ TaskStop \/ \E t \in Tasks : TaskPost(t)
  BY <1>5 DEF HandlerStop, SpuriousWakeup, TaskStop, TaskPost, Push
<1>6. CASE UNCHANGED vars
  BY <1>6 DEF vars
<1> QED
  BY <1>1, <1>2, <1>3, <1>4, <1>5, <1>6 DEF Next, Progress

\* A thread on its way out stays stopped.
LEMMA StepExit ==
  ASSUME LoopInv, [Next]_vars
  PROVE  ExitInv'
<1> USE DEF LoopInv, ExitInv, Goto
<1>1. ASSUME NEW c \in Clients, Client(c) PROVE ExitInv'
  BY <1>1 DEF Client, Post, Push, Notify, Stop, Run
<1>2. CASE Progress
  BY <1>2 DEF Progress, ThreadBegin, HandlerTest, HandlerDispatch, DispatchTest, DispatchWait,
     DrainEmpty, TaskBegin, TaskPosted, TaskReturn, TaskThrow, Pop, ThreadEnd
<1>3. CASE HandlerStop \/ SpuriousWakeup \/ TaskStop \/ \E t \in Tasks : TaskPost(t)
  BY <1>3 DEF HandlerStop, SpuriousWakeup, TaskStop, TaskPost, Push
<1>4. CASE UNCHANGED vars
  BY <1>4 DEF vars
<1> QED
  BY <1>1, <1>2, <1>3, <1>4 DEF Next

\* The inductive invariant holds in every behaviour.
THEOREM Invariance == Spec => []LoopInv
<1>1. LoopInv /\ [Next]_vars => LoopInv'
  BY StepFlags, StepSeqs, StepLock, StepHead, StepHistory, StepWakeup, StepExit DEF LoopInv,
     TypeOK
<1> QED
  BY InitLoop, <1>1, PTL DEF Spec

\* Type correctness, of the loop's fields and of the clients' places in its methods.
THEOREM Typed == Spec => []TypeOK
<1>1. LoopInv => TypeOK
  BY DEF LoopInv
<1> QED
  BY Invariance, <1>1, PTL

\* No behaviour of any number of threads sleeps on work.
THEOREM Safety == Spec => []NoLostWakeup
<1>1. LoopInv => NoLostWakeup
  BY DEF LoopInv
<1> QED
  BY Invariance, <1>1, PTL

\* None loses a post, duplicates one or changes their order in the queue.
THEOREM NothingLost == Spec => []QueueIsTheRest
<1>1. LoopInv => QueueIsTheRest
  <2> SUFFICES ASSUME LoopInv PROVE queue = SubSeq(posted, Popped + 1, Len(posted))
    BY DEF QueueIsTheRest
  <2> DEFINE rest == SubSeq(posted, Popped + 1, Len(posted))
  <2>0. /\ queue \in Seq(Tasks) /\ posted \in Seq(Tasks)
        /\ Len(queue) \in Nat /\ Len(posted) \in Nat /\ Popped \in Nat
        /\ Len(posted) = Popped + Len(queue)
    BY LenProperties DEF LoopInv, TypeOK, HistoryInv
  <2>1. \A i \in (Popped + 1)..Len(posted) : posted[i] \in Tasks
    BY <2>0, ElementOfSeq
  <2>2. /\ rest \in Seq(Tasks)
        /\ Len(rest) = IF Popped + 1 <= Len(posted) THEN Len(posted) - (Popped + 1) + 1 ELSE 0
        /\ \A i \in 1..Len(posted) - (Popped + 1) + 1 : rest[i] = posted[Popped + 1 + i - 1]
    BY <2>0, <2>1, SubSeqProperties
  <2>3. Len(rest) = Len(queue)
    BY <2>0, <2>2
  <2>4. ASSUME NEW i \in 1..Len(queue) PROVE queue[i] = rest[i]
    <3>1. rest[i] = posted[Popped + 1 + i - 1] /\ Popped + 1 + i - 1 = Popped + i
      BY <2>0, <2>2
    <3> QED
      BY <3>1 DEF LoopInv, HistoryInv
  <2> HIDE DEF rest
  <2>5. queue = rest
    BY <2>0, <2>2, <2>3, <2>4, SeqEqual
  <2> QED
    BY <2>5 DEF rest
<1> QED
  BY Invariance, <1>1, PTL DEF LoopInv

\* Every step of the loop is a step of the serial executor or changes nothing
\* the executor shows.
LEMMA StepExecutor ==
  ASSUME LoopInv, [Next]_vars
  PROVE  [Executor!Next]_(Executor!vars)
<1> USE DEF Executor!Next, Executor!vars
<1>1. ASSUME NEW t \in Tasks, Pushed(t), pc' \in InTask <=> pc \in InTask
      PROVE  [Executor!Next]_(Executor!vars)
  BY <1>1 DEF Pushed, Executor!Submit
<1>2. ASSUME NEW c \in Clients, Client(c) PROVE [Executor!Next]_(Executor!vars)
  BY <1>1, <1>2 DEF Client, Post, Push, Pushed, Notify, Stop, Run, InPop, InTask
<1>3. ASSUME NEW t \in Tasks, TaskPost(t) PROVE [Executor!Next]_(Executor!vars)
  BY <1>1, <1>3 DEF TaskPost, Push, Pushed, InPop, InTask
<1>4. CASE TaskBegin
  <2>1. Head(queue) = queue[1] /\ Len(queue) \in Nat \ {0}
    BY <1>4, EmptySeq DEF LoopInv, TypeOK, TaskBegin
  <2>2. Popped = Len(ran)
    BY <1>4, LenProperties DEF LoopInv, TypeOK, TaskBegin, Popped, InTask
  <2>3. Head(queue) = posted[Len(ran) + 1] /\ Len(ran) < Len(posted)
    BY <2>1, <2>2 DEF LoopInv, HistoryInv
  <2> QED
    BY <1>4, <2>3 DEF TaskBegin, InTask, Executor!Begin
<1>5. CASE TaskReturn
  BY <1>5 DEF TaskReturn, Goto, InTask, Executor!Finish
<1>6. CASE ThreadBegin \/ HandlerTest \/ HandlerDispatch \/ DispatchTest
  BY <1>6 DEF ThreadBegin, HandlerTest, HandlerDispatch, DispatchTest, Goto, InTask
<1>7. CASE DispatchWait \/ DrainEmpty \/ TaskPosted \/ TaskThrow
  BY <1>7 DEF DispatchWait, DrainEmpty, TaskPosted, TaskThrow, Goto, InTask
<1>8. CASE Pop \/ ThreadEnd \/ HandlerStop \/ SpuriousWakeup \/ TaskStop
  BY <1>8 DEF Pop, ThreadEnd, HandlerStop, SpuriousWakeup, TaskStop, Goto, InTask
<1>9. CASE UNCHANGED vars
  BY <1>9 DEF vars
<1> QED
  BY <1>2, <1>3, <1>4, <1>5, <1>6, <1>7, <1>8, <1>9 DEF Next, Progress

\* A run loop is a serial executor: whatever its clients and its tasks do, the
\* tasks run one at a time in the order in which they were posted.
THEOREM Refinement == Spec => SerialExecution
<1>1. Init => Executor!Init
  BY DEF Init, InTask, Executor!Init
<1>2. LoopInv /\ [Next]_vars => [Executor!Next]_(Executor!vars)
  BY StepExecutor
<1> QED
  BY <1>1, <1>2, Invariance, PTL DEF Spec, SerialExecution, Executor!Spec

(* The loop as its owners see it *)

\* The places they tell apart.
Places == {"off", "test", "body", "locking", "asleep", "drain", "died"}


\* The thread's place as they see it.
LEMMA Seen ==
  ASSUME NEW step \in Steps, NEW tasks
  PROVE  /\ OwnersPlace(step, tasks) \in Places
         /\ step \in {"none", "ended"} => OwnersPlace(step, tasks) = "off"
         /\ step \in {"starting", "test", "exit"} => OwnersPlace(step, tasks) = "test"
         /\ step \in {"body", "dispatch", "dispatchWait"} => OwnersPlace(step, tasks) = "body"
         /\ step = "wantLock" => OwnersPlace(step, tasks) = "locking"
         /\ step = "waiting" /\ tasks = << >> => OwnersPlace(step, tasks) = "asleep"
         /\ step = "waiting" /\ tasks # << >> => OwnersPlace(step, tasks) = "locking"
         /\ step \in {"drain", "task", "posting", "pop"} => OwnersPlace(step, tasks) = "drain"
         /\ step = "died" => OwnersPlace(step, tasks) = "died"
  BY DEF OwnersPlace, Places, Steps, Over, InTask

\* What the operations of an EventLoop make of what they see.
LEMMA Operated ==
  ASSUME NEW l \in Owned!Loop(Tasks, Places)
  PROVE  /\ \A t \in Tasks :
              /\ Owned!post(l, t) \in Owned!Loop(Tasks, Places)
              /\ Owned!post(l, t).queue = Append(l.queue, t)
              /\ Owned!post(l, t).queue # << >>
              /\ Owned!post(l, t).canceled = l.canceled
              /\ Owned!post(l, t).pc = IF l.pc = "asleep" THEN "locking" ELSE l.pc
         /\ l.queue # << >> => /\ Owned!pop(l) \in Owned!Loop(Tasks, Places)
                               /\ Owned!pop(l).queue = Tail(l.queue)
                               /\ Owned!pop(l).canceled = l.canceled
                               /\ Owned!pop(l).pc = "drain"
         /\ \A step \in Places : /\ Owned!Goto(l, step) \in Owned!Loop(Tasks, Places)
                                 /\ Owned!Goto(l, step).queue = l.queue
                                 /\ Owned!Goto(l, step).canceled = l.canceled
                                 /\ Owned!Goto(l, step).pc = step
<1>1. /\ Operations!Loop(Tasks, Places) = Owned!Loop(Tasks, Places)
      /\ {"locking", "drain"} \subseteq Places
  BY DEF Operations!Loop, Owned!Loop, Places
<1>2. \A t \in Tasks : Operations!post(l, t) = Owned!post(l, t)
  BY DEF Operations!post, Owned!post
<1>3. Operations!pop(l) = Owned!pop(l)
  BY DEF Operations!pop, Owned!pop
<1>4. \A step \in Places : Operations!Goto(l, step) = Owned!Goto(l, step)
  BY DEF Operations!Goto, Owned!Goto
<1>5. \A t \in Tasks :
        /\ Owned!post(l, t) \in Owned!Loop(Tasks, Places)
        /\ Owned!post(l, t).queue = Append(l.queue, t)
        /\ Owned!post(l, t).queue # << >>
        /\ Owned!post(l, t).canceled = l.canceled
        /\ Owned!post(l, t).pc = IF l.pc = "asleep" THEN "locking" ELSE l.pc
  BY <1>1, <1>2, Operations!PostMoves
<1>6. l.queue # << >> => /\ Owned!pop(l) \in Owned!Loop(Tasks, Places)
                         /\ Owned!pop(l).queue = Tail(l.queue)
                         /\ Owned!pop(l).canceled = l.canceled
                         /\ Owned!pop(l).pc = "drain"
  BY <1>1, <1>3, Operations!PopMoves
<1>7. \A step \in Places : /\ Owned!Goto(l, step) \in Owned!Loop(Tasks, Places)
                           /\ Owned!Goto(l, step).queue = l.queue
                           /\ Owned!Goto(l, step).canceled = l.canceled
                           /\ Owned!Goto(l, step).pc = step
  BY <1>1, <1>4, Operations!GotoMoves
<1> QED
  BY <1>5, <1>6, <1>7

\* stop() and run() leave the queue alone and set the flag.
LEMMA Flagged ==
  ASSUME NEW l \in Owned!Loop(Tasks, Places)
  PROVE  /\ Owned!stop(l) \in Owned!Loop(Tasks, Places)
         /\ Owned!stop(l).pc = l.pc /\ Owned!stop(l).queue = l.queue
         /\ Owned!stop(l).canceled
         /\ Owned!run(l) \in Owned!Loop(Tasks, Places)
         /\ Owned!run(l).pc = "test" /\ Owned!run(l).queue = l.queue
         /\ ~Owned!run(l).canceled
<1>1. Operations!Loop(Tasks, Places) = Owned!Loop(Tasks, Places) /\ "test" \in Places
  BY DEF Operations!Loop, Owned!Loop, Places
<1>2. Operations!run(l) = Owned!run(l) /\ Operations!stop(l) = Owned!stop(l)
  BY DEF Operations!run, Operations!stop, Owned!run, Owned!stop
<1> QED
  BY <1>1, <1>2, Operations!FlagMoves

\* The view before a step is an EventLoop; the view after it is whatever EventLoop has
\* the fields of the loop.
LEMMA Viewed ==
  /\ TypeOK => /\ OwnersView \in Owned!Loop(Tasks, Places)
               /\ OwnersView.queue = queue
               /\ OwnersView.canceled = canceled
               /\ OwnersView.pc = OwnersPlace(pc, queue)
  /\ TypeOK' => \A l \in Owned!Loop(Tasks, Places) :
                  /\ l.queue = queue' /\ (l.canceled <=> canceled')
                  /\ l.pc = OwnersPlace(pc', queue')
                  => OwnersView' = l
<1>1. ASSUME TypeOK
      PROVE  /\ OwnersView \in Owned!Loop(Tasks, Places)
             /\ OwnersView.queue = queue
             /\ OwnersView.canceled = canceled
             /\ OwnersView.pc = OwnersPlace(pc, queue)
  BY <1>1, Seen DEF TypeOK, OwnersView, Owned!Loop
<1>2. ASSUME TypeOK', NEW l \in Owned!Loop(Tasks, Places),
             l.queue = queue', l.canceled <=> canceled', l.pc = OwnersPlace(pc', queue')
      PROVE  OwnersView' = l
  BY <1>2 DEF TypeOK, OwnersView, Owned!Loop
<1> QED
  BY <1>1, <1>2

\* A push is the post that its owners see.
LEMMA StepPush ==
  ASSUME LoopInv, TypeOK', NEW t \in Tasks, Push(t), canceled' = canceled,
         pc' = pc \/ (pc = "task" /\ pc' = "posting")
  PROVE  OwnersView' = Owned!post(OwnersView, t)
<1>1. TypeOK /\ queue' = Append(queue, t) /\ pc \in Steps /\ pc' \in Steps
  BY DEF Push, LoopInv, TypeOK
<1>2. /\ Owned!post(OwnersView, t) \in Owned!Loop(Tasks, Places)
      /\ Owned!post(OwnersView, t).queue = queue'
      /\ Owned!post(OwnersView, t).queue # << >>
      /\ Owned!post(OwnersView, t).canceled <=> canceled'
      /\ Owned!post(OwnersView, t).pc =
           IF OwnersView.pc = "asleep" THEN "locking" ELSE OwnersView.pc
  BY <1>1, Viewed, Operated
<1>3. Owned!post(OwnersView, t).pc = OwnersPlace(pc', queue')
  <2>1. OwnersView.pc = OwnersPlace(pc, queue) /\ queue' # << >>
    BY <1>1, <1>2, Viewed
  <2>2. CASE pc = "waiting"
    <3>1. pc' = pc /\ OwnersPlace(pc', queue') = "locking"
      BY <1>1, <2>1, <2>2, Seen
    <3>2. OwnersPlace(pc, queue) \in {"asleep", "locking"}
      BY <1>1, <2>2, Seen
    <3> QED
      BY <1>2, <2>1, <3>1, <3>2
  <2>3. CASE pc = "task"
    BY <1>1, <1>2, <2>1, <2>3, Seen
  <2>4. CASE pc # "waiting" /\ pc' = pc
    <3>1. OwnersPlace(pc, queue) # "asleep" /\ OwnersPlace(pc, queue') = OwnersPlace(pc, queue)
      BY <1>1, <2>4, Seen DEF Steps, Over, InTask
    <3> QED
      BY <1>2, <2>1, <2>4, <3>1
  <2> QED
    BY <2>2, <2>3, <2>4
<1> QED
  BY <1>2, <1>3, Viewed

\* A step that leaves the queue and the flag alone sends the thread to another
\* place, or shows nothing.
LEMMA StepGoes ==
  ASSUME LoopInv, TypeOK', UNCHANGED <<queue, canceled>>
  PROVE  /\ OwnersView' = Owned!Goto(OwnersView, OwnersPlace(pc', queue))
         /\ OwnersPlace(pc', queue) = OwnersPlace(pc, queue) => OwnersView' = OwnersView
<1>1. TypeOK /\ OwnersPlace(pc', queue) \in Places
  BY Seen DEF LoopInv, TypeOK
<1>2. /\ Owned!Goto(OwnersView, OwnersPlace(pc', queue)) \in Owned!Loop(Tasks, Places)
      /\ Owned!Goto(OwnersView, OwnersPlace(pc', queue)).queue = queue'
      /\ Owned!Goto(OwnersView, OwnersPlace(pc', queue)).canceled <=> canceled'
      /\ Owned!Goto(OwnersView, OwnersPlace(pc', queue)).pc = OwnersPlace(pc', queue')
  BY <1>1, Viewed, Operated
<1> QED
  BY <1>1, <1>2, Viewed

\* What a client does is a step of an EventLoop; a notify finds the thread awake
\* already when there is work in the queue.
LEMMA ClientSeen ==
  ASSUME LoopInv, TypeOK', NEW c \in Clients, Client(c)
  PROVE  [Owned!Next]_OwnersView
<1> USE DEF Owned!Next, Owned!Client, Owned!Handler
<1>0. TypeOK /\ pc \in Steps
  BY DEF LoopInv, TypeOK
<1>1. ASSUME NEW t \in Tasks, Post(c, t) PROVE [Owned!Next]_OwnersView
  BY <1>1, StepPush DEF Post
<1>2. CASE Notify(c)
  <2>1. UNCHANGED <<queue, canceled>> /\ pc' = (IF pc = "waiting" THEN "wantLock" ELSE pc)
    BY <1>2 DEF Notify
  <2>2. CASE pc = "waiting" /\ queue = << >>
    <3>1. OwnersPlace(pc, queue) = "asleep" /\ OwnersPlace(pc', queue) = "locking"
      BY <2>1, <2>2, Seen DEF Steps
    <3> QED
      BY <1>0, <2>1, <3>1, StepGoes, Viewed DEF Owned!spuriousWakeup
  <2>3. CASE pc # "waiting" \/ queue # << >>
    <3>1. OwnersPlace(pc', queue) = OwnersPlace(pc, queue)
      BY <2>1, <2>3, Seen DEF Steps
    <3> QED
      BY <2>1, <3>1, StepGoes
  <2> QED
    BY <2>2, <2>3
<1>3. CASE Stop(c)
  <2>1. OwnersView' = Owned!stop(OwnersView)
    BY <1>0, <1>3, Flagged, Viewed DEF Stop
  <2> QED
    BY <2>1
<1>4. CASE Run(c)
  <2>1. pc' = "starting" /\ pc' \in Steps /\ OwnersPlace(pc', queue') = "test"
    BY <1>4, Seen DEF Run, Steps
  <2>2. OwnersView' = Owned!run(OwnersView) /\ OwnersView.pc = "off"
    BY <1>0, <1>4, <2>1, Flagged, Viewed, Seen DEF Run
  <2> QED
    BY <2>2
<1> QED
  BY <1>1, <1>2, <1>3, <1>4 DEF Client

\* So is what the loop's thread does, its handler and its tasks included.
LEMMA ThreadSeen ==
  ASSUME LoopInv, TypeOK', Progress \/ HandlerStop \/ SpuriousWakeup \/ TaskStop
  PROVE  [Owned!Next]_OwnersView
<1> USE DEF Owned!Next, Owned!Handler, Owned!Task
<1> DEFINE l == OwnersView
           next == OwnersPlace(pc', queue)
<1>0. TypeOK /\ pc \in Steps /\ pc' \in Steps /\ canceled \in BOOLEAN
  BY DEF LoopInv, TypeOK
<1>1. CASE ThreadBegin \/ HandlerDispatch \/ TaskPosted \/ TaskReturn \/ TaskBegin
  <2>1. UNCHANGED <<queue, canceled>> /\ next = OwnersPlace(pc, queue)
    BY <1>0, <1>1, Seen DEF ThreadBegin, HandlerDispatch, TaskPosted, TaskReturn, TaskBegin,
     Goto
  <2> QED
    BY <2>1, StepGoes
<1>2. CASE HandlerTest \/ ThreadEnd
  <2>1. UNCHANGED <<queue, canceled>> /\ l.pc = "test" /\ l.canceled = canceled
    BY <1>0, <1>2, Seen, Viewed DEF HandlerTest, ThreadEnd, Goto
  <2>2. next = (IF canceled THEN "off" ELSE "body") \/ next = OwnersPlace(pc, queue)
    BY <1>0, <1>2, Seen DEF HandlerTest, ThreadEnd, Goto, LoopInv, ExitInv
  <2> QED
    BY <2>1, <2>2, StepGoes
<1>3. CASE DispatchTest
  <2>1. /\ UNCHANGED <<queue, canceled>> /\ l.pc = "body" /\ l.queue = queue
        /\ next = IF queue # << >> THEN "drain"
                   ELSE IF pc = "dispatchWait" THEN "locking" ELSE "test"
    BY <1>0, <1>3, Seen, Viewed DEF DispatchTest, Goto
  <2>2. l' = Owned!dispatch(l, pc = "dispatchWait")
    BY <2>1, StepGoes DEF Owned!dispatch
  <2>3. (pc = "dispatchWait") \in BOOLEAN
    OBVIOUS
  <2> QED
    BY <2>1, <2>2, <2>3
<1>4. CASE DispatchWait
  <2>1. /\ UNCHANGED <<queue, canceled>> /\ l.pc = "locking" /\ l.queue = queue
        /\ l.canceled = canceled
        /\ next = IF queue # << >> \/ canceled THEN "test" ELSE "asleep"
    BY <1>0, <1>4, Seen, Viewed DEF DispatchWait, Goto
  <2>2. l' = Owned!waitForWork(l)
    BY <2>1, StepGoes DEF Owned!waitForWork
  <2> QED
    BY <2>1, <2>2
<1>5. CASE DrainEmpty
  <2>1. /\ UNCHANGED <<queue, canceled>> /\ l.pc = "drain" /\ l.queue = << >>
        /\ next = "test"
    BY <1>0, <1>5, Seen, Viewed DEF DrainEmpty, Goto
  <2>2. l' = Owned!drained(l)
    BY <2>1, StepGoes DEF Owned!drained
  <2> QED
    BY <2>1, <2>2
<1>6. CASE TaskThrow
  <2>1. /\ UNCHANGED <<queue, canceled>> /\ l.pc = "drain" /\ l.queue # << >>
        /\ next = "died"
    BY <1>0, <1>6, Seen, Viewed DEF TaskThrow, Goto, LoopInv, HeadInv, InPop, InTask
  <2> QED
    BY <2>1, StepGoes
<1>7. CASE Pop
  <2>1. l.pc = "drain" /\ l.queue # << >> /\ l.queue = queue /\ l.canceled = canceled
    BY <1>0, <1>7, Seen, Viewed DEF Pop, LoopInv, HeadInv, InPop
  <2>2. queue' = Tail(queue) /\ canceled' = canceled /\ OwnersPlace(pc', queue') = "drain"
    BY <1>0, <1>7, Seen DEF Pop
  <2>3. l' = Owned!pop(l)
    BY <1>0, <2>1, <2>2, Operated, Viewed
  <2> QED
    BY <2>1, <2>3
<1>8. CASE SpuriousWakeup
  <2>1. UNCHANGED <<queue, canceled>> /\ next = "locking" /\ l.pc \in {"asleep", "locking"}
    BY <1>0, <1>8, Seen, Viewed DEF SpuriousWakeup, Goto
  <2> QED
    BY <1>0, <2>1, StepGoes, Viewed DEF Owned!spuriousWakeup
<1>9. CASE HandlerStop \/ TaskStop
  <2>1. l' = Owned!stop(l)
    BY <1>0, <1>9, Flagged, Viewed DEF HandlerStop, TaskStop
  <2> QED
    BY <2>1 DEF Owned!Client
<1> QED
  BY <1>1, <1>2, <1>3, <1>4, <1>5, <1>6, <1>7, <1>8, <1>9 DEF Progress

\* And so is every step.
LEMMA StepSeen ==
  ASSUME LoopInv, TypeOK', [Next]_vars
  PROVE  [Owned!Next]_OwnersView
<1>1. ASSUME NEW t \in Tasks, TaskPost(t) PROVE [Owned!Next]_OwnersView
  BY <1>1, StepPush DEF TaskPost, Owned!Next, Owned!Client
<1>2. CASE UNCHANGED vars
  BY <1>2 DEF vars, OwnersView
<1> QED
  BY <1>1, <1>2, ClientSeen, ThreadSeen DEF Next

\* What its owners see of a run loop, whatever its clients and its tasks do, is an
\* EventLoop: the modules of the sockets may take the one for the other.
THEOREM OwnersRefinement == Spec => EventLoopBehaviour
<1>1. Init => Owned!Init
  BY DEF Init, Owned!Init, OwnersView, OwnersPlace, Owned!NewLoop
<1>2. LoopInv => TypeOK
  BY DEF LoopInv
<1>3. LoopInv /\ TypeOK' /\ [Next]_vars => [Owned!Next]_OwnersView
  BY StepSeen
<1> QED
  BY <1>1, <1>2, <1>3, Invariance, PTL DEF Spec, EventLoopBehaviour, Owned!Spec
=============================================================================
