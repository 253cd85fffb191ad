-------------------------------- MODULE Runloop --------------------------------
(***************************************************************************)
(* The class utils::Runloop: a queue of tasks, a thread that drains it from*)
(* inside a handler, and a condition variable on which the thread waits for*)
(* work.  Any thread may post, stop or run; a task runs on the loop's own  *)
(* thread and may post, stop the loop, return or throw.                    *)
(*                                                                         *)
(* The granularity is that of the shared accesses.  post() holds the mutex *)
(* from its push to its notify; dispatch() reads and pops the queue without*)
(* the mutex, and takes it only to evaluate the predicate of its wait; the *)
(* two flags are atomics that no mutex protects.                           *)
(*                                                                         *)
(* run() is modelled for a loop that has no thread: a second run() before  *)
(* the first thread has set _running would start a second one, and the     *)
(* library calls run() once per loop.                                      *)
(***************************************************************************)
EXTENDS Naturals, Sequences

CONSTANTS Clients,     \* the threads that use the loop, its own excepted
          Tasks,       \* what they post
          Thread,      \* the loop's own thread, as a holder of the mutex
          Free,        \* nobody holds the mutex
          MaxPosts     \* bound: the number of posts in a behaviour

ASSUME HolderAssumption == Thread \notin Clients /\ Free \notin Clients /\ Thread # Free

VARIABLES queue,      \* _taskQueue
          lock,       \* the holder of _taskQueuePushLock
          canceled,   \* _canceled
          running,    \* _running
          pc,         \* where the loop's thread is
          posted,     \* history: every task pushed, in order
          ran         \* history: every task begun, in order

vars == <<queue, lock, canceled, running, pc, posted, ran>>

\* While the thread is in a task, and while the task that threw is still at the
\* head of the queue.
InTask == {"task", "posting", "died"}

Over == {"none", "ended", "died"}

Steps == Over \cup InTask \cup
         {"starting", "test", "body", "dispatch", "dispatchWait", "wantLock",
          "waiting", "drain", "pop", "exit"}

Init == /\ queue = << >>
        /\ lock = Free
        /\ canceled = FALSE
        /\ running = FALSE
        /\ pc = "none"
        /\ posted = << >>
        /\ ran = << >>

Push(t) == /\ lock = Free
           /\ Len(posted) < MaxPosts
           /\ queue' = Append(queue, t)
           /\ posted' = Append(posted, t)

(* Any thread *)

\* post(): the push, under the mutex ...
Post(c, t) == /\ Push(t)
              /\ lock' = c
              /\ UNCHANGED <<canceled, running, pc, ran>>

Notify_silent(c) ==            \* mutant: the unlock without the notify
  /\ lock = c
  /\ lock' = Free
  /\ UNCHANGED <<queue, canceled, running, pc, posted, ran>>

\* ... and notify_all() and the unlock.
Notify(c) == /\ lock = c
             /\ lock' = Free
             /\ pc' = IF pc = "waiting" THEN "wantLock" ELSE pc
             /\ UNCHANGED <<queue, canceled, running, posted, ran>>

\* stop() sets the flag and wakes nobody.  A client inside post() does not call.
Stop(c) == /\ lock # c
           /\ canceled' = TRUE
           /\ UNCHANGED <<queue, lock, running, pc, posted, ran>>

Run_stopped(c) ==              \* mutant: the flag of the last stop() is kept
  /\ lock # c
  /\ ~running
  /\ pc \in {"none", "ended"}
  /\ pc' = "starting"
  /\ UNCHANGED <<queue, lock, canceled, running, posted, ran>>

Run(c) == /\ lock # c
          /\ ~running
          /\ pc \in {"none", "ended"}
          /\ canceled' = FALSE
          /\ pc' = "starting"
          /\ UNCHANGED <<queue, lock, running, posted, ran>>

(* The loop's thread *)

Goto(step) == /\ pc' = step
              /\ UNCHANGED <<queue, lock, canceled, running, posted, ran>>

ThreadBegin == /\ pc = "starting"
               /\ running' = TRUE
               /\ pc' = "test"
               /\ UNCHANGED <<queue, lock, canceled, posted, ran>>

\* Every handler of the library is while (!isCanceled()) { ... dispatch ... }.
HandlerTest == /\ pc = "test"
               /\ Goto(IF canceled THEN "exit" ELSE "body")

\* The body of a socket's handler may stop the loop before it dispatches.
HandlerStop == /\ pc = "body"
               /\ canceled' = TRUE
               /\ UNCHANGED <<queue, lock, running, pc, posted, ran>>

\* The default handler waits for work; the sockets also poll with dispatch().
HandlerDispatch == /\ pc = "body"
                   /\ Goto("dispatchWait") \/ Goto("dispatch")

\* dispatch() looks at the queue without the mutex.
DispatchTest == /\ pc \in {"dispatch", "dispatchWait"}
                /\ Goto(IF queue # << >> THEN "drain"
                        ELSE IF pc = "dispatchWait" THEN "wantLock" ELSE "test")

DispatchWait_blind ==          \* mutant: the wait does not test the queue again
  /\ pc = "wantLock"
  /\ lock = Free
  /\ Goto(IF canceled THEN "test" ELSE "waiting")

DispatchWait_deaf ==           \* mutant: the wait does not test _canceled
  /\ pc = "wantLock"
  /\ lock = Free
  /\ Goto(IF queue # << >> THEN "test" ELSE "waiting")

\* With the mutex: the predicate of the wait.  A dispatch that finds work here
\* returns without running it; the handler's next turn will.
DispatchWait == /\ pc = "wantLock"
                /\ lock = Free
                /\ Goto(IF queue # << >> \/ canceled THEN "test" ELSE "waiting")

SpuriousWakeup == /\ pc = "waiting"
                  /\ Goto("wantLock")

DrainEmpty == /\ pc = "drain"
              /\ queue = << >>
              /\ Goto("test")

TaskBegin == /\ pc = "drain"
             /\ queue # << >>
             /\ ran' = Append(ran, Head(queue))
             /\ pc' = "task"
             /\ UNCHANGED <<queue, lock, canceled, running, posted>>

TaskPost(t) == /\ pc = "task"
               /\ Push(t)
               /\ lock' = Thread
               /\ pc' = "posting"
               /\ UNCHANGED <<canceled, running, ran>>

TaskPosted == /\ pc = "posting"
              /\ lock' = Free
              /\ pc' = "task"
              /\ UNCHANGED <<queue, canceled, running, posted, ran>>

TaskStop == /\ pc = "task"
            /\ canceled' = TRUE
            /\ UNCHANGED <<queue, lock, running, pc, posted, ran>>

TaskReturn == /\ pc = "task"
              /\ Goto("pop")

\* The exception leaves the handler and ends up in the future; the task stays
\* in the queue and _running stays true, so run() starts nothing any more.
TaskThrow == /\ pc = "task"
             /\ Goto("died")

Pop_keeps ==                   \* mutant: the task stays in the queue
  /\ pc = "pop"
  /\ Goto("drain")

Pop == /\ pc = "pop"
       /\ queue' = Tail(queue)
       /\ pc' = "drain"
       /\ UNCHANGED <<lock, canceled, running, posted, ran>>

ThreadEnd == /\ pc = "exit"
             /\ running' = FALSE
             /\ pc' = "ended"
             /\ UNCHANGED <<queue, lock, canceled, posted, ran>>

Client(c) == \/ \E t \in Tasks : Post(c, t)
             \/ Notify(c)
             \/ Stop(c)
             \/ Run(c)

\* What the thread does on its own, to its end: the task returns or throws.
Progress == \/ ThreadBegin \/ HandlerTest \/ HandlerDispatch
            \/ DispatchTest \/ DispatchWait
            \/ DrainEmpty \/ TaskBegin \/ TaskPosted \/ TaskReturn \/ TaskThrow \/ Pop
            \/ ThreadEnd

Next == \/ \E c \in Clients : Client(c)
        \/ Progress
        \/ HandlerStop \/ SpuriousWakeup
        \/ TaskStop \/ \E t \in Tasks : TaskPost(t)

\* The scheduler runs the loop's thread, tasks terminate, and a client inside
\* post() gets on to its notify.  Nobody has to post, stop or run, and no
\* wakeup is spurious unless it happens to be.
Fairness == WF_vars(Progress) /\ \A c \in Clients : WF_vars(Notify(c))

Spec == Init /\ [][Next]_vars

FairSpec == Spec /\ Fairness
-----------------------------------------------------------------------------

TypeOK == /\ queue \in Seq(Tasks)
          /\ lock \in Clients \cup {Thread, Free}
          /\ canceled \in BOOLEAN
          /\ running \in BOOLEAN
          /\ pc \in Steps
          /\ posted \in Seq(Tasks)
          /\ ran \in Seq(Tasks)

\* The tasks that wait in the queue are those posted and not yet popped, in
\* order: no post is lost to a concurrent drain, none is there twice.
Popped == Len(ran) - (IF pc \in InTask \cup {"pop"} THEN 1 ELSE 0)

QueueIsTheRest == queue = SubSeq(posted, Popped + 1, Len(posted))

\* The thread never sleeps on work, except in the moment between a push and its
\* notify: dispatch() tests the queue again under the mutex before it waits.
NoLostWakeup == pc = "waiting" /\ queue # << >> => lock \in Clients

\* The loop is a serial executor: one task at a time, in the order posted.
Executor == INSTANCE SerialExecutor WITH submitted <- posted, busy <- pc \in InTask

SerialExecution == Executor!Spec

\* Seen by its owners the loop is an EventLoop: a push that finds the thread
\* asleep is the step that wakes it, and a task is the one step that pops it.
OwnersPlace(step, tasks) ==
  CASE step \in {"none", "ended"} -> "off"
    [] step \in {"starting", "test", "exit"} -> "test"
    [] step \in {"body", "dispatch", "dispatchWait"} -> "body"
    [] step = "wantLock" -> "locking"
    [] step = "waiting" -> IF tasks = << >> THEN "asleep" ELSE "locking"
    [] step \in {"drain", "task", "posting", "pop"} -> "drain"
    [] step = "died" -> "died"

OwnersView == [queue |-> queue, canceled |-> canceled, pc |-> OwnersPlace(pc, queue)]

Owned == INSTANCE EventLoopSpec WITH loop <- OwnersView

EventLoopBehaviour == Owned!Spec

\* A task that was posted is begun, unless the loop is stopped, has no thread,
\* or was killed by an earlier task.
PostedTasksBegin ==
  \A i \in 1..MaxPosts :
    (Len(posted) >= i) ~> (Len(ran) >= i \/ canceled \/ pc \in Over)

\* A loop that is stopped while its thread is not asleep comes to an end: this
\* is why the library stops a loop from a task posted to it
\* (TCPSocket.cpp:92-94) or from its handler.
StoppedAwakeEnds == (canceled /\ pc # "waiting") ~> (pc \in Over)

\* Runloop.hpp:70-71: a loop that waits must look at _canceled, or it would not
\* end before an operation arrives.  The code tests the flag when the thread is
\* awake; stop() does not wake it.
StoppedLoopEnds == canceled ~> (pc \in Over)
=============================================================================
