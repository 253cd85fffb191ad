------------------------------- MODULE EventLoop -------------------------------
(***************************************************************************)
(* A run loop as the modules that own one see it: a record of the queue,   *)
(* the cancel flag and the place of the loop's thread, and one operator for*)
(* each thing that happens to it.  post() is one step here; module Runloop *)
(* takes it apart and is shown to implement module EventLoopSpec, whose  *)
(* steps are these operators.                                              *)
(*                                                                         *)
(* The thread is at "test" when its handler tests isCanceled(), at "body"  *)
(* inside the handler, at "locking" inside dispatch(true) before the       *)
(* predicate of the wait, "asleep" in the wait, and at "drain" in the loop *)
(* of dispatch() that runs the tasks.  Owners add places of their own.     *)
(***************************************************************************)
EXTENDS Naturals, Sequences

\* The loops whose tasks and places are among these.
Loop(tasks, places) == [queue: Seq(tasks), canceled: BOOLEAN, pc: places]

NewLoop == [queue |-> << >>, canceled |-> FALSE, pc |-> "off"]

Goto(l, step) == [l EXCEPT !.pc = step]

\* run(): the flag is cleared and the thread starts.
run(l) == [l EXCEPT !.canceled = FALSE, !.pc = "test"]

\* stop() sets the flag and wakes nobody.
stop(l) == [l EXCEPT !.canceled = TRUE]

\* post() wakes a thread that sleeps in dispatch(true): it evaluates the
\* predicate again, returns to its handler, and the next turn runs the task.
post(l, task) ==
  [l EXCEPT !.queue = Append(@, task),
            !.pc = IF @ = "asleep" THEN "locking" ELSE @]

\* dispatch(wait), up to the test of the queue without the mutex ...
dispatch(l, wait) ==
  Goto(l, IF l.queue # << >> THEN "drain" ELSE IF wait THEN "locking" ELSE "test")

\* ... and, at "locking", the predicate under the mutex.
waitForWork(l) ==
  Goto(l, IF l.queue # << >> \/ l.canceled THEN "test" ELSE "asleep")

spuriousWakeup(l) == Goto(l, "locking")

\* At "drain": the task at the head returned and is popped, or the queue is
\* empty and dispatch() returns.
pop(l) == [l EXCEPT !.queue = Tail(@), !.pc = "drain"]

drained(l) == Goto(l, "test")
=============================================================================
