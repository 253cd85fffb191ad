----------------------------- MODULE EventLoopSpec -----------------------------
(***************************************************************************)
(* The steps of an EventLoop with any handler, any tasks and any clients:  *)
(* what module Runloop is shown to implement, and what the modules that  *)
(* own a loop rely on.                                                     *)
(***************************************************************************)
EXTENDS EventLoop

CONSTANT Tasks

VARIABLE loop

Init == loop = NewLoop

Client == \/ \E t \in Tasks : loop' = post(loop, t)
          \/ loop' = stop(loop)
          \/ loop.pc = "off" /\ loop' = run(loop)

Handler == \/ /\ loop.pc = "test"
              /\ loop' = Goto(loop, IF loop.canceled THEN "off" ELSE "body")
           \/ /\ loop.pc = "body"
              /\ \E wait \in BOOLEAN : loop' = dispatch(loop, wait)
           \/ /\ loop.pc = "locking"
              /\ loop' = waitForWork(loop)
           \/ /\ loop.pc = "asleep"
              /\ loop' = spuriousWakeup(loop)

\* A task runs and returns, or throws and takes the thread with it.
Task == /\ loop.pc = "drain"
        /\ IF loop.queue = << >>
           THEN loop' = drained(loop)
           ELSE loop' \in {pop(loop), Goto(loop, "died")}

Next == Client \/ Handler \/ Task

Spec == Init /\ [][Next]_loop
=============================================================================
