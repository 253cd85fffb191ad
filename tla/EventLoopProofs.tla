---------------------------- MODULE EventLoopProofs ----------------------------
(***************************************************************************)
(* What the operators of modules EventLoop and CommunicatorStateMachine    *)
(* return, for the proofs about the modules that use them.                 *)
(***************************************************************************)
EXTENDS CommunicatorStateMachine, EventLoop, TLAPS

\* A method of the state machine returns a machine of the same type.
LEMMA MachineTyped ==
  ASSUME NEW x \in Machine
  PROVE  /\ connectBegin(x) \in Machine /\ connected(x) \in Machine
         /\ readBegin(x) \in Machine /\ readEnd(x) \in Machine /\ readClosed(x) \in Machine
         /\ writeBegin(x) \in Machine /\ writeEnd(x) \in Machine
         /\ writeCloseBegin(x) \in Machine /\ writeCloseEnd(x) \in Machine
         /\ closed(x) \in Machine /\ errored(x) \in Machine
  BY DEF Machine, States, Types, connectBegin, connected, readBegin, readEnd, readClosed,
     writeBegin, writeEnd, writeCloseBegin, writeCloseEnd, closed, errored

\* What the constructors and run() start from.
LEMMA NewTyped ==
  ASSUME NEW Ts, NEW Ps, "test" \in Ps, NEW type \in Types
  PROVE  /\ run(NewLoop) \in Loop(Ts, Ps)
         /\ run(NewLoop).queue = << >> /\ ~run(NewLoop).canceled /\ run(NewLoop).pc = "test"
         /\ NewMachine(type) \in Machine
         /\ NewMachine(type).state = "Init" /\ NewMachine(type).type = type
<1> DEFINE Off == {"off"} \cup Ps
<1>1. NewLoop \in Loop(Ts, Off) /\ NewLoop.queue = << >>
  BY DEF NewLoop, Loop
<1>2. /\ run(NewLoop) \in Loop(Ts, Ps)
      /\ run(NewLoop).queue = << >> /\ ~run(NewLoop).canceled /\ run(NewLoop).pc = "test"
  BY <1>1 DEF Loop, run
<1>3. NewMachine(type) \in Machine
  BY DEF NewMachine, Machine, States
<1> QED
  BY <1>2, <1>3 DEF NewMachine

\* A thread that goes to another place leaves the queue and the flag alone.
LEMMA GotoMoves ==
  ASSUME NEW Ts, NEW Ps, NEW l \in Loop(Ts, Ps), NEW step \in Ps
  PROVE  /\ Goto(l, step) \in Loop(Ts, Ps)
         /\ Goto(l, step).pc = step
         /\ Goto(l, step).queue = l.queue
         /\ Goto(l, step).canceled = l.canceled
  BY DEF Loop, Goto

\* run() and stop() set the flag and leave the queue alone.
LEMMA FlagMoves ==
  ASSUME NEW Ts, NEW Ps, NEW l \in Loop(Ts, Ps), "test" \in Ps
  PROVE  /\ stop(l) \in Loop(Ts, Ps) /\ run(l) \in Loop(Ts, Ps)
         /\ stop(l).pc = l.pc /\ stop(l).queue = l.queue /\ stop(l).canceled
         /\ run(l).pc = "test" /\ run(l).queue = l.queue /\ ~run(l).canceled
  BY DEF Loop, stop, run

\* A task enters the queue at its end, and wakes a thread that sleeps ...
LEMMA PostMoves ==
  ASSUME NEW Ts, NEW Ps, NEW l \in Loop(Ts, Ps), NEW task \in Ts, "locking" \in Ps
  PROVE  /\ post(l, task) \in Loop(Ts, Ps)
         /\ post(l, task).queue = Append(l.queue, task)
         /\ post(l, task).queue # << >>
         /\ post(l, task).canceled = l.canceled
         /\ post(l, task).pc = IF l.pc = "asleep" THEN "locking" ELSE l.pc
<1>1. Append(l.queue, task) \in Seq(Ts) /\ Append(l.queue, task) # << >>
  BY DEF Loop
<1> QED
  BY <1>1 DEF Loop, post

\* ... and leaves it at its head.
LEMMA PopMoves ==
  ASSUME NEW Ts, NEW Ps, NEW l \in Loop(Ts, Ps), l.queue # << >>, "drain" \in Ps
  PROVE  /\ pop(l) \in Loop(Ts, Ps)
         /\ pop(l).queue = Tail(l.queue)
         /\ pop(l).canceled = l.canceled
         /\ pop(l).pc = "drain"
         /\ Head(l.queue) \in Ts
<1>1. Tail(l.queue) \in Seq(Ts) /\ Head(l.queue) \in Ts
  BY DEF Loop
<1> QED
  BY <1>1 DEF Loop, pop

\* A queue without a task that answers an announcement, and one with at most one.
NoPrompt(q, prompt) == \A i \in 1..Len(q) : q[i] # prompt

OnePrompt(q, prompt) == \A i, j \in 1..Len(q) : q[i] = prompt /\ q[j] = prompt => i = j

\* What a task that is posted or run does to the prompts of a queue.
LEMMA Prompts ==
  ASSUME NEW Ts, NEW prompt \in Ts, NEW q \in Seq(Ts), NEW task \in Ts
  PROVE  /\ NoPrompt(q, prompt) => OnePrompt(q, prompt) /\ OnePrompt(Append(q, task), prompt)
         /\ NoPrompt(q, prompt) /\ task # prompt => NoPrompt(Append(q, task), prompt)
         /\ OnePrompt(q, prompt) /\ task # prompt => OnePrompt(Append(q, task), prompt)
         /\ q # << >> /\ NoPrompt(q, prompt) => NoPrompt(Tail(q), prompt)
         /\ q # << >> /\ OnePrompt(q, prompt) => OnePrompt(Tail(q), prompt)
         /\ q # << >> /\ OnePrompt(q, prompt) /\ Head(q) = prompt => NoPrompt(Tail(q), prompt)
<1>1. /\ Len(Append(q, task)) = Len(q) + 1
      /\ \A i \in 1..Len(q) : Append(q, task)[i] = q[i]
      /\ Append(q, task)[Len(q) + 1] = task
  OBVIOUS
<1>2. ASSUME q # << >>
      PROVE  /\ Len(Tail(q)) = Len(q) - 1 /\ Len(q) \in Nat \ {0}
             /\ \A i \in 1..Len(Tail(q)) : Tail(q)[i] = q[i + 1]
             /\ Head(q) = q[1]
  BY <1>2
<1>3. NoPrompt(q, prompt) => OnePrompt(q, prompt) /\ OnePrompt(Append(q, task), prompt)
  BY <1>1 DEF NoPrompt, OnePrompt
<1>4. NoPrompt(q, prompt) /\ task # prompt => NoPrompt(Append(q, task), prompt)
  BY <1>1 DEF NoPrompt
<1>5. OnePrompt(q, prompt) /\ task # prompt => OnePrompt(Append(q, task), prompt)
  BY <1>1 DEF OnePrompt
<1>6. q # << >> /\ NoPrompt(q, prompt) => NoPrompt(Tail(q), prompt)
  BY <1>2 DEF NoPrompt
<1>7. q # << >> /\ OnePrompt(q, prompt) => OnePrompt(Tail(q), prompt)
  BY <1>2 DEF OnePrompt
<1>8. q # << >> /\ OnePrompt(q, prompt) /\ Head(q) = prompt => NoPrompt(Tail(q), prompt)
  BY <1>2 DEF NoPrompt, OnePrompt
<1> QED
  BY <1>3, <1>4, <1>5, <1>6, <1>7, <1>8
=============================================================================
