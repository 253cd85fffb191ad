---------------------------- MODULE SerialExecutor ----------------------------
(***************************************************************************)
(* What a run loop promises to those who post to it: the tasks run one at a*)
(* time, in the order in which they were posted, none of them twice and    *)
(* none that was not posted.  It does not promise that every task runs: a  *)
(* loop may be stopped, and a task that never returns keeps it busy.       *)
(***************************************************************************)
EXTENDS Naturals, Sequences

CONSTANT Tasks

VARIABLES submitted,   \* every task posted so far, in order
          ran,         \* every task begun so far, in order
          busy         \* the last task of ran has not returned

vars == <<submitted, ran, busy>>

Init == submitted = << >> /\ ran = << >> /\ ~busy

Submit == /\ \E t \in Tasks : submitted' = Append(submitted, t)
          /\ UNCHANGED <<ran, busy>>

Begin == /\ ~busy
         /\ Len(ran) < Len(submitted)
         /\ ran' = Append(ran, submitted[Len(ran) + 1])
         /\ busy' = TRUE
         /\ UNCHANGED submitted

Finish == /\ busy
          /\ busy' = FALSE
          /\ UNCHANGED <<submitted, ran>>

Next == Submit \/ Begin \/ Finish

Spec == Init /\ [][Next]_vars
=============================================================================
