------------------------- MODULE ConnectionLifecycle -------------------------
(***************************************************************************)
(* What a communicator promises its user: the state diagram at the head of *)
(* CommunicatorStateMachine.hpp.  A connection is established once, each of*)
(* its two directions ends once, and it is Closed exactly from the moment  *)
(* both have ended; from every state it may be closed (Errored in the      *)
(* diagram is Closed in the code) and nothing follows that.                *)
(***************************************************************************)

VARIABLES phase,       \* where the connection stands
          readEnded,   \* the peer's stream has ended
          writeEnded   \* our stream has ended

vars == <<phase, readEnded, writeEnded>>

Init == phase = "Init" /\ ~readEnded /\ ~writeEnded

Begin == /\ phase = "Init"
         /\ phase' = "Establishing"
         /\ UNCHANGED <<readEnded, writeEnded>>

\* The code also accepts connected() before connectBegin().
Connect == /\ phase \in {"Init", "Establishing"}
           /\ phase' = "Established"
           /\ UNCHANGED <<readEnded, writeEnded>>

\* Our side announces the end of its stream and has not completed it yet.
BeginEnd == /\ phase = "Established"
            /\ phase' = "Closing"
            /\ UNCHANGED <<readEnded, writeEnded>>

EndRead == /\ phase \in {"Established", "Closing"}
           /\ ~readEnded
           /\ readEnded' = TRUE
           /\ phase' = IF writeEnded THEN "Closed" ELSE "Closing"
           /\ UNCHANGED writeEnded

EndWrite == /\ phase = "Closing"
            /\ ~writeEnded
            /\ writeEnded' = TRUE
            /\ phase' = IF readEnded THEN "Closed" ELSE "Closing"
            /\ UNCHANGED readEnded

\* close(), or an error: both directions end at once.
Abort == /\ phase # "Closed"
         /\ phase' = "Closed"
         /\ readEnded' = TRUE
         /\ writeEnded' = TRUE

Next == Begin \/ Connect \/ BeginEnd \/ EndRead \/ EndWrite \/ Abort

Spec == Init /\ [][Next]_vars
=============================================================================
