---------------------------------- MODULE Dial ----------------------------------
(***************************************************************************)
(* What connect() promises its caller, whoever dials: one answer at most;  *)
(* success only with a connection that is there, and with its descriptor;  *)
(* a failure without one.  Until then attempts may come and go; after it   *)
(* nothing changes, so a connection that was given is never dialled over.  *)
(* That an answer comes is not promised here: a dial may be silent for     *)
(* ever when usbmuxd is, or when the dialling thread dies.                 *)
(***************************************************************************)

VARIABLES asked,       \* connect() has been called
          up,          \* there is a connection
          given,       \* the caller has its descriptor
          answer       \* what the caller was told: "none", "Connected" or "Failed"

vars == <<asked, up, given, answer>>

Init == ~asked /\ ~up /\ ~given /\ answer = "none"

Ask == /\ ~asked
       /\ asked' = TRUE
       /\ UNCHANGED <<up, given, answer>>

\* An attempt succeeds, or its connection is given up for the next one.
Attempt == /\ asked /\ ~given /\ answer = "none"
           /\ up' = ~up
           /\ UNCHANGED <<asked, given, answer>>

\* The descriptor may be there before the answer ...
Give == /\ up /\ ~given /\ answer = "none"
        /\ given' = TRUE
        /\ UNCHANGED <<asked, up, answer>>

\* ... or come with it.
Succeed == /\ up /\ answer = "none"
           /\ given' = TRUE
           /\ answer' = "Connected"
           /\ UNCHANGED <<asked, up>>

Fail == /\ asked /\ ~given /\ answer = "none"
        /\ answer' = "Failed"
        /\ UNCHANGED <<asked, up, given>>

Next == Ask \/ Attempt \/ Give \/ Succeed \/ Fail

Spec == Init /\ [][Next]_vars
=============================================================================
