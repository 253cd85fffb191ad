----------------------- MODULE CommunicatorStateMachine -----------------------
(***************************************************************************)
(* The class CommunicatorStateMachine of SocketKit, as operators on its    *)
(* fields.  Every socket, connector and acceptor of the library owns one   *)
(* such machine and calls its methods; the modules that model them hold a  *)
(* record of Machine and apply the operator of the method to it.           *)
(*                                                                         *)
(* A method is a guard followed by a body.  In a debug build the guard is  *)
(* also an assert(); in a release build a call whose guard is false returns*)
(* without effect.  The operator of a method is the whole call as a release*)
(* build makes it, for a caller that no other thread disturbs between the  *)
(* guard and the body; modules with such threads split the two themselves. *)
(***************************************************************************)
EXTENDS Naturals

States == {"Init", "Establishing", "Established", "Closing", "Closed"}

Types == {"Local", "Remote"}

Machine == [type: Types, state: States,
            reading: BOOLEAN, writing: BOOLEAN,
            readClosed: BOOLEAN, writeClosed: BOOLEAN, writeClosing: BOOLEAN]

NewMachine(t) ==
  [type |-> t, state |-> "Init", reading |-> FALSE, writing |-> FALSE,
   readClosed |-> FALSE, writeClosed |-> FALSE, writeClosing |-> FALSE]

\* Both directions of the stream are open as soon as the connection is; the
\* local end of an accepted socket may already use them while establishing.
Open(m) == m.state = "Established" \/ (m.type = "Local" /\ m.state = "Establishing")

isReadable(m) ==
  ~m.reading /\ (Open(m) \/ (m.state = "Closing" /\ ~m.readClosed))

isWritable(m) ==
  /\ ~m.writing
  /\ Open(m) \/ (m.state = "Closing" /\ ~m.writeClosed /\ ~m.writeClosing)

-----------------------------------------------------------------------------
(* The methods.                                                            *)

connectBegin(m) ==
  IF m.state = "Init" THEN [m EXCEPT !.state = "Establishing"] ELSE m

connected(m) ==
  IF m.state \in {"Init", "Establishing"} THEN [m EXCEPT !.state = "Established"] ELSE m

readBegin(m) == IF isReadable(m) THEN [m EXCEPT !.reading = TRUE] ELSE m

\* readEnd and writeEnd return early when the flag is already down: no change.
readEnd(m) == [m EXCEPT !.reading = FALSE]

readClosed_half(m) ==          \* mutant: the second direction to end is forgotten
  IF m.state \in {"Established", "Closing"}
  THEN [m EXCEPT !.readClosed = TRUE, !.reading = FALSE, !.state = "Closing"]
  ELSE m

\* The peer's end of stream: the first direction to end makes the machine
\* Closing, the second one Closed.
readClosed(m) ==
  IF m.state \in {"Established", "Closing"}
  THEN [m EXCEPT !.readClosed = TRUE, !.reading = FALSE,
                 !.state = IF m.state = "Closing" /\ m.writeClosed
                           THEN "Closed" ELSE "Closing"]
  ELSE m

writeBegin(m) == IF isWritable(m) THEN [m EXCEPT !.writing = TRUE] ELSE m

writeEnd(m) == [m EXCEPT !.writing = FALSE]

writeCloseBegin(m) ==
  IF m.state \in {"Established", "Closing"}
  THEN [m EXCEPT !.state = "Closing", !.writeClosing = TRUE, !.writing = FALSE]
  ELSE m

writeCloseEnd_early(m) ==      \* mutant: Closed whether or not the read side is
  IF m.writeClosing
  THEN [m EXCEPT !.writeClosing = FALSE, !.writeClosed = TRUE, !.state = "Closed"]
  ELSE m

writeCloseEnd_lost(m) ==       \* mutant: the write side is never marked closed
  IF m.writeClosing THEN [m EXCEPT !.writeClosing = FALSE] ELSE m

writeCloseEnd(m) ==
  IF m.writeClosing
  THEN [m EXCEPT !.writeClosing = FALSE, !.writeClosed = TRUE,
                 !.state = IF m.readClosed THEN "Closed" ELSE m.state]
  ELSE m

closed(m) ==
  [m EXCEPT !.reading = FALSE, !.writing = FALSE, !.writeClosed = TRUE,
            !.readClosed = TRUE, !.writeClosing = FALSE, !.state = "Closed"]

errored(m) == closed(m)

\* How far a connection in each state has come.
Rank == [Init |-> 0, Establishing |-> 1, Established |-> 2, Closing |-> 3, Closed |-> 4]
=============================================================================
