----------------------------- MODULE Communicator -----------------------------
(***************************************************************************)
(* A state machine in use, as the sockets use it.  The run loop thread of  *)
(* the socket (the owner) opens, reads, half-closes and closes, one task   *)
(* after the other; write() runs on whatever thread calls it, so a writer's*)
(* guard, its assignment, its send and its writeEnd interleave with the    *)
(* owner's calls and with other writers.  None of the fields is protected. *)
(*                                                                         *)
(* This is the discipline of an accepted (Local) TCPSocket and of a        *)
(* UDPSocket.  A connecting TCPSocket breaks it: there the connector's     *)
(* thread calls connected() as well, and module TCPSocket models that.     *)
(*                                                                         *)
(* An owner's call is one step: no guard of the owner's methods reads the  *)
(* only field a writer assigns (writing).                                  *)
(***************************************************************************)
EXTENDS CommunicatorStateMachine

CONSTANT Writers    \* the threads that call write()

VARIABLES m,       \* the fields of the state machine
          task,    \* the task the owner is in: "none", "read" or "closeWrite"
          place    \* for each writer, where it is in write()

commVars == <<m, task, place>>

WriterSteps == {"idle", "guarded", "send", "end"}

CommInit == /\ \E t \in Types : m = NewMachine(t)
            /\ task = "none"
            /\ place = [w \in Writers |-> "idle"]

(* The owner *)

\* The tasks of open() and continueFinished(), a peek that finds the end of
\* the stream, and the task of close() or an error path.
Single(call) == /\ task = "none"
                /\ m' = call
                /\ UNCHANGED <<task, place>>

ConnectBegin == Single(connectBegin(m))

Connected == Single(connected(m))

ReadClosed == Single(readClosed(m))

Close == Single(closed(m))

\* read(): readBegin, a recv, then readEnd or errored.
ReadBegin == /\ task = "none"
             /\ task' = "read"
             /\ m' = readBegin(m)
             /\ UNCHANGED place

ReadDone == /\ task = "read"
            /\ task' = "none"
            /\ m' \in {readEnd(m), errored(m)}
            /\ UNCHANGED place

\* closeWrite(): writeCloseBegin, a shutdown, writeCloseEnd.
CloseWriteBegin == /\ task = "none"
                   /\ task' = "closeWrite"
                   /\ m' = writeCloseBegin(m)
                   /\ UNCHANGED place

CloseWriteDone == /\ task = "closeWrite"
                  /\ task' = "none"
                  /\ m' = writeCloseEnd(m)
                  /\ UNCHANGED place

(* A writer *)

\* write() begins: the guard of writeBegin.  When it is false writeBegin
\* returns, and write() sends all the same.
WriteGuard(w) == /\ place[w] = "idle"
                 /\ place' = [place EXCEPT ![w] = IF isWritable(m)
                                                  THEN "guarded" ELSE "send"]
                 /\ UNCHANGED <<m, task>>

WriteAssign(w) == /\ place[w] = "guarded"
                  /\ m' = [m EXCEPT !.writing = TRUE]
                  /\ place' = [place EXCEPT ![w] = "send"]
                  /\ UNCHANGED task

\* The send has returned: the guard of writeEnd.
WriteSent(w) == /\ place[w] = "send"
                /\ place' = [place EXCEPT ![w] = IF m.writing
                                                 THEN "end" ELSE "idle"]
                /\ UNCHANGED <<m, task>>

WriteEnd_forgets(w) ==         \* mutant: the flag stays up
  /\ place[w] = "end"
  /\ place' = [place EXCEPT ![w] = "idle"]
  /\ UNCHANGED <<m, task>>

WriteEnd(w) == /\ place[w] = "end"
               /\ m' = writeEnd(m)
               /\ place' = [place EXCEPT ![w] = "idle"]
               /\ UNCHANGED task

Write(w) == WriteGuard(w) \/ WriteAssign(w) \/ WriteSent(w) \/ WriteEnd(w)

OwnerStep == \/ ConnectBegin \/ Connected \/ ReadClosed \/ Close
             \/ ReadBegin \/ ReadDone
             \/ CloseWriteBegin \/ CloseWriteDone

CommNext == OwnerStep \/ \E w \in Writers : Write(w)

\* A task that has begun is finished by the run loop thread, and a send
\* returns, as it does when the descriptor is non-blocking or the peer reads.
\* Nothing is assumed of the tasks a user may never post.
CommFairness == /\ WF_commVars(ReadDone)
                /\ WF_commVars(CloseWriteDone)
                /\ \A w \in Writers : WF_commVars(WriteAssign(w) \/ WriteSent(w) \/ WriteEnd(w))

CommSpec == CommInit /\ [][CommNext]_commVars

CommFairSpec == CommSpec /\ CommFairness
-----------------------------------------------------------------------------

CommTypeOK == /\ m \in Machine
              /\ task \in {"none", "read", "closeWrite"}
              /\ place \in [Writers -> WriterSteps]

\* The state says exactly which directions are still open: Closed when both
\* have ended, Closing when one has ended or is being ended, and nothing has
\* ended before that.  A socket's run loop decides by the state alone whether
\* it selects on the descriptor, waits, or stops and closes it.  Once the peer's
\* stream has ended no read is in progress, whatever order the calls came in.
StateMatchesSides ==
  /\ m.state = "Closed" <=> m.readClosed /\ m.writeClosed
  /\ m.state = "Closing" => m.readClosed \/ m.writeClosed \/ m.writeClosing
  /\ m.state \in {"Init", "Establishing", "Established"} =>
       ~m.readClosed /\ ~m.writeClosed /\ ~m.writeClosing
  /\ m.readClosed => ~m.reading

\* The writing flag may be raised after the socket was closed (a writer passed
\* the guard before), but then the writer that raised it is still in write():
\* the flag never survives the last call of write().
WritingHasAWriter == m.writing => \E w \in Writers : place[w] \in {"send", "end"}

\* The diagram at CommunicatorStateMachine.hpp:9-65 is what the machine
\* implements, for an owner and writers on different threads.
Lifecycle == INSTANCE ConnectionLifecycle WITH
  phase <- m.state, readEnded <- m.readClosed, writeEnded <- m.writeClosed

LifecycleSpec == Lifecycle!Spec

\* No step of any thread takes the connection back to an earlier state.
NeverBackwards == [][Rank[m'.state] >= Rank[m.state]]_commVars

\* A half-close that has begun completes, and a write that raised the flag
\* lowers it again, even when the socket is closed in between.
CallsComplete == /\ (m.writeClosing ~> m.writeClosed)
                 /\ (m.writing ~> ~m.writing)
=============================================================================
