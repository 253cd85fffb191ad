----------------------------- MODULE UsbmuxdClient -----------------------------
(***************************************************************************)
(* What UsbmuxdDeviceListener and UsbmuxdConnector have in common, line by *)
(* line: a connection to the daemon usbmuxd, a protocol that knows the     *)
(* requests on it, and a run loop that selects, reads one message a turn   *)
(* and never sleeps in dispatch().  A request is registered on the thread  *)
(* that asks and sent by a task; its answer is parsed on the loop's thread.*)
(*                                                                         *)
(* The connection is a stream.  A message may arrive in two pieces; the    *)
(* loop peeks a header and reads with one recv() as many bytes as the      *)
(* header says, or as have come.  What is left over when that was too few  *)
(* is taken for a header on the next turn: its first four bytes are text,  *)
(* a length greater than anything that waits, so that turn takes everything*)
(* there is and understands nothing of it.  (A message is split past its   *)
(* header, and its second piece has at least those four bytes.)            *)
(*                                                                         *)
(* The actions leave the fields of m to the class that uses them.          *)
(***************************************************************************)
EXTENDS CommunicatorStateMachine, EventLoop, UsbmuxdProtocol

CONSTANT Splits       \* a message may arrive in two pieces

ASSUME SplitsAssumption == Splits \in BOOLEAN

VARIABLES m,          \* _stateMachine
          loop,       \* _runloop; a task is the tag of the request it sends
          proto,      \* _protocol
          asking,     \* the tags registered by a call that has not posted yet
          stream      \* the connection to usbmuxd

clientVars == <<m, loop, proto, asking, stream>>

\* inbox is what has arrived and was not read, in pieces; rest: the second piece
\* of the last message is on its way; requests, those usbmuxd has to answer;
\* ended, usbmuxd has closed; lost, history: a message was not understood.
NewStream == [inbox |-> << >>, rest |-> FALSE, requests |-> {}, ended |-> FALSE, lost |-> FALSE]

ClientInit == /\ m = NewMachine("Remote")
              /\ loop = run(NewLoop)
              /\ proto = NewProtocol
              /\ asking = {}
              /\ stream = NewStream

(* The thread that asks, while there is a process *)

Alive == loop.pc # "killed"

PostRequest == /\ Alive
               /\ \E tag \in asking : loop' = post(loop, tag) /\ asking' = asking \ {tag}
               /\ UNCHANGED <<m, proto, stream>>

(* usbmuxd and the kernel *)

Piece(msg, part) == [msg |-> msg, part |-> part]

\* The stream after usbmuxd has sent a message on it.
Sent(s, msg) ==
  {[s EXCEPT !.inbox = Append(@, Piece(msg, part)), !.rest = part = "head"] :
     part \in IF Splits THEN {"whole", "head"} ELSE {"whole"}}

CanSend == ~stream.ended /\ ~stream.rest

RestArrives == /\ stream.rest /\ ~stream.ended
               /\ stream' = [stream EXCEPT !.inbox = Append(@, Piece([kind |-> "rest"], "tail")),
                                           !.rest = FALSE]
               /\ UNCHANGED <<m, loop, proto, asking>>

Ends == /\ ~stream.ended
        /\ stream' = [stream EXCEPT !.ended = TRUE, !.rest = FALSE]
        /\ UNCHANGED <<m, loop, proto, asking>>

(* The loop's thread *)

Test == /\ loop.pc = "test"
        /\ loop' = Goto(loop, IF loop.canceled THEN "over" ELSE "select")
        /\ UNCHANGED <<m, proto, asking, stream>>

Readable == stream.inbox # << >> \/ stream.ended

SelectTimeout_sleeps ==        \* mutant: the turn ends in dispatch(true)
  /\ loop.pc = "select"
  /\ ~Readable
  /\ loop' = dispatch(IF m.state = "Closed" THEN stop(loop) ELSE loop, TRUE)
  /\ UNCHANGED <<m, proto, asking, stream>>

SelectTimeout_ignores ==       \* mutant: the state is not looked at
  /\ loop.pc = "select"
  /\ ~Readable
  /\ loop' = dispatch(loop, FALSE)
  /\ UNCHANGED <<m, proto, asking, stream>>

\* One second without a message: a refused client stops.
SelectTimeout == /\ loop.pc = "select"
                 /\ ~Readable
                 /\ loop' = dispatch(IF m.state = "Closed" THEN stop(loop) ELSE loop, FALSE)
                 /\ UNCHANGED <<m, proto, asking, stream>>

\* A message for a client that has its connection, or has lost it, or an
\* exceptional condition, or a signal: the loop stops.
SelectStops == /\ loop.pc = "select"
               /\ loop' = dispatch(stop(loop), FALSE)
               /\ UNCHANGED <<m, proto, asking, stream>>

Reading == loop.pc = "select" /\ m.state \in {"Init", "Establishing"}

\* The first message has arrived in full.
Complete == /\ stream.inbox # << >>
            /\ \/ Head(stream.inbox).part = "whole"
               \/ Head(stream.inbox).part = "head" /\ Len(stream.inbox) > 1

Message == Head(stream.inbox).msg

\* It is read, and parsed by the class that uses this module.
ReadMessage == /\ Reading
               /\ Complete
               /\ stream' = [stream EXCEPT !.inbox =
                               IF Head(@).part = "whole" THEN Tail(@) ELSE Tail(Tail(@))]

\* Half a message, or the second half of one: it is lost, and everything that
\* has come with it.
Misread == /\ Reading
           /\ stream.inbox # << >> /\ ~Complete
           /\ stream' = [stream EXCEPT !.inbox = << >>, !.lost = TRUE]
           /\ loop' = dispatch(loop, FALSE)
           /\ UNCHANGED <<m, proto, asking>>

\* At the end of the stream the header stays zero: no bytes are read, and a
\* length that has wrapped below zero is passed on for a text that is not there.
\* Nothing is understood, and the loop goes on ...
ReadEnd == /\ Reading
           /\ stream.inbox = << >> /\ stream.ended
           /\ loop' = dispatch(loop, FALSE)
           /\ UNCHANGED <<m, proto, asking, stream>>

\* ... unless a read outside the buffer, or the memory a text asks for, ends the
\* process.
Crash == /\ Reading
         /\ Readable /\ ~Complete
         /\ loop' = Goto(loop, "killed")
         /\ UNCHANGED <<m, proto, asking, stream>>

\* The task of a request: a send.
SendTask == /\ loop.pc = "drain" /\ loop.queue # << >>
            /\ stream' = IF stream.ended THEN stream
                         ELSE [stream EXCEPT !.requests = @ \cup {Head(loop.queue)}]
            /\ loop' = pop(loop)
            /\ UNCHANGED <<m, proto, asking>>

\* On a connection that usbmuxd has closed it raises SIGPIPE (SO_NOSIGPIPE is only a
\* name on Linux), which may end the process.
SendKilled == /\ loop.pc = "drain" /\ loop.queue # << >>
              /\ stream.ended
              /\ loop' = Goto(loop, "killed")
              /\ UNCHANGED <<m, proto, asking, stream>>

Drained == /\ loop.pc = "drain" /\ loop.queue = << >>
           /\ loop' = drained(loop)
           /\ UNCHANGED <<m, proto, asking, stream>>

\* Whatever the thread does but wait for a second in vain.
Turn == \/ Test \/ SelectStops \/ Misread \/ ReadEnd \/ Crash
        \/ SendTask \/ SendKilled \/ Drained

ClientThread == Turn \/ SelectTimeout
=============================================================================
