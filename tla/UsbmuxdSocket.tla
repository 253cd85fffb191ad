----------------------------- MODULE UsbmuxdSocket -----------------------------
(***************************************************************************)
(* The class UsbmuxdSocket: the run loop and the tasks of a connecting     *)
(* TCPSocket, line for line, over a connection that a UsbmuxdConnector has *)
(* obtained from usbmuxd.  The two are composed here: the socket's loop is *)
(* taken from module TCPSocket, the connector's from UsbmuxdConnector, and *)
(* what is this class's own are connect() and the connector's callback.    *)
(*                                                                         *)
(* Two loops on two threads have the same descriptor: the connector's reads*)
(* it up to the answer, the socket's after it.  The peer may speak as soon *)
(* as usbmuxd has accepted, before the answer is read.                     *)
(***************************************************************************)
EXTENDS CommunicatorStateMachine, EventLoop, FiniteSets

CONSTANTS Calls,      \* what the user's thread calls, each at most once
          Splits,     \* usbmuxd's messages may arrive in two pieces
          MaxBytes    \* bound: how often the peer sends

ASSUME BoundAssumption == MaxBytes \in Nat

VARIABLES m, loop, fd, net, connector, writer, todo, told,   \* as in TCPSocket
          cm, cloop, proto, asking, stream,   \* the connector's, as in UsbmuxdConnector
          accepted                            \* usbmuxd has made the connection

Socket == INSTANCE TCPSocket WITH
  Kinds <- {"Remote"}, Blocks <- FALSE, MaxBytes <- [type \in Types |-> MaxBytes]

Mux == INSTANCE UsbmuxdConnector WITH m <- cm, loop <- cloop

socketVars == <<m, loop, fd, net, connector, writer, todo, told>>

muxVars == <<cm, cloop, proto, asking, stream, accepted>>

vars == <<socketVars, muxVars>>

\* The constructor runs the connector's loop; the user runs the socket's.
Init == Socket!Init /\ Mux!ClientInit /\ accepted = FALSE

(* The user's thread *)

\* connect(): connectBegin, and the connector's connect(), which posts.
connect == /\ Mux!Alive
           /\ Socket!Calling("connect")
           /\ m' = connectBegin(m)
           /\ Mux!connect
           /\ connector' = "dialling"
           /\ UNCHANGED <<loop, fd, net, writer, told, accepted>>

ConnectPosts == Mux!PostRequest /\ UNCHANGED <<socketVars, accepted>>

\* The calls that post wait for connect() to return.
Posts(c) == /\ Mux!Alive /\ asking = {}
            /\ Socket!CallPosts(c)
            /\ UNCHANGED muxVars

write == /\ Mux!Alive /\ asking = {}
         /\ Socket!CallWrite \/ Socket!WriteReturns
         /\ UNCHANGED muxVars

\* SIGPIPE, as in TCPSocket.  The place of a process that is gone is the connector's.
WriteKilled == /\ Mux!Alive
               /\ writer = "sending"
               /\ fd = "open" /\ (net.reset \/ net.shut)
               /\ cloop' = Goto(cloop, "killed")
               /\ UNCHANGED <<socketVars, cm, proto, asking, stream, accepted>>

(* usbmuxd and the peer behind it *)

Answers(ok) == /\ Mux!Answers(ok)
               /\ accepted' = ok
               /\ UNCHANGED socketVars

Stream == /\ ~accepted \/ stream.rest
          /\ Mux!RestArrives \/ Mux!Ends
          /\ UNCHANGED <<socketVars, accepted>>

\* The connection is there before the socket has its descriptor.
Peer(n) == /\ accepted /\ ~stream.rest /\ ~stream.ended
           /\ fd # "closed" /\ ~net.fin
           /\ net' = n
           /\ UNCHANGED <<m, loop, fd, connector, writer, todo, told, muxVars>>

PeerSends == net.sent < MaxBytes /\ Peer([net EXCEPT !.sent = @ + 1, !.bytes = @ + 1])

PeerEnds == \E reset \in BOOLEAN : Peer([net EXCEPT !.fin = TRUE, !.reset = reset])

Daemon == (\E ok \in BOOLEAN : Answers(ok)) \/ Stream \/ PeerSends \/ PeerEnds

(* The connector's thread *)

\* The descriptor is readable, too, when the peer has sent or ended.
PeerWaits == accepted /\ (net.bytes > 0 \/ net.fin)

ConnectorLoop == /\ Mux!Turn \/ (Mux!SelectTimeout /\ ~PeerWaits)
                 /\ UNCHANGED <<socketVars, accepted>>

\* An answer that came in pieces was not understood: what the peer sends is read by
\* the connector, which takes it for a header, and as much of it as the length says
\* that those bytes spell.  Nothing is understood, or, as at the end of the stream,
\* the process ends.
ConnectorTakes == /\ Mux!Reading
                  /\ PeerWaits /\ stream.inbox = << >>
                  /\ \E n \in 0..net.bytes : net' = [net EXCEPT !.bytes = @ - n]
                  /\ cloop' \in {dispatch(cloop, FALSE), Goto(cloop, "killed")}
                  /\ UNCHANGED <<m, loop, fd, connector, writer, todo, told, cm, proto,
                                 asking, stream, accepted>>

ReceiveAnswer_keeps ==         \* mutant: the socket does not take the descriptor
  /\ Mux!ReceiveAnswer
  /\ connector' = IF Mux!Event = "Connected" THEN "connected" ELSE "refused"
  /\ UNCHANGED <<m, loop, fd, net, writer, todo, told, accepted>>

\* The callback, between the answer and the next line of the connector's loop.
ReceiveAnswer == /\ Mux!ReceiveAnswer
                 /\ connector' = IF Mux!Event = "Connected" THEN "handover" ELSE "refused"
                 /\ UNCHANGED <<m, loop, fd, net, writer, todo, told, accepted>>

CallbackRuns == cloop.pc = "callback"

\* _socket = socket, and connected() in two steps.
HandOver == /\ CallbackRuns
            /\ Socket!HandOver \/ Socket!ConnectedGuard \/ Socket!ConnectedAssign
            /\ UNCHANGED muxVars

TellOpen == /\ CallbackRuns /\ connector = "tell"
            /\ Socket!Tell("OpenCompleted")
            /\ connector' = "wake"
            /\ UNCHANGED <<m, loop, fd, net, writer, todo, muxVars>>

TellRefused == /\ CallbackRuns /\ connector = "refused"
               /\ m' = errored(m)
               /\ Socket!Tell("ErrorOccurred")
               /\ connector' = "wake"
               /\ UNCHANGED <<loop, fd, net, writer, todo, muxVars>>

Wake_silent ==                 \* mutant: no empty task wakes the socket's loop
  /\ CallbackRuns /\ connector = "wake"
  /\ cloop' = stop(cloop)
  /\ connector' = "done"
  /\ UNCHANGED <<m, loop, fd, net, writer, todo, told, cm, proto, asking, stream, accepted>>

Wake_shared ==                 \* mutant: the connector's loop is not stopped
  /\ CallbackRuns /\ connector = "wake"
  /\ loop' = post(loop, "empty")
  /\ connector' = "done"
  /\ UNCHANGED <<m, fd, net, writer, todo, told, muxVars>>

\* An empty task wakes the socket's loop, whichever way it went, and the connector's
\* loop is stopped.
Wake == /\ CallbackRuns /\ connector = "wake"
        /\ loop' = post(loop, "empty")
        /\ cloop' = stop(cloop)
        /\ connector' = "done"
        /\ UNCHANGED <<m, fd, net, writer, todo, told, cm, proto, asking, stream, accepted>>

CallbackReturns == /\ connector = "done"
                   /\ Mux!CallbackReturns
                   /\ UNCHANGED <<socketVars, accepted>>

ConnectorThread == \/ ConnectorLoop \/ ConnectorTakes \/ ReceiveAnswer
                   \/ HandOver \/ TellOpen \/ TellRefused \/ Wake \/ CallbackReturns

(* The socket's thread *)

Handler == \/ Socket!Test \/ Socket!TestClosed \/ Socket!Wait
           \/ Socket!SelectTimeout \/ Socket!SelectBytes \/ Socket!SelectEnd
           \/ Socket!SelectReset \/ Socket!SelectFails

read == Socket!ReadTask \/ Socket!RecvBytes \/ Socket!RecvFails

closeWrite == Socket!CloseWriteTask \/ Socket!ShutdownWrite

close == Socket!CloseTask

EmptyTask == /\ Socket!At("empty")
             /\ loop' = pop(loop)
             /\ UNCHANGED <<m, fd, net, connector, writer, todo, told>>

LoopThread == /\ Mux!Alive
              /\ Handler \/ read \/ closeWrite \/ close \/ EmptyTask \/ Socket!Drained
              /\ UNCHANGED muxVars

SpuriousWakeup == Socket!SpuriousWakeup /\ UNCHANGED muxVars

Next == \/ connect \/ ConnectPosts \/ write \/ WriteKilled
        \/ \E c \in {"read", "closeWrite", "close"} : Posts(c)
        \/ Daemon \/ ConnectorThread \/ LoopThread \/ SpuriousWakeup

\* The scheduler runs both loops, and connect() does not stop between its steps.
Fairness == WF_vars(LoopThread) /\ WF_vars(ConnectorThread) /\ WF_vars(ConnectPosts)

Spec == Init /\ [][Next]_vars

FairSpec == Spec /\ Fairness
-----------------------------------------------------------------------------

\* One reader: from the moment the socket has the descriptor the connector's loop
\* does not select on it any more, so what the peer sends, however early, is for
\* the socket.  (UsbmuxdConnector.cpp:43: the owner of the socket is switched.)
OneReader == fd # "none" => cloop.pc \notin {"test", "select"} \/ cloop.canceled

\* The user is told once how connect() went, and what usbmuxd said.
AnswerIsTrue == /\ told["OpenCompleted"] <= 1
                /\ told["OpenCompleted"] = 1 => accepted /\ fd # "none"
                /\ connector = "refused" => ~accepted

Answer == CASE told["OpenCompleted"] = 0 ->
                 IF connector \in {"wake", "done"} THEN "Failed" ELSE "none"
            [] told["OpenCompleted"] = 1 -> "Connected"
            [] OTHER -> "several"

\* The user sees a dial: the descriptor is the socket's once usbmuxd has accepted and
\* not before, then OpenCompleted is told, or an error without a descriptor; and
\* close(), the peer and the socket's loop, which run meanwhile, change nothing of it.
Promise == INSTANCE Dial WITH
  asked <- connector # "none",
  up <- accepted,
  given <- fd # "none",
  answer <- Answer

DialSpec == Promise!Spec

\* What the peer sends on an established connection is read, and its end is heard,
\* as long as the connection stays established and open: the empty task is there
\* for this (UsbmuxdSocket.cpp:181).
Dead == ~Mux!Alive

Connected == m.state = "Established" /\ fd = "open"

PeerIsHeard == /\ (Connected /\ net.bytes > 0) ~> (net.bytes = 0 \/ ~Connected \/ Dead)
               /\ (Connected /\ net.fin) ~> (~Connected \/ Dead)

\* A socket that is Closed, by close(), by an error or by a refusal at any moment of
\* the dial, ends its loop and does not keep its thread.
ClosedEndsLoop == (m.state = "Closed") ~> (loop.pc = "over" \/ Dead)

\* A dial is answered, unless usbmuxd does not, hangs up or is misread, or a signal
\* ends the connector's loop, which tells nobody.
DialAnswered == (\E i \in 1..Len(stream.inbox) : stream.inbox[i].part # "tail")
                  ~> (connector = "done" \/ stream.lost \/ stream.ended \/ cloop.canceled \/ Dead)
=============================================================================
