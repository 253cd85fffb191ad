-------------------------- MODULE UsbmuxdSocketProofs --------------------------
(***************************************************************************)
(* What module UsbmuxdSocket promises for any calls of the user and any    *)
(* number of bytes.  Two loops have one descriptor and one of them reads   *)
(* it: the request is in one place on its way to usbmuxd and back, so there*)
(* is one answer; while its callback runs the connector's loop stands, and *)
(* when it has run that loop is canceled.                                  *)
(***************************************************************************)
EXTENDS UsbmuxdSocket, EventLoopProofs

Tasks == {"read", "closeWrite", "close", "empty"}

\* Where the connector's thread is in the handling of the answer, and of these
\* the places inside its callback.
InCallback == {"handover", "connected", "assign", "tell", "refused", "wake"}

Steps == {"none", "dialling", "done"} \cup InCallback

\* The places of the connector's loop.
MuxPlaces == {"test", "select", "callback", "drain", "over", "killed"}

Messages == [kind: {"rest"}] \cup [kind: {"Result"}, tag: Nat, ok: BOOLEAN]

Inboxes == Seq([msg: Messages, part: {"whole", "head", "tail"}])

\* The socket's half of the state, as in module TCPSocket; a task is at the head
\* of the queue until it has run to its end.
SocketTyped == /\ m \in Machine
               /\ loop \in Loop(Tasks, Socket!Places)
               /\ loop.pc \in {"recv", "shutdown"} => loop.queue # << >>
               /\ fd \in {"none", "open", "closed"}
               /\ net \in [sent: 0..MaxBytes, bytes: 0..MaxBytes, fin: BOOLEAN,
                           reset: BOOLEAN, urgent: BOOLEAN, shut: BOOLEAN]
               /\ net.bytes <= net.sent
               /\ connector \in Steps
               /\ writer \in {"idle", "sending"}
               /\ todo \subseteq Calls
               /\ told \in [Socket!Events -> 0..2]

\* The connector's half.
MuxTyped == /\ cm \in Machine
            /\ cloop \in Loop(Nat, MuxPlaces)
            /\ proto \in [tag: Nat, headers: SUBSET Nat, handlers: SUBSET Nat]
            /\ asking \in SUBSET Nat
            /\ stream \in [inbox: Inboxes, rest: BOOLEAN, requests: SUBSET Nat,
                           ended: BOOLEAN, lost: BOOLEAN]
            /\ accepted \in BOOLEAN

TypeOK == SocketTyped /\ MuxTyped

\* Nothing has arrived and nothing is arriving.
Silent == stream.inbox = << >> /\ ~stream.rest

\* Nothing was asked of usbmuxd that it has not answered.
Quiet == asking = {} /\ cloop.queue = << >> /\ stream.requests = {}

\* Where the one request is: registered, posted or at usbmuxd, ...
Asked == /\ \/ /\ \E tag \in Nat : asking = {tag}
               /\ cloop.queue = << >> /\ stream.requests = {}
            \/ /\ \E tag \in Nat : cloop.queue = <<tag>>
               /\ asking = {} /\ stream.requests = {}
            \/ /\ \E tag \in Nat : stream.requests = {tag}
               /\ asking = {} /\ cloop.queue = << >>
         /\ Silent

\* ... or answered, and then the answer is the first thing to be read, or lost.
Answered == /\ Quiet
            /\ \A i \in 1..Len(stream.inbox) :
                 stream.inbox[i].part # "tail" =>
                   /\ i = 1
                   /\ stream.inbox[i].msg.kind = "Result"
                   /\ stream.inbox[i].msg.ok = accepted

\* The answer was read.
Heard == Quiet /\ \A i \in 1..Len(stream.inbox) : stream.inbox[i].part = "tail"

\* connect() is called once, and its request is answered once.
OneRequest == /\ "connect" \in todo => connector = "none"
              /\ connector = "none" => Quiet /\ Silent
              /\ connector = "dialling" => Asked \/ Answered
              /\ connector \notin {"none", "dialling"} => Heard

\* The connector's loop stands while the callback runs, unless the process ends, and is canceled after it;
\* in between the socket gets the descriptor.
Switched == /\ connector \in InCallback => cloop.pc \in {"callback", "killed"}
            /\ connector = "done" => cloop.canceled
            /\ fd # "none" => connector \in {"connected", "assign", "tell", "wake", "done"}
            /\ connector \in {"connected", "assign", "tell"} => fd # "none"

\* What the callback was called with, and what the user was told.
Truth == /\ connector \in {"handover", "connected", "assign", "tell"} => accepted
         /\ connector = "refused" => ~accepted
         /\ told["OpenCompleted"] > 0 => /\ connector \in {"wake", "done"}
                                         /\ told["OpenCompleted"] = 1
                                         /\ accepted /\ fd # "none"

IInv == TypeOK /\ OneRequest /\ Switched /\ Truth

\* A new socket and its connector satisfy the inductive invariant.
LEMMA InitIInv == Init => IInv
<1> SUFFICES ASSUME Init PROVE IInv
  OBVIOUS
<1>1. /\ m = Socket!NewMachine("Remote") /\ loop = Socket!run(Socket!NewLoop)
      /\ fd = "none" /\ net = Socket!NewNet /\ connector = "none" /\ writer = "idle"
      /\ todo \subseteq Calls /\ told = [e \in Socket!Events |-> 0]
  BY DEF Init, Socket!Init, Socket!CallsOn, Socket!NewMachine
<1>2. /\ m \in Machine
      /\ loop \in Loop(Tasks, Socket!Places) /\ loop.pc = "test"
  <2>1. Socket!NewMachine("Remote") = NewMachine("Remote")
    BY DEF Socket!NewMachine, NewMachine
  <2>2. Socket!run(Socket!NewLoop) = run(NewLoop)
    BY DEF Socket!run, Socket!NewLoop, run, NewLoop
  <2> QED
    BY <1>1, <2>1, <2>2, NewTyped DEF Types, Socket!Places
<1>3. /\ cm \in Machine
      /\ cloop \in Loop(Nat, MuxPlaces) /\ cloop.queue = << >> /\ cloop.pc = "test"
  <2>1. Mux!NewMachine("Remote") = NewMachine("Remote")
    BY DEF Mux!NewMachine, NewMachine
  <2>2. Mux!run(Mux!NewLoop) = run(NewLoop)
    BY DEF Mux!run, Mux!NewLoop, run, NewLoop
  <2> QED
    BY <2>1, <2>2, NewTyped DEF Init, Mux!ClientInit, Types, MuxPlaces
<1>4. SocketTyped
  BY <1>1, <1>2, BoundAssumption DEF SocketTyped, Socket!NewNet, Steps
<1>5. /\ proto = Mux!NewProtocol /\ asking = {} /\ stream = Mux!NewStream /\ accepted = FALSE
  BY DEF Init, Mux!ClientInit
<1>6. MuxTyped
  <2>1. << >> \in Inboxes
    BY DEF Inboxes
  <2>2. stream \in [inbox: Inboxes, rest: BOOLEAN, requests: SUBSET Nat,
                   ended: BOOLEAN, lost: BOOLEAN]
    BY <1>5, <2>1 DEF Mux!NewStream
  <2>3. proto \in [tag: Nat, headers: SUBSET Nat, handlers: SUBSET Nat]
    BY <1>5 DEF Mux!NewProtocol
  <2> QED
    BY <1>3, <1>5, <2>2, <2>3 DEF MuxTyped
<1>7. told["OpenCompleted"] = 0
  BY <1>1 DEF Socket!Events
<1> QED
  BY <1>1, <1>3, <1>4, <1>5, <1>6, <1>7 DEF IInv, TypeOK, OneRequest, Quiet, Silent,
     Switched, Truth, InCallback, Mux!NewStream

\* The steps of the socket's own thread, of its user after connect(), and of the
\* peer: all that the connector sees of them is that the socket may be closed.
SocketSide == \/ \E c \in {"read", "closeWrite", "close"} : Posts(c)
              \/ write \/ PeerSends \/ PeerEnds \/ LoopThread \/ SpuriousWakeup

\* Such a step is no step of the dial.
LEMMA SocketSteps ==
  ASSUME SocketTyped, SocketSide
  PROVE  /\ UNCHANGED <<muxVars, connector>>
         /\ fd' = fd \/ (fd = "open" /\ fd' = "closed")
         /\ todo' \subseteq todo
         /\ told'["OpenCompleted"] = told["OpenCompleted"]
<1> USE DEF muxVars, Socket!Others, Socket!closeSocket
<1>1. CASE \E c \in {"read", "closeWrite", "close"} : Posts(c)
  BY <1>1 DEF Posts, Socket!CallPosts, Socket!Calling
<1>2. CASE write
  BY <1>2 DEF write, Socket!CallWrite, Socket!WriteReturns, Socket!Calling
<1>3. CASE PeerSends \/ PeerEnds
  BY <1>3 DEF PeerSends, PeerEnds, Peer
<1>4. CASE SpuriousWakeup
  BY <1>4 DEF SpuriousWakeup, Socket!SpuriousWakeup
<1>5. CASE LoopThread
  <2>1. ASSUME NEW e \in {"HasBytesAvailable", "EndEncountered", "ErrorOccurred"}, Socket!Tell(e)
        PROVE  told'["OpenCompleted"] = told["OpenCompleted"]
    BY <2>1 DEF SocketTyped, Socket!Tell, Socket!Events
  <2> SUFFICES /\ UNCHANGED connector /\ todo' = todo
               /\ fd' = fd \/ (fd = "open" /\ fd' = "closed")
               /\ told'["OpenCompleted"] = told["OpenCompleted"]
    BY <1>5 DEF LoopThread
  <2>2. CASE Handler
    BY <2>1, <2>2 DEF Handler, Socket!Test, Socket!TestClosed, Socket!Wait,
       Socket!SelectTimeout, Socket!SelectBytes, Socket!SelectEnd, Socket!SelectReset,
       Socket!SelectFails
  <2>3. CASE read \/ closeWrite \/ close
    BY <2>1, <2>3 DEF read, closeWrite, close, Socket!ReadTask, Socket!RecvBytes,
       Socket!RecvFails, Socket!CloseWriteTask, Socket!ShutdownWrite, Socket!CloseTask
  <2>4. CASE EmptyTask \/ Socket!Drained
    BY <2>4 DEF EmptyTask, Socket!Drained
  <2> QED
    BY <1>5, <2>2, <2>3, <2>4 DEF LoopThread
<1> QED
  BY <1>1, <1>2, <1>3, <1>4, <1>5 DEF SocketSide

\* usbmuxd sends: something is appended to what has arrived.
LEMMA Arrives ==
  ASSUME MuxTyped, NEW msg \in Messages, NEW part \in {"whole", "head", "tail"},
         NEW piece, piece = Mux!Piece(msg, part)
  PROVE  /\ Append(stream.inbox, piece) \in Inboxes
         /\ Len(Append(stream.inbox, piece)) = Len(stream.inbox) + 1 /\ Len(stream.inbox) \in Nat
         /\ \A i \in 1..Len(stream.inbox) : Append(stream.inbox, piece)[i] = stream.inbox[i]
         /\ Append(stream.inbox, piece)[Len(stream.inbox) + 1] = piece
         /\ piece.msg = msg /\ piece.part = part
<1>1. stream.inbox \in Inboxes
  BY DEF MuxTyped
<1>2. /\ Mux!Piece(msg, part) \in [msg: Messages, part: {"whole", "head", "tail"}]
      /\ Mux!Piece(msg, part).msg = msg /\ Mux!Piece(msg, part).part = part
  BY DEF Mux!Piece
<1> QED
  BY <1>1, <1>2 DEF Inboxes

\* The answer of usbmuxd to a request, whole or in part.
LEMMA AnswerSteps ==
  ASSUME MuxTyped, NEW ok \in BOOLEAN, Answers(ok)
  PROVE  /\ UNCHANGED <<socketVars, cm, cloop, proto, asking>>
         /\ accepted' = ok
         /\ ~stream.rest
         /\ \E tag \in stream.requests, part \in {"whole", "head"} :
              stream' = [inbox |-> Append(stream.inbox, Mux!Piece(Mux!Result(tag, ok), part)),
                         rest |-> part = "head", requests |-> stream.requests \ {tag},
                         ended |-> stream.ended, lost |-> stream.lost]
<1>1. /\ UNCHANGED <<socketVars, cm, cloop, proto, asking>>
      /\ accepted' = ok /\ ~stream.rest
  BY DEF Answers, Mux!Answers, Mux!CanSend
<1>2. PICK tag \in stream.requests :
        stream' \in Mux!Sent([stream EXCEPT !.requests = @ \ {tag}], Mux!Result(tag, ok))
  BY DEF Answers, Mux!Answers
<1> DEFINE s == [stream EXCEPT !.requests = @ \ {tag}]
<1>3. PICK part \in {"whole", "head"} :
        stream' = [s EXCEPT !.inbox = Append(@, Mux!Piece(Mux!Result(tag, ok), part)),
                            !.rest = part = "head"]
  BY <1>2 DEF Mux!Sent
<1>4. stream' = [inbox |-> Append(stream.inbox, Mux!Piece(Mux!Result(tag, ok), part)),
                 rest |-> part = "head", requests |-> stream.requests \ {tag},
                 ended |-> stream.ended, lost |-> stream.lost]
  BY <1>3 DEF MuxTyped
<1> QED
  BY <1>1, <1>4

\* The task that sends the request leaves the connector's queue.
LEMMA MuxPops ==
  ASSUME MuxTyped, cloop.queue # << >>
  PROVE  /\ pop(cloop) \in Loop(Nat, MuxPlaces)
         /\ pop(cloop).queue = Tail(cloop.queue)
         /\ pop(cloop).canceled = cloop.canceled
<1>1. cloop \in Loop(Nat, MuxPlaces) /\ "drain" \in MuxPlaces
  BY DEF MuxTyped, MuxPlaces
<1> QED
  BY <1>1, PopMoves

\* A step of the connector's loop outside the callback: it may lose what has
\* arrived, or send the request that is posted.
LEMMA LoopSteps ==
  ASSUME MuxTyped, ConnectorLoop \/ ConnectorTakes
  PROVE  /\ UNCHANGED <<cm, proto, asking, accepted, fd, connector, todo, told>>
         /\ cloop' \in Loop(Nat, MuxPlaces)
         /\ cloop.pc \notin {"callback", "killed"}
         /\ cloop.canceled => cloop'.canceled
         /\ stream' = [stream EXCEPT !.inbox = stream'.inbox, !.requests = stream'.requests,
                                     !.lost = stream'.lost]
         /\ stream'.lost \in BOOLEAN
         /\ stream'.inbox \in {stream.inbox, << >>}
         /\ \/ cloop'.queue = cloop.queue /\ stream'.requests = stream.requests
            \/ /\ cloop.queue # << >>
               /\ cloop'.queue = Tail(cloop.queue)
               /\ stream'.requests \in {stream.requests, stream.requests \cup {Head(cloop.queue)}}
<1> USE DEF MuxTyped, Loop, MuxPlaces
<1>1. CASE ConnectorTakes
  <2>1. cloop' \in {dispatch(cloop, FALSE), Goto(cloop, "killed")} /\ cloop.pc = "select"
    BY <1>1 DEF ConnectorTakes, Mux!Reading
  <2>2. /\ cloop' \in Loop(Nat, MuxPlaces) /\ cloop'.queue = cloop.queue
        /\ cloop'.canceled = cloop.canceled
    BY <2>1 DEF dispatch, Goto
  <2> QED
    BY <1>1, <2>1, <2>2 DEF ConnectorTakes
<1>2. CASE ConnectorLoop
  <2> SUFFICES ASSUME Mux!Turn \/ Mux!SelectTimeout
               PROVE  /\ UNCHANGED <<cm, proto, asking>>
                      /\ cloop' \in Loop(Nat, MuxPlaces)
                      /\ cloop.pc \notin {"callback", "killed"}
                      /\ cloop.canceled => cloop'.canceled
                      /\ stream' = [stream EXCEPT !.inbox = stream'.inbox,
                                                  !.requests = stream'.requests,
                                                  !.lost = stream'.lost]
                      /\ stream'.lost \in BOOLEAN
                      /\ stream'.inbox \in {stream.inbox, << >>}
                      /\ \/ cloop'.queue = cloop.queue /\ stream'.requests = stream.requests
                         \/ /\ cloop.queue # << >>
                            /\ cloop'.queue = Tail(cloop.queue)
                            /\ stream'.requests \in {stream.requests,
                                                     stream.requests \cup {Head(cloop.queue)}}
    BY <1>2 DEF ConnectorLoop, socketVars
  <2>1. CASE Mux!Test
    BY <2>1 DEF Mux!Test, Mux!Goto
  <2>2. CASE Mux!SelectTimeout
    BY <2>2 DEF Mux!SelectTimeout, Mux!dispatch, Mux!stop, Mux!Goto
  <2>3. CASE Mux!SelectStops
    BY <2>3 DEF Mux!SelectStops, Mux!dispatch, Mux!stop, Mux!Goto
  <2>4. CASE Mux!Misread
    BY <2>4 DEF Mux!Misread, Mux!Reading, Mux!dispatch, Mux!Goto
  <2>5. CASE Mux!ReadEnd
    BY <2>5 DEF Mux!ReadEnd, Mux!Reading, Mux!dispatch, Mux!Goto
  <2>6. CASE Mux!Crash
    BY <2>6 DEF Mux!Crash, Mux!Reading, Mux!Goto
  <2>7. CASE Mux!SendTask
    <3>1. cloop.queue # << >> /\ cloop.pc = "drain" /\ cloop' = pop(cloop)
      BY <2>7 DEF Mux!SendTask, Mux!pop, pop
    <3>2. /\ cloop' \in Loop(Nat, MuxPlaces) /\ cloop'.queue = Tail(cloop.queue)
          /\ cloop'.canceled = cloop.canceled
      BY <3>1, MuxPops
    <3>3. stream' = IF stream.ended THEN stream
                    ELSE [stream EXCEPT !.requests = @ \cup {Head(cloop.queue)}]
      BY <2>7 DEF Mux!SendTask
    <3>4. /\ stream' = [stream EXCEPT !.inbox = stream'.inbox,
                                      !.requests = stream'.requests,
                                      !.lost = stream'.lost]
          /\ stream'.lost = stream.lost /\ stream'.inbox = stream.inbox
          /\ stream'.requests \in {stream.requests, stream.requests \cup {Head(cloop.queue)}}
      BY <3>3
    <3> QED
      BY <2>7, <3>1, <3>2, <3>4 DEF Mux!SendTask
  <2>8. CASE Mux!Drained
    BY <2>8 DEF Mux!Drained, Mux!drained, Mux!Goto
  <2>9. CASE Mux!SendKilled
    BY <2>9 DEF Mux!SendKilled, Mux!Goto
  <2> QED
    BY <2>1, <2>2, <2>3, <2>4, <2>5, <2>6, <2>7, <2>8, <2>9 DEF Mux!Turn
<1> QED
  BY <1>1, <1>2

\* The end of the process touches nothing of the dial.
LEMMA KilledSteps ==
  ASSUME MuxTyped, WriteKilled
  PROVE  /\ UNCHANGED <<socketVars, cm, proto, asking, stream, accepted>>
         /\ cloop' \in Loop(Nat, MuxPlaces)
         /\ cloop'.pc = "killed"
         /\ cloop'.queue = cloop.queue /\ cloop'.canceled = cloop.canceled
  BY DEF MuxTyped, WriteKilled, Loop, MuxPlaces, Goto

\* What is left when the first of a sequence is taken.
LEMMA Tails ==
  ASSUME NEW S, NEW q \in Seq(S), q # << >>
  PROVE  /\ Tail(q) \in Seq(S) /\ Len(Tail(q)) = Len(q) - 1 /\ Len(q) \in Nat \ {0}
         /\ \A i \in 1..Len(Tail(q)) : i + 1 \in 2..Len(q) /\ Tail(q)[i] = q[i + 1]
  OBVIOUS

\* The answer is read off the front, and tells whether usbmuxd has accepted.
LEMMA ReceiveSteps ==
  ASSUME TypeOK, OneRequest, ReceiveAnswer
  PROVE  /\ UNCHANGED <<fd, net, todo, told, loop, m, writer, accepted, proto, asking>>
         /\ cm' \in Machine
         /\ connector = "dialling"
         /\ connector' = IF accepted THEN "handover" ELSE "refused"
         /\ cloop' \in Loop(Nat, MuxPlaces)
         /\ cloop'.pc = "callback" /\ cloop'.queue = cloop.queue
         /\ stream' \in [inbox: Inboxes, rest: BOOLEAN, requests: SUBSET Nat,
                         ended: BOOLEAN, lost: BOOLEAN]
         /\ stream'.requests = stream.requests
         /\ \A i \in 1..Len(stream'.inbox) : stream'.inbox[i].part = "tail"
         /\ Quiet
<1> DEFINE q == stream.inbox
<1>1. /\ q \in Inboxes /\ q # << >>
      /\ stream' = [stream EXCEPT !.inbox = IF Head(q).part = "whole" THEN Tail(q)
                                            ELSE Tail(Tail(q))]
      /\ q[1].part = "whole" \/ (q[1].part = "head" /\ Len(q) > 1)
      /\ Head(q) = q[1] /\ 1 \in 1..Len(q)
      /\ cm' = IF Mux!Event = "Connected" THEN Mux!connected(cm) ELSE Mux!errored(cm)
      /\ cloop.pc = "select" /\ cloop' = Mux!Goto(cloop, "callback")
  BY DEF ReceiveAnswer, Mux!ReceiveAnswer, Mux!ReadMessage, Mux!Complete, Mux!Reading,
     TypeOK, MuxTyped, Inboxes
<1>2. Answered /\ connector = "dialling"
  BY <1>1 DEF OneRequest, Asked, Answered, Heard, Silent
<1>3. q[1].msg.ok = accepted /\ Mux!Message = q[1].msg
  BY <1>1, <1>2 DEF Answered, Mux!Message
<1>4. /\ Mux!Event = IF accepted THEN "Connected" ELSE "Errored"
      /\ connector' = IF accepted THEN "handover" ELSE "refused"
  BY <1>3 DEF ReceiveAnswer, Mux!Event
<1>5. \A i \in 2..Len(q) : q[i].part = "tail"
  BY <1>2 DEF Answered
<1>6. /\ stream'.inbox \in Inboxes
      /\ \A i \in 1..Len(stream'.inbox) : stream'.inbox[i].part = "tail"
  <2>1. CASE q[1].part = "whole"
    <3>1. stream'.inbox = Tail(q)
      BY <1>1, <2>1 DEF TypeOK, MuxTyped
    <3>2. /\ Tail(q) \in Inboxes
          /\ \A i \in 1..Len(Tail(q)) : i + 1 \in 2..Len(q) /\ Tail(q)[i] = q[i + 1]
      BY <1>1, Tails DEF Inboxes
    <3> QED
      BY <1>5, <3>1, <3>2
  <2>2. CASE q[1].part = "head"
    <3>1. stream'.inbox = Tail(Tail(q))
      BY <1>1, <2>2 DEF TypeOK, MuxTyped
    <3> DEFINE r == Tail(q)
    <3>2. /\ r \in Inboxes /\ Len(r) = Len(q) - 1 /\ Len(q) \in Nat \ {0}
          /\ \A i \in 1..Len(r) : i + 1 \in 2..Len(q) /\ r[i] = q[i + 1]
      BY <1>1, Tails DEF Inboxes
    <3> HIDE DEF q, r
    <3>3. Len(r) > 0 /\ r # << >>
      BY <1>1, <2>2, <3>2
    <3>4. /\ Tail(r) \in Inboxes
          /\ \A i \in 1..Len(Tail(r)) : i + 1 \in 2..Len(r) /\ Tail(r)[i] = r[i + 1]
      BY <3>2, <3>3, Tails DEF Inboxes
    <3>5. \A i \in 1..Len(Tail(r)) : i + 1 \in 1..Len(r) /\ i + 2 \in 2..Len(q)
                                  /\ Tail(r)[i] = q[(i + 1) + 1] /\ (i + 1) + 1 = i + 2
      BY <3>2, <3>4
    <3> QED
      BY <1>5, <3>1, <3>4, <3>5 DEF r
  <2> QED
    BY <1>1, <2>1, <2>2
<1>7. /\ cm \in Machine /\ Mux!connected(cm) = connected(cm) /\ Mux!errored(cm) = errored(cm)
  BY DEF TypeOK, MuxTyped, Mux!connected, Mux!errored, Mux!closed, connected, errored, closed
<1>8. cm' \in Machine
  BY <1>1, <1>7, MachineTyped
<1>9. /\ cloop' \in Loop(Nat, MuxPlaces) /\ cloop'.pc = "callback"
      /\ cloop'.queue = cloop.queue
  BY <1>1 DEF TypeOK, MuxTyped, Loop, MuxPlaces, Mux!Goto
<1>10. /\ stream' \in [inbox: Inboxes, rest: BOOLEAN, requests: SUBSET Nat,
                        ended: BOOLEAN, lost: BOOLEAN]
       /\ stream'.requests = stream.requests
  BY <1>1, <1>6 DEF TypeOK, MuxTyped
<1>11. UNCHANGED <<fd, net, todo, told, loop, m, writer, accepted, proto, asking>>
  BY DEF ReceiveAnswer, Mux!ReceiveAnswer
<1> QED
  BY <1>2, <1>4, <1>6, <1>8, <1>9, <1>10, <1>11 DEF Answered

\* connect() and its post.
LEMMA ConnectSteps ==
  ASSUME TypeOK, OneRequest, Switched
  PROVE  /\ connect =>
              /\ connector = "none" /\ connector' = "dialling" /\ "connect" \notin todo'
              /\ asking' = {proto.tag}
              /\ cm' \in Machine
              /\ proto' \in [tag: Nat, headers: SUBSET Nat, handlers: SUBSET Nat]
              /\ todo' \subseteq todo
              /\ UNCHANGED <<fd, told, cloop, stream, accepted>>
         /\ ConnectPosts =>
              /\ \E tag \in asking : /\ cloop'.queue = Append(cloop.queue, tag)
                                     /\ asking' = asking \ {tag}
              /\ cloop' \in Loop(Nat, MuxPlaces)
              /\ cloop'.pc = cloop.pc /\ cloop'.canceled = cloop.canceled
              /\ UNCHANGED <<socketVars, cm, proto, stream, accepted>>
<1>1. ASSUME connect
      PROVE  /\ connector = "none" /\ connector' = "dialling" /\ "connect" \notin todo'
             /\ asking' = {proto.tag}
             /\ cm' \in Machine
             /\ proto' \in [tag: Nat, headers: SUBSET Nat, handlers: SUBSET Nat]
             /\ todo' \subseteq todo
             /\ UNCHANGED <<fd, told, cloop, stream, accepted>>
  <2>1. Mux!connectBegin(cm) = connectBegin(cm) /\ connectBegin(cm) \in Machine
    BY MachineTyped DEF Mux!connectBegin, connectBegin, TypeOK, MuxTyped
  <2>2. /\ cm' = Mux!connectBegin(cm) /\ asking' = {proto.tag}
        /\ proto' = Mux!makeConnectRequestWithHandler(proto)
        /\ UNCHANGED <<fd, told, cloop, stream, accepted>>
        /\ "connect" \in todo /\ todo' = todo \ {"connect"} /\ connector' = "dialling"
    BY <1>1 DEF connect, Mux!connect, Socket!Calling
  <2>3. proto' \in [tag: Nat, headers: SUBSET Nat, handlers: SUBSET Nat]
    BY <2>2 DEF Mux!makeConnectRequestWithHandler, Mux!makeListenRequestWithHandler,
       TypeOK, MuxTyped
  <2> QED
    BY <2>1, <2>2, <2>3 DEF OneRequest
<1>2. ASSUME ConnectPosts
      PROVE  /\ \E tag \in asking : /\ cloop'.queue = Append(cloop.queue, tag)
                                    /\ asking' = asking \ {tag}
             /\ cloop' \in Loop(Nat, MuxPlaces)
             /\ cloop'.pc = cloop.pc /\ cloop'.canceled = cloop.canceled
             /\ UNCHANGED <<socketVars, cm, proto, stream, accepted>>
  <2>1. PICK tag \in asking : cloop' = Mux!post(cloop, tag) /\ asking' = asking \ {tag}
    BY <1>2 DEF ConnectPosts, Mux!PostRequest
  <2>2. /\ cloop.queue \in Seq(Nat) /\ tag \in Nat /\ cloop.pc # "asleep"
        /\ cloop \in [queue: Seq(Nat), canceled: BOOLEAN, pc: MuxPlaces]
    BY DEF TypeOK, MuxTyped, Loop, MuxPlaces
  <2>3. Append(cloop.queue, tag) \in Seq(Nat)
    BY <2>2
  <2>4. /\ cloop'.queue = Append(cloop.queue, tag) /\ cloop'.pc = cloop.pc
        /\ cloop'.canceled = cloop.canceled /\ cloop' \in Loop(Nat, MuxPlaces)
    BY <2>1, <2>2, <2>3 DEF Mux!post, Loop
  <2>5. UNCHANGED <<socketVars, cm, proto, stream, accepted>>
    BY <1>2 DEF ConnectPosts, Mux!PostRequest
  <2> QED
    BY <2>1, <2>4, <2>5
<1> QED
  BY <1>1, <1>2

\* The second piece of a message, and the end of the stream.
LEMMA StreamSteps ==
  ASSUME MuxTyped, Stream
  PROVE  /\ UNCHANGED <<socketVars, cm, cloop, proto, asking, accepted>>
         /\ stream' \in [inbox: Inboxes, rest: BOOLEAN, requests: SUBSET Nat,
                         ended: BOOLEAN, lost: BOOLEAN]
         /\ stream'.requests = stream.requests
         /\ ~stream.rest => ~stream'.rest /\ stream'.inbox = stream.inbox
         /\ \A i \in 1..Len(stream'.inbox) :
              \/ stream'.inbox[i].part = "tail"
              \/ i \in 1..Len(stream.inbox) /\ stream'.inbox[i] = stream.inbox[i]
<1>1. UNCHANGED <<socketVars, cm, cloop, proto, asking, accepted>>
  BY DEF Stream, Mux!RestArrives, Mux!Ends
<1>2. CASE Mux!Ends
  BY <1>1, <1>2 DEF Mux!Ends, MuxTyped
<1>3. CASE Mux!RestArrives
  <2> DEFINE msg == [kind |-> "rest"]
             piece == Mux!Piece(msg, "tail")
             inbox == Append(stream.inbox, piece)
  <2>1. msg \in Messages
    BY DEF Messages
  <2>2. stream.rest /\ stream' = [stream EXCEPT !.inbox = inbox, !.rest = FALSE]
    BY <1>3 DEF Mux!RestArrives
  <2>3. piece = Mux!Piece(msg, "tail")
    OBVIOUS
  <2> HIDE DEF msg, piece
  <2>4. /\ inbox \in Inboxes
        /\ Len(inbox) = Len(stream.inbox) + 1 /\ Len(stream.inbox) \in Nat
        /\ \A i \in 1..Len(stream.inbox) : inbox[i] = stream.inbox[i]
        /\ inbox[Len(inbox)].part = "tail"
    BY <2>1, <2>3, Arrives
  <2> HIDE DEF inbox
  <2>5. /\ stream' \in [inbox: Inboxes, rest: BOOLEAN, requests: SUBSET Nat,
                        ended: BOOLEAN, lost: BOOLEAN]
        /\ stream'.requests = stream.requests /\ stream'.inbox = inbox
    BY <2>2, <2>4 DEF MuxTyped
  <2>6. \A i \in 1..Len(inbox) : i \in 1..Len(stream.inbox) \/ i = Len(inbox)
    BY <2>4
  <2> QED
    BY <1>1, <2>2, <2>4, <2>5, <2>6
<1> QED
  BY <1>2, <1>3 DEF Stream

\* The steps inside the callback, and its return.
LEMMA CallbackSteps ==
  ASSUME TypeOK
  PROVE  /\ HandOver \/ TellOpen \/ TellRefused => UNCHANGED <<muxVars, todo>>
         /\ Wake => /\ UNCHANGED <<fd, todo, told, cm, proto, asking, stream, accepted>>
                    /\ cloop' \in Loop(Nat, MuxPlaces)
                    /\ cloop'.canceled /\ cloop'.queue = cloop.queue
         /\ CallbackReturns =>
              /\ connector = "done"
              /\ UNCHANGED <<socketVars, cm, asking, stream, accepted>>
              /\ proto' \in [tag: Nat, headers: SUBSET Nat, handlers: SUBSET Nat]
              /\ cloop' \in Loop(Nat, MuxPlaces)
              /\ cloop'.canceled = cloop.canceled /\ cloop'.queue = cloop.queue
<1>1. HandOver \/ TellOpen \/ TellRefused => UNCHANGED <<muxVars, todo>>
  BY DEF HandOver, TellOpen, TellRefused, Socket!HandOver, Socket!ConnectedGuard,
     Socket!ConnectedAssign
<1>2. ASSUME Wake
      PROVE  /\ UNCHANGED <<fd, todo, told, cm, proto, asking, stream, accepted>>
             /\ cloop' \in Loop(Nat, MuxPlaces)
             /\ cloop'.canceled /\ cloop'.queue = cloop.queue
  BY <1>2 DEF Wake, TypeOK, MuxTyped, Loop, stop
<1>3. ASSUME CallbackReturns
      PROVE  /\ connector = "done"
             /\ UNCHANGED <<socketVars, cm, asking, stream, accepted>>
             /\ proto' \in [tag: Nat, headers: SUBSET Nat, handlers: SUBSET Nat]
             /\ cloop' \in Loop(Nat, MuxPlaces)
             /\ cloop'.canceled = cloop.canceled /\ cloop'.queue = cloop.queue
  <2>1. /\ connector = "done" /\ UNCHANGED <<socketVars, cm, asking, stream, accepted>>
        /\ cloop' = Mux!dispatch(cloop, FALSE)
        /\ \E tag \in proto.handlers : proto' = Mux!parseResultMessage(proto, tag)
    BY <1>3 DEF CallbackReturns, Mux!CallbackReturns
  <2>2. proto' \in [tag: Nat, headers: SUBSET Nat, handlers: SUBSET Nat]
    BY <2>1 DEF Mux!parseResultMessage, TypeOK, MuxTyped
  <2>3. /\ cloop' \in Loop(Nat, MuxPlaces)
        /\ cloop'.canceled = cloop.canceled /\ cloop'.queue = cloop.queue
    BY <2>1 DEF TypeOK, MuxTyped, Loop, MuxPlaces, Mux!dispatch, Mux!Goto
  <2> QED
    BY <2>1, <2>2, <2>3
<1> QED
  BY <1>1, <1>2, <1>3

\* No step takes the connector's half of the state out of its types.
LEMMA StepMuxTyped == TypeOK /\ OneRequest /\ Switched /\ [Next]_vars => MuxTyped'
<1> SUFFICES ASSUME TypeOK, OneRequest, Switched, [Next]_vars PROVE MuxTyped'
  OBVIOUS
<1>1. CASE connect
  BY <1>1, ConnectSteps DEF TypeOK, MuxTyped
<1>2. CASE ConnectPosts
  BY <1>2, ConnectSteps DEF TypeOK, MuxTyped
<1>3. CASE SocketSide
  BY <1>3, SocketSteps DEF TypeOK, MuxTyped, muxVars
<1>4. ASSUME NEW ok \in BOOLEAN, Answers(ok) PROVE MuxTyped'
  <2>1. PICK tag \in stream.requests, part \in {"whole", "head"} :
          stream' = [inbox |-> Append(stream.inbox, Mux!Piece(Mux!Result(tag, ok), part)),
                     rest |-> part = "head", requests |-> stream.requests \ {tag},
                     ended |-> stream.ended, lost |-> stream.lost]
    BY <1>4, AnswerSteps DEF TypeOK
  <2>2. Mux!Result(tag, ok) \in Messages
    BY DEF TypeOK, MuxTyped, Messages, Mux!Result
  <2>3. Append(stream.inbox, Mux!Piece(Mux!Result(tag, ok), part)) \in Inboxes
    BY <2>2, Arrives DEF TypeOK
  <2>4. stream' \in [inbox: Inboxes, rest: BOOLEAN, requests: SUBSET Nat,
                    ended: BOOLEAN, lost: BOOLEAN]
    BY <2>1, <2>3 DEF TypeOK, MuxTyped
  <2> QED
    BY <1>4, <2>4, AnswerSteps DEF TypeOK, MuxTyped
<1>5. CASE Stream
  BY <1>5, StreamSteps DEF TypeOK, MuxTyped
<1>6. CASE ConnectorLoop \/ ConnectorTakes
  <2>1. /\ stream'.inbox \in {stream.inbox, << >>}
        /\ \/ stream'.requests = stream.requests
           \/ /\ cloop.queue # << >>
              /\ stream'.requests \in {stream.requests, stream.requests \cup {Head(cloop.queue)}}
        /\ stream'.lost \in BOOLEAN
        /\ stream' = [stream EXCEPT !.inbox = stream'.inbox, !.requests = stream'.requests,
                                    !.lost = stream'.lost]
    BY <1>6, LoopSteps DEF TypeOK
  <2>2. << >> \in Inboxes
    BY DEF Inboxes
  <2>3. cloop.queue # << >> => Head(cloop.queue) \in Nat
    BY DEF TypeOK, MuxTyped, Loop
  <2>4. stream'.inbox \in Inboxes /\ stream'.requests \in SUBSET Nat
    BY <2>1, <2>2, <2>3 DEF TypeOK, MuxTyped
  <2>5. stream' \in [inbox: Inboxes, rest: BOOLEAN, requests: SUBSET Nat,
                    ended: BOOLEAN, lost: BOOLEAN]
    BY <2>1, <2>4 DEF TypeOK, MuxTyped
  <2> QED
    BY <1>6, <2>5, LoopSteps DEF TypeOK, MuxTyped
<1>7. CASE ReceiveAnswer
  BY <1>7, ReceiveSteps DEF TypeOK, MuxTyped
<1>8. CASE HandOver \/ TellOpen \/ TellRefused
  BY <1>8, CallbackSteps DEF TypeOK, MuxTyped, muxVars
<1>9. CASE Wake
  BY <1>9, CallbackSteps DEF TypeOK, MuxTyped
<1>10. CASE CallbackReturns
  BY <1>10, CallbackSteps DEF TypeOK, MuxTyped
<1>11. CASE UNCHANGED vars
  BY <1>11 DEF vars, muxVars, TypeOK, MuxTyped
<1>12. CASE WriteKilled
  BY <1>12, KilledSteps DEF TypeOK, MuxTyped
<1> QED
  BY <1>1, <1>2, <1>3, <1>4, <1>5, <1>6, <1>7, <1>8, <1>9, <1>10, <1>11, <1>12
  DEF Next, Daemon, ConnectorThread, SocketSide

\* A step of the connector's loop moves the request on, or loses its answer.
LEMMA LoopKeepsRequest ==
  ASSUME TypeOK, OneRequest, ConnectorLoop \/ ConnectorTakes
  PROVE  OneRequest'
<1>1. /\ UNCHANGED <<asking, accepted, connector, todo>>
      /\ stream'.rest = stream.rest
      /\ stream'.inbox \in {stream.inbox, << >>}
      /\ \/ cloop'.queue = cloop.queue /\ stream'.requests = stream.requests
         \/ /\ cloop.queue # << >>
            /\ cloop'.queue = Tail(cloop.queue)
            /\ stream'.requests \in {stream.requests, stream.requests \cup {Head(cloop.queue)}}
  BY LoopSteps DEF TypeOK, MuxTyped
<1>2. CASE cloop'.queue = cloop.queue /\ stream'.requests = stream.requests
  BY <1>1, <1>2 DEF OneRequest, Asked, Answered, Heard, Quiet, Silent
<1>3. CASE /\ cloop.queue # << >>
           /\ cloop'.queue = Tail(cloop.queue)
           /\ stream'.requests \in {stream.requests, stream.requests \cup {Head(cloop.queue)}}
  <2>1. connector = "dialling" /\ Asked
    BY <1>3 DEF OneRequest, Answered, Heard, Quiet
  <2>2. /\ asking = {} /\ stream.requests = {} /\ Silent
        /\ \E tag \in Nat : cloop.queue = <<tag>>
    BY <1>3, <2>1 DEF Asked
  <2>3. PICK tag \in Nat : cloop.queue = <<tag>>
    BY <2>2
  <2>4. cloop'.queue = << >> /\ stream'.requests \in {{}, {tag}}
    BY <1>3, <2>2, <2>3
  <2>5. stream'.inbox = << >> /\ ~stream'.rest /\ asking' = {}
    BY <1>1, <2>2 DEF Silent
  <2>6. Asked' \/ Answered'
    BY <2>4, <2>5 DEF Asked, Answered, Quiet, Silent
  <2> QED
    BY <1>1, <2>1, <2>6 DEF OneRequest
<1> QED
  BY <1>1, <1>2, <1>3

\* The answer is alone in the stream: usbmuxd had nothing else to send.
LEMMA AnswerKeepsRequest ==
  ASSUME TypeOK, OneRequest, NEW ok \in BOOLEAN, Answers(ok)
  PROVE  OneRequest' /\ connector = "dialling"
<1>1. /\ UNCHANGED <<connector, todo, cloop, asking>> /\ accepted' = ok
  BY AnswerSteps DEF TypeOK, socketVars
<1>2. PICK tag \in stream.requests, part \in {"whole", "head"} :
        stream' = [inbox |-> Append(stream.inbox, Mux!Piece(Mux!Result(tag, ok), part)),
                   rest |-> part = "head", requests |-> stream.requests \ {tag},
                   ended |-> stream.ended, lost |-> stream.lost]
  BY AnswerSteps DEF TypeOK
<1>3. /\ connector = "dialling" /\ stream.inbox = << >>
      /\ asking = {} /\ cloop.queue = << >> /\ stream.requests = {tag}
  BY <1>2 DEF OneRequest, Asked, Answered, Heard, Quiet, Silent
<1>4. Quiet'
  BY <1>1, <1>2, <1>3 DEF Quiet
<1>5. /\ Len(stream'.inbox) = 1 /\ stream'.inbox[1] = Mux!Piece(Mux!Result(tag, ok), part)
  BY <1>2, <1>3
<1>6. Mux!Piece(Mux!Result(tag, ok), part).msg = [kind |-> "Result", tag |-> tag, ok |-> ok]
  BY DEF Mux!Piece, Mux!Result
<1>7. Answered'
  BY <1>1, <1>4, <1>5, <1>6 DEF Answered
<1> QED
  BY <1>1, <1>3, <1>7 DEF OneRequest

\* The request is always in one place, and its answer too.
LEMMA StepOneRequest == IInv /\ [Next]_vars => OneRequest'
<1> SUFFICES ASSUME TypeOK, OneRequest, Switched, [Next]_vars PROVE OneRequest'
  BY DEF IInv
<1>1. CASE connect
  <2>1. /\ connector = "none" /\ connector' = "dialling" /\ "connect" \notin todo'
        /\ asking' = {proto.tag} /\ UNCHANGED <<cloop, stream>> /\ proto.tag \in Nat
    BY <1>1, ConnectSteps DEF TypeOK, MuxTyped
  <2>2. Asked'
    BY <2>1 DEF OneRequest, Asked, Quiet, Silent
  <2> QED
    BY <2>1, <2>2 DEF OneRequest
<1>2. CASE ConnectPosts
  <2>1. PICK tag \in asking : /\ cloop'.queue = Append(cloop.queue, tag)
                              /\ asking' = asking \ {tag}
    BY <1>2, ConnectSteps
  <2>2. UNCHANGED <<connector, todo, stream>> /\ tag \in Nat
    BY <1>2, ConnectSteps DEF socketVars, TypeOK, MuxTyped
  <2>3. /\ connector = "dialling" /\ asking = {tag} /\ cloop.queue = << >>
        /\ stream.requests = {} /\ Silent
    BY <2>1 DEF OneRequest, Asked, Answered, Heard, Quiet
  <2>4. cloop'.queue = <<tag>> /\ asking' = {}
    BY <2>1, <2>3
  <2>5. Asked'
    BY <2>2, <2>3, <2>4 DEF Asked, Silent
  <2> QED
    BY <2>2, <2>3, <2>5 DEF OneRequest
<1>3. CASE SocketSide
  BY <1>3, SocketSteps DEF TypeOK, muxVars, OneRequest, Asked, Answered, Heard, Quiet, Silent
<1>4. ASSUME NEW ok \in BOOLEAN, Answers(ok) PROVE OneRequest'
  BY <1>4, AnswerKeepsRequest
<1>5. CASE Stream
  <2>1. /\ UNCHANGED <<connector, todo, cloop, asking, accepted>>
        /\ stream'.requests = stream.requests
        /\ ~stream.rest => ~stream'.rest /\ stream'.inbox = stream.inbox
        /\ \A i \in 1..Len(stream'.inbox) :
             \/ stream'.inbox[i].part = "tail"
             \/ i \in 1..Len(stream.inbox) /\ stream'.inbox[i] = stream.inbox[i]
    BY <1>5, StreamSteps DEF TypeOK, socketVars
  <2>2. Silent => Silent'
    BY <2>1 DEF Silent
  <2>3. (Quiet => Quiet') /\ (Asked => Asked')
    BY <2>1, <2>2 DEF Quiet, Asked
  <2>4. (Answered => Answered') /\ (Heard => Heard')
    BY <2>1, <2>3 DEF Answered, Heard
  <2> QED
    BY <2>1, <2>2, <2>3, <2>4 DEF OneRequest
<1>6. CASE ConnectorLoop \/ ConnectorTakes
  BY <1>6, LoopKeepsRequest
<1>7. CASE ReceiveAnswer
  BY <1>7, ReceiveSteps DEF OneRequest, Heard, Quiet
<1>8. CASE HandOver \/ TellOpen \/ TellRefused
  <2>1. UNCHANGED <<muxVars, todo>>
    BY <1>8, CallbackSteps
  <2>2. connector \notin {"none", "dialling"} /\ connector' \notin {"none", "dialling"}
    BY <1>8 DEF HandOver, TellOpen, TellRefused, Socket!HandOver, Socket!ConnectedGuard,
       Socket!ConnectedAssign
  <2> QED
    BY <2>1, <2>2 DEF OneRequest, Heard, Quiet, muxVars
<1>9. CASE Wake
  BY <1>9, CallbackSteps DEF Wake, OneRequest, Heard, Quiet
<1>10. CASE CallbackReturns
  BY <1>10, CallbackSteps DEF OneRequest, Heard, Quiet, socketVars
<1>11. CASE UNCHANGED vars
  BY <1>11 DEF vars, socketVars, muxVars, OneRequest, Asked, Answered, Heard, Quiet, Silent
<1>12. CASE WriteKilled
  <2>1. UNCHANGED <<connector, todo, asking, stream, accepted>> /\ cloop'.queue = cloop.queue
    BY <1>12, KilledSteps DEF TypeOK, socketVars
  <2> QED
    BY <2>1 DEF OneRequest, Asked, Answered, Heard, Quiet, Silent
<1> QED
  BY <1>1, <1>2, <1>3, <1>4, <1>5, <1>6, <1>7, <1>8, <1>9, <1>10, <1>11, <1>12
  DEF Next, Daemon, ConnectorThread, SocketSide

\* The descriptor changes hands while the connector's loop stands, and what the
\* user is told is what usbmuxd said.
LEMMA StepSwitched == IInv /\ [Next]_vars => Switched' /\ Truth'
<1> SUFFICES ASSUME TypeOK, OneRequest, Switched, Truth, [Next]_vars
             PROVE  Switched' /\ Truth'
  BY DEF IInv
<1> USE DEF InCallback
<1>1. CASE connect
  BY <1>1, ConnectSteps DEF Switched, Truth
<1>2. CASE ConnectPosts
  BY <1>2, ConnectSteps DEF Switched, Truth, socketVars
<1>3. CASE SocketSide
  <2>1. /\ UNCHANGED <<connector, cloop, accepted>>
        /\ fd' = fd \/ (fd = "open" /\ fd' = "closed")
        /\ told'["OpenCompleted"] = told["OpenCompleted"]
    BY <1>3, SocketSteps DEF TypeOK, muxVars
  <2> QED
    BY <2>1 DEF Switched, Truth
<1>4. ASSUME NEW ok \in BOOLEAN, Answers(ok) PROVE Switched' /\ Truth'
  <2>1. /\ connector = "dialling" /\ UNCHANGED <<fd, told, connector, cloop>>
    BY <1>4, AnswerSteps, AnswerKeepsRequest DEF TypeOK, socketVars
  <2> QED
    BY <2>1 DEF Switched, Truth
<1>5. CASE Stream
  BY <1>5, StreamSteps DEF TypeOK, socketVars, Switched, Truth
<1>6. CASE ConnectorLoop \/ ConnectorTakes
  <2>1. /\ UNCHANGED <<fd, told, connector, accepted>>
        /\ cloop.pc \notin {"callback", "killed"}
        /\ cloop.canceled => cloop'.canceled
    BY <1>6, LoopSteps DEF TypeOK
  <2> QED
    BY <2>1 DEF Switched, Truth
<1>7. CASE ReceiveAnswer
  <2>1. /\ UNCHANGED <<fd, told, accepted>> /\ cloop'.pc = "callback"
        /\ connector = "dialling"
        /\ connector' = IF accepted THEN "handover" ELSE "refused"
    BY <1>7, ReceiveSteps
  <2> QED
    BY <2>1 DEF Switched, Truth
<1>8. CASE HandOver
  BY <1>8 DEF HandOver, Socket!HandOver, Socket!ConnectedGuard, Socket!ConnectedAssign,
     muxVars, Switched, Truth
<1>9. CASE TellOpen
  <2>1. /\ connector = "tell" /\ connector' = "wake" /\ UNCHANGED <<fd, muxVars>>
        /\ told' = [told EXCEPT !["OpenCompleted"] = IF @ < 2 THEN @ + 1 ELSE @]
    BY <1>9 DEF TellOpen, Socket!Tell
  <2>2. told["OpenCompleted"] = 0 /\ told'["OpenCompleted"] = 1
    BY <2>1 DEF Truth, TypeOK, SocketTyped, Socket!Events
  <2> QED
    BY <2>1, <2>2 DEF Switched, Truth, muxVars
<1>10. CASE TellRefused
  <2>1. /\ connector = "refused" /\ connector' = "wake" /\ UNCHANGED <<fd, muxVars>>
        /\ told' = [told EXCEPT !["ErrorOccurred"] = IF @ < 2 THEN @ + 1 ELSE @]
    BY <1>10 DEF TellRefused, Socket!Tell
  <2>2. told'["OpenCompleted"] = told["OpenCompleted"]
    BY <2>1 DEF TypeOK, SocketTyped, Socket!Events
  <2> QED
    BY <2>1, <2>2 DEF Switched, Truth, muxVars
<1>11. CASE Wake
  BY <1>11, CallbackSteps DEF Wake, Switched, Truth
<1>12. CASE CallbackReturns
  BY <1>12, CallbackSteps DEF socketVars, Switched, Truth
<1>13. CASE UNCHANGED vars
  BY <1>13 DEF vars, socketVars, muxVars, Switched, Truth
<1>14. CASE WriteKilled
  BY <1>14, KilledSteps DEF TypeOK, socketVars, Switched, Truth
<1> QED
  BY <1>1, <1>2, <1>3, <1>4, <1>5, <1>6, <1>7, <1>8, <1>9, <1>10, <1>11, <1>12, <1>13, <1>14
  DEF Next, Daemon, ConnectorThread, SocketSide

\* The methods the socket calls return a machine.
LEMMA SocketMethods ==
  ASSUME NEW x \in Machine
  PROVE  /\ Socket!readBegin(x) \in Machine /\ Socket!readEnd(x) \in Machine
         /\ Socket!readClosed(x) \in Machine /\ Socket!errored(x) \in Machine
         /\ Socket!writeBegin(x) \in Machine /\ Socket!writeEnd(x) \in Machine
         /\ Socket!writeCloseBegin(x) \in Machine /\ Socket!writeCloseEnd(x) \in Machine
         /\ Socket!closed(x) \in Machine
<1>1. /\ Socket!readBegin(x) = readBegin(x) /\ Socket!readEnd(x) = readEnd(x)
      /\ Socket!readClosed(x) = readClosed(x) /\ Socket!errored(x) = errored(x)
      /\ Socket!writeBegin(x) = writeBegin(x) /\ Socket!writeEnd(x) = writeEnd(x)
      /\ Socket!writeCloseBegin(x) = writeCloseBegin(x)
      /\ Socket!writeCloseEnd(x) = writeCloseEnd(x)
      /\ Socket!closed(x) = closed(x)
  BY DEF Socket!readBegin, Socket!readEnd, Socket!readClosed, Socket!errored,
     Socket!writeBegin, Socket!writeEnd, Socket!writeCloseBegin, Socket!writeCloseEnd,
     Socket!closed, Socket!isReadable, Socket!isWritable, Socket!Open,
     readBegin, readEnd, readClosed, errored, writeBegin, writeEnd, writeCloseBegin,
     writeCloseEnd, closed, isReadable, isWritable, Open
<1> QED
  BY <1>1, MachineTyped

\* Where a step of the socket's thread leaves its loop: at another place, ...
LEMMA SocketMoves ==
  ASSUME SocketTyped, NEW l \in {loop, stop(loop)}
  PROVE  /\ \A step \in Socket!Places : /\ Socket!Goto(l, step) \in Loop(Tasks, Socket!Places)
                                        /\ Socket!Goto(l, step).pc = step
                                        /\ Socket!Goto(l, step).queue = loop.queue
         /\ \A moved \in {Socket!dispatch(l, TRUE), Socket!dispatch(l, FALSE),
                       Socket!waitForWork(l), Socket!spuriousWakeup(l), Socket!drained(l)} :
              moved \in Loop(Tasks, Socket!Places) /\ moved.pc \notin {"recv", "shutdown"}
<1>1. /\ "test" \in Socket!Places /\ "locking" \in Socket!Places
      /\ "asleep" \in Socket!Places /\ "drain" \in Socket!Places
      /\ l \in Loop(Tasks, Socket!Places) /\ l.queue = loop.queue
  BY FlagMoves DEF SocketTyped, Socket!Places
<1>2. \A step \in Socket!Places : /\ Socket!Goto(l, step) \in Loop(Tasks, Socket!Places)
                                 /\ Socket!Goto(l, step).pc = step
                                 /\ Socket!Goto(l, step).queue = loop.queue
  <2> SUFFICES ASSUME NEW step \in Socket!Places
               PROVE  /\ Socket!Goto(l, step) \in Loop(Tasks, Socket!Places)
                      /\ Socket!Goto(l, step).pc = step
                      /\ Socket!Goto(l, step).queue = loop.queue
    OBVIOUS
  <2>1. Socket!Goto(l, step) = Goto(l, step)
    BY DEF Socket!Goto, Goto
  <2> QED
    BY <1>1, <2>1, GotoMoves
<1>3. \A moved \in {Socket!dispatch(l, TRUE), Socket!dispatch(l, FALSE),
                   Socket!waitForWork(l), Socket!spuriousWakeup(l), Socket!drained(l)} :
        moved \in Loop(Tasks, Socket!Places) /\ moved.pc \notin {"recv", "shutdown"}
  BY <1>1 DEF Loop, Socket!dispatch, Socket!waitForWork, Socket!spuriousWakeup,
     Socket!drained, Socket!Goto
<1> QED
  BY <1>2, <1>3

\* ... or with a task more or less.
LEMMA SocketQueues ==
  ASSUME SocketTyped
  PROVE  /\ \A task \in Tasks :
              /\ Socket!post(loop, task) = post(loop, task)
              /\ post(loop, task) \in Loop(Tasks, Socket!Places)
              /\ post(loop, task).queue # << >>
              /\ Socket!dispatch(post(loop, task), FALSE) \in Loop(Tasks, Socket!Places)
              /\ Socket!dispatch(post(loop, task), FALSE).pc = "drain"
         /\ loop.queue # << >> => /\ Socket!pop(loop) = pop(loop)
                                  /\ pop(loop) \in Loop(Tasks, Socket!Places)
                                  /\ pop(loop).pc = "drain"
<1>1. /\ "test" \in Socket!Places /\ "locking" \in Socket!Places
      /\ "asleep" \in Socket!Places /\ "drain" \in Socket!Places
      /\ loop \in Loop(Tasks, Socket!Places)
  BY DEF SocketTyped, Socket!Places
<1>2. ASSUME NEW task \in Tasks
      PROVE  /\ Socket!post(loop, task) = post(loop, task)
             /\ post(loop, task) \in Loop(Tasks, Socket!Places)
             /\ post(loop, task).queue # << >>
             /\ Socket!dispatch(post(loop, task), FALSE) \in Loop(Tasks, Socket!Places)
             /\ Socket!dispatch(post(loop, task), FALSE).pc = "drain"
  <2> DEFINE l == post(loop, task)
  <2>1. l \in Loop(Tasks, Socket!Places) /\ l.queue # << >>
    BY <1>1, PostMoves
  <2>2. Socket!post(loop, task) = l
    BY DEF Socket!post, post
  <2> HIDE DEF l
  <2>3. /\ Socket!dispatch(l, FALSE) \in Loop(Tasks, Socket!Places)
        /\ Socket!dispatch(l, FALSE).pc = "drain"
    BY <1>1, <2>1 DEF Loop, Socket!dispatch, Socket!Goto
  <2> QED
    BY <2>1, <2>2, <2>3 DEF l
<1>3. ASSUME loop.queue # << >>
      PROVE  /\ Socket!pop(loop) = pop(loop)
             /\ pop(loop) \in Loop(Tasks, Socket!Places)
             /\ pop(loop).pc = "drain"
  BY <1>1, <1>3, PopMoves DEF Socket!pop, pop
<1> QED
  BY <1>2, <1>3

\* The events are counted to 2.
LEMMA Telling ==
  ASSUME SocketTyped, NEW e \in Socket!Events, Socket!Tell(e)
  PROVE  told' \in [Socket!Events -> 0..2]
  BY DEF SocketTyped, Socket!Tell

\* What a step of the socket's thread has to keep: the rest it leaves alone.
Kept == /\ m' \in Machine
        /\ loop' \in Loop(Tasks, Socket!Places)
        /\ loop'.pc \in {"recv", "shutdown"} => loop'.queue # << >>
        /\ fd' \in {"none", "open", "closed"}
        /\ told' \in [Socket!Events -> 0..2]

\* The steps of the handler ...
LEMMA HandlerTyped == SocketTyped /\ Handler => Kept /\ UNCHANGED <<net, connector, writer, todo>>
<1> SUFFICES ASSUME SocketTyped, Handler
             PROVE  Kept /\ UNCHANGED <<net, connector, writer, todo>>
  OBVIOUS
<1>1. /\ m \in Machine /\ fd \in {"none", "open", "closed"} /\ told \in [Socket!Events -> 0..2]
      /\ Socket!readClosed(m) \in Machine /\ Socket!errored(m) \in Machine
      /\ {"HasBytesAvailable", "EndEncountered", "ErrorOccurred"} \subseteq Socket!Events
  BY SocketMethods DEF SocketTyped, Socket!Events
<1>2. /\ {"read", "closeWrite"} \subseteq Tasks
      /\ {"over", "select", "testClosed"} \subseteq Socket!Places
  BY DEF Tasks, Socket!Places
<1> USE DEF Kept, Socket!Others, Socket!closeSocket
<1>3. CASE Socket!Test
  BY <1>1, <1>2, <1>3, SocketMoves DEF Socket!Test
<1>4. CASE Socket!TestClosed
  <2>1. Socket!stop(loop) = stop(loop)
    BY DEF Socket!stop, stop
  <2> QED
    BY <1>1, <1>4, <2>1, SocketMoves DEF Socket!TestClosed
<1>5. CASE Socket!Wait
  BY <1>1, <1>5, SocketMoves DEF Socket!Wait
<1>6. CASE Socket!SelectTimeout
  BY <1>1, <1>6, SocketMoves DEF Socket!SelectTimeout
<1>7. CASE Socket!SelectBytes
  BY <1>1, <1>2, <1>7, SocketQueues, Telling DEF Socket!SelectBytes
<1>8. CASE Socket!SelectEnd
  BY <1>1, <1>2, <1>8, SocketQueues, Telling DEF Socket!SelectEnd
<1>9. CASE Socket!SelectReset
  BY <1>1, <1>9, SocketMoves, Telling DEF Socket!SelectReset
<1>10. CASE Socket!SelectFails
  BY <1>1, <1>10, SocketMoves, Telling DEF Socket!SelectFails
<1> QED
  BY <1>3, <1>4, <1>5, <1>6, <1>7, <1>8, <1>9, <1>10 DEF Handler

\* ... and its tasks.
LEMMA TasksTyped ==
  ASSUME SocketTyped, read \/ closeWrite \/ close \/ EmptyTask \/ Socket!Drained
  PROVE  /\ Kept /\ UNCHANGED <<connector, writer, todo>>
         /\ net' \in [sent: 0..MaxBytes, bytes: 0..MaxBytes, fin: BOOLEAN,
                      reset: BOOLEAN, urgent: BOOLEAN, shut: BOOLEAN]
         /\ net'.bytes <= net'.sent
<1>1. /\ m \in Machine /\ fd \in {"none", "open", "closed"} /\ told \in [Socket!Events -> 0..2]
      /\ Socket!readBegin(m) \in Machine /\ Socket!readEnd(m) \in Machine
      /\ Socket!errored(m) \in Machine /\ Socket!closed(m) \in Machine
      /\ Socket!writeCloseBegin(m) \in Machine /\ Socket!writeCloseEnd(m) \in Machine
      /\ "ErrorOccurred" \in Socket!Events
      /\ "recv" \in Socket!Places /\ "shutdown" \in Socket!Places
  BY SocketMethods DEF SocketTyped, Socket!Events, Socket!Places
<1>2. /\ net \in [sent: 0..MaxBytes, bytes: 0..MaxBytes, fin: BOOLEAN,
                  reset: BOOLEAN, urgent: BOOLEAN, shut: BOOLEAN]
      /\ net.bytes <= net.sent /\ MaxBytes \in Nat
  BY BoundAssumption DEF SocketTyped
<1>3. loop.pc \in {"recv", "shutdown"} => loop.queue # << >>
  BY DEF SocketTyped
<1> USE DEF Kept, Socket!Others, Socket!closeSocket, Socket!At
<1>4. CASE Socket!ReadTask
  BY <1>1, <1>2, <1>4, SocketMoves DEF Socket!ReadTask
<1>5. CASE Socket!RecvBytes
  <2>1. PICK n \in 1..net.bytes : net' = [net EXCEPT !.bytes = @ - n]
    BY <1>5 DEF Socket!RecvBytes
  <2>2. net.bytes - n \in 0..MaxBytes /\ net.bytes - n <= net.sent
    BY <1>2
  <2>3. /\ net' \in [sent: 0..MaxBytes, bytes: 0..MaxBytes, fin: BOOLEAN,
                     reset: BOOLEAN, urgent: BOOLEAN, shut: BOOLEAN]
        /\ net'.bytes <= net'.sent
    BY <1>2, <2>1, <2>2
  <2> QED
    BY <1>1, <1>3, <1>5, <2>3, SocketQueues DEF Socket!RecvBytes
<1>6. CASE Socket!RecvFails
  BY <1>1, <1>2, <1>3, <1>6, SocketQueues, Telling DEF Socket!RecvFails
<1>7. CASE Socket!CloseWriteTask
  BY <1>1, <1>2, <1>7, SocketMoves DEF Socket!CloseWriteTask
<1>8. CASE Socket!ShutdownWrite
  <2>1. /\ net' \in [sent: 0..MaxBytes, bytes: 0..MaxBytes, fin: BOOLEAN,
                     reset: BOOLEAN, urgent: BOOLEAN, shut: BOOLEAN]
        /\ net'.bytes <= net'.sent
    BY <1>2, <1>8 DEF Socket!ShutdownWrite
  <2> QED
    BY <1>1, <1>3, <1>8, <2>1, SocketQueues DEF Socket!ShutdownWrite
<1>9. CASE close
  BY <1>1, <1>2, <1>9, SocketQueues DEF close, Socket!CloseTask
<1>10. CASE EmptyTask
  BY <1>1, <1>2, <1>10, SocketQueues DEF EmptyTask
<1>11. CASE Socket!Drained
  BY <1>1, <1>2, <1>11, SocketMoves DEF Socket!Drained
<1> QED
  BY <1>4, <1>5, <1>6, <1>7, <1>8, <1>9, <1>10, <1>11 DEF read, closeWrite

\* No step takes the socket's half of the state out of its types.
LEMMA StepSocketTyped == IInv /\ [Next]_vars => SocketTyped'
<1> SUFFICES ASSUME SocketTyped, MuxTyped, OneRequest, Switched, [Next]_vars PROVE SocketTyped'
  BY DEF IInv, TypeOK
<1>1. CASE UNCHANGED socketVars
  BY <1>1 DEF socketVars, SocketTyped
<1>2. CASE connect
  <2>1. /\ connector' = "dialling" /\ m' = connectBegin(m) /\ todo' = todo \ {"connect"}
        /\ UNCHANGED <<loop, fd, net, writer, told>>
    BY <1>2 DEF connect, Socket!Calling
  <2>2. connectBegin(m) \in Machine
    BY MachineTyped DEF SocketTyped
  <2> QED
    BY <2>1, <2>2 DEF SocketTyped, Steps
<1>3. ASSUME NEW c \in {"read", "closeWrite", "close"}, Posts(c) PROVE SocketTyped'
  <2>1. /\ loop' = Socket!post(loop, c) /\ todo' = todo \ {c}
        /\ UNCHANGED <<m, fd, net, connector, writer, told>>
    BY <1>3 DEF Posts, Socket!CallPosts, Socket!Calling
  <2>2. /\ loop' \in Loop(Tasks, Socket!Places) /\ loop'.queue # << >>
    BY <2>1, SocketQueues DEF Tasks
  <2> QED
    BY <2>1, <2>2 DEF SocketTyped
<1>4. CASE write
  <2>1. Socket!writeBegin(m) \in Machine /\ Socket!writeEnd(m) \in Machine
    BY SocketMethods DEF SocketTyped
  <2> QED
    BY <1>4, <2>1 DEF write, Socket!CallWrite, Socket!WriteReturns, Socket!Calling, SocketTyped
<1>5. CASE PeerSends \/ PeerEnds
  <2>1. /\ net \in [sent: 0..MaxBytes, bytes: 0..MaxBytes, fin: BOOLEAN,
                   reset: BOOLEAN, urgent: BOOLEAN, shut: BOOLEAN]
        /\ net.bytes <= net.sent /\ MaxBytes \in Nat
    BY BoundAssumption DEF SocketTyped
  <2>2. /\ net' \in [sent: 0..MaxBytes, bytes: 0..MaxBytes, fin: BOOLEAN,
                    reset: BOOLEAN, urgent: BOOLEAN, shut: BOOLEAN]
        /\ net'.bytes <= net'.sent
    <3>1. CASE PeerSends
      <4>1. /\ net.sent + 1 \in 0..MaxBytes /\ net.bytes + 1 \in 0..MaxBytes
            /\ net.bytes + 1 <= net.sent + 1
        BY <2>1, <3>1 DEF PeerSends
      <4>2. net' = [net EXCEPT !.sent = net.sent + 1, !.bytes = net.bytes + 1]
        BY <3>1 DEF PeerSends, Peer
      <4>3. net'.bytes = net.bytes + 1 /\ net'.sent = net.sent + 1
        BY <2>1, <4>2
      <4> QED
        BY <2>1, <4>1, <4>2, <4>3
    <3>2. CASE PeerEnds
      BY <2>1, <3>2 DEF PeerEnds, Peer
    <3> QED
      BY <1>5, <3>1, <3>2
  <2> QED
    BY <1>5, <2>2 DEF PeerSends, PeerEnds, Peer, SocketTyped
<1>6. CASE ConnectorTakes
  <2>1. PICK n \in 0..net.bytes : net' = [net EXCEPT !.bytes = @ - n]
    BY <1>6 DEF ConnectorTakes
  <2>2. /\ net.bytes \in Nat /\ net.sent \in Nat /\ net.bytes <= net.sent
        /\ net.bytes - n \in 0..net.bytes /\ MaxBytes \in Nat
    BY <2>1, BoundAssumption DEF SocketTyped
  <2> QED
    BY <1>6, <2>1, <2>2 DEF ConnectorTakes, SocketTyped
<1>7. CASE ReceiveAnswer
  <2>1. connector' \in {"handover", "refused"} /\ UNCHANGED <<m, loop, fd, net, writer, todo, told>>
    BY <1>7 DEF ReceiveAnswer
  <2> QED
    BY <2>1 DEF SocketTyped, Steps, InCallback
<1>8. CASE HandOver
  BY <1>8 DEF HandOver, Socket!HandOver, Socket!ConnectedGuard, Socket!ConnectedAssign,
     SocketTyped, Steps, InCallback, Machine, States
<1>9. CASE TellOpen
  <2>1. told' \in [Socket!Events -> 0..2]
    BY <1>9, Telling DEF TellOpen, Socket!Events
  <2> QED
    BY <1>9, <2>1 DEF TellOpen, SocketTyped, Steps, InCallback
<1>10. CASE TellRefused
  <2>1. told' \in [Socket!Events -> 0..2]
    BY <1>10, Telling DEF TellRefused, Socket!Events
  <2>2. m' \in Machine
    BY <1>10, MachineTyped DEF TellRefused, SocketTyped
  <2> QED
    BY <1>10, <2>1, <2>2 DEF TellRefused, SocketTyped, Steps, InCallback
<1>11. CASE Wake
  <2>1. /\ loop' = post(loop, "empty") /\ connector' = "done"
        /\ UNCHANGED <<m, fd, net, writer, todo, told>>
    BY <1>11 DEF Wake
  <2>2. loop' \in Loop(Tasks, Socket!Places) /\ loop'.queue # << >>
    BY <2>1, SocketQueues DEF Tasks
  <2> QED
    BY <2>1, <2>2 DEF SocketTyped, Steps
<1>12. CASE LoopThread
  <2>1. CASE Handler
    BY <2>1, HandlerTyped DEF Kept, SocketTyped
  <2>2. CASE ~Handler
    BY <1>12, <2>2, TasksTyped DEF LoopThread, Kept, SocketTyped
  <2> QED
    BY <2>1, <2>2
<1>13. CASE SpuriousWakeup
  <2>1. /\ loop' = Socket!spuriousWakeup(loop)
        /\ UNCHANGED <<m, fd, net, connector, writer, todo, told>>
    BY <1>13 DEF SpuriousWakeup, Socket!SpuriousWakeup, Socket!Others
  <2>2. loop' \in Loop(Tasks, Socket!Places) /\ loop'.pc \notin {"recv", "shutdown"}
    BY <2>1, SocketMoves
  <2> QED
    BY <2>1, <2>2 DEF SocketTyped
<1>14. CASE \/ ConnectPosts \/ Daemon \/ ConnectorLoop \/ CallbackReturns \/ WriteKilled
            \/ UNCHANGED vars
  BY <1>1, <1>5, <1>14 DEF ConnectPosts, WriteKilled, Daemon, Answers, Stream, ConnectorLoop,
     CallbackReturns, vars
<1> QED
  BY <1>2, <1>3, <1>4, <1>6, <1>7, <1>8, <1>9, <1>10, <1>11, <1>12, <1>13, <1>14
  DEF Next, ConnectorThread

\* The inductive invariant holds in every behaviour.
THEOREM Invariance == Spec => []IInv
<1>1. IInv /\ [Next]_vars => IInv'
  BY StepSocketTyped, StepMuxTyped, StepOneRequest, StepSwitched DEF IInv, TypeOK
<1> QED
  BY InitIInv, <1>1, PTL DEF Spec

\* Type correctness, of both halves.
THEOREM Typed == Spec => []TypeOK
<1>1. IInv => TypeOK
  BY DEF IInv
<1> QED
  BY Invariance, <1>1, PTL

\* From the moment the socket has the descriptor the connector's loop does not
\* select on it any more (UsbmuxdConnector.cpp:43), for any number of bytes and
\* whenever the peer sends them.
THEOREM HasOneReader == Spec => []OneReader
<1>1. IInv => OneReader
  BY DEF IInv, Switched, OneReader, InCallback
<1> QED
  BY Invariance, <1>1, PTL

\* The user is told at most once that the connection is open, and only if usbmuxd
\* has accepted; the refusal of an accepted request is never reported.
THEOREM AnswersTruly == Spec => []AnswerIsTrue
<1>1. IInv => AnswerIsTrue
  BY DEF IInv, TypeOK, SocketTyped, Truth, AnswerIsTrue, Socket!Events
<1> QED
  BY Invariance, <1>1, PTL

\* A socket that has not been connected is a dial nobody has asked for.
LEMMA InitDial == Init => Promise!Init
<1> SUFFICES ASSUME Init PROVE Promise!Init
  OBVIOUS
<1>1. /\ connector = "none" /\ accepted = FALSE /\ fd = "none"
      /\ told = [e \in Socket!Events |-> 0]
  BY DEF Init, Socket!Init, Socket!NewMachine
<1>2. told["OpenCompleted"] = 0
  BY <1>1 DEF Socket!Events
<1>3. Answer = "none"
  BY <1>1, <1>2 DEF Answer
<1> QED
  BY <1>1, <1>3 DEF Promise!Init

\* Each step is a step of the dial, or none.
LEMMA StepDial == IInv /\ [Next]_vars => [Promise!Next]_(Promise!vars)
<1> SUFFICES ASSUME IInv, [Next]_vars PROVE [Promise!Next]_(Promise!vars)
  OBVIOUS
<1>0. /\ TypeOK /\ SocketTyped /\ MuxTyped /\ OneRequest /\ Switched /\ Truth
      /\ accepted \in BOOLEAN /\ told["OpenCompleted"] \in 0..2
  BY DEF IInv, TypeOK, SocketTyped, MuxTyped, Socket!Events
<1> DEFINE asked == connector # "none"
           given == fd # "none"
<1> USE DEF InCallback
<1>1. ASSUME asked' = asked, accepted' = accepted, given' = given, Answer' = Answer
      PROVE  [Promise!Next]_(Promise!vars)
  BY <1>1 DEF Promise!vars
<1>2. ASSUME UNCHANGED <<connector, fd, accepted>>,
             told'["OpenCompleted"] = told["OpenCompleted"]
      PROVE  [Promise!Next]_(Promise!vars)
  BY <1>1, <1>2 DEF Answer
<1>3. CASE connect
  <2>1. /\ connector = "none" /\ connector' = "dialling"
        /\ UNCHANGED <<fd, told, accepted>>
    BY <1>0, <1>3, ConnectSteps
  <2>2. Answer' = Answer
    BY <2>1 DEF Answer
  <2> QED
    BY <2>1, <2>2 DEF Promise!Ask, Promise!Next
<1>4. CASE ConnectPosts
  BY <1>0, <1>2, <1>4, ConnectSteps DEF socketVars
<1>5. CASE SocketSide
  <2>1. /\ UNCHANGED <<connector, accepted>>
        /\ fd' = fd \/ (fd = "open" /\ fd' = "closed")
        /\ told'["OpenCompleted"] = told["OpenCompleted"]
    BY <1>0, <1>5, SocketSteps DEF muxVars
  <2>2. given' = given /\ Answer' = Answer
    BY <2>1 DEF Answer
  <2> QED
    BY <1>1, <2>1, <2>2
<1>6. ASSUME NEW ok \in BOOLEAN, Answers(ok) PROVE [Promise!Next]_(Promise!vars)
  <2>1. connector = "dialling" /\ accepted' = ok /\ UNCHANGED <<fd, told, connector>>
    BY <1>0, <1>6, AnswerSteps, AnswerKeepsRequest DEF socketVars
  <2>2. fd = "none" /\ told["OpenCompleted"] = 0
    BY <1>0, <2>1 DEF Switched, Truth
  <2>3. Answer = "none" /\ Answer' = "none"
    BY <2>1, <2>2 DEF Answer
  <2>4. CASE accepted' = accepted
    BY <1>2, <2>1, <2>4
  <2>5. CASE accepted' = ~accepted
    BY <2>1, <2>2, <2>3, <2>5 DEF Promise!Attempt, Promise!Next
  <2> QED
    BY <1>0, <2>1, <2>4, <2>5
<1>7. CASE Stream
  BY <1>0, <1>2, <1>7, StreamSteps DEF socketVars
<1>8. CASE ConnectorLoop \/ ConnectorTakes
  BY <1>0, <1>2, <1>8, LoopSteps
<1>9. CASE ReceiveAnswer
  <2>1. /\ UNCHANGED <<fd, told, accepted>> /\ connector = "dialling"
        /\ connector' \in {"handover", "refused"}
    BY <1>0, <1>9, ReceiveSteps
  <2>2. asked' = asked /\ Answer' = Answer
    BY <2>1 DEF Answer
  <2> QED
    BY <1>1, <2>1, <2>2
<1>10. CASE HandOver
  <2>1. CASE Socket!HandOver
    <3>1. /\ connector = "handover" /\ connector' = "connected" /\ fd' = "open"
          /\ UNCHANGED <<told, accepted>>
      BY <1>10, <2>1 DEF HandOver, Socket!HandOver, muxVars
    <3>2. fd = "none" /\ accepted /\ told["OpenCompleted"] = 0
      BY <1>0, <3>1 DEF Switched, Truth
    <3>3. Answer = "none" /\ Answer' = "none"
      BY <3>1, <3>2 DEF Answer
    <3> QED
      BY <3>1, <3>2, <3>3 DEF Promise!Give, Promise!Next
  <2>2. CASE Socket!ConnectedGuard \/ Socket!ConnectedAssign
    <3>1. /\ connector \in {"connected", "assign"} /\ connector' \in {"assign", "tell"}
          /\ UNCHANGED <<fd, told, accepted>>
      BY <1>10, <2>2 DEF HandOver, Socket!ConnectedGuard, Socket!ConnectedAssign, muxVars
    <3>2. asked' = asked /\ Answer' = Answer
      BY <3>1 DEF Answer
    <3> QED
      BY <1>1, <3>1, <3>2
  <2> QED
    BY <1>10, <2>1, <2>2 DEF HandOver
<1>11. CASE TellOpen
  <2>1. /\ connector = "tell" /\ connector' = "wake" /\ UNCHANGED <<fd, accepted>>
        /\ told' = [told EXCEPT !["OpenCompleted"] = IF @ < 2 THEN @ + 1 ELSE @]
    BY <1>11 DEF TellOpen, Socket!Tell, muxVars
  <2>2. /\ told["OpenCompleted"] = 0 /\ told'["OpenCompleted"] = 1
        /\ accepted /\ fd # "none"
    BY <1>0, <2>1 DEF Switched, Truth, SocketTyped, Socket!Events
  <2>3. Answer = "none" /\ Answer' = "Connected"
    BY <2>1, <2>2 DEF Answer
  <2> QED
    BY <2>1, <2>2, <2>3 DEF Promise!Succeed, Promise!Next
<1>12. CASE TellRefused
  <2>1. /\ connector = "refused" /\ connector' = "wake" /\ UNCHANGED <<fd, accepted>>
        /\ told' = [told EXCEPT !["ErrorOccurred"] = IF @ < 2 THEN @ + 1 ELSE @]
    BY <1>12 DEF TellRefused, Socket!Tell, muxVars
  <2>2. told["OpenCompleted"] = 0 /\ told'["OpenCompleted"] = 0 /\ fd = "none"
    BY <1>0, <2>1 DEF Switched, Truth, SocketTyped, Socket!Events
  <2>3. Answer = "none" /\ Answer' = "Failed"
    BY <2>1, <2>2 DEF Answer
  <2> QED
    BY <2>1, <2>2, <2>3 DEF Promise!Fail, Promise!Next
<1>13. CASE Wake
  <2>1. /\ connector = "wake" /\ connector' = "done" /\ UNCHANGED <<fd, told, accepted>>
    BY <1>0, <1>13, CallbackSteps DEF Wake
  <2>2. asked' = asked /\ Answer' = Answer
    BY <2>1 DEF Answer
  <2> QED
    BY <1>1, <2>1, <2>2
<1>14. CASE CallbackReturns
  BY <1>0, <1>2, <1>14, CallbackSteps DEF socketVars
<1>15. CASE UNCHANGED vars
  BY <1>2, <1>15 DEF vars, socketVars, muxVars
<1>16. CASE WriteKilled
  BY <1>0, <1>2, <1>16, KilledSteps DEF socketVars
<1> QED
  BY <1>3, <1>4, <1>5, <1>6, <1>7, <1>8, <1>9, <1>10, <1>11, <1>12, <1>13, <1>14, <1>15, <1>16
  DEF Next, Daemon, ConnectorThread, SocketSide

\* UsbmuxdSocket implements Dial: whatever the user calls meanwhile and whenever the
\* peer speaks, connect() is answered at most once, with the descriptor of a
\* connection usbmuxd has made or without one.
THEOREM DialRefinement == Spec => DialSpec
<1> QED
  BY Invariance, InitDial, StepDial, PTL DEF Spec, DialSpec, Promise!Spec
=============================================================================
